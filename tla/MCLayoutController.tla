------------------------ MODULE MCLayoutController ------------------------
(* Three layouts of two chunks, the second of them without an on_update.   *)
EXTENDS LayoutController

MCRevisions == 1..3
MCWatched == {1, 3}
=============================================================================
