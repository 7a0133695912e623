--------------------------- MODULE MCGraphSession ---------------------------
(* One session and two temporal graphs it may move between; the first      *)
(* frame of a graph hides the node, the second shows it again.             *)
EXTENDS GraphSession

MCHidden == {1}
=============================================================================
