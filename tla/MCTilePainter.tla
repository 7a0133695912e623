---------------------------- MODULE MCTilePainter ----------------------------
(***************************************************************************)
(* Three levels: two finest tiles side by side, one tile over both, and one *)
(* over everything; all of them show the cell that appends change.         *)
(***************************************************************************)
EXTENDS TilePainter, TLC

CONSTANTS f0, f1, mid, all, cell, left, right, whole

MCTiles == {f0, f1, mid, all}
MCLevelOf == (f0 :> 0) @@ (f1 :> 0) @@ (mid :> 1) @@ (all :> 2)
MCCells == {cell}
MCShown == [k \in MCTiles |-> MCCells]
MCBytes == (f0 :> 2) @@ (f1 :> 2) @@ (mid :> 2) @@ (all :> 1)
MCWindows == {left, right, whole}
MCWanted == (left :> 0) @@ (right :> 0) @@ (whole :> 2)
MCActive == (left :> {f0, mid, all}) @@ (right :> {f1, mid, all}) @@ (whole :> MCTiles)
MCPyramids == {[c \in MCCells |-> 0]}
=============================================================================
