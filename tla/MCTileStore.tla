---------------------------- MODULE MCTileStore ----------------------------
(***************************************************************************)
(* Small stores for TLC.  A pyramid has a fine level of two tiles, f1 with *)
(* the cells a and b and f2 with the cell d, and a coarse level of one     *)
(* tile, with the cell ab over a and b and the cell dd over d.             *)
(***************************************************************************)
EXTENDS TileStore

MCCells == {"a", "b", "d", "ab", "dd"}
MCKeys == {"f1", "f2", "c"}
MCLevels == {0, 1}
MCKeyOf == [c \in MCCells |-> CASE c \in {"a", "b"} -> "f1" [] c = "d" -> "f2" [] OTHER -> "c"]
MCLevelOf == [c \in MCCells |-> IF c \in {"ab", "dd"} THEN 1 ELSE 0]
MCChildren == [c \in MCCells |-> CASE c = "ab" -> {"a", "b"} [] c = "dd" -> {"d"} [] OTHER -> {}]

MCPointAtA == [c \in MCCells |-> IF c \in {"a", "ab"} THEN 1 ELSE 0]

MCPyramids == {MCPointAtA}

\* Two stores that share the budget: p is count-only, q is colored, refuses
\* appends and pays three times as much per tile.  The batch saturates the
\* cell ab before b.  The default budget holds every tile of p but only one
\* of q; a budget of 1 is less than one tile of q, so q runs over it.
MCStores == {"p", "q"}
MCWindows == [s \in MCStores |-> IF s = "p" THEN {<<"a", "d">>} ELSE {<<"a">>, <<>>}]
MCBatches == [s \in MCStores |-> IF s = "p" THEN {<<"b", "ab", "d", "dd">>} ELSE {}]
MCTileBytes == [s \in MCStores |-> IF s = "p" THEN 1 ELSE 3]
MCBudgets == {1, 0}
=============================================================================
