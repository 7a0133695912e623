------------------------- MODULE MCCoordinationGroup -------------------------
(* A few controllers of one group, one of them with a narrower domain.       *)
EXTENDS CoordinationGroup, TLC

MCMin == -5
MCWide == [start |-> 0, end |-> 3]
MCNarrow == [start |-> 0, end |-> 2]
MCDomains == <<{MCWide}, {MCWide}, {MCNarrow}>>
MCCursors == {2}
MCSelections == {{1}}
MCSymmetry == Permutations(Sources) \cup Permutations(Couriers)
=============================================================================
