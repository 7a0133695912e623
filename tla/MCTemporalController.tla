------------------------ MODULE MCTemporalController ------------------------
(* Small integers for TLC: an "i64" of -5..4, and a domain well inside it.  *)
EXTENDS TemporalController

MCMin == -5
MCInside == {[start |-> -2, end |-> 2]}
MCTimes == -3..3
MCEventTimes == {-3, 0, 2}
MCWidths == {0, 2, 3}
MCSteps == {3}
MCRates == {1, 3}
MCElapsed == {2, 4}
MCSelections == {{}, {1}, {1, 2}}
=============================================================================
