--------------------------- MODULE MCGeoSession ---------------------------
(* Two sessions over sources of two chunks.  A snapshot of the whole       *)
(* source and a later one of its second chunk; a process with room for one *)
(* session and a half.                                                     *)
EXTENDS GeoSession

CONSTANTS whole, later

MCSnapshots == {whole, later}
MCRevisionOf == [x \in MCSnapshots |-> IF x = later THEN 2 ELSE 1]
MCSelects == [x \in MCSnapshots |-> IF x = whole THEN {1, 2} ELSE {2}]
=============================================================================
