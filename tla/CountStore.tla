----------------------------- MODULE CountStore -----------------------------
(***************************************************************************)
(* What a spilled tile store promises its callers                          *)
(* (crates/xyg-engine/src/tile_store.rs): every open store is a table of   *)
(* cell counts.  Only an append changes a count, one cell and one          *)
(* saturating increment at a time, and the store's paint generation moves  *)
(* before the first of them.  Residency, eviction, write-back, budgets and *)
(* I/O errors do not show.  TileStore is shown to implement this module,   *)
(* and TilePainter is built on it.                                         *)
(***************************************************************************)
EXTENDS Naturals

CONSTANTS
    Stores,     \* the store handles
    Cells,      \* the grid cells of the pyramid, all levels together
    CountMax,   \* the largest count a cell holds (u32::MAX)
    Pyramids    \* the cell counts a store may be built with

VARIABLES
    live,           \* the open stores
    counts,         \* counts[s][c]: the count of cell c of store s
    generation,     \* generation[s]: TileStore::paint_generation
    nextGeneration, \* PAINT_GENERATION, the process-wide generation counter
    appending       \* appending[s]: an append on s is in progress

vars == <<live, counts, generation, nextGeneration, appending>>

Counts == 0..CountMax
NoCounts == [c \in Cells |-> 0]

\* u32::saturating_add(1)
SatInc(n) == IF n < CountMax THEN n + 1 ELSE n

Init ==
    /\ live = {}
    /\ counts = [s \in Stores |-> NoCounts]
    /\ generation = [s \in Stores |-> 0]
    /\ nextGeneration = 1
    /\ appending = [s \in Stores |-> FALSE]

\* A built pyramid becomes a store of its own, under a generation of its own.
Open(s) ==
    /\ s \notin live
    /\ live' = live \cup {s}
    /\ \E p \in Pyramids : counts' = [counts EXCEPT ![s] = p]
    /\ generation' = [generation EXCEPT ![s] = nextGeneration]
    /\ nextGeneration' = nextGeneration + 1
    /\ UNCHANGED appending

Close(s) ==
    /\ s \in live
    /\ ~appending[s]
    /\ live' = live \ {s}
    /\ counts' = [counts EXCEPT ![s] = NoCounts]
    /\ UNCHANGED <<generation, nextGeneration, appending>>

\* An accepted batch invalidates every texture painted so far.
BeginAppend(s) ==
    /\ s \in live
    /\ ~appending[s]
    /\ appending' = [appending EXCEPT ![s] = TRUE]
    /\ generation' = [generation EXCEPT ![s] = nextGeneration]
    /\ nextGeneration' = nextGeneration + 1
    /\ UNCHANGED <<live, counts>>

Land(s, c) ==
    /\ appending[s]
    /\ counts' = [counts EXCEPT ![s][c] = SatInc(@)]
    /\ UNCHANGED <<live, generation, nextGeneration, appending>>

\* The append returns, having landed all of its batch or, on an I/O error, a
\* prefix of it.
EndAppend(s) ==
    /\ appending[s]
    /\ appending' = [appending EXCEPT ![s] = FALSE]
    /\ UNCHANGED <<live, counts, generation, nextGeneration>>

Next ==
    \E s \in Stores :
        \/ Open(s)
        \/ Close(s)
        \/ BeginAppend(s)
        \/ EndAppend(s)
        \/ \E c \in Cells : Land(s, c)

Spec == Init /\ [][Next]_vars
=============================================================================
