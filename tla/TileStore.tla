------------------------------ MODULE TileStore ------------------------------
(***************************************************************************)
(* The disk-resident tile stores (crates/xyg-engine/src/tile_store.rs).    *)
(* Each store keeps its tiles in a spill file and faults them into RAM     *)
(* under one process-wide byte budget.  A call on a store (compose, paint, *)
(* fetch, append) holds the operation lock from start to end, so one call  *)
(* runs at a time; budget_set takes no lock and may fall between any two   *)
(* steps of it.  A step is one pass of the eviction loop, one tile fetch   *)
(* or one return; every read and write of the file may fail.               *)
(*                                                                         *)
(* The 256 x 256 cells of a tile are abstracted to the few cells the       *)
(* properties tell apart, and a window to the cells it reads, tile by tile.*)
(***************************************************************************)
EXTENDS Integers, Sequences, FiniteSets, FiniteSetsExt

CONSTANTS
    Stores,         \* the store handles
    Keys,           \* the tiles (level, tx, ty) of a pyramid
    Cells,          \* the cells of all its levels
    Levels,         \* its levels
    KeyOf,          \* KeyOf[c]: the tile of cell c
    LevelOf,        \* LevelOf[c]: the level of cell c
    CountMax,       \* u32::MAX
    Torn,           \* what a write that failed half way leaves in a slab
    Pyramids,       \* the cell counts a pyramid may be built with
    Windows,        \* Windows[s]: a window as the cells one gather_rect reads
    Children,       \* Children[c]: the finer cells that cell c sums
    Batches,        \* Batches[s]: an accepted batch as the cells it increments,
                    \* point after point, finest level first
    TileBytes,      \* TileBytes[s]: tile_bytes(), larger for a colored store
    Budgets,        \* the arguments of budget_set
    DefaultBudget   \* DEFAULT_RESIDENT_BUDGET_BYTES

Counts == 0..CountMax

ASSUME ConstantsAssumption ==
    /\ KeyOf \in [Cells -> Keys]
    /\ LevelOf \in [Cells -> Levels]
    /\ Children \in [Cells -> SUBSET Cells]
    /\ CountMax \in Nat
    /\ Torn \notin Counts
    /\ Pyramids \subseteq [Cells -> Counts]
    /\ TileBytes \in [Stores -> Nat \ {0}]
    /\ Budgets \subseteq Nat
    /\ DefaultBudget \in Nat
    /\ \A s \in Stores : Windows[s] \subseteq Seq(Cells)
    /\ \A s \in Stores : Batches[s] \subseteq Seq(Cells)

ASSUME FiniteAssumption == IsFiniteSet(Keys) /\ IsFiniteSet(Cells) /\ IsFiniteSet(Stores)

VARIABLES
    live,           \* the registered stores
    resident,       \* resident[s]: the tiles of s in RAM
    dirty,          \* dirty[s]: those newer in RAM than in the file
    lastUsed,       \* lastUsed[s][k]: the tick of the last fetch of k
    ram,            \* ram[s][c]: the count of a cell of a resident tile
    disk,           \* disk[s][c]: the count of a cell in the spill file
    paintMaxima,    \* paintMaxima[s][l]: the largest count of level l
    generation,     \* generation[s]: paint_generation
    overBudget,     \* the stores whose over_budget flag is set
    globalResident, \* GLOBAL_RESIDENT
    globalTick,     \* GLOBAL_TICK
    nextGeneration, \* PAINT_GENERATION
    budget,         \* RESIDENT_BUDGET
    call,           \* the call in progress, "none" between calls
    self,           \* the store it runs on
    phase,          \* where it is: "fetch", "admit", "finish" or "failed"
    todo,           \* the cells it has still to fetch the tile of
    pinned,         \* the tiles its gather pins
    later,          \* the gathers a paint call has still to start
    partial         \* history: stores on which an append failed part way

storeVars == <<live, resident, dirty, lastUsed, ram, disk, paintMaxima>>
poolVars == <<globalResident, globalTick>>
genVars == <<generation, nextGeneration>>
callVars == <<call, self, phase, todo, pinned, later>>
vars == <<storeVars, poolVars, genVars, callVars, overBudget, budget, partial>>

Calls == {"none", "compose", "paint", "fetch_into", "append"}
NoCounts == [c \in Cells |-> 0]

TileCells(k) == {c \in Cells : KeyOf[c] = k}

\* f with the cells of tile k taken from g.
WithTile(f, k, g) == [c \in Cells |-> IF KeyOf[c] = k THEN g[c] ELSE f[c]]

\* Mutant: a plain addition.
SatIncWraps(n) == n + 1

\* u32::saturating_add(1)
SatInc(n) == IF n < CountMax THEN n + 1 ELSE n

Larger(m, n) == IF m < n THEN n ELSE m

LevelMax(counts, l) == Max({0} \cup {counts[c] : c \in {d \in Cells : LevelOf[d] = l}})

\* u64::min(u32::MAX)
Saturated(n) == IF n < CountMax THEN n ELSE CountMax

\* reduce_level: a coarser cell is the saturated sum of the cells under it.
Reduced(counts) ==
    \A c \in Cells : Children[c] # {} =>
        counts[c] = Saturated(SumFunctionOnSet(counts, Children[c]))

ASSUME PyramidsAssumption == \A p \in Pyramids : Reduced(p)

\* A point increments one cell on every level, halving its coordinates from a
\* level to the next.
Occurrences(w, c) == Cardinality({i \in DOMAIN w : w[i] = c})

ASSUME BatchesAssumption ==
    \A s \in Stores : \A w \in Batches[s], c \in Cells : Children[c] # {} =>
        Occurrences(w, c) = SumFunctionOnSet([d \in Cells |-> Occurrences(w, d)], Children[c])

Init ==
    /\ live = {}
    /\ resident = [s \in Stores |-> {}]
    /\ dirty = [s \in Stores |-> {}]
    /\ lastUsed = [s \in Stores |-> [k \in Keys |-> 0]]
    /\ ram = [s \in Stores |-> NoCounts]
    /\ disk = [s \in Stores |-> NoCounts]
    /\ paintMaxima = [s \in Stores |-> [l \in Levels |-> 0]]
    /\ generation = [s \in Stores |-> 0]
    /\ overBudget = {}
    /\ globalResident = 0
    /\ globalTick = 0
    /\ nextGeneration = 1
    /\ budget = DefaultBudget
    /\ call = "none"
    /\ self \in Stores
    /\ phase = "finish"
    /\ todo = <<>>
    /\ pinned = {}
    /\ later = <<>>
    /\ partial = {}

-----------------------------------------------------------------------------
(* The budget and the registry. *)

\* budget_set: 0 restores the default.
BudgetSet ==
    /\ \E b \in Budgets : budget' = IF b = 0 THEN DefaultBudget ELSE b
    /\ UNCHANGED <<storeVars, poolVars, genVars, callVars, overBudget, partial>>

\* TileStore::spill writes every slab of a built pyramid and leaves nothing in
\* RAM; reg_insert registers the store.  A spill that fails leaves no store.
Spill(s) ==
    /\ call = "none"
    /\ s \notin live
    /\ live' = live \cup {s}
    /\ \E p \in Pyramids :
        /\ disk' = [disk EXCEPT ![s] = p]
        /\ paintMaxima' = [paintMaxima EXCEPT ![s] = [l \in Levels |-> LevelMax(p, l)]]
    /\ generation' = [generation EXCEPT ![s] = nextGeneration]
    /\ nextGeneration' = nextGeneration + 1
    /\ overBudget' = overBudget \ {s}
    /\ partial' = partial \ {s}
    /\ UNCHANGED <<resident, dirty, lastUsed, ram, poolVars, callVars, budget>>

\* reg_remove drops the last reference: RAM and file go, dirty tiles too.
Remove(s) ==
    /\ call = "none"
    /\ s \in live
    /\ live' = live \ {s}
    /\ globalResident' = globalResident - TileBytes[s] * Cardinality(resident[s])
    /\ resident' = [resident EXCEPT ![s] = {}]
    /\ dirty' = [dirty EXCEPT ![s] = {}]
    /\ ram' = [ram EXCEPT ![s] = NoCounts]
    /\ disk' = [disk EXCEPT ![s] = NoCounts]
    /\ UNCHANGED <<lastUsed, paintMaxima, globalTick, genVars, callVars,
                   overBudget, budget, partial>>

-----------------------------------------------------------------------------
(* The start of a call: its arguments are checked, begin_frame clears the   *)
(* flag, and a refused argument returns without touching anything.          *)

BeginFrame(s, name) ==
    /\ call = "none"
    /\ s \in live
    /\ call' = name
    /\ self' = s
    /\ phase' = "fetch"
    /\ overBudget' = overBudget \ {s}
    /\ UNCHANGED <<storeVars, poolVars, budget, partial>>

Tiles(cells) == {KeyOf[cells[i]] : i \in DOMAIN cells}

\* compose and compose_color gather one window, all of its tiles pinned.
BeginCompose(s) ==
    /\ BeginFrame(s, "compose")
    /\ \E w \in Windows[s] : todo' = w /\ pinned' = Tiles(w)
    /\ later' = <<>>
    /\ UNCHANGED genVars

\* paint_frame gathers the tile and halo of one active key after the other,
\* each gather with pins of its own.
BeginPaint(s) ==
    /\ BeginFrame(s, "paint")
    /\ \E w1, w2 \in Windows[s] :
        /\ todo' = w1
        /\ pinned' = Tiles(w1)
        /\ later' \in {<<>>, <<w2>>}
    /\ UNCHANGED genVars

\* fetch_into fetches one tile and pins nothing.
BeginFetchInto(s) ==
    /\ BeginFrame(s, "fetch_into")
    /\ \E c \in Cells : (\E w \in Windows[s] : c \in {w[i] : i \in DOMAIN w}) /\ todo' = <<c>>
    /\ pinned' = {}
    /\ later' = <<>>
    /\ UNCHANGED genVars

\* Mutant: the paint generation stays.
BeginAppendSameGeneration(s) ==
    /\ BeginFrame(s, "append")
    /\ todo' \in Batches[s]
    /\ pinned' = {}
    /\ later' = <<>>
    /\ UNCHANGED genVars

\* append invalidates the paint generation before the first cell changes.  Its
\* only pin is the tile being fetched, which is never evicted while missing.
BeginAppend(s) ==
    /\ BeginFrame(s, "append")
    /\ todo' \in Batches[s]
    /\ pinned' = {}
    /\ later' = <<>>
    /\ generation' = [generation EXCEPT ![s] = nextGeneration]
    /\ nextGeneration' = nextGeneration + 1

-----------------------------------------------------------------------------
(* Eviction. *)

Fits(headroom) == globalResident + headroom <= budget

OwnUnpinned == {self} \X (resident[self] \ pinned)
SiblingTiles == UNION {{s} \X resident[s] : s \in live \ {self}}

Tick(t) == lastUsed[t[1]][t[2]]

\* lru_candidate: the least recently fetched, if there is one.
Oldest(tiles) == {t \in tiles : \A u \in tiles : Tick(t) <= Tick(u)}

\* Mutant: a store looks at its siblings only when it has nothing to evict.
VictimsOwnFirst ==
    LET own == Oldest(OwnUnpinned) IN IF own = {} THEN Oldest(SiblingTiles) ELSE own

\* The caller's oldest unpinned tile, or an older one of another store.
Victims ==
    LET own == Oldest(OwnUnpinned)
        sibling == Oldest(SiblingTiles)
    IN  IF own = {} \/ \E t \in own, u \in sibling : Tick(u) < Tick(t)
        THEN sibling
        ELSE own

\* Mutant: the tile leaves RAM unwritten.
EvictUnwritten(t) ==
    LET s == t[1]
        k == t[2]
    IN  /\ resident' = [resident EXCEPT ![s] = @ \ {k}]
        /\ dirty' = [dirty EXCEPT ![s] = @ \ {k}]
        /\ ram' = [ram EXCEPT ![s] = WithTile(@, k, NoCounts)]
        /\ globalResident' = globalResident - TileBytes[s]
        /\ UNCHANGED <<live, lastUsed, disk, paintMaxima, globalTick>>

\* A dirty tile is written back first, and leaves RAM only once it is.
Evict(t) ==
    LET s == t[1]
        k == t[2]
    IN  /\ disk' = [disk EXCEPT ![s] = IF k \in dirty[s] THEN WithTile(@, k, ram[s]) ELSE @]
        /\ resident' = [resident EXCEPT ![s] = @ \ {k}]
        /\ dirty' = [dirty EXCEPT ![s] = @ \ {k}]
        /\ ram' = [ram EXCEPT ![s] = WithTile(@, k, NoCounts)]
        /\ globalResident' = globalResident - TileBytes[s]
        /\ UNCHANGED <<live, lastUsed, paintMaxima, globalTick>>

\* Mutant: the flag is cleared before the write is known to have worked.
WriteBackFailsClean(t) ==
    LET s == t[1]
        k == t[2]
    IN  /\ k \in dirty[s]
        /\ dirty' = [dirty EXCEPT ![s] = @ \ {k}]
        /\ disk' \in {disk, [disk EXCEPT ![s] = WithTile(@, k, [c \in Cells |-> Torn])]}
        /\ UNCHANGED <<live, resident, lastUsed, ram, paintMaxima, poolVars>>

\* The write-back of a dirty tile fails, with the slab untouched or torn.
WriteBackFails(t) ==
    LET s == t[1]
        k == t[2]
    IN  /\ k \in dirty[s]
        /\ disk' \in {disk, [disk EXCEPT ![s] = WithTile(@, k, [c \in Cells |-> Torn])]}
        /\ UNCHANGED <<live, resident, dirty, lastUsed, ram, paintMaxima, poolVars>>

-----------------------------------------------------------------------------
(* fetch: a hit, or the eviction loop, the over-budget record and the read. *)

Missing == phase = "fetch" /\ todo # <<>> /\ KeyOf[Head(todo)] \notin resident[self]

\* The call releases its pins and cleans up before it returns the error; an
\* append has then landed a prefix of its batch.
Fail ==
    /\ phase' = "failed"
    /\ todo' = <<>>
    /\ pinned' = {}
    /\ later' = <<>>
    /\ partial' = IF call = "append" THEN partial \cup {self} ELSE partial
    /\ UNCHANGED <<call, self>>

\* Hand the tile of Head(todo), resident with the counts in cells, to the call:
\* a gather copies it, an append increments its cell and marks it dirty.
UseTile(cells) ==
    LET c == Head(todo)
        k == KeyOf[c]
        n == SatInc(cells[c])
    IN  /\ todo' = Tail(todo)
        /\ IF call = "append"
           THEN /\ ram' = [ram EXCEPT ![self] = [cells EXCEPT ![c] = n]]
                /\ dirty' = [dirty EXCEPT ![self] = @ \cup {k}]
                /\ paintMaxima' = [paintMaxima EXCEPT ![self][LevelOf[c]] = Larger(@, n)]
           ELSE /\ ram' = [ram EXCEPT ![self] = cells]
                /\ UNCHANGED <<dirty, paintMaxima>>

Stamp(k) ==
    /\ globalTick' = globalTick + 1
    /\ lastUsed' = [lastUsed EXCEPT ![self][k] = globalTick + 1]

FetchHit ==
    /\ phase = "fetch"
    /\ todo # <<>>
    /\ KeyOf[Head(todo)] \in resident[self]
    /\ Stamp(KeyOf[Head(todo)])
    /\ UseTile(ram[self])
    /\ UNCHANGED <<live, resident, disk, globalResident, genVars, call, self, phase,
                   pinned, later, overBudget, budget, partial>>

EvictForAdmission ==
    /\ Missing
    /\ ~Fits(TileBytes[self])
    /\ \E t \in Victims : Evict(t)
    /\ UNCHANGED <<genVars, callVars, overBudget, budget, partial>>

EvictForAdmissionFails ==
    /\ Missing
    /\ ~Fits(TileBytes[self])
    /\ \E t \in Victims : WriteBackFails(t)
    /\ Fail
    /\ UNCHANGED <<genVars, overBudget, budget>>

\* Mutant: the loop goes on until the tile fits.
LoopExitWhenFits ==
    /\ Missing
    /\ Fits(TileBytes[self])
    /\ phase' = "admit"
    /\ UNCHANGED <<storeVars, poolVars, genVars, call, self, todo, pinned, later,
                   overBudget, budget, partial>>

LoopExit ==
    /\ Missing
    /\ Fits(TileBytes[self]) \/ Victims = {}
    /\ phase' = "admit"
    /\ UNCHANGED <<storeVars, poolVars, genVars, call, self, todo, pinned, later,
                   overBudget, budget, partial>>

\* After the loop the budget is read again, only to record that it is exceeded.
RecordOverBudget ==
    overBudget' = IF Fits(TileBytes[self]) THEN overBudget ELSE overBudget \cup {self}

Admit ==
    LET k == KeyOf[Head(todo)]
    IN  /\ phase = "admit"
        /\ RecordOverBudget
        /\ Stamp(k)
        /\ resident' = [resident EXCEPT ![self] = @ \cup {k}]
        /\ globalResident' = globalResident + TileBytes[self]
        /\ UseTile(WithTile(ram[self], k, disk[self]))
        /\ phase' = "fetch"
        /\ UNCHANGED <<live, disk, genVars, call, self, pinned, later, budget, partial>>

\* The slab cannot be read: nothing is charged or inserted.
ReadFails ==
    /\ phase = "admit"
    /\ RecordOverBudget
    /\ Fail
    /\ UNCHANGED <<storeVars, poolVars, genVars, budget>>

-----------------------------------------------------------------------------
(* The end of a call: the pins release and residency returns to budget.     *)

NextGather ==
    /\ phase = "fetch"
    /\ todo = <<>>
    /\ IF later = <<>>
       THEN phase' = "finish" /\ pinned' = {} /\ UNCHANGED <<todo, later>>
       ELSE /\ todo' = Head(later)
            /\ pinned' = Tiles(Head(later))
            /\ later' = Tail(later)
            /\ UNCHANGED phase
    /\ UNCHANGED <<storeVars, poolVars, genVars, call, self, overBudget, budget, partial>>

Finishing == call # "none" /\ phase \in {"finish", "failed"}

Return ==
    /\ call' = "none"
    /\ phase' = "finish"
    /\ UNCHANGED <<self, todo, pinned, later>>

FinishEvict ==
    /\ Finishing
    /\ ~Fits(0)
    /\ \E t \in Victims : Evict(t)
    /\ UNCHANGED <<genVars, callVars, overBudget, budget, partial>>

\* finish_frame stops at the first error: the call's own, or the one that
\* finish_failed_frame drops in favour of the original.
FinishEvictFails ==
    /\ Finishing
    /\ ~Fits(0)
    /\ \E t \in Victims : WriteBackFails(t)
    /\ Return
    /\ UNCHANGED <<genVars, overBudget, budget, partial>>

FinishFrame ==
    /\ Finishing
    /\ Fits(0) \/ Victims = {}
    /\ Return
    /\ UNCHANGED <<storeVars, poolVars, genVars, overBudget, budget, partial>>

-----------------------------------------------------------------------------

Begin == \E s \in Stores : BeginCompose(s) \/ BeginPaint(s) \/ BeginFetchInto(s) \/ BeginAppend(s)

\* The steps of the call that holds the operation lock.
Running ==
    \/ FetchHit
    \/ EvictForAdmission
    \/ EvictForAdmissionFails
    \/ LoopExit
    \/ Admit
    \/ ReadFails
    \/ NextGather
    \/ FinishEvict
    \/ FinishEvictFails
    \/ FinishFrame

Next ==
    \/ BudgetSet
    \/ \E s \in Stores : Spill(s) \/ Remove(s)
    \/ Begin
    \/ Running

Spec == Init /\ [][Next]_vars

\* A thread inside a call keeps running; nobody is obliged to make one.
FairSpec == Spec /\ WF_vars(Running)

-----------------------------------------------------------------------------
(* Properties. *)

\* The type of every variable, as each step keeps it.
Typed ==
    /\ live \subseteq Stores
    /\ resident \in [Stores -> SUBSET Keys]
    /\ dirty \in [Stores -> SUBSET Keys]
    /\ lastUsed \in [Stores -> [Keys -> Nat]]
    /\ ram \in [Stores -> [Cells -> Counts]]
    /\ disk \in [Stores -> [Cells -> Counts \cup {Torn}]]
    /\ paintMaxima \in [Stores -> [Levels -> Counts]]
    /\ generation \in [Stores -> Nat]
    /\ overBudget \subseteq Stores
    /\ globalResident \in Int
    /\ globalTick \in Nat
    /\ nextGeneration \in Nat
    /\ budget \in Nat
    /\ call \in Calls
    /\ self \in Stores
    /\ phase \in {"fetch", "admit", "finish", "failed"}
    /\ todo \in Seq(Cells)
    /\ pinned \subseteq Keys
    /\ later \in Seq(Seq(Cells))
    /\ partial \subseteq Stores

\* GLOBAL_RESIDENT is a usize: no eviction or removal takes off more than is charged.
TypeOK == Typed /\ globalResident \in Nat

\* The count of a cell as a fetch of its tile would return it.
Count(s, c) == IF KeyOf[c] \in resident[s] THEN ram[s][c] ELSE disk[s][c]
CountsOf(s) == [c \in Cells |-> Count(s, c)]

\* Whatever is not a dirty tile in RAM is intact in the file: evicting a clean
\* tile, or faulting a missing one in, never loses an appended point, also
\* after failed and half-done writes ("the file always converges to the
\* appended truth").
FileHoldsCleanTiles ==
    \A s \in Stores :
        /\ dirty[s] \subseteq resident[s]
        /\ \A c \in Cells : KeyOf[c] \notin dirty[s] =>
              /\ disk[s][c] \in Counts
              /\ KeyOf[c] \in resident[s] => disk[s][c] = ram[s][c]

\* GLOBAL_RESIDENT is exactly what the tiles in RAM cost, over all stores and
\* through failed reads, failed write-backs and removals.
ResidentAccounting ==
    globalResident = SumFunctionOnSet([s \in Stores |-> TileBytes[s] * Cardinality(resident[s])], Stores)

\* The append path keeps the pyramid what a rebuild would make it: a coarse
\* cell is the saturated sum of the cells under it, unless an append failed
\* part way; and the scale a paint reply is encoded with is the true maximum
\* of its level, whatever part of the pyramid is in RAM.
LevelsAgree ==
    /\ \A s \in live \ partial : ~(call = "append" /\ self = s) => Reduced(CountsOf(s))
    /\ \A s \in live, l \in Levels : paintMaxima[s][l] = LevelMax(CountsOf(s), l)

\* What is kept beside the counts agrees with them: sums, maxima and the bytes
\* of the process, through every eviction, failed read and failed append.
TotalsAgree == LevelsAgree /\ ResidentAccounting

\* A call leaves residency above budget only when a dirty tile could not be
\* written back.
ReturnsWithinBudget ==
    [][call # "none" /\ call' = "none" /\ globalResident' > budget
         => \E s \in live : dirty[s] # {}]_vars

\* What leaves RAM is never pinned and is the least recently fetched of all
\* the unpinned tiles of all the stores.
EvictsGloballyOldest ==
    [][\A s \in live \cap live' : \A k \in resident[s] \ resident'[s] :
         LET unpinned == OwnUnpinned \cup SiblingTiles
         IN  <<s, k>> \in unpinned /\ \A u \in unpinned : Tick(<<s, k>>) <= Tick(u)]_vars

\* A call evicts what it must, and in the order it promises.
EvictsWhatItMust == ReturnsWithinBudget /\ EvictsGloballyOldest

\* A call returns, however the budget moves and whatever fails under it.
CallReturns == call # "none" ~> call = "none"

\* The stores implement the table of counts their callers see.
Promise == INSTANCE CountStore WITH
    counts <- [s \in Stores |-> CountsOf(s)],
    appending <- [s \in Stores |-> call = "append" /\ self = s]

ImplementsCountStore == Promise!Spec

\* Ticks and generations only grow and are only compared, so states that agree
\* on their order are the same state.
TickRank(s, k) ==
    IF k \in resident[s]
    THEN Cardinality({t \in UNION {{r} \X resident[r] : r \in Stores} : Tick(t) < lastUsed[s][k]})
    ELSE 0

View == <<live, resident, dirty, [s \in Stores |-> [k \in Keys |-> TickRank(s, k)]],
          ram, disk, paintMaxima, globalResident, budget, overBudget, callVars, partial>>
=============================================================================
