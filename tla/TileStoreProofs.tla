--------------------------- MODULE TileStoreProofs ---------------------------
(***************************************************************************)
(* Type correctness of TileStore, the integrity of the spill files, the    *)
(* refinement of CountStore and the totals kept beside the counts, for     *)
(* every pyramid, budget and number of stores; then the lock order of      *)
(* TileStoreLocks, for any threads.                                        *)
(***************************************************************************)
EXTENDS TileStore, TileStoreLocks, Sums

\* What FileHoldsCleanTiles and the refinement need to be inductive: a tile
\* being admitted is not in RAM yet, a closed store has nothing in RAM, and a
\* call runs on an open store.
CallInv ==
    /\ phase \in {"fetch", "admit", "failed"} => call # "none"
    /\ call # "none" => self \in live
    /\ phase = "admit" => todo # <<>> /\ KeyOf[Head(todo)] \notin resident[self]
    /\ \A s \in Stores \ live : resident[s] = {}

IInv == Typed /\ CallInv /\ FileHoldsCleanTiles

USE DEF Counts, Calls

LEMMA InitIInv == Init => IInv
<1> SUFFICES ASSUME Init PROVE IInv
    OBVIOUS
<1>1. Typed
    BY ConstantsAssumption DEF Init, Typed, NoCounts
<1>2. CallInv
    BY DEF Init, CallInv
<1>3. FileHoldsCleanTiles
    BY ConstantsAssumption DEF Init, FileHoldsCleanTiles, NoCounts
<1> QED BY <1>1, <1>2, <1>3 DEF IInv

LEMMA SatIncType == \A n \in Counts : SatInc(n) \in Counts
BY ConstantsAssumption DEF SatInc

\* A level has a largest count.
LEMMA LargestIsMax ==
    ASSUME NEW S, S \subseteq Counts, S # {}
    PROVE  /\ Max(S) \in S /\ \A n \in S : n <= Max(S)
           /\ \A m \in S : (\A n \in S : n <= m) => Max(S) = m
<1> DEFINE Bounds == {m \in Nat : \A n \in S : n <= m}
<1>1. CountMax \in Bounds
    BY ConstantsAssumption
<1>2. PICK m \in Bounds : \A k \in Bounds : m <= k
    BY <1>1, LeastNat
<1>3. m \in S
    <2> SUFFICES ASSUME m \notin S PROVE FALSE
        OBVIOUS
    <2>1. \A n \in S : n \in Nat /\ n < m
        BY <1>2, ConstantsAssumption
    <2>2. m - 1 \in Nat /\ \A n \in S : n <= m - 1
        <3>1. PICK n \in S : n \in Nat /\ n < m
            BY <2>1
        <3>2. m \in Nat
            BY <1>2
        <3> QED BY <2>1, <3>1, <3>2
    <2> QED BY <1>2, <2>2
<1>4. \E x \in S : \A y \in S : x >= y
    BY <1>2, <1>3
<1>5. Max(S) \in S /\ \A y \in S : Max(S) >= y
    BY <1>4 DEF Max
<1>6. \A n \in S : n \in Nat
    BY ConstantsAssumption
<1> HIDE DEF Bounds
<1>7. \A k, n \in Nat : (k >= n <=> n <= k) /\ (k >= n /\ n >= k => k = n)
    OBVIOUS
<1>8. Max(S) \in S /\ Max(S) \in Nat /\ \A n \in S : n \in Nat /\ n <= Max(S)
    BY <1>5, <1>6, <1>7
<1>9. ASSUME NEW k \in S, \A n \in S : n <= k PROVE Max(S) = k
    BY <1>7, <1>8, <1>9
<1> QED BY <1>8, <1>9

LEMMA LevelMaxType ==
    ASSUME NEW counts \in [Cells -> Counts], NEW l \in Levels
    PROVE  /\ LevelMax(counts, l) \in Counts
           /\ \A c \in Cells : LevelOf[c] = l => counts[c] <= LevelMax(counts, l)
           /\ \A m \in Counts :
                 /\ m = 0 \/ \E c \in Cells : LevelOf[c] = l /\ counts[c] = m
                 /\ \A c \in Cells : LevelOf[c] = l => counts[c] <= m
                 => LevelMax(counts, l) = m
           /\ LevelMax(counts, l) = 0 \/ \E c \in Cells : LevelOf[c] = l /\ counts[c] = LevelMax(counts, l)
<1> DEFINE S == {0} \cup {counts[c] : c \in {d \in Cells : LevelOf[d] = l}}
<1>1. S \subseteq Counts /\ S # {}
    BY ConstantsAssumption
<1>2. LevelMax(counts, l) = Max(S)
    BY DEF LevelMax
<1> HIDE DEF S
<1>3. /\ Max(S) \in S /\ \A n \in S : n <= Max(S)
      /\ \A m \in S : (\A n \in S : n <= m) => Max(S) = m
    BY <1>1, LargestIsMax
<1>4. ASSUME NEW m \in Counts, m = 0 \/ \E c \in Cells : LevelOf[c] = l /\ counts[c] = m,
             \A c \in Cells : LevelOf[c] = l => counts[c] <= m
      PROVE  Max(S) = m
    <2>1. m \in S
        BY <1>4 DEF S
    <2>2. \A n \in S : n <= m
        BY <1>4, ConstantsAssumption DEF S
    <2> QED BY <1>3, <2>1, <2>2
<1>5. \A c \in Cells : LevelOf[c] = l => counts[c] \in S
    BY DEF S
<1>6. Max(S) = 0 \/ \E c \in Cells : LevelOf[c] = l /\ counts[c] = Max(S)
    BY <1>3 DEF S
<1> QED BY <1>1, <1>2, <1>3, <1>4, <1>5, <1>6

LEMMA WithTileType ==
    ASSUME NEW T, NEW f \in [Cells -> T], NEW g \in [Cells -> T], NEW k \in Keys
    PROVE  WithTile(f, k, g) \in [Cells -> T]
BY DEF WithTile

\* What is evicted is a tile of an open store.
LEMMA VictimsResident ==
    ASSUME Typed, self \in live, NEW t \in Victims
    PROVE  \E s \in live : \E k \in resident[s] : t = <<s, k>>
<1>1. Victims \subseteq OwnUnpinned \cup SiblingTiles
    BY DEF Victims, Oldest
<1>2. CASE t \in OwnUnpinned
    BY <1>2 DEF OwnUnpinned
<1>3. CASE t \in SiblingTiles
    BY <1>3 DEF SiblingTiles
<1> QED BY <1>1, <1>2, <1>3

\* A fetched tile, handed to its call, differs from its slab only if it is
\* marked dirty.
LEMMA UseTileFacts ==
    ASSUME Typed, todo # <<>>, NEW cells \in [Cells -> Counts], UseTile(cells)
    PROVE  /\ todo' \in Seq(Cells)
           /\ ram' \in [Stores -> [Cells -> Counts]]
           /\ dirty' \in [Stores -> SUBSET Keys]
           /\ paintMaxima' \in [Stores -> [Levels -> Counts]]
           /\ \A s \in Stores : dirty[s] \subseteq dirty'[s]
           /\ dirty'[self] \subseteq dirty[self] \cup {KeyOf[Head(todo)]}
           /\ \A s \in Stores \ {self} : ram'[s] = ram[s] /\ dirty'[s] = dirty[s]
           /\ \A c \in Cells : KeyOf[c] \notin dirty'[self] => ram'[self][c] = cells[c]
<1> DEFINE c == Head(todo)
           n == SatInc(cells[c])
<1>1. c \in Cells /\ Tail(todo) \in Seq(Cells) /\ KeyOf[c] \in Keys /\ LevelOf[c] \in Levels
    BY ConstantsAssumption DEF Typed
<1>2. n \in Counts
    BY <1>1, SatIncType
<1>3. Larger(paintMaxima[self][LevelOf[c]], n) \in Counts
    BY <1>1, <1>2 DEF Larger, Typed
<1>4. CASE call = "append"
    <2>1. /\ ram' = [ram EXCEPT ![self] = [cells EXCEPT ![c] = n]]
          /\ dirty' = [dirty EXCEPT ![self] = @ \cup {KeyOf[c]}]
          /\ paintMaxima' = [paintMaxima EXCEPT ![self][LevelOf[c]] = Larger(@, n)]
          /\ todo' = Tail(todo)
        BY <1>4 DEF UseTile
    <2>2. self \in Stores /\ ram \in [Stores -> [Cells -> Counts]] /\ dirty \in [Stores -> SUBSET Keys]
        BY DEF Typed
    <2>3. [cells EXCEPT ![c] = n] \in [Cells -> Counts]
        BY <1>2
    <2>4. ram' \in [Stores -> [Cells -> Counts]]
        BY <2>1, <2>2, <2>3
    <2>5. paintMaxima' \in [Stores -> [Levels -> Counts]]
        BY <1>1, <1>3, <2>1, <2>2 DEF Typed
    <2>6. /\ dirty' \in [Stores -> SUBSET Keys]
          /\ \A s \in Stores : dirty[s] \subseteq dirty'[s]
          /\ dirty'[self] = dirty[self] \cup {KeyOf[c]}
          /\ \A s \in Stores \ {self} : ram'[s] = ram[s] /\ dirty'[s] = dirty[s]
        BY <1>1, <2>1, <2>2
    <2>7. \A d \in Cells : KeyOf[d] \notin dirty'[self] => ram'[self][d] = cells[d]
        <3>1. ram'[self] = [cells EXCEPT ![c] = n]
            BY <2>1, <2>2
        <3>2. \A d \in Cells : KeyOf[d] \notin dirty'[self] => d # c
            BY <2>6
        <3> QED BY <3>1, <3>2
    <2> QED BY <1>1, <2>1, <2>4, <2>5, <2>6, <2>7
<1>5. CASE call # "append"
    <2>1. /\ ram' = [ram EXCEPT ![self] = cells]
          /\ UNCHANGED <<dirty, paintMaxima>>
          /\ todo' = Tail(todo)
        BY <1>5 DEF UseTile
    <2> QED BY <1>1, <2>1 DEF Typed
<1> QED BY <1>4, <1>5

-----------------------------------------------------------------------------
(* The invariant, action by action. *)

LEMMA SpillIInv ==
    ASSUME IInv, NEW s \in Stores, Spill(s) PROVE IInv'
<1>1. PICK p \in Pyramids :
        /\ disk' = [disk EXCEPT ![s] = p]
        /\ paintMaxima' = [paintMaxima EXCEPT ![s] = [l \in Levels |-> LevelMax(p, l)]]
    BY DEF Spill
<1>2. resident[s] = {} /\ dirty[s] = {}
    BY DEF Spill, IInv, CallInv, FileHoldsCleanTiles
<1>3. p \in [Cells -> Counts] /\ [l \in Levels |-> LevelMax(p, l)] \in [Levels -> Counts]
    BY ConstantsAssumption, LevelMaxType
<1>4. Typed'
    BY <1>1, <1>3 DEF Spill, IInv, Typed, poolVars, callVars
<1>5. CallInv'
    BY DEF Spill, IInv, CallInv, callVars
<1>6. FileHoldsCleanTiles'
    BY <1>1, <1>2, <1>3 DEF Spill, IInv, Typed, FileHoldsCleanTiles
<1> QED BY <1>4, <1>5, <1>6 DEF IInv

LEMMA RemoveIInv ==
    ASSUME IInv, NEW s \in Stores, Remove(s) PROVE IInv'
<1>1. Cardinality(resident[s]) \in Nat
    BY FiniteAssumption, FS_Subset, FS_CardinalityType DEF IInv, Typed
<1>2. globalResident' \in Int
    BY <1>1, ConstantsAssumption DEF Remove, IInv, Typed
<1>3. Typed'
    BY <1>2, ConstantsAssumption DEF Remove, IInv, Typed, NoCounts, genVars, callVars
<1>4. CallInv'
    BY DEF Remove, IInv, Typed, CallInv, callVars
<1>5. FileHoldsCleanTiles'
    BY ConstantsAssumption DEF Remove, IInv, Typed, FileHoldsCleanTiles, NoCounts
<1> QED BY <1>3, <1>4, <1>5 DEF IInv

LEMMA BeginIInv ==
    ASSUME IInv, NEW s \in Stores,
           BeginCompose(s) \/ BeginPaint(s) \/ BeginFetchInto(s) \/ BeginAppend(s)
    PROVE  IInv'
<1>1. /\ s \in live
      /\ call' \in Calls \ {"none"}
      /\ self' = s
      /\ phase' = "fetch"
      /\ overBudget' = overBudget \ {s}
      /\ UNCHANGED <<storeVars, poolVars, budget, partial>>
    BY DEF BeginCompose, BeginPaint, BeginFetchInto, BeginAppend, BeginFrame
<1>2. ASSUME NEW w \in Seq(Cells) PROVE Tiles(w) \subseteq Keys
    BY ConstantsAssumption DEF Tiles
<1>3. todo' \in Seq(Cells) /\ pinned' \subseteq Keys /\ later' \in Seq(Seq(Cells))
    <2>1. CASE BeginCompose(s)
        BY <2>1, <1>2, ConstantsAssumption DEF BeginCompose
    <2>2. CASE BeginPaint(s)
        <3>1. PICK w1 \in Windows[s] : \E w2 \in Windows[s] :
                /\ todo' = w1
                /\ pinned' = Tiles(w1)
                /\ later' \in {<<>>, <<w2>>}
            BY <2>2 DEF BeginPaint
        <3>2. Windows[s] \subseteq Seq(Cells)
            BY ConstantsAssumption
        <3>3. todo' \in Seq(Cells) /\ pinned' \subseteq Keys
            BY <3>1, <3>2, <1>2
        <3>4. PICK w2 \in Windows[s] : later' \in {<<>>, <<w2>>}
            BY <3>1
        <3>5. later' \in Seq(Seq(Cells))
            <4>1. ASSUME NEW S, NEW x \in S PROVE <<>> \in Seq(S) /\ <<x>> \in Seq(S)
                OBVIOUS
            <4>2. w2 \in Seq(Cells)
                BY <3>2
            <4> QED BY <3>4, <4>1, <4>2
        <3> QED BY <3>3, <3>5
    <2>3. CASE BeginFetchInto(s)
        BY <2>3 DEF BeginFetchInto
    <2>4. CASE BeginAppend(s)
        <3>1. Batches[s] \subseteq Seq(Cells)
            BY ConstantsAssumption
        <3> QED BY <2>4, <3>1 DEF BeginAppend
    <2> QED BY <2>1, <2>2, <2>3, <2>4
<1>4. generation' \in [Stores -> Nat] /\ nextGeneration' \in Nat
    <2>1. generation \in [Stores -> Nat] /\ nextGeneration \in Nat
        BY DEF IInv, Typed
    <2>2. CASE BeginAppend(s)
        BY <2>1, <2>2 DEF BeginAppend
    <2>3. CASE BeginCompose(s) \/ BeginPaint(s) \/ BeginFetchInto(s)
        BY <2>1, <2>3 DEF BeginCompose, BeginPaint, BeginFetchInto, genVars
    <2> QED BY <2>2, <2>3
<1>5. Typed'
    <2>1. Typed
        BY DEF IInv
    <2>2. overBudget' \subseteq Stores /\ call' \in Calls /\ self' \in Stores
        BY <1>1, <2>1 DEF Typed
    <2> QED BY <1>1, <1>3, <1>4, <2>1, <2>2 DEF Typed, storeVars, poolVars
<1>6. CallInv'
    BY <1>1 DEF IInv, CallInv, storeVars
<1>7. FileHoldsCleanTiles'
    BY <1>1 DEF IInv, FileHoldsCleanTiles, storeVars
<1> QED BY <1>5, <1>6, <1>7 DEF IInv

\* Eviction, as the loops of a call and of its clean-up use it.
LEMMA EvictStores ==
    ASSUME IInv, self \in live, NEW t \in Victims, Evict(t)
    PROVE  /\ live' = live
           /\ resident' \in [Stores -> SUBSET Keys]
           /\ dirty' \in [Stores -> SUBSET Keys]
           /\ ram' \in [Stores -> [Cells -> Counts]]
           /\ disk' \in [Stores -> [Cells -> Counts \cup {Torn}]]
           /\ globalResident' \in Int
           /\ UNCHANGED <<lastUsed, paintMaxima, globalTick>>
           /\ \A s \in Stores : resident'[s] \subseteq resident[s]
           /\ FileHoldsCleanTiles'
<1>0. PICK s \in live : \E k \in resident[s] : t = <<s, k>>
    BY VictimsResident DEF IInv
<1>1. PICK k \in resident[s] : t = <<s, k>>
    BY <1>0
<1>2. s \in Stores /\ k \in Keys
    BY <1>0, <1>1 DEF IInv, Typed
<1>3. /\ disk' = [disk EXCEPT ![s] = IF k \in dirty[s] THEN WithTile(@, k, ram[s]) ELSE @]
      /\ resident' = [resident EXCEPT ![s] = @ \ {k}]
      /\ dirty' = [dirty EXCEPT ![s] = @ \ {k}]
      /\ ram' = [ram EXCEPT ![s] = WithTile(@, k, NoCounts)]
      /\ globalResident' = globalResident - TileBytes[s]
      /\ UNCHANGED <<live, lastUsed, paintMaxima, globalTick>>
    BY <1>1 DEF Evict
<1>4. NoCounts \in [Cells -> Counts]
    BY ConstantsAssumption DEF NoCounts
<1>5. /\ WithTile(ram[s], k, NoCounts) \in [Cells -> Counts]
      /\ WithTile(disk[s], k, ram[s]) \in [Cells -> Counts \cup {Torn}]
    <2>1. ram[s] \in [Cells -> Counts] /\ disk[s] \in [Cells -> Counts \cup {Torn}]
        BY <1>2 DEF IInv, Typed
    <2>2. ram[s] \in [Cells -> Counts \cup {Torn}]
        BY <2>1
    <2> QED BY <1>2, <1>4, <2>1, <2>2, WithTileType
<1>6. globalResident' \in Int
    BY <1>2, <1>3, ConstantsAssumption DEF IInv, Typed
<1>7. FileHoldsCleanTiles'
    <2> SUFFICES ASSUME NEW r \in Stores
                 PROVE  /\ dirty'[r] \subseteq resident'[r]
                        /\ \A c \in Cells : KeyOf[c] \notin dirty'[r] =>
                              /\ disk'[r][c] \in Counts
                              /\ KeyOf[c] \in resident'[r] => disk'[r][c] = ram'[r][c]
        BY DEF FileHoldsCleanTiles
    <2>1. /\ dirty[r] \subseteq resident[r]
          /\ \A c \in Cells : KeyOf[c] \notin dirty[r] =>
                /\ disk[r][c] \in Counts
                /\ KeyOf[c] \in resident[r] => disk[r][c] = ram[r][c]
        BY DEF IInv, FileHoldsCleanTiles
    <2>2. CASE r # s
        BY <1>2, <1>3, <2>1, <2>2 DEF IInv, Typed
    <2>3. CASE r = s
        <3>1. /\ resident'[r] = resident[r] \ {k}
              /\ dirty'[r] = dirty[r] \ {k}
              /\ ram'[r] = WithTile(ram[r], k, NoCounts)
              /\ disk'[r] = IF k \in dirty[r] THEN WithTile(disk[r], k, ram[r]) ELSE disk[r]
            BY <1>2, <1>3, <2>3 DEF IInv, Typed
        <3>2. ASSUME NEW c \in Cells, KeyOf[c] \notin dirty'[r], KeyOf[c] = k
              PROVE  disk'[r][c] \in Counts /\ KeyOf[c] \notin resident'[r]
            <4>1. ram[r][c] \in Counts
                BY <1>2, <2>3 DEF IInv, Typed
            <4> QED BY <2>1, <3>1, <3>2, <4>1 DEF WithTile
        <3>3. ASSUME NEW c \in Cells, KeyOf[c] \notin dirty'[r], KeyOf[c] # k
              PROVE  /\ disk'[r][c] \in Counts
                     /\ KeyOf[c] \in resident'[r] => disk'[r][c] = ram'[r][c]
            BY <2>1, <3>1, <3>3 DEF WithTile
        <3> QED BY <2>1, <3>1, <3>2, <3>3
    <2> QED BY <2>2, <2>3
<1> QED BY <1>2, <1>3, <1>5, <1>6, <1>7 DEF IInv, Typed

LEMMA WriteBackFailsStores ==
    ASSUME IInv, self \in live, NEW t \in Victims, WriteBackFails(t)
    PROVE  /\ disk' \in [Stores -> [Cells -> Counts \cup {Torn}]]
           /\ UNCHANGED <<live, resident, dirty, lastUsed, ram, paintMaxima, poolVars>>
           /\ FileHoldsCleanTiles'
<1>0. PICK s \in live : \E k \in resident[s] : t = <<s, k>>
    BY VictimsResident DEF IInv
<1>1. PICK k \in resident[s] : t = <<s, k>>
    BY <1>0
<1>2. s \in Stores /\ k \in Keys
    BY <1>0, <1>1 DEF IInv, Typed
<1>3. /\ k \in dirty[s]
      /\ disk' \in {disk, [disk EXCEPT ![s] = WithTile(@, k, [c \in Cells |-> Torn])]}
      /\ UNCHANGED <<live, resident, dirty, lastUsed, ram, paintMaxima, poolVars>>
    BY <1>1 DEF WriteBackFails
<1>4. disk' \in [Stores -> [Cells -> Counts \cup {Torn}]]
    <2>1. disk \in [Stores -> [Cells -> Counts \cup {Torn}]]
        BY DEF IInv, Typed
    <2>2. WithTile(disk[s], k, [c \in Cells |-> Torn]) \in [Cells -> Counts \cup {Torn}]
        BY <1>2, <2>1, WithTileType
    <2> QED BY <1>2, <1>3, <2>1, <2>2
<1>5. FileHoldsCleanTiles'
    <2>1. \A r \in Stores, c \in Cells : KeyOf[c] \notin dirty[r] => disk'[r][c] = disk[r][c]
        <3> SUFFICES ASSUME NEW r \in Stores, NEW c \in Cells, KeyOf[c] \notin dirty[r]
                     PROVE  disk'[r][c] = disk[r][c]
            OBVIOUS
        <3>1. disk \in [Stores -> [Cells -> Counts \cup {Torn}]]
            BY DEF IInv, Typed
        <3>2. CASE disk' = disk
            BY <3>2
        <3>3. CASE disk' = [disk EXCEPT ![s] = WithTile(disk[s], k, [d \in Cells |-> Torn])]
            <4>1. CASE r # s
                BY <3>1, <3>3, <4>1
            <4>2. CASE r = s
                <5>1. KeyOf[c] # k
                    BY <1>3, <4>2
                <5>2. disk'[r] = WithTile(disk[r], k, [d \in Cells |-> Torn])
                    BY <1>2, <3>1, <3>3, <4>2
                <5> QED BY <5>1, <5>2 DEF WithTile
            <4> QED BY <4>1, <4>2
        <3> QED BY <1>3, <3>2, <3>3
    <2> QED BY <1>3, <2>1 DEF IInv, FileHoldsCleanTiles
<1> QED BY <1>3, <1>4, <1>5
LEMMA BudgetSetIInv == ASSUME IInv, BudgetSet PROVE IInv'
<1>1. budget' \in Nat
    BY ConstantsAssumption DEF BudgetSet
<1>2. Typed'
    BY <1>1 DEF BudgetSet, IInv, Typed, storeVars, poolVars, genVars, callVars
<1>3. CallInv' /\ FileHoldsCleanTiles'
    BY DEF BudgetSet, IInv, CallInv, FileHoldsCleanTiles, storeVars, callVars
<1> QED BY <1>2, <1>3 DEF IInv

LEMMA StampType ==
    ASSUME Typed, NEW k \in Keys, Stamp(k)
    PROVE  globalTick' \in Nat /\ lastUsed' \in [Stores -> [Keys -> Nat]]
BY DEF Typed, Stamp

LEMMA FetchHitIInv == ASSUME IInv, FetchHit PROVE IInv'
<1> DEFINE k == KeyOf[Head(todo)]
<1>1. /\ phase = "fetch" /\ todo # <<>> /\ k \in resident[self]
      /\ Stamp(k)
      /\ UseTile(ram[self])
      /\ UNCHANGED <<live, resident, disk, globalResident, genVars, call, self, phase,
                     pinned, later, overBudget, budget, partial>>
    BY DEF FetchHit
<1>2. Typed /\ self \in Stores /\ ram[self] \in [Cells -> Counts] /\ k \in Keys
    BY <1>1, ConstantsAssumption DEF IInv, Typed
<1>3. /\ todo' \in Seq(Cells)
      /\ ram' \in [Stores -> [Cells -> Counts]]
      /\ dirty' \in [Stores -> SUBSET Keys]
      /\ paintMaxima' \in [Stores -> [Levels -> Counts]]
      /\ \A s \in Stores : dirty[s] \subseteq dirty'[s]
      /\ dirty'[self] \subseteq dirty[self] \cup {k}
      /\ \A s \in Stores \ {self} : ram'[s] = ram[s] /\ dirty'[s] = dirty[s]
      /\ \A c \in Cells : KeyOf[c] \notin dirty'[self] => ram'[self][c] = ram[self][c]
    BY <1>1, <1>2, UseTileFacts
<1>4. Typed'
    <2>1. globalTick' \in Nat /\ lastUsed' \in [Stores -> [Keys -> Nat]]
        BY <1>1, <1>2, StampType
    <2> QED BY <1>1, <1>2, <1>3, <2>1 DEF Typed, genVars
<1>5. CallInv'
    BY <1>1 DEF IInv, CallInv
<1>6. FileHoldsCleanTiles'
    <2>1. \A s \in Stores : dirty'[s] \subseteq resident'[s]
        BY <1>1, <1>2, <1>3 DEF IInv, FileHoldsCleanTiles
    <2>2. ASSUME NEW s \in Stores, NEW c \in Cells, KeyOf[c] \notin dirty'[s]
          PROVE  KeyOf[c] \notin dirty[s] /\ ram'[s][c] = ram[s][c]
        BY <1>3, <2>2
    <2> QED BY <1>1, <2>1, <2>2 DEF IInv, FileHoldsCleanTiles
<1> QED BY <1>4, <1>5, <1>6 DEF IInv

LEMMA AdmitIInv == ASSUME IInv, Admit PROVE IInv'
<1> DEFINE k == KeyOf[Head(todo)]
           cells == WithTile(ram[self], k, disk[self])
<1>1. /\ phase = "admit"
      /\ RecordOverBudget
      /\ Stamp(k)
      /\ resident' = [resident EXCEPT ![self] = @ \cup {k}]
      /\ globalResident' = globalResident + TileBytes[self]
      /\ UseTile(cells)
      /\ phase' = "fetch"
      /\ UNCHANGED <<live, disk, genVars, call, self, pinned, later, budget, partial>>
    BY DEF Admit
<1>2. /\ Typed
      /\ todo # <<>>
      /\ k \notin resident[self]
      /\ self \in live
    BY <1>1 DEF IInv, CallInv
<1>3. self \in Stores /\ k \in Keys
    BY <1>2, ConstantsAssumption DEF Typed
<1>4. \A c \in Cells : KeyOf[c] = k => disk[self][c] \in Counts
    BY <1>2, <1>3 DEF IInv, FileHoldsCleanTiles
<1>5. cells \in [Cells -> Counts]
    BY <1>2, <1>3, <1>4 DEF Typed, WithTile
<1> HIDE DEF cells
<1>6. /\ todo' \in Seq(Cells)
      /\ ram' \in [Stores -> [Cells -> Counts]]
      /\ dirty' \in [Stores -> SUBSET Keys]
      /\ paintMaxima' \in [Stores -> [Levels -> Counts]]
      /\ \A s \in Stores : dirty[s] \subseteq dirty'[s]
      /\ dirty'[self] \subseteq dirty[self] \cup {k}
      /\ \A s \in Stores \ {self} : ram'[s] = ram[s] /\ dirty'[s] = dirty[s]
      /\ \A c \in Cells : KeyOf[c] \notin dirty'[self] => ram'[self][c] = cells[c]
    BY <1>1, <1>2, <1>5, UseTileFacts
<1>7. Typed'
    <2>1. globalTick' \in Nat /\ lastUsed' \in [Stores -> [Keys -> Nat]]
        BY <1>1, <1>2, <1>3, StampType
    <2>2. overBudget' \subseteq Stores
        BY <1>1, <1>2, <1>3 DEF RecordOverBudget, Typed
    <2>3. resident' \in [Stores -> SUBSET Keys]
        BY <1>1, <1>2, <1>3 DEF Typed
    <2>4. globalResident' \in Int
        BY <1>1, <1>2, <1>3, ConstantsAssumption DEF Typed
    <2> QED BY <1>1, <1>2, <1>6, <2>1, <2>2, <2>3, <2>4 DEF Typed, genVars
<1>8. CallInv'
    BY <1>1, <1>2, <1>3 DEF IInv, Typed, CallInv
<1>9. FileHoldsCleanTiles'
    <2>1. \A s \in Stores : dirty'[s] \subseteq resident'[s]
        BY <1>1, <1>2, <1>3, <1>6 DEF IInv, Typed, FileHoldsCleanTiles
    <2>2. ASSUME NEW s \in Stores, NEW c \in Cells, KeyOf[c] \notin dirty'[s]
          PROVE  disk'[s][c] \in Counts
        BY <1>1, <1>6, <2>2 DEF IInv, FileHoldsCleanTiles
    <2>3. ASSUME NEW s \in Stores, NEW c \in Cells, KeyOf[c] \notin dirty'[s],
                 KeyOf[c] \in resident'[s]
          PROVE  disk'[s][c] = ram'[s][c]
        <3>1. CASE s # self
            BY <1>1, <1>2, <1>3, <1>6, <2>3, <3>1 DEF IInv, Typed, FileHoldsCleanTiles
        <3>2. CASE s = self
            <4>1. ram'[self][c] = cells[c] /\ KeyOf[c] \notin dirty[self]
                BY <1>6, <2>3, <3>2
            <4>2. CASE KeyOf[c] = k
                BY <1>1, <3>2, <4>1, <4>2 DEF cells, WithTile
            <4>3. CASE KeyOf[c] # k
                <5>1. KeyOf[c] \in resident[self]
                    BY <1>1, <1>2, <1>3, <2>3, <3>2, <4>3 DEF Typed
                <5>2. disk[self][c] = ram[self][c]
                    BY <1>3, <4>1, <5>1 DEF IInv, FileHoldsCleanTiles
                <5> QED BY <1>1, <3>2, <4>1, <4>3, <5>2 DEF cells, WithTile
            <4> QED BY <4>2, <4>3
        <3> QED BY <3>1, <3>2
    <2> QED BY <2>1, <2>2, <2>3 DEF FileHoldsCleanTiles
<1> QED BY <1>7, <1>8, <1>9 DEF IInv

\* A call that fails keeps its store and drops its work.
LEMMA FailFacts ==
    ASSUME IInv, phase \in {"fetch", "admit"}, Fail
    PROVE  /\ todo' \in Seq(Cells) /\ pinned' \subseteq Keys /\ later' \in Seq(Seq(Cells))
           /\ phase' = "failed" /\ partial' \subseteq Stores
           /\ call' = call /\ self' = self /\ call # "none" /\ self \in live
<1>1. ASSUME NEW S PROVE <<>> \in Seq(S)
    OBVIOUS
<1>2. todo' \in Seq(Cells) /\ later' \in Seq(Seq(Cells))
    BY <1>1 DEF Fail
<1> QED BY <1>2 DEF Fail, IInv, Typed, CallInv

LEMMA LoopIInv ==
    ASSUME IInv, EvictForAdmission \/ FinishEvict
    PROVE  IInv'
<1>1. PICK t \in Victims : Evict(t)
    BY DEF EvictForAdmission, FinishEvict
<1>2. UNCHANGED <<genVars, callVars, overBudget, budget, partial>>
    BY DEF EvictForAdmission, FinishEvict
<1>3. call # "none" /\ self \in live /\ phase # "admit"
    BY DEF EvictForAdmission, FinishEvict, Missing, Finishing, IInv, CallInv
<1>4. /\ live' = live
      /\ resident' \in [Stores -> SUBSET Keys]
      /\ dirty' \in [Stores -> SUBSET Keys]
      /\ ram' \in [Stores -> [Cells -> Counts]]
      /\ disk' \in [Stores -> [Cells -> Counts \cup {Torn}]]
      /\ globalResident' \in Int
      /\ UNCHANGED <<lastUsed, paintMaxima, globalTick>>
      /\ \A s \in Stores : resident'[s] \subseteq resident[s]
      /\ FileHoldsCleanTiles'
    BY <1>1, <1>3, EvictStores
<1>5. Typed'
    BY <1>2, <1>4 DEF IInv, Typed, genVars, callVars
<1>6. CallInv'
    BY <1>2, <1>3, <1>4 DEF IInv, CallInv, callVars
<1> QED BY <1>4, <1>5, <1>6 DEF IInv

LEMMA LoopFailsIInv ==
    ASSUME IInv, EvictForAdmissionFails \/ FinishEvictFails
    PROVE  IInv'
<1>1. PICK t \in Victims : WriteBackFails(t)
    BY DEF EvictForAdmissionFails, FinishEvictFails
<1>2. self \in live
    BY DEF EvictForAdmissionFails, FinishEvictFails, Missing, Finishing, IInv, CallInv
<1>3. /\ disk' \in [Stores -> [Cells -> Counts \cup {Torn}]]
      /\ UNCHANGED <<live, resident, dirty, lastUsed, ram, paintMaxima, poolVars>>
      /\ FileHoldsCleanTiles'
    BY <1>1, <1>2, WriteBackFailsStores
<1>4. CASE EvictForAdmissionFails
    <2>1. UNCHANGED <<genVars, overBudget, budget>> /\ phase = "fetch" /\ Fail
        BY <1>4 DEF EvictForAdmissionFails, Missing
    <2>2. /\ todo' \in Seq(Cells) /\ pinned' \subseteq Keys /\ later' \in Seq(Seq(Cells))
          /\ phase' = "failed" /\ partial' \subseteq Stores
          /\ call' = call /\ self' = self /\ call # "none" /\ self \in live
        BY <2>1, FailFacts
    <2>3. Typed'
        BY <1>3, <2>1, <2>2 DEF IInv, Typed, genVars, poolVars
    <2>4. CallInv'
        BY <1>3, <2>2 DEF IInv, CallInv
    <2> QED BY <1>3, <2>3, <2>4 DEF IInv
<1>5. CASE FinishEvictFails
    <2>1. UNCHANGED <<genVars, overBudget, budget, partial>> /\ Return
        BY <1>5 DEF FinishEvictFails
    <2>2. Typed'
        BY <1>3, <2>1 DEF Return, IInv, Typed, genVars, poolVars
    <2>3. CallInv'
        BY <1>3, <2>1 DEF Return, IInv, CallInv
    <2> QED BY <1>3, <2>2, <2>3 DEF IInv
<1> QED BY <1>4, <1>5

LEMMA ReadFailsIInv == ASSUME IInv, ReadFails PROVE IInv'
<1>1. phase = "admit" /\ RecordOverBudget /\ Fail /\ UNCHANGED <<storeVars, poolVars, genVars, budget>>
    BY DEF ReadFails
<1>2. /\ todo' \in Seq(Cells) /\ pinned' \subseteq Keys /\ later' \in Seq(Seq(Cells))
      /\ phase' = "failed" /\ partial' \subseteq Stores
      /\ call' = call /\ self' = self /\ call # "none" /\ self \in live
    BY <1>1, FailFacts
<1>3. overBudget' \subseteq Stores
    BY <1>1 DEF RecordOverBudget, IInv, Typed
<1>4. Typed'
    BY <1>1, <1>2, <1>3 DEF IInv, Typed, storeVars, poolVars, genVars
<1>5. CallInv' /\ FileHoldsCleanTiles'
    BY <1>1, <1>2 DEF IInv, CallInv, FileHoldsCleanTiles, storeVars
<1> QED BY <1>4, <1>5 DEF IInv

LEMMA ControlIInv ==
    ASSUME IInv, LoopExit \/ NextGather \/ FinishFrame
    PROVE  IInv'
<1>1. UNCHANGED <<storeVars, poolVars, genVars, overBudget, budget, partial>>
    BY DEF LoopExit, NextGather, FinishFrame
<1>2. FileHoldsCleanTiles'
    BY <1>1 DEF storeVars, IInv, FileHoldsCleanTiles
<1>3. CASE LoopExit
    <2>1. Typed'
        BY <1>1, <1>3 DEF LoopExit, IInv, Typed, storeVars, poolVars, genVars
    <2>2. CallInv'
        BY <1>1, <1>3 DEF LoopExit, Missing, IInv, CallInv, storeVars
    <2> QED BY <1>2, <2>1, <2>2 DEF IInv
<1>4. CASE NextGather
    <2>1. CASE later = <<>>
        <3>1. phase' = "finish" /\ pinned' = {} /\ UNCHANGED <<todo, later, call, self>> /\ phase = "fetch"
            BY <1>4, <2>1 DEF NextGather
        <3> QED BY <1>1, <1>2, <3>1 DEF IInv, Typed, CallInv, storeVars, poolVars, genVars
    <2>2. CASE later # <<>>
        <3>1. /\ todo' = Head(later) /\ pinned' = Tiles(Head(later)) /\ later' = Tail(later)
              /\ UNCHANGED <<phase, call, self>> /\ phase = "fetch"
            BY <1>4, <2>2 DEF NextGather
        <3>2. Head(later) \in Seq(Cells) /\ Tail(later) \in Seq(Seq(Cells))
            BY <2>2 DEF IInv, Typed
        <3>3. Tiles(Head(later)) \subseteq Keys
            BY <3>2, ConstantsAssumption DEF Tiles
        <3> QED BY <1>1, <1>2, <3>1, <3>2, <3>3 DEF IInv, Typed, CallInv, storeVars, poolVars, genVars
    <2> QED BY <2>1, <2>2
<1>5. CASE FinishFrame
    BY <1>1, <1>2, <1>5 DEF FinishFrame, Return, IInv, Typed, CallInv, storeVars, poolVars, genVars
<1> QED BY <1>3, <1>4, <1>5

LEMMA NextIInv == IInv /\ [Next]_vars => IInv'
<1> SUFFICES ASSUME IInv, [Next]_vars PROVE IInv'
    OBVIOUS
<1>1. CASE BudgetSet
    BY <1>1, BudgetSetIInv
<1>2. ASSUME NEW s \in Stores, Spill(s) \/ Remove(s) PROVE IInv'
    BY <1>2, SpillIInv, RemoveIInv
<1>3. CASE Begin
    BY <1>3, BeginIInv DEF Begin
<1>4. CASE Running
    BY <1>4, FetchHitIInv, LoopIInv, LoopFailsIInv, AdmitIInv, ReadFailsIInv, ControlIInv DEF Running
<1>5. CASE UNCHANGED vars
    BY <1>5 DEF IInv, Typed, CallInv, FileHoldsCleanTiles,
                vars, storeVars, poolVars, genVars, callVars
<1> QED BY <1>1, <1>2, <1>3, <1>4, <1>5 DEF Next

\* No append is lost and no torn slab is read back: what is not a dirty tile
\* in RAM is intact in the spill file, whichever reads and writes fail.
THEOREM FileIntact == Spec => []FileHoldsCleanTiles
<1>1. IInv => FileHoldsCleanTiles
    BY DEF IInv
<1> QED BY InitIInv, NextIInv, <1>1, PTL DEF Spec
-----------------------------------------------------------------------------
(* The refinement of CountStore. *)

USE DEF CountsOf

CountsBar == [s \in Stores |-> CountsOf(s)]
AppendingBar == [s \in Stores |-> call = "append" /\ self = s]

\* Steps that neither change a count as callers see it nor start or end an
\* append are stutters of CountStore.
LEMMA Stutter ==
    ASSUME live' = live, UNCHANGED genVars,
           \A s \in Stores, c \in Cells : Count(s, c)' = Count(s, c),
           call = "append" \/ call' = "append" => call' = call /\ self' = self
    PROVE  UNCHANGED Promise!vars
<1>1. CountsBar' = CountsBar
    BY DEF CountsBar
<1>2. AppendingBar' = AppendingBar
    <2>1. ASSUME NEW s \in Stores
          PROVE (call = "append" /\ self = s)' <=> (call = "append" /\ self = s)
        OBVIOUS
    <2> QED BY <2>1, Zenon DEF AppendingBar
<1> QED BY <1>1, <1>2 DEF Promise!vars, CountsBar, AppendingBar, genVars

\* Eviction moves a count from RAM to the file, or drops the RAM copy of a
\* count the file has.
LEMMA EvictCounts ==
    ASSUME IInv, self \in live, NEW t \in Victims, Evict(t)
    PROVE  \A s \in Stores, c \in Cells : Count(s, c)' = Count(s, c)
<1>0. PICK r \in live : \E k \in resident[r] : t = <<r, k>>
    BY VictimsResident DEF IInv
<1>1. PICK k \in resident[r] : t = <<r, k>>
    BY <1>0
<1>2. r \in Stores /\ k \in Keys
    BY <1>0, <1>1 DEF IInv, Typed
<1>3. /\ disk' = [disk EXCEPT ![r] = IF k \in dirty[r] THEN WithTile(@, k, ram[r]) ELSE @]
      /\ resident' = [resident EXCEPT ![r] = @ \ {k}]
      /\ ram' = [ram EXCEPT ![r] = WithTile(@, k, NoCounts)]
    BY <1>1 DEF Evict
<1> SUFFICES ASSUME NEW s \in Stores, NEW c \in Cells PROVE Count(s, c)' = Count(s, c)
    OBVIOUS
<1>4. CASE s # r
    BY <1>2, <1>3, <1>4 DEF Count, IInv, Typed
<1>5. CASE s = r
    <2>1. /\ resident'[s] = resident[s] \ {k}
          /\ ram'[s] = WithTile(ram[s], k, NoCounts)
          /\ disk'[s] = IF k \in dirty[s] THEN WithTile(disk[s], k, ram[s]) ELSE disk[s]
        BY <1>2, <1>3, <1>5 DEF IInv, Typed
    <2>2. CASE KeyOf[c] = k
        <3>1. KeyOf[c] \in resident[s] /\ KeyOf[c] \notin resident'[s]
            BY <1>1, <1>5, <2>1, <2>2
        <3>2. k \in dirty[s] \/ disk[s][c] = ram[s][c]
            BY <1>2, <1>5, <2>2, <3>1 DEF IInv, FileHoldsCleanTiles
        <3> QED BY <2>1, <2>2, <3>1, <3>2 DEF Count, WithTile
    <2>3. CASE KeyOf[c] # k
        BY <2>1, <2>3 DEF Count, WithTile
    <2> QED BY <2>2, <2>3
<1> QED BY <1>4, <1>5

\* A failed write-back touches the slab of a tile that stays in RAM only.
LEMMA WriteBackFailsCounts ==
    ASSUME IInv, self \in live, NEW t \in Victims, WriteBackFails(t)
    PROVE  \A s \in Stores, c \in Cells : Count(s, c)' = Count(s, c)
<1>0. PICK r \in live : \E k \in resident[r] : t = <<r, k>>
    BY VictimsResident DEF IInv
<1>1. PICK k \in resident[r] : t = <<r, k>>
    BY <1>0
<1>2. r \in Stores /\ k \in Keys
    BY <1>0, <1>1 DEF IInv, Typed
<1>3. /\ disk' \in {disk, [disk EXCEPT ![r] = WithTile(@, k, [c \in Cells |-> Torn])]}
      /\ UNCHANGED <<resident, ram>>
    BY <1>1 DEF WriteBackFails
<1> SUFFICES ASSUME NEW s \in Stores, NEW c \in Cells, KeyOf[c] \notin resident[s]
             PROVE disk'[s][c] = disk[s][c]
    BY <1>3 DEF Count
<1>4. CASE s # r
    BY <1>2, <1>3, <1>4 DEF IInv, Typed
<1>5. CASE s = r
    <2>1. KeyOf[c] # k
        BY <1>1, <1>5
    <2>2. disk'[s] \in {disk[s], WithTile(disk[s], k, [d \in Cells |-> Torn])}
        BY <1>2, <1>3, <1>5 DEF IInv, Typed
    <2> QED BY <2>1, <2>2 DEF WithTile
<1> QED BY <1>4, <1>5
\* A fetched tile shows the counts its slab showed.
Hands(cells) ==
    /\ todo # <<>> /\ UseTile(cells)
    /\ UNCHANGED <<live, disk, genVars, call, self>>
    /\ \A s \in Stores \ {self} : resident'[s] = resident[s]
    /\ resident'[self] = resident[self] \cup {KeyOf[Head(todo)]}
    /\ \A c \in Cells : cells[c] = IF KeyOf[c] \in resident'[self] THEN Count(self, c) ELSE ram[self][c]

LEMMA FetchHands ==
    ASSUME IInv, FetchHit \/ Admit PROVE \E cells \in [Cells -> Counts] : Hands(cells)
<1>0. self \in Stores /\ ram[self] \in [Cells -> Counts]
    BY DEF IInv, Typed
<1>1. CASE FetchHit
    <2>1. /\ todo # <<>> /\ KeyOf[Head(todo)] \in resident[self] /\ UseTile(ram[self])
          /\ UNCHANGED <<live, resident, disk, genVars, call, self>>
        BY <1>1 DEF FetchHit
    <2>2. \A c \in Cells : ram[self][c] =
            IF KeyOf[c] \in resident'[self] THEN Count(self, c) ELSE ram[self][c]
        BY <2>1 DEF Count
    <2>3. Hands(ram[self])
        BY <2>1, <2>2 DEF Hands
    <2> QED BY <1>0, <2>3
<1>2. CASE Admit
    <2> DEFINE k == KeyOf[Head(todo)]
               cells == WithTile(ram[self], k, disk[self])
    <2>1. /\ phase = "admit" /\ UseTile(cells)
          /\ resident' = [resident EXCEPT ![self] = @ \cup {k}]
          /\ UNCHANGED <<live, disk, genVars, call, self>>
        BY <1>2 DEF Admit
    <2>2. todo # <<>> /\ k \notin resident[self] /\ self \in Stores
        BY <2>1 DEF IInv, CallInv, Typed
    <2>3. k \in Keys /\ \A c \in Cells : KeyOf[c] = k => disk[self][c] \in Counts
        BY <2>2, ConstantsAssumption DEF IInv, Typed, FileHoldsCleanTiles
    <2>4. cells \in [Cells -> Counts]
        BY <2>2, <2>3 DEF IInv, Typed, WithTile
    <2>5. /\ \A s \in Stores \ {self} : resident'[s] = resident[s]
          /\ resident'[self] = resident[self] \cup {k}
        BY <2>1, <2>2, <2>3 DEF IInv, Typed
    <2>6. \A c \in Cells : cells[c] =
            IF KeyOf[c] \in resident'[self] THEN Count(self, c) ELSE ram[self][c]
        BY <2>2, <2>5 DEF Count, WithTile
    <2> HIDE DEF cells
    <2>7. Hands(cells)
        BY <2>1, <2>2, <2>5, <2>6 DEF Hands
    <2> QED BY <2>4, <2>7
<1> QED BY <1>1, <1>2

\* An append lands one point in its cell and on the scale of its level.
LEMMA UseTileCounts ==
    ASSUME IInv, NEW cells \in [Cells -> Counts], Hands(cells)
    PROVE  /\ \A s \in Stores, d \in Cells : Count(s, d)' =
                 IF call = "append" /\ s = self /\ d = Head(todo) THEN SatInc(Count(s, d)) ELSE Count(s, d)
           /\ \A s \in Stores, l \in Levels : paintMaxima'[s][l] =
                 IF call = "append" /\ s = self /\ l = LevelOf[Head(todo)]
                 THEN Larger(paintMaxima[s][l], SatInc(Count(self, Head(todo)))) ELSE paintMaxima[s][l]
           /\ Head(todo) \in Cells /\ todo' = Tail(todo)
<1> DEFINE c == Head(todo)
<1>0. /\ UseTile(cells) /\ disk' = disk
      /\ \A s \in Stores \ {self} : resident'[s] = resident[s]
      /\ resident'[self] = resident[self] \cup {KeyOf[c]}
      /\ \A d \in Cells : cells[d] = IF KeyOf[d] \in resident'[self] THEN Count(self, d) ELSE ram[self][d]
    BY DEF Hands
<1>1. /\ c \in Cells /\ self \in Stores /\ ram \in [Stores -> [Cells -> Counts]]
      /\ paintMaxima \in [Stores -> [Levels -> Counts]] /\ LevelOf[c] \in Levels
    BY ConstantsAssumption DEF IInv, Typed, Hands
<1>2. CASE call # "append"
    <2>1. ram' = [ram EXCEPT ![self] = cells] /\ paintMaxima' = paintMaxima /\ todo' = Tail(todo)
        BY <1>0, <1>2 DEF UseTile
    <2>2. ASSUME NEW s \in Stores, NEW d \in Cells PROVE Count(s, d)' = Count(s, d)
        <3>1. CASE s # self
            BY <1>0, <1>1, <2>1, <3>1 DEF Count
        <3>2. CASE s = self
            BY <1>0, <1>1, <2>1, <3>2 DEF Count
        <3> QED BY <3>1, <3>2
    <2> QED BY <1>1, <1>2, <2>1, <2>2
<1>3. CASE call = "append"
    <2>1. /\ ram' = [ram EXCEPT ![self] = [cells EXCEPT ![c] = SatInc(cells[c])]]
          /\ paintMaxima' = [paintMaxima EXCEPT ![self][LevelOf[c]] = Larger(@, SatInc(cells[c]))]
          /\ todo' = Tail(todo)
        BY <1>0, <1>3 DEF UseTile
    <2>2. ASSUME NEW s \in Stores, NEW d \in Cells
          PROVE  Count(s, d)' = IF s = self /\ d = c THEN SatInc(Count(s, d)) ELSE Count(s, d)
        <3>1. CASE s # self
            BY <1>0, <1>1, <2>1, <3>1 DEF Count
        <3>2. CASE s = self
            <4>1. ram'[self] = [cells EXCEPT ![c] = SatInc(cells[c])]
                BY <1>1, <2>1
            <4>2. CASE d = c
                <5>1. KeyOf[d] \in resident'[self] /\ cells[d] = Count(self, d)
                    BY <1>0, <4>2
                <5>2. ram'[self][d] = SatInc(cells[d])
                    BY <1>1, <4>1, <4>2
                <5> QED BY <3>2, <4>2, <5>1, <5>2 DEF Count
            <4>3. CASE d # c
                <5>1. ram'[self][d] = cells[d]
                    BY <4>1, <4>3
                <5> QED BY <1>0, <3>2, <4>3, <5>1 DEF Count
            <4> QED BY <4>2, <4>3
        <3> QED BY <3>1, <3>2
    <2>3. cells[c] = Count(self, c)
        BY <1>0, <1>1
    <2>4. \A s \in Stores, l \in Levels : paintMaxima'[s][l] =
             IF s = self /\ l = LevelOf[c]
             THEN Larger(paintMaxima[s][l], SatInc(Count(self, c))) ELSE paintMaxima[s][l]
        BY <1>1, <2>1, <2>3
    <2> QED BY <1>1, <1>3, <2>1, <2>2, <2>4
<1> QED BY <1>2, <1>3

LEMMA UseTileSteps ==
    ASSUME IInv, NEW cells \in [Cells -> Counts], Hands(cells)
    PROVE  [Promise!Next]_(Promise!vars)
<1> DEFINE c == Head(todo)
<1>1. /\ \A s \in Stores, d \in Cells : Count(s, d)' =
            IF call = "append" /\ s = self /\ d = c THEN SatInc(Count(s, d)) ELSE Count(s, d)
      /\ c \in Cells
    BY UseTileCounts
<1>2. self \in Stores /\ UNCHANGED <<live, genVars, call, self>>
    BY DEF IInv, Typed, Hands
<1>3. CASE call # "append"
    BY <1>1, <1>2, <1>3, Stutter
<1>4. CASE call = "append"
    <2>1. CountsBar' = [CountsBar EXCEPT ![self][c] = SatInc(@)]
        <3> DEFINE New(s, d) == IF s = self /\ d = c THEN SatInc(Count(s, d)) ELSE Count(s, d)
        <3>1. \A s \in Stores, d \in Cells : Count(s, d)' = New(s, d)
            BY <1>1, <1>4
        <3>2. CountsBar' = [s \in Stores |-> [d \in Cells |-> New(s, d)]]
            <4> HIDE DEF New
            <4> QED BY <3>1 DEF CountsBar
        <3>3. [CountsBar EXCEPT ![self][c] = SatInc(@)]
                = [s \in Stores |-> [d \in Cells |-> New(s, d)]]
            BY <1>1, <1>2 DEF CountsBar
        <3> QED BY <3>2, <3>3
    <2>2. AppendingBar' = AppendingBar /\ AppendingBar[self]
        BY <1>2, <1>4 DEF AppendingBar
    <2>3. Promise!SatInc(CountsBar[self][c]) = SatInc(CountsBar[self][c])
        BY DEF Promise!SatInc, SatInc
    <2>4. CountsBar' = [CountsBar EXCEPT ![self][c] = Promise!SatInc(@)]
        BY <1>1, <1>2, <2>1, <2>3 DEF CountsBar
    <2>5. Promise!Land(self, c)
        BY <1>2, <2>2, <2>4 DEF Promise!Land, CountsBar, AppendingBar, genVars
    <2> QED BY <1>1, <1>2, <2>5 DEF Promise!Next
<1> QED BY <1>3, <1>4

LEMMA SpillOpens ==
    ASSUME IInv, NEW s \in Stores, Spill(s) PROVE Promise!Open(s)
<1>1. PICK p \in Pyramids : disk' = [disk EXCEPT ![s] = p]
    BY DEF Spill
<1>2. s \notin live /\ live' = live \cup {s} /\ UNCHANGED <<resident, ram, callVars>>
    BY DEF Spill
<1>3. resident[s] = {} /\ disk \in [Stores -> [Cells -> Counts \cup {Torn}]] /\ p \in [Cells -> Counts]
    BY <1>2, ConstantsAssumption DEF IInv, CallInv, Typed
<1>4. ASSUME NEW r \in Stores, NEW c \in Cells
      PROVE  Count(r, c)' = IF r = s THEN p[c] ELSE Count(r, c)
    BY <1>1, <1>2, <1>3 DEF Count
<1>5. CountsBar' = [CountsBar EXCEPT ![s] = p]
    BY <1>3, <1>4 DEF CountsBar
<1>6. AppendingBar' = AppendingBar
    BY <1>2 DEF AppendingBar, callVars
<1>7. /\ generation' = [generation EXCEPT ![s] = nextGeneration]
      /\ nextGeneration' = nextGeneration + 1
    BY DEF Spill
<1> QED BY <1>2, <1>5, <1>6, <1>7 DEF Promise!Open, CountsBar, AppendingBar

LEMMA RemoveCloses ==
    ASSUME IInv, NEW s \in Stores, Remove(s) PROVE Promise!Close(s)
<1>1. /\ call = "none" /\ s \in live /\ live' = live \ {s}
      /\ resident' = [resident EXCEPT ![s] = {}]
      /\ ram' = [ram EXCEPT ![s] = NoCounts]
      /\ disk' = [disk EXCEPT ![s] = NoCounts]
      /\ UNCHANGED <<genVars, callVars>>
    BY DEF Remove
<1>2. ASSUME NEW r \in Stores, NEW c \in Cells
      PROVE  Count(r, c)' = IF r = s THEN 0 ELSE Count(r, c)
    BY <1>1 DEF Count, NoCounts, IInv, Typed
<1>3. CountsBar' = [CountsBar EXCEPT ![s] = Promise!NoCounts]
    BY <1>2 DEF CountsBar, Promise!NoCounts
<1>4. AppendingBar' = AppendingBar /\ ~AppendingBar[s]
    BY <1>1 DEF AppendingBar, callVars
<1> QED BY <1>1, <1>3, <1>4 DEF Promise!Close, CountsBar, AppendingBar, genVars

LEMMA BeginSteps ==
    ASSUME IInv, NEW s \in Stores,
           BeginCompose(s) \/ BeginPaint(s) \/ BeginFetchInto(s) \/ BeginAppend(s)
    PROVE  [Promise!Next]_(Promise!vars)
<1>1. /\ s \in live /\ call = "none" /\ self' = s
      /\ UNCHANGED <<live, resident, ram, disk>>
    BY DEF BeginCompose, BeginPaint, BeginFetchInto, BeginAppend, BeginFrame, storeVars
<1>2. \A r \in Stores, c \in Cells : Count(r, c)' = Count(r, c)
    BY <1>1 DEF Count
<1>3. CASE BeginCompose(s) \/ BeginPaint(s) \/ BeginFetchInto(s)
    <2>1. call' # "append" /\ UNCHANGED genVars
        BY <1>3 DEF BeginCompose, BeginPaint, BeginFetchInto, BeginFrame
    <2> QED BY <1>1, <1>2, <2>1, Stutter
<1>4. CASE BeginAppend(s)
    <2>1. /\ call' = "append"
          /\ generation' = [generation EXCEPT ![s] = nextGeneration]
          /\ nextGeneration' = nextGeneration + 1
        BY <1>4 DEF BeginAppend, BeginFrame
    <2>2. CountsBar' = CountsBar
        BY <1>2 DEF CountsBar
    <2>3. ~AppendingBar[s] /\ AppendingBar' = [AppendingBar EXCEPT ![s] = TRUE]
        <3>1. \A r \in Stores : AppendingBar[r] = FALSE
            BY <1>1 DEF AppendingBar
        <3>2. \A r \in Stores : (call = "append" /\ self = r)' = (r = s)
            BY <1>1, <2>1
        <3>3. AppendingBar' = [r \in Stores |-> r = s]
            BY <3>2, Zenon DEF AppendingBar
        <3>4. [AppendingBar EXCEPT ![s] = TRUE] = [r \in Stores |-> r = s]
            BY <3>1 DEF AppendingBar
        <3> QED BY <3>1, <3>3, <3>4
    <2>4. Promise!BeginAppend(s)
        BY <1>1, <2>1, <2>2, <2>3 DEF Promise!BeginAppend, CountsBar, AppendingBar
    <2> QED BY <2>4 DEF Promise!Next
<1> QED BY <1>3, <1>4

LEMMA ReturnSteps ==
    ASSUME IInv, Finishing, Return, live' = live, UNCHANGED genVars,
           \A s \in Stores, c \in Cells : Count(s, c)' = Count(s, c)
    PROVE  [Promise!Next]_(Promise!vars)
<1>1. call' = "none" /\ self' = self /\ self \in Stores
    BY DEF Return, IInv, Typed
<1>2. CASE call # "append"
    BY <1>1, <1>2, Stutter
<1>3. CASE call = "append"
    <2>1. CountsBar' = CountsBar
        BY DEF CountsBar
    <2>2. AppendingBar[self] /\ AppendingBar' = [AppendingBar EXCEPT ![self] = FALSE]
        <3>1. \A r \in Stores : (call = "append" /\ self = r)' = FALSE
            BY <1>1
        <3>2. AppendingBar' = [r \in Stores |-> FALSE]
            BY <3>1, Zenon DEF AppendingBar
        <3>3. \A r \in Stores : AppendingBar[r] = (self = r)
            BY <1>3 DEF AppendingBar
        <3>4. [AppendingBar EXCEPT ![self] = FALSE] = [r \in Stores |-> FALSE]
            BY <1>1, <3>3 DEF AppendingBar
        <3> QED BY <1>1, <3>2, <3>3, <3>4
    <2>3. PICK s \in Stores : s = self
        BY <1>1
    <2>4. Promise!EndAppend(s)
        BY <2>1, <2>2, <2>3 DEF Promise!EndAppend, CountsBar, AppendingBar, genVars
    <2> QED BY <2>4 DEF Promise!Next
<1> QED BY <1>2, <1>3

LEMMA RunningSteps ==
    ASSUME IInv, Running PROVE [Promise!Next]_(Promise!vars)
<1>1. CASE FetchHit \/ Admit
    BY <1>1, FetchHands, UseTileSteps
<1>2. CASE EvictForAdmission \/ FinishEvict
    <2>1. PICK t \in Victims : Evict(t)
        BY <1>2 DEF EvictForAdmission, FinishEvict
    <2>2. self \in live /\ UNCHANGED <<genVars, callVars>>
        BY <1>2 DEF EvictForAdmission, FinishEvict, Missing, Finishing, IInv, CallInv
    <2>3. live' = live
        BY <2>1 DEF Evict
    <2>4. \A s \in Stores, c \in Cells : Count(s, c)' = Count(s, c)
        BY <2>1, <2>2, EvictCounts
    <2> QED BY <2>2, <2>3, <2>4, Stutter DEF callVars
<1>3. CASE EvictForAdmissionFails \/ FinishEvictFails
    <2>1. PICK t \in Victims : WriteBackFails(t)
        BY <1>3 DEF EvictForAdmissionFails, FinishEvictFails
    <2>2. self \in live /\ UNCHANGED genVars
        BY <1>3 DEF EvictForAdmissionFails, FinishEvictFails, Missing, Finishing, IInv, CallInv
    <2>3. live' = live
        BY <2>1 DEF WriteBackFails
    <2>4. \A s \in Stores, c \in Cells : Count(s, c)' = Count(s, c)
        BY <2>1, <2>2, WriteBackFailsCounts
    <2>5. CASE EvictForAdmissionFails
        <3>1. call' = call /\ self' = self
            BY <2>5 DEF EvictForAdmissionFails, Fail
        <3> QED BY <2>2, <2>3, <2>4, <3>1, Stutter
    <2>6. CASE FinishEvictFails
        <3>1. Finishing /\ Return
            BY <2>6 DEF FinishEvictFails
        <3> QED BY <2>2, <2>3, <2>4, <3>1, ReturnSteps
    <2> QED BY <1>3, <2>5, <2>6
<1>4. CASE LoopExit \/ ReadFails \/ NextGather
    <2>1. UNCHANGED <<storeVars, genVars, call, self>>
        BY <1>4 DEF LoopExit, ReadFails, NextGather, Fail
    <2>2. \A s \in Stores, c \in Cells : Count(s, c)' = Count(s, c)
        BY <2>1 DEF Count, storeVars
    <2> QED BY <2>1, <2>2, Stutter DEF storeVars
<1>5. CASE FinishFrame
    <2>1. Finishing /\ Return /\ UNCHANGED <<storeVars, genVars>>
        BY <1>5 DEF FinishFrame
    <2>2. \A s \in Stores, c \in Cells : Count(s, c)' = Count(s, c)
        BY <2>1 DEF Count, storeVars
    <2> QED BY <2>1, <2>2, ReturnSteps DEF storeVars
<1> QED BY <1>1, <1>2, <1>3, <1>4, <1>5 DEF Running

LEMMA NextSteps == IInv /\ [Next]_vars => [Promise!Next]_(Promise!vars)
<1> SUFFICES ASSUME IInv, [Next]_vars PROVE [Promise!Next]_(Promise!vars)
    OBVIOUS
<1>1. CASE BudgetSet
    <2>1. UNCHANGED <<storeVars, genVars, callVars>>
        BY <1>1 DEF BudgetSet
    <2>2. \A s \in Stores, c \in Cells : Count(s, c)' = Count(s, c)
        BY <2>1 DEF Count, storeVars
    <2> QED BY <2>1, <2>2, Stutter DEF storeVars, callVars
<1>2. ASSUME NEW s \in Stores, Spill(s) \/ Remove(s) PROVE [Promise!Next]_(Promise!vars)
    BY <1>2, SpillOpens, RemoveCloses DEF Promise!Next
<1>3. CASE Begin
    BY <1>3, BeginSteps DEF Begin
<1>4. CASE Running
    BY <1>4, RunningSteps
<1>5. CASE UNCHANGED vars
    <2>1. UNCHANGED <<storeVars, genVars, callVars>>
        BY <1>5 DEF vars
    <2>2. \A s \in Stores, c \in Cells : Count(s, c)' = Count(s, c)
        BY <2>1 DEF Count, storeVars
    <2> QED BY <2>1, <2>2, Stutter DEF storeVars, callVars
<1> QED BY <1>1, <1>2, <1>3, <1>4, <1>5 DEF Next

LEMMA InitSteps == Init => Promise!Init
<1> SUFFICES ASSUME Init PROVE Promise!Init
    OBVIOUS
<1>1. CountsBar = [s \in Stores |-> Promise!NoCounts]
    BY DEF Init, CountsBar, Count, NoCounts, Promise!NoCounts
<1>2. AppendingBar = [s \in Stores |-> FALSE]
    BY DEF Init, AppendingBar
<1> QED BY <1>1, <1>2 DEF Init, Promise!Init, CountsBar, AppendingBar

\* Caching, eviction, budgets and I/O errors do not show: to its callers a
\* spilled store is the table of counts of CountStore.
THEOREM Implementation == Spec => ImplementsCountStore
<1> QED BY InitIInv, NextIInv, InitSteps, NextSteps, PTL DEF Spec, ImplementsCountStore, Promise!Spec
-----------------------------------------------------------------------------
(* What is kept beside the counts.                                         *)

\* While a batch lands, a cell still has its points in the rest of the batch
\* to come; with them its level already agrees with the finer one.
Due(s, c) == IF call = "append" /\ self = s THEN Occurrences(todo, c) ELSE 0
Landed(s) == [c \in Cells |-> Saturated(Count(s, c) + Due(s, c))]

BatchInv ==
    call = "append" =>
        /\ later = <<>>
        /\ phase = "finish" => todo = <<>>
        /\ phase = "failed" => self \in partial

SumsInv == \A s \in live \ partial : Reduced(Landed(s))
MaximaInv == \A s \in live, l \in Levels : paintMaxima[s][l] = LevelMax(CountsOf(s), l)

TInv == BatchInv /\ SumsInv /\ MaximaInv /\ ResidentAccounting

LEMMA Saturates ==
    ASSUME NEW m \in Nat, NEW n \in Nat
    PROVE  /\ Saturated(m) \in Counts
           /\ m \in Counts => Saturated(m) = m
           /\ Saturated(Saturated(m) + n) = Saturated(m + n)
           /\ Saturated(n + Saturated(m)) = Saturated(n + m)
<1>1. CountMax \in Nat
    BY ConstantsAssumption
<1>2. Saturated(m) \in Counts /\ (m \in Counts => Saturated(m) = m)
    BY <1>1 DEF Saturated
<1>3. Saturated(Saturated(m) + n) = Saturated(m + n)
    BY <1>1 DEF Saturated
<1>4. Saturated(n + Saturated(m)) = Saturated(n + m)
    BY <1>1 DEF Saturated
<1> QED BY <1>2, <1>3, <1>4

\* Saturating every cell first does not change a saturated sum.
LEMMA SaturatedSum ==
    ASSUME NEW S, IsFiniteSet(S), NEW f, NEW g, \A c \in S : f[c] \in Nat /\ g[c] = Saturated(f[c])
    PROVE  Saturated(SumFunctionOnSet(g, S)) = Saturated(SumFunctionOnSet(f, S))
<1> DEFINE B == {T \in SUBSET S : Saturated(SumFunctionOnSet(g, T)) # Saturated(SumFunctionOnSet(f, T))}
<1> SUFFICES ASSUME B # {} PROVE FALSE
    OBVIOUS
<1>0. B \subseteq SUBSET S
    OBVIOUS
<1>1. PICK T \in B : \A U \in B : Cardinality(U) < Cardinality(T) => FALSE
    BY <1>0, SmallestSet
<1>2. IsFiniteSet(T) /\ T # {}
    BY FS_Subset, SumEmpty
<1>3. PICK x \in T : TRUE
    BY <1>2
<1> DEFINE U == T \ {x}
<1>4. U \notin B /\ U \in SUBSET S
    BY <1>1, <1>2, LessOne
<1>5. Saturated(SumFunctionOnSet(g, U)) = Saturated(SumFunctionOnSet(f, U))
    BY <1>4
<1>6. IsFiniteSet(U) /\ \A c \in T : f[c] \in Nat /\ g[c] \in Nat /\ g[c] = Saturated(f[c])
    <2>1. IsFiniteSet(U)
        BY <1>2, LessOne
    <2>2. ASSUME NEW c \in T PROVE f[c] \in Nat /\ g[c] \in Nat /\ g[c] = Saturated(f[c])
        <3>1. f[c] \in Nat /\ g[c] = Saturated(f[c])
            BY <1>0
        <3>2. Saturated(f[c]) \in Counts
            BY <3>1, Saturates
        <3> QED BY <3>1, <3>2, ConstantsAssumption
    <2> QED BY <2>1, <2>2
<1>7. /\ SumFunctionOnSet(f, T) = f[x] + SumFunctionOnSet(f, U)
      /\ SumFunctionOnSet(g, T) = g[x] + SumFunctionOnSet(g, U)
    BY <1>2, <1>6, SumRemove
<1>8. SumFunctionOnSet(f, U) \in Nat /\ SumFunctionOnSet(g, U) \in Nat
    BY <1>6, SumNat
<1> DEFINE F == SumFunctionOnSet(f, U)
           G == SumFunctionOnSet(g, U)
<1>9. Saturated(Saturated(f[x]) + G) = Saturated(f[x] + F)
    <2>0. F \in Nat /\ G \in Nat /\ f[x] \in Nat /\ Saturated(G) = Saturated(F)
        BY <1>5, <1>6, <1>8
    <2> HIDE DEF F, G
    <2>1. \A i, j, k \in Nat : Saturated(j) = Saturated(k) => Saturated(Saturated(i) + j) = Saturated(i + k)
        <3> SUFFICES ASSUME NEW i \in Nat, NEW j \in Nat, NEW k \in Nat, Saturated(j) = Saturated(k)
                     PROVE  Saturated(Saturated(i) + j) = Saturated(i + k)
            OBVIOUS
        <3>1. Saturated(Saturated(i) + j) = Saturated(i + j)
            BY Saturates
        <3>2. Saturated(i + Saturated(j)) = Saturated(i + j) /\ Saturated(i + Saturated(k)) = Saturated(i + k)
            BY Saturates
        <3> QED BY <3>1, <3>2
    <2> QED BY <2>0, <2>1
<1>10. T \notin B
    BY <1>6, <1>7, <1>9
<1> QED BY <1>10

LEMMA OccurrencesType ==
    ASSUME NEW w \in Seq(Cells), NEW c PROVE Occurrences(w, c) \in Nat
<1>1. DOMAIN w = 1..Len(w) /\ Len(w) \in Nat
    OBVIOUS
<1>2. IsFiniteSet({i \in DOMAIN w : w[i] = c})
    <2>1. IsFiniteSet(DOMAIN w) /\ {i \in DOMAIN w : w[i] = c} \subseteq DOMAIN w
        BY <1>1, FS_Interval
    <2> QED BY <2>1, FS_Subset
<1> QED BY <1>2, FS_CardinalityType DEF Occurrences

\* The head of a batch is one of the occurrences of its cell.
LEMMA OccurrencesTail ==
    ASSUME NEW w \in Seq(Cells), w # <<>>, NEW c
    PROVE  Occurrences(w, c) = Occurrences(Tail(w), c) + (IF Head(w) = c THEN 1 ELSE 0)
<1> DEFINE S == {i \in DOMAIN Tail(w) : Tail(w)[i] = c}
           T == {i \in DOMAIN w : w[i] = c} \ {1}
           f == [i \in S |-> i + 1]
<1>1. /\ Len(w) \in Nat /\ Len(w) >= 1 /\ DOMAIN w = 1..Len(w) /\ DOMAIN Tail(w) = 1..(Len(w) - 1)
      /\ Head(w) = w[1] /\ \A i \in 1..(Len(w) - 1) : Tail(w)[i] = w[i + 1]
    OBVIOUS
<1>2. IsFiniteSet(S) /\ IsFiniteSet({i \in DOMAIN w : w[i] = c})
    <2>1. IsFiniteSet(DOMAIN w) /\ IsFiniteSet(DOMAIN Tail(w))
        BY <1>1, FS_Interval
    <2> QED BY <2>1, FS_Subset
<1>3. \A i \in S : i + 1 \in T
    BY <1>1
<1>4. \A k \in T : k - 1 \in S /\ (k - 1) + 1 = k
    BY <1>1
<1>5. \A i, j \in S : i + 1 = j + 1 => i = j
    BY <1>1
<1> HIDE DEF S, T
<1>6. f \in [S -> T] /\ (\A i, j \in S : f[i] = f[j] => i = j) /\ (\A k \in T : \E i \in S : f[i] = k)
    BY <1>3, <1>4, <1>5
<1>7. f \in Bijection(S, T)
    BY <1>6 DEF Bijection, Injection, Surjection, IsInjective
<1>8. Cardinality(T) = Cardinality(S)
    BY <1>2, <1>7, FS_Bijection DEF ExistsBijection
<1>9. Cardinality({i \in DOMAIN w : w[i] = c}) =
         Cardinality(T) + (IF 1 \in {i \in DOMAIN w : w[i] = c} THEN 1 ELSE 0)
    <2> DEFINE R == {i \in DOMAIN w : w[i] = c}
    <2> HIDE DEF R
    <2>1. IsFiniteSet(R) /\ Cardinality(R) \in Nat /\ T = R \ {1}
        BY <1>2, FS_CardinalityType DEF R, T
    <2>2. Cardinality(T) = IF 1 \in R THEN Cardinality(R) - 1 ELSE Cardinality(R)
        BY <2>1, FS_RemoveElement
    <2>3. Cardinality(R) = Cardinality(T) + (IF 1 \in R THEN 1 ELSE 0)
        BY <2>1, <2>2
    <2> QED BY <2>3 DEF R
<1>10. 1 \in {i \in DOMAIN w : w[i] = c} <=> Head(w) = c
    BY <1>1
<1> QED BY <1>8, <1>9, <1>10 DEF Occurrences, S

LEMMA CountType == ASSUME IInv PROVE \A s \in Stores, c \in Cells : Count(s, c) \in Counts
BY ConstantsAssumption DEF IInv, Typed, FileHoldsCleanTiles, Count

LEMMA DueType == ASSUME IInv PROVE \A s \in Stores, c \in Cells : Due(s, c) \in Nat
BY OccurrencesType DEF IInv, Typed, Due
-----------------------------------------------------------------------------
\* Steps that change no count and leave nothing newly due.
LEMMA QuietStep ==
    ASSUME SumsInv, MaximaInv, live' = live, partial \subseteq partial', live \subseteq Stores,
           paintMaxima' = paintMaxima, \A s \in Stores, c \in Cells : Count(s, c)' = Count(s, c),
           \A s \in live \ partial', c \in Cells : Due(s, c)' = Due(s, c)
    PROVE  SumsInv' /\ MaximaInv'
<1>1. ASSUME NEW s \in live' \ partial' PROVE Reduced(Landed(s))'
    <2>1. Landed(s)' = Landed(s)
        BY <1>1 DEF Landed
    <2>2. Reduced(Landed(s))
        BY <1>1 DEF SumsInv
    <2> QED BY <2>1, <2>2 DEF Reduced
<1>2. ASSUME NEW s \in live', NEW l \in Levels PROVE paintMaxima'[s][l] = LevelMax(CountsOf(s), l)'
    <2>1. CountsOf(s)' = CountsOf(s)
        <3>1. \A c \in Cells : Count(s, c)' = Count(s, c)
            BY <1>2
        <3> QED BY <3>1
    <2>2. paintMaxima[s][l] = LevelMax(CountsOf(s), l)
        BY <1>2 DEF MaximaInv
    <2> HIDE DEF CountsOf
    <2> QED BY <2>1, <2>2 DEF LevelMax
<1> QED BY <1>1, <1>2 DEF SumsInv, MaximaInv

LEMMA ControlTotals ==
    ASSUME IInv, BatchInv, SumsInv, MaximaInv,
           BudgetSet \/ EvictForAdmission \/ EvictForAdmissionFails \/ LoopExit \/ ReadFails \/ NextGather
              \/ FinishEvict \/ FinishEvictFails \/ FinishFrame \/ UNCHANGED vars
    PROVE  SumsInv' /\ MaximaInv' /\ BatchInv'
<1>1. /\ \A s \in Stores, c \in Cells : Count(s, c)' = Count(s, c)
      /\ live' = live /\ paintMaxima' = paintMaxima /\ partial \subseteq partial'
    <2>1. CASE EvictForAdmission \/ FinishEvict
        <3>1. PICK t \in Victims : Evict(t)
            BY <2>1 DEF EvictForAdmission, FinishEvict
        <3>2. self \in live /\ partial' = partial
            BY <2>1 DEF EvictForAdmission, FinishEvict, Missing, Finishing, IInv, CallInv
        <3>3. live' = live /\ paintMaxima' = paintMaxima
            BY <3>1 DEF Evict
        <3> QED BY <3>1, <3>2, <3>3, EvictCounts
    <2>2. CASE EvictForAdmissionFails \/ FinishEvictFails
        <3>1. PICK t \in Victims : WriteBackFails(t)
            BY <2>2 DEF EvictForAdmissionFails, FinishEvictFails
        <3>2. self \in live /\ partial \subseteq partial'
            BY <2>2 DEF EvictForAdmissionFails, FinishEvictFails, Missing, Finishing, IInv, CallInv, Fail
        <3>3. live' = live /\ paintMaxima' = paintMaxima
            BY <3>1 DEF WriteBackFails
        <3> QED BY <3>1, <3>2, <3>3, WriteBackFailsCounts
    <2>3. CASE BudgetSet \/ LoopExit \/ ReadFails \/ NextGather \/ FinishFrame \/ UNCHANGED vars
        <3>1. UNCHANGED storeVars /\ partial \subseteq partial'
            BY <2>3 DEF BudgetSet, LoopExit, ReadFails, NextGather, FinishFrame, Fail, vars
        <3> QED BY <3>1 DEF storeVars, Count
    <2> QED BY <2>1, <2>2, <2>3
<1>2. CASE BudgetSet \/ EvictForAdmission \/ LoopExit \/ FinishEvict \/ UNCHANGED vars
    <2>1. /\ UNCHANGED <<call, self, todo, later, partial>>
          /\ phase' = phase \/ phase' = "admit"
        BY <1>2 DEF BudgetSet, EvictForAdmission, LoopExit, FinishEvict, vars, callVars
    <2>2. BatchInv'
        BY <2>1 DEF BatchInv
    <2>3. \A s \in Stores, c \in Cells : Due(s, c)' = Due(s, c)
        BY <2>1 DEF Due
    <2> QED BY <1>1, <2>2, <2>3, QuietStep DEF IInv, Typed
<1>3. CASE EvictForAdmissionFails \/ ReadFails
    <2>1. Fail
        BY <1>3 DEF EvictForAdmissionFails, ReadFails
    <2>2. /\ UNCHANGED <<call, self>> /\ phase' = "failed" /\ later' = <<>>
          /\ call = "append" => self \in partial'
        BY <2>1 DEF Fail
    <2>3. BatchInv'
        BY <2>2 DEF BatchInv
    <2>4. \A s \in live \ partial', c \in Cells : Due(s, c)' = Due(s, c)
        BY <2>2 DEF Due
    <2> QED BY <1>1, <2>3, <2>4, QuietStep DEF IInv, Typed
<1>4. CASE NextGather
    <2>1. /\ UNCHANGED <<call, self, partial>> /\ todo = <<>>
          /\ call = "append" => later' = later /\ todo' = todo /\ phase' = "finish"
        BY <1>4 DEF NextGather, BatchInv
    <2>2. BatchInv'
        BY <2>1 DEF BatchInv
    <2>3. \A s \in Stores, c \in Cells : Due(s, c)' = Due(s, c)
        BY <2>1 DEF Due
    <2> QED BY <1>1, <2>2, <2>3, QuietStep DEF IInv, Typed
<1>5. CASE FinishEvictFails \/ FinishFrame
    <2>1. /\ call' = "none" /\ partial' = partial
          /\ phase \in {"finish", "failed"}
        BY <1>5 DEF FinishEvictFails, FinishFrame, Return, Finishing
    <2>2. BatchInv'
        BY <2>1 DEF BatchInv
    <2>3. ASSUME NEW s \in live \ partial', NEW c \in Cells PROVE Due(s, c)' = Due(s, c)
        <3>1. Due(s, c)' = 0
            BY <2>1 DEF Due
        <3>2. CASE call = "append" /\ self = s
            <4>1. todo = <<>>
                BY <2>1, <2>3, <3>2 DEF BatchInv
            <4>2. {i \in DOMAIN todo : todo[i] = c} = {}
                BY <4>1
            <4>3. Occurrences(todo, c) = 0
                BY <4>2, FS_EmptySet DEF Occurrences
            <4> QED BY <3>1, <3>2, <4>3 DEF Due
        <3>3. CASE ~ (call = "append" /\ self = s)
            BY <3>1, <3>3 DEF Due
        <3> QED BY <3>2, <3>3
    <2> QED BY <1>1, <2>2, <2>3, QuietStep DEF IInv, Typed
<1> QED BY <1>2, <1>3, <1>4, <1>5

\* A point of the batch lands: what is due of its cell is one less, and what
\* the cell shows with what is due stays the same.
LEMMA FetchTotals ==
    ASSUME IInv, BatchInv, SumsInv, MaximaInv, FetchHit \/ Admit
    PROVE  SumsInv' /\ MaximaInv' /\ BatchInv'
<1> DEFINE h == Head(todo)
<1>1. PICK cells \in [Cells -> Counts] : Hands(cells)
    BY FetchHands
<1>2. /\ \A s \in Stores, d \in Cells : Count(s, d)' =
            IF call = "append" /\ s = self /\ d = h THEN SatInc(Count(s, d)) ELSE Count(s, d)
      /\ \A s \in Stores, l \in Levels : paintMaxima'[s][l] =
            IF call = "append" /\ s = self /\ l = LevelOf[h]
            THEN Larger(paintMaxima[s][l], SatInc(Count(self, h))) ELSE paintMaxima[s][l]
      /\ h \in Cells /\ todo' = Tail(todo)
    BY <1>1, UseTileCounts
<1>3. /\ UNCHANGED <<live, call, self, later, partial>> /\ phase' = "fetch"
      /\ todo # <<>> /\ todo \in Seq(Cells) /\ self \in Stores /\ live \subseteq Stores
    BY <1>1 DEF Hands, FetchHit, Admit, IInv, Typed
<1>4. BatchInv'
    BY <1>3 DEF BatchInv
<1>5. ASSUME NEW s \in Stores, NEW c \in Cells
      PROVE  Saturated(Count(s, c) + Due(s, c))' = Saturated(Count(s, c) + Due(s, c))
    <2>1. Count(s, c) \in Counts /\ Due(s, c) \in Nat /\ Due(s, c)' \in Nat
        <3>1. Tail(todo) \in Seq(Cells)
            BY <1>3
        <3> QED BY <1>2, <3>1, CountType, DueType, OccurrencesType DEF Due
    <2>2. CASE call = "append" /\ s = self /\ c = h
        <3>1. Due(s, c) = Due(s, c)' + 1
            BY <1>2, <1>3, <2>2, OccurrencesTail DEF Due
        <3>2. Count(s, c)' = SatInc(Count(s, c))
            BY <1>2, <2>2
        <3> QED BY <2>1, <3>1, <3>2, ConstantsAssumption DEF SatInc, Saturated
    <2>3. CASE ~ (call = "append" /\ s = self /\ c = h)
        <3>1. Due(s, c) = Due(s, c)'
            <4>1. CASE call = "append" /\ s = self
                <5>1. Occurrences(todo, c) = Occurrences(Tail(todo), c) + 0
                    BY <1>3, <2>3, <4>1, OccurrencesTail
                <5>2. Due(s, c) = Occurrences(todo, c) /\ Due(s, c)' = Occurrences(Tail(todo), c)
                    BY <1>2, <1>3, <4>1 DEF Due
                <5> QED BY <2>1, <5>1, <5>2
            <4>2. CASE ~ (call = "append" /\ s = self)
                BY <1>3, <4>2 DEF Due
            <4> QED BY <4>1, <4>2
        <3>2. Count(s, c)' = Count(s, c)
            BY <1>2, <2>3
        <3> QED BY <3>1, <3>2 DEF Saturated
    <2> QED BY <2>2, <2>3
<1>6. SumsInv'
    <2>1. ASSUME NEW s \in live' \ partial' PROVE Reduced(Landed(s))'
        <3>1. s \in Stores /\ s \in live \ partial
            BY <1>3, <2>1
        <3>2. Landed(s)' = Landed(s)
            BY <1>5, <3>1 DEF Landed
        <3>3. Reduced(Landed(s))
            BY <3>1 DEF SumsInv
        <3> QED BY <3>2, <3>3 DEF Reduced
    <2> QED BY <2>1 DEF SumsInv
<1>7. ASSUME NEW s \in live', NEW l \in Levels PROVE paintMaxima'[s][l] = LevelMax(CountsOf(s), l)'
    <2>0. s \in live /\ s \in Stores /\ self \in live
        BY <1>3, <1>7 DEF IInv, CallInv, FetchHit, Admit
    <2>1. CountsOf(s) \in [Cells -> Counts] /\ \A c \in Cells : CountsOf(s)[c] = Count(s, c)
        BY <2>0, CountType
    <2>2. paintMaxima[s][l] = LevelMax(CountsOf(s), l)
        BY <2>0 DEF MaximaInv
    <2>3. CASE call = "append" /\ s = self /\ l = LevelOf[h]
        <3> DEFINE n == SatInc(Count(s, h))
                   m == Larger(paintMaxima[s][l], n)
        <3>1. n \in Counts /\ Count(s, h) <= n /\ Count(s, h) \in Counts
            BY <1>2, <2>0, CountType, ConstantsAssumption DEF SatInc
        <3>2. /\ paintMaxima[s][l] \in Counts
              /\ \A c \in Cells : LevelOf[c] = l => Count(s, c) <= paintMaxima[s][l]
              /\ paintMaxima[s][l] = 0 \/ \E c \in Cells : LevelOf[c] = l /\ Count(s, c) = paintMaxima[s][l]
            BY <2>1, <2>2, LevelMaxType
        <3>3. \A c \in Cells : Count(s, c)' = IF c = h THEN n ELSE Count(s, c)
            BY <1>2, <2>0, <2>3
        <3>4. paintMaxima'[s][l] = m
            BY <1>2, <2>0, <2>3
        <3>5. CountsOf(s)' \in [Cells -> Counts] /\ \A c \in Cells : CountsOf(s)'[c] = Count(s, c)'
            BY <2>0, <2>1, <3>1, <3>3
        <3> HIDE DEF n
        <3>6. m \in Counts /\ n <= m /\ paintMaxima[s][l] <= m /\ (m = n \/ m = paintMaxima[s][l])
            BY <3>1, <3>2, ConstantsAssumption DEF Larger
        <3>7. \A c \in Cells : LevelOf[c] = l => Count(s, c)' <= m
            <4>1. \A c \in Cells : Count(s, c) \in Nat
                BY <2>0, CountType, ConstantsAssumption
            <4>2. m \in Nat /\ paintMaxima[s][l] \in Nat
                BY <3>2, <3>6, ConstantsAssumption
            <4> HIDE DEF m
            <4> QED BY <3>2, <3>3, <3>6, <4>1, <4>2
        <3>8. m = 0 \/ \E c \in Cells : LevelOf[c] = l /\ Count(s, c)' = m
            <4>1. CASE m = n
                BY <1>2, <2>3, <3>3, <4>1
            <4>2. CASE m = paintMaxima[s][l] /\ m # n /\ m # 0
                <5>1. PICK c \in Cells : LevelOf[c] = l /\ Count(s, c) = m
                    BY <3>2, <4>2
                <5>2. c # h
                    <6>1. n \in Nat /\ m \in Nat /\ Count(s, h) <= n /\ n <= m
                        BY <3>1, <3>6, ConstantsAssumption
                    <6> HIDE DEF m
                    <6> QED BY <4>2, <5>1, <6>1
                <5> QED BY <3>3, <5>1, <5>2
            <4> QED BY <3>6, <4>1, <4>2
        <3> HIDE DEF m
        <3>9. LevelMax(CountsOf(s)', l) = m
            <4> HIDE DEF CountsOf
            <4> QED BY <3>5, <3>6, <3>7, <3>8, LevelMaxType
        <3> QED BY <3>4, <3>9 DEF LevelMax
    <2>4. CASE call = "append" /\ s = self /\ l # LevelOf[h]
        <3>1. paintMaxima'[s][l] = paintMaxima[s][l]
            BY <1>2, <2>0, <2>4
        <3>2. \A c \in Cells : LevelOf[c] = l => Count(s, c)' = Count(s, c)
            BY <1>2, <2>0, <2>4
        <3>3. LevelMax(CountsOf(s), l)' = LevelMax(CountsOf(s), l)
            <4>1. {CountsOf(s)[c] : c \in {d \in Cells : LevelOf[d] = l}}'
                    = {CountsOf(s)[c] : c \in {d \in Cells : LevelOf[d] = l}}
                BY <3>2
            <4> QED BY <4>1 DEF LevelMax
        <3> QED BY <2>2, <3>1, <3>3
    <2>5. CASE ~ (call = "append" /\ s = self)
        <3>1. paintMaxima'[s][l] = paintMaxima[s][l]
            BY <1>2, <2>0, <2>5
        <3>2. CountsOf(s)' = CountsOf(s)
            <4>1. \A c \in Cells : Count(s, c)' = Count(s, c)
                BY <1>2, <2>0, <2>5
            <4> QED BY <4>1
        <3> HIDE DEF CountsOf
        <3> QED BY <2>2, <3>1, <3>2 DEF LevelMax
    <2> QED BY <2>3, <2>4, <2>5
<1>8. MaximaInv'
    BY <1>7 DEF MaximaInv
<1> QED BY <1>4, <1>6, <1>8

LEMMA NotLandingShows ==
    ASSUME IInv, NEW s \in Stores, ~ (call = "append" /\ self = s)
    PROVE  Landed(s) = CountsOf(s)
<1>1. ASSUME NEW c \in Cells PROVE Saturated(Count(s, c) + Due(s, c)) = Count(s, c)
    <2>1. Due(s, c) = 0 /\ Count(s, c) \in Counts
        BY CountType DEF Due
    <2>2. Count(s, c) \in Nat /\ Count(s, c) + 0 = Count(s, c)
        BY <2>1, ConstantsAssumption
    <2> QED BY <2>1, <2>2, Saturates
<1> QED BY <1>1 DEF Landed

\* An accepted batch is the same points on every level.
LEMMA BeginAppendTotals ==
    ASSUME IInv, BatchInv, SumsInv, MaximaInv, NEW r \in Stores, BeginAppend(r)
    PROVE  SumsInv' /\ MaximaInv' /\ BatchInv'
<1>1. /\ call = "none" /\ r \in live /\ call' = "append" /\ self' = r /\ phase' = "fetch"
      /\ todo' \in Batches[r] /\ later' = <<>> /\ partial' = partial /\ UNCHANGED storeVars
    BY DEF BeginAppend, BeginFrame
<1>2. /\ live' = live /\ paintMaxima' = paintMaxima /\ live \subseteq Stores
      /\ \A s \in Stores, c \in Cells : Count(s, c)' = Count(s, c)
    BY <1>1 DEF storeVars, Count, IInv, Typed
<1>3. BatchInv'
    BY <1>1 DEF BatchInv
<1>4. MaximaInv'
    <2>1. ASSUME NEW s \in live', NEW l \in Levels PROVE paintMaxima'[s][l] = LevelMax(CountsOf(s), l)'
        <3>1. CountsOf(s)' = CountsOf(s)
            BY <1>2, <2>1
        <3>2. paintMaxima[s][l] = LevelMax(CountsOf(s), l)
            BY <1>2, <2>1 DEF MaximaInv
        <3> HIDE DEF CountsOf
        <3> QED BY <1>2, <3>1, <3>2 DEF LevelMax
    <2> QED BY <2>1 DEF MaximaInv
<1>5. ASSUME NEW s \in live \ partial PROVE Reduced(Landed(s))'
    <2>0. s \in Stores /\ Reduced(CountsOf(s)) /\ \A c \in Cells : Count(s, c) \in Nat
        BY <1>1, <1>2, <1>5, NotLandingShows, CountType, ConstantsAssumption DEF SumsInv
    <2>1. CASE s # r
        <3>1. \A c \in Cells : Due(s, c) = 0 /\ Due(s, c)' = 0
            BY <1>1, <2>1 DEF Due
        <3>2. Landed(s)' = Landed(s)
            BY <1>2, <2>0, <3>1 DEF Landed
        <3>3. Reduced(Landed(s))
            BY <1>5 DEF SumsInv
        <3> QED BY <3>2, <3>3 DEF Reduced
    <2>2. CASE s = r
        <3> DEFINE w == todo'
                   f == CountsOf(s)
                   o == [d \in Cells |-> Occurrences(w, d)]
                   h == [d \in Cells |-> f[d] + o[d]]
                   g == [d \in Cells |-> Saturated(h[d])]
        <3>1. w \in Batches[s] /\ w \in Seq(Cells)
            BY <1>1, <2>2, ConstantsAssumption
        <3>2. \A d \in Cells : f[d] \in Nat /\ o[d] \in Nat /\ h[d] = f[d] + o[d] /\ g[d] = Saturated(h[d])
            BY <2>0, <3>1, OccurrencesType
        <3>3. Landed(s)' = g
            <4>1. \A d \in Cells : Due(s, d)' = Occurrences(w, d)
                BY <1>1, <2>2 DEF Due
            <4> QED BY <1>2, <2>0, <4>1 DEF Landed
        <3> HIDE DEF f, o, h, g, w
        <3>4. ASSUME NEW c \in Cells, Children[c] # {}
              PROVE  g[c] = Saturated(SumFunctionOnSet(g, Children[c]))
            <4> DEFINE C == Children[c]
            <4>1. C \subseteq Cells /\ IsFiniteSet(C)
                BY ConstantsAssumption, FiniteAssumption, FS_Subset
            <4>2. \A d \in C : f[d] \in Nat /\ o[d] \in Nat /\ h[d] \in Nat /\ h[d] = f[d] + o[d]
                       /\ g[d] = Saturated(h[d])
                BY <3>2, <4>1
            <4> HIDE DEF C
            <4> DEFINE F == SumFunctionOnSet(f, C)
                       O == SumFunctionOnSet(o, C)
            <4>3. SumFunctionOnSet(h, C) = F + O
                BY <4>1, <4>2, SumPlus
            <4>4. F \in Nat /\ O \in Nat
                BY <4>1, <4>2, SumNat
            <4>5. Saturated(SumFunctionOnSet(g, C)) = Saturated(F + O)
                BY <4>1, <4>2, <4>3, SaturatedSum
            <4>6. f[c] = Saturated(F)
                BY <2>0, <3>4 DEF Reduced, f, C
            <4>7. o[c] = O
                BY <3>1, <3>4, <2>0, BatchesAssumption DEF o, C
            <4>8. g[c] = Saturated(Saturated(F) + O)
                BY <3>2, <4>6, <4>7
            <4> HIDE DEF F, O
            <4>9. Saturated(Saturated(F) + O) = Saturated(F + O)
                BY <4>4, Saturates
            <4> QED BY <4>5, <4>8, <4>9 DEF C
        <3>5. Reduced(g)
            BY <3>4 DEF Reduced
        <3> QED BY <3>3, <3>5 DEF Reduced
    <2> QED BY <2>1, <2>2
<1>6. SumsInv'
    BY <1>1, <1>2, <1>5 DEF SumsInv
<1> QED BY <1>3, <1>4, <1>6

LEMMA BeginTotals ==
    ASSUME IInv, BatchInv, SumsInv, MaximaInv, Begin
    PROVE  SumsInv' /\ MaximaInv' /\ BatchInv'
<1>1. PICK r \in Stores : BeginCompose(r) \/ BeginPaint(r) \/ BeginFetchInto(r) \/ BeginAppend(r)
    BY DEF Begin
<1>2. CASE BeginAppend(r)
    BY <1>2, BeginAppendTotals
<1>3. CASE BeginCompose(r) \/ BeginPaint(r) \/ BeginFetchInto(r)
    <2>1. call = "none" /\ call' # "append" /\ partial' = partial /\ UNCHANGED storeVars
        BY <1>3 DEF BeginCompose, BeginPaint, BeginFetchInto, BeginFrame
    <2>2. /\ live' = live /\ paintMaxima' = paintMaxima /\ live \subseteq Stores
          /\ \A s \in Stores, c \in Cells : Count(s, c)' = Count(s, c)
        BY <2>1 DEF storeVars, Count, IInv, Typed
    <2>3. \A s \in live \ partial', c \in Cells : Due(s, c)' = Due(s, c)
        BY <2>1 DEF Due
    <2>4. BatchInv'
        BY <2>1 DEF BatchInv
    <2> QED BY <2>1, <2>2, <2>3, <2>4, QuietStep
<1> QED BY <1>1, <1>2, <1>3

\* A store that is opened is a built pyramid; one that is closed is no longer
\* one of the live ones.
LEMMA RegistryTotals ==
    ASSUME IInv, BatchInv, SumsInv, MaximaInv, NEW r \in Stores, Spill(r) \/ Remove(r)
    PROVE  SumsInv' /\ MaximaInv' /\ BatchInv'
<1>1. call = "none" /\ UNCHANGED callVars /\ live \subseteq Stores /\ live' \subseteq live \cup {r}
    BY DEF Spill, Remove, IInv, Typed
<1>2. BatchInv'
    BY <1>1 DEF BatchInv, callVars
<1>3. \A s \in Stores, c \in Cells : Due(s, c) = 0 /\ Due(s, c)' = 0
    BY <1>1 DEF Due, callVars
<1>4. ASSUME NEW s \in live', s # r
      PROVE  /\ s \in live /\ (s \notin partial' => s \notin partial)
             /\ CountsOf(s)' = CountsOf(s) /\ Landed(s)' = Landed(s)
             /\ \A l \in Levels : paintMaxima'[s][l] = paintMaxima[s][l]
    <2>1. s \in live /\ s \in Stores /\ (s \notin partial' => s \notin partial)
        BY <1>1, <1>4 DEF Spill, Remove
    <2>2. resident'[s] = resident[s] /\ ram'[s] = ram[s] /\ disk'[s] = disk[s]
        BY <1>4, <2>1 DEF Spill, Remove, IInv, Typed
    <2>3. \A l \in Levels : paintMaxima'[s][l] = paintMaxima[s][l]
        BY <1>4, <2>1 DEF Spill, Remove, IInv, Typed
    <2>4. \A c \in Cells : Count(s, c)' = Count(s, c)
        BY <2>2 DEF Count
    <2>5. CountsOf(s)' = CountsOf(s)
        BY <2>4
    <2>6. Landed(s)' = Landed(s)
        BY <1>3, <2>1, <2>4 DEF Landed
    <2> QED BY <2>1, <2>3, <2>5, <2>6
<1>5. ASSUME r \in live'
      PROVE  Reduced(Landed(r))' /\ \A l \in Levels : paintMaxima'[r][l] = LevelMax(CountsOf(r), l)'
    <2>1. Spill(r)
        BY <1>5 DEF Remove
    <2>2. PICK p \in Pyramids :
            /\ disk' = [disk EXCEPT ![r] = p]
            /\ paintMaxima' = [paintMaxima EXCEPT ![r] = [l \in Levels |-> LevelMax(p, l)]]
        BY <2>1 DEF Spill
    <2>3. p \in [Cells -> Counts] /\ Reduced(p)
        BY ConstantsAssumption, PyramidsAssumption
    <2>4. disk'[r] = p /\ \A l \in Levels : paintMaxima'[r][l] = LevelMax(p, l)
        BY <2>2 DEF IInv, Typed
    <2>5. resident'[r] = {}
        BY <2>1 DEF Spill, IInv, CallInv
    <2>6. CountsOf(r)' = p
        <3>1. \A c \in Cells : Count(r, c)' = p[c]
            BY <2>4, <2>5 DEF Count
        <3> QED BY <2>3, <3>1
    <2>7. Landed(r)' = p
        <3>1. \A c \in Cells : Count(r, c)' = p[c] /\ Due(r, c)' = 0
            BY <1>3, <2>4, <2>5 DEF Count
        <3>2. \A c \in Cells : Saturated(p[c] + 0) = p[c]
            <4>1. \A c \in Cells : p[c] \in Nat /\ p[c] \in Counts /\ p[c] + 0 = p[c]
                BY <2>3, ConstantsAssumption
            <4> QED BY <4>1, Saturates
        <3> QED BY <2>3, <3>1, <3>2 DEF Landed
    <2>8. Reduced(Landed(r))'
        BY <2>3, <2>7 DEF Reduced
    <2>9. \A l \in Levels : LevelMax(CountsOf(r), l)' = LevelMax(p, l)
        <3> HIDE DEF CountsOf
        <3> QED BY <2>6 DEF LevelMax
    <2> QED BY <2>4, <2>8, <2>9
<1>6. ASSUME NEW s \in live' \ partial' PROVE Reduced(Landed(s))'
    <2>1. CASE s # r
        <3>1. Landed(s)' = Landed(s) /\ Reduced(Landed(s))
            BY <1>4, <1>6, <2>1 DEF SumsInv
        <3> QED BY <3>1 DEF Reduced
    <2> QED BY <1>5, <1>6, <2>1
<1>7. ASSUME NEW s \in live', NEW l \in Levels PROVE paintMaxima'[s][l] = LevelMax(CountsOf(s), l)'
    <2>1. CASE s # r
        <3>1. CountsOf(s)' = CountsOf(s) /\ paintMaxima'[s][l] = LevelMax(CountsOf(s), l)
            BY <1>4, <1>7, <2>1 DEF MaximaInv
        <3> HIDE DEF CountsOf
        <3> QED BY <3>1 DEF LevelMax
    <2> QED BY <1>5, <1>7, <2>1
<1>8. SumsInv' /\ MaximaInv'
    BY <1>6, <1>7 DEF SumsInv, MaximaInv
<1> QED BY <1>2, <1>8
-----------------------------------------------------------------------------
\* One store's residency changes, and is charged.
LEMMA ChargeMoves ==
    ASSUME IInv, ResidentAccounting, NEW r \in Stores, NEW d \in Int,
           \A s \in Stores \ {r} : resident'[s] = resident[s],
           Cardinality(resident[r]) + d \in Nat,
           Cardinality(resident'[r]) = Cardinality(resident[r]) + d,
           globalResident' = globalResident + TileBytes[r] * d
    PROVE  ResidentAccounting'
<1> DEFINE f == [s \in Stores |-> TileBytes[s] * Cardinality(resident[s])]
           g == [s \in Stores |-> TileBytes[s] * Cardinality(resident'[s])]
<1>1. \A s \in Stores : TileBytes[s] \in Int /\ Cardinality(resident[s]) \in Nat
    <2>1. \A s \in Stores : IsFiniteSet(resident[s])
        BY FiniteAssumption, FS_Subset DEF IInv, Typed
    <2> QED BY <2>1, FS_CardinalityType, ConstantsAssumption
<1>2. \A s \in Stores : f[s] \in Int
    <2>1. \A i, j \in Int : i * j \in Int
        OBVIOUS
    <2> QED BY <1>1, <2>1
<1>3. \A s \in Stores \ {r} : g[s] = f[s]
    OBVIOUS
<1>4. g[r] = f[r] + TileBytes[r] * d /\ g[r] \in Int
    <2>1. \A i, j, k \in Int : i * (j + k) = i * j + i * k /\ i * (j + k) \in Int
        OBVIOUS
    <2> QED BY <1>1, <2>1
<1> HIDE DEF f, g
<1>5. SumFunctionOnSet(g, Stores) = SumFunctionOnSet(f, Stores) - f[r] + g[r]
    <2>1. IsFiniteSet(Stores) /\ g[r] \in Int
        BY <1>4, FiniteAssumption
    <2> QED BY <1>2, <1>3, <2>1, SumChange
<1>6. SumFunctionOnSet(f, Stores) \in Int
    BY <1>2, FiniteAssumption, SumInt
<1>7. globalResident = SumFunctionOnSet(f, Stores)
    BY DEF ResidentAccounting, f
<1>8. TileBytes[r] * d \in Int
    <2>1. \A i, j \in Int : i * j \in Int
        OBVIOUS
    <2> QED BY <1>1, <2>1
<1>9. globalResident' = SumFunctionOnSet(g, Stores)
    BY <1>2, <1>4, <1>5, <1>6, <1>7, <1>8
<1> QED BY <1>9 DEF ResidentAccounting, g

LEMMA EvictCharge ==
    ASSUME IInv, ResidentAccounting, self \in live, NEW t \in Victims, Evict(t)
    PROVE  ResidentAccounting'
<1>0. PICK r \in live : \E k \in resident[r] : t = <<r, k>>
    BY VictimsResident DEF IInv
<1>1. PICK k \in resident[r] : t = <<r, k>>
    BY <1>0
<1>2. /\ r \in Stores /\ resident[r] \subseteq Keys
      /\ resident' = [resident EXCEPT ![r] = @ \ {k}]
      /\ globalResident' = globalResident - TileBytes[r]
    BY <1>0, <1>1 DEF Evict, IInv, Typed
<1>3. resident'[r] = resident[r] \ {k} /\ \A s \in Stores \ {r} : resident'[s] = resident[s]
    BY <1>2 DEF IInv, Typed
<1>4. IsFiniteSet(resident[r])
    BY <1>2, FiniteAssumption, FS_Subset
<1>5. /\ Cardinality(resident[r]) \in Nat
      /\ Cardinality(resident'[r]) = Cardinality(resident[r]) + (-1)
      /\ Cardinality(resident[r]) + (-1) \in Nat
    <2>1. Cardinality(resident'[r]) \in Nat /\ Cardinality(resident[r]) \in Nat
        BY <1>3, <1>4, FS_RemoveElement, FS_CardinalityType
    <2>2. Cardinality(resident'[r]) = Cardinality(resident[r]) - 1
        BY <1>3, <1>4, FS_RemoveElement
    <2> QED BY <2>1, <2>2
<1>6. globalResident' = globalResident + TileBytes[r] * (-1) /\ -1 \in Int
    <2>0. globalResident \in Int
        BY DEF IInv, Typed
    <2>1. TileBytes[r] \in Int
        BY <1>2, ConstantsAssumption
    <2>2. \A g, i \in Int : g - i = g + i * (-1)
        OBVIOUS
    <2> QED BY <1>2, <2>0, <2>1, <2>2
<1> QED BY <1>2, <1>3, <1>5, <1>6, ChargeMoves

LEMMA NextCharge == IInv /\ ResidentAccounting /\ [Next]_vars => ResidentAccounting'
<1> SUFFICES ASSUME IInv, ResidentAccounting, [Next]_vars PROVE ResidentAccounting'
    OBVIOUS
<1>1. CASE UNCHANGED <<resident, globalResident>>
    BY <1>1 DEF ResidentAccounting
<1>2. CASE EvictForAdmission \/ FinishEvict
    <2>1. PICK t \in Victims : Evict(t)
        BY <1>2 DEF EvictForAdmission, FinishEvict
    <2>2. self \in live
        BY <1>2 DEF EvictForAdmission, FinishEvict, Missing, Finishing, IInv, CallInv
    <2> QED BY <2>1, <2>2, EvictCharge
<1>3. CASE Admit
    <2> DEFINE k == KeyOf[Head(todo)]
    <2>1. /\ resident' = [resident EXCEPT ![self] = @ \cup {k}]
          /\ globalResident' = globalResident + TileBytes[self] /\ self \in Stores
          /\ k \notin resident[self] /\ resident[self] \subseteq Keys
        BY <1>3 DEF Admit, IInv, Typed, CallInv
    <2>2. resident'[self] = resident[self] \cup {k} /\ \A s \in Stores \ {self} : resident'[s] = resident[s]
        BY <2>1 DEF IInv, Typed
    <2>3. IsFiniteSet(resident[self])
        BY <2>1, FiniteAssumption, FS_Subset
    <2>4. Cardinality(resident[self]) \in Nat /\ Cardinality(resident'[self]) = Cardinality(resident[self]) + 1
        BY <2>1, <2>2, <2>3, FS_AddElement, FS_CardinalityType
    <2>5. globalResident' = globalResident + TileBytes[self] * 1
        BY <2>1, ConstantsAssumption
    <2>6. 1 \in Int /\ Cardinality(resident[self]) + 1 \in Nat
        BY <2>4
    <2> QED BY <2>1, <2>2, <2>4, <2>5, <2>6, ChargeMoves
<1>4. ASSUME NEW s \in Stores, Remove(s) PROVE ResidentAccounting'
    <2> DEFINE n == Cardinality(resident[s])
    <2>1. /\ resident' = [resident EXCEPT ![s] = {}] /\ resident[s] \subseteq Keys
          /\ globalResident' = globalResident - TileBytes[s] * n
        BY <1>4 DEF Remove, IInv, Typed
    <2>2. resident'[s] = {} /\ \A r \in Stores \ {s} : resident'[r] = resident[r]
        BY <2>1 DEF IInv, Typed
    <2>3. n \in Nat
        BY <2>1, FiniteAssumption, FS_Subset, FS_CardinalityType
    <2> HIDE DEF n
    <2>4. Cardinality(resident'[s]) = n + (-n) /\ n + (-n) \in Nat /\ -n \in Int
        BY <2>2, <2>3, FS_EmptySet
    <2>5. globalResident' = globalResident + TileBytes[s] * (-n)
        <3>1. \A g, i, j \in Int : g - i * j = g + i * (-j)
            OBVIOUS
        <3>2. globalResident \in Int /\ TileBytes[s] \in Int /\ n \in Int
            BY <2>3, ConstantsAssumption DEF IInv, Typed
        <3> QED BY <2>1, <3>1, <3>2
    <2>6. Cardinality(resident[s]) = n
        BY DEF n
    <2> QED BY <2>2, <2>4, <2>5, <2>6, ChargeMoves
<1>5. Next => \/ UNCHANGED <<resident, globalResident>> \/ EvictForAdmission \/ FinishEvict \/ Admit
              \/ \E s \in Stores : Remove(s)
    <2>1. BudgetSet \/ (\E s \in Stores : Spill(s)) \/ Begin \/ FetchHit \/ EvictForAdmissionFails \/ LoopExit
             \/ ReadFails \/ NextGather \/ FinishEvictFails \/ FinishFrame
             => UNCHANGED <<resident, globalResident>>
        BY DEF BudgetSet, Spill, Begin, BeginCompose, BeginPaint, BeginFetchInto, BeginAppend, BeginFrame,
               FetchHit, EvictForAdmissionFails, LoopExit, ReadFails, NextGather, FinishEvictFails, FinishFrame,
               WriteBackFails, storeVars, poolVars
    <2> QED BY <2>1 DEF Next, Running
<1>6. UNCHANGED vars => UNCHANGED <<resident, globalResident>>
    BY DEF vars, storeVars, poolVars
<1> QED BY <1>1, <1>2, <1>3, <1>4, <1>5, <1>6
-----------------------------------------------------------------------------
LEMMA InitTInv == Init => TInv
<1> SUFFICES ASSUME Init PROVE TInv
    OBVIOUS
<1>1. BatchInv /\ SumsInv /\ MaximaInv
    BY DEF Init, BatchInv, SumsInv, MaximaInv
<1>2. ResidentAccounting
    <2> DEFINE f == [s \in Stores |-> TileBytes[s] * Cardinality(resident[s])]
    <2>1. \A s \in Stores : f[s] = 0
        <3>1. \A s \in Stores : Cardinality(resident[s]) = 0 /\ TileBytes[s] \in Int
            BY FS_EmptySet, ConstantsAssumption DEF Init
        <3> QED BY <3>1
    <2> HIDE DEF f
    <2>2. SumFunctionOnSet(f, Stores) = 0
        BY <2>1, FiniteAssumption, SumZero
    <2>3. globalResident = 0
        BY DEF Init
    <2> QED BY <2>2, <2>3 DEF ResidentAccounting, f
<1> QED BY <1>1, <1>2 DEF TInv

LEMMA NextTInv == IInv /\ TInv /\ [Next]_vars => TInv'
<1> SUFFICES ASSUME IInv, TInv, [Next]_vars PROVE TInv'
    OBVIOUS
<1> USE DEF TInv
<1>1. ResidentAccounting'
    BY NextCharge
<1>2. ASSUME NEW s \in Stores, Spill(s) \/ Remove(s) PROVE TInv'
    BY <1>1, <1>2, RegistryTotals
<1>3. CASE Begin
    BY <1>1, <1>3, BeginTotals
<1>4. CASE FetchHit \/ Admit
    BY <1>1, <1>4, FetchTotals
<1>5. CASE BudgetSet \/ EvictForAdmission \/ EvictForAdmissionFails \/ LoopExit \/ ReadFails \/ NextGather
              \/ FinishEvict \/ FinishEvictFails \/ FinishFrame \/ UNCHANGED vars
    BY <1>1, <1>5, ControlTotals
<1> QED BY <1>2, <1>3, <1>4, <1>5 DEF Next, Running

\* The pyramid stays what a rebuild would make it and the scale of a reply the
\* true maximum of its level, through evictions, failures and saturation; and
\* GLOBAL_RESIDENT is what the tiles in RAM cost.
THEOREM TotalsKept == Spec => []TotalsAgree
<1>1. IInv /\ TInv => TotalsAgree
    <2> SUFFICES ASSUME IInv, TInv PROVE TotalsAgree
        OBVIOUS
    <2>1. ASSUME NEW s \in live \ partial, ~ (call = "append" /\ self = s) PROVE Reduced(CountsOf(s))
        <3>1. s \in Stores /\ Reduced(Landed(s))
            BY <2>1 DEF IInv, Typed, TInv, SumsInv
        <3>2. Landed(s) = CountsOf(s)
            BY <2>1, <3>1, NotLandingShows
        <3> HIDE DEF CountsOf
        <3> QED BY <3>1, <3>2
    <2> QED BY <2>1 DEF TotalsAgree, LevelsAgree, TInv, MaximaInv
<1> QED BY InitIInv, NextIInv, InitTInv, NextTInv, <1>1, PTL DEF Spec

LEMMA ChargeIsNat == IInv /\ ResidentAccounting => globalResident \in Nat
<1> SUFFICES ASSUME IInv, ResidentAccounting PROVE globalResident \in Nat
    OBVIOUS
<1> DEFINE f == [s \in Stores |-> TileBytes[s] * Cardinality(resident[s])]
<1>1. \A s \in Stores : f[s] \in Nat
    <2>1. \A s \in Stores : IsFiniteSet(resident[s])
        BY FiniteAssumption, FS_Subset DEF IInv, Typed
    <2>2. \A s \in Stores : Cardinality(resident[s]) \in Nat /\ TileBytes[s] \in Nat
        BY <2>1, FS_CardinalityType, ConstantsAssumption
    <2>3. \A i, j \in Nat : i * j \in Nat
        OBVIOUS
    <2> QED BY <2>2, <2>3
<1> HIDE DEF f
<1>2. SumFunctionOnSet(f, Stores) \in Nat
    BY <1>1, FiniteAssumption, SumNat
<1> QED BY <1>2 DEF ResidentAccounting, f

\* The state of the stores and of the call in progress always has its type: no
\* torn slab gets into RAM, and GLOBAL_RESIDENT, from which evictions and
\* removals subtract, never goes below zero.  That takes the accounting.
THEOREM TypeCorrect == Spec => []TypeOK
<1>1. IInv /\ TInv => TypeOK
    BY ChargeIsNat DEF IInv, TInv, TypeOK
<1> QED BY InitIInv, NextIInv, InitTInv, NextTInv, <1>1, PTL DEF Spec
-----------------------------------------------------------------------------
(* The order of eviction, and the return to the budget.                    *)

\* A call that is over pins nothing.
PinInv == phase \in {"finish", "failed"} => pinned = {}

LEMMA NextPinInv == PinInv /\ [Next]_vars => PinInv'
<1> SUFFICES ASSUME PinInv, [Next]_vars PROVE PinInv'
    OBVIOUS
<1>1. CASE UNCHANGED <<phase, pinned>>
    BY <1>1 DEF PinInv
<1>2. CASE phase' \notin {"finish", "failed"} \/ pinned' = {}
    BY <1>2 DEF PinInv
<1>3. BudgetSet \/ (\E s \in Stores : Spill(s) \/ Remove(s)) \/ UNCHANGED vars => UNCHANGED <<phase, pinned>>
    BY DEF BudgetSet, Spill, Remove, vars, callVars
<1>4. Begin => phase' = "fetch"
    BY DEF Begin, BeginCompose, BeginPaint, BeginFetchInto, BeginAppend, BeginFrame
<1>5. FetchHit \/ EvictForAdmission \/ FinishEvict => UNCHANGED <<phase, pinned>>
    BY DEF FetchHit, EvictForAdmission, FinishEvict, callVars
<1>6. LoopExit \/ Admit => phase' \in {"fetch", "admit"}
    BY DEF LoopExit, Admit
<1>7. EvictForAdmissionFails \/ ReadFails => pinned' = {}
    BY DEF EvictForAdmissionFails, ReadFails, Fail
<1>8. NextGather => phase' = "fetch" \/ pinned' = {}
    BY DEF NextGather
<1>9. FinishEvictFails \/ FinishFrame => pinned' = {}
    BY DEF FinishEvictFails, FinishFrame, Return, Finishing, PinInv
<1> QED BY <1>1, <1>2, <1>3, <1>4, <1>5, <1>6, <1>7, <1>8, <1>9 DEF Next, Running

\* Of any tiles there is an oldest one.
LEMMA SomeOldest ==
    ASSUME NEW S, S # {}, \A t \in S : Tick(t) \in Nat PROVE Oldest(S) # {}
<1> DEFINE N == {Tick(t) : t \in S}
<1>1. N \subseteq Nat /\ N # {}
    OBVIOUS
<1>2. PICK n \in N : \A m \in N : n <= m
    BY <1>1, LeastNat
<1>3. PICK t \in S : n = Tick(t)
    BY <1>2
<1>4. \A u \in S : Tick(t) <= Tick(u)
    BY <1>2, <1>3
<1> QED BY <1>4 DEF Oldest

LEMMA TicksAreNat ==
    ASSUME IInv, self \in live
    PROVE  \A t \in OwnUnpinned \cup SiblingTiles : Tick(t) \in Nat
<1>1. ASSUME NEW s \in Stores, NEW k \in Keys PROVE Tick(<<s, k>>) \in Nat
    BY <1>1 DEF Tick, IInv, Typed
<1>2. \A t \in OwnUnpinned \cup SiblingTiles : \E s \in Stores, k \in Keys : t = <<s, k>>
    BY DEF OwnUnpinned, SiblingTiles, IInv, Typed
<1> QED BY <1>1, <1>2

\* A victim is the oldest unpinned tile of all the stores, and there is none
\* only when nothing is left to evict.
LEMMA VictimsAreOldest ==
    ASSUME IInv, self \in live
    PROVE  /\ \A t \in Victims : /\ t \in OwnUnpinned \cup SiblingTiles
                                 /\ \A u \in OwnUnpinned \cup SiblingTiles : Tick(t) <= Tick(u)
           /\ Victims = {} => OwnUnpinned \cup SiblingTiles = {}
<1> DEFINE own == Oldest(OwnUnpinned)
           sibling == Oldest(SiblingTiles)
<1>1. \A t \in OwnUnpinned \cup SiblingTiles : Tick(t) \in Nat
    BY TicksAreNat
<1>2. /\ OwnUnpinned # {} => own # {}
      /\ SiblingTiles # {} => sibling # {}
    BY <1>1, SomeOldest
<1>3. /\ \A t \in own : t \in OwnUnpinned /\ \A u \in OwnUnpinned : Tick(t) <= Tick(u)
      /\ \A t \in sibling : t \in SiblingTiles /\ \A u \in SiblingTiles : Tick(t) <= Tick(u)
    BY DEF Oldest
<1>4. Victims = IF own = {} \/ \E t \in own, u \in sibling : Tick(u) < Tick(t) THEN sibling ELSE own
    BY DEF Victims
<1> HIDE DEF own, sibling
<1>5. CASE own = {}
    BY <1>2, <1>3, <1>4, <1>5
<1>6. CASE own # {} /\ \E t \in own, u \in sibling : Tick(u) < Tick(t)
    <2>1. PICK t0 \in own, u0 \in sibling : Tick(u0) < Tick(t0)
        BY <1>6
    <2>2. Victims = sibling
        BY <1>4, <1>6
    <2>3. ASSUME NEW t \in sibling, NEW u \in OwnUnpinned PROVE Tick(t) <= Tick(u)
        <3>1. Tick(t) <= Tick(u0) /\ Tick(t0) <= Tick(u)
            BY <1>3, <2>3
        <3>2. Tick(t) \in Nat /\ Tick(u0) \in Nat /\ Tick(t0) \in Nat /\ Tick(u) \in Nat
            BY <1>1, <1>3, <2>3
        <3> QED BY <2>1, <3>1, <3>2
    <2> QED BY <1>3, <2>1, <2>2, <2>3
<1>7. CASE own # {} /\ ~ (\E t \in own, u \in sibling : Tick(u) < Tick(t))
    <2>1. Victims = own
        BY <1>4, <1>7
    <2>2. ASSUME NEW t \in own, NEW u \in SiblingTiles PROVE Tick(t) <= Tick(u)
        <3>1. PICK u0 \in sibling : TRUE
            BY <1>2, <2>2
        <3>2. ~ (Tick(u0) < Tick(t)) /\ Tick(u0) <= Tick(u)
            BY <1>3, <1>7, <2>2
        <3>3. Tick(t) \in Nat /\ Tick(u0) \in Nat /\ Tick(u) \in Nat
            BY <1>1, <1>3, <2>2
        <3> QED BY <3>2, <3>3
    <2> QED BY <1>3, <1>7, <2>1, <2>2
<1> QED BY <1>5, <1>6, <1>7

\* When nothing is in RAM, nothing is charged.
LEMMA NothingIsFree ==
    ASSUME ResidentAccounting, \A s \in Stores : resident[s] = {} PROVE globalResident = 0
<1> DEFINE f == [s \in Stores |-> TileBytes[s] * Cardinality(resident[s])]
<1>1. \A s \in Stores : f[s] = 0
    <2>1. ASSUME NEW s \in Stores PROVE Cardinality(resident[s]) = 0 /\ TileBytes[s] \in Int
        <3>1. resident[s] = {}
            OBVIOUS
        <3>2. Cardinality(resident[s]) = 0
            BY <3>1, FS_EmptySet
        <3>3. TileBytes[s] \in Int
            BY ConstantsAssumption
        <3> QED BY <3>2, <3>3
    <2> QED BY <2>1
<1> HIDE DEF f
<1>2. SumFunctionOnSet(f, Stores) = 0
    BY <1>1, FiniteAssumption, SumZero
<1> QED BY <1>2 DEF ResidentAccounting, f

LEMMA ReturnsInBudget ==
    ASSUME IInv, TInv, PinInv, [Next]_vars, call # "none", call' = "none", globalResident' > budget
    PROVE  \E s \in live : dirty[s] # {}
<1>1. FinishEvictFails \/ FinishFrame
    <2>1. call' = call \/ call' # "none" \/ FinishEvictFails \/ FinishFrame
        BY DEF Next, Running, BudgetSet, Spill, Remove, Begin, BeginCompose, BeginPaint, BeginFetchInto,
               BeginAppend, BeginFrame, FetchHit, EvictForAdmission, EvictForAdmissionFails, LoopExit, Admit,
               ReadFails, NextGather, FinishEvict, Fail, vars, callVars
    <2> QED BY <2>1
<1>2. self \in live /\ pinned = {} /\ budget \in Nat
    BY <1>1 DEF FinishEvictFails, FinishFrame, Finishing, PinInv, IInv, CallInv, Typed
<1>3. CASE FinishEvictFails
    <2>1. PICK t \in Victims : WriteBackFails(t)
        BY <1>3 DEF FinishEvictFails
    <2>2. PICK s \in live : \E k \in resident[s] : t = <<s, k>>
        BY <1>2, VictimsResident DEF IInv
    <2> QED BY <2>1, <2>2 DEF WriteBackFails
<1>4. CASE FinishFrame
    <2>1. globalResident' = globalResident /\ globalResident \in Int
        BY <1>4 DEF FinishFrame, poolVars, IInv, Typed
    <2>2. ~Fits(0)
        BY <1>2, <2>1 DEF Fits
    <2>3. Victims = {}
        BY <1>4, <2>2 DEF FinishFrame
    <2>4. OwnUnpinned \cup SiblingTiles = {}
        BY <1>2, <2>3, VictimsAreOldest
    <2>5. ASSUME NEW s \in Stores, NEW k \in resident[s] PROVE FALSE
        <3>1. s \in live
            BY <2>5 DEF IInv, CallInv
        <3>2. CASE s = self
            <4>1. <<s, k>> \in {self} \X (resident[self] \ pinned)
                BY <1>2, <2>5, <3>2
            <4> QED BY <2>4, <4>1 DEF OwnUnpinned
        <3>3. CASE s # self
            <4>1. <<s, k>> \in SiblingTiles
                BY <2>5, <3>1, <3>3 DEF SiblingTiles
            <4> QED BY <2>4, <4>1
        <3> QED BY <3>2, <3>3
    <2>6. globalResident = 0
        BY <2>5, NothingIsFree DEF TInv
    <2> QED BY <1>2, <2>1, <2>6
<1> QED BY <1>1, <1>3, <1>4

LEMMA EvictsOldest ==
    ASSUME IInv, [Next]_vars, NEW s \in live \cap live', NEW k \in resident[s] \ resident'[s]
    PROVE  LET unpinned == OwnUnpinned \cup SiblingTiles
           IN  <<s, k>> \in unpinned /\ \A u \in unpinned : Tick(<<s, k>>) <= Tick(u)
<1>1. s \in Stores /\ resident \in [Stores -> SUBSET Keys]
    BY DEF IInv, Typed
<1>2. EvictForAdmission \/ FinishEvict
    <2>1. BudgetSet \/ (\E r \in Stores : Spill(r)) \/ Begin \/ FetchHit \/ EvictForAdmissionFails \/ LoopExit
             \/ ReadFails \/ NextGather \/ FinishEvictFails \/ FinishFrame \/ UNCHANGED vars
             => UNCHANGED resident
        BY DEF BudgetSet, Spill, Begin, BeginCompose, BeginPaint, BeginFetchInto, BeginAppend, BeginFrame,
               FetchHit, EvictForAdmissionFails, LoopExit, ReadFails, NextGather, FinishEvictFails, FinishFrame,
               WriteBackFails, storeVars, vars
    <2>2. ASSUME NEW r \in Stores, Remove(r) PROVE resident'[s] = resident[s]
        BY <1>1, <2>2 DEF Remove
    <2>3. ASSUME Admit PROVE resident[s] \subseteq resident'[s]
        BY <1>1, <2>3 DEF Admit
    <2> QED BY <2>1, <2>2, <2>3 DEF Next, Running
<1>3. PICK t \in Victims : Evict(t)
    BY <1>2 DEF EvictForAdmission, FinishEvict
<1>4. self \in live
    BY <1>2 DEF EvictForAdmission, FinishEvict, Missing, Finishing, IInv, CallInv
<1>5. t = <<s, k>>
    <2>1. PICK r \in live : \E j \in resident[r] : t = <<r, j>>
        BY <1>4, VictimsResident DEF IInv
    <2>2. PICK j \in resident[r] : t = <<r, j>>
        BY <2>1
    <2>3. resident' = [resident EXCEPT ![r] = @ \ {j}]
        BY <1>3, <2>2 DEF Evict
    <2> QED BY <1>1, <2>2, <2>3
<1> QED BY <1>3, <1>4, <1>5, VictimsAreOldest

\* A call leaves residency above budget only with a tile it could not write
\* back, and what leaves RAM under it is unpinned and the least recently
\* fetched of all stores.
THEOREM EvictionInOrder == Spec => EvictsWhatItMust
<1> DEFINE P == call # "none" /\ call' = "none" /\ globalResident' > budget => \E s \in live : dirty[s] # {}
           Q == \A s \in live \cap live' : \A k \in resident[s] \ resident'[s] :
                   LET unpinned == OwnUnpinned \cup SiblingTiles
                   IN  <<s, k>> \in unpinned /\ \A u \in unpinned : Tick(<<s, k>>) <= Tick(u)
<1>1. Init => PinInv
    BY DEF Init, PinInv
<1>2. IInv /\ TInv /\ PinInv /\ [Next]_vars => [P /\ Q]_vars
    BY ReturnsInBudget, EvictsOldest
<1>3. Spec => [][P /\ Q]_vars
    BY InitIInv, NextIInv, InitTInv, NextTInv, NextPinInv, <1>1, <1>2, PTL DEF Spec
<1> QED BY <1>3, PTL DEF EvictsWhatItMust, ReturnsWithinBudget, EvictsGloballyOldest
-----------------------------------------------------------------------------
(***************************************************************************)
(* The lock order of the tile-store registry, for any number of threads    *)
(* and handles: what TLC checks of Serialized on two threads.              *)
(***************************************************************************)
HIDE DEF Counts, Calls

\* Who has been let in by the operation lock; who has the registry; whose own
\* store is locked.
AtWork(t) == pc[t] \notin {"idle", "takeOperation"}
InRegistry == {"inRegistry", "inSnapshot", "inLookup"}
Own == {"running", "faulting", "takeSnapshot", "inSnapshot", "inspect", "inspecting",
        "takeLookup", "inLookup", "takeVictim", "evicting"}

\* The stores whose mutex t has, by where it is.
Holds(t, h) ==
    \/ pc[t] \in Own /\ h = target[t]
    \/ pc[t] = "inspecting" /\ h = NextSibling(t)
    \/ pc[t] = "evicting" /\ h = victim[t]

LocksByPlace ==
    /\ \A t \in Threads : operation = t <=> AtWork(t)
    /\ \A t \in Threads : registry = t <=> pc[t] \in InRegistry
    /\ \A t \in Threads, h \in Handles : storeLock[h] = t <=> Holds(t, h)

\* Nobody but the holder of the operation lock removes a store, so what the
\* holder found registered stays so, and the stores it works on are distinct.
WorksOnRegistered ==
    \A t \in Threads :
        /\ pc[t] = "takeStore" \/ pc[t] \in Own => target[t] \in registered
        /\ pc[t] \in {"inspect", "inspecting"} =>
              /\ siblings[t] \subseteq registered \ {target[t]}
              /\ victim[t] = 0 \/ victim[t] \in registered \ {target[t]}
        /\ pc[t] = "inspecting" => siblings[t] # {}
        /\ pc[t] \in {"takeLookup", "inLookup", "takeVictim", "evicting"} =>
              victim[t] \in registered \ {target[t]}
        /\ pc[t] # "lost"

\* There is a handle left for every insert under way.
HandlesLeft == IsFiniteSet(Inserting) /\ lastHandle + Cardinality(Inserting) <= MaxHandles

LocksIInv == LocksTypeOK /\ LocksByPlace /\ WorksOnRegistered /\ HandlesLeft

-----------------------------------------------------------------------------
\* The sibling that is next by handle is one of the siblings left.
LEMMA NextIsLeft ==
    ASSUME NEW t, siblings[t] \subseteq Nat, siblings[t] # {}
    PROVE  NextSibling(t) \in siblings[t]
<1>1. PICK h \in siblings[t] : \A k \in siblings[t] : ~ (<<k, h>> \in OpToRel(<, Nat))
    BY NatLessThanWellFounded, WFMin
<1>2. \A k, m \in Nat : k < m => <<k, m>> \in OpToRel(<, Nat)
    BY DEF OpToRel
<1>3. \A k \in siblings[t] : ~ (k < h)
    BY <1>1, <1>2
<1>4. \A k \in siblings[t] : h <= k
    BY <1>3
<1> QED BY <1>4 DEF NextSibling

LEMMA NextTyped ==
    ASSUME LocksTypeOK, NEW t \in Threads, siblings[t] # {}
    PROVE  NextSibling(t) \in siblings[t] /\ NextSibling(t) \in Handles
<1>1. siblings[t] \subseteq Handles
    BY DEF LocksTypeOK
<1>2. siblings[t] \subseteq Nat
    BY <1>1, ThreadsAssumption DEF Handles
<1> QED BY <1>1, <1>2, NextIsLeft

\* A thread between its calls has no lock, and only one is inside a call.
LEMMA OneAtWork ==
    ASSUME LocksIInv, NEW t \in Threads, AtWork(t)
    PROVE  /\ operation = t
           /\ \A u \in Threads \ {t} : pc[u] \in {"idle", "takeOperation"}
BY DEF LocksIInv, LocksByPlace, AtWork

\* Steps inside a call neither begin nor end an insert.
LEMMA InsertsGoOn ==
    ASSUME LocksIInv, NEW t \in Threads, NEW to \in Places, pc[t] # "idle", to # "idle",
           pc' = [pc EXCEPT ![t] = to], UNCHANGED <<job, lastHandle>>
    PROVE  HandlesLeft'
<1>1. Inserting' = Inserting
    BY DEF Inserting, LocksIInv, LocksTypeOK
<1> QED BY <1>1 DEF HandlesLeft, LocksIInv

LEMMA LocksInitIInv == LocksInit => LocksIInv
<1> SUFFICES ASSUME LocksInit PROVE LocksIInv
    OBVIOUS
<1>1. LocksTypeOK
    BY ThreadsAssumption DEF LocksInit, LocksTypeOK, Handles, Jobs, Places, Waits
<1>2. LocksByPlace
    BY ThreadsAssumption DEF LocksInit, LocksByPlace, AtWork, InRegistry, Own, Holds
<1>3. WorksOnRegistered
    BY DEF LocksInit, WorksOnRegistered, Own
<1>4. HandlesLeft
    <2>1. Inserting = {}
        BY DEF LocksInit, Inserting
    <2> QED BY <2>1, FS_EmptySet, ThreadsAssumption DEF LocksInit, HandlesLeft
<1> QED BY <1>1, <1>2, <1>3, <1>4 DEF LocksIInv

LEMMA LockOperationKeeps == ASSUME LocksIInv, NEW t \in Threads, LockOperation(t) PROVE LocksIInv'
<1> USE ThreadsAssumption, NextTyped, OneAtWork DEF LockOperation, Goto, LocksIInv, AtWork, TakeRegistry, TakeStore, FreeStore
<1>1. LocksTypeOK'
    BY DEF LocksTypeOK, Places, Waits
<1>2. LocksByPlace'
    BY DEF LocksTypeOK, LocksByPlace, InRegistry, Own, Holds, WorksOnRegistered, NextSibling
<1>3. WorksOnRegistered'
    BY DEF LocksTypeOK, WorksOnRegistered, Own
<1>4. HandlesLeft'
    BY InsertsGoOn DEF Places, Waits
<1> QED BY <1>1, <1>2, <1>3, <1>4

LEMMA LockRegistryKeeps == ASSUME LocksIInv, NEW t \in Threads, LockRegistry(t) PROVE LocksIInv'
<1> USE ThreadsAssumption, NextTyped, OneAtWork DEF LockRegistry, Goto, LocksIInv, AtWork, TakeRegistry, TakeStore, FreeStore
<1>1. LocksTypeOK'
    BY DEF LocksTypeOK, Places, Waits
<1>2. LocksByPlace'
    BY DEF LocksTypeOK, LocksByPlace, InRegistry, Own, Holds, WorksOnRegistered, NextSibling
<1>3. WorksOnRegistered'
    BY DEF LocksTypeOK, WorksOnRegistered, Own
<1>4. HandlesLeft'
    BY InsertsGoOn DEF Places, Waits
<1> QED BY <1>1, <1>2, <1>3, <1>4

LEMMA FoundKeeps == ASSUME LocksIInv, NEW t \in Threads, Found(t) PROVE LocksIInv'
<1> USE ThreadsAssumption, NextTyped, OneAtWork DEF Found, Goto, LocksIInv, AtWork, TakeRegistry, TakeStore, FreeStore
<1>1. LocksTypeOK'
    BY DEF LocksTypeOK, Places, Waits
<1>2. LocksByPlace'
    BY DEF LocksTypeOK, LocksByPlace, InRegistry, Own, Holds, WorksOnRegistered, NextSibling
<1>3. WorksOnRegistered'
    BY DEF LocksTypeOK, WorksOnRegistered, Own
<1>4. HandlesLeft'
    BY InsertsGoOn DEF Places, Waits
<1> QED BY <1>1, <1>2, <1>3, <1>4

LEMMA LockStoreKeeps == ASSUME LocksIInv, NEW t \in Threads, LockStore(t) PROVE LocksIInv'
<1> USE ThreadsAssumption, NextTyped, OneAtWork DEF LockStore, Goto, LocksIInv, AtWork, TakeRegistry, TakeStore, FreeStore
<1>1. LocksTypeOK'
    BY DEF LocksTypeOK, Places, Waits
<1>2. LocksByPlace'
    BY DEF LocksTypeOK, LocksByPlace, InRegistry, Own, Holds, WorksOnRegistered, NextSibling
<1>3. WorksOnRegistered'
    BY DEF LocksTypeOK, WorksOnRegistered, Own
<1>4. HandlesLeft'
    BY InsertsGoOn DEF Places, Waits
<1> QED BY <1>1, <1>2, <1>3, <1>4

LEMMA FaultKeeps == ASSUME LocksIInv, NEW t \in Threads, Fault(t) PROVE LocksIInv'
<1> USE ThreadsAssumption, NextTyped, OneAtWork DEF Fault, Goto, LocksIInv, AtWork, TakeRegistry, TakeStore, FreeStore
<1>1. LocksTypeOK'
    BY DEF LocksTypeOK, Places, Waits
<1>2. LocksByPlace'
    BY DEF LocksTypeOK, LocksByPlace, InRegistry, Own, Holds, WorksOnRegistered, NextSibling
<1>3. WorksOnRegistered'
    BY DEF LocksTypeOK, WorksOnRegistered, Own
<1>4. HandlesLeft'
    BY InsertsGoOn DEF Places, Waits
<1> QED BY <1>1, <1>2, <1>3, <1>4

LEMMA OverflowKeeps == ASSUME LocksIInv, NEW t \in Threads, Overflow(t) PROVE LocksIInv'
<1> USE ThreadsAssumption, NextTyped, OneAtWork DEF Overflow, Goto, LocksIInv, AtWork, TakeRegistry, TakeStore, FreeStore
<1>1. LocksTypeOK'
    BY DEF LocksTypeOK, Places, Waits
<1>2. LocksByPlace'
    BY DEF LocksTypeOK, LocksByPlace, InRegistry, Own, Holds, WorksOnRegistered, NextSibling
<1>3. WorksOnRegistered'
    BY DEF LocksTypeOK, WorksOnRegistered, Own
<1>4. HandlesLeft'
    BY InsertsGoOn DEF Places, Waits
<1> QED BY <1>1, <1>2, <1>3, <1>4

LEMMA LockForSnapshotKeeps == ASSUME LocksIInv, NEW t \in Threads, LockForSnapshot(t) PROVE LocksIInv'
<1> USE ThreadsAssumption, NextTyped, OneAtWork DEF LockForSnapshot, Goto, LocksIInv, AtWork, TakeRegistry, TakeStore, FreeStore
<1>1. LocksTypeOK'
    BY DEF LocksTypeOK, Places, Waits
<1>2. LocksByPlace'
    BY DEF LocksTypeOK, LocksByPlace, InRegistry, Own, Holds, WorksOnRegistered, NextSibling
<1>3. WorksOnRegistered'
    BY DEF LocksTypeOK, WorksOnRegistered, Own
<1>4. HandlesLeft'
    BY InsertsGoOn DEF Places, Waits
<1> QED BY <1>1, <1>2, <1>3, <1>4

LEMMA SnapshotKeeps == ASSUME LocksIInv, NEW t \in Threads, Snapshot(t) PROVE LocksIInv'
<1> USE ThreadsAssumption, NextTyped, OneAtWork DEF Snapshot, Goto, LocksIInv, AtWork, TakeRegistry, TakeStore, FreeStore
<1>1. LocksTypeOK'
    <2>1. registered \subseteq Handles
        BY DEF LocksTypeOK, Handles
    <2>2. registered \ {target[t]} \in SUBSET Handles
        BY <2>1
    <2>3. siblings' \in [Threads -> SUBSET Handles]
        BY <2>2 DEF LocksTypeOK
    <2>4. victim' \in [Threads -> 0..MaxHandles]
        BY DEF LocksTypeOK
    <2> QED BY <2>3, <2>4 DEF LocksTypeOK, Places, Waits
<1>2. LocksByPlace'
    BY DEF LocksTypeOK, LocksByPlace, InRegistry, Own, Holds, WorksOnRegistered, NextSibling
<1>3. WorksOnRegistered'
    BY DEF LocksTypeOK, WorksOnRegistered, Own
<1>4. HandlesLeft'
    BY InsertsGoOn DEF Places, Waits
<1> QED BY <1>1, <1>2, <1>3, <1>4

LEMMA LockSiblingKeeps == ASSUME LocksIInv, NEW t \in Threads, LockSibling(t) PROVE LocksIInv'
<1> USE ThreadsAssumption, NextTyped, OneAtWork DEF LockSibling, Goto, LocksIInv, AtWork, TakeRegistry, TakeStore, FreeStore
<1>1. LocksTypeOK'
    BY DEF LocksTypeOK, Places, Waits
<1>2. LocksByPlace'
    BY DEF LocksTypeOK, LocksByPlace, InRegistry, Own, Holds, WorksOnRegistered, NextSibling
<1>3. WorksOnRegistered'
    BY DEF LocksTypeOK, WorksOnRegistered, Own
<1>4. HandlesLeft'
    BY InsertsGoOn DEF Places, Waits
<1> QED BY <1>1, <1>2, <1>3, <1>4

LEMMA InspectKeeps == ASSUME LocksIInv, NEW t \in Threads, Inspect(t) PROVE LocksIInv'
<1> USE ThreadsAssumption, NextTyped, OneAtWork DEF Inspect, Goto, LocksIInv, AtWork, TakeRegistry, TakeStore, FreeStore
<1>1. LocksTypeOK'
    <2>1. NextSibling(t) \in 0..MaxHandles
        BY DEF Handles, LocksByPlace, WorksOnRegistered
    <2>2. siblings' \in [Threads -> SUBSET Handles] /\ victim' \in [Threads -> 0..MaxHandles]
        BY <2>1 DEF LocksTypeOK
    <2> QED BY <2>2 DEF LocksTypeOK, Places, Waits
<1>2. LocksByPlace'
    BY DEF LocksTypeOK, LocksByPlace, InRegistry, Own, Holds, WorksOnRegistered, NextSibling
<1>3. WorksOnRegistered'
    BY DEF LocksTypeOK, WorksOnRegistered, Own
<1>4. HandlesLeft'
    BY InsertsGoOn DEF Places, Waits
<1> QED BY <1>1, <1>2, <1>3, <1>4

LEMMA ChooseKeeps == ASSUME LocksIInv, NEW t \in Threads, Choose(t) PROVE LocksIInv'
<1> USE ThreadsAssumption, NextTyped, OneAtWork DEF Choose, Goto, LocksIInv, AtWork, TakeRegistry, TakeStore, FreeStore
<1>1. LocksTypeOK'
    BY DEF LocksTypeOK, Places, Waits
<1>2. LocksByPlace'
    BY DEF LocksTypeOK, LocksByPlace, InRegistry, Own, Holds, WorksOnRegistered, NextSibling
<1>3. WorksOnRegistered'
    BY DEF LocksTypeOK, WorksOnRegistered, Own
<1>4. HandlesLeft'
    BY InsertsGoOn DEF Places, Waits
<1> QED BY <1>1, <1>2, <1>3, <1>4

LEMMA LockForLookupKeeps == ASSUME LocksIInv, NEW t \in Threads, LockForLookup(t) PROVE LocksIInv'
<1> USE ThreadsAssumption, NextTyped, OneAtWork DEF LockForLookup, Goto, LocksIInv, AtWork, TakeRegistry, TakeStore, FreeStore
<1>1. LocksTypeOK'
    BY DEF LocksTypeOK, Places, Waits
<1>2. LocksByPlace'
    BY DEF LocksTypeOK, LocksByPlace, InRegistry, Own, Holds, WorksOnRegistered, NextSibling
<1>3. WorksOnRegistered'
    BY DEF LocksTypeOK, WorksOnRegistered, Own
<1>4. HandlesLeft'
    BY InsertsGoOn DEF Places, Waits
<1> QED BY <1>1, <1>2, <1>3, <1>4

LEMMA LookupKeeps == ASSUME LocksIInv, NEW t \in Threads, Lookup(t) PROVE LocksIInv'
<1> USE ThreadsAssumption, NextTyped, OneAtWork DEF Lookup, Goto, LocksIInv, AtWork, TakeRegistry, TakeStore, FreeStore
<1>1. LocksTypeOK'
    BY DEF LocksTypeOK, Places, Waits
<1>2. LocksByPlace'
    BY DEF LocksTypeOK, LocksByPlace, InRegistry, Own, Holds, WorksOnRegistered, NextSibling
<1>3. WorksOnRegistered'
    BY DEF LocksTypeOK, WorksOnRegistered, Own
<1>4. HandlesLeft'
    BY InsertsGoOn DEF Places, Waits
<1> QED BY <1>1, <1>2, <1>3, <1>4

LEMMA LockVictimKeeps == ASSUME LocksIInv, NEW t \in Threads, LockVictim(t) PROVE LocksIInv'
<1> USE ThreadsAssumption, NextTyped, OneAtWork DEF LockVictim, Goto, LocksIInv, AtWork, TakeRegistry, TakeStore, FreeStore
<1>1. LocksTypeOK'
    BY DEF LocksTypeOK, Places, Waits
<1>2. LocksByPlace'
    BY DEF LocksTypeOK, LocksByPlace, InRegistry, Own, Holds, WorksOnRegistered, NextSibling
<1>3. WorksOnRegistered'
    BY DEF LocksTypeOK, WorksOnRegistered, Own
<1>4. HandlesLeft'
    BY InsertsGoOn DEF Places, Waits
<1> QED BY <1>1, <1>2, <1>3, <1>4

LEMMA EvictKeeps == ASSUME LocksIInv, NEW t \in Threads, EvictFrom(t) PROVE LocksIInv'
<1> USE ThreadsAssumption, NextTyped, OneAtWork DEF EvictFrom, Goto, LocksIInv, AtWork, TakeRegistry, TakeStore, FreeStore
<1>1. LocksTypeOK'
    BY DEF LocksTypeOK, Places, Waits
<1>2. LocksByPlace'
    BY DEF LocksTypeOK, LocksByPlace, InRegistry, Own, Holds, WorksOnRegistered, NextSibling
<1>3. WorksOnRegistered'
    BY DEF LocksTypeOK, WorksOnRegistered, Own
<1>4. HandlesLeft'
    BY InsertsGoOn DEF Places, Waits
<1> QED BY <1>1, <1>2, <1>3, <1>4

-----------------------------------------------------------------------------
\* The steps that begin or end a call. An insert has a handle left for it.
LEMMA CallKeeps == ASSUME LocksIInv, NEW t \in Threads, Call(t) PROVE LocksIInv'
<1> USE ThreadsAssumption, NextTyped DEF Call, Goto, LocksIInv, AtWork
<1>1. LocksTypeOK'
    BY DEF LocksTypeOK, Places, Waits, Handles
<1>2. LocksByPlace' /\ WorksOnRegistered'
    BY DEF LocksTypeOK, LocksByPlace, InRegistry, Own, Holds, WorksOnRegistered, NextSibling
<1>3. HandlesLeft'
    <2>1. t \notin Inserting /\ IsFiniteSet(Inserting) /\ lastHandle \in Nat
        BY DEF Inserting, LocksTypeOK, HandlesLeft
    <2>2. Inserting' \in {Inserting, Inserting \cup {t}}
        BY DEF Inserting, LocksTypeOK, Jobs
    <2>3. CASE Inserting' = Inserting
        BY <2>3 DEF HandlesLeft
    <2>4. CASE Inserting' = Inserting \cup {t}
        <3>1. lastHandle + Cardinality(Inserting) < MaxHandles
            BY <2>1, <2>4 DEF Inserting, LocksTypeOK
        <3>2. Cardinality(Inserting) \in Nat
            BY <2>1, FS_CardinalityType
        <3>3. IsFiniteSet(Inserting') /\ Cardinality(Inserting') = Cardinality(Inserting) + 1
            BY <2>1, <2>4, FS_AddElement
        <3>4. \A l, n, k \in Nat : l + n < k => l + (n + 1) <= k
            OBVIOUS
        <3> QED BY <2>1, <3>1, <3>2, <3>3, <3>4 DEF HandlesLeft
    <2> QED BY <2>2, <2>3, <2>4
<1> QED BY <1>1, <1>2, <1>3

\* A call that ends: the thread has no lock, and is no longer inserting.
LEMMA EndsInserts ==
    ASSUME LocksIInv, NEW t \in Threads, pc' = [pc EXCEPT ![t] = "idle"], UNCHANGED job,
           \/ lastHandle' = lastHandle
           \/ lastHandle' = lastHandle + 1 /\ t \in Inserting
    PROVE  HandlesLeft' /\ lastHandle' \in 0..MaxHandles
<1> USE ThreadsAssumption
<1>1. lastHandle \in Nat /\ lastHandle <= MaxHandles
    BY DEF LocksIInv, LocksTypeOK
<1>2. Inserting' = Inserting \ {t}
    BY DEF Inserting, LocksIInv, LocksTypeOK
<1>3. IsFiniteSet(Inserting) /\ lastHandle + Cardinality(Inserting) <= MaxHandles
    BY DEF LocksIInv, HandlesLeft
<1>4. /\ IsFiniteSet(Inserting')
      /\ Cardinality(Inserting') = IF t \in Inserting THEN Cardinality(Inserting) - 1
                                   ELSE Cardinality(Inserting)
    BY <1>2, <1>3, FS_RemoveElement
<1>5. Cardinality(Inserting) \in Nat /\ Cardinality(Inserting') \in Nat
    BY <1>3, <1>4, FS_CardinalityType
<1>6. CASE t \in Inserting
    BY <1>1, <1>3, <1>4, <1>5, <1>6 DEF HandlesLeft
<1>7. CASE t \notin Inserting
    BY <1>1, <1>3, <1>4, <1>5, <1>7 DEF HandlesLeft
<1> QED BY <1>6, <1>7

LEMMA InsertKeeps == ASSUME LocksIInv, NEW t \in Threads, Insert(t) PROVE LocksIInv'
<1> USE ThreadsAssumption, NextTyped, OneAtWork DEF Insert, Goto, LocksIInv, AtWork, FreeStore
<1>1. HandlesLeft' /\ lastHandle' \in 0..MaxHandles
    BY EndsInserts DEF Inserting
<1>2. LocksTypeOK'
    BY <1>1 DEF LocksTypeOK, Places, Waits
<1>3. LocksByPlace'
    BY DEF LocksTypeOK, LocksByPlace, InRegistry, Own, Holds, WorksOnRegistered, NextSibling
<1>4. WorksOnRegistered'
    BY DEF LocksTypeOK, WorksOnRegistered, Own
<1> QED BY <1>1, <1>2, <1>3, <1>4

LEMMA RemoveKeeps == ASSUME LocksIInv, NEW t \in Threads, RemoveHandle(t) PROVE LocksIInv'
<1> USE ThreadsAssumption, NextTyped, OneAtWork DEF RemoveHandle, Goto, LocksIInv, AtWork, FreeStore
<1>1. HandlesLeft' /\ lastHandle' \in 0..MaxHandles
    BY EndsInserts DEF Inserting
<1>2. LocksTypeOK'
    BY <1>1 DEF LocksTypeOK, Places, Waits
<1>3. LocksByPlace'
    BY DEF LocksTypeOK, LocksByPlace, InRegistry, Own, Holds, WorksOnRegistered, NextSibling
<1>4. WorksOnRegistered'
    BY DEF LocksTypeOK, WorksOnRegistered, Own
<1> QED BY <1>1, <1>2, <1>3, <1>4

LEMMA UnknownKeeps == ASSUME LocksIInv, NEW t \in Threads, Unknown(t) PROVE LocksIInv'
<1> USE ThreadsAssumption, NextTyped, OneAtWork DEF Unknown, Goto, LocksIInv, AtWork, FreeStore
<1>1. HandlesLeft' /\ lastHandle' \in 0..MaxHandles
    BY EndsInserts DEF Inserting
<1>2. LocksTypeOK'
    BY <1>1 DEF LocksTypeOK, Places, Waits
<1>3. LocksByPlace'
    BY DEF LocksTypeOK, LocksByPlace, InRegistry, Own, Holds, WorksOnRegistered, NextSibling
<1>4. WorksOnRegistered'
    BY DEF LocksTypeOK, WorksOnRegistered, Own
<1> QED BY <1>1, <1>2, <1>3, <1>4

LEMMA ReturnKeeps == ASSUME LocksIInv, NEW t \in Threads, ReturnCall(t) PROVE LocksIInv'
<1> USE ThreadsAssumption, NextTyped, OneAtWork DEF ReturnCall, Goto, LocksIInv, AtWork, FreeStore
<1>1. HandlesLeft' /\ lastHandle' \in 0..MaxHandles
    BY EndsInserts DEF Inserting
<1>2. LocksTypeOK'
    BY <1>1 DEF LocksTypeOK, Places, Waits
<1>3. LocksByPlace'
    BY DEF LocksTypeOK, LocksByPlace, InRegistry, Own, Holds, WorksOnRegistered, NextSibling
<1>4. WorksOnRegistered'
    BY DEF LocksTypeOK, WorksOnRegistered, Own
<1> QED BY <1>1, <1>2, <1>3, <1>4

LEMMA LocksNextIInv == LocksIInv /\ [LocksNext]_lockVars => LocksIInv'
<1> SUFFICES ASSUME LocksIInv, [LocksNext]_lockVars PROVE LocksIInv'
    OBVIOUS
<1>1. CASE UNCHANGED lockVars
    BY <1>1 DEF lockVars, LocksIInv, LocksTypeOK, LocksByPlace, WorksOnRegistered, HandlesLeft, AtWork, Holds,
                Inserting, NextSibling
<1>2. ASSUME NEW t \in Threads, Call(t) \/ Fault(t) \/ Overflow(t) \/ Step(t) PROVE LocksIInv'
    <2>1. CASE Call(t) \/ Fault(t) \/ Overflow(t)
        BY <2>1, CallKeeps, FaultKeeps, OverflowKeeps
    <2>2. CASE LockOperation(t) \/ LockRegistry(t) \/ Insert(t) \/ RemoveHandle(t) \/ Found(t) \/ Unknown(t)
        BY <2>2, LockOperationKeeps, LockRegistryKeeps, InsertKeeps, RemoveKeeps, FoundKeeps, UnknownKeeps
    <2>3. CASE LockStore(t) \/ ReturnCall(t) \/ LockForSnapshot(t) \/ Snapshot(t) \/ LockSibling(t)
        BY <2>3, LockStoreKeeps, ReturnKeeps, LockForSnapshotKeeps, SnapshotKeeps, LockSiblingKeeps
    <2>4. CASE Inspect(t) \/ Choose(t) \/ LockForLookup(t) \/ Lookup(t) \/ LockVictim(t) \/ EvictFrom(t)
        BY <2>4, InspectKeeps, ChooseKeeps, LockForLookupKeeps, LookupKeeps, LockVictimKeeps, EvictKeeps
    <2> QED BY <1>2, <2>1, <2>2, <2>3, <2>4 DEF Step
<1> QED BY <1>1, <1>2 DEF LocksNext

-----------------------------------------------------------------------------
\* Whoever has the operation lock waits for no lock: those it needs are free.
LEMMA HolderNeverWaits ==
    ASSUME LocksIInv, NEW t \in Threads, AtWork(t)
    PROVE  WaitsFor(t) = None
<1> USE ThreadsAssumption DEF LocksIInv
<1>1. \A u \in Threads \ {t} : pc[u] \in {"idle", "takeOperation"}
    BY OneAtWork
<1>2. registry # None => pc[t] \in InRegistry
    BY <1>1 DEF LocksTypeOK, LocksByPlace, InRegistry
<1>3. \A h \in Handles : storeLock[h] # None => Holds(t, h)
    BY <1>1 DEF LocksTypeOK, LocksByPlace, Holds, Own
<1>4. registered \subseteq Handles
    BY DEF LocksTypeOK, Handles
<1>5. CASE pc[t] = "inspect" /\ siblings[t] # {}
    <2>1. NextSibling(t) \in registered \ {target[t]}
        BY <1>5, NextTyped DEF WorksOnRegistered
    <2>2. storeLock[NextSibling(t)] = None
        BY <1>3, <1>4, <1>5, <2>1 DEF Holds
    <2> QED BY <1>5, <2>2 DEF WaitsFor
<1>6. CASE pc[t] = "takeStore"
    <2>1. target[t] \in Handles
        BY <1>4, <1>6 DEF WorksOnRegistered
    <2> QED BY <1>3, <1>6, <2>1 DEF WaitsFor, Holds, Own
<1>7. CASE pc[t] = "takeVictim"
    <2>1. victim[t] \in Handles /\ victim[t] # target[t]
        BY <1>4, <1>7 DEF WorksOnRegistered
    <2> QED BY <1>3, <1>7, <2>1 DEF WaitsFor, Holds
<1>8. CASE pc[t] \in {"takeRegistry", "takeSnapshot", "takeLookup"}
    BY <1>2, <1>8 DEF WaitsFor, InRegistry
<1> QED BY <1>5, <1>6, <1>7, <1>8 DEF WaitsFor, AtWork

LEMMA IInvSerialized == LocksIInv => Serialized
<1> SUFFICES ASSUME LocksIInv PROVE Serialized
    OBVIOUS
<1> USE ThreadsAssumption
<1>1. NoDeadlock
    <2> SUFFICES ASSUME NEW stuck \in (SUBSET Threads) \ {{}}, \A t \in stuck : WaitsFor(t) \in stuck
                 PROVE  FALSE
        BY DEF NoDeadlock
    <2>1. \A t \in stuck : ~AtWork(t)
        BY HolderNeverWaits
    <2>2. PICK t \in stuck : TRUE
        OBVIOUS
    <2>3. pc[t] = "takeOperation" /\ operation \in stuck
        BY <2>1, <2>2 DEF WaitsFor, AtWork
    <2>4. AtWork(operation)
        BY <2>3 DEF LocksIInv, LocksByPlace
    <2> QED BY <2>1, <2>3, <2>4
<1>2. NoUseAfterRemove
    <2> SUFFICES ASSUME NEW h \in Handles, storeLock[h] # None PROVE h \in registered
        BY DEF NoUseAfterRemove
    <2>1. storeLock[h] \in Threads /\ Holds(storeLock[h], h)
        BY DEF LocksIInv, LocksTypeOK, LocksByPlace
    <2>2. pc[storeLock[h]] = "inspecting" =>
            NextSibling(storeLock[h]) \in siblings[storeLock[h]]
        BY <2>1, NextTyped DEF LocksIInv, WorksOnRegistered
    <2> QED BY <2>1, <2>2 DEF LocksIInv, Holds, WorksOnRegistered
<1>3. VictimNeverDisappears
    BY DEF VictimNeverDisappears, LocksIInv, WorksOnRegistered
<1> QED BY <1>1, <1>2, <1>3 DEF Serialized, LocksIInv

\* However many threads and stores there are: sibling mutexes taken under the
\* operation lock cannot deadlock, and no call works on, or evicts from, a
\* store that was removed.
THEOREM SiblingsAreSafe == LocksSpec => []Serialized
<1>1. LocksIInv /\ [LocksNext]_lockVars => LocksIInv'
    BY LocksNextIInv
<1> QED BY <1>1, LocksInitIInv, IInvSerialized, PTL DEF LocksSpec
=============================================================================
