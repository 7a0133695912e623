------------------------ MODULE ChunkedColumnsProofs ------------------------
(* Theorems about ChunkedColumns, for any readers, chunk sizes, limit and   *)
(* requests: residency is not lost to superseded reads, answers are whole   *)
(* and never older than one already given, and the slabs are accounted for. *)
EXTENDS ChunkedColumns, Sums

Places == {"idle", "call", "waiting", "enter", "chunk", "take", "room", "io", "hold", "publish", "final"}
Locked == {"enter", "chunk", "take", "room", "io", "hold", "publish"}
AtChunk == {"take", "room", "io", "hold"}

Records ==
    [pc : Places, req : Requests \cup {None}, gen : Nat, index : Nat, admitted : Nat, rows : Seq(Nat),
     outcome : {"none", "ok", "cancelled", "failed", "refused"}]

(* A read has copied out the selected chunks before the one it is at.      *)
Passed(r) == {c \in Selected(reader[r].req) : c < reader[r].index}

Midway(r) ==
    LET d == reader[r] IN
    d.pc # "idle" =>
        /\ d.outcome = "none"
        /\ d.req \in Requests /\ d.index \in d.req.first..d.req.end
        /\ InOrder(d.rows, Passed(r))
        /\ d.pc \in AtChunk => d.index < d.req.end /\ d.index \notin d.req.pruned
        /\ d.pc = "final" => d.index = d.req.end

Reading ==
    /\ watermark \in Nat /\ reader \in [Readers -> Records]
    /\ \A r \in Readers : Midway(r)
    /\ \A r \in Readers : lock = r <=> reader[r].pc \in Locked
    /\ \A r \in Readers : reader[r].gen <= watermark

(* No slab was used by a generation newer than the watermark; nor, while   *)
(* the lock is held, than the reader that holds it.                        *)
Slab(c) ==
    /\ entries[c] = [previous |-> entries[c].previous, next |-> entries[c].next, by |-> entries[c].by]
    /\ entries[c].by \in Nat /\ entries[c].by <= watermark
    /\ \A r \in Readers : lock = r => entries[c].by <= reader[r].gen

Slabs == \A c \in DOMAIN entries : Slab(c)

IInv == Reading /\ Slabs
-----------------------------------------------------------------------------
LEMMA InitEstablishes == Init => IInv
<1> SUFFICES ASSUME Init PROVE IInv
  OBVIOUS
<1> USE NoneAssumption DEF Init
<1>1. \A r \in Readers : reader[r] = Idle("none", 0)
  OBVIOUS
<1>2. Idle("none", 0) \in Records /\ Idle("none", 0).pc = "idle" /\ Idle("none", 0).gen = 0
  BY DEF Idle, Records, Places
<1>3. Reading
  BY <1>1, <1>2 DEF Reading, Midway, Locked
<1>4. DOMAIN entries = {}
  OBVIOUS
<1>5. QED
  BY <1>3, <1>4 DEF IInv, Slabs

(* What is selected of a request, chunk by chunk.                          *)
LEMMA RequestTyped ==
    ASSUME NEW q \in Requests
    PROVE  /\ q.first \in Nat /\ q.end \in Nat /\ q.first <= q.end /\ q.end <= Len(Size) + 1
           /\ q.first >= 1
           /\ \A c \in q.first..(q.end - 1) : c \in Chunks /\ Size[c] \in Nat
<1>1. Chunks = 1..Len(Size) /\ Len(Size) \in Nat
  BY SizesAssumption DEF Chunks
<1>2. q.first \in 1..Len(Size) /\ q.end \in q.first..(Len(Size) + 1)
  BY <1>1, RequestsAssumption
<1>3. \A c \in 1..Len(Size) : Size[c] \in Nat
  BY SizesAssumption
<1>4. QED
  BY <1>1, <1>2, <1>3

LEMMA AppendInOrder ==
    ASSUME NEW q \in Seq(Nat), NEW S, NEW n \in Nat, InOrder(q, S), \A c \in S : c < n
    PROVE  InOrder(Append(q, n), S \cup {n})
<1> DEFINE p == Append(q, n)
<1>1. /\ p \in Seq(Nat) /\ DOMAIN q = 1..Len(q) /\ DOMAIN p = 1..(Len(q) + 1) /\ Len(q) \in Nat
      /\ \A i \in 1..Len(q) : p[i] = q[i]
      /\ p[Len(q) + 1] = n
  OBVIOUS
<1> HIDE DEF p
<1>2. \A i \in DOMAIN p : i \in DOMAIN q \/ i = Len(q) + 1
  BY <1>1
<1>3. {p[i] : i \in DOMAIN p} = S \cup {n}
  BY <1>1, <1>2 DEF InOrder
<1>4. ASSUME NEW i \in DOMAIN p, NEW k \in DOMAIN p, i < k PROVE p[i] < p[k]
  <2>1. i \in DOMAIN q
    BY <1>1, <1>4
  <2>2. p[i] = q[i] /\ q[i] \in S
    BY <1>1, <2>1 DEF InOrder
  <2>3. CASE k \in DOMAIN q
    BY <1>1, <1>4, <2>1, <2>2, <2>3 DEF InOrder
  <2>4. CASE k = Len(q) + 1
    BY <1>1, <2>2, <2>4
  <2>5. QED
    BY <1>2, <2>3, <2>4
<1>5. QED
  BY <1>3, <1>4 DEF InOrder, p
-----------------------------------------------------------------------------
(* A step of one read touches its own record only, and leaves its          *)
(* generation and the watermark alone.                                     *)
LEMMA OwnStep ==
    ASSUME IInv, NEW r \in Readers, NEW d \in Records, reader' = [reader EXCEPT ![r] = d],
           d.gen = reader[r].gen, watermark' = watermark,
           lock' = r <=> d.pc \in Locked, lock' \in {lock, None, r}, lock \in {r, None} \/ lock' = lock,
           Midway(r)'
    PROVE  Reading'
<1> USE DEF IInv, Reading
<1>1. reader' \in [Readers -> Records] /\ \A s \in Readers \ {r} : reader'[s] = reader[s]
  OBVIOUS
<1>2. \A s \in Readers : Midway(s)'
  BY <1>1 DEF Midway, Passed
<1>3. \A s \in Readers : lock' = s <=> reader'[s].pc \in Locked
  BY <1>1, NoneAssumption
<1>4. \A s \in Readers : reader'[s].gen <= watermark'
  BY <1>1
<1>5. QED
  BY <1>1, <1>2, <1>3, <1>4

(* It ends, whatever the reason, and gives the lock back.                  *)
LEMMA LeaveKeeps ==
    ASSUME IInv, NEW r \in Readers, NEW o \in {"ok", "cancelled", "failed", "refused"}, Leave(r, o),
           UNCHANGED watermark
    PROVE  Reading'
<1>1. Idle(o, reader[r].gen) \in Records /\ Idle(o, reader[r].gen).pc = "idle"
      /\ Idle(o, reader[r].gen).gen = reader[r].gen
  BY DEF Idle, Records, Places, IInv, Reading
<1>2. reader' = [reader EXCEPT ![r] = Idle(o, reader[r].gen)]
  BY DEF Leave
<1>3. Midway(r)'
  BY <1>1, <1>2 DEF Midway, IInv, Reading
<1>4. lock' = IF lock = r THEN None ELSE lock
  BY DEF Leave
<1>5. QED
  BY <1>1, <1>2, <1>3, <1>4, OwnStep, NoneAssumption DEF Locked

(* It goes on, with the lock as it was.                                    *)
LEMMA GotoKeeps ==
    ASSUME IInv, NEW r \in Readers, NEW pc \in Places \ {"idle"}, Goto(r, pc), UNCHANGED watermark,
           reader[r].pc # "idle", lock' = r <=> pc \in Locked,
           lock' \in {lock, None, r}, lock \in {r, None} \/ lock' = lock,
           pc \in AtChunk => reader[r].index < reader[r].req.end
                                /\ reader[r].index \notin reader[r].req.pruned,
           pc = "final" => reader[r].index = reader[r].req.end
    PROVE  Reading'
<1> DEFINE d == [reader[r] EXCEPT !.pc = pc]
<1>1. d \in Records /\ d.pc = pc /\ d.gen = reader[r].gen /\ d.index = reader[r].index
      /\ d.req = reader[r].req /\ d.rows = reader[r].rows /\ d.outcome = reader[r].outcome
  BY DEF Records, IInv, Reading
<1>2. reader' = [reader EXCEPT ![r] = d] /\ reader'[r] = d
  BY DEF Goto, IInv, Reading
<1> HIDE DEF d
<1>3. Midway(r)'
  BY <1>1, <1>2 DEF Midway, Passed, IInv, Reading
<1>4. QED
  BY <1>1, <1>2, <1>3, OwnStep
-----------------------------------------------------------------------------
(* Resident slabs: what is unlinked goes, the others keep their use; what  *)
(* is put was used by the reader that puts it.                             *)
LEMMA SlabsStay ==
    ASSUME IInv, UNCHANGED entries, watermark' = watermark, lock' \in {lock, None},
           \A r \in Readers : reader'[r].gen = reader[r].gen
    PROVE  Slabs'
BY NoneAssumption DEF IInv, Slabs, Slab

LEMMA RemoveKeeps ==
    ASSUME IInv, NEW id, Remove(id), watermark' = watermark, lock' = lock,
           \A r \in Readers : reader'[r].gen = reader[r].gen
    PROVE  Slabs'
<1>1. DOMAIN entries' = DOMAIN entries \ {id}
  BY DEF Remove, Unlink
<1>2. ASSUME NEW c \in DOMAIN entries' PROVE Slab(c)'
  <2>1. Slab(c)
    BY <1>1 DEF IInv, Slabs
  <2>2. \/ entries'[c] = entries[c]
        \/ entries'[c] = [entries[c] EXCEPT !.next = entries[id].next]
        \/ entries'[c] = [entries[c] EXCEPT !.previous = entries[id].previous]
    BY <1>1 DEF Remove, Unlink
  <2>3. entries'[c].by = entries[c].by
        /\ entries'[c] = [previous |-> entries'[c].previous, next |-> entries'[c].next, by |-> entries'[c].by]
    BY <2>1, <2>2 DEF Slab
  <2>4. QED
    BY <2>1, <2>3 DEF Slab
<1>3. QED
  BY <1>2 DEF Slabs

LEMMA PutKeeps ==
    ASSUME IInv, NEW r \in Readers, NEW id, Put(id, reader[r].gen), lock = r, lock' = lock,
           watermark' = watermark, \A s \in Readers : reader'[s].gen = reader[s].gen
    PROVE  Slabs'
<1>1. DOMAIN entries' = DOMAIN entries \cup {id}
  BY DEF Put
<1>2. ASSUME NEW c \in DOMAIN entries' PROVE Slab(c)'
  <2>1. CASE c = id
    <3>1. entries'[c] = [previous |-> newest, next |-> None, by |-> reader[r].gen]
      BY <2>1 DEF Put
    <3>2. reader[r].gen \in Nat /\ reader[r].gen <= watermark
      BY DEF IInv, Reading, Records
    <3>3. QED
      BY <3>1, <3>2 DEF Slab
  <2>2. CASE c # id
    <3>1. Slab(c)
      BY <1>1, <2>2 DEF IInv, Slabs
    <3>2. entries'[c] = entries[c] \/ entries'[c] = [entries[c] EXCEPT !.next = id]
      BY <1>1, <2>2 DEF Put
    <3>3. entries'[c].by = entries[c].by
          /\ entries'[c] = [previous |-> entries'[c].previous, next |-> entries'[c].next,
                            by |-> entries'[c].by]
      BY <3>1, <3>2 DEF Slab
    <3>4. QED
      BY <3>1, <3>3 DEF Slab
  <2>3. QED
    BY <2>1, <2>2
<1>3. QED
  BY <1>2 DEF Slabs
-----------------------------------------------------------------------------
(* The commands.                                                           *)
LEMMA SetGenerationKeeps == ASSUME IInv, NEW g \in Nat, SetGeneration(g) PROVE IInv'
<1> USE DEF SetGeneration, residentVars
<1>1. \A n \in Nat : n <= watermark => n <= watermark'
  BY DEF IInv, Reading
<1>2. Reading'
  BY <1>1 DEF IInv, Reading, Midway, Passed, Records
<1>3. Slabs'
  BY <1>1 DEF IInv, Slabs, Slab
<1>4. QED
  BY <1>2, <1>3 DEF IInv

LEMMA BeginKeeps ==
    ASSUME IInv, NEW r \in Readers, NEW q \in Requests, NEW g \in Nat, Begin(r, q, g) PROVE IInv'
<1> DEFINE d == [pc |-> "call", req |-> q, gen |-> g, index |-> q.first, admitted |-> 0, rows |-> <<>>,
                 outcome |-> "none"]
<1>1. reader' = [reader EXCEPT ![r] = d] /\ reader[r].pc = "idle" /\ watermark = g
      /\ UNCHANGED <<watermark, lock, entries>>
  BY DEF Begin, residentVars
<1>2. q.first \in Nat /\ q.end \in Nat /\ q.first <= q.end
  BY RequestTyped
<1>3. d \in Records /\ d.pc = "call" /\ d.gen = g /\ d.index = q.first /\ d.req = q /\ d.rows = <<>>
      /\ d.outcome = "none"
  BY <1>2 DEF Records, Places
<1> HIDE DEF d
<1>4. reader' \in [Readers -> Records] /\ reader'[r] = d
      /\ \A s \in Readers \ {r} : reader'[s] = reader[s]
  BY <1>1, <1>3 DEF IInv, Reading
<1>5. lock # r
  BY <1>1 DEF IInv, Reading, Locked
<1>6. Midway(r)'
  <2>1. \A c \in Selected(q) : c >= q.first
    BY <1>2 DEF Selected
  <2>2. Passed(r)' = {}
    BY <1>2, <1>3, <1>4, <2>1 DEF Passed, Selected
  <2>3. InOrder(<<>>, {})
    BY DEF InOrder
  <2>4. QED
    BY <1>2, <1>3, <1>4, <2>2, <2>3 DEF Midway, AtChunk
<1>7. Reading'
  <2>1. \A s \in Readers : Midway(s)'
    BY <1>4, <1>6 DEF IInv, Reading, Midway, Passed
  <2>2. \A s \in Readers : lock' = s <=> reader'[s].pc \in Locked
    BY <1>1, <1>3, <1>4, <1>5 DEF IInv, Reading, Locked
  <2>3. \A s \in Readers : reader'[s].gen <= watermark'
    BY <1>1, <1>3, <1>4 DEF IInv, Reading
  <2>4. QED
    BY <1>1, <1>4, <2>1, <2>2, <2>3 DEF IInv, Reading
<1>8. Slabs'
  BY <1>1, <1>4, <1>5 DEF IInv, Slabs, Slab
<1>9. QED
  BY <1>7, <1>8 DEF IInv
-----------------------------------------------------------------------------
(* The steps of a read.                                                    *)
LEMMA GenStays ==
    ASSUME IInv, NEW r \in Readers, NEW pc, NEW o, Goto(r, pc) \/ Leave(r, o)
    PROVE  \A s \in Readers : reader'[s].gen = reader[s].gen
<1>1. reader \in [Readers -> Records]
  BY DEF IInv, Reading
<1>2. CASE Goto(r, pc)
  <2>1. [reader[r] EXCEPT !.pc = pc].gen = reader[r].gen
    BY <1>1 DEF Records
  <2>2. QED
    BY <1>1, <1>2, <2>1 DEF Goto
<1>3. CASE Leave(r, o)
  BY <1>1, <1>3 DEF Leave, Idle
<1>4. QED
  BY <1>2, <1>3

LEMMA CallKeeps == ASSUME IInv, NEW r \in Readers, Call(r) PROVE IInv'
<1> USE DEF Call, residentVars
<1>1. lock # r
  BY DEF IInv, Reading, Locked
<1>2. CASE Leave(r, "cancelled")
  <2>1. lock' = lock
    BY <1>1, <1>2 DEF Leave
  <2>2. QED
    BY <1>2, <2>1, LeaveKeeps, GenStays, SlabsStay DEF IInv
<1>3. CASE Goto(r, "waiting") /\ UNCHANGED lock
  <2>1. Reading'
    BY <1>1, <1>3, GotoKeeps DEF Places, Locked, AtChunk
  <2>2. QED
    BY <1>3, <2>1, GenStays, SlabsStay DEF IInv
<1>4. QED
  BY <1>2, <1>3

LEMMA LockKeeps == ASSUME IInv, NEW r \in Readers, Lock(r) PROVE IInv'
<1> USE NoneAssumption DEF Lock, residentVars
<1>1. CASE Leave(r, "cancelled") /\ ~Current(r)
  <2>1. lock' = lock
    BY <1>1 DEF Leave
  <2>2. QED
    BY <1>1, <2>1, LeaveKeeps, GenStays, SlabsStay DEF IInv
<1>2. CASE Current(r)
  <2> DEFINE d == [reader[r] EXCEPT !.pc = "enter", !.admitted = 0]
  <2>1. d \in Records /\ d.pc = "enter" /\ d.gen = reader[r].gen /\ d.index = reader[r].index
        /\ d.req = reader[r].req /\ d.rows = reader[r].rows /\ d.outcome = reader[r].outcome
    BY DEF Records, Places, IInv, Reading
  <2>2. reader' = [reader EXCEPT ![r] = d] /\ reader'[r] = d /\ lock = None /\ lock' = r
        /\ reader[r].pc = "waiting"
    BY <1>2 DEF IInv, Reading
  <2> HIDE DEF d
  <2>3. Midway(r)'
    BY <2>1, <2>2 DEF Midway, Passed, IInv, Reading, AtChunk
  <2>4. Reading'
    BY <2>1, <2>2, <2>3, OwnStep DEF Locked
  <2>5. reader'[r].gen = watermark
    BY <1>2, <2>1, <2>2 DEF Current
  <2>6. Slabs'
    <3>1. UNCHANGED <<entries, watermark>>
      OBVIOUS
    <3>2. \A s \in Readers : lock' = s => reader'[s].gen = watermark
      BY <2>2, <2>5
    <3>3. QED
      BY <3>1, <3>2 DEF IInv, Slabs, Slab
  <2>7. QED
    BY <2>4, <2>6 DEF IInv
<1>3. QED
  BY <1>1, <1>2

LEMMA TrimKeeps == ASSUME IInv, NEW r \in Readers, Trim(r) PROVE IInv'
<1> USE DEF Trim
<1>1. lock = r /\ lock' = lock /\ watermark' = watermark
  BY DEF IInv, Reading, Locked
<1>2. CASE Remove(oldest) /\ UNCHANGED reader
  <2>1. Reading'
    BY <1>1, <1>2 DEF IInv, Reading, Midway, Passed
  <2>2. QED
    BY <1>1, <1>2, <2>1, RemoveKeeps DEF IInv
<1>3. CASE /\ Goto(r, IF reader[r].pc = "enter" THEN "chunk" ELSE "io") /\ UNCHANGED residentVars
  <2>1. Reading'
    <3>1. CASE reader[r].pc = "enter"
      BY <1>1, <1>3, <3>1, GotoKeeps DEF Places, Locked, AtChunk
    <3>2. CASE reader[r].pc = "room"
      <4>1. reader[r].index < reader[r].req.end /\ reader[r].index \notin reader[r].req.pruned
        BY <3>2 DEF IInv, Reading, Midway, AtChunk
      <4>2. Goto(r, "io")
        BY <1>3, <3>2
      <4>3. QED
        BY <1>1, <3>2, <4>1, <4>2, GotoKeeps DEF Places, Locked
    <3>3. QED
      BY <3>1, <3>2
  <2>2. \A s \in Readers : reader'[s].gen = reader[s].gen
    BY <1>3, GenStays
  <2>3. QED
    BY <1>1, <1>3, <2>1, <2>2, SlabsStay DEF IInv, residentVars
<1>4. QED
  BY <1>2, <1>3

LEMMA NextChunkKeeps == ASSUME IInv, NEW r \in Readers, NextChunk(r) PROVE IInv'
<1> DEFINE d == reader[r]
<1>1. d.pc = "chunk" /\ lock = r /\ UNCHANGED <<watermark, entries>> /\ d \in Records
  BY DEF NextChunk, residentVars, IInv, Reading, Locked
<1>2. d.req \in Requests /\ d.index \in d.req.first..d.req.end /\ InOrder(d.rows, Passed(r))
  BY <1>1 DEF IInv, Reading, Midway
<1> d.outcome = "none"
  BY <1>1 DEF IInv, Reading, Midway
<1>3. d.req.first \in Nat /\ d.req.end \in Nat /\ d.index \in Nat
  BY <1>2, RequestTyped
<1>4. CASE Leave(r, "cancelled") \/ Leave(r, "refused")
  <2>1. Reading'
    BY <1>1, <1>4, LeaveKeeps
  <2>2. lock' \in {lock, None}
    BY <1>4 DEF Leave
  <2>3. QED
    BY <1>1, <1>4, <2>1, <2>2, GenStays, SlabsStay DEF IInv
<1>5. CASE Goto(r, "publish") /\ UNCHANGED lock
  <2>1. Reading'
    BY <1>1, <1>5, GotoKeeps DEF Places, Locked, AtChunk
  <2>2. QED
    BY <1>1, <1>5, <2>1, GenStays, SlabsStay DEF IInv
<1>6. CASE /\ d.index < d.req.end /\ d.index \in d.req.pruned
           /\ reader' = [reader EXCEPT ![r].index = @ + 1] /\ UNCHANGED lock
  <2> DEFINE e == [d EXCEPT !.index = @ + 1]
  <2>1. e \in Records /\ e.pc = "chunk" /\ e.gen = d.gen /\ e.index = d.index + 1
        /\ e.req = d.req /\ e.rows = d.rows /\ e.outcome = d.outcome
    BY <1>1, <1>3 DEF Records, Places
  <2>2. reader' = [reader EXCEPT ![r] = e] /\ reader'[r] = e
    BY <1>6 DEF IInv, Reading
  <2> HIDE DEF e
  <2>3. Passed(r)' = Passed(r)
    <3>1. \A c \in Selected(d.req) : c < d.index + 1 <=> c < d.index
      BY <1>3, <1>6 DEF Selected
    <3>2. QED
      BY <2>1, <2>2, <3>1 DEF Passed
  <2>4. e.index \in e.req.first..e.req.end
    BY <1>2, <1>3, <1>6, <2>1
  <2>5. Midway(r)'
    BY <1>2, <2>1, <2>2, <2>3, <2>4 DEF Midway, AtChunk
  <2>6. Reading'
    BY <1>1, <1>6, <2>1, <2>2, <2>5, OwnStep DEF Locked
  <2>7. \A s \in Readers : reader'[s].gen = reader[s].gen
    BY <2>1, <2>2 DEF IInv, Reading
  <2>8. QED
    BY <1>1, <1>6, <2>6, <2>7, SlabsStay DEF IInv
<1>7. CASE /\ d.index < d.req.end /\ d.index \notin d.req.pruned
           /\ reader' = [reader EXCEPT ![r].pc = "take", ![r].admitted = @ + Size[d.index]]
           /\ UNCHANGED lock
  <2> DEFINE e == [d EXCEPT !.pc = "take", !.admitted = @ + Size[d.index]]
  <2>1. Size[d.index] \in Nat
    BY <1>2, <1>3, <1>7, RequestTyped
  <2>2. e \in Records /\ e.pc = "take" /\ e.gen = d.gen /\ e.index = d.index
        /\ e.req = d.req /\ e.rows = d.rows /\ e.outcome = d.outcome
    <3>1. d.admitted + Size[d.index] \in Nat
      BY <1>1, <2>1 DEF Records
    <3>2. QED
      BY <1>1, <3>1 DEF Records, Places
  <2>3. reader' = [reader EXCEPT ![r] = e] /\ reader'[r] = e
    BY <1>7 DEF IInv, Reading
  <2> HIDE DEF e
  <2>4. Midway(r)'
    BY <1>2, <1>7, <2>2, <2>3 DEF Midway, Passed, AtChunk
  <2>5. Reading'
    BY <1>1, <1>7, <2>2, <2>3, <2>4, OwnStep DEF Locked
  <2>6. \A s \in Readers : reader'[s].gen = reader[s].gen
    BY <2>2, <2>3 DEF IInv, Reading
  <2>7. QED
    BY <1>1, <1>7, <2>5, <2>6, SlabsStay DEF IInv
<1>8. QED
  BY <1>4, <1>5, <1>6, <1>7 DEF NextChunk

LEMMA TakeKeeps == ASSUME IInv, NEW r \in Readers, Take(r) PROVE IInv'
<1>1. reader[r].pc = "take" /\ lock = r /\ UNCHANGED watermark
  BY DEF Take, IInv, Reading, Locked
<1>2. reader[r].index < reader[r].req.end /\ reader[r].index \notin reader[r].req.pruned
  BY <1>1 DEF IInv, Reading, Midway, AtChunk
<1>3. CASE Leave(r, "cancelled") /\ UNCHANGED residentVars
  <2>1. Reading' /\ lock' \in {lock, None}
    BY <1>1, <1>3, LeaveKeeps DEF Leave
  <2>2. QED
    BY <1>1, <1>3, <2>1, GenStays, SlabsStay DEF IInv, residentVars
<1>4. CASE UNCHANGED lock /\ Remove(reader[r].index) /\ Goto(r, "hold")
  <2>1. Reading'
    BY <1>1, <1>2, <1>4, GotoKeeps DEF Places, Locked
  <2>2. QED
    BY <1>1, <1>4, <2>1, GenStays, RemoveKeeps DEF IInv
<1>5. CASE UNCHANGED lock /\ Goto(r, "room") /\ UNCHANGED residentVars
  <2>1. Reading'
    BY <1>1, <1>2, <1>5, GotoKeeps DEF Places, Locked
  <2>2. QED
    BY <1>1, <1>5, <2>1, GenStays, SlabsStay DEF IInv, residentVars
<1>6. QED
  BY <1>3, <1>4, <1>5 DEF Take

LEMMA ReadFailsKeeps == ASSUME IInv, NEW r \in Readers, ReadFails(r) PROVE IInv'
<1>1. Leave(r, "failed") /\ UNCHANGED <<watermark, entries>>
  BY DEF ReadFails, residentVars
<1>2. Reading' /\ lock' \in {lock, None}
  BY <1>1, LeaveKeeps DEF Leave
<1>3. QED
  BY <1>1, <1>2, GenStays, SlabsStay DEF IInv

(* The rows of one more selected chunk: the next in order.                 *)
LEMMA EmitKeeps == ASSUME IInv, NEW r \in Readers, Emit(r) PROVE IInv'
<1> DEFINE d == reader[r]
<1>1. d.pc \in {"io", "hold"} /\ lock = r /\ UNCHANGED watermark /\ d \in Records
  BY DEF Emit, IInv, Reading, Locked
<1>2. /\ d.req \in Requests /\ d.index \in d.req.first..d.req.end /\ InOrder(d.rows, Passed(r))
      /\ d.index < d.req.end /\ d.index \notin d.req.pruned
  BY <1>1 DEF IInv, Reading, Midway, AtChunk
<1> d.outcome = "none"
  BY <1>1 DEF IInv, Reading, Midway
<1>3. d.req.first \in Nat /\ d.req.end \in Nat /\ d.index \in Nat /\ d.rows \in Seq(Nat)
  BY <1>1, <1>2, RequestTyped DEF Records
<1>4. CASE Leave(r, "cancelled") /\ UNCHANGED residentVars
  <2>1. Reading' /\ lock' \in {lock, None}
    BY <1>1, <1>4, LeaveKeeps DEF Leave
  <2>2. QED
    BY <1>1, <1>4, <2>1, GenStays, SlabsStay DEF IInv, residentVars
<1>5. CASE /\ reader' = [reader EXCEPT ![r].pc = "chunk", ![r].rows = Append(@, d.index),
                                       ![r].index = @ + 1]
           /\ Put(d.index, d.gen) \/ UNCHANGED residentVars
           /\ UNCHANGED lock
  <2> DEFINE e == [d EXCEPT !.pc = "chunk", !.rows = Append(@, d.index), !.index = @ + 1]
  <2>1. e \in Records /\ e.pc = "chunk" /\ e.gen = d.gen /\ e.index = d.index + 1
        /\ e.req = d.req /\ e.rows = Append(d.rows, d.index) /\ e.outcome = d.outcome
    <3>1. Append(d.rows, d.index) \in Seq(Nat) /\ d.index + 1 \in Nat
      BY <1>3
    <3>2. QED
      BY <1>1, <3>1 DEF Records, Places
  <2>2. reader' = [reader EXCEPT ![r] = e] /\ reader'[r] = e
    BY <1>5 DEF IInv, Reading
  <2> HIDE DEF e
  <2>3. Passed(r)' = Passed(r) \cup {d.index}
    <3>1. d.index \in Selected(d.req)
      BY <1>2, <1>3 DEF Selected
    <3>2. \A c \in Selected(d.req) : c < d.index + 1 <=> c < d.index \/ c = d.index
      BY <1>3 DEF Selected
    <3>3. QED
      BY <2>1, <2>2, <3>1, <3>2, <1>3 DEF Passed
  <2>4. \A c \in Passed(r) : c < d.index
    BY DEF Passed
  <2>5. InOrder(e.rows, Passed(r)')
    <3>1. InOrder(Append(d.rows, d.index), Passed(r) \cup {d.index})
      BY <1>2, <1>3, <2>4, AppendInOrder
    <3>2. QED
      BY <2>1, <2>3, <3>1
  <2>6. e.index \in e.req.first..e.req.end
    BY <1>2, <1>3, <2>1
  <2>7. Midway(r)'
    BY <1>2, <2>1, <2>2, <2>5, <2>6 DEF Midway, AtChunk
  <2>8. Reading'
    BY <1>1, <1>5, <2>1, <2>2, <2>7, OwnStep DEF Locked
  <2>9. \A s \in Readers : reader'[s].gen = reader[s].gen
    BY <2>1, <2>2 DEF IInv, Reading
  <2>10. Slabs'
    BY <1>1, <1>5, <2>9, PutKeeps, SlabsStay DEF residentVars
  <2>11. QED
    BY <2>8, <2>10 DEF IInv
<1>6. QED
  BY <1>4, <1>5 DEF Emit

LEMMA PublishKeeps == ASSUME IInv, NEW r \in Readers, Publish(r) PROVE IInv'
<1>1. reader[r].pc = "publish" /\ lock = r /\ UNCHANGED <<watermark, entries>>
  BY DEF Publish, residentVars, IInv, Reading, Locked
<1>2. CASE Leave(r, "cancelled")
  <2>1. Reading' /\ lock' \in {lock, None}
    BY <1>1, <1>2, LeaveKeeps DEF Leave
  <2>2. QED
    BY <1>1, <1>2, <2>1, GenStays, SlabsStay DEF IInv
<1>3. CASE lock' = None /\ reader[r].index < reader[r].req.end /\ Goto(r, "call")
  <2>1. Reading'
    BY <1>1, <1>3, GotoKeeps, NoneAssumption DEF Places, Locked, AtChunk
  <2>2. QED
    BY <1>1, <1>3, <2>1, GenStays, SlabsStay DEF IInv
<1>4. CASE lock' = None /\ reader[r].index >= reader[r].req.end /\ Goto(r, "final")
  <2>1. reader[r].index = reader[r].req.end
    <3>1. reader[r].req \in Requests /\ reader[r].index \in reader[r].req.first..reader[r].req.end
      BY <1>1 DEF IInv, Reading, Midway
    <3>2. QED
      BY <1>4, <3>1, RequestTyped
  <2>2. Reading'
    BY <1>1, <1>4, <2>1, GotoKeeps, NoneAssumption DEF Places, Locked, AtChunk
  <2>3. QED
    BY <1>1, <1>4, <2>2, GenStays, SlabsStay DEF IInv
<1>5. reader[r].index >= reader[r].req.end \/ reader[r].index < reader[r].req.end
  <2>1. reader[r].req \in Requests /\ reader[r].index \in reader[r].req.first..reader[r].req.end
    BY <1>1 DEF IInv, Reading, Midway
  <2>2. QED
    BY <2>1, RequestTyped
<1>6. QED
  BY <1>2, <1>3, <1>4, <1>5 DEF Publish

LEMMA FinalKeeps == ASSUME IInv, NEW r \in Readers, Final(r) PROVE IInv'
<1>1. (Leave(r, "ok") \/ Leave(r, "cancelled")) /\ UNCHANGED <<watermark, entries>>
  BY DEF Final, residentVars
<1>2. Reading' /\ lock' \in {lock, None}
  BY <1>1, LeaveKeeps DEF Leave
<1>3. QED
  BY <1>1, <1>2, GenStays, SlabsStay DEF IInv

LEMMA StepKeeps == IInv /\ [Next]_vars => IInv'
<1> SUFFICES ASSUME IInv, [Next]_vars PROVE IInv'
  OBVIOUS
<1>1. CASE UNCHANGED vars
  BY <1>1 DEF vars, residentVars, IInv, Reading, Slabs, Slab, Midway, Passed
<1>2. CASE \E g \in 1..MaxGeneration : SetGeneration(g)
  BY <1>2, SetGenerationKeeps, SizesAssumption
<1>3. ASSUME NEW r \in Readers, NEW q \in Requests, NEW g \in 0..MaxGeneration, Begin(r, q, g)
      PROVE  IInv'
  BY <1>3, BeginKeeps, SizesAssumption
<1>4. ASSUME NEW r \in Readers, Read(r) PROVE IInv'
  BY <1>4, CallKeeps, LockKeeps, TrimKeeps, NextChunkKeeps, TakeKeeps, ReadFailsKeeps, EmitKeeps,
     PublishKeeps, FinalKeeps DEF Read
<1>5. QED
  BY <1>1, <1>2, <1>3, <1>4 DEF Next

LEMMA Invariant == Spec => []IInv
BY InitEstablishes, StepKeeps, PTL DEF Spec
-----------------------------------------------------------------------------
(* Slabs leave by the hand of the reader that has the lock only.           *)
LEMMA OnlyTheHolderRemoves ==
    ASSUME IInv, [Next]_vars, NEW c \in DOMAIN entries \ DOMAIN entries'
    PROVE  lock \in Readers
<1>1. entries' # entries
  OBVIOUS
<1>2. PICK r \in Readers : Trim(r) \/ Take(r) \/ Emit(r)
  BY <1>1 DEF Next, vars, residentVars, SetGeneration, Begin, Read, Call, Lock, NextChunk, ReadFails,
              Publish, Final
<1>3. reader[r].pc \in Locked
  BY <1>2 DEF Trim, Take, Emit, Locked
<1>4. QED
  BY <1>3 DEF IInv, Reading

(* A read that is at its last check gets its answer by that check alone.   *)
LEMMA OnlyOwnStepsEnd ==
    ASSUME IInv, [Next]_vars, NEW r \in Readers, reader[r].pc = "final", reader'[r] # reader[r]
    PROVE  Final(r) /\ (reader'[r].outcome = "ok" => Current(r))
<1>1. ASSUME NEW s \in Readers \ {r}, Read(s) \/ \E q \in Requests, g \in 0..MaxGeneration : Begin(s, q, g)
      PROVE  reader'[r] = reader[r]
  <2>1. CASE \E q \in Requests, g \in 0..MaxGeneration : Begin(s, q, g)
    BY <2>1 DEF Begin
  <2>2. \A pc : Goto(s, pc) => reader'[r] = reader[r]
    BY DEF Goto
  <2>3. \A o : Leave(s, o) => reader'[r] = reader[r]
    BY DEF Leave
  <2>4. Call(s) => reader'[r] = reader[r]
    BY <2>2, <2>3 DEF Call
  <2>5. NextChunk(s) => reader'[r] = reader[r]
    BY <2>2, <2>3 DEF NextChunk, IInv, Reading
  <2>6. Publish(s) \/ Final(s) => reader'[r] = reader[r]
    BY <2>2, <2>3 DEF Publish, Final
  <2>7. Lock(s) => reader'[r] = reader[r]
    BY <2>2, <2>3 DEF Lock, IInv, Reading
  <2>8. Trim(s) => reader'[r] = reader[r]
    BY <2>2, <2>3 DEF Trim
  <2>9. Take(s) \/ ReadFails(s) => reader'[r] = reader[r]
    BY <2>2, <2>3 DEF Take, ReadFails
  <2>10. Emit(s) => reader'[r] = reader[r]
    BY <2>2, <2>3 DEF Emit, IInv, Reading
  <2>11. QED
    BY <1>1, <2>1, <2>4, <2>5, <2>6, <2>7, <2>8, <2>9, <2>10 DEF Read
<1>2. reader' # reader
  OBVIOUS
<1>3. Read(r) \/ \E q \in Requests, g \in 0..MaxGeneration : Begin(r, q, g)
  BY <1>1, <1>2 DEF Next, vars, SetGeneration
<1>4. Final(r)
  BY <1>3 DEF Read, Begin, Call, Lock, Trim, NextChunk, Take, ReadFails, Emit, Publish
<1>5. reader'[r].outcome = IF Current(r) THEN "ok" ELSE "cancelled"
  BY <1>4 DEF Final, Leave, Idle, IInv, Reading
<1>6. QED
  BY <1>4, <1>5

(* However many readers there are: a superseded one never takes out a slab *)
(* that a read of a newer generation used.                                 *)
THEOREM NewerKept == Spec => NewerSlabsSurvive
<1>1. ASSUME IInv, [Next]_vars, NEW c \in DOMAIN entries \ DOMAIN entries'
      PROVE  lock # None /\ entries[c].by <= reader[lock].gen
  <2>1. lock \in Readers
    BY <1>1, OnlyTheHolderRemoves
  <2>2. QED
    BY <1>1, <2>1, NoneAssumption DEF IInv, Slabs, Slab
<1>2. IInv /\ [Next]_vars =>
        [\A c \in DOMAIN entries \ DOMAIN entries' :
            lock # None /\ entries[c].by <= reader[lock].gen]_vars
  BY <1>1
<1>3. QED
  BY <1>2, Invariant, PTL DEF Spec, NewerSlabsSurvive

(* A read is over with an answer only if it is the newest of all that were *)
(* answered, and its rows are the selected chunks in order.                *)
THEOREM AnswersAreWhole == Spec => Answers
<1>1. ASSUME IInv, [Next]_vars, NEW r \in Readers, reader[r].pc = "final", reader'[r].outcome = "ok"
      PROVE  /\ InOrder(reader[r].rows, Selected(reader[r].req))
             /\ \A s \in Readers : reader[s].outcome = "ok" => reader[s].gen <= reader[r].gen
  <2>1. reader[r].outcome = "none" /\ reader[r].req \in Requests
        /\ reader[r].index = reader[r].req.end /\ InOrder(reader[r].rows, Passed(r))
    BY <1>1 DEF IInv, Reading, Midway
  <2>2. Final(r) /\ Current(r)
    BY <1>1, <2>1, OnlyOwnStepsEnd
  <2>3. Passed(r) = Selected(reader[r].req)
    <3>1. reader[r].req.first \in Nat /\ reader[r].req.end \in Nat
      BY <2>1, RequestTyped
    <3>2. \A c \in Selected(reader[r].req) : c < reader[r].index
      BY <2>1, <3>1 DEF Selected
    <3>3. QED
      BY <3>2 DEF Passed
  <2>4. QED
    BY <1>1, <2>1, <2>2, <2>3 DEF Current, IInv, Reading
<1>2. IInv /\ [Next]_vars =>
        [\A r \in Readers : reader[r].pc = "final" /\ reader'[r].outcome = "ok" =>
            /\ InOrder(reader[r].rows, Selected(reader[r].req))
            /\ \A s \in Readers : reader[s].outcome = "ok" => reader[s].gen <= reader[r].gen]_vars
  BY <1>1
<1>3. QED
  BY <1>2, Invariant, PTL DEF Spec, Answers
-----------------------------------------------------------------------------
(* The slabs in the order of their links, each once.                       *)
Once(q, n) == \A i, k \in 1..n : q[i] = q[k] => i = k
Chained == \E n \in Nat : \E q \in [1..n -> DOMAIN entries] : Once(q, n) /\ Chain(q, n)

(* Once a reader has trimmed them, they fit the page it reads, with the    *)
(* slab it has in hand.                                                    *)
PageFits(r) ==
    LET d == reader[r] IN
    /\ d.pc \in {"chunk", "take", "room", "io", "hold", "publish"} => bytes <= Limit(r)
    /\ d.pc \in {"room", "io", "hold"} => d.index \notin DOMAIN entries
    /\ d.pc \in {"io", "hold"} /\ Size[d.index] <= Limit(r) => bytes + Size[d.index] <= Limit(r)

Resident ==
    /\ DOMAIN entries \subseteq Chunks /\ Chained
    /\ bytes = BytesOf(DOMAIN entries) /\ bytes <= ResidentLimit

BInv ==
    /\ watermark <= MaxGeneration /\ lock \in Readers \cup {None}
    /\ Resident /\ \A r \in Readers : PageFits(r)
    /\ \A r \in Readers : reader[r].pc = "idle" => reader[r].req = None
-----------------------------------------------------------------------------
LEMMA EntriesAreChunks ==
    ASSUME NEW S, S \subseteq Chunks
    PROVE  IsFiniteSet(S) /\ None \notin S /\ \A c \in S : Size[c] \in Nat \ {0} /\ Size[c] \in Int
<1>1. Chunks = 1..Len(Size) /\ Len(Size) \in Nat /\ \A c \in Chunks : Size[c] \in Nat \ {0}
  BY SizesAssumption DEF Chunks
<1>2. IsFiniteSet(Chunks)
  BY <1>1, FS_Interval
<1>3. IsFiniteSet(S)
  BY <1>2, FS_Subset
<1>4. None \notin S
  BY NoneAssumption
<1>5. \A c \in S : Size[c] \in Nat \ {0} /\ Size[c] \in Int
  BY <1>1
<1> QED BY <1>3, <1>4, <1>5

(* take: the slabs before and after the one taken are linked.              *)
LEMMA RemoveChains ==
    ASSUME Chained, Slabs, DOMAIN entries \subseteq Chunks, NEW id \in DOMAIN entries, Remove(id)
    PROVE  Chained'
<1>1. PICK n \in Nat : \E q \in [1..n -> DOMAIN entries] : Once(q, n) /\ Chain(q, n)
  BY DEF Chained
<1>2. PICK q \in [1..n -> DOMAIN entries] : Once(q, n) /\ Chain(q, n)
  BY <1>1
<1>3. PICK k \in 1..n : q[k] = id
  BY <1>2 DEF Chain
<1> DEFINE p == [i \in 1..(n - 1) |-> IF i < k THEN q[i] ELSE q[i + 1]]
<1>4. /\ n \in Nat /\ n >= 1 /\ n - 1 \in Nat /\ k \in Nat
      /\ \A i \in 1..n : q[i] \in DOMAIN entries /\ q[i] # None
      /\ \A i, j \in 1..n : q[i] = q[j] => i = j
  BY <1>2, <1>3, EntriesAreChunks DEF Once
<1>5. /\ oldest = q[1] /\ newest = q[n]
      /\ \A i \in 1..n : entries[q[i]].previous = (IF i = 1 THEN None ELSE q[i - 1])
      /\ \A i \in 1..n : entries[q[i]].next = (IF i = n THEN None ELSE q[i + 1])
  BY <1>2, <1>4 DEF Chain
<1>6. \A i \in 1..(n - 1) : p[i] = IF i < k THEN q[i] ELSE q[i + 1]
  OBVIOUS
<1>7. DOMAIN entries' = DOMAIN entries \ {id}
  BY DEF Remove, Unlink
<1>8. /\ \A i \in 1..(k - 1) : i \in 1..(n - 1) /\ i \in 1..n /\ p[i] = q[i]
      /\ \A i \in k..(n - 1) : i \in 1..(n - 1) /\ i + 1 \in 1..n /\ p[i] = q[i + 1]
      /\ \A i \in 1..(n - 1) : i \in 1..(k - 1) \/ i \in k..(n - 1)
  BY <1>4, <1>6
<1> HIDE DEF p
<1>9. p \in [1..(n - 1) -> DOMAIN entries']
  <2>1. \A i \in 1..(n - 1) : p[i] \in DOMAIN entries'
    BY <1>3, <1>4, <1>7, <1>8
  <2>2. p = [i \in 1..(n - 1) |-> p[i]]
    BY DEF p
  <2> QED BY <2>1, <2>2
<1>10. Once(p, n - 1)
  BY <1>4, <1>8 DEF Once
<1>11. Chain(p, n - 1)'
  <2>1. {p[i] : i \in 1..(n - 1)} = DOMAIN entries'
    <3>1. ASSUME NEW c \in DOMAIN entries' PROVE \E i \in 1..(n - 1) : p[i] = c
      <4>1. PICK j \in 1..n : q[j] = c
        BY <1>2, <1>7 DEF Chain
      <4>2. j # k
        BY <1>3, <1>7, <4>1
      <4>3. CASE j < k
        BY <1>4, <1>8, <4>1, <4>3
      <4>4. CASE j > k
        <5>1. j - 1 \in k..(n - 1) /\ (j - 1) + 1 = j
          BY <1>4, <4>4
        <5> QED BY <1>8, <4>1, <5>1
      <4> QED BY <1>4, <4>2, <4>3, <4>4
    <3> QED BY <1>9, <3>1
  <2>2. /\ oldest' = (IF n - 1 = 0 THEN None ELSE p[1])
        /\ newest' = (IF n - 1 = 0 THEN None ELSE p[n - 1])
    <3>1. /\ entries[id].previous = (IF k = 1 THEN None ELSE q[k - 1])
          /\ entries[id].next = (IF k = n THEN None ELSE q[k + 1])
      BY <1>3, <1>5
    <3>2. /\ oldest' = (IF k = 1 THEN entries[id].next ELSE q[1])
          /\ newest' = (IF k = n THEN entries[id].previous ELSE q[n])
      BY <1>4, <1>5, <3>1 DEF Remove
    <3> QED BY <1>4, <1>8, <3>1, <3>2
  <2>3. ASSUME NEW i \in 1..(n - 1)
        PROVE  /\ entries'[p[i]].previous = IF i = 1 THEN None ELSE p[i - 1]
               /\ entries'[p[i]].next = IF i = n - 1 THEN None ELSE p[i + 1]
    <3>1. /\ entries[id].previous = (IF k = 1 THEN None ELSE q[k - 1])
          /\ entries[id].next = (IF k = n THEN None ELSE q[k + 1])
      BY <1>3, <1>5
    <3>2. \A c \in DOMAIN entries' : entries'[c] =
             CASE c = entries[id].previous -> [entries[c] EXCEPT !.next = entries[id].next]
               [] c = entries[id].next -> [entries[c] EXCEPT !.previous = entries[id].previous]
               [] OTHER -> entries[c]
      BY <1>7 DEF Remove, Unlink
    <3>9. \A c \in DOMAIN entries' :
             /\ c = entries[id].previous => entries'[c] = [entries[c] EXCEPT !.next = entries[id].next]
             /\ c = entries[id].next /\ c # entries[id].previous =>
                   entries'[c] = [entries[c] EXCEPT !.previous = entries[id].previous]
             /\ c # entries[id].previous /\ c # entries[id].next => entries'[c] = entries[c]
      <4>1. entries[id].previous # None => entries[id].previous # entries[id].next
        BY <1>4, <3>1
      <4>2. None \notin DOMAIN entries'
        BY <1>7, EntriesAreChunks
      <4> QED BY <3>2, <4>1, <4>2
    <3>3. Slab(p[i])
      BY <1>7, <1>9 DEF Slabs
    <3>4. p[i] \in DOMAIN entries' /\ p[i] \in DOMAIN entries
      BY <1>7, <1>9
    <3>5. CASE i = k - 1
      <4>1. p[i] = q[k - 1] /\ k - 1 \in 1..n /\ k # 1
        BY <1>4, <1>8, <3>5
      <4>2. entries'[p[i]].next = entries[id].next /\ entries'[p[i]].previous = entries[p[i]].previous
        <5>1. p[i] = entries[id].previous
          BY <3>1, <4>1
        <5>2. p[i] # entries[id].next
          BY <1>4, <3>1, <4>1
        <5>3. entries'[p[i]] = [entries[p[i]] EXCEPT !.next = entries[id].next]
          BY <3>4, <3>9, <5>1, <5>2
        <5> QED BY <3>3, <5>3 DEF Slab
      <4>3. entries[p[i]].previous = IF k - 1 = 1 THEN None ELSE q[(k - 1) - 1]
        BY <1>5, <4>1
      <4> QED BY <1>4, <1>8, <3>1, <3>5, <4>2, <4>3
    <3>6. CASE i = k
      <4>1. p[i] = q[k + 1] /\ k + 1 \in 1..n /\ k # n
        BY <1>4, <1>8, <3>6
      <4>2. entries'[p[i]].previous = entries[id].previous /\ entries'[p[i]].next = entries[p[i]].next
        <5>1. p[i] = entries[id].next
          BY <3>1, <4>1
        <5>2. p[i] # entries[id].previous
          BY <1>4, <3>1, <4>1
        <5>3. entries'[p[i]] = [entries[p[i]] EXCEPT !.previous = entries[id].previous]
          BY <3>4, <3>9, <5>1, <5>2
        <5> QED BY <3>3, <5>3 DEF Slab
      <4>3. entries[p[i]].next = IF k + 1 = n THEN None ELSE q[(k + 1) + 1]
        BY <1>5, <4>1
      <4> QED BY <1>4, <1>8, <3>1, <3>6, <4>2, <4>3
    <3>7. CASE i < k - 1
      <4>1. p[i] = q[i] /\ i \in 1..n
        BY <1>4, <1>8, <3>7
      <4>2. entries'[p[i]] = entries[p[i]]
        <5>1. p[i] # entries[id].previous /\ p[i] # entries[id].next
          BY <1>4, <3>1, <3>7, <4>1
        <5> QED BY <3>4, <3>9, <5>1
      <4> QED BY <1>4, <1>5, <1>8, <3>7, <4>1, <4>2
    <3>8. CASE i > k
      <4>1. p[i] = q[i + 1] /\ i + 1 \in 1..n
        BY <1>4, <1>8, <3>8
      <4>2. entries'[p[i]] = entries[p[i]]
        <5>1. p[i] # entries[id].previous /\ p[i] # entries[id].next
          BY <1>4, <3>1, <3>8, <4>1
        <5> QED BY <3>4, <3>9, <5>1
      <4>3. /\ entries[p[i]].previous = q[i]
            /\ entries[p[i]].next = IF i + 1 = n THEN None ELSE q[(i + 1) + 1]
        BY <1>4, <1>5, <3>8, <4>1
      <4>4. i # 1 /\ i - 1 \in k..(n - 1) /\ (i - 1) + 1 = i
        BY <1>4, <3>8
      <4>5. p[i - 1] = q[i]
        BY <1>8, <4>4
      <4>6. i # n - 1 => p[i + 1] = q[(i + 1) + 1]
        <5>1. i # n - 1 => i + 1 \in k..(n - 1)
          BY <1>4, <3>8
        <5> QED BY <1>8, <5>1
      <4>7. i = n - 1 <=> i + 1 = n
        BY <1>4
      <4> QED BY <4>2, <4>3, <4>4, <4>5, <4>6, <4>7
    <3> QED BY <1>4, <3>5, <3>6, <3>7, <3>8
  <2> QED BY <2>1, <2>2, <2>3 DEF Chain
<1> QED BY <1>4, <1>9, <1>10, <1>11 DEF Chained, Once

(* put: the slab follows the newest.                                       *)
LEMMA PutChains ==
    ASSUME Chained, Slabs, DOMAIN entries \subseteq Chunks, NEW id \in Chunks \ DOMAIN entries,
           NEW g, Put(id, g)
    PROVE  Chained'
<1>1. PICK n \in Nat : \E q \in [1..n -> DOMAIN entries] : Once(q, n) /\ Chain(q, n)
  BY DEF Chained
<1>2. PICK q \in [1..n -> DOMAIN entries] : Once(q, n) /\ Chain(q, n)
  BY <1>1
<1> DEFINE p == [i \in 1..(n + 1) |-> IF i <= n THEN q[i] ELSE id]
<1>3. /\ n \in Nat /\ n + 1 \in Nat /\ None # id
      /\ \A i \in 1..n : q[i] \in DOMAIN entries /\ q[i] # None /\ q[i] # id
      /\ \A i, j \in 1..n : q[i] = q[j] => i = j
  BY <1>2, EntriesAreChunks, NoneAssumption DEF Once
<1>4. /\ oldest = (IF n = 0 THEN None ELSE q[1]) /\ newest = (IF n = 0 THEN None ELSE q[n])
      /\ \A i \in 1..n : entries[q[i]].previous = (IF i = 1 THEN None ELSE q[i - 1])
      /\ \A i \in 1..n : entries[q[i]].next = (IF i = n THEN None ELSE q[i + 1])
      /\ {q[i] : i \in 1..n} = DOMAIN entries
  BY <1>2 DEF Chain
<1>5. /\ \A i \in 1..n : i \in 1..(n + 1) /\ p[i] = q[i]
      /\ p[n + 1] = id /\ n + 1 \in 1..(n + 1)
      /\ \A i \in 1..(n + 1) : i \in 1..n \/ i = n + 1
  BY <1>3
<1>6. DOMAIN entries' = DOMAIN entries \cup {id}
  BY DEF Put
<1>7. \A i \in 1..(n + 1) : p[i] \in DOMAIN entries'
  BY <1>3, <1>5, <1>6
<1>8. p \in [1..(n + 1) -> DOMAIN entries']
  BY <1>7
<1> HIDE DEF p
<1>9. Once(p, n + 1)
  BY <1>3, <1>5 DEF Once
<1>10. Chain(p, n + 1)'
  <2>1. {p[i] : i \in 1..(n + 1)} = DOMAIN entries'
    <3>1. ASSUME NEW c \in DOMAIN entries' PROVE \E i \in 1..(n + 1) : p[i] = c
      <4>1. CASE c = id
        BY <1>5, <4>1
      <4>2. CASE c \in DOMAIN entries
        <5>1. PICK j \in 1..n : q[j] = c
          BY <1>4, <4>2
        <5> QED BY <1>5, <5>1
      <4> QED BY <1>6, <4>1, <4>2
    <3> QED BY <1>7, <3>1
  <2>2. newest' = p[n + 1] /\ oldest' = p[1]
    BY <1>3, <1>4, <1>5 DEF Put
  <2>3. ASSUME NEW i \in 1..(n + 1)
        PROVE  /\ entries'[p[i]].previous = IF i = 1 THEN None ELSE p[i - 1]
               /\ entries'[p[i]].next = IF i = n + 1 THEN None ELSE p[i + 1]
    <3>1. \A c \in DOMAIN entries' :
             /\ c = id => entries'[c] = [previous |-> newest, next |-> None, by |-> g]
             /\ c # id /\ c = newest => entries'[c] = [entries[c] EXCEPT !.next = id]
             /\ c # id /\ c # newest => entries'[c] = entries[c]
      BY <1>6 DEF Put
    <3>2. CASE i = n + 1
      <4>1. entries'[p[i]].previous = newest /\ entries'[p[i]].next = None
        <5>1. p[i] = id /\ id \in DOMAIN entries'
          BY <1>5, <1>6, <3>2
        <5>2. entries'[id] = [previous |-> newest, next |-> None, by |-> g]
          BY <3>1, <5>1
        <5> QED BY <5>1, <5>2
      <4>2. n # 0 => p[(n + 1) - 1] = q[n]
        BY <1>3, <1>5
      <4> QED BY <1>3, <1>4, <3>2, <4>1, <4>2
    <3>3. CASE i \in 1..n
      <4>1. p[i] = q[i] /\ q[i] # id /\ q[i] \in DOMAIN entries /\ q[i] \in DOMAIN entries' /\ n # 0
            /\ Slab(q[i])
        BY <1>3, <1>5, <1>6, <3>3 DEF Slabs
      <4>2. entries'[p[i]].previous = entries[q[i]].previous
            /\ entries'[p[i]].next = IF q[i] = newest THEN id ELSE entries[q[i]].next
        BY <3>1, <4>1 DEF Slab
      <4>3. q[i] = newest <=> i = n
        BY <1>3, <1>4, <3>3, <4>1
      <4>4. i # 1 => p[i - 1] = q[i - 1]
        BY <1>3, <1>5, <3>3
      <4>5. i # n => p[i + 1] = q[i + 1]
        <5>1. i # n => i + 1 \in 1..n
          BY <1>3, <3>3
        <5> QED BY <1>5, <5>1
      <4>6. i # n + 1
        BY <1>3, <3>3
      <4> QED BY <1>4, <1>5, <3>3, <4>2, <4>3, <4>4, <4>5, <4>6
    <3> QED BY <1>5, <3>2, <3>3
  <2> QED BY <1>3, <2>1, <2>2, <2>3 DEF Chain
<1> QED BY <1>3, <1>8, <1>9, <1>10 DEF Chained, Once
-----------------------------------------------------------------------------
LEMMA BytesAreNat == ASSUME Resident PROVE bytes \in Nat
BY EntriesAreChunks, SumNat DEF Resident, BytesOf

LEMMA RemoveStays ==
    ASSUME Resident, Slabs, NEW id \in DOMAIN entries, Remove(id)
    PROVE  /\ Resident' /\ bytes \in Nat /\ Size[id] \in Nat /\ bytes' = bytes - Size[id]
           /\ DOMAIN entries' = DOMAIN entries \ {id}
<1>1. DOMAIN entries \subseteq Chunks /\ Chained
  BY DEF Resident
<1>2. Chained'
  BY <1>1, RemoveChains
<1>3. DOMAIN entries' = DOMAIN entries \ {id} /\ bytes' = bytes - Size[id]
  BY DEF Remove, Unlink
<1>4. bytes = Size[id] + SumFunctionOnSet(Size, DOMAIN entries')
  BY <1>1, <1>3, EntriesAreChunks, SumRemove DEF Resident, BytesOf
<1>5. SumFunctionOnSet(Size, DOMAIN entries') \in Nat
  <2>1. DOMAIN entries' \subseteq Chunks
    BY <1>1, <1>3
  <2> QED BY <2>1, EntriesAreChunks, SumNat
<1>6. Size[id] \in Nat /\ bytes \in Nat
  BY <1>1, EntriesAreChunks, BytesAreNat
<1>7. bytes' = SumFunctionOnSet(Size, DOMAIN entries') /\ bytes' <= ResidentLimit
  BY <1>3, <1>4, <1>5, <1>6, SizesAssumption DEF Resident
<1> QED BY <1>1, <1>2, <1>3, <1>6, <1>7 DEF Resident, BytesOf

LEMMA PutStays ==
    ASSUME Resident, Slabs, NEW id \in Chunks \ DOMAIN entries, NEW g, Put(id, g),
           bytes + Size[id] <= ResidentLimit
    PROVE  /\ Resident' /\ bytes' = bytes + Size[id] /\ DOMAIN entries' = DOMAIN entries \cup {id}
<1>1. DOMAIN entries \subseteq Chunks /\ Chained
  BY DEF Resident
<1>2. Chained'
  BY <1>1, PutChains
<1>3. DOMAIN entries' = DOMAIN entries \cup {id} /\ bytes' = bytes + Size[id]
  BY DEF Put
<1>4. SumFunctionOnSet(Size, DOMAIN entries \cup {id}) = bytes + Size[id]
  <2>1. Size[id] \in Int
    BY EntriesAreChunks
  <2> QED BY <1>1, <2>1, EntriesAreChunks, SumAdd DEF Resident, BytesOf
<1> QED BY <1>1, <1>2, <1>3, <1>4 DEF Resident, BytesOf

LEMMA SameStays == ASSUME Resident, UNCHANGED residentVars PROVE Resident'
<1>1. entries' = entries /\ oldest' = oldest /\ newest' = newest /\ bytes' = bytes
  BY DEF residentVars
<1>2. Chained'
  <2>1. PICK n \in Nat : \E q \in [1..n -> DOMAIN entries] : Once(q, n) /\ Chain(q, n)
    BY DEF Resident, Chained
  <2>2. PICK q \in [1..n -> DOMAIN entries] : Once(q, n) /\ Chain(q, n)
    BY <2>1
  <2>3. Chain(q, n)'
    BY <1>1, <2>2 DEF Chain
  <2>4. q \in [1..n -> DOMAIN entries'] /\ Once(q, n)'
    BY <1>1, <2>2 DEF Once
  <2> QED BY <2>3, <2>4 DEF Chained
<1> QED BY <1>1, <1>2 DEF Resident, BytesOf

(* What a page may use, and where it reads.                                *)
LEMMA LimitIsNat ==
    ASSUME IInv, NEW r \in Readers, reader[r].pc # "idle"
    PROVE  /\ Limit(r) \in Nat /\ Limit(r) <= ResidentLimit
           /\ reader[r].pc \in AtChunk => reader[r].index \in Chunks /\ Size[reader[r].index] \in Nat \ {0}
<1>1. reader[r].req \in Requests /\ reader[r].index \in reader[r].req.first..reader[r].req.end
      /\ (reader[r].pc \in AtChunk => reader[r].index < reader[r].req.end)
  BY DEF IInv, Reading, Midway
<1>2. reader[r].req.page \in Nat
  BY <1>1, RequestsAssumption
<1>3. Limit(r) \in Nat /\ Limit(r) <= ResidentLimit
  BY <1>2, SizesAssumption DEF Limit, LesserOf
<1>4. reader[r].pc \in AtChunk => reader[r].index \in Chunks
  BY <1>1, RequestTyped
<1> QED BY <1>3, <1>4, EntriesAreChunks
-----------------------------------------------------------------------------
(* A step of r: nobody else is in a page while r changes the slabs.        *)
LEMMA ReaderSteps ==
    ASSUME IInv, BInv, NEW r \in Readers, \A s \in Readers \ {r} : reader'[s] = reader[s],
           Resident', lock = r \/ UNCHANGED residentVars, UNCHANGED watermark,
           lock' \in Readers \cup {None}, PageFits(r)',
           reader'[r].pc = "idle" => reader'[r].req = None
    PROVE  BInv'
<1>1. ASSUME NEW s \in Readers \ {r} PROVE PageFits(s)'
  <2>1. reader'[s] = reader[s] /\ PageFits(s)
    BY DEF BInv
  <2>2. CASE lock = r
    <3>1. reader[s].pc \notin Locked
      BY <2>2 DEF IInv, Reading
    <3> QED BY <2>1, <3>1 DEF PageFits, Locked
  <2>3. CASE UNCHANGED residentVars
    BY <2>1, <2>3 DEF PageFits, Limit, residentVars
  <2> QED BY <2>2, <2>3
<1>2. \A s \in Readers : PageFits(s)'
  BY <1>1
<1>3. \A s \in Readers : reader'[s].pc = "idle" => reader'[s].req = None
  BY DEF BInv
<1>4. watermark' <= MaxGeneration
  BY DEF BInv
<1> QED BY <1>2, <1>3, <1>4 DEF BInv

LEMMA LeaveAccounts ==
    ASSUME IInv, BInv, NEW r \in Readers, NEW o, Leave(r, o), UNCHANGED <<watermark, residentVars>>
    PROVE  BInv'
<1>1. reader \in [Readers -> Records]
  BY DEF IInv, Reading
<1>2. reader'[r].pc = "idle" /\ reader'[r].req = None /\ \A s \in Readers \ {r} : reader'[s] = reader[s]
  BY <1>1 DEF Leave, Idle
<1>3. PageFits(r)'
  BY <1>2 DEF PageFits
<1>4. Resident' /\ lock' \in Readers \cup {None}
  BY SameStays DEF BInv, Leave
<1> QED BY <1>2, <1>3, <1>4, ReaderSteps

(* A step that leaves the slabs alone and stays in the page, or is not yet *)
(* or no longer in one.                                                    *)
LEMMA GoesOn ==
    ASSUME IInv, BInv, NEW r \in Readers, UNCHANGED <<watermark, residentVars>>,
           lock' \in Readers \cup {None}, \A s \in Readers \ {r} : reader'[s] = reader[s],
           reader'[r].pc # "idle", reader'[r].req = reader[r].req,
           \/ reader'[r].pc \in {"call", "waiting", "enter", "final"}
           \/ reader'[r].pc \in {"chunk", "take", "publish"} /\ bytes <= Limit(r)
    PROVE  BInv'
<1>1. Resident'
  BY SameStays DEF BInv
<1>2. PageFits(r)'
  BY DEF PageFits, Limit, residentVars
<1> QED BY <1>1, <1>2, ReaderSteps

LEMMA SetGenerationAccounts ==
    ASSUME IInv, BInv, NEW g \in 1..MaxGeneration, SetGeneration(g)
    PROVE  BInv'
<1>1. watermark' <= MaxGeneration
  BY SizesAssumption DEF SetGeneration
<1>2. UNCHANGED <<lock, residentVars, reader>>
  BY DEF SetGeneration
<1>3. Resident'
  BY <1>2, SameStays DEF BInv
<1>4. \A r \in Readers : PageFits(r)'
  BY <1>2 DEF BInv, PageFits, Limit, residentVars
<1> QED BY <1>1, <1>2, <1>3, <1>4 DEF BInv

LEMMA BeginAccounts ==
    ASSUME IInv, BInv, NEW r \in Readers, NEW q \in Requests, NEW g, Begin(r, q, g)
    PROVE  BInv'
<1>1. reader \in [Readers -> Records]
  BY DEF IInv, Reading
<1>2. reader'[r].pc = "call" /\ \A s \in Readers \ {r} : reader'[s] = reader[s]
  BY <1>1 DEF Begin
<1>3. UNCHANGED <<watermark, lock, residentVars>>
  BY DEF Begin
<1>4. Resident' /\ PageFits(r)'
  BY <1>2, <1>3, SameStays DEF BInv, PageFits
<1>5. lock' \in Readers \cup {None}
  BY <1>3 DEF BInv
<1> QED BY <1>2, <1>3, <1>4, <1>5, ReaderSteps

LEMMA WaitingAccounts ==
    ASSUME IInv, BInv, NEW r \in Readers, Call(r) \/ Lock(r) \/ ReadFails(r) \/ Publish(r) \/ Final(r)
    PROVE  BInv'
<1>1. reader \in [Readers -> Records] /\ lock \in Readers \cup {None}
  BY DEF IInv, Reading, BInv
<1>2. UNCHANGED <<watermark, residentVars>>
  BY DEF Call, Lock, ReadFails, Publish, Final
<1>3. CASE \E o \in {"cancelled", "failed", "ok"} : Leave(r, o)
  BY <1>2, <1>3, LeaveAccounts
<1>4. CASE Call(r) /\ Current(r)
  <2>1. /\ reader'[r].pc = "waiting" /\ reader'[r].req = reader[r].req
        /\ \A s \in Readers \ {r} : reader'[s] = reader[s]
    BY <1>1, <1>4 DEF Call, Goto, Records
  <2>2. lock' \in Readers \cup {None}
    BY <1>1, <1>4 DEF Call
  <2>3. reader'[r].pc # "idle" /\ reader'[r].pc \in {"call", "waiting", "enter", "final"}
    BY <2>1
  <2> QED BY <1>2, <2>1, <2>2, <2>3, GoesOn
<1>5. CASE Lock(r) /\ Current(r)
  <2>1. /\ reader'[r].pc = "enter" /\ reader'[r].req = reader[r].req
        /\ \A s \in Readers \ {r} : reader'[s] = reader[s]
    BY <1>1, <1>5 DEF Lock, Records
  <2>2. lock' \in Readers \cup {None}
    BY <1>5 DEF Lock
  <2>3. reader'[r].pc # "idle" /\ reader'[r].pc \in {"call", "waiting", "enter", "final"}
    BY <2>1
  <2> QED BY <1>2, <2>1, <2>2, <2>3, GoesOn
<1>6. CASE Publish(r) /\ Current(r)
  <2>1. /\ reader'[r].pc \in {"final", "call"} /\ reader'[r].req = reader[r].req
        /\ \A s \in Readers \ {r} : reader'[s] = reader[s]
    BY <1>1, <1>6 DEF Publish, Goto, Records
  <2>2. lock' \in Readers \cup {None}
    BY <1>6 DEF Publish
  <2>3. reader'[r].pc # "idle" /\ reader'[r].pc \in {"call", "waiting", "enter", "final"}
    BY <2>1
  <2> QED BY <1>2, <2>1, <2>2, <2>3, GoesOn
<1> QED BY <1>3, <1>4, <1>5, <1>6 DEF Call, Lock, ReadFails, Publish, Final

LEMMA NextChunkAccounts ==
    ASSUME IInv, BInv, NEW r \in Readers, NextChunk(r)
    PROVE  BInv'
<1>1. reader \in [Readers -> Records] /\ lock \in Readers \cup {None} /\ reader[r].pc = "chunk"
  BY DEF IInv, Reading, BInv, NextChunk
<1>2. UNCHANGED <<watermark, residentVars>>
  BY DEF NextChunk
<1>3. bytes <= Limit(r)
  BY <1>1 DEF BInv, PageFits
<1>4. CASE \E o \in {"cancelled", "refused"} : Leave(r, o)
  BY <1>2, <1>4, LeaveAccounts
<1>5. CASE UNCHANGED lock /\ \E pc \in {"publish", "chunk", "take"} :
              /\ reader'[r].pc = pc /\ reader'[r].req = reader[r].req
              /\ \A s \in Readers \ {r} : reader'[s] = reader[s]
  <2>1. PICK pc \in {"publish", "chunk", "take"} :
              /\ reader'[r].pc = pc /\ reader'[r].req = reader[r].req
              /\ \A s \in Readers \ {r} : reader'[s] = reader[s]
    BY <1>5
  <2> QED BY <1>1, <1>2, <1>3, <1>5, <2>1, GoesOn
<1>6. \/ \E o \in {"cancelled", "refused"} : Leave(r, o)
      \/ UNCHANGED lock /\ reader' = [reader EXCEPT ![r].pc = "publish"]
      \/ UNCHANGED lock /\ reader' = [reader EXCEPT ![r].index = @ + 1]
      \/ UNCHANGED lock /\ reader' = [reader EXCEPT ![r].pc = "take",
                                  ![r].admitted = @ + Size[reader[r].index]]
  BY DEF NextChunk, Goto
<1>7. ASSUME UNCHANGED lock, reader' = [reader EXCEPT ![r].pc = "publish"] PROVE BInv'
  <2>1. /\ reader'[r].pc = "publish" /\ reader'[r].req = reader[r].req
        /\ \A s \in Readers \ {r} : reader'[s] = reader[s]
    BY <1>1, <1>7 DEF Records
  <2> QED BY <1>5, <1>7, <2>1
<1>8. ASSUME UNCHANGED lock, reader' = [reader EXCEPT ![r].index = @ + 1] PROVE BInv'
  <2>1. /\ reader'[r].pc = "chunk" /\ reader'[r].req = reader[r].req
        /\ \A s \in Readers \ {r} : reader'[s] = reader[s]
    BY <1>1, <1>8 DEF Records
  <2> QED BY <1>5, <1>8, <2>1
<1>9. ASSUME UNCHANGED lock,
             reader' = [reader EXCEPT ![r].pc = "take", ![r].admitted = @ + Size[reader[r].index]]
      PROVE  BInv'
  <2>1. /\ reader'[r].pc = "take" /\ reader'[r].req = reader[r].req
        /\ \A s \in Readers \ {r} : reader'[s] = reader[s]
    BY <1>1, <1>9 DEF Records
  <2> QED BY <1>5, <1>9, <2>1
<1> QED BY <1>4, <1>6, <1>7, <1>8, <1>9

(* There is an oldest slab as long as there are bytes to give back.        *)
LEMMA OldestIsResident == ASSUME Resident, bytes > 0 PROVE oldest \in DOMAIN entries
<1>1. PICK n \in Nat : \E q \in [1..n -> DOMAIN entries] : Once(q, n) /\ Chain(q, n)
  BY DEF Resident, Chained
<1>2. PICK q \in [1..n -> DOMAIN entries] : Once(q, n) /\ Chain(q, n)
  BY <1>1
<1>3. DOMAIN entries # {}
  BY SumEmpty DEF Resident, BytesOf
<1>4. n # 0 /\ 1 \in 1..n
  BY <1>2, <1>3 DEF Chain
<1> QED BY <1>2, <1>4 DEF Chain

LEMMA TrimAccounts ==
    ASSUME IInv, BInv, NEW r \in Readers, Trim(r)
    PROVE  BInv'
<1> DEFINE size == Size[reader[r].index]
<1>1. reader \in [Readers -> Records] /\ reader[r].pc \in {"enter", "room"} /\ lock = r
  BY DEF IInv, Reading, Trim, Locked
<1>2. /\ Limit(r) \in Nat /\ Limit(r) <= ResidentLimit /\ bytes \in Nat
      /\ reader[r].pc = "room" => size \in Nat \ {0}
  BY <1>1, LimitIsNat, BytesAreNat DEF BInv, AtChunk
<1>3. Room(r) \in Nat
  BY <1>1, <1>2 DEF Room
<1>4. UNCHANGED <<watermark, lock>> /\ Resident /\ Slabs /\ PageFits(r)
  BY DEF Trim, BInv, IInv
<1>5. CASE bytes > Room(r)
  <2>1. oldest \in DOMAIN entries
    BY <1>2, <1>3, <1>4, <1>5, OldestIsResident
  <2>2. Remove(oldest) /\ reader' = reader
    BY <1>5 DEF Trim
  <2>3. /\ Resident' /\ Size[oldest] \in Nat /\ bytes' = bytes - Size[oldest]
        /\ DOMAIN entries' = DOMAIN entries \ {oldest}
    BY <1>4, <2>1, <2>2, RemoveStays
  <2>4. PageFits(r)'
    <3>1. Limit(r)' = Limit(r)
      BY <2>2 DEF Limit
    <3> QED BY <1>1, <1>2, <1>4, <2>2, <2>3, <3>1 DEF PageFits
  <2> QED BY <1>1, <1>4, <2>2, <2>3, <2>4, ReaderSteps DEF BInv
<1>6. CASE ~ (bytes > Room(r))
  <2>1. UNCHANGED residentVars /\ Goto(r, IF reader[r].pc = "enter" THEN "chunk" ELSE "io")
    BY <1>6 DEF Trim
  <2>2. /\ reader'[r].pc = (IF reader[r].pc = "enter" THEN "chunk" ELSE "io")
        /\ reader'[r].req = reader[r].req /\ reader'[r].index = reader[r].index
        /\ \A s \in Readers \ {r} : reader'[s] = reader[s]
    BY <1>1, <2>1 DEF Goto, Records
  <2>3. Resident' /\ Limit(r)' = Limit(r) /\ bytes' = bytes /\ entries' = entries
    BY <1>4, <2>1, <2>2, SameStays DEF Limit, residentVars
  <2>4. bytes <= Limit(r)
    BY <1>1, <1>2, <1>4, <1>6 DEF Room, PageFits
  <2>5. reader[r].pc = "room" => reader[r].index \notin DOMAIN entries
            /\ (size <= Limit(r) => bytes + size <= Limit(r))
    BY <1>1, <1>2, <1>4, <1>6 DEF Room, PageFits
  <2>6. PageFits(r)'
    BY <1>1, <2>2, <2>3, <2>4, <2>5 DEF PageFits
  <2>7. reader'[r].pc # "idle"
    BY <1>1, <2>2
  <2> QED BY <1>1, <1>4, <2>1, <2>2, <2>3, <2>6, <2>7, ReaderSteps DEF BInv
<1> QED BY <1>5, <1>6

LEMMA TakeAccounts ==
    ASSUME IInv, BInv, NEW r \in Readers, Take(r)
    PROVE  BInv'
<1> DEFINE id == reader[r].index
<1>1. reader \in [Readers -> Records] /\ reader[r].pc = "take" /\ lock = r /\ UNCHANGED watermark
  BY DEF IInv, Reading, Take, Locked
<1>2. /\ Limit(r) \in Nat /\ bytes \in Nat /\ Size[id] \in Nat
      /\ Resident /\ Slabs /\ bytes <= Limit(r) /\ lock \in Readers \cup {None}
  BY <1>1, LimitIsNat, BytesAreNat DEF BInv, AtChunk, PageFits, IInv
<1>3. CASE ~Current(r)
  BY <1>1, <1>3, LeaveAccounts DEF Take
<1>4. CASE Current(r) /\ id \in DOMAIN entries
  <2>1. Remove(id) /\ Goto(r, "hold") /\ UNCHANGED lock
    BY <1>4 DEF Take
  <2>2. /\ reader'[r].pc = "hold" /\ reader'[r].req = reader[r].req /\ reader'[r].index = id
        /\ \A s \in Readers \ {r} : reader'[s] = reader[s]
    BY <1>1, <2>1 DEF Goto, Records
  <2>3. Resident' /\ bytes' = bytes - Size[id] /\ DOMAIN entries' = DOMAIN entries \ {id}
    BY <1>2, <1>4, <2>1, RemoveStays
  <2>4. Limit(r)' = Limit(r)
    BY <2>2 DEF Limit
  <2>5. PageFits(r)'
    BY <1>2, <2>2, <2>3, <2>4 DEF PageFits
  <2> QED BY <1>1, <1>2, <2>1, <2>2, <2>3, <2>5, ReaderSteps
<1>5. CASE Current(r) /\ id \notin DOMAIN entries
  <2>1. UNCHANGED residentVars /\ Goto(r, "room") /\ UNCHANGED lock
    BY <1>5 DEF Take
  <2>2. /\ reader'[r].pc = "room" /\ reader'[r].req = reader[r].req /\ reader'[r].index = id
        /\ \A s \in Readers \ {r} : reader'[s] = reader[s]
    BY <1>1, <2>1 DEF Goto, Records
  <2>3. Resident' /\ Limit(r)' = Limit(r) /\ bytes' = bytes /\ entries' = entries
    BY <1>2, <2>1, <2>2, SameStays DEF Limit, residentVars
  <2>4. PageFits(r)'
    BY <1>2, <1>5, <2>2, <2>3 DEF PageFits
  <2> QED BY <1>1, <1>2, <2>1, <2>2, <2>3, <2>4, ReaderSteps
<1> QED BY <1>3, <1>4, <1>5

LEMMA EmitAccounts ==
    ASSUME IInv, BInv, NEW r \in Readers, Emit(r)
    PROVE  BInv'
<1> DEFINE id == reader[r].index
<1>1. /\ reader \in [Readers -> Records] /\ reader[r].pc \in {"io", "hold"} /\ lock = r
      /\ UNCHANGED watermark
  BY DEF IInv, Reading, Emit, Locked
<1>2. /\ Limit(r) \in Nat /\ Limit(r) <= ResidentLimit /\ bytes \in Nat /\ id \in Chunks
      /\ Size[id] \in Nat
  BY <1>1, LimitIsNat, BytesAreNat DEF BInv, AtChunk
<1>3. /\ Resident /\ Slabs /\ bytes <= Limit(r) /\ lock \in Readers \cup {None}
      /\ id \notin DOMAIN entries /\ (Size[id] <= Limit(r) => bytes + Size[id] <= Limit(r))
  BY <1>1 DEF BInv, PageFits, IInv
<1>4. CASE ~Current(r)
  BY <1>1, <1>4, LeaveAccounts DEF Emit
<1>5. CASE Current(r)
  <2>1. /\ reader'[r].pc = "chunk" /\ reader'[r].req = reader[r].req
        /\ \A s \in Readers \ {r} : reader'[s] = reader[s]
    BY <1>1, <1>5 DEF Emit, Records
  <2>2. UNCHANGED lock /\ Limit(r)' = Limit(r)
    BY <1>5, <2>1 DEF Emit, Limit
  <2>3. Resident' /\ bytes' <= Limit(r)
    <3>1. CASE Size[id] <= Limit(r)
      <4>1. Put(id, reader[r].gen) /\ bytes + Size[id] <= ResidentLimit /\ bytes + Size[id] <= Limit(r)
        BY <1>2, <1>3, <1>5, <3>1, SizesAssumption DEF Emit
      <4> QED BY <1>2, <1>3, <4>1, PutStays
    <3>2. CASE ~ (Size[id] <= Limit(r))
      <4>1. UNCHANGED residentVars
        BY <1>5, <3>2 DEF Emit
      <4> QED BY <1>3, <4>1, SameStays DEF residentVars
    <3> QED BY <3>1, <3>2
  <2>4. PageFits(r)'
    BY <2>1, <2>2, <2>3 DEF PageFits
  <2> QED BY <1>1, <1>3, <2>1, <2>2, <2>3, <2>4, ReaderSteps
<1> QED BY <1>4, <1>5
-----------------------------------------------------------------------------
LEMMA InitAccounts == Init => BInv
<1> SUFFICES ASSUME Init PROVE BInv
  OBVIOUS
<1>1. /\ entries = <<>> /\ oldest = None /\ newest = None /\ bytes = 0 /\ watermark = 0 /\ lock = None
      /\ \A r \in Readers : reader[r].pc = "idle" /\ reader[r].req = None
  BY DEF Init, Idle
<1>2. DOMAIN entries = {}
  BY <1>1
<1> DEFINE q == [i \in 1..0 |-> 0]
<1>3. 1..0 = {}
  OBVIOUS
<1>4. q \in [1..0 -> DOMAIN entries] /\ Once(q, 0)
  BY <1>3 DEF Once
<1>5. Chain(q, 0)
  BY <1>1, <1>2, <1>3 DEF Chain
<1>6. Chained
  BY <1>4, <1>5 DEF Chained
<1>7. Resident
  BY <1>1, <1>2, <1>6, SumEmpty, SizesAssumption DEF Resident, BytesOf
<1> QED BY <1>1, <1>7, SizesAssumption DEF BInv, PageFits

LEMMA StepAccounts == IInv /\ BInv /\ [Next]_vars => BInv'
<1> SUFFICES ASSUME IInv, BInv, [Next]_vars PROVE BInv'
  OBVIOUS
<1>1. ASSUME NEW g \in 1..MaxGeneration, SetGeneration(g) PROVE BInv'
  BY <1>1, SetGenerationAccounts
<1>2. ASSUME NEW r \in Readers, Read(r) PROVE BInv'
  BY <1>2, WaitingAccounts, TrimAccounts, NextChunkAccounts, TakeAccounts, EmitAccounts DEF Read
<1>3. ASSUME NEW r \in Readers, NEW q \in Requests, NEW g \in 0..MaxGeneration, Begin(r, q, g) PROVE BInv'
  BY <1>3, BeginAccounts
<1>4. CASE UNCHANGED vars
  <2>1. UNCHANGED <<watermark, lock, residentVars, reader>>
    BY <1>4 DEF vars
  <2>2. Resident'
    BY <2>1, SameStays DEF BInv
  <2>3. \A r \in Readers : PageFits(r)'
    BY <2>1 DEF BInv, PageFits, Limit, residentVars
  <2> QED BY <2>1, <2>2, <2>3 DEF BInv
<1> QED BY <1>1, <1>2, <1>3, <1>4 DEF Next

(* The chain has as many links as there are slabs.                         *)
LEMMA ChainCounts ==
    ASSUME NEW n \in Nat, NEW q \in [1..n -> DOMAIN entries], Once(q, n), Chain(q, n)
    PROVE  n = Cardinality(DOMAIN entries)
<1>1. \A c \in DOMAIN entries : \E i \in 1..n : q[i] = c
  BY DEF Chain
<1>2. q \in Bijection(1..n, DOMAIN entries)
  BY <1>1 DEF Bijection, Injection, Surjection, IsInjective, Once
<1>3. ExistsBijection(1..n, DOMAIN entries)
  BY <1>2 DEF ExistsBijection
<1> QED BY <1>3, FS_CountingElements

LEMMA IsAccounted == IInv /\ BInv => Accounted
<1> SUFFICES ASSUME IInv, BInv PROVE Accounted
  OBVIOUS
<1>1. reader \in [Readers -> Records] /\ watermark \in Nat /\ watermark <= MaxGeneration
  BY DEF IInv, Reading, BInv
<1>2. ColumnsTypeOK
  <2>1. DOMAIN entries \subseteq Chunks /\ bytes \in Nat /\ watermark \in 0..MaxGeneration
    BY <1>1, BytesAreNat, SizesAssumption DEF BInv, Resident
  <2>2. ASSUME NEW r \in Readers
        PROVE  /\ reader[r].pc \in Places
               /\ reader[r].pc = "idle" <=> reader[r].req = None
               /\ reader[r].pc \in Locked <=> lock = r
               /\ reader[r].gen \in 0..MaxGeneration
               /\ reader[r].outcome \in {"none", "ok", "cancelled", "failed", "refused"}
    <3>1. reader[r] \in Records
      BY <1>1
    <3>2. reader[r].gen \in 0..MaxGeneration
      BY <1>1, <3>1, SizesAssumption DEF Records, IInv, Reading
    <3>3. reader[r].pc # "idle" => reader[r].req # None
      BY NoneAssumption DEF IInv, Reading, Midway
    <3> QED BY <3>1, <3>2, <3>3 DEF Records, IInv, Reading, BInv
  <2> QED BY <2>1, <2>2 DEF ColumnsTypeOK, Places, Locked, BInv
<1> DEFINE n == Cardinality(DOMAIN entries)
<1>3. \E q \in [1..n -> DOMAIN entries] : Chain(q, n)
  <2>1. PICK m \in Nat : \E q \in [1..m -> DOMAIN entries] : Once(q, m) /\ Chain(q, m)
    BY DEF BInv, Resident, Chained
  <2>2. PICK q \in [1..m -> DOMAIN entries] : Once(q, m) /\ Chain(q, m)
    BY <2>1
  <2>3. m = n
    BY <2>2, ChainCounts
  <2> QED BY <2>2, <2>3
<1>4. ASSUME NEW r \in Readers, reader[r].pc \in {"io", "hold"}
      PROVE  /\ reader[r].index \notin DOMAIN entries
             /\ Size[reader[r].index] <= Limit(r) => bytes + Size[reader[r].index] <= Limit(r)
  BY <1>4 DEF BInv, PageFits
<1> QED BY <1>2, <1>3, <1>4 DEF Accounted, BInv, Resident

(* Whatever is read, cancelled or fails, the slabs are one chain, bytes is *)
(* their sum and within the limit, and the slab a reader has in hand is    *)
(* nobody else's and fits its page beside the others.                      *)
THEOREM SlabsAccounted == Spec => []Accounted
<1>1. Init => BInv
  BY InitAccounts
<1>2. IInv /\ BInv /\ [Next]_vars => BInv'
  BY StepAccounts
<1>3. IInv /\ BInv => Accounted
  BY IsAccounted
<1> QED BY <1>1, <1>2, <1>3, Invariant, PTL DEF Spec
=============================================================================
