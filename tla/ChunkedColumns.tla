--------------------------- MODULE ChunkedColumns ---------------------------
(* Range reads of a chunked column artifact (chunked_columns.rs): several   *)
(* host threads read under one lock of resident slabs, while any thread    *)
(* may raise the generation watermark that makes older reads give up.      *)
(* read_chart reads whole pages under the lock and lets go of it between   *)
(* them; read_range and read_range_page are a chart of a single page.      *)
EXTENDS Naturals, Sequences, FiniteSets, Functions

CONSTANTS
    Readers,        \* threads that read
    Size,           \* bytes of each chunk
    ResidentLimit,  \* RESIDENT_LIMIT
    Requests,       \* what is asked for: [first, end, pruned, budget, page]
    MaxGeneration,  \* bound: the newest generation
    None

Chunks == DOMAIN Size

ASSUME SizesAssumption == Size \in Seq(Nat \ {0}) /\ ResidentLimit \in Nat /\ MaxGeneration \in Nat
ASSUME RequestsAssumption == \A q \in Requests :
    q.first \in Chunks /\ q.end \in q.first..(Len(Size) + 1) /\ q.pruned \subseteq Chunks
        /\ q.budget \in Nat /\ q.page \in 1..q.budget
ASSUME NoneAssumption == None \notin Chunks /\ None \notin Readers /\ None \notin Requests

VARIABLES
    watermark,  \* current_generation
    lock,       \* who holds the lock of resident slabs
    entries,    \* resident slabs, linked from the oldest to the newest
    oldest, newest, bytes,
    reader      \* what each thread is doing

residentVars == <<entries, oldest, newest, bytes>>
vars == <<watermark, lock, residentVars, reader>>

Idle(outcome, g) ==
    [pc |-> "idle", req |-> None, gen |-> g, index |-> 0, admitted |-> 0, rows |-> <<>>,
     outcome |-> outcome]

Current(r) == watermark = reader[r].gen

LesserOf(a, b) == IF a < b THEN a ELSE b
Limit(r) == LesserOf(reader[r].req.page, ResidentLimit)

(* Chunks the zone maps select, and their bytes.                           *)
Selected(q) == {c \in q.first..(q.end - 1) : c \notin q.pruned}
BytesOf(S) == SumFunctionOnSet(Size, S)

Goto(r, pc) == reader' = [reader EXCEPT ![r].pc = pc]

(* A read is over; a slab it had in hand is dropped with it.               *)
Leave(r, outcome) ==
    /\ reader' = [reader EXCEPT ![r] = Idle(outcome, @.gen)]
    /\ lock' = IF lock = r THEN None ELSE lock
-----------------------------------------------------------------------------
\* Mutant: the watermark is the last generation a host asked for.
SetGenerationLast(g) ==
    /\ g # watermark /\ watermark' = g
    /\ UNCHANGED <<lock, residentVars, reader>>

(* set_generation: a watermark, raised without the lock.                   *)
SetGeneration(g) ==
    /\ g > watermark /\ watermark' = g
    /\ UNCHANGED <<lock, residentVars, reader>>

(* The whole view is admitted before anything is read.  A read that is     *)
(* refused or already superseded here changes nothing.                     *)
Begin(r, q, g) ==
    /\ reader[r].pc = "idle" /\ BytesOf(Selected(q)) <= q.budget /\ watermark = g
    /\ reader' = [reader EXCEPT ![r] = [pc |-> "call", req |-> q, gen |-> g, index |-> q.first,
                     admitted |-> 0, rows |-> <<>>, outcome |-> "none"]]
    /\ UNCHANGED <<watermark, lock, residentVars>>

(* read_range_page: check, wait for the lock, check again.                 *)
Call(r) ==
    /\ reader[r].pc = "call"
    /\ IF Current(r) THEN Goto(r, "waiting") /\ UNCHANGED lock ELSE Leave(r, "cancelled")
    /\ UNCHANGED <<watermark, residentVars>>

\* Mutant: a reader that got the lock is not checked again before it trims.
LockUnchecked(r) ==
    /\ reader[r].pc = "waiting" /\ lock = None
    /\ lock' = r /\ reader' = [reader EXCEPT ![r].pc = "enter", ![r].admitted = 0]
    /\ UNCHANGED <<watermark, residentVars>>

Lock(r) ==
    /\ reader[r].pc = "waiting" /\ lock = None
    /\ IF Current(r) THEN lock' = r /\ reader' = [reader EXCEPT ![r].pc = "enter", ![r].admitted = 0]
       ELSE Leave(r, "cancelled")
    /\ UNCHANGED <<watermark, residentVars>>
-----------------------------------------------------------------------------
(* ResidentChunks: take unlinks a slab, put links one as the newest.  A    *)
(* slab remembers here which generation used it last.                      *)
\* Mutant: the slab after the one taken keeps its way back.
UnlinkForward(id) ==
    [c \in DOMAIN entries \ {id} |->
        IF c = entries[id].previous THEN [entries[c] EXCEPT !.next = entries[id].next] ELSE entries[c]]

Unlink(id) ==
    [c \in DOMAIN entries \ {id} |->
        CASE c = entries[id].previous -> [entries[c] EXCEPT !.next = entries[id].next]
          [] c = entries[id].next -> [entries[c] EXCEPT !.previous = entries[id].previous]
          [] OTHER -> entries[c]]

Remove(id) ==
    /\ entries' = Unlink(id) /\ bytes' = bytes - Size[id]
    /\ oldest' = IF entries[id].previous = None THEN entries[id].next ELSE oldest
    /\ newest' = IF entries[id].next = None THEN entries[id].previous ELSE newest

Put(id, g) ==
    /\ entries' = [c \in DOMAIN entries \cup {id} |->
          CASE c = id -> [previous |-> newest, next |-> None, by |-> g]
            [] c # id /\ c = newest -> [entries[c] EXCEPT !.next = id]
            [] OTHER -> entries[c]]
    /\ oldest' = IF newest = None THEN id ELSE oldest
    /\ newest' = id /\ bytes' = bytes + Size[id]

(* What resident slabs are trimmed to: the limit of the page and, before   *)
(* a miss is read, that without its bytes (saturating).                    *)
Room(r) ==
    LET size == Size[reader[r].index] IN
    IF reader[r].pc = "enter" THEN Limit(r)
    ELSE IF size > Limit(r) THEN 0 ELSE Limit(r) - size

(* trim: the oldest slab goes until there is room.                         *)
Trim(r) ==
    /\ reader[r].pc \in {"enter", "room"}
    /\ IF bytes > Room(r)
       THEN Remove(oldest) /\ UNCHANGED reader
       ELSE Goto(r, IF reader[r].pc = "enter" THEN "chunk" ELSE "io") /\ UNCHANGED residentVars
    /\ UNCHANGED <<watermark, lock>>

(* The head of the page's loop: superseded, past the end, pruned, past the *)
(* bytes of the page, or a chunk to read.                                  *)
NextChunk(r) ==
    LET d == reader[r]  q == d.req IN
    /\ d.pc = "chunk"
    /\ \/ d.index >= q.end /\ Goto(r, "publish") /\ UNCHANGED lock
       \/ d.index < q.end /\ ~Current(r) /\ Leave(r, "cancelled")
       \/ /\ d.index < q.end /\ Current(r) /\ d.index \in q.pruned
          /\ reader' = [reader EXCEPT ![r].index = @ + 1] /\ UNCHANGED lock
       \/ /\ d.index < q.end /\ Current(r) /\ d.index \notin q.pruned
          /\ IF d.admitted + Size[d.index] <= q.page
             THEN /\ reader' = [reader EXCEPT ![r].pc = "take", ![r].admitted = @ + Size[d.index]]
                  /\ UNCHANGED lock
             ELSE IF d.admitted = 0 THEN Leave(r, "refused")
             ELSE Goto(r, "publish") /\ UNCHANGED lock
    /\ UNCHANGED <<watermark, residentVars>>

(* read_chunk: a resident slab is taken out and is the reader's alone; a   *)
(* missing one has room made for it.                                       *)
Take(r) ==
    LET id == reader[r].index IN
    /\ reader[r].pc = "take"
    /\ IF ~Current(r) THEN Leave(r, "cancelled") /\ UNCHANGED residentVars
       ELSE /\ UNCHANGED lock
            /\ IF id \in DOMAIN entries THEN Remove(id) /\ Goto(r, "hold")
               ELSE Goto(r, "room") /\ UNCHANGED residentVars
    /\ UNCHANGED watermark

(* The positioned read fails, or the bytes disagree with their zone map.   *)
ReadFails(r) ==
    /\ reader[r].pc = "io" /\ Leave(r, "failed")
    /\ UNCHANGED <<watermark, residentVars>>

(* The rows of a slab are copied out and the slab becomes the newest, or   *)
(* is dropped: it is too large to keep, or the read is superseded.         *)
Emit(r) ==
    LET id == reader[r].index IN
    /\ reader[r].pc \in {"io", "hold"}
    /\ IF ~Current(r) THEN Leave(r, "cancelled") /\ UNCHANGED residentVars
       ELSE /\ reader' = [reader EXCEPT ![r].pc = "chunk", ![r].rows = Append(@, id),
                                        ![r].index = @ + 1]
            /\ IF Size[id] <= Limit(r) THEN Put(id, reader[r].gen) ELSE UNCHANGED residentVars
            /\ UNCHANGED lock
    /\ UNCHANGED watermark

\* Mutant: the lock is kept from page to page.
PublishLocked(r) ==
    /\ reader[r].pc = "publish"
    /\ IF ~Current(r) THEN Leave(r, "cancelled")
       ELSE Goto(r, IF reader[r].index >= reader[r].req.end THEN "final" ELSE "call") /\ UNCHANGED lock
    /\ UNCHANGED <<watermark, residentVars>>

(* The end of a page, and of the chart when it was the last one.           *)
Publish(r) ==
    /\ reader[r].pc = "publish"
    /\ IF ~Current(r) THEN Leave(r, "cancelled")
       ELSE /\ lock' = None
            /\ Goto(r, IF reader[r].index >= reader[r].req.end THEN "final" ELSE "call")
    /\ UNCHANGED <<watermark, residentVars>>

Final(r) ==
    /\ reader[r].pc = "final" /\ Leave(r, IF Current(r) THEN "ok" ELSE "cancelled")
    /\ UNCHANGED <<watermark, residentVars>>
-----------------------------------------------------------------------------
Init ==
    /\ watermark = 0 /\ lock = None
    /\ entries = <<>> /\ oldest = None /\ newest = None /\ bytes = 0
    /\ reader = [r \in Readers |-> Idle("none", 0)]

Read(r) ==
    \/ Call(r) \/ Lock(r) \/ Trim(r) \/ NextChunk(r) \/ Take(r) \/ ReadFails(r) \/ Emit(r)
    \/ Publish(r) \/ Final(r)

Next ==
    \/ \E g \in 1..MaxGeneration : SetGeneration(g)
    \/ \E r \in Readers : Read(r) \/ \E q \in Requests, g \in 0..MaxGeneration : Begin(r, q, g)

(* Threads run and the lock is handed on; nobody need read or supersede.   *)
Spec == Init /\ [][Next]_vars
FairSpec == Spec /\ \A r \in Readers : WF_vars(Read(r)) /\ SF_vars(Lock(r))
-----------------------------------------------------------------------------
(* Type invariant.                                                         *)
ColumnsTypeOK ==
    /\ watermark \in 0..MaxGeneration /\ lock \in Readers \cup {None}
    /\ DOMAIN entries \subseteq Chunks /\ bytes \in Nat
    /\ \A r \in Readers : LET d == reader[r] IN
        /\ d.pc \in {"idle", "call", "waiting", "enter", "chunk", "take", "room", "io", "hold",
                     "publish", "final"}
        /\ d.pc = "idle" <=> d.req = None
        /\ d.pc \in {"enter", "chunk", "take", "room", "io", "hold", "publish"} <=> lock = r
        /\ d.gen \in 0..MaxGeneration
        /\ d.outcome \in {"none", "ok", "cancelled", "failed", "refused"}

(* The links form one chain over all n resident slabs, the same both ways. *)
Chain(q, n) ==
    /\ {q[i] : i \in 1..n} = DOMAIN entries
    /\ oldest = (IF n = 0 THEN None ELSE q[1]) /\ newest = (IF n = 0 THEN None ELSE q[n])
    /\ \A i \in 1..n :
        /\ entries[q[i]].previous = IF i = 1 THEN None ELSE q[i - 1]
        /\ entries[q[i]].next = IF i = n THEN None ELSE q[i + 1]

(* "Serializes slab ownership and accounting, including in-flight reads":  *)
(* whatever reads were cancelled, failed or hit, the slabs form one chain, *)
(* bytes is their sum and within the limit, and with a slab in hand that   *)
(* is to be kept within the limit of the page that reads it.               *)
Accounted ==
    /\ ColumnsTypeOK
    /\ LET n == Cardinality(DOMAIN entries) IN \E q \in [1..n -> DOMAIN entries] : Chain(q, n)
    /\ bytes = BytesOf(DOMAIN entries) /\ bytes <= ResidentLimit
    /\ \A r \in Readers : reader[r].pc \in {"io", "hold"} =>
        LET id == reader[r].index IN
        id \notin DOMAIN entries /\ (Size[id] <= Limit(r) => bytes + Size[id] <= Limit(r))

(* "A superseded waiter cannot evict current generation residency": a read *)
(* never takes out a slab that a read of a newer generation used last.     *)
NewerSlabsSurvive ==
    [][\A c \in DOMAIN entries \ DOMAIN entries' :
          lock # None /\ entries[c].by <= reader[lock].gen]_vars

InOrder(q, S) == {q[i] : i \in DOMAIN q} = S /\ \A i, k \in DOMAIN q : i < k => q[i] < q[k]

(* A read that answers has every selected chunk once and in order, over    *)
(* however many pages and evictions; and at the check that lets it answer  *)
(* no read of a newer generation has answered yet, in whatever order the   *)
(* hosts raise the watermark.                                              *)
Answers ==
    [][\A r \in Readers : reader[r].pc = "final" /\ reader'[r].outcome = "ok" =>
          /\ InOrder(reader[r].rows, Selected(reader[r].req))
          /\ \A s \in Readers : reader[s].outcome = "ok" => reader[s].gen <= reader[r].gen]_vars

(* Every read ends, with rows or with an error.                            *)
Returns == \A r \in Readers : reader[r].pc # "idle" ~> reader[r].pc = "idle"
=============================================================================
