----------------------------- MODULE GeoSession -----------------------------
(* The geographic source sessions of a process (geo_source_session.rs) and *)
(* the hosts that do their reads.  A session validates its source chunk by *)
(* chunk, then runs one job at a time over the chunks its query selects,   *)
(* in one or two passes.  It never reads: it issues a ticket, the host     *)
(* reads, supplies the bytes, drops its buffers and releases the ticket.   *)
(* All sessions share one ledger of bytes; every command runs under the    *)
(* registry's mutex, so it is one step here.                               *)
EXTENDS Naturals, Sequences, FiniteSets, Functions

CONSTANTS
    Sessions,
    Chunks,             \* chunks of a source
    Snapshots,          \* intents a host may begin
    RevisionOf, Selects,\* the revision of a snapshot; the chunks its query selects
    MaxSequence,        \* bound: largest sequence begun
    MaxRetired,         \* MAX_RETIRED_READS
    ProcessLimit,       \* MAX_PROCESSOR_BYTES
    LocalLimit,         \* QueryBudget::processor_bytes
    CreateBytes, BuildBytes, SourceBytes, Overhead, \* metadata: preflight, validating, retained, none
    JobBytes, ResultBytes, ReadBytes,   \* a job, a published result, one read
    None

ASSUME SizesAssumption ==
    /\ {Chunks, MaxSequence, MaxRetired, ProcessLimit, LocalLimit, CreateBytes, BuildBytes,
        SourceBytes, Overhead, JobBytes, ResultBytes, ReadBytes} \subseteq Nat
    /\ Overhead <= SourceBytes /\ SourceBytes <= BuildBytes /\ ResultBytes <= JobBytes
    /\ BuildBytes <= CreateBytes /\ CreateBytes <= LocalLimit
ASSUME SessionsAssumption == IsFiniteSet(Sessions)
ASSUME SnapshotsAssumption ==
    /\ RevisionOf \in [Snapshots -> Nat] /\ Selects \in [Snapshots -> SUBSET (1..Chunks)]

(* A job of a sequence, at a chunk of one of its passes, with the chunks it *)
(* has folded in each.                                                     *)
Jobs == [seq : Nat, snapshot : Snapshots, index : Nat, pass : {0, 1}, folded : [{0, 1} -> Seq(Nat)]]

VARIABLES
    sess,       \* the sessions
    ledger,     \* PROCESSOR_BYTES
    held,       \* tickets for which the host has buffers, per session
    closing     \* sessions whose host has asked to dispose of them

vars == <<sess, ledger, held, closing>>

Tickets == [seq : 0..MaxSequence, pass : {0, 1}, chunk : 1..Chunks]
Pendings == [ticket : Tickets, consumed : BOOLEAN]

ASSUME NoneAssumption == None \notin Jobs \cup Snapshots \cup Pendings

Closed == [open |-> FALSE, meta |-> 0, validation |-> None, source |-> FALSE, job |-> None,
           published |-> None, pending |-> None, retired |-> {}, lastSequence |-> 0,
           cancelledThrough |-> 0, lastSnapshot |-> None, disposed |-> FALSE]

Lease(part, bytes) == IF part = None THEN 0 ELSE bytes

LocalBytes(x) ==
    x.meta + Lease(x.job, JobBytes) + Lease(x.published, ResultBytes)
        + Lease(x.pending, ReadBytes) + ReadBytes * Cardinality(x.retired)

Outstanding(x) == x.pending # None \/ x.retired # {}

Admits(x, bytes) == LocalBytes(x) + bytes <= LocalLimit /\ ledger + bytes <= ProcessLimit
-----------------------------------------------------------------------------
(* create: its preflight reserve is admitted, then shrinks to what the      *)
(* validation needs; the source is untrusted until every chunk was read.   *)
Create(s) ==
    /\ ~sess[s].open /\ ~sess[s].disposed
    /\ ledger + CreateBytes <= ProcessLimit
    /\ ledger' = ledger + BuildBytes
    /\ sess' = [sess EXCEPT ![s] = [Closed EXCEPT !.open = TRUE, !.meta = BuildBytes, !.validation = 1]]
    /\ UNCHANGED <<held, closing>>

CanRetire(x) == x.pending = None \/ Cardinality(x.retired) < MaxRetired

\* Mutant: the read of superseded work is forgotten with it.
RetirePendingForgets(x) == [x EXCEPT !.pending = None]

(* retire_pending: the read leaves the job it was for, its bytes stay      *)
(* charged.                                                                *)
RetirePending(x) ==
    IF x.pending = None THEN x
    ELSE [x EXCEPT !.pending = None, !.retired = @ \cup {x.pending.ticket}]

(* GeoOperationSnapshot::precedes.                                         *)
Precedes(new, old) ==
    RevisionOf[new] < RevisionOf[old] \/ (RevisionOf[new] = RevisionOf[old] /\ new # old)

NewJob(n, snap) ==
    [seq |-> n, snapshot |-> snap, index |-> 1, pass |-> 0, folded |-> [p \in {0, 1} |-> <<>>]]

Fresh(x, n) == n > x.lastSequence /\ n > x.cancelledThrough

(* begin: everything is refused before anything changes; then the pending  *)
(* read is retired and the new job takes the old one's place.              *)
Begin(s, n, snap) ==
    LET x == sess[s] IN
    /\ x.open /\ ~x.disposed /\ s \notin closing /\ Fresh(x, n) /\ x.source
    /\ x.lastSnapshot # None => ~Precedes(snap, x.lastSnapshot)
    /\ CanRetire(x) /\ Admits(x, JobBytes)
    /\ ledger' = ledger + JobBytes - Lease(x.job, JobBytes)
    /\ sess' = [sess EXCEPT ![s] = [RetirePending(x) EXCEPT !.job = NewJob(n, snap),
                                    !.lastSequence = n, !.lastSnapshot = snap]]
    /\ UNCHANGED <<held, closing>>

(* issue_read, for a session in state x: the host gets the ticket with     *)
(* its whole peak admitted, or ResourceLimit and x as it is.               *)
Issue(s, x, seq, pass, chunk) ==
    LET t == [seq |-> seq, pass |-> pass, chunk |-> chunk] IN
    /\ IF Admits(x, ReadBytes)
       THEN /\ sess' = [sess EXCEPT ![s] = [x EXCEPT !.pending = [ticket |-> t, consumed |-> FALSE]]]
            /\ ledger' = ledger + ReadBytes
            /\ held' = [held EXCEPT ![s] = @ \cup {t}]
       ELSE sess' = [sess EXCEPT ![s] = x] /\ UNCHANGED <<ledger, held>>
    /\ UNCHANGED closing

(* step() has something to do: no read is pending.                         *)
Steps(s) == sess[s].open /\ ~sess[s].disposed /\ s \notin closing /\ sess[s].pending = None

StepValidation(s) ==
    LET x == sess[s] IN
    /\ Steps(s) /\ x.validation # None
    /\ \/ x.validation <= Chunks /\ Issue(s, x, 0, 0, x.validation)
       \/ /\ x.validation = Chunks + 1     \* the manifest agrees with its chunks
          /\ sess' = [sess EXCEPT ![s] = [x EXCEPT !.validation = None, !.source = TRUE,
                                          !.meta = SourceBytes]]
          /\ ledger' = ledger - (x.meta - SourceBytes)
          /\ UNCHANGED <<held, closing>>
       \/ /\ x.validation = Chunks + 1     \* or not
          /\ sess' = [sess EXCEPT ![s] = [x EXCEPT !.validation = None]]
          /\ UNCHANGED <<ledger, held, closing>>

(* Chunks the job still has to read in this pass.                          *)
Left(j) == {c \in Selects[j.snapshot] : c >= j.index}

SecondPass(j) == [j EXCEPT !.pass = 1, !.index = 1]

\* Mutant: the chunks that were skipped are skipped in a copy.
AtNextForgets(j) == j

(* The job at the next chunk it has to read.                               *)
AtNext(j) == [j EXCEPT !.index = CHOOSE c \in Left(j) : \A d \in Left(j) : c <= d]

\* Mutant: a result the processor fails to finish takes the old one with it.
FinishOver(s, x) ==
    \/ /\ sess' = [sess EXCEPT ![s] = [x EXCEPT !.job = None, !.published = x.job]]
       /\ ledger' = ledger - JobBytes + ResultBytes - Lease(x.published, ResultBytes)
    \/ /\ sess' = [sess EXCEPT ![s] = [x EXCEPT !.job = None, !.published = None]]
       /\ ledger' = ledger - JobBytes - Lease(x.published, ResultBytes)

(* The end of a job: a result published in place of the old one, or an     *)
(* error of the processor, which only drops the job.                       *)
Finish(s, x) ==
    \/ /\ sess' = [sess EXCEPT ![s] = [x EXCEPT !.job = None, !.published = x.job]]
       /\ ledger' = ledger - JobBytes + ResultBytes - Lease(x.published, ResultBytes)
    \/ /\ sess' = [sess EXCEPT ![s] = [x EXCEPT !.job = None]]
       /\ ledger' = ledger - JobBytes

(* step(), with a job: a read of the next selected chunk of this pass or,   *)
(* if the LOD asks for it, of the second; or the end.                      *)
StepJob(s) ==
    LET x == sess[s]  j == x.job  again == SecondPass(j)
        Read(k) == Issue(s, [x EXCEPT !.job = k], k.seq, k.pass, k.index) IN
    /\ Steps(s) /\ x.validation = None /\ j # None
    /\ \/ Left(j) # {} /\ Read(AtNext(j))
       \/ Left(j) = {} /\ j.pass = 0 /\ Left(again) # {} /\ Read(AtNext(again))
       \/ /\ Left(j) = {} /\ UNCHANGED <<held, closing>>
          /\ \/ Finish(s, x)
             \/ j.pass = 0 /\ Left(again) = {} /\ Finish(s, [x EXCEPT !.job = again])

(* consume: bytes are authenticated against the ticket.  A chunk is folded *)
(* into the validation or the job it was read for.                         *)
Fold(j, t) == [j EXCEPT !.folded[t.pass] = Append(@, t.chunk), !.index = @ + 1]

Accepts(x, t) ==
    IF t.seq = 0 THEN x.validation # None
    ELSE x.job # None /\ x.job.seq = t.seq /\ x.job.pass = t.pass

(* supply(): a failure ends the work the chunk was read for, and the read  *)
(* stays charged until the host releases it.                               *)
Supply(s) ==
    LET x == sess[s]
        y == [x EXCEPT !.pending.consumed = TRUE]
        t == x.pending.ticket IN
    /\ x.open /\ ~x.disposed /\ x.pending # None /\ ~x.pending.consumed
    /\ \/ /\ Accepts(x, t)
          /\ sess' = [sess EXCEPT ![s] =
                IF t.seq = 0 THEN [y EXCEPT !.validation = @ + 1] ELSE [y EXCEPT !.job = Fold(@, t)]]
          /\ UNCHANGED ledger
       \/ IF t.seq = 0
          THEN sess' = [sess EXCEPT ![s] = [y EXCEPT !.validation = None]] /\ UNCHANGED ledger
          ELSE /\ sess' = [sess EXCEPT ![s] = [y EXCEPT !.job = None]]
               /\ ledger' = ledger - Lease(x.job, JobBytes)
    /\ UNCHANGED <<held, closing>>

(* The host drops its buffers and acknowledges the ticket.  release_read   *)
(* refuses a read that is still wanted.                                    *)
Release(s, t) ==
    LET x == sess[s] IN
    /\ t \in held[s] /\ held' = [held EXCEPT ![s] = @ \ {t}]
    /\ \/ /\ x.pending # None /\ x.pending.ticket = t /\ x.pending.consumed
          /\ sess' = [sess EXCEPT ![s].pending = None]
       \/ t \in x.retired /\ sess' = [sess EXCEPT ![s].retired = @ \ {t}]
    /\ ledger' = ledger - ReadBytes
    /\ UNCHANGED closing

(* cancel(): validation, or the job if it is covered, ends and its read is *)
(* retired; refused as a whole when there is no room for that.             *)
Cancel(s, through) ==
    LET x == sess[s]
        covered == x.job # None /\ x.job.seq <= through
        y == IF x.validation # None
             THEN [RetirePending(x) EXCEPT !.validation = None, !.meta = Overhead]
             ELSE IF covered THEN [RetirePending(x) EXCEPT !.job = None] ELSE x IN
    /\ x.open
    /\ x.validation # None \/ covered => CanRetire(x)
    /\ sess' = [sess EXCEPT ![s] = [y EXCEPT !.cancelledThrough =
                                       IF through > @ THEN through ELSE @]]
    /\ ledger' = ledger - (x.meta - y.meta) - (Lease(x.job, JobBytes) - Lease(y.job, JobBytes))
    /\ UNCHANGED <<held, closing>>

\* Mutant: a session that is disposed already is left as it is.
DisposeOnce(s) ==
    LET x == sess[s]
        y == [RetirePending(x) EXCEPT !.job = None, !.published = None, !.source = FALSE,
                  !.validation = None, !.meta = Overhead, !.disposed = TRUE]
        z == IF Outstanding(y) THEN y ELSE [Closed EXCEPT !.disposed = TRUE] IN
    /\ x.open /\ ~x.disposed /\ closing' = closing \cup {s} /\ UNCHANGED held
    /\ IF CanRetire(x)
       THEN sess' = [sess EXCEPT ![s] = z] /\ ledger' = ledger - (LocalBytes(x) - LocalBytes(z))
       ELSE UNCHANGED <<sess, ledger>>

(* Command 10: dispose(), and the removal of the session if no read is out. *)
(* It is refused when the pending read cannot be retired; the host repeats *)
(* it until the session is gone.                                           *)
Dispose(s) ==
    LET x == sess[s]
        y == [RetirePending(x) EXCEPT !.job = None, !.published = None, !.source = FALSE,
                  !.validation = None, !.meta = Overhead, !.disposed = TRUE]
        z == IF Outstanding(y) THEN y ELSE [Closed EXCEPT !.disposed = TRUE] IN
    /\ x.open /\ closing' = closing \cup {s} /\ UNCHANGED held
    /\ IF CanRetire(x)
       THEN sess' = [sess EXCEPT ![s] = z] /\ ledger' = ledger - (LocalBytes(x) - LocalBytes(z))
       ELSE UNCHANGED <<sess, ledger>>
-----------------------------------------------------------------------------
Init ==
    /\ sess = [s \in Sessions |-> Closed] /\ ledger = 0
    /\ held = [s \in Sessions |-> {}] /\ closing = {}

Next == \E s \in Sessions :
    \/ Create(s) \/ StepValidation(s) \/ StepJob(s) \/ Supply(s) \/ Dispose(s)
    \/ \E n \in 1..MaxSequence, snap \in Snapshots : Begin(s, n, snap)
    \/ \E through \in 0..MaxSequence : Cancel(s, through)
    \/ \E t \in held[s] : Release(s, t)

(* A host gives back the buffers of reads that are over, and repeats the   *)
(* command that disposes of a session.  Nobody need step, begin or supply. *)
Spec == Init /\ [][Next]_vars
FairSpec ==
    /\ Spec
    /\ \A s \in Sessions : WF_vars(s \in closing /\ Dispose(s)) /\ WF_vars(\E t \in held[s] : Release(s, t))
-----------------------------------------------------------------------------
JobType(j) == j \in Jobs /\ j.seq \in 1..MaxSequence /\ j.index \in 1..(Chunks + 1)

(* Type invariant.                                                         *)
SessionTypeOK ==
    /\ ledger \in Nat /\ held \in [Sessions -> SUBSET Tickets] /\ closing \subseteq Sessions
    /\ \A s \in Sessions : LET x == sess[s] IN
        /\ x.open \in BOOLEAN /\ x.disposed \in BOOLEAN /\ x.source \in BOOLEAN
        /\ x.meta \in {0, BuildBytes, SourceBytes, Overhead}
        /\ x.validation # None => x.validation \in 1..(Chunks + 1)
        /\ x.job # None => JobType(x.job)
        /\ x.published # None => JobType(x.published)
        /\ x.pending # None => x.pending \in Pendings
        /\ x.retired \subseteq Tickets /\ Cardinality(x.retired) <= MaxRetired

(* A read the host has yet to supply is the next one of the work in        *)
(* progress: "stale supply cannot parse, clear or advance the newer job".  *)
TicketIsCurrent ==
    \A s \in Sessions : LET x == sess[s] IN
        x.pending # None /\ ~x.pending.consumed =>
            LET t == x.pending.ticket IN
            IF t.seq = 0 THEN x.validation = t.chunk /\ x.job = None
            ELSE x.job # None /\ x.job.seq = t.seq /\ x.job.pass = t.pass /\ t.chunk >= x.job.index

(* The ledger is the sum of what the sessions hold and within the process  *)
(* limit, each session is within its own; and every buffer a host has for  *)
(* a read, superseded, cancelled or disposed of, is still charged.         *)
Bytes == [s \in Sessions |-> LocalBytes(sess[s])]

Charged ==
    /\ ledger = SumFunctionOnSet(Bytes, Sessions) /\ ledger <= ProcessLimit
    /\ \A s \in Sessions : LET x == sess[s] IN
        /\ LocalBytes(x) <= LocalLimit
        /\ held[s] = x.retired \cup (IF x.pending = None THEN {} ELSE {x.pending.ticket})

(* Tickets and bytes belong to the work they were issued for.              *)
Consistent == SessionTypeOK /\ TicketIsCurrent /\ Charged

Ordered(q, S) == /\ {q[i] : i \in DOMAIN q} = S
                 /\ \A i, k \in DOMAIN q : i < k => q[i] < q[k]

(* A published result folded every chunk its query selects, once and in    *)
(* order, in each of its passes, whatever was superseded, cancelled or     *)
(* refused in between.                                                     *)
PublishedWhole ==
    \A s \in Sessions : sess[s].published # None =>
        LET p == sess[s].published IN
        /\ Ordered(p.folded[0], Selects[p.snapshot])
        /\ Ordered(p.folded[1], IF p.pass = 1 THEN Selects[p.snapshot] ELSE {})

(* "The last successful result survives failed/cancelled successor jobs":  *)
(* until it is disposed of it gives way only to one of a later sequence    *)
(* whose snapshot is not older.                                            *)
ResultSurvives ==
    [][\A s \in Sessions : LET p == sess[s].published  q == sess'[s].published IN
          p # None /\ q # p =>
            \/ sess'[s].disposed
            \/ q # None /\ q.seq > p.seq /\ q.seq > sess[s].cancelledThrough
                  /\ ~Precedes(q.snapshot, p.snapshot)]_vars

(* A host that wants to be rid of a session is, and its bytes come back,   *)
(* also when the list of retired reads is full at first.                   *)
Drains == \A s \in Sessions : s \in closing ~> ~sess[s].open /\ held[s] = {}
=============================================================================
