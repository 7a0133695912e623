------------------------------ MODULE GeoProofs ------------------------------
(* Theorems about the geographic sources and their allocations.            *)
(*                                                                         *)
(* GeoSession, for any sessions, snapshots, chunks, limits and sizes:      *)
(* tickets belong to the work in progress and every byte is charged, a     *)
(* published result is whole, and it gives way to a successor only.        *)
(*                                                                         *)
(* AllocationReceipts, for any issuers, nonces and slots: a nonce is       *)
(* executed once and nothing that was allocated is orphaned.               *)
(*                                                                         *)
(* GeoTileCache, for any caches, views, keys, leases and limits: every     *)
(* byte is charged once and under its ceilings, what a view shows is       *)
(* there, and a late read makes nothing resident.                          *)
EXTENDS GeoSession, AllocationReceipts, GeoTileCache, Sums

Reads == [seq : Nat, pass : {0, 1}, chunk : Nat]

Fields == {"open", "meta", "validation", "source", "job", "published", "pending", "retired",
           "lastSequence", "cancelledThrough", "lastSnapshot", "disposed"}

ReadShape(p) == p = [f \in {"ticket", "consumed"} |-> p[f]]
Shape(x) == x = [f \in Fields |-> x[f]]

(* Work is for the last intent begun, and what was published for an older. *)
Latest(x) ==
    /\ x.lastSequence \in Nat /\ x.cancelledThrough \in Nat
    /\ x.job # None => /\ x.job.seq = x.lastSequence /\ x.job.snapshot = x.lastSnapshot
                       /\ x.job.seq > x.cancelledThrough
    /\ x.published # None => /\ x.lastSnapshot # None /\ x.published.seq <= x.lastSequence
                             /\ ~Precedes(x.lastSnapshot, x.published.snapshot)
                             /\ x.job # None => x.published.seq < x.job.seq

Typed(x) ==
    /\ x.job # None => x.job \in Jobs
    /\ x.published # None => x.published \in Jobs
    /\ x.lastSnapshot # None => x.lastSnapshot \in Snapshots
    /\ x.validation # None => x.validation \in Nat
    /\ x.pending # None => /\ ReadShape(x.pending)
                           /\ x.pending.ticket \in Reads
    /\ ~x.open => x.published = None /\ x.job = None

(* A source is trusted only once its validation is over, and only then     *)
(* queried.                                                                *)
Staged(x) == x.source \/ x.job # None => x.validation = None

(* A read nobody supplied is the next chunk of the work in progress.       *)
Current(x) ==
    x.pending # None /\ ~x.pending.consumed =>
        LET t == x.pending.ticket IN
        IF t.seq = 0 THEN x.validation = t.chunk /\ x.job = None
        ELSE /\ x.job # None /\ x.job.seq = t.seq /\ x.job.pass = t.pass /\ x.job.index = t.chunk
             /\ t.chunk \in Selects[x.job.snapshot]

(* What a job has folded so far, in its first pass and in its second.      *)
Before(j) == {c \in Selects[j.snapshot] : c < j.index}
Folding(j) ==
    IF j.pass = 0 THEN Ordered(j.folded[0], Before(j)) /\ Ordered(j.folded[1], {})
    ELSE Ordered(j.folded[0], Selects[j.snapshot]) /\ Ordered(j.folded[1], Before(j))

Whole(p) ==
    /\ Ordered(p.folded[0], Selects[p.snapshot])
    /\ Ordered(p.folded[1], IF p.pass = 1 THEN Selects[p.snapshot] ELSE {})

SInv(x) ==
    /\ Shape(x) /\ Latest(x) /\ Typed(x) /\ Staged(x) /\ Current(x)
    /\ x.job # None => Folding(x.job)
    /\ x.published # None => Whole(x.published)

(* What becomes of a published result in one step of its session.          *)
Survives(x, y) ==
    x.published # None /\ y.published # x.published =>
        \/ y.disposed
        \/ y.published # None /\ y.published.seq > x.published.seq
              /\ y.published.seq > x.cancelledThrough
              /\ ~Precedes(y.published.snapshot, x.published.snapshot)

Keeps(x, y) == SInv(y) /\ Survives(x, y)

IInv == sess = [s \in Sessions |-> sess[s]] /\ \A s \in Sessions : SInv(sess[s])
-----------------------------------------------------------------------------
LEMMA PrecedesChains ==
    ASSUME NEW a \in Snapshots, NEW b \in Snapshots, NEW c \in Snapshots,
           ~Precedes(a, b), ~Precedes(b, c)
    PROVE  ~Precedes(a, c)
<1>1. RevisionOf[a] \in Nat /\ RevisionOf[b] \in Nat /\ RevisionOf[c] \in Nat
  BY SnapshotsAssumption
<1>2. QED
  BY <1>1 DEF Precedes

LEMMA ClosedKeeps == SInv(Closed)
<1>1. /\ Shape(Closed) /\ Closed.job = None /\ Closed.published = None /\ Closed.pending = None
      /\ Closed.lastSequence = 0 /\ Closed.cancelledThrough = 0 /\ Closed.source = FALSE
      /\ Closed.validation = None /\ Closed.lastSnapshot = None
  BY DEF Closed, Shape, Fields
<1>2. QED
  BY <1>1 DEF SInv, Latest, Typed, Staged, Current

LEMMA CreateKeeps ==
    ASSUME NEW x, SInv(x), ~x.open
    PROVE  Keeps(x, [Closed EXCEPT !.open = TRUE, !.meta = BuildBytes, !.validation = 1])
<1> DEFINE y == [Closed EXCEPT !.open = TRUE, !.meta = BuildBytes, !.validation = 1]
<1>1. /\ Shape(y) /\ y.job = None /\ y.published = None /\ y.pending = None
      /\ y.lastSequence = 0 /\ y.cancelledThrough = 0 /\ y.source = FALSE
      /\ y.validation = 1 /\ y.lastSnapshot = None
  BY DEF Closed, Shape, Fields
<1> HIDE DEF y
<1>2. SInv(y)
  BY <1>1 DEF SInv, Latest, Typed, Staged, Current
<1>3. Survives(x, y)
  BY DEF SInv, Typed, Survives
<1>4. QED
  BY <1>2, <1>3 DEF Keeps, y

LEMMA Retired ==
    ASSUME NEW x, SInv(x)
    PROVE  LET y == RetirePending(x) IN
           /\ Shape(y) /\ y.pending = None
           /\ y.open = x.open /\ y.meta = x.meta /\ y.validation = x.validation
           /\ y.source = x.source /\ y.job = x.job /\ y.published = x.published
           /\ y.lastSequence = x.lastSequence /\ y.cancelledThrough = x.cancelledThrough
           /\ y.lastSnapshot = x.lastSnapshot /\ y.disposed = x.disposed
BY DEF RetirePending, SInv, Shape, Fields

LEMMA BeginKeeps ==
    ASSUME NEW x, SInv(x), NEW n \in Nat, NEW snap \in Snapshots, x.open, x.source, Fresh(x, n),
           x.lastSnapshot # None => ~Precedes(snap, x.lastSnapshot)
    PROVE  Keeps(x, [RetirePending(x) EXCEPT !.job = NewJob(n, snap), !.lastSequence = n,
                                             !.lastSnapshot = snap])
<1> DEFINE w == RetirePending(x)
           j == NewJob(n, snap)
           y == [w EXCEPT !.job = j, !.lastSequence = n, !.lastSnapshot = snap]
<1>1. /\ Shape(w) /\ w.pending = None /\ w.validation = x.validation /\ w.open = x.open
      /\ w.source = x.source /\ w.published = x.published /\ w.cancelledThrough = x.cancelledThrough
  BY Retired
<1> HIDE DEF w
<1>2. /\ Shape(y) /\ y.pending = None /\ y.validation = x.validation /\ y.open = x.open
      /\ y.source = x.source /\ y.published = x.published /\ y.cancelledThrough = x.cancelledThrough
      /\ y.job = j /\ y.lastSequence = n /\ y.lastSnapshot = snap
  BY <1>1 DEF Shape, Fields
<1>3. /\ j \in Jobs /\ j.seq = n /\ j.snapshot = snap /\ j.index = 1 /\ j.pass = 0
      /\ j.folded[0] = <<>> /\ j.folded[1] = <<>>
  BY DEF NewJob, Jobs
<1> HIDE DEF y, j
<1>4. Latest(y)
  <2>1. n > x.lastSequence /\ n > x.cancelledThrough
    BY DEF Fresh
  <2>2. x.published # None => ~Precedes(snap, x.published.snapshot)
    BY PrecedesChains DEF SInv, Latest, Typed, Jobs
  <2>3. x.published # None => x.published.seq \in Nat
    BY DEF SInv, Typed, Jobs
  <2>4. QED
    BY <1>2, <1>3, <2>1, <2>2, <2>3, NoneAssumption DEF SInv, Latest
<1>5. Folding(j)
  <2>1. Before(j) = {}
    BY <1>3, SnapshotsAssumption DEF Before
  <2>2. Ordered(<<>>, {})
    BY DEF Ordered
  <2>3. QED
    BY <1>3, <2>1, <2>2 DEF Folding
<1>6. Typed(y) /\ Staged(y) /\ Current(y)
  BY <1>2, <1>3 DEF SInv, Typed, Staged, Current
<1>7. Survives(x, y)
  BY <1>2 DEF Survives
<1>8. QED
  BY <1>2, <1>4, <1>5, <1>6, <1>7 DEF Keeps, SInv, y, w, j
-----------------------------------------------------------------------------
(* Reads are issued for a session whose job is where Current wants it.     *)
LEMMA IssueKeeps ==
    ASSUME NEW x, SInv(x), x.pending = None, NEW t \in Reads,
           t.seq = 0 => x.validation = t.chunk /\ x.job = None,
           t.seq # 0 => /\ x.job # None /\ x.job.seq = t.seq /\ x.job.pass = t.pass
                        /\ x.job.index = t.chunk /\ t.chunk \in Selects[x.job.snapshot]
    PROVE  SInv([x EXCEPT !.pending = [ticket |-> t, consumed |-> FALSE]])
<1> DEFINE p == [ticket |-> t, consumed |-> FALSE]
           y == [x EXCEPT !.pending = p]
<1>1. p.ticket = t /\ ReadShape(p)
  BY DEF ReadShape
<1> HIDE DEF p
<1>2. /\ Shape(y) /\ y.pending = p /\ y.validation = x.validation /\ y.open = x.open
      /\ y.source = x.source /\ y.published = x.published /\ y.cancelledThrough = x.cancelledThrough
      /\ y.job = x.job /\ y.lastSequence = x.lastSequence /\ y.lastSnapshot = x.lastSnapshot
  BY DEF SInv, Shape, Fields
<1> HIDE DEF y
<1>3. Current(y)
  BY <1>1, <1>2 DEF Current
<1>4. Latest(y) /\ Typed(y) /\ Staged(y)
  BY <1>1, <1>2 DEF SInv, Latest, Typed, Staged
<1>5. QED
  BY <1>2, <1>3, <1>4 DEF SInv, y, p

LEMMA IssueIsSafe ==
    ASSUME NEW s \in Sessions, IInv, NEW x, SInv(x), x.pending = None, x.published = sess[s].published,
           NEW seq \in Nat, NEW pass \in {0, 1}, NEW chunk \in Nat,
           seq = 0 => x.validation = chunk /\ x.job = None,
           seq # 0 => /\ x.job # None /\ x.job.seq = seq /\ x.job.pass = pass
                      /\ x.job.index = chunk /\ chunk \in Selects[x.job.snapshot],
           Issue(s, x, seq, pass, chunk)
    PROVE  \E y : sess' = [sess EXCEPT ![s] = y] /\ Keeps(sess[s], y)
<1> DEFINE t == [seq |-> seq, pass |-> pass, chunk |-> chunk]
           y == [x EXCEPT !.pending = [ticket |-> t, consumed |-> FALSE]]
<1>1. t \in Reads /\ t.seq = seq /\ t.pass = pass /\ t.chunk = chunk
  BY DEF Reads
<1>2. sess' = [sess EXCEPT ![s] = y] \/ sess' = [sess EXCEPT ![s] = x]
  BY DEF Issue
<1> HIDE DEF t
<1>3. SInv(y)
  BY <1>1, IssueKeeps
<1>4. y.published = x.published
  BY DEF SInv, Shape, Fields
<1> HIDE DEF y
<1>5. Keeps(sess[s], x) /\ Keeps(sess[s], y)
  BY <1>3, <1>4 DEF Keeps, Survives
<1>6. QED
  BY <1>2, <1>5

LEMMA StepValidationKeeps ==
    ASSUME IInv, NEW s \in Sessions, StepValidation(s)
    PROVE  \E y : sess' = [sess EXCEPT ![s] = y] /\ Keeps(sess[s], y)
<1> DEFINE x == sess[s]
<1>1. SInv(x) /\ x.pending = None /\ x.validation # None /\ x.job = None
  BY DEF IInv, StepValidation, Steps, SInv, Staged
<1> HIDE DEF x
<1>2. CASE x.validation <= Chunks /\ Issue(s, x, 0, 0, x.validation)
  <2>1. x.validation \in Nat
    BY <1>1 DEF SInv, Typed
  <2>2. QED
    BY <1>1, <1>2, <2>1, IssueIsSafe DEF x
<1>3. CASE sess' = [sess EXCEPT ![s] = [x EXCEPT !.validation = None, !.source = TRUE,
                                                 !.meta = SourceBytes]]
  <2> DEFINE y == [x EXCEPT !.validation = None, !.source = TRUE, !.meta = SourceBytes]
  <2>1. /\ Shape(y) /\ y.pending = None /\ y.validation = None /\ y.open = x.open
        /\ y.published = x.published /\ y.cancelledThrough = x.cancelledThrough
        /\ y.job = None /\ y.lastSequence = x.lastSequence /\ y.lastSnapshot = x.lastSnapshot
    BY <1>1 DEF SInv, Shape, Fields
  <2>2. sess' = [sess EXCEPT ![s] = y]
    BY <1>3
  <2> HIDE DEF y
  <2>3. SInv(y) /\ Survives(x, y)
    BY <1>1, <2>1 DEF SInv, Latest, Typed, Staged, Current, Survives
  <2>4. QED
    BY <2>2, <2>3 DEF Keeps, x
<1>4. CASE sess' = [sess EXCEPT ![s] = [x EXCEPT !.validation = None]]
  <2> DEFINE y == [x EXCEPT !.validation = None]
  <2>1. /\ Shape(y) /\ y.pending = None /\ y.validation = None /\ y.open = x.open
        /\ y.published = x.published /\ y.cancelledThrough = x.cancelledThrough
        /\ y.job = None /\ y.lastSequence = x.lastSequence /\ y.lastSnapshot = x.lastSnapshot
    BY <1>1 DEF SInv, Shape, Fields
  <2>2. sess' = [sess EXCEPT ![s] = y]
    BY <1>4
  <2> HIDE DEF y
  <2>3. SInv(y) /\ Survives(x, y)
    BY <1>1, <2>1 DEF SInv, Latest, Typed, Staged, Current, Survives
  <2>4. QED
    BY <2>2, <2>3 DEF Keeps, x
<1>5. QED
  BY <1>2, <1>3, <1>4 DEF StepValidation, x
-----------------------------------------------------------------------------
(* A job moves on within its query, or to its second pass.                 *)
LEMMA JobMoves ==
    ASSUME NEW x, SInv(x), x.pending = None, x.job # None, NEW k \in Jobs, Folding(k),
           k.seq = x.job.seq, k.snapshot = x.job.snapshot
    PROVE  LET y == [x EXCEPT !.job = k] IN
           /\ SInv(y) /\ y.job = k /\ y.pending = None /\ y.published = x.published
           /\ y.cancelledThrough = x.cancelledThrough
<1> DEFINE y == [x EXCEPT !.job = k]
<1>1. /\ Shape(y) /\ y.pending = None /\ y.validation = x.validation /\ y.open = x.open
      /\ y.source = x.source /\ y.published = x.published /\ y.cancelledThrough = x.cancelledThrough
      /\ y.job = k /\ y.lastSequence = x.lastSequence /\ y.lastSnapshot = x.lastSnapshot
  BY DEF SInv, Shape, Fields
<1> HIDE DEF y
<1>2. SInv(y)
  BY <1>1 DEF SInv, Latest, Typed, Staged, Current
<1>3. QED
  BY <1>1, <1>2 DEF y

LEMMA SelectsChunks == ASSUME NEW a \in Snapshots PROVE Selects[a] \subseteq 1..Chunks /\ Chunks \in Nat
BY SnapshotsAssumption, SizesAssumption

LEMMA SecondPassFolds ==
    ASSUME NEW j \in Jobs, Folding(j), j.pass = 0, Left(j) = {}
    PROVE  LET k == SecondPass(j) IN
           /\ k \in Jobs /\ k.seq = j.seq /\ k.snapshot = j.snapshot /\ k.pass = 1 /\ k.index = 1
           /\ Folding(k)
<1> DEFINE k == SecondPass(j)
<1>1. /\ k \in Jobs /\ k.seq = j.seq /\ k.snapshot = j.snapshot /\ k.pass = 1 /\ k.index = 1
      /\ k.folded = j.folded
  BY DEF SecondPass, Jobs
<1> HIDE DEF k
<1>2. j.snapshot \in Snapshots /\ j.index \in Nat
  BY DEF Jobs
<1>3. Before(j) = Selects[j.snapshot]
  BY <1>2, SelectsChunks DEF Before, Left
<1>4. Before(k) = {}
  BY <1>1, <1>2, SelectsChunks DEF Before
<1>5. QED
  BY <1>1, <1>3, <1>4 DEF Folding, k

LEMMA AtNextFolds ==
    ASSUME NEW j \in Jobs, Folding(j), Left(j) # {}
    PROVE  LET k == AtNext(j) IN
           /\ k \in Jobs /\ k.seq = j.seq /\ k.snapshot = j.snapshot /\ k.pass = j.pass
           /\ k.index \in Selects[j.snapshot] /\ Folding(k)
<1> DEFINE next == CHOOSE c \in Left(j) : \A d \in Left(j) : c <= d
           k == AtNext(j)
<1>1. j.snapshot \in Snapshots /\ j.index \in Nat /\ Left(j) \subseteq Nat
  BY SelectsChunks DEF Jobs, Left
<1>2. next \in Left(j) /\ \A d \in Left(j) : next <= d
  <2>1. PICK c \in Left(j) : \A d \in Left(j) : ~ (<<d, c>> \in OpToRel(<, Nat))
    BY <1>1, NatLessThanWellFounded, WFMin
  <2>2. \A a, b \in Nat : a < b => <<a, b>> \in OpToRel(<, Nat)
    BY DEF OpToRel
  <2>3. \A d \in Left(j) : ~ (d < c)
    BY <1>1, <2>1, <2>2
  <2>4. \A d \in Left(j) : c <= d
    BY <1>1, <2>3
  <2>5. QED
    BY <2>4
<1>3. k = [j EXCEPT !.index = next]
  BY DEF AtNext
<1> HIDE DEF next
<1>4. /\ k \in Jobs /\ k.seq = j.seq /\ k.snapshot = j.snapshot /\ k.pass = j.pass
      /\ k.index = next /\ k.folded = j.folded
  BY <1>1, <1>2, <1>3 DEF Jobs
<1> HIDE DEF k
<1>5. next \in Selects[j.snapshot] /\ next >= j.index /\ next \in Nat
  BY <1>1, <1>2 DEF Left
<1>6. \A c \in Selects[j.snapshot] : c < next <=> c < j.index
  <2>1. Selects[j.snapshot] \subseteq Nat
    BY <1>1, SelectsChunks
  <2>2. QED
    BY <1>1, <1>2, <1>5, <2>1 DEF Left
<1>7. Before(k) = Before(j)
  BY <1>4, <1>6 DEF Before
<1>8. QED
  BY <1>4, <1>5, <1>7 DEF Folding, k

(* The end of a job.                                                       *)
LEMMA FinishKeeps ==
    ASSUME NEW x, SInv(x), x.pending = None, x.job # None, Whole(x.job), NEW s, Finish(s, x),
           NEW w, x.published = w.published, x.cancelledThrough = w.cancelledThrough
    PROVE  \E y : sess' = [sess EXCEPT ![s] = y] /\ Keeps(w, y)
<1>1. CASE sess' = [sess EXCEPT ![s] = [x EXCEPT !.job = None, !.published = x.job]]
  <2> DEFINE y == [x EXCEPT !.job = None, !.published = x.job]
  <2>1. /\ Shape(y) /\ y.pending = None /\ y.validation = x.validation /\ y.open = x.open
        /\ y.source = x.source /\ y.published = x.job /\ y.cancelledThrough = x.cancelledThrough
        /\ y.job = None /\ y.lastSequence = x.lastSequence /\ y.lastSnapshot = x.lastSnapshot
    BY DEF SInv, Shape, Fields
  <2>2. sess' = [sess EXCEPT ![s] = y]
    BY <1>1
  <2> HIDE DEF y
  <2>3. /\ x.job \in Jobs /\ x.job.seq = x.lastSequence /\ x.job.snapshot = x.lastSnapshot
        /\ x.lastSequence \in Nat /\ x.lastSnapshot # None /\ x.job.seq > x.cancelledThrough
        /\ RevisionOf[x.lastSnapshot] \in Nat
    BY NoneAssumption, SnapshotsAssumption DEF SInv, Latest, Typed, Jobs
  <2>4. Latest(y)
    <3>1. ~Precedes(x.lastSnapshot, x.lastSnapshot)
      BY <2>3 DEF Precedes
    <3>2. QED
      BY <2>1, <2>3, <3>1 DEF SInv, Latest
  <2>5. x.open
    BY <2>1 DEF SInv, Typed
  <2>6. SInv(y)
    BY <2>1, <2>3, <2>4, <2>5 DEF SInv, Typed, Staged, Current
  <2>7. Survives(w, y)
    BY <2>1, <2>3 DEF SInv, Latest, Survives
  <2>8. QED
    BY <2>2, <2>6, <2>7 DEF Keeps
<1>2. CASE sess' = [sess EXCEPT ![s] = [x EXCEPT !.job = None]]
  <2> DEFINE y == [x EXCEPT !.job = None]
  <2>1. /\ Shape(y) /\ y.pending = None /\ y.validation = x.validation /\ y.open = x.open
        /\ y.source = x.source /\ y.published = x.published /\ y.cancelledThrough = x.cancelledThrough
        /\ y.job = None /\ y.lastSequence = x.lastSequence /\ y.lastSnapshot = x.lastSnapshot
    BY DEF SInv, Shape, Fields
  <2>2. sess' = [sess EXCEPT ![s] = y]
    BY <1>2
  <2> HIDE DEF y
  <2>3. SInv(y) /\ Survives(w, y)
    BY <2>1 DEF SInv, Latest, Typed, Staged, Current, Survives
  <2>4. QED
    BY <2>2, <2>3 DEF Keeps
<1>3. QED
  BY <1>1, <1>2 DEF Finish

LEMMA StepJobKeeps ==
    ASSUME IInv, NEW s \in Sessions, StepJob(s)
    PROVE  \E y : sess' = [sess EXCEPT ![s] = y] /\ Keeps(sess[s], y)
<1> DEFINE x == sess[s]
           j == x.job
           again == SecondPass(j)
           Read(k) == Issue(s, [x EXCEPT !.job = k], k.seq, k.pass, k.index)
<1>1. SInv(x) /\ x.pending = None /\ x.job # None /\ j \in Jobs /\ Folding(j)
  BY DEF IInv, StepJob, Steps, SInv, Typed
<1>2. \/ Left(j) # {} /\ Read(AtNext(j))
      \/ Left(j) = {} /\ j.pass = 0 /\ Left(again) # {} /\ Read(AtNext(again))
      \/ Left(j) = {} /\ Finish(s, x)
      \/ Left(j) = {} /\ j.pass = 0 /\ Left(again) = {} /\ Finish(s, [x EXCEPT !.job = again])
  BY DEF StepJob
<1>3. ASSUME NEW k \in Jobs, Folding(k), k.seq = j.seq, k.snapshot = j.snapshot,
             k.index \in Selects[k.snapshot], Read(k)
      PROVE  \E y : sess' = [sess EXCEPT ![s] = y] /\ Keeps(sess[s], y)
  <2> DEFINE z == [x EXCEPT !.job = k]
  <2>1. SInv(z) /\ z.job = k /\ z.pending = None /\ z.published = x.published
    BY <1>1, <1>3, JobMoves
  <2>2. k.seq \in Nat /\ k.pass \in {0, 1} /\ k.index \in Nat /\ k # None
    BY NoneAssumption DEF Jobs
  <2>3. k.seq # 0
    <3>1. x.job.seq > x.cancelledThrough /\ x.cancelledThrough \in Nat
      BY <1>1 DEF SInv, Latest
    <3>2. QED
      BY <1>3, <3>1
  <2>4. Issue(s, z, k.seq, k.pass, k.index)
    BY <1>3
  <2> HIDE DEF z
  <2>5. QED
    BY <1>3, <2>1, <2>2, <2>3, <2>4, IssueIsSafe
<1>4. CASE Left(j) # {} /\ Read(AtNext(j))
  <2>1. /\ AtNext(j) \in Jobs /\ AtNext(j).seq = j.seq /\ AtNext(j).snapshot = j.snapshot
        /\ AtNext(j).index \in Selects[j.snapshot] /\ Folding(AtNext(j))
    BY <1>1, <1>4, AtNextFolds
  <2>2. QED
    BY <1>3, <1>4, <2>1
<1>5. CASE Left(j) = {} /\ j.pass = 0 /\ Left(again) # {} /\ Read(AtNext(again))
  <2>1. again \in Jobs /\ again.seq = j.seq /\ again.snapshot = j.snapshot /\ Folding(again)
    BY <1>1, <1>5, SecondPassFolds
  <2> HIDE DEF again
  <2>2. /\ AtNext(again) \in Jobs /\ AtNext(again).seq = j.seq /\ AtNext(again).snapshot = j.snapshot
        /\ AtNext(again).index \in Selects[j.snapshot] /\ Folding(AtNext(again))
    BY <1>5, <2>1, AtNextFolds
  <2>3. QED
    BY <1>3, <1>5, <2>2
<1>6. ASSUME NEW k \in Jobs, Folding(k), Left(k) = {} PROVE Whole(k)
  <2>1. k.snapshot \in Snapshots /\ k.index \in Nat /\ k.pass \in {0, 1}
    BY DEF Jobs
  <2>2. Before(k) = Selects[k.snapshot]
    BY <1>6, <2>1, SelectsChunks DEF Before, Left
  <2>3. QED
    BY <1>6, <2>1, <2>2 DEF Folding, Whole
<1>7. CASE Left(j) = {} /\ Finish(s, x)
  <2>1. Whole(x.job)
    BY <1>1, <1>6, <1>7
  <2>2. QED
    BY <1>1, <1>7, <2>1, FinishKeeps
<1>8. CASE Left(j) = {} /\ j.pass = 0 /\ Left(again) = {} /\ Finish(s, [x EXCEPT !.job = again])
  <2> DEFINE z == [x EXCEPT !.job = again]
  <2>1. /\ again \in Jobs /\ again.seq = j.seq /\ again.snapshot = j.snapshot /\ Folding(again)
        /\ again # None
    BY <1>1, <1>8, SecondPassFolds, NoneAssumption
  <2>2. /\ SInv(z) /\ z.job = again /\ z.pending = None /\ z.published = x.published
        /\ z.cancelledThrough = x.cancelledThrough
    BY <1>1, <2>1, JobMoves
  <2>3. Whole(z.job)
    BY <1>6, <1>8, <2>1, <2>2
  <2> HIDE DEF z, again
  <2>4. Finish(s, z)
    BY <1>8 DEF z
  <2>5. QED
    BY <2>1, <2>2, <2>3, <2>4, FinishKeeps
<1>9. QED
  BY <1>2, <1>4, <1>5, <1>7, <1>8
-----------------------------------------------------------------------------
LEMMA AppendOrdered ==
    ASSUME NEW q \in Seq(Nat), NEW S, NEW n \in Nat, Ordered(q, S), \A c \in S : c < n
    PROVE  Ordered(Append(q, n), S \cup {n})
<1> DEFINE p == Append(q, n)
<1>1. /\ p \in Seq(Nat) /\ DOMAIN q = 1..Len(q) /\ DOMAIN p = 1..(Len(q) + 1) /\ Len(q) \in Nat
      /\ \A i \in 1..Len(q) : p[i] = q[i]
      /\ p[Len(q) + 1] = n
  OBVIOUS
<1> HIDE DEF p
<1>2. \A i \in DOMAIN p : i \in DOMAIN q \/ i = Len(q) + 1
  BY <1>1
<1>3. {p[i] : i \in DOMAIN p} = S \cup {n}
  BY <1>1, <1>2 DEF Ordered
<1>4. ASSUME NEW i \in DOMAIN p, NEW k \in DOMAIN p, i < k PROVE p[i] < p[k]
  <2>1. i \in DOMAIN q
    BY <1>1, <1>4
  <2>2. p[i] = q[i] /\ q[i] \in S
    BY <1>1, <2>1 DEF Ordered
  <2>3. CASE k \in DOMAIN q
    BY <1>1, <1>4, <2>1, <2>2, <2>3 DEF Ordered
  <2>4. CASE k = Len(q) + 1
    BY <1>1, <2>2, <2>4
  <2>5. QED
    BY <1>2, <2>3, <2>4
<1>5. QED
  BY <1>3, <1>4 DEF Ordered, p

(* The chunk of a ticket that is current is the next one of the pass.      *)
LEMMA FoldFolds ==
    ASSUME NEW j \in Jobs, Folding(j), NEW t \in Reads, j.pass = t.pass, j.index = t.chunk,
           t.chunk \in Selects[j.snapshot]
    PROVE  LET k == Fold(j, t) IN
           /\ k \in Jobs /\ k.seq = j.seq /\ k.snapshot = j.snapshot /\ k.index = j.index + 1
           /\ Folding(k)
<1> DEFINE k == Fold(j, t)
<1>1. j.folded \in [{0, 1} -> Seq(Nat)] /\ j.pass \in {0, 1} /\ j.index \in Nat /\ t.chunk \in Nat
      /\ j.snapshot \in Snapshots
  BY DEF Jobs, Reads
<1>2. Append(j.folded[t.pass], t.chunk) \in Seq(Nat)
  BY <1>1
<1>3. /\ k \in Jobs /\ k.seq = j.seq /\ k.snapshot = j.snapshot /\ k.pass = j.pass
      /\ k.index = j.index + 1
      /\ k.folded = [j.folded EXCEPT ![t.pass] = Append(j.folded[t.pass], t.chunk)]
  <2> DEFINE f == [j.folded EXCEPT ![t.pass] = Append(j.folded[t.pass], t.chunk)]
  <2>1. f \in [{0, 1} -> Seq(Nat)]
    BY <1>1, <1>2
  <2>2. k = [j EXCEPT !.folded = f, !.index = j.index + 1]
    BY DEF Fold, Jobs
  <2>3. j.index + 1 \in Nat
    BY <1>1
  <2> HIDE DEF f, k
  <2>4. QED
    BY <2>1, <2>2, <2>3 DEF Jobs, f
<1> HIDE DEF k
<1>4. Before(k) = Before(j) \cup {t.chunk}
  <2>1. Selects[j.snapshot] \subseteq Nat
    BY <1>1, SelectsChunks
  <2>2. \A c \in Selects[j.snapshot] : c < j.index + 1 <=> c < j.index \/ c = t.chunk
    BY <1>1, <2>1
  <2>3. QED
    BY <1>3, <2>2 DEF Before
<1>5. \A c \in Before(j) : c < t.chunk
  BY DEF Before
<1>6. Ordered(j.folded[t.pass], Before(j))
  BY <1>1 DEF Folding
<1>7. Ordered(Append(j.folded[t.pass], t.chunk), Before(k))
  <2>1. j.folded[t.pass] \in Seq(Nat)
    BY <1>1
  <2>2. Ordered(Append(j.folded[t.pass], t.chunk), Before(j) \cup {t.chunk})
    BY <1>1, <1>5, <1>6, <2>1, AppendOrdered
  <2>3. QED
    BY <1>4, <2>2
<1>8. k.folded[t.pass] = Append(j.folded[t.pass], t.chunk)
      /\ (t.pass = 0 => k.folded[1] = j.folded[1]) /\ (t.pass = 1 => k.folded[0] = j.folded[0])
  BY <1>1, <1>3
<1>9. Folding(k)
  BY <1>1, <1>3, <1>7, <1>8 DEF Folding
<1>10. QED
  BY <1>3, <1>9 DEF k

(* supply(): what it does to the pending read, and then to the work.       *)
LEMMA Consumed ==
    ASSUME NEW x, SInv(x), x.pending # None
    PROVE  LET y == [x EXCEPT !.pending.consumed = TRUE] IN
           /\ Shape(y) /\ ReadShape(y.pending) /\ y.pending.consumed /\ y.pending.ticket = x.pending.ticket
           /\ y.open = x.open /\ y.validation = x.validation /\ y.source = x.source /\ y.job = x.job
           /\ y.published = x.published /\ y.lastSequence = x.lastSequence
           /\ y.cancelledThrough = x.cancelledThrough /\ y.lastSnapshot = x.lastSnapshot
<1> DEFINE p == [x.pending EXCEPT !.consumed = TRUE]
<1>1. ReadShape(p) /\ p.consumed /\ p.ticket = x.pending.ticket
  BY DEF SInv, Typed, ReadShape
<1>2. [x EXCEPT !.pending.consumed = TRUE] = [x EXCEPT !.pending = p]
  BY DEF SInv, Shape, Fields
<1> HIDE DEF p
<1>3. QED
  BY <1>1, <1>2 DEF SInv, Shape, Fields

LEMMA SupplyKeeps ==
    ASSUME IInv, NEW s \in Sessions, Supply(s)
    PROVE  \E y : sess' = [sess EXCEPT ![s] = y] /\ Keeps(sess[s], y)
<1> DEFINE x == sess[s]
           t == x.pending.ticket
           y == [x EXCEPT !.pending.consumed = TRUE]
<1>1. SInv(x) /\ x.pending # None /\ ~x.pending.consumed /\ t \in Reads
  BY DEF IInv, Supply, SInv, Typed
<1>2. /\ Shape(y) /\ ReadShape(y.pending) /\ y.pending.consumed /\ y.pending.ticket = t
      /\ y.open = x.open /\ y.validation = x.validation /\ y.source = x.source /\ y.job = x.job
      /\ y.published = x.published /\ y.lastSequence = x.lastSequence
      /\ y.cancelledThrough = x.cancelledThrough /\ y.lastSnapshot = x.lastSnapshot
  BY <1>1, Consumed
<1>3. \/ Accepts(x, t) /\ t.seq = 0 /\ sess' = [sess EXCEPT ![s] = [y EXCEPT !.validation = @ + 1]]
      \/ Accepts(x, t) /\ t.seq # 0 /\ sess' = [sess EXCEPT ![s] = [y EXCEPT !.job = Fold(@, t)]]
      \/ sess' = [sess EXCEPT ![s] = [y EXCEPT !.validation = None]] /\ t.seq = 0
      \/ sess' = [sess EXCEPT ![s] = [y EXCEPT !.job = None]]
  BY DEF Supply
<1>4. y.pending.consumed /\ y.pending.ticket = t
      /\ ReadShape(y.pending)
  BY <1>2
<1>5. \A z : Shape(z) /\ z.pending = y.pending => Current(z)
  BY <1>4 DEF Current
<1> HIDE DEF x, y, t
<1>6. CASE Accepts(x, t) /\ t.seq = 0 /\ sess' = [sess EXCEPT ![s] = [y EXCEPT !.validation = @ + 1]]
  <2> DEFINE z == [y EXCEPT !.validation = @ + 1]
  <2>1. x.validation # None /\ x.validation \in Nat /\ x.job = None /\ x.source # TRUE
    BY <1>1, <1>6 DEF Accepts, SInv, Typed, Staged
  <2>2. /\ Shape(z) /\ z.pending = y.pending /\ z.validation = x.validation + 1 /\ z.open = x.open
        /\ z.source = x.source /\ z.job = None /\ z.published = x.published
        /\ z.lastSequence = x.lastSequence /\ z.cancelledThrough = x.cancelledThrough
        /\ z.lastSnapshot = x.lastSnapshot
    BY <1>2, <2>1 DEF Shape, Fields
  <2>3. x.validation + 1 \in Nat
    BY <2>1
  <2> HIDE DEF z
  <2>4. Latest(z) /\ Typed(z) /\ Staged(z)
    BY <1>1, <1>4, <2>1, <2>2, <2>3 DEF SInv, Latest, Typed, Staged
  <2>5. SInv(z) /\ Survives(x, z)
    BY <1>1, <1>5, <2>2, <2>4 DEF SInv, Survives
  <2>6. QED
    BY <1>6, <2>5 DEF Keeps, x, z
<1>7. CASE Accepts(x, t) /\ t.seq # 0 /\ sess' = [sess EXCEPT ![s] = [y EXCEPT !.job = Fold(@, t)]]
  <2> DEFINE z == [y EXCEPT !.job = Fold(@, t)]
             k == Fold(x.job, t)
  <2>1. /\ x.job # None /\ x.job \in Jobs /\ x.job.pass = t.pass /\ x.job.index = t.chunk
        /\ t.chunk \in Selects[x.job.snapshot] /\ Folding(x.job)
    BY <1>1, <1>7 DEF SInv, Typed, Current, t
  <2>2. k \in Jobs /\ k.seq = x.job.seq /\ k.snapshot = x.job.snapshot /\ Folding(k) /\ k # None
    BY <1>1, <2>1, FoldFolds, NoneAssumption
  <2>3. z = [y EXCEPT !.job = k]
    BY <1>2 DEF Shape, Fields
  <2> HIDE DEF k
  <2>4. /\ Shape(z) /\ z.pending = y.pending /\ z.validation = x.validation /\ z.open = x.open
        /\ z.source = x.source /\ z.job = k /\ z.published = x.published
        /\ z.lastSequence = x.lastSequence /\ z.cancelledThrough = x.cancelledThrough
        /\ z.lastSnapshot = x.lastSnapshot
    BY <1>2, <2>3 DEF Shape, Fields
  <2> HIDE DEF z
  <2>5. Latest(z) /\ Typed(z) /\ Staged(z)
    BY <1>1, <1>4, <2>1, <2>2, <2>4 DEF SInv, Latest, Typed, Staged
  <2>6. SInv(z) /\ Survives(x, z)
    BY <1>1, <1>5, <2>2, <2>4, <2>5 DEF SInv, Survives
  <2>7. QED
    BY <1>7, <2>6 DEF Keeps, x, z
<1>8. CASE sess' = [sess EXCEPT ![s] = [y EXCEPT !.validation = None]] /\ t.seq = 0
  <2> DEFINE z == [y EXCEPT !.validation = None]
  <2>1. x.job = None
    BY <1>1, <1>8 DEF SInv, Current, t
  <2>2. /\ Shape(z) /\ z.pending = y.pending /\ z.validation = None /\ z.open = x.open
        /\ z.source = x.source /\ z.job = x.job /\ z.published = x.published
        /\ z.lastSequence = x.lastSequence /\ z.cancelledThrough = x.cancelledThrough
        /\ z.lastSnapshot = x.lastSnapshot
    BY <1>2 DEF Shape, Fields
  <2> HIDE DEF z
  <2>3. Latest(z) /\ Typed(z) /\ Staged(z)
    BY <1>1, <1>4, <2>1, <2>2 DEF SInv, Latest, Typed, Staged
  <2>4. SInv(z) /\ Survives(x, z)
    BY <1>1, <1>5, <2>1, <2>2, <2>3 DEF SInv, Survives
  <2>5. QED
    BY <1>8, <2>4 DEF Keeps, x, z
<1>9. CASE sess' = [sess EXCEPT ![s] = [y EXCEPT !.job = None]]
  <2> DEFINE z == [y EXCEPT !.job = None]
  <2>1. /\ Shape(z) /\ z.pending = y.pending /\ z.validation = x.validation /\ z.open = x.open
        /\ z.source = x.source /\ z.job = None /\ z.published = x.published
        /\ z.lastSequence = x.lastSequence /\ z.cancelledThrough = x.cancelledThrough
        /\ z.lastSnapshot = x.lastSnapshot
    BY <1>2 DEF Shape, Fields
  <2> HIDE DEF z
  <2>2. Latest(z) /\ Typed(z) /\ Staged(z)
    BY <1>1, <1>4, <2>1 DEF SInv, Latest, Typed, Staged
  <2>3. SInv(z) /\ Survives(x, z)
    BY <1>1, <1>5, <2>1, <2>2 DEF SInv, Survives
  <2>4. QED
    BY <1>9, <2>3 DEF Keeps, x, z
<1>10. QED
  BY <1>3, <1>6, <1>7, <1>8, <1>9
-----------------------------------------------------------------------------
(* A session that keeps its work or drops it, with its read consumed or     *)
(* retired, and raises what is cancelled below that work.                  *)
LEMMA DropsKeep ==
    ASSUME NEW x, SInv(x), NEW y, Shape(y), y.open = x.open, y.source = x.source,
           y.validation \in {x.validation, None}, y.job \in {x.job, None},
           y.published = x.published, y.lastSequence = x.lastSequence,
           y.lastSnapshot = x.lastSnapshot, y.cancelledThrough \in Nat,
           y.job # None => y.cancelledThrough < y.job.seq,
           \/ y.pending = None
           \/ /\ y.pending = x.pending
              /\ y.pending.consumed \/ (y.validation = x.validation /\ y.job = x.job)
    PROVE  Keeps(x, y)
<1>1. Latest(y) /\ Typed(y) /\ Staged(y)
  BY DEF SInv, Latest, Typed, Staged, Jobs
<1>2. Current(y)
  BY DEF SInv, Current
<1>3. SInv(y) /\ Survives(x, y)
  BY <1>1, <1>2 DEF SInv, Survives
<1>4. QED
  BY <1>3 DEF Keeps

LEMMA ReleaseKeeps ==
    ASSUME IInv, NEW s \in Sessions, NEW t, Release(s, t)
    PROVE  \E y : sess' = [sess EXCEPT ![s] = y] /\ Keeps(sess[s], y)
<1> DEFINE x == sess[s]
<1>1. SInv(x) /\ (x.job # None => x.cancelledThrough < x.job.seq) /\ x.cancelledThrough \in Nat
  BY DEF IInv, SInv, Latest, Typed, Jobs
<1>2. CASE sess' = [sess EXCEPT ![s] = [x EXCEPT !.pending = None]]
  <2> DEFINE y == [x EXCEPT !.pending = None]
  <2>1. /\ Shape(y) /\ y.pending = None /\ y.validation = x.validation /\ y.open = x.open
        /\ y.source = x.source /\ y.job = x.job /\ y.published = x.published
        /\ y.lastSequence = x.lastSequence /\ y.cancelledThrough = x.cancelledThrough
        /\ y.lastSnapshot = x.lastSnapshot
    BY <1>1 DEF SInv, Shape, Fields
  <2> HIDE DEF y, x
  <2>2. Keeps(x, y)
    BY <1>1, <2>1, DropsKeep
  <2>3. QED
    BY <1>2, <2>2 DEF x, y
<1>3. CASE sess' = [sess EXCEPT ![s] = [x EXCEPT !.retired = @ \ {t}]]
  <2> DEFINE y == [x EXCEPT !.retired = @ \ {t}]
  <2>1. /\ Shape(y) /\ y.pending = x.pending /\ y.validation = x.validation /\ y.open = x.open
        /\ y.source = x.source /\ y.job = x.job /\ y.published = x.published
        /\ y.lastSequence = x.lastSequence /\ y.cancelledThrough = x.cancelledThrough
        /\ y.lastSnapshot = x.lastSnapshot
    BY <1>1 DEF SInv, Shape, Fields
  <2> HIDE DEF y, x
  <2>2. Keeps(x, y)
    BY <1>1, <2>1, DropsKeep
  <2>3. QED
    BY <1>3, <2>2 DEF x, y
<1>4. QED
  BY <1>2, <1>3 DEF Release

LEMMA CancelKeeps ==
    ASSUME IInv, NEW s \in Sessions, NEW through \in Nat, Cancel(s, through)
    PROVE  \E y : sess' = [sess EXCEPT ![s] = y] /\ Keeps(sess[s], y)
<1> DEFINE x == sess[s]
           w == RetirePending(x)
           covered == x.job # None /\ x.job.seq <= through
           y == IF x.validation # None THEN [w EXCEPT !.validation = None, !.meta = Overhead]
                ELSE IF covered THEN [w EXCEPT !.job = None] ELSE x
           n == IF through > x.cancelledThrough THEN through ELSE x.cancelledThrough
           z == [y EXCEPT !.cancelledThrough = IF through > @ THEN through ELSE @]
<1>1. SInv(x) /\ (x.job # None => x.cancelledThrough < x.job.seq) /\ x.cancelledThrough \in Nat
      /\ (x.job # None => x.validation = None /\ x.job.seq \in Nat)
  BY DEF IInv, SInv, Latest, Typed, Jobs, Staged
<1>2. sess' = [sess EXCEPT ![s] = z]
  BY DEF Cancel
<1> HIDE DEF x
<1>3. /\ Shape(w) /\ w.pending = None /\ w.open = x.open /\ w.validation = x.validation
      /\ w.source = x.source /\ w.job = x.job /\ w.published = x.published
      /\ w.lastSequence = x.lastSequence /\ w.cancelledThrough = x.cancelledThrough
      /\ w.lastSnapshot = x.lastSnapshot
  BY <1>1, Retired
<1> HIDE DEF w
<1>4. /\ Shape(y) /\ y.open = x.open /\ y.source = x.source /\ y.published = x.published
      /\ y.lastSequence = x.lastSequence /\ y.lastSnapshot = x.lastSnapshot
      /\ y.cancelledThrough = x.cancelledThrough
      /\ y.validation \in {x.validation, None} /\ y.job \in {x.job, None}
      /\ y.pending = None \/ (y.pending = x.pending /\ y.validation = x.validation /\ y.job = x.job)
      /\ y.job # None => x.job.seq > through
  <2>1. CASE x.validation # None
    <3> DEFINE v == [w EXCEPT !.validation = None, !.meta = Overhead]
    <3>1. /\ Shape(v) /\ v.open = x.open /\ v.source = x.source /\ v.published = x.published
          /\ v.lastSequence = x.lastSequence /\ v.lastSnapshot = x.lastSnapshot
          /\ v.cancelledThrough = x.cancelledThrough /\ v.validation = None /\ v.job = x.job
          /\ v.pending = None
      BY <1>3 DEF Shape, Fields
    <3>2. y = v
      BY <2>1
    <3> HIDE DEF v, y
    <3>3. QED
      BY <1>1, <2>1, <3>1, <3>2
  <2>2. CASE x.validation = None /\ covered
    <3> DEFINE v == [w EXCEPT !.job = None]
    <3>1. /\ Shape(v) /\ v.open = x.open /\ v.source = x.source /\ v.published = x.published
          /\ v.lastSequence = x.lastSequence /\ v.lastSnapshot = x.lastSnapshot
          /\ v.cancelledThrough = x.cancelledThrough /\ v.validation = x.validation /\ v.job = None
          /\ v.pending = None
      BY <1>3 DEF Shape, Fields
    <3>2. y = v
      BY <2>2
    <3> HIDE DEF v, y
    <3>3. QED
      BY <1>1, <2>2, <3>1, <3>2
  <2>3. CASE x.validation = None /\ ~covered
    BY <1>1, <2>3 DEF SInv
  <2>4. QED
    BY <2>1, <2>2, <2>3
<1> HIDE DEF y
<1>5. /\ Shape(z) /\ z.open = y.open /\ z.source = y.source /\ z.published = y.published
      /\ z.lastSequence = y.lastSequence /\ z.lastSnapshot = y.lastSnapshot /\ z.job = y.job
      /\ z.validation = y.validation /\ z.pending = y.pending /\ z.cancelledThrough = n
  BY <1>4 DEF Shape, Fields
<1> HIDE DEF z
<1>6. n \in Nat /\ (z.job # None => n < z.job.seq)
  BY <1>1, <1>4, <1>5
<1> HIDE DEF n
<1>7. Keeps(x, z)
  BY <1>1, <1>4, <1>5, <1>6, DropsKeep
<1>8. QED
  BY <1>2, <1>7 DEF x

LEMMA DisposeKeeps ==
    ASSUME IInv, NEW s \in Sessions, Dispose(s)
    PROVE  \E y : sess' = [sess EXCEPT ![s] = y] /\ Keeps(sess[s], y)
<1> DEFINE x == sess[s]
           w == RetirePending(x)
           y == [w EXCEPT !.job = None, !.published = None, !.source = FALSE, !.validation = None,
                          !.meta = Overhead, !.disposed = TRUE]
           c == [Closed EXCEPT !.disposed = TRUE]
<1>1. SInv(x) /\ x.cancelledThrough \in Nat
  BY DEF IInv, SInv, Latest
<1>2. sess' = [sess EXCEPT ![s] = y] \/ sess' = [sess EXCEPT ![s] = c] \/ sess' = [sess EXCEPT ![s] = x]
  BY DEF Dispose, IInv
<1> HIDE DEF x
<1>3. /\ Shape(w) /\ w.pending = None /\ w.open = x.open
      /\ w.lastSequence = x.lastSequence /\ w.cancelledThrough = x.cancelledThrough
      /\ w.lastSnapshot = x.lastSnapshot
  BY <1>1, Retired
<1> HIDE DEF w
<1>4. Keeps(x, y)
  <2>1. /\ Shape(y) /\ y.pending = None /\ y.job = None /\ y.published = None /\ y.source = FALSE
        /\ y.validation = None /\ y.disposed = TRUE /\ y.lastSequence = x.lastSequence
        /\ y.cancelledThrough = x.cancelledThrough /\ y.lastSnapshot = x.lastSnapshot
    BY <1>3 DEF Shape, Fields
  <2> HIDE DEF y
  <2>2. SInv(y) /\ Survives(x, y)
    BY <1>1, <2>1 DEF SInv, Latest, Typed, Staged, Current, Survives
  <2>3. QED
    BY <2>2 DEF Keeps
<1>5. Keeps(x, c)
  <2>1. /\ Shape(c) /\ c.pending = None /\ c.job = None /\ c.published = None /\ c.source = FALSE
        /\ c.validation = None /\ c.disposed = TRUE /\ c.lastSequence = 0
        /\ c.cancelledThrough = 0 /\ c.lastSnapshot = None
    BY DEF Closed, Shape, Fields
  <2> HIDE DEF c
  <2>2. SInv(c) /\ Survives(x, c)
    BY <1>1, <2>1 DEF SInv, Latest, Typed, Staged, Current, Survives
  <2>3. QED
    BY <2>2 DEF Keeps
<1>6. Keeps(x, x)
  BY <1>1 DEF Keeps, Survives
<1>7. QED
  BY <1>2, <1>4, <1>5, <1>6 DEF x
-----------------------------------------------------------------------------
LEMMA InitEstablishes == Init => IInv
BY ClosedKeeps DEF Init, IInv

(* A step is one of one session.                                           *)
LEMMA StepKeeps ==
    ASSUME IInv, [Next]_vars
    PROVE  IInv' /\ \A s \in Sessions : Survives(sess[s], sess'[s])
<1>1. CASE UNCHANGED vars
  BY <1>1 DEF vars, IInv, Survives
<1>2. ASSUME NEW s \in Sessions, NEW y, sess' = [sess EXCEPT ![s] = y], Keeps(sess[s], y)
      PROVE  IInv' /\ \A r \in Sessions : Survives(sess[r], sess'[r])
  <2>1. sess' = [r \in Sessions |-> sess'[r]]
    BY <1>2 DEF IInv
  <2>2. \A r \in Sessions : Keeps(sess[r], sess'[r])
    <3>1. \A r \in Sessions : Keeps(sess[r], sess[r])
      BY DEF IInv, Keeps, Survives
    <3>2. \A r \in Sessions : sess'[r] = IF r = s THEN y ELSE sess[r]
      BY <1>2 DEF IInv
    <3>3. QED
      BY <1>2, <3>1, <3>2
  <2>3. QED
    BY <2>1, <2>2 DEF IInv, Keeps
<1>3. ASSUME NEW s \in Sessions, Create(s)
      PROVE  \E y : sess' = [sess EXCEPT ![s] = y] /\ Keeps(sess[s], y)
  BY <1>3, CreateKeeps DEF Create, IInv
<1>4. ASSUME NEW s \in Sessions, NEW n \in 1..MaxSequence, NEW snap \in Snapshots, Begin(s, n, snap)
      PROVE  \E y : sess' = [sess EXCEPT ![s] = y] /\ Keeps(sess[s], y)
  <2>1. n \in Nat
    BY SizesAssumption
  <2>2. QED
    BY <1>4, <2>1, BeginKeeps DEF Begin, IInv
<1>5. ASSUME NEW s \in Sessions, NEW through \in 0..MaxSequence, Cancel(s, through)
      PROVE  \E y : sess' = [sess EXCEPT ![s] = y] /\ Keeps(sess[s], y)
  <2>1. through \in Nat
    BY SizesAssumption
  <2>2. QED
    BY <1>5, <2>1, CancelKeeps
<1>6. CASE Next
  <2>1. PICK s \in Sessions :
            \/ Create(s) \/ StepValidation(s) \/ StepJob(s) \/ Supply(s) \/ Dispose(s)
            \/ \E n \in 1..MaxSequence, snap \in Snapshots : Begin(s, n, snap)
            \/ \E through \in 0..MaxSequence : Cancel(s, through)
            \/ \E t \in held[s] : Release(s, t)
    BY <1>6 DEF Next
  <2>2. PICK y : sess' = [sess EXCEPT ![s] = y] /\ Keeps(sess[s], y)
    BY <1>3, <1>4, <1>5, <2>1, StepValidationKeeps, StepJobKeeps, SupplyKeeps, DisposeKeeps,
       ReleaseKeeps
  <2>3. QED
    BY <1>2, <2>2
<1>7. QED
  BY <1>1, <1>6

LEMMA Invariant == Spec => []IInv
<1>1. IInv /\ [Next]_vars => IInv'
  BY StepKeeps
<1>2. QED
  BY <1>1, InitEstablishes, PTL DEF Spec

LEMMA CurrentTickets == IInv => TicketIsCurrent
<1> SUFFICES ASSUME IInv, NEW s \in Sessions, sess[s].pending # None, ~sess[s].pending.consumed
             PROVE  LET x == sess[s]  t == x.pending.ticket IN
                    IF t.seq = 0 THEN x.validation = t.chunk /\ x.job = None
                    ELSE /\ x.job # None /\ x.job.seq = t.seq /\ x.job.pass = t.pass
                         /\ t.chunk >= x.job.index
  BY DEF TicketIsCurrent
<1>1. SInv(sess[s])
  BY DEF IInv
<1>2. sess[s].job # None => sess[s].job.index \in Nat
  BY <1>1 DEF SInv, Typed, Jobs
<1>3. QED
  BY <1>1, <1>2 DEF SInv, Current

(* In every process, a published result folded the chunks its query         *)
(* selects, once and in order, in each pass it made.                       *)
THEOREM ResultsAreWhole == Spec => []PublishedWhole
<1>1. IInv => PublishedWhole
  BY DEF IInv, SInv, Whole, PublishedWhole
<1>2. QED
  BY <1>1, Invariant, PTL

(* In every process, a published result gives way only to a later sequence  *)
(* with no older a snapshot, that was not cancelled, or to disposal.       *)
THEOREM ResultsSurvive == Spec => ResultSurvives
<1>1. IInv /\ [Next]_vars =>
        [\A s \in Sessions : LET p == sess[s].published  q == sess'[s].published IN
            p # None /\ q # p =>
              \/ sess'[s].disposed
              \/ q # None /\ q.seq > p.seq /\ q.seq > sess[s].cancelledThrough
                    /\ ~Precedes(q.snapshot, p.snapshot)]_vars
  BY StepKeeps DEF Survives
<1>2. QED
  BY <1>1, Invariant, PTL DEF Spec, ResultSurvives
-----------------------------------------------------------------------------
(* What the sessions are charged.                                          *)

(* The reads a host has buffers for are the pending one and those retired,  *)
(* which were for work that is over.                                       *)
Booked(x, h) ==
    /\ h = x.retired \cup (IF x.pending = None THEN {} ELSE {x.pending.ticket})
    /\ IsFiniteSet(x.retired) /\ x.retired \subseteq Tickets /\ Cardinality(x.retired) <= MaxRetired
    /\ x.pending # None => /\ x.pending.ticket \in Tickets \ x.retired
                           /\ x.pending.ticket.seq <= x.lastSequence
                           /\ x.pending.consumed \in BOOLEAN
    /\ x.validation # None => x.retired = {}
    /\ \A t \in x.retired : t.seq <= x.lastSequence /\ (x.job # None => t.seq < x.job.seq)
    /\ ~x.open => x.pending = None /\ x.retired = {}

(* What a session has reserved for its source, at each stage.              *)
Metered(x) ==
    /\ x.open \in BOOLEAN /\ x.disposed \in BOOLEAN /\ x.source \in BOOLEAN
    /\ IF x.open THEN x.meta \in {BuildBytes, SourceBytes, Overhead} ELSE x.meta = 0
    /\ x.validation # None => x.validation \in 1..(Chunks + 1) /\ x.meta = BuildBytes /\ x.open
    /\ x.job # None => JobType(x.job)
    /\ x.published # None => JobType(x.published)

Paid(x, h) == Booked(x, h) /\ Metered(x) /\ LocalBytes(x) <= LocalLimit

CInv ==
    /\ held = [s \in Sessions |-> held[s]] /\ closing \subseteq Sessions
    /\ \A s \in Sessions : Paid(sess[s], held[s])
    /\ ledger = SumFunctionOnSet(Bytes, Sessions) /\ ledger <= ProcessLimit
Lent(x) == Lease(x.pending, ReadBytes) + ReadBytes * Cardinality(x.retired)

(* A step of one session, and what it costs.                               *)
Charges(s, y, h) ==
    /\ sess' = [sess EXCEPT ![s] = y] /\ held' = [held EXCEPT ![s] = h] /\ Paid(y, h)
    /\ ledger' = ledger - LocalBytes(sess[s]) + LocalBytes(y) /\ ledger' <= ProcessLimit
-----------------------------------------------------------------------------
LEMMA SizesAreNat ==
    /\ Chunks \in Nat /\ MaxSequence \in Nat /\ MaxRetired \in Nat /\ ProcessLimit \in Nat
    /\ LocalLimit \in Nat /\ CreateBytes \in Nat /\ BuildBytes \in Nat /\ SourceBytes \in Nat
    /\ Overhead \in Nat /\ JobBytes \in Nat /\ ResultBytes \in Nat /\ ReadBytes \in Nat
    /\ Overhead <= SourceBytes /\ SourceBytes <= BuildBytes /\ ResultBytes <= JobBytes
    /\ BuildBytes <= CreateBytes /\ CreateBytes <= LocalLimit
BY SizesAssumption

LEMMA PartsAreNat ==
    ASSUME NEW x, NEW h, Booked(x, h), Metered(x)
    PROVE  /\ x.meta \in Nat /\ Lease(x.job, JobBytes) \in Nat /\ Lease(x.published, ResultBytes) \in Nat
           /\ Lent(x) \in Nat /\ LocalBytes(x) \in Nat
           /\ LocalBytes(x) = x.meta + Lease(x.job, JobBytes) + Lease(x.published, ResultBytes) + Lent(x)
<1>1. x.meta \in Nat /\ Lease(x.job, JobBytes) \in Nat /\ Lease(x.published, ResultBytes) \in Nat
      /\ Lease(x.pending, ReadBytes) \in Nat
  BY SizesAreNat DEF Metered, Lease
<1>2. Cardinality(x.retired) \in Nat
  BY FS_CardinalityType DEF Booked
<1>3. ReadBytes * Cardinality(x.retired) \in Nat
  BY <1>2, SizesAreNat
<1> QED BY <1>1, <1>3 DEF Lent, LocalBytes

LEMMA ClosedPays == ASSUME NEW x, NEW h, Paid(x, h), ~x.open PROVE LocalBytes(x) = Lease(x.job, JobBytes) + Lease(x.published, ResultBytes) /\ h = {}
<1>1. x.meta = 0 /\ x.pending = None /\ x.retired = {} /\ h = {}
  BY DEF Paid, Booked, Metered
<1>2. Lent(x) = 0
  BY <1>1, FS_EmptySet, SizesAreNat DEF Lent, Lease
<1> QED BY <1>1, <1>2, PartsAreNat DEF Paid

(* The sum follows the session that changed.                               *)
LEMMA ChargesKeep ==
    ASSUME IInv, CInv, NEW s \in Sessions, NEW y, NEW h, Charges(s, y, h), closing' \subseteq Sessions
    PROVE  CInv'
<1>1. \A r \in Sessions : sess'[r] = (IF r = s THEN y ELSE sess[r])
                          /\ held'[r] = (IF r = s THEN h ELSE held[r])
  BY DEF IInv, CInv, Charges
<1>2. held' = [r \in Sessions |-> held'[r]]
  BY DEF CInv, Charges
<1>3. \A r \in Sessions : Paid(sess'[r], held'[r])
  BY <1>1 DEF CInv, Charges
<1>4. ledger' = SumFunctionOnSet(Bytes', Sessions)
  <2>1. \A r \in Sessions : Bytes[r] = LocalBytes(sess[r]) /\ Bytes'[r] = LocalBytes(sess'[r])
    BY DEF Bytes
  <2>2. \A r \in Sessions : Bytes[r] \in Int
    BY <2>1, PartsAreNat DEF CInv, Paid
  <2>3. Bytes'[s] \in Int /\ Bytes'[s] = LocalBytes(y)
    BY <1>1, <2>1, PartsAreNat DEF Charges, Paid
  <2>4. \A r \in Sessions \ {s} : Bytes'[r] = Bytes[r]
    BY <1>1, <2>1
  <2>5. SumFunctionOnSet(Bytes', Sessions) = SumFunctionOnSet(Bytes, Sessions) - Bytes[s] + Bytes'[s]
    BY <2>2, <2>3, <2>4, SumChange, SessionsAssumption
  <2> QED BY <2>1, <2>3, <2>5 DEF Charges, CInv
<1> QED BY <1>2, <1>3, <1>4 DEF CInv, Charges

LEMMA LedgerIsInt == ASSUME CInv PROVE ledger \in Nat
<1>1. \A r \in Sessions : Bytes[r] \in Nat
  BY PartsAreNat DEF CInv, Paid, Bytes
<1> QED BY <1>1, SumNat, SessionsAssumption DEF CInv

(* A session that gets d bytes more, or gives some back.                   *)
LEMMA Settles ==
    ASSUME IInv, CInv, NEW s \in Sessions, NEW y, NEW h, NEW d \in Int,
           sess' = [sess EXCEPT ![s] = y], held' = [held EXCEPT ![s] = h], Booked(y, h), Metered(y),
           LocalBytes(y) = LocalBytes(sess[s]) + d, ledger' = ledger + d,
           d <= 0 \/ Admits(sess[s], d)
    PROVE  Charges(s, y, h)
<1>1. LocalBytes(sess[s]) \in Nat /\ LocalBytes(sess[s]) <= LocalLimit /\ ledger \in Nat
      /\ ledger <= ProcessLimit
  BY PartsAreNat, LedgerIsInt DEF CInv, Paid
<1>2. LocalBytes(y) <= LocalLimit /\ ledger' <= ProcessLimit
  BY <1>1, SizesAreNat DEF Admits
<1>3. ledger' = ledger - LocalBytes(sess[s]) + LocalBytes(y)
  BY <1>1
<1> QED BY <1>2, <1>3 DEF Charges, Paid

LEMMA HeldIs == ASSUME CInv, NEW s \in Sessions, UNCHANGED held PROVE held' = [held EXCEPT ![s] = held[s]]
BY DEF CInv

LEMMA CostsNothing ==
    ASSUME IInv, CInv, NEW s \in Sessions, NEW y, sess' = [sess EXCEPT ![s] = y],
           UNCHANGED <<ledger, held>>, Booked(y, held[s]), Metered(y), LocalBytes(y) = LocalBytes(sess[s])
    PROVE  \E z, h : Charges(s, z, h)
<1>1. held' = [held EXCEPT ![s] = held[s]]
  BY HeldIs
<1>2. \E d \in Int : d <= 0 /\ LocalBytes(y) = LocalBytes(sess[s]) + d /\ ledger' = ledger + d
  <2>1. LocalBytes(y) \in Nat /\ ledger \in Nat /\ ledger' = ledger
    BY PartsAreNat, LedgerIsInt
  <2>2. LocalBytes(y) = LocalBytes(sess[s]) + 0 /\ ledger' = ledger + 0
    BY <2>1
  <2> QED BY <2>2
<1>3. Charges(s, y, held[s])
  BY <1>1, <1>2, Settles
<1> QED BY <1>3

-----------------------------------------------------------------------------
LEMMA CreatePays ==
    ASSUME IInv, CInv, NEW s \in Sessions, Create(s)
    PROVE  \E y, h : Charges(s, y, h)
<1> DEFINE x == sess[s]
           y == [Closed EXCEPT !.open = TRUE, !.meta = BuildBytes, !.validation = 1]
<1>1. /\ y.open = TRUE /\ y.disposed = FALSE /\ y.source = FALSE /\ y.meta = BuildBytes /\ y.validation = 1
      /\ y.job = None /\ y.published = None /\ y.pending = None /\ y.retired = {}
  BY DEF Closed
<1>2. Paid(x, held[s]) /\ SInv(x) /\ x.open = FALSE
  BY DEF CInv, IInv, Create, Paid, Metered
<1>3. LocalBytes(x) = 0 /\ held[s] = {}
  BY <1>2, ClosedPays DEF SInv, Typed, Lease
<1> HIDE DEF y
<1>4. Booked(y, {}) /\ Metered(y)
  <2>1. Booked(y, {})
    BY <1>1, FS_EmptySet, SizesAreNat DEF Booked
  <2>2. 1 \in 1..(Chunks + 1)
    BY SizesAreNat
  <2>3. Metered(y)
    BY <1>1, <2>2 DEF Metered
  <2> QED BY <2>1, <2>3
<1>5. LocalBytes(y) = BuildBytes
  BY <1>1, FS_EmptySet, SizesAreNat DEF LocalBytes, Lease
<1>6. ledger \in Int
  BY LedgerIsInt
<1>7. ledger' = ledger - LocalBytes(x) + LocalBytes(y) /\ ledger' <= ProcessLimit
  BY <1>3, <1>5, <1>6, SizesAreNat DEF Create
<1>8. held' = [held EXCEPT ![s] = {}]
  BY <1>3 DEF Create, CInv
<1>9. sess' = [sess EXCEPT ![s] = y]
  BY DEF Create, y
<1>10. Charges(s, y, {})
  BY <1>4, <1>5, <1>7, <1>8, <1>9, SizesAreNat DEF Charges, Paid
<1> QED BY <1>10

(* The pending read is retired: nothing is paid back.                      *)
LEMMA RetiresPay ==
    ASSUME NEW x, NEW h, SInv(x), Booked(x, h), CanRetire(x)
    PROVE  LET w == RetirePending(x) IN
           /\ Shape(w) /\ w.pending = None /\ w.retired = h
           /\ w.open = x.open /\ w.meta = x.meta /\ w.validation = x.validation
           /\ w.source = x.source /\ w.job = x.job /\ w.published = x.published
           /\ w.lastSequence = x.lastSequence /\ w.disposed = x.disposed
           /\ IsFiniteSet(h) /\ h \subseteq Tickets /\ Cardinality(h) <= MaxRetired
           /\ \A t \in h : t.seq <= x.lastSequence
           /\ ~x.open => h = {}
           /\ ReadBytes * Cardinality(h) = Lent(x)
<1> DEFINE w == RetirePending(x)
<1>1. w.retired = h
  BY DEF RetirePending, SInv, Shape, Fields, Booked
<1>2. CASE x.pending = None
  <2>1. h = x.retired
    BY <1>2 DEF Booked
  <2>2. Cardinality(h) \in Nat
    BY <2>1, FS_CardinalityType DEF Booked
  <2>3. ReadBytes * Cardinality(h) = Lent(x)
    BY <1>2, <2>1, <2>2, SizesAreNat DEF Lent, Lease
  <2> QED BY <1>1, <1>2, <2>1, <2>3, Retired DEF Booked
<1>3. CASE x.pending # None
  <2> DEFINE t == x.pending.ticket
  <2>1. h = x.retired \cup {t} /\ t \in Tickets /\ t \notin x.retired /\ t.seq <= x.lastSequence
    BY <1>3 DEF Booked
  <2>2. IsFiniteSet(h) /\ Cardinality(h) = Cardinality(x.retired) + 1 /\ Cardinality(x.retired) \in Nat
    BY <2>1, FS_AddElement, FS_CardinalityType DEF Booked
  <2>3. Cardinality(h) <= MaxRetired
    BY <1>3, <2>2, SizesAreNat DEF CanRetire
  <2>4. ReadBytes * Cardinality(h) = Lent(x)
    <3> DEFINE c == Cardinality(x.retired)
    <3>1. c \in Nat /\ Cardinality(h) = c + 1
      BY <2>2
    <3> HIDE DEF c
    <3>2. ReadBytes * (c + 1) = ReadBytes + ReadBytes * c
      BY <3>1, SizesAreNat
    <3> QED BY <1>3, <3>1, <3>2 DEF Lent, Lease, c
  <2> QED BY <1>1, <1>3, <2>1, <2>2, <2>3, <2>4, Retired DEF Booked
<1> QED BY <1>2, <1>3

LEMMA BeginPays ==
    ASSUME IInv, CInv, NEW s \in Sessions, NEW n \in 1..MaxSequence, NEW snap \in Snapshots, Begin(s, n, snap)
    PROVE  \E y, h : Charges(s, y, h)
<1> DEFINE x == sess[s]
           w == RetirePending(x)
           j == NewJob(n, snap)
           y == [w EXCEPT !.job = j, !.lastSequence = n, !.lastSnapshot = snap]
<1>1. /\ SInv(x) /\ Booked(x, held[s]) /\ Metered(x) /\ CanRetire(x) /\ x.validation = None
      /\ x.open /\ n \in Nat /\ x.lastSequence \in Nat /\ n > x.lastSequence
      /\ Admits(x, JobBytes)
  BY SizesAreNat DEF IInv, CInv, Paid, Begin, Fresh, SInv, Staged, Latest
<1>2. /\ Shape(w) /\ w.pending = None /\ w.retired = held[s] /\ w.open = x.open /\ w.meta = x.meta
      /\ w.validation = None /\ w.source = x.source /\ w.published = x.published
      /\ w.disposed = x.disposed
  BY <1>1, RetiresPay
<1>3. JobType(j) /\ j.seq = n /\ j # None
  <2>1. j \in Jobs /\ j.seq = n /\ j.index = 1
    BY <1>1 DEF NewJob, Jobs
  <2>2. 1 \in 1..(Chunks + 1)
    BY SizesAreNat
  <2> QED BY <2>1, <2>2, NoneAssumption DEF JobType
<1>4. ledger' = ledger + (JobBytes - Lease(x.job, JobBytes))
  BY LedgerIsInt, SizesAreNat DEF Begin, Lease
<1>5. sess' = [sess EXCEPT ![s] = y] /\ held' = [held EXCEPT ![s] = held[s]]
  BY HeldIs DEF Begin
<1> HIDE DEF w, j
<1>6. /\ y.pending = None /\ y.retired = held[s] /\ y.open = x.open /\ y.meta = x.meta
      /\ y.validation = None /\ y.source = x.source /\ y.published = x.published
      /\ y.disposed = x.disposed /\ y.job = j /\ y.lastSequence = n
  BY <1>2 DEF Shape, Fields
<1> HIDE DEF y
<1>7. Booked(y, held[s])
  <2>1. /\ IsFiniteSet(held[s]) /\ held[s] \subseteq Tickets /\ Cardinality(held[s]) <= MaxRetired
        /\ \A t \in held[s] : t.seq <= x.lastSequence
    BY <1>1, RetiresPay
  <2>2. \A t \in held[s] : t.seq \in Nat
    BY <2>1, SizesAreNat DEF Tickets
  <2> QED BY <1>1, <1>3, <1>6, <2>1, <2>2 DEF Booked
<1>8. Metered(y)
  BY <1>1, <1>3, <1>6 DEF Metered
<1>9. Lent(y) = Lent(x)
  <2>1. ReadBytes * Cardinality(y.retired) = Lent(x) /\ Lent(x) \in Nat
    BY <1>1, <1>6, RetiresPay, PartsAreNat
  <2> QED BY <1>6, <2>1 DEF Lent, Lease
<1>10. LocalBytes(y) = LocalBytes(x) + (JobBytes - Lease(x.job, JobBytes))
  <2>1. Lease(y.job, JobBytes) = JobBytes /\ Lease(y.published, ResultBytes) = Lease(x.published, ResultBytes)
    BY <1>3, <1>6 DEF Lease
  <2> QED BY <1>1, <1>6, <1>7, <1>8, <1>9, <2>1, PartsAreNat, SizesAreNat
<1>11. Charges(s, y, held[s])
  <2> DEFINE d == JobBytes - Lease(x.job, JobBytes)
  <2>1. d \in Int /\ d <= JobBytes
    BY SizesAreNat DEF Lease
  <2>2. Admits(x, d)
    BY <1>1, <2>1, PartsAreNat, LedgerIsInt, SizesAreNat DEF Admits
  <2> HIDE DEF d
  <2>3. LocalBytes(y) = LocalBytes(x) + d /\ ledger' = ledger + d
    BY <1>4, <1>10 DEF d
  <2> QED BY <1>5, <1>7, <1>8, <2>1, <2>2, <2>3, Settles
<1> QED BY <1>11
-----------------------------------------------------------------------------
(* A ticket is charged when it is issued.                                  *)
LEMMA IssuePays ==
    ASSUME IInv, CInv, NEW s \in Sessions, NEW x, Shape(x), x.pending = None, x.open,
           Booked(x, held[s]), Metered(x), LocalBytes(x) = LocalBytes(sess[s]),
           NEW seq \in 0..MaxSequence, NEW pass \in {0, 1}, NEW chunk \in 1..Chunks,
           seq <= x.lastSequence, \A r \in held[s] : r.seq # seq, Issue(s, x, seq, pass, chunk)
    PROVE  \E y, h : Charges(s, y, h)
<1> DEFINE t == [seq |-> seq, pass |-> pass, chunk |-> chunk]
           p == [ticket |-> t, consumed |-> FALSE]
           y == [x EXCEPT !.pending = p]
<1>1. t \in Tickets /\ t.seq = seq
  BY DEF Tickets
<1>2. \/ /\ Admits(x, ReadBytes) /\ sess' = [sess EXCEPT ![s] = y] /\ ledger' = ledger + ReadBytes
         /\ held' = [held EXCEPT ![s] = held[s] \cup {t}]
      \/ sess' = [sess EXCEPT ![s] = x] /\ UNCHANGED <<ledger, held>>
  BY DEF Issue
<1> HIDE DEF t
<1>3. p.ticket = t /\ p.consumed = FALSE
  OBVIOUS
<1> HIDE DEF p
<1>4. /\ y.pending = p /\ y.retired = x.retired /\ y.open = x.open /\ y.meta = x.meta
      /\ y.validation = x.validation /\ y.source = x.source /\ y.published = x.published
      /\ y.disposed = x.disposed /\ y.job = x.job /\ y.lastSequence = x.lastSequence
  BY DEF Shape, Fields
<1> HIDE DEF y
<1>5. CASE /\ Admits(x, ReadBytes) /\ sess' = [sess EXCEPT ![s] = y] /\ ledger' = ledger + ReadBytes
           /\ held' = [held EXCEPT ![s] = held[s] \cup {t}]
  <2> DEFINE h == held[s] \cup {t}
  <2>1. held[s] = x.retired /\ t \notin x.retired
    BY <1>1 DEF Booked
  <2>2. CASE p # None
    <3>1. Booked(y, h)
      BY <1>1, <1>3, <1>4, <2>1, <2>2 DEF Booked
    <3>2. Metered(y)
      BY <1>4 DEF Metered
    <3>3. Lent(y) = Lent(x) + ReadBytes
      <4>1. Cardinality(x.retired) \in Nat
        BY FS_CardinalityType DEF Booked
      <4>2. ReadBytes * Cardinality(x.retired) \in Nat
        BY <4>1, SizesAreNat
      <4> QED BY <1>4, <2>2, <4>2, SizesAreNat DEF Lent, Lease
    <3>4. LocalBytes(y) = LocalBytes(sess[s]) + ReadBytes
      BY <1>4, <3>1, <3>2, <3>3, PartsAreNat, SizesAreNat
    <3>5. Admits(sess[s], ReadBytes)
      BY <1>5 DEF Admits
    <3> HIDE DEF h
    <3>6. held' = [held EXCEPT ![s] = h]
      BY <1>5 DEF h
    <3>7. sess' = [sess EXCEPT ![s] = y] /\ ledger' = ledger + ReadBytes /\ ReadBytes \in Int
      BY <1>5, SizesAreNat
    <3>8. Charges(s, y, h)
      BY <3>1, <3>2, <3>4, <3>5, <3>6, <3>7, Settles
    <3> QED BY <3>8
  <2>3. p \in Pendings
    BY <1>1 DEF p, Pendings
  <2> QED BY <2>2, <2>3, NoneAssumption
<1>6. CASE sess' = [sess EXCEPT ![s] = x] /\ UNCHANGED <<ledger, held>>
  BY <1>6, CostsNothing
<1> QED BY <1>2, <1>5, <1>6

LEMMA StepValidationPays ==
    ASSUME IInv, CInv, NEW s \in Sessions, StepValidation(s)
    PROVE  \E y, h : Charges(s, y, h)
<1> DEFINE x == sess[s]
<1>1. /\ SInv(x) /\ Booked(x, held[s]) /\ Metered(x) /\ x.pending = None /\ x.validation # None
      /\ x.open /\ x.retired = {} /\ held[s] = {} /\ x.meta = BuildBytes
      /\ x.validation \in 1..(Chunks + 1)
  BY DEF IInv, CInv, StepValidation, Steps, Paid, Booked, Metered
<1>2. CASE x.validation <= Chunks /\ Issue(s, x, 0, 0, x.validation)
  <2>1. x.validation \in 1..Chunks /\ 0 \in 0..MaxSequence /\ 0 <= x.lastSequence
    BY <1>1, <1>2, SizesAreNat DEF SInv, Latest
  <2>2. Shape(x) /\ \A r \in held[s] : r.seq # 0
    BY <1>1 DEF SInv
  <2> QED BY <1>1, <1>2, <2>1, <2>2, IssuePays
<1>3. CASE /\ sess' = [sess EXCEPT ![s] = [x EXCEPT !.validation = None, !.source = TRUE,
                                                    !.meta = SourceBytes]]
           /\ ledger' = ledger - (x.meta - SourceBytes) /\ UNCHANGED held
  <2> DEFINE y == [x EXCEPT !.validation = None, !.source = TRUE, !.meta = SourceBytes]
             d == SourceBytes - BuildBytes
  <2>1. /\ y.pending = x.pending /\ y.retired = x.retired /\ y.open = x.open /\ y.meta = SourceBytes
        /\ y.validation = None /\ y.source = TRUE /\ y.published = x.published
        /\ y.disposed = x.disposed /\ y.job = x.job /\ y.lastSequence = x.lastSequence
    BY <1>1 DEF SInv, Shape, Fields
  <2>2. sess' = [sess EXCEPT ![s] = y] /\ held' = [held EXCEPT ![s] = held[s]]
    BY <1>3, HeldIs
  <2> HIDE DEF y
  <2>3. Booked(y, held[s]) /\ Metered(y) /\ Lent(y) = Lent(x)
    BY <1>1, <2>1 DEF Booked, Metered, Lent
  <2>4. LocalBytes(y) = LocalBytes(x) + d /\ ledger' = ledger + d /\ d \in Int /\ d <= 0
    BY <1>1, <1>3, <2>1, <2>3, PartsAreNat, LedgerIsInt, SizesAreNat
  <2> HIDE DEF d
  <2>5. Charges(s, y, held[s])
    BY <2>2, <2>3, <2>4, Settles
  <2> QED BY <2>5
<1>4. CASE sess' = [sess EXCEPT ![s] = [x EXCEPT !.validation = None]] /\ UNCHANGED <<ledger, held>>
  <2> DEFINE y == [x EXCEPT !.validation = None]
  <2>1. /\ y.pending = x.pending /\ y.retired = x.retired /\ y.open = x.open /\ y.meta = x.meta
        /\ y.validation = None /\ y.source = x.source /\ y.published = x.published
        /\ y.disposed = x.disposed /\ y.job = x.job /\ y.lastSequence = x.lastSequence
    BY <1>1 DEF SInv, Shape, Fields
  <2>2. sess' = [sess EXCEPT ![s] = y] /\ UNCHANGED <<ledger, held>>
    BY <1>4
  <2> HIDE DEF y
  <2>3. Booked(y, held[s]) /\ Metered(y) /\ Lent(y) = Lent(x)
    BY <1>1, <2>1 DEF Booked, Metered, Lent
  <2>4. LocalBytes(y) = LocalBytes(x)
    BY <1>1, <2>1, <2>3, PartsAreNat
  <2> QED BY <2>2, <2>3, <2>4, CostsNothing
<1> QED BY <1>2, <1>3, <1>4 DEF StepValidation

(* The job moves on, and is charged as before.                             *)
LEMMA JobMovesPays ==
    ASSUME IInv, CInv, NEW s \in Sessions, sess[s].job # None, NEW k, JobType(k), k.seq = sess[s].job.seq
    PROVE  LET x == sess[s]  z == [x EXCEPT !.job = k] IN
           /\ Shape(z) /\ z.job = k /\ z.pending = x.pending /\ z.retired = x.retired /\ z.open = x.open
           /\ z.lastSequence = x.lastSequence /\ z.meta = x.meta /\ z.validation = x.validation
           /\ z.published = x.published /\ z.source = x.source /\ z.disposed = x.disposed
           /\ Booked(z, held[s]) /\ Metered(z) /\ LocalBytes(z) = LocalBytes(x) /\ Lent(z) = Lent(x)
<1> DEFINE x == sess[s]
           z == [x EXCEPT !.job = k]
<1>1. SInv(x) /\ Booked(x, held[s]) /\ Metered(x) /\ k # None
  BY NoneAssumption DEF IInv, CInv, Paid, JobType
<1>2. /\ Shape(z) /\ z.job = k /\ z.pending = x.pending /\ z.retired = x.retired /\ z.open = x.open
      /\ z.lastSequence = x.lastSequence /\ z.meta = x.meta /\ z.validation = x.validation
      /\ z.published = x.published /\ z.source = x.source /\ z.disposed = x.disposed
  BY <1>1 DEF SInv, Shape, Fields
<1> HIDE DEF z
<1>3. Booked(z, held[s]) /\ Metered(z) /\ Lent(z) = Lent(x)
  BY <1>1, <1>2 DEF Booked, Metered, Lent
<1>4. LocalBytes(z) = LocalBytes(x)
  BY <1>1, <1>2 DEF LocalBytes, Lease
<1> QED BY <1>2, <1>3, <1>4 DEF z

LEMMA FinishPays ==
    ASSUME IInv, CInv, NEW s \in Sessions, NEW x, Shape(x), Booked(x, held[s]), Metered(x),
           LocalBytes(x) = LocalBytes(sess[s]), x.job # None, Finish(s, x), UNCHANGED held
    PROVE  \E y, h : Charges(s, y, h)
<1> DEFINE y == [x EXCEPT !.job = None, !.published = x.job]
           z == [x EXCEPT !.job = None]
<1>1. /\ Shape(y) /\ y.job = None /\ y.pending = x.pending /\ y.retired = x.retired /\ y.open = x.open
      /\ y.lastSequence = x.lastSequence /\ y.meta = x.meta /\ y.validation = x.validation
      /\ y.published = x.job /\ y.source = x.source /\ y.disposed = x.disposed
  BY DEF Shape, Fields
<1>2. /\ Shape(z) /\ z.job = None /\ z.pending = x.pending /\ z.retired = x.retired /\ z.open = x.open
      /\ z.lastSequence = x.lastSequence /\ z.meta = x.meta /\ z.validation = x.validation
      /\ z.published = x.published /\ z.source = x.source /\ z.disposed = x.disposed
  BY DEF Shape, Fields
<1>3. held' = [held EXCEPT ![s] = held[s]]
  BY HeldIs
<1>4. \/ /\ sess' = [sess EXCEPT ![s] = y]
         /\ ledger' = ledger - JobBytes + ResultBytes - Lease(x.published, ResultBytes)
      \/ sess' = [sess EXCEPT ![s] = z] /\ ledger' = ledger - JobBytes
  BY DEF Finish
<1> HIDE DEF y, z
<1>5. /\ Booked(y, held[s]) /\ Metered(y) /\ Lent(y) = Lent(x)
      /\ Booked(z, held[s]) /\ Metered(z) /\ Lent(z) = Lent(x)
  BY <1>1, <1>2 DEF Booked, Metered, Lent
<1>6. CASE /\ sess' = [sess EXCEPT ![s] = y]
           /\ ledger' = ledger - JobBytes + ResultBytes - Lease(x.published, ResultBytes)
  <2> DEFINE d == ResultBytes - JobBytes - Lease(x.published, ResultBytes)
  <2>1. Lease(x.job, JobBytes) = JobBytes /\ Lease(y.job, JobBytes) = 0
        /\ Lease(y.published, ResultBytes) = ResultBytes /\ Lease(x.published, ResultBytes) \in Nat
    BY <1>1, SizesAreNat DEF Lease
  <2>2. LocalBytes(y) = LocalBytes(sess[s]) + d /\ ledger' = ledger + d /\ d \in Int /\ d <= 0
    BY <1>1, <1>5, <1>6, <2>1, PartsAreNat, LedgerIsInt, SizesAreNat
  <2> HIDE DEF d
  <2>3. Charges(s, y, held[s])
    BY <1>3, <1>5, <1>6, <2>2, Settles
  <2> QED BY <2>3
<1>7. CASE sess' = [sess EXCEPT ![s] = z] /\ ledger' = ledger - JobBytes
  <2> DEFINE d == 0 - JobBytes
  <2>1. Lease(x.job, JobBytes) = JobBytes /\ Lease(z.job, JobBytes) = 0
        /\ Lease(z.published, ResultBytes) = Lease(x.published, ResultBytes)
    BY <1>2 DEF Lease
  <2>2. LocalBytes(z) = LocalBytes(sess[s]) + d /\ ledger' = ledger + d /\ d \in Int /\ d <= 0
    BY <1>2, <1>5, <1>7, <2>1, PartsAreNat, LedgerIsInt, SizesAreNat
  <2> HIDE DEF d
  <2>3. Charges(s, z, held[s])
    BY <1>3, <1>5, <1>7, <2>2, Settles
  <2> QED BY <2>3
<1> QED BY <1>4, <1>6, <1>7

LEMMA StepJobPays ==
    ASSUME IInv, CInv, NEW s \in Sessions, StepJob(s)
    PROVE  \E y, h : Charges(s, y, h)
<1> DEFINE x == sess[s]
           j == x.job
           again == SecondPass(j)
           Read(k) == Issue(s, [x EXCEPT !.job = k], k.seq, k.pass, k.index)
<1>1. /\ SInv(x) /\ Booked(x, held[s]) /\ Metered(x) /\ x.pending = None /\ j # None /\ x.open
      /\ j \in Jobs /\ Folding(j) /\ JobType(j) /\ j.seq = x.lastSequence /\ held[s] = x.retired
      /\ \A t \in x.retired : t.seq < j.seq
  <2>1. SInv(x) /\ Paid(x, held[s])
    BY DEF IInv, CInv
  <2>2. x.pending = None /\ j # None /\ x.open
    BY <2>1 DEF StepJob, Steps, SInv, Typed
  <2>3. JobType(j) /\ Booked(x, held[s]) /\ Metered(x)
    BY <2>1, <2>2 DEF Paid, Metered
  <2>4. held[s] = x.retired
    BY <2>2, <2>3 DEF Booked
  <2>5. j \in Jobs /\ Folding(j) /\ j.seq = x.lastSequence /\ \A t \in x.retired : t.seq < j.seq
    BY <2>1, <2>2, <2>3 DEF SInv, Typed, Latest, Booked
  <2> QED BY <2>1, <2>2, <2>3, <2>4, <2>5
<1>2. \/ Left(j) # {} /\ Read(AtNext(j))
      \/ Left(j) = {} /\ j.pass = 0 /\ Left(again) # {} /\ Read(AtNext(again))
      \/ Finish(s, x) /\ UNCHANGED held
      \/ Left(j) = {} /\ j.pass = 0 /\ Finish(s, [x EXCEPT !.job = again]) /\ UNCHANGED held
  BY DEF StepJob
<1>3. ASSUME NEW k \in Jobs, k.seq = j.seq, k.snapshot = j.snapshot, k.index \in Selects[k.snapshot],
             Read(k)
      PROVE  \E y, h : Charges(s, y, h)
  <2> DEFINE z == [x EXCEPT !.job = k]
  <2>1. /\ k.index \in 1..Chunks /\ k.seq \in 1..MaxSequence /\ k.seq \in 0..MaxSequence
        /\ k.pass \in {0, 1} /\ k.index \in 1..(Chunks + 1)
    <3>1. k.snapshot \in Snapshots /\ k.pass \in {0, 1} /\ k.seq \in 1..MaxSequence
      BY <1>1, <1>3 DEF Jobs, JobType
    <3>2. k.index \in 1..Chunks
      BY <1>3, <3>1, SelectsChunks
    <3> QED BY <3>1, <3>2, SizesAreNat
  <2>2. JobType(k)
    BY <2>1 DEF JobType
  <2>3. /\ Shape(z) /\ z.pending = None /\ z.open /\ z.lastSequence = x.lastSequence
        /\ Booked(z, held[s]) /\ Metered(z) /\ LocalBytes(z) = LocalBytes(x)
    BY <1>1, <1>3, <2>2, JobMovesPays
  <2>4. k.seq <= z.lastSequence /\ \A t \in held[s] : t.seq # k.seq
    BY <1>1, <1>3, <2>1, <2>3, SizesAreNat
  <2>5. Issue(s, z, k.seq, k.pass, k.index)
    BY <1>3
  <2> HIDE DEF z
  <2> QED BY <2>1, <2>3, <2>4, <2>5, IssuePays
<1>4. CASE Left(j) # {} /\ Read(AtNext(j))
  <2>1. /\ AtNext(j) \in Jobs /\ AtNext(j).seq = j.seq /\ AtNext(j).snapshot = j.snapshot
        /\ AtNext(j).index \in Selects[j.snapshot]
    BY <1>1, <1>4, AtNextFolds
  <2> QED BY <1>3, <1>4, <2>1
<1>5. ASSUME j.pass = 0, Left(j) = {}
      PROVE  again \in Jobs /\ again.seq = j.seq /\ again.snapshot = j.snapshot /\ Folding(again)
             /\ JobType(again)
  <2>1. /\ again \in Jobs /\ again.seq = j.seq /\ again.snapshot = j.snapshot /\ Folding(again)
        /\ again.index = 1
    BY <1>1, <1>5, SecondPassFolds
  <2>2. 1 \in 1..(Chunks + 1)
    BY SizesAreNat
  <2> QED BY <1>1, <2>1, <2>2 DEF JobType
<1>6. CASE Left(j) = {} /\ j.pass = 0 /\ Left(again) # {} /\ Read(AtNext(again))
  <2> HIDE DEF again
  <2>1. /\ AtNext(again) \in Jobs /\ AtNext(again).seq = j.seq /\ AtNext(again).snapshot = j.snapshot
        /\ AtNext(again).index \in Selects[j.snapshot]
    BY <1>5, <1>6, AtNextFolds
  <2> QED BY <1>3, <1>6, <2>1
<1>7. CASE Finish(s, x) /\ UNCHANGED held
  BY <1>1, <1>7, FinishPays DEF SInv
<1>8. CASE Left(j) = {} /\ j.pass = 0 /\ Finish(s, [x EXCEPT !.job = again]) /\ UNCHANGED held
  <2> DEFINE z == [x EXCEPT !.job = again]
  <2>1. again \in Jobs /\ again.seq = j.seq /\ JobType(again) /\ again # None
    BY <1>5, <1>8, NoneAssumption
  <2>2. Shape(z) /\ z.job = again /\ Booked(z, held[s]) /\ Metered(z) /\ LocalBytes(z) = LocalBytes(x)
    BY <1>1, <2>1, JobMovesPays
  <2>3. Finish(s, z) /\ UNCHANGED held
    BY <1>8
  <2> HIDE DEF z
  <2> QED BY <2>1, <2>2, <2>3, FinishPays
<1> QED BY <1>2, <1>4, <1>6, <1>7, <1>8

LEMMA ConsumedPays ==
    ASSUME NEW x, SInv(x), x.pending # None, x.pending.ticket \in Tickets
    PROVE  LET y == [x EXCEPT !.pending.consumed = TRUE] IN
           /\ Shape(y) /\ y.pending.consumed = TRUE /\ y.pending.ticket = x.pending.ticket
           /\ y.retired = x.retired /\ y.open = x.open /\ y.validation = x.validation
           /\ y.source = x.source /\ y.job = x.job /\ y.published = x.published
           /\ y.lastSequence = x.lastSequence /\ y.meta = x.meta /\ y.disposed = x.disposed
           /\ y.pending # None
<1> DEFINE p == [x.pending EXCEPT !.consumed = TRUE]
           q == [ticket |-> x.pending.ticket, consumed |-> TRUE]
<1>1. ReadShape(p) /\ p.consumed = TRUE /\ p.ticket = x.pending.ticket
  BY DEF SInv, Typed, ReadShape
<1>2. ReadShape(q) /\ q.consumed = TRUE /\ q.ticket = x.pending.ticket /\ q \in Pendings
  BY DEF ReadShape, Pendings
<1>3. p \in Pendings
  <2> HIDE DEF p, q
  <2>1. p = q
    BY <1>1, <1>2 DEF ReadShape
  <2> QED BY <1>2, <2>1
<1>4. [x EXCEPT !.pending.consumed = TRUE] = [x EXCEPT !.pending = p]
  BY DEF SInv, Shape, Fields
<1> HIDE DEF p
<1> QED BY <1>1, <1>3, <1>4, NoneAssumption DEF SInv, Shape, Fields

(* A chunk that was supplied stays charged.                                *)
LEMMA SupplyPays ==
    ASSUME IInv, CInv, NEW s \in Sessions, Supply(s)
    PROVE  \E y, h : Charges(s, y, h)
<1> DEFINE x == sess[s]
           t == x.pending.ticket
           y == [x EXCEPT !.pending.consumed = TRUE]
<1>1. /\ SInv(x) /\ Booked(x, held[s]) /\ Metered(x) /\ x.pending # None /\ ~x.pending.consumed
      /\ x.open /\ t \in Tickets /\ t \in Reads /\ UNCHANGED held
  BY DEF IInv, CInv, Supply, Paid, Booked, SInv, Typed
<1>2. /\ Shape(y) /\ y.pending.consumed = TRUE /\ y.pending.ticket = t /\ y.retired = x.retired
      /\ y.open = x.open /\ y.validation = x.validation /\ y.source = x.source /\ y.job = x.job
      /\ y.published = x.published /\ y.lastSequence = x.lastSequence /\ y.meta = x.meta
      /\ y.disposed = x.disposed /\ y.pending # None
  BY <1>1, ConsumedPays
<1>3. \/ /\ Accepts(x, t) /\ t.seq = 0 /\ UNCHANGED ledger
         /\ sess' = [sess EXCEPT ![s] = [y EXCEPT !.validation = @ + 1]]
      \/ /\ Accepts(x, t) /\ t.seq # 0 /\ UNCHANGED ledger
         /\ sess' = [sess EXCEPT ![s] = [y EXCEPT !.job = Fold(@, t)]]
      \/ sess' = [sess EXCEPT ![s] = [y EXCEPT !.validation = None]] /\ UNCHANGED ledger
      \/ /\ sess' = [sess EXCEPT ![s] = [y EXCEPT !.job = None]]
         /\ ledger' = ledger - Lease(x.job, JobBytes)
  BY DEF Supply
<1> HIDE DEF x, y
<1>4. \A z : z.pending = y.pending /\ z.retired = x.retired => Lent(z) = Lent(x)
  BY <1>1, <1>2 DEF Lent, Lease
<1>5. CASE /\ Accepts(x, t) /\ t.seq = 0 /\ UNCHANGED ledger
           /\ sess' = [sess EXCEPT ![s] = [y EXCEPT !.validation = @ + 1]]
  <2> DEFINE z == [y EXCEPT !.validation = @ + 1]
  <2>1. x.validation # None /\ x.validation = t.chunk /\ t.chunk \in 1..Chunks
    BY <1>1, <1>5 DEF Accepts, SInv, Current, Tickets
  <2>2. /\ z.pending = y.pending /\ z.retired = x.retired /\ z.open = x.open
        /\ z.validation = x.validation + 1 /\ z.source = x.source /\ z.job = x.job
        /\ z.published = x.published /\ z.lastSequence = x.lastSequence /\ z.meta = x.meta
        /\ z.disposed = x.disposed
    BY <1>2 DEF Shape, Fields
  <2>3. x.validation + 1 \in 1..(Chunks + 1)
    BY <2>1, SizesAreNat
  <2>4. sess' = [sess EXCEPT ![s] = z]
    BY <1>5
  <2> HIDE DEF z
  <2>5. Booked(z, held[s])
    BY <1>1, <1>2, <2>1, <2>2 DEF Booked
  <2>6. Metered(z)
    BY <1>1, <2>1, <2>2, <2>3 DEF Metered
  <2>7. LocalBytes(z) = LocalBytes(x)
    BY <1>1, <1>4, <2>2, <2>5, <2>6, PartsAreNat
  <2> QED BY <1>1, <1>5, <2>4, <2>5, <2>6, <2>7, CostsNothing DEF x
<1>6. CASE /\ Accepts(x, t) /\ t.seq # 0 /\ UNCHANGED ledger
           /\ sess' = [sess EXCEPT ![s] = [y EXCEPT !.job = Fold(@, t)]]
  <2> DEFINE z == [y EXCEPT !.job = Fold(@, t)]
             k == Fold(x.job, t)
  <2>1. /\ x.job # None /\ x.job \in Jobs /\ x.job.pass = t.pass /\ x.job.index = t.chunk
        /\ t.chunk \in Selects[x.job.snapshot] /\ Folding(x.job) /\ t.chunk \in 1..Chunks
    BY <1>1, <1>6 DEF Accepts, SInv, Typed, Current, Tickets
  <2>2. k \in Jobs /\ k.seq = x.job.seq /\ k.index = x.job.index + 1 /\ k # None
    BY <1>1, <2>1, FoldFolds, NoneAssumption
  <2>3. z.job = k
    BY <1>2 DEF Shape, Fields
  <2> HIDE DEF k
  <2>4. JobType(k)
    <3>1. x.job.index + 1 \in 1..(Chunks + 1)
      BY <2>1, SizesAreNat
    <3> QED BY <1>1, <2>1, <2>2, <3>1 DEF JobType, Metered
  <2>5. /\ z.pending = y.pending /\ z.retired = x.retired /\ z.open = x.open
        /\ z.validation = x.validation /\ z.source = x.source
        /\ z.published = x.published /\ z.lastSequence = x.lastSequence /\ z.meta = x.meta
        /\ z.disposed = x.disposed
    BY <1>2 DEF Shape, Fields
  <2>6. sess' = [sess EXCEPT ![s] = z]
    BY <1>6
  <2> HIDE DEF z
  <2>7. Booked(z, held[s])
    BY <1>1, <1>2, <2>1, <2>2, <2>3, <2>5 DEF Booked
  <2>8. Metered(z)
    BY <1>1, <2>3, <2>4, <2>5 DEF Metered
  <2>9. LocalBytes(z) = LocalBytes(x)
    <3>1. Lease(z.job, JobBytes) = Lease(x.job, JobBytes)
      BY <2>1, <2>2, <2>3 DEF Lease
    <3> QED BY <1>1, <1>4, <2>5, <2>7, <2>8, <3>1, PartsAreNat
  <2> QED BY <1>1, <1>6, <2>6, <2>7, <2>8, <2>9, CostsNothing DEF x
<1>7. CASE sess' = [sess EXCEPT ![s] = [y EXCEPT !.validation = None]] /\ UNCHANGED ledger
  <2> DEFINE z == [y EXCEPT !.validation = None]
  <2>1. /\ z.pending = y.pending /\ z.retired = x.retired /\ z.open = x.open /\ z.validation = None
        /\ z.source = x.source /\ z.job = x.job /\ z.published = x.published
        /\ z.lastSequence = x.lastSequence /\ z.meta = x.meta /\ z.disposed = x.disposed
    BY <1>2 DEF Shape, Fields
  <2>2. sess' = [sess EXCEPT ![s] = z]
    BY <1>7
  <2> HIDE DEF z
  <2>3. Booked(z, held[s]) /\ Metered(z)
    BY <1>1, <1>2, <2>1 DEF Booked, Metered
  <2>4. LocalBytes(z) = LocalBytes(x)
    BY <1>1, <1>4, <2>1, <2>3, PartsAreNat
  <2> QED BY <1>1, <1>7, <2>2, <2>3, <2>4, CostsNothing DEF x
<1>8. CASE /\ sess' = [sess EXCEPT ![s] = [y EXCEPT !.job = None]]
           /\ ledger' = ledger - Lease(x.job, JobBytes)
  <2> DEFINE z == [y EXCEPT !.job = None]
             d == 0 - Lease(x.job, JobBytes)
  <2>1. /\ z.pending = y.pending /\ z.retired = x.retired /\ z.open = x.open
        /\ z.validation = x.validation /\ z.source = x.source /\ z.job = None
        /\ z.published = x.published /\ z.lastSequence = x.lastSequence /\ z.meta = x.meta
        /\ z.disposed = x.disposed
    BY <1>2 DEF Shape, Fields
  <2>2. sess' = [sess EXCEPT ![s] = z] /\ held' = [held EXCEPT ![s] = held[s]]
    BY <1>1, <1>8, HeldIs
  <2> HIDE DEF z
  <2>3. Booked(z, held[s]) /\ Metered(z)
    BY <1>1, <1>2, <2>1 DEF Booked, Metered
  <2>4. LocalBytes(z) = LocalBytes(x) + d /\ ledger' = ledger + d /\ d \in Int /\ d <= 0
    <3>1. Lease(z.job, JobBytes) = 0
      BY <2>1 DEF Lease
    <3> QED BY <1>1, <1>4, <1>8, <2>1, <2>3, <3>1, PartsAreNat, LedgerIsInt
  <2> HIDE DEF d
  <2>5. Charges(s, z, held[s])
    BY <2>2, <2>3, <2>4, Settles DEF x
  <2> QED BY <2>5
<1> QED BY <1>3, <1>5, <1>6, <1>7, <1>8

LEMMA ReleasePays ==
    ASSUME IInv, CInv, NEW s \in Sessions, NEW t, Release(s, t)
    PROVE  \E y, h : Charges(s, y, h)
<1> DEFINE x == sess[s]
           h == held[s] \ {t}
           d == 0 - ReadBytes
<1>1. SInv(x) /\ Booked(x, held[s]) /\ Metered(x) /\ t \in held[s]
  BY DEF IInv, CInv, Paid, Release
<1>2. held' = [held EXCEPT ![s] = h] /\ ledger' = ledger + d /\ d \in Int /\ d <= 0
  BY LedgerIsInt, SizesAreNat DEF Release, CInv
<1>3. Cardinality(x.retired) \in Nat
  BY <1>1, FS_CardinalityType DEF Booked
<1>4. CASE x.pending # None /\ x.pending.ticket = t /\ sess' = [sess EXCEPT ![s].pending = None]
  <2> DEFINE y == [x EXCEPT !.pending = None]
  <2>1. /\ y.pending = None /\ y.retired = x.retired /\ y.open = x.open /\ y.validation = x.validation
        /\ y.source = x.source /\ y.job = x.job /\ y.published = x.published
        /\ y.lastSequence = x.lastSequence /\ y.meta = x.meta /\ y.disposed = x.disposed
    BY <1>1 DEF SInv, Shape, Fields
  <2>2. sess' = [sess EXCEPT ![s] = y]
    BY <1>4
  <2> HIDE DEF y
  <2>3. h = x.retired
    BY <1>1, <1>4 DEF Booked
  <2>4. Booked(y, h) /\ Metered(y)
    BY <1>1, <2>1, <2>3 DEF Booked, Metered
  <2>5. Lent(y) = Lent(x) + d
    <3>1. ReadBytes * Cardinality(x.retired) \in Nat
      BY <1>3, SizesAreNat
    <3> QED BY <1>4, <2>1, <3>1, SizesAreNat DEF Lent, Lease
  <2>6. LocalBytes(y) = LocalBytes(x) + d
    BY <1>1, <1>2, <2>1, <2>4, <2>5, PartsAreNat
  <2> HIDE DEF d, h
  <2>7. Charges(s, y, h)
    BY <1>2, <2>2, <2>4, <2>6, Settles
  <2> QED BY <2>7
<1>5. CASE t \in x.retired /\ sess' = [sess EXCEPT ![s].retired = @ \ {t}]
  <2> DEFINE y == [x EXCEPT !.retired = @ \ {t}]
             c == Cardinality(x.retired)
  <2>1. /\ y.pending = x.pending /\ y.retired = x.retired \ {t} /\ y.open = x.open
        /\ y.validation = x.validation /\ y.source = x.source /\ y.job = x.job
        /\ y.published = x.published /\ y.lastSequence = x.lastSequence /\ y.meta = x.meta
        /\ y.disposed = x.disposed
    BY <1>1 DEF SInv, Shape, Fields
  <2>2. sess' = [sess EXCEPT ![s] = y]
    BY <1>5
  <2> HIDE DEF y
  <2>3. IsFiniteSet(y.retired) /\ Cardinality(y.retired) = c - 1
    BY <1>1, <1>5, <2>1, FS_RemoveElement DEF Booked
  <2>4. h = y.retired \cup (IF y.pending = None THEN {} ELSE {y.pending.ticket})
    BY <1>1, <1>5, <2>1 DEF Booked
  <2>5. Booked(y, h)
    BY <1>1, <1>3, <1>5, <2>1, <2>3, <2>4, SizesAreNat DEF Booked
  <2>6. Metered(y)
    BY <1>1, <2>1 DEF Metered
  <2>7. Lent(y) = Lent(x) + d
    <3>1. c \in Nat
      BY <1>3
    <3> HIDE DEF c
    <3>2. ReadBytes * (c - 1) = ReadBytes * c - ReadBytes /\ ReadBytes * c \in Nat
      BY <3>1, SizesAreNat
    <3>3. Lease(x.pending, ReadBytes) \in Nat
      BY SizesAreNat DEF Lease
    <3> QED BY <2>1, <2>3, <3>2, <3>3, SizesAreNat DEF Lent, c
  <2>8. LocalBytes(y) = LocalBytes(x) + d
    BY <1>1, <1>2, <2>1, <2>5, <2>6, <2>7, PartsAreNat
  <2> HIDE DEF d, h
  <2>9. Charges(s, y, h)
    BY <1>2, <2>2, <2>5, <2>6, <2>8, Settles
  <2> QED BY <2>9
<1> QED BY <1>4, <1>5 DEF Release

LEMMA CancelPays ==
    ASSUME IInv, CInv, NEW s \in Sessions, NEW through, Cancel(s, through)
    PROVE  \E y, h : Charges(s, y, h)
<1> DEFINE x == sess[s]
           w == RetirePending(x)
           covered == x.job # None /\ x.job.seq <= through
           y == IF x.validation # None THEN [w EXCEPT !.validation = None, !.meta = Overhead]
                ELSE IF covered THEN [w EXCEPT !.job = None] ELSE x
           z == [y EXCEPT !.cancelledThrough = IF through > @ THEN through ELSE @]
           d == (y.meta - x.meta) + (Lease(y.job, JobBytes) - Lease(x.job, JobBytes))
<1>1. /\ SInv(x) /\ Booked(x, held[s]) /\ Metered(x) /\ x.open
      /\ x.validation # None \/ covered => CanRetire(x)
  BY DEF IInv, CInv, Paid, Cancel
<1>2. /\ sess' = [sess EXCEPT ![s] = z] /\ held' = [held EXCEPT ![s] = held[s]]
      /\ ledger' = ledger - (x.meta - y.meta) - (Lease(x.job, JobBytes) - Lease(y.job, JobBytes))
  BY HeldIs DEF Cancel
<1> HIDE DEF x, covered
<1>3. ASSUME CanRetire(x)
      PROVE  /\ Shape(w) /\ w.pending = None /\ w.retired = held[s] /\ w.open = x.open /\ w.meta = x.meta
             /\ w.validation = x.validation /\ w.source = x.source /\ w.job = x.job
             /\ w.published = x.published /\ w.disposed = x.disposed
             /\ w.lastSequence = x.lastSequence
             /\ IsFiniteSet(held[s]) /\ held[s] \subseteq Tickets /\ Cardinality(held[s]) <= MaxRetired
             /\ (\A t \in held[s] : t.seq <= x.lastSequence)
             /\ ReadBytes * Cardinality(held[s]) = Lent(x)
  BY <1>1, <1>3, RetiresPay
<1> HIDE DEF w
<1>4. /\ Shape(y) /\ Booked(y, held[s]) /\ Metered(y) /\ Lent(y) = Lent(x)
      /\ y.published = x.published /\ y.meta <= x.meta /\ y.job \in {x.job, None}
  <2>1. CASE x.validation # None
    <3> DEFINE v == [w EXCEPT !.validation = None, !.meta = Overhead]
    <3>1. /\ Shape(v) /\ v.pending = None /\ v.retired = held[s] /\ v.open = x.open /\ v.meta = Overhead
          /\ v.validation = None /\ v.source = x.source /\ v.job = x.job
          /\ v.published = x.published /\ v.disposed = x.disposed
          /\ v.lastSequence = x.lastSequence
      BY <1>1, <1>3, <2>1 DEF Shape, Fields
    <3>2. y = v
      BY <2>1
    <3> HIDE DEF v, y
    <3>3. x.job = None /\ x.meta = BuildBytes
      BY <1>1, <2>1 DEF SInv, Staged, Metered
    <3>4. Booked(v, held[s]) /\ Metered(v)
      BY <1>1, <1>3, <2>1, <3>1, <3>3 DEF Booked, Metered
    <3>5. Lent(v) = Lent(x)
      <4>1. ReadBytes * Cardinality(v.retired) = Lent(x) /\ Lent(x) \in Nat
        BY <1>1, <1>3, <2>1, <3>1, PartsAreNat
      <4> QED BY <3>1, <4>1 DEF Lent, Lease
    <3> QED BY <3>1, <3>2, <3>3, <3>4, <3>5, SizesAreNat
  <2>2. CASE x.validation = None /\ covered
    <3> DEFINE v == [w EXCEPT !.job = None]
    <3>1. /\ Shape(v) /\ v.pending = None /\ v.retired = held[s] /\ v.open = x.open /\ v.meta = x.meta
          /\ v.validation = None /\ v.source = x.source /\ v.job = None
          /\ v.published = x.published /\ v.disposed = x.disposed
          /\ v.lastSequence = x.lastSequence
      BY <1>1, <1>3, <2>2 DEF Shape, Fields
    <3>2. y = v
      BY <2>2
    <3> HIDE DEF v, y
    <3>3. Booked(v, held[s]) /\ Metered(v)
      BY <1>1, <1>3, <2>2, <3>1 DEF Booked, Metered
    <3>4. Lent(v) = Lent(x)
      <4>1. ReadBytes * Cardinality(v.retired) = Lent(x) /\ Lent(x) \in Nat
        BY <1>1, <1>3, <2>2, <3>1, PartsAreNat
      <4> QED BY <3>1, <4>1 DEF Lent, Lease
    <3>5. x.meta <= x.meta
      BY <1>1, PartsAreNat
    <3> QED BY <3>1, <3>2, <3>3, <3>4, <3>5
  <2>3. CASE x.validation = None /\ ~covered
    <3>1. y = x
      BY <2>3
    <3>2. x.meta <= x.meta
      BY <1>1, PartsAreNat
    <3> QED BY <1>1, <3>1, <3>2 DEF SInv
  <2> QED BY <2>1, <2>2, <2>3
<1> HIDE DEF y
<1>5. /\ z.pending = y.pending /\ z.retired = y.retired /\ z.open = y.open /\ z.meta = y.meta
      /\ z.validation = y.validation /\ z.source = y.source /\ z.job = y.job
      /\ z.published = y.published /\ z.disposed = y.disposed /\ z.lastSequence = y.lastSequence
  BY <1>4 DEF Shape, Fields
<1> HIDE DEF z
<1>6. Booked(z, held[s]) /\ Metered(z) /\ Lent(z) = Lent(y)
  BY <1>4, <1>5 DEF Booked, Metered, Lent
<1>7. LocalBytes(z) = LocalBytes(x) + d /\ ledger' = ledger + d /\ d \in Int /\ d <= 0
  <2>1. Lease(y.job, JobBytes) <= Lease(x.job, JobBytes)
    BY <1>4, SizesAreNat DEF Lease
  <2> QED BY <1>1, <1>2, <1>4, <1>5, <1>6, <2>1, PartsAreNat, LedgerIsInt
<1> HIDE DEF d
<1>8. Charges(s, z, held[s])
  BY <1>2, <1>6, <1>7, Settles DEF x
<1> QED BY <1>8

(* All but the reads a host still has is given back.                       *)
LEMMA DisposePays ==
    ASSUME IInv, CInv, NEW s \in Sessions, Dispose(s)
    PROVE  \E y, h : Charges(s, y, h)
<1> DEFINE x == sess[s]
           w == RetirePending(x)
           y == [w EXCEPT !.job = None, !.published = None, !.source = FALSE, !.validation = None,
                          !.meta = Overhead, !.disposed = TRUE]
           c == [Closed EXCEPT !.disposed = TRUE]
           z == IF Outstanding(y) THEN y ELSE c
<1>1. SInv(x) /\ Booked(x, held[s]) /\ Metered(x) /\ x.open
  BY DEF IInv, CInv, Paid, Dispose
<1>2. held' = [held EXCEPT ![s] = held[s]] /\ UNCHANGED held
  BY HeldIs DEF Dispose
<1>3. CASE ~CanRetire(x)
  <2>1. sess' = [sess EXCEPT ![s] = x] /\ UNCHANGED ledger
    BY <1>3 DEF Dispose, IInv
  <2> QED BY <1>1, <1>2, <2>1, CostsNothing
<1>4. CASE CanRetire(x)
  <2> DEFINE d == LocalBytes(z) - LocalBytes(x)
  <2>1. sess' = [sess EXCEPT ![s] = z] /\ ledger' = ledger - (LocalBytes(x) - LocalBytes(z))
    BY <1>4 DEF Dispose
  <2> HIDE DEF x
  <2>2. /\ Shape(w) /\ w.pending = None /\ w.retired = held[s] /\ w.open = x.open
        /\ w.lastSequence = x.lastSequence
        /\ IsFiniteSet(held[s]) /\ held[s] \subseteq Tickets /\ Cardinality(held[s]) <= MaxRetired
        /\ (\A t \in held[s] : t.seq <= x.lastSequence)
        /\ ReadBytes * Cardinality(held[s]) = Lent(x)
    BY <1>1, <1>4, RetiresPay
  <2> HIDE DEF w
  <2>3. /\ y.pending = None /\ y.retired = held[s] /\ y.open = x.open /\ y.meta = Overhead
        /\ y.validation = None /\ y.source = FALSE /\ y.job = None /\ y.published = None
        /\ y.disposed = TRUE /\ y.lastSequence = x.lastSequence
    BY <2>2 DEF Shape, Fields
  <2>4. /\ c.pending = None /\ c.retired = {} /\ c.open = FALSE /\ c.meta = 0
        /\ c.validation = None /\ c.source = FALSE /\ c.job = None /\ c.published = None
        /\ c.disposed = TRUE /\ c.lastSequence = 0
    BY DEF Closed
  <2> HIDE DEF y, c
  <2>5. Booked(y, held[s]) /\ Metered(y)
    BY <1>1, <2>2, <2>3 DEF Booked, Metered
  <2>6. Lent(y) = Lent(x)
    <3>1. ReadBytes * Cardinality(y.retired) = Lent(x) /\ Lent(x) \in Nat
      BY <1>1, <2>2, <2>3, PartsAreNat
    <3> QED BY <2>3, <3>1 DEF Lent, Lease
  <2>7. LocalBytes(y) \in Nat /\ LocalBytes(y) <= LocalBytes(x)
    <3>1. Lease(y.job, JobBytes) = 0 /\ Lease(y.published, ResultBytes) = 0
      BY <2>3 DEF Lease
    <3>2. Overhead <= x.meta
      BY <1>1, SizesAreNat DEF Metered
    <3> QED BY <1>1, <2>3, <2>5, <2>6, <3>1, <3>2, PartsAreNat
  <2>8. CASE Outstanding(y)
    <3>1. z = y
      BY <2>8
    <3>2. Booked(z, held[s]) /\ Metered(z)
      BY <2>5, <3>1
    <3>3. LocalBytes(z) = LocalBytes(x) + d /\ ledger' = ledger + d /\ d \in Int /\ d <= 0
      <4> HIDE DEF z
      <4> QED BY <1>1, <2>1, <2>7, <3>1, PartsAreNat, LedgerIsInt
    <3> HIDE DEF d, z
    <3>4. Charges(s, z, held[s])
      BY <1>2, <2>1, <3>2, <3>3, Settles DEF x
    <3> QED BY <3>4
  <2>9. CASE ~Outstanding(y)
    <3>1. z = c /\ held[s] = {}
      BY <2>3, <2>9 DEF Outstanding
    <3>2. Booked(z, held[s]) /\ Metered(z)
      <4> HIDE DEF z
      <4>1. Booked(c, {})
        BY <2>4, FS_EmptySet, SizesAreNat DEF Booked
      <4>2. Metered(c)
        BY <2>4 DEF Metered
      <4> QED BY <3>1, <4>1, <4>2
    <3>3. LocalBytes(z) = 0
      <4> HIDE DEF z
      <4> QED BY <2>4, <3>1, FS_EmptySet, SizesAreNat DEF LocalBytes, Lease
    <3>4. LocalBytes(z) = LocalBytes(x) + d /\ ledger' = ledger + d /\ d \in Int /\ d <= 0
      <4> HIDE DEF z
      <4> QED BY <1>1, <2>1, <3>3, PartsAreNat, LedgerIsInt
    <3> HIDE DEF d, z
    <3>5. Charges(s, z, held[s])
      BY <1>2, <2>1, <3>2, <3>4, Settles DEF x
    <3> QED BY <3>5
  <2> QED BY <2>8, <2>9
<1> QED BY <1>3, <1>4
-----------------------------------------------------------------------------
LEMMA InitPays == Init => CInv
<1> SUFFICES ASSUME Init PROVE CInv
  OBVIOUS
<1>1. /\ Closed.open = FALSE /\ Closed.meta = 0 /\ Closed.validation = None /\ Closed.source = FALSE
      /\ Closed.job = None /\ Closed.published = None /\ Closed.pending = None
      /\ Closed.retired = {} /\ Closed.disposed = FALSE
  BY DEF Closed
<1>2. Booked(Closed, {}) /\ Metered(Closed)
  <2> HIDE DEF Closed
  <2>1. Booked(Closed, {})
    BY <1>1, FS_EmptySet, SizesAreNat DEF Booked
  <2>2. Metered(Closed)
    BY <1>1 DEF Metered
  <2> QED BY <2>1, <2>2
<1>3. LocalBytes(Closed) = 0
  BY <1>1, FS_EmptySet, SizesAreNat DEF LocalBytes, Lease
<1>4. \A s \in Sessions : sess[s] = Closed /\ held[s] = {}
  BY DEF Init
<1>5. SumFunctionOnSet(Bytes, Sessions) = 0
  <2>1. \A s \in Sessions : Bytes[s] = 0
    BY <1>3, <1>4 DEF Bytes
  <2> QED BY <2>1, SumZero, SessionsAssumption
<1>6. \A s \in Sessions : Paid(sess[s], held[s])
  BY <1>2, <1>3, <1>4, SizesAreNat DEF Paid
<1> QED BY <1>5, <1>6, SizesAreNat DEF CInv, Init

LEMMA NextPays == ASSUME IInv, CInv, [Next]_vars PROVE CInv'
<1>1. CASE UNCHANGED vars
  <2>1. Bytes' = Bytes
    BY <1>1 DEF vars, Bytes
  <2> QED BY <1>1, <2>1 DEF vars, CInv
<1>2. CASE Next
  <2>1. PICK s \in Sessions :
            \/ Create(s) \/ StepValidation(s) \/ StepJob(s) \/ Supply(s) \/ Dispose(s)
            \/ \E n \in 1..MaxSequence, snap \in Snapshots : Begin(s, n, snap)
            \/ \E through \in 0..MaxSequence : Cancel(s, through)
            \/ \E t \in held[s] : Release(s, t)
    BY <1>2 DEF Next
  <2>2. \E y, h : Charges(s, y, h)
    BY <2>1, CreatePays, StepValidationPays, StepJobPays, SupplyPays, DisposePays, BeginPays,
       CancelPays, ReleasePays
  <2>3. closing' \subseteq Sessions
    BY <2>1 DEF Create, StepValidation, StepJob, Supply, Dispose, Begin, Cancel, Release, Issue, CInv
  <2> QED BY <2>2, <2>3, ChargesKeep
<1> QED BY <1>1, <1>2

(* For any sessions, limits and sizes: bytes are what the sessions hold     *)
(* and within the limits, each read a host has buffers for is charged, and *)
(* a read that was not supplied is the next one of the work in progress.   *)
THEOREM EveryByteIsCharged == Spec => []Consistent
<1>1. CInv /\ IInv => Consistent
  <2> SUFFICES ASSUME CInv, IInv PROVE Consistent
    OBVIOUS
  <2>1. SessionTypeOK
    <3>1. ledger \in Nat
      BY LedgerIsInt
    <3>2. held \in [Sessions -> SUBSET Tickets]
      BY DEF CInv, Paid, Booked
    <3>3. ASSUME NEW s \in Sessions
          PROVE LET x == sess[s] IN
                /\ x.open \in BOOLEAN /\ x.disposed \in BOOLEAN /\ x.source \in BOOLEAN
                /\ x.meta \in {0, BuildBytes, SourceBytes, Overhead}
                /\ x.validation # None => x.validation \in 1..(Chunks + 1)
                /\ x.job # None => JobType(x.job)
                /\ x.published # None => JobType(x.published)
                /\ x.pending # None => x.pending \in Pendings
                /\ x.retired \subseteq Tickets /\ Cardinality(x.retired) <= MaxRetired
      <4>1. SInv(sess[s]) /\ Booked(sess[s], held[s]) /\ Metered(sess[s])
        BY DEF IInv, CInv, Paid
      <4>2. sess[s].pending # None => sess[s].pending \in Pendings
        <5> DEFINE p == sess[s].pending
                   q == [ticket |-> p.ticket, consumed |-> p.consumed]
        <5> SUFFICES ASSUME p # None PROVE p \in Pendings
          OBVIOUS
        <5>1. ReadShape(p) /\ p.ticket \in Tickets /\ p.consumed \in BOOLEAN
          BY <4>1 DEF SInv, Typed, Booked
        <5>2. q \in Pendings /\ ReadShape(q) /\ q.ticket = p.ticket /\ q.consumed = p.consumed
          BY <5>1 DEF Pendings, ReadShape
        <5> HIDE DEF p, q
        <5>3. p = q
          BY <5>1, <5>2 DEF ReadShape
        <5> QED BY <5>2, <5>3
      <4> QED BY <4>1, <4>2 DEF Booked, Metered
    <3> QED BY <3>1, <3>2, <3>3 DEF SessionTypeOK, CInv
  <2>2. TicketIsCurrent
    BY CurrentTickets
  <2>3. Charged
    BY DEF Charged, CInv, Paid, Booked
  <2> QED BY <2>1, <2>2, <2>3 DEF Consistent
<1>2. CInv /\ IInv /\ [Next]_vars => CInv'
  BY NextPays
<1> QED BY <1>1, <1>2, InitPays, Invariant, PTL DEF Spec
-----------------------------------------------------------------------------

Receipts == [birth : Births, confirmed : BOOLEAN]
Stamps == [birth : Births, confirmed : BOOLEAN, forgotten : BOOLEAN]
Attempts ==
    [phase : {"none", "admitting", "rejected", "open", "closing", "closed"},
     target : Births \cup {NoTarget}, uncertain : BOOLEAN, retired : BOOLEAN, confirmed : BOOLEAN,
     asked : BOOLEAN, disposed : BOOLEAN]
SlotType == [nonce : Nonces \cup {0}, dead : BOOLEAN, journal : Nonces \cup {0}]

The(i, n) == [issuer |-> i, nonce |-> n, copy |-> 1]
Genuine(b) == b = The(b.issuer, b.nonce) /\ made[b.issuer][b.nonce] = 1
Kept(b) == \E r \in receipts : r.birth = b

BankTyped ==
    /\ issuers \subseteq Issuers /\ live \subseteq Births
    /\ made \in [Issuers -> [Nonces -> Nat]]
    /\ receipts \subseteq Receipts /\ stamps \subseteq Stamps

(* Whatever the bank knows was born, and born once; what is live can be    *)
(* cleaned up.                                                             *)
BankSound ==
    /\ \A b \in live : Stamped(b)
    /\ \A r \in receipts : Genuine(r.birth)
    /\ \A s \in stamps : Genuine(s.birth)

Sized ==
    /\ IsFiniteSet(receipts) /\ Cardinality(receipts) <= Slots
    /\ IsFiniteSet(stamps) /\ Cardinality(stamps) <= Slots

(* An attempt x at birth b, when the newest nonce is latest, b was executed *)
(* times times, is live or not, and has a receipt or not.                  *)
Sound(x, b, latest, times, alive, kept) ==
    /\ times \in {0, 1}
    /\ x.phase = "none" <=> b.nonce > latest
    /\ x.phase = "none" => x.target = NoTarget /\ ~x.retired /\ ~x.confirmed
    /\ b.nonce < latest => x.phase # "admitting"
    /\ x.phase \in {"none", "rejected"} => times = 0
    /\ x.phase \in {"open", "closing", "closed"} => x.confirmed
    /\ x.phase \in {"open", "closing"} => x.target # NoTarget
    /\ x.confirmed \/ x.retired => times = 1
    /\ x.target # NoTarget => x.target = b /\ times = 1
    /\ x.phase = "admitting" /\ x.confirmed => x.retired
    /\ x.phase = "admitting" /\ times = 1 => kept /\ (x.uncertain \/ x.target # NoTarget \/ x.retired)
    /\ alive => x.phase \in {"admitting", "open", "closing"}

HostTyped ==
    /\ slot \in [Issuers -> SlotType]
    /\ attempt \in [Issuers -> [Nonces -> Attempts]]

HostSound ==
    \A i \in Issuers, n \in Nonces :
        Sound(attempt[i][n], The(i, n), slot[i].nonce, made[i][n], The(i, n) \in live, Kept(The(i, n)))

Inv == BankTyped /\ BankSound /\ Sized /\ HostTyped /\ HostSound

USE BoundsAssumption, NoTargetAssumption
-----------------------------------------------------------------------------
LEMMA NoncesAreNumbers == Nonces \subseteq Nat \ {0}
BY DEF Nonces

LEMMA LatestIsANumber ==
  ASSUME HostTyped, NEW i \in Issuers
  PROVE  slot[i].nonce \in Nat
<1>1. slot[i].nonce \in Nonces \cup {0}
  BY DEF HostTyped, SlotType
<1> SUFFICES ASSUME slot[i].nonce \in Nonces
             PROVE  slot[i].nonce \in Nat
  BY <1>1
<1> QED BY NoncesAreNumbers

LEMMA TheIsABirth ==
  ASSUME NEW i \in Issuers, NEW n \in Nonces
  PROVE  /\ The(i, n) \in Births /\ The(i, n).issuer = i /\ The(i, n).nonce = n
         /\ The(i, n) # NoTarget
BY DEF The, Births

(* Changing one attempt. *)
LEMMA OneAttempt ==
  ASSUME HostTyped, NEW i \in Issuers, NEW n \in Nonces, NEW y \in Attempts,
         attempt' = [attempt EXCEPT ![i][n] = y]
  PROVE  /\ attempt' \in [Issuers -> [Nonces -> Attempts]]
         /\ attempt'[i][n] = y
         /\ \A j \in Issuers, m \in Nonces : j # i \/ m # n => attempt'[j][m] = attempt[j][m]
BY DEF HostTyped

-----------------------------------------------------------------------------
(* The bank's commands. *)

LEMMA Committed ==
  ASSUME NEW R \in SUBSET Receipts, NEW S \in SUBSET Stamps, NEW L \in SUBSET Births,
         Commit(R, S, L), issuers' \subseteq Issuers, made' \in [Issuers -> [Nonces -> Nat]],
         \A b \in L : \E s \in S : s.birth = b,
         \A r \in R : Genuine(r.birth)', \A s \in S : Genuine(s.birth)',
         IsFiniteSet(R), Cardinality(R) <= Slots, IsFiniteSet(S), Cardinality(S) <= Slots
  PROVE  BankTyped' /\ BankSound' /\ Sized'
<1>1. BankTyped'
  BY DEF BankTyped, Commit
<1>2. BankSound'
  BY DEF BankSound, Commit, Stamped, Genuine, The
<1>3. stamps' \subseteq S /\ receipts' = R
  BY DEF Commit
<1>4. IsFiniteSet(stamps') /\ Cardinality(stamps') <= Cardinality(S)
  BY <1>3, FS_Subset
<1>5. Cardinality(stamps') \in Nat /\ Cardinality(S) \in Nat
  BY <1>4, FS_CardinalityType
<1>6. Sized'
  BY <1>3, <1>4, <1>5 DEF Sized
<1> QED BY <1>1, <1>2, <1>6

(* Replacing every member of a set by another makes it no larger. *)
LEMMA ImageNoLarger ==
  ASSUME NEW S, IsFiniteSet(S), NEW f, f = [s \in S |-> f[s]],
         Cardinality(S) <= Slots
  PROVE  IsFiniteSet({f[s] : s \in S}) /\ Cardinality({f[s] : s \in S}) <= Slots
<1> DEFINE T == {f[s] : s \in S}
<1>1. f \in Surjection(S, T)
  BY DEF Surjection
<1>2. IsFiniteSet(T) /\ Cardinality(T) <= Cardinality(S)
  <2> HIDE DEF T
  <2> QED BY <1>1, FS_Surjection
<1>3. Cardinality(T) \in Nat /\ Cardinality(S) \in Nat
  BY <1>2, FS_CardinalityType
<1> QED BY <1>2, <1>3

LEMMA ConfirmsKeeps ==
  ASSUME BankTyped, BankSound, Sized, NEW b, Confirms(b), UNCHANGED issuers
  PROVE  /\ BankTyped' /\ BankSound' /\ Sized'
         /\ made' = made /\ live' = live /\ \A c : Kept(c)' <=> Kept(c)
<1> DEFINE f == [r \in receipts |-> IF r.birth = b THEN [r EXCEPT !.confirmed = TRUE] ELSE r]
           g == [s \in stamps |-> IF s.birth = b THEN [s EXCEPT !.confirmed = TRUE] ELSE s]
           R == {f[r] : r \in receipts}
           S == {g[s] : s \in stamps}
<1>1. Commit(R, S, live) /\ made' = made
  BY DEF Confirms
<1>2. /\ \A r \in receipts : f[r] \in Receipts /\ f[r].birth = r.birth
      /\ \A s \in stamps : g[s] \in Stamps /\ g[s].birth = s.birth
  BY DEF BankTyped, Receipts, Stamps
<1>3. IsFiniteSet(R) /\ Cardinality(R) <= Slots /\ IsFiniteSet(S) /\ Cardinality(S) <= Slots
  <2>1. f = [r \in receipts |-> f[r]] /\ g = [s \in stamps |-> g[s]]
    OBVIOUS
  <2> HIDE DEF f, g
  <2> QED BY <2>1, ImageNoLarger DEF Sized
<1> HIDE DEF f, g
<1>4. R \subseteq Receipts /\ S \subseteq Stamps
  BY <1>2
<1>5. /\ \A r \in R : \E q \in receipts : q.birth = r.birth
      /\ \A q \in receipts : \E r \in R : r.birth = q.birth
      /\ \A s \in S : \E q \in stamps : q.birth = s.birth
      /\ \A q \in stamps : \E s \in S : s.birth = q.birth
  BY <1>2
<1> HIDE DEF R, S
<1>6. BankTyped' /\ BankSound' /\ Sized'
  <2>1. live \subseteq Births /\ issuers' \subseteq Issuers /\ made' \in [Issuers -> [Nonces -> Nat]]
    BY <1>1 DEF BankTyped
  <2>2. \A c \in live : \E s \in S : s.birth = c
    BY <1>5 DEF BankSound, Stamped
  <2>3. (\A r \in R : Genuine(r.birth)') /\ (\A s \in S : Genuine(s.birth)')
    BY <1>1, <1>5 DEF BankSound, Genuine
  <2> QED BY <1>1, <1>3, <1>4, <2>1, <2>2, <2>3, Committed
<1>7. live' = live /\ \A c : Kept(c)' <=> Kept(c)
  BY <1>1, <1>5 DEF Commit, Kept
<1> QED BY <1>1, <1>6, <1>7

(* Something leaves the phase it was allocated for. *)
LEMMA RetiresKeeps ==
  ASSUME BankTyped, BankSound, Sized, NEW b, Commit(receipts, stamps, live \ {b}),
         issuers' \subseteq Issuers, made' = made
  PROVE  /\ BankTyped' /\ BankSound' /\ Sized'
         /\ made' = made /\ live' \subseteq live /\ \A c : Kept(c)' <=> Kept(c)
<1>1. BankTyped' /\ BankSound' /\ Sized'
  <2>1. /\ receipts \subseteq Receipts /\ stamps \subseteq Stamps /\ live \ {b} \subseteq Births
        /\ made' \in [Issuers -> [Nonces -> Nat]]
    BY DEF BankTyped
  <2>2. \A c \in live \ {b} : \E s \in stamps : s.birth = c
    BY DEF BankSound, Stamped
  <2>3. (\A r \in receipts : Genuine(r.birth)') /\ (\A s \in stamps : Genuine(s.birth)')
    BY DEF BankSound, Genuine
  <2> QED BY <2>1, <2>2, <2>3, Committed DEF Sized
<1>2. live' \subseteq live /\ \A c : Kept(c)' <=> Kept(c)
  BY DEF Commit, Kept
<1> QED BY <1>1, <1>2

(* A stamp is given up only when its target is not live. *)
LEMMA ReleasesKeeps ==
  ASSUME BankTyped, BankSound, Sized, NEW i \in Issuers, NEW n \in Nonces, NEW target \in Births \cup {NoTarget},
         Releases(i, n, target), UNCHANGED issuers
  PROVE  /\ BankTyped' /\ BankSound' /\ Sized'
         /\ made' = made /\ live' = live /\ \A c : Kept(c)' <=> Kept(c)
         /\ target \notin live /\ (target = NoTarget /\ Kept(The(i, n)) => The(i, n) \notin live)
<1> DEFINE Gone(b) == {s \in stamps : s.birth # b}
<1>1. \A b : b \in Subject(i, n, target) => target \in {b, NoTarget} /\ (target = NoTarget => b \in Replays(i, n))
  BY DEF Subject, BankTyped, Stamps
<1>2. PICK S \in SUBSET stamps : /\ Commit(receipts, S, live)
                                 /\ \A s \in stamps : s.birth \in live => s \in S
                                 /\ target \notin live
                                 /\ target = NoTarget => \E b \in Replays(i, n) : b \notin live
  <2>1. CASE Replays(i, n) = {} /\ target # NoTarget /\ Subject(i, n, target) = {} /\ Commit(receipts, stamps, live)
    <3>1. \A s \in stamps : s.birth # target
      BY <2>1 DEF Subject
    <3>2. target \notin live
      BY <3>1 DEF BankSound, Stamped
    <3> QED BY <2>1, <3>2
  <2>2. ASSUME NEW b \in Subject(i, n, target), ~AllocationLive(b),
               Commit(receipts, Gone(b), live)
        PROVE  \E S \in SUBSET stamps : /\ Commit(receipts, S, live)
                                        /\ \A s \in stamps : s.birth \in live => s \in S
                                        /\ target \notin live
                                        /\ target = NoTarget => \E c \in Replays(i, n) : c \notin live
    <3>1. b \notin live
      BY <2>2 DEF BankSound, AllocationLive
    <3>2. target \notin live
      BY <1>1, <2>2, <3>1 DEF BankTyped
    <3>3. target = NoTarget => \E c \in Replays(i, n) : c \notin live
      BY <1>1, <2>2, <3>1
    <3> QED BY <2>2, <3>1, <3>2, <3>3
  <2> QED BY <2>1, <2>2 DEF Releases
<1>3. made' = made
  BY DEF Releases
<1>4. BankTyped' /\ BankSound' /\ Sized'
  <2>1. /\ receipts \subseteq Receipts /\ S \subseteq Stamps /\ live \subseteq Births
        /\ made' \in [Issuers -> [Nonces -> Nat]] /\ issuers' \subseteq Issuers
    BY <1>3 DEF BankTyped
  <2>2. \A c \in live : \E s \in S : s.birth = c
    BY <1>2 DEF BankSound, Stamped
  <2>3. (\A r \in receipts : Genuine(r.birth)') /\ (\A s \in S : Genuine(s.birth)')
    BY <1>3 DEF BankSound, Genuine
  <2>4. IsFiniteSet(S) /\ Cardinality(S) <= Cardinality(stamps)
    BY FS_Subset DEF Sized
  <2>5. Cardinality(S) \in Nat /\ Cardinality(stamps) \in Nat
    BY <2>4, FS_CardinalityType DEF Sized
  <2>6. Cardinality(S) <= Slots
    BY <2>4, <2>5 DEF Sized
  <2> QED BY <1>2, <2>1, <2>2, <2>3, <2>4, <2>6, Committed DEF Sized
<1>5. live' = live /\ \A c : Kept(c)' <=> Kept(c)
  BY <1>2 DEF Commit, Kept
<1>6. \A b \in Replays(i, n) : b = The(i, n)
  BY DEF Replays, ReceiptsOf, BankSound, Genuine
<1> QED BY <1>2, <1>3, <1>4, <1>5, <1>6

(* Only the receipt of the nonce that is forgotten goes. *)
LEMMA ForgetsKeeps ==
  ASSUME BankTyped, BankSound, Sized, NEW i \in Issuers, NEW n \in Nonces, NEW target \in Births \cup {NoTarget},
         Forgets(i, n, target), UNCHANGED issuers
  PROVE  /\ BankTyped' /\ BankSound' /\ Sized'
         /\ made' = made /\ live' = live
         /\ \A c : c # The(i, n) => (Kept(c)' <=> Kept(c))
<1>1. made' = made
  BY DEF Forgets
<1>2. CASE Replays(i, n) = {} /\ Commit(receipts, stamps, live)
  <2>1. BankTyped' /\ BankSound' /\ Sized'
    <3>1. /\ receipts \subseteq Receipts /\ stamps \subseteq Stamps /\ live \subseteq Births
          /\ made' \in [Issuers -> [Nonces -> Nat]] /\ issuers' \subseteq Issuers
      BY <1>1 DEF BankTyped
    <3>2. \A c \in live : \E s \in stamps : s.birth = c
      BY DEF BankSound, Stamped
    <3>3. (\A r \in receipts : Genuine(r.birth)') /\ (\A s \in stamps : Genuine(s.birth)')
      BY <1>1 DEF BankSound, Genuine
    <3> QED BY <1>2, <3>1, <3>2, <3>3, Committed DEF Sized
  <2> QED BY <1>1, <1>2, <2>1 DEF Commit, Kept
<1>3. ASSUME Replays(i, n) # {}, NEW b \in Subject(i, n, target),
             Commit({r \in receipts : r.birth # b},
                    {IF s.birth = b THEN [s EXCEPT !.forgotten = TRUE] ELSE s : s \in stamps}, live)
      PROVE  /\ BankTyped' /\ BankSound' /\ Sized'
             /\ made' = made /\ live' = live
             /\ \A c : c # The(i, n) => (Kept(c)' <=> Kept(c))
  <2> DEFINE g == [s \in stamps |-> IF s.birth = b THEN [s EXCEPT !.forgotten = TRUE] ELSE s]
             R == {r \in receipts : r.birth # b}
             S == {g[s] : s \in stamps}
  <2>1. Commit(R, S, live)
    BY <1>3
  <2>2. b = The(i, n)
    BY <1>3 DEF Subject, Replays, ReceiptsOf, BankSound, Genuine
  <2>3. \A s \in stamps : g[s] \in Stamps /\ g[s].birth = s.birth
    BY DEF BankTyped, Stamps
  <2>4. IsFiniteSet(S) /\ Cardinality(S) <= Slots
    <3>1. g = [s \in stamps |-> g[s]]
      OBVIOUS
    <3> HIDE DEF g
    <3> QED BY <3>1, ImageNoLarger DEF Sized
  <2> HIDE DEF g
  <2>5. /\ S \subseteq Stamps
        /\ \A s \in S : \E q \in stamps : q.birth = s.birth
        /\ \A q \in stamps : \E s \in S : s.birth = q.birth
    BY <2>3
  <2> HIDE DEF S
  <2>6. IsFiniteSet(R) /\ Cardinality(R) <= Slots
    <3>1. IsFiniteSet(R) /\ Cardinality(R) <= Cardinality(receipts)
      BY FS_Subset DEF Sized
    <3>2. Cardinality(R) \in Nat /\ Cardinality(receipts) \in Nat
      BY <3>1, FS_CardinalityType DEF Sized
    <3> QED BY <3>1, <3>2 DEF Sized
  <2>7. BankTyped' /\ BankSound' /\ Sized'
    <3>1. /\ R \subseteq Receipts /\ live \subseteq Births
          /\ made' \in [Issuers -> [Nonces -> Nat]] /\ issuers' \subseteq Issuers
      BY <1>1 DEF BankTyped
    <3>2. \A c \in live : \E s \in S : s.birth = c
      BY <2>5 DEF BankSound, Stamped
    <3>3. (\A r \in R : Genuine(r.birth)') /\ (\A s \in S : Genuine(s.birth)')
      BY <1>1, <2>5 DEF BankSound, Genuine
    <3> HIDE DEF R
    <3> QED BY <2>1, <2>4, <2>5, <2>6, <3>1, <3>2, <3>3, Committed
  <2> QED BY <1>1, <2>1, <2>2, <2>7 DEF Commit, Kept
<1> QED BY <1>2, <1>3 DEF Forgets

(* A nonce that was never executed is executed, and others keep what they  *)
(* need: its issuer's older receipts go.                                   *)
LEMMA AllocatesSoundly ==
  ASSUME BankTyped, BankSound, Sized, NEW i \in Issuers, NEW n \in Nonces,
         Allocated(i, n), made[i][n] = 0, UNCHANGED issuers
  PROVE  /\ BankTyped' /\ BankSound' /\ Sized'
         /\ NewBirth(i, n) = The(i, n)
         /\ made' = [made EXCEPT ![i][n] = 1]
         /\ live' = live \cup {The(i, n)}
         /\ Kept(The(i, n))'
         /\ \A c : c.issuer # i /\ Kept(c) => Kept(c)'
<1> DEFINE r == [birth |-> The(i, n), confirmed |-> FALSE]
           s == [birth |-> The(i, n), confirmed |-> FALSE, forgotten |-> FALSE]
           Older == receipts \ ReceiptsOf(i)
           R == Older \cup {r}
           S == stamps \cup {s}
           L == live \cup {The(i, n)}
<1>1. NewBirth(i, n) = The(i, n)
  BY DEF NewBirth, The, BankTyped
<1>2. made' = [made EXCEPT ![i][n] = 1] /\ made' \in [Issuers -> [Nonces -> Nat]]
  BY DEF Allocated, BankTyped
<1>3. Commit(R, S, L) /\ HasRoom(i)
  BY <1>1 DEF Allocated
<1>r. /\ r \in Receipts /\ r.birth = The(i, n)
      /\ s \in Stamps /\ s.birth = The(i, n)
      /\ The(i, n) \in Births
  BY TheIsABirth DEF Receipts, Stamps
<1> HIDE DEF r, s
<1>4. R \in SUBSET Receipts /\ S \in SUBSET Stamps /\ L \in SUBSET Births
  BY <1>r DEF BankTyped
<1>5. \A c \in Births : Genuine(c) => Genuine(c)'
  BY <1>2 DEF Genuine, The, BankTyped, Births
<1>6. Genuine(The(i, n))'
  BY <1>2, TheIsABirth DEF Genuine, BankTyped
<1>7. /\ \A q \in R : Genuine(q.birth)'
      /\ \A q \in S : Genuine(q.birth)'
      /\ \A c \in L : \E q \in S : q.birth = c
  <2>1. /\ \A q \in receipts : q.birth \in Births /\ Genuine(q.birth)
        /\ \A q \in stamps : q.birth \in Births /\ Genuine(q.birth)
    BY DEF BankSound, BankTyped, Receipts, Stamps
  <2>2. (\A q \in receipts : Genuine(q.birth)') /\ (\A q \in stamps : Genuine(q.birth)')
    BY <2>1, <1>5
  <2>3. Genuine(r.birth)' /\ Genuine(s.birth)'
    BY <1>r, <1>6
  <2>4. \A c \in L : \E q \in S : q.birth = c
    BY <1>r DEF BankSound, Stamped
  <2> QED BY <2>2, <2>3, <2>4
<1>8. IsFiniteSet(R) /\ Cardinality(R) <= Slots
  <2>1. IsFiniteSet(Older) /\ Cardinality(Older) <= Cardinality(receipts)
        /\ (Cardinality(receipts) = Cardinality(Older) => Older = receipts)
    BY FS_Subset DEF Sized
  <2>2. Cardinality(Older) \in Nat /\ Cardinality(receipts) \in Nat
    BY <2>1, FS_CardinalityType DEF Sized
  <2>3. Cardinality(Older) < Slots
    <3>1. CASE ReceiptsOf(i) = {}
      BY <1>3, <2>1, <2>2, <3>1 DEF HasRoom, Sized
    <3>2. CASE ReceiptsOf(i) # {}
      <4>1. Older # receipts
        BY <3>2 DEF ReceiptsOf
      <4> QED BY <4>1, <2>1, <2>2 DEF Sized
    <3> QED BY <3>1, <3>2
  <2> HIDE DEF Older
  <2>4. IsFiniteSet(R) /\ Cardinality(R) = IF r \in Older THEN Cardinality(Older) ELSE Cardinality(Older) + 1
    BY <2>1, FS_AddElement
  <2> QED BY <2>2, <2>3, <2>4
<1>9. IsFiniteSet(S) /\ Cardinality(S) <= Slots
  <2>1. Cardinality(stamps) \in Nat /\ Cardinality(stamps) < Slots
    BY <1>3, FS_CardinalityType DEF HasRoom, Sized
  <2>2. IsFiniteSet(S) /\ Cardinality(S) = IF s \in stamps THEN Cardinality(stamps) ELSE Cardinality(stamps) + 1
    BY FS_AddElement DEF Sized
  <2> QED BY <2>1, <2>2
<1>10. BankTyped' /\ BankSound' /\ Sized'
  <2>1. issuers' \subseteq Issuers
    BY DEF BankTyped
  <2> HIDE DEF R, S, L
  <2> QED BY <1>2, <1>3, <1>4, <1>7, <1>8, <1>9, <2>1, Committed
<1>11. live' = L /\ receipts' = R
  BY <1>3 DEF Commit
<1>12. Kept(The(i, n))'
  BY <1>11, <1>r DEF Kept
<1>13. \A c : c.issuer # i /\ Kept(c) => Kept(c)'
  BY <1>11 DEF Kept, ReceiptsOf
<1> QED BY <1>1, <1>2, <1>10, <1>11, <1>12, <1>13
-----------------------------------------------------------------------------
(* A step at one attempt: the others are sound when their receipts stay    *)
(* where they are still needed.                                            *)
LEMMA OthersSound ==
  ASSUME Inv, NEW i \in Issuers, NEW n \in Nonces, NEW y \in Attempts,
         attempt' = [attempt EXCEPT ![i][n] = y],
         \A j \in Issuers : slot'[j].nonce = slot[j].nonce,
         \A j \in Issuers, m \in Nonces : j # i \/ m # n =>
            /\ made'[j][m] = made[j][m]
            /\ The(j, m) \in live' => The(j, m) \in live
            /\ attempt[j][m].phase = "admitting" /\ Kept(The(j, m)) => Kept(The(j, m))',
         Sound(y, The(i, n), slot[i].nonce, made'[i][n], The(i, n) \in live', Kept(The(i, n))')
  PROVE  HostSound'
<1> SUFFICES ASSUME NEW j \in Issuers, NEW m \in Nonces
             PROVE  Sound(attempt'[j][m], The(j, m), slot'[j].nonce, made'[j][m],
                          The(j, m) \in live', Kept(The(j, m))')
  BY DEF HostSound
<1>1. CASE j = i /\ m = n
  <2>1. attempt'[j][m] = y
    BY <1>1, OneAttempt DEF Inv
  <2> QED BY <1>1, <2>1
<1>2. CASE j # i \/ m # n
  <2>1. attempt'[j][m] = attempt[j][m]
    BY <1>2, OneAttempt DEF Inv
  <2>2. Sound(attempt[j][m], The(j, m), slot[j].nonce, made[j][m], The(j, m) \in live, Kept(The(j, m)))
    BY DEF Inv, HostSound
  <2>3. /\ The(j, m) \in live' => The(j, m) \in live
        /\ attempt[j][m].phase = "admitting" /\ Kept(The(j, m)) => Kept(The(j, m))'
        /\ made'[j][m] = made[j][m]
    BY <1>2
  <2>4. /\ (The(j, m) \in live) \in BOOLEAN /\ (The(j, m) \in live') \in BOOLEAN
        /\ Kept(The(j, m)) \in BOOLEAN /\ Kept(The(j, m))' \in BOOLEAN
    BY DEF Kept
  <2>5. Sound(attempt[j][m], The(j, m), slot[j].nonce, made[j][m], The(j, m) \in live', Kept(The(j, m))')
    BY <2>2, <2>3, <2>4 DEF Sound
  <2> QED BY <2>1, <2>3, <2>5
<1> QED BY <1>1, <1>2

LEMMA HostStaysTyped ==
  ASSUME HostTyped, NEW i \in Issuers, NEW n \in Nonces, NEW y \in Attempts,
         attempt' = [attempt EXCEPT ![i][n] = y], slot' \in [Issuers -> SlotType]
  PROVE  HostTyped'
BY OneAttempt DEF HostTyped

(* What is known of an attempt. *)
LEMMA Known ==
  ASSUME Inv, NEW i \in Issuers, NEW n \in Nonces
  PROVE  /\ attempt[i][n] \in Attempts
         /\ Sound(attempt[i][n], The(i, n), slot[i].nonce, made[i][n], The(i, n) \in live, Kept(The(i, n)))
         /\ \A b \in Replays(i, n) : b = The(i, n) /\ Kept(b) /\ made[i][n] = 1
         /\ Replays(i, n) = {} => ~Kept(The(i, n))
<1>1. \A b \in Replays(i, n) : b = The(i, n) /\ Kept(b) /\ made[i][n] = 1
  BY DEF Inv, BankSound, Genuine, Replays, ReceiptsOf, Kept
<1>2. Replays(i, n) = {} => ~Kept(The(i, n))
  BY TheIsABirth DEF Replays, ReceiptsOf, Kept
<1> QED BY <1>1, <1>2 DEF Inv, HostSound, HostTyped

(* A step that touches no attempt. *)
LEMMA QuietSound ==
  ASSUME Inv, UNCHANGED <<attempt, made>>, live' \subseteq live,
         \A j \in Issuers : slot'[j].nonce = slot[j].nonce,
         \A c : Kept(c) => Kept(c)'
  PROVE  HostSound'
BY DEF Inv, HostSound, Sound

LEMMA BankUntouched ==
  ASSUME Inv, UNCHANGED <<issuers, bank>>
  PROVE  BankTyped' /\ BankSound' /\ Sized' /\ (\A c : Kept(c)' <=> Kept(c)) /\ live' = live /\ made' = made
<1>1. UNCHANGED <<issuers, live, made, receipts, stamps>>
  BY DEF bank
<1>2. BankTyped' /\ Sized'
  BY <1>1 DEF Inv, BankTyped, Sized
<1>3. BankSound'
  BY <1>1 DEF Inv, BankSound, Stamped, Genuine
<1> QED BY <1>1, <1>2, <1>3 DEF Kept

(* A step at one attempt that leaves the bank's births as they are. *)
LEMMA StepAtOne ==
  ASSUME Inv, NEW i \in Issuers, NEW n \in Nonces, NEW y \in Attempts,
         attempt' = [attempt EXCEPT ![i][n] = y],
         slot' \in [Issuers -> SlotType], \A j \in Issuers : slot'[j].nonce = slot[j].nonce,
         BankTyped', BankSound', Sized', made' = made, live' \subseteq live,
         \A c : Kept(c) => Kept(c)',
         Sound(y, The(i, n), slot[i].nonce, made[i][n], The(i, n) \in live', Kept(The(i, n))')
  PROVE  Inv'
<1>1. HostSound'
  BY OthersSound
<1>2. HostTyped'
  BY HostStaysTyped DEF Inv
<1> QED BY <1>1, <1>2 DEF Inv

LEMMA SlotsUntouched ==
  ASSUME Inv, UNCHANGED slot
  PROVE  slot' \in [Issuers -> SlotType] /\ \A j \in Issuers : slot'[j].nonce = slot[j].nonce
BY DEF Inv, HostTyped
-----------------------------------------------------------------------------
LEMMA RetireStep ==
  ASSUME Inv, NEW b, Retire(b)
  PROVE  Inv'
<1>1. Commit(receipts, stamps, live \ {b}) /\ UNCHANGED <<issuers, made, slot, attempt>>
  BY DEF Retire
<1>2. /\ BankTyped' /\ BankSound' /\ Sized' /\ live' \subseteq live
      /\ \A c : Kept(c)' <=> Kept(c)
  BY <1>1, RetiresKeeps DEF Inv, BankTyped
<1>3. HostSound'
  BY <1>1, <1>2, QuietSound
<1> QED BY <1>1, <1>2, <1>3 DEF Inv, HostTyped

LEMMA CloseIssuerStep ==
  ASSUME Inv, NEW i \in Issuers, NEW got \in BOOLEAN, CloseIssuer(i, got)
  PROVE  Inv'
<1>1. issuers' \subseteq issuers /\ UNCHANGED <<live, made, receipts, stamps, attempt>>
  BY DEF CloseIssuer, bank
<1>2. BankTyped' /\ BankSound' /\ Sized'
  BY <1>1 DEF Inv, BankTyped, BankSound, Sized, Stamped, Genuine
<1>3. slot' \in [Issuers -> SlotType] /\ \A j \in Issuers : slot'[j].nonce = slot[j].nonce
  BY DEF CloseIssuer, Inv, HostTyped, SlotType
<1>4. HostSound'
  BY <1>1, <1>3, QuietSound DEF Kept
<1> QED BY <1>1, <1>2, <1>3, <1>4 DEF Inv, HostTyped

(* Earlier attempts were settled before the next one begins. *)
LEMMA BeginStep ==
  ASSUME Inv, NEW i \in Issuers, BeginAttempt(i)
  PROVE  Inv'
<1> DEFINE n == slot[i].nonce + 1
           y == FreshAttempt("admitting")
<1>1. /\ i \in issuers /\ n <= MaxNonce[i] /\ (n > 1 => Settled(attempt[i][n - 1]))
      /\ slot' = [slot EXCEPT ![i].nonce = n]
      /\ attempt' = [attempt EXCEPT ![i][n] = y]
      /\ UNCHANGED <<issuers, bank>>
  BY DEF BeginAttempt
<1>2. slot[i].nonce \in Nat /\ n \in Nonces /\ (n > 1 => n - 1 \in Nonces)
  <2>1. slot[i].nonce \in Nat
    BY LatestIsANumber DEF Inv
  <2>2. n \in 1..MaxNonce[i] /\ (n > 1 => n - 1 \in 1..MaxNonce[i])
    BY <1>1, <2>1
  <2> HIDE DEF n
  <2> QED BY <2>1, <2>2 DEF Nonces
<1>3. y \in Attempts
  BY DEF FreshAttempt, Attempts
<1>4. BankTyped' /\ BankSound' /\ Sized' /\ (\A c : Kept(c)' <=> Kept(c)) /\ live' = live /\ made' = made
  BY <1>1, BankUntouched
<1>5. slot' \in [Issuers -> SlotType] /\ slot'[i].nonce = n
      /\ \A j \in Issuers : j # i => slot'[j].nonce = slot[j].nonce
  BY <1>1, <1>2 DEF Inv, HostTyped, SlotType
<1>6. HostTyped'
  <2> HIDE DEF n, y
  <2> QED BY <1>1, <1>2, <1>3, <1>5, HostStaysTyped DEF Inv
<1>7. HostSound'
  <2> SUFFICES ASSUME NEW j \in Issuers, NEW m \in Nonces
               PROVE  Sound(attempt'[j][m], The(j, m), slot'[j].nonce, made'[j][m],
                            The(j, m) \in live', Kept(The(j, m))')
    BY DEF HostSound
  <2>0. m \in Nat /\ The(j, m).nonce = m
    BY NoncesAreNumbers DEF The
  <2>1. /\ attempt[j][m] \in Attempts
        /\ Sound(attempt[j][m], The(j, m), slot[j].nonce, made[j][m], The(j, m) \in live, Kept(The(j, m)))
    BY Known
  <2>2. CASE j # i
    <3>1. attempt'[j][m] = attempt[j][m]
      BY <1>1, <1>2, <1>3, <2>2, OneAttempt DEF Inv
    <3> QED BY <1>4, <1>5, <2>1, <2>2, <3>1 DEF Sound
  <2>3. CASE j = i /\ m = n
    <3>1. attempt'[j][m] = y
      BY <1>1, <1>2, <1>3, <2>3, OneAttempt DEF Inv
    <3>2. attempt[j][m].phase = "none" /\ made[j][m] = 0 /\ ~(The(j, m) \in live)
      BY <1>2, <2>0, <2>1, <2>3 DEF Sound
    <3> QED BY <1>2, <1>4, <1>5, <2>0, <2>3, <3>1, <3>2 DEF Sound, FreshAttempt
  <2>4. CASE j = i /\ m # n
    <3>1. attempt'[j][m] = attempt[j][m]
      BY <1>1, <1>2, <1>3, <2>4, OneAttempt DEF Inv
    <3>2. m = n - 1 => attempt[j][m].phase # "admitting"
      <4>1. m = n - 1 => Settled(attempt[i][m])
        BY <1>1, <1>2, <2>0, NoncesAreNumbers
      <4> QED BY <2>1, <2>4, <4>1 DEF Settled, Sound
    <3>3. attempt[j][m].phase = "none" <=> m > n
      BY <1>2, <2>0, <2>1, <2>4 DEF Sound
    <3>4. m < n => attempt[j][m].phase # "admitting"
      BY <1>2, <2>0, <2>1, <2>4, <3>2 DEF Sound
    <3> HIDE DEF n
    <3> QED BY <1>4, <1>5, <2>0, <2>1, <2>4, <3>1, <3>3, <3>4 DEF Sound
  <2> QED BY <2>2, <2>3, <2>4
<1> QED BY <1>4, <1>6, <1>7 DEF Inv

LEMMA ReplayStep ==
  ASSUME Inv, NEW i \in Issuers, NEW n \in Nonces, NEW got \in BOOLEAN, Replay(i, n, got)
  PROVE  Inv'
<1> DEFINE x == attempt[i][n]
<1>1. Asks(i, n) /\ UNCHANGED <<issuers, bank, slot>>
  BY DEF Replay
<1>2. PICK b \in Replays(i, n) :
        Becomes(i, n, got, IF AllocationLive(b) THEN [x EXCEPT !.target = b] ELSE [x EXCEPT !.retired = TRUE])
  BY DEF Replay
<1> DEFINE y == IF ~got THEN [x EXCEPT !.uncertain = TRUE]
                ELSE IF AllocationLive(b) THEN [x EXCEPT !.target = b] ELSE [x EXCEPT !.retired = TRUE]
<1>3. attempt' = [attempt EXCEPT ![i][n] = y]
  BY <1>2 DEF Becomes
<1>4. /\ x \in Attempts
      /\ Sound(x, The(i, n), slot[i].nonce, made[i][n], The(i, n) \in live, Kept(The(i, n)))
      /\ b = The(i, n) /\ Kept(b) /\ made[i][n] = 1 /\ b \in Births
  BY Known, <1>2, TheIsABirth
<1>5. y \in Attempts
  BY <1>4 DEF Attempts
<1>6. /\ BankTyped' /\ BankSound' /\ Sized' /\ (\A c : Kept(c)' <=> Kept(c)) /\ live' = live /\ made' = made
      /\ slot' \in [Issuers -> SlotType] /\ \A j \in Issuers : slot'[j].nonce = slot[j].nonce
  BY <1>1, BankUntouched, SlotsUntouched
<1>7. Sound(y, The(i, n), slot[i].nonce, made[i][n], The(i, n) \in live', Kept(The(i, n))')
  BY <1>1, <1>4, <1>6 DEF Sound, Asks, Attempts
<1> HIDE DEF y
<1> QED BY <1>3, <1>5, <1>6, <1>7, StepAtOne

(* An attempt whose receipt is not there has not been executed.            *)
LEMMA AllocateStep ==
  ASSUME Inv, NEW i \in Issuers, NEW n \in Nonces, NEW got \in BOOLEAN, Allocate(i, n, got)
  PROVE  Inv'
<1> DEFINE x == attempt[i][n]
           y == IF got THEN [x EXCEPT !.target = The(i, n)] ELSE [x EXCEPT !.uncertain = TRUE]
<1>1. Asks(i, n) /\ Allocated(i, n) /\ UNCHANGED <<issuers, slot>>
  BY DEF Allocate
<1>2. /\ x \in Attempts
      /\ Sound(x, The(i, n), slot[i].nonce, made[i][n], The(i, n) \in live, Kept(The(i, n)))
      /\ Replays(i, n) = {} => ~Kept(The(i, n))
  BY Known
<1>3. made[i][n] = 0
  BY <1>1, <1>2 DEF Sound, Asks, Allocated
<1>4. /\ BankTyped' /\ BankSound' /\ Sized'
      /\ NewBirth(i, n) = The(i, n)
      /\ made' = [made EXCEPT ![i][n] = 1]
      /\ live' = live \cup {The(i, n)}
      /\ Kept(The(i, n))'
      /\ \A c : c.issuer # i /\ Kept(c) => Kept(c)'
  BY <1>1, <1>3, AllocatesSoundly DEF Inv
<1>5. attempt' = [attempt EXCEPT ![i][n] = y]
  BY <1>4 DEF Allocate, Becomes
<1>6. y \in Attempts
  BY <1>2, TheIsABirth DEF Attempts
<1>7. slot' \in [Issuers -> SlotType] /\ \A j \in Issuers : slot'[j].nonce = slot[j].nonce
  BY <1>1, SlotsUntouched
<1>8. made'[i][n] = 1 /\ \A j \in Issuers, m \in Nonces : j # i \/ m # n => made'[j][m] = made[j][m]
  BY <1>4 DEF Inv, BankTyped
<1>9. Sound(y, The(i, n), slot[i].nonce, made'[i][n], The(i, n) \in live', Kept(The(i, n))')
  <2>1. /\ y.phase = "admitting" /\ ~y.retired /\ y.confirmed = x.confirmed
        /\ y.target \in {NoTarget, The(i, n)} /\ (y.uncertain \/ y.target # NoTarget)
    BY <1>1, <1>2, TheIsABirth DEF Asks, Attempts
  <2>2. x.phase = "admitting" /\ ~x.confirmed
    BY <1>1, <1>2 DEF Asks, Sound
  <2> HIDE DEF y
  <2> QED BY <1>2, <1>4, <1>8, <2>1, <2>2 DEF Sound
<1>10. \A j \in Issuers, m \in Nonces : j # i \/ m # n =>
            /\ The(j, m) \in live' => The(j, m) \in live
            /\ attempt[j][m].phase = "admitting" /\ Kept(The(j, m)) => Kept(The(j, m))'
  <2> SUFFICES ASSUME NEW j \in Issuers, NEW m \in Nonces, j # i \/ m # n
               PROVE  /\ The(j, m) \in live' => The(j, m) \in live
                      /\ attempt[j][m].phase = "admitting" /\ Kept(The(j, m)) => Kept(The(j, m))'
    OBVIOUS
  <2>1. The(j, m) \in live' => The(j, m) \in live
    <3>1. The(j, m) # The(i, n)
      BY TheIsABirth
    <3> QED BY <1>4, <3>1
  <2>2. CASE j # i
    BY <1>4, <2>1, <2>2, TheIsABirth
  <2>3. CASE j = i
    <3>1. Sound(attempt[i][m], The(i, m), slot[i].nonce, made[i][m], The(i, m) \in live, Kept(The(i, m)))
      BY Known
    <3>2. n <= slot[i].nonce /\ ~(n < slot[i].nonce)
      <4>1. n \in Nat /\ slot[i].nonce \in Nat
        BY LatestIsANumber, NoncesAreNumbers DEF Inv
      <4>2. x.phase = "admitting" /\ The(i, n).nonce = n
        BY <1>1, TheIsABirth DEF Asks
      <4> QED BY <1>2, <4>1, <4>2 DEF Sound
    <3>3. attempt[i][m].phase # "admitting"
      <4>1. n \in Nat /\ m \in Nat /\ slot[i].nonce \in Nat /\ m # n /\ The(i, m).nonce = m
        <5>1. n \in Nat /\ m \in Nat /\ slot[i].nonce \in Nat
          BY LatestIsANumber, NoncesAreNumbers DEF Inv
        <5> QED BY <5>1, <2>3, TheIsABirth
      <4> QED BY <3>1, <3>2, <4>1 DEF Sound
    <3> QED BY <2>1, <2>3, <3>3
  <2> QED BY <2>2, <2>3
<1> HIDE DEF y
<1>11. HostSound'
  <2>1. \A j \in Issuers, m \in Nonces : j # i \/ m # n =>
            /\ made'[j][m] = made[j][m]
            /\ The(j, m) \in live' => The(j, m) \in live
            /\ attempt[j][m].phase = "admitting" /\ Kept(The(j, m)) => Kept(The(j, m))'
    BY <1>8, <1>10
  <2> QED BY <1>5, <1>6, <1>7, <1>9, <2>1, OthersSound
<1>12. HostTyped'
  BY <1>5, <1>6, <1>7, HostStaysTyped DEF Inv
<1> QED BY <1>4, <1>11, <1>12 DEF Inv

LEMMA RefuseStep ==
  ASSUME Inv, NEW i \in Issuers, NEW n \in Nonces, NEW got \in BOOLEAN,
         Refuse(i, n, got) \/ NeverSent(i, n)
  PROVE  Inv'
<1> DEFINE x == attempt[i][n]
<1>1. Asks(i, n) /\ UNCHANGED <<issuers, bank, slot>>
  BY DEF Refuse, NeverSent
<1>2. PICK y : /\ attempt' = [attempt EXCEPT ![i][n] = y]
               /\ \/ y = [x EXCEPT !.uncertain = TRUE]
                  \/ y = x
                  \/ y = [x EXCEPT !.phase = "rejected"] /\ ~x.uncertain
  BY DEF Refuse, NeverSent, Becomes
<1>3. /\ x \in Attempts
      /\ Sound(x, The(i, n), slot[i].nonce, made[i][n], The(i, n) \in live, Kept(The(i, n)))
  BY Known
<1>4. y \in Attempts
  BY <1>2, <1>3 DEF Attempts
<1>5. /\ BankTyped' /\ BankSound' /\ Sized' /\ (\A c : Kept(c)' <=> Kept(c)) /\ live' = live /\ made' = made
      /\ slot' \in [Issuers -> SlotType] /\ \A j \in Issuers : slot'[j].nonce = slot[j].nonce
  BY <1>1, BankUntouched, SlotsUntouched
<1>6. The(i, n) \in live => made[i][n] = 1
  BY TheIsABirth DEF Inv, BankSound, BankTyped, Stamped, Genuine, Stamps
<1>7. Sound(y, The(i, n), slot[i].nonce, made[i][n], The(i, n) \in live', Kept(The(i, n))')
  BY <1>1, <1>2, <1>3, <1>5, <1>6 DEF Sound, Asks, Attempts
<1> QED BY <1>2, <1>4, <1>5, <1>7, StepAtOne

LEMMA BeginCloseStep ==
  ASSUME Inv, NEW i \in Issuers, NEW n \in Nonces, BeginClose(i, n)
  PROVE  Inv'
<1> DEFINE x == attempt[i][n]
           y == [x EXCEPT !.phase = "closing"]
<1>1. /\ x.phase = "open" /\ UNCHANGED <<issuers, bank, slot>>
      /\ attempt' = [attempt EXCEPT ![i][n] = y]
  BY DEF BeginClose, Inv, HostTyped
<1>2. /\ x \in Attempts
      /\ Sound(x, The(i, n), slot[i].nonce, made[i][n], The(i, n) \in live, Kept(The(i, n)))
  BY Known
<1>3. y \in Attempts
  BY <1>2 DEF Attempts
<1>4. /\ BankTyped' /\ BankSound' /\ Sized' /\ (\A c : Kept(c)' <=> Kept(c)) /\ live' = live /\ made' = made
      /\ slot' \in [Issuers -> SlotType] /\ \A j \in Issuers : slot'[j].nonce = slot[j].nonce
  BY <1>1, BankUntouched, SlotsUntouched
<1>5. Sound(y, The(i, n), slot[i].nonce, made[i][n], The(i, n) \in live', Kept(The(i, n))')
  BY <1>1, <1>2, <1>4 DEF Sound, Attempts
<1> HIDE DEF y
<1> QED BY <1>1, <1>3, <1>4, <1>5, StepAtOne

(* What an acknowledgement is about is the attempt's own birth.            *)
LEMMA SubjectIsOwn ==
  ASSUME Inv, NEW i \in Issuers, NEW n \in Nonces, NEW b \in Subject(i, n, attempt[i][n].target)
  PROVE  /\ b = The(i, n) /\ made[i][n] = 1
         /\ attempt[i][n].target = NoTarget => ~AllocationLive(b)
<1>1. /\ attempt[i][n] \in Attempts
      /\ Sound(attempt[i][n], The(i, n), slot[i].nonce, made[i][n], The(i, n) \in live, Kept(The(i, n)))
      /\ \A c \in Replays(i, n) : c = The(i, n) /\ made[i][n] = 1
  BY Known
<1>2. CASE Replays(i, n) # {}
  BY <1>1, <1>2, TheIsABirth DEF Subject
<1>3. CASE Replays(i, n) = {}
  <2>1. b = attempt[i][n].target /\ b \in Births
    BY <1>3 DEF Subject, Inv, BankTyped, Stamps
  <2> QED BY <1>1, <2>1 DEF Sound
<1> QED BY <1>2, <1>3

LEMMA ConfirmStep ==
  ASSUME Inv, NEW i \in Issuers, NEW n \in Nonces, NEW got \in BOOLEAN, Confirm(i, n, got)
  PROVE  Inv'
<1> DEFINE x == attempt[i][n]
<1>1. /\ x.phase = "admitting" /\ (x.target # NoTarget \/ x.retired) /\ ~x.confirmed
      /\ UNCHANGED issuers
      /\ slot' = [slot EXCEPT ![i].journal = IF got THEN n ELSE @]
  BY DEF Confirm
<1>2. PICK b \in Subject(i, n, x.target) :
         /\ Confirms(b)
         /\ attempt' = IF ~got THEN attempt
                       ELSE [attempt EXCEPT ![i][n].confirmed = TRUE,
                                            ![i][n].retired = ~AllocationLive(b),
                                            ![i][n].phase = IF AllocationLive(b) THEN "open" ELSE @]
  BY DEF Confirm
<1> DEFINE alive == AllocationLive(b)
           y == IF ~got THEN x
                ELSE [x EXCEPT !.confirmed = TRUE, !.retired = ~alive,
                               !.phase = IF alive THEN "open" ELSE "admitting"]
<1>3. /\ x \in Attempts
      /\ Sound(x, The(i, n), slot[i].nonce, made[i][n], The(i, n) \in live, Kept(The(i, n)))
  BY Known
<1>4. b = The(i, n) /\ made[i][n] = 1 /\ (x.target = NoTarget => ~alive)
  BY SubjectIsOwn
<1>5. alive \in BOOLEAN
  BY DEF AllocationLive, Stamped
<1>6. attempt' = [attempt EXCEPT ![i][n] = y]
  <2> HIDE DEF alive
  <2> QED BY <1>1, <1>2, <1>3, <1>5 DEF Inv, HostTyped, Attempts, alive
<1>7. y \in Attempts
  BY <1>3, <1>5 DEF Attempts
<1>8. /\ BankTyped' /\ BankSound' /\ Sized' /\ made' = made /\ live' = live
      /\ \A c : Kept(c)' <=> Kept(c)
  BY <1>1, <1>2, ConfirmsKeeps DEF Inv
<1>9. slot' \in [Issuers -> SlotType] /\ \A j \in Issuers : slot'[j].nonce = slot[j].nonce
  BY <1>1 DEF Inv, HostTyped, SlotType
<1>10. Sound(y, The(i, n), slot[i].nonce, made[i][n], The(i, n) \in live', Kept(The(i, n))')
  <2> HIDE DEF alive
  <2> QED BY <1>1, <1>3, <1>4, <1>5, <1>8 DEF Sound, Attempts
<1> HIDE DEF y
<1> QED BY <1>6, <1>7, <1>8, <1>9, <1>10, StepAtOne

LEMMA DisposeStep ==
  ASSUME Inv, NEW i \in Issuers, NEW n \in Nonces, NEW got \in BOOLEAN, DisposeAttempt(i, n, got)
  PROVE  Inv'
<1> DEFINE x == attempt[i][n]
<1>1. x.phase = "closing" /\ UNCHANGED <<issuers, slot>>
  BY DEF DisposeAttempt
<1>2. PICK there \in BOOLEAN :
        attempt' = [attempt EXCEPT ![i][n].asked = TRUE, ![i][n].disposed = got /\ there]
  BY DEF DisposeAttempt
<1> DEFINE y == [x EXCEPT !.asked = TRUE, !.disposed = got /\ there]
<1>3. /\ x \in Attempts
      /\ Sound(x, The(i, n), slot[i].nonce, made[i][n], The(i, n) \in live, Kept(The(i, n)))
  BY Known
<1>4. y \in Attempts
  BY <1>3 DEF Attempts
<1>5. attempt' = [attempt EXCEPT ![i][n] = y]
  BY <1>2, <1>3 DEF Inv, HostTyped, Attempts
<1>6. /\ BankTyped' /\ BankSound' /\ Sized' /\ made' = made /\ live' \subseteq live
      /\ \A c : Kept(c)' <=> Kept(c)
  <2>1. CASE Commit(receipts, stamps, live \ {x.target}) /\ UNCHANGED made
    BY <1>1, <2>1, RetiresKeeps DEF Inv, BankTyped
  <2>2. CASE UNCHANGED bank
    BY <1>1, <2>2, BankUntouched
  <2> QED BY <2>1, <2>2 DEF DisposeAttempt
<1>7. slot' \in [Issuers -> SlotType] /\ \A j \in Issuers : slot'[j].nonce = slot[j].nonce
  BY <1>1, SlotsUntouched
<1>8. Sound(y, The(i, n), slot[i].nonce, made[i][n], The(i, n) \in live', Kept(The(i, n))')
  BY <1>1, <1>3, <1>6 DEF Sound, Attempts
<1> HIDE DEF y
<1> QED BY <1>4, <1>5, <1>6, <1>7, <1>8, StepAtOne

LEMMA ProbeStep ==
  ASSUME Inv, NEW i \in Issuers, NEW n \in Nonces, NEW got \in BOOLEAN, ProbeRetirement(i, n, got)
  PROVE  Inv'
<1> DEFINE x == attempt[i][n]
<1>1. x.phase = "closing" /\ UNCHANGED <<issuers, slot>>
  BY DEF ProbeRetirement
<1>2. PICK b \in Subject(i, n, x.target), y \in {x, [x EXCEPT !.asked = FALSE],
                                               [x EXCEPT !.retired = TRUE, !.disposed = TRUE]} :
        /\ Confirms(b)
        /\ attempt' = [attempt EXCEPT ![i][n] = y]
  BY DEF ProbeRetirement
<1>3. /\ x \in Attempts
      /\ Sound(x, The(i, n), slot[i].nonce, made[i][n], The(i, n) \in live, Kept(The(i, n)))
  BY Known
<1>4. y \in Attempts
  BY <1>2, <1>3 DEF Attempts
<1>5. made[i][n] = 1
  BY SubjectIsOwn
<1>6. /\ BankTyped' /\ BankSound' /\ Sized' /\ made' = made /\ live' = live
      /\ \A c : Kept(c)' <=> Kept(c)
  BY <1>1, <1>2, ConfirmsKeeps DEF Inv
<1>7. slot' \in [Issuers -> SlotType] /\ \A j \in Issuers : slot'[j].nonce = slot[j].nonce
  BY <1>1, SlotsUntouched
<1>8. Sound(y, The(i, n), slot[i].nonce, made[i][n], The(i, n) \in live', Kept(The(i, n))')
  BY <1>1, <1>2, <1>3, <1>5, <1>6 DEF Sound, Attempts
<1> QED BY <1>2, <1>4, <1>6, <1>7, <1>8, StepAtOne

(* What is released is gone. *)
LEMMA ReleaseStep ==
  ASSUME Inv, NEW i \in Issuers, NEW n \in Nonces, NEW got \in BOOLEAN, ReleaseAttempt(i, n, got)
  PROVE  Inv'
<1> DEFINE x == attempt[i][n]
           y == IF got THEN [x EXCEPT !.phase = "closed"] ELSE x
<1>1. /\ \/ x.phase = "admitting" /\ x.retired /\ x.confirmed
         \/ x.phase = "closing" /\ x.disposed
      /\ Releases(i, n, x.target) /\ UNCHANGED <<issuers, slot>>
  BY DEF ReleaseAttempt
<1>2. attempt' = [attempt EXCEPT ![i][n] = y]
  BY DEF ReleaseAttempt, Inv, HostTyped
<1>3. /\ x \in Attempts
      /\ Sound(x, The(i, n), slot[i].nonce, made[i][n], The(i, n) \in live, Kept(The(i, n)))
  BY Known
<1>4. y \in Attempts
  BY <1>3 DEF Attempts
<1>5. /\ BankTyped' /\ BankSound' /\ Sized' /\ made' = made /\ live' = live
      /\ \A c : Kept(c)' <=> Kept(c)
      /\ x.target \notin live /\ (x.target = NoTarget /\ Kept(The(i, n)) => The(i, n) \notin live)
  <2>1. x.target \in Births \cup {NoTarget}
    BY <1>3 DEF Attempts
  <2> QED BY <1>1, <2>1, ReleasesKeeps DEF Inv
<1>6. The(i, n) \notin live
  BY <1>1, <1>3, <1>5 DEF Sound
<1>7. slot' \in [Issuers -> SlotType] /\ \A j \in Issuers : slot'[j].nonce = slot[j].nonce
  BY <1>1, SlotsUntouched
<1>8. Sound(y, The(i, n), slot[i].nonce, made[i][n], The(i, n) \in live', Kept(The(i, n))')
  BY <1>1, <1>3, <1>5, <1>6 DEF Sound, Attempts
<1> HIDE DEF y
<1> QED BY <1>2, <1>4, <1>5, <1>7, <1>8, StepAtOne

LEMMA ForgetStep ==
  ASSUME Inv, NEW i \in Issuers, NEW n \in Nonces, Forget(i, n)
  PROVE  Inv'
<1> DEFINE x == attempt[i][n]
<1>1. x.phase = "closed" /\ Forgets(i, n, x.target) /\ UNCHANGED <<issuers, slot, attempt>>
  BY DEF Forget
<1>2. x \in Attempts
  BY Known
<1>3. /\ BankTyped' /\ BankSound' /\ Sized' /\ made' = made /\ live' = live
      /\ \A c : c # The(i, n) => (Kept(c)' <=> Kept(c))
  <2>1. x.target \in Births \cup {NoTarget}
    BY <1>2 DEF Attempts
  <2> QED BY <1>1, <2>1, ForgetsKeeps DEF Inv
<1>4. HostSound'
  <2> SUFFICES ASSUME NEW j \in Issuers, NEW m \in Nonces
               PROVE  Sound(attempt[j][m], The(j, m), slot[j].nonce, made[j][m],
                            The(j, m) \in live, Kept(The(j, m))')
    BY <1>1, <1>3 DEF HostSound
  <2>1. Sound(attempt[j][m], The(j, m), slot[j].nonce, made[j][m], The(j, m) \in live, Kept(The(j, m)))
    BY Known
  <2>2. CASE The(j, m) = The(i, n)
    <3>1. attempt[j][m].phase = "closed"
      BY <1>1, <2>2, TheIsABirth
    <3> QED BY <2>1, <3>1 DEF Sound
  <2>3. CASE The(j, m) # The(i, n)
    <3>1. Kept(The(j, m))' <=> Kept(The(j, m))
      BY <1>3, <2>3
    <3> QED BY <2>1, <3>1 DEF Sound
  <2> QED BY <2>2, <2>3
<1> QED BY <1>1, <1>3, <1>4 DEF Inv, HostTyped
-----------------------------------------------------------------------------
LEMMA InitInv == ReceiptsInit => Inv
<1> SUFFICES ASSUME ReceiptsInit PROVE Inv
  OBVIOUS
<1>1. BankTyped /\ BankSound
  BY DEF ReceiptsInit, BankTyped, BankSound
<1>2. Sized
  BY FS_EmptySet DEF ReceiptsInit, Sized
<1>3. FreshAttempt("none") \in Attempts
  BY DEF FreshAttempt, Attempts
<1>4. HostTyped
  BY <1>3 DEF ReceiptsInit, HostTyped, SlotType
<1>5. HostSound
  <2> SUFFICES ASSUME NEW i \in Issuers, NEW n \in Nonces
               PROVE  Sound(attempt[i][n], The(i, n), slot[i].nonce, made[i][n],
                            The(i, n) \in live, Kept(The(i, n)))
    BY DEF HostSound
  <2>1. /\ attempt[i][n] = FreshAttempt("none") /\ slot[i].nonce = 0 /\ made[i][n] = 0
        /\ The(i, n) \notin live
    BY DEF ReceiptsInit
  <2>2. The(i, n).nonce = n /\ n > 0
    BY NoncesAreNumbers, TheIsABirth
  <2> QED BY <2>1, <2>2 DEF Sound, FreshAttempt
<1> QED BY <1>1, <1>2, <1>4, <1>5 DEF Inv

LEMMA NextInv == Inv /\ [ReceiptsNext]_receiptVars => Inv'
<1> SUFFICES ASSUME Inv, [ReceiptsNext]_receiptVars PROVE Inv'
  OBVIOUS
<1>1. CASE UNCHANGED receiptVars
  <2>1. UNCHANGED <<issuers, bank, slot, attempt>>
    BY <1>1 DEF receiptVars
  <2>2. /\ BankTyped' /\ BankSound' /\ Sized' /\ \A c : Kept(c)' <=> Kept(c)
        /\ live' = live /\ made' = made
    BY <2>1, BankUntouched
  <2>3. HostSound'
    BY <2>1, <2>2, QuietSound
  <2> QED BY <2>1, <2>2, <2>3 DEF Inv, HostTyped
<1>2. ASSUME NEW b \in live, Retire(b) PROVE Inv'
  BY <1>2, RetireStep
<1>3. ASSUME NEW i \in Issuers, BeginAttempt(i) \/ \E got \in BOOLEAN : CloseIssuer(i, got) PROVE Inv'
  BY <1>3, BeginStep, CloseIssuerStep
<1>4. ASSUME NEW i \in Issuers, NEW n \in Nonces, NeverSent(i, n) \/ BeginClose(i, n) PROVE Inv'
  BY <1>4, RefuseStep, BeginCloseStep
<1>5. ASSUME NEW i \in Issuers, NEW n \in Nonces, NEW got \in BOOLEAN, Recover(i, n, got) PROVE Inv'
  BY <1>5, ReplayStep, AllocateStep, RefuseStep, ConfirmStep DEF Recover
<1>6. ASSUME NEW i \in Issuers, NEW n \in Nonces, NEW got \in BOOLEAN, Close(i, n, got) PROVE Inv'
  BY <1>6, DisposeStep, ProbeStep, ReleaseStep, ForgetStep DEF Close
<1> QED BY <1>1, <1>2, <1>3, <1>4, <1>5, <1>6 DEF ReceiptsNext

LEMMA InvImpliesConsistent == Inv => ReceiptsConsistent
<1> SUFFICES ASSUME Inv PROVE ReceiptsConsistent
  OBVIOUS
<1>1. ReceiptsTypeOK
  BY DEF Inv, BankTyped, Sized, HostTyped, ReceiptsTypeOK, Receipts, Stamps, Attempts, SlotType
<1>2. BornOnce
  <2> SUFFICES ASSUME NEW i \in Issuers, NEW n \in Nonces
      PROVE LET x == attempt[i][n] IN
        /\ made[i][n] <= 1
        /\ x.target # NoTarget => x.target = [issuer |-> i, nonce |-> n, copy |-> 1] /\ made[i][n] = 1
        /\ x.phase \in {"none", "rejected"} => made[i][n] = 0
        /\ x.confirmed => made[i][n] = 1
        /\ n - 1 \in Nonces /\ made[i][n] = 1 /\ made[i][n - 1] = 1 => attempt[i][n - 1].confirmed
    BY DEF BornOnce
  <2>1. Sound(attempt[i][n], The(i, n), slot[i].nonce, made[i][n], The(i, n) \in live, Kept(The(i, n)))
    BY Known
  <2>2. ASSUME n - 1 \in Nonces, made[i][n] = 1, made[i][n - 1] = 1
        PROVE  attempt[i][n - 1].confirmed
    <3>1. Sound(attempt[i][n - 1], The(i, n - 1), slot[i].nonce, made[i][n - 1],
                The(i, n - 1) \in live, Kept(The(i, n - 1)))
      BY <2>2, Known
    <3>2. attempt[i][n - 1] \in Attempts
      BY <2>2, Known
    <3>3. /\ n \in Nat /\ slot[i].nonce \in Nat
          /\ The(i, n).nonce = n /\ The(i, n - 1).nonce = n - 1
      BY <2>2, NoncesAreNumbers, LatestIsANumber, TheIsABirth DEF Inv
    <3>4. n - 1 < slot[i].nonce
      BY <2>1, <2>2, <3>3 DEF Sound
    <3>5. attempt[i][n - 1].phase \notin {"none", "rejected", "admitting"}
      BY <2>2, <3>1, <3>3, <3>4 DEF Sound
    <3> QED BY <3>1, <3>2, <3>5 DEF Sound, Attempts
  <2> QED BY <2>1, <2>2 DEF Sound, The
<1>3. NothingOrphaned
  <2> SUFFICES ASSUME NEW b \in live
      PROVE LET x == attempt[b.issuer][b.nonce] IN
        /\ Stamped(b)
        /\ \/ x.phase \in {"open", "closing"} /\ x.target = b
           \/ x.phase = "admitting" /\ \E r \in receipts : r.birth = b
    BY DEF NothingOrphaned
  <2>1. /\ Stamped(b) /\ b.issuer \in Issuers /\ b.nonce \in Nonces
        /\ b = The(b.issuer, b.nonce) /\ made[b.issuer][b.nonce] = 1
    BY DEF Inv, BankTyped, BankSound, Stamped, Genuine, Births
  <2>2. Sound(attempt[b.issuer][b.nonce], b, slot[b.issuer].nonce, made[b.issuer][b.nonce], b \in live, Kept(b))
    BY <2>1, Known
  <2> QED BY <2>1, <2>2 DEF Sound, Kept
<1> QED BY <1>1, <1>2, <1>3 DEF ReceiptsConsistent

(* For any issuers, numbers of requests and slots: however requests and    *)
(* replies are lost and repeated, a nonce is executed once, a nonce given  *)
(* up as rejected never was, and nothing that was allocated is orphaned.   *)
THEOREM ExecutedOnce == ReceiptsSpec => []ReceiptsConsistent
<1>1. ReceiptsInit => Inv
  BY InitInv
<1>2. Inv /\ [ReceiptsNext]_receiptVars => Inv'
  BY NextInv
<1>3. Inv => ReceiptsConsistent
  BY InvImpliesConsistent
<1> QED BY <1>1, <1>2, <1>3, PTL DEF ReceiptsSpec
-----------------------------------------------------------------------------
(* The tile caches: what one holds.                                        *)
CacheFields == {"entries", "pending", "reads", "candidate", "frames", "charged", "epoch"}
Entries == [bytes : Nat, tick : Nat, place : Int]

Filed(c, r) ==
    /\ r = [f \in CacheFields |-> r[f]]
    /\ r.epoch \in Nat /\ r.epoch <= MaxEpoch[c]
    /\ r.entries = [k \in Resident(r) |-> r.entries[k]] /\ Resident(r) \subseteq Keys
    /\ \A k \in Resident(r) : r.entries[k] \in Entries /\ r.entries[k].tick <= r.epoch
    /\ \A t \in r.pending \cup r.reads : t \in TileTickets /\ t.cache = c /\ t.epoch \in 1..r.epoch
    /\ IsFiniteSet(r.pending) /\ IsFiniteSet(r.reads)
    /\ r.frames \in [Views -> Frames \cup {Nothing}]
    /\ r.candidate \in Candidates \cup {Nothing}

(* Only the candidate of the last epoch asks for tiles, each once, and what *)
(* is shown is there.                                                      *)
Asking(r) ==
    /\ r.candidate # Nothing =>
        r.candidate.epoch = r.epoch /\ r.candidate.keys \subseteq Resident(r) \cup {t.key : t \in r.pending}
    /\ \A t \in r.pending : r.candidate # Nothing /\ t.epoch = r.epoch /\ t.key \notin Resident(r)
    /\ Shows(r) \subseteq Resident(r)

Roomy(r) ==
    /\ Cardinality(r.pending \cup r.reads) <= MaxPending
    /\ Cardinality(Resident(r)) + Cardinality(r.pending) <= MaxEntries
    /\ Window(r) <= MaxViews
    /\ r.candidate # Nothing /\ r.frames[r.candidate.view] = Nothing => Window(r) < MaxViews

Priced(r) == r.charged = Metadata + EntryBytes(r, Resident(r)) + ReservedFor(r.pending \cup r.reads)

SoundCache(c, r) == Filed(c, r) /\ Asking(r) /\ Roomy(r) /\ Priced(r)

-----------------------------------------------------------------------------
LEMMA CacheSizes ==
    /\ Metadata \in Nat \ {0} /\ Payload \in Nat \ {0} /\ DecodeOverhead \in Nat
    /\ MaxEntries \in Nat /\ MaxPending \in Nat /\ MaxViews \in Nat
    /\ \A k : Reserved(k) \in Nat
    /\ \A k : \A b \in Retained(k) : b \in Nat /\ b <= Reserved(k)
    /\ \A c \in Caches : MaxEpoch[c] \in Nat
<1>1. /\ Metadata \in Nat \ {0} /\ Payload \in Nat \ {0} /\ DecodeOverhead \in Nat
      /\ MaxEntries \in Nat /\ MaxPending \in Nat /\ MaxViews \in Nat
      /\ \A c \in Caches : MaxEpoch[c] \in Nat
    BY CacheAssumption
<1>2. \A k : Reserved(k) \in Nat
    BY <1>1 DEF Reserved
<1>3. ASSUME NEW k, NEW b \in Retained(k) PROVE b \in Nat /\ b <= Reserved(k)
    <2>1. CASE k \in RasterKeys
        BY <1>1, <2>1 DEF Retained, Reserved
    <2>2. CASE k \notin RasterKeys
        <3>1. PICK n \in 1..Payload : b = 2 * n + DecodeOverhead
            BY <2>2 DEF Retained
        <3> QED BY <1>1, <2>2, <3>1 DEF Reserved
    <2> QED BY <2>1, <2>2
<1> QED BY <1>1, <1>2, <1>3

LEMMA NothingElse ==
    /\ \A x \in Frames : x # Nothing
    /\ \A x \in Candidates : x # Nothing
    /\ \A x \in LeasesHeld : x # Nothing
    /\ \A x \in Begins : x # Nothing
    /\ \A x \in Reserves : x # Nothing
    /\ \A x \in Drops : x # Nothing
BY NothingAssumption

LEMMA FiniteParts ==
    ASSUME NEW r, Resident(r) \subseteq Keys
    PROVE  IsFiniteSet(Resident(r)) /\ Cardinality(Resident(r)) \in Nat
BY FiniteCachesAssumption, FS_Subset, FS_CardinalityType

LEMMA ReservedLaws ==
    ASSUME NEW S, IsFiniteSet(S)
    PROVE  /\ ReservedFor(S) \in Nat
           /\ \A T \in SUBSET S : /\ IsFiniteSet(T) /\ ReservedFor(T) \in Nat
                                  /\ ReservedFor(S) = ReservedFor(T) + ReservedFor(S \ T)
           /\ \A t \in S : ReservedFor(S) = Reserved(t.key) + ReservedFor(S \ {t})
           /\ \A t : ReservedFor({t}) = Reserved(t.key)
<1> DEFINE f(U) == [t \in U |-> Reserved(t.key)]
<1>1. \A U \in SUBSET S : IsFiniteSet(U) /\ SumFunctionOnSet(f(U), U) = SumFunctionOnSet(f(S), U)
    <2> SUFFICES ASSUME NEW U \in SUBSET S
                 PROVE  IsFiniteSet(U) /\ SumFunctionOnSet(f(U), U) = SumFunctionOnSet(f(S), U)
        OBVIOUS
    <2>1. IsFiniteSet(U)
        BY FS_Subset
    <2>2. \A t \in U : f(U)[t] = f(S)[t]
        OBVIOUS
    <2> HIDE DEF f
    <2> QED BY <2>1, <2>2, SumSame
<1>2. \A U \in SUBSET S : ReservedFor(U) = SumFunctionOnSet(f(S), U)
    BY <1>1 DEF ReservedFor
<1>3. \A t \in S : f(S)[t] = Reserved(t.key) /\ f(S)[t] \in Nat /\ f(S)[t] \in Int
    BY CacheSizes
<1>4. ASSUME NEW t PROVE ReservedFor({t}) = Reserved(t.key)
    <2>5. Reserved(t.key) \in Nat
        BY CacheSizes
    <2>6. IsFiniteSet({t})
        BY FS_Singleton
    <2>1. f({t})[t] = Reserved(t.key) /\ IsFiniteSet({t}) /\ {t} \ {t} = {} /\ Reserved(t.key) \in Int
        BY <2>5, <2>6
    <2>2. ReservedFor({t}) = SumFunctionOnSet(f({t}), {t})
        BY DEF ReservedFor
    <2> HIDE DEF f
    <2>3. SumFunctionOnSet(f({t}), {t}) = f({t})[t] + SumFunctionOnSet(f({t}), {t} \ {t})
        BY <2>1, SumRemove
    <2>4. SumFunctionOnSet(f({t}), {t} \ {t}) = 0
        BY <2>1, SumEmpty, Zenon
    <2> QED BY <2>1, <2>2, <2>3, <2>4
<1> HIDE DEF f
<1>5. \A U \in SUBSET S : ReservedFor(U) \in Nat
    BY <1>1, <1>2, <1>3, SumNat
<1>6. \A T \in SUBSET S : ReservedFor(S) = ReservedFor(T) + ReservedFor(S \ T)
    BY <1>2, <1>3, SumSplit
<1>7. \A t \in S : ReservedFor(S) = Reserved(t.key) + ReservedFor(S \ {t})
    BY <1>2, <1>3, SumRemove
<1> QED BY <1>1, <1>4, <1>5, <1>6, <1>7

LEMMA ReservedNone == ReservedFor({}) = 0
BY SumEmpty DEF ReservedFor

LEMMA ReservedBoth ==
    ASSUME NEW S, IsFiniteSet(S), NEW T, IsFiniteSet(T), S \cap T = {}
    PROVE  ReservedFor(S \cup T) = ReservedFor(S) + ReservedFor(T)
<1>1. IsFiniteSet(S \cup T) /\ (S \cup T) \ S = T /\ S \in SUBSET (S \cup T)
    BY FS_Union
<1>2. ReservedFor(S \cup T) = ReservedFor(S) + ReservedFor((S \cup T) \ S)
    BY <1>1, ReservedLaws
<1> QED BY <1>1, <1>2

LEMMA EntryLaws ==
    ASSUME NEW r, Resident(r) \subseteq Keys, \A k \in Resident(r) : r.entries[k].bytes \in Nat
    PROVE  /\ EntryBytes(r, Resident(r)) \in Nat
           /\ \A T \in SUBSET Resident(r) :
                /\ EntryBytes(r, T) \in Nat
                /\ EntryBytes(r, Resident(r)) = EntryBytes(r, T) + EntryBytes(r, Resident(r) \ T)
           /\ \A k \in Resident(r) : EntryBytes(r, {k}) = r.entries[k].bytes
<1> DEFINE S == Resident(r)
           f(U) == [k \in U |-> r.entries[k].bytes]
<1>0. IsFiniteSet(S)
    BY FiniteParts
<1>1. \A U \in SUBSET S : IsFiniteSet(U) /\ SumFunctionOnSet(f(U), U) = SumFunctionOnSet(f(S), U)
    <2> SUFFICES ASSUME NEW U \in SUBSET S
                 PROVE  IsFiniteSet(U) /\ SumFunctionOnSet(f(U), U) = SumFunctionOnSet(f(S), U)
        OBVIOUS
    <2>1. IsFiniteSet(U)
        BY <1>0, FS_Subset
    <2>2. \A k \in U : f(U)[k] = f(S)[k]
        OBVIOUS
    <2> HIDE DEF f, S
    <2> QED BY <2>1, <2>2, SumSame
<1>2. \A U \in SUBSET S : EntryBytes(r, U) = SumFunctionOnSet(f(S), U)
    BY <1>1 DEF EntryBytes
<1>3. \A k \in S : f(S)[k] \in Nat /\ f(S)[k] \in Int
    OBVIOUS
<1>6. ASSUME NEW k \in S PROVE EntryBytes(r, {k}) = r.entries[k].bytes
    <2>1. f(S)[k] = r.entries[k].bytes /\ f(S)[k] \in Int /\ {k} \ {k} = {} /\ {k} \in SUBSET S
        BY <1>3, <1>6
    <2>5. IsFiniteSet({k})
        BY FS_Singleton
    <2> HIDE DEF f
    <2>2. EntryBytes(r, {k}) = SumFunctionOnSet(f(S), {k})
        BY <1>2, <2>1
    <2>3. SumFunctionOnSet(f(S), {k}) = f(S)[k] + SumFunctionOnSet(f(S), {k} \ {k})
        BY <2>1, <2>5, SumRemove
    <2>4. SumFunctionOnSet(f(S), {k} \ {k}) = 0
        BY <2>1, SumEmpty, Zenon
    <2> QED BY <2>1, <2>2, <2>3, <2>4
<1> HIDE DEF f, S
<1>4. \A U \in SUBSET S : EntryBytes(r, U) \in Nat
    BY <1>1, <1>2, <1>3, SumNat
<1>5. \A T \in SUBSET S : EntryBytes(r, S) = EntryBytes(r, T) + EntryBytes(r, S \ T)
    BY <1>0, <1>2, <1>3, SumSplit
<1> QED BY <1>4, <1>5, <1>6 DEF S

LEMMA SameBytes ==
    ASSUME NEW r, NEW s, NEW T, IsFiniteSet(T), \A k \in T : s.entries[k].bytes = r.entries[k].bytes
    PROVE  EntryBytes(s, T) = EntryBytes(r, T)
<1> DEFINE f(x) == [k \in T |-> x.entries[k].bytes]
<1>1. \A k \in T : f(s)[k] = f(r)[k]
    OBVIOUS
<1> HIDE DEF f
<1>2. SumFunctionOnSet(f(s), T) = SumFunctionOnSet(f(r), T)
    BY <1>1, SumSame
<1> QED BY <1>2 DEF EntryBytes, f

LEMMA ChargedNat ==
    ASSUME NEW c, NEW r, SoundCache(c, r)
    PROVE  /\ r.charged \in Nat /\ IsFiniteSet(r.pending \cup r.reads)
           /\ EntryBytes(r, Resident(r)) \in Nat /\ ReservedFor(r.pending \cup r.reads) \in Nat
           /\ Metadata <= r.charged
<1>1. IsFiniteSet(r.pending \cup r.reads)
    BY FS_Union DEF SoundCache, Filed
<1>2. EntryBytes(r, Resident(r)) \in Nat
    BY EntryLaws DEF SoundCache, Filed, Entries
<1>3. ReservedFor(r.pending \cup r.reads) \in Nat
    BY <1>1, ReservedLaws
<1> QED BY <1>1, <1>2, <1>3, CacheSizes DEF SoundCache, Priced
-----------------------------------------------------------------------------
(* What a call makes of a cache. *)
LEMMA CancelledSound ==
    ASSUME NEW c, NEW r, SoundCache(c, r)
    PROVE  LET s == Cancelled(r) IN
           /\ SoundCache(c, s) /\ s.charged <= r.charged /\ s.pending = {} /\ s.candidate = Nothing
           /\ s.reads = r.reads /\ s.entries = r.entries /\ s.frames = r.frames /\ s.epoch = r.epoch
<1> DEFINE s == Cancelled(r)
<1>1. /\ s.pending = {} /\ s.candidate = Nothing /\ s.reads = r.reads /\ s.entries = r.entries
      /\ s.frames = r.frames /\ s.epoch = r.epoch
      /\ s.charged = r.charged - ReservedFor(r.pending \ r.reads)
      /\ s = [f \in CacheFields |-> s[f]]
    BY DEF Cancelled, SoundCache, Filed, CacheFields
<1> HIDE DEF s
<1>2. Resident(s) = Resident(r) /\ Shows(s) = Shows(r) /\ Window(s) = Window(r)
    BY <1>1 DEF Resident, Shows, Window
<1>3. Filed(c, s)
    BY <1>1, <1>2, FS_EmptySet DEF SoundCache, Filed
<1>4. Asking(s)
    BY <1>1, <1>2 DEF SoundCache, Asking
<1>5. ReservedFor(r.pending \cup r.reads) = ReservedFor(r.pending \ r.reads) + ReservedFor(r.reads)
      /\ ReservedFor(r.pending \ r.reads) \in Nat /\ ReservedFor(r.reads) \in Nat
    <2>1. IsFiniteSet(r.pending \ r.reads) /\ IsFiniteSet(r.reads)
          /\ (r.pending \ r.reads) \cap r.reads = {}
        BY FS_Subset DEF SoundCache, Filed
    <2>2. (r.pending \ r.reads) \cup r.reads = r.pending \cup r.reads
        OBVIOUS
    <2>3. ReservedFor((r.pending \ r.reads) \cup r.reads) = ReservedFor(r.pending \ r.reads) + ReservedFor(r.reads)
        BY <2>1, ReservedBoth
    <2> QED BY <2>1, <2>2, <2>3, ReservedLaws
<1>6. s.pending \cup s.reads = r.reads
    BY <1>1
<1>7. Priced(s) /\ s.charged <= r.charged
    <2>1. EntryBytes(s, Resident(s)) = EntryBytes(r, Resident(r))
        BY <1>1, <1>2 DEF EntryBytes
    <2> QED BY <1>1, <1>5, <1>6, <2>1, ChargedNat, CacheSizes DEF SoundCache, Priced
<1>8. Roomy(s)
    <2>1. Cardinality(r.reads) <= Cardinality(r.pending \cup r.reads) /\ Cardinality(r.reads) \in Nat
          /\ Cardinality(r.pending \cup r.reads) \in Nat
        BY ChargedNat, FS_Subset, FS_CardinalityType DEF SoundCache, Filed
    <2>2. Cardinality({}) = 0 /\ Cardinality(r.pending) \in Nat /\ Cardinality(Resident(r)) \in Nat
        BY FS_EmptySet, FS_CardinalityType, FiniteParts DEF SoundCache, Filed
    <2> QED BY <1>1, <1>2, <1>6, <2>1, <2>2, CacheSizes DEF SoundCache, Roomy
<1> QED BY <1>1, <1>3, <1>4, <1>7, <1>8 DEF SoundCache, s

LEMMA CancelEpochSound ==
    ASSUME NEW c, NEW r, SoundCache(c, r), NEW e
    PROVE  LET s == CancelEpoch(r, e) IN
           /\ SoundCache(c, s) /\ s.charged <= r.charged
           /\ s.reads = r.reads /\ s.entries = r.entries /\ s.epoch = r.epoch
<1>1. r.charged \in Nat
    BY ChargedNat
<1> QED BY <1>1, CancelledSound DEF CancelEpoch

(* Reads that are done with and not asked for any longer.                  *)
Forgotten(r, lost) == [r EXCEPT !.charged = @ - ReservedFor(lost), !.reads = @ \ lost]

LEMMA ForgottenSound ==
    ASSUME NEW c, NEW r, SoundCache(c, r), NEW lost, lost \subseteq r.reads, lost \cap r.pending = {}
    PROVE  LET s == Forgotten(r, lost) IN
           /\ SoundCache(c, s) /\ s.charged <= r.charged /\ s.pending = r.pending /\ s.candidate = r.candidate
           /\ s.reads = r.reads \ lost /\ s.entries = r.entries /\ s.epoch = r.epoch
           /\ s.frames = r.frames
<1> DEFINE s == Forgotten(r, lost)
<1>1. /\ s.pending = r.pending /\ s.candidate = r.candidate /\ s.reads = r.reads \ lost
      /\ s.entries = r.entries /\ s.frames = r.frames /\ s.epoch = r.epoch
      /\ s.charged = r.charged - ReservedFor(lost)
      /\ s = [f \in CacheFields |-> s[f]]
    BY DEF Forgotten, SoundCache, Filed, CacheFields
<1> HIDE DEF s
<1>2. Resident(s) = Resident(r) /\ Shows(s) = Shows(r) /\ Window(s) = Window(r)
    BY <1>1 DEF Resident, Shows, Window
<1>3. Filed(c, s)
    <2>1. IsFiniteSet(r.reads \ lost)
        BY FS_Subset DEF SoundCache, Filed
    <2> QED BY <1>1, <1>2, <2>1 DEF SoundCache, Filed
<1>4. Asking(s)
    BY <1>1, <1>2 DEF SoundCache, Asking
<1>5. IsFiniteSet(r.pending \cup r.reads) /\ (r.pending \cup r.reads) \ lost = s.pending \cup s.reads
    BY <1>1, ChargedNat
<1>6. /\ ReservedFor(r.pending \cup r.reads) = ReservedFor(lost) + ReservedFor(s.pending \cup s.reads)
      /\ ReservedFor(lost) \in Nat /\ ReservedFor(s.pending \cup s.reads) \in Nat
    <2>1. lost \in SUBSET (r.pending \cup r.reads) /\ s.pending \cup s.reads \in SUBSET (r.pending \cup r.reads)
        BY <1>5
    <2>2. ReservedFor(r.pending \cup r.reads) = ReservedFor(lost) + ReservedFor((r.pending \cup r.reads) \ lost)
        BY <1>5, <2>1, ReservedLaws
    <2> QED BY <1>5, <2>1, <2>2, ReservedLaws
<1>7. Priced(s) /\ s.charged <= r.charged
    <2>1. EntryBytes(s, Resident(s)) = EntryBytes(r, Resident(r))
        BY <1>1, <1>2 DEF EntryBytes
    <2> QED BY <1>1, <1>6, <2>1, ChargedNat, CacheSizes DEF SoundCache, Priced
<1>8. Roomy(s)
    <2>1. Cardinality(s.pending \cup s.reads) <= Cardinality(r.pending \cup r.reads)
          /\ Cardinality(s.pending \cup s.reads) \in Nat /\ Cardinality(r.pending \cup r.reads) \in Nat
        BY <1>5, FS_Subset, FS_CardinalityType
    <2> QED BY <1>1, <1>2, <2>1, CacheSizes DEF SoundCache, Roomy
<1> QED BY <1>1, <1>3, <1>4, <1>7, <1>8 DEF SoundCache, s

LEMMA ReapSound ==
    ASSUME NEW c, NEW r, SoundCache(c, r)
    PROVE  LET s == Reap(r) IN
           /\ SoundCache(c, s) /\ s.charged <= r.charged
           /\ s.reads = r.reads \cap buffers /\ s.entries = r.entries /\ s.epoch = r.epoch
           /\ s.pending \subseteq r.pending
<1> DEFINE lost == Abandoned(r)
           hit == r.candidate # Nothing /\ \E t \in lost : t.epoch = r.candidate.epoch
           q == IF hit THEN Cancelled(r) ELSE r
           s == Forgotten(q, lost)
<1>1. Reap(r) = s
    BY DEF Reap, Forgotten
<1>2. lost \subseteq r.reads /\ r.reads \ lost = r.reads \cap buffers
    BY DEF Abandoned
<1> HIDE DEF lost
<1>3. /\ SoundCache(c, q) /\ q.charged <= r.charged /\ q.reads = r.reads /\ q.entries = r.entries
      /\ q.epoch = r.epoch /\ q.pending \subseteq r.pending
    <2>1. r.charged \in Nat
        BY ChargedNat
    <2>2. CASE hit
        <3>1. q = Cancelled(r)
            BY <2>2
        <3> HIDE DEF q, hit
        <3> QED BY <2>1, <3>1, CancelledSound
    <2>3. CASE ~hit
        <3>1. q = r
            BY <2>3
        <3> HIDE DEF q, hit
        <3> QED BY <2>1, <3>1
    <2> QED BY <2>2, <2>3
<1>4. lost \cap q.pending = {}
    <2>1. CASE hit
        BY <2>1, CancelledSound
    <2>2. CASE ~hit
        <3>1. \A t \in r.pending : r.candidate # Nothing /\ t.epoch = r.candidate.epoch
            BY DEF SoundCache, Asking
        <3> QED BY <2>2, <3>1
    <2> QED BY <2>1, <2>2
<1> HIDE DEF q
<1>5. /\ SoundCache(c, s) /\ s.charged <= q.charged /\ s.pending = q.pending
      /\ s.reads = q.reads \ lost /\ s.entries = q.entries /\ s.epoch = q.epoch
    <2>1. lost \subseteq q.reads /\ SoundCache(c, q)
        BY <1>2, <1>3
    <2> QED BY <1>4, <2>1, ForgottenSound
<1> HIDE DEF s
<1>6. s.charged <= r.charged
    <2>1. s.charged \in Nat /\ q.charged \in Nat /\ r.charged \in Nat
        BY <1>3, <1>5, ChargedNat
    <2> QED BY <1>3, <1>5, <2>1
<1> QED BY <1>1, <1>2, <1>3, <1>5, <1>6

WithReads(r, R) == [r EXCEPT !.reads = R]

LEMMA WithReadsSound ==
    ASSUME NEW c, NEW r, SoundCache(c, r), NEW R, IsFiniteSet(R), r.pending \cup R = r.pending \cup r.reads
    PROVE  LET s == WithReads(r, R) IN
           /\ SoundCache(c, s) /\ s.charged = r.charged /\ s.pending = r.pending /\ s.reads = R
           /\ s.entries = r.entries /\ s.epoch = r.epoch /\ s.candidate = r.candidate
<1> DEFINE s == WithReads(r, R)
<1>1. /\ s.pending = r.pending /\ s.candidate = r.candidate /\ s.reads = R
      /\ s.entries = r.entries /\ s.frames = r.frames /\ s.epoch = r.epoch
      /\ s.charged = r.charged /\ s = [f \in CacheFields |-> s[f]]
    BY DEF WithReads, SoundCache, Filed, CacheFields
<1> HIDE DEF s
<1>2. Resident(s) = Resident(r) /\ Shows(s) = Shows(r) /\ Window(s) = Window(r)
      /\ s.pending \cup s.reads = r.pending \cup r.reads
    BY <1>1 DEF Resident, Shows, Window
<1>3. Filed(c, s)
    BY <1>1, <1>2 DEF SoundCache, Filed
<1>4. Asking(s) /\ Roomy(s)
    BY <1>1, <1>2 DEF SoundCache, Asking, Roomy
<1>5. Priced(s)
    BY <1>1, <1>2 DEF SoundCache, Priced, EntryBytes
<1> QED BY <1>1, <1>3, <1>4, <1>5 DEF SoundCache, s

(* A tile that was asked for arrives.                                      *)
Arrived(r, t, bytes) ==
    [r EXCEPT !.reads = @ \ {t}, !.charged = @ - Reserved(t.key) + bytes, !.pending = @ \ {t},
              !.entries = Pushed(r, t.key, bytes)]

LEMMA ArrivedSound ==
    ASSUME NEW c, NEW r, SoundCache(c, r), NEW t, t \in r.pending, NEW bytes \in Retained(t.key)
    PROVE  LET s == Arrived(r, t, bytes) IN
           /\ SoundCache(c, s) /\ s.charged <= r.charged /\ s.reads = r.reads \ {t}
           /\ Resident(s) = Resident(r) \cup {t.key} /\ s.epoch = r.epoch
<1> DEFINE s == Arrived(r, t, bytes)
           k == t.key
<1>1. /\ s.pending = r.pending \ {t} /\ s.candidate = r.candidate /\ s.reads = r.reads \ {t}
      /\ s.entries = Pushed(r, k, bytes) /\ s.frames = r.frames /\ s.epoch = r.epoch
      /\ s.charged = r.charged - Reserved(k) + bytes /\ s = [f \in CacheFields |-> s[f]]
    BY DEF Arrived, SoundCache, Filed, CacheFields
<1> HIDE DEF s
<1>2. /\ Resident(s) = Resident(r) \cup {k} /\ Shows(s) = Shows(r) /\ Window(s) = Window(r)
      /\ s.entries = [j \in Resident(s) |-> s.entries[j]]
      /\ \A j \in Resident(r) : j # k => s.entries[j] = r.entries[j]
      /\ s.entries[k] = [bytes |-> bytes, tick |-> r.epoch, place |-> Cardinality(Resident(r)) + 1]
    BY <1>1 DEF Resident, Shows, Window, Pushed
<1>3. /\ k \in Keys /\ k \notin Resident(r) /\ r.candidate # Nothing /\ t.epoch = r.epoch /\ r.epoch \in Nat
      /\ bytes \in Nat /\ bytes <= Reserved(k) /\ Reserved(k) \in Nat /\ Resident(r) \subseteq Keys
      /\ Cardinality(Resident(r)) \in Nat
    BY CacheSizes, FiniteParts DEF SoundCache, Filed, Asking, TileTickets
<1>4. Filed(c, s)
    <2>1. s.entries[k] \in Entries /\ s.entries[k].tick <= s.epoch
        BY <1>1, <1>2, <1>3 DEF Entries
    <2>2. \A j \in Resident(s) : s.entries[j] \in Entries /\ s.entries[j].tick <= s.epoch
        BY <1>1, <1>2, <2>1 DEF SoundCache, Filed
    <2>3. IsFiniteSet(s.pending) /\ IsFiniteSet(s.reads)
        BY <1>1, FS_Subset DEF SoundCache, Filed
    <2> QED BY <1>1, <1>2, <1>3, <2>2, <2>3 DEF SoundCache, Filed
<1>5. Asking(s)
    <2>1. \A u \in r.pending : u # t => u.key # k
        <3> SUFFICES ASSUME NEW u \in r.pending, u.key = k PROVE u = t
            OBVIOUS
        <3>1. u \in TileTickets /\ t \in TileTickets /\ u.cache = t.cache /\ u.epoch = t.epoch
            BY DEF SoundCache, Filed, Asking
        <3> QED BY <3>1 DEF TileTickets
    <2> QED BY <1>1, <1>2, <2>1 DEF SoundCache, Asking
<1>6. /\ IsFiniteSet(r.pending \cup r.reads) /\ (r.pending \cup r.reads) \ {t} = s.pending \cup s.reads
      /\ ReservedFor(r.pending \cup r.reads) = Reserved(k) + ReservedFor(s.pending \cup s.reads)
      /\ ReservedFor(s.pending \cup s.reads) \in Nat
    <2>1. IsFiniteSet(r.pending \cup r.reads) /\ (r.pending \cup r.reads) \ {t} = s.pending \cup s.reads
          /\ t \in r.pending \cup r.reads /\ s.pending \cup s.reads \in SUBSET (r.pending \cup r.reads)
        BY <1>1, ChargedNat
    <2>2. ReservedFor(r.pending \cup r.reads) = Reserved(k) + ReservedFor((r.pending \cup r.reads) \ {t})
        BY <2>1, ReservedLaws
    <2> QED BY <2>1, <2>2, ReservedLaws
<1>7. EntryBytes(s, Resident(s)) = EntryBytes(r, Resident(r)) + bytes
    <2>1. \A j \in Resident(s) : s.entries[j].bytes \in Nat
        BY <1>4 DEF Filed, Entries
    <2>2. Resident(s) \subseteq Keys /\ k \in Resident(s) /\ {k} \in SUBSET Resident(s)
          /\ Resident(s) \ {k} = Resident(r) /\ s.entries[k].bytes = bytes
        BY <1>2, <1>3
    <2>3. EntryBytes(s, Resident(s)) = EntryBytes(s, {k}) + EntryBytes(s, Resident(s) \ {k})
          /\ EntryBytes(s, {k}) = bytes
        BY <2>1, <2>2, EntryLaws
    <2>4. EntryBytes(s, Resident(r)) = EntryBytes(r, Resident(r))
        BY <1>2, <1>3, FiniteParts, SameBytes
    <2>5. EntryBytes(r, Resident(r)) \in Nat
        BY ChargedNat
    <2>6. EntryBytes(s, Resident(s) \ {k}) = EntryBytes(s, Resident(r))
        BY <2>2, Zenon
    <2> QED BY <1>3, <2>3, <2>4, <2>5, <2>6
<1>8. Priced(s) /\ s.charged <= r.charged
    <2>1. EntryBytes(r, Resident(r)) \in Nat /\ ReservedFor(r.pending \cup r.reads) \in Nat
          /\ r.charged = Metadata + EntryBytes(r, Resident(r)) + ReservedFor(r.pending \cup r.reads)
          /\ Metadata \in Nat
        BY ChargedNat, CacheSizes DEF SoundCache, Priced
    <2> QED BY <1>1, <1>3, <1>6, <1>7, <2>1 DEF Priced
<1>9. Roomy(s)
    <2>1. Cardinality(s.pending \cup s.reads) <= Cardinality(r.pending \cup r.reads)
          /\ Cardinality(s.pending \cup s.reads) \in Nat /\ Cardinality(r.pending \cup r.reads) \in Nat
        BY <1>6, FS_Subset, FS_CardinalityType
    <2>2. Cardinality(s.pending) = Cardinality(r.pending) - 1 /\ Cardinality(r.pending) \in Nat
        <3>1. IsFiniteSet(r.pending)
            BY DEF SoundCache, Filed
        <3>2. Cardinality(r.pending \ {t}) = Cardinality(r.pending) - 1 /\ Cardinality(r.pending) \in Nat
            BY <3>1, LessOne
        <3> QED BY <1>1, <3>2
    <2>3. Cardinality(Resident(s)) = Cardinality(Resident(r)) + 1
        BY <1>2, <1>3, FS_AddElement, FiniteParts
    <2> QED BY <1>1, <1>2, <1>3, <2>1, <2>2, <2>3, CacheSizes DEF SoundCache, Roomy
<1> QED BY <1>1, <1>2, <1>4, <1>5, <1>8, <1>9 DEF SoundCache, s

LEMMA EmptySound ==
    ASSUME NEW c \in Caches
    PROVE  SoundCache(c, Empty) /\ Empty.charged = Metadata /\ Empty.pending = {} /\ Empty.reads = {}
           /\ Empty.epoch = 0 /\ Resident(Empty) = {} /\ Empty.candidate = Nothing
<1> DEFINE r == Empty
<1>1. /\ r.entries = [k \in {} |-> 0] /\ r.pending = {} /\ r.reads = {} /\ r.candidate = Nothing
      /\ r.frames = [v \in Views |-> Nothing] /\ r.charged = Metadata /\ r.epoch = 0
      /\ r = [f \in CacheFields |-> r[f]]
    BY DEF Empty, CacheFields
<1> HIDE DEF r
<1>2. Resident(r) = {} /\ Shows(r) = {} /\ r.pending \cup r.reads = {}
    BY <1>1 DEF Resident, Shows
<1>3. Window(r) = 0
    <2>1. {v \in Views : r.frames[v] # Nothing} = {}
        BY <1>1
    <2> QED BY <2>1, FS_EmptySet DEF Window
<1>4. Filed(c, r)
    <2>1. MaxEpoch[c] \in Nat
        BY CacheSizes
    <2>2. r.entries = [k \in Resident(r) |-> r.entries[k]]
        BY <1>1, <1>2
    <2> QED BY <1>1, <1>2, <2>1, <2>2, FS_EmptySet DEF Filed
<1>5. Asking(r)
    BY <1>1, <1>2 DEF Asking
<1>6. Roomy(r)
    <2>1. Cardinality({}) = 0
        BY FS_EmptySet
    <2>2. Cardinality(Resident(r)) = 0 /\ Cardinality(r.pending) = 0 /\ Cardinality(r.pending \cup r.reads) = 0
        BY <1>1, <1>2, <2>1, Zenon
    <2> QED BY <1>1, <1>3, <2>2, CacheSizes DEF Roomy
<1>7. Priced(r)
    <2>1. EntryBytes(r, {}) = 0
        BY SumEmpty DEF EntryBytes
    <2>2. EntryBytes(r, Resident(r)) = 0
        BY <1>2, <2>1, Zenon
    <2>3. ReservedFor(r.pending \cup r.reads) = 0
        BY <1>2, ReservedNone, Zenon
    <2> QED BY <1>1, <2>2, <2>3, CacheSizes DEF Priced
<1> QED BY <1>1, <1>2, <1>4, <1>5, <1>6, <1>7 DEF SoundCache, r

(* One view shown more, one fewer.                                         *)
Shown(r) == {v \in Views : r.frames[v] # Nothing}

LEMMA ViewsShown ==
    ASSUME NEW c, NEW r, SoundCache(c, r)
    PROVE  /\ Shows(r) = UNION {r.frames[v].keys : v \in Shown(r)}
           /\ Window(r) = Cardinality(Shown(r)) /\ IsFiniteSet(Shown(r)) /\ Window(r) \in Nat
<1>1. IsFiniteSet(Shown(r))
    BY FiniteCachesAssumption, FS_Subset DEF Shown
<1> QED BY <1>1, FS_CardinalityType DEF Shown, Shows, Window

CommittedFrame(r) ==
    [r EXCEPT !.candidate = Nothing,
              !.frames[r.candidate.view] = [epoch |-> r.candidate.epoch, keys |-> r.candidate.keys]]

LEMMA CommittedSound ==
    ASSUME NEW c, NEW r, SoundCache(c, r), r.candidate # Nothing, r.pending = {}
    PROVE  LET s == CommittedFrame(r) IN
           /\ SoundCache(c, s) /\ s.charged = r.charged /\ s.reads = r.reads
           /\ s.entries = r.entries /\ s.epoch = r.epoch
<1> DEFINE s == CommittedFrame(r)
           w == r.candidate.view
           f == [epoch |-> r.candidate.epoch, keys |-> r.candidate.keys]
<1>1. /\ s.pending = r.pending /\ s.candidate = Nothing /\ s.reads = r.reads
      /\ s.entries = r.entries /\ s.epoch = r.epoch /\ s.charged = r.charged
      /\ s.frames = [r.frames EXCEPT ![w] = f]
      /\ s = [g \in CacheFields |-> s[g]]
    BY DEF CommittedFrame, SoundCache, Filed, CacheFields
<1> HIDE DEF s
<1>2. r.candidate \in Candidates /\ w \in Views /\ f \in Frames /\ f # Nothing /\ f.keys = r.candidate.keys
      /\ r.frames \in [Views -> Frames \cup {Nothing}]
    BY NothingElse DEF SoundCache, Filed, Candidates, Frames
<1> HIDE DEF f
<1>3. /\ s.frames \in [Views -> Frames \cup {Nothing}] /\ s.frames[w] = f
      /\ \A v \in Views \ {w} : s.frames[v] = r.frames[v]
    BY <1>1, <1>2
<1>4. Resident(s) = Resident(r) /\ Shown(s) = Shown(r) \cup {w}
    BY <1>1, <1>2, <1>3 DEF Resident, Shown
<1>5. Shows(s) \subseteq Resident(s)
    <2>1. r.candidate.keys \subseteq Resident(r) /\ Shows(r) \subseteq Resident(r)
        BY DEF SoundCache, Asking
    <2>2. \A v \in Shown(r) : r.frames[v].keys \subseteq Shows(r)
        BY DEF Shows, Shown
    <2>3. \A v \in Shown(s) : s.frames[v].keys \subseteq Resident(r)
        <3> SUFFICES ASSUME NEW v \in Shown(s) PROVE s.frames[v].keys \subseteq Resident(r)
            OBVIOUS
        <3>1. CASE v = w
            BY <1>2, <1>3, <2>1, <3>1
        <3>2. CASE v # w
            <4>1. v \in Shown(r) /\ s.frames[v] = r.frames[v]
                BY <1>3, <1>4, <3>2 DEF Shown
            <4> QED BY <2>1, <2>2, <4>1
        <3> QED BY <3>1, <3>2
    <2> QED BY <1>4, <2>3 DEF Shows, Shown
<1>6. Filed(c, s)
    BY <1>1, <1>3, <1>4 DEF SoundCache, Filed
<1>7. Asking(s)
    BY <1>1, <1>5 DEF Asking
<1>8. Roomy(s)
    <2>1. Window(s) <= MaxViews
        <3>1. Window(s) = Cardinality(Shown(r) \cup {w}) /\ Window(r) = Cardinality(Shown(r))
              /\ IsFiniteSet(Shown(r)) /\ Window(r) \in Nat
            BY <1>4, ViewsShown DEF Window, Shown
        <3>2. CASE r.frames[w] = Nothing
            <4>1. w \notin Shown(r) /\ Window(r) < MaxViews
                BY <3>2 DEF Shown, SoundCache, Roomy
            <4>2. Cardinality(Shown(r) \cup {w}) = Cardinality(Shown(r)) + 1
                BY <3>1, <4>1, FS_AddElement
            <4>3. MaxViews \in Nat
                BY CacheSizes
            <4> QED BY <3>1, <4>1, <4>2, <4>3
        <3>3. CASE r.frames[w] # Nothing
            <4>1. Shown(r) \cup {w} = Shown(r)
                BY <1>2, <3>3 DEF Shown
            <4> QED BY <3>1, <4>1 DEF SoundCache, Roomy
        <3> QED BY <3>2, <3>3
    <2> QED BY <1>1, <1>4, <2>1 DEF SoundCache, Roomy
<1>9. Priced(s)
    BY <1>1, <1>4 DEF SoundCache, Priced, EntryBytes
<1> QED BY <1>1, <1>6, <1>7, <1>8, <1>9 DEF SoundCache, s

Blanked(r, v) == [r EXCEPT !.frames[v] = Nothing]

LEMMA BlankedSound ==
    ASSUME NEW c, NEW r, SoundCache(c, r), NEW v \in Views, r.candidate # Nothing => r.candidate.view # v
    PROVE  LET s == Blanked(r, v) IN
           /\ SoundCache(c, s) /\ s.charged = r.charged /\ s.reads = r.reads
           /\ s.entries = r.entries /\ s.epoch = r.epoch
<1> DEFINE s == Blanked(r, v)
<1>1. /\ s.pending = r.pending /\ s.candidate = r.candidate /\ s.reads = r.reads
      /\ s.entries = r.entries /\ s.epoch = r.epoch /\ s.charged = r.charged
      /\ s.frames = [r.frames EXCEPT ![v] = Nothing]
      /\ s = [g \in CacheFields |-> s[g]]
    BY DEF Blanked, SoundCache, Filed, CacheFields
<1> HIDE DEF s
<1>2. r.frames \in [Views -> Frames \cup {Nothing}]
    BY DEF SoundCache, Filed
<1>3. /\ s.frames \in [Views -> Frames \cup {Nothing}] /\ s.frames[v] = Nothing
      /\ \A w \in Views \ {v} : s.frames[w] = r.frames[w]
    BY <1>1, <1>2
<1>4. Resident(s) = Resident(r) /\ Shown(s) = Shown(r) \ {v}
    BY <1>1, <1>2, <1>3 DEF Resident, Shown
<1>5. Shows(s) \subseteq Resident(s)
    <2>1. \A w \in Shown(s) : s.frames[w] = r.frames[w] /\ w \in Shown(r)
        BY <1>3, <1>4 DEF Shown
    <2>2. Shows(s) \subseteq Shows(r)
        BY <2>1 DEF Shows, Shown
    <2> QED BY <1>4, <2>2 DEF SoundCache, Asking
<1>6. Filed(c, s)
    BY <1>1, <1>3, <1>4 DEF SoundCache, Filed
<1>7. Asking(s)
    BY <1>1, <1>4, <1>5 DEF SoundCache, Asking
<1>8. Roomy(s)
    <2>1. Window(s) <= Window(r) /\ Window(s) \in Nat /\ Window(r) \in Nat
        <3>1. Window(s) = Cardinality(Shown(r) \ {v}) /\ Window(r) = Cardinality(Shown(r))
              /\ IsFiniteSet(Shown(r)) /\ Window(r) \in Nat
            BY <1>4, ViewsShown DEF Window, Shown
        <3> QED BY <3>1, FS_Subset, FS_CardinalityType
    <2>2. ASSUME r.candidate # Nothing, s.frames[r.candidate.view] = Nothing PROVE Window(r) < MaxViews
        <3>1. r.candidate.view \in Views \ {v}
            BY <2>2 DEF SoundCache, Filed, Candidates
        <3> QED BY <1>3, <2>2, <3>1 DEF SoundCache, Roomy
    <2> QED BY <1>1, <1>4, <2>1, <2>2, CacheSizes DEF SoundCache, Roomy
<1>9. Priced(s)
    BY <1>1, <1>4 DEF SoundCache, Priced, EntryBytes
<1> QED BY <1>1, <1>6, <1>7, <1>8, <1>9 DEF SoundCache, s
-----------------------------------------------------------------------------
(* What begin_frame plans: the oldest entries that no view and no selected *)
(* key needs, as few of them as will do.                                   *)
LEMMA OlderIsOrder ==
    ASSUME NEW c, NEW r, SoundCache(c, r), NEW i \in Resident(r), NEW j \in Resident(r)
    PROVE  /\ OlderEntry(r, i, j) \/ OlderEntry(r, j, i)
           /\ \A k \in Resident(r) : OlderEntry(r, k, i) /\ OlderEntry(r, i, j) => OlderEntry(r, k, j)
<1>1. \A k \in Resident(r) : r.entries[k].tick \in Int /\ r.entries[k].place \in Int
    BY DEF SoundCache, Filed, Entries
<1> QED BY <1>1 DEF OlderEntry

LEMMA VictimsFit ==
    ASSUME NEW c, NEW r, SoundCache(c, r), NEW keys, Plans(c, r, keys) # {}
    PROVE  /\ Victims(c, r, keys) \subseteq Evictable(r, keys)
           /\ Makes(c, r, keys, Victims(c, r, keys))
<1> DEFINE E == Evictable(r, keys)
           P(i) == {j \in E : OlderEntry(r, j, i)}
           B == Plans(c, r, keys)
<1>1. E \subseteq Resident(r) /\ IsFiniteSet(E)
    BY FiniteParts, FS_Subset DEF Evictable, SoundCache, Filed
<1>2. \A T \in B : (T = {} \/ \E i \in E : T = P(i)) /\ Makes(c, r, keys, T)
    BY DEF Plans
<1>3. B \subseteq SUBSET E
    BY <1>2
<1>4. ASSUME NEW T \in B, NEW U \in B PROVE T \subseteq U \/ U \subseteq T
    <2>1. ASSUME NEW i \in E, NEW j \in E, OlderEntry(r, i, j) PROVE P(i) \subseteq P(j)
        BY <1>1, <2>1, OlderIsOrder
    <2>2. ASSUME NEW i \in E, NEW j \in E PROVE OlderEntry(r, i, j) \/ OlderEntry(r, j, i)
        BY <1>1, OlderIsOrder
    <2> HIDE DEF P, E, B
    <2> QED BY <1>2, <1>4, <2>1, <2>2
<1>5. PICK T \in B : \A U \in B : Cardinality(U) < Cardinality(T) => FALSE
    <2> HIDE DEF E, B
    <2>1. B # {}
        BY DEF B
    <2> QED BY <1>1, <1>3, <2>1, SmallestSet
<1>6. ASSUME NEW U \in B PROVE T \subseteq U
    <2> HIDE DEF E, B, P
    <2>1. IsFiniteSet(T) /\ Cardinality(T) \in Nat
        BY <1>1, <1>3, <1>5, FS_Subset, FS_CardinalityType
    <2>2. CASE U \subseteq T
        <3>1. Cardinality(U) <= Cardinality(T) /\ (Cardinality(U) = Cardinality(T) => T = U) /\ Cardinality(U) \in Nat
            BY <2>1, <2>2, FS_Subset, FS_CardinalityType
        <3>2. T = U
            BY <1>5, <1>6, <2>1, <3>1
        <3> QED BY <3>2
    <2> QED BY <1>4, <1>5, <1>6, <2>2
<1> HIDE DEF E, P
<1>7. Victims(c, r, keys) \in B
    BY <1>5, <1>6 DEF Victims
<1> QED BY <1>2, <1>3, <1>7 DEF E

LEMMA RequestsAre ==
    ASSUME NEW c \in Caches, NEW r, SoundCache(c, r), NEW keys, keys \subseteq Keys
    PROVE  LET q == Requests(c, r, keys) IN
           /\ q \subseteq TileTickets /\ IsFiniteSet(q) /\ Cardinality(q) \in Nat
           /\ \A t \in q : t.cache = c /\ t.epoch = r.epoch + 1 /\ t.key \in keys \ Resident(r)
           /\ \A k \in keys \ Resident(r) : \E t \in q : t.key = k
           /\ q \cap (r.pending \cup r.reads) = {}
<1> DEFINE q == Requests(c, r, keys)
           K == keys \ Resident(r)
           f == [k \in K |-> Ticket(c, r.epoch + 1, k)]
<1>1. r.epoch \in Nat /\ r.epoch + 1 \in Nat /\ r.epoch + 1 # r.epoch
    BY DEF SoundCache, Filed
<1>2. /\ \A t \in q : t.cache = c /\ t.epoch = r.epoch + 1 /\ t.key \in K /\ t \in TileTickets
      /\ \A k \in K : \E t \in q : t.key = k
    <2>1. \A t \in q : \E k \in K : t = Ticket(c, r.epoch + 1, k)
        BY DEF Requests
    <2>2. \A k \in K : /\ Ticket(c, r.epoch + 1, k) \in q /\ Ticket(c, r.epoch + 1, k) \in TileTickets
                       /\ Ticket(c, r.epoch + 1, k).cache = c /\ Ticket(c, r.epoch + 1, k).key = k
                       /\ Ticket(c, r.epoch + 1, k).epoch = r.epoch + 1
        BY <1>1 DEF Requests, Ticket, TileTickets
    <2> HIDE DEF q, K
    <2> QED BY <2>1, <2>2
<1>3. IsFiniteSet(q) /\ Cardinality(q) \in Nat
    <2>1. IsFiniteSet(K)
        <3>1. IsFiniteSet(Keys) /\ K \in SUBSET Keys
            BY FiniteCachesAssumption
        <3> QED BY <3>1, FS_Subset
    <2>2. f \in Surjection(K, q)
        BY DEF Requests, Surjection
    <2> HIDE DEF f, q, K
    <2> QED BY <2>1, <2>2, FS_Surjection, FS_CardinalityType
<1>4. \A t \in r.pending \cup r.reads : t.epoch \in 1..r.epoch
    BY DEF SoundCache, Filed
<1>5. q \cap (r.pending \cup r.reads) = {}
    <2>1. r.epoch + 1 \notin 1..r.epoch
        BY <1>1
    <2> HIDE DEF q
    <2> QED BY <1>2, <1>4, <2>1
<1> QED BY <1>2, <1>3, <1>5

Begun(c, r, p) ==
    /\ p \in Begins /\ r.epoch < MaxEpoch[c]
    /\ p.victims \subseteq Evictable(r, p.keys)
    /\ p.goal = Asked(c, r, p.keys) - EntryBytes(r, p.victims)
    /\ p.rise = IF p.goal > r.charged THEN p.goal - r.charged ELSE 0
    /\ Cardinality(Resident(r)) - Cardinality(p.victims) + Cardinality(Requests(c, r, p.keys)) <= MaxEntries
    /\ r.frames[p.view] = Nothing => Window(r) < MaxViews
    /\ Requests(c, r, p.keys) # {} =>
        Cardinality(Requests(c, r, p.keys)) + Cardinality(r.reads) <= MaxPending

LEMMA GoalIs ==
    ASSUME NEW c \in Caches, NEW r, SoundCache(c, r), NEW keys, keys \subseteq Keys,
           NEW victims, victims \subseteq Resident(r)
    PROVE  /\ Asked(c, r, keys) - EntryBytes(r, victims)
                = Metadata + EntryBytes(r, Resident(r) \ victims) + ReservedFor(Requests(c, r, keys) \cup r.reads)
           /\ Asked(c, r, keys) - EntryBytes(r, victims) \in Nat
<1> DEFINE q == Requests(c, r, keys)
           new == r.pending \ r.reads
<1>1. IsFiniteSet(q) /\ IsFiniteSet(r.reads) /\ IsFiniteSet(new) /\ q \cap r.reads = {} /\ new \cap r.reads = {}
      /\ new \cup r.reads = r.pending \cup r.reads
    <2>1. IsFiniteSet(r.pending) /\ IsFiniteSet(r.reads)
        BY DEF SoundCache, Filed
    <2>2. IsFiniteSet(new)
        BY <2>1, FS_Difference
    <2>3. IsFiniteSet(q) /\ q \cap (r.pending \cup r.reads) = {}
        BY RequestsAre
    <2> HIDE DEF q
    <2> QED BY <2>1, <2>2, <2>3
<1>2. r.charged = Metadata + EntryBytes(r, Resident(r)) + ReservedFor(r.pending \cup r.reads)
      /\ Metadata \in Nat
    BY CacheSizes DEF SoundCache, Priced
<1> HIDE DEF new, q
<1>3. /\ ReservedFor(r.pending \cup r.reads) = ReservedFor(new) + ReservedFor(r.reads)
      /\ ReservedFor(q \cup r.reads) = ReservedFor(q) + ReservedFor(r.reads)
      /\ ReservedFor(new) \in Nat /\ ReservedFor(r.reads) \in Nat /\ ReservedFor(q) \in Nat
    <2>1. ReservedFor(new \cup r.reads) = ReservedFor(new) + ReservedFor(r.reads)
        BY <1>1, ReservedBoth
    <2>2. ReservedFor(q \cup r.reads) = ReservedFor(q) + ReservedFor(r.reads)
        BY <1>1, ReservedBoth
    <2> QED BY <1>1, <2>1, <2>2, ReservedLaws
<1>4. /\ EntryBytes(r, Resident(r)) = EntryBytes(r, victims) + EntryBytes(r, Resident(r) \ victims)
      /\ EntryBytes(r, victims) \in Nat /\ EntryBytes(r, Resident(r) \ victims) \in Nat
    <2>1. Resident(r) \subseteq Keys /\ \A k \in Resident(r) : r.entries[k].bytes \in Nat
        BY DEF SoundCache, Filed, Entries
    <2>2. victims \in SUBSET Resident(r) /\ Resident(r) \ victims \in SUBSET Resident(r)
        OBVIOUS
    <2> QED BY <2>1, <2>2, EntryLaws
<1>5. Asked(c, r, keys) = r.charged - ReservedFor(new) + ReservedFor(q)
    BY DEF Asked, new, q
<1> QED BY <1>2, <1>3, <1>4, <1>5 DEF q

Entered(c, r, p) ==
    [r EXCEPT !.entries = Touch(Survivors(r, p.victims), p.keys, r.epoch + 1),
              !.pending = Requests(c, r, p.keys),
              !.candidate = [epoch |-> r.epoch + 1, view |-> p.view, keys |-> p.keys],
              !.charged = p.goal, !.epoch = r.epoch + 1]

LEMMA EnteredSound ==
    ASSUME NEW c \in Caches, NEW r, SoundCache(c, r), NEW p, Begun(c, r, p)
    PROVE  LET s == Entered(c, r, p) IN
           /\ SoundCache(c, s) /\ s.charged = p.goal /\ s.reads = r.reads
           /\ Resident(s) \subseteq Resident(r) /\ s.epoch = r.epoch + 1
<1> DEFINE s == Entered(c, r, p)
           q == Requests(c, r, p.keys)
           e == r.epoch + 1
           w == Survivors(r, p.victims)
<1>1. /\ s.entries = Touch(w, p.keys, e) /\ s.pending = q /\ s.reads = r.reads /\ s.frames = r.frames
      /\ s.candidate = [epoch |-> e, view |-> p.view, keys |-> p.keys]
      /\ s.charged = p.goal /\ s.epoch = e /\ s = [f \in CacheFields |-> s[f]]
    BY DEF Entered, SoundCache, Filed, CacheFields
<1> HIDE DEF s
<1>2. /\ p.view \in Views /\ p.keys \in Cameras /\ p.keys \subseteq Keys /\ p.goal \in Nat /\ p.rise \in Nat
      /\ p.victims \subseteq Resident(r) /\ p.victims \cap p.keys = {} /\ p.victims \cap Shows(r) = {}
      /\ r.epoch \in Nat /\ e \in Nat /\ e <= MaxEpoch[c] /\ Resident(r) \subseteq Keys
      /\ MaxEpoch[c] \in Nat
    <2>1. p.view \in Views /\ p.keys \in Cameras /\ p.goal \in Nat /\ p.rise \in Nat
        BY DEF Begun, Begins
    <2>2. p.keys \subseteq Keys
        BY <2>1, CacheAssumption
    <2>3. p.victims \subseteq Resident(r) /\ p.victims \cap p.keys = {} /\ p.victims \cap Shows(r) = {}
        BY DEF Begun, Evictable
    <2>4. r.epoch \in Nat /\ r.epoch < MaxEpoch[c] /\ MaxEpoch[c] \in Nat /\ Resident(r) \subseteq Keys
        BY CacheSizes DEF Begun, SoundCache, Filed
    <2> QED BY <2>1, <2>2, <2>3, <2>4
<1>3. /\ q \subseteq TileTickets /\ IsFiniteSet(q) /\ Cardinality(q) \in Nat
      /\ \A t \in q : t.cache = c /\ t.epoch = e /\ t.key \in p.keys \ Resident(r)
      /\ \A k \in p.keys \ Resident(r) : \E t \in q : t.key = k
      /\ q \cap (r.pending \cup r.reads) = {}
    BY <1>2, RequestsAre
<1> HIDE DEF q
<1>4. /\ DOMAIN w = Resident(r) \ p.victims
      /\ \A k \in DOMAIN w : w[k] \in Entries /\ w[k].tick <= r.epoch /\ w[k].bytes = r.entries[k].bytes
    <2>1. DOMAIN w = Resident(r) \ p.victims
        BY DEF Survivors
    <2>2. ASSUME NEW k \in DOMAIN w
          PROVE  w[k] \in Entries /\ w[k].tick <= r.epoch /\ w[k].bytes = r.entries[k].bytes
        <3> DEFINE n == Cardinality({j \in p.victims : r.entries[j].place < r.entries[k].place})
        <3>1. k \in Resident(r) /\ w[k] = [r.entries[k] EXCEPT !.place = @ - n]
            BY <2>1, <2>2 DEF Survivors
        <3>2. n \in Nat
            <4>1. IsFiniteSet({j \in p.victims : r.entries[j].place < r.entries[k].place})
                BY <1>2, FiniteParts, FS_Subset
            <4> QED BY <4>1, FS_CardinalityType
        <3>3. r.entries[k] \in Entries /\ r.entries[k].tick <= r.epoch
            BY <3>1 DEF SoundCache, Filed
        <3> HIDE DEF n, w
        <3> QED BY <3>1, <3>2, <3>3 DEF Entries
    <2> QED BY <2>1, <2>2
<1> HIDE DEF w
<1>5. /\ Resident(s) = Resident(r) \ p.victims /\ s.entries = [k \in Resident(s) |-> s.entries[k]]
      /\ \A k \in Resident(s) : /\ s.entries[k] \in Entries /\ s.entries[k].tick <= e
                                /\ s.entries[k].bytes = r.entries[k].bytes
    <2>1. DOMAIN s.entries = DOMAIN w /\ s.entries = [k \in DOMAIN w |-> s.entries[k]]
          /\ \A k \in DOMAIN w : s.entries[k] = IF k \in p.keys THEN [w[k] EXCEPT !.tick = e] ELSE w[k]
        BY <1>1 DEF Touch
    <2>2. ASSUME NEW k \in DOMAIN w
          PROVE  /\ s.entries[k] \in Entries /\ s.entries[k].tick <= e
                 /\ s.entries[k].bytes = r.entries[k].bytes
        <3>1. w[k] \in Entries /\ w[k].tick <= r.epoch /\ w[k].bytes = r.entries[k].bytes
            BY <1>4, <2>2
        <3>2. CASE k \in p.keys
            <4>1. s.entries[k] = [w[k] EXCEPT !.tick = e]
                BY <2>1, <2>2, <3>2
            <4> QED BY <1>2, <3>1, <4>1 DEF Entries
        <3>3. CASE k \notin p.keys
            <4>1. s.entries[k] = w[k]
                BY <2>1, <2>2, <3>3
            <4> QED BY <1>2, <3>1, <4>1 DEF Entries
        <3> QED BY <3>2, <3>3
    <2> QED BY <1>4, <2>1, <2>2 DEF Resident
<1>6. Shows(s) = Shows(r) /\ Window(s) = Window(r) /\ Shows(r) \subseteq Resident(s)
    BY <1>1, <1>2, <1>5 DEF Shows, Window, SoundCache, Asking
<1>7. Filed(c, s)
    <2>1. \A t \in s.pending \cup s.reads : t \in TileTickets /\ t.cache = c /\ t.epoch \in 1..s.epoch
        <3>1. \A t \in s.pending : t \in TileTickets /\ t.cache = c /\ t.epoch \in 1..s.epoch
            BY <1>1, <1>2, <1>3
        <3>2. \A t \in s.reads : t \in TileTickets /\ t.cache = c /\ t.epoch \in 1..r.epoch
            BY <1>1 DEF SoundCache, Filed
        <3>3. 1..r.epoch \subseteq 1..s.epoch
            BY <1>1, <1>2
        <3> QED BY <3>1, <3>2, <3>3
    <2>2. s.candidate \in Candidates
        BY <1>1, <1>2 DEF Candidates
    <2>3. IsFiniteSet(s.pending) /\ IsFiniteSet(s.reads) /\ s.frames \in [Views -> Frames \cup {Nothing}]
          /\ Resident(s) \subseteq Keys
        BY <1>1, <1>2, <1>3, <1>5 DEF SoundCache, Filed
    <2> QED BY <1>1, <1>2, <1>5, <2>1, <2>2, <2>3 DEF Filed
<1>8. Asking(s)
    <2>0. s.candidate \in Candidates
        BY <1>1, <1>2 DEF Candidates
    <2>1. s.candidate # Nothing /\ s.candidate.epoch = s.epoch /\ s.candidate.keys = p.keys
        BY <1>1, <2>0, NothingElse
    <2>2. p.keys \subseteq Resident(s) \cup {t.key : t \in s.pending}
        BY <1>1, <1>2, <1>3, <1>5
    <2> QED BY <1>1, <1>3, <1>5, <1>6, <2>1, <2>2 DEF Asking
<1>9. Priced(s)
    <2>1. p.goal = Metadata + EntryBytes(r, Resident(s)) + ReservedFor(s.pending \cup s.reads)
        BY <1>1, <1>2, <1>5, GoalIs DEF Begun, q
    <2>2. EntryBytes(s, Resident(s)) = EntryBytes(r, Resident(s))
        <3>1. IsFiniteSet(Resident(s))
            BY <1>2, <1>5, FiniteParts
        <3>2. \A k \in Resident(s) : s.entries[k].bytes = r.entries[k].bytes
            BY <1>5
        <3> QED BY <3>1, <3>2, SameBytes
    <2> QED BY <1>1, <2>1, <2>2 DEF Priced
<1>10. Roomy(s)
    <2>1. Cardinality(s.pending \cup s.reads) <= MaxPending
        <3>1. CASE q = {}
            <4>1. s.pending \cup s.reads = r.reads
                BY <1>1, <3>1
            <4>2. Cardinality(r.reads) <= Cardinality(r.pending \cup r.reads) /\ Cardinality(r.reads) \in Nat
                  /\ Cardinality(r.pending \cup r.reads) \in Nat
                BY ChargedNat, FS_Subset, FS_CardinalityType DEF SoundCache, Filed
            <4>3. Cardinality(s.pending \cup s.reads) = Cardinality(r.reads)
                BY <4>1, Zenon
            <4> QED BY <4>2, <4>3, CacheSizes DEF SoundCache, Roomy
        <3>2. CASE q # {}
            <4>1. Cardinality(q) + Cardinality(r.reads) <= MaxPending
                BY <3>2 DEF Begun, q
            <4>2. q \cap r.reads = {} /\ IsFiniteSet(r.reads) /\ Cardinality(r.reads) \in Nat
                BY <1>3, FS_CardinalityType DEF SoundCache, Filed
            <4>3. Cardinality(q \cup r.reads) = Cardinality(q) + Cardinality(r.reads) - Cardinality(q \cap r.reads)
                BY <1>3, <4>2, FS_Union
            <4>4. Cardinality(q \cap r.reads) = 0
                BY <4>2, FS_EmptySet, Zenon
            <4> QED BY <1>1, <1>3, <4>1, <4>2, <4>3, <4>4
        <3> QED BY <3>1, <3>2
    <2>2. Cardinality(Resident(s)) + Cardinality(s.pending) <= MaxEntries
        <3>1. IsFiniteSet(Resident(r)) /\ Cardinality(Resident(r)) \in Nat
            BY <1>2, FiniteParts
        <3>2. Cardinality(Resident(r) \ p.victims) = Cardinality(Resident(r)) - Cardinality(Resident(r) \cap p.victims)
            BY <3>1, FS_Difference
        <3>3. Resident(r) \cap p.victims = p.victims /\ IsFiniteSet(p.victims) /\ Cardinality(p.victims) \in Nat
            BY <1>2, <3>1, FS_Subset, FS_CardinalityType
        <3>4. Cardinality(Resident(r)) - Cardinality(p.victims) + Cardinality(q) <= MaxEntries
            BY DEF Begun, q
        <3> QED BY <1>1, <1>3, <1>5, <3>1, <3>2, <3>3, <3>4
    <2> QED BY <1>1, <1>6, <2>1, <2>2 DEF SoundCache, Roomy, Begun
<1> QED BY <1>1, <1>5, <1>7, <1>8, <1>9, <1>10 DEF SoundCache, s
-----------------------------------------------------------------------------
(* All caches: what is under way in one, who holds its buffers, what was   *)
(* lent of its memory, and what the process was charged.                   *)
Stages == {"new", "live", "dropping", "dropped"}

Underway(c, r, s, d, p) ==
    \/ p = Nothing /\ s # "dropping"
    \/ Begun(c, r, p) /\ p.goal + d <= MaxBytes /\ s = "live"
    \/ p \in Reserves /\ s = "live"
    \/ p \in Drops /\ s = "dropping"

Steady(c, r, s, d, p) ==
    /\ SoundCache(c, r) /\ Underway(c, r, s, d, p)
    /\ s \in {"new", "dropped"} => r = Empty /\ p = Nothing
    /\ s = "new" => d = 0
    /\ s \in {"live", "dropping"} => r.charged + d <= MaxBytes

Shaped ==
    /\ process \in Nat /\ process <= ProcessBytes
    /\ stage \in [Caches -> Stages] /\ derived \in [Caches -> Nat]
    /\ cache = [c \in Caches |-> cache[c]] /\ call = [c \in Caches |-> call[c]]
    /\ lease \in [Leases -> LeasesHeld \cup {Nothing}]
    /\ buffers \subseteq TileTickets /\ IsFiniteSet(buffers) /\ detached \subseteq TileTickets

AllSteady == \A c \in Caches : Steady(c, cache[c], stage[c], derived[c], call[c])

(* A cache being dropped has detached the reads hosts still held, and has    *)
(* set their charge aside.                                                 *)
LetsGo(p, reads, inHand, gone) == p.held = ReservedFor(reads \cap gone) /\ reads \cap inHand \subseteq gone

Handed ==
    /\ \A t \in buffers : IF stage[t.cache] = "dropped" THEN t \in detached ELSE t \in cache[t.cache].reads
    /\ \A t \in detached : stage[t.cache] \in {"dropping", "dropped"}
    /\ \A c \in Caches : stage[c] = "dropping" => LetsGo(call[c], cache[c].reads, buffers, detached)

LentOf(c, x) == IF x # Nothing /\ x.owner = c THEN x.bytes ELSE 0
LentBy(c, f) == SumFunctionOnSet([l \in Leases |-> LentOf(c, f[l])], Leases)

Promised ==
    /\ \A c \in Caches : derived[c] = LentBy(c, lease)
    /\ \A c \in Caches : call[c] \in Reserves => lease[call[c].lease] = Nothing
    /\ \A c, d \in Caches :
        c # d /\ call[c] \in Reserves /\ call[d] \in Reserves => call[c].lease # call[d].lease

Rise(p) == IF p = Nothing THEN 0
           ELSE IF p.op = "begin" THEN p.rise ELSE IF p.op = "reserve" THEN p.bytes ELSE 0
Charge(s, r, p) == IF s \in {"live", "dropping"} THEN r.charged + Rise(p) ELSE 0

Size(x) == IF x = Nothing THEN 0 ELSE x.bytes
Dues(ss, rs, ps) == [c \in Caches |-> Charge(ss[c], rs[c], ps[c])]
OfCaches(f) == SumFunctionOnSet(f, Caches)
OfLeases(f) == SumFunctionOnSet([l \in Leases |-> Size(f[l])], Leases)
Orphaned(inHand, ss) == {t \in inHand : ss[t.cache] = "dropped"}

Summed ==
    process = OfCaches(Dues(stage, cache, call)) + ReservedFor(Orphaned(buffers, stage)) + OfLeases(lease)

CacheInv == Shaped /\ AllSteady /\ Handed /\ Promised /\ Summed

LEMMA PoolSizes ==
    /\ Metadata <= MaxBytes /\ MaxBytes <= ProcessBytes /\ LeaseBytes \subseteq Nat \ {0}
    /\ MaxBytes \in Int /\ ProcessBytes \in Int
BY CacheAssumption

LEMMA ChargeIsNat ==
    ASSUME NEW c, NEW r, NEW s, NEW d, NEW p, Steady(c, r, s, d, p)
    PROVE  Charge(s, r, p) \in Nat /\ Rise(p) \in Nat /\ r.charged \in Nat
<1>1. r.charged \in Nat
    BY ChargedNat DEF Steady
<1>2. Rise(p) \in Nat
    <2>1. p = Nothing \/ p \in Begins \/ p \in Reserves \/ p \in Drops
        BY DEF Steady, Underway, Begun
    <2> QED BY <2>1, PoolSizes DEF Rise, Begins, Reserves, Drops
<1> QED BY <1>1, <1>2 DEF Charge

LEMMA OneCache ==
    ASSUME NEW f, NEW g, NEW c \in Caches,
           \A d \in Caches : f[d] \in Nat, \A d \in Caches \ {c} : g[d] = f[d], g[c] \in Nat
    PROVE  /\ OfCaches(g) = OfCaches(f) - f[c] + g[c]
           /\ OfCaches(f) \in Nat /\ OfCaches(g) \in Nat /\ f[c] <= OfCaches(f)
<1>1. /\ \A d \in Caches : f[d] \in Int
      /\ \A d \in Caches : g[d] \in Nat
      /\ g[c] \in Int /\ IsFiniteSet(Caches)
    BY FiniteCachesAssumption
<1>2. SumFunctionOnSet(g, Caches) = SumFunctionOnSet(f, Caches) - f[c] + g[c]
    BY <1>1, SumChange
<1>3. SumFunctionOnSet(f, Caches) \in Nat /\ SumFunctionOnSet(g, Caches) \in Nat
    BY <1>1, SumNat
<1>4. SumFunctionOnSet(f, Caches) = f[c] + SumFunctionOnSet(f, Caches \ {c})
    BY <1>1, SumRemove
<1>5. SumFunctionOnSet(f, Caches \ {c}) \in Nat
    <2>1. IsFiniteSet(Caches \ {c})
        BY FiniteCachesAssumption, FS_RemoveElement
    <2> QED BY <2>1, SumNat
<1> QED BY <1>2, <1>3, <1>4, <1>5 DEF OfCaches

LEMMA LeaseSizes ==
    ASSUME NEW x \in LeasesHeld \cup {Nothing}, NEW c
    PROVE  Size(x) \in Nat /\ LentOf(c, x) \in Nat
BY PoolSizes DEF LeasesHeld, Size, LentOf

LEMMA OneLease ==
    ASSUME NEW f \in [Leases -> LeasesHeld \cup {Nothing}], NEW l \in Leases, NEW x \in LeasesHeld \cup {Nothing}
    PROVE  LET g == [f EXCEPT ![l] = x] IN
           /\ OfLeases(g) = OfLeases(f) - Size(f[l]) + Size(x)
           /\ OfLeases(f) \in Nat
           /\ \A c : LentBy(c, g) = LentBy(c, f) - LentOf(c, f[l]) + LentOf(c, x)
           /\ \A c : LentBy(c, f) \in Nat /\ LentOf(c, f[l]) <= LentBy(c, f)
<1> DEFINE g == [f EXCEPT ![l] = x]
<1>1. g[l] = x /\ \A k \in Leases \ {l} : g[k] = f[k]
    OBVIOUS
<1> HIDE DEF g
<1>2. OfLeases(g) = OfLeases(f) - Size(f[l]) + Size(x) /\ OfLeases(f) \in Nat
    <2> DEFINE a == [k \in Leases |-> Size(f[k])]
               b == [k \in Leases |-> Size(g[k])]
    <2>1. /\ \A k \in Leases : a[k] \in Int /\ a[k] \in Nat
          /\ \A k \in Leases \ {l} : b[k] = a[k]
          /\ b[l] \in Int /\ b[l] = Size(x) /\ a[l] = Size(f[l])
        BY <1>1, LeaseSizes
    <2>2. OfLeases(f) = SumFunctionOnSet(a, Leases) /\ OfLeases(g) = SumFunctionOnSet(b, Leases)
        BY DEF OfLeases
    <2> HIDE DEF a, b
    <2>3. SumFunctionOnSet(b, Leases) = SumFunctionOnSet(a, Leases) - a[l] + b[l]
        <3>1. IsFiniteSet(Leases) /\ \A k \in Leases : a[k] \in Int
            BY <2>1, FiniteCachesAssumption
        <3>2. b[l] \in Int /\ \A k \in Leases \ {l} : b[k] = a[k]
            BY <2>1
        <3> QED BY ONLY <3>1, <3>2, SumChange
    <2>4. SumFunctionOnSet(a, Leases) \in Nat
        BY <2>1, FiniteCachesAssumption, SumNat
    <2> QED BY <2>1, <2>2, <2>3, <2>4
<1>3. ASSUME NEW c
      PROVE  /\ LentBy(c, g) = LentBy(c, f) - LentOf(c, f[l]) + LentOf(c, x)
             /\ LentBy(c, f) \in Nat /\ LentOf(c, f[l]) <= LentBy(c, f)
    <2> DEFINE a == [k \in Leases |-> LentOf(c, f[k])]
               b == [k \in Leases |-> LentOf(c, g[k])]
    <2>1. /\ \A k \in Leases : a[k] \in Int /\ a[k] \in Nat
          /\ \A k \in Leases \ {l} : b[k] = a[k]
          /\ b[l] \in Int /\ b[l] = LentOf(c, x) /\ a[l] = LentOf(c, f[l])
        BY <1>1, LeaseSizes
    <2>2. LentBy(c, f) = SumFunctionOnSet(a, Leases) /\ LentBy(c, g) = SumFunctionOnSet(b, Leases)
        BY DEF LentBy
    <2> HIDE DEF a, b
    <2>3. SumFunctionOnSet(b, Leases) = SumFunctionOnSet(a, Leases) - a[l] + b[l]
        <3>1. IsFiniteSet(Leases) /\ \A k \in Leases : a[k] \in Int
            BY <2>1, FiniteCachesAssumption
        <3>2. b[l] \in Int /\ \A k \in Leases \ {l} : b[k] = a[k]
            BY <2>1
        <3> QED BY ONLY <3>1, <3>2, SumChange
    <2>4. SumFunctionOnSet(a, Leases) \in Nat
        BY <2>1, FiniteCachesAssumption, SumNat
    <2>5. SumFunctionOnSet(a, Leases) = a[l] + SumFunctionOnSet(a, Leases \ {l})
        BY <2>1, FiniteCachesAssumption, SumRemove
    <2>6. SumFunctionOnSet(a, Leases \ {l}) \in Nat
        <3>1. IsFiniteSet(Leases \ {l}) /\ \A k \in Leases \ {l} : a[k] \in Nat
            BY <2>1, FiniteCachesAssumption, FS_RemoveElement
        <3> QED BY <3>1, SumNat
    <2>7. a[l] \in Nat
        BY <2>1
    <2> QED BY <2>1, <2>2, <2>3, <2>4, <2>5, <2>6, <2>7
<1> QED BY <1>2, <1>3 DEF g

(* A cache as its host leaves it, between calls.                           *)
LEMMA Quiet ==
    ASSUME CacheInv, NEW c \in Caches, Idle(c)
    PROVE  /\ stage[c] = "live" /\ call[c] = Nothing /\ SoundCache(c, cache[c])
           /\ cache[c].charged \in Nat /\ derived[c] \in Nat /\ cache[c].charged + derived[c] <= MaxBytes
           /\ Charge(stage[c], cache[c], call[c]) = cache[c].charged
           /\ \A t \in buffers : t.cache = c => t \in cache[c].reads
           /\ \A t \in detached : t.cache # c
           /\ \A t \in cache[c].pending \cup cache[c].reads : t \in TileTickets /\ t.cache = c
<1>1. Steady(c, cache[c], stage[c], derived[c], call[c]) /\ stage[c] = "live" /\ call[c] = Nothing
    BY DEF CacheInv, AllSteady, Idle
<1>2. cache[c].charged \in Nat
    BY <1>1, ChargeIsNat
<1>3. /\ SoundCache(c, cache[c]) /\ cache[c].charged + derived[c] <= MaxBytes
      /\ \A t \in cache[c].pending \cup cache[c].reads : t \in TileTickets /\ t.cache = c
    BY <1>1 DEF Steady, SoundCache, Filed
<1>4. Charge(stage[c], cache[c], call[c]) = cache[c].charged
    BY <1>1, <1>2 DEF Charge, Rise
<1>5. derived[c] \in Nat
    BY DEF CacheInv, Shaped
<1>6. /\ \A t \in buffers : t.cache = c => t \in cache[c].reads
      /\ \A t \in detached : t.cache # c
    BY <1>1 DEF CacheInv, Handed
<1> QED BY <1>1, <1>2, <1>3, <1>4, <1>5, <1>6

LEMMA SumsAreNat ==
    ASSUME CacheInv
    PROVE  /\ \A c \in Caches : /\ Dues(stage, cache, call)[c] = Charge(stage[c], cache[c], call[c])
                               /\ Dues(stage, cache, call)[c] \in Nat
           /\ OfCaches(Dues(stage, cache, call)) \in Nat /\ OfLeases(lease) \in Nat
           /\ ReservedFor(Orphaned(buffers, stage)) \in Nat /\ IsFiniteSet(Orphaned(buffers, stage))
           /\ process \in Nat
<1>1. \A c \in Caches : /\ Dues(stage, cache, call)[c] = Charge(stage[c], cache[c], call[c])
                        /\ Dues(stage, cache, call)[c] \in Nat
    BY ChargeIsNat DEF CacheInv, AllSteady, Dues
<1>2. OfCaches(Dues(stage, cache, call)) \in Nat
    BY <1>1, FiniteCachesAssumption, SumNat DEF OfCaches
<1>3. OfLeases(lease) \in Nat
    <2> DEFINE f == [l \in Leases |-> Size(lease[l])]
    <2>1. \A l \in Leases : f[l] \in Nat
        BY LeaseSizes DEF CacheInv, Shaped
    <2>2. OfLeases(lease) = SumFunctionOnSet(f, Leases)
        BY DEF OfLeases
    <2> HIDE DEF f
    <2> QED BY <2>1, <2>2, FiniteCachesAssumption, SumNat
<1>4. IsFiniteSet(Orphaned(buffers, stage))
    BY FS_Subset DEF CacheInv, Shaped, Orphaned
<1> QED BY <1>1, <1>2, <1>3, <1>4, ReservedLaws DEF CacheInv, Shaped
-----------------------------------------------------------------------------
(* A call that is one step: the cache comes out sound and no dearer.       *)
LEMMA Rewrites ==
    ASSUME CacheInv, NEW c \in Caches, Idle(c), NEW r, SoundCache(c, r), r.charged <= cache[c].charged,
           cache' = [cache EXCEPT ![c] = r], Released(cache[c].charged - r.charged),
           UNCHANGED <<stage, derived, call, detached, lease>>,
           buffers' \subseteq TileTickets, IsFiniteSet(buffers'),
           \A t \in buffers' : t.cache = c => t \in r.reads,
           \A t : t.cache # c => (t \in buffers' <=> t \in buffers)
    PROVE  CacheInv'
<1>1. /\ stage[c] = "live" /\ call[c] = Nothing /\ cache[c].charged \in Nat /\ derived[c] \in Nat
      /\ cache[c].charged + derived[c] <= MaxBytes /\ \A t \in detached : t.cache # c
      /\ Charge(stage[c], cache[c], call[c]) = cache[c].charged
    BY Quiet
<1>2. r.charged \in Nat
    BY ChargedNat
<1>3. cache'[c] = r /\ \A d \in Caches \ {c} : cache'[d] = cache[d]
    BY DEF CacheInv, Shaped
<1>4. Orphaned(buffers', stage') = Orphaned(buffers, stage)
    BY <1>1 DEF Orphaned
<1>5. /\ OfCaches(Dues(stage', cache', call')) = OfCaches(Dues(stage, cache, call)) - cache[c].charged + r.charged
      /\ OfCaches(Dues(stage, cache, call)) \in Nat /\ OfCaches(Dues(stage', cache', call')) \in Nat
    <2> DEFINE f == Dues(stage, cache, call)
               g == Dues(stage', cache', call')
    <2>1. /\ \A d \in Caches : f[d] \in Nat
          /\ f[c] = cache[c].charged
        BY <1>1, SumsAreNat
    <2>2. /\ \A d \in Caches \ {c} : g[d] = f[d]
          /\ g[c] = r.charged /\ g[c] \in Nat
        BY <1>1, <1>2, <1>3 DEF Charge, Rise, Dues
    <2> HIDE DEF f, g
    <2>3. OfCaches(g) = OfCaches(f) - f[c] + g[c] /\ OfCaches(f) \in Nat /\ OfCaches(g) \in Nat
        BY <2>1, <2>2, OneCache
    <2> QED BY <2>1, <2>2, <2>3 DEF f, g
<1>6. Summed' /\ process' \in Nat /\ process' <= ProcessBytes
    <2>1. process' = OfCaches(Dues(stage', cache', call')) + ReservedFor(Orphaned(buffers', stage')) + OfLeases(lease')
          /\ process' <= process
        BY <1>1, <1>2, <1>4, <1>5, SumsAreNat DEF CacheInv, Summed, Released
    <2> QED BY <1>4, <1>5, <2>1, SumsAreNat, PoolSizes DEF CacheInv, Shaped, Summed
<1>7. Shaped'
    BY <1>6 DEF CacheInv, Shaped
<1>8. AllSteady'
    <2>1. Steady(c, cache'[c], stage'[c], derived'[c], call'[c])
        BY <1>1, <1>2, <1>3, PoolSizes DEF Steady, Underway
    <2>2. \A d \in Caches \ {c} : Steady(d, cache'[d], stage'[d], derived'[d], call'[d])
        BY <1>3 DEF CacheInv, AllSteady
    <2> QED BY <2>1, <2>2 DEF AllSteady
<1>9. Handed'
    <2>1. \A t \in buffers' : IF stage'[t.cache] = "dropped" THEN t \in detached' ELSE t \in cache'[t.cache].reads
        <3> SUFFICES ASSUME NEW t \in buffers'
                     PROVE  IF stage'[t.cache] = "dropped" THEN t \in detached' ELSE t \in cache'[t.cache].reads
            OBVIOUS
        <3>1. CASE t.cache = c
            BY <1>1, <1>3, <3>1
        <3>2. CASE t.cache # c
            <4>1. t.cache \in Caches
                BY DEF TileTickets
            <4> QED BY <1>3, <3>2, <4>1 DEF CacheInv, Handed
        <3> QED BY <3>1, <3>2
    <2>2. \A t \in detached' : stage'[t.cache] \in {"dropping", "dropped"}
        BY DEF CacheInv, Handed
    <2>3. ASSUME NEW d \in Caches, stage'[d] = "dropping"
          PROVE  LetsGo(call'[d], cache'[d].reads, buffers', detached')
        <3>1. d # c /\ cache'[d] = cache[d] /\ LetsGo(call[d], cache[d].reads, buffers, detached)
            BY <1>1, <1>3, <2>3 DEF CacheInv, Handed
        <3>2. \A t \in cache[d].reads : t.cache # c
            BY <3>1 DEF CacheInv, AllSteady, Steady, SoundCache, Filed
        <3> QED BY <3>1, <3>2 DEF LetsGo
    <2> QED BY <2>1, <2>2, <2>3 DEF Handed
<1>10. Promised'
    BY DEF CacheInv, Promised
<1> QED BY <1>6, <1>7, <1>8, <1>9, <1>10 DEF CacheInv

LEMMA SettleKeeps ==
    ASSUME CacheInv, NEW c \in Caches, NEW t, NEW r, Settle(c, t, r), SoundCache(c, r),
           r.charged <= cache[c].charged, r.reads = cache[c].reads \ {t}
    PROVE  CacheInv'
<1>1. /\ \A u \in buffers : u.cache = c => u \in cache[c].reads
      /\ \A u \in cache[c].pending \cup cache[c].reads : u \in TileTickets /\ u.cache = c
    BY Quiet DEF Settle
<1>2. t.cache = c /\ buffers' = buffers \ {t}
    BY <1>1 DEF Settle
<1>3. buffers' \subseteq TileTickets /\ IsFiniteSet(buffers')
    <2>1. IsFiniteSet(buffers) /\ buffers \subseteq TileTickets
        BY DEF CacheInv, Shaped
    <2> QED BY <1>2, <2>1, FS_RemoveElement
<1>4. /\ \A u \in buffers' : u.cache = c => u \in r.reads
      /\ \A u : u.cache # c => (u \in buffers' <=> u \in buffers)
    BY <1>1, <1>2
<1>5. /\ Idle(c) /\ cache' = [cache EXCEPT ![c] = r] /\ Released(cache[c].charged - r.charged)
      /\ UNCHANGED <<stage, derived, call, detached, lease>>
    BY DEF Settle
<1> QED BY <1>3, <1>4, <1>5, Rewrites

LEMMA Changed ==
    ASSUME CacheInv, NEW c \in Caches, NEW r, Change(c, r), SoundCache(c, r),
           r.charged <= cache[c].charged, r.reads = cache[c].reads
    PROVE  CacheInv'
<1>1. \A u \in buffers : u.cache = c => u \in cache[c].reads
    BY Quiet DEF Change
<1>2. buffers' = buffers /\ buffers' \subseteq TileTickets /\ IsFiniteSet(buffers')
    BY DEF Change, hostVars, CacheInv, Shaped
<1>3. /\ \A u \in buffers' : u.cache = c => u \in r.reads
      /\ \A u : u.cache # c => (u \in buffers' <=> u \in buffers)
    BY <1>1, <1>2
<1>4. /\ Idle(c) /\ cache' = [cache EXCEPT ![c] = r] /\ Released(cache[c].charged - r.charged)
      /\ UNCHANGED <<stage, derived, call, detached, lease>>
    BY DEF Change, hostVars
<1> QED BY <1>2, <1>3, <1>4, Rewrites

LEMMA StartReadKeeps ==
    ASSUME CacheInv, NEW c \in Caches, NEW t, StartRead(c, t)
    PROVE  CacheInv'
<1> DEFINE r == Reap(cache[c])
<1>0. Idle(c)
    BY DEF StartRead
<1>1. /\ SoundCache(c, cache[c]) /\ cache[c].charged \in Nat
      /\ \A u \in buffers : u.cache = c => u \in cache[c].reads
      /\ \A u \in cache[c].pending \cup cache[c].reads : u \in TileTickets /\ u.cache = c
    BY <1>0, Quiet
<1>2. /\ SoundCache(c, r) /\ r.charged <= cache[c].charged /\ r.reads = cache[c].reads \cap buffers
      /\ r.pending \subseteq cache[c].pending
    BY <1>1, ReapSound
<1>3. /\ t.cache = c /\ Released(cache[c].charged - r.charged) /\ UNCHANGED <<stage, derived, call, detached, lease>>
      /\ IF t \in r.pending \ r.reads
         THEN /\ cache' = [cache EXCEPT ![c] = [r EXCEPT !.reads = @ \cup {t}]]
              /\ buffers' = buffers \cup {t}
         ELSE cache' = [cache EXCEPT ![c] = r] /\ UNCHANGED buffers
    BY DEF StartRead
<1>4. IsFiniteSet(buffers) /\ buffers \subseteq TileTickets
    BY DEF CacheInv, Shaped
<1> HIDE DEF r
<1>5. CASE t \in r.pending \ r.reads
    <2> DEFINE R == r.reads \cup {t}
               s == WithReads(r, R)
    <2>1. cache' = [cache EXCEPT ![c] = s] /\ buffers' = buffers \cup {t}
        BY <1>3, <1>5 DEF WithReads
    <2>2. SoundCache(c, s) /\ s.charged = r.charged /\ s.reads = r.reads \cup {t}
        <3>1. r.pending \cup R = r.pending \cup r.reads
            BY <1>5
        <3>2. IsFiniteSet(r.reads)
            BY <1>2 DEF SoundCache, Filed
        <3>3. IsFiniteSet(R)
            BY <3>2, FS_AddElement
        <3> HIDE DEF R
        <3>4. SoundCache(c, s) /\ s.charged = r.charged /\ s.reads = R
            BY <1>2, <3>1, <3>3, WithReadsSound
        <3> QED BY <3>4 DEF R
    <2> HIDE DEF s
    <2>3. buffers' \subseteq TileTickets /\ IsFiniteSet(buffers')
        BY <1>1, <1>2, <1>4, <1>5, <2>1, FS_AddElement
    <2>4. /\ \A u \in buffers' : u.cache = c => u \in s.reads
          /\ \A u : u.cache # c => (u \in buffers' <=> u \in buffers)
        BY <1>1, <1>2, <1>3, <2>1, <2>2
    <2>5. s.charged <= cache[c].charged /\ Released(cache[c].charged - s.charged)
        BY <1>2, <1>3, <2>2
    <2> QED BY <1>0, <1>3, <2>1, <2>2, <2>3, <2>4, <2>5, Rewrites
<1>6. CASE t \notin r.pending \ r.reads
    <2>1. cache' = [cache EXCEPT ![c] = r] /\ buffers' = buffers
        BY <1>3, <1>6
    <2>2. /\ \A u \in buffers' : u.cache = c => u \in r.reads
          /\ \A u : u.cache # c => (u \in buffers' <=> u \in buffers)
          /\ buffers' \subseteq TileTickets /\ IsFiniteSet(buffers')
        BY <1>1, <1>2, <1>4, <2>1
    <2> QED BY <1>0, <1>2, <1>3, <2>1, <2>2, Rewrites
<1> QED BY <1>5, <1>6

LEMMA PublishStaleKeeps ==
    ASSUME CacheInv, NEW c \in Caches, NEW t, PublishStale(c, t)
    PROVE  CacheInv'
<1> DEFINE r == cache[c]
           s == Forgotten(r, {t})
<1>1. Idle(c) /\ t \in r.reads /\ t \notin r.pending
    BY DEF PublishStale, Settle
<1>2. SoundCache(c, r)
    BY <1>1, Quiet
<1>3. SoundCache(c, s) /\ s.charged <= r.charged /\ s.reads = r.reads \ {t}
    <2>1. {t} \subseteq r.reads /\ {t} \cap r.pending = {}
        BY <1>1
    <2> QED BY <1>2, <2>1, ForgottenSound
<1>4. s = [Unread(c, t) EXCEPT !.charged = @ - Reserved(t.key)]
    <2>1. ReservedFor({t}) = Reserved(t.key)
        BY FS_Singleton, ReservedLaws
    <2>2. r = [f \in CacheFields |-> r[f]]
        BY <1>2 DEF SoundCache, Filed
    <2> QED BY <2>1, <2>2 DEF Forgotten, Unread, CacheFields
<1>5. Settle(c, t, s)
    BY <1>4 DEF PublishStale
<1> HIDE DEF s
<1> QED BY <1>3, <1>5, SettleKeeps

LEMMA PublishRefusedKeeps ==
    ASSUME CacheInv, NEW c \in Caches, NEW t, PublishRefused(c, t)
    PROVE  CacheInv'
<1> DEFINE r == cache[c]
           q == WithReads(r, r.reads \ {t})
           s == CancelEpoch(q, t.epoch)
<1>1. Idle(c) /\ t \in r.reads /\ t \in r.pending
    BY DEF PublishRefused, Settle
<1>2. SoundCache(c, r)
    BY <1>1, Quiet
<1>3. SoundCache(c, q) /\ q.charged = r.charged /\ q.reads = r.reads \ {t}
    <2>1. IsFiniteSet(r.reads \ {t}) /\ r.pending \cup (r.reads \ {t}) = r.pending \cup r.reads
        <3>1. IsFiniteSet(r.reads)
            BY <1>2 DEF SoundCache, Filed
        <3>2. IsFiniteSet(r.reads \ {t})
            BY <3>1, FS_RemoveElement
        <3>3. r.pending \cup (r.reads \ {t}) = r.pending \cup r.reads
            BY <1>1
        <3> QED BY <3>2, <3>3
    <2> QED BY <1>2, <2>1, WithReadsSound
<1>4. Settle(c, t, s)
    BY DEF PublishRefused, WithReads, Unread
<1> HIDE DEF q
<1>5. SoundCache(c, s) /\ s.charged <= q.charged /\ s.reads = q.reads
    BY <1>3, CancelEpochSound
<1> HIDE DEF s
<1> QED BY <1>3, <1>4, <1>5, SettleKeeps

LEMMA PublishTileKeeps ==
    ASSUME CacheInv, NEW c \in Caches, NEW t, PublishTile(c, t)
    PROVE  /\ CacheInv'
           /\ t = Ticket(c, cache[c].epoch, t.key) /\ t \in cache[c].reads \cap buffers
           /\ cache[c].candidate # Nothing /\ cache[c].candidate.epoch = cache[c].epoch
           /\ Resident(cache'[c]) = Resident(cache[c]) \cup {t.key}
           /\ \A d \in Caches \ {c} : cache'[d] = cache[d]
<1> DEFINE r == cache[c]
<1>1. t \in r.pending
    BY DEF PublishTile
<1>2. PICK bytes \in Retained(t.key) :
         Settle(c, t, [Unread(c, t) EXCEPT !.charged = @ - Reserved(t.key) + bytes,
                                           !.pending = @ \ {t}, !.entries = Pushed(r, t.key, bytes)])
    BY DEF PublishTile
<1> DEFINE s == Arrived(r, t, bytes)
<1>3. Idle(c) /\ t \in r.reads \cap buffers
    BY <1>2 DEF Settle
<1>4. SoundCache(c, r)
    BY <1>3, Quiet
<1>5. /\ SoundCache(c, s) /\ s.charged <= r.charged /\ s.reads = r.reads \ {t}
      /\ Resident(s) = Resident(r) \cup {t.key}
    BY <1>1, <1>4, ArrivedSound
<1>6. s = [Unread(c, t) EXCEPT !.charged = @ - Reserved(t.key) + bytes,
                               !.pending = @ \ {t}, !.entries = Pushed(r, t.key, bytes)]
    <2>1. r = [f \in CacheFields |-> r[f]]
        BY <1>4 DEF SoundCache, Filed
    <2> QED BY <2>1 DEF Arrived, Unread, CacheFields
<1>7. Settle(c, t, s)
    BY <1>2, <1>6
<1> HIDE DEF s
<1>8. CacheInv'
    BY <1>5, <1>7, SettleKeeps
<1>9. t = Ticket(c, r.epoch, t.key) /\ r.candidate # Nothing /\ r.candidate.epoch = r.epoch
    <2>1. t \in TileTickets /\ t.cache = c /\ t.epoch = r.epoch
        BY <1>1, <1>4 DEF SoundCache, Filed, Asking
    <2>2. r.candidate # Nothing /\ r.candidate.epoch = r.epoch
        BY <1>1, <1>4 DEF SoundCache, Asking
    <2> QED BY <2>1, <2>2 DEF TileTickets, Ticket
<1>10. cache'[c] = s /\ \A d \in Caches \ {c} : cache'[d] = cache[d]
    BY <1>7 DEF Settle, CacheInv, Shaped
<1> QED BY <1>3, <1>5, <1>8, <1>9, <1>10

LEMMA CancelFrameKeeps ==
    ASSUME CacheInv, NEW c \in Caches, NEW e, CancelFrame(c, e)
    PROVE  CacheInv'
<1> DEFINE s == CancelEpoch(cache[c], e)
<1>1. Idle(c) /\ Change(c, s)
    BY DEF CancelFrame, Change
<1>2. SoundCache(c, s) /\ s.charged <= cache[c].charged /\ s.reads = cache[c].reads
    BY <1>1, Quiet, CancelEpochSound
<1> HIDE DEF s
<1> QED BY <1>1, <1>2, Changed

LEMMA CommitFrameKeeps ==
    ASSUME CacheInv, NEW c \in Caches, CommitFrame(c)
    PROVE  CacheInv'
<1> DEFINE r == cache[c]
           s == CommittedFrame(r)
<1>1. Idle(c) /\ Change(c, s) /\ r.candidate # Nothing /\ r.pending = {}
    BY DEF CommitFrame, Change, CommittedFrame
<1>2. SoundCache(c, r) /\ r.charged \in Nat
    BY <1>1, Quiet
<1>3. SoundCache(c, s) /\ s.charged = r.charged /\ s.reads = r.reads
    BY <1>1, <1>2, CommittedSound
<1> HIDE DEF s
<1> QED BY <1>1, <1>2, <1>3, Changed

LEMMA DropViewKeeps ==
    ASSUME CacheInv, NEW c \in Caches, NEW v \in Views, DropView(c, v)
    PROVE  CacheInv'
<1> DEFINE r == cache[c]
           q == IF r.candidate # Nothing /\ r.candidate.view = v THEN Cancelled(r) ELSE r
           s == Blanked(q, v)
<1>1. Change(c, s) /\ Idle(c)
    BY DEF DropView, Change, Blanked
<1>2. SoundCache(c, r) /\ r.charged \in Nat
    BY <1>1, Quiet
<1>3. /\ SoundCache(c, q) /\ q.charged <= r.charged /\ q.reads = r.reads
      /\ q.candidate # Nothing => q.candidate.view # v
    <2>1. CASE r.candidate # Nothing /\ r.candidate.view = v
        <3>1. q = Cancelled(r)
            BY <2>1
        <3> HIDE DEF q
        <3> QED BY <1>2, <3>1, CancelledSound
    <2>2. CASE ~(r.candidate # Nothing /\ r.candidate.view = v)
        <3>1. q = r
            BY <2>2
        <3> HIDE DEF q
        <3> QED BY <1>2, <2>2, <3>1
    <2> QED BY <2>1, <2>2
<1> HIDE DEF q
<1>4. SoundCache(c, s) /\ s.charged = q.charged /\ s.reads = q.reads
    BY <1>3, BlankedSound
<1> HIDE DEF s
<1> QED BY <1>1, <1>3, <1>4, Changed
-----------------------------------------------------------------------------
(* A call that is two steps: what the first leaves, the second finds.      *)
LEMMA Others ==
    ASSUME CacheInv, NEW c \in Caches,
           \A d \in Caches \ {c} : stage'[d] = stage[d] /\ cache'[d] = cache[d] /\ call'[d] = call[d],
           Steady(c, cache'[c], stage'[c], derived'[c], call'[c])
    PROVE  /\ OfCaches(Dues(stage', cache', call'))
                = OfCaches(Dues(stage, cache, call)) - Charge(stage[c], cache[c], call[c])
                    + Charge(stage'[c], cache'[c], call'[c])
           /\ OfCaches(Dues(stage, cache, call)) \in Nat /\ OfCaches(Dues(stage', cache', call')) \in Nat
           /\ Charge(stage[c], cache[c], call[c]) \in Nat /\ Charge(stage'[c], cache'[c], call'[c]) \in Nat
<1> DEFINE f == Dues(stage, cache, call)
           g == Dues(stage', cache', call')
<1>1. /\ \A d \in Caches : f[d] \in Nat
      /\ f[c] = Charge(stage[c], cache[c], call[c])
    BY SumsAreNat
<1>2. /\ \A d \in Caches \ {c} : g[d] = f[d]
      /\ g[c] = Charge(stage'[c], cache'[c], call'[c]) /\ g[c] \in Nat
    BY ChargeIsNat DEF Dues
<1> HIDE DEF f, g
<1>3. OfCaches(g) = OfCaches(f) - f[c] + g[c] /\ OfCaches(f) \in Nat /\ OfCaches(g) \in Nat
    BY <1>1, <1>2, OneCache
<1> QED BY <1>1, <1>2, <1>3 DEF f, g

LEMMA Continues ==
    ASSUME CacheInv, NEW c \in Caches, stage[c] = "live", NEW r, NEW p,
           Steady(c, r, "live", derived[c], p),
           cache' = [cache EXCEPT ![c] = r], call' = [call EXCEPT ![c] = p],
           UNCHANGED <<stage, derived, buffers, detached, lease>>,
           process' = process - Charge(stage[c], cache[c], call[c]) + Charge("live", r, p),
           process' <= ProcessBytes,
           \A t \in buffers : t.cache = c => t \in r.reads,
           p \in Reserves => /\ lease[p.lease] = Nothing
                             /\ \A d \in Caches \ {c} : call[d] \in Reserves => call[d].lease # p.lease
    PROVE  CacheInv'
<1>1. /\ cache'[c] = r /\ \A d \in Caches \ {c} : cache'[d] = cache[d]
      /\ call'[c] = p /\ \A d \in Caches \ {c} : call'[d] = call[d]
    BY DEF CacheInv, Shaped
<1>2. Steady(c, cache'[c], stage'[c], derived'[c], call'[c])
    BY <1>1
<1>3. Orphaned(buffers', stage') = Orphaned(buffers, stage)
    OBVIOUS
<1>4. Summed' /\ process' \in Nat
    <2>1. /\ OfCaches(Dues(stage', cache', call'))
                = OfCaches(Dues(stage, cache, call)) - Charge(stage[c], cache[c], call[c])
                    + Charge(stage'[c], cache'[c], call'[c])
          /\ OfCaches(Dues(stage, cache, call)) \in Nat /\ OfCaches(Dues(stage', cache', call')) \in Nat
          /\ Charge(stage[c], cache[c], call[c]) \in Nat /\ Charge(stage'[c], cache'[c], call'[c]) \in Nat
        BY <1>1, <1>2, Others
    <2>2. Charge(stage'[c], cache'[c], call'[c]) = Charge("live", r, p)
        BY <1>1
    <2>3. process = OfCaches(Dues(stage, cache, call)) + ReservedFor(Orphaned(buffers, stage)) + OfLeases(lease)
        BY DEF CacheInv, Summed
    <2>4. process' = OfCaches(Dues(stage', cache', call')) + ReservedFor(Orphaned(buffers', stage')) + OfLeases(lease')
        BY <1>3, <2>1, <2>2, <2>3, SumsAreNat
    <2> QED BY <1>3, <2>1, <2>4, SumsAreNat DEF Summed
<1>5. Shaped'
    BY <1>4 DEF CacheInv, Shaped
<1>6. AllSteady'
    <2>1. \A d \in Caches \ {c} : Steady(d, cache'[d], stage'[d], derived'[d], call'[d])
        BY <1>1 DEF CacheInv, AllSteady
    <2> QED BY <1>2, <2>1 DEF AllSteady
<1>7. Handed'
    <2>1. \A t \in buffers' : IF stage'[t.cache] = "dropped" THEN t \in detached' ELSE t \in cache'[t.cache].reads
        <3> SUFFICES ASSUME NEW t \in buffers
                     PROVE  IF stage[t.cache] = "dropped" THEN t \in detached ELSE t \in cache'[t.cache].reads
            OBVIOUS
        <3>1. CASE t.cache = c
            BY <1>1, <3>1
        <3>2. CASE t.cache # c
            <4>1. t.cache \in Caches
                BY DEF CacheInv, Shaped, TileTickets
            <4> QED BY <1>1, <3>2, <4>1 DEF CacheInv, Handed
        <3> QED BY <3>1, <3>2
    <2>2. \A t \in detached' : stage'[t.cache] \in {"dropping", "dropped"}
        BY DEF CacheInv, Handed
    <2>3. ASSUME NEW d \in Caches, stage'[d] = "dropping"
          PROVE  LetsGo(call'[d], cache'[d].reads, buffers', detached')
        BY <1>1, <2>3 DEF CacheInv, Handed
    <2> QED BY <2>1, <2>2, <2>3 DEF Handed
<1>8. Promised'
    <2>1. \A d \in Caches : derived'[d] = LentBy(d, lease')
        BY DEF CacheInv, Promised
    <2>2. \A d \in Caches : call'[d] \in Reserves => lease'[call'[d].lease] = Nothing
        BY <1>1 DEF CacheInv, Promised
    <2>3. \A d, e \in Caches :
            d # e /\ call'[d] \in Reserves /\ call'[e] \in Reserves => call'[d].lease # call'[e].lease
        BY <1>1 DEF CacheInv, Promised
    <2> QED BY <2>1, <2>2, <2>3 DEF Promised
<1> QED BY <1>4, <1>5, <1>6, <1>7, <1>8 DEF CacheInv

LEMMA BeginFrameKeeps ==
    ASSUME CacheInv, NEW c \in Caches, NEW v \in Views, NEW keys \in Cameras, BeginFrame(c, v, keys)
    PROVE  CacheInv'
<1> DEFINE r == Reap(cache[c])
           victims == Victims(c, r, keys)
           goal == Asked(c, r, keys) - EntryBytes(r, victims)
           rise == IF goal > r.charged THEN goal - r.charged ELSE 0
           freed == cache[c].charged - r.charged
           p == [op |-> "begin", view |-> v, keys |-> keys, victims |-> victims, goal |-> goal, rise |-> rise]
<1>1. /\ Idle(c) /\ cache[c].epoch < MaxEpoch[c] /\ cache' = [cache EXCEPT ![c] = r]
      /\ UNCHANGED <<stage, derived, buffers, detached, lease>>
      /\ \/ /\ CanBegin(c, r, v, keys) /\ ProcessAdmits(rise - freed)
            /\ process' = process + rise - freed
            /\ call' = [call EXCEPT ![c] = p]
         \/ Released(freed) /\ UNCHANGED call
    BY DEF BeginFrame, hostVars
<1>2. /\ stage[c] = "live" /\ call[c] = Nothing /\ SoundCache(c, cache[c]) /\ cache[c].charged \in Nat
      /\ derived[c] \in Nat /\ cache[c].charged + derived[c] <= MaxBytes
      /\ Charge(stage[c], cache[c], call[c]) = cache[c].charged
      /\ \A u \in buffers : u.cache = c => u \in cache[c].reads
    BY <1>1, Quiet
<1>3. /\ SoundCache(c, r) /\ r.charged <= cache[c].charged /\ r.reads = cache[c].reads \cap buffers
      /\ r.epoch = cache[c].epoch
    BY <1>2, ReapSound
<1>4. r.charged \in Nat
    BY <1>3, ChargedNat
<1>5. \A u \in buffers : u.cache = c => u \in r.reads
    BY <1>2, <1>3
<1> HIDE DEF r
<1>6. CASE Released(freed) /\ UNCHANGED call
    <2>1. buffers' = buffers /\ buffers' \subseteq TileTickets /\ IsFiniteSet(buffers')
        BY <1>1 DEF CacheInv, Shaped
    <2>2. /\ \A u \in buffers' : u.cache = c => u \in r.reads
          /\ \A u : u.cache # c => (u \in buffers' <=> u \in buffers)
        BY <1>5, <2>1
    <2> QED BY <1>1, <1>3, <1>6, <2>1, <2>2, Rewrites
<1>7. CASE /\ CanBegin(c, r, v, keys) /\ ProcessAdmits(rise - freed)
           /\ process' = process + rise - freed
           /\ call' = [call EXCEPT ![c] = p]
    <2>1. victims \subseteq Evictable(r, keys) /\ Makes(c, r, keys, victims)
        BY <1>3, <1>7, VictimsFit DEF CanBegin
    <2>2. victims \subseteq Resident(r) /\ Resident(r) \subseteq Keys /\ keys \subseteq Keys
        BY <1>3, <2>1, CacheAssumption DEF Evictable, SoundCache, Filed
    <2> HIDE DEF victims
    <2>3. goal \in Nat
        BY <1>3, <2>2, GoalIs
    <2>4. goal + derived[c] <= MaxBytes
        BY <2>1 DEF Makes
    <2>5. p.victims = victims /\ p.goal = goal /\ p.rise = rise /\ p.view = v /\ p.keys = keys /\ p.op = "begin"
        OBVIOUS
    <2>6. Begun(c, r, p)
        <3>1. Makes(c, r, keys, victims) => Cardinality(Resident(r)) - Cardinality(victims)
                                              + Cardinality(Requests(c, r, keys)) <= MaxEntries
            BY DEF Makes
        <3>2. rise \in Nat
            BY <1>4, <2>3
        <3>3. p \in Begins
            <4> HIDE DEF goal, rise
            <4> QED BY <2>2, <2>3, <3>2 DEF Begins
        <3>4. r.epoch < MaxEpoch[c]
            BY <1>1, <1>3
        <3>5. /\ r.frames[v] = Nothing => Window(r) < MaxViews
              /\ Requests(c, r, keys) # {} => Cardinality(Requests(c, r, keys)) + Cardinality(r.reads) <= MaxPending
            BY <1>7 DEF CanBegin
        <3>6. /\ p.goal = Asked(c, r, p.keys) - EntryBytes(r, p.victims)
              /\ p.rise = IF p.goal > r.charged THEN p.goal - r.charged ELSE 0
            OBVIOUS
        <3> HIDE DEF p
        <3> QED BY <2>1, <2>5, <3>1, <3>3, <3>4, <3>5, <3>6 DEF Begun
    <2> HIDE DEF p, goal
    <2>7. Steady(c, r, "live", derived[c], p)
        <3>1. Underway(c, r, "live", derived[c], p)
            BY <2>4, <2>5, <2>6 DEF Underway
        <3> QED BY <1>2, <1>3, <1>4, <3>1, PoolSizes DEF Steady
    <2>8. p # Nothing /\ Charge("live", r, p) = r.charged + rise /\ p \notin Reserves
        <3>1. p \in Begins
            BY <2>6 DEF Begun
        <3> QED BY <2>5, <3>1, NothingElse DEF Charge, Rise, Reserves
    <2>9. rise \in Nat /\ freed \in Int /\ process \in Nat
        <3>1. process \in Nat
            BY DEF CacheInv, Shaped
        <3> QED BY <1>2, <1>4, <2>3, <3>1
    <2> HIDE DEF rise
    <2>10. /\ process' = process - Charge(stage[c], cache[c], call[c]) + Charge("live", r, p)
           /\ process' <= ProcessBytes
        BY <1>2, <1>4, <1>7, <2>8, <2>9, PoolSizes DEF ProcessAdmits
    <2> QED BY <1>1, <1>2, <1>5, <1>7, <2>7, <2>8, <2>10, Continues
<1> QED BY <1>1, <1>6, <1>7

(* What is under way in a cache, told by its operation.                    *)
LEMMA WhichCall ==
    ASSUME CacheInv, NEW c \in Caches
    PROVE  /\ Steady(c, cache[c], stage[c], derived[c], call[c]) /\ stage[c] \in Stages
           /\ SoundCache(c, cache[c]) /\ cache[c].charged \in Nat /\ derived[c] \in Nat
           /\ call[c] # Nothing /\ call[c].op = "begin" => call[c] \in Begins
           /\ call[c] # Nothing /\ call[c].op = "reserve" => call[c] \in Reserves
           /\ call[c] \in Begins => Begun(c, cache[c], call[c]) /\ call[c].goal + derived[c] <= MaxBytes
           /\ stage[c] = "dropping" => call[c] \in Drops
           /\ stage[c] = "live" => cache[c].charged + derived[c] <= MaxBytes
           /\ \A t \in buffers : t.cache = c /\ stage[c] # "dropped" => t \in cache[c].reads
<1>1. Steady(c, cache[c], stage[c], derived[c], call[c]) /\ stage[c] \in Stages /\ derived[c] \in Nat
    BY DEF CacheInv, AllSteady, Shaped
<1>2. cache[c].charged \in Nat
    BY <1>1, ChargeIsNat
<1>3. Begun(c, cache[c], call[c]) => call[c] \in Begins
    BY DEF Begun
<1>4. /\ call[c] \in Begins => call[c] # Nothing /\ call[c].op = "begin"
      /\ call[c] \in Reserves => call[c] # Nothing /\ call[c].op = "reserve"
      /\ call[c] \in Drops => call[c] # Nothing /\ call[c].op = "drop"
    BY NothingElse DEF Begins, Reserves, Drops
<1>5. \A t \in buffers : t.cache = c /\ stage[c] # "dropped" => t \in cache[c].reads
    BY DEF CacheInv, Handed
<1> QED BY <1>1, <1>2, <1>3, <1>4, <1>5 DEF Steady, Underway

LEMMA EnterFrameKeeps ==
    ASSUME CacheInv, NEW c \in Caches, EnterFrame(c)
    PROVE  CacheInv' /\ Resident(cache'[c]) \subseteq Resident(cache[c])
           /\ \A d \in Caches \ {c} : cache'[d] = cache[d]
<1> DEFINE r == cache[c]
           p == call[c]
           s == Entered(c, r, p)
<1>1. /\ stage[c] = "live" /\ p # Nothing /\ p.op = "begin" /\ cache' = [cache EXCEPT ![c] = s]
      /\ Released(r.charged + p.rise - p.goal) /\ call' = [call EXCEPT ![c] = Nothing]
      /\ UNCHANGED <<stage, derived, buffers, detached, lease>>
    BY DEF EnterFrame, Entered, hostVars
<1>2. /\ SoundCache(c, r) /\ r.charged \in Nat /\ derived[c] \in Nat
      /\ Begun(c, r, p) /\ p.goal + derived[c] <= MaxBytes
      /\ \A t \in buffers : t.cache = c => t \in r.reads
    BY <1>1, WhichCall
<1>3. /\ p.goal \in Nat /\ p.rise \in Nat /\ p.goal <= r.charged + p.rise
    <2>1. p.goal \in Nat /\ p.rise = IF p.goal > r.charged THEN p.goal - r.charged ELSE 0
        BY <1>2 DEF Begun, Begins
    <2> HIDE DEF p, r
    <2> QED BY <1>2, <2>1
<1>4. /\ SoundCache(c, s) /\ s.charged = p.goal /\ s.reads = r.reads /\ Resident(s) \subseteq Resident(r)
    BY <1>2, EnteredSound
<1>5. Charge(stage[c], r, p) = r.charged + p.rise
    BY <1>1 DEF Charge, Rise
<1> HIDE DEF s
<1>6. Charge("live", s, Nothing) = p.goal
    <2>1. Charge("live", s, Nothing) = s.charged + 0
        BY DEF Charge, Rise
    <2> QED BY <1>3, <1>4, <2>1
<1>7. Steady(c, s, "live", derived[c], Nothing)
    BY <1>2, <1>4 DEF Steady, Underway
<1>8. /\ process' = process - Charge(stage[c], r, p) + Charge("live", s, Nothing)
      /\ process' <= ProcessBytes
    <2>1. process \in Nat /\ process <= ProcessBytes
        BY DEF CacheInv, Shaped
    <2>2. process' = process - (r.charged + p.rise - p.goal)
        BY <1>1 DEF Released
    <2> HIDE DEF r, p
    <2> QED BY <1>2, <1>3, <1>5, <1>6, <2>1, <2>2, PoolSizes
<1>9. Nothing \notin Reserves
    BY NothingElse
<1>10. CacheInv'
    BY <1>1, <1>2, <1>4, <1>7, <1>8, <1>9, Continues
<1>11. cache'[c] = s /\ \A d \in Caches \ {c} : cache'[d] = cache[d]
    BY <1>1 DEF CacheInv, Shaped
<1> QED BY <1>4, <1>10, <1>11

LEMMA ReserveDerivedKeeps ==
    ASSUME CacheInv, NEW c \in Caches, NEW l \in Leases, NEW bytes \in LeaseBytes, ReserveDerived(c, l, bytes)
    PROVE  CacheInv'
<1> DEFINE p == [op |-> "reserve", lease |-> l, bytes |-> bytes]
<1>1. /\ Idle(c) /\ lease[l] = Nothing /\ ProcessAdmits(bytes) /\ process' = process + bytes
      /\ \A d \in {d \in Caches : call[d] # Nothing} : call[d].op = "reserve" => call[d].lease # l
      /\ call' = [call EXCEPT ![c] = p] /\ UNCHANGED <<stage, cache, derived, buffers, detached, lease>>
    BY DEF ReserveDerived, hostVars
<1>2. /\ stage[c] = "live" /\ SoundCache(c, cache[c]) /\ cache[c].charged \in Nat /\ derived[c] \in Nat
      /\ cache[c].charged + derived[c] <= MaxBytes
      /\ Charge(stage[c], cache[c], call[c]) = cache[c].charged
      /\ \A t \in buffers : t.cache = c => t \in cache[c].reads
    BY <1>1, Quiet
<1>3. p \in Reserves /\ p.lease = l /\ p.bytes = bytes /\ p.op = "reserve" /\ bytes \in Nat
    BY PoolSizes DEF Reserves
<1> HIDE DEF p
<1>4. p # Nothing
    BY <1>3, NothingElse
<1>5. cache' = [cache EXCEPT ![c] = cache[c]]
    BY <1>1 DEF CacheInv, Shaped
<1>6. Steady(c, cache[c], "live", derived[c], p)
    BY <1>2, <1>3 DEF Steady, Underway
<1>7. Charge("live", cache[c], p) = cache[c].charged + bytes
    BY <1>3, <1>4 DEF Charge, Rise
<1>8. process' = process - Charge(stage[c], cache[c], call[c]) + Charge("live", cache[c], p)
      /\ process' <= ProcessBytes
    <2>1. process \in Nat
        BY DEF CacheInv, Shaped
    <2> QED BY <1>1, <1>2, <1>3, <1>7, <2>1 DEF ProcessAdmits
<1>9. \A d \in Caches \ {c} : call[d] \in Reserves => call[d].lease # p.lease
    <2>1. \A d \in Caches : call[d] \in Reserves => call[d] # Nothing /\ call[d].op = "reserve"
        BY NothingElse DEF Reserves
    <2> QED BY <1>1, <1>3, <2>1
<1> QED BY <1>1, <1>2, <1>3, <1>5, <1>6, <1>8, <1>9, Continues

LEMMA EnterDerivedKeeps ==
    ASSUME CacheInv, NEW c \in Caches, EnterDerived(c)
    PROVE  CacheInv'
<1> DEFINE p == call[c]
           x == [owner |-> c, bytes |-> p.bytes]
<1>1. /\ stage[c] = "live" /\ p # Nothing /\ p.op = "reserve" /\ call' = [call EXCEPT ![c] = Nothing]
      /\ UNCHANGED <<stage, cache, buffers, detached>>
      /\ \/ /\ cache[c].charged + derived[c] + p.bytes <= MaxBytes
            /\ derived' = [derived EXCEPT ![c] = @ + p.bytes]
            /\ lease' = [lease EXCEPT ![p.lease] = x]
            /\ UNCHANGED process
         \/ Released(p.bytes) /\ UNCHANGED <<derived, lease>>
    BY DEF EnterDerived
<1>2. /\ SoundCache(c, cache[c]) /\ cache[c].charged \in Nat /\ derived[c] \in Nat /\ p \in Reserves
      /\ cache[c].charged + derived[c] <= MaxBytes
      /\ \A t \in buffers : t.cache = c => t \in cache[c].reads
    BY <1>1, WhichCall
<1>3. p.lease \in Leases /\ p.bytes \in LeaseBytes /\ p.bytes \in Nat
    BY <1>2, PoolSizes DEF Reserves
<1>4. Charge(stage[c], cache[c], p) = cache[c].charged + p.bytes
    BY <1>1 DEF Charge, Rise
<1>5. Charge("live", cache[c], Nothing) = cache[c].charged
    <2>1. Charge("live", cache[c], Nothing) = cache[c].charged + 0
        BY DEF Charge, Rise
    <2> QED BY <1>2, <2>1
<1>6. Nothing \notin Reserves
    BY NothingElse
<1>7. process \in Nat /\ process <= ProcessBytes
    BY DEF CacheInv, Shaped
<1>8. CASE Released(p.bytes) /\ UNCHANGED <<derived, lease>>
    <2>1. cache' = [cache EXCEPT ![c] = cache[c]]
        BY <1>1 DEF CacheInv, Shaped
    <2>2. Steady(c, cache[c], "live", derived[c], Nothing)
        BY <1>2 DEF Steady, Underway
    <2>3. process' = process - Charge(stage[c], cache[c], p) + Charge("live", cache[c], Nothing)
          /\ process' <= ProcessBytes
        BY <1>2, <1>3, <1>4, <1>5, <1>7, <1>8, PoolSizes DEF Released
    <2> QED BY <1>1, <1>2, <1>6, <1>8, <2>1, <2>2, <2>3, Continues
<1>9. CASE /\ cache[c].charged + derived[c] + p.bytes <= MaxBytes
           /\ derived' = [derived EXCEPT ![c] = @ + p.bytes]
           /\ lease' = [lease EXCEPT ![p.lease] = x]
           /\ UNCHANGED process
    <2>1. /\ derived'[c] = derived[c] + p.bytes /\ \A d \in Caches \ {c} : derived'[d] = derived[d]
          /\ derived' \in [Caches -> Nat] /\ call'[c] = Nothing /\ \A d \in Caches \ {c} : call'[d] = call[d]
          /\ call' = [d \in Caches |-> call'[d]]
        BY <1>1, <1>2, <1>3, <1>9 DEF CacheInv, Shaped
    <2>2. x \in LeasesHeld /\ x # Nothing /\ x.owner = c /\ x.bytes = p.bytes /\ x \in LeasesHeld \cup {Nothing}
        BY <1>3, NothingElse DEF LeasesHeld
    <2> HIDE DEF x
    <2>3. lease[p.lease] = Nothing
        BY <1>2 DEF CacheInv, Promised
    <2>4. /\ OfLeases(lease') = OfLeases(lease) - Size(lease[p.lease]) + Size(x) /\ OfLeases(lease) \in Nat
          /\ \A d : LentBy(d, lease') = LentBy(d, lease) - LentOf(d, lease[p.lease]) + LentOf(d, x)
          /\ \A d : LentBy(d, lease) \in Nat
        <3>1. lease \in [Leases -> LeasesHeld \cup {Nothing}]
            BY DEF CacheInv, Shaped
        <3> QED BY <1>3, <1>9, <2>2, <3>1, OneLease
    <2>5. /\ Size(lease[p.lease]) = 0 /\ Size(x) = p.bytes
          /\ \A d : LentOf(d, lease[p.lease]) = 0 /\ LentOf(d, x) = IF d = c THEN p.bytes ELSE 0
        BY <2>2, <2>3 DEF Size, LentOf
    <2> HIDE DEF p
    <2>6. Steady(c, cache'[c], stage'[c], derived'[c], call'[c])
        <3>1. Steady(c, cache[c], "live", derived'[c], Nothing)
            BY <1>2, <1>3, <1>9, <2>1 DEF Steady, Underway
        <3> QED BY <1>1, <2>1, <3>1
    <2>7. AllSteady'
        <3>1. \A d \in Caches \ {c} : Steady(d, cache'[d], stage'[d], derived'[d], call'[d])
            BY <1>1, <2>1 DEF CacheInv, AllSteady
        <3> QED BY <2>6, <3>1 DEF AllSteady
    <2>8. Summed'
        <3>1. /\ OfCaches(Dues(stage', cache', call'))
                  = OfCaches(Dues(stage, cache, call)) - Charge(stage[c], cache[c], call[c])
                      + Charge(stage'[c], cache'[c], call'[c])
              /\ OfCaches(Dues(stage, cache, call)) \in Nat
            BY <1>1, <2>1, <2>6, Others
        <3>2. Charge(stage'[c], cache'[c], call'[c]) = cache[c].charged
              /\ Charge(stage[c], cache[c], call[c]) = cache[c].charged + p.bytes
            BY <1>1, <1>4, <1>5, <2>1 DEF p
        <3>3. OfLeases(lease') = OfLeases(lease) + p.bytes /\ OfLeases(lease) \in Nat
            BY <1>3, <2>4, <2>5
        <3>4. process = OfCaches(Dues(stage, cache, call)) + ReservedFor(Orphaned(buffers, stage)) + OfLeases(lease)
            BY DEF CacheInv, Summed
        <3>5. process' = process /\ Orphaned(buffers', stage') = Orphaned(buffers, stage)
            BY <1>1, <1>9
        <3>6. process' = OfCaches(Dues(stage', cache', call')) + ReservedFor(Orphaned(buffers, stage)) + OfLeases(lease')
            BY <1>2, <1>3, <3>1, <3>2, <3>3, <3>4, <3>5, SumsAreNat
        <3> QED BY <3>5, <3>6 DEF Summed
    <2>9. Promised'
        <3>1. \A d \in Caches : derived'[d] = LentBy(d, lease')
            <4> SUFFICES ASSUME NEW d \in Caches PROVE derived'[d] = LentBy(d, lease')
                OBVIOUS
            <4>1. derived[d] = LentBy(d, lease) /\ LentBy(d, lease) \in Nat
                BY <2>4 DEF CacheInv, Promised
            <4>2. LentBy(d, lease') = LentBy(d, lease) - LentOf(d, lease[p.lease]) + LentOf(d, x)
                BY <2>4
            <4>3. CASE d = c
                BY <1>3, <2>1, <2>5, <4>1, <4>2, <4>3
            <4>4. CASE d # c
                BY <2>1, <2>5, <4>1, <4>2, <4>4
            <4> QED BY <4>3, <4>4
        <3>2. \A d \in Caches : call'[d] \in Reserves => d # c /\ call[d] \in Reserves /\ call'[d] = call[d]
            BY <1>6, <2>1
        <3>3. \A d \in Caches \ {c} : call[d] \in Reserves => call[d].lease # p.lease /\ call[d].lease \in Leases
                                                              /\ lease[call[d].lease] = Nothing
            BY <1>2 DEF CacheInv, Promised, Reserves, p
        <3>4. \A d \in Caches : call'[d] \in Reserves => lease'[call'[d].lease] = Nothing
            BY <1>9, <3>2, <3>3 DEF CacheInv, Shaped
        <3>5. \A d, e \in Caches :
                d # e /\ call'[d] \in Reserves /\ call'[e] \in Reserves => call'[d].lease # call'[e].lease
            BY <3>2 DEF CacheInv, Promised
        <3> QED BY <3>1, <3>4, <3>5 DEF Promised
    <2>10. Shaped'
        <3>1. lease' \in [Leases -> LeasesHeld \cup {Nothing}]
            BY <1>9, <2>2 DEF CacheInv, Shaped
        <3> QED BY <1>1, <1>7, <1>9, <2>1, <3>1 DEF CacheInv, Shaped
    <2>11. Handed'
        <3>1. \A d \in Caches : stage'[d] = "dropping" => call'[d] = call[d]
            BY <1>1, <2>1
        <3> QED BY <1>1, <3>1 DEF CacheInv, Handed
    <2> QED BY <2>7, <2>8, <2>9, <2>10, <2>11 DEF CacheInv
<1> QED BY <1>1, <1>8, <1>9
-----------------------------------------------------------------------------
(* What hosts drop, and the first and last steps of a cache.               *)
LEMMA DropReadKeeps ==
    ASSUME CacheInv, NEW t, DropRead(t)
    PROVE  CacheInv' /\ UNCHANGED cache
<1>1. /\ t \in buffers /\ buffers' = buffers \ {t} /\ UNCHANGED <<stage, cache, derived, call, detached, lease>>
      /\ process' = process - (IF Orphan(t) THEN Reserved(t.key) ELSE 0)
    BY DEF DropRead, Released
<1>2. /\ buffers \subseteq TileTickets /\ IsFiniteSet(buffers) /\ t.cache \in Caches
      /\ process \in Nat /\ process <= ProcessBytes
    BY <1>1 DEF CacheInv, Shaped, TileTickets
<1>3. Orphan(t) <=> stage[t.cache] = "dropped"
    BY <1>1 DEF Orphan, CacheInv, Handed
<1>4. IsFiniteSet(buffers')
    BY <1>1, <1>2, FS_RemoveElement
<1>5. /\ process' = process - (IF Orphan(t) THEN Reserved(t.key) ELSE 0)
      /\ ReservedFor(Orphaned(buffers', stage'))
           = ReservedFor(Orphaned(buffers, stage)) - (IF Orphan(t) THEN Reserved(t.key) ELSE 0)
      /\ ReservedFor(Orphaned(buffers', stage')) \in Nat
      /\ Reserved(t.key) \in Nat
    <2>1. IsFiniteSet(Orphaned(buffers, stage)) /\ ReservedFor(Orphaned(buffers, stage)) \in Nat
        BY SumsAreNat
    <2>2. CASE stage[t.cache] = "dropped"
        <3>1. t \in Orphaned(buffers, stage) /\ Orphaned(buffers', stage') = Orphaned(buffers, stage) \ {t}
            BY <1>1, <2>2 DEF Orphaned
        <3> DEFINE S == Orphaned(buffers, stage)
        <3>2. IsFiniteSet(S) /\ t \in S /\ S \ {t} \in SUBSET S
            BY <2>1, <3>1
        <3> HIDE DEF S
        <3>3. ReservedFor(S) = Reserved(t.key) + ReservedFor(S \ {t}) /\ ReservedFor(S \ {t}) \in Nat
            BY <3>2, ReservedLaws
        <3>4. ReservedFor(Orphaned(buffers', stage')) = ReservedFor(S \ {t})
            BY <3>1, Zenon DEF S
        <3> QED BY <1>1, <1>3, <2>2, <3>3, <3>4, CacheSizes DEF S
    <2>3. CASE stage[t.cache] # "dropped"
        <3>1. Orphaned(buffers', stage') = Orphaned(buffers, stage)
            BY <1>1, <2>3 DEF Orphaned
        <3> QED BY <1>1, <1>3, <2>1, <2>3, <3>1, CacheSizes
    <2> QED BY <2>2, <2>3
<1>6. Summed' /\ process' \in Nat /\ process' <= ProcessBytes
    <2>1. Dues(stage', cache', call') = Dues(stage, cache, call) /\ OfLeases(lease') = OfLeases(lease)
        BY <1>1
    <2>2. process' = OfCaches(Dues(stage', cache', call')) + ReservedFor(Orphaned(buffers', stage')) + OfLeases(lease')
        BY <1>5, <2>1, SumsAreNat DEF CacheInv, Summed
    <2>3. OfCaches(Dues(stage', cache', call')) \in Nat /\ OfLeases(lease') \in Nat
        BY <2>1, SumsAreNat
    <2>4. process' \in Nat
        BY <1>5, <2>2, <2>3
    <2>5. process' <= ProcessBytes
        BY <1>2, <1>5, <2>4, PoolSizes
    <2> QED BY <2>2, <2>4, <2>5 DEF Summed
<1>7. Shaped'
    BY <1>1, <1>2, <1>4, <1>6 DEF CacheInv, Shaped
<1>8. AllSteady' /\ Promised'
    BY <1>1 DEF CacheInv, AllSteady, Promised
<1>9. Handed'
    <2>1. \A c \in Caches : stage[c] = "dropping" => LetsGo(call[c], cache[c].reads, buffers', detached)
        BY <1>1 DEF CacheInv, Handed, LetsGo
    <2> QED BY <1>1, <2>1 DEF CacheInv, Handed
<1> QED BY <1>1, <1>6, <1>7, <1>8, <1>9 DEF CacheInv

LEMMA DropLeaseKeeps ==
    ASSUME CacheInv, NEW l \in Leases, DropLease(l)
    PROVE  CacheInv' /\ UNCHANGED cache
<1> DEFINE x == lease[l]
           c == x.owner
<1>1. /\ x # Nothing /\ derived' = [derived EXCEPT ![c] = @ - x.bytes] /\ process' = process - x.bytes
      /\ lease' = [lease EXCEPT ![l] = Nothing] /\ UNCHANGED <<stage, cache, call, buffers, detached>>
    BY DEF DropLease, Released
<1>2. lease \in [Leases -> LeasesHeld \cup {Nothing}] /\ process \in Nat /\ process <= ProcessBytes
      /\ derived \in [Caches -> Nat]
    BY DEF CacheInv, Shaped
<1>3. x \in LeasesHeld /\ c \in Caches /\ x.bytes \in LeaseBytes /\ x.bytes \in Nat
    BY <1>1, <1>2, PoolSizes DEF LeasesHeld
<1>4. /\ OfLeases(lease') = OfLeases(lease) - Size(x) + Size(Nothing) /\ OfLeases(lease) \in Nat
      /\ \A d : LentBy(d, lease') = LentBy(d, lease) - LentOf(d, x) + LentOf(d, Nothing)
      /\ \A d : LentBy(d, lease) \in Nat /\ LentOf(d, x) <= LentBy(d, lease)
    <2>1. Nothing \in LeasesHeld \cup {Nothing}
        OBVIOUS
    <2> DEFINE g == [lease EXCEPT ![l] = Nothing]
    <2>2. /\ OfLeases(g) = OfLeases(lease) - Size(lease[l]) + Size(Nothing)
          /\ OfLeases(lease) \in Nat
          /\ \A d : LentBy(d, g) = LentBy(d, lease) - LentOf(d, lease[l]) + LentOf(d, Nothing)
          /\ \A d : LentBy(d, lease) \in Nat /\ LentOf(d, lease[l]) <= LentBy(d, lease)
        BY ONLY <1>2, <2>1, OneLease
    <2>3. lease' = g
        BY <1>1
    <2> HIDE DEF g
    <2> QED BY <2>2, <2>3
<1>5. /\ Size(x) = x.bytes /\ Size(Nothing) = 0
      /\ \A d : LentOf(d, Nothing) = 0 /\ LentOf(d, x) = IF d = c THEN x.bytes ELSE 0
    BY <1>1 DEF Size, LentOf
<1> HIDE DEF x, c
<1>6. /\ derived'[c] = derived[c] - x.bytes /\ \A d \in Caches \ {c} : derived'[d] = derived[d]
      /\ derived[c] = LentBy(c, lease) /\ derived'[c] \in Nat /\ derived' \in [Caches -> Nat]
      /\ derived[c] \in Nat
    <2>1. derived[c] = LentBy(c, lease) /\ derived[c] \in Nat
        BY <1>2, <1>3 DEF CacheInv, Promised
    <2>2. x.bytes <= derived[c]
        BY <1>4, <1>5, <2>1
    <2>3. derived'[c] = derived[c] - x.bytes /\ \A d \in Caches \ {c} : derived'[d] = derived[d]
        BY <1>1, <1>2, <1>3
    <2>4. derived[c] - x.bytes \in Nat
        BY <1>3, <2>1, <2>2
    <2> QED BY <1>1, <1>2, <1>3, <2>1, <2>3, <2>4
<1>7. AllSteady'
    <2>1. Steady(c, cache[c], stage[c], derived[c], call[c])
        BY <1>3 DEF CacheInv, AllSteady
    <2>2. SoundCache(c, cache[c]) /\ cache[c].charged \in Nat /\ (Begun(c, cache[c], call[c]) => call[c].goal \in Nat)
        BY <2>1, ChargeIsNat DEF Steady, Begun, Begins
    <2>3. Steady(c, cache[c], stage[c], derived'[c], call[c])
        BY <1>3, <1>6, <2>1, <2>2, PoolSizes DEF Steady, Underway
    <2>4. \A d \in Caches \ {c} : Steady(d, cache[d], stage[d], derived'[d], call[d])
        BY <1>6 DEF CacheInv, AllSteady
    <2> QED BY <1>1, <2>3, <2>4 DEF AllSteady
<1>8. Summed' /\ process' \in Nat /\ process' <= ProcessBytes
    <2>1. Dues(stage', cache', call') = Dues(stage, cache, call) /\ Orphaned(buffers', stage') = Orphaned(buffers, stage)
        BY <1>1
    <2>2. OfLeases(lease') = OfLeases(lease) - x.bytes
        BY <1>3, <1>4, <1>5
    <2>3. process' = OfCaches(Dues(stage', cache', call')) + ReservedFor(Orphaned(buffers', stage')) + OfLeases(lease')
        BY <1>1, <1>3, <2>1, <2>2, SumsAreNat DEF CacheInv, Summed
    <2>4. OfLeases(lease') \in Nat
        <3>1. lease' \in [Leases -> LeasesHeld \cup {Nothing}]
            BY <1>1, <1>2
        <3> QED BY <3>1, OneLease
    <2>5. process' \in Nat
        BY <2>1, <2>3, <2>4, SumsAreNat
    <2> QED BY <1>1, <1>2, <1>3, <2>3, <2>5, PoolSizes DEF Summed
<1>9. Shaped'
    BY <1>1, <1>2, <1>6, <1>8 DEF CacheInv, Shaped
<1>10. Handed'
    BY <1>1 DEF CacheInv, Handed
<1>11. Promised'
    <2>1. \A d \in Caches : derived'[d] = LentBy(d, lease')
        <3> SUFFICES ASSUME NEW d \in Caches PROVE derived'[d] = LentBy(d, lease')
            OBVIOUS
        <3>1. derived[d] = LentBy(d, lease) /\ LentBy(d, lease) \in Nat
            BY <1>4 DEF CacheInv, Promised
        <3>2. LentBy(d, lease') = LentBy(d, lease) - LentOf(d, x) + LentOf(d, Nothing)
            BY <1>4
        <3>3. CASE d = c
            BY <1>3, <1>5, <1>6, <3>1, <3>2, <3>3
        <3>4. CASE d # c
            BY <1>5, <1>6, <3>1, <3>2, <3>4
        <3> QED BY <3>3, <3>4
    <2>2. \A d \in Caches : call'[d] \in Reserves => lease'[call'[d].lease] = Nothing
        <3>1. \A d \in Caches : call[d] \in Reserves => call[d].lease \in Leases /\ lease[call[d].lease] = Nothing
            BY DEF CacheInv, Promised, Reserves
        <3> QED BY <1>1, <1>2, <3>1
    <2>3. \A d, e \in Caches :
            d # e /\ call'[d] \in Reserves /\ call'[e] \in Reserves => call'[d].lease # call'[e].lease
        BY <1>1 DEF CacheInv, Promised
    <2> QED BY <2>1, <2>2, <2>3 DEF Promised
<1> QED BY <1>1, <1>7, <1>8, <1>9, <1>10, <1>11 DEF CacheInv

LEMMA NewKeeps ==
    ASSUME CacheInv, NEW c \in Caches, New(c)
    PROVE  CacheInv' /\ UNCHANGED cache
<1>1. /\ stage[c] = "new" /\ ProcessAdmits(Metadata) /\ process' = process + Metadata
      /\ stage' = [stage EXCEPT ![c] = "live"]
      /\ UNCHANGED <<cache, derived, call, buffers, detached, lease>>
    BY DEF New, hostVars
<1>2. /\ SoundCache(c, cache[c]) /\ cache[c] = Empty /\ call[c] = Nothing /\ derived[c] = 0
    BY <1>1 DEF CacheInv, AllSteady, Steady
<1>3. cache[c].charged = Metadata /\ cache[c].reads = {}
    BY <1>2, EmptySound
<1>4. stage'[c] = "live" /\ (\A d \in Caches \ {c} : stage'[d] = stage[d]) /\ stage' \in [Caches -> Stages]
    BY <1>1 DEF CacheInv, Shaped, Stages
<1>5. Steady(c, cache'[c], stage'[c], derived'[c], call'[c])
    BY <1>1, <1>2, <1>3, <1>4, PoolSizes, CacheSizes DEF Steady, Underway
<1>6. AllSteady'
    BY <1>1, <1>4, <1>5 DEF CacheInv, AllSteady
<1>7. Orphaned(buffers', stage') = Orphaned(buffers, stage)
    <2>1. \A t \in buffers : t.cache \in Caches /\ (stage'[t.cache] = "dropped" <=> stage[t.cache] = "dropped")
        BY <1>1, <1>4 DEF CacheInv, Shaped, TileTickets
    <2> QED BY <1>1, <2>1 DEF Orphaned
<1>8. Summed' /\ process' \in Nat /\ process' <= ProcessBytes
    <2>1. OfCaches(Dues(stage', cache', call'))
            = OfCaches(Dues(stage, cache, call)) - Charge(stage[c], cache[c], call[c])
                + Charge(stage'[c], cache'[c], call'[c])
        BY <1>1, <1>4, <1>5, Others
    <2>2. Charge(stage[c], cache[c], call[c]) = 0 /\ Charge(stage'[c], cache'[c], call'[c]) = Metadata
        BY <1>1, <1>2, <1>3, <1>4, CacheSizes DEF Charge, Rise
    <2>3. process' = OfCaches(Dues(stage', cache', call')) + ReservedFor(Orphaned(buffers', stage')) + OfLeases(lease')
        BY <1>1, <1>7, <2>1, <2>2, CacheSizes, SumsAreNat DEF CacheInv, Summed
    <2> QED BY <1>1, <2>3, CacheSizes, SumsAreNat DEF Summed, ProcessAdmits
<1>9. Shaped'
    BY <1>1, <1>4, <1>8 DEF CacheInv, Shaped
<1>10. Handed'
    <2>1. \A t \in buffers : t.cache # c /\ t.cache \in Caches
        BY <1>1, <1>3 DEF CacheInv, Handed, Shaped, TileTickets
    <2>2. \A t \in detached : t.cache # c /\ t.cache \in Caches
        BY <1>1 DEF CacheInv, Handed, Shaped, TileTickets
    <2> QED BY <1>1, <1>4, <2>1, <2>2 DEF CacheInv, Handed
<1>11. Promised'
    BY <1>1 DEF CacheInv, Promised
<1> QED BY <1>1, <1>6, <1>8, <1>9, <1>10, <1>11 DEF CacheInv

LEMMA DropCacheKeeps ==
    ASSUME CacheInv, NEW c \in Caches, DropCache(c)
    PROVE  CacheInv' /\ UNCHANGED cache
<1> DEFINE inHand == cache[c].reads \cap buffers
           p == [op |-> "drop", held |-> ReservedFor(inHand)]
<1>1. /\ Idle(c) /\ stage' = [stage EXCEPT ![c] = "dropping"] /\ detached' = detached \cup inHand
      /\ call' = [call EXCEPT ![c] = p]
      /\ UNCHANGED <<process, cache, derived, buffers, lease>>
    BY DEF DropCache
<1>2. /\ stage[c] = "live" /\ call[c] = Nothing /\ SoundCache(c, cache[c])
      /\ cache[c].charged \in Nat /\ derived[c] \in Nat /\ cache[c].charged + derived[c] <= MaxBytes
      /\ Charge(stage[c], cache[c], call[c]) = cache[c].charged
      /\ \A t \in buffers : t.cache = c => t \in cache[c].reads
      /\ \A t \in detached : t.cache # c
      /\ \A t \in cache[c].pending \cup cache[c].reads : t \in TileTickets /\ t.cache = c
    BY <1>1, Quiet
<1>3. ReservedFor(inHand) \in Nat /\ \A t \in inHand : t \in TileTickets /\ t.cache = c
    <2>1. IsFiniteSet(inHand)
        BY <1>2, FS_Subset DEF SoundCache, Filed
    <2> QED BY <1>2, <2>1, ReservedLaws
<1>4. /\ stage'[c] = "dropping" /\ stage' \in [Caches -> Stages]
      /\ \A d \in Caches \ {c} : stage'[d] = stage[d]
      /\ call'[c] = p /\ call' = [d \in Caches |-> call'[d]] /\ \A d \in Caches \ {c} : call'[d] = call[d]
    BY <1>1 DEF CacheInv, Shaped, Stages
<1>5. p \in Drops /\ p.held = ReservedFor(inHand) /\ p.op = "drop"
    BY <1>3 DEF Drops
<1> HIDE DEF p
<1>6. p # Nothing /\ p \notin Reserves
    BY <1>5, NothingElse DEF Reserves
<1>7. Steady(c, cache'[c], stage'[c], derived'[c], call'[c])
    BY <1>1, <1>2, <1>4, <1>5 DEF Steady, Underway
<1>8. AllSteady'
    BY <1>1, <1>4, <1>7 DEF CacheInv, AllSteady
<1>9. Orphaned(buffers', stage') = Orphaned(buffers, stage)
    <2>1. \A t \in buffers : t.cache \in Caches /\ (stage'[t.cache] = "dropped" <=> stage[t.cache] = "dropped")
        BY <1>2, <1>4 DEF CacheInv, Shaped, TileTickets
    <2> QED BY <1>1, <2>1 DEF Orphaned
<1>10. Summed'
    <2>1. /\ OfCaches(Dues(stage', cache', call'))
              = OfCaches(Dues(stage, cache, call)) - Charge(stage[c], cache[c], call[c])
                  + Charge(stage'[c], cache'[c], call'[c])
          /\ OfCaches(Dues(stage, cache, call)) \in Nat
        BY <1>1, <1>4, <1>7, Others
    <2>2. Charge(stage'[c], cache'[c], call'[c]) = cache[c].charged
        <3>1. Charge(stage'[c], cache'[c], call'[c]) = cache[c].charged + 0
            BY <1>1, <1>4, <1>5, <1>6 DEF Charge, Rise
        <3> QED BY <1>2, <3>1
    <2> QED BY <1>1, <1>2, <1>9, <2>1, <2>2 DEF CacheInv, Summed
<1>11. Shaped'
    BY <1>1, <1>3, <1>4 DEF CacheInv, Shaped
<1>12. Handed'
    <2>1. \A t \in buffers' : IF stage'[t.cache] = "dropped" THEN t \in detached' ELSE t \in cache'[t.cache].reads
        <3>1. \A t \in buffers : t.cache \in Caches /\ (stage'[t.cache] = "dropped" <=> stage[t.cache] = "dropped")
            BY <1>2, <1>4 DEF CacheInv, Shaped, TileTickets
        <3> QED BY <1>1, <3>1 DEF CacheInv, Handed
    <2>2. \A t \in detached' : stage'[t.cache] \in {"dropping", "dropped"}
        <3>1. \A t \in detached : t.cache \in Caches \ {c} /\ stage[t.cache] \in {"dropping", "dropped"}
            BY <1>2 DEF CacheInv, Shaped, Handed, TileTickets
        <3> QED BY <1>1, <1>3, <1>4, <3>1
    <2>3. ASSUME NEW d \in Caches, stage'[d] = "dropping"
          PROVE  LetsGo(call'[d], cache'[d].reads, buffers', detached')
        <3>1. CASE d = c
            <4>1. cache[c].reads \cap detached' = inHand
                BY <1>1, <1>2
            <4>2. ReservedFor(cache[c].reads \cap detached') = ReservedFor(inHand)
                BY <4>1, Zenon
            <4> QED BY <1>1, <1>4, <1>5, <3>1, <4>1, <4>2 DEF LetsGo
        <3>2. CASE d # c
            <4>1. LetsGo(call[d], cache[d].reads, buffers, detached)
                BY <1>4, <2>3, <3>2 DEF CacheInv, Handed
            <4>2. \A t \in cache[d].reads : t.cache # c
                BY <3>2 DEF CacheInv, AllSteady, Steady, SoundCache, Filed
            <4>3. cache[d].reads \cap detached' = cache[d].reads \cap detached
                BY <1>1, <1>3, <4>2
            <4>4. ReservedFor(cache[d].reads \cap detached') = ReservedFor(cache[d].reads \cap detached)
                BY <4>3, Zenon
            <4> QED BY <1>1, <1>4, <3>2, <4>1, <4>3, <4>4 DEF LetsGo
        <3> QED BY <3>1, <3>2
    <2> QED BY <2>1, <2>2, <2>3 DEF Handed
<1>13. Promised'
    <2>1. \A d \in Caches : call'[d] \in Reserves => d # c /\ call'[d] = call[d]
        BY <1>4, <1>6
    <2>2. \A d \in Caches : derived'[d] = LentBy(d, lease')
        BY <1>1 DEF CacheInv, Promised
    <2>3. \A d \in Caches : call'[d] \in Reserves => lease'[call'[d].lease] = Nothing
        BY <1>1, <2>1 DEF CacheInv, Promised
    <2>4. \A d, e \in Caches :
            d # e /\ call'[d] \in Reserves /\ call'[e] \in Reserves => call'[d].lease # call'[e].lease
        BY <2>1 DEF CacheInv, Promised
    <2> QED BY <2>2, <2>3, <2>4 DEF Promised
<1> QED BY <1>1, <1>8, <1>10, <1>11, <1>12, <1>13 DEF CacheInv

LEMMA FinishDropKeeps ==
    ASSUME CacheInv, NEW c \in Caches, FinishDrop(c)
    PROVE  CacheInv' /\ Resident(cache'[c]) = {}
           /\ \A d \in Caches \ {c} : cache'[d] = cache[d]
<1> DEFINE r == cache[c]
           last == {t \in r.reads \ buffers : t \in detached}
           mine == r.reads \cap buffers
           gone == r.reads \cap detached
<1>1. /\ stage[c] = "dropping" /\ process' = process - (ReservedFor(last) + r.charged - call[c].held)
      /\ stage' = [stage EXCEPT ![c] = "dropped"] /\ cache' = [cache EXCEPT ![c] = Empty]
      /\ call' = [call EXCEPT ![c] = Nothing]
      /\ UNCHANGED <<derived, buffers, detached, lease>>
    BY DEF FinishDrop, Released, hostVars
<1>2. /\ SoundCache(c, r) /\ r.charged \in Nat /\ derived[c] \in Nat /\ call[c] \in Drops
      /\ LetsGo(call[c], r.reads, buffers, detached)
      /\ \A t \in buffers : t.cache = c => t \in r.reads
    BY <1>1, WhichCall DEF CacheInv, Handed
<1>3. \A t \in r.reads : t \in TileTickets /\ t.cache = c
    BY <1>2 DEF SoundCache, Filed
<1>4. /\ stage'[c] = "dropped" /\ stage' \in [Caches -> Stages]
      /\ \A d \in Caches \ {c} : stage'[d] = stage[d]
      /\ call'[c] = Nothing /\ call' = [d \in Caches |-> call'[d]] /\ \A d \in Caches \ {c} : call'[d] = call[d]
      /\ cache'[c] = Empty /\ cache' = [d \in Caches |-> cache'[d]]
      /\ \A d \in Caches \ {c} : cache'[d] = cache[d]
    BY <1>1 DEF CacheInv, Shaped, Stages
<1>5. /\ call[c].held = ReservedFor(gone) /\ mine \subseteq detached
      /\ last \cap mine = {} /\ last \cup mine = gone
    BY <1>2 DEF LetsGo
<1>6. IsFiniteSet(last) /\ IsFiniteSet(mine) /\ ReservedFor(last) \in Nat /\ ReservedFor(mine) \in Nat
    <2>1. IsFiniteSet(r.reads) /\ last \in SUBSET r.reads /\ mine \in SUBSET r.reads
        BY <1>2 DEF SoundCache, Filed
    <2> HIDE DEF last, mine
    <2> QED BY <2>1, FS_Subset, ReservedLaws
<1>7. call[c].held = ReservedFor(last) + ReservedFor(mine)
    <2> HIDE DEF last, mine, gone
    <2>1. ReservedFor(last \cup mine) = ReservedFor(last) + ReservedFor(mine)
        BY <1>5, <1>6, ReservedBoth
    <2>2. ReservedFor(gone) = ReservedFor(last \cup mine)
        BY <1>5, Zenon
    <2> QED BY <1>5, <2>1, <2>2
<1>8. process' = process - r.charged + ReservedFor(mine)
    <2>1. process \in Nat
        BY SumsAreNat
    <2> HIDE DEF last, mine, r
    <2> QED BY <1>1, <1>2, <1>6, <1>7, <2>1
<1>9. ReservedFor(Orphaned(buffers', stage')) = ReservedFor(Orphaned(buffers, stage)) + ReservedFor(mine)
    <2> DEFINE S == Orphaned(buffers, stage)
    <2>1. IsFiniteSet(S)
        BY SumsAreNat
    <2>2. \A t \in buffers : t.cache \in Caches
        BY DEF CacheInv, Shaped, TileTickets
    <2>3. Orphaned(buffers', stage') = S \cup mine
        BY <1>1, <1>2, <1>3, <1>4, <2>2 DEF Orphaned
    <2>4. S \cap mine = {}
        BY <1>1, <1>3 DEF Orphaned
    <2> HIDE DEF S, mine
    <2>5. ReservedFor(S \cup mine) = ReservedFor(S) + ReservedFor(mine)
        BY <1>6, <2>1, <2>4, ReservedBoth
    <2>6. ReservedFor(Orphaned(buffers', stage')) = ReservedFor(S \cup mine)
        BY <2>3, Zenon
    <2> QED BY <2>5, <2>6 DEF S
<1> HIDE DEF last, gone
<1>10. Steady(c, cache'[c], stage'[c], derived'[c], call'[c])
    BY <1>1, <1>2, <1>4, EmptySound DEF Steady, Underway
<1>11. AllSteady'
    BY <1>1, <1>4, <1>10 DEF CacheInv, AllSteady
<1>12. Summed' /\ process' \in Nat /\ process' <= ProcessBytes
    <2>1. /\ OfCaches(Dues(stage', cache', call'))
              = OfCaches(Dues(stage, cache, call)) - Charge(stage[c], r, call[c])
                  + Charge(stage'[c], cache'[c], call'[c])
          /\ OfCaches(Dues(stage, cache, call)) \in Nat /\ OfCaches(Dues(stage', cache', call')) \in Nat
        BY <1>1, <1>4, <1>10, Others
    <2>2. Charge(stage[c], r, call[c]) = r.charged
        <3>1. call[c].op = "drop"
            BY <1>2 DEF Drops
        <3>2. Charge(stage[c], r, call[c]) = r.charged + 0
            BY <1>1, <3>1 DEF Charge, Rise
        <3> QED BY <1>2, <3>2
    <2>3. Charge(stage'[c], cache'[c], call'[c]) = 0
        BY <1>4 DEF Charge
    <2>4. process = OfCaches(Dues(stage, cache, call)) + ReservedFor(Orphaned(buffers, stage)) + OfLeases(lease)
          /\ process <= ProcessBytes
        BY DEF CacheInv, Summed, Shaped
    <2> HIDE DEF mine, r
    <2>5. process' = OfCaches(Dues(stage', cache', call')) + ReservedFor(Orphaned(buffers', stage')) + OfLeases(lease')
        BY <1>1, <1>2, <1>6, <1>8, <1>9, <2>1, <2>2, <2>3, <2>4, SumsAreNat
    <2>6. ReservedFor(mine) <= r.charged
        <3>1. mine \in SUBSET (r.pending \cup r.reads) /\ IsFiniteSet(r.pending \cup r.reads)
            BY <1>2, ChargedNat DEF mine, r
        <3>2. ReservedFor(r.pending \cup r.reads) = ReservedFor(mine) + ReservedFor((r.pending \cup r.reads) \ mine)
            BY <3>1, ReservedLaws
        <3>3. ReservedFor((r.pending \cup r.reads) \ mine) \in Nat
            <4>1. (r.pending \cup r.reads) \ mine \in SUBSET (r.pending \cup r.reads)
                OBVIOUS
            <4> QED BY <3>1, <4>1, ReservedLaws
        <3>4. /\ r.charged = Metadata + EntryBytes(r, Resident(r)) + ReservedFor(r.pending \cup r.reads)
              /\ EntryBytes(r, Resident(r)) \in Nat /\ Metadata \in Nat
              /\ ReservedFor(r.pending \cup r.reads) \in Nat
            BY <1>2, ChargedNat, CacheSizes DEF SoundCache, Priced
        <3> QED BY <1>6, <3>2, <3>3, <3>4
    <2>7. process' \in Nat
        BY <1>6, <1>9, <2>1, <2>5, <1>1, SumsAreNat
    <2>8. process' <= ProcessBytes
        BY <1>2, <1>6, <1>8, <2>4, <2>6, <2>7, SumsAreNat, PoolSizes
    <2> QED BY <2>5, <2>7, <2>8 DEF Summed
<1>13. Shaped'
    BY <1>1, <1>4, <1>12 DEF CacheInv, Shaped
<1>14. Handed'
    <2>1. \A t \in buffers' : IF stage'[t.cache] = "dropped" THEN t \in detached' ELSE t \in cache'[t.cache].reads
        <3> SUFFICES ASSUME NEW t \in buffers
                     PROVE  IF stage'[t.cache] = "dropped" THEN t \in detached ELSE t \in cache'[t.cache].reads
            BY <1>1
        <3>1. t.cache \in Caches
            BY DEF CacheInv, Shaped, TileTickets
        <3>2. CASE t.cache = c
            <4>1. t \in mine
                BY <1>2, <3>2
            <4> QED BY <1>4, <1>5, <3>2, <4>1
        <3>3. CASE t.cache # c
            BY <1>4, <3>1, <3>3 DEF CacheInv, Handed
        <3> QED BY <3>2, <3>3
    <2>2. \A t \in detached' : stage'[t.cache] \in {"dropping", "dropped"}
        <3>1. \A t \in detached : t.cache \in Caches /\ stage[t.cache] \in {"dropping", "dropped"}
            BY DEF CacheInv, Shaped, Handed, TileTickets
        <3> QED BY <1>1, <1>4, <3>1
    <2>3. ASSUME NEW d \in Caches, stage'[d] = "dropping"
          PROVE  LetsGo(call'[d], cache'[d].reads, buffers', detached')
        BY <1>1, <1>4, <2>3 DEF CacheInv, Handed
    <2> QED BY <2>1, <2>2, <2>3 DEF Handed
<1>15. Promised'
    <2>1. \A d \in Caches : call'[d] \in Reserves => d # c /\ call'[d] = call[d]
        BY <1>4, NothingElse
    <2>2. \A d \in Caches : derived'[d] = LentBy(d, lease')
        BY <1>1 DEF CacheInv, Promised
    <2>3. \A d \in Caches : call'[d] \in Reserves => lease'[call'[d].lease] = Nothing
        BY <1>1, <2>1 DEF CacheInv, Promised
    <2>4. \A d, e \in Caches :
            d # e /\ call'[d] \in Reserves /\ call'[e] \in Reserves => call'[d].lease # call'[e].lease
        BY <2>1 DEF CacheInv, Promised
    <2> QED BY <2>2, <2>3, <2>4 DEF Promised
<1> QED BY <1>4, <1>11, <1>12, <1>13, <1>14, <1>15, EmptySound DEF CacheInv

LEMMA InitCaches == CacheInit => CacheInv
<1> SUFFICES ASSUME CacheInit PROVE CacheInv
    OBVIOUS
<1>1. /\ process = 0 /\ stage = [c \in Caches |-> "new"] /\ cache = [c \in Caches |-> Empty]
      /\ derived = [c \in Caches |-> 0] /\ call = [c \in Caches |-> Nothing]
      /\ buffers = {} /\ detached = {} /\ lease = [l \in Leases |-> Nothing]
    BY DEF CacheInit
<1>2. Shaped
    BY <1>1, FS_EmptySet, PoolSizes, CacheAssumption DEF Shaped, Stages
<1>3. AllSteady
    BY <1>1, EmptySound DEF AllSteady, Steady, Underway
<1>4. Handed
    BY <1>1 DEF Handed
<1>5. Promised
    <2>1. \A c \in Caches : LentBy(c, lease) = 0
        <3> SUFFICES ASSUME NEW c \in Caches PROVE LentBy(c, lease) = 0
            OBVIOUS
        <3> DEFINE f == [l \in Leases |-> LentOf(c, lease[l])]
        <3>1. \A l \in Leases : f[l] = 0
            BY <1>1 DEF LentOf
        <3>2. LentBy(c, lease) = SumFunctionOnSet(f, Leases)
            BY DEF LentBy
        <3> HIDE DEF f
        <3> QED BY <3>1, <3>2, FiniteCachesAssumption, SumZero
    <2> QED BY <1>1, <2>1, NothingElse DEF Promised
<1>6. Summed
    <2>1. OfCaches(Dues(stage, cache, call)) = 0
        <3>1. \A c \in Caches : Dues(stage, cache, call)[c] = 0
            BY <1>1 DEF Dues, Charge
        <3> QED BY <3>1, FiniteCachesAssumption, SumZero DEF OfCaches
    <2>2. OfLeases(lease) = 0
        <3> DEFINE f == [l \in Leases |-> Size(lease[l])]
        <3>1. \A l \in Leases : f[l] = 0
            BY <1>1 DEF Size
        <3>2. OfLeases(lease) = SumFunctionOnSet(f, Leases)
            BY DEF OfLeases
        <3> HIDE DEF f
        <3> QED BY <3>1, <3>2, FiniteCachesAssumption, SumZero
    <2>3. Orphaned(buffers, stage) = {}
        BY <1>1 DEF Orphaned
    <2>4. ReservedFor(Orphaned(buffers, stage)) = 0
        BY <2>3, ReservedNone, Zenon
    <2> QED BY <1>1, <2>1, <2>2, <2>4 DEF Summed
<1> QED BY <1>2, <1>3, <1>4, <1>5, <1>6 DEF CacheInv

LEMMA CachesKeep == CacheInv /\ [CacheNext]_cacheVars => CacheInv'
<1> SUFFICES ASSUME CacheInv, [CacheNext]_cacheVars PROVE CacheInv'
    OBVIOUS
<1>1. CASE UNCHANGED cacheVars
    BY <1>1 DEF cacheVars, CacheInv, Shaped, AllSteady, Handed, Promised, Summed
<1>2. ASSUME NEW c \in Caches,
             New(c) \/ EnterFrame(c) \/ EnterDerived(c) \/ CommitFrame(c) \/ DropCache(c) \/ FinishDrop(c)
      PROVE  CacheInv'
    BY <1>2, NewKeeps, EnterFrameKeeps, EnterDerivedKeeps, CommitFrameKeeps, DropCacheKeeps, FinishDropKeeps
<1>3. ASSUME NEW c \in Caches, NEW v \in Views, NEW keys \in Cameras, BeginFrame(c, v, keys)
      PROVE  CacheInv'
    BY <1>3, BeginFrameKeeps
<1>4. ASSUME NEW c \in Caches, NEW v \in Views, DropView(c, v) PROVE CacheInv'
    BY <1>4, DropViewKeeps
<1>5. ASSUME NEW c \in Caches, NEW e \in 1..cache[c].epoch, CancelFrame(c, e) PROVE CacheInv'
    BY <1>5, CancelFrameKeeps
<1>6. ASSUME NEW c \in Caches, NEW t \in KnownTickets(c), StartRead(c, t) PROVE CacheInv'
    BY <1>6, StartReadKeeps
<1>7. ASSUME NEW c \in Caches, NEW t \in buffers,
             PublishForeign(c, t) \/ PublishStale(c, t) \/ PublishRefused(c, t) \/ PublishTile(c, t)
      PROVE  CacheInv'
    BY <1>7, DropReadKeeps, PublishStaleKeeps, PublishRefusedKeeps, PublishTileKeeps DEF PublishForeign
<1>8. ASSUME NEW c \in Caches, NEW l \in Leases, NEW bytes \in LeaseBytes, ReserveDerived(c, l, bytes)
      PROVE  CacheInv'
    BY <1>8, ReserveDerivedKeeps
<1>9. ASSUME NEW t \in buffers, DropRead(t) PROVE CacheInv'
    BY <1>9, DropReadKeeps
<1>10. ASSUME NEW l \in Leases, DropLease(l) PROVE CacheInv'
    BY <1>10, DropLeaseKeeps
<1> QED BY <1>1, <1>2, <1>3, <1>4, <1>5, <1>6, <1>7, <1>8, <1>9, <1>10 DEF CacheNext

LEMMA CachesInvariant == CacheSpec => []CacheInv
BY InitCaches, CachesKeep, PTL DEF CacheSpec

LEMMA ConsistentFromInv == CacheInv => CacheConsistent
<1> SUFFICES ASSUME CacheInv PROVE CacheConsistent
    OBVIOUS
<1>1. \A c \in Caches : /\ Steady(c, cache[c], stage[c], derived[c], call[c]) /\ SoundCache(c, cache[c])
                        /\ cache[c].charged \in Nat
    BY WhichCall
<1>2. CacheTypeOK
    <2>1. process \in Nat /\ derived \in [Caches -> Nat] /\ stage \in [Caches -> {"new", "live", "dropping", "dropped"}]
        BY DEF CacheInv, Shaped, Stages
    <2>2. ASSUME NEW c \in Caches
          PROVE  /\ cache[c].charged \in Nat /\ cache[c].epoch \in 0..MaxEpoch[c]
                 /\ \A t \in KnownTickets(c) : t.cache = c /\ t.epoch \in 1..cache[c].epoch /\ t.key \in Keys
                 /\ \A k \in Resident(cache[c]) : k \in Keys /\ cache[c].entries[k].tick \in 0..cache[c].epoch
                 /\ cache[c].candidate # Nothing => cache[c].candidate.epoch = cache[c].epoch
        <3>1. cache[c].charged \in Nat /\ Filed(c, cache[c]) /\ Asking(cache[c]) /\ MaxEpoch[c] \in Nat
            BY <1>1, CacheSizes DEF SoundCache
        <3>2. cache[c].epoch \in 0..MaxEpoch[c]
            BY <3>1 DEF Filed
        <3>3. \A t \in KnownTickets(c) : t.cache = c /\ t.epoch \in 1..cache[c].epoch /\ t.key \in Keys
            BY <3>1 DEF Filed, KnownTickets, TileTickets
        <3>4. \A k \in Resident(cache[c]) : k \in Keys /\ cache[c].entries[k].tick \in 0..cache[c].epoch
            BY <3>1 DEF Filed, Entries
        <3>5. cache[c].candidate # Nothing => cache[c].candidate.epoch = cache[c].epoch
            BY <3>1 DEF Asking
        <3> QED BY <3>1, <3>2, <3>3, <3>4, <3>5
    <2>3. \A t \in buffers : t.key \in Keys
        BY DEF CacheInv, Shaped, TileTickets
    <2>4. \A l \in Leases : lease[l] # Nothing => lease[l].bytes \in LeaseBytes
        BY DEF CacheInv, Shaped, LeasesHeld
    <2> QED BY <2>1, <2>2, <2>3, <2>4 DEF CacheTypeOK
<1>3. Accounted
    <2>1. \A c \in Live : cache[c].charged =
             Metadata + EntryBytes(cache[c], Resident(cache[c])) + ReservedFor(KnownTickets(c))
        BY <1>1 DEF Live, KnownTickets, SoundCache, Priced
    <2>2. \A c \in Caches : derived[c] = SumFunctionOnSet(LeasedOf(c), Leases)
        <3> SUFFICES ASSUME NEW c \in Caches PROVE derived[c] = SumFunctionOnSet(LeasedOf(c), Leases)
            OBVIOUS
        <3>1. LeasedOf(c) = [l \in Leases |-> LentOf(c, lease[l])]
            BY DEF LeasedOf, LentOf
        <3> QED BY <3>1 DEF CacheInv, Promised, LentBy
    <2>3. \A t \in buffers : stage[t.cache] # "dropped" => t \in cache[t.cache].reads
        BY DEF CacheInv, Handed
    <2>4. CacheBytes = Dues(stage, cache, call)
        <3>1. ASSUME NEW c \in Caches
              PROVE  (IF c \in Live THEN cache[c].charged + InCall(c) ELSE 0) = Charge(stage[c], cache[c], call[c])
            BY DEF Live, InCall, Charge, Rise
        <3> QED BY <3>1 DEF CacheBytes, Dues
    <2>5. Orphans = Orphaned(buffers, stage)
        BY DEF Orphans, Orphaned
    <2>6. SumFunctionOnSet(Leased, Leases) = OfLeases(lease)
        BY DEF Leased, BytesOfLease, OfLeases, Size
    <2>7. process = SumFunctionOnSet(CacheBytes, Caches) + ReservedFor(Orphans) + SumFunctionOnSet(Leased, Leases)
        BY <2>4, <2>5, <2>6 DEF CacheInv, Summed, OfCaches
    <2> QED BY <2>1, <2>2, <2>3, <2>7 DEF Accounted
<1>4. WithinBudgets
    BY <1>1 DEF WithinBudgets, Live, CacheInv, Shaped, Steady
<1>5. WindowFits
    BY <1>1 DEF WindowFits, KnownTickets, SoundCache, Roomy
<1>6. FramesComplete
    BY <1>1 DEF FramesComplete, SoundCache, Asking
<1> QED BY <1>2, <1>3, <1>4, <1>5, <1>6 DEF CacheConsistent

(* Every byte is charged once, every ceiling holds, of the process, of each *)
(* cache, of its tables, and what a view shows is there: for any caches,   *)
(* views, keys, leases, sizes and limits.                                  *)
THEOREM CachesAreConsistent == CacheSpec => []CacheConsistent
BY CachesInvariant, ConsistentFromInv, PTL

-----------------------------------------------------------------------------
(* What becomes resident.                                                  *)
FreshIn(c) ==
    \A k \in Resident(cache'[c]) \ Resident(cache[c]) :
        /\ Ticket(c, cache[c].epoch, k) \in cache[c].reads \cap buffers
        /\ cache[c].candidate # Nothing /\ cache[c].candidate.epoch = cache[c].epoch

LEMMA NoMore ==
    ASSUME CacheInv, NEW c \in Caches, NEW r, cache' = [cache EXCEPT ![c] = r],
           Resident(r) \subseteq Resident(cache[c])
    PROVE  \A d \in Caches : FreshIn(d)
<1>1. cache'[c] = r /\ \A d \in Caches \ {c} : cache'[d] = cache[d]
    BY DEF CacheInv, Shaped
<1>2. \A d \in Caches : Resident(cache'[d]) \subseteq Resident(cache[d])
    BY <1>1
<1> QED BY <1>2 DEF FreshIn

LEMMA CallsAreFresh ==
    ASSUME CacheInv, NEW c \in Caches, Idle(c),
           \/ \E v \in Views : \E keys \in Cameras : BeginFrame(c, v, keys)
           \/ CommitFrame(c)
           \/ \E v \in Views : DropView(c, v)
           \/ \E e : CancelFrame(c, e)
           \/ \E t : StartRead(c, t) \/ PublishStale(c, t) \/ PublishRefused(c, t)
    PROVE  \A d \in Caches : FreshIn(d)
<1> DEFINE r == cache[c]
<1>1. SoundCache(c, r)
    BY Quiet
<1>2. /\ SoundCache(c, Reap(r)) /\ Resident(Reap(r)) = Resident(r)
    BY <1>1, ReapSound DEF Resident
<1>3. \A R : Resident([Reap(r) EXCEPT !.reads = R]) = Resident(Reap(r))
    BY <1>2 DEF Resident, SoundCache, Filed, CacheFields
<1>4. ASSUME NEW v \in Views, NEW keys \in Cameras, BeginFrame(c, v, keys) PROVE cache' = [cache EXCEPT ![c] = Reap(r)]
    BY <1>4 DEF BeginFrame
<1>5. ASSUME NEW t, StartRead(c, t) PROVE \E s : cache' = [cache EXCEPT ![c] = s] /\ Resident(s) = Resident(r)
    BY <1>2, <1>3, <1>5 DEF StartRead
<1>6. ASSUME NEW t, PublishStale(c, t) \/ PublishRefused(c, t)
      PROVE  \E s : cache' = [cache EXCEPT ![c] = s] /\ Resident(s) = Resident(r)
    <2>1. CASE PublishStale(c, t)
        <3> DEFINE s == [Unread(c, t) EXCEPT !.charged = @ - Reserved(t.key)]
        <3>1. cache' = [cache EXCEPT ![c] = s]
            BY <2>1 DEF PublishStale, Settle
        <3>2. Resident(s) = Resident(r)
            BY <1>1 DEF Unread, Resident, SoundCache, Filed, CacheFields
        <3> QED BY <3>1, <3>2
    <2>2. CASE PublishRefused(c, t)
        <3> DEFINE s == CancelEpoch(Unread(c, t), t.epoch)
        <3>1. cache' = [cache EXCEPT ![c] = s]
            BY <2>2 DEF PublishRefused, Settle
        <3>2. Resident(s) = Resident(r)
            BY <1>1 DEF CancelEpoch, Cancelled, Unread, Resident, SoundCache, Filed, CacheFields
        <3> QED BY <3>1, <3>2
    <2> QED BY <1>6, <2>1, <2>2
<1>7. ASSUME NEW e, CancelFrame(c, e) PROVE \E s : cache' = [cache EXCEPT ![c] = s] /\ Resident(s) = Resident(r)
    <2>1. cache' = [cache EXCEPT ![c] = CancelEpoch(r, e)]
        BY <1>7 DEF CancelFrame, Change
    <2>2. Resident(CancelEpoch(r, e)) = Resident(r)
        BY <1>1, CancelEpochSound DEF Resident
    <2> QED BY <2>1, <2>2
<1>8. ASSUME CommitFrame(c) PROVE \E s : cache' = [cache EXCEPT ![c] = s] /\ Resident(s) = Resident(r)
    <2>1. cache' = [cache EXCEPT ![c] = CommittedFrame(r)] /\ r.candidate # Nothing /\ r.pending = {}
        BY <1>8 DEF CommitFrame, Change, CommittedFrame
    <2>2. Resident(CommittedFrame(r)) = Resident(r)
        BY <1>1, <2>1, CommittedSound DEF Resident
    <2> QED BY <2>1, <2>2
<1>9. ASSUME NEW v \in Views, DropView(c, v) PROVE \E s : cache' = [cache EXCEPT ![c] = s] /\ Resident(s) = Resident(r)
    <2> DEFINE q == IF r.candidate # Nothing /\ r.candidate.view = v THEN Cancelled(r) ELSE r
               s == [q EXCEPT !.frames[v] = Nothing]
    <2>1. cache' = [cache EXCEPT ![c] = s]
        BY <1>9 DEF DropView, Change
    <2>2. Resident(s) = Resident(r)
        BY <1>1 DEF Cancelled, Resident, SoundCache, Filed, CacheFields
    <2> HIDE DEF s
    <2> QED BY <2>1, <2>2
<1> HIDE DEF r
<1>10. \E s : cache' = [cache EXCEPT ![c] = s] /\ Resident(s) = Resident(r)
    BY <1>2, <1>4, <1>5, <1>6, <1>7, <1>8, <1>9
<1> QED BY <1>10, NoMore DEF r

LEMMA StepsAreFresh ==
    ASSUME CacheInv, [CacheNext]_cacheVars
    PROVE  \A c \in Caches : FreshIn(c)
<1>1. CASE UNCHANGED cache
    BY <1>1 DEF FreshIn
<1>2. ASSUME NEW c \in Caches, New(c) \/ EnterDerived(c) \/ DropCache(c) PROVE UNCHANGED cache
    BY <1>2 DEF New, EnterDerived, DropCache, hostVars
<1>3. ASSUME NEW c \in Caches, EnterFrame(c) PROVE \A d \in Caches : FreshIn(d)
    BY <1>3, EnterFrameKeeps DEF FreshIn
<1>4. ASSUME NEW c \in Caches, FinishDrop(c) PROVE \A d \in Caches : FreshIn(d)
    BY <1>4, FinishDropKeeps DEF FreshIn
<1>5. ASSUME NEW c \in Caches, NEW t, PublishTile(c, t) PROVE \A d \in Caches : FreshIn(d)
    <2>1. /\ t = Ticket(c, cache[c].epoch, t.key) /\ t \in cache[c].reads \cap buffers
          /\ cache[c].candidate # Nothing /\ cache[c].candidate.epoch = cache[c].epoch
          /\ Resident(cache'[c]) = Resident(cache[c]) \cup {t.key}
          /\ \A d \in Caches \ {c} : cache'[d] = cache[d]
        BY <1>5, PublishTileKeeps
    <2>2. FreshIn(c)
        <3> SUFFICES ASSUME NEW k \in Resident(cache'[c]) \ Resident(cache[c])
                     PROVE  Ticket(c, cache[c].epoch, k) \in cache[c].reads \cap buffers
            BY <2>1 DEF FreshIn
        <3>1. k = t.key
            BY <2>1
        <3> QED BY <2>1, <3>1
    <2>3. \A d \in Caches \ {c} : FreshIn(d)
        BY <2>1 DEF FreshIn
    <2> QED BY <2>2, <2>3
<1>6. ASSUME NEW c \in Caches, NEW t, PublishForeign(c, t) PROVE UNCHANGED cache
    BY <1>6 DEF PublishForeign, DropRead
<1>7. ASSUME NEW c \in Caches, NEW l \in Leases, NEW bytes \in LeaseBytes, ReserveDerived(c, l, bytes)
      PROVE  UNCHANGED cache
    BY <1>7 DEF ReserveDerived
<1>8. ASSUME (\E t \in buffers : DropRead(t)) \/ \E l \in Leases : DropLease(l) PROVE UNCHANGED cache
    BY <1>8 DEF DropRead, DropLease
<1>9. ASSUME NEW c \in Caches,
             \/ \E v \in Views : \E keys \in Cameras : BeginFrame(c, v, keys)
             \/ CommitFrame(c)
             \/ \E v \in Views : DropView(c, v)
             \/ \E e : CancelFrame(c, e)
             \/ \E t : StartRead(c, t) \/ PublishStale(c, t) \/ PublishRefused(c, t)
      PROVE  \A d \in Caches : FreshIn(d)
    <2>1. Idle(c)
        BY <1>9 DEF BeginFrame, CommitFrame, DropView, CancelFrame, Change, StartRead, PublishStale, PublishRefused, Settle
    <2> QED BY <1>9, <2>1, CallsAreFresh
<1>10. CASE UNCHANGED cacheVars
    BY <1>1, <1>10 DEF cacheVars
<1> QED BY <1>1, <1>2, <1>3, <1>4, <1>5, <1>6, <1>7, <1>8, <1>9, <1>10 DEF CacheNext

(* What becomes resident was asked for, with a ticket of its epoch, by the *)
(* candidate of that moment: a late read publishes nothing.                *)
THEOREM TilesAreFresh == CacheSpec => FreshTiles
<1>1. CacheInv /\ [CacheNext]_cacheVars =>
        [\A c \in Caches : \A k \in Resident(cache'[c]) \ Resident(cache[c]) :
          /\ Ticket(c, cache[c].epoch, k) \in cache[c].reads \cap buffers
          /\ cache[c].candidate # Nothing /\ cache[c].candidate.epoch = cache[c].epoch]_cacheVars
    BY StepsAreFresh DEF FreshIn
<1> QED BY <1>1, CachesInvariant, PTL DEF CacheSpec, FreshTiles
=============================================================================

