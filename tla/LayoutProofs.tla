---------------------------- MODULE LayoutProofs ----------------------------
(***************************************************************************)
(* Theorems about the two hosts of a progressive graph layout.             *)
(*                                                                         *)
(* LayoutController (Python), for any set of revisions, any number of      *)
(* chunks and whatever is watched: handles, cancellation and deliveries.   *)
(*                                                                         *)
(* ForceScheduler (Node), for any number of chunks: what is gone when the  *)
(* promise settles, which cause it settles with, and that worker and       *)
(* parent stay in lock step.                                               *)
(***************************************************************************)
EXTENDS LayoutController, ForceScheduler, TLAPS

(* A job past its creation, or waiting for it, is the running one; no job  *)
(* is queued twice, and one that runs or is over is not queued.            *)
Active == pc # "idle"

Jobs ==
    /\ Active => job \in Revisions /\ future[job] = "running"
    /\ \A r \in Revisions : future[r] = "running" => Active /\ job = r
    /\ \A i \in DOMAIN work : future[work[i]] \in {"queued", "cancelled"}
    /\ \A i, k \in DOMAIN work : work[i] = work[k] => i = k
    /\ \A r \in Revisions : r > revision => future[r] = "none" /\ call[r] = "none" /\ shown[r] = ticks[r]
    /\ delivery # "none" <=> pc = "waiting"

(* The controller can still cancel what is awaited and has not been         *)
(* cancelled; a job nobody awaits has been.                                *)
Cancellable ==
    /\ \A r \in Revisions : call[r] = "awaiting" /\ r \notin event => cancelRef = r
    /\ \A r \in Revisions : future[r] \in {"queued", "running"} => call[r] = "awaiting" \/ r \in event

(* A checkpoint was shown, or is on its way, or its run can no longer be    *)
(* returned.                                                               *)
Spoiled(r) == disposed \/ revision # r \/ r \in event

Underway(r) == delivery \in {"posted", "checked"} /\ job = r

Shown ==
    \A r \in Revisions :
        /\ shown[r] <= ticks[r]
        /\ Underway(r) => shown[r] < ticks[r]
        /\ r \in Watched => \/ Spoiled(r) \/ shown[r] = ticks[r]
                            \/ Underway(r) /\ shown[r] + 1 = ticks[r]

(* Between the check of a delivery and its on_update the loop does nothing  *)
(* else.                                                                   *)
Checked == delivery = "checked" => revision = job /\ call[job] = "awaiting"

Ended ==
    \A r \in Revisions :
        /\ future[r] = "done" => r \in complete
        /\ call[r] = "returned" =>
              future[r] = "done" /\ (r \in Watched => shown[r] = ticks[r])

IInv ==
    /\ LayoutTypeOK /\ OneHandle /\ StaleIsCancelled
    /\ Jobs /\ Cancellable /\ Shown /\ Checked /\ Ended
-----------------------------------------------------------------------------
LEMMA InitEstablishes == Init => IInv
<1> SUFFICES ASSUME Init PROVE IInv
  OBVIOUS
<1> USE RevisionsAssumption, NoneAssumption DEF Init
<1>1. LayoutTypeOK
  <2>1. work \in Seq(Revisions) /\ ticks \in [Revisions -> Nat] /\ shown \in [Revisions -> Nat]
    OBVIOUS
  <2>2. QED
    BY <2>1 DEF LayoutTypeOK
<1>2. OneHandle /\ StaleIsCancelled /\ Cancellable /\ Checked /\ Ended
  BY DEF OneHandle, StaleIsCancelled, Cancellable, Active, Checked, Ended
<1>3. Jobs
  BY DEF Jobs, Active
<1>4. Shown
  <2>1. \A r \in Revisions : shown[r] = 0 /\ ticks[r] = 0
    OBVIOUS
  <2>2. delivery = "none"
    OBVIOUS
  <2> HIDE DEF Init
  <2>3. ASSUME NEW r \in Revisions PROVE shown[r] <= ticks[r] /\ ~Underway(r) /\ shown[r] = ticks[r]
    <3>1. 0 <= 0
      OBVIOUS
    <3>2. shown[r] <= ticks[r]
      BY <2>1, <3>1
    <3>3. QED
      BY <2>1, <2>2, <3>2 DEF Underway
  <2>4. QED
    BY <2>3 DEF Shown
<1>5. QED
  BY <1>1, <1>2, <1>3, <1>4 DEF IInv

(* What the loop and other threads do to the controller: none of it moves  *)
(* the worker or a delivery.                                               *)
LEMMA LayoutKeeps == ASSUME IInv, NEW r \in Revisions, Layout(r) PROVE IInv'
<1> USE RevisionsAssumption, NoneAssumption
<1> USE DEF Layout, Set, IInv, LayoutTypeOK, workerVars
<1>1. LayoutTypeOK'
  <2>1. work' \in Seq(Revisions)
    OBVIOUS
  <2>2. event' \subseteq Revisions /\ revision' \in Revisions \cup {0}
        /\ cancelRef' \in {None, revision'} \ {0}
    OBVIOUS
  <2>3. call' \in [Revisions -> {"none", "awaiting", "returned", "superseded", "disposed", "failed",
                                 "cancelled"}]
    OBVIOUS
  <2>4. future' \in [Revisions -> {"none", "queued", "running", "done", "superseded", "failed",
                                   "cancelled"}]
    OBVIOUS
  <2>5. QED
    BY <2>1, <2>2, <2>3, <2>4
<1>2. OneHandle'
  BY DEF OneHandle
<1>3. StaleIsCancelled'
  BY DEF StaleIsCancelled, Cancellable
<1>4. Jobs'
  BY DEF Jobs, Active
<1>5. Cancellable'
  BY DEF Cancellable, Active, Jobs
<1>6. Shown'
  <2>1. \A x \in Revisions : Spoiled(x) => Spoiled(x)' \/ x = r
    BY DEF Spoiled
  <2>2. \A x \in Revisions : Underway(x)' <=> Underway(x)
    BY DEF Underway
  <2>3. shown[r] = ticks[r]
    BY DEF Jobs
  <2>4. QED
    BY <2>1, <2>2, <2>3 DEF Shown
<1>7. Checked'
  BY DEF Checked, LoopFree
<1>8. Ended'
  BY DEF Ended, Jobs
<1>9. QED
  BY <1>1, <1>2, <1>3, <1>4, <1>5, <1>6, <1>7, <1>8

LEMMA CancelKeeps == ASSUME IInv, Cancel \/ Dispose PROVE IInv'
<1> USE RevisionsAssumption, NoneAssumption
<1> USE DEF Cancel, Dispose, Set, IInv, LayoutTypeOK, workerVars
<1>1. LayoutTypeOK' /\ OneHandle'
  BY DEF OneHandle
<1>2. StaleIsCancelled' /\ Cancellable'
  BY DEF StaleIsCancelled, Cancellable, Active
<1>3. Jobs'
  BY DEF Jobs, Active
<1>4. Shown'
  <2>1. \A x \in Revisions : (Spoiled(x) => Spoiled(x)') /\ (Underway(x)' <=> Underway(x))
    BY DEF Spoiled, Underway
  <2>2. QED
    BY <2>1 DEF Shown
<1>5. Checked' /\ Ended'
  BY DEF Checked, Ended
<1>6. QED
  BY <1>1, <1>2, <1>3, <1>4, <1>5

LEMMA ShutdownKeeps == ASSUME IInv, Shutdown PROVE IInv'
<1> USE DEF Shutdown, IInv, LayoutTypeOK, workerVars, controllerVars
<1>1. LayoutTypeOK' /\ OneHandle'
  BY DEF OneHandle
<1>2. StaleIsCancelled' /\ Cancellable'
  BY DEF StaleIsCancelled, Cancellable, Active
<1>3. \A r \in Queued : future[r] \in {"queued", "cancelled"} /\ r \in Revisions
  BY DEF Queued, Jobs
<1>4. Jobs'
  <2>1. ASSUME NEW r \in Revisions
        PROVE  future'[r] = IF r \in Queued THEN "cancelled" ELSE future[r]
    OBVIOUS
  <2>2. work' = <<>> /\ DOMAIN work' = {}
    OBVIOUS
  <2>3. QED
    BY <1>3, <2>1, <2>2 DEF Jobs, Active
<1>5. Shown'
  <2>1. \A x \in Revisions : (Spoiled(x)' <=> Spoiled(x)) /\ (Underway(x)' <=> Underway(x))
    BY DEF Spoiled, Underway
  <2>2. QED
    BY <2>1 DEF Shown
<1>6. Checked' /\ Ended'
  BY <1>3 DEF Checked, Ended
<1>7. QED
  BY <1>1, <1>2, <1>4, <1>5, <1>6

(* layout() goes on or is abandoned only while no checked delivery is      *)
(* about to call its on_update.                                            *)
LEMMA ResumeKeeps == ASSUME IInv, NEW r \in Revisions, Resume(r) PROVE IInv'
<1> USE RevisionsAssumption, NoneAssumption
<1> USE DEF Resume, Set, IInv, LayoutTypeOK, workerVars
<1>1. Outcome(r) \in {"returned", "superseded", "disposed", "failed", "cancelled"}
  BY DEF Outcome
<1>2. Outcome(r) = "returned" => future[r] = "done" /\ ~Spoiled(r)
  BY DEF Outcome, Spoiled
<1>3. LayoutTypeOK' /\ OneHandle'
  BY <1>1 DEF OneHandle
<1>4. StaleIsCancelled' /\ Cancellable'
  BY <1>1 DEF StaleIsCancelled, Cancellable, Active, Jobs
<1>5. Jobs'
  BY DEF Jobs, Active
<1>6. Shown'
  <2>1. \A x \in Revisions : (Spoiled(x) => Spoiled(x)') /\ (Underway(x)' <=> Underway(x))
    BY DEF Spoiled, Underway
  <2>2. QED
    BY <2>1 DEF Shown
<1>7. Checked'
  BY DEF Checked, LoopFree
<1>8. Ended'
  <2>1. Underway(r) => future[r] = "running"
    BY DEF Underway, Jobs, Active
  <2>2. QED
    BY <1>2, <2>1 DEF Ended, Shown
<1>9. QED
  BY <1>3, <1>4, <1>5, <1>6, <1>7, <1>8

LEMMA AbandonKeeps == ASSUME IInv, NEW r \in Revisions, Abandon(r) PROVE IInv'
<1> USE RevisionsAssumption, NoneAssumption
<1> USE DEF Abandon, Set, IInv, LayoutTypeOK, workerVars
<1>1. LayoutTypeOK' /\ OneHandle'
  BY DEF OneHandle
<1>2. StaleIsCancelled' /\ Cancellable'
  BY DEF StaleIsCancelled, Cancellable, Active
<1>3. Jobs'
  BY DEF Jobs, Active
<1>4. Shown'
  <2>1. \A x \in Revisions : (Spoiled(x) => Spoiled(x)') /\ (Underway(x)' <=> Underway(x))
    BY DEF Spoiled, Underway
  <2>2. QED
    BY <2>1 DEF Shown
<1>5. Checked' /\ Ended'
  BY DEF Checked, LoopFree, Ended
<1>6. QED
  BY <1>1, <1>2, <1>3, <1>4, <1>5
-----------------------------------------------------------------------------
(* The worker.  A job taken from the queue is nowhere else.                *)
LEMMA TakeKeeps == ASSUME IInv, Take PROVE IInv'
<1> USE DEF Take, IInv, LayoutTypeOK, workerVars, controllerVars
<1>1. /\ Head(work) \in Revisions /\ Head(work) = work[1]
      /\ Tail(work) \in Seq(Revisions)
      /\ \A i \in DOMAIN Tail(work) :
            i \in Nat /\ i + 1 \in DOMAIN work /\ i + 1 # 1 /\ Tail(work)[i] = work[i + 1]
  OBVIOUS
<1>2. LayoutTypeOK' /\ OneHandle'
  BY <1>1 DEF OneHandle
<1>3. StaleIsCancelled'
  BY DEF StaleIsCancelled
<1>4. Jobs'
  BY <1>1 DEF Jobs, Active
<1>5. Cancellable'
  BY <1>1 DEF Cancellable, Active, Jobs
<1>6. Shown'
  BY DEF Shown, Spoiled, Underway, Jobs
<1>7. Checked' /\ Ended'
  BY <1>1 DEF Checked, Ended, Jobs
<1>8. QED
  BY <1>2, <1>3, <1>4, <1>5, <1>6, <1>7

(* A job ends: its future leaves "running" for good, and its handle goes.  *)
LEMMA EndKeeps ==
    ASSUME IInv, Active, delivery' = "none", NEW o \in {"done", "superseded", "failed"}, End(o),
           o = "done" => job \in complete',
           complete \subseteq complete', complete' \subseteq Revisions,
           UNCHANGED <<disposed, revision, cancelRef, event, call, work, stopped, job, shown>>,
           ticks' \in [Revisions -> Nat],
           \A r \in Revisions : r # job => ticks'[r] = ticks[r],
           \/ ticks' = ticks /\ ~Underway(job)
           \/ job \notin Watched /\ ticks'[job] = ticks[job] + 1 /\ delivery = "none"
    PROVE  IInv'
<1> USE RevisionsAssumption DEF End, IInv, LayoutTypeOK
<1>1. job \in Revisions /\ future[job] = "running" /\ pc' = "idle"
  BY DEF Jobs
<1>2. LayoutTypeOK' /\ OneHandle'
  BY <1>1 DEF OneHandle, Active
<1>3. StaleIsCancelled' /\ Cancellable'
  BY <1>1 DEF StaleIsCancelled, Cancellable
<1>4. Jobs'
  BY <1>1 DEF Jobs, Active
<1>5. Shown'
  <2>1. \A x \in Revisions : (Spoiled(x)' <=> Spoiled(x)) /\ ~Underway(x)'
    BY DEF Spoiled, Underway
  <2>2. \A x \in Revisions : x # job => ~Underway(x)
    BY DEF Underway
  <2>3. delivery = "none" => ~Underway(job)
    BY DEF Underway
  <2>4. ASSUME NEW r \in Revisions
        PROVE  /\ shown[r] <= ticks'[r] /\ ~Underway(r)
               /\ r \in Watched => ticks'[r] = ticks[r]
    <3>1. ticks'[r] = ticks[r] \/ ticks'[r] = ticks[r] + 1
      BY <1>1
    <3>2. shown[r] <= ticks[r] /\ shown[r] \in Nat /\ ticks[r] \in Nat
      BY DEF Shown
    <3>3. shown[r] <= ticks'[r]
      <4>1. \A m, n, k \in Nat : m <= n /\ (k = n \/ k = n + 1) => m <= k
        OBVIOUS
      <4>2. ticks'[r] \in Nat
        OBVIOUS
      <4> HIDE DEF End, IInv, LayoutTypeOK
      <4>3. QED
        BY <3>1, <3>2, <4>1, <4>2
    <3>4. ~Underway(r) /\ (r \in Watched => ticks'[r] = ticks[r])
      <4>1. CASE r = job
        BY <4>1, <2>3
      <4>2. CASE r # job
        BY <4>2, <2>2
      <4>3. QED
        BY <4>1, <4>2
    <3>5. QED
      BY <3>3, <3>4
  <2>5. QED
    BY <2>1, <2>4 DEF Shown
<1>6. Checked' /\ Ended'
  BY <1>1 DEF Checked, Ended
<1>7. QED
  BY <1>2, <1>3, <1>4, <1>5, <1>6

LEMMA CreateKeeps == ASSUME IInv, Create PROVE IInv'
<1> USE DEF Create, IInv, LayoutTypeOK, controllerVars
<1>1. Active /\ job \in Revisions /\ future[job] = "running" /\ delivery = "none"
  BY DEF Active, Jobs
<1>2. LayoutTypeOK' /\ OneHandle'
  BY <1>1 DEF OneHandle
<1>3. StaleIsCancelled' /\ Cancellable'
  BY <1>1 DEF StaleIsCancelled, Cancellable
<1>4. Jobs'
  BY <1>1 DEF Jobs, Active
<1>5. Shown'
  <2>1. \A x \in Revisions : (Spoiled(x)' <=> Spoiled(x)) /\ (Underway(x)' <=> Underway(x))
    BY DEF Spoiled, Underway
  <2>2. QED
    BY <2>1 DEF Shown
<1>6. Checked' /\ Ended'
  BY <1>1 DEF Checked, Ended
<1>7. QED
  BY <1>2, <1>3, <1>4, <1>5, <1>6

(* The worker goes on with its job: nothing but where it is changes.       *)
LEMMA GoesOn ==
    ASSUME IInv, pc \in {"look", "waiting"}, pc' \in {"look", "tick"}, ~Underway(job), delivery' = "none",
           UNCHANGED <<controllerVars, call, future, work, stopped, job, ticks, complete, handles, shown>>
    PROVE  IInv'
<1> USE DEF IInv, LayoutTypeOK, controllerVars
<1>1. LayoutTypeOK' /\ OneHandle'
  BY DEF OneHandle
<1>2. StaleIsCancelled' /\ Cancellable'
  BY DEF StaleIsCancelled, Cancellable
<1>3. Jobs'
  BY DEF Jobs, Active
<1>4. Shown'
  <2>1. \A x \in Revisions : (Spoiled(x)' <=> Spoiled(x)) /\ ~Underway(x)' /\ ~Underway(x)
    BY DEF Spoiled, Underway
  <2>2. QED
    BY <2>1 DEF Shown
<1>5. Checked' /\ Ended'
  BY DEF Checked, Ended
<1>6. QED
  BY <1>1, <1>2, <1>3, <1>4, <1>5

LEMMA LookKeeps == ASSUME IInv, Look PROVE IInv'
<1> USE DEF Look, controllerVars
<1>1. Active /\ delivery = "none" /\ ~Underway(job)
  BY DEF Active, IInv, Jobs, Underway
<1>2. ticks \in [Revisions -> Nat] /\ complete \subseteq Revisions
  BY DEF IInv, LayoutTypeOK
<1>3. CASE End("superseded")
  BY <1>1, <1>2, <1>3, EndKeeps
<1>4. CASE End("failed")
  BY <1>1, <1>2, <1>4, EndKeeps
<1>5. CASE pc' = "tick" /\ UNCHANGED <<handles, future>>
  BY <1>1, <1>5, GoesOn
<1>6. QED
  BY <1>3, <1>4, <1>5

LEMMA DeliveredKeeps == ASSUME IInv, Delivered PROVE IInv'
<1> USE DEF Delivered, controllerVars
<1>1. Active /\ ~Underway(job)
  BY DEF Active, Underway
<1>2. ticks \in [Revisions -> Nat] /\ complete \subseteq Revisions
  BY DEF IInv, LayoutTypeOK
<1>3. CASE End("failed")
  BY <1>1, <1>2, <1>3, EndKeeps
<1>4. CASE job \in complete /\ End("done")
  BY <1>1, <1>2, <1>4, EndKeeps
<1>5. CASE pc' = "look" /\ UNCHANGED <<handles, future>>
  BY <1>1, <1>5, GoesOn
<1>6. QED
  BY <1>3, <1>4, <1>5

LEMMA TickKeeps == ASSUME IInv, Tick PROVE IInv'
<1> USE RevisionsAssumption DEF Tick, controllerVars
<1>1. Active /\ job \in Revisions /\ delivery = "none" /\ ~Underway(job)
  BY DEF Active, IInv, Jobs, Underway
<1>2. ticks \in [Revisions -> Nat] /\ complete \subseteq Revisions
  BY DEF IInv, LayoutTypeOK
<1>3. CASE End("failed") /\ UNCHANGED <<ticks, complete, delivery>>
  BY <1>1, <1>2, <1>3, EndKeeps
<1> DEFINE Ticked == /\ ticks' = [ticks EXCEPT ![job] = @ + 1]
                     /\ complete' \in {complete, complete \cup {job}}
<1>4. Ticked =>
        /\ ticks' \in [Revisions -> Nat] /\ ticks'[job] = ticks[job] + 1
        /\ \A r \in Revisions : r # job => ticks'[r] = ticks[r]
        /\ complete \subseteq complete' /\ complete' \subseteq Revisions
  BY <1>1, <1>2
<1>5. CASE Ticked /\ job \in complete' /\ job \notin Watched /\ UNCHANGED delivery /\ End("done")
  <2> HIDE DEF Ticked
  <2>1. QED
    BY <1>1, <1>4, <1>5, EndKeeps
<1>6. CASE Ticked /\ UNCHANGED <<handles, future>> /\ Tick
           /\ \/ job \in Watched /\ pc' = "waiting" /\ delivery' = "posted"
              \/ job \notin Watched /\ pc' = "look" /\ UNCHANGED delivery
  <2> HIDE DEF Ticked
  <2> USE <1>1, <1>4, <1>6 DEF IInv, LayoutTypeOK
  <2>1. LayoutTypeOK' /\ OneHandle'
    BY DEF OneHandle
  <2>2. StaleIsCancelled' /\ Cancellable'
    BY DEF StaleIsCancelled, Cancellable
  <2>3. Jobs'
    BY DEF Jobs, Active
  <2>4. Shown'
    <3>1. \A x \in Revisions : (Spoiled(x)' <=> Spoiled(x)) /\ ~Underway(x)
      BY DEF Spoiled, Underway
    <3>2. \A x \in Revisions : Underway(x)' <=> job \in Watched /\ x = job
      BY DEF Underway
    <3>3. ASSUME NEW r \in Revisions
          PROVE  /\ shown[r] <= ticks'[r]
                 /\ Underway(r)' => shown[r] < ticks'[r]
                 /\ r \in Watched => \/ Spoiled(r) \/ shown[r] = ticks'[r]
                                     \/ Underway(r)' /\ shown[r] + 1 = ticks'[r]
      <4>1. shown[r] <= ticks[r] /\ shown[r] \in Nat /\ ticks[r] \in Nat
            /\ (r \in Watched => Spoiled(r) \/ shown[r] = ticks[r])
        BY <3>1 DEF Shown
      <4>2. CASE r = job
        BY <4>1, <4>2, <3>2
      <4>3. CASE r # job
        BY <4>1, <4>3, <3>2
      <4>4. QED
        BY <4>2, <4>3
    <3>4. QED
      BY <3>1, <3>3 DEF Shown
  <2>5. Checked' /\ Ended'
    BY DEF Checked, Ended, Jobs
  <2>6. QED
    BY <2>1, <2>2, <2>3, <2>4, <2>5
<1>7. (End("failed") /\ UNCHANGED <<ticks, complete, delivery>>) \/ Ticked
  OBVIOUS
<1>8. QED
  BY <1>3, <1>5, <1>6, <1>7
-----------------------------------------------------------------------------
(* Deliveries.                                                             *)
LEMMA CheckKeeps == ASSUME IInv, Check PROVE IInv'
<1> USE DEF Check, IInv, LayoutTypeOK, workerVars, controllerVars
<1>1. Active /\ job \in Revisions /\ future[job] = "running" /\ Underway(job)
  BY DEF Jobs, Active, Underway
<1>2. LayoutTypeOK' /\ OneHandle'
  BY DEF OneHandle
<1>3. StaleIsCancelled' /\ Cancellable'
  BY DEF StaleIsCancelled, Cancellable
<1>4. Jobs'
  BY DEF Jobs, Active
<1>5. Shown'
  <2>1. \A x \in Revisions : Spoiled(x)' <=> Spoiled(x)
    BY DEF Spoiled
  <2>2. \A x \in Revisions : (x # job => ~Underway(x)) /\ (Underway(x)' => Underway(x))
    BY DEF Underway
  <2>3. Spoiled(job) \/ Underway(job)'
    BY DEF Spoiled, Underway, Current
  <2>4. QED
    BY <2>1, <2>2, <2>3 DEF Shown
<1>6. Checked' /\ Ended'
  BY <1>1 DEF Checked, Ended, Current, Cancellable
<1>7. QED
  BY <1>2, <1>3, <1>4, <1>5, <1>6

LEMMA OnUpdateKeeps == ASSUME IInv, OnUpdate PROVE IInv'
<1> USE DEF OnUpdate, IInv, LayoutTypeOK, workerVars, controllerVars
<1>1. Active /\ job \in Revisions /\ future[job] = "running" /\ Underway(job)
  BY DEF Jobs, Active, Underway
<1>2. shown[job] < ticks[job] /\ shown[job] \in Nat /\ ticks[job] \in Nat
  BY <1>1 DEF Shown
<1>3. shown' \in [Revisions -> Nat] /\ shown'[job] = shown[job] + 1
      /\ \A r \in Revisions : r # job => shown'[r] = shown[r]
  BY <1>1
<1>4. LayoutTypeOK' /\ OneHandle'
  BY <1>3 DEF OneHandle
<1>5. StaleIsCancelled' /\ Cancellable'
  BY DEF StaleIsCancelled, Cancellable
<1>6. Jobs'
  BY <1>1, <1>3 DEF Jobs, Active
<1>7. Shown'
  <2>1. \A x \in Revisions : (Spoiled(x)' <=> Spoiled(x)) /\ ~Underway(x)' /\ (x # job => ~Underway(x))
    BY DEF Spoiled, Underway
  <2>2. shown'[job] <= ticks[job]
        /\ (job \in Watched => Spoiled(job) \/ shown'[job] = ticks[job])
    BY <1>1, <1>2, <1>3 DEF Shown
  <2>3. \A r \in Revisions : r # job =>
          shown'[r] <= ticks[r] /\ (r \in Watched => Spoiled(r) \/ shown'[r] = ticks[r])
    BY <1>3, <2>1 DEF Shown
  <2>4. QED
    BY <2>1, <2>2, <2>3 DEF Shown
<1>8. Checked' /\ Ended'
  BY <1>1, <1>3 DEF Checked, Ended
<1>9. QED
  BY <1>4, <1>5, <1>6, <1>7, <1>8

LEMMA UpdateEndsKeeps == ASSUME IInv, UpdateEnds PROVE IInv'
<1> USE DEF UpdateEnds, IInv, LayoutTypeOK, workerVars, controllerVars
<1>1. LayoutTypeOK' /\ OneHandle' /\ StaleIsCancelled' /\ Cancellable'
  BY DEF OneHandle, StaleIsCancelled, Cancellable
<1>2. Jobs'
  BY DEF Jobs, Active
<1>3. Shown'
  <2>1. \A x \in Revisions : (Spoiled(x)' <=> Spoiled(x)) /\ ~Underway(x)' /\ ~Underway(x)
    BY DEF Spoiled, Underway
  <2>2. QED
    BY <2>1 DEF Shown
<1>4. Checked' /\ Ended'
  BY DEF Checked, Ended
<1>5. QED
  BY <1>1, <1>2, <1>3, <1>4

LEMMA StutterKeeps == ASSUME IInv, UNCHANGED vars PROVE IInv'
BY DEF vars, controllerVars, workerVars, IInv, LayoutTypeOK, OneHandle, StaleIsCancelled, Active,
    Jobs, Cancellable, Spoiled, Underway, Shown, Checked, Ended

LEMMA StepKeeps == ASSUME IInv, [Next]_vars PROVE IInv'
BY LayoutKeeps, CancelKeeps, ShutdownKeeps, ResumeKeeps, AbandonKeeps, TakeKeeps, CreateKeeps,
    LookKeeps, TickKeeps, DeliveredKeeps, CheckKeeps, OnUpdateKeeps, UpdateEndsKeeps, StutterKeeps
    DEF Next, Worker, Deliver

LEMMA Invariant == Spec => []IInv
BY InitEstablishes, StepKeeps, PTL DEF Spec
-----------------------------------------------------------------------------
(* For any revisions and chunks: the native handle alive is the running    *)
(* job's and no other, whatever way earlier jobs ended; what is awaited     *)
(* but stale has been cancelled; and a layout() that returned had run to   *)
(* its end with every checkpoint shown.                                    *)
THEOREM NoLeakNoStaleResult == Spec => []Consistent
<1>1. IInv => Consistent
  BY DEF IInv, Consistent, ReturnedIsShown, Ended
<1>2. QED
  BY <1>1, Invariant, PTL

(* For the same parameters: an on_update is only called for the newest     *)
(* revision while its layout() is awaited, with the checkpoint just made.  *)
THEOREM UpdatesInTime == Spec => NoLateUpdate
<1> DEFINE Timely == \A r \in Revisions : shown'[r] # shown[r] =>
                        r = revision /\ call[r] = "awaiting" /\ shown'[r] <= ticks[r]
<1>1. ASSUME IInv, Next PROVE Timely
  <2>1. CASE OnUpdate
    <3>1. job \in Revisions /\ Underway(job) /\ revision = job /\ call[job] = "awaiting"
      BY <1>1, <2>1 DEF OnUpdate, IInv, Jobs, Active, Underway, Checked
    <3>2. shown \in [Revisions -> Nat] /\ ticks[job] \in Nat /\ shown[job] < ticks[job]
      BY <1>1, <3>1 DEF IInv, LayoutTypeOK, Shown
    <3>3. QED
      BY <2>1, <3>1, <3>2 DEF OnUpdate
  <2>2. CASE UNCHANGED shown
    BY <2>2
  <2>3. OnUpdate \/ UNCHANGED shown
    BY <1>1 DEF Next, Worker, Deliver, Layout, Resume, Abandon, Cancel, Dispose, Shutdown, Take,
        Create, Look, Tick, Delivered, Check, UpdateEnds
  <2>4. QED
    BY <2>1, <2>2, <2>3
<1>2. IInv /\ [Next]_vars => [Timely]_vars
  BY <1>1
<1>3. QED
  BY <1>2, Invariant, PTL DEF Spec, NoLateUpdate

-----------------------------------------------------------------------------
-----------------------------------------------------------------------------
(* The force scheduler.                                                    *)

(* Without a worker there is nothing to clean up: either the run has not   *)
(* begun or it has settled already.                                        *)
NoWorker ==
    place = "none" =>
        handle = "none" /\ failure = "none" /\ toParent = <<>> /\ (begun => settled # Absent)

NotBegun ==
    ~begun =>
        /\ place = "none" /\ outcome = Absent /\ settled = Absent
        /\ ~timeout /\ ~listening /\ grace = "off"

NoHandle == place = "gone" => handle # "live"

(* Once settled nothing can arm a timer, raise an error or start a thread. *)
Settled ==
    settled # Absent =>
        /\ begun /\ place \in {"none", "gone"} /\ failure # "raised" /\ outcome = settled
        /\ ~timeout /\ ~listening /\ grace # "armed"

RunInv == NoWorker /\ NotBegun /\ NoHandle /\ Settled
-----------------------------------------------------------------------------
(* What a run fails or succeeds with is never taken for no outcome.        *)
LEMMA OutcomeIsSome ==
    /\ \A c \in Causes : Failed(c) # Absent
    /\ Done # Absent
BY SchedulerAssumption DEF Failed, Done, Causes

LEMMA RunBegins == RunInit => RunInv
BY DEF RunInit, RunInv, NoWorker, NotBegun, NoHandle, Settled

(* The worker's own steps leave the parent alone, and are not taken once   *)
(* it is gone.                                                             *)
LEMMA WorkerKeeps == ASSUME RunInv, WorkerNext \/ Kill \/ Crash PROVE RunInv'
<1> USE DEF RunInv, NoWorker, NotBegun, NoHandle, Settled, parentVars
<1>1. CASE Start
  BY <1>1 DEF Start, RunChunk, Report
<1>2. CASE Turn
  BY <1>2 DEF Turn, RunChunk, Fail, Report
<1>3. CASE WorkerMessage
  BY <1>3 DEF WorkerMessage, Fail, Report
<1>4. CASE Exit
  BY <1>4 DEF Exit, Gone
<1>5. CASE Kill
  BY <1>5 DEF Kill, Gone
<1>6. CASE Crash
  BY <1>6 DEF Crash, Gone
<1>7. QED
  BY <1>1, <1>2, <1>3, <1>4, <1>5, <1>6 DEF WorkerNext

(* cancel finds a settled run done with, and cannot settle one.            *)
LEMMA RunCancelKeeps ==
    ASSUME NEW c \in Causes, RunInv, CancelWith(c), UNCHANGED <<place, handle, failure, begun>>,
           begun, place = "none" => toParent' = <<>>
    PROVE  RunInv'
<1>1. CASE outcome # Absent
  BY <1>1 DEF CancelWith, RunInv, NoWorker, NotBegun, NoHandle, Settled
<1>2. CASE outcome = Absent
  <2>1. settled = Absent /\ settled' = Absent
    BY <1>2 DEF CancelWith, RunInv, Settled
  <2> QED
    BY <1>2, <2>1 DEF RunInv, NoWorker, NotBegun, NoHandle, Settled
<1> QED
  BY <1>1, <1>2

LEMMA ParentKeeps == ASSUME RunInv, ParentNext PROVE RunInv'
<1> USE DEF RunInv, NoWorker, NotBegun, NoHandle, Settled
<1>1. CASE OnMessage
  <2> DEFINE m == Head(toParent)
  <2>1. /\ begun /\ place # "none"
        /\ UNCHANGED <<place, handle, failure, begun>>
    BY <1>1 DEF OnMessage, workerSide
  <2>2. CASE UNCHANGED <<outcome, settled, timeout, listening, grace>>
    BY <2>1, <2>2
  <2>3. CASE outcome = Absent /\ StopListening /\ AwaitExit /\ UNCHANGED settled
    BY <2>1, <2>3 DEF StopListening, AwaitExit
  <2>4. CASE outcome = Absent /\ OnTick(m)
    BY <2>1, <2>4, RunCancelKeeps DEF OnTick, Causes
  <2> QED
    BY <1>1, <2>2, <2>3, <2>4 DEF OnMessage
<1>2. CASE OnError
  BY <1>2 DEF OnError, workerSide, StopListening, AwaitExit
<1>3. CASE OnExit
  BY <1>3, OutcomeIsSome DEF OnExit, workerSide, Finish, StopListening
<1> QED
  BY <1>1, <1>2, <1>3 DEF ParentNext
(* The call, the caller's abort and the timers.                            *)
LEMMA CallerKeeps == ASSUME RunInv, Begin \/ Abort \/ WallClock \/ GraceOver PROVE RunInv'
<1> USE DEF RunInv, NoWorker, NotBegun, NoHandle, Settled
<1>1. CASE Begin
  BY <1>1, OutcomeIsSome DEF Begin, Finish, StopListening, Causes
<1>2. CASE Abort
  <2>1. UNCHANGED <<place, handle, failure, begun, toParent>>
    BY <1>2 DEF Abort, workerSide
  <2>2. CASE ~listening
    BY <1>2, <2>1, <2>2 DEF Abort
  <2>3. CASE listening
    BY <1>2, <2>1, <2>3, RunCancelKeeps DEF Abort, Causes
  <2> QED
    BY <2>2, <2>3
<1>3. CASE WallClock
  BY <1>3, RunCancelKeeps DEF WallClock, workerSide, Causes
<1>4. CASE GraceOver
  BY <1>4 DEF GraceOver, workerSide
<1> QED
  BY <1>1, <1>2, <1>3, <1>4

LEMMA RunStepKeeps == RunInv /\ [RunNext]_runVars => RunInv'
<1> SUFFICES ASSUME RunInv, [RunNext]_runVars PROVE RunInv'
  OBVIOUS
<1>1. CASE RunNext
  BY <1>1, WorkerKeeps, ParentKeeps, CallerKeeps DEF RunNext
<1>2. CASE UNCHANGED runVars
  BY <1>2 DEF runVars, workerSide, parentVars, RunInv, NoWorker, NotBegun, NoHandle, Settled
<1> QED
  BY <1>1, <1>2

LEMMA Invariance == RunSpec => []RunInv
BY RunBegins, RunStepKeeps, PTL DEF RunSpec

(* A settled run has left no worker, no live handle, no timer and no       *)
(* listener (runForceTicksInWorker: finish is called at exit, or when      *)
(* there was never a worker).                                              *)
THEOREM SettlesClean == RunSpec => []SettledMeansGone
<1>1. RunInv => SettledMeansGone
  BY DEF RunInv, NoWorker, NoHandle, Settled, SettledMeansGone
<1> QED
  BY <1>1, Invariance, PTL
-----------------------------------------------------------------------------
(* The first failure is kept, and a promise settles once, with the outcome *)
(* of that moment (cancel, the error and exit listeners, finish).          *)
Kept ==
    /\ outcome # Absent /\ outcome.failed => outcome' = outcome
    /\ settled' # settled => settled = Absent /\ settled' = outcome'

LEMMA StepReportsFirst == RunInv /\ [RunNext]_runVars => Kept
<1> SUFFICES ASSUME RunInv, [RunNext]_runVars PROVE Kept
  OBVIOUS
<1>1. CASE UNCHANGED <<outcome, settled>>
  BY <1>1 DEF Kept
<1>2. CASE outcome = Absent /\ UNCHANGED settled
  BY <1>2 DEF Kept
<1>3. ASSUME NEW c \in Causes, CancelWith(c) PROVE Kept
  BY <1>1, <1>2, <1>3 DEF CancelWith
<1>4. CASE WorkerNext \/ Kill \/ Crash
  BY <1>1, <1>4 DEF WorkerNext, Start, Turn, WorkerMessage, Exit, Kill, Crash, Gone, parentVars
<1>5. CASE OnMessage
  BY <1>1, <1>2, <1>3, <1>5 DEF OnMessage, OnTick, Causes
<1>6. CASE OnError
  BY <1>1, <1>2, <1>6 DEF OnError
<1>7. CASE OnExit
  BY <1>7 DEF OnExit, Finish, ExitOutcome, Kept
<1>8. CASE Begin
  BY <1>1, <1>8 DEF Begin, Finish, RunInv, NotBegun, Kept
<1>9. CASE Abort \/ WallClock
  BY <1>1, <1>3, <1>9 DEF Abort, WallClock, Causes
<1>10. CASE GraceOver \/ UNCHANGED runVars
  BY <1>1, <1>10 DEF GraceOver, runVars, parentVars
<1> QED
  BY <1>4, <1>5, <1>6, <1>7, <1>8, <1>9, <1>10 DEF RunNext, ParentNext

THEOREM FirstCause == RunSpec => FirstCauseWins
<1>1. RunInv /\ [RunNext]_runVars =>
        [/\ outcome # Absent /\ outcome.failed => outcome' = outcome
         /\ settled' # settled => settled = Absent /\ settled' = outcome']_runVars
  BY StepReportsFirst DEF Kept
<1> QED
  BY <1>1, Invariance, PTL DEF RunSpec, FirstCauseWins
-----------------------------------------------------------------------------
(* The lock step.  A checkpoint that is under way is the last one, and the *)
(* worker waits for it; an acceptance that is under way answers it; a      *)
(* cancel follows the acceptance, if any, and only once the parent has its *)
(* outcome.                                                                *)
ToWorker == [type : {"accept", "cancel"}, step : Nat]
ToParent == [type : {"tick", "done", "error", "cancelled"}, step : Nat]

Types ==
    /\ place \in {"none", "start", "turn", "await", "closed", "gone"}
    /\ lastPhase \in BOOLEAN /\ aborted \in BOOLEAN
    /\ checkpoint \in {Absent, step}
    /\ handle \in {"none", "live", "freed", "lost"}
    /\ frees = IF handle = "freed" THEN 1 ELSE 0
    /\ code \in {Absent, 0, 1} /\ failure \in {"none", "raised", "seen"}
    /\ grace \in {"off", "armed", "fired"}
    /\ toWorker \in Seq(ToWorker) /\ toParent \in Seq(ToParent)

Counts ==
    /\ step \in Nat /\ calls \in Nat
    /\ calls <= step /\ step <= calls + 1
    /\ step <= TickChunks /\ (step = TickChunks => lastPhase)

Ticks ==
    \A i \in 1..Len(toParent) :
        toParent[i].type = "tick" => i = 1 /\ toParent[i].step = step /\ step = calls + 1

Accepts ==
    \A i \in 1..Len(toWorker) :
        IF toWorker[i].type = "accept"
        THEN i = 1 /\ toWorker[i].step = step /\ calls = step /\ place \notin {"none", "start", "turn"}
        ELSE outcome # Absent

Places ==
    /\ place \in {"none", "start"} => step = 0 /\ toParent = <<>>
    /\ place = "turn" => calls = step /\ toParent = <<>> /\ ~lastPhase
    /\ place = "await" => \A i \in 1..Len(toParent) : toParent[i].type = "tick"
    /\ place \in {"none", "start", "turn", "await"} => handle # "freed"

(* What a run that is done has behind it.                                  *)
Whole == lastPhase /\ calls = step /\ handle = "freed" /\ place \in {"closed", "gone"}

Dones ==
    /\ \A i \in 1..Len(toParent) : toParent[i].type = "done" => Whole
    /\ outcome = Done => Whole
    /\ settled = Done => outcome = Done /\ code = 0

LInv == Types /\ Counts /\ Ticks /\ Accepts /\ Places /\ Dones

LEMMA AppendFacts ==
    ASSUME NEW S, NEW s \in Seq(S), NEW e \in S
    PROVE  /\ Append(s, e) \in Seq(S) /\ Len(Append(s, e)) = Len(s) + 1 /\ Len(s) \in Nat
           /\ \A i \in 1..Len(s) + 1 : Append(s, e)[i] = IF i = Len(s) + 1 THEN e ELSE s[i]
OBVIOUS

LEMMA RangeFacts ==
    ASSUME NEW S, NEW s \in Seq(S)
    PROVE  \A i \in 1..Len(s) : s[i] \in S
OBVIOUS

LEMMA TailFacts ==
    ASSUME NEW S, NEW s \in Seq(S), s # <<>>
    PROVE  /\ Tail(s) \in Seq(S) /\ Len(Tail(s)) = Len(s) - 1 /\ Len(s) \in Nat \ {0}
           /\ \A i \in 1..Len(s) - 1 : Tail(s)[i] = s[i + 1] /\ i + 1 \in 1..Len(s)
           /\ Head(s) = s[1] /\ s[1] \in S /\ 1 \in 1..Len(s)
OBVIOUS

(* Appended to a queue that holds nothing it must not follow.              *)
LEMMA EmptyFacts ==
    ASSUME NEW S, NEW s \in Seq(S), \A i \in 1..Len(s) : FALSE
    PROVE  s = <<>> /\ Len(s) = 0
OBVIOUS

LEMMA OutcomesDiffer ==
    /\ \A c \in Causes : Failed(c).failed /\ Failed(c) # Done
    /\ ~Done.failed
BY DEF Failed, Done

LEMMA InitLockStep == RunInit => LInv
<1> SUFFICES ASSUME RunInit PROVE LInv
  OBVIOUS
<1> USE DEF RunInit
<1>0. <<>> \in Seq(ToWorker) /\ <<>> \in Seq(ToParent)
  OBVIOUS
<1>1. Types
  BY <1>0 DEF Types
<1>2. Counts
  BY SchedulerAssumption DEF Counts
<1>3. Ticks /\ Accepts /\ Places
  BY DEF Ticks, Accepts, Places
<1>4. Dones
  BY OutcomeIsSome DEF Dones
<1> QED
  BY <1>1, <1>2, <1>3, <1>4 DEF LInv
(* The worker reads one message: what is behind it is no acceptance.       *)
LEMMA TailAccepts ==
    ASSUME Types, Accepts, toWorker # <<>>, toWorker' = Tail(toWorker), UNCHANGED outcome
    PROVE  Accepts' /\ toWorker' \in Seq(ToWorker)
<1>1. /\ toWorker' \in Seq(ToWorker) /\ Len(toWorker') = Len(toWorker) - 1 /\ Len(toWorker) \in Nat
      /\ \A i \in 1..Len(toWorker) - 1 : toWorker'[i] = toWorker[i + 1] /\ i + 1 \in 1..Len(toWorker)
  BY TailFacts DEF Types
<1>2. ASSUME NEW i \in 1..Len(toWorker') PROVE toWorker'[i].type # "accept" /\ outcome # Absent
  <2>1. i + 1 # 1 /\ toWorker'[i] = toWorker[i + 1] /\ i + 1 \in 1..Len(toWorker)
    BY <1>1
  <2> QED
    BY <2>1 DEF Accepts
<1> QED
  BY <1>1, <1>2 DEF Accepts

LEMMA RunChunkKeeps ==
    ASSUME LInv, place \in {"start", "turn"}, RunChunk,
           UNCHANGED <<aborted, code, failure, toWorker, parentVars>>
    PROVE  LInv'
<1> USE DEF LInv, parentVars
<1>1. calls = step /\ step + 1 <= TickChunks /\ toParent = <<>> /\ handle # "freed"
  BY SchedulerAssumption DEF Counts, Places
<1>2. /\ toParent' \in Seq(ToParent) /\ Len(toParent') = 1
      /\ toParent'[1] = [type |-> "tick", step |-> step + 1]
  <2> DEFINE m == [type |-> "tick", step |-> step + 1]
  <2>1. m \in ToParent /\ toParent' = Append(<<>>, m) /\ step' = step + 1
    BY <1>1 DEF RunChunk, Counts, ToParent
  <2> QED
    BY <2>1
<1>3. \A i \in 1..Len(toParent') : i = 1 /\ toParent'[i].type = "tick" /\ toParent'[i].step = step + 1
  BY <1>2
<1>4. /\ step' = step + 1 /\ calls' = calls /\ place' = "await" /\ handle' = "live"
      /\ lastPhase' \in BOOLEAN /\ (step' = TickChunks => lastPhase') /\ checkpoint' = step' /\ frees' = frees
  BY DEF RunChunk
<1>5. Types'
  BY <1>1, <1>2, <1>4 DEF Types
<1>6. Counts' /\ Ticks' /\ Places'
  BY <1>1, <1>3, <1>4 DEF Counts, Ticks, Places
<1>7. Accepts'
  BY <1>4 DEF Accepts
<1>8. Dones'
  BY <1>3, <1>4 DEF Dones, Whole
<1> QED
  BY <1>5, <1>6, <1>7, <1>8

(* The worker's last message comes behind a checkpoint at most.            *)
LEMMA ReportKeeps ==
    ASSUME LInv, place \in {"start", "turn", "await"}, NEW type \in {"done", "error", "cancelled"}, Report(type),
           type = "done" => lastPhase /\ calls = step,
           aborted' \in BOOLEAN, Accepts' \/ UNCHANGED toWorker, toWorker' \in Seq(ToWorker),
           UNCHANGED <<step, lastPhase, code, failure, parentVars>>
    PROVE  LInv'
<1> USE DEF LInv, parentVars
<1>1. /\ handle # "freed" /\ step \in Nat /\ toParent \in Seq(ToParent)
      /\ \A i \in 1..Len(toParent) : toParent[i].type = "tick"
  BY DEF Places, Counts, Types
<1>2. /\ toParent' \in Seq(ToParent) /\ Len(toParent') = Len(toParent) + 1 /\ Len(toParent) \in Nat
      /\ \A i \in 1..Len(toParent) + 1 :
            toParent'[i] = IF i = Len(toParent) + 1 THEN Message(type) ELSE toParent[i]
  <2>1. Message(type) \in ToParent /\ toParent' = Append(toParent, Message(type))
    BY <1>1 DEF Message, ToParent, Report
  <2> QED
    BY <1>1, <2>1, AppendFacts
<1>3. ASSUME NEW i \in 1..Len(toParent')
      PROVE  \/ i \in 1..Len(toParent) /\ toParent'[i] = toParent[i] /\ toParent'[i].type = "tick"
             \/ toParent'[i].type = type
  BY <1>1, <1>2 DEF Message
<1>4. /\ handle' = "freed" /\ frees' = frees + 1 /\ place' = "closed" /\ checkpoint' = Absent
  BY DEF Report
<1>5. Types'
  BY <1>1, <1>2, <1>4 DEF Types
<1>6. Counts' /\ Places'
  BY <1>4 DEF Counts, Places
<1>7. Ticks'
  BY <1>3 DEF Ticks
<1>8. Accepts'
  BY <1>4 DEF Accepts
<1>9. Dones'
  <2>1. outcome # Done
    BY DEF Dones, Whole
  <2>2. ASSUME NEW i \in 1..Len(toParent'), toParent'[i].type = "done" PROVE Whole'
    BY <1>3, <1>4, <2>2 DEF Whole
  <2> QED
    BY <2>1, <2>2 DEF Dones
<1> QED
  BY <1>5, <1>6, <1>7, <1>8, <1>9

LEMMA GoneKeeps ==
    ASSUME RunInv, LInv, NEW status \in {0, 1}, place \notin {"none", "gone"}, Gone(status),
           failure' \in {"none", "raised", "seen"}
    PROVE  LInv'
<1> USE DEF LInv, Gone, parentVars
<1>1. Types' /\ Counts' /\ Ticks' /\ Accepts' /\ Places'
  BY DEF Types, Counts, Ticks, Accepts, Places
<1>2. settled # Done
  BY OutcomeIsSome DEF RunInv, Settled
<1>3. Dones'
  BY <1>2 DEF Dones, Whole
<1> QED
  BY <1>1, <1>3

LEMMA WorkerLockStep == ASSUME RunInv, LInv, WorkerNext \/ Kill \/ Crash PROVE LInv'
<1> USE DEF LInv
<1>0. UNCHANGED parentVars
  BY DEF WorkerNext, Start, Turn, WorkerMessage, Exit, Kill, Crash, Gone
<1>1. CASE Start
  <2>1. CASE RunChunk
    BY <1>1, <2>1, RunChunkKeeps DEF Start
  <2>2. CASE Report("error") /\ UNCHANGED <<step, lastPhase>>
    <3>1. place = "start" /\ UNCHANGED <<step, lastPhase, aborted, code, failure, toWorker>>
      BY <1>1, <2>2 DEF Start
    <3>2. aborted' \in BOOLEAN /\ toWorker' \in Seq(ToWorker)
      BY <3>1 DEF Types
    <3> QED
      BY <1>0, <2>2, <3>1, <3>2, ReportKeeps
  <2>3. CASE /\ toParent' = Append(toParent, Message("error"))
             /\ place' = "closed"
             /\ UNCHANGED <<step, lastPhase, checkpoint, handle, frees>>
    <3> USE <1>1, <2>3 DEF Start, parentVars
    <3>1. toParent = <<>> /\ step = 0 /\ Message("error") \in ToParent
      BY DEF Places, Message, ToParent
    <3>2. toParent' \in Seq(ToParent) /\ Len(toParent') = 1 /\ toParent'[1].type = "error"
      BY <3>1 DEF Message
    <3>3. \A i \in 1..Len(toParent') : toParent'[i].type = "error"
      BY <3>2
    <3>4. Types' /\ Counts' /\ Ticks' /\ Places'
      BY <3>2, <3>3 DEF Types, Counts, Ticks, Places
    <3>5. Accepts' /\ Dones'
      BY <3>3 DEF Accepts, Dones, Whole
    <3> QED
      BY <3>4, <3>5
  <2> QED
    BY <1>1, <2>1, <2>2, <2>3 DEF Start
<1>2. CASE Turn
  <2>1. CASE RunChunk
    BY <1>2, <2>1, RunChunkKeeps DEF Turn
  <2>2. CASE Fail /\ UNCHANGED <<step, lastPhase>>
    <3>1. place = "turn" /\ UNCHANGED <<aborted, code, failure, toWorker>>
      BY <1>2 DEF Turn
    <3> QED
      BY <1>0, <2>2, <3>1, ReportKeeps DEF Fail, Types
  <2> QED
    BY <1>2, <2>1, <2>2 DEF Turn
<1>3. CASE WorkerMessage
  <2> DEFINE m == Head(toWorker)
  <2>1. /\ place \in {"turn", "await"} /\ aborted' \in BOOLEAN
        /\ toWorker # <<>> /\ toWorker' = Tail(toWorker)
        /\ UNCHANGED <<step, lastPhase, code, failure>>
    BY <1>3 DEF WorkerMessage, Types
  <2>2. m = toWorker[1] /\ 1 \in 1..Len(toWorker)
    BY <2>1, TailFacts DEF Types
  <2>3. Accepts' /\ toWorker' \in Seq(ToWorker)
    BY <1>0, <2>1, TailAccepts DEF parentVars
  <2>4. m.type = "accept" => calls = step /\ place # "turn"
    BY <2>2 DEF Accepts
  <2>5. CASE m.type = "cancel" /\ place = "await" /\ Fail
    BY <1>0, <2>1, <2>3, <2>5, ReportKeeps DEF Fail
  <2>6. CASE Accepted(m) /\ lastPhase /\ Report("done")
    BY <1>0, <2>1, <2>3, <2>4, <2>6, ReportKeeps DEF Accepted
  <2>7. CASE /\ Accepted(m) /\ ~lastPhase
             /\ place' = "turn" /\ checkpoint' = Absent
             /\ UNCHANGED <<handle, frees, toParent>>
    <3>1. calls = step /\ place = "await"
      BY <2>1, <2>4, <2>7 DEF Accepted
    <3>2. \A i \in 1..Len(toParent) : FALSE
      BY <3>1 DEF Ticks, Places, Counts
    <3>3. toParent = <<>>
      BY <3>2, EmptyFacts DEF Types
    <3>4. Types' /\ Counts' /\ Ticks' /\ Places'
      BY <1>0, <2>1, <2>3, <2>7, <3>1, <3>3 DEF Types, Counts, Ticks, Places, parentVars
    <3>5. Dones'
      BY <1>0, <2>1, <2>7, <3>1, <3>2 DEF Dones, Whole, parentVars
    <3> QED
      BY <2>3, <3>4, <3>5
  <2>8. CASE UNCHANGED <<place, checkpoint, handle, frees, toParent>>
    <3>1. Types' /\ Counts' /\ Ticks' /\ Places'
      BY <1>0, <2>1, <2>3, <2>8 DEF Types, Counts, Ticks, Places, parentVars
    <3>2. Dones'
      BY <1>0, <2>1, <2>8 DEF Dones, Whole, parentVars
    <3> QED
      BY <2>3, <3>1, <3>2
  <2> QED
    BY <1>3, <2>5, <2>6, <2>7, <2>8 DEF WorkerMessage
<1>4. CASE Exit
  BY <1>4, GoneKeeps DEF Exit, Types
<1>5. CASE Kill
  BY <1>5, GoneKeeps DEF Kill, Types
<1>6. CASE Crash
  BY <1>6, GoneKeeps DEF Crash
<1> QED
  BY <1>1, <1>2, <1>3, <1>4, <1>5, <1>6 DEF WorkerNext

(* cancel sends at most one message and turns no failure into a result.    *)
LEMMA CancelFacts ==
    ASSUME NEW c \in Causes, CancelWith(c), Types, step \in Nat
    PROVE  /\ toWorker' \in Seq(ToWorker) /\ grace' \in {"off", "armed", "fired"} /\ settled' = settled
           /\ outcome # Absent => outcome' = outcome
           /\ outcome = Absent => outcome' # Absent /\ outcome' # Done
           /\ \A i \in 1..Len(toWorker') :
                 \/ i \in 1..Len(toWorker) /\ toWorker'[i] = toWorker[i]
                 \/ toWorker'[i].type = "cancel" /\ outcome' # Absent
<1>1. CASE outcome # Absent
  BY <1>1 DEF CancelWith, Types
<1>2. CASE outcome = Absent
  <2>1. /\ outcome' = Failed(c) /\ AwaitExit /\ UNCHANGED settled
        /\ toWorker' = Append(toWorker, Message("cancel"))
    BY <1>2 DEF CancelWith
  <2>2. Message("cancel") \in ToWorker
    BY DEF Message, ToWorker
  <2>3. /\ toWorker' \in Seq(ToWorker) /\ Len(toWorker') = Len(toWorker) + 1 /\ Len(toWorker) \in Nat
        /\ \A i \in 1..Len(toWorker) + 1 :
              toWorker'[i] = IF i = Len(toWorker) + 1 THEN Message("cancel") ELSE toWorker[i]
    BY <2>1, <2>2, AppendFacts DEF Types
  <2>4. outcome' # Absent /\ outcome' # Done
    BY <2>1, OutcomeIsSome, OutcomesDiffer
  <2>5. ASSUME NEW i \in 1..Len(toWorker')
        PROVE  \/ i \in 1..Len(toWorker) /\ toWorker'[i] = toWorker[i]
               \/ toWorker'[i].type = "cancel"
    BY <2>3 DEF Message
  <2>6. grace' \in {"off", "armed", "fired"}
    BY <2>1 DEF AwaitExit, Types
  <2> QED
    BY <1>2, <2>1, <2>3, <2>4, <2>5, <2>6
<1> QED
  BY <1>1, <1>2

(* A step that only cancels, from outside onTick.                          *)
LEMMA CancelLockStep ==
    ASSUME NEW c \in Causes, LInv, CancelWith(c), UNCHANGED <<workerSide, code, failure, toParent, calls>>
    PROVE  LInv'
<1> USE DEF LInv, workerSide
<1>1. step \in Nat
  BY DEF Counts
<1>2. Types' /\ Counts' /\ Ticks' /\ Places'
  BY <1>1, CancelFacts DEF Types, Counts, Ticks, Places
<1>3. Accepts'
  BY <1>1, CancelFacts DEF Accepts
<1>4. Dones'
  BY <1>1, CancelFacts, OutcomeIsSome DEF Dones, Whole
<1> QED
  BY <1>2, <1>3, <1>4

(* A step of the parent that sends and reads nothing.                      *)
LEMMA OutcomeLockStep ==
    ASSUME LInv, UNCHANGED <<workerSide, code, failure, toWorker, toParent, calls>> \/
                 (failure' = "seen" /\ UNCHANGED <<workerSide, code, toWorker, toParent, calls>>),
           grace' \in {"off", "armed", "fired"},
           outcome # Absent => outcome' # Absent,
           outcome' = Done => outcome = Done \/ Whole,
           settled' = Done => outcome' = Done /\ code = 0
    PROVE  LInv'
<1> USE DEF LInv, workerSide
<1>1. Types' /\ Counts' /\ Ticks' /\ Places' /\ Accepts'
  BY DEF Types, Counts, Ticks, Places, Accepts
<1>2. Dones'
  BY DEF Dones, Whole
<1> QED
  BY <1>1, <1>2

(* The parent reads one message: what is behind it is no checkpoint.       *)
LEMMA ReadFacts ==
    ASSUME LInv, toParent # <<>>, toParent' = Tail(toParent)
    PROVE  /\ toParent' \in Seq(ToParent) /\ place \notin {"none", "start", "turn"}
           /\ \A i \in 1..Len(toParent') : toParent'[i].type # "tick" /\ (toParent'[i].type = "done" => Whole)
           /\ place = "await" => \A i \in 1..Len(toParent') : FALSE
           /\ Head(toParent).type = "tick" => Head(toParent).step = step /\ step = calls + 1
           /\ Head(toParent).type = "done" => Whole
<1>1. /\ toParent' \in Seq(ToParent) /\ Len(toParent') = Len(toParent) - 1 /\ Len(toParent) \in Nat
      /\ \A i \in 1..Len(toParent) - 1 : toParent'[i] = toParent[i + 1] /\ i + 1 \in 1..Len(toParent)
      /\ Head(toParent) = toParent[1] /\ 1 \in 1..Len(toParent)
  BY TailFacts DEF LInv, Types
<1>2. ASSUME NEW i \in 1..Len(toParent')
      PROVE  /\ toParent'[i].type # "tick" /\ (toParent'[i].type = "done" => Whole)
             /\ place # "await"
  <2>1. i + 1 # 1 /\ toParent'[i] = toParent[i + 1] /\ i + 1 \in 1..Len(toParent)
    BY <1>1
  <2> QED
    BY <2>1 DEF LInv, Ticks, Dones, Places
<1>3. place \notin {"none", "start", "turn"}
  BY DEF LInv, Places
<1>4. Head(toParent).type = "tick" => Head(toParent).step = step /\ step = calls + 1
  BY <1>1 DEF LInv, Ticks
<1>5. Head(toParent).type = "done" => Whole
  BY <1>1 DEF LInv, Dones
<1> QED
  BY <1>1, <1>2, <1>3, <1>4, <1>5

LEMMA MessageLockStep == ASSUME LInv, OnMessage PROVE LInv'
<1> DEFINE m == Head(toParent)
<1> USE DEF workerSide
<1>1. /\ toParent # <<>> /\ toParent' = Tail(toParent)
      /\ UNCHANGED <<workerSide, code, failure>>
  BY DEF OnMessage
<1>2. /\ toParent' \in Seq(ToParent) /\ place \notin {"none", "start", "turn"}
      /\ \A i \in 1..Len(toParent') : toParent'[i].type # "tick" /\ (toParent'[i].type = "done" => Whole)
      /\ place = "await" => \A i \in 1..Len(toParent') : FALSE
      /\ m.type = "tick" => m.step = step /\ step = calls + 1
      /\ m.type = "done" => Whole
  BY <1>1, ReadFacts
<1>3. Ticks' /\ Places'
  BY <1>1, <1>2 DEF LInv, Ticks, Places
<1>4. CASE UNCHANGED <<outcome, settled, grace, toWorker, calls>>
  <2>1. Types' /\ Counts' /\ Accepts'
    BY <1>1, <1>2, <1>4 DEF LInv, Types, Counts, Accepts
  <2>2. Dones'
    BY <1>1, <1>2, <1>4 DEF LInv, Dones, Whole
  <2> QED
    BY <1>3, <2>1, <2>2 DEF LInv
<1>5. CASE /\ outcome = Absent
           /\ outcome' = IF m.type = "done" THEN Done ELSE Failed("worker")
           /\ AwaitExit /\ UNCHANGED <<settled, toWorker, calls>>
  <2>1. grace' \in {"off", "armed", "fired"}
    BY <1>5 DEF AwaitExit, LInv, Types
  <2>2. outcome' # Absent /\ (outcome' = Done => Whole) /\ settled' # Done
    BY <1>2, <1>5, OutcomeIsSome, OutcomesDiffer DEF LInv, Dones, Causes
  <2>3. Types' /\ Counts' /\ Accepts'
    BY <1>1, <1>2, <1>5, <2>1, <2>2 DEF LInv, Types, Counts, Accepts
  <2>4. Dones'
    BY <1>1, <1>2, <1>5, <2>2 DEF Dones, Whole
  <2> QED
    BY <1>3, <2>3, <2>4 DEF LInv
<1>6. CASE outcome = Absent /\ m.type = "tick" /\ OnTick(m)
  <2>1. /\ step = calls + 1 /\ m.step = step /\ calls' = step /\ step \in Nat
        /\ settled # Done /\ toWorker \in Seq(ToWorker)
        /\ \A i \in 1..Len(toParent') : toParent'[i].type # "done"
    BY <1>2, <1>6, OutcomeIsSome DEF OnTick, LInv, Counts, Dones, Types, Whole
  <2>2. \A i \in 1..Len(toWorker) : FALSE
    BY <1>6, <2>1 DEF LInv, Accepts
  <2>3. Counts'
    BY <1>1, <2>1 DEF LInv, Counts
  <2>4. CASE /\ toWorker' = Append(toWorker, [type |-> "accept", step |-> m.step])
             /\ UNCHANGED <<outcome, settled, grace>>
    <3>1. toWorker = <<>> /\ [type |-> "accept", step |-> m.step] \in ToWorker
      BY <2>1, <2>2, EmptyFacts DEF ToWorker
    <3>2. toWorker' \in Seq(ToWorker) /\ Len(toWorker') = 1 /\ toWorker'[1] = [type |-> "accept", step |-> step]
      BY <2>1, <2>4, <3>1
    <3>3. \A i \in 1..Len(toWorker') : i = 1 /\ toWorker'[i].type = "accept" /\ toWorker'[i].step = step
      BY <3>2
    <3>4. Types'
      BY <1>1, <1>2, <2>4, <3>2 DEF LInv, Types
    <3>5. Accepts'
      BY <1>1, <1>2, <2>1, <3>3 DEF Accepts
    <3>6. Dones'
      BY <1>6, <2>1, <2>4, OutcomeIsSome DEF Dones
    <3> QED
      BY <1>3, <2>3, <3>4, <3>5, <3>6 DEF LInv
  <2>5. ASSUME NEW c \in Causes, CancelWith(c) PROVE LInv'
    <3>1. /\ toWorker' \in Seq(ToWorker) /\ grace' \in {"off", "armed", "fired"} /\ settled' = settled
          /\ outcome' # Absent /\ outcome' # Done
          /\ \A i \in 1..Len(toWorker') :
                \/ i \in 1..Len(toWorker) /\ toWorker'[i] = toWorker[i]
                \/ toWorker'[i].type = "cancel" /\ outcome' # Absent
      BY <1>6, <2>1, <2>5, CancelFacts DEF LInv
    <3>2. Types'
      BY <1>1, <1>2, <3>1 DEF LInv, Types
    <3>3. Accepts'
      BY <2>2, <3>1 DEF Accepts
    <3>4. Dones'
      BY <2>1, <3>1 DEF Dones
    <3> QED
      BY <1>3, <2>3, <3>2, <3>3, <3>4 DEF LInv
  <2> QED
    BY <1>6, <2>4, <2>5 DEF OnTick, Causes
<1> QED
  BY <1>4, <1>5, <1>6 DEF OnMessage

LEMMA RestLockStep ==
    ASSUME RunInv, LInv, Begin \/ OnError \/ OnExit \/ Abort \/ WallClock \/ GraceOver
    PROVE  LInv'
<1>1. CASE Begin
  <2>1. outcome = Absent /\ settled = Absent /\ place = "none"
    BY <1>1 DEF Begin, RunInv, NotBegun
  <2>2. /\ UNCHANGED <<step, lastPhase, checkpoint, aborted, handle, frees, code, failure, toWorker,
                       toParent, calls>>
        /\ place' \in {"none", "start"}
    BY <1>1, <2>1 DEF Begin
  <2>3. /\ grace' \in {"off", "armed", "fired"} /\ outcome' # Done /\ settled' # Done
    BY <1>1, <2>1, OutcomeIsSome, OutcomesDiffer DEF Begin, Finish, Causes, LInv, Types
  <2>4. Types' /\ Counts' /\ Ticks' /\ Places'
    BY <2>1, <2>2, <2>3 DEF LInv, Types, Counts, Ticks, Places
  <2>5. Accepts' /\ Dones'
    BY <2>1, <2>2, <2>3 DEF LInv, Accepts, Dones, Places
  <2> QED
    BY <2>4, <2>5 DEF LInv
<1>2. CASE OnError
  <2>1. /\ failure' = "seen" /\ UNCHANGED <<workerSide, code, toWorker, toParent, calls, settled>>
        /\ outcome' = IF outcome = Absent THEN Failed("crash") ELSE outcome
        /\ AwaitExit
    BY <1>2 DEF OnError
  <2>2. grace' \in {"off", "armed", "fired"}
    BY <2>1 DEF AwaitExit, LInv, Types
  <2>3. outcome = Absent => outcome' # Done
    BY <2>1, OutcomesDiffer DEF Causes
  <2>4. settled' = Done => outcome' = Done /\ code = 0
    BY <2>1, OutcomeIsSome DEF LInv, Dones
  <2> QED
    BY <2>1, <2>2, <2>3, <2>4, OutcomeLockStep
<1>3. CASE OnExit
  <2>1. /\ UNCHANGED <<workerSide, code, failure, toWorker, toParent, calls>>
        /\ settled = Absent /\ Finish(ExitOutcome)
    BY <1>3 DEF OnExit
  <2>2. outcome' = ExitOutcome /\ settled' = ExitOutcome /\ grace' \in {"off", "armed", "fired"}
    BY <2>1 DEF Finish, LInv, Types
  <2>3. ExitOutcome # Absent /\ (ExitOutcome = Done => outcome = Done /\ code = 0)
    BY OutcomeIsSome, OutcomesDiffer DEF ExitOutcome, Causes
  <2> QED
    BY <2>1, <2>2, <2>3, OutcomeLockStep
<1>4. CASE Abort
  <2>1. CASE CancelWith("abort") /\ UNCHANGED <<workerSide, code, failure, toParent, calls>>
    BY <2>1, CancelLockStep DEF Causes
  <2>2. CASE UNCHANGED <<workerSide, code, failure, toWorker, toParent, calls, outcome, settled, grace>>
    BY <2>2, OutcomeLockStep DEF LInv, Types, Dones
  <2> QED
    BY <1>4, <2>1, <2>2 DEF Abort
<1>5. CASE WallClock
  BY <1>5, CancelLockStep DEF WallClock, Causes
<1>6. CASE GraceOver
  BY <1>6, OutcomeLockStep DEF GraceOver, LInv, Dones
<1> QED
  BY <1>1, <1>2, <1>3, <1>4, <1>5, <1>6

LEMMA StepLockStep == RunInv /\ LInv /\ [RunNext]_runVars => LInv'
<1> SUFFICES ASSUME RunInv, LInv, [RunNext]_runVars PROVE LInv'
  OBVIOUS
<1>1. CASE RunNext
  BY <1>1, WorkerLockStep, MessageLockStep, RestLockStep DEF RunNext, ParentNext
<1>2. CASE UNCHANGED runVars
  <2>1. Types' /\ Counts' /\ Ticks' /\ Accepts' /\ Places'
    BY <1>2 DEF runVars, workerSide, parentVars, LInv, Types, Counts, Ticks, Accepts, Places
  <2>2. Dones'
    BY <1>2 DEF runVars, workerSide, parentVars, LInv, Dones, Whole
  <2> QED
    BY <2>1, <2>2 DEF LInv
<1> QED
  BY <1>1, <1>2

(* The worker is never a chunk further than the checkpoint it waits for,   *)
(* every checkpoint is shown once and in order, the native handle is freed *)
(* at most once, and a promise that resolves carries a whole run           *)
(* (waitForParent, the message handlers of both threads, the exit handler). *)
THEOREM InLockStep == RunSpec => []RunConsistent
<1>1. LInv => RunConsistent
  <2> SUFFICES ASSUME LInv PROVE RunConsistent
    OBVIOUS
  <2> USE DEF LInv
  <2>1. DOMAIN toWorker = 1..Len(toWorker) /\ DOMAIN toParent = 1..Len(toParent)
    BY DEF Types
  <2>2. /\ \A i \in DOMAIN toWorker : toWorker[i].type \in {"accept", "cancel"}
        /\ \A i \in DOMAIN toParent : toParent[i].type \in {"tick", "done", "error", "cancelled"}
    <3>1. /\ \A i \in DOMAIN toWorker : toWorker[i] \in ToWorker
          /\ \A i \in DOMAIN toParent : toParent[i] \in ToParent
      BY <2>1, RangeFacts DEF Types
    <3>2. /\ \A m \in ToWorker : m.type \in {"accept", "cancel"}
          /\ \A m \in ToParent : m.type \in {"tick", "done", "error", "cancelled"}
      BY DEF ToWorker, ToParent
    <3> QED
      BY <3>1, <3>2
  <2>3. step \in 0..TickChunks /\ calls \in 0..TickChunks
    BY SchedulerAssumption DEF Counts
  <2>4. SchedTypeOK
    BY <2>2, <2>3 DEF SchedTypeOK, Types
  <2>5. LockStep
    BY <2>1 DEF LockStep, Counts, Ticks
  <2>6. ResolvedIsWhole
    BY DEF ResolvedIsWhole, Dones, Whole
  <2> QED
    BY <2>4, <2>5, <2>6 DEF RunConsistent
<1> QED
  BY <1>1, InitLockStep, StepLockStep, Invariance, PTL DEF RunSpec
=============================================================================
