-------------------------- MODULE LayoutController --------------------------
(* The progressive layout controller of a Python host (graph_layout.py).   *)
(* Three kinds of actors: the event loop, on which layout() is called and  *)
(* awaited and on_update runs; the single worker thread, which ticks the   *)
(* native handle and blocks until each checkpoint was delivered; and any   *)
(* thread that calls cancel() or dispose().  A layout() call and its job   *)
(* are named by their revision, which the code demands to be new.          *)
EXTENDS Naturals, Sequences

CONSTANTS
    Revisions,      \* revisions layout() may be called with
    Watched,        \* those of them called with an on_update
    Chunks,         \* most native ticks of a run
    None            \* no cancel event

ASSUME RevisionsAssumption == Revisions \subseteq Nat \ {0} /\ Watched \subseteq Revisions
ASSUME ChunksAssumption == Chunks \in Nat \ {0}
ASSUME NoneAssumption == None \notin Revisions \cup {0}

VARIABLES
    disposed, revision, cancelRef,  \* the fields of the controller
    event,          \* revisions whose cancel event is set
    call,           \* how the layout() of a revision stands
    future,         \* how its job on the executor stands
    work, stopped,  \* the executor's queue; was it shut down?
    pc, job,        \* the worker thread and the job it runs
    ticks, complete,\* native ticks of each job; jobs whose last one was the end of it
    delivery,       \* the checkpoint on its way to the loop
    shown,          \* how many checkpoints on_update was called with
    handles         \* jobs with a live native handle

controllerVars == <<disposed, revision, cancelRef, event>>
workerVars == <<pc, job, ticks, complete, handles>>
vars == <<controllerVars, call, future, work, stopped, workerVars, delivery, shown>>

(* A loop callback runs until it awaits: nothing else of the loop runs      *)
(* between the check in deliver() and the call of on_update.               *)
LoopFree == delivery # "checked"

Set(r) == event \cup ({r} \ {None})

(* layout(), up to its await: the prior job is cancelled, the new one      *)
(* submitted, all under the lifecycle lock.                                *)
Layout(r) ==
    /\ LoopFree /\ ~disposed /\ r > revision
    /\ event' = Set(cancelRef)
    /\ cancelRef' = r /\ revision' = r
    /\ call' = [call EXCEPT ![r] = "awaiting"]
    /\ future' = [future EXCEPT ![r] = "queued"]
    /\ work' = Append(work, r)
    /\ UNCHANGED <<disposed, stopped, workerVars, delivery, shown>>

Cancel ==
    /\ event' = Set(cancelRef) /\ event' # event
    /\ UNCHANGED <<disposed, revision, cancelRef, call, future, work, stopped, workerVars, delivery,
                   shown>>

(* dispose(), under the lock; the executor is shut down after it is let go. *)
Dispose ==
    /\ ~disposed /\ disposed' = TRUE
    /\ event' = Set(cancelRef)
    /\ UNCHANGED <<revision, cancelRef, call, future, work, stopped, workerVars, delivery, shown>>

\* Mutant: the queue is dropped and its futures are left as they are.
ShutdownForgets ==
    /\ disposed /\ ~stopped /\ stopped' = TRUE
    /\ work' = <<>>
    /\ UNCHANGED <<controllerVars, call, future, workerVars, delivery, shown>>

Queued == {work[i] : i \in DOMAIN work}

Shutdown ==
    /\ disposed /\ ~stopped /\ stopped' = TRUE
    /\ work' = <<>>
    /\ future' = [r \in Revisions |-> IF r \in Queued THEN "cancelled" ELSE future[r]]
    /\ UNCHANGED <<controllerVars, call, workerVars, delivery, shown>>
-----------------------------------------------------------------------------
(* The worker.  A job whose future was cancelled while it was queued is    *)
(* skipped; a handle is created before the event is looked at.             *)
Take ==
    /\ pc = "idle" /\ work # <<>> /\ work' = Tail(work)
    /\ IF future[Head(work)] = "cancelled" THEN UNCHANGED <<pc, job, future>>
       ELSE /\ pc' = "start" /\ job' = Head(work)
            /\ future' = [future EXCEPT ![Head(work)] = "running"]
    /\ UNCHANGED <<controllerVars, call, stopped, ticks, complete, handles, delivery, shown>>

Create ==
    /\ pc = "start"
    /\ \/ pc' = "look" /\ handles' = handles \cup {job} /\ UNCHANGED future
       \/ pc' = "idle" /\ future' = [future EXCEPT ![job] = "failed"] /\ UNCHANGED handles
    /\ UNCHANGED <<controllerVars, call, work, stopped, job, ticks, complete, delivery, shown>>

(* The end of _run: the handle is destroyed, then the future resolved.     *)
End(outcome) ==
    /\ pc' = "idle" /\ handles' = handles \ {job}
    /\ future' = [future EXCEPT ![job] = outcome]

(* The head of the loop: cancelled, past the wall limit, or on to a tick.  *)
Look ==
    /\ pc = "look"
    /\ \/ job \in event /\ End("superseded")
       \/ job \notin event /\ End("failed")
       \/ job \notin event /\ pc' = "tick" /\ UNCHANGED <<handles, future>>
    /\ UNCHANGED <<controllerVars, call, work, stopped, job, ticks, complete, delivery, shown>>

(* One native chunk; it may fail, converge, or be the last one.  Without   *)
(* an on_update the run goes on by itself.                                 *)
Tick ==
    /\ pc = "tick"
    /\ \/ End("failed") /\ UNCHANGED <<ticks, complete, delivery>>
       \/ /\ ticks' = [ticks EXCEPT ![job] = @ + 1]
          /\ \E converged \in BOOLEAN :
                complete' = IF converged \/ ticks'[job] = Chunks THEN complete \cup {job} ELSE complete
          /\ IF job \in Watched
             THEN pc' = "waiting" /\ delivery' = "posted" /\ UNCHANGED <<handles, future>>
             ELSE /\ UNCHANGED delivery
                  /\ IF job \in complete' THEN End("done") ELSE pc' = "look" /\ UNCHANGED <<handles, future>>
    /\ UNCHANGED <<controllerVars, call, work, stopped, job, shown>>

(* .result() of the delivery returns or raises in the worker.              *)
Delivered ==
    /\ pc = "waiting" /\ delivery \in {"ok", "raised"} /\ delivery' = "none"
    /\ IF delivery = "raised" THEN End("failed")
       ELSE IF job \in complete THEN End("done")
       ELSE pc' = "look" /\ UNCHANGED <<handles, future>>
    /\ UNCHANGED <<controllerVars, call, work, stopped, job, ticks, complete, shown>>
-----------------------------------------------------------------------------
(* The loop.  deliver(): the check under the lock, the call of on_update,  *)
(* and the end of it, at once or after what it returned was awaited.       *)
Current(r) == ~disposed /\ revision = r /\ r \notin event

\* Mutant: deliver() trusts the check the worker made before its tick.
CheckNothing ==
    /\ delivery = "posted" /\ delivery' = "checked"
    /\ UNCHANGED <<controllerVars, call, future, work, stopped, workerVars, shown>>

Check ==
    /\ delivery = "posted"
    /\ delivery' = IF Current(job) THEN "checked" ELSE "ok"
    /\ UNCHANGED <<controllerVars, call, future, work, stopped, workerVars, shown>>

OnUpdate ==
    /\ delivery = "checked" /\ delivery' = "calling"
    /\ shown' = [shown EXCEPT ![job] = @ + 1]
    /\ UNCHANGED <<controllerVars, call, future, work, stopped, workerVars>>

UpdateEnds ==
    /\ delivery = "calling" /\ delivery' \in {"ok", "raised"}
    /\ UNCHANGED <<controllerVars, call, future, work, stopped, workerVars, shown>>

(* layout() after its await.  A result counts only if nothing happened to  *)
(* its revision since; disposal is told apart from supersession.           *)
\* Mutant: a result is rejected only if the revision moved on.
OutcomeByRevision(r) ==
    CASE future[r] = "failed" -> "failed"
      [] future[r] # "failed" /\ disposed -> "disposed"
      [] future[r] = "cancelled" /\ ~disposed -> "cancelled"
      [] future[r] = "done" /\ ~disposed -> IF revision # r THEN "superseded" ELSE "returned"
      [] OTHER -> "superseded"

Outcome(r) ==
    CASE future[r] = "failed" -> "failed"
      [] future[r] # "failed" /\ disposed -> "disposed"
      [] future[r] = "cancelled" /\ ~disposed -> "cancelled"
      [] future[r] = "done" /\ ~disposed ->
            IF revision # r \/ r \in event THEN "superseded" ELSE "returned"
      [] OTHER -> "superseded"

Resume(r) ==
    /\ LoopFree /\ call[r] = "awaiting"
    /\ future[r] \in {"done", "superseded", "failed", "cancelled"}
    /\ call' = [call EXCEPT ![r] = Outcome(r)]
    /\ event' = IF future[r] = "cancelled" THEN Set(r) ELSE event
    /\ cancelRef' = IF Outcome(r) = "returned" /\ cancelRef = r THEN None ELSE cancelRef
    /\ UNCHANGED <<disposed, revision, future, work, stopped, workerVars, delivery, shown>>

(* The caller cancels the task that awaits layout(): a queued job is never *)
(* run, a running one stops at its event.                                  *)
Abandon(r) ==
    /\ LoopFree /\ call[r] = "awaiting"
    /\ event' = Set(r)
    /\ future' = [future EXCEPT ![r] = IF @ = "queued" THEN "cancelled" ELSE @]
    /\ call' = [call EXCEPT ![r] = IF disposed THEN "disposed" ELSE "cancelled"]
    /\ UNCHANGED <<disposed, revision, cancelRef, work, stopped, workerVars, delivery, shown>>
-----------------------------------------------------------------------------
Init ==
    /\ disposed = FALSE /\ revision = 0 /\ cancelRef = None /\ stopped = FALSE
    /\ event = {} /\ complete = {}
    /\ call = [r \in Revisions |-> "none"] /\ future = [r \in Revisions |-> "none"]
    /\ work = <<>> /\ pc = "idle" /\ job = None
    /\ ticks = [r \in Revisions |-> 0]
    /\ delivery = "none" /\ shown = [r \in Revisions |-> 0] /\ handles = {}

Worker == Take \/ Create \/ Look \/ Tick \/ Delivered
Deliver == Check \/ OnUpdate \/ UpdateEnds

Next ==
    \/ Worker \/ Deliver \/ Cancel \/ Dispose \/ Shutdown
    \/ \E r \in Revisions : Layout(r) \/ Resume(r) \/ Abandon(r)

(* The worker thread and the loop run, an on_update ends, and dispose()    *)
(* once begun goes on.  Nobody need cancel, dispose or supersede.          *)
Spec == Init /\ [][Next]_vars
FairSpec ==
    /\ Spec /\ WF_vars(Worker) /\ WF_vars(Deliver) /\ WF_vars(Shutdown)
    /\ \A r \in Revisions : WF_vars(Resume(r))
-----------------------------------------------------------------------------
(* Type invariant.                                                         *)
LayoutTypeOK ==
    /\ disposed \in BOOLEAN /\ stopped \in BOOLEAN
    /\ revision \in Revisions \cup {0} /\ cancelRef \in {None, revision} \ {0}
    /\ event \subseteq Revisions /\ complete \subseteq Revisions
    /\ call \in [Revisions -> {"none", "awaiting", "returned", "superseded", "disposed", "failed",
                               "cancelled"}]
    /\ future \in [Revisions -> {"none", "queued", "running", "done", "superseded", "failed",
                                 "cancelled"}]
    /\ work \in Seq(Revisions)
    /\ pc \in {"idle", "start", "look", "tick", "waiting"} /\ job \in Revisions \cup {None}
    /\ ticks \in [Revisions -> Nat]
    /\ delivery \in {"none", "posted", "checked", "calling", "ok", "raised"}
    /\ shown \in [Revisions -> Nat] /\ handles \subseteq Revisions

(* The worker's handle is the only one alive, on whatever exit a job took. *)
OneHandle == handles = IF pc \in {"look", "tick", "waiting"} THEN {job} ELSE {}

(* "Cancels superseded jobs": a call still awaited that is not the newest, *)
(* or belongs to a disposed controller, has its event set, so its worker   *)
(* stops at its next chunk.                                                *)
StaleIsCancelled == \A r \in Revisions : call[r] = "awaiting" /\ (r # revision \/ disposed) => r \in event

(* "Rejects stale completion": a layout() that returns ran to its end, and *)
(* its on_update saw every checkpoint of it, the complete one included: a  *)
(* checkpoint that was held back at a cancel never belongs to a result.    *)
ReturnedIsShown ==
    \A r \in Revisions : call[r] = "returned" =>
        r \in complete /\ (r \in Watched => shown[r] = ticks[r])

(* Handles do not leak, no job that nobody wants runs to its end, and one  *)
(* that is answered has been seen.                                         *)
Consistent == LayoutTypeOK /\ OneHandle /\ StaleIsCancelled /\ ReturnedIsShown

(* An on_update starts only for the newest revision and while its layout() *)
(* is still awaited, with each checkpoint once and in order: never after   *)
(* that call has raised or returned, though other threads cancel and       *)
(* dispose at any time.                                                    *)
NoLateUpdate ==
    [][\A r \in Revisions : shown'[r] # shown[r] =>
          r = revision /\ call[r] = "awaiting" /\ shown'[r] <= ticks[r]]_vars

(* Every layout() ends, and a disposed controller ends with no live handle *)
(* and nothing queued, for good.                                           *)
Settles ==
    /\ \A r \in Revisions : call[r] = "awaiting" ~> call[r] # "awaiting"
    /\ disposed ~> [](handles = {} /\ work = <<>> /\ pc = "idle")
=============================================================================
