---------------------------- MODULE ForceScheduler ----------------------------
(***************************************************************************)
(* One progressive graph layout of the Node host                           *)
(* (packages/xy-node/src/force_scheduler.js): a worker thread runs the     *)
(* native force ticks chunk by chunk and posts a checkpoint after each;    *)
(* the parent hands it to onTick and accepts it; only then does the worker *)
(* go on.  The caller's signal, the wall clock, a throwing onTick, a       *)
(* failing kernel and a dying worker may each end the run.                 *)
(*                                                                         *)
(* Both threads run event handlers to completion, so a handler is a step.  *)
(* Messages of one port keep their order and precede the exit event; the   *)
(* error event comes on a port of its own.  Time is not modelled: a timer  *)
(* that is armed may fire at any moment.                                   *)
(***************************************************************************)
EXTENDS Integers, Sequences, FiniteSets

CONSTANTS
    TickChunks, \* the native chunks totalSteps allows
    Absent      \* no value: undefined, null

Causes == {"abort", "no worker", "thrown", "timeout", "worker", "crash", "exit", "done"}

ASSUME SchedulerAssumption ==
    /\ TickChunks \in Nat \ {0}
    /\ \A b \in BOOLEAN, c \in Causes : Absent # [failed |-> b, cause |-> c]

VARIABLES
    place,      \* the worker: "none", "start", "turn", "await", "closed", "gone"
    step,       \* native chunks run
    lastPhase,  \* the last phase was "complete"
    checkpoint, \* the step whose acceptance is awaited, or Absent
    aborted,    \* the worker's own AbortController
    handle,     \* the native handle: "none", "live", "freed", "lost"
    frees,      \* calls of graphForceDestroy
    code,       \* the exit code, or Absent
    failure,    \* the error event: "none", "raised", "seen"
    toWorker, toParent,
    begun,      \* runForceTicksInWorker was called
    outcome,    \* the parent's outcome, or Absent
    settled,    \* what the promise settled with, or Absent
    timeout, listening, \* the wall timer, the abort listener
    grace,      \* cleanupTimeout: "off", "armed", "fired"
    terminated, \* worker.terminate() was called
    signal,     \* the caller's signal is aborted
    calls       \* calls of onTick

workerSide == <<place, step, lastPhase, checkpoint, aborted, handle, frees>>
parentVars == <<begun, outcome, settled, timeout, listening, grace, terminated, calls>>
runVars == <<workerSide, code, failure, toWorker, toParent, parentVars, signal>>

Message(type) == [type |-> type, step |-> step]
Failed(cause) == [failed |-> TRUE, cause |-> cause]
Done == [failed |-> FALSE, cause |-> "done"]
-----------------------------------------------------------------------------
(* The worker.  Its finally block destroys the handle before it reports,   *)
(* and it closes its port after that.                                      *)
Report(type) ==
    /\ handle' = "freed" /\ frees' = frees + 1
    /\ toParent' = Append(toParent, Message(type))
    /\ place' = "closed"
    /\ checkpoint' = Absent

Fail == Report(IF aborted' THEN "cancelled" ELSE "error")

\* Mutant: the worker posts a checkpoint and does not wait.
RunChunkAhead ==
    /\ step < TickChunks /\ step' = step + 1
    /\ lastPhase' \in {c \in BOOLEAN : step' = TickChunks => c}
    /\ handle' = "live"
    /\ toParent' = Append(toParent, [type |-> "tick", step |-> step'])
    /\ checkpoint' = step'
    /\ place' = "turn"
    /\ UNCHANGED frees

(* One native chunk, and its checkpoint.                                   *)
RunChunk ==
    /\ step' = step + 1
    /\ lastPhase' \in {c \in BOOLEAN : step' = TickChunks => c}
    /\ handle' = "live"
    /\ toParent' = Append(toParent, [type |-> "tick", step |-> step'])
    /\ checkpoint' = step'
    /\ place' = "await"
    /\ UNCHANGED frees

(* Startup runs to the first checkpoint, unless the arguments or the       *)
(* kernel refuse before there is a handle, or the first tick fails.        *)
Start ==
    /\ place = "start"
    /\ \/ RunChunk
       \/ /\ toParent' = Append(toParent, Message("error"))
          /\ place' = "closed"
          /\ UNCHANGED <<step, lastPhase, checkpoint, handle, frees>>
       \/ Report("error") /\ UNCHANGED <<step, lastPhase>>
    /\ UNCHANGED <<aborted, code, failure, toWorker, parentVars, signal>>

(* Past yieldEventLoop: the abort check, the wall-time check, the chunk.   *)
Turn ==
    /\ place = "turn"
    /\ UNCHANGED aborted
    /\ \/ ~aborted /\ RunChunk
       \/ Fail /\ UNCHANGED <<step, lastPhase>>
    /\ UNCHANGED <<code, failure, toWorker, parentVars, signal>>

\* Mutant: the worker waits for the acceptance of the checkpoint before.
AcceptedEarlier(m) == m.type = "accept" /\ m.step + 1 = checkpoint

(* The worker's message handler and what it resumes.                       *)
Accepted(m) == m.type = "accept" /\ m.step = checkpoint

WorkerMessage ==
    /\ place \in {"turn", "await"} /\ toWorker # <<>>
    /\ toWorker' = Tail(toWorker)
    /\ LET m == Head(toWorker) IN
       /\ aborted' = (aborted \/ m.type = "cancel")
       /\ \/ /\ m.type = "cancel" /\ place = "await" /\ Fail
          \/ /\ Accepted(m) /\ lastPhase /\ Report("done")
          \/ /\ Accepted(m) /\ ~lastPhase
             /\ place' = "turn" /\ checkpoint' = Absent
             /\ UNCHANGED <<handle, frees, toParent>>
          \/ /\ ~Accepted(m) /\ (m.type = "cancel" => place = "turn")
             /\ UNCHANGED <<place, checkpoint, handle, frees, toParent>>
    /\ UNCHANGED <<step, lastPhase, code, failure, parentVars, signal>>

(* The thread ends: of itself, by terminate(), or by an uncaught error.    *)
(* The last two run no finally block.                                      *)
Gone(status) ==
    /\ place' = "gone" /\ code' = status
    /\ handle' = IF handle = "live" THEN "lost" ELSE handle
    /\ UNCHANGED <<step, lastPhase, checkpoint, aborted, frees, toWorker, toParent, parentVars, signal>>

Exit == place = "closed" /\ Gone(0) /\ UNCHANGED failure
Kill == terminated /\ place \notin {"none", "gone"} /\ Gone(1) /\ UNCHANGED failure
Crash == place \notin {"none", "gone"} /\ Gone(1) /\ failure' = "raised"
-----------------------------------------------------------------------------
(* The parent.  finish settles the promise and disarms everything.         *)
StopListening == timeout' = FALSE /\ listening' = FALSE

Finish(o) ==
    /\ outcome' = o
    /\ settled' = IF settled = Absent THEN o ELSE settled
    /\ StopListening
    /\ grace' = IF grace = "armed" THEN "off" ELSE grace

AwaitExit == grace' = IF grace = "off" THEN "armed" ELSE grace

\* Mutant: cancelling settles the promise, the worker still winding down.
CancelAtOnce(cause) ==
    /\ Finish(IF outcome = Absent THEN Failed(cause) ELSE outcome)
    /\ toWorker' = Append(toWorker, Message("cancel"))

(* cancel: the first cause is kept; the worker is told, and given time.    *)
CancelWith(cause) ==
    IF outcome # Absent THEN UNCHANGED <<outcome, settled, timeout, listening, grace, toWorker>>
    ELSE /\ outcome' = Failed(cause)
         /\ StopListening /\ AwaitExit
         /\ toWorker' = Append(toWorker, Message("cancel"))
         /\ UNCHANGED settled

(* The call: already aborted, no worker to be had, or a worker.            *)
Begin ==
    /\ ~begun /\ begun' = TRUE
    /\ \/ signal /\ Finish(Failed("abort")) /\ UNCHANGED place
       \/ ~signal /\ Finish(Failed("no worker")) /\ UNCHANGED place
       \/ /\ ~signal /\ place' = "start"
          /\ timeout' = TRUE /\ listening' = TRUE
          /\ UNCHANGED <<outcome, settled, grace>>
    /\ UNCHANGED <<step, lastPhase, checkpoint, aborted, handle, frees, code, failure, toWorker,
                   toParent, terminated, calls, signal>>

(* The message handler.  onTick may return, throw, or abort the signal and *)
(* then return or throw.                                                   *)
OnTick(m) ==
    /\ calls' = calls + 1
    /\ \/ /\ toWorker' = Append(toWorker, [type |-> "accept", step |-> m.step])
          /\ UNCHANGED <<outcome, settled, timeout, listening, grace, signal>>
       \/ CancelWith("thrown") /\ UNCHANGED signal
       \/ ~signal /\ signal' = TRUE /\ CancelWith("abort")

OnMessage ==
    /\ toParent # <<>> /\ toParent' = Tail(toParent)
    /\ LET m == Head(toParent) IN
       \/ /\ outcome # Absent \/ m.type = "cancelled"
          /\ UNCHANGED <<outcome, settled, timeout, listening, grace, toWorker, calls, signal>>
       \/ /\ outcome = Absent /\ m.type \in {"done", "error"}
          /\ outcome' = IF m.type = "done" THEN Done ELSE Failed("worker")
          /\ StopListening /\ AwaitExit
          /\ UNCHANGED <<settled, toWorker, calls, signal>>
       \/ outcome = Absent /\ m.type = "tick" /\ OnTick(m)
    /\ UNCHANGED <<workerSide, code, failure, begun, terminated>>

(* The caller aborts, from outside onTick; the listener may be gone.       *)
Abort ==
    /\ ~signal /\ signal' = TRUE
    /\ IF listening THEN CancelWith("abort")
       ELSE UNCHANGED <<outcome, settled, timeout, listening, grace, toWorker>>
    /\ UNCHANGED <<workerSide, code, failure, toParent, begun, terminated, calls>>

WallClock ==
    /\ timeout /\ CancelWith("timeout")
    /\ UNCHANGED <<workerSide, code, failure, toParent, begun, terminated, calls, signal>>

GraceOver ==
    /\ grace = "armed" /\ grace' = "fired" /\ terminated' = TRUE
    /\ UNCHANGED <<workerSide, code, failure, toWorker, toParent, begun, outcome, settled, timeout,
                   listening, calls, signal>>

OnError ==
    /\ failure = "raised" /\ failure' = "seen"
    /\ outcome' = IF outcome = Absent THEN Failed("crash") ELSE outcome
    /\ StopListening /\ AwaitExit
    /\ UNCHANGED <<workerSide, code, toWorker, toParent, begun, settled, terminated, calls, signal>>

\* Mutant: a bad exit is the cause, whatever came before it.
ExitOutcomeLast == IF outcome = Absent \/ code # 0 THEN Failed("exit") ELSE outcome

(* exit: no outcome, or a result from a worker that then failed, fails.    *)
ExitOutcome ==
    IF outcome = Absent \/ (~outcome.failed /\ code # 0) THEN Failed("exit") ELSE outcome

OnExit ==
    /\ place = "gone" /\ toParent = <<>> /\ failure # "raised" /\ settled = Absent
    /\ Finish(ExitOutcome)
    /\ UNCHANGED <<workerSide, code, failure, toWorker, toParent, begun, terminated, calls, signal>>
-----------------------------------------------------------------------------
RunInit ==
    /\ place = "none" /\ step = 0 /\ lastPhase = FALSE /\ checkpoint = Absent /\ aborted = FALSE
    /\ handle = "none" /\ frees = 0 /\ code = Absent /\ failure = "none"
    /\ toWorker = <<>> /\ toParent = <<>>
    /\ begun = FALSE /\ outcome = Absent /\ settled = Absent
    /\ timeout = FALSE /\ listening = FALSE /\ grace = "off" /\ terminated = FALSE
    /\ signal = FALSE /\ calls = 0

WorkerNext == Start \/ Turn \/ WorkerMessage \/ Exit
ParentNext == OnMessage \/ OnError \/ OnExit

RunNext == Begin \/ WorkerNext \/ ParentNext \/ Kill \/ Crash \/ Abort \/ WallClock \/ GraceOver

(* Native chunks are bounded and both event loops run.  Nobody need abort, *)
(* nothing need crash, and no timer is needed to end a run.                *)
RunSpec == RunInit /\ [][RunNext]_runVars
FairRunSpec == RunSpec /\ WF_runVars(WorkerNext) /\ WF_runVars(ParentNext) /\ WF_runVars(Kill)
-----------------------------------------------------------------------------
(* Type invariant of both threads: the handle is destroyed at most once.   *)
SchedTypeOK ==
    /\ place \in {"none", "start", "turn", "await", "closed", "gone"}
    /\ step \in 0..TickChunks /\ calls \in 0..TickChunks
    /\ lastPhase \in BOOLEAN /\ aborted \in BOOLEAN
    /\ checkpoint \in {Absent, step}
    /\ handle \in {"none", "live", "freed", "lost"}
    /\ frees = IF handle = "freed" THEN 1 ELSE 0
    /\ code \in {Absent, 0, 1} /\ failure \in {"none", "raised", "seen"}
    /\ \A m \in {toWorker[i] : i \in DOMAIN toWorker} : m.type \in {"accept", "cancel"}
    /\ \A m \in {toParent[i] : i \in DOMAIN toParent} : m.type \in {"tick", "done", "error", "cancelled"}
    /\ grace \in {"off", "armed", "fired"}

(* "A worker must not enter the next native chunk until the parent has     *)
(* accepted this checkpoint": it is never two chunks ahead of onTick, and  *)
(* onTick sees every checkpoint once, in order.                            *)
LockStep ==
    /\ step <= calls + 1
    /\ \A i \in DOMAIN toParent : toParent[i].type = "tick" => toParent[i].step = calls + 1

(* When the promise has settled no worker runs, no handle is live, and no  *)
(* timer or listener of this run is left behind.                           *)
SettledMeansGone ==
    settled # Absent =>
        /\ place \in {"none", "gone"} /\ handle # "live"
        /\ ~timeout /\ ~listening /\ grace # "armed"

(* A promise that resolves carries a whole run: every checkpoint was shown, *)
(* the last one was "complete", the handle was freed, the worker exited    *)
(* well.                                                                   *)
ResolvedIsWhole ==
    settled = Done => lastPhase /\ calls = step /\ handle = "freed" /\ code = 0

(* The two threads move in step, to the very end of a run.                 *)
RunConsistent == SchedTypeOK /\ LockStep /\ ResolvedIsWhole

(* The first failure is the one reported, whatever fails after it while    *)
(* the worker winds down; and a settled promise stays as it is.            *)
FirstCauseWins ==
    [][/\ outcome # Absent /\ outcome.failed => outcome' = outcome
       /\ settled' # settled => settled = Absent /\ settled' = outcome']_runVars

(* Every run settles: with its result, or with what ended it.              *)
RunSettles == begun ~> settled # Absent
=============================================================================
