--------------------------- MODULE TileStoreLocks ---------------------------
(***************************************************************************)
(* The locks of the tile-store registry (crates/xyg-engine/src/            *)
(* tile_store.rs).  Any host thread may call reg_insert, reg_with or       *)
(* reg_remove.  A call that runs on a store may have to look at, and evict *)
(* from, every sibling store, whose mutex it takes while it holds its own. *)
(* A step is one lock taken, or the work done under a lock and its         *)
(* release.  Mutexes are not fair.                                         *)
(***************************************************************************)
EXTENDS Naturals, FiniteSets

CONSTANTS
    Threads,    \* the host threads that call into the library
    MaxHandles, \* bound on the handles ever issued
    None        \* no owner

ASSUME ThreadsAssumption == None \notin Threads /\ MaxHandles \in Nat

VARIABLES
    operation,  \* the thread that holds OPERATION_LOCK
    registry,   \* the thread that holds the mutex of REGISTRY
    storeLock,  \* storeLock[h]: the thread that holds the mutex of store h
    lastHandle, \* the registry's handle counter
    registered, \* the handles in the registry's map
    job,        \* job[t]: the call t makes
    pc,         \* pc[t]: where in it t is
    target,     \* target[t]: the handle t called with
    siblings,   \* siblings[t]: the stores of its snapshot t has yet to inspect
    victim      \* victim[t]: the sibling t chose to evict from

lockVars == <<operation, registry, storeLock, lastHandle, registered,
          job, pc, target, siblings, victim>>

Handles == 1..MaxHandles
Jobs == {"insert", "with", "remove"}
Waits == {"takeOperation", "takeRegistry", "takeStore", "takeSnapshot", "inspect",
          "takeLookup", "takeVictim"}
Places == Waits \cup {"idle", "inRegistry", "running", "faulting", "inSnapshot",
                      "inspecting", "choosing", "inLookup", "evicting", "lost"}

LocksInit ==
    /\ operation = None
    /\ registry = None
    /\ storeLock = [h \in Handles |-> None]
    /\ lastHandle = 0
    /\ registered = {}
    /\ job = [t \in Threads |-> "with"]
    /\ pc = [t \in Threads |-> "idle"]
    /\ target = [t \in Threads |-> 0]
    /\ siblings = [t \in Threads |-> {}]
    /\ victim = [t \in Threads |-> 0]

Goto(t, from, to) == pc[t] = from /\ pc' = [pc EXCEPT ![t] = to]

TakeRegistry(t) == registry = None /\ registry' = t
TakeStore(t, h) == storeLock[h] = None /\ storeLock' = [storeLock EXCEPT ![h] = t]
FreeStore(h) == storeLock' = [storeLock EXCEPT ![h] = None]

-----------------------------------------------------------------------------
(* reg_insert, reg_with and reg_remove.                                     *)

Inserting == {t \in Threads : pc[t] # "idle" /\ job[t] = "insert"}

Call(t) ==
    /\ Goto(t, "idle", "takeOperation")
    /\ \E j \in Jobs, h \in Handles :
        /\ j = "insert" => h = 1 /\ lastHandle + Cardinality(Inserting) < MaxHandles
        /\ j # "insert" => h <= lastHandle
        /\ job' = [job EXCEPT ![t] = j]
        /\ target' = [target EXCEPT ![t] = IF j = "insert" THEN 0 ELSE h]
    /\ UNCHANGED <<operation, registry, storeLock, lastHandle, registered, siblings, victim>>

\* Mutant: no operation lock.
LockNothing(t) ==
    /\ Goto(t, "takeOperation", "takeRegistry")
    /\ UNCHANGED <<operation, registry, storeLock, lastHandle, registered, job, target, siblings, victim>>

LockOperation(t) ==
    /\ Goto(t, "takeOperation", "takeRegistry")
    /\ operation = None
    /\ operation' = t
    /\ UNCHANGED <<registry, storeLock, lastHandle, registered, job, target, siblings, victim>>

LockRegistry(t) ==
    /\ Goto(t, "takeRegistry", "inRegistry")
    /\ TakeRegistry(t)
    /\ UNCHANGED <<operation, storeLock, lastHandle, registered, job, target, siblings, victim>>

Insert(t) ==
    /\ job[t] = "insert"
    /\ Goto(t, "inRegistry", "idle")
    /\ lastHandle' = lastHandle + 1
    /\ registered' = registered \cup {lastHandle + 1}
    /\ registry' = None
    /\ operation' = None
    /\ UNCHANGED <<storeLock, job, target, siblings, victim>>

\* The map's entry is the last reference: the store is dropped on the spot.
RemoveHandle(t) ==
    /\ job[t] = "remove"
    /\ Goto(t, "inRegistry", "idle")
    /\ registered' = registered \ {target[t]}
    /\ registry' = None
    /\ operation' = None
    /\ UNCHANGED <<storeLock, lastHandle, job, target, siblings, victim>>

\* reg_with clones the entry and lets the registry go before it locks the store.
Found(t) ==
    /\ job[t] = "with"
    /\ target[t] \in registered
    /\ Goto(t, "inRegistry", "takeStore")
    /\ registry' = None
    /\ UNCHANGED <<operation, storeLock, lastHandle, registered, job, target, siblings, victim>>

\* Mutant: an unknown handle returns with the lock held.
UnknownKeepsLock(t) ==
    /\ job[t] = "with"
    /\ target[t] \notin registered
    /\ Goto(t, "inRegistry", "idle")
    /\ registry' = None
    /\ UNCHANGED <<operation, storeLock, lastHandle, registered, job, target, siblings, victim>>

Unknown(t) ==
    /\ job[t] = "with"
    /\ target[t] \notin registered
    /\ Goto(t, "inRegistry", "idle")
    /\ registry' = None
    /\ operation' = None
    /\ UNCHANGED <<storeLock, lastHandle, registered, job, target, siblings, victim>>

LockStore(t) ==
    /\ Goto(t, "takeStore", "running")
    /\ TakeStore(t, target[t])
    /\ UNCHANGED <<operation, registry, lastHandle, registered, job, target, siblings, victim>>

\* A slab of the store is read or written.
Fault(t) ==
    /\ Goto(t, "running", "faulting") \/ Goto(t, "faulting", "running")
    /\ UNCHANGED <<operation, registry, storeLock, lastHandle, registered, job, target, siblings, victim>>

ReturnCall(t) ==
    /\ Goto(t, "running", "idle")
    /\ FreeStore(target[t])
    /\ operation' = None
    /\ UNCHANGED <<registry, lastHandle, registered, job, target, siblings, victim>>

-----------------------------------------------------------------------------
(* One pass of evict_to_budget: oldest_sibling_candidate, evict_registered.  *)

Overflow(t) ==
    /\ Goto(t, "running", "takeSnapshot")
    /\ UNCHANGED <<operation, registry, storeLock, lastHandle, registered, job, target, siblings, victim>>

LockForSnapshot(t) ==
    /\ Goto(t, "takeSnapshot", "inSnapshot")
    /\ TakeRegistry(t)
    /\ UNCHANGED <<operation, storeLock, lastHandle, registered, job, target, siblings, victim>>

\* registry_entries_excluding: all the other stores, to be gone through by handle.
Snapshot(t) ==
    /\ Goto(t, "inSnapshot", "inspect")
    /\ siblings' = [siblings EXCEPT ![t] = registered \ {target[t]}]
    /\ victim' = [victim EXCEPT ![t] = 0]
    /\ registry' = None
    /\ UNCHANGED <<operation, storeLock, lastHandle, registered, job, target>>

NextSibling(t) == CHOOSE h \in siblings[t] : \A k \in siblings[t] : h <= k

LockSibling(t) ==
    /\ siblings[t] # {}
    /\ Goto(t, "inspect", "inspecting")
    /\ TakeStore(t, NextSibling(t))
    /\ UNCHANGED <<operation, registry, lastHandle, registered, job, target, siblings, victim>>

\* The sibling may hold the oldest tile met so far, or not.
Inspect(t) ==
    /\ Goto(t, "inspecting", "inspect")
    /\ FreeStore(NextSibling(t))
    /\ siblings' = [siblings EXCEPT ![t] = @ \ {NextSibling(t)}]
    /\ \E v \in {victim[t], NextSibling(t)} : victim' = [victim EXCEPT ![t] = v]
    /\ UNCHANGED <<operation, registry, lastHandle, registered, job, target>>

\* The oldest tile of all is the caller's own, a sibling's, or there is none.
Choose(t) ==
    /\ siblings[t] = {}
    /\ Goto(t, "inspect", "running") \/ (victim[t] # 0 /\ Goto(t, "inspect", "takeLookup"))
    /\ UNCHANGED <<operation, registry, storeLock, lastHandle, registered, job, target, siblings, victim>>

LockForLookup(t) ==
    /\ Goto(t, "takeLookup", "inLookup")
    /\ TakeRegistry(t)
    /\ UNCHANGED <<operation, storeLock, lastHandle, registered, job, target, siblings, victim>>

\* A victim that is gone is the error "tile store disappeared".
Lookup(t) ==
    /\ Goto(t, "inLookup", IF victim[t] \in registered THEN "takeVictim" ELSE "lost")
    /\ registry' = None
    /\ UNCHANGED <<operation, storeLock, lastHandle, registered, job, target, siblings, victim>>

LockVictim(t) ==
    /\ Goto(t, "takeVictim", "evicting")
    /\ TakeStore(t, victim[t])
    /\ UNCHANGED <<operation, registry, lastHandle, registered, job, target, siblings, victim>>

EvictFrom(t) ==
    /\ Goto(t, "evicting", "running")
    /\ FreeStore(victim[t])
    /\ UNCHANGED <<operation, registry, lastHandle, registered, job, target, siblings, victim>>

-----------------------------------------------------------------------------

Step(t) ==
    \/ LockOperation(t)
    \/ LockRegistry(t)
    \/ Insert(t)
    \/ RemoveHandle(t)
    \/ Found(t)
    \/ Unknown(t)
    \/ LockStore(t)
    \/ ReturnCall(t)
    \/ LockForSnapshot(t)
    \/ Snapshot(t)
    \/ LockSibling(t)
    \/ Inspect(t)
    \/ Choose(t)
    \/ LockForLookup(t)
    \/ Lookup(t)
    \/ LockVictim(t)
    \/ EvictFrom(t)

LocksNext == \E t \in Threads : Call(t) \/ Fault(t) \/ Overflow(t) \/ Step(t)

LocksSpec == LocksInit /\ [][LocksNext]_lockVars

\* Threads are scheduled, and a call neither faults nor overflows for ever: of
\* the ways on from "running" it is ReturnCall that is always taken in the end.
FairLocksSpec ==
    /\ LocksSpec
    /\ \A t \in Threads : WF_lockVars(Step(t)) /\ WF_lockVars(Fault(t) /\ pc[t] = "faulting")
    /\ \A t \in Threads : SF_lockVars(ReturnCall(t))

-----------------------------------------------------------------------------
(* Properties. *)

LocksTypeOK ==
    /\ operation \in Threads \cup {None}
    /\ registry \in Threads \cup {None}
    /\ storeLock \in [Handles -> Threads \cup {None}]
    /\ lastHandle \in 0..MaxHandles
    /\ registered \subseteq 1..lastHandle
    /\ job \in [Threads -> Jobs]
    /\ pc \in [Threads -> Places]
    /\ target \in [Threads -> 0..MaxHandles]
    /\ siblings \in [Threads -> SUBSET Handles]
    /\ victim \in [Threads -> 0..MaxHandles]

\* The thread whose lock t waits for, None when t waits for nobody.
WaitsFor(t) ==
    CASE pc[t] = "takeOperation" -> operation
      [] pc[t] \in {"takeRegistry", "takeSnapshot", "takeLookup"} -> registry
      [] pc[t] = "takeStore" -> storeLock[target[t]]
      [] pc[t] = "inspect" /\ siblings[t] # {} -> storeLock[NextSibling(t)]
      [] pc[t] = "takeVictim" -> storeLock[victim[t]]
      [] OTHER -> None

\* "No two ABI calls can hold sibling store mutexes while waiting on each
\* other": no set of threads is stuck in waits for one another.
NoDeadlock ==
    \A stuck \in (SUBSET Threads) \ {{}} : \E t \in stuck : WaitsFor(t) \notin stuck

\* A store whose mutex is held is registered: no call works on a store that
\* reg_remove has dropped, so no eviction lands on a deleted file.
NoUseAfterRemove == \A h \in Handles : storeLock[h] # None => h \in registered

\* The sibling chosen for eviction is still there when it is looked up again.
VictimNeverDisappears == \A t \in Threads : pc[t] # "lost"

\* What the operation lock is for: while it is held from the start of a call to
\* its end, sibling mutexes can be taken one under another without a deadlock,
\* and neither a call nor an eviction meets a store that has been removed.
Serialized == LocksTypeOK /\ NoDeadlock /\ NoUseAfterRemove /\ VictimNeverDisappears

\* A call that has the operation lock gives it back.
OperationReturns == \A t \in Threads : operation = t ~> operation # t
=============================================================================
