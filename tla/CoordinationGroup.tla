-------------------------- MODULE CoordinationGroup --------------------------
(***************************************************************************)
(* The registry of temporal controllers and the exchange of their events   *)
(* (crates/xyg-engine/src/temporal_controller.rs): host threads edit       *)
(* controllers, poll their outbound events and hand them on, one peer at a *)
(* time (apply_event) or to the whole group at once (coordinate_deliver).  *)
(* Events polled travel on a wire that loses, repeats and reorders them.   *)
(*                                                                         *)
(* A delivery takes the mutex of every controller in handle order before   *)
(* it looks at any; other calls take one mutex and are one step.           *)
(***************************************************************************)
EXTENDS TemporalState

CONSTANTS
    Couriers,       \* the threads that deliver events to a group
    MaxHandles,     \* bound on the handles ever issued
    Movers,         \* the handles whose hosts move their cursor ...
    Selectors,      \* ... or select; others only follow
    Groups,         \* the exchange groups, 0 for none
    DomainsOf,      \* DomainsOf[h]: the domains the controller of handle h may have
    Cursors,        \* the cursors set
    Choices,        \* the selections set
    MaxWire         \* bound on the events on the wire

ASSUME GroupAssumption ==
    /\ MaxHandles \in Nat /\ MaxWire \in Nat /\ None \notin Couriers
    /\ Groups \subseteq Nat /\ Movers \cup Selectors \subseteq 1..MaxHandles
    /\ \A h \in 1..MaxHandles : \A d \in DomainsOf[h] : {d.start, d.end} \subseteq MinInt..MaxInt

VARIABLES
    lastHandle,     \* the registry's handle counter
    registered,     \* the handles in its map
    controllers,    \* controllers[h]: the controller behind handle h
    wire,           \* the polled events that may still be handed on
    lock,           \* lock[h]: the courier that holds the mutex of h, or None
    pc,             \* pc[d]: "idle" or "locking"
    event,          \* event[d]: the event courier d delivers
    members,        \* members[d]: the controllers in its snapshot
    cause,          \* history: cause[h]: the controller and its revision that
                    \* were the latest change of what h shares
    heard           \* history: heard[h][k]: the latest revision of the controller
                    \* of handle k that h has applied, 0 for none

historyVars == <<cause, heard>>
groupVars == <<lastHandle, registered, controllers, wire, lock, pc, event, members, historyVars>>

Handles == 1..MaxHandles

\* An event on the wire.  The handle it was polled from is history: identities
\* are used again once their owner is disposed.
Posted(h, e) ==
    [group |-> e.group, source |-> e.source, revision |-> e.revision, view |-> e.view, from |-> h]

\* History: h changes what it shares, or applies an event.
Own(h, c) == [handle |-> h, revision |-> c.revision]
Of(e) == [handle |-> e.from, revision |-> e.revision]
Hearing(h, e) == [heard[h] EXCEPT ![e.from] = Greater(@, e.revision)]

GroupInit ==
    /\ lastHandle = 0
    /\ registered = {}
    /\ controllers = [h \in Handles |-> None]
    /\ wire = {}
    /\ lock = [h \in Handles |-> None]
    /\ pc = [d \in Couriers |-> "idle"]
    /\ event = [d \in Couriers |-> None]
    /\ members = [d \in Couriers |-> {}]
    /\ cause = [h \in Handles |-> None]
    /\ heard = [h \in Handles |-> [k \in Handles |-> 0]]

courierVars == <<lock, pc, event, members>>

-----------------------------------------------------------------------------
(* The registry.                                                            *)

InUse(instance, group) ==
    \E h \in registered :
        LET c == controllers[h]
        IN  ~c.disposed /\ c.group = group /\ c.instance = instance

\* create and controller_insert, which looks at every member under its mutex.
Insert ==
    /\ lastHandle < MaxHandles
    /\ \A h \in registered : lock[h] = None
    /\ \E s \in Sources, g \in Groups, d \in DomainsOf[lastHandle + 1] :
        /\ g = 0 \/ ~InUse(s, g)
        /\ LET c == Create(s, g, d, d.start, 0, 1, 1, RateUnit, FALSE, FALSE)
           IN  /\ controllers' = [controllers EXCEPT ![lastHandle + 1] = c]
               /\ cause' = [cause EXCEPT ![lastHandle + 1] = Own(lastHandle + 1, c)]
    /\ lastHandle' = lastHandle + 1
    /\ registered' = registered \cup {lastHandle + 1}
    /\ UNCHANGED <<wire, courierVars, heard>>

\* A call on one controller, under its mutex, that makes it next.
Edit(h, next) ==
    /\ h \in registered
    /\ lock[h] = None
    /\ next.revision <= MaxRevision
    /\ controllers' = [controllers EXCEPT ![h] = next]
    /\ cause' = [cause EXCEPT ![h] = IF next.revision # controllers[h].revision THEN Own(h, next) ELSE @]
    /\ UNCHANGED <<lastHandle, registered, courierVars, heard>>

MoveCursor(h) == h \in Movers /\ \E at \in Cursors : Edit(h, SetCursor(controllers[h], at)) /\ UNCHANGED wire

Select(h) == h \in Selectors /\ \E ids \in Choices : Edit(h, SetSelection(controllers[h], ids)) /\ UNCHANGED wire

Discard(h) == Edit(h, Dispose(controllers[h])) /\ UNCHANGED wire

\* poll_event: the pending event goes on the wire.
PollEvent(h) ==
    /\ h \in registered /\ controllers[h].outbound # None
    /\ Cardinality(wire) < MaxWire
    /\ wire' = wire \cup {Posted(h, controllers[h].outbound)}
    /\ Edit(h, TakeOutbound(controllers[h]))

\* destroy disposes the controller, which Discard does, and then removes it; a
\* courier that has it in its snapshot keeps it alive.
Remove(h) ==
    /\ h \in registered
    /\ controllers[h].disposed
    /\ registered' = registered \ {h}
    /\ UNCHANGED <<lastHandle, controllers, wire, courierVars, historyVars>>

-----------------------------------------------------------------------------
(* Events in transit.                                                       *)

Lose == \E e \in wire :
    /\ wire' = wire \ {e}
    /\ UNCHANGED <<lastHandle, registered, controllers, courierVars, historyVars>>

\* apply_event on one peer; the event may come again.
ReceiveEvent(h) ==
    /\ h \in registered
    /\ lock[h] = None
    /\ \E e \in wire :
        /\ controllers' = [controllers EXCEPT ![h] = ApplyEvent(@, e)]
        /\ IF Verdict(controllers[h], e) = "apply"
           THEN /\ cause' = [cause EXCEPT ![h] = Of(e)]
                /\ heard' = [heard EXCEPT ![h] = Hearing(h, e)]
           ELSE UNCHANGED historyVars
    /\ UNCHANGED <<lastHandle, registered, wire, courierVars>>

\* coordinate_deliver: the members are those registered now.
BeginDelivery(d) ==
    /\ pc[d] = "idle"
    /\ \E e \in wire :
        /\ e.group # 0 /\ WellFormed(e)
        /\ event' = [event EXCEPT ![d] = e]
    /\ members' = [members EXCEPT ![d] = registered]
    /\ pc' = [pc EXCEPT ![d] = "locking"]
    /\ UNCHANGED <<lastHandle, registered, controllers, wire, lock, historyVars>>

Unlocked(d) == {h \in members[d] : lock[h] # d}

\* Mutant: the members are locked in no order.
LockMemberAny(d) ==
    /\ pc[d] = "locking"
    /\ \E h \in Unlocked(d) : lock[h] = None /\ lock' = [lock EXCEPT ![h] = d]
    /\ UNCHANGED <<lastHandle, registered, controllers, wire, pc, event, members, historyVars>>

\* "Lock in stable handle order."
LockMember(d) ==
    /\ pc[d] = "locking"
    /\ \E h \in Unlocked(d) :
        /\ \A k \in Unlocked(d) : h <= k
        /\ lock[h] = None
        /\ lock' = [lock EXCEPT ![h] = d]
    /\ UNCHANGED <<lastHandle, registered, controllers, wire, pc, event, members, historyVars>>

\* The members the event is meant for.
Addressed(d) ==
    {h \in members[d] :
        /\ ~controllers[h].disposed
        /\ controllers[h].group = event[d].group
        /\ controllers[h].instance # event[d].source}

Answers(d, verdict) == {h \in Addressed(d) : Verdict(controllers[h], event[d]) = verdict}

\* Mutant: a member that refuses the event does not stop the others before it.
EligibleBeforeRefusal(d) ==
    {h \in Answers(d, "apply") : \A k \in Answers(d, "invalid") : h < k}

\* "Validate the complete eligible group before applying to any peer."
Eligible(d) == IF Answers(d, "invalid") = {} THEN Answers(d, "apply") ELSE {}

Deliver(d) ==
    /\ pc[d] = "locking"
    /\ Unlocked(d) = {}
    /\ controllers' = [h \in Handles |-> IF h \in Eligible(d) THEN Apply(controllers[h], event[d])
                                                              ELSE controllers[h]]
    /\ cause' = [h \in Handles |-> IF h \in Eligible(d) THEN Of(event[d]) ELSE cause[h]]
    /\ heard' = [h \in Handles |-> IF h \in Eligible(d) THEN Hearing(h, event[d]) ELSE heard[h]]
    /\ lock' = [h \in Handles |-> IF lock[h] = d THEN None ELSE lock[h]]
    /\ pc' = [pc EXCEPT ![d] = "idle"]
    /\ event' = [event EXCEPT ![d] = None]
    /\ members' = [members EXCEPT ![d] = {}]
    /\ UNCHANGED <<lastHandle, registered, wire>>

-----------------------------------------------------------------------------

CourierStep(d) == LockMember(d) \/ Deliver(d)

GroupNext ==
    \/ Insert
    \/ \E h \in Handles : MoveCursor(h) \/ Select(h) \/ Discard(h) \/ PollEvent(h) \/ Remove(h) \/ ReceiveEvent(h)
    \/ Lose
    \/ \E d \in Couriers : BeginDelivery(d) \/ CourierStep(d)

GroupSpec == GroupInit /\ [][GroupNext]_groupVars

-----------------------------------------------------------------------------
(* Properties. *)

GroupTypeOK ==
    /\ lastHandle \in 0..MaxHandles
    /\ registered \subseteq 1..lastHandle
    /\ \A h \in Handles : h > lastHandle => controllers[h] = None
    /\ lock \in [Handles -> Couriers \cup {None}]
    /\ pc \in [Couriers -> {"idle", "locking"}]
    /\ members \in [Couriers -> SUBSET (1..lastHandle)]
    /\ \A h \in 1..lastHandle : controllers[h].seen \in [Sources -> 0..MaxRevision]

LiveHandle(h) == h \in registered /\ ~controllers[h].disposed

\* Live controllers of one exchange group.
Linked(h, k) ==
    /\ LiveHandle(h) /\ LiveHandle(k)
    /\ controllers[h].group # 0 /\ controllers[h].group = controllers[k].group

\* "Every live controller in a nonzero exchange group must have a unique
\* nonzero instance_id."
IdentitiesUnique ==
    \A h, k \in registered : Linked(h, k) /\ controllers[h].instance = controllers[k].instance => h = k

\* Controllers whose latest change is the same announcement show the same: no
\* range without its selection, nobody else's event under the source's name.
ShowTheSame == \A h, k \in registered : Linked(h, k) /\ cause[h] = cause[k] => View(controllers[h]) = View(controllers[k])

\* What a peer shows of a source is the latest it has had of it: an event that
\* comes late, again or out of order takes nothing back.
ShowTheLatest ==
    \A h \in registered :
        LiveHandle(h) /\ cause[h].handle # h => cause[h].revision = heard[h][cause[h].handle]

\* Peers show what their source showed, and never go back to what it showed before.
PeersShowTheSource == ShowTheSame /\ ShowTheLatest

\* h has applied something of an earlier owner of k's identity.
HeardPredecessor(h, k) ==
    \E j \in 1..lastHandle : j # k /\ controllers[j].instance = controllers[k].instance /\ heard[h][j] # 0

\* What a live controller has to announce is news to every live peer of its
\* group, except to those that have heard an earlier owner of its identity
\* ("the identity becomes reusable after the earlier controller is disposed or
\* destroyed"): their watermark is that owner's.
PendingIsNews ==
    \A h, k \in registered :
        Linked(h, k) /\ h # k /\ controllers[k].outbound # None /\ ~HeardPredecessor(h, k)
            => Newer(controllers[h], controllers[k].outbound)

\* "A malformed event or mixed-domain peer fails the delivery without partially
\* updating the group": a member of the group whose domain the event does not
\* fit, and for which it is news, keeps it from all of them.
DeliveryAllOrNothing ==
    [][\A d \in Couriers : pc[d] = "locking" /\ pc'[d] = "idle" =>
         LET news == {h \in Addressed(d) : Newer(controllers[h], event[d])}
         IN  \/ \A h \in news : controllers'[h] = Apply(controllers[h], event[d])
             \/ /\ controllers' = controllers
                /\ \E h \in news : ~Within(event[d].view.range, controllers[h].domain)]_groupVars

\* Deliveries do not wait for each other in a circle: some courier that locks
\* can take its next step.
DeliveriesProgress ==
    LET locking == {d \in Couriers : pc[d] = "locking"}
        next(d) == {h \in Unlocked(d) : \A k \in Unlocked(d) : h <= k}
    IN  locking # {} => \E d \in locking : \A h \in next(d) : lock[h] = None

\* The registry keeps its promises to callers on several threads, and the
\* controllers theirs to their peers.
GroupConsistent == GroupTypeOK /\ IdentitiesUnique /\ DeliveriesProgress /\ PendingIsNews
=============================================================================
