---------------------------- MODULE GraphSession ----------------------------
(* A retained graph session (graphforge/interaction.rs and its wire form), *)
(* the host that draws its pictures and sends it requests, and the         *)
(* temporal graphs it may be bound to, which others frame, pin on and      *)
(* dispose of while the session runs.  A request names the revision of the *)
(* picture it was made on.  The session keeps its newest reply, since a    *)
(* host may fail to receive it and ask again.  What is done to a graph is  *)
(* reduced to one node that is dragged, pinned, laid out and collapsed.    *)
EXTENDS Naturals

CONSTANTS
    Owners,             \* temporal graphs with the session's identities
    Places,             \* positions of the node
    Cameras,            \* cameras of a render
    Hidden,             \* frames that do not show the node
    MaxRevision,        \* u32::MAX
    MaxFrame,           \* bound: last frame of a temporal graph
    Own,                \* the session owns its state
    None

ASSUME BoundsAssumption == MaxRevision \in Nat /\ MaxFrame \in Nat /\ Hidden \subseteq 1..MaxFrame
VARIABLES
    session,    \* the session: its publication is what Picture says of it
    pinned,     \* whether the node is pinned, per state: the owned one, the owners'
    temporal,   \* frame and life of the temporal graphs
    wire,       \* last_sequence, last_reply
    binding,    \* a bind between its two locks
    host        \* the host: its last number and picture, a request without a
                \* reply, and how often its last request was executed

vars == <<session, pinned, temporal, wire, binding, host>>

Bind(t) == <<"bind", t>>
Unbind == <<"unbind", None>>
Requests == {<<"style", None>>, <<"cancel", None>>, <<"relayout", None>>, <<"disclose", None>>, Unbind}
    \cup {"pin"} \X BOOLEAN \cup {"preview", "commit", "update"} \X Places
    \cup {"render"} \X (Cameras \cup {None}) \cup {Bind(t) : t \in Owners}

Shown == {"revision", "camera", "place", "collapsed", "owner", "seen"}
Picture(s) == [f \in Shown |-> s[f]]

Pictures ==
    [revision : 0..MaxRevision, camera : Cameras \cup {None}, place : Places, collapsed : BOOLEAN,
     owner : Owners \cup {Own}, seen : 0..MaxFrame]

ForceStates == [place : Places, pinned : BOOLEAN, visible : BOOLEAN]
Bindings == [owner : Owners, seen : 0..MaxFrame, number : Nat]

ASSUME NoneAssumption ==
    /\ None \notin Places \cup Cameras \cup Owners /\ Own \notin Owners
    /\ None \notin Requests /\ None \notin Pictures /\ None \notin ForceStates /\ None \notin Bindings
-----------------------------------------------------------------------------
(* What a command sees under the lock of its owner (TemporalHost).         *)
Live == session.owner \in Owners => ~temporal[session.owner].gone
Frame == IF session.owner = Own THEN 0 ELSE temporal[session.owner].frame
Visible == Frame \notin Hidden

(* sync_world and the stamp: an unseen frame advances the revision, so     *)
(* that the request is Stale.                                              *)
Current == Live /\ host.picture.revision = session.revision /\ session.seen = Frame

(* publish: the revision advances for the first picture and for another    *)
(* camera, unless the command has advanced it.                             *)
Publish(next, camera) ==
    LET advance == next.revision = session.revision /\ (session.revision = 0 \/ camera # session.camera)
    IN [next EXCEPT !.camera = camera, !.revision = IF advance THEN @ + 1 ELSE @]

(* retry: the number of the command whose reply is kept.                   *)
Retries(n) == n = wire.sequence

(* The number of a request: a new one, or the one of a request repeated.   *)
Sends(r, n) ==
    /\ binding = None
    /\ ~Retries(n)
    /\ n = host.sequence + 1 \/ (r = host.request /\ n = host.sequence)

Told(n, r, got, picture, runs) ==
    [sequence |-> n, picture |-> IF got THEN picture ELSE host.picture,
     request |-> IF got THEN None ELSE r, runs |-> runs]

(* The command is committed and its reply kept; the host gets it or not    *)
(* (GF_INTERACTION_CAPACITY).                                              *)
Commits(r, n, got) ==
    /\ wire' = [sequence |-> n, reply |-> Picture(session')]
    /\ host' = Told(n, r, got, wire'.reply, IF n = host.sequence THEN host.runs + 1 ELSE 1)
    /\ UNCHANGED temporal

(* finish and commit of a candidate, with what it leaves pinned.  The      *)
(* revision never passes its maximum: reserve_revision refuses first.      *)
Finish(next, camera, pins, r, n, got) ==
    /\ Publish(next, camera).revision <= MaxRevision
    /\ session' = Publish(next, camera)
    /\ pinned' = [pinned EXCEPT ![session.owner] = pins]
    /\ Commits(r, n, got)
    /\ UNCHANGED binding

Operates(next, pins, r, n, got) ==
    Sends(r, n) /\ Current /\ Finish(next, next.camera, pins, r, n, got)

Bumped == [session EXCEPT !.revision = @ + 1]

(* positions_changed: a layout in progress was built on other positions.   *)
PositionsChanged(p) == [Bumped EXCEPT !.place = p, !.retained = None]
-----------------------------------------------------------------------------
(* Selection, focus, highlight, hover and reading: nothing structural.     *)
Style(n, got) == Operates(session, pinned[session.owner], <<"style", None>>, n, got)

(* pin, which changes nothing if the node is already so.                   *)
Pin(on, n, got) ==
    Operates(IF pinned[session.owner] = on THEN session ELSE PositionsChanged(session.place),
             on, <<"pin", on>>, n, got)

(* move_node: a preview remembers where the move began, a commit pins, a   *)
(* cancel goes back.                                                       *)
MovePreview(p, n, got) ==
    LET origin == IF session.origin = None THEN session.place ELSE session.origin
    IN Operates([PositionsChanged(p) EXCEPT !.origin = origin], pinned[session.owner], <<"preview", p>>, n, got)

MoveCommit(p, n, got) ==
    Operates([PositionsChanged(p) EXCEPT !.origin = None], TRUE, <<"commit", p>>, n, got)

MoveCancel(n, got) ==
    /\ session.origin # None
    /\ Operates([PositionsChanged(session.origin) EXCEPT !.origin = None], pinned[session.owner],
                <<"cancel", None>>, n, got)

\* Mutant: a layout in progress goes on whatever was pinned since.
ForceStateUnpinned ==
    IF session.retained # None /\ session.retained.visible = Visible THEN session.retained
    ELSE [place |-> session.place, pinned |-> pinned[session.owner], visible |-> Visible]

(* The force state of relayout_step: the retained one, if it was built for *)
(* the same visible nodes and pins, or one from the current positions.     *)
ForceState ==
    LET built == [place |-> session.place, pinned |-> pinned[session.owner], visible |-> Visible] IN
    IF session.retained # None /\ [session.retained EXCEPT !.place = session.place] = built
    THEN session.retained ELSE built

(* relayout_step: a pinned or hidden node does not move.                   *)
RelayoutStep(n, got) ==
    \E p \in IF ForceState.pinned \/ ~Visible THEN {ForceState.place} ELSE Places :
        Operates([Bumped EXCEPT !.retained = [ForceState EXCEPT !.place = p],
                                !.place = IF Visible THEN p ELSE @],
                 pinned[session.owner], <<"relayout", None>>, n, got)

\* Mutant: a disclosure is taken for a change of style.
ToggleDisclosureQuiet(n, got) ==
    Operates([session EXCEPT !.collapsed = ~@], pinned[session.owner], <<"disclose", None>>, n, got)

ToggleDisclosure(n, got) ==
    Operates([Bumped EXCEPT !.collapsed = ~@], pinned[session.owner], <<"disclose", None>>, n, got)

(* update: a new document, drawn without a camera, with what it collapses. *)
(* Pins may come with it.                                                  *)
Update(p, n, got) ==
    \E pins, collapsed \in BOOLEAN :
        Operates([PositionsChanged(p) EXCEPT !.origin = None, !.collapsed = collapsed, !.camera = None],
                 pins, <<"update", p>>, n, got)

(* Render carries no stamp: it takes the owner's frame as it is.           *)
Render(camera, n, got) ==
    LET synced == IF session.seen = Frame THEN session
                  ELSE [Bumped EXCEPT !.seen = Frame, !.retained = None]
    IN /\ Sends(<<"render", camera>>, n) /\ Live
       /\ Finish(synced, camera, pinned[session.owner], <<"render", camera>>, n, got)

(* Bind to the owner it has: checked and installed under one lock.         *)
Rebind(t, n, got) ==
    /\ t = session.owner
    /\ Operates([Bumped EXCEPT !.retained = None], pinned[t], Bind(t), n, got)

(* Bind to another: its world is taken under its lock ...                  *)
Snapshot(t, n) ==
    /\ Sends(Bind(t), n)
    /\ t # session.owner /\ ~temporal[t].gone /\ session.revision < MaxRevision
    /\ binding' = [owner |-> t, seen |-> temporal[t].frame, number |-> n]
    /\ UNCHANGED <<session, pinned, temporal, wire, host>>

\* Mutant: what was checked before the snapshot is not checked again.
InstallBlind(got) ==
    /\ binding # None
    /\ session' = [Bumped EXCEPT !.owner = binding.owner, !.seen = binding.seen, !.retained = None]
    /\ pinned' = [pinned EXCEPT ![Own] = FALSE]
    /\ Commits(Bind(binding.owner), binding.number, got)
    /\ binding' = None

(* ... and installed under the lock of the old one, if the host's picture  *)
(* is still true of it; the session's own state is dropped.                *)
Install(got) ==
    /\ binding # None /\ Current
    /\ session' = [Bumped EXCEPT !.owner = binding.owner, !.seen = binding.seen, !.retained = None]
    /\ pinned' = [pinned EXCEPT ![Own] = FALSE]
    /\ Commits(Bind(binding.owner), binding.number, got)
    /\ binding' = None

InstallRefused ==
    /\ binding # None /\ ~Current
    /\ binding' = None
    /\ UNCHANGED <<session, pinned, temporal, wire, host>>

\* Mutant: an owner that is gone cannot be left.
LeavesLive == Current

(* A live owner is left as it is seen, one that is gone by the last stamp. *)
Leaves == Current \/ (~Live /\ host.picture.revision = session.revision)

(* Bind to nothing: a fresh state of its own.                              *)
Unbinds(n, got) ==
    /\ Sends(Unbind, n) /\ Leaves /\ session.revision < MaxRevision
    /\ session' = [Bumped EXCEPT !.owner = Own, !.seen = 0, !.retained = None]
    /\ pinned' = [pinned EXCEPT ![Own] = FALSE]
    /\ Commits(Unbind, n, got)
    /\ UNCHANGED binding

(* A request repeated because its reply did not arrive: the reply that was *)
(* kept, unless the owner is gone.                                         *)
Replay(got) ==
    /\ binding = None /\ host.request # None /\ Retries(host.sequence)
    /\ Live \/ host.request = Unbind
    /\ host' = Told(host.sequence, host.request, got, wire.reply, host.runs)
    /\ UNCHANGED <<session, pinned, temporal, wire, binding>>

Command(n, got) ==
    \/ Style(n, got) \/ MoveCancel(n, got) \/ RelayoutStep(n, got) \/ ToggleDisclosure(n, got)
    \/ \E on \in BOOLEAN : Pin(on, n, got)
    \/ \E p \in Places : MovePreview(p, n, got) \/ MoveCommit(p, n, got) \/ Update(p, n, got)
    \/ \E camera \in Cameras \cup {None} : Render(camera, n, got)
    \/ \E t \in Owners : Rebind(t, n, got)
    \/ Unbinds(n, got)
-----------------------------------------------------------------------------
(* The temporal graphs' own calls, made by whoever holds them.             *)
NextFrame(t) ==
    /\ ~temporal[t].gone /\ temporal[t].frame < MaxFrame
    /\ temporal' = [temporal EXCEPT ![t].frame = @ + 1]
    /\ UNCHANGED <<session, pinned, wire, binding, host>>

SetPinned(t) ==
    /\ ~temporal[t].gone
    /\ pinned' = [pinned EXCEPT ![t] = ~@]
    /\ UNCHANGED <<session, temporal, wire, binding, host>>

Destroy(t) ==
    /\ ~temporal[t].gone
    /\ temporal' = [temporal EXCEPT ![t].gone = TRUE]
    /\ UNCHANGED <<session, pinned, wire, binding, host>>
-----------------------------------------------------------------------------
Init ==
    /\ \E p \in Places, pin \in BOOLEAN :
        /\ session = [revision |-> 0, camera |-> None, place |-> p, collapsed |-> FALSE, origin |-> None,
                      retained |-> None, owner |-> Own, seen |-> 0]
        /\ pinned = [o \in Owners \cup {Own} |-> o = Own /\ pin]
    /\ temporal = [t \in Owners |-> [frame |-> 0, gone |-> FALSE]]
    /\ wire = [sequence |-> 1, reply |-> None]
    /\ binding = None
    /\ host = [sequence |-> 1, picture |-> Picture(session), request |-> None, runs |-> 0]

Next ==
    \/ \E n \in {host.sequence, host.sequence + 1}, got \in BOOLEAN : Command(n, got)
    \/ \E n \in {host.sequence, host.sequence + 1}, t \in Owners : Snapshot(t, n)
    \/ \E got \in BOOLEAN : Install(got) \/ Replay(got)
    \/ InstallRefused
    \/ \E t \in Owners : NextFrame(t) \/ SetPinned(t) \/ Destroy(t)

Spec == Init /\ [][Next]_vars

(* A bind that has begun ends.  A host that wants to go on leaves an owner *)
(* that is gone: it asks for that again and again, between whatever else   *)
(* it tries.                                                               *)
FairSpec ==
    /\ Spec
    /\ WF_vars(InstallRefused \/ \E got \in BOOLEAN : Install(got))
    /\ SF_vars(\E n \in {host.sequence, host.sequence + 1} : ~Live /\ Unbinds(n, TRUE))

\* For TLC: numbers only grow and are only compared with each other.  Which
\* request has no reply does not matter while the reply is kept (ExecutedOnce),
\* but for whether it leaves an owner.
View == <<session, pinned, temporal, wire.reply, binding # None, host.sequence - wire.sequence,
          IF binding = None THEN None ELSE [binding EXCEPT !.number = @ - host.sequence],
          host.picture, host.request = None, host.request = Unbind, host.runs>>
-----------------------------------------------------------------------------
TypeOK ==
    /\ Picture(session) \in Pictures
    /\ session.origin \in Places \cup {None} /\ session.retained \in ForceStates \cup {None}
    /\ pinned \in [Owners \cup {Own} -> BOOLEAN]
    /\ temporal \in [Owners -> [frame : 0..MaxFrame, gone : BOOLEAN]]
    /\ wire \in [sequence : Nat, reply : Pictures \cup {None}]
    /\ binding \in Bindings \cup {None}
    /\ host \in [sequence : Nat, picture : Pictures, request : Requests \cup {None}, runs : Nat]

(* A revision names one picture: what the host has drawn, or would be told *)
(* if it asked again, is what the session shows if the revisions agree,    *)
(* and is never of a later one.                                            *)
RevisionsNamePictures ==
    \A picture \in {host.picture, wire.reply} \ {None} :
        /\ picture.revision <= session.revision
        /\ picture.revision = session.revision => picture = Picture(session)

(* A request is executed once however often it is repeated, and while the  *)
(* host waits for its reply the session can still give it.                 *)
ExecutedOnce ==
    /\ host.runs <= 1
    /\ host.request # None => host.runs = 1 /\ Retries(host.sequence) /\ wire.reply # None

(* A layout in progress continues from where the node is.                  *)
LayoutContinues ==
    session.retained # None /\ session.retained.visible => session.retained.place = session.place

(* Property: the types, pictures named by revisions, requests executed     *)
(* once, and layouts that continue from what is shown.                     *)
Consistent == TypeOK /\ RevisionsNamePictures /\ ExecutedOnce /\ LayoutContinues

(* Property: what a user can see is changed by a request only if the host  *)
(* made it on the session's picture as it is, of the frame that the owner  *)
(* shows; only a render may go on from another.                            *)
ActsOnWhatWasSeen ==
    [][wire' # wire
       /\ (pinned'[session.owner] # pinned[session.owner]
            \/ \E f \in {"place", "collapsed", "owner"} : session'[f] # session[f])
       => host.picture = Picture(session) /\ (Live => session.seen = Frame)]_vars

(* Property: no step of a layout moves a node that is pinned, whoever      *)
(* pinned it and however long ago the layout began.                        *)
PinnedStays ==
    [][session'.retained # None /\ pinned[session.owner] => session'.place = session.place]_vars

(* Property: a session whose owner is gone gets a state of its own, if the *)
(* host has its last picture and a revision is left.                       *)
Recovers ==
    ~Live /\ host.picture = Picture(session) /\ session.revision < MaxRevision ~> session.owner = Own
=============================================================================
