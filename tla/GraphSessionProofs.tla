------------------------- MODULE GraphSessionProofs -------------------------
(* Theorems about GraphSession, for any owners, places, cameras and bounds: *)
(* a revision names one picture, a request runs once, acts on what was     *)
(* seen, and no layout moves a pinned node.                                *)
EXTENDS GraphSession, TLAPS

Sessions ==
    [revision : 0..MaxRevision, camera : Cameras \cup {None}, place : Places, collapsed : BOOLEAN,
     origin : Places \cup {None}, retained : ForceStates \cup {None},
     owner : Owners \cup {Own}, seen : 0..MaxFrame]

(* A bind has a number of its own, and a revision is left for it.          *)
BindingWaits ==
    binding # None => session.revision < MaxRevision /\ binding.number = host.sequence + 1

(* The host's last request that ran is the one whose reply is kept.        *)
InStep == host.sequence = wire.sequence

IInv ==
    /\ session \in Sessions /\ TypeOK
    /\ RevisionsNamePictures /\ ExecutedOnce /\ LayoutContinues /\ BindingWaits /\ InStep
-----------------------------------------------------------------------------
(* What a step does to the session, the reply and the host's knowledge     *)
(* when it commits a command.                                              *)
MovesOn == session' = session \/ session'.revision = session.revision + 1

Continues(s) == s.retained # None /\ s.retained.visible => s.retained.place = s.place

LEMMA PictureTold ==
    ASSUME NEW s \in Sessions
    PROVE  /\ Picture(s) \in Pictures /\ Picture(s) # None
           /\ Picture(s).revision = s.revision
<1>1. s.revision \in 0..MaxRevision /\ s.camera \in Cameras \cup {None} /\ s.place \in Places
      /\ s.collapsed \in BOOLEAN /\ s.owner \in Owners \cup {Own} /\ s.seen \in 0..MaxFrame
  BY DEF Sessions
<1>2. Picture(s) = [revision |-> s.revision, camera |-> s.camera, place |-> s.place,
                    collapsed |-> s.collapsed, owner |-> s.owner, seen |-> s.seen]
  BY DEF Picture, Shown
<1>3. Picture(s) \in Pictures
  BY <1>1, <1>2 DEF Pictures
<1>4. QED
  BY <1>2, <1>3, NoneAssumption

(* A request is always a new one: the reply of one that ran is kept.       *)
LEMMA SendsNew ==
    ASSUME IInv, NEW r, NEW n, Sends(r, n)
    PROVE  n = host.sequence + 1 /\ n \in Nat /\ binding = None
BY DEF IInv, TypeOK, InStep, Sends, Retries

LEMMA Opening == Init => IInv
<1> SUFFICES ASSUME Init PROVE IInv
  OBVIOUS
<1>1. PICK p \in Places, pin \in BOOLEAN :
        /\ session = [revision |-> 0, camera |-> None, place |-> p, collapsed |-> FALSE, origin |-> None,
                      retained |-> None, owner |-> Own, seen |-> 0]
        /\ pinned = [o \in Owners \cup {Own} |-> o = Own /\ pin]
  BY DEF Init
<1>2. session \in Sessions
  BY <1>1, BoundsAssumption DEF Sessions
<1>3. Picture(session) \in Pictures
  BY <1>2, PictureTold
<1>4. pinned \in [Owners \cup {Own} -> BOOLEAN]
  BY <1>1
<1>5. temporal \in [Owners -> [frame : 0..MaxFrame, gone : BOOLEAN]]
  BY BoundsAssumption DEF Init
<1>6. wire = [sequence |-> 1, reply |-> None] /\ binding = None
      /\ host = [sequence |-> 1, picture |-> Picture(session), request |-> None, runs |-> 0]
  BY DEF Init
<1>7. session.origin = None /\ session.retained = None
  BY <1>1
<1>8. TypeOK
  BY <1>3, <1>4, <1>5, <1>6, <1>7 DEF TypeOK
<1>9. RevisionsNamePictures /\ ExecutedOnce /\ LayoutContinues /\ BindingWaits /\ InStep
  <2>1. RevisionsNamePictures
    BY <1>2, <1>6, PictureTold DEF RevisionsNamePictures, Sessions
  <2>2. QED
    BY <1>6, <1>7, <2>1 DEF ExecutedOnce, LayoutContinues, BindingWaits, InStep
<1>10. QED
  BY <1>2, <1>8, <1>9 DEF IInv

LEMMA CommitKeeps ==
    ASSUME IInv, session' \in Sessions, MovesOn, Continues(session'),
           pinned' \in [Owners \cup {Own} -> BOOLEAN], binding' = None,
           NEW r \in Requests, NEW n \in Nat, n = host.sequence + 1,
           NEW got \in BOOLEAN, Commits(r, n, got)
    PROVE  IInv'
<1>1. /\ wire' = [sequence |-> n, reply |-> Picture(session')]
      /\ temporal' = temporal
      /\ host' = [sequence |-> n, picture |-> IF got THEN Picture(session') ELSE host.picture,
                  request |-> IF got THEN None ELSE r, runs |-> 1]
  BY DEF Commits, Told, IInv, TypeOK
<1>2. Picture(session') \in Pictures /\ Picture(session') # None
      /\ Picture(session').revision = session'.revision
  BY PictureTold
<1>3. host.picture \in Pictures /\ host.picture # None /\ host.picture.revision \in Nat
  BY NoneAssumption DEF IInv, TypeOK, Pictures
<1>4. TypeOK'
  <2>1. session'.origin \in Places \cup {None} /\ session'.retained \in ForceStates \cup {None}
    BY DEF Sessions
  <2>2. host' \in [sequence : Nat, picture : Pictures, request : Requests \cup {None}, runs : Nat]
    BY <1>1, <1>2, <1>3
  <2>3. wire' \in [sequence : Nat, reply : Pictures \cup {None}]
    BY <1>1, <1>2
  <2>4. QED
    BY <1>1, <1>2, <2>1, <2>2, <2>3 DEF IInv, TypeOK
<1>5. RevisionsNamePictures'
  <2>1. session.revision \in Nat /\ session'.revision \in Nat
    BY DEF IInv, Sessions
  <2>2. host.picture.revision <= session'.revision
        /\ (host.picture.revision = session'.revision => host.picture = Picture(session'))
    BY <1>3, <2>1 DEF IInv, RevisionsNamePictures, MovesOn
  <2>3. wire'.reply = Picture(session') /\ host'.picture \in {Picture(session'), host.picture}
    BY <1>1
  <2>4. QED
    BY <1>2, <2>1, <2>2, <2>3 DEF RevisionsNamePictures
<1>6. ExecutedOnce'
  BY <1>1, <1>2, NoneAssumption DEF ExecutedOnce, Retries
<1>7. LayoutContinues' /\ BindingWaits' /\ InStep'
  BY <1>1 DEF Continues, LayoutContinues, BindingWaits, InStep
<1>8. QED
  BY <1>4, <1>5, <1>6, <1>7 DEF IInv

(* A candidate that is finished: it is the session, or one revision later. *)
Candidates ==
    {s \in [revision : Nat, camera : Cameras \cup {None}, place : Places, collapsed : BOOLEAN,
             origin : Places \cup {None}, retained : ForceStates \cup {None},
             owner : Owners \cup {Own}, seen : 0..MaxFrame] :
        Continues(s) /\ (s = session \/ s.revision = session.revision + 1)}

LEMMA SessionIsCandidate ==
    ASSUME IInv
    PROVE  session \in Candidates /\ pinned[session.owner] \in BOOLEAN
BY DEF IInv, TypeOK, Candidates, Sessions, LayoutContinues, Continues

LEMMA FinishKeeps ==
    ASSUME IInv, NEW next \in Candidates, NEW camera \in Cameras \cup {None}, NEW pins \in BOOLEAN,
           NEW r \in Requests, NEW n, NEW got \in BOOLEAN,
           Sends(r, n), Finish(next, camera, pins, r, n, got)
    PROVE  IInv'
<1>1. n = host.sequence + 1 /\ n \in Nat /\ binding' = None
  BY SendsNew DEF Finish
<1> DEFINE advance == next.revision = session.revision /\ (session.revision = 0 \/ camera # session.camera)
           to == IF advance THEN next.revision + 1 ELSE next.revision
<1>2. /\ Publish(next, camera) = [next EXCEPT !.camera = camera, !.revision = to]
      /\ to \in {next.revision, next.revision + 1}
      /\ to = next.revision \/ next.revision = session.revision
      /\ to = next.revision /\ next = session => camera = session.camera
  BY DEF Publish, Candidates
<1> HIDE DEF to
<1> DEFINE s == [next EXCEPT !.camera = camera, !.revision = to]
<1>3. session' = s /\ s.revision <= MaxRevision
  BY <1>2 DEF Finish
<1>4. next.revision \in Nat /\ to \in Nat /\ s.revision = to
  BY <1>2 DEF Candidates
<1>5. s \in Sessions
  <2>1. to \in 0..MaxRevision
    BY <1>3, <1>4, BoundsAssumption
  <2>2. QED
    BY <2>1 DEF Candidates, Sessions
<1>6. MovesOn
  <2>1. CASE next.revision = session.revision + 1
    <3>1. to = next.revision
      BY <1>2, <2>1, session.revision \in Nat DEF IInv, Sessions
    <3>2. QED
      BY <1>3, <1>4, <2>1, <3>1 DEF MovesOn
  <2>2. CASE next = session
    <3>1. CASE to = next.revision
      BY <1>2, <1>3, <2>2, <3>1 DEF MovesOn, IInv, Sessions
    <3>2. CASE to = next.revision + 1
      BY <1>3, <1>4, <2>2, <3>2 DEF MovesOn
    <3>3. QED
      BY <1>2, <3>1, <3>2
  <2>3. QED
    BY <2>1, <2>2 DEF Candidates
<1>7. Continues(session')
  BY <1>3 DEF Candidates, Continues
<1>8. pinned' \in [Owners \cup {Own} -> BOOLEAN]
  BY DEF Finish, IInv, TypeOK
<1>9. Commits(r, n, got)
  BY DEF Finish
<1>10. QED
  BY <1>1, <1>3, <1>5, <1>6, <1>7, <1>8, <1>9, CommitKeeps

(* What the two action properties say of a step.                           *)
Seen ==
    wire' # wire
    /\ (pinned'[session.owner] # pinned[session.owner]
         \/ \E f \in {"place", "collapsed", "owner"} : session'[f] # session[f])
    => host.picture = Picture(session) /\ (Live => session.seen = Frame)

Stays == session'.retained # None /\ pinned[session.owner] => session'.place = session.place

Keeps == IInv' /\ Seen /\ Stays

(* A picture with the session's revision is the session's picture.         *)
LEMMA StampShows ==
    ASSUME IInv, host.picture.revision = session.revision
    PROVE  host.picture = Picture(session)
<1>1. host.picture # None
  BY NoneAssumption DEF IInv, TypeOK
<1>2. QED
  BY <1>1 DEF IInv, RevisionsNamePictures

LEMMA OperatesKeeps ==
    ASSUME IInv, NEW next \in Candidates, NEW pins \in BOOLEAN, NEW r \in Requests, NEW n,
           NEW got \in BOOLEAN, Operates(next, pins, r, n, got),
           next.retained # None /\ pinned[session.owner] => next.place = session.place
    PROVE  Keeps
<1>1. next.camera \in Cameras \cup {None}
  BY DEF Candidates
<1>2. IInv'
  BY <1>1, FinishKeeps DEF Operates
<1>3. Seen
  BY StampShows DEF Operates, Current, Seen
<1>4. session'.retained = next.retained /\ session'.place = next.place
  BY DEF Operates, Finish, Publish, Candidates
<1>5. QED
  BY <1>2, <1>3, <1>4 DEF Stays, Keeps

(* The session one revision later, with what a command changes of it.      *)
LEMMA BumpedIs ==
    ASSUME IInv
    PROVE  /\ Bumped \in [revision : Nat, camera : Cameras \cup {None}, place : Places, collapsed : BOOLEAN,
                           origin : Places \cup {None}, retained : ForceStates \cup {None},
                           owner : Owners \cup {Own}, seen : 0..MaxFrame]
           /\ Bumped.revision = session.revision + 1 /\ Bumped.place = session.place
           /\ Bumped.retained = session.retained /\ Bumped.origin = session.origin
           /\ Bumped.collapsed = session.collapsed /\ Bumped.owner = session.owner
           /\ Bumped.seen = session.seen /\ Bumped.camera = session.camera
BY DEF IInv, Sessions, Bumped

LEMMA PositionsCandidate ==
    ASSUME IInv, NEW p \in Places, NEW origin \in Places \cup {None}, NEW collapsed \in BOOLEAN,
           NEW camera \in Cameras \cup {None}
    PROVE  /\ PositionsChanged(p) \in Candidates
           /\ [PositionsChanged(p) EXCEPT !.origin = origin] \in Candidates
           /\ [PositionsChanged(p) EXCEPT !.origin = origin, !.collapsed = collapsed, !.camera = camera]
                 \in Candidates
<1> DEFINE B == Bumped
<1>1. /\ B \in [revision : Nat, camera : Cameras \cup {None}, place : Places, collapsed : BOOLEAN,
                 origin : Places \cup {None}, retained : ForceStates \cup {None},
                 owner : Owners \cup {Own}, seen : 0..MaxFrame]
      /\ B.revision = session.revision + 1
  BY BumpedIs
<1> DEFINE P == PositionsChanged(p)
<1>2. P = [B EXCEPT !.place = p, !.retained = None]
  BY DEF PositionsChanged
<1> HIDE DEF B
<1>3. /\ P \in [revision : Nat, camera : Cameras \cup {None}, place : Places, collapsed : BOOLEAN,
                 origin : Places \cup {None}, retained : ForceStates \cup {None},
                 owner : Owners \cup {Own}, seen : 0..MaxFrame]
      /\ P.revision = session.revision + 1 /\ P.retained = None
  BY <1>1, <1>2
<1> HIDE DEF P
<1>4. QED
  BY <1>3 DEF Candidates, Continues, P

LEMMA StyleKeeps == ASSUME IInv, NEW n, NEW got \in BOOLEAN, Style(n, got) PROVE Keeps
<1>1. <<"style", None>> \in Requests
  BY DEF Requests
<1>2. QED
  BY <1>1, SessionIsCandidate, OperatesKeeps DEF Style

LEMMA PinKeeps == ASSUME IInv, NEW on \in BOOLEAN, NEW n, NEW got \in BOOLEAN, Pin(on, n, got) PROVE Keeps
<1> DEFINE next == IF pinned[session.owner] = on THEN session ELSE PositionsChanged(session.place)
<1>1. session.place \in Places
  BY DEF IInv, Sessions
<1>2. next \in Candidates
  BY <1>1, SessionIsCandidate, PositionsCandidate
<1>3. PositionsChanged(session.place).place = session.place
  BY BumpedIs DEF PositionsChanged
<1>4. next.place = session.place
  BY <1>3
<1>5. <<"pin", on>> \in Requests
  BY DEF Requests
<1> HIDE DEF next
<1>6. Operates(next, on, <<"pin", on>>, n, got)
  BY DEF Pin, next
<1>7. QED
  BY <1>2, <1>4, <1>5, <1>6, OperatesKeeps

LEMMA PreviewKeeps ==
    ASSUME IInv, NEW p \in Places, NEW n, NEW got \in BOOLEAN, MovePreview(p, n, got) PROVE Keeps
<1> DEFINE origin == IF session.origin = None THEN session.place ELSE session.origin
           next == [PositionsChanged(p) EXCEPT !.origin = origin]
<1>1. origin \in Places \cup {None}
  BY DEF IInv, Sessions
<1> HIDE DEF origin
<1>2. next \in Candidates
  BY <1>1, PositionsCandidate, FALSE \in BOOLEAN
<1>3. next.retained = None
  BY BumpedIs DEF PositionsChanged
<1>4. <<"preview", p>> \in Requests
  BY DEF Requests
<1>5. Operates(next, pinned[session.owner], <<"preview", p>>, n, got)
  BY DEF MovePreview, origin
<1> HIDE DEF next
<1>6. QED
  BY <1>2, <1>3, <1>4, <1>5, SessionIsCandidate, OperatesKeeps

LEMMA MoveKeeps ==
    ASSUME IInv, NEW p \in Places, NEW n, NEW got \in BOOLEAN, MoveCommit(p, n, got) PROVE Keeps
<1> DEFINE next == [PositionsChanged(p) EXCEPT !.origin = None]
<1>1. next \in Candidates
  BY PositionsCandidate, FALSE \in BOOLEAN
<1>2. next.retained = None
  BY BumpedIs DEF PositionsChanged
<1>3. <<"commit", p>> \in Requests
  BY DEF Requests
<1>4. Operates(next, TRUE, <<"commit", p>>, n, got)
  BY DEF MoveCommit
<1> HIDE DEF next
<1>5. QED
  BY <1>1, <1>2, <1>3, <1>4, OperatesKeeps

LEMMA CancelKeeps == ASSUME IInv, NEW n, NEW got \in BOOLEAN, MoveCancel(n, got) PROVE Keeps
<1> DEFINE next == [PositionsChanged(session.origin) EXCEPT !.origin = None]
<1>1. session.origin \in Places
  BY DEF MoveCancel, IInv, Sessions
<1>2. next \in Candidates
  BY <1>1, PositionsCandidate, FALSE \in BOOLEAN
<1>3. next.retained = None
  BY BumpedIs DEF PositionsChanged
<1>4. <<"cancel", None>> \in Requests
  BY DEF Requests
<1>5. Operates(next, pinned[session.owner], <<"cancel", None>>, n, got)
  BY DEF MoveCancel
<1> HIDE DEF next
<1>6. QED
  BY <1>2, <1>3, <1>4, <1>5, SessionIsCandidate, OperatesKeeps

LEMMA DisclosureKeeps == ASSUME IInv, NEW n, NEW got \in BOOLEAN, ToggleDisclosure(n, got) PROVE Keeps
<1> DEFINE next == [Bumped EXCEPT !.collapsed = ~@]
<1>1. next.place = session.place
  BY BumpedIs
<1>2. next \in Candidates
  BY BumpedIs DEF Candidates, IInv, LayoutContinues, Continues
<1>3. <<"disclose", None>> \in Requests
  BY DEF Requests
<1>4. Operates(next, pinned[session.owner], <<"disclose", None>>, n, got)
  BY DEF ToggleDisclosure
<1> HIDE DEF next
<1>5. QED
  BY <1>1, <1>2, <1>3, <1>4, SessionIsCandidate, OperatesKeeps

LEMMA UpdateKeeps ==
    ASSUME IInv, NEW p \in Places, NEW n, NEW got \in BOOLEAN, Update(p, n, got) PROVE Keeps
<1>1. PICK pins \in BOOLEAN, collapsed \in BOOLEAN :
        Operates([PositionsChanged(p) EXCEPT !.origin = None, !.collapsed = collapsed, !.camera = None],
                 pins, <<"update", p>>, n, got)
  BY DEF Update
<1> DEFINE next == [PositionsChanged(p) EXCEPT !.origin = None, !.collapsed = collapsed, !.camera = None]
<1>2. next \in Candidates
  BY PositionsCandidate
<1>3. next.retained = None
  BY BumpedIs DEF PositionsChanged
<1>4. <<"update", p>> \in Requests
  BY DEF Requests
<1> HIDE DEF next
<1>5. Operates(next, pins, <<"update", p>>, n, got)
  BY <1>1 DEF next
<1>6. QED
  BY <1>2, <1>3, <1>4, <1>5, OperatesKeeps

(* A layout goes on from where the node is, or is where it is not shown.   *)
LEMMA ForceStateIs ==
    ASSUME IInv
    PROVE  /\ ForceState \in ForceStates
           /\ ForceState.visible = Visible /\ ForceState.pinned = pinned[session.owner]
           /\ Visible => ForceState.place = session.place
<1> DEFINE built == [place |-> session.place, pinned |-> pinned[session.owner], visible |-> Visible]
<1>1. built \in ForceStates
  <2>1. pinned[session.owner] \in BOOLEAN
    BY SessionIsCandidate
  <2>2. session.place \in Places
    BY DEF IInv, Sessions
  <2>3. Visible \in BOOLEAN
    BY DEF Visible
  <2>4. QED
    BY <2>1, <2>2, <2>3 DEF ForceStates
<1>2. CASE session.retained # None /\ [session.retained EXCEPT !.place = session.place] = built
  <2>1. ForceState = session.retained /\ session.retained \in ForceStates
    BY <1>2 DEF ForceState, IInv, TypeOK
  <2>2. [session.retained EXCEPT !.place = session.place].visible = session.retained.visible
        /\ [session.retained EXCEPT !.place = session.place].pinned = session.retained.pinned
    BY <2>1 DEF ForceStates
  <2>3. session.retained.visible = Visible /\ session.retained.pinned = pinned[session.owner]
    BY <1>2, <2>2
  <2>4. QED
    BY <1>2, <2>1, <2>3 DEF IInv, LayoutContinues
<1>3. CASE ~(session.retained # None /\ [session.retained EXCEPT !.place = session.place] = built)
  <2>1. ForceState = built
    BY <1>3 DEF ForceState
  <2>2. QED
    BY <1>1, <2>1
<1>4. QED
  BY <1>2, <1>3

LEMMA RelayoutKeeps == ASSUME IInv, NEW n, NEW got \in BOOLEAN, RelayoutStep(n, got) PROVE Keeps
<1>1. PICK p \in IF ForceState.pinned \/ ~Visible THEN {ForceState.place} ELSE Places :
        Operates([Bumped EXCEPT !.retained = [ForceState EXCEPT !.place = p],
                                !.place = IF Visible THEN p ELSE @],
                 pinned[session.owner], <<"relayout", None>>, n, got)
  BY DEF RelayoutStep
<1> DEFINE kept == [ForceState EXCEPT !.place = p]
           place == IF Visible THEN p ELSE session.place
           next == [Bumped EXCEPT !.retained = kept, !.place = place]
<1>2. p \in Places
  BY ForceStateIs DEF ForceStates
<1>3. kept \in ForceStates /\ kept.place = p /\ kept.visible = Visible
  BY <1>2, ForceStateIs DEF ForceStates
<1>4. pinned[session.owner] => place = session.place
  BY ForceStateIs
<1>5. Operates(next, pinned[session.owner], <<"relayout", None>>, n, got)
  BY <1>1, BumpedIs
<1>6. place \in Places
  BY <1>2 DEF IInv, Sessions
<1>7. kept.visible => kept.place = place
  BY <1>3
<1> HIDE DEF kept, place
<1>8. next.retained = kept /\ next.place = place /\ next.revision = session.revision + 1
  BY BumpedIs
<1>9. next \in Candidates
  <2>1. Continues(next)
    BY <1>7, <1>8 DEF Continues
  <2>2. next \in [revision : Nat, camera : Cameras \cup {None}, place : Places, collapsed : BOOLEAN,
                  origin : Places \cup {None}, retained : ForceStates \cup {None},
                  owner : Owners \cup {Own}, seen : 0..MaxFrame]
    BY <1>3, <1>6, BumpedIs
  <2>3. QED
    BY <1>8, <2>1, <2>2 DEF Candidates
<1>10. <<"relayout", None>> \in Requests
  BY DEF Requests
<1> HIDE DEF next
<1>11. QED
  BY <1>4, <1>5, <1>8, <1>9, <1>10, SessionIsCandidate, OperatesKeeps

LEMMA RebindKeeps == ASSUME IInv, NEW t \in Owners, NEW n, NEW got \in BOOLEAN, Rebind(t, n, got) PROVE Keeps
<1> DEFINE next == [Bumped EXCEPT !.retained = None]
<1>1. next \in Candidates /\ next.retained = None
  BY BumpedIs DEF Candidates, Continues
<1>2. Bind(t) \in Requests
  BY DEF Requests
<1>3. Operates(next, pinned[session.owner], Bind(t), n, got)
  BY DEF Rebind
<1> HIDE DEF next
<1>4. QED
  BY <1>1, <1>2, <1>3, SessionIsCandidate, OperatesKeeps

LEMMA FrameIs == ASSUME IInv PROVE Frame \in 0..MaxFrame
BY BoundsAssumption DEF IInv, TypeOK, Sessions, Frame

LEMMA RenderKeeps ==
    ASSUME IInv, NEW camera \in Cameras \cup {None}, NEW n, NEW got \in BOOLEAN, Render(camera, n, got)
    PROVE  Keeps
<1> DEFINE synced == IF session.seen = Frame THEN session
                     ELSE [Bumped EXCEPT !.seen = Frame, !.retained = None]
<1>1. synced \in Candidates
  BY SessionIsCandidate, BumpedIs, FrameIs DEF Candidates, Continues
<1>2. synced.place = session.place /\ synced.collapsed = session.collapsed /\ synced.owner = session.owner
  BY BumpedIs
<1>3. <<"render", camera>> \in Requests
  BY DEF Requests
<1> HIDE DEF synced
<1>4. Sends(<<"render", camera>>, n) /\ Finish(synced, camera, pinned[session.owner], <<"render", camera>>, n, got)
  BY DEF Render, synced
<1>5. IInv'
  BY <1>1, <1>3, <1>4, SessionIsCandidate, FinishKeeps
<1>6. session'.place = session.place /\ session'.collapsed = session.collapsed
      /\ session'.owner = session.owner
  BY <1>1, <1>2, <1>4 DEF Finish, Publish, Candidates
<1>7. pinned'[session.owner] = pinned[session.owner]
  BY <1>4 DEF Finish, IInv, TypeOK, Sessions
<1>8. Seen
  BY <1>6, <1>7 DEF Seen
<1>9. QED
  BY <1>5, <1>6, <1>8 DEF Stays, Keeps

(* Leaving for another owner, or for none.                                 *)
LEMMA LeavingKeeps ==
    ASSUME IInv, NEW o \in Owners \cup {Own}, NEW seen \in 0..MaxFrame, session.revision < MaxRevision,
           session' = [Bumped EXCEPT !.owner = o, !.seen = seen, !.retained = None],
           pinned' = [pinned EXCEPT ![Own] = FALSE], binding' = None,
           NEW r \in Requests, NEW n \in Nat, n = host.sequence + 1, NEW got \in BOOLEAN,
           Commits(r, n, got)
    PROVE  IInv' /\ Stays
<1>1. session' \in Sessions /\ session'.revision = session.revision + 1 /\ session'.retained = None
  <2>1. session.revision + 1 \in 0..MaxRevision
    BY BoundsAssumption DEF Sessions, IInv
  <2> DEFINE B == Bumped
  <2>2. session' = [B EXCEPT !.owner = o, !.seen = seen, !.retained = None]
    OBVIOUS
  <2>3. B \in [revision : 0..MaxRevision, camera : Cameras \cup {None}, place : Places, collapsed : BOOLEAN,
               origin : Places \cup {None}, retained : ForceStates \cup {None},
               owner : Owners \cup {Own}, seen : 0..MaxFrame] /\ B.revision = session.revision + 1
    BY <2>1, BumpedIs DEF Sessions, Bumped, IInv
  <2> HIDE DEF B
  <2>4. QED
    BY <2>2, <2>3 DEF Sessions
<1>2. MovesOn /\ Continues(session')
  BY <1>1 DEF MovesOn, Continues
<1>3. pinned' \in [Owners \cup {Own} -> BOOLEAN]
  BY DEF IInv, TypeOK
<1>4. QED
  BY <1>1, <1>2, <1>3, CommitKeeps DEF Stays

LEMMA InstallKeeps == ASSUME IInv, NEW got \in BOOLEAN, Install(got) PROVE Keeps
<1>1. binding \in Bindings /\ binding # None
  BY DEF Install, IInv, TypeOK
<1>2. /\ binding.owner \in Owners /\ binding.seen \in 0..MaxFrame /\ binding.number \in Nat
      /\ binding.number = host.sequence + 1 /\ session.revision < MaxRevision
  BY <1>1 DEF IInv, BindingWaits, Bindings
<1>3. Bind(binding.owner) \in Requests
  BY <1>2 DEF Requests
<1>4. IInv' /\ Stays
  BY <1>2, <1>3, LeavingKeeps DEF Install
<1>5. Seen
  BY StampShows DEF Install, Current, Seen
<1>6. QED
  BY <1>4, <1>5 DEF Keeps

LEMMA UnbindsKeeps == ASSUME IInv, NEW n, NEW got \in BOOLEAN, Unbinds(n, got) PROVE Keeps
<1>1. Unbind \in Requests /\ 0 \in 0..MaxFrame
  BY BoundsAssumption DEF Requests
<1>2. n = host.sequence + 1 /\ n \in Nat /\ binding' = None
  BY SendsNew DEF Unbinds
<1>3. IInv' /\ Stays
  BY <1>1, <1>2, LeavingKeeps DEF Unbinds
<1>4. Seen
  BY StampShows DEF Unbinds, Leaves, Current, Seen
<1>5. QED
  BY <1>3, <1>4 DEF Keeps

LEMMA CommandKeeps == ASSUME IInv, NEW n, NEW got \in BOOLEAN, Command(n, got) PROVE Keeps
BY StyleKeeps, CancelKeeps, RelayoutKeeps, DisclosureKeeps, PinKeeps, PreviewKeeps, MoveKeeps,
   UpdateKeeps, RenderKeeps, RebindKeeps, UnbindsKeeps DEF Command

(* Steps that leave the session and the reply that is kept as they are.    *)
LEMMA QuietKeeps ==
    ASSUME IInv, session' = session, wire' = wire, TypeOK', BindingWaits',
           host'.sequence = host.sequence, host'.runs = host.runs,
           host'.picture \in {host.picture, wire.reply}, host'.picture # None,
           host'.request \in {host.request, None}
    PROVE  Keeps
<1>1. IInv'
  BY DEF IInv, RevisionsNamePictures, Picture, ExecutedOnce, Retries, LayoutContinues, InStep
<1>2. QED
  BY <1>1 DEF Seen, Stays, Keeps

LEMMA ReplayKeeps == ASSUME IInv, NEW got \in BOOLEAN, Replay(got) PROVE Keeps
<1>1. /\ host' = [sequence |-> host.sequence, picture |-> IF got THEN wire.reply ELSE host.picture,
                  request |-> IF got THEN None ELSE host.request, runs |-> host.runs]
      /\ UNCHANGED <<session, pinned, temporal, wire, binding>> /\ host.request # None
      /\ binding = None
  BY DEF Replay, Told
<1>2. wire.reply \in Pictures /\ wire.reply # None
  BY <1>1, NoneAssumption DEF IInv, TypeOK, ExecutedOnce
<1>3. host.picture \in Pictures /\ host.picture # None
  BY NoneAssumption DEF IInv, TypeOK
<1>4. host' \in [sequence : Nat, picture : Pictures, request : Requests \cup {None}, runs : Nat]
  BY <1>1, <1>2, <1>3 DEF IInv, TypeOK
<1>5. TypeOK' /\ BindingWaits'
  BY <1>1, <1>4 DEF IInv, TypeOK, BindingWaits, Picture
<1>6. QED
  BY <1>1, <1>2, <1>3, <1>5, QuietKeeps

LEMMA SnapshotKeeps == ASSUME IInv, NEW t \in Owners, NEW n, Snapshot(t, n) PROVE Keeps
<1>1. n = host.sequence + 1 /\ n \in Nat
  BY SendsNew DEF Snapshot
<1>2. /\ binding' = [owner |-> t, seen |-> temporal[t].frame, number |-> n]
      /\ session.revision < MaxRevision /\ UNCHANGED <<session, pinned, temporal, wire, host>>
  BY DEF Snapshot
<1>3. binding' \in Bindings
  BY <1>1, <1>2 DEF IInv, TypeOK, Bindings
<1>4. TypeOK' /\ BindingWaits'
  BY <1>1, <1>2, <1>3 DEF IInv, TypeOK, BindingWaits, Picture
<1>5. host.picture # None
  BY NoneAssumption DEF IInv, TypeOK
<1>6. QED
  BY <1>2, <1>4, <1>5, QuietKeeps

LEMMA OthersKeep ==
    ASSUME IInv, UNCHANGED <<session, wire, host>>, binding' \in {binding, None},
           pinned' \in [Owners \cup {Own} -> BOOLEAN],
           temporal' \in [Owners -> [frame : 0..MaxFrame, gone : BOOLEAN]]
    PROVE  Keeps
<1>1. TypeOK' /\ BindingWaits'
  BY DEF IInv, TypeOK, BindingWaits, Picture
<1>2. host.picture # None
  BY NoneAssumption DEF IInv, TypeOK
<1>3. QED
  BY <1>1, <1>2, QuietKeeps

LEMMA StepKeeps == IInv /\ [Next]_vars => Keeps
<1> SUFFICES ASSUME IInv, [Next]_vars PROVE Keeps
  OBVIOUS
<1>1. CASE \E n \in {host.sequence, host.sequence + 1}, got \in BOOLEAN : Command(n, got)
  BY <1>1, CommandKeeps
<1>2. CASE \E n \in {host.sequence, host.sequence + 1}, t \in Owners : Snapshot(t, n)
  BY <1>2, SnapshotKeeps
<1>3. CASE \E got \in BOOLEAN : Install(got) \/ Replay(got)
  BY <1>3, InstallKeeps, ReplayKeeps
<1>4. CASE InstallRefused
  BY <1>4, OthersKeep DEF InstallRefused, IInv, TypeOK
<1>5. ASSUME NEW t \in Owners, NextFrame(t) \/ SetPinned(t) \/ Destroy(t)
      PROVE  Keeps
  <2>1. CASE NextFrame(t)
    <3>1. temporal[t].frame + 1 \in 0..MaxFrame
      BY <2>1, BoundsAssumption DEF NextFrame, IInv, TypeOK
    <3>2. temporal' \in [Owners -> [frame : 0..MaxFrame, gone : BOOLEAN]]
      BY <2>1, <3>1 DEF NextFrame, IInv, TypeOK
    <3>3. QED
      BY <2>1, <3>2, OthersKeep DEF NextFrame, IInv, TypeOK
  <2>2. CASE SetPinned(t)
    <3>1. pinned' \in [Owners \cup {Own} -> BOOLEAN]
      BY <2>2 DEF SetPinned, IInv, TypeOK
    <3>2. QED
      BY <2>2, <3>1, OthersKeep DEF SetPinned, IInv, TypeOK
  <2>3. CASE Destroy(t)
    <3>1. temporal' \in [Owners -> [frame : 0..MaxFrame, gone : BOOLEAN]]
      BY <2>3 DEF Destroy, IInv, TypeOK
    <3>2. QED
      BY <2>3, <3>1, OthersKeep DEF Destroy, IInv, TypeOK
  <2>4. QED
    BY <1>5, <2>1, <2>2, <2>3
<1>6. CASE UNCHANGED vars
  BY <1>6, OthersKeep DEF vars, IInv, TypeOK
<1>7. QED
  BY <1>1, <1>2, <1>3, <1>4, <1>5, <1>6 DEF Next
-----------------------------------------------------------------------------
(* Theorem: for any owners, places, cameras and bounds, a revision names   *)
(* one picture, a request runs once however often it is repeated, and a    *)
(* layout goes on from where the node is (Consistent).                     *)
THEOREM OneReplyPerRequest == Spec => []Consistent
<1>1. IInv => Consistent
  BY DEF IInv, Consistent
<1>2. IInv /\ [Next]_vars => IInv'
  BY StepKeeps DEF Keeps
<1>3. QED
  BY Opening, <1>1, <1>2, PTL DEF Spec

(* Theorem: a request changes what a user can see only if it was made on   *)
(* the session's picture, of the frame its owner shows (ActsOnWhatWasSeen).*)
THEOREM StaleIsRefused == Spec => ActsOnWhatWasSeen
<1>1. IInv /\ [Next]_vars => IInv'
  BY StepKeeps DEF Keeps
<1>2. IInv /\ [Next]_vars =>
        [wire' # wire
         /\ (pinned'[session.owner] # pinned[session.owner]
              \/ \E f \in {"place", "collapsed", "owner"} : session'[f] # session[f])
         => host.picture = Picture(session) /\ (Live => session.seen = Frame)]_vars
  BY StepKeeps DEF Keeps, Seen
<1>3. QED
  BY Opening, <1>1, <1>2, PTL DEF Spec, ActsOnWhatWasSeen

(* Theorem: no layout moves a pinned node, whoever pinned it (PinnedStays).*)
THEOREM PinsHold == Spec => PinnedStays
<1>1. IInv /\ [Next]_vars => IInv'
  BY StepKeeps DEF Keeps
<1>2. IInv /\ [Next]_vars =>
        [session'.retained # None /\ pinned[session.owner] => session'.place = session.place]_vars
  BY StepKeeps DEF Keeps, Stays
<1>3. QED
  BY Opening, <1>1, <1>2, PTL DEF Spec, PinnedStays
=============================================================================
