-------------------------- MODULE TemporalController --------------------------
(***************************************************************************)
(* One temporal controller under the commands of its host, the ticks of    *)
(* the host's clock and the events of its peers.  The host takes the       *)
(* outbound event whenever it likes.                                       *)
(***************************************************************************)
EXTENDS TemporalState

CONSTANTS
    Domains,        \* the domains a controller is created with
    Group, Self,    \* its exchange group and identity
    Widths, Steps, Rates, \* the window, step and rate arguments
    Times,          \* the cursor and range arguments
    EventTimes,     \* the range bounds and cursors in the events of peers
    Elapsed,        \* the ticks of the host's clock
    Selections,     \* the selections asked for
    Peers           \* the identities of its peers

ASSUME ControllerAssumption ==
    /\ \A d \in Domains : d.start \in MinInt..MaxInt /\ d.end \in MinInt..MaxInt
    /\ Self \in Sources /\ Peers \subseteq Sources \ {Self}
    /\ Widths \subseteq MinInt..MaxInt
    /\ Times \subseteq MinInt..MaxInt /\ EventTimes \subseteq MinInt..MaxInt
    /\ Steps \subseteq MinInt..MaxInt /\ Rates \subseteq Nat /\ Elapsed \subseteq MinInt..MaxInt
    /\ \A ids \in Selections : IsFiniteSet(ids)

VARIABLES
    controller, \* the controller, None before it is created
    local,      \* history: nothing was applied from a peer since the pending
                \* outbound event was queued
    ticked      \* what the last call returned: "moved" or "still" when it was a
                \* tick that had progress to make

vars == <<controller, local, ticked>>

Ranges == {r \in [start : EventTimes, end : EventTimes] : r.start < r.end}
Views == {v \in [range : Ranges, cursor : EventTimes, window : Widths, selection : Selections] :
            v.range.start <= v.cursor /\ v.cursor < v.range.end}
Events == [group : {0, Group}, source : Peers \cup {Self}, revision : 1..MaxRevision, view : Views]

Init == controller = None /\ local = TRUE /\ ticked = "no"

Creation ==
    /\ controller = None
    /\ \E d \in Domains, at \in Times, w \in Widths, s \in Steps, n \in Rates :
        /\ ~Refused(Self, d, w, s, n)
        /\ controller' = Create(Self, Group, d, at, w, s, 1, n, FALSE, FALSE)
    /\ UNCHANGED <<local, ticked>>

Live == controller # None

Becomes(next) ==
    /\ controller' = next
    /\ next.revision <= MaxRevision
    /\ local' = (local \/ next.revision # controller.revision)

Returns(next) == Becomes(next) /\ ticked' = "no"

SetRangeTo == Live /\ \E a, b \in Times : Returns(SetRange(controller, a, b))
SetCursorTo == Live /\ \E at \in Times : Returns(SetCursor(controller, at))
SetSelectionTo == Live /\ \E ids \in Selections : Returns(SetSelection(controller, ids))
StepOnce == Live /\ Returns(Step(controller))
TickOnce ==
    /\ Live
    /\ \E t \in Elapsed :
        /\ Becomes(Tick(controller, t))
        /\ ticked' = IF ~Ticks(controller, t) \/ Progress(controller, t) = 0 THEN "no"
                     ELSE IF controller'.cursor # controller.cursor THEN "moved" ELSE "still"
PlayOrPause == Live /\ (Returns(Play(controller)) \/ Returns(Pause(controller)))
SetRateTo == Live /\ \E n \in Rates : Returns(SetRate(controller, n))
Reverse == Live /\ \E d \in {-1, 1} : Returns(SetDirection(controller, d))
SetLooping == Live /\ \E on \in BOOLEAN : Returns(SetLoop(controller, on))
SetReduced == Live /\ \E on \in BOOLEAN : Returns(SetReducedMotion(controller, on))
Poll == Live /\ Returns(TakeOutbound(controller))
DisposeIt == Live /\ Returns(Dispose(controller))

\* Any event may come in, well formed or not, late or twice.
Receive ==
    /\ Live
    /\ \E event \in Events :
        /\ controller' = ApplyEvent(controller, event)
        /\ local' = (local /\ Verdict(controller, event) # "apply")
    /\ ticked' = "no"

Next ==
    \/ Creation
    \/ SetRangeTo
    \/ SetCursorTo
    \/ SetSelectionTo
    \/ StepOnce
    \/ TickOnce
    \/ PlayOrPause
    \/ SetRateTo
    \/ Reverse
    \/ SetLooping
    \/ SetReduced
    \/ Poll
    \/ DisposeIt
    \/ Receive

Spec == Init /\ [][Next]_vars

-----------------------------------------------------------------------------
(* Properties. *)

TypeOK ==
    Live =>
        /\ controller.cursor \in MinInt..MaxInt
        /\ controller.range \in [start : MinInt..MaxInt, end : MinInt..MaxInt]
        /\ controller.window \in 0..MaxInt
        /\ controller.revision \in 1..MaxRevision
        /\ {controller.playing, controller.loop, controller.reduced, controller.disposed} \subseteq BOOLEAN
        /\ controller.direction \in {-1, 1}
        /\ controller.seen \in [Sources -> 0..MaxRevision]

\* The selected range is a nonempty part of the domain, the cursor is in it,
\* and the window says how long it is: after every command, event and
\* saturated sum.
Canonical ==
    Live =>
        LET c == controller
        IN  /\ Within(c.range, c.domain)
            /\ c.range.start <= c.cursor /\ c.cursor < c.range.end
            /\ c.window = CanonicalWindow(c.range.start, c.range.end)

\* "Every outbound event is a complete coordination snapshot", and a canonical
\* one: no peer of the same domain can refuse it as malformed.
PeersAcceptOutbound == Live /\ controller.outbound # None => WellFormed(controller.outbound)

\* A revision is a change: what peers share changes by a command exactly when
\* the revision grows, by one, and then the change is pending.
RevisionsAreChanges ==
    [][Live /\ local' /\ ~controller'.disposed =>
         IF View(controller') = View(controller)
         THEN controller'.revision = controller.revision
         ELSE /\ controller'.revision = controller.revision + 1
              /\ controller'.outbound = Event(controller')]_vars

\* "Reduced motion: play is a no-op (playing stays false)"; "Dispose clears
\* playing and selection and drops outbound/pending remote state".
QuietWhenAskedTo ==
    Live =>
        /\ controller.reduced \/ controller.disposed => ~controller.playing
        /\ controller.disposed => controller.selection = {} /\ controller.outbound = None

\* "An already-clamped boundary tick returns false while still stopping
\* playback": a tick that asks for progress and finds none to make stops it.
BoundaryTickStops == Live /\ ticked = "still" /\ ~controller.loop => ~controller.playing

\* Playback stops when it must: at a bound it cannot pass, under reduced motion
\* and once disposed of.
Consistent == TypeOK /\ QuietWhenAskedTo /\ BoundaryTickStops
=============================================================================
