---------------------------- MODULE TemporalState ----------------------------
(***************************************************************************)
(* The state of one temporal controller and the commands on it             *)
(* (crates/xyg-engine/src/temporal_controller.rs, coordination.rs): a      *)
(* selected half-open range of a time domain, a cursor in it, playback     *)
(* settings, a selection of stable identities, and the coordination events *)
(* exchanged with linked peers.                                            *)
(*                                                                         *)
(* A controller is a record; a command is an operator that maps it to its  *)
(* next state, itself when the command is refused.  Times are i64:         *)
(* MinInt..MaxInt stands for the width, and every operation that saturates *)
(* in the code saturates here.  A selection, strictly increasing in the    *)
(* code, is the set of its identities.                                     *)
(***************************************************************************)
EXTENDS Integers, FiniteSets

CONSTANTS
    MinInt, MaxInt, \* i64::MIN and i64::MAX
    RateUnit,       \* the rate of 1.0x, 1000 milli-units
    MaxIds,         \* MAX_COORDINATED_SELECTION_IDS
    Sources,        \* the instance identities, none of them zero
    MaxRevision,    \* bound on the revisions reached
    None            \* no event, no result

ASSUME IntAssumption ==
    /\ MinInt \in Int /\ MaxInt \in Int
    /\ MinInt < -1 /\ 1 < MaxInt
    /\ RateUnit \in Nat \ {0}
    /\ MaxIds \in Nat /\ MaxRevision \in Nat \ {0}
    /\ 0 \notin Sources

Lesser(a, b) == IF a < b THEN a ELSE b
Greater(a, b) == IF a < b THEN b ELSE a

\* i64::saturating_add, saturating_sub, saturating_mul
Sat(n) == Greater(MinInt, Lesser(MaxInt, n))

Clamp(x, lo, hi) == Lesser(Greater(x, lo), hi)

\* The window that goes with a range: zero for a single instant.
CanonicalWindow(start, end) ==
    LET span == Sat(end - start) IN IF span = 1 THEN 0 ELSE span

\* Mutant: a range pushed past the end of the domain is cut off there.
WindowAroundCut(cursor, window, domain) ==
    LET start == Greater(Sat(cursor - window \div 2), domain.start)
    IN  [start |-> start, end |-> Lesser(Sat(start + Greater(window, 1)), domain.end)]

\* The range of a window centred on the cursor, moved into the domain.
WindowAround(cursor, window, domain) ==
    IF window = 0
    THEN LET end == Lesser(Sat(cursor + 1), domain.end)
         IN  [start |-> Greater(Sat(end - 1), domain.start), end |-> end]
    ELSE LET centred == Sat(cursor - window \div 2)
             start == Greater(centred, domain.start)
             end == IF centred < domain.start
                    THEN Lesser(Sat(start + window), domain.end)
                    ELSE Sat(start + window)
         IN  IF end > domain.end
             THEN [start |-> Greater(Sat(domain.end - window), domain.start), end |-> domain.end]
             ELSE [start |-> start, end |-> end]

-----------------------------------------------------------------------------
(* Events.                                                                  *)

\* What linked peers share.
View(c) == [range |-> c.range, cursor |-> c.cursor, window |-> c.window, selection |-> c.selection]

Event(c) == [group |-> c.group, source |-> c.instance, revision |-> c.revision, view |-> View(c)]

WellFormed(event) ==
    LET v == event.view
    IN  /\ event.source # 0 /\ event.revision # 0
        /\ v.range.start < v.range.end
        /\ v.window = CanonicalWindow(v.range.start, v.range.end)
        /\ v.range.start <= v.cursor /\ v.cursor < v.range.end
        /\ Cardinality(v.selection) <= MaxIds

\* Mutant: only the event before is known again.
NewerThanLast(c, event) == event.revision # c.seen[event.source]

\* The watermark of CoordinationGate: only a newer revision of a source passes.
Newer(c, event) == event.revision > c.seen[event.source]

Within(range, domain) == domain.start <= range.start /\ range.end <= domain.end

\* What validate_event says of an event: "apply", "skip" (another group, or the
\* stale and self-echo refusals that group delivery passes over) or "invalid".
Verdict(c, event) ==
    IF c.disposed \/ ~WellFormed(event) THEN "invalid"
    ELSE IF c.group = 0 \/ event.group # c.group \/ event.source = c.instance \/ ~Newer(c, event) THEN "skip"
    ELSE IF ~Within(event.view.range, c.domain) THEN "invalid"
    ELSE "apply"

\* Mutant: the selection is left as it was.
ApplyWithoutSelection(c, event) ==
    [c EXCEPT !.seen[event.source] = event.revision,
              !.range = event.view.range,
              !.cursor = event.view.cursor,
              !.window = event.view.window]

\* Neither the revision nor a pending outbound event changes: no echo.
Apply(c, event) ==
    [c EXCEPT !.seen[event.source] = event.revision,
              !.range = event.view.range,
              !.cursor = event.view.cursor,
              !.window = event.view.window,
              !.selection = event.view.selection]

ApplyEvent(c, event) == IF Verdict(c, event) = "apply" THEN Apply(c, event) ELSE c

-----------------------------------------------------------------------------
(* Commands.                                                                *)

Refused(instance, domain, window, step, rate) ==
    instance = 0 \/ domain.start >= domain.end \/ window < 0 \/ step <= 0 \/ rate = 0

\* The controller that create returns when it does not refuse its arguments.
Create(instance, group, domain, cursor, window, step, direction, rate, loop, reduced) ==
    LET at == Clamp(cursor, domain.start, Sat(domain.end - 1))
        range == WindowAround(at, window, domain)
    IN  [instance |-> instance, group |-> group, domain |-> domain,
         range |-> range, cursor |-> at,
         window |-> CanonicalWindow(range.start, range.end),
         step |-> step, direction |-> direction, rate |-> rate, loop |-> loop,
         playing |-> FALSE, reduced |-> reduced, revision |-> 1,
         disposed |-> FALSE, selection |-> {},
         seen |-> [s \in Sources |-> 0], outbound |-> None]

\* Mutant: the event is queued under the old revision.
QueueWithoutBump(c) == [c EXCEPT !.outbound = IF c.group = 0 THEN None ELSE Event(c)]

\* bump_and_queue: one slot, the latest state.
BumpAndQueue(c) ==
    LET next == [c EXCEPT !.revision = @ + 1]
    IN  [next EXCEPT !.outbound = IF c.group = 0 THEN None ELSE Event(next)]

\* A changed controller announces the change; an unchanged one does not.
Announced(c, next) == IF View(next) = View(c) THEN c ELSE BumpAndQueue(next)

\* Mutant: the cursor stays where it was.
SetRangeKeepsCursor(c, start, end) ==
    IF c.disposed \/ start >= end \/ ~Within([start |-> start, end |-> end], c.domain)
    THEN c
    ELSE Announced(c, [c EXCEPT !.range = [start |-> start, end |-> end],
                                !.window = CanonicalWindow(start, end)])

SetRange(c, start, end) ==
    IF c.disposed \/ start >= end \/ ~Within([start |-> start, end |-> end], c.domain)
    THEN c
    ELSE Announced(c, [c EXCEPT !.range = [start |-> start, end |-> end],
                                !.window = CanonicalWindow(start, end),
                                !.cursor = Clamp(@, start, Sat(end - 1))])

SetCursor(c, cursor) ==
    LET at == Clamp(cursor, c.domain.start, Sat(c.domain.end - 1))
        range == WindowAround(at, c.window, c.domain)
    IN  IF c.disposed \/ range.start >= range.end
        THEN c
        ELSE Announced(c, [c EXCEPT !.cursor = at, !.range = range])

\* Mutant: every request is announced, also one that changes nothing.
SetSelectionAlways(c, ids) ==
    IF c.disposed \/ Cardinality(ids) > MaxIds
    THEN c
    ELSE BumpAndQueue([c EXCEPT !.selection = ids])

SetSelection(c, ids) ==
    IF c.disposed \/ Cardinality(ids) > MaxIds
    THEN c
    ELSE Announced(c, [c EXCEPT !.selection = ids])

\* Mutant: playback never stops by itself.
AdvanceForEver(c, delta) ==
    LET next == Sat(c.cursor + delta)
    IN  IF c.loop /\ ~(c.domain.start <= next /\ next < c.domain.end)
        THEN SetCursor(c, IF delta >= 0 THEN c.domain.start ELSE Sat(c.domain.end - 1))
        ELSE SetCursor(c, next)

\* Move the cursor by delta.  At a bound playback wraps, or stops for good.
Advance(c, delta) ==
    LET next == Sat(c.cursor + delta)
        first == c.domain.start
        last == Sat(c.domain.end - 1)
    IN  IF first <= next /\ next < c.domain.end
        THEN SetCursor(c, next)
        ELSE IF c.loop
             THEN SetCursor(c, IF delta >= 0 THEN first ELSE last)
             ELSE SetCursor([c EXCEPT !.playing = FALSE], Clamp(next, first, last))

Step(c) == IF c.disposed THEN c ELSE Advance(c, Sat(c.step * c.direction))

\* How far a tick of elapsed wall-clock time moves the cursor.
Progress(c, elapsed) == Sat((Sat(elapsed * c.rate) \div RateUnit) * c.direction)

Ticks(c, elapsed) == ~c.disposed /\ c.playing /\ ~c.reduced /\ elapsed > 0

Tick(c, elapsed) ==
    IF Ticks(c, elapsed) /\ Progress(c, elapsed) # 0 THEN Advance(c, Progress(c, elapsed)) ELSE c

Play(c) == IF c.disposed THEN c ELSE [c EXCEPT !.playing = ~c.reduced]

Pause(c) == IF c.disposed THEN c ELSE [c EXCEPT !.playing = FALSE]

SetRate(c, rate) == IF c.disposed \/ rate = 0 THEN c ELSE [c EXCEPT !.rate = rate]

SetDirection(c, direction) == IF c.disposed THEN c ELSE [c EXCEPT !.direction = direction]

SetLoop(c, enabled) == IF c.disposed THEN c ELSE [c EXCEPT !.loop = enabled]

SetReducedMotion(c, enabled) ==
    IF c.disposed THEN c ELSE [c EXCEPT !.reduced = enabled, !.playing = @ /\ ~enabled]

TakeOutbound(c) == [c EXCEPT !.outbound = None]

Dispose(c) ==
    IF c.disposed
    THEN c
    ELSE [c EXCEPT !.playing = FALSE, !.disposed = TRUE, !.selection = {},
                   !.outbound = None, !.seen = [s \in Sources |-> 0]]
=============================================================================
