--------------------------- MODULE TemporalProofs ---------------------------
(***************************************************************************)
(* What holds of a temporal controller for every integer width, domain and *)
(* argument, and of a group of them for any number of controllers, groups, *)
(* couriers and events on the wire.                                        *)
(*                                                                         *)
(* The one condition of the first part is Inside: no domain reaches the    *)
(* largest integer; in one that does, an event may say a window it does    *)
(* not have.                                                               *)
(***************************************************************************)
EXTENDS TemporalController, CoordinationGroup, FiniteSetTheorems, WellFoundedInduction, TLAPS

Inside == \A d \in Domains : d.end < MaxInt

-----------------------------------------------------------------------------
(* The type of a controller. *)

Ints == MinInt..MaxInt

\* The selections a controller may hold: its own and those of its peers.
Chosen == {ids \in Selections \cup {{}} : Cardinality(ids) <= MaxIds}

SharedViews == [range : [start : Ints, end : Ints], cursor : Ints, window : Ints, selection : Chosen]

\* The parts of a controller's state the proofs look at.
Typed(c) ==
    /\ c \in [instance : {Self}, group : {Group}, domain : Domains,
              range : [start : Ints, end : Ints], cursor : Ints, window : Ints,
              step : Ints, direction : {-1, 1}, rate : Nat, loop : BOOLEAN,
              playing : BOOLEAN, reduced : BOOLEAN, revision : Nat \ {0}, disposed : BOOLEAN,
              selection : Chosen, seen : [Sources -> Nat],
              outbound : [group : {Group}, source : {Self}, revision : Nat \ {0}, view : SharedViews]
                            \cup {None}]
    /\ c.domain.start < c.domain.end

RangeOK(c) ==
    /\ Within(c.range, c.domain)
    /\ c.range.start <= c.cursor /\ c.cursor < c.range.end
    /\ c.window = CanonicalWindow(c.range.start, c.range.end)

OutboundOK(c) == c.outbound # None => WellFormed(c.outbound)

Good(c) == Typed(c) /\ RangeOK(c) /\ OutboundOK(c)

IInv == Live => Good(controller)

-----------------------------------------------------------------------------
(* Arithmetic. *)

LEMMA ClampIn ==
    ASSUME NEW x \in Int, NEW lo \in Int, NEW hi \in Int, lo <= hi
    PROVE  Clamp(x, lo, hi) \in Int /\ lo <= Clamp(x, lo, hi) /\ Clamp(x, lo, hi) <= hi
BY DEF Clamp, Lesser, Greater

LEMMA SatIn ==
    ASSUME NEW n \in Int PROVE Sat(n) \in Ints /\ (n \in Ints => Sat(n) = n)
BY IntAssumption DEF Sat, Lesser, Greater, Ints

LEMMA SpanIn ==
    ASSUME NEW a \in Ints, NEW b \in Ints, a < b
    PROVE  /\ CanonicalWindow(a, b) \in Ints \ {1}
           /\ 0 <= CanonicalWindow(a, b) /\ CanonicalWindow(a, b) <= b - a
BY IntAssumption DEF CanonicalWindow, Sat, Lesser, Greater, Ints

\* A window centred on a cursor of the domain: the range lies in the domain and
\* holds the cursor; and it has the window's length when that fits.
LEMMA WindowAroundIn ==
    ASSUME NEW d, d.start \in Ints, d.end \in Ints, d.start < d.end, d.end < MaxInt,
           NEW at \in Int, d.start <= at, at < d.end,
           NEW w \in Ints, 0 <= w
    PROVE  LET r == WindowAround(at, w, d)
           IN  /\ r \in [start : Ints, end : Ints]
               /\ Within(r, d) /\ r.start <= at /\ at < r.end
               /\ w # 1 /\ w <= d.end - d.start => w = CanonicalWindow(r.start, r.end)
<1>1. CASE w = 0
    <2>1. Sat(at + 1) = at + 1 /\ Sat(at) = at /\ at + 1 <= d.end
        BY SatIn, IntAssumption DEF Ints
    <2>2. Lesser(at + 1, d.end) = at + 1 /\ Greater(at, d.start) = at
        BY <2>1 DEF Lesser, Greater, Ints
    <2>3. Sat((at + 1) - 1) = at
        BY <2>1
    <2>4. WindowAround(at, w, d) = [start |-> at, end |-> at + 1]
        BY <1>1, <2>1, <2>2, <2>3 DEF WindowAround
    <2>5. CanonicalWindow(at, at + 1) = 0
        BY IntAssumption DEF CanonicalWindow, Sat, Lesser, Greater, Ints
    <2>6. at \in Ints /\ at + 1 \in Ints
        BY IntAssumption DEF Ints
    <2>7. [start |-> at, end |-> at + 1] \in [start : Ints, end : Ints]
        BY <2>6
    <2>8. Within([start |-> at, end |-> at + 1], d)
        BY <2>1 DEF Within
    <2> QED BY <1>1, <2>4, <2>5, <2>7, <2>8
<1>2. CASE w # 0
    <2> DEFINE half == w \div 2
    <2>1. half \in Int /\ 0 <= half /\ half < w
        BY <1>2, IntAssumption DEF Ints
    <2> HIDE DEF half
    <2> DEFINE centred == Sat(at - half)
               start == Greater(centred, d.start)
               end == IF centred < d.start THEN Lesser(Sat(start + w), d.end) ELSE Sat(start + w)
    <2>2. WindowAround(at, w, d) =
            IF end > d.end
            THEN [start |-> Greater(Sat(d.end - w), d.start), end |-> d.end]
            ELSE [start |-> start, end |-> end]
        BY <1>2 DEF WindowAround, half
    <2>3. centred \in Ints /\ centred <= at /\ (centred = at - half \/ (centred = MinInt /\ centred > at - half))
        BY <2>1, IntAssumption DEF Sat, Lesser, Greater, Ints
    <2>4. start \in Ints /\ d.start <= start /\ start <= at /\ at < start + w
        BY <2>1, <2>3, IntAssumption DEF Greater, Ints
    <2>5. CASE end > d.end
        <3>1. centred >= d.start /\ start + w > d.end
            BY <2>3, <2>4, <2>5, IntAssumption DEF Sat, Lesser, Greater, Ints
        <3> DEFINE first == Greater(Sat(d.end - w), d.start)
        <3>2. /\ first \in Ints /\ d.start <= first /\ first <= at
              /\ w <= d.end - d.start => first = d.end - w
            BY <2>4, <3>1, IntAssumption DEF Sat, Lesser, Greater, Ints
        <3>3. WindowAround(at, w, d) = [start |-> first, end |-> d.end]
            BY <2>2, <2>5
        <3> HIDE DEF first
        <3> QED BY <3>2, <3>3, IntAssumption DEF Within, CanonicalWindow, Sat, Lesser, Greater, Ints
    <2>6. CASE ~(end > d.end)
        <3>1. end \in Ints /\ at < end /\ end <= d.end /\ (w <= d.end - d.start => end - start = w)
            BY <2>3, <2>4, <2>6, IntAssumption DEF Sat, Lesser, Greater, Ints
        <3>2. WindowAround(at, w, d) = [start |-> start, end |-> end]
            BY <2>2, <2>6
        <3> HIDE DEF start, end
        <3> QED BY <2>4, <3>1, <3>2, IntAssumption DEF Within, CanonicalWindow, Sat, Lesser, Greater, Ints
    <2> QED BY <2>5, <2>6
<1> QED BY <1>1, <1>2

-----------------------------------------------------------------------------
(* Commands keep a controller good. *)

LEMMA DomainFacts ==
    ASSUME NEW c, Typed(c)
    PROVE  /\ c.domain \in Domains
           /\ c.domain.start \in Ints /\ c.domain.end \in Ints
           /\ c.domain.start < c.domain.end
           /\ Sat(c.domain.end - 1) = c.domain.end - 1
BY ControllerAssumption, IntAssumption DEF Typed, Ints, Sat, Lesser, Greater

LEMMA EventGood ==
    ASSUME NEW c, Typed(c), RangeOK(c)
    PROVE  /\ Event(c) \in [group : {Group}, source : {Self}, revision : Nat \ {0}, view : SharedViews]
           /\ WellFormed(Event(c))
<1>1. View(c) \in SharedViews
    BY DEF Typed, View, SharedViews
<1>2. c.group = Group /\ c.instance = Self /\ c.revision \in Nat \ {0} /\ Self # 0
    BY IntAssumption, ControllerAssumption DEF Typed
<1>3. c.range.start \in Int /\ c.range.end \in Int /\ c.cursor \in Int /\ c.selection \in Chosen
    BY DEF Typed, Ints
<1> QED BY <1>1, <1>2, <1>3 DEF Event, View, WellFormed, RangeOK, Chosen

LEMMA BumpAndQueueGood ==
    ASSUME NEW c, Typed(c), RangeOK(c)
    PROVE  Good(BumpAndQueue(c))
<1> DEFINE next == [c EXCEPT !.revision = @ + 1]
<1>1. Typed(next) /\ RangeOK(next)
    BY DEF Typed, RangeOK
<1>2. /\ Event(next) \in [group : {Group}, source : {Self}, revision : Nat \ {0}, view : SharedViews]
      /\ WellFormed(Event(next))
    BY <1>1, EventGood
<1> DEFINE out == IF next.group = 0 THEN None ELSE Event(next)
<1>3. BumpAndQueue(c) = [next EXCEPT !.outbound = out]
    BY DEF BumpAndQueue
<1>4. /\ out \in [group : {Group}, source : {Self}, revision : Nat \ {0}, view : SharedViews] \cup {None}
      /\ out # None => WellFormed(out)
    BY <1>2
<1> HIDE DEF next, out
<1>5. Typed([next EXCEPT !.outbound = out]) /\ RangeOK([next EXCEPT !.outbound = out])
    BY <1>1, <1>4 DEF Typed, RangeOK
<1>6. [next EXCEPT !.outbound = out].outbound = out
    BY <1>1 DEF Typed
<1> QED BY <1>3, <1>4, <1>5, <1>6 DEF Good, OutboundOK

LEMMA AnnouncedGood ==
    ASSUME NEW c, NEW next, Good(c), Typed(next), RangeOK(next)
    PROVE  Good(Announced(c, next))
BY BumpAndQueueGood DEF Announced, Good

LEMMA SetRangeGood ==
    ASSUME NEW c, Good(c), NEW a \in Ints, NEW b \in Ints
    PROVE  Good(SetRange(c, a, b))
<1> DEFINE r == [start |-> a, end |-> b]
           at == Clamp(c.cursor, a, Sat(b - 1))
           next == [c EXCEPT !.range = r, !.window = CanonicalWindow(a, b), !.cursor = at]
<1>1. CASE c.disposed \/ a >= b \/ ~Within(r, c.domain)
    BY <1>1 DEF SetRange
<1>2. CASE ~(c.disposed \/ a >= b \/ ~Within(r, c.domain))
    <2>1. a < b /\ Within(r, c.domain)
        BY <1>2 DEF Ints
    <2>2. Sat(b - 1) = b - 1 /\ a <= b - 1 /\ c.cursor \in Int
        BY <2>1, IntAssumption DEF Sat, Lesser, Greater, Ints, Good, Typed
    <2>3. a \in Int /\ b - 1 \in Int /\ at = Clamp(c.cursor, a, b - 1)
        BY <2>2, IntAssumption DEF Ints
    <2>4. at \in Ints /\ a <= at /\ at < b
        <3>1. at \in Int /\ a <= at /\ at <= b - 1
            BY <2>2, <2>3, ClampIn
        <3> HIDE DEF at
        <3> QED BY <3>1, IntAssumption DEF Ints
    <2>5. CanonicalWindow(a, b) \in Ints
        BY <2>1, SpanIn
    <2>6. r \in [start : Ints, end : Ints]
        OBVIOUS
    <2> HIDE DEF at
    <2>7. Typed(next)
        BY <2>4, <2>5, <2>6 DEF Good, Typed
    <2>8. /\ next.range = r /\ next.cursor = at /\ next.domain = c.domain
          /\ next.window = CanonicalWindow(a, b)
        BY DEF Good, Typed
    <2>9. RangeOK(next)
        BY <2>1, <2>4, <2>8 DEF RangeOK
    <2> HIDE DEF next
    <2>10. Good(Announced(c, next))
        BY <2>7, <2>9, AnnouncedGood
    <2> QED BY <1>2, <2>10 DEF SetRange, next, at
<1> QED BY <1>1, <1>2

LEMMA SetCursorGood ==
    ASSUME Inside, NEW c, Good(c), NEW x \in Int
    PROVE  Good(SetCursor(c, x))
<1> DEFINE at == Clamp(x, c.domain.start, Sat(c.domain.end - 1))
           r == WindowAround(at, c.window, c.domain)
           next == [c EXCEPT !.cursor = at, !.range = r]
<1>1. /\ c.domain \in Domains /\ c.domain.start \in Ints /\ c.domain.end \in Ints
      /\ c.domain.start < c.domain.end /\ c.domain.end < MaxInt
      /\ Sat(c.domain.end - 1) = c.domain.end - 1
    BY DomainFacts DEF Good, Inside
<1>2. /\ c.domain.start \in Int /\ c.domain.end - 1 \in Int /\ c.domain.start <= c.domain.end - 1
      /\ at = Clamp(x, c.domain.start, c.domain.end - 1)
    BY <1>1, IntAssumption DEF Ints
<1>3. at \in Ints /\ c.domain.start <= at /\ at < c.domain.end
    <2>1. at \in Int /\ c.domain.start <= at /\ at <= c.domain.end - 1
        BY <1>2, ClampIn
    <2> HIDE DEF at
    <2> QED BY <1>1, <2>1, IntAssumption DEF Ints
<1>4. /\ c.window \in Ints \ {1} /\ 0 <= c.window
      /\ c.window <= c.domain.end - c.domain.start
    <2>1. /\ c.range.start \in Ints /\ c.range.end \in Ints /\ c.range.start < c.range.end
          /\ c.domain.start <= c.range.start /\ c.range.end <= c.domain.end
          /\ c.window = CanonicalWindow(c.range.start, c.range.end)
        BY DEF Good, Typed, RangeOK, Within, Ints
    <2>2. /\ c.window \in Ints \ {1} /\ 0 <= c.window
          /\ c.window <= c.range.end - c.range.start
        BY <2>1, SpanIn
    <2> QED BY <1>1, <2>1, <2>2 DEF Ints
<1>5. /\ r \in [start : Ints, end : Ints]
      /\ Within(r, c.domain) /\ r.start <= at /\ at < r.end
      /\ c.window = CanonicalWindow(r.start, r.end)
    <2> HIDE DEF at
    <2> QED BY <1>1, <1>3, <1>4, WindowAroundIn DEF Ints
<1> HIDE DEF at, r
<1>6. Typed(next)
    BY <1>3, <1>5 DEF Good, Typed
<1>7. next.range = r /\ next.cursor = at /\ next.domain = c.domain /\ next.window = c.window
    BY DEF Good, Typed
<1>8. RangeOK(next)
    BY <1>5, <1>7 DEF RangeOK
<1> HIDE DEF next
<1>9. Good(Announced(c, next))
    BY <1>6, <1>8, AnnouncedGood
<1> QED BY <1>9 DEF SetCursor, next, at, r

LEMMA SetSelectionGood ==
    ASSUME NEW c, Good(c), NEW ids \in Selections
    PROVE  Good(SetSelection(c, ids))
<1> DEFINE next == [c EXCEPT !.selection = ids]
<1>1. CASE c.disposed \/ Cardinality(ids) > MaxIds
    BY <1>1 DEF SetSelection
<1>2. CASE ~(c.disposed \/ Cardinality(ids) > MaxIds)
    <2>1. ids \in Chosen
        <3>1. Cardinality(ids) \in Nat
            BY ControllerAssumption, FS_CardinalityType
        <3> QED BY <1>2, <3>1, IntAssumption DEF Chosen
    <2>2. Typed(next) /\ RangeOK(next)
        BY <2>1 DEF Good, Typed, RangeOK
    <2> HIDE DEF next
    <2>3. Good(Announced(c, next))
        BY <2>2, AnnouncedGood
    <2> QED BY <1>2, <2>3 DEF SetSelection, next
<1> QED BY <1>1, <1>2

\* A change that leaves alone what peers share leaves a controller good.
LEMMA UnsharedGood ==
    ASSUME NEW c, Good(c), NEW d, Typed(d),
           d.domain = c.domain, d.range = c.range, d.cursor = c.cursor, d.window = c.window,
           d.outbound \in {c.outbound, None}
    PROVE  Good(d)
BY DEF Good, RangeOK, OutboundOK

LEMMA AdvanceGood ==
    ASSUME Inside, NEW c, Good(c), NEW delta \in Int
    PROVE  Good(Advance(c, delta))
<1> DEFINE next == Sat(c.cursor + delta)
           first == c.domain.start
           last == Sat(c.domain.end - 1)
           stopped == [c EXCEPT !.playing = FALSE]
<1>1. next \in Int /\ first \in Int /\ last \in Int /\ first <= last
    <2>1. c.cursor + delta \in Int
        BY DEF Good, Typed, Ints
    <2> QED BY <2>1, SatIn, DomainFacts, IntAssumption DEF Good, Ints
<1>2. Clamp(next, first, last) \in Int
    BY <1>1, ClampIn
<1>3. Typed(stopped)
    BY DEF Good, Typed
<1>4. Good(stopped)
    <2>1. /\ stopped.domain = c.domain /\ stopped.range = c.range /\ stopped.cursor = c.cursor
          /\ stopped.window = c.window /\ stopped.outbound = c.outbound
        BY DEF Good, Typed
    <2> HIDE DEF stopped
    <2> QED BY <1>3, <2>1, UnsharedGood
<1> HIDE DEF next, first, last, stopped
<1>5. /\ Good(SetCursor(c, next)) /\ Good(SetCursor(c, first)) /\ Good(SetCursor(c, last))
      /\ Good(SetCursor(stopped, Clamp(next, first, last)))
    BY <1>1, <1>2, <1>4, SetCursorGood
<1> QED BY <1>5 DEF Advance, next, first, last, stopped

LEMMA StepGood ==
    ASSUME Inside, NEW c, Good(c) PROVE Good(Step(c))
<1>1. c.step * c.direction \in Int
    BY DEF Good, Typed, Ints
<1>2. Sat(c.step * c.direction) \in Int
    BY <1>1, SatIn, IntAssumption DEF Ints
<1> QED BY <1>2, AdvanceGood DEF Step

LEMMA TickGood ==
    ASSUME Inside, NEW c, Good(c), NEW elapsed \in Ints PROVE Good(Tick(c, elapsed))
<1>1. elapsed * c.rate \in Int /\ c.direction \in Int
    BY IntAssumption DEF Good, Typed, Ints
<1>2. Sat(elapsed * c.rate) \in Int
    BY <1>1, SatIn, IntAssumption DEF Ints
<1>3. (Sat(elapsed * c.rate) \div RateUnit) * c.direction \in Int
    BY <1>1, <1>2, IntAssumption
<1>4. Progress(c, elapsed) \in Int
    BY <1>3, SatIn, IntAssumption DEF Ints, Progress
<1> QED BY <1>4, AdvanceGood DEF Tick

\* The commands that change only what peers do not share.
LEMMA SettingsGood ==
    ASSUME NEW c, Good(c)
    PROVE  /\ Good(Play(c)) /\ Good(Pause(c)) /\ Good(TakeOutbound(c)) /\ Good(Dispose(c))
           /\ \A n \in Rates : Good(SetRate(c, n))
           /\ \A d \in {-1, 1} : Good(SetDirection(c, d))
           /\ \A on \in BOOLEAN : Good(SetLoop(c, on)) /\ Good(SetReducedMotion(c, on))
<1> DEFINE Kept(d) == /\ d.domain = c.domain /\ d.range = c.range /\ d.cursor = c.cursor
                      /\ d.window = c.window /\ d.outbound \in {c.outbound, None}
<1>1. Typed(Play(c)) /\ Kept(Play(c))
    BY DEF Good, Typed, Play
<1>2. Typed(Pause(c)) /\ Kept(Pause(c))
    BY DEF Good, Typed, Pause
<1>3. Typed(TakeOutbound(c)) /\ Kept(TakeOutbound(c))
    BY DEF Good, Typed, TakeOutbound
<1>4. Typed(Dispose(c)) /\ Kept(Dispose(c))
    <2>1. {} \in Chosen /\ [s \in Sources |-> 0] \in [Sources -> Nat]
        BY FS_EmptySet, IntAssumption DEF Chosen
    <2> QED BY <2>1 DEF Good, Typed, Dispose
<1>5. ASSUME NEW n \in Rates PROVE Typed(SetRate(c, n)) /\ Kept(SetRate(c, n))
    BY ControllerAssumption DEF Good, Typed, SetRate
<1>6. ASSUME NEW d \in {-1, 1} PROVE Typed(SetDirection(c, d)) /\ Kept(SetDirection(c, d))
    BY DEF Good, Typed, SetDirection
<1>7. ASSUME NEW on \in BOOLEAN PROVE Typed(SetLoop(c, on)) /\ Kept(SetLoop(c, on))
    BY DEF Good, Typed, SetLoop
<1>8. ASSUME NEW on \in BOOLEAN PROVE Typed(SetReducedMotion(c, on)) /\ Kept(SetReducedMotion(c, on))
    BY DEF Good, Typed, SetReducedMotion
<1> QED BY <1>1, <1>2, <1>3, <1>4, <1>5, <1>6, <1>7, <1>8, UnsharedGood

\* An event that passes validate_event carries a canonical view of the domain.
LEMMA ApplyEventGood ==
    ASSUME NEW c, Good(c), NEW e \in Events
    PROVE  Good(ApplyEvent(c, e))
<1>1. CASE Verdict(c, e) # "apply"
    BY <1>1 DEF ApplyEvent
<1>2. CASE Verdict(c, e) = "apply"
    <2>1. WellFormed(e) /\ Within(e.view.range, c.domain)
        BY <1>2 DEF Verdict
    <2>2. /\ e.view.range \in [start : Ints, end : Ints] /\ e.view.cursor \in Ints
          /\ e.view.window \in Ints /\ e.view.selection \in Chosen
          /\ e.revision \in Nat
        <3>1. e.view \in Views /\ e.revision \in Nat
            BY DEF Events
        <3>2. /\ e.view.range \in Ranges /\ e.view.cursor \in EventTimes
              /\ e.view.window \in Widths /\ e.view.selection \in Selections
            BY <3>1 DEF Views
        <3>3. e.view.range \in [start : EventTimes, end : EventTimes]
            BY <3>2 DEF Ranges
        <3>4. Cardinality(e.view.selection) <= MaxIds
            BY <2>1 DEF WellFormed
        <3>5. EventTimes \subseteq Ints /\ Widths \subseteq Ints
            BY ControllerAssumption DEF Ints
        <3> QED BY <3>1, <3>2, <3>3, <3>4, <3>5 DEF Chosen
    <2>3. Typed(Apply(c, e))
        BY <2>2 DEF Good, Typed, Apply
    <2>4. /\ Apply(c, e).range = e.view.range /\ Apply(c, e).cursor = e.view.cursor
          /\ Apply(c, e).window = e.view.window /\ Apply(c, e).domain = c.domain
          /\ Apply(c, e).outbound = c.outbound
        BY DEF Good, Typed, Apply
    <2>5. RangeOK(Apply(c, e)) /\ OutboundOK(Apply(c, e))
        BY <2>1, <2>4 DEF WellFormed, RangeOK, Good, OutboundOK
    <2> QED BY <1>2, <2>3, <2>5 DEF Good, ApplyEvent
<1> QED BY <1>1, <1>2

LEMMA CreateGood ==
    ASSUME Inside, NEW d \in Domains, NEW x \in Times, NEW w \in Widths, NEW s \in Steps,
           NEW n \in Rates, ~Refused(Self, d, w, s, n)
    PROVE  Good(Create(Self, Group, d, x, w, s, 1, n, FALSE, FALSE))
<1> DEFINE at == Clamp(x, d.start, Sat(d.end - 1))
           r == WindowAround(at, w, d)
           c == Create(Self, Group, d, x, w, s, 1, n, FALSE, FALSE)
<1>1. /\ d.start \in Ints /\ d.end \in Ints /\ d.start < d.end /\ d.end < MaxInt
      /\ w \in Ints /\ 0 <= w /\ s \in Ints /\ x \in Int
    BY ControllerAssumption, IntAssumption DEF Refused, Inside, Ints
<1>2. Sat(d.end - 1) = d.end - 1
    BY <1>1, IntAssumption DEF Sat, Lesser, Greater, Ints
<1>3. at \in Ints /\ d.start <= at /\ at < d.end
    <2>1. /\ d.start \in Int /\ d.end - 1 \in Int /\ d.start <= d.end - 1
          /\ at = Clamp(x, d.start, d.end - 1)
        BY <1>1, <1>2, IntAssumption DEF Ints
    <2>2. at \in Int /\ d.start <= at /\ at <= d.end - 1
        BY <1>1, <2>1, ClampIn
    <2> HIDE DEF at
    <2> QED BY <1>1, <2>2, IntAssumption DEF Ints
<1>4. r \in [start : Ints, end : Ints] /\ Within(r, d) /\ r.start <= at /\ at < r.end
    <2> HIDE DEF at
    <2> QED BY <1>1, <1>3, WindowAroundIn DEF Ints
<1>5. CanonicalWindow(r.start, r.end) \in Ints
    <2>1. r.start \in Ints /\ r.end \in Ints /\ r.start < r.end
        BY <1>3, <1>4 DEF Ints
    <2> HIDE DEF r
    <2> QED BY <2>1, SpanIn
<1>6. {} \in Chosen /\ [t \in Sources |-> 0] \in [Sources -> Nat]
    BY FS_EmptySet, IntAssumption DEF Chosen
<1> DEFINE v == CanonicalWindow(r.start, r.end)
<1> HIDE DEF at, r, v
<1>7. c = [instance |-> Self, group |-> Group, domain |-> d, range |-> r, cursor |-> at,
           window |-> v, step |-> s, direction |-> 1, rate |-> n, loop |-> FALSE,
           playing |-> FALSE, reduced |-> FALSE, revision |-> 1, disposed |-> FALSE,
           selection |-> {}, seen |-> [t \in Sources |-> 0], outbound |-> None]
    BY DEF Create, at, r, v
<1>8. n \in Nat /\ v \in Ints
    BY <1>5, ControllerAssumption DEF v
<1> HIDE DEF c
<1>9. Typed(c)
    BY <1>1, <1>3, <1>4, <1>6, <1>7, <1>8 DEF Typed
<1>10. RangeOK(c) /\ OutboundOK(c)
    BY <1>3, <1>4, <1>7 DEF RangeOK, OutboundOK, v
<1> QED BY <1>9, <1>10 DEF Good, c

-----------------------------------------------------------------------------
(* The inductive invariant, and the properties that follow from it. *)

LEMMA InitIInv == Init => IInv
BY DEF Init, IInv, Live

LEMMA NextIInv == ASSUME Inside PROVE IInv /\ [Next]_vars => IInv'
<1> SUFFICES ASSUME IInv, [Next]_vars, Live' PROVE Good(controller')
    BY DEF IInv
<1>1. CASE Creation
    <2>1. PICK d \in Domains, x \in Times, w \in Widths, s \in Steps, n \in Rates :
            /\ ~Refused(Self, d, w, s, n)
            /\ controller' = Create(Self, Group, d, x, w, s, 1, n, FALSE, FALSE)
        BY <1>1 DEF Creation
    <2> QED BY <2>1, CreateGood
<1>2. CASE UNCHANGED vars
    BY <1>2 DEF vars, IInv, Live
<1>3. CASE Next /\ ~Creation
    <2>1. Live /\ Good(controller)
        BY <1>3 DEF Next, IInv, SetRangeTo, SetCursorTo, SetSelectionTo, StepOnce, TickOnce, PlayOrPause,
                    SetRateTo, Reverse, SetLooping, SetReduced, Poll, DisposeIt, Receive
    <2>2. PICK c : c = controller
        OBVIOUS
    <2>3. Good(c)
        BY <2>1, <2>2
    <2>4. Times \subseteq Ints /\ Ints \subseteq Int /\ Elapsed \subseteq Ints
        BY ControllerAssumption, IntAssumption DEF Ints
    <2>5. CASE SetRangeTo
        <3>1. PICK a \in Times, b \in Times : controller' = SetRange(c, a, b)
            BY <2>2, <2>5 DEF SetRangeTo, Returns, Becomes
        <3> QED BY <2>3, <2>4, <3>1, SetRangeGood
    <2>6. CASE SetCursorTo
        <3>1. PICK at \in Times : controller' = SetCursor(c, at)
            BY <2>2, <2>6 DEF SetCursorTo, Returns, Becomes
        <3> QED BY <2>3, <2>4, <3>1, SetCursorGood
    <2>7. CASE SetSelectionTo
        <3>1. PICK ids \in Selections : controller' = SetSelection(c, ids)
            BY <2>2, <2>7 DEF SetSelectionTo, Returns, Becomes
        <3> QED BY <2>3, <3>1, SetSelectionGood
    <2>8. CASE StepOnce
        BY <2>2, <2>3, <2>8, StepGood DEF StepOnce, Returns, Becomes
    <2>9. CASE TickOnce
        <3>1. PICK t \in Elapsed : controller' = Tick(c, t)
            BY <2>2, <2>9 DEF TickOnce, Becomes
        <3> QED BY <2>3, <2>4, <3>1, TickGood
    <2>10. CASE PlayOrPause
        BY <2>2, <2>3, <2>10, SettingsGood DEF PlayOrPause, Returns, Becomes
    <2>11. CASE SetRateTo
        BY <2>2, <2>3, <2>11, SettingsGood DEF SetRateTo, Returns, Becomes
    <2>12. CASE Reverse
        BY <2>2, <2>3, <2>12, SettingsGood DEF Reverse, Returns, Becomes
    <2>13. CASE SetLooping \/ SetReduced
        BY <2>2, <2>3, <2>13, SettingsGood DEF SetLooping, SetReduced, Returns, Becomes
    <2>14. CASE Poll \/ DisposeIt
        BY <2>2, <2>3, <2>14, SettingsGood DEF Poll, DisposeIt, Returns, Becomes
    <2>15. CASE Receive
        <3>1. PICK e \in Events : controller' = ApplyEvent(c, e)
            BY <2>2, <2>15 DEF Receive
        <3> QED BY <2>3, <3>1, ApplyEventGood
    <2> QED BY <1>3, <2>5, <2>6, <2>7, <2>8, <2>9, <2>10, <2>11, <2>12, <2>13, <2>14, <2>15 DEF Next
<1> QED BY <1>1, <1>2, <1>3

\* The range stays a nonempty part of the domain around the cursor and the window
\* its exact length, however far a saturating step, tick or request reaches.
THEOREM StaysCanonical == ASSUME Inside PROVE Spec => []Canonical
<1>1. IInv => Canonical
    BY DEF IInv, Good, RangeOK, Canonical
<1> QED BY <1>1, InitIInv, NextIInv, PTL DEF Spec

\* What a controller sends, its peers can apply: no command, boundary or applied
\* event leaves an outbound event that a receiver refuses as malformed.
THEOREM PeersAccept == ASSUME Inside PROVE Spec => []PeersAcceptOutbound
<1>1. IInv => PeersAcceptOutbound
    BY DEF IInv, Good, OutboundOK, PeersAcceptOutbound
<1> QED BY <1>1, InitIInv, NextIInv, PTL DEF Spec

-----------------------------------------------------------------------------
(* What a command changes of what peers share, and how playback ends. *)

\* From c to d: what peers share changed exactly if the revision grew, and then
\* the change is pending.
Counted(c, d) ==
    IF View(d) = View(c)
    THEN d.revision = c.revision
    ELSE d.revision = c.revision + 1 /\ d.outbound = Event(d)

Quiet(c) ==
    /\ c.reduced \/ c.disposed => ~c.playing
    /\ c.disposed => c.selection = {} /\ c.outbound = None

\* What these need of a controller: its fields.
Shaped(c) ==
    DOMAIN c = {"instance", "group", "domain", "range", "cursor", "window", "step", "direction", "rate",
                "loop", "playing", "reduced", "revision", "disposed", "selection", "seen", "outbound"}

Settings(c) == <<c.playing, c.reduced, c.disposed, c.loop, c.seen>>

LEMMA TypedShaped == ASSUME NEW c, Typed(c) PROVE Shaped(c) /\ c.group = Group
BY DEF Typed, Shaped

LEMMA BumpFacts ==
    ASSUME NEW c, Shaped(c)
    PROVE  LET d == BumpAndQueue(c)
           IN  /\ Shaped(d) /\ View(d) = View(c) /\ d.revision = c.revision + 1
               /\ c.group # 0 => d.outbound = Event(d)
               /\ Settings(d) = Settings(c)
<1> DEFINE next == [c EXCEPT !.revision = @ + 1]
           out == IF next.group = 0 THEN None ELSE Event(next)
           d == [next EXCEPT !.outbound = out]
<1>1. /\ Shaped(next) /\ View(next) = View(c) /\ next.revision = c.revision + 1
      /\ next.group = c.group /\ Settings(next) = Settings(c)
    BY DEF Shaped, View, Settings
<1> HIDE DEF next
<1>2. /\ Shaped(d) /\ View(d) = View(next) /\ d.revision = next.revision /\ d.outbound = out
      /\ d.group = next.group /\ d.instance = next.instance /\ Settings(d) = Settings(next)
    BY <1>1 DEF Shaped, View, Settings
<1>3. Event(d) = Event(next)
    BY <1>2 DEF Event
<1>4. BumpAndQueue(c) = d
    BY DEF BumpAndQueue, next
<1> HIDE DEF d
<1> QED BY <1>1, <1>2, <1>3, <1>4

\* A command that is announced: counted, and with the settings of what it
\* announces.
LEMMA AnnouncedFacts ==
    ASSUME NEW c, NEW next, Shaped(next), next.revision = c.revision, next.group = c.group
    PROVE  LET d == Announced(c, next)
           IN  /\ c.group # 0 => Counted(c, d)
               /\ View(d) = View(next)
               /\ d = c \/ Settings(d) = Settings(next)
<1>1. CASE View(next) = View(c)
    BY <1>1 DEF Announced, Counted
<1>2. CASE View(next) # View(c)
    <2> DEFINE d == BumpAndQueue(next)
    <2>1. /\ View(d) = View(next) /\ d.revision = next.revision + 1
          /\ next.group # 0 => d.outbound = Event(d)
          /\ Settings(d) = Settings(next)
        BY BumpFacts
    <2>2. Announced(c, next) = d
        BY <1>2 DEF Announced
    <2> HIDE DEF d
    <2> QED BY <1>2, <2>1, <2>2 DEF Counted
<1> QED BY <1>1, <1>2

\* The commands on what peers share leave the settings alone.
LEMMA SharedFacts ==
    ASSUME NEW c, Shaped(c), NEW d,
           \/ \E a, b \in Ints : d = SetRange(c, a, b)
           \/ \E x \in Int : d = SetCursor(c, x)
           \/ \E ids \in Selections : d = SetSelection(c, ids)
    PROVE  (c.group # 0 => Counted(c, d)) /\ Settings(d) = Settings(c)
<1>1. CASE d = c
    BY <1>1 DEF Counted
<1>2. ASSUME NEW next, d = Announced(c, next), Shaped(next), next.revision = c.revision,
             next.group = c.group, Settings(next) = Settings(c)
      PROVE  (c.group # 0 => Counted(c, d)) /\ Settings(d) = Settings(c)
    BY <1>2, AnnouncedFacts
<1>3. CASE \E a, b \in Ints : d = SetRange(c, a, b) /\ d # c
    <2>1. PICK a \in Ints, b \in Ints : d = SetRange(c, a, b) /\ d # c
        BY <1>3
    <2> DEFINE next == [c EXCEPT !.range = [start |-> a, end |-> b], !.window = CanonicalWindow(a, b),
                                 !.cursor = Clamp(@, a, Sat(b - 1))]
    <2>2. d = Announced(c, next)
        BY <2>1 DEF SetRange
    <2>3. /\ Shaped(next) /\ next.revision = c.revision /\ next.group = c.group
          /\ Settings(next) = Settings(c)
        BY DEF Shaped, Settings
    <2> HIDE DEF next
    <2> QED BY <1>2, <2>2, <2>3
<1>4. CASE \E x \in Int : d = SetCursor(c, x) /\ d # c
    <2>1. PICK x \in Int : d = SetCursor(c, x) /\ d # c
        BY <1>4
    <2> DEFINE at == Clamp(x, c.domain.start, Sat(c.domain.end - 1))
               next == [c EXCEPT !.cursor = at, !.range = WindowAround(at, c.window, c.domain)]
    <2>2. d = Announced(c, next)
        BY <2>1 DEF SetCursor
    <2> HIDE DEF at
    <2>3. /\ Shaped(next) /\ next.revision = c.revision /\ next.group = c.group
          /\ Settings(next) = Settings(c)
        BY DEF Shaped, Settings
    <2> HIDE DEF next
    <2> QED BY <1>2, <2>2, <2>3
<1>5. CASE \E ids \in Selections : d = SetSelection(c, ids) /\ d # c
    <2>1. PICK ids \in Selections : d = SetSelection(c, ids) /\ d # c
        BY <1>5
    <2> DEFINE next == [c EXCEPT !.selection = ids]
    <2>2. d = Announced(c, next)
        BY <2>1 DEF SetSelection
    <2>3. /\ Shaped(next) /\ next.revision = c.revision /\ next.group = c.group
          /\ Settings(next) = Settings(c)
        BY DEF Shaped, Settings
    <2> HIDE DEF next
    <2> QED BY <1>2, <2>2, <2>3
<1> QED BY <1>1, <1>3, <1>4, <1>5

\* A command that leaves alone what only settings change, but may stop playback.
Tame(c, d) ==
    /\ c.group # 0 => Counted(c, d)
    /\ d.playing \in {c.playing, FALSE}
    /\ d.reduced = c.reduced /\ d.disposed = c.disposed /\ d.loop = c.loop /\ d.seen = c.seen
    /\ c.disposed => d = c

LEMMA SharedTame ==
    ASSUME NEW c, Shaped(c), NEW d,
           \/ \E a, b \in Ints : d = SetRange(c, a, b)
           \/ \E x \in Int : d = SetCursor(c, x)
           \/ \E ids \in Selections : d = SetSelection(c, ids)
    PROVE  Tame(c, d)
<1>1. (c.group # 0 => Counted(c, d)) /\ Settings(d) = Settings(c)
    BY SharedFacts
<1>2. c.disposed => d = c
    BY DEF SetRange, SetCursor, SetSelection
<1> QED BY <1>1, <1>2 DEF Tame, Settings

\* Playback moves the cursor if it can; if not, and it does not loop, it ends.
LEMMA AdvanceFacts ==
    ASSUME Inside, NEW c, Good(c), ~c.disposed, NEW delta \in Int
    PROVE  LET d == Advance(c, delta)
               next == Sat(c.cursor + delta)
           IN  /\ Tame(c, d)
               /\ \/ c.domain.start <= next /\ next < c.domain.end /\ d.cursor = next
                  \/ c.loop
                  \/ ~d.playing
<1> DEFINE next == Sat(c.cursor + delta)
           first == c.domain.start
           last == Sat(c.domain.end - 1)
           stopped == [c EXCEPT !.playing = FALSE]
           d == Advance(c, delta)
<1>1. /\ c.domain.start \in Ints /\ c.domain.end \in Ints /\ c.domain.start < c.domain.end
      /\ c.domain.end < MaxInt /\ last = c.domain.end - 1
    BY DomainFacts DEF Good, Inside
<1>2. next \in Int /\ first \in Int /\ last \in Int /\ first <= last
    <2>1. c.cursor + delta \in Int
        BY DEF Good, Typed, Ints
    <2> QED BY <1>1, <2>1, SatIn, IntAssumption DEF Ints
<1>3. Clamp(next, first, last) \in Int
    BY <1>2, ClampIn
<1>4. Shaped(c) /\ Shaped(stopped)
    BY TypedShaped DEF Good, Shaped
<1>5. /\ View(stopped) = View(c) /\ stopped.revision = c.revision /\ stopped.group = c.group
      /\ stopped.playing = FALSE /\ stopped.reduced = c.reduced /\ stopped.disposed = c.disposed
      /\ stopped.loop = c.loop /\ stopped.seen = c.seen
    BY DEF Good, Typed, View
<1> HIDE DEF stopped, last
<1>6. CASE first <= next /\ next < c.domain.end
    <2>1. d = SetCursor(c, next)
        BY <1>6 DEF Advance
    <2>2. Tame(c, d)
        BY <1>2, <1>4, <2>1, SharedTame
    <2> DEFINE r == WindowAround(next, c.window, c.domain)
               moved == [c EXCEPT !.cursor = next, !.range = r]
    <2> HIDE DEF next
    <2>3. next <= c.domain.end - 1
        BY <1>1, <1>2, <1>6 DEF Ints
    <2>4. Clamp(next, first, c.domain.end - 1) = next
        BY <1>1, <1>2, <1>6, <2>3 DEF Clamp, Lesser, Greater, Ints
    <2>5. 0 <= c.window /\ c.window \in Ints
        <3>1. /\ c.range.start \in Ints /\ c.range.end \in Ints /\ c.range.start < c.range.end
              /\ c.window = CanonicalWindow(c.range.start, c.range.end)
            BY DEF Good, Typed, RangeOK, Ints
        <3> QED BY <3>1, SpanIn
    <2>6. r.start \in Int /\ r.end \in Int /\ r.start < r.end
        BY <1>1, <1>2, <1>6, <2>5, WindowAroundIn DEF Ints
    <2>7. d = Announced(c, moved)
        <3>1. Clamp(next, c.domain.start, Sat(c.domain.end - 1)) = next
            BY <1>1, <2>4 DEF last
        <3>2. ~(r.start >= r.end)
            BY <2>6
        <3> HIDE DEF d
        <3> QED BY <2>1, <3>1, <3>2 DEF SetCursor
    <2>8. moved.cursor = next /\ Shaped(moved) /\ moved.revision = c.revision /\ moved.group = c.group
        BY <1>4 DEF Shaped
    <2> HIDE DEF moved, d
    <2>9. View(d) = View(moved)
        BY <2>7, <2>8, AnnouncedFacts
    <2>10. d.cursor = next
        BY <2>8, <2>9 DEF View
    <2> QED BY <1>6, <2>2, <2>10 DEF d, next
<1>7. CASE ~(first <= next /\ next < c.domain.end) /\ c.loop
    <2>1. d = SetCursor(c, IF delta >= 0 THEN first ELSE last)
        BY <1>7 DEF Advance, last
    <2>2. Tame(c, d)
        BY <1>2, <1>4, <2>1, SharedTame
    <2> QED BY <1>7, <2>2
<1>8. CASE ~(first <= next /\ next < c.domain.end) /\ ~c.loop
    <2>1. d = SetCursor(stopped, Clamp(next, first, last))
        BY <1>8 DEF Advance, last, stopped
    <2> HIDE DEF d
    <2>2. Tame(stopped, d)
        BY <1>3, <1>4, <2>1, SharedTame
    <2>3. d.playing = FALSE
        BY <1>5, <2>2 DEF Tame
    <2>4. c.group # 0 => Counted(c, d)
        BY <1>5, <2>2 DEF Tame, Counted
    <2>5. d.reduced = c.reduced /\ d.disposed = c.disposed /\ d.loop = c.loop /\ d.seen = c.seen
        BY <1>5, <2>2 DEF Tame
    <2>6. Tame(c, d)
        BY <2>3, <2>4, <2>5 DEF Tame
    <2> QED BY <2>3, <2>6 DEF d
<1> QED BY <1>6, <1>7, <1>8

LEMMA StepTickFacts ==
    ASSUME Inside, NEW c, Good(c)
    PROVE  Tame(c, Step(c)) /\ \A t \in Ints : Tame(c, Tick(c, t)) /\ Progress(c, t) \in Int
<1>1. Tame(c, c)
    BY DEF Tame, Counted
<1>2. Sat(c.step * c.direction) \in Int
    <2>1. c.step * c.direction \in Int
        BY DEF Good, Typed, Ints
    <2> QED BY <2>1, SatIn, IntAssumption DEF Ints
<1>3. ASSUME NEW t \in Ints PROVE Progress(c, t) \in Int
    <2>1. t * c.rate \in Int /\ c.direction \in Int
        BY IntAssumption DEF Good, Typed, Ints
    <2>2. Sat(t * c.rate) \in Int
        BY <2>1, SatIn, IntAssumption DEF Ints
    <2>3. (Sat(t * c.rate) \div RateUnit) * c.direction \in Int
        BY <2>1, <2>2, IntAssumption
    <2> QED BY <2>3, SatIn, IntAssumption DEF Ints, Progress
<1>4. Tame(c, Step(c))
    BY <1>1, <1>2, AdvanceFacts DEF Step
<1>5. ASSUME NEW t \in Ints PROVE Tame(c, Tick(c, t))
    BY <1>1, <1>3, AdvanceFacts DEF Tick, Ticks
<1> QED BY <1>3, <1>4, <1>5

\* A tick that finds no progress to make stops playback, in a domain that does
\* not begin at the smallest integer.
LEMMA TickStops ==
    ASSUME Inside, NEW c, Good(c), MinInt < c.domain.start, NEW t \in Ints,
           Ticks(c, t), Progress(c, t) # 0, Tick(c, t).cursor = c.cursor, ~c.loop
    PROVE  ~Tick(c, t).playing
<1> DEFINE delta == Progress(c, t)
           next == Sat(c.cursor + delta)
<1>1. delta \in Int /\ delta # 0
    BY StepTickFacts
<1>2. Tick(c, t) = Advance(c, delta) /\ ~c.disposed
    BY DEF Tick, Ticks
<1>3. /\ c.cursor \in Ints /\ c.domain.start <= c.cursor /\ c.cursor < c.domain.end
      /\ c.domain.start \in Ints /\ c.domain.end \in Ints
    BY DomainFacts DEF Good, Typed, RangeOK, Within, Ints
<1> HIDE DEF delta
<1>4. next # c.cursor
    BY <1>1, <1>3, IntAssumption DEF Sat, Lesser, Greater, Ints
<1>5. \/ Advance(c, delta).cursor = next
      \/ c.loop
      \/ ~Advance(c, delta).playing
    BY <1>1, <1>2, AdvanceFacts
<1> QED BY <1>2, <1>4, <1>5

LEMMA TameQuiet == ASSUME NEW c, NEW d, Quiet(c), Tame(c, d) PROVE Quiet(d)
<1>1. CASE d.disposed
    BY <1>1 DEF Tame
<1>2. CASE ~d.disposed /\ d.reduced
    <2>1. ~c.playing
        BY <1>2 DEF Tame, Quiet
    <2>2. ~d.playing
        <3>1. CASE d.playing = c.playing
            BY <2>1, <3>1
        <3>2. CASE d.playing = FALSE
            BY <3>2
        <3> QED BY <3>1, <3>2 DEF Tame
    <2> QED BY <1>2, <2>2 DEF Quiet
<1>3. CASE ~d.disposed /\ ~d.reduced
    BY <1>3 DEF Quiet
<1> QED BY <1>1, <1>2, <1>3

\* The commands on settings change nothing that peers share, except for the end.
Private(c, d) ==
    /\ Quiet(c) => Quiet(d)
    /\ d.disposed \/ Counted(c, d)
    /\ \A s \in Sources : d.seen[s] \in {0, c.seen[s]}

LEMMA SettingsPrivate ==
    ASSUME NEW c, Typed(c)
    PROVE  /\ Private(c, Play(c)) /\ Private(c, Pause(c)) /\ Private(c, TakeOutbound(c))
           /\ Private(c, Dispose(c))
           /\ \A n \in Rates : Private(c, SetRate(c, n))
           /\ \A d \in {-1, 1} : Private(c, SetDirection(c, d))
           /\ \A on \in BOOLEAN : Private(c, SetLoop(c, on)) /\ Private(c, SetReducedMotion(c, on))
<1>1. Private(c, c)
    BY DEF Private, Counted
<1>2. Private(c, Play(c))
    BY <1>1 DEF Typed, Play, Private, Counted, View, Quiet
<1>3. Private(c, Pause(c))
    BY <1>1 DEF Typed, Pause, Private, Counted, View, Quiet
<1>4. Private(c, TakeOutbound(c))
    BY DEF Typed, TakeOutbound, Private, Counted, View, Quiet
<1>5. Private(c, Dispose(c))
    BY <1>1 DEF Typed, Dispose, Private, Counted, View, Quiet
<1>6. ASSUME NEW n \in Rates PROVE Private(c, SetRate(c, n))
    BY <1>1 DEF Typed, SetRate, Private, Counted, View, Quiet
<1>7. ASSUME NEW d \in {-1, 1} PROVE Private(c, SetDirection(c, d))
    BY <1>1 DEF Typed, SetDirection, Private, Counted, View, Quiet
<1>8. ASSUME NEW on \in BOOLEAN PROVE Private(c, SetLoop(c, on))
    BY <1>1 DEF Typed, SetLoop, Private, Counted, View, Quiet
<1>9. ASSUME NEW on \in BOOLEAN PROVE Private(c, SetReducedMotion(c, on))
    BY <1>1 DEF Typed, SetReducedMotion, Private, Counted, View, Quiet
<1> QED BY <1>2, <1>3, <1>4, <1>5, <1>6, <1>7, <1>8, <1>9

-----------------------------------------------------------------------------
(* Every step, and the properties that follow. *)

\* What a step of a live controller is.
LEMMA StepFacts ==
    ASSUME Inside, NEW c, c = controller, Live, Good(c), Next
    PROVE  \/ Tame(c, controller') /\ ticked' = "no"
           \/ /\ Tame(c, controller')
              /\ \E t \in Ints :
                    /\ controller' = Tick(c, t)
                    /\ ticked' = "still" => /\ Ticks(c, t) /\ Progress(c, t) # 0
                                            /\ controller'.cursor = c.cursor
           \/ Private(c, controller') /\ ticked' = "no"
           \/ /\ Receive /\ ticked' = "no"
              /\ \E e \in Events :
                    /\ controller' = ApplyEvent(c, e)
                    /\ local' => Verdict(c, e) # "apply"
<1> DEFINE d == controller'
<1>1. Typed(c) /\ Shaped(c) /\ Times \subseteq Ints /\ Ints \subseteq Int /\ Elapsed \subseteq Ints
    BY TypedShaped, ControllerAssumption, IntAssumption DEF Good, Ints
<1>2. ~Creation
    BY DEF Creation, Live
<1>3. CASE SetRangeTo \/ SetCursorTo \/ SetSelectionTo
    <2>1. /\ ticked' = "no"
          /\ \/ \E a, b \in Ints : d = SetRange(c, a, b)
             \/ \E x \in Int : d = SetCursor(c, x)
             \/ \E ids \in Selections : d = SetSelection(c, ids)
        BY <1>1, <1>3 DEF SetRangeTo, SetCursorTo, SetSelectionTo, Returns, Becomes
    <2> HIDE DEF d
    <2>2. Tame(c, d)
        BY <1>1, <2>1, SharedTame
    <2> QED BY <2>1, <2>2 DEF d
<1>4. CASE StepOnce
    BY <1>4, StepTickFacts DEF StepOnce, Returns, Becomes
<1>5. CASE TickOnce
    <2>1. PICK t \in Elapsed :
            /\ d = Tick(c, t)
            /\ ticked' = IF ~Ticks(c, t) \/ Progress(c, t) = 0 THEN "no"
                         ELSE IF d.cursor # c.cursor THEN "moved" ELSE "still"
        BY <1>5 DEF TickOnce, Becomes
    <2>2. Tame(c, d)
        BY <1>1, <2>1, StepTickFacts
    <2>3. ticked' = "still" => Ticks(c, t) /\ Progress(c, t) # 0 /\ d.cursor = c.cursor
        BY <2>1
    <2> QED BY <1>1, <2>1, <2>2, <2>3
<1>6. CASE PlayOrPause \/ SetRateTo \/ Reverse \/ SetLooping \/ SetReduced \/ Poll \/ DisposeIt
    <2>1. /\ ticked' = "no"
          /\ \/ d \in {Play(c), Pause(c), TakeOutbound(c), Dispose(c)}
             \/ \E n \in Rates : d = SetRate(c, n)
             \/ \E way \in {-1, 1} : d = SetDirection(c, way)
             \/ \E on \in BOOLEAN : d \in {SetLoop(c, on), SetReducedMotion(c, on)}
        BY <1>6 DEF PlayOrPause, SetRateTo, Reverse, SetLooping, SetReduced, Poll, DisposeIt, Returns, Becomes
    <2> HIDE DEF d
    <2>2. Private(c, d)
        BY <1>1, <2>1, SettingsPrivate
    <2> QED BY <2>1, <2>2 DEF d
<1>7. CASE Receive
    BY <1>7 DEF Receive
<1> QED BY <1>2, <1>3, <1>4, <1>5, <1>6, <1>7 DEF Next

\* Revisions, own and seen, stay within the bound.
Bounded == Live =>
    /\ controller.revision <= MaxRevision
    /\ \A s \in Sources : controller.seen[s] <= MaxRevision

LEMMA BoundedKept == ASSUME Inside PROVE IInv /\ Bounded /\ [Next]_vars => Bounded'
<1> SUFFICES ASSUME IInv, Bounded, [Next]_vars, Live' PROVE Bounded'
    BY DEF Bounded
<1>1. CASE UNCHANGED vars
    BY <1>1 DEF vars, Bounded, Live
<1>2. CASE Next /\ ~Live
    <2>1. Creation
        BY <1>2 DEF Next, SetRangeTo, SetCursorTo, SetSelectionTo, StepOnce, TickOnce, PlayOrPause,
                    SetRateTo, Reverse, SetLooping, SetReduced, Poll, DisposeIt, Receive
    <2>2. controller'.revision = 1 /\ controller'.seen = [s \in Sources |-> 0]
        BY <2>1 DEF Creation, Create
    <2> QED BY <2>2, ControllerAssumption, IntAssumption DEF Bounded
<1>3. CASE Next /\ Live
    <2>1. PICK c : c = controller
        OBVIOUS
    <2> DEFINE d == controller'
    <2>2. Good(c) /\ Typed(c) /\ c.revision <= MaxRevision
          /\ \A s \in Sources : c.seen[s] <= MaxRevision
        BY <1>3, <2>1 DEF IInv, Good, Bounded
    <2>3. CASE Receive
        <3>1. PICK e \in Events : d = ApplyEvent(c, e)
            BY <2>1, <2>3 DEF Receive
        <3>2. e.revision <= MaxRevision /\ e.source \in Sources
            BY ControllerAssumption DEF Events
        <3>3. d = c \/ d = Apply(c, e)
            BY <3>1 DEF ApplyEvent
        <3>4. Apply(c, e).revision = c.revision
            BY <2>2 DEF Typed, Apply
        <3>5. \A s \in Sources : Apply(c, e).seen[s] \in {c.seen[s], e.revision}
            BY <2>2 DEF Typed, Apply
        <3> HIDE DEF d
        <3>6. d.revision <= MaxRevision /\ \A s \in Sources : d.seen[s] <= MaxRevision
            BY <2>2, <3>2, <3>3, <3>4, <3>5
        <3> QED BY <3>6 DEF Bounded, d
    <2>4. CASE ~Receive
        <3>1. d.revision <= MaxRevision
            BY <1>3, <2>4 DEF Next, Creation, Live, SetRangeTo, SetCursorTo, SetSelectionTo, StepOnce, TickOnce,
                    PlayOrPause, SetRateTo, Reverse, SetLooping, SetReduced, Poll, DisposeIt, Returns, Becomes
        <3>2. Tame(c, d) \/ Private(c, d)
            BY <1>3, <2>1, <2>2, <2>4, StepFacts
        <3> HIDE DEF d
        <3>3. \A s \in Sources : d.seen[s] \in {0, c.seen[s]}
            BY <3>2 DEF Tame, Private
        <3>4. \A s \in Sources : d.seen[s] <= MaxRevision
            BY <2>2, <3>3, IntAssumption
        <3> QED BY <3>1, <3>4 DEF Bounded, d
    <2> QED BY <2>3, <2>4
<1> QED BY <1>1, <1>2, <1>3

QuietIInv == Live => Quiet(controller)

LEMMA QuietKept == ASSUME Inside PROVE IInv /\ QuietIInv /\ [Next]_vars => QuietIInv'
<1> SUFFICES ASSUME IInv, QuietIInv, [Next]_vars, Live' PROVE Quiet(controller')
    BY DEF QuietIInv
<1>1. CASE UNCHANGED vars
    BY <1>1 DEF vars, QuietIInv, Live
<1>2. CASE Next /\ ~Live
    <2>1. Creation
        BY <1>2 DEF Next, SetRangeTo, SetCursorTo, SetSelectionTo, StepOnce, TickOnce, PlayOrPause,
                    SetRateTo, Reverse, SetLooping, SetReduced, Poll, DisposeIt, Receive
    <2>2. controller'.playing = FALSE /\ controller'.disposed = FALSE
        BY <2>1 DEF Creation, Create
    <2> QED BY <2>2 DEF Quiet
<1>3. CASE Next /\ Live
    <2>1. PICK c : c = controller
        OBVIOUS
    <2> DEFINE d == controller'
    <2>2. Good(c) /\ Typed(c) /\ Quiet(c)
        BY <1>3, <2>1 DEF IInv, Good, QuietIInv
    <2>3. \/ Tame(c, d) \/ Private(c, d)
          \/ \E e \in Events : d = ApplyEvent(c, e)
        BY <1>3, <2>1, <2>2, StepFacts
    <2> HIDE DEF d
    <2>4. ASSUME NEW e \in Events, d = ApplyEvent(c, e) PROVE Quiet(d)
        <3>1. CASE d = c
            BY <2>2, <3>1
        <3>2. CASE d = Apply(c, e) /\ Verdict(c, e) = "apply"
            <4>1. c.disposed = FALSE
                BY <2>2, <3>2 DEF Verdict, Typed
            <4>2. d.playing = c.playing /\ d.reduced = c.reduced /\ d.disposed = c.disposed
                BY <2>2, <3>2 DEF Typed, Apply
            <4> QED BY <2>2, <4>1, <4>2 DEF Quiet
        <3> QED BY <2>4, <3>1, <3>2 DEF ApplyEvent
    <2>5. Quiet(d)
        BY <2>2, <2>3, <2>4, TameQuiet DEF Private
    <2> QED BY <2>5 DEF d
<1> QED BY <1>1, <1>2, <1>3

\* A domain with room on both sides, for its bounds to be told from saturation.
Strict == Inside /\ \A d \in Domains : MinInt < d.start

LEMMA StopsKept ==
    ASSUME Strict PROVE IInv /\ BoundaryTickStops /\ [Next]_vars => BoundaryTickStops'
<1> SUFFICES ASSUME IInv, BoundaryTickStops, [Next]_vars PROVE BoundaryTickStops'
    OBVIOUS
<1>1. CASE UNCHANGED vars
    BY <1>1 DEF vars, BoundaryTickStops, Live
<1>2. CASE Next /\ ~Live
    <2>1. Creation
        BY <1>2 DEF Next, SetRangeTo, SetCursorTo, SetSelectionTo, StepOnce, TickOnce, PlayOrPause,
                    SetRateTo, Reverse, SetLooping, SetReduced, Poll, DisposeIt, Receive
    <2>2. controller'.playing = FALSE
        BY <2>1 DEF Creation, Create
    <2> QED BY <2>2 DEF BoundaryTickStops
<1>3. CASE Next /\ Live
    <2>1. PICK c : c = controller
        OBVIOUS
    <2>2. Inside /\ Good(c) /\ MinInt < c.domain.start
        BY <1>3, <2>1, DomainFacts DEF IInv, Good, Strict
    <2>3. SUFFICES ASSUME ticked' = "still", ~controller'.loop PROVE ~controller'.playing
        BY DEF BoundaryTickStops
    <2>4. /\ Tame(c, controller')
          /\ \E t \in Ints :
                /\ controller' = Tick(c, t)
                /\ Ticks(c, t) /\ Progress(c, t) # 0 /\ controller'.cursor = c.cursor
        BY <1>3, <2>1, <2>2, <2>3, StepFacts
    <2>5. ~c.loop
        BY <2>3, <2>4 DEF Tame
    <2> QED BY <2>2, <2>4, <2>5, TickStops
<1> QED BY <1>1, <1>2, <1>3

\* Playback stops when it must: at a bound it cannot pass, under reduced motion
\* and once disposed of, and a controller that is disposed of holds nothing.
THEOREM StopsWhenItMust == ASSUME Strict PROVE Spec => []Consistent
<1> DEFINE Inv == IInv /\ Bounded /\ QuietIInv /\ BoundaryTickStops
<1>1. Init => Inv
    BY InitIInv DEF Init, Bounded, QuietIInv, BoundaryTickStops, Live
<1>2. Inv /\ [Next]_vars => Inv'
    BY NextIInv, BoundedKept, QuietKept, StopsKept DEF Strict
<1>3. Inv => Consistent
    <2> SUFFICES ASSUME Inv PROVE Consistent
        OBVIOUS
    <2>1. BoundaryTickStops
        OBVIOUS
    <2>2. QuietWhenAskedTo
        BY DEF QuietIInv, Quiet, QuietWhenAskedTo
    <2>3. TypeOK
        <3> SUFFICES ASSUME Live PROVE TypeOK
            BY DEF TypeOK
        <3>1. PICK c : c = controller
            OBVIOUS
        <3>2. Typed(c) /\ RangeOK(c) /\ c.revision <= MaxRevision /\ \A s \in Sources : c.seen[s] <= MaxRevision
            BY <3>1 DEF IInv, Good, Bounded
        <3>3. c.range.start \in Ints /\ c.range.end \in Ints /\ c.range.start < c.range.end
            BY <3>2 DEF Typed, RangeOK, Ints
        <3>4. c.window \in 0..MaxInt
            BY <3>2, <3>3, SpanIn, IntAssumption DEF RangeOK, Ints
        <3>5. c.revision \in 1..MaxRevision
            BY <3>2, ControllerAssumption DEF Typed
        <3>6. c.seen \in [Sources -> 0..MaxRevision]
            BY <3>2, ControllerAssumption DEF Typed
        <3>7. /\ c.cursor \in Ints /\ c.range \in [start : Ints, end : Ints] /\ c.direction \in {-1, 1}
              /\ c.playing \in BOOLEAN /\ c.loop \in BOOLEAN /\ c.reduced \in BOOLEAN /\ c.disposed \in BOOLEAN
            BY <3>2 DEF Typed
        <3> QED BY <3>1, <3>4, <3>5, <3>6, <3>7 DEF TypeOK, Ints
    <2> QED BY <2>1, <2>2, <2>3 DEF Consistent
<1> QED BY <1>1, <1>2, <1>3, PTL DEF Spec

\* In an exchange group a revision is a change: what peers share changes by a
\* command exactly when the revision grows, by one, and then it is announced.
THEOREM RevisionsCount == ASSUME Inside, Group # 0 PROVE Spec => RevisionsAreChanges
<1> DEFINE Counts ==
        Live /\ local' /\ ~controller'.disposed =>
         IF View(controller') = View(controller)
         THEN controller'.revision = controller.revision
         ELSE /\ controller'.revision = controller.revision + 1
              /\ controller'.outbound = Event(controller')
<1>1. IInv /\ [Next]_vars => [Counts]_vars
    <2> SUFFICES ASSUME IInv, Next, Live, local', ~controller'.disposed
                 PROVE  Counted(controller, controller')
        BY DEF Counted
    <2>1. PICK c : c = controller
        OBVIOUS
    <2>2. Good(c) /\ c.group # 0
        BY <2>1 DEF IInv, Good, Typed
    <2>3. \/ Tame(c, controller') \/ Private(c, controller')
          \/ \E e \in Events : controller' = ApplyEvent(c, e) /\ Verdict(c, e) # "apply"
        BY <2>1, <2>2, StepFacts
    <2>4. Counted(c, controller')
        BY <2>2, <2>3 DEF Tame, Private, ApplyEvent, Counted
    <2> QED BY <2>1, <2>4
<1> QED BY <1>1, InitIInv, NextIInv, PTL DEF Spec, RevisionsAreChanges

-----------------------------------------------------------------------------
(***************************************************************************)
(* A group of controllers (CoordinationGroup), whatever the hosts do:      *)
(* BaseInv is the state of the registry and its deliveries, HistoryInv     *)
(* what is known of each source.  A source is a handle there, not an       *)
(* identity, which may have had other owners before.                       *)
(***************************************************************************)
Known == 1..lastHandle
Locking == {d \in Couriers : pc[d] = "locking"}

\* The events that were polled and may still be handed on.
Moving == wire \cup {event[d] : d \in Locking}

ControllerFields ==
    {"instance", "group", "domain", "range", "cursor", "window", "step", "direction", "rate", "loop",
     "playing", "reduced", "revision", "disposed", "selection", "seen", "outbound"}

Formed(c) == c = [f \in ControllerFields |-> c[f]]

EventFits(e) ==
    /\ e.view = [range |-> e.view.range, cursor |-> e.view.cursor, window |-> e.view.window,
                 selection |-> e.view.selection]
    /\ e.group \in Groups \ {0} /\ e.source \in Sources /\ e.revision \in 1..MaxRevision

EventTyped(e) ==
    /\ e = [group |-> e.group, source |-> e.source, revision |-> e.revision, view |-> e.view]
    /\ EventFits(e)

\* A pending event says who queued it, and is of the latest revision.
ControllerTyped(c) ==
    /\ Formed(c)
    /\ c.instance \in Sources /\ c.group \in Groups /\ c.revision \in 1..MaxRevision
    /\ c.disposed \in BOOLEAN
    /\ c.seen \in [Sources -> 0..MaxRevision]
    /\ c.outbound # None => /\ EventTyped(c.outbound) /\ c.disposed = FALSE
                            /\ c.outbound.group = c.group /\ c.outbound.source = c.instance
                            /\ c.outbound.revision = c.revision

\* A controller leaves the registry only when it is disposed of.
RegistryInv ==
    /\ lastHandle \in 0..MaxHandles /\ registered \subseteq Known
    /\ controllers = [h \in Handles |-> controllers[h]] /\ cause = [h \in Handles |-> cause[h]]
    /\ \A h \in Known : ControllerTyped(controllers[h])
    /\ \A h \in Handles \ Known : controllers[h] = None
    /\ \A h \in Known \ registered : controllers[h].disposed
    /\ IdentitiesUnique

CouriersTyped ==
    /\ lock \in [Handles -> Couriers \cup {None}]
    /\ pc \in [Couriers -> {"idle", "locking"}]
    /\ members \in [Couriers -> SUBSET Known]
    /\ event = [d \in Couriers |-> event[d]]
    /\ \A d \in Locking : event[d].group # 0 /\ WellFormed(event[d])

\* A mutex is held by a courier that is under way, which has those of all
\* smaller handles of its snapshot.
LocksInOrder ==
    \A h \in Handles : lock[h] # None =>
        /\ h \in members[lock[h]] /\ pc[lock[h]] = "locking"
        /\ \A k \in members[lock[h]] : k < h => lock[k] = lock[h]

MovingTyped == \A e \in Moving : EventFits(e) /\ e.from \in Known

HeardTyped ==
    /\ heard \in [Handles -> [Handles -> Nat]]
    /\ \A h, k \in Handles : heard[h][k] # 0 => h \in Known /\ k \in Known

BaseInv == RegistryInv /\ CouriersTyped /\ LocksInOrder /\ MovingTyped /\ HeardTyped

\* What is known of a source: at this revision it showed this.
Fact(from, revision, view) == [from |-> from, revision |-> revision, view |-> view]

Showing == {h \in Known : controllers[h].disposed = FALSE}
Pending == {h \in Known : controllers[h].outbound # None}

ShownAs(h) == Fact(cause[h].handle, cause[h].revision, View(controllers[h]))
QueuedAs(h) == Fact(h, controllers[h].outbound.revision, controllers[h].outbound.view)

Facts ==
    {Fact(e.from, e.revision, e.view) : e \in Moving}
        \cup {QueuedAs(h) : h \in Pending} \cup {ShownAs(h) : h \in Showing}

\* Whatever is known of a source's revision, the source has had it ...
Sourced == \A f \in Facts : f.from \in Known /\ f.revision \in 1..controllers[f.from].revision

\* ... and it is the same everywhere.
OneView == \A e, f \in Facts : e.from = f.from /\ e.revision = f.revision => e.view = f.view

\* A source's revision n is not newer than the source, and older than what it
\* has to announce.
Behind(n, c) ==
    /\ n <= c.revision
    /\ c.outbound # None => n < c.revision

\* An event bears the identity of the one it was polled from.
MovingIsOld ==
    \A e \in Moving : /\ controllers[e.from].instance = e.source
                       /\ Behind(e.revision, controllers[e.from])

\* A watermark is what was heard of one owner of the identity ...
SeenFrom ==
    \A h \in Showing, s \in Sources : controllers[h].seen[s] # 0 =>
        \E k \in Known : /\ controllers[k].instance = s
                          /\ heard[h][k] = controllers[h].seen[s]
                          /\ Behind(controllers[h].seen[s], controllers[k])

\* ... and nothing newer was heard of any.
HeardBelowSeen ==
    \A h \in Showing, k \in Known : heard[h][k] <= controllers[h].seen[controllers[k].instance]

ShownIsHeard ==
    \A h \in Showing : cause[h].handle # h => cause[h].revision = heard[h][cause[h].handle]

HistoryInv == Sourced /\ OneView /\ MovingIsOld /\ SeenFrom /\ HeardBelowSeen /\ ShownIsHeard

-----------------------------------------------------------------------------
(* What a step makes of one controller.                                     *)

Identity(c, n) ==
    n.instance = c.instance /\ n.group = c.group /\ (c.disposed => n.disposed)

\* An announced change.
Announces(c, n) ==
    /\ c.disposed = FALSE /\ n.disposed = FALSE /\ n.revision = c.revision + 1 /\ n.seen = c.seen
    /\ n.outbound = IF c.group = 0 THEN None ELSE Event(n)

Says(h) ==
    /\ Announces(controllers[h], controllers'[h])
    /\ cause'[h] = Own(h, controllers'[h]) /\ heard'[h] = heard[h]

\* An event applied: what is shown is the event.
Follows(c, n, e) ==
    /\ c.disposed = FALSE /\ n.disposed = FALSE /\ Newer(c, e)
    /\ n.revision = c.revision /\ n.outbound = c.outbound
    /\ n.seen = [c.seen EXCEPT ![e.source] = e.revision] /\ View(n) = e.view

Hears(h) ==
    \E e \in Moving : /\ Follows(controllers[h], controllers'[h], e)
                      /\ cause'[h] = Of(e) /\ heard'[h] = Hearing(h, e)

\* A pending event taken, or the controller disposed of, or nothing.
Silences(c, n) ==
    /\ n.revision = c.revision /\ n.outbound = None
    /\ n.seen \in {c.seen, [s \in Sources |-> 0]}
    /\ n.disposed = FALSE => c.disposed = FALSE /\ n.seen = c.seen /\ View(n) = View(c)

Quiets(h) ==
    /\ Silences(controllers[h], controllers'[h])
    /\ cause'[h] = cause[h] /\ heard'[h] = heard[h]

Keeps(h) == controllers'[h] = controllers[h] /\ cause'[h] = cause[h] /\ heard'[h] = heard[h]

Changes ==
    /\ lastHandle' = lastHandle
    /\ \A h \in Known : /\ Identity(controllers[h], controllers'[h])
                        /\ Keeps(h) \/ Says(h) \/ Hears(h) \/ Quiets(h)
    /\ \A e \in Moving' : e \in Moving \/ \E h \in Pending : Quiets(h) /\ e = Posted(h, controllers[h].outbound)

-----------------------------------------------------------------------------
(* Commands and events, for one controller. *)

LEMMA AnnouncedAnnounces ==
    ASSUME NEW c, ControllerTyped(c), c.disposed = FALSE,
           NEW next, Formed(next), next.instance = c.instance, next.group = c.group,
           next.revision = c.revision, next.disposed = FALSE, next.seen = c.seen
    PROVE  LET n == Announced(c, next)
           IN  n = c \/ (Formed(n) /\ Identity(c, n) /\ Announces(c, n))
<1> DEFINE later == [next EXCEPT !.revision = @ + 1]
           out == IF next.group = 0 THEN None ELSE Event(later)
           n == [later EXCEPT !.outbound = out]
<1>1. CASE View(next) = View(c)
    BY <1>1 DEF Announced
<1>2. CASE View(next) # View(c)
    <2>1. Announced(c, next) = n
        BY <1>2 DEF Announced, BumpAndQueue
    <2>2. /\ Formed(later) /\ later.instance = c.instance /\ later.group = c.group
          /\ later.revision = c.revision + 1 /\ later.disposed = FALSE /\ later.seen = c.seen
        BY DEF Formed, ControllerFields
    <2> HIDE DEF later, out
    <2>3. /\ Formed(n) /\ n.instance = c.instance /\ n.group = c.group /\ n.outbound = out
          /\ n.revision = c.revision + 1 /\ n.disposed = FALSE /\ n.seen = c.seen
        BY <2>2 DEF Formed, ControllerFields
    <2>4. Event(n) = Event(later)
        BY <2>2 DEF Formed, ControllerFields, Event, View
    <2>5. out = IF c.group = 0 THEN None ELSE Event(n)
        BY <2>2, <2>4 DEF out
    <2> HIDE DEF n
    <2> QED BY <2>1, <2>3, <2>5 DEF Identity, Announces
<1> QED BY <1>1, <1>2

LEMMA SetCursorAnnounces ==
    ASSUME NEW c, ControllerTyped(c), NEW at
    PROVE  LET n == SetCursor(c, at)
           IN  n = c \/ (Formed(n) /\ Identity(c, n) /\ Announces(c, n))
<1> DEFINE to == Clamp(at, c.domain.start, Sat(c.domain.end - 1))
           range == WindowAround(to, c.window, c.domain)
           next == [c EXCEPT !.cursor = to, !.range = range]
<1>1. SetCursor(c, at) = c \/ (c.disposed = FALSE /\ SetCursor(c, at) = Announced(c, next))
    BY DEF SetCursor, ControllerTyped
<1> HIDE DEF to, range
<1>2. c.disposed = FALSE =>
         /\ Formed(next) /\ next.instance = c.instance /\ next.group = c.group
         /\ next.revision = c.revision /\ next.disposed = FALSE /\ next.seen = c.seen
    BY DEF ControllerTyped, Formed, ControllerFields
<1> HIDE DEF next
<1> QED BY <1>1, <1>2, AnnouncedAnnounces

LEMMA SetSelectionAnnounces ==
    ASSUME NEW c, ControllerTyped(c), NEW ids
    PROVE  LET n == SetSelection(c, ids)
           IN  n = c \/ (Formed(n) /\ Identity(c, n) /\ Announces(c, n))
<1> DEFINE next == [c EXCEPT !.selection = ids]
<1>1. SetSelection(c, ids) = c \/ (c.disposed = FALSE /\ SetSelection(c, ids) = Announced(c, next))
    BY DEF SetSelection, ControllerTyped
<1>2. c.disposed = FALSE =>
         /\ Formed(next) /\ next.instance = c.instance /\ next.group = c.group
         /\ next.revision = c.revision /\ next.disposed = FALSE /\ next.seen = c.seen
    BY DEF ControllerTyped, Formed, ControllerFields
<1> HIDE DEF next
<1> QED BY <1>1, <1>2, AnnouncedAnnounces

LEMMA ApplyFollows ==
    ASSUME NEW c, ControllerTyped(c), NEW e, EventFits(e), c.disposed = FALSE, Newer(c, e)
    PROVE  Formed(Apply(c, e)) /\ Identity(c, Apply(c, e)) /\ Follows(c, Apply(c, e), e)
<1> DEFINE n == Apply(c, e)
<1>1. /\ Formed(n) /\ n.instance = c.instance /\ n.group = c.group /\ n.disposed = FALSE
      /\ n.revision = c.revision /\ n.outbound = c.outbound
      /\ n.seen = [c.seen EXCEPT ![e.source] = e.revision]
      /\ n.range = e.view.range /\ n.cursor = e.view.cursor /\ n.window = e.view.window
      /\ n.selection = e.view.selection
    BY DEF Apply, ControllerTyped, Formed, ControllerFields
<1>2. View(n) = e.view
    BY <1>1 DEF View, EventFits
<1> HIDE DEF n
<1> QED BY <1>1, <1>2 DEF Identity, Follows, n

LEMMA TakeSilences ==
    ASSUME NEW c, ControllerTyped(c)
    PROVE  Formed(TakeOutbound(c)) /\ Identity(c, TakeOutbound(c)) /\ Silences(c, TakeOutbound(c))
<1> DEFINE n == TakeOutbound(c)
<1>1. /\ Formed(n) /\ n.instance = c.instance /\ n.group = c.group /\ n.disposed = c.disposed
      /\ n.revision = c.revision /\ n.outbound = None /\ n.seen = c.seen
      /\ n.range = c.range /\ n.cursor = c.cursor /\ n.window = c.window /\ n.selection = c.selection
    BY DEF TakeOutbound, ControllerTyped, Formed, ControllerFields
<1> HIDE DEF n
<1> QED BY <1>1 DEF Identity, Silences, View, n

LEMMA DisposeSilences ==
    ASSUME NEW c, ControllerTyped(c)
    PROVE  /\ Formed(Dispose(c)) /\ Identity(c, Dispose(c))
           /\ Dispose(c) = c \/ Silences(c, Dispose(c))
<1>1. CASE c.disposed = TRUE
    BY <1>1 DEF Dispose, Identity, ControllerTyped
<1>2. CASE c.disposed = FALSE
    <2> DEFINE n == Dispose(c)
    <2>1. /\ Formed(n) /\ n.instance = c.instance /\ n.group = c.group /\ n.disposed = TRUE
          /\ n.revision = c.revision /\ n.outbound = None /\ n.seen = [s \in Sources |-> 0]
        BY <1>2 DEF Dispose, ControllerTyped, Formed, ControllerFields
    <2> HIDE DEF n
    <2> QED BY <2>1 DEF Identity, Silences, n
<1> QED BY <1>1, <1>2 DEF ControllerTyped

LEMMA AnnouncesTyped ==
    ASSUME NEW c, ControllerTyped(c), NEW n, Formed(n), Identity(c, n), Announces(c, n),
           n.revision <= MaxRevision
    PROVE  ControllerTyped(n)
<1>1. c.revision \in Nat /\ 1 <= c.revision /\ MaxRevision \in Nat
    BY IntAssumption DEF ControllerTyped
<1>2. n.revision \in 1..MaxRevision
    BY <1>1 DEF Announces
<1>3. /\ n.instance \in Sources /\ n.group \in Groups /\ n.group = c.group /\ n.disposed = FALSE
      /\ n.seen \in [Sources -> 0..MaxRevision] /\ n.outbound = IF c.group = 0 THEN None ELSE Event(n)
    BY DEF ControllerTyped, Identity, Announces
<1>4. c.group # 0 => EventTyped(Event(n))
    BY <1>2, <1>3 DEF EventTyped, EventFits, Event, View
<1>5. Event(n).group = n.group /\ Event(n).source = n.instance /\ Event(n).revision = n.revision
    BY DEF Event
<1> QED BY <1>2, <1>3, <1>4, <1>5 DEF ControllerTyped

LEMMA FollowsTyped ==
    ASSUME NEW c, ControllerTyped(c), NEW n, Formed(n), Identity(c, n),
           NEW e, EventFits(e), Follows(c, n, e)
    PROVE  ControllerTyped(n)
<1>1. e.source \in Sources /\ e.revision \in 0..MaxRevision
    BY IntAssumption DEF EventFits
<1>2. n.seen \in [Sources -> 0..MaxRevision]
    BY <1>1 DEF ControllerTyped, Follows
<1> QED BY <1>2 DEF ControllerTyped, Identity, Follows

LEMMA SilencesTyped ==
    ASSUME NEW c, ControllerTyped(c), NEW n, Formed(n), Identity(c, n), Silences(c, n),
           n.disposed \in BOOLEAN
    PROVE  ControllerTyped(n)
<1>1. [s \in Sources |-> 0] \in [Sources -> 0..MaxRevision]
    BY IntAssumption
<1>2. n.seen \in [Sources -> 0..MaxRevision]
    BY <1>1 DEF ControllerTyped, Silences
<1> QED BY <1>2 DEF ControllerTyped, Identity, Silences

-----------------------------------------------------------------------------
(* Steps. *)

LEMMA KnownAreHandles == RegistryInv => lastHandle \in Nat /\ Known \subseteq Handles
BY GroupAssumption DEF RegistryInv, Known, Handles

LEMMA RegistryKeeps ==
    ASSUME RegistryInv, lastHandle' = lastHandle, registered' \subseteq registered,
           controllers' = [h \in Handles |-> controllers'[h]], cause' = [h \in Handles |-> cause'[h]],
           \A h \in Known : ControllerTyped(controllers'[h]) /\ Identity(controllers[h], controllers'[h]),
           \A h \in Handles \ Known : controllers'[h] = controllers[h],
           \A h \in registered \ registered' : controllers'[h].disposed
    PROVE  RegistryInv'
<1>1. Known' = Known /\ registered' \subseteq Known
    BY DEF Known, RegistryInv
<1>2. \A h \in Known \ registered' : controllers'[h].disposed
    BY DEF RegistryInv, Identity
<1>3. IdentitiesUnique'
    <2> SUFFICES ASSUME NEW h \in registered', NEW k \in registered', LiveHandle(h)', LiveHandle(k)',
                        controllers'[h].group # 0, controllers'[h].group = controllers'[k].group,
                        controllers'[h].instance = controllers'[k].instance
                 PROVE  h = k
        BY DEF IdentitiesUnique, Linked
    <2>1. h \in registered /\ k \in registered /\ h \in Known /\ k \in Known
        BY <1>1
    <2>2. LiveHandle(h) /\ LiveHandle(k)
        BY <2>1 DEF LiveHandle, Identity
    <2>3. controllers[h].group # 0 /\ controllers[h].group = controllers[k].group
          /\ controllers[h].instance = controllers[k].instance
        BY <2>1 DEF Identity
    <2> QED BY <2>1, <2>2, <2>3 DEF RegistryInv, IdentitiesUnique, Linked
<1> QED BY <1>1, <1>2, <1>3 DEF RegistryInv, Handles

LEMMA CouriersKeep ==
    ASSUME CouriersTyped, LocksInOrder, UNCHANGED courierVars, lastHandle' \in {lastHandle, lastHandle + 1},
           lastHandle \in Nat
    PROVE  CouriersTyped' /\ LocksInOrder'
<1>1. Known \subseteq Known' /\ Locking' = Locking
    BY DEF Known, Locking, courierVars
<1>2. members \in [Couriers -> SUBSET Known']
    BY <1>1 DEF CouriersTyped
<1> QED BY <1>1, <1>2 DEF CouriersTyped, LocksInOrder, courierVars, Handles

LEMMA HeardStays ==
    ASSUME HeardTyped, heard' = heard, Known \subseteq Known' PROVE HeardTyped'
BY DEF HeardTyped, Handles

LEMMA MovingFits ==
    ASSUME BaseInv, NEW e \in Moving
    PROVE  e.from \in Known /\ e.source \in Sources /\ e.revision \in Nat /\ 1 <= e.revision
<1>1. e.from \in Known /\ EventFits(e)
    BY DEF BaseInv, MovingTyped
<1> QED BY <1>1, IntAssumption DEF EventFits

LEMMA HearingTyped ==
    ASSUME BaseInv, NEW h \in Known, NEW e \in Moving
    PROVE  /\ Hearing(h, e) \in [Handles -> Nat]
           /\ \A k \in Handles : Hearing(h, e)[k] # 0 => k \in Known
           /\ \A k \in Handles : k # e.from => Hearing(h, e)[k] = heard[h][k]
           /\ Hearing(h, e)[e.from] = Greater(heard[h][e.from], e.revision)
<1>1. h \in Handles /\ e.from \in Known /\ e.from \in Handles /\ e.revision \in Nat
    BY KnownAreHandles, MovingFits DEF BaseInv
<1>2. heard[h] \in [Handles -> Nat]
    BY <1>1 DEF BaseInv, HeardTyped
<1>3. heard[h][e.from] \in Nat
    BY <1>1, <1>2
<1>4. Greater(heard[h][e.from], e.revision) \in Nat
    BY <1>1, <1>3 DEF Greater
<1> QED BY <1>1, <1>2, <1>4 DEF Hearing, BaseInv, HeardTyped

LEMMA MovingStays ==
    ASSUME MovingTyped, Known \subseteq Known',
           \A e \in Moving' : e \in Moving \/ (EventFits(e) /\ e.from \in Known)
    PROVE  MovingTyped'
BY DEF MovingTyped

LEMMA PostedFits ==
    ASSUME NEW h, NEW e, EventTyped(e)
    PROVE  /\ EventFits(Posted(h, e)) /\ Posted(h, e).from = h
           /\ Posted(h, e).revision = e.revision /\ Posted(h, e).view = e.view
           /\ Posted(h, e).source = e.source
BY DEF Posted, EventTyped, EventFits

\* One controller is edited, under its mutex.
LEMMA EditKeeps ==
    ASSUME BaseInv, NEW h \in registered, NEW next, Edit(h, next), ControllerTyped(next),
           Identity(controllers[h], next),
           \A e \in wire' : e \in wire \/ (EventFits(e) /\ e.from \in Known)
    PROVE  BaseInv'
<1>1. h \in Known /\ h \in Handles
    BY KnownAreHandles DEF BaseInv, RegistryInv
<1>2. /\ controllers' = [controllers EXCEPT ![h] = next] /\ UNCHANGED <<lastHandle, registered, courierVars, heard>>
      /\ \E to : cause' = [cause EXCEPT ![h] = to]
    BY DEF Edit
<1>3. controllers' = [k \in Handles |-> controllers'[k]] /\ cause' = [k \in Handles |-> cause'[k]]
    BY <1>2 DEF BaseInv, RegistryInv
<1>4. controllers'[h] = next /\ \A k \in Handles : k # h => controllers'[k] = controllers[k]
    BY <1>1, <1>2 DEF BaseInv, RegistryInv
<1>5. \A k \in Known : k \in Handles /\ Identity(controllers[k], controllers[k])
    BY KnownAreHandles DEF BaseInv, Identity
<1>6. RegistryInv'
    BY <1>1, <1>2, <1>3, <1>4, <1>5, RegistryKeeps DEF BaseInv, RegistryInv
<1>7. CouriersTyped' /\ LocksInOrder'
    BY <1>2, CouriersKeep DEF BaseInv, RegistryInv
<1>8. \A e \in Moving' : e \in Moving \/ (EventFits(e) /\ e.from \in Known)
    BY <1>2 DEF Moving, Locking, courierVars
<1>9. Known' = Known
    BY <1>2 DEF Known
<1>10. MovingTyped' /\ HeardTyped'
    BY <1>2, <1>8, <1>9, MovingStays, HeardStays DEF BaseInv
<1> QED BY <1>6, <1>7, <1>10 DEF BaseInv

LEMMA EditIs ==
    ASSUME BaseInv, NEW h, NEW next, Edit(h, next), ControllerTyped(next)
    PROVE  /\ h \in Known /\ lastHandle' = lastHandle /\ courierVars' = courierVars
           /\ controllers'[h] = next /\ heard' = heard
           /\ cause'[h] = IF next.revision # controllers[h].revision THEN Own(h, next) ELSE cause[h]
           /\ \A k \in Known : k # h => Keeps(k) /\ Identity(controllers[k], controllers'[k])
<1>1. h \in Known /\ h \in Handles
    BY KnownAreHandles DEF Edit, BaseInv, RegistryInv
<1>2. /\ controllers' = [controllers EXCEPT ![h] = next]
      /\ cause' = [cause EXCEPT ![h] = IF next.revision # controllers[h].revision THEN Own(h, next) ELSE @]
    BY DEF Edit
<1>3. \A k \in Known : k \in Handles
    BY KnownAreHandles DEF BaseInv
<1>4. \A k \in Handles : k # h => controllers'[k] = controllers[k] /\ cause'[k] = cause[k]
    BY <1>2 DEF BaseInv, RegistryInv
<1>5. controllers'[h] = next
      /\ cause'[h] = IF next.revision # controllers[h].revision THEN Own(h, next) ELSE cause[h]
    BY <1>1, <1>2 DEF BaseInv, RegistryInv
<1> QED BY <1>1, <1>3, <1>4, <1>5 DEF Edit, Keeps, Identity

LEMMA AnnouncingEdit ==
    ASSUME BaseInv, NEW h, NEW next, Edit(h, next), wire' = wire, h \in registered,
           next = controllers[h]
           \/ (Formed(next) /\ Identity(controllers[h], next) /\ Announces(controllers[h], next))
    PROVE  BaseInv' /\ Changes
<1>1. h \in Known /\ ControllerTyped(controllers[h])
    BY DEF BaseInv, RegistryInv
<1>2. ControllerTyped(next) /\ Identity(controllers[h], next)
    BY <1>1, AnnouncesTyped DEF Edit, Identity
<1>3. BaseInv'
    BY <1>2, EditKeeps
<1>4. controllers[h].revision \in Nat
    BY <1>1, IntAssumption DEF ControllerTyped
<1>5. Keeps(h) \/ Says(h)
    BY <1>2, <1>4, EditIs DEF Keeps, Says, Announces
<1>6. Moving' = Moving
    BY <1>2, EditIs DEF Moving, Locking, courierVars
<1> QED BY <1>2, <1>3, <1>5, <1>6, EditIs DEF Changes

LEMMA SilencingEdit ==
    ASSUME BaseInv, NEW h, NEW next, Edit(h, next), h \in registered,
           next = controllers[h]
           \/ (Formed(next) /\ next.disposed \in BOOLEAN /\ Silences(controllers[h], next)),
           Identity(controllers[h], next),
           wire' = wire \/ (/\ h \in Pending /\ wire' = wire \cup {Posted(h, controllers[h].outbound)}
                           /\ Silences(controllers[h], next))
    PROVE  BaseInv' /\ Changes
<1>1. h \in Known /\ ControllerTyped(controllers[h])
    BY DEF BaseInv, RegistryInv
<1>2. ControllerTyped(next)
    BY <1>1, SilencesTyped
<1>3. h \in Pending => EventFits(Posted(h, controllers[h].outbound)) /\ Posted(h, controllers[h].outbound).from \in Known
    BY <1>1, PostedFits DEF Pending, ControllerTyped
<1>4. BaseInv'
    BY <1>2, <1>3, EditKeeps
<1>5. Silences(controllers[h], next) => Quiets(h)
    BY <1>2, EditIs DEF Quiets, Silences
<1>6. Keeps(h) \/ Quiets(h)
    BY <1>2, <1>5, EditIs DEF Keeps
<1>7. \A e \in Moving' : e \in Moving \/ \E k \in Pending : Quiets(k) /\ e = Posted(k, controllers[k].outbound)
    <2>1. Locking' = Locking /\ event' = event
        BY <1>2, EditIs DEF Locking, courierVars
    <2>2. \A e \in wire' : e \in wire \/ \E k \in Pending : Quiets(k) /\ e = Posted(k, controllers[k].outbound)
        BY <1>5
    <2> QED BY <2>1, <2>2 DEF Moving
<1> QED BY <1>2, <1>4, <1>6, <1>7, EditIs DEF Changes

LEMMA MoveCursorKeeps ==
    ASSUME BaseInv, NEW h, MoveCursor(h) PROVE BaseInv' /\ Changes
<1>1. PICK at \in Cursors : Edit(h, SetCursor(controllers[h], at)) /\ wire' = wire
    BY DEF MoveCursor
<1>2. h \in registered /\ ControllerTyped(controllers[h])
    BY <1>1 DEF Edit, BaseInv, RegistryInv
<1> QED BY <1>1, <1>2, SetCursorAnnounces, AnnouncingEdit

LEMMA SelectKeeps ==
    ASSUME BaseInv, NEW h, Select(h) PROVE BaseInv' /\ Changes
<1>1. PICK ids \in Choices : Edit(h, SetSelection(controllers[h], ids)) /\ wire' = wire
    BY DEF Select
<1>2. h \in registered /\ ControllerTyped(controllers[h])
    BY <1>1 DEF Edit, BaseInv, RegistryInv
<1> QED BY <1>1, <1>2, SetSelectionAnnounces, AnnouncingEdit

LEMMA DiscardKeeps ==
    ASSUME BaseInv, NEW h, Discard(h) PROVE BaseInv' /\ Changes
<1>1. Edit(h, Dispose(controllers[h])) /\ wire' = wire
    BY DEF Discard
<1>2. h \in registered /\ ControllerTyped(controllers[h])
    BY <1>1 DEF Edit, BaseInv, RegistryInv
<1>3. Dispose(controllers[h]).disposed \in BOOLEAN
    BY <1>2 DEF Dispose, ControllerTyped, Formed, ControllerFields
<1> QED BY <1>1, <1>2, <1>3, DisposeSilences, SilencingEdit

LEMMA PollKeeps ==
    ASSUME BaseInv, NEW h, PollEvent(h) PROVE BaseInv' /\ Changes
<1>1. /\ Edit(h, TakeOutbound(controllers[h])) /\ wire' = wire \cup {Posted(h, controllers[h].outbound)}
      /\ controllers[h].outbound # None /\ h \in registered
    BY DEF PollEvent
<1>2. h \in Known /\ ControllerTyped(controllers[h])
    BY <1>1 DEF BaseInv, RegistryInv
<1>3. h \in Pending
    BY <1>1, <1>2 DEF Pending
<1>4. TakeOutbound(controllers[h]).disposed \in BOOLEAN
    BY <1>2 DEF TakeOutbound, ControllerTyped, Formed, ControllerFields
<1> QED BY <1>1, <1>2, <1>3, <1>4, TakeSilences, SilencingEdit

\* What a verdict means for an event in transit.
LEMMA VerdictApply ==
    ASSUME NEW c, ControllerTyped(c), NEW e, Verdict(c, e) = "apply"
    PROVE  c.disposed = FALSE /\ Newer(c, e)
BY DEF Verdict, ControllerTyped

\* Steps that leave the controllers alone.
LEMMA QuietSteps ==
    ASSUME BaseInv, UNCHANGED <<lastHandle, controllers, historyVars>>
    PROVE  \A h \in Known : Keeps(h) /\ Identity(controllers[h], controllers'[h])
BY DEF Keeps, Identity, historyVars

LEMMA RegistryStays ==
    ASSUME RegistryInv, HeardTyped, UNCHANGED <<lastHandle, registered, controllers, historyVars>>
    PROVE  RegistryInv' /\ HeardTyped' /\ Known' = Known
<1>1. Known' = Known
    BY DEF Known
<1> QED BY <1>1, HeardStays DEF RegistryInv, Known, Handles, IdentitiesUnique, Linked, LiveHandle, historyVars

LEMMA RemoveKeeps ==
    ASSUME BaseInv, NEW h \in Handles, Remove(h) PROVE BaseInv' /\ Changes
<1>1. /\ registered' \subseteq registered /\ UNCHANGED <<lastHandle, controllers, wire, courierVars, historyVars>>
      /\ \A k \in registered \ registered' : controllers'[k].disposed
    BY DEF Remove
<1>2. RegistryInv'
    BY <1>1, RegistryKeeps DEF BaseInv, RegistryInv, Identity, historyVars
<1>3. CouriersTyped' /\ LocksInOrder'
    BY <1>1, CouriersKeep, KnownAreHandles DEF BaseInv
<1>4. Moving' = Moving /\ Known' = Known
    BY <1>1 DEF Moving, Locking, courierVars, Known
<1>5. MovingTyped' /\ HeardTyped'
    BY <1>1, <1>4, MovingStays, HeardStays DEF BaseInv, historyVars
<1> QED BY <1>1, <1>2, <1>3, <1>4, <1>5, QuietSteps DEF BaseInv, Changes

LEMMA LoseKeeps == ASSUME BaseInv, Lose PROVE BaseInv' /\ Changes
<1>1. wire' \subseteq wire /\ UNCHANGED <<lastHandle, registered, controllers, courierVars, historyVars>>
    BY DEF Lose
<1>2. RegistryInv' /\ HeardTyped' /\ Known' = Known
    BY <1>1, RegistryStays DEF BaseInv
<1>3. CouriersTyped' /\ LocksInOrder'
    BY <1>1, CouriersKeep, KnownAreHandles DEF BaseInv
<1>4. Moving' \subseteq Moving
    BY <1>1 DEF Moving, Locking, courierVars
<1> QED BY <1>1, <1>2, <1>3, <1>4, QuietSteps DEF BaseInv, MovingTyped, Changes

LEMMA ReceiveKeeps ==
    ASSUME BaseInv, NEW h \in Handles, ReceiveEvent(h) PROVE BaseInv' /\ Changes
<1>1. PICK e \in wire :
        /\ controllers' = [controllers EXCEPT ![h] = ApplyEvent(controllers[h], e)]
        /\ IF Verdict(controllers[h], e) = "apply"
           THEN cause' = [cause EXCEPT ![h] = Of(e)] /\ heard' = [heard EXCEPT ![h] = Hearing(h, e)]
           ELSE cause' = cause /\ heard' = heard
    BY DEF ReceiveEvent, historyVars
<1>2. h \in registered /\ UNCHANGED <<lastHandle, registered, wire, courierVars>>
    BY DEF ReceiveEvent
<1>3. h \in Known /\ ControllerTyped(controllers[h]) /\ e \in Moving /\ EventFits(e)
    BY <1>2 DEF BaseInv, RegistryInv, MovingTyped, Moving
<1>4. controllers' = [k \in Handles |-> controllers'[k]] /\ cause' = [k \in Handles |-> cause'[k]]
    BY <1>1 DEF BaseInv, RegistryInv
<1>5. /\ controllers'[h] = ApplyEvent(controllers[h], e)
      /\ IF Verdict(controllers[h], e) = "apply"
         THEN cause'[h] = Of(e) /\ heard'[h] = Hearing(h, e)
         ELSE cause'[h] = cause[h] /\ heard'[h] = heard[h]
      /\ \A k \in Handles : k # h =>
            controllers'[k] = controllers[k] /\ cause'[k] = cause[k] /\ heard'[k] = heard[k]
    BY <1>1 DEF BaseInv, RegistryInv, HeardTyped
<1>6. /\ ControllerTyped(controllers'[h]) /\ Identity(controllers[h], controllers'[h])
      /\ Keeps(h) \/ Hears(h)
    <2>1. CASE Verdict(controllers[h], e) = "apply"
        <3>1. controllers[h].disposed = FALSE /\ Newer(controllers[h], e)
            BY <1>3, <2>1, VerdictApply
        <3>2. controllers'[h] = Apply(controllers[h], e)
            BY <1>5, <2>1 DEF ApplyEvent
        <3>3. /\ Formed(controllers'[h]) /\ Identity(controllers[h], controllers'[h])
              /\ Follows(controllers[h], controllers'[h], e)
            BY <1>3, <3>1, <3>2, ApplyFollows
        <3>4. ControllerTyped(controllers'[h])
            BY <1>3, <3>3, FollowsTyped
        <3>5. Hears(h)
            BY <1>3, <1>5, <2>1, <3>3 DEF Hears
        <3> QED BY <3>3, <3>4, <3>5
    <2>2. CASE Verdict(controllers[h], e) # "apply"
        BY <1>3, <1>5, <2>2 DEF ApplyEvent, Keeps, Identity
    <2> QED BY <2>1, <2>2
<1>7. \A k \in Known : k \in Handles /\ (k # h => Keeps(k))
    BY <1>5, KnownAreHandles DEF BaseInv, Keeps
<1>8. \A k \in Known : ControllerTyped(controllers'[k]) /\ Identity(controllers[k], controllers'[k])
    BY <1>6, <1>7 DEF Keeps, Identity, BaseInv, RegistryInv
<1>9. \A k \in Handles \ Known : controllers'[k] = controllers[k]
    BY <1>3, <1>5
<1>10. RegistryInv'
    BY <1>2, <1>4, <1>8, <1>9, RegistryKeeps DEF BaseInv
<1>11. CouriersTyped' /\ LocksInOrder'
    BY <1>2, CouriersKeep, KnownAreHandles DEF BaseInv
<1>12. Moving' = Moving /\ Known' = Known
    BY <1>2 DEF Moving, Locking, courierVars, Known
<1>13. HeardTyped'
    <2>1. Hearing(h, e) \in [Handles -> Nat] /\ \A k \in Handles : Hearing(h, e)[k] # 0 => k \in Known
        BY <1>3, HearingTyped
    <2>2. heard' \in [Handles -> [Handles -> Nat]]
        BY <1>1, <2>1 DEF BaseInv, HeardTyped
    <2>3. \A m, k \in Handles : heard'[m][k] # 0 => m \in Known /\ k \in Known
        BY <1>3, <1>5, <2>1 DEF BaseInv, HeardTyped
    <2> QED BY <1>12, <2>2, <2>3 DEF HeardTyped, Handles
<1>14. MovingTyped'
    BY <1>12, MovingStays DEF BaseInv
<1> QED BY <1>2, <1>6, <1>7, <1>8, <1>10, <1>11, <1>12, <1>13, <1>14 DEF BaseInv, Changes

LEMMA BeginKeeps ==
    ASSUME BaseInv, NEW d \in Couriers, BeginDelivery(d) PROVE BaseInv' /\ Changes
<1>1. PICK e \in wire : e.group # 0 /\ WellFormed(e) /\ event' = [event EXCEPT ![d] = e]
    BY DEF BeginDelivery
<1>2. /\ pc[d] = "idle" /\ pc' = [pc EXCEPT ![d] = "locking"]
      /\ members' = [members EXCEPT ![d] = registered]
      /\ UNCHANGED <<lastHandle, registered, controllers, wire, lock, historyVars>>
    BY DEF BeginDelivery
<1>3. RegistryInv' /\ HeardTyped'
    BY <1>2, RegistryStays DEF BaseInv
<1>4. Known' = Known /\ registered \subseteq Known
    BY <1>2 DEF Known, BaseInv, RegistryInv
<1>5. /\ event'[d] = e /\ pc'[d] = "locking" /\ Locking' = Locking \cup {d}
      /\ \A k \in Couriers : k # d => event'[k] = event[k] /\ pc'[k] = pc[k] /\ members'[k] = members[k]
    BY <1>1, <1>2 DEF BaseInv, CouriersTyped, Locking
<1>6. CouriersTyped'
    <2>1. members' \in [Couriers -> SUBSET Known']
        BY <1>2, <1>4 DEF BaseInv, CouriersTyped
    <2>2. event' = [k \in Couriers |-> event'[k]] /\ pc' \in [Couriers -> {"idle", "locking"}]
        BY <1>1, <1>2 DEF BaseInv, CouriersTyped
    <2>3. \A k \in Locking' : event'[k].group # 0 /\ WellFormed(event'[k])
        BY <1>1, <1>5 DEF BaseInv, CouriersTyped, Locking
    <2> QED BY <1>2, <2>1, <2>2, <2>3 DEF BaseInv, CouriersTyped, Handles
<1>7. LocksInOrder'
    <2>1. \A h \in Handles : lock[h] # d
        BY <1>2, GroupAssumption DEF BaseInv, LocksInOrder
    <2>2. \A h \in Handles : lock[h] # None => lock[h] \in Couriers
        BY DEF BaseInv, CouriersTyped
    <2> QED BY <1>2, <1>5, <2>1, <2>2 DEF BaseInv, LocksInOrder, Handles
<1>8. Moving' \subseteq Moving
    BY <1>2, <1>5 DEF Moving, Locking
<1>9. MovingTyped'
    BY <1>4, <1>8, MovingStays DEF BaseInv
<1> QED BY <1>2, <1>3, <1>6, <1>7, <1>8, <1>9, QuietSteps DEF BaseInv, Changes

LEMMA LockKeeps ==
    ASSUME BaseInv, NEW d \in Couriers, LockMember(d) PROVE BaseInv' /\ Changes
<1>1. PICK h \in Unlocked(d) :
        (\A k \in Unlocked(d) : h <= k) /\ lock[h] = None /\ lock' = [lock EXCEPT ![h] = d]
    BY DEF LockMember
<1>2. pc[d] = "locking" /\ UNCHANGED <<lastHandle, registered, controllers, wire, pc, event, members, historyVars>>
    BY DEF LockMember
<1>3. h \in members[d] /\ members[d] \subseteq Known /\ Known \subseteq Handles
    BY KnownAreHandles DEF BaseInv, CouriersTyped, Unlocked
<1>4. RegistryInv' /\ HeardTyped' /\ Known' = Known
    BY <1>2, RegistryStays DEF BaseInv
<1>5. Locking' = Locking /\ Moving' = Moving
    BY <1>2 DEF Moving, Locking
<1>6. CouriersTyped'
    BY <1>1, <1>2, <1>3, <1>5 DEF BaseInv, CouriersTyped, Known, Handles
<1>7. LocksInOrder'
    <2>1. lock'[h] = d /\ \A k \in Handles : k # h => lock'[k] = lock[k]
        BY <1>1, <1>3 DEF BaseInv, CouriersTyped
    <2>2. \A k \in members[d] : k < h => lock[k] = d
        <3> SUFFICES ASSUME NEW k \in members[d], k < h, lock[k] # d PROVE FALSE
            OBVIOUS
        <3>1. k \in Unlocked(d) /\ k \in Nat /\ h \in Nat
            BY <1>3 DEF Unlocked, Known
        <3> QED BY <1>1, <3>1
    <2> SUFFICES ASSUME NEW k \in Handles, lock'[k] # None
                 PROVE  /\ k \in members'[lock'[k]] /\ pc'[lock'[k]] = "locking"
                        /\ \A m \in members'[lock'[k]] : m < k => lock'[m] = lock'[k]
        BY DEF LocksInOrder, Handles
    <2>3. CASE k = h
        BY <1>2, <1>3, <2>1, <2>2, <2>3
    <2>4. CASE k # h
        <3>1. lock'[k] = lock[k] /\ lock[k] # None
            BY <2>1, <2>4
        <3>2. lock[k] \in Couriers /\ members[lock[k]] \subseteq Handles
            BY <3>1, KnownAreHandles DEF BaseInv, CouriersTyped
        <3>3. \A m \in members[lock[k]] : m < k => lock[m] = lock[k] /\ m # h
            BY <1>1, <3>1 DEF BaseInv, LocksInOrder
        <3> QED BY <1>2, <2>1, <3>1, <3>2, <3>3 DEF BaseInv, LocksInOrder
    <2> QED BY <2>3, <2>4
<1> QED BY <1>2, <1>4, <1>5, <1>6, <1>7, QuietSteps DEF BaseInv, MovingTyped, Changes

\* Those a delivery reaches apply the event, the others stay as they are.
LEMMA DeliverReaches ==
    ASSUME BaseInv, NEW d \in Couriers, Deliver(d)
    PROVE  \A h \in Known :
              /\ ControllerTyped(controllers'[h]) /\ Identity(controllers[h], controllers'[h])
              /\ Keeps(h) \/ Hears(h)
<1> SUFFICES ASSUME NEW h \in Known
             PROVE  /\ ControllerTyped(controllers'[h]) /\ Identity(controllers[h], controllers'[h])
                    /\ Keeps(h) \/ Hears(h)
    OBVIOUS
<1> DEFINE e == event[d]
<1>1. h \in Handles /\ ControllerTyped(controllers[h])
    BY KnownAreHandles DEF BaseInv, RegistryInv
<1>2. e \in Moving /\ EventFits(e)
    BY DEF Deliver, Locking, Moving, BaseInv, MovingTyped
<1>3. /\ controllers'[h] = IF h \in Eligible(d) THEN Apply(controllers[h], e) ELSE controllers[h]
      /\ cause'[h] = IF h \in Eligible(d) THEN Of(e) ELSE cause[h]
      /\ heard'[h] = IF h \in Eligible(d) THEN Hearing(h, e) ELSE heard[h]
    BY <1>1 DEF Deliver
<1>4. CASE h \in Eligible(d)
    <2>1. Verdict(controllers[h], e) = "apply"
        BY <1>4 DEF Eligible, Answers
    <2> HIDE DEF e
    <2>2. controllers[h].disposed = FALSE /\ Newer(controllers[h], e)
        BY <1>1, <2>1, VerdictApply
    <2>3. /\ Formed(controllers'[h]) /\ Identity(controllers[h], controllers'[h])
          /\ Follows(controllers[h], controllers'[h], e)
        BY <1>1, <1>2, <1>3, <1>4, <2>2, ApplyFollows
    <2>4. ControllerTyped(controllers'[h])
        BY <1>1, <1>2, <2>3, FollowsTyped
    <2> QED BY <1>2, <1>3, <1>4, <2>3, <2>4 DEF Hears
<1>5. CASE h \notin Eligible(d)
    BY <1>1, <1>3, <1>5 DEF Keeps, Identity
<1> QED BY <1>4, <1>5

LEMMA DeliverKeeps ==
    ASSUME BaseInv, NEW d \in Couriers, Deliver(d) PROVE BaseInv' /\ Changes
<1>1. /\ controllers' = [h \in Handles |-> controllers'[h]] /\ cause' = [h \in Handles |-> cause'[h]]
      /\ \A h \in Handles : h \notin Eligible(d) => controllers'[h] = controllers[h]
    BY DEF Deliver
<1>2. Eligible(d) \subseteq Known
    BY DEF Eligible, Answers, Addressed, BaseInv, CouriersTyped
<1>3. /\ pc[d] = "locking" /\ pc' = [pc EXCEPT ![d] = "idle"] /\ members' = [members EXCEPT ![d] = {}]
      /\ event' = [event EXCEPT ![d] = None] /\ UNCHANGED <<lastHandle, registered, wire>>
      /\ lock' = [h \in Handles |-> IF lock[h] = d THEN None ELSE lock[h]]
    BY DEF Deliver
<1>4. RegistryInv'
    BY <1>1, <1>2, <1>3, DeliverReaches, RegistryKeeps DEF BaseInv
<1>5. /\ Locking' = Locking \ {d} /\ pc'[d] = "idle"
      /\ \A k \in Couriers : k # d => event'[k] = event[k] /\ pc'[k] = pc[k] /\ members'[k] = members[k]
    BY <1>3 DEF BaseInv, CouriersTyped, Locking
<1>6. CouriersTyped'
    <2>1. lock' \in [Handles -> Couriers \cup {None}] /\ pc' \in [Couriers -> {"idle", "locking"}]
        BY <1>3 DEF BaseInv, CouriersTyped
    <2>2. members' \in [Couriers -> SUBSET Known'] /\ event' = [k \in Couriers |-> event'[k]]
        BY <1>3 DEF BaseInv, CouriersTyped, Known
    <2>3. \A k \in Locking' : event'[k].group # 0 /\ WellFormed(event'[k])
        BY <1>5 DEF BaseInv, CouriersTyped, Locking
    <2> QED BY <2>1, <2>2, <2>3 DEF CouriersTyped, Handles
<1>7. LocksInOrder'
    <2> SUFFICES ASSUME NEW h \in Handles, lock'[h] # None
                 PROVE  /\ h \in members'[lock'[h]] /\ pc'[lock'[h]] = "locking"
                        /\ \A k \in members'[lock'[h]] : k < h => lock'[k] = lock'[h]
        BY DEF LocksInOrder, Handles
    <2>1. lock[h] # d /\ lock'[h] = lock[h] /\ lock[h] \in Couriers
        BY <1>3 DEF BaseInv, CouriersTyped
    <2>2. \A k \in members[lock[h]] : k \in Handles
        BY <2>1, KnownAreHandles DEF BaseInv, CouriersTyped
    <2>3. /\ h \in members[lock[h]] /\ pc[lock[h]] = "locking"
          /\ \A k \in members[lock[h]] : k < h => lock[k] = lock[h]
        BY <2>1 DEF BaseInv, LocksInOrder
    <2> QED BY <1>3, <1>5, <2>1, <2>2, <2>3
<1>8. Moving' \subseteq Moving /\ Known' = Known
    BY <1>3, <1>5 DEF Moving, Locking, Known
<1>9. HeardTyped'
    <2>1. event[d] \in Moving
        BY DEF Deliver, Locking, Moving
    <2>2. \A h \in Handles :
            heard'[h] \in [Handles -> Nat] /\ \A k \in Handles : heard'[h][k] # 0 => h \in Known /\ k \in Known
        BY <1>2, <2>1, HearingTyped DEF Deliver, BaseInv, HeardTyped
    <2>3. heard' \in [Handles -> [Handles -> Nat]]
        BY <2>2 DEF Deliver
    <2> QED BY <1>8, <2>2, <2>3 DEF HeardTyped, Handles
<1>10. MovingTyped'
    BY <1>8, MovingStays DEF BaseInv
<1> QED BY <1>3, <1>4, <1>6, <1>7, <1>8, <1>9, <1>10, DeliverReaches DEF BaseInv, Changes

-----------------------------------------------------------------------------
(* A new controller. *)

LEMMA InsertIs ==
    ASSUME BaseInv, Insert
    PROVE  LET n == lastHandle + 1
               c == controllers'[n]
           IN  /\ lastHandle' = n /\ registered' = registered \cup {n} /\ n \in Handles /\ n \notin Known
               /\ Known' = Known \cup {n} /\ UNCHANGED <<wire, courierVars, heard>>
               /\ ControllerTyped(c) /\ c.revision = 1 /\ c.outbound = None /\ c.disposed = FALSE
               /\ c.seen = [s \in Sources |-> 0] /\ cause'[n] = Own(n, c)
               /\ (c.group # 0 => ~InUse(c.instance, c.group))
               /\ controllers' = [h \in Handles |-> controllers'[h]] /\ cause' = [h \in Handles |-> cause'[h]]
               /\ \A h \in Handles : h # n => controllers'[h] = controllers[h] /\ cause'[h] = cause[h]
<1> DEFINE n == lastHandle + 1
<1>1. lastHandle < MaxHandles /\ lastHandle' = n /\ registered' = registered \cup {n}
      /\ UNCHANGED <<wire, courierVars, heard>>
    BY DEF Insert
<1>2. lastHandle \in Nat /\ n \in Handles /\ n \notin Known /\ Known' = Known \cup {n}
    BY <1>1, GroupAssumption DEF BaseInv, RegistryInv, Known, Handles
<1>3. PICK s \in Sources, g \in Groups, d \in DomainsOf[n] :
        /\ g = 0 \/ ~InUse(s, g)
        /\ controllers' = [controllers EXCEPT ![n] = Create(s, g, d, d.start, 0, 1, 1, RateUnit, FALSE, FALSE)]
        /\ cause' = [cause EXCEPT ![n] = Own(n, Create(s, g, d, d.start, 0, 1, 1, RateUnit, FALSE, FALSE))]
    BY DEF Insert
<1> DEFINE c == Create(s, g, d, d.start, 0, 1, 1, RateUnit, FALSE, FALSE)
<1>4. /\ Formed(c) /\ c.instance = s /\ c.group = g /\ c.revision = 1 /\ c.disposed = FALSE
      /\ c.seen = [x \in Sources |-> 0] /\ c.outbound = None
    BY DEF Create, Formed, ControllerFields
<1> HIDE DEF c
<1>5. ControllerTyped(c)
    <2>1. c.seen \in [Sources -> 0..MaxRevision] /\ c.revision \in 1..MaxRevision
        BY <1>4, IntAssumption
    <2> QED BY <1>4, <2>1 DEF ControllerTyped
<1>6. /\ controllers'[n] = c /\ cause'[n] = Own(n, c)
      /\ controllers' = [h \in Handles |-> controllers'[h]] /\ cause' = [h \in Handles |-> cause'[h]]
      /\ \A h \in Handles : h # n => controllers'[h] = controllers[h] /\ cause'[h] = cause[h]
    BY <1>2, <1>3 DEF BaseInv, RegistryInv, c
<1> HIDE DEF n
<1> QED BY <1>1, <1>2, <1>3, <1>4, <1>5, <1>6 DEF n

LEMMA InsertKeeps == ASSUME BaseInv, Insert PROVE BaseInv'
<1> DEFINE n == lastHandle + 1
           c == controllers'[n]
<1>1. /\ lastHandle' = n /\ registered' = registered \cup {n} /\ n \in Handles /\ n \notin Known
      /\ Known' = Known \cup {n} /\ UNCHANGED <<wire, courierVars, heard>>
      /\ ControllerTyped(c) /\ c.disposed = FALSE /\ (c.group # 0 => ~InUse(c.instance, c.group))
      /\ controllers' = [h \in Handles |-> controllers'[h]] /\ cause' = [h \in Handles |-> cause'[h]]
      /\ \A h \in Handles : h # n => controllers'[h] = controllers[h]
    BY InsertIs
<1>2. lastHandle' \in {lastHandle, lastHandle + 1} /\ lastHandle \in Nat /\ lastHandle' \in 0..MaxHandles
    BY <1>1, GroupAssumption, KnownAreHandles DEF BaseInv, Handles
<1> HIDE DEF n, c
<1>3. \A h \in Known : h \in Handles /\ h # n /\ controllers'[h] = controllers[h]
    BY <1>1, KnownAreHandles DEF BaseInv
<1>4. IdentitiesUnique'
    <2>1. ASSUME NEW h \in registered, LiveHandle(h)', controllers'[h].group # 0,
                 controllers'[h].group = c.group, controllers'[h].instance = c.instance
          PROVE  FALSE
        BY <1>1, <1>3, <2>1 DEF BaseInv, RegistryInv, LiveHandle, InUse
    <2>2. ASSUME NEW h \in registered, NEW k \in registered, LiveHandle(h)', LiveHandle(k)',
                 controllers'[h].group # 0, controllers'[h].group = controllers'[k].group,
                 controllers'[h].instance = controllers'[k].instance
          PROVE  h = k
        <3>1. LiveHandle(h) /\ LiveHandle(k) /\ controllers'[h] = controllers[h] /\ controllers'[k] = controllers[k]
            BY <1>3, <2>2 DEF BaseInv, RegistryInv, LiveHandle
        <3> QED BY <2>2, <3>1 DEF BaseInv, RegistryInv, IdentitiesUnique, Linked
    <2> QED BY <1>1, <2>1, <2>2 DEF IdentitiesUnique, Linked, c
<1>5. RegistryInv'
    <2>1. \A h \in Known' : ControllerTyped(controllers'[h])
        BY <1>1, <1>3 DEF BaseInv, RegistryInv, c
    <2>2. \A h \in Handles \ Known' : controllers'[h] = None
        BY <1>1 DEF BaseInv, RegistryInv
    <2>3. \A h \in Known' \ registered' : controllers'[h].disposed
        BY <1>1, <1>3 DEF BaseInv, RegistryInv
    <2>4. registered' \subseteq Known'
        BY <1>1 DEF BaseInv, RegistryInv
    <2> QED BY <1>1, <1>2, <1>4, <2>1, <2>2, <2>3, <2>4 DEF RegistryInv, Handles
<1>6. CouriersTyped' /\ LocksInOrder'
    BY <1>1, <1>2, CouriersKeep DEF BaseInv
<1>7. Moving' = Moving
    BY <1>1 DEF Moving, Locking, courierVars
<1>8. MovingTyped' /\ HeardTyped'
    BY <1>1, <1>7, MovingStays, HeardStays DEF BaseInv
<1> QED BY <1>5, <1>6, <1>8 DEF BaseInv

LEMMA GroupOpens == GroupInit => BaseInv
<1> SUFFICES ASSUME GroupInit PROVE BaseInv
    OBVIOUS
<1>1. Known = {} /\ Locking = {} /\ Moving = {} /\ lastHandle = 0 /\ registered = {}
    BY DEF GroupInit, Known, Locking, Moving
<1>2. RegistryInv
    BY <1>1, GroupAssumption DEF GroupInit, RegistryInv, IdentitiesUnique
<1>3. CouriersTyped
    BY <1>1 DEF GroupInit, CouriersTyped
<1>4. LocksInOrder /\ MovingTyped /\ HeardTyped
    BY <1>1 DEF GroupInit, LocksInOrder, MovingTyped, HeardTyped
<1> QED BY <1>2, <1>3, <1>4 DEF BaseInv

LEMMA GroupStep == BaseInv /\ [GroupNext]_groupVars => BaseInv' /\ (Changes \/ Insert)
<1> SUFFICES ASSUME BaseInv, [GroupNext]_groupVars PROVE BaseInv' /\ (Changes \/ Insert)
    OBVIOUS
<1>1. CASE Insert
    BY <1>1, InsertKeeps
<1>2. CASE \E h \in Handles : MoveCursor(h) \/ Select(h) \/ Discard(h) \/ PollEvent(h) \/ Remove(h) \/ ReceiveEvent(h)
    BY <1>2, MoveCursorKeeps, SelectKeeps, DiscardKeeps, PollKeeps, RemoveKeeps, ReceiveKeeps
<1>3. CASE Lose
    BY <1>3, LoseKeeps
<1>4. CASE \E d \in Couriers : BeginDelivery(d) \/ CourierStep(d)
    BY <1>4, BeginKeeps, LockKeeps, DeliverKeeps DEF CourierStep
<1>5. CASE UNCHANGED groupVars
    <2>1. UNCHANGED <<lastHandle, registered, controllers, wire, lock, pc, event, members, historyVars>>
        BY <1>5 DEF groupVars
    <2>2. RegistryInv' /\ HeardTyped' /\ Known' = Known /\ CouriersTyped' /\ LocksInOrder'
        BY <2>1, RegistryStays, CouriersKeep, KnownAreHandles DEF BaseInv, courierVars
    <2>3. Moving' = Moving
        BY <2>1 DEF Moving, Locking
    <2> QED BY <2>1, <2>2, <2>3, QuietSteps DEF BaseInv, MovingTyped, Changes
<1> QED BY <1>1, <1>2, <1>3, <1>4, <1>5 DEF GroupNext

\* Of the handles somebody waits for, the largest is held by a courier that
\* waits for none: it would wait for a larger one.
LEMMA NoCircle == BaseInv => DeliveriesProgress
<1> DEFINE next(d) == {h \in Unlocked(d) : \A k \in Unlocked(d) : h <= k}
           Waited == {h \in Handles : lock[h] # None /\ \E d \in Locking : h \in next(d)}
<1> SUFFICES ASSUME BaseInv, Locking # {}, \A d \in Locking : \E h \in next(d) : lock[h] # None PROVE FALSE
    BY DEF DeliveriesProgress, Locking
<1>1. \A d \in Locking : next(d) \subseteq Handles /\ next(d) \subseteq members[d]
    BY KnownAreHandles DEF BaseInv, CouriersTyped, Locking, Unlocked
<1>2. Waited # {} /\ Waited \subseteq Nat /\ \A h \in Waited : MaxHandles - h \in Nat
    BY <1>1, GroupAssumption DEF Handles
<1> DEFINE Left == {MaxHandles - h : h \in Waited}
<1>3. Left # {} /\ Left \subseteq Nat
    BY <1>2
<1>4. PICK n \in Left : \A k \in Left : ~ (<<k, n>> \in OpToRel(<, Nat))
    BY <1>3, NatLessThanWellFounded, WFMin
<1>5. \A i, j \in Nat : i < j => <<i, j>> \in OpToRel(<, Nat)
    BY DEF OpToRel
<1>6. \A k \in Left : ~ (k < n)
    BY <1>3, <1>4, <1>5
<1>7. PICK h \in Waited : n = MaxHandles - h
    BY <1>4
<1>8. \A k \in Waited : k <= h
    <2> SUFFICES ASSUME NEW k \in Waited PROVE k <= h
        OBVIOUS
    <2>1. MaxHandles - k \in Left /\ k \in Nat /\ h \in Nat /\ MaxHandles \in Nat
        BY <1>2, GroupAssumption
    <2> HIDE DEF Left, Waited
    <2>2. ~ (MaxHandles - k < MaxHandles - h)
        BY <1>6, <1>7, <2>1
    <2> QED BY <2>1, <2>2
<1> DEFINE d == lock[h]
<1>9. d \in Locking /\ h \in members[d] /\ \A k \in members[d] : k < h => lock[k] = d
    BY <1>7 DEF BaseInv, LocksInOrder, CouriersTyped, Locking
<1>10. PICK k \in next(d) : lock[k] # None
    BY <1>9
<1>11. k \in Waited /\ k \in members[d] /\ lock[k] # d
    BY <1>1, <1>9, <1>10 DEF Unlocked
<1>12. ~ (k < h) /\ k # h
    BY <1>9, <1>11
<1> QED BY <1>2, <1>7, <1>8, <1>11, <1>12

LEMMA AddressedLive ==
    ASSUME BaseInv, NEW d \in Couriers
    PROVE  \A h \in Addressed(d) : controllers[h].disposed = FALSE
BY DEF BaseInv, CouriersTyped, RegistryInv, ControllerTyped, Addressed

LEMMA DeliverAll ==
    ASSUME BaseInv, NEW d \in Couriers, Deliver(d)
    PROVE  LET news == {h \in Addressed(d) : Newer(controllers[h], event[d])}
           IN  \/ \A h \in news : controllers'[h] = Apply(controllers[h], event[d])
               \/ /\ controllers' = controllers
                  /\ \E h \in news : ~Within(event[d].view.range, controllers[h].domain)
<1> DEFINE e == event[d]
           news == {h \in Addressed(d) : Newer(controllers[h], e)}
<1>1. e.group # 0 /\ WellFormed(e)
    BY DEF Deliver, BaseInv, CouriersTyped, Locking
<1>2. Addressed(d) \subseteq Handles
    BY KnownAreHandles DEF Addressed, BaseInv, CouriersTyped
<1> HIDE DEF e
<1>3. \A h \in news : Verdict(controllers[h], e) = IF Within(e.view.range, controllers[h].domain) THEN "apply" ELSE "invalid"
    BY <1>1 DEF Addressed, Verdict, e
<1>4. \A h \in Addressed(d) : Verdict(controllers[h], e) = "invalid" =>
         h \in news /\ ~Within(e.view.range, controllers[h].domain)
    <2> SUFFICES ASSUME NEW h \in Addressed(d), Verdict(controllers[h], e) = "invalid"
                 PROVE  h \in news /\ ~Within(e.view.range, controllers[h].domain)
        OBVIOUS
    <2>1. /\ controllers[h].group = e.group /\ controllers[h].instance # e.source
          /\ controllers[h].disposed = FALSE
        BY AddressedLive DEF Addressed, e
    <2>2. Newer(controllers[h], e)
        BY <1>1, <2>1 DEF Verdict
    <2>3. ~Within(e.view.range, controllers[h].domain)
        BY <1>1, <2>1, <2>2 DEF Verdict
    <2> QED BY <2>2, <2>3
<1>5. CASE Answers(d, "invalid") = {}
    <2>1. \A h \in news : h \in Eligible(d) /\ h \in Handles
        BY <1>2, <1>3, <1>5 DEF Eligible, Answers, e
    <2>2. \A h \in news : controllers'[h] = Apply(controllers[h], event[d])
        BY <2>1 DEF Deliver
    <2> QED BY <2>2 DEF e
<1>6. CASE Answers(d, "invalid") # {}
    <2>1. PICK h \in Addressed(d) : Verdict(controllers[h], e) = "invalid"
        BY <1>6 DEF Answers, e
    <2>2. controllers' = controllers
        BY <1>6 DEF Deliver, Eligible, BaseInv, RegistryInv
    <2> QED BY <1>4, <2>1, <2>2 DEF e
<1> QED BY <1>5, <1>6

LEMMA AllOrNothing ==
    BaseInv /\ [GroupNext]_groupVars =>
        \A d \in Couriers : pc[d] = "locking" /\ pc'[d] = "idle" =>
         LET news == {h \in Addressed(d) : Newer(controllers[h], event[d])}
         IN  \/ \A h \in news : controllers'[h] = Apply(controllers[h], event[d])
             \/ /\ controllers' = controllers
                /\ \E h \in news : ~Within(event[d].view.range, controllers[h].domain)
<1> SUFFICES ASSUME BaseInv, [GroupNext]_groupVars, NEW d \in Couriers, pc[d] = "locking", pc'[d] = "idle"
             PROVE  Deliver(d)
    BY DeliverAll
<1>1. pc' # pc
    OBVIOUS
<1>2. ~Insert /\ ~Lose /\ pc' # pc
    BY <1>1 DEF Insert, Lose, courierVars
<1>3. \A h \in Handles : ~MoveCursor(h) /\ ~Select(h) /\ ~Discard(h) /\ ~PollEvent(h) /\ ~Remove(h) /\ ~ReceiveEvent(h)
    BY <1>1 DEF MoveCursor, Select, Discard, PollEvent, Edit, Remove, ReceiveEvent, courierVars
<1>4. \A k \in Couriers : ~LockMember(k) /\ ~BeginDelivery(k)
    BY <1>1 DEF LockMember, BeginDelivery, BaseInv, CouriersTyped
<1>5. \A k \in Couriers : Deliver(k) => k = d
    BY DEF Deliver, BaseInv, CouriersTyped
<1> QED BY <1>1, <1>2, <1>3, <1>4, <1>5 DEF GroupNext, CourierStep, groupVars

-----------------------------------------------------------------------------
(* What is known of a source: the history. *)

LEMMA RevisionsGrow ==
    ASSUME BaseInv, Changes
    PROVE  \A h \in Known : /\ controllers[h].revision \in Nat /\ controllers'[h].revision \in Nat
                            /\ controllers[h].revision <= controllers'[h].revision
<1> SUFFICES ASSUME NEW h \in Known
             PROVE  /\ controllers[h].revision \in Nat /\ controllers'[h].revision \in Nat
                    /\ controllers[h].revision <= controllers'[h].revision
    OBVIOUS
<1>1. controllers[h].revision \in Nat
    BY IntAssumption DEF BaseInv, RegistryInv, ControllerTyped
<1>2. controllers'[h].revision \in {controllers[h].revision, controllers[h].revision + 1}
    BY DEF Changes, Keeps, Says, Hears, Quiets, Announces, Follows, Silences
<1> QED BY <1>1, <1>2

LEMMA BehindStays ==
    ASSUME BaseInv, Changes, NEW k \in Known, NEW n \in Nat, Behind(n, controllers[k]) PROVE Behind(n, controllers'[k])
<1>1. /\ controllers[k].revision \in Nat /\ controllers'[k].revision \in Nat
      /\ controllers[k].revision <= controllers'[k].revision
    BY RevisionsGrow
<1>2. CASE Keeps(k)
    BY <1>2 DEF Keeps, Behind
<1>3. CASE Says(k)
    BY <1>1, <1>3 DEF Says, Announces, Behind
<1>4. CASE Hears(k)
    BY <1>4 DEF Hears, Follows, Behind
<1>5. CASE Quiets(k)
    BY <1>5 DEF Quiets, Silences, Behind
<1> QED BY <1>2, <1>3, <1>4, <1>5 DEF Changes

LEMMA NamesStay ==
    ASSUME Changes
    PROVE  Known' = Known /\ \A h \in Known : controllers'[h].instance = controllers[h].instance
BY DEF Changes, Known, Identity

LEMMA ShowingStays ==
    ASSUME BaseInv, Changes, NEW h \in Showing' PROVE h \in Showing /\ h \in Known
<1>1. h \in Known /\ controllers'[h].disposed = FALSE
    BY NamesStay DEF Showing
<1>2. controllers[h].disposed \in BOOLEAN
    BY <1>1 DEF BaseInv, RegistryInv, ControllerTyped
<1> QED BY <1>1, <1>2 DEF Changes, Identity, Showing

\* The only new facts are announcements.
LEMMA FactsCome ==
    ASSUME BaseInv, Changes
    PROVE  \A f \in Facts' : \/ f \in Facts
                             \/ \E h \in Known : /\ Says(h) /\ f.from = h
                                                 /\ f.revision = controllers'[h].revision
                                                 /\ f.view = View(controllers'[h])
<1> DEFINE New(f) == \E h \in Known : /\ Says(h) /\ f.from = h
                                      /\ f.revision = controllers'[h].revision
                                      /\ f.view = View(controllers'[h])
<1>1. Known' = Known
    BY NamesStay
<1>2. ASSUME NEW e \in Moving' PROVE Fact(e.from, e.revision, e.view) \in Facts
    <2>1. CASE e \in Moving
        BY <2>1 DEF Facts
    <2>2. CASE e \notin Moving
        <3>1. PICK h \in Pending : e = Posted(h, controllers[h].outbound)
            BY <1>2, <2>2 DEF Changes
        <3>2. Fact(e.from, e.revision, e.view) = QueuedAs(h)
            BY <3>1 DEF Posted, QueuedAs
        <3> QED BY <3>2 DEF Facts
    <2> QED BY <2>1, <2>2
<1>3. ASSUME NEW h \in Pending' PROVE QueuedAs(h)' \in Facts \/ New(QueuedAs(h)')
    <2>1. h \in Known /\ controllers'[h].outbound # None
        BY <1>1, <1>3 DEF Pending
    <2>2. controllers'[h].outbound = controllers[h].outbound => QueuedAs(h)' \in Facts
        BY <2>1 DEF Pending, Facts, QueuedAs
    <2>3. CASE Keeps(h)
        BY <2>2, <2>3 DEF Keeps
    <2>4. CASE Says(h)
        <3>1. controllers'[h].outbound = Event(controllers'[h])
            BY <2>1, <2>4 DEF Says, Announces
        <3>2. QueuedAs(h)' = Fact(h, controllers'[h].revision, View(controllers'[h]))
            BY <3>1 DEF QueuedAs, Event
        <3> QED BY <2>1, <2>4, <3>2 DEF Fact
    <2>5. CASE Hears(h)
        BY <2>2, <2>5 DEF Hears, Follows
    <2>6. CASE Quiets(h)
        BY <2>1, <2>6 DEF Quiets, Silences
    <2> QED BY <2>1, <2>3, <2>4, <2>5, <2>6 DEF Changes
<1>4. ASSUME NEW h \in Showing' PROVE ShownAs(h)' \in Facts \/ New(ShownAs(h)')
    <2>1. h \in Showing /\ h \in Known
        BY <1>4, ShowingStays
    <2>2. View(controllers'[h]) = View(controllers[h]) /\ cause'[h] = cause[h] => ShownAs(h)' \in Facts
        BY <2>1 DEF ShownAs, Facts
    <2>3. CASE Keeps(h)
        BY <2>2, <2>3 DEF Keeps
    <2>4. CASE Says(h)
        <3>1. ShownAs(h)' = Fact(h, controllers'[h].revision, View(controllers'[h]))
            BY <2>4 DEF Says, ShownAs, Own
        <3> QED BY <2>1, <2>4, <3>1 DEF Fact
    <2>5. CASE Hears(h)
        <3>1. PICK e \in Moving : Follows(controllers[h], controllers'[h], e) /\ cause'[h] = Of(e)
            BY <2>5 DEF Hears
        <3>2. ShownAs(h)' = Fact(e.from, e.revision, e.view)
            BY <3>1 DEF ShownAs, Follows, Of
        <3> QED BY <3>2 DEF Facts
    <2>6. CASE Quiets(h)
        <3>1. controllers'[h].disposed = FALSE
            BY <1>4 DEF Showing
        <3> QED BY <2>2, <2>6, <3>1 DEF Quiets, Silences
    <2> QED BY <2>1, <2>3, <2>4, <2>5, <2>6 DEF Changes
<1>5. Facts' = {Fact(e.from, e.revision, e.view) : e \in Moving'}
                  \cup {QueuedAs(h)' : h \in Pending'} \cup {ShownAs(h)' : h \in Showing'}
    BY DEF Facts
<1> HIDE DEF New
<1>6. \A f \in Facts' : f \in Facts \/ New(f)
    BY <1>2, <1>3, <1>4, <1>5
<1> QED BY <1>6 DEF New

LEMMA SaidIs ==
    ASSUME BaseInv, NEW h \in Known, Says(h)
    PROVE  /\ controllers[h].revision \in Nat /\ 1 <= controllers[h].revision
           /\ controllers'[h].revision = controllers[h].revision + 1
<1>1. controllers[h].revision \in 1..MaxRevision
    BY DEF BaseInv, RegistryInv, ControllerTyped
<1> QED BY <1>1, IntAssumption DEF Says, Announces

LEMMA SourcedStays == ASSUME BaseInv, Sourced, Changes PROVE Sourced'
<1> SUFFICES ASSUME NEW f \in Facts' PROVE f.from \in Known /\ f.revision \in 1..controllers'[f.from].revision
    BY NamesStay DEF Sourced
<1>1. CASE f \in Facts
    <2>1. f.from \in Known /\ f.revision \in 1..controllers[f.from].revision
        BY <1>1 DEF Sourced
    <2> QED BY <2>1, RevisionsGrow
<1>2. CASE f \notin Facts
    <2>1. PICK h \in Known : Says(h) /\ f.from = h /\ f.revision = controllers'[h].revision
        BY <1>2, FactsCome
    <2> QED BY <2>1, SaidIs
<1> QED BY <1>1, <1>2

LEMMA OneViewStays == ASSUME BaseInv, Sourced, OneView, Changes PROVE OneView'
<1> SUFFICES ASSUME NEW e \in Facts', NEW f \in Facts', e.from = f.from, e.revision = f.revision
             PROVE  e.view = f.view
    BY DEF OneView
<1>1. ASSUME NEW g \in Facts, NEW h \in Known, Says(h), g.from = h, g.revision = controllers'[h].revision
      PROVE  FALSE
    BY <1>1, SaidIs DEF Sourced
<1>2. CASE e \in Facts /\ f \in Facts
    BY <1>2 DEF OneView
<1>3. CASE e \in Facts /\ f \notin Facts
    BY <1>1, <1>3, FactsCome
<1>4. CASE e \notin Facts /\ f \in Facts
    BY <1>1, <1>4, FactsCome
<1>5. CASE e \notin Facts /\ f \notin Facts
    BY <1>5, FactsCome
<1> QED BY <1>2, <1>3, <1>4, <1>5

LEMMA MovingIsOldStays == ASSUME BaseInv, BaseInv', MovingIsOld, Changes PROVE MovingIsOld'
<1> SUFFICES ASSUME NEW e \in Moving'
             PROVE  controllers'[e.from].instance = e.source /\ Behind(e.revision, controllers'[e.from])
    BY DEF MovingIsOld
<1>1. e.from \in Known /\ e.revision \in Nat
    <2>1. e.from \in Known' /\ EventFits(e)
        BY DEF BaseInv, MovingTyped
    <2> QED BY <2>1, NamesStay, IntAssumption DEF EventFits
<1>2. CASE e \in Moving
    BY <1>1, <1>2, BehindStays, NamesStay DEF MovingIsOld
<1>3. CASE e \notin Moving
    <2>1. PICK h \in Pending : Quiets(h) /\ e = Posted(h, controllers[h].outbound)
        BY <1>3 DEF Changes
    <2>2. /\ h \in Known /\ EventTyped(controllers[h].outbound)
          /\ controllers[h].outbound.source = controllers[h].instance
          /\ controllers[h].outbound.revision = controllers[h].revision
        BY <2>1 DEF Pending, BaseInv, RegistryInv, ControllerTyped
    <2>3. e.from = h /\ e.source = controllers[h].instance /\ e.revision = controllers[h].revision
        BY <2>1, <2>2, PostedFits
    <2>4. controllers'[h].instance = controllers[h].instance
        BY <2>2, NamesStay
    <2>5. Behind(e.revision, controllers'[h])
        BY <1>1, <2>1, <2>3 DEF Quiets, Silences, Behind
    <2> QED BY <2>3, <2>4, <2>5
<1> QED BY <1>2, <1>3

\* Applying an event of e.from: it becomes the watermark of its identity and
\* the latest heard of e.from, which is why nothing older passes.
LEMMA HearsHow ==
    ASSUME BaseInv, MovingIsOld, HeardBelowSeen, Changes, NEW h \in Showing,
           NEW e \in Moving, Follows(controllers[h], controllers'[h], e), heard'[h] = Hearing(h, e)
    PROVE  /\ e.from \in Known /\ controllers[e.from].instance = e.source /\ e.source \in Sources
           /\ controllers'[h].seen[e.source] = e.revision /\ heard'[h][e.from] = e.revision
           /\ controllers[h].seen[e.source] < e.revision
           /\ \A s \in Sources : s # e.source => controllers'[h].seen[s] = controllers[h].seen[s]
           /\ \A k \in Known : k # e.from => heard'[h][k] = heard[h][k]
<1>1. /\ h \in Known /\ h \in Handles /\ e.from \in Known /\ e.from \in Handles
      /\ e.source \in Sources /\ e.revision \in Nat /\ \A k \in Known : k \in Handles
    BY KnownAreHandles, MovingFits DEF BaseInv, Showing
<1>2. controllers[e.from].instance = e.source
    BY DEF MovingIsOld
<1>3. controllers[h].seen \in [Sources -> 0..MaxRevision] /\ controllers[h].seen[e.source] \in Nat
    BY <1>1, IntAssumption DEF BaseInv, RegistryInv, ControllerTyped
<1>4. controllers[h].seen[e.source] < e.revision
    BY <1>1, <1>3 DEF Follows, Newer
<1>5. heard[h][e.from] <= controllers[h].seen[e.source] /\ heard[h][e.from] \in Nat
    BY <1>1, <1>2 DEF HeardBelowSeen, BaseInv, HeardTyped
<1>6. Greater(heard[h][e.from], e.revision) = e.revision
    BY <1>1, <1>3, <1>4, <1>5 DEF Greater
<1>7. heard'[h][e.from] = e.revision /\ \A k \in Known : k # e.from => heard'[h][k] = heard[h][k]
    BY <1>1, <1>6, HearingTyped
<1>8. /\ controllers'[h].seen[e.source] = e.revision
      /\ \A s \in Sources : s # e.source => controllers'[h].seen[s] = controllers[h].seen[s]
    BY <1>1, <1>3 DEF Follows
<1> QED BY <1>1, <1>2, <1>4, <1>7, <1>8

\* A live controller either hears an event or keeps what it has heard.
LEMMA HearsOrNot ==
    ASSUME BaseInv, Changes, NEW h \in Showing'
    PROVE  \/ Hears(h)
           \/ controllers'[h].seen = controllers[h].seen /\ heard'[h] = heard[h]
<1>1. h \in Known /\ controllers'[h].disposed = FALSE
    BY ShowingStays DEF Showing
<1> QED BY <1>1 DEF Changes, Keeps, Says, Announces, Quiets, Silences

LEMMA SeenFromStays ==
    ASSUME BaseInv, BaseInv', MovingIsOld, HeardBelowSeen, SeenFrom, Changes PROVE SeenFrom'
<1> SUFFICES ASSUME NEW h \in Showing', NEW s \in Sources, controllers'[h].seen[s] # 0
             PROVE  \E k \in Known : /\ controllers'[k].instance = s
                                     /\ heard'[h][k] = controllers'[h].seen[s]
                                     /\ Behind(controllers'[h].seen[s], controllers'[k])
    BY NamesStay DEF SeenFrom
<1>1. h \in Showing /\ h \in Known
    BY ShowingStays
<1>2. controllers'[h].seen[s] \in Nat
    BY <1>1, NamesStay, IntAssumption DEF BaseInv, RegistryInv, ControllerTyped
<1>3. ASSUME NEW k \in Known, controllers[k].instance = s, heard[h][k] = controllers[h].seen[s],
             Behind(controllers[h].seen[s], controllers[k]),
             controllers'[h].seen[s] = controllers[h].seen[s], heard'[h][k] = heard[h][k]
      PROVE  /\ controllers'[k].instance = s /\ heard'[h][k] = controllers'[h].seen[s]
             /\ Behind(controllers'[h].seen[s], controllers'[k])
    BY <1>2, <1>3, BehindStays, NamesStay
<1>4. CASE controllers'[h].seen = controllers[h].seen /\ heard'[h] = heard[h]
    BY <1>1, <1>3, <1>4 DEF SeenFrom
<1>5. CASE Hears(h)
    <2>1. PICK e \in Moving : Follows(controllers[h], controllers'[h], e) /\ heard'[h] = Hearing(h, e)
        BY <1>5 DEF Hears
    <2>2. CASE s = e.source
        <3>1. /\ e.from \in Known /\ controllers[e.from].instance = s
              /\ controllers'[h].seen[s] = e.revision /\ heard'[h][e.from] = e.revision
            BY <1>1, <2>1, <2>2, HearsHow
        <3>2. Behind(e.revision, controllers'[e.from])
            BY <1>2, <3>1, BehindStays DEF MovingIsOld
        <3> QED BY <3>1, <3>2, NamesStay
    <2>3. CASE s # e.source
        <3>1. controllers'[h].seen[s] = controllers[h].seen[s]
            BY <1>1, <2>1, <2>3, HearsHow
        <3>2. PICK k \in Known : /\ controllers[k].instance = s /\ heard[h][k] = controllers[h].seen[s]
                                 /\ Behind(controllers[h].seen[s], controllers[k])
            BY <1>1, <3>1 DEF SeenFrom
        <3>3. heard'[h][k] = heard[h][k]
            BY <1>1, <2>1, <2>3, <3>2, HearsHow
        <3> QED BY <1>3, <3>1, <3>2, <3>3
    <2> QED BY <2>2, <2>3
<1> QED BY <1>4, <1>5, HearsOrNot

LEMMA HeardBelowSeenStays ==
    ASSUME BaseInv, MovingIsOld, HeardBelowSeen, Changes PROVE HeardBelowSeen'
<1> SUFFICES ASSUME NEW h \in Showing', NEW k \in Known
             PROVE  heard'[h][k] <= controllers'[h].seen[controllers[k].instance]
    BY NamesStay DEF HeardBelowSeen
<1>1. h \in Showing /\ h \in Known /\ h \in Handles /\ k \in Handles /\ controllers[k].instance \in Sources
    BY ShowingStays, KnownAreHandles DEF BaseInv, RegistryInv, ControllerTyped
<1>2. heard[h][k] <= controllers[h].seen[controllers[k].instance]
    BY <1>1 DEF HeardBelowSeen
<1>3. CASE Hears(h)
    <2>1. PICK e \in Moving : Follows(controllers[h], controllers'[h], e) /\ heard'[h] = Hearing(h, e)
        BY <1>3 DEF Hears
    <2>2. e.revision \in Nat /\ heard[h][k] \in Nat /\ controllers[h].seen[controllers[k].instance] \in Nat
        <3>1. controllers[h].seen \in [Sources -> 0..MaxRevision]
            BY <1>1 DEF BaseInv, RegistryInv, ControllerTyped
        <3>2. heard[h][k] \in Nat
            BY <1>1 DEF BaseInv, HeardTyped
        <3> QED BY <1>1, <3>1, <3>2, MovingFits, IntAssumption
    <2>3. CASE k = e.from
        <3>1. heard'[h][k] = e.revision /\ controllers'[h].seen[controllers[k].instance] = e.revision
            BY <1>1, <2>1, <2>3, HearsHow
        <3> QED BY <2>2, <3>1
    <2>4. CASE k # e.from /\ controllers[k].instance = e.source
        <3>1. /\ heard'[h][k] = heard[h][k] /\ controllers'[h].seen[controllers[k].instance] = e.revision
              /\ controllers[h].seen[controllers[k].instance] < e.revision
            BY <1>1, <2>1, <2>4, HearsHow
        <3> QED BY <1>2, <2>2, <3>1
    <2>5. CASE k # e.from /\ controllers[k].instance # e.source
        <3>1. /\ heard'[h][k] = heard[h][k]
              /\ controllers'[h].seen[controllers[k].instance] = controllers[h].seen[controllers[k].instance]
            BY <1>1, <2>1, <2>5, HearsHow
        <3> QED BY <1>2, <3>1
    <2> QED BY <2>3, <2>4, <2>5
<1> QED BY <1>2, <1>3, HearsOrNot

LEMMA ShownIsHeardStays ==
    ASSUME BaseInv, MovingIsOld, HeardBelowSeen, ShownIsHeard, Changes PROVE ShownIsHeard'
<1> SUFFICES ASSUME NEW h \in Showing', cause'[h].handle # h
             PROVE  cause'[h].revision = heard'[h][cause'[h].handle]
    BY DEF ShownIsHeard
<1>1. h \in Showing /\ h \in Known
    BY ShowingStays
<1>2. CASE Hears(h)
    <2>1. PICK e \in Moving : /\ Follows(controllers[h], controllers'[h], e)
                              /\ cause'[h] = Of(e) /\ heard'[h] = Hearing(h, e)
        BY <1>2 DEF Hears
    <2>2. heard'[h][e.from] = e.revision
        BY <1>1, <2>1, HearsHow
    <2> QED BY <2>1, <2>2 DEF Of
<1>3. CASE Says(h)
    BY <1>3 DEF Says, Own
<1>4. CASE Keeps(h) \/ Quiets(h)
    BY <1>1, <1>4 DEF Keeps, Quiets, ShownIsHeard
<1> QED BY <1>1, <1>2, <1>3, <1>4 DEF Changes

LEMMA HistoryChanges == ASSUME BaseInv, BaseInv', HistoryInv, Changes PROVE HistoryInv'
BY SourcedStays, OneViewStays, MovingIsOldStays, SeenFromStays, HeardBelowSeenStays, ShownIsHeardStays
   DEF HistoryInv

\* A new controller, also of an identity used before: nobody has heard of it.
LEMMA HistoryInserts == ASSUME BaseInv, BaseInv', HistoryInv, Insert PROVE HistoryInv'
<1>0. PICK n : n = lastHandle + 1
    OBVIOUS
<1> DEFINE c == controllers'[n]
<1>1. /\ n \in Handles /\ n \notin Known /\ Known' = Known \cup {n} /\ UNCHANGED <<wire, courierVars, heard>>
      /\ ControllerTyped(c) /\ c.revision = 1 /\ c.outbound = None /\ c.disposed = FALSE
      /\ c.seen = [s \in Sources |-> 0] /\ cause'[n] = Own(n, c)
      /\ \A h \in Handles : h # n => controllers'[h] = controllers[h] /\ cause'[h] = cause[h]
    BY <1>0, InsertIs
<1> HIDE DEF c
<1>2. \A h \in Known : h \in Handles /\ h # n /\ controllers'[h] = controllers[h] /\ cause'[h] = cause[h]
    BY <1>1, KnownAreHandles DEF BaseInv
<1>3. Moving' = Moving
    BY <1>1 DEF Moving, Locking, courierVars
<1>4. \A h \in Showing' : h = n \/ (h \in Showing /\ h \in Known)
    BY <1>1, <1>2 DEF Showing
<1>5. \A h, k \in Handles : h = n \/ k = n => heard[h][k] = 0
    BY <1>1 DEF BaseInv, HeardTyped
<1>6. \A f \in Facts' : f \in Facts \/ f = Fact(n, 1, View(c))
    <2>1. ASSUME NEW h \in Pending' PROVE QueuedAs(h)' \in Facts
        <3>1. h \in Known /\ controllers'[h] = controllers[h]
            BY <1>1, <1>2, <2>1 DEF Pending, c
        <3> QED BY <2>1, <3>1 DEF Pending, Facts, QueuedAs
    <2>2. ASSUME NEW h \in Showing' PROVE ShownAs(h)' \in Facts \/ ShownAs(h)' = Fact(n, 1, View(c))
        <3>1. CASE h = n
            BY <1>1, <3>1 DEF ShownAs, Own, c
        <3>2. CASE h \in Showing /\ h \in Known
            BY <1>2, <3>2 DEF ShownAs, Facts
        <3> QED BY <1>4, <2>2, <3>1, <3>2
    <2>3. Facts' = {Fact(e.from, e.revision, e.view) : e \in Moving'}
                      \cup {QueuedAs(h)' : h \in Pending'} \cup {ShownAs(h)' : h \in Showing'}
        BY DEF Facts
    <2>4. \A e \in Moving' : Fact(e.from, e.revision, e.view) \in Facts
        BY <1>3 DEF Facts
    <2> QED BY <2>1, <2>2, <2>3, <2>4
<1>7. Fact(n, 1, View(c)).from = n /\ Fact(n, 1, View(c)).revision = 1
    BY DEF Fact
<1>8. Sourced'
    <2> SUFFICES ASSUME NEW f \in Facts' PROVE f.from \in Known' /\ f.revision \in 1..controllers'[f.from].revision
        BY DEF Sourced
    <2>1. CASE f \in Facts
        BY <1>1, <1>2, <2>1 DEF HistoryInv, Sourced
    <2>2. CASE f = Fact(n, 1, View(c))
        BY <1>1, <1>7, <2>2 DEF c
    <2> QED BY <1>6, <2>1, <2>2
<1>9. OneView'
    <2>1. \A f \in Facts : f.from # n
        BY <1>1 DEF HistoryInv, Sourced
    <2> QED BY <1>6, <1>7, <2>1 DEF HistoryInv, OneView
<1>10. MovingIsOld'
    <2> SUFFICES ASSUME NEW e \in Moving
                 PROVE  controllers'[e.from].instance = e.source /\ Behind(e.revision, controllers'[e.from])
        BY <1>3 DEF MovingIsOld
    <2>1. controllers'[e.from] = controllers[e.from]
        BY <1>2 DEF BaseInv, MovingTyped
    <2> QED BY <2>1 DEF HistoryInv, MovingIsOld
<1>11. SeenFrom'
    <2> SUFFICES ASSUME NEW h \in Showing', NEW s \in Sources, controllers'[h].seen[s] # 0
                 PROVE  \E k \in Known' : /\ controllers'[k].instance = s
                                          /\ heard'[h][k] = controllers'[h].seen[s]
                                          /\ Behind(controllers'[h].seen[s], controllers'[k])
        BY DEF SeenFrom
    <2>1. h \in Showing /\ controllers'[h] = controllers[h]
        BY <1>1, <1>2, <1>4 DEF c
    <2>2. PICK k \in Known : /\ controllers[k].instance = s /\ heard[h][k] = controllers[h].seen[s]
                             /\ Behind(controllers[h].seen[s], controllers[k])
        BY <2>1 DEF HistoryInv, SeenFrom
    <2> QED BY <1>1, <1>2, <2>1, <2>2
<1>12. HeardBelowSeen'
    <2> SUFFICES ASSUME NEW h \in Showing', NEW k \in Known'
                 PROVE  heard[h][k] <= controllers'[h].seen[controllers'[k].instance]
        BY <1>1 DEF HeardBelowSeen
    <2>1. h \in Known' /\ h \in Handles /\ k \in Handles
        BY <1>1, <1>2 DEF Showing
    <2>2. controllers'[h].seen[controllers'[k].instance] \in Nat
        BY <2>1, IntAssumption DEF BaseInv, RegistryInv, ControllerTyped
    <2>3. CASE h = n \/ k = n
        BY <1>5, <2>1, <2>2, <2>3
    <2>4. CASE h # n /\ k # n
        BY <1>1, <1>2, <1>4, <2>4 DEF HistoryInv, HeardBelowSeen
    <2> QED BY <2>3, <2>4
<1>13. ShownIsHeard'
    <2> SUFFICES ASSUME NEW h \in Showing', cause'[h].handle # h
                 PROVE  cause'[h].revision = heard[h][cause'[h].handle]
        BY <1>1 DEF ShownIsHeard
    <2>1. h # n
        BY <1>1 DEF Own
    <2> QED BY <1>2, <1>4, <2>1 DEF HistoryInv, ShownIsHeard
<1> QED BY <1>8, <1>9, <1>10, <1>11, <1>12, <1>13 DEF HistoryInv

LEMMA HistoryOpens == GroupInit => HistoryInv
<1> SUFFICES ASSUME GroupInit PROVE HistoryInv
    OBVIOUS
<1>1. Known = {} /\ Moving = {}
    BY DEF GroupInit, Known, Locking, Moving
<1>2. Showing = {} /\ Facts = {}
    BY <1>1 DEF Facts, Pending, Showing
<1> QED BY <1>1, <1>2
    DEF HistoryInv, Sourced, OneView, MovingIsOld, SeenFrom, HeardBelowSeen, ShownIsHeard

LEMMA LiveShows ==
    ASSUME BaseInv, NEW h \in registered, LiveHandle(h) PROVE h \in Showing /\ h \in Known
BY DEF BaseInv, RegistryInv, ControllerTyped, LiveHandle, Showing

\* A source's event is newer than all that was heard of it.
LEMMA NewsFollow == BaseInv /\ HistoryInv => PendingIsNews
<1> SUFFICES ASSUME BaseInv, HistoryInv, NEW h \in registered, NEW k \in registered,
                    Linked(h, k), controllers[k].outbound # None, ~HeardPredecessor(h, k)
             PROVE  Newer(controllers[h], controllers[k].outbound)
    BY DEF PendingIsNews
<1> DEFINE e == controllers[k].outbound
<1>1. /\ h \in Known /\ k \in Known /\ h \in Showing
      /\ ControllerTyped(controllers[h]) /\ ControllerTyped(controllers[k])
    BY LiveShows DEF Linked, BaseInv, RegistryInv
<1>2. EventTyped(e) /\ e.source = controllers[k].instance /\ e.revision = controllers[k].revision
    BY <1>1 DEF ControllerTyped
<1> HIDE DEF e
<1>3. e.source \in Sources /\ e.revision \in Nat /\ 1 <= e.revision
    BY <1>2, IntAssumption DEF EventTyped, EventFits
<1>4. CASE controllers[h].seen[e.source] = 0
    BY <1>3, <1>4 DEF Newer, e
<1>5. CASE controllers[h].seen[e.source] # 0
    <2>1. PICK m \in Known : /\ controllers[m].instance = e.source /\ heard[h][m] = controllers[h].seen[e.source]
                             /\ Behind(controllers[h].seen[e.source], controllers[m])
        BY <1>1, <1>3, <1>5 DEF HistoryInv, SeenFrom
    <2>2. m = k
        BY <1>2, <1>5, <2>1 DEF HeardPredecessor, Known
    <2>3. controllers[h].seen[e.source] < e.revision
        BY <1>2, <2>1, <2>2 DEF Behind
    <2>4. controllers[h].seen[e.source] \in Nat
        BY <1>1, <1>3, IntAssumption DEF ControllerTyped
    <2> QED BY <1>3, <2>3, <2>4 DEF Newer, e
<1> QED BY <1>4, <1>5

LEMMA ViewsAgree == BaseInv /\ HistoryInv => PeersShowTheSource
<1> SUFFICES ASSUME BaseInv, HistoryInv PROVE ShowTheSame /\ ShowTheLatest
    BY DEF PeersShowTheSource
<1>1. ShowTheSame
    <2> SUFFICES ASSUME NEW h \in registered, NEW k \in registered, Linked(h, k), cause[h] = cause[k]
                 PROVE  View(controllers[h]) = View(controllers[k])
        BY DEF ShowTheSame
    <2>1. ShownAs(h) \in Facts /\ ShownAs(k) \in Facts
        BY LiveShows DEF Linked, Facts
    <2>2. ShownAs(h).from = ShownAs(k).from /\ ShownAs(h).revision = ShownAs(k).revision
        BY DEF ShownAs, Fact
    <2>3. ShownAs(h).view = ShownAs(k).view
        BY <2>1, <2>2 DEF HistoryInv, OneView
    <2> QED BY <2>3 DEF ShownAs, Fact
<1>2. ShowTheLatest
    BY LiveShows DEF ShowTheLatest, HistoryInv, ShownIsHeard
<1> QED BY <1>1, <1>2

LEMMA GroupTypes == BaseInv => GroupTypeOK
<1> SUFFICES ASSUME BaseInv PROVE GroupTypeOK
    OBVIOUS
<1>1. \A h \in Handles : h > lastHandle => h \notin Known
    BY KnownAreHandles DEF BaseInv, Known, Handles
<1>2. \A h \in Known : controllers[h].seen \in [Sources -> 0..MaxRevision]
    BY DEF BaseInv, RegistryInv, ControllerTyped
<1> QED BY <1>1, <1>2 DEF BaseInv, RegistryInv, CouriersTyped, GroupTypeOK, Known

\* "Every live controller in a nonzero exchange group must have a unique
\* nonzero instance_id", whatever the hosts do, and deliveries never wait for
\* each other in a circle (controller_insert, coordinate_deliver).
THEOREM GroupIsSafe == GroupSpec => [](GroupTypeOK /\ IdentitiesUnique /\ DeliveriesProgress)
<1>1. GroupInit => BaseInv
    BY GroupOpens
<1>2. BaseInv /\ [GroupNext]_groupVars => BaseInv'
    BY GroupStep
<1>3. BaseInv => GroupTypeOK /\ IdentitiesUnique /\ DeliveriesProgress
    BY GroupTypes, NoCircle DEF BaseInv, RegistryInv
<1> QED BY <1>1, <1>2, <1>3, PTL DEF GroupSpec

\* A pending event is also news to every live peer of its group that has heard
\* of no earlier owner of its identity, whatever identities the hosts use again
\* (CoordinationGate, bump_and_queue).
THEOREM GroupAgrees == GroupSpec => []GroupConsistent
<1> DEFINE Inv == BaseInv /\ HistoryInv
<1>1. GroupInit => Inv
    BY GroupOpens, HistoryOpens
<1>2. Inv /\ [GroupNext]_groupVars => Inv'
    BY GroupStep, HistoryChanges, HistoryInserts
<1>3. Inv => GroupConsistent
    BY GroupTypes, NoCircle, NewsFollow DEF BaseInv, RegistryInv, GroupConsistent
<1> QED BY <1>1, <1>2, <1>3, PTL DEF GroupSpec

\* Linked whose latest change is the same revision of the same controller show
\* the same, and what a peer shows of another is the latest it has had of it,
\* however events were lost, repeated or reordered and identities used again.
THEOREM PeersAgree == GroupSpec => []PeersShowTheSource
<1> DEFINE Inv == BaseInv /\ HistoryInv
<1>1. GroupInit => Inv
    BY GroupOpens, HistoryOpens
<1>2. Inv /\ [GroupNext]_groupVars => Inv'
    BY GroupStep, HistoryChanges, HistoryInserts
<1>3. Inv => PeersShowTheSource
    BY ViewsAgree
<1> QED BY <1>1, <1>2, <1>3, PTL DEF GroupSpec

\* "A malformed event or mixed-domain peer fails the delivery without
\* partially updating the group" (coordinate_deliver), whatever the hosts do.
THEOREM AllOrNone == GroupSpec => DeliveryAllOrNothing
<1> DEFINE Whole ==
        \A d \in Couriers : pc[d] = "locking" /\ pc'[d] = "idle" =>
         LET news == {h \in Addressed(d) : Newer(controllers[h], event[d])}
         IN  \/ \A h \in news : controllers'[h] = Apply(controllers[h], event[d])
             \/ /\ controllers' = controllers
                /\ \E h \in news : ~Within(event[d].view.range, controllers[h].domain)
<1>1. GroupInit => BaseInv
    BY GroupOpens
<1>2. BaseInv /\ [GroupNext]_groupVars => BaseInv'
    BY GroupStep
<1>3. BaseInv /\ [GroupNext]_groupVars => [Whole]_groupVars
    BY AllOrNothing
<1> QED BY <1>1, <1>2, <1>3, PTL DEF GroupSpec, DeliveryAllOrNothing
=============================================================================
