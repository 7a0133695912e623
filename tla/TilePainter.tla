----------------------------- MODULE TilePainter -----------------------------
(***************************************************************************)
(* The tile painter of a spilled density trace                             *)
(* (crates/xyg-engine/src/tile_store/paint.rs, js/src/45_lod.ts and        *)
(* 54_kernel.ts, python/xyg/interaction.py).  The browser keeps textures,  *)
(* keyed by tile, of one paint generation; a view request names them; the  *)
(* host answers with a frame that ships pixels only for the tiles the      *)
(* browser lacks and tells it which others to keep.  Meanwhile the host    *)
(* appends to the store, and messages overtake each other.                 *)
(*                                                                         *)
(* A texture is abstracted to what its pixels are computed from: the       *)
(* counts of the cells it shows, gutter included, with the level maximum   *)
(* (count tiles) or the opacity (colored tiles).                           *)
(***************************************************************************)
EXTENDS CountStore, Integers, FiniteSets, FiniteSetsExt, Functions

CONSTANTS
    Store,      \* the store of the trace
    Tiles,      \* the texture keys
    LevelOf,    \* LevelOf[k]: the level of tile k, 0 the finest
    Shown,      \* Shown[k]: the cells tile k is painted from
    Bytes,      \* Bytes[k]: paint_bytes of an R8 texture
    Windows,    \* the views of the chart
    Wanted,     \* Wanted[w]: the level choose_level_dims picks for w
    Active,     \* Active[w]: the tiles window w touches, all levels together
    Top,        \* the coarsest level
    GpuBudget,  \* eight screens of texture
    Opacities,  \* the fill opacities of the trace
    MaxLooks, MaxGeneration \* bounds on gestures and on paint generations

ASSUME PainterAssumption ==
    /\ Store \in Stores
    /\ Top \in Nat /\ GpuBudget \in Nat
    /\ LevelOf \in [Tiles -> 0..Top]
    /\ Shown \in [Tiles -> SUBSET Cells]
    /\ Bytes \in [Tiles -> Nat \ {0}]
    /\ Wanted \in [Windows -> 0..Top]
    /\ Active \in [Windows -> SUBSET Tiles]
    /\ Opacities \subseteq Nat /\ Opacities # {}
    /\ MaxLooks \in Nat /\ MaxGeneration \in Nat

VARIABLES
    colored,    \* has_color of the store
    opacity,    \* the fill opacity the host paints with
    window,     \* the view on screen
    seq,        \* ChartView.seq
    due,        \* _viewTimer is armed
    pendingSeq, \* _lodPendingSeq, 0 for null
    memo,       \* _lastDensityReq
    textures,   \* _tileTextures
    painted,    \* _tileGeneration, _tileOpacity and _tileLevel
    onGrid,     \* the trace shows a window grid, not tiles
    wire,       \* the messages in flight
    looks,      \* the gestures so far
    outcome     \* history: what became of the last reply

hostVars == <<colored, opacity>>
clientVars == <<window, seq, due, pendingSeq, memo, textures, painted, onGrid>>
historyVars == <<looks, outcome>>
painterVars == <<hostVars, clientVars, wire, historyVars>>

NoMemo == [window |-> "none"]
Unpainted == [generation |-> 0, opacity |-> -1, level |-> -1]
Quiet == ~due /\ wire = {} /\ ~appending[Store]

PainterInit ==
    /\ Init
    /\ colored = FALSE /\ opacity = Min(Opacities)
    /\ window \in Windows
    /\ seq = 0 /\ due = FALSE /\ pendingSeq = 0 /\ memo = NoMemo
    /\ textures = <<>> /\ painted = Unpainted /\ onGrid = TRUE
    /\ wire = {}
    /\ looks = 0 /\ outcome = "none"

-----------------------------------------------------------------------------
(* What the host paints. *)

LevelTiles(w, l) == {k \in Active[w] : LevelOf[k] = l}

BytesPerCell(rgba) == IF rgba THEN 4 ELSE 1
TileSize(k, rgba) == Bytes[k] * BytesPerCell(rgba)
Budget(rgba) == GpuBudget * BytesPerCell(rgba)
SizeOf(keys, rgba) == SumFunctionOnSet([k \in keys |-> TileSize(k, rgba)], keys)

\* The frame of a level takes at most half of the budget.
Fits(w, l) == 2 * SizeOf(LevelTiles(w, l), colored) <= Budget(colored)
Coarsened(w, l) == {m \in l..Top : Fits(w, m)}

LevelTop(l) == Max({0} \cup {counts[Store][c] : c \in UNION {Shown[k] : k \in {t \in Tiles : LevelOf[t] = l}}})

Image(k) ==
    [counts |-> [c \in Shown[k] |-> counts[Store][c]],
     scale |-> IF colored THEN opacity ELSE LevelTop(LevelOf[k]),
     rgba |-> colored]

\* valid_known: an inventory of another generation, or of another opacity, is
\* no inventory.
Known(ask) ==
    IF ask.generation = generation[Store] /\ (colored => ask.opacity = opacity)
    THEN ask.known
    ELSE {}

\* One level at a time away from the level on screen, then coarser if the frame
\* of that level does not fit.
Served(ask, target) ==
    LET near == IF ask.level \in 0..Top /\ ask.generation = generation[Store]
                THEN IF target < ask.level - 1 THEN ask.level - 1
                     ELSE IF target > ask.level + 1 THEN ask.level + 1 ELSE target
                ELSE target
        fit == Coarsened(ask.window, near)
    IN  IF fit = {} THEN {} ELSE {Min(fit)}

\* The tiles a frame keeps besides its own: those near it in level that still
\* fit the budget, taken greedily in an order this module leaves open.
Retained(near, active) ==
    {keep \in SUBSET near :
        /\ SizeOf(active \cup keep, colored) <= Budget(colored)
        /\ \A k \in near \ keep : SizeOf(active \cup keep \cup {k}, colored) > Budget(colored)}

\* The frames paint_frame may answer with; none when no level fits.
Frames(ask) ==
    LET fit == Coarsened(ask.window, Wanted[ask.window])
        target == Min(fit)
    IN  IF fit = {} THEN {}
        ELSE UNION {
            LET active == LevelTiles(ask.window, level)
                near == {k \in Known(ask) \ active : LevelOf[k] - level \in -1..1}
            IN  {[kind |-> "frame", seq |-> ask.seq, kept |-> ask.kept,
                  generation |-> generation[Store], opacity |-> opacity, rgba |-> colored,
                  level |-> level, keys |-> active \cup keep,
                  data |-> [k \in active \ Known(ask) |-> Image(k)],
                  refine |-> level # target] : keep \in Retained(near, active)}
          : level \in Served(ask, target)}

\* A store that is gone, a failed read, no level that fits: a window grid.
Grid(ask) == [kind |-> "grid", seq |-> ask.seq]

\* Mutant: a request no frame answers is not answered at all.
ServeFramesOnly ==
    /\ ~appending[Store]
    /\ \E ask \in {m \in wire : m.kind = "ask"} :
        \E reply \in IF Store \in live THEN Frames(ask) ELSE {} : wire' = (wire \ {ask}) \cup {reply}
    /\ UNCHANGED <<vars, hostVars, clientVars, historyVars>>

Serve ==
    /\ ~appending[Store]
    /\ \E ask \in {m \in wire : m.kind = "ask"} :
        \E reply \in {Grid(ask)} \cup (IF Store \in live THEN Frames(ask) ELSE {}) :
            wire' = (wire \ {ask}) \cup {reply}
    /\ UNCHANGED <<vars, hostVars, clientVars, historyVars>>

-----------------------------------------------------------------------------
(* What the host does to the store. *)

\* The append message names what it is about, so that no two in flight are one.
Post == wire' = wire \cup {[kind |-> "append", generation |-> nextGeneration, live |-> live']}

Build ==
    /\ nextGeneration <= MaxGeneration
    /\ Open(Store) /\ colored' \in BOOLEAN
    /\ UNCHANGED <<opacity, clientVars, wire, historyVars>>

\* A colored store refuses every batch.
StartAppend ==
    /\ ~colored /\ nextGeneration <= MaxGeneration
    /\ BeginAppend(Store)
    /\ UNCHANGED painterVars
LandPoint == (\E c \in Cells : Land(Store, c)) /\ UNCHANGED painterVars
FinishAppend == EndAppend(Store) /\ Post /\ UNCHANGED <<hostVars, clientVars, historyVars>>

\* A batch the store refuses invalidates it.
RefuseAppend == Close(Store) /\ Post /\ UNCHANGED <<hostVars, clientVars, historyVars>>

\* So does one that fails half way.
FailAppend ==
    /\ appending[Store]
    /\ appending' = [appending EXCEPT ![Store] = FALSE]
    /\ live' = live \ {Store}
    /\ counts' = [counts EXCEPT ![Store] = NoCounts]
    /\ Post
    /\ UNCHANGED <<generation, nextGeneration, hostVars, clientVars, historyVars>>

\* The host restyles the trace; no message tells the browser.  (Bound: an opacity
\* is not used again.)
Restyle ==
    /\ ~appending[Store]
    /\ opacity' \in {o \in Opacities : o > opacity}
    /\ UNCHANGED <<vars, colored, clientVars, wire, historyVars>>

-----------------------------------------------------------------------------
(* What the browser asks. *)

\* _densityRequestDup: the same view was answered, or asked within 1200 ms.
SameRequest(w) == memo # NoMemo /\ memo.window = w /\ (memo.answered \/ ~memo.expired)

\* _scheduleViewRequest, with the request memo as m.
Schedule(w, m, pending) ==
    /\ seq' = seq + 1 /\ window' = w /\ due' = TRUE
    /\ memo' = m /\ pendingSeq' = pending

Look ==
    /\ looks < MaxLooks
    /\ looks' = looks + 1
    /\ \E w \in Windows : Schedule(w, memo, IF SameRequest(w) THEN memo.seq ELSE seq + 1)
    /\ UNCHANGED <<vars, hostVars, textures, painted, onGrid, wire, outcome>>

Expire ==
    /\ memo # NoMemo /\ ~memo.answered /\ ~memo.expired
    /\ memo' = [memo EXCEPT !.expired = TRUE]
    /\ UNCHANGED <<vars, hostVars, window, seq, due, pendingSeq, textures, painted, onGrid, wire, historyVars>>

Ask ==
    [kind |-> "ask", seq |-> seq, window |-> window, kept |-> TRUE,
     generation |-> painted.generation, opacity |-> painted.opacity, level |-> painted.level,
     known |-> DOMAIN textures]

\* The timer of a scheduled request fires.
Send ==
    /\ due
    /\ due' = FALSE
    /\ IF SameRequest(window)
       THEN /\ pendingSeq' = IF memo.answered /\ pendingSeq = seq THEN 0 ELSE pendingSeq
            /\ UNCHANGED <<memo, wire>>
       ELSE /\ wire' = wire \cup {Ask}
            /\ memo' = [window |-> window, seq |-> seq, answered |-> FALSE, expired |-> FALSE]
            /\ UNCHANGED pendingSeq
    /\ UNCHANGED <<vars, hostVars, window, seq, textures, painted, onGrid, historyVars>>

-----------------------------------------------------------------------------
(* What the browser does with an answer. *)

\* The seq guard, and _densityReplyCurrent.
Current(m) == m.seq = seq \/ (memo # NoMemo /\ pendingSeq = m.seq /\ memo.seq = m.seq)

\* The whole frame is validated before anything changes: every tile without
\* data is a texture of the same generation, opacity and format.
Valid(m) ==
    \A k \in m.keys \ DOMAIN m.data :
        /\ painted.generation = m.generation
        /\ m.rgba => painted.opacity = m.opacity
        /\ k \in DOMAIN textures /\ textures[k].rgba = m.rgba

\* Mutant: the textures a frame does not list stay.
FrameTexturesKept(m) ==
    [k \in DOMAIN m.data \cup DOMAIN textures |-> IF k \in DOMAIN m.data THEN m.data[k] ELSE textures[k]]

\* The frame is the whole inventory: other textures go.
FrameTextures(m) == [k \in m.keys |-> IF k \in DOMAIN m.data THEN m.data[k] ELSE textures[k]]

\* clearPending: the memo of an awaited request is answered.
Answered(m) == IF memo # NoMemo /\ memo.seq = m.seq /\ pendingSeq = m.seq
               THEN [memo EXCEPT !.answered = TRUE] ELSE memo
Awaited(m) == IF pendingSeq = m.seq THEN 0 ELSE pendingSeq

DropStale(m) ==
    /\ ~Current(m)
    /\ outcome' = "stale"
    /\ UNCHANGED <<clientVars, looks>>

RefuseFrame(m) ==
    /\ Current(m) /\ m.kind = "frame" /\ ~Valid(m)
    /\ memo' = NoMemo /\ pendingSeq' = Awaited(m)
    /\ outcome' = "refused"
    /\ UNCHANGED <<window, seq, due, textures, painted, onGrid, looks>>

\* Mutant: the frame counts as the answer, refined or not.
ApplyFrameUnrefined(m) ==
    /\ Current(m) /\ m.kind = "frame" /\ Valid(m)
    /\ textures' = FrameTextures(m)
    /\ painted' = [generation |-> m.generation, opacity |-> m.opacity, level |-> m.level]
    /\ onGrid' = FALSE
    /\ memo' = Answered(m) /\ pendingSeq' = Awaited(m)
    /\ outcome' = "frame"
    /\ UNCHANGED <<window, seq, due, looks>>

\* lodApplyTileFrame; a frame that needs refining asks again.
ApplyFrame(m) ==
    /\ Current(m) /\ m.kind = "frame" /\ Valid(m)
    /\ textures' = FrameTextures(m)
    /\ painted' = [generation |-> m.generation, opacity |-> m.opacity, level |-> m.level]
    /\ onGrid' = FALSE
    /\ IF m.refine
       THEN Schedule(window, NoMemo, seq + 1)
       ELSE memo' = Answered(m) /\ pendingSeq' = Awaited(m) /\ UNCHANGED <<window, seq, due>>
    /\ outcome' = "frame"
    /\ UNCHANGED looks

\* A grid replaces the tiles, or is remembered for its facts only.
ApplyGrid(m) ==
    /\ Current(m) /\ m.kind = "grid"
    /\ memo' = Answered(m) /\ pendingSeq' = Awaited(m)
    /\ onGrid' \in {onGrid, TRUE}
    /\ outcome' = "grid"
    /\ UNCHANGED <<window, seq, due, textures, painted, looks>>

Receive ==
    /\ \E m \in {r \in wire : r.kind \in {"frame", "grid"}} :
        /\ wire' = wire \ {m}
        /\ DropStale(m) \/ RefuseFrame(m) \/ ApplyFrame(m) \/ ApplyGrid(m)
    /\ UNCHANGED <<vars, hostVars>>

\* History: the browser has dropped the textures that these messages are about.
TexturesLost(messages) ==
    {IF m.kind \in {"ask", "frame"} THEN [m EXCEPT !.kept = FALSE] ELSE m : m \in messages}

\* _applyAppend builds the trace anew and asks for the view once more.
Rebuild ==
    /\ \E m \in {r \in wire : r.kind = "append"} : wire' = TexturesLost(wire \ {m})
    /\ textures' = <<>> /\ painted' = Unpainted /\ onGrid' = TRUE
    /\ Schedule(window, NoMemo, seq + 1)
    /\ UNCHANGED <<vars, hostVars, looks, outcome>>

\* The fade to a grid ends, and the tile textures are deleted.
DropTiles ==
    /\ onGrid /\ DOMAIN textures # {}
    /\ textures' = <<>>
    /\ painted' = [painted EXCEPT !.generation = 0, !.level = -1]
    /\ wire' = TexturesLost(wire)
    /\ UNCHANGED <<vars, hostVars, window, seq, due, pendingSeq, memo, onGrid, looks, outcome>>

-----------------------------------------------------------------------------

PainterNext ==
    \/ Serve \/ Build \/ StartAppend \/ LandPoint \/ FinishAppend \/ RefuseAppend \/ FailAppend \/ Restyle
    \/ Look \/ Expire \/ Send \/ Receive \/ Rebuild \/ DropTiles

allVars == <<vars, painterVars>>
PainterSpec == PainterInit /\ [][PainterNext]_allVars

\* The host answers what it has been asked, messages arrive, timers fire and an
\* append returns.  Gestures, appends and restyling are up to others.
PainterFairness ==
    WF_allVars(Serve \/ Send \/ Receive \/ Rebuild \/ FinishAppend \/ FailAppend)

FairPainterSpec == PainterSpec /\ PainterFairness

-----------------------------------------------------------------------------
(* Properties. *)

PainterTypeOK ==
    /\ colored \in BOOLEAN /\ opacity \in Opacities
    /\ window \in Windows /\ {due, onGrid} \subseteq BOOLEAN
    /\ pendingSeq \in 0..seq
    /\ memo # NoMemo => memo.window \in Windows /\ memo.seq \in 1..seq
    /\ DOMAIN textures \subseteq Tiles
    /\ painted.generation \in 0..MaxGeneration /\ painted.level \in -1..Top
    /\ looks \in 0..MaxLooks

\* A texture never lies: what the browser holds under the store's generation
\* (and opacity) is what the store would paint now, whatever was appended,
\* rebuilt, dropped or delivered late in between.
TexturesAreTrue ==
    Store \in live /\ painted.generation = generation[Store] =>
        \A k \in DOMAIN textures :
            (textures[k].rgba => painted.opacity = opacity) => textures[k] = Image(k)

\* "8 * width * height * bytesPerCell per trace, including gutters and retained
\* adjacent levels."
WithinBudget ==
    \A k \in DOMAIN textures :
        SizeOf(DOMAIN textures, textures[k].rgba) <= Budget(textures[k].rgba)

\* What the host keeps, the browser has: a frame the browser waits for is refused
\* only if the browser dropped its textures after asking; and once applied it
\* leaves no more of them than the budget allows.
FramesFit ==
    /\ PainterTypeOK /\ WithinBudget
    /\ \A m \in wire : m.kind = "frame" /\ Current(m) /\ m.kept => Valid(m)

\* When nothing is scheduled or in flight and the last answer was a frame, the
\* view on screen is painted from the current generation, at the level it wants.
QuietMeansFresh ==
    Quiet /\ outcome = "frame" /\ ~onGrid /\ Store \in live =>
        /\ painted.generation = generation[Store]
        /\ painted.level = Min(Coarsened(window, Wanted[window]))
        /\ LevelTiles(window, painted.level) \subseteq DOMAIN textures

\* The trace shows the counts: its textures are what the store would paint, the
\* frames on their way fit them, and once it is quiet they are the ones its view
\* asks for.
ShowsTheCounts == TexturesAreTrue /\ FramesFit /\ QuietMeansFresh

\* Every request is answered and every refinement ends.
RefinementEnds == []<>Quiet
=============================================================================
