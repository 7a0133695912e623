-------------------------- MODULE TilePainterProofs --------------------------
(***************************************************************************)
(* Theorems about TilePainter, for any tiles, windows, levels and budgets, *)
(* any number of gestures and generations, and every order of messages:    *)
(* what the browser shows is what the store counts.                        *)
(***************************************************************************)
EXTENDS TilePainter, Sums

(* What travels: requests, the replies to them, and notes of appends.       *)
Asks == [kind : {"ask"}, seq : Nat, window : Windows, kept : BOOLEAN, generation : Nat,
         opacity : Int, level : Int, known : SUBSET Tiles]
Grids == [kind : {"grid"}, seq : Nat]

IsFrame(m) ==
    /\ m = [kind |-> "frame", seq |-> m.seq, kept |-> m.kept, generation |-> m.generation,
            opacity |-> m.opacity, rgba |-> m.rgba, level |-> m.level, keys |-> m.keys,
            data |-> m.data, refine |-> m.refine]
    /\ m.seq \in Nat /\ m.kept \in BOOLEAN /\ m.generation \in Nat /\ m.opacity \in Int
    /\ m.rgba \in BOOLEAN /\ m.level \in 0..Top /\ m.keys \subseteq Tiles /\ m.refine \in BOOLEAN
    /\ DOMAIN m.data \subseteq m.keys /\ \A k \in DOMAIN m.data : m.data[k].rgba = m.rgba
    /\ SizeOf(m.keys, m.rgba) <= Budget(m.rgba)

Carried(m) == m \in Asks \/ IsFrame(m) \/ m \in Grids

(* Generations only grow: nothing is painted, asked for or on its way from  *)
(* one that is still to come.                                              *)
Past(m) == m.kind \in {"ask", "frame"} => m.generation < nextGeneration
Bounded(m) == m.kind = "frame" => m.generation <= MaxGeneration /\ m.opacity <= opacity

Hosted ==
    /\ generation \in [Stores -> Nat] /\ nextGeneration \in Nat /\ appending \in [Stores -> BOOLEAN]
    /\ generation[Store] < nextGeneration /\ generation[Store] <= MaxGeneration
    /\ appending[Store] => Store \in live
    /\ colored \in BOOLEAN /\ opacity \in Opacities
    /\ painted.generation < nextGeneration /\ painted.opacity <= opacity

Memos == [window : Windows, seq : Nat \ {0}, answered : BOOLEAN, expired : BOOLEAN]

Kept ==
    /\ window \in Windows /\ seq \in Nat /\ pendingSeq \in 0..seq
    /\ due \in BOOLEAN /\ onGrid \in BOOLEAN /\ looks \in 0..MaxLooks
    /\ memo = NoMemo \/ (memo \in Memos /\ memo.seq <= seq)
    /\ due => seq > 0
    /\ painted = [generation |-> painted.generation, opacity |-> painted.opacity, level |-> painted.level]
    /\ painted.generation \in 0..MaxGeneration /\ painted.opacity \in Int /\ painted.level \in -1..Top
    /\ DOMAIN textures \subseteq Tiles

(* One request at a time is awaited, the one the memo is about: it is the   *)
(* last that was sent, and what was sent before it is not listened to.      *)
Talk == {m \in wire : m.kind # "append"}

Sent(m) ==
    /\ Carried(m) /\ Past(m) /\ Bounded(m)
    /\ 1 <= m.seq /\ m.seq <= seq /\ (due => m.seq < seq)
    /\ IF memo = NoMemo THEN m.seq < seq ELSE m.seq <= memo.seq

Talks ==
    /\ \A m \in Talk : Sent(m)
    /\ \A m, n \in Talk : m.seq = n.seq => m = n

(* The memo is about the view on screen, unless the reply to it is no more  *)
(* than one of those nobody waits for.                                     *)
AboutView ==
    memo # NoMemo /\ (~due \/ memo.seq = seq \/ memo.seq = pendingSeq) => memo.window = window

Latest(m) == memo # NoMemo /\ m.seq = memo.seq

(* Pixels of the generation of the store are what it would paint.           *)
Paints(rgba, alpha, images) ==
    /\ ~appending[Store] /\ rgba = colored
    /\ (colored => alpha = opacity) => \A k \in DOMAIN images : images[k] = Image(k)

ImagesTrue ==
    Store \in live =>
        /\ \A m \in Talk : m.kind = "frame" /\ m.generation = generation[Store] => Paints(m.rgba, m.opacity, m.data)
        /\ painted.generation = generation[Store] =>
              \A k \in DOMAIN textures : Paints(textures[k].rgba, painted.opacity, textures)

TexturesFit == WithinBudget

(* The awaited request names the textures the browser has, and the awaited  *)
(* frame keeps no other, unless they were deleted in between.               *)
NamesTextures(m) ==
    m.known = DOMAIN textures /\ m.generation = painted.generation /\ m.opacity = painted.opacity

Inventories ==
    \A m \in Talk : Latest(m) =>
        /\ m.kind = "ask" => m.window = memo.window /\ (m.kept => NamesTextures(m))
        /\ m.kind = "frame" /\ m.kept => Valid(m)

(* Unless an append is under way or its note is on the wire, what the view  *)
(* shows, and what it waits for, is of the generation of the store.         *)
Behind == appending[Store] \/ \E m \in wire : m.kind = "append"

Covers(w, level, keys) == level = Min(Coarsened(w, Wanted[w])) /\ LevelTiles(w, level) \subseteq keys

UpToDate ==
    ~Behind =>
        /\ ~onGrid => Store \in live /\ painted.generation = generation[Store]
        /\ \A m \in Talk : Latest(m) /\ m.kind = "frame" =>
              /\ Store \in live /\ m.generation = generation[Store]
              /\ ~m.refine => Covers(memo.window, m.level, m.keys)
        /\ outcome = "frame" /\ ~onGrid =>
              IF memo = NoMemo THEN due
              ELSE (\E m \in Talk : Latest(m)) \/ Covers(memo.window, painted.level, DOMAIN textures)

PainterInv ==
    Hosted /\ Kept /\ Talks /\ AboutView /\ ImagesTrue /\ TexturesFit /\ Inventories /\ UpToDate

-----------------------------------------------------------------------------
(* The least of some levels is one of them.                                *)
LEMMA LeastLevel ==
    ASSUME NEW L, L \subseteq Nat, L # {}
    PROVE  Min(L) \in L /\ \A l \in L : Min(L) <= l
BY LeastNat DEF Min

(* A memo is none, or one that was made.                                   *)
LEMMA MemoIsSome == \A x \in Memos : x # NoMemo
<1> SUFFICES ASSUME NEW x \in Memos PROVE x # NoMemo
    OBVIOUS
<1>1. "seq" \in DOMAIN x
    BY DEF Memos
<1>2. "seq" \notin DOMAIN NoMemo
    BY DEF NoMemo
<1> QED BY <1>1, <1>2

(* What kind of message one is decides what it carries.                    *)
LEMMA Kinds ==
    ASSUME NEW m, Carried(m)
    PROVE  /\ m.kind \in {"ask", "frame", "grid"}
           /\ m.kind = "ask" => m \in Asks
           /\ m.kind = "frame" => IsFrame(m)
           /\ m.seq \in Nat
<1>1. CASE m \in Asks
    BY <1>1 DEF Asks
<1>2. CASE IsFrame(m)
    BY <1>2 DEF IsFrame
<1>3. CASE m \in Grids
    BY <1>3 DEF Grids
<1> QED BY <1>1, <1>2, <1>3 DEF Carried

(* A reply that is listened to answers the request the memo is about.       *)
LEMMA CurrentIsLatest ==
    ASSUME PainterInv, NEW m \in Talk, Current(m)
    PROVE  Latest(m) /\ \A n \in Talk \ {m} : n.seq < memo.seq
<1>1. /\ seq \in Nat /\ (memo = NoMemo \/ (memo \in Memos /\ memo.seq <= seq))
      /\ \A n \in Talk : n.seq \in Nat /\ n.seq <= seq /\ (IF memo = NoMemo THEN n.seq < seq ELSE n.seq <= memo.seq)
      /\ \A n \in Talk : n.seq = m.seq => n = m
    BY Kinds DEF PainterInv, Kept, Talks, Sent
<1>2. memo # NoMemo
    BY <1>1 DEF Current
<1>3. memo.seq \in Nat
    BY <1>1, <1>2 DEF Memos
<1>4. m.seq = memo.seq
    BY <1>1, <1>2, <1>3 DEF Current
<1> QED BY <1>1, <1>2, <1>3, <1>4 DEF Latest

-----------------------------------------------------------------------------
(* The host and its store.  They leave the browser alone.                   *)
LEMMA HostStep ==
    ASSUME PainterInv, UNCHANGED <<clientVars, historyVars>>, Talk' = Talk,
           Hosted', ImagesTrue', UpToDate', nextGeneration <= nextGeneration', opacity <= opacity'
    PROVE  PainterInv'
<1>1. Kept'
    BY DEF PainterInv, Kept, clientVars, historyVars
<1>2. Talks'
    <2>1. nextGeneration \in Nat /\ nextGeneration' \in Nat /\ opacity \in Nat /\ opacity' \in Nat
        BY PainterAssumption DEF PainterInv, Hosted
    <2>2. ASSUME NEW m \in Talk PROVE Sent(m)'
        <3>1. Sent(m)
            BY DEF PainterInv, Talks
        <3>2. Past(m)' /\ Bounded(m)'
            BY <2>1, <3>1, Kinds DEF Sent, Past, Bounded, Asks, IsFrame
        <3> QED BY <3>1, <3>2 DEF Sent, clientVars
    <2> QED BY <2>2 DEF PainterInv, Talks
<1>3. AboutView'
    BY DEF PainterInv, AboutView, clientVars
<1>4. TexturesFit'
    BY DEF PainterInv, TexturesFit, WithinBudget, clientVars
<1>5. Inventories'
    BY DEF PainterInv, Inventories, Latest, NamesTextures, Valid, clientVars
<1> QED BY <1>1, <1>2, <1>3, <1>4, <1>5 DEF PainterInv

LEMMA BuildKeeps == ASSUME PainterInv, Build PROVE PainterInv'
<1>1. /\ Store \notin live /\ nextGeneration <= MaxGeneration
      /\ generation' = [generation EXCEPT ![Store] = nextGeneration]
      /\ nextGeneration' = nextGeneration + 1 /\ appending' = appending
      /\ colored' \in BOOLEAN /\ opacity' = opacity /\ wire' = wire
      /\ UNCHANGED <<clientVars, historyVars>>
    BY DEF Build, Open
<1>2. Talk' = Talk
    BY <1>1 DEF Talk
<1>3. /\ Hosted /\ nextGeneration \in Nat /\ opacity \in Nat /\ generation'[Store] = nextGeneration
      /\ ~appending[Store] /\ Store \in Stores
    BY <1>1, PainterAssumption DEF PainterInv, Hosted
<1>4. Hosted'
    <2>1. painted' = painted /\ painted.generation \in Nat
        BY <1>1 DEF PainterInv, Kept, clientVars
    <2> QED BY <1>1, <1>3, <2>1, PainterAssumption DEF Hosted
<1>5. \A m \in Talk : m.kind = "frame" => m.generation \in Nat /\ m.generation < nextGeneration
    BY Kinds DEF PainterInv, Talks, Sent, Past, IsFrame
<1>6. painted.generation \in Nat /\ painted.generation < nextGeneration
    BY DEF PainterInv, Kept, Hosted
<1>7. ImagesTrue'
    BY <1>1, <1>2, <1>3, <1>5, <1>6 DEF ImagesTrue, clientVars
<1>8. UpToDate'
    BY <1>1, <1>2 DEF PainterInv, UpToDate, Behind, Latest, clientVars, historyVars
<1> QED BY <1>1, <1>2, <1>3, <1>4, <1>7, <1>8, HostStep

LEMMA StartAppendKeeps == ASSUME PainterInv, StartAppend PROVE PainterInv'
<1>1. /\ Store \in live /\ nextGeneration <= MaxGeneration
      /\ generation' = [generation EXCEPT ![Store] = nextGeneration]
      /\ nextGeneration' = nextGeneration + 1 /\ appending' = [appending EXCEPT ![Store] = TRUE]
      /\ live' = live /\ UNCHANGED painterVars
    BY DEF StartAppend, BeginAppend
<1>2. /\ UNCHANGED <<clientVars, historyVars>> /\ colored' = colored /\ opacity' = opacity /\ wire' = wire
    BY <1>1 DEF painterVars, hostVars
<1>3. Talk' = Talk
    BY <1>2 DEF Talk
<1>4. /\ Hosted /\ nextGeneration \in Nat /\ opacity \in Nat /\ generation'[Store] = nextGeneration
      /\ appending'[Store] /\ Store \in Stores
    BY <1>1, PainterAssumption DEF PainterInv, Hosted
<1>5. Hosted'
    <2>1. painted' = painted /\ painted.generation \in Nat
        BY <1>2 DEF PainterInv, Kept, clientVars
    <2> QED BY <1>1, <1>2, <1>4, <2>1, PainterAssumption DEF Hosted
<1>6. \A m \in Talk : m.kind = "frame" => m.generation \in Nat /\ m.generation < nextGeneration
    BY Kinds DEF PainterInv, Talks, Sent, Past, IsFrame
<1>7. painted.generation \in Nat /\ painted.generation < nextGeneration
    BY DEF PainterInv, Kept, Hosted
<1>8. ImagesTrue'
    BY <1>2, <1>3, <1>4, <1>6, <1>7 DEF ImagesTrue, clientVars
<1>9. UpToDate'
    BY <1>4 DEF UpToDate, Behind
<1> QED BY <1>1, <1>2, <1>3, <1>4, <1>5, <1>8, <1>9, HostStep

(* What is appended is in nobody's picture: an append under way has a        *)
(* generation of its own.                                                  *)
LEMMA NobodyHasIt ==
    ASSUME PainterInv, appending[Store]
    PROVE  /\ Store \in live
           /\ \A m \in Talk : m.kind = "frame" => m.generation # generation[Store]
           /\ DOMAIN textures # {} => painted.generation # generation[Store]
BY DEF PainterInv, Hosted, ImagesTrue, Paints

LEMMA LandPointKeeps == ASSUME PainterInv, LandPoint PROVE PainterInv'
<1>1. /\ \E c \in Cells : Land(Store, c)
      /\ UNCHANGED painterVars
    BY DEF LandPoint
<1>2. /\ UNCHANGED <<clientVars, historyVars>> /\ colored' = colored /\ opacity' = opacity /\ wire' = wire
      /\ UNCHANGED <<live, generation, nextGeneration, appending>> /\ appending[Store]
    BY <1>1 DEF painterVars, hostVars, Land
<1>3. Talk' = Talk
    BY <1>2 DEF Talk
<1>4. Hosted' /\ nextGeneration \in Nat /\ opacity \in Nat
    BY <1>2, PainterAssumption DEF PainterInv, Hosted, clientVars
<1>5. ImagesTrue'
    BY <1>2, <1>3, NobodyHasIt DEF ImagesTrue, clientVars
<1>6. UpToDate'
    BY <1>2 DEF UpToDate, Behind
<1> QED BY <1>2, <1>3, <1>4, <1>5, <1>6, HostStep

(* The ways an append, or a batch refused, ends: with a note on the wire.   *)
LEMMA PostKeeps ==
    ASSUME PainterInv, Post, UNCHANGED <<hostVars, clientVars, historyVars, generation, nextGeneration>>,
           appending' \in [Stores -> BOOLEAN], ~appending'[Store],
           Store \in live' => Store \in live /\ appending[Store]
    PROVE  PainterInv'
<1> DEFINE note == [kind |-> "append", generation |-> nextGeneration, live |-> live']
<1>1. /\ wire' = wire \cup {note} /\ note.kind = "append"
    BY DEF Post
<1>2. Talk' = Talk
    BY <1>1 DEF Talk
<1>3. /\ colored' = colored /\ opacity' = opacity /\ UNCHANGED <<clientVars, historyVars>>
      /\ UNCHANGED <<generation, nextGeneration>>
    BY DEF hostVars
<1>4. Hosted' /\ nextGeneration \in Nat /\ opacity \in Nat
    BY <1>3, PainterAssumption DEF PainterInv, Hosted, clientVars
<1>5. ImagesTrue'
    BY <1>2, <1>3, NobodyHasIt DEF ImagesTrue, clientVars
<1>6. UpToDate'
    BY <1>1 DEF UpToDate, Behind
<1> QED BY <1>2, <1>3, <1>4, <1>5, <1>6, HostStep

LEMMA AppendEndsKeep ==
    ASSUME PainterInv, FinishAppend \/ RefuseAppend \/ FailAppend
    PROVE  PainterInv'
<1>1. appending \in [Stores -> BOOLEAN] /\ Store \in Stores
    BY PainterAssumption DEF PainterInv, Hosted
<1>2. CASE FinishAppend
    BY <1>1, <1>2, NobodyHasIt, PostKeeps DEF FinishAppend, EndAppend
<1>3. CASE RefuseAppend
    BY <1>1, <1>3, PostKeeps DEF RefuseAppend, Close
<1>4. CASE FailAppend
    BY <1>1, <1>4, PostKeeps DEF FailAppend
<1> QED BY <1>2, <1>3, <1>4

LEMMA RestyleKeeps == ASSUME PainterInv, Restyle PROVE PainterInv'
<1>1. /\ opacity' \in Opacities /\ opacity' > opacity /\ colored' = colored /\ wire' = wire
      /\ UNCHANGED vars /\ UNCHANGED <<clientVars, historyVars>>
    BY DEF Restyle
<1>2. UNCHANGED <<live, counts, generation, nextGeneration, appending>>
    BY <1>1 DEF vars
<1>3. Talk' = Talk
    BY <1>1 DEF Talk
<1>4. /\ opacity \in Nat /\ opacity' \in Nat /\ nextGeneration \in Nat
      /\ painted.opacity \in Int /\ painted.opacity <= opacity
    BY <1>1, PainterAssumption DEF PainterInv, Hosted, Kept
<1>5. Hosted'
    <2>1. painted' = painted
        BY <1>1 DEF clientVars
    <2> QED BY <1>1, <1>2, <1>4, <2>1 DEF PainterInv, Hosted
<1>6. \A m \in Talk : m.kind = "frame" => m.opacity \in Int /\ m.opacity <= opacity
    BY Kinds DEF PainterInv, Talks, Sent, Bounded, IsFrame
<1>7. ASSUME NEW alpha \in Int, alpha <= opacity, NEW images, NEW rgba, Paints(rgba, alpha, images)
      PROVE  Paints(rgba, alpha, images)'
    <2>1. ~colored => \A k : Image(k)' = Image(k)
        BY <1>1, <1>2 DEF Image, LevelTop
    <2> QED BY <1>1, <1>2, <1>4, <1>7, <2>1 DEF Paints
<1>8. ImagesTrue'
    <2>1. ImagesTrue /\ UNCHANGED <<painted, textures>>
        BY <1>1 DEF PainterInv, clientVars
    <2>2. ASSUME Store \in live, NEW m \in Talk, m.kind = "frame", m.generation = generation[Store]
          PROVE  Paints(m.rgba, m.opacity, m.data)'
        BY <1>6, <1>7, <2>1, <2>2 DEF ImagesTrue
    <2>3. ASSUME Store \in live, painted.generation = generation[Store], NEW k \in DOMAIN textures
          PROVE  Paints(textures[k].rgba, painted.opacity, textures)'
        BY <1>4, <1>7, <2>1, <2>3 DEF ImagesTrue
    <2> QED BY <1>2, <1>3, <2>1, <2>2, <2>3 DEF ImagesTrue
<1>9. UpToDate'
    <2>1. \A w : Coarsened(w, Wanted[w])' = Coarsened(w, Wanted[w])
        BY <1>1 DEF Coarsened, Fits
    <2> QED BY <1>1, <1>2, <1>3, <2>1 DEF PainterInv, UpToDate, Behind, Latest, Covers, clientVars, historyVars
<1> QED BY <1>1, <1>2, <1>3, <1>4, <1>5, <1>8, <1>9, HostStep

-----------------------------------------------------------------------------
(* What the host answers.  A frame is within the levels and the budget, and *)
(* keeps only what the request named.                                      *)
LEMMA CoarsenedIs ==
    ASSUME NEW w, NEW l \in 0..Top, Coarsened(w, l) # {}
    PROVE  Min(Coarsened(w, l)) \in l..Top
<1>1. Coarsened(w, l) \subseteq l..Top /\ Coarsened(w, l) \subseteq Nat
    BY PainterAssumption DEF Coarsened
<1> QED BY <1>1, LeastLevel

(* The frame with level, kept tiles and target given.                      *)
FrameOf(ask, level, keep, target) ==
    LET active == LevelTiles(ask.window, level)
    IN  [kind |-> "frame", seq |-> ask.seq, kept |-> ask.kept,
         generation |-> generation[Store], opacity |-> opacity, rgba |-> colored,
         level |-> level, keys |-> active \cup keep,
         data |-> [k \in active \ Known(ask) |-> Image(k)],
         refine |-> level # target]

LEMMA FrameIs ==
    ASSUME Hosted, NEW ask \in Asks, NEW m \in Frames(ask)
    PROVE  \E level \in 0..Top : \E keep \in SUBSET (Known(ask) \ LevelTiles(ask.window, level)) :
              /\ m = FrameOf(ask, level, keep, Min(Coarsened(ask.window, Wanted[ask.window])))
              /\ SizeOf(LevelTiles(ask.window, level) \cup keep, colored) <= Budget(colored)
<1> DEFINE fit == Coarsened(ask.window, Wanted[ask.window])
           target == Min(fit)
<1>1. fit # {}
    BY DEF Frames
<1>2. ask.window \in Windows /\ ask.level \in Int /\ Wanted[ask.window] \in 0..Top /\ Top \in Nat
    BY PainterAssumption DEF Asks
<1>3. target \in 0..Top
    BY <1>1, <1>2, CoarsenedIs
<1>4. PICK level \in Served(ask, target) :
        \E keep \in Retained({k \in Known(ask) \ LevelTiles(ask.window, level) : LevelOf[k] - level \in -1..1},
                              LevelTiles(ask.window, level)) :
           m = FrameOf(ask, level, keep, target)
    BY <1>1 DEF Frames, FrameOf
<1>5. level \in 0..Top
    <2> DEFINE near == IF ask.level \in 0..Top /\ ask.generation = generation[Store]
                       THEN IF target < ask.level - 1 THEN ask.level - 1
                            ELSE IF target > ask.level + 1 THEN ask.level + 1 ELSE target
                       ELSE target
    <2>1. near \in 0..Top
        BY <1>2, <1>3
    <2> HIDE DEF near
    <2>2. level = Min(Coarsened(ask.window, near)) /\ Coarsened(ask.window, near) # {}
        BY <1>4 DEF Served, near
    <2>3. level \in near..Top
        BY <2>1, <2>2, CoarsenedIs
    <2> QED BY <2>1, <2>3
<1>6. PICK keep \in Retained({k \in Known(ask) \ LevelTiles(ask.window, level) : LevelOf[k] - level \in -1..1},
                             LevelTiles(ask.window, level)) :
        m = FrameOf(ask, level, keep, target)
    BY <1>4
<1>7. /\ keep \subseteq Known(ask) \ LevelTiles(ask.window, level)
      /\ SizeOf(LevelTiles(ask.window, level) \cup keep, colored) <= Budget(colored)
    BY <1>6 DEF Retained
<1> QED BY <1>5, <1>6, <1>7

(* A frame, field by field.                                                *)
LEMMA FrameFields ==
    ASSUME PainterInv, NEW ask \in Asks, Sent(ask), NEW level \in 0..Top, NEW target,
           NEW keep \in SUBSET (Known(ask) \ LevelTiles(ask.window, level)),
           SizeOf(LevelTiles(ask.window, level) \cup keep, colored) <= Budget(colored)
    PROVE  LET m == FrameOf(ask, level, keep, target)
           IN  IsFrame(m) /\ m.kind = "frame" /\ Past(m) /\ Bounded(m)
<1> DEFINE m == FrameOf(ask, level, keep, target)
<1>1. /\ m.kind = "frame" /\ m.seq = ask.seq /\ m.kept = ask.kept /\ m.generation = generation[Store]
      /\ m.opacity = opacity /\ m.rgba = colored /\ m.level = level
      /\ m.keys = LevelTiles(ask.window, level) \cup keep
      /\ m.data = [k \in LevelTiles(ask.window, level) \ Known(ask) |-> Image(k)]
      /\ m.refine = (level # target)
    BY DEF FrameOf
<1>2. m = [kind |-> "frame", seq |-> m.seq, kept |-> m.kept, generation |-> m.generation,
           opacity |-> m.opacity, rgba |-> m.rgba, level |-> m.level, keys |-> m.keys,
           data |-> m.data, refine |-> m.refine]
    BY DEF FrameOf
<1> HIDE DEF m
<1>3. /\ ask.seq \in Nat /\ ask.kept \in BOOLEAN /\ ask.known \subseteq Tiles /\ ask.window \in Windows
      /\ generation[Store] \in Nat /\ generation[Store] < nextGeneration /\ generation[Store] <= MaxGeneration
      /\ opacity \in Int /\ colored \in BOOLEAN
    BY PainterAssumption DEF PainterInv, Hosted, Asks
<1>4. LevelTiles(ask.window, level) \subseteq Tiles /\ Known(ask) \subseteq ask.known
    BY <1>3, PainterAssumption DEF LevelTiles, Known
<1>5. m.keys \subseteq Tiles /\ DOMAIN m.data \subseteq m.keys
    BY <1>1, <1>3, <1>4
<1>6. \A k \in DOMAIN m.data : m.data[k].rgba = m.rgba
    BY <1>1 DEF Image
<1>7. SizeOf(m.keys, m.rgba) <= Budget(m.rgba)
    BY <1>1
<1>8. IsFrame(m)
    BY <1>1, <1>2, <1>3, <1>5, <1>6, <1>7 DEF IsFrame
<1>9. Past(m) /\ Bounded(m)
    BY <1>1, <1>3 DEF Past, Bounded
<1> QED BY <1>1, <1>8, <1>9 DEF m

(* A reply takes the place of the request.                                 *)
LEMMA ReplyKeeps ==
    ASSUME PainterInv, UNCHANGED <<vars, hostVars, clientVars, historyVars>>,
           NEW ask \in wire, ask.kind = "ask", NEW reply, wire' = (wire \ {ask}) \cup {reply},
           reply.kind \in {"frame", "grid"}, Carried(reply), reply.seq = ask.seq,
           Past(reply), Bounded(reply),
           reply.kind = "frame" =>
              /\ Store \in live /\ reply.generation = generation[Store]
              /\ Paints(reply.rgba, reply.opacity, reply.data)
              /\ Latest(ask) /\ reply.kept => Valid(reply)
              /\ Latest(ask) /\ ~reply.refine => Covers(memo.window, reply.level, reply.keys)
    PROVE  PainterInv'
<1>1. /\ UNCHANGED <<live, counts, generation, nextGeneration, appending>> /\ UNCHANGED <<colored, opacity>>
      /\ UNCHANGED <<window, seq, due, pendingSeq, memo, textures, painted, onGrid>> /\ UNCHANGED <<looks, outcome>>
    BY DEF vars, hostVars, clientVars, historyVars
<1>2. ask \in Talk /\ Talk' = (Talk \ {ask}) \cup {reply}
    BY DEF Talk
<1>3. Hosted' /\ Kept' /\ AboutView' /\ TexturesFit'
    BY <1>1 DEF PainterInv, Hosted, Kept, AboutView, TexturesFit, WithinBudget
<1>4. Talks'
    <2>1. \A m \in Talk \cup {reply} : Sent(m)
        BY <1>2 DEF PainterInv, Talks, Sent
    <2>2. \A m \in Talk' : Sent(m)'
        BY <1>1, <1>2, <2>1 DEF Sent, Past, Bounded
    <2>3. \A m, n \in Talk' : m.seq = n.seq => m = n
        BY <1>2 DEF PainterInv, Talks
    <2> QED BY <2>2, <2>3 DEF Talks
<1>5. \A rgba, alpha, images : Paints(rgba, alpha, images)' = Paints(rgba, alpha, images)
    BY <1>1 DEF Paints, Image, LevelTop
<1>6. ImagesTrue'
    BY <1>1, <1>2, <1>5 DEF PainterInv, ImagesTrue
<1>7. Inventories'
    <2>1. \A m : Valid(m)' = Valid(m) /\ Latest(m)' = Latest(m) /\ NamesTextures(m)' = NamesTextures(m)
        BY <1>1 DEF Valid, Latest, NamesTextures
    <2>2. Latest(reply) = Latest(ask)
        BY DEF Latest
    <2> QED BY <1>1, <1>2, <2>1, <2>2 DEF PainterInv, Inventories
<1>8. UpToDate'
    <2>1. Behind' = Behind
        BY <1>1 DEF Behind
    <2>2. \A w, l, keys : Covers(w, l, keys)' = Covers(w, l, keys)
        BY <1>1 DEF Covers, Coarsened, Fits
    <2>3. Latest(reply) = Latest(ask) /\ \A m : Latest(m)' = Latest(m)
        BY <1>1 DEF Latest
    <2> QED BY <1>1, <1>2, <2>1, <2>2, <2>3 DEF PainterInv, UpToDate
<1> QED BY <1>3, <1>4, <1>6, <1>7, <1>8 DEF PainterInv

LEMMA ServeKeeps == ASSUME PainterInv, Serve PROVE PainterInv'
<1>0. PICK ask \in wire : ask.kind = "ask" /\ \E reply \in {Grid(ask)} \cup (IF Store \in live THEN Frames(ask) ELSE {}) :
                              wire' = (wire \ {ask}) \cup {reply}
    BY DEF Serve
<1>1. PICK reply \in {Grid(ask)} \cup (IF Store \in live THEN Frames(ask) ELSE {}) :
        ask.kind = "ask" /\ wire' = (wire \ {ask}) \cup {reply}
    BY <1>0
<1>2. ~appending[Store] /\ UNCHANGED <<vars, hostVars, clientVars, historyVars>>
    BY DEF Serve
<1>3. ask \in Talk /\ Sent(ask) /\ ask \in Asks
    BY <1>1, Kinds DEF PainterInv, Talks, Talk, Sent
<1>4. CASE reply = Grid(ask)
    <2>1. reply.kind = "grid" /\ reply.seq = ask.seq /\ reply \in Grids
        BY <1>3, <1>4 DEF Grid, Grids, Asks
    <2> QED BY <1>1, <1>2, <2>1, ReplyKeeps DEF Carried, Past, Bounded
<1>5. CASE reply \in Frames(ask) /\ Store \in live
    <2> DEFINE target == Min(Coarsened(ask.window, Wanted[ask.window]))
    <2>0. PICK level \in 0..Top : \E keep \in SUBSET (Known(ask) \ LevelTiles(ask.window, level)) :
            /\ reply = FrameOf(ask, level, keep, target)
            /\ SizeOf(LevelTiles(ask.window, level) \cup keep, colored) <= Budget(colored)
        BY <1>3, <1>5, FrameIs DEF PainterInv
    <2>1. PICK keep \in SUBSET (Known(ask) \ LevelTiles(ask.window, level)) :
            /\ reply = FrameOf(ask, level, keep, target)
            /\ SizeOf(LevelTiles(ask.window, level) \cup keep, colored) <= Budget(colored)
        BY <2>0
    <2>2. IsFrame(reply) /\ reply.kind = "frame" /\ Past(reply) /\ Bounded(reply)
        BY <1>3, <2>1, FrameFields
    <2>3. /\ reply.seq = ask.seq /\ reply.kept = ask.kept /\ reply.generation = generation[Store]
          /\ reply.opacity = opacity /\ reply.rgba = colored /\ reply.level = level
          /\ reply.keys = LevelTiles(ask.window, level) \cup keep
          /\ reply.data = [k \in LevelTiles(ask.window, level) \ Known(ask) |-> Image(k)]
          /\ reply.refine = (level # target)
        BY <2>1 DEF FrameOf
    <2>4. Paints(reply.rgba, reply.opacity, reply.data)
        BY <1>2, <2>3 DEF Paints
    <2>5. ASSUME Latest(ask), reply.kept PROVE Valid(reply)
        <3>1. NamesTextures(ask)
            BY <1>1, <1>3, <2>3, <2>5 DEF PainterInv, Inventories
        <3>2. ASSUME NEW k \in reply.keys \ DOMAIN reply.data
              PROVE  k \in Known(ask)
            BY <2>1, <2>3, <3>2
        <3>3. ASSUME NEW k \in Known(ask)
              PROVE  /\ painted.generation = generation[Store] /\ (colored => painted.opacity = opacity)
                     /\ k \in DOMAIN textures
            BY <3>1, <3>3 DEF Known, NamesTextures
        <3>4. ASSUME NEW k \in Known(ask) PROVE textures[k].rgba = colored
            BY <1>5, <3>3, <3>4 DEF PainterInv, ImagesTrue, Paints
        <3> QED BY <2>3, <3>2, <3>3, <3>4 DEF Valid
    <2>6. ASSUME Latest(ask), ~reply.refine PROVE Covers(memo.window, reply.level, reply.keys)
        <3>1. ask.window = memo.window
            BY <1>1, <1>3, <2>6 DEF PainterInv, Inventories
        <3> QED BY <2>3, <2>6, <3>1 DEF Covers
    <2> QED BY <1>1, <1>2, <1>5, <2>2, <2>3, <2>4, <2>5, <2>6, ReplyKeeps DEF Carried
<1> QED BY <1>1, <1>4, <1>5

-----------------------------------------------------------------------------
(* The browser.  It leaves the host alone.                                  *)
LEMMA SameHost ==
    ASSUME UNCHANGED <<vars, hostVars>>
    PROVE  /\ UNCHANGED <<live, counts, generation, nextGeneration, appending, colored, opacity>>
           /\ \A rgba, alpha, images : Paints(rgba, alpha, images)' = Paints(rgba, alpha, images)
           /\ \A w, l, keys : Covers(w, l, keys)' = Covers(w, l, keys)
<1>1. UNCHANGED <<live, counts, generation, nextGeneration, appending, colored, opacity>>
    BY DEF vars, hostVars
<1>2. \A rgba, alpha, images : Paints(rgba, alpha, images)' = Paints(rgba, alpha, images)
    BY <1>1 DEF Paints, Image, LevelTop
<1>3. \A w, l, keys : Covers(w, l, keys)' = Covers(w, l, keys)
    BY <1>1 DEF Covers, Coarsened, Fits
<1> QED BY <1>1, <1>2, <1>3

(* A memo about the same request.                                          *)
SameMemo == memo' = memo \/ (memo \in Memos /\ memo' \in Memos /\ memo'.seq = memo.seq /\ memo'.window = memo.window)

LEMMA SameLatest ==
    ASSUME SameMemo
    PROVE  /\ memo' = NoMemo <=> memo = NoMemo
           /\ memo # NoMemo => memo'.seq = memo.seq /\ memo'.window = memo.window
           /\ \A m : Latest(m)' = Latest(m)
<1>1. /\ memo' = NoMemo <=> memo = NoMemo
      /\ memo # NoMemo => memo'.seq = memo.seq /\ memo'.window = memo.window
    BY MemoIsSome DEF SameMemo
<1> QED BY <1>1 DEF Latest

(* A gesture, and the timer of the memo: nothing is shown, sent or heard.   *)
LEMMA NothingShown ==
    ASSUME PainterInv, UNCHANGED <<vars, hostVars, textures, painted, onGrid, wire, outcome>>,
           SameMemo, Kept', AboutView', seq <= seq', due' => due \/ seq' > seq, due => due'
    PROVE  PainterInv'
<1>1. /\ UNCHANGED <<live, counts, generation, nextGeneration, appending, colored, opacity>>
      /\ \A rgba, alpha, images : Paints(rgba, alpha, images)' = Paints(rgba, alpha, images)
      /\ \A w, l, keys : Covers(w, l, keys)' = Covers(w, l, keys)
    BY SameHost
<1>2. Talk' = Talk /\ Behind' = Behind
    BY <1>1 DEF Talk, Behind
<1>3. /\ memo' = NoMemo <=> memo = NoMemo
      /\ memo # NoMemo => memo'.seq = memo.seq /\ memo'.window = memo.window
      /\ \A m : Latest(m)' = Latest(m)
    BY SameLatest
<1>4. Hosted' /\ TexturesFit'
    BY <1>1 DEF PainterInv, Hosted, TexturesFit, WithinBudget
<1>5. Talks'
    <2>1. seq \in Nat /\ seq' \in Nat
        BY DEF PainterInv, Kept
    <2>2. ASSUME NEW m \in Talk PROVE Sent(m)'
        <3>1. Sent(m) /\ m.seq \in Nat
            BY Kinds DEF PainterInv, Talks, Sent
        <3>2. Carried(m)' /\ Past(m)' /\ Bounded(m)'
            BY <1>1, <3>1 DEF Sent, Past, Bounded
        <3>3. 1 <= m.seq /\ m.seq <= seq' /\ (due' => m.seq < seq')
            BY <2>1, <3>1 DEF Sent
        <3>4. IF memo' = NoMemo THEN m.seq < seq' ELSE m.seq <= memo'.seq
            BY <1>3, <2>1, <3>1 DEF Sent
        <3> QED BY <3>2, <3>3, <3>4 DEF Sent
    <2> QED BY <1>2, <2>2 DEF PainterInv, Talks
<1>6. ImagesTrue'
    BY <1>1, <1>2 DEF PainterInv, ImagesTrue
<1>7. Inventories'
    <2>1. \A m : Valid(m)' = Valid(m) /\ NamesTextures(m)' = NamesTextures(m)
        BY DEF Valid, NamesTextures
    <2> QED BY <1>2, <1>3, <2>1 DEF PainterInv, Inventories, Latest
<1>8. UpToDate'
    BY <1>1, <1>2, <1>3 DEF PainterInv, UpToDate, Latest
<1> QED BY <1>4, <1>5, <1>6, <1>7, <1>8 DEF PainterInv

LEMMA LookKeeps == ASSUME PainterInv, Look PROVE PainterInv'
<1>1. PICK w \in Windows : Schedule(w, memo, IF SameRequest(w) THEN memo.seq ELSE seq + 1)
    BY DEF Look
<1>2. /\ seq' = seq + 1 /\ window' = w /\ due' = TRUE /\ memo' = memo
      /\ pendingSeq' = IF SameRequest(w) THEN memo.seq ELSE seq + 1
    BY <1>1 DEF Schedule
<1>3. /\ looks < MaxLooks /\ looks' = looks + 1
      /\ UNCHANGED <<vars, hostVars, textures, painted, onGrid, wire, outcome>>
    BY DEF Look
<1>4. /\ Kept /\ seq \in Nat /\ (memo = NoMemo \/ (memo \in Memos /\ memo.seq <= seq))
      /\ looks \in Nat /\ MaxLooks \in Nat
    BY PainterAssumption DEF PainterInv, Kept
<1>5. memo # NoMemo => memo.seq \in Nat
    BY <1>4 DEF Memos
<1>6. pendingSeq' \in 0..seq'
    BY <1>2, <1>4, <1>5 DEF SameRequest
<1>7. Kept'
    <2>1. memo' = NoMemo \/ (memo' \in Memos /\ memo'.seq <= seq')
        BY <1>2, <1>4, <1>5
    <2> QED BY <1>2, <1>3, <1>4, <1>6, <2>1 DEF Kept
<1>8. AboutView'
    BY <1>2, <1>4, <1>5 DEF AboutView, SameRequest
<1>9. seq <= seq' /\ seq' > seq /\ due' /\ SameMemo
    BY <1>2, <1>4 DEF SameMemo
<1> QED BY <1>3, <1>7, <1>8, <1>9, NothingShown

LEMMA ExpireKeeps == ASSUME PainterInv, Expire PROVE PainterInv'
<1>1. /\ memo # NoMemo /\ memo' = [memo EXCEPT !.expired = TRUE]
      /\ UNCHANGED <<vars, hostVars, window, seq, due, pendingSeq, textures, painted, onGrid, wire>>
      /\ UNCHANGED <<looks, outcome>>
    BY DEF Expire, historyVars
<1>2. memo \in Memos /\ memo.seq <= seq /\ Kept /\ seq \in Nat
    BY <1>1 DEF PainterInv, Kept
<1>3. memo' \in Memos /\ memo'.seq = memo.seq /\ memo'.window = memo.window
    BY <1>1, <1>2 DEF Memos
<1>4. SameMemo
    BY <1>2, <1>3 DEF SameMemo
<1>5. Kept'
    BY <1>1, <1>2, <1>3 DEF Kept
<1>6. AboutView'
    BY <1>1, <1>3 DEF PainterInv, AboutView
<1> QED BY <1>1, <1>2, <1>4, <1>5, <1>6, NothingShown

(* The timer of a request: it is sent, unless the same one was.             *)
LEMMA SendKeeps == ASSUME PainterInv, Send PROVE PainterInv'
<1>1. /\ due /\ due' = FALSE /\ UNCHANGED <<vars, hostVars, window, seq, textures, painted, onGrid>>
      /\ UNCHANGED <<looks, outcome>>
    BY DEF Send, historyVars
<1>2. /\ UNCHANGED <<live, counts, generation, nextGeneration, appending, colored, opacity>>
      /\ \A rgba, alpha, images : Paints(rgba, alpha, images)' = Paints(rgba, alpha, images)
      /\ \A w, l, keys : Covers(w, l, keys)' = Covers(w, l, keys)
    BY <1>1, SameHost
<1>3. /\ Kept /\ seq \in Nat /\ seq > 0 /\ pendingSeq \in 0..seq /\ window \in Windows
      /\ memo = NoMemo \/ (memo \in Memos /\ memo.seq <= seq)
    BY <1>1 DEF PainterInv, Kept
<1>4. \A m \in Talk : Sent(m) /\ m.seq \in Nat /\ m.seq < seq
    BY <1>1, Kinds DEF PainterInv, Talks, Sent
<1>5. Hosted' /\ TexturesFit'
    BY <1>1, <1>2 DEF PainterInv, Hosted, TexturesFit, WithinBudget
<1>6. \A m : Valid(m)' = Valid(m) /\ NamesTextures(m)' = NamesTextures(m)
    BY <1>1 DEF Valid, NamesTextures
<1>7. CASE SameRequest(window)
    <2>1. /\ pendingSeq' \in {0, pendingSeq} /\ memo' = memo /\ wire' = wire
        BY <1>7 DEF Send
    <2>2. memo # NoMemo /\ memo.window = window
        BY <1>7 DEF SameRequest
    <2>3. Talk' = Talk /\ Behind' = Behind /\ \A m : Latest(m)' = Latest(m)
        BY <1>2, <2>1 DEF Talk, Behind, Latest
    <2>4. Kept'
        <3>1. memo' = NoMemo \/ (memo' \in Memos /\ memo'.seq <= seq')
            BY <1>1, <1>3, <2>1
        <3>2. due' = FALSE /\ pendingSeq' \in 0..seq
            BY <1>1, <1>3, <2>1
        <3> QED BY <1>1, <1>3, <3>1, <3>2 DEF Kept
    <2>5. Talks'
        BY <1>1, <1>2, <1>4, <2>1, <2>3 DEF PainterInv, Talks, Sent, Past, Bounded
    <2>6. AboutView'
        BY <1>1, <2>1, <2>2 DEF AboutView
    <2>7. ImagesTrue' /\ Inventories'
        BY <1>1, <1>2, <1>6, <2>1, <2>3 DEF PainterInv, ImagesTrue, Inventories
    <2>8. UpToDate'
        BY <1>1, <1>2, <2>1, <2>2, <2>3 DEF PainterInv, UpToDate
    <2> QED BY <1>5, <2>4, <2>5, <2>6, <2>7, <2>8 DEF PainterInv
<1>8. CASE ~SameRequest(window)
    <2>0. PICK ask : ask = Ask
        OBVIOUS
    <2>1. /\ wire' = wire \cup {ask} /\ pendingSeq' = pendingSeq
          /\ memo' = [window |-> window, seq |-> seq, answered |-> FALSE, expired |-> FALSE]
        BY <1>8, <2>0 DEF Send
    <2>2. memo' \in Memos /\ memo' # NoMemo /\ memo'.seq = seq /\ memo'.window = window
        <3>1. memo' \in Memos
            BY <1>3, <2>1 DEF Memos
        <3> QED BY <2>1, <3>1, MemoIsSome
    <2>3. /\ ask.kind = "ask" /\ ask.seq = seq /\ ask.window = window /\ NamesTextures(ask)
          /\ ask.generation = painted.generation
        BY <2>0 DEF Ask, NamesTextures
    <2>4. ask \in Asks
        <3>1. painted.generation \in Nat /\ painted.opacity \in Int /\ painted.level \in Int /\ DOMAIN textures \subseteq Tiles
            BY <1>3, PainterAssumption DEF Kept
        <3> QED BY <1>3, <2>0, <3>1 DEF Ask, Asks
    <2>5. Talk' = Talk \cup {ask} /\ Behind' = Behind
        BY <1>2, <2>1, <2>3 DEF Talk, Behind
    <2>6. Latest(ask)' /\ \A m \in Talk : ~ Latest(m)'
        BY <1>3, <1>4, <2>2, <2>3 DEF Latest
    <2>7. Kept'
        <3>1. memo' \in Memos /\ memo'.seq <= seq'
            BY <1>1, <1>3, <2>2
        <3>2. due' \in BOOLEAN /\ (due' => seq' > 0) /\ pendingSeq' \in 0..seq'
            BY <1>1, <1>3, <2>1
        <3> QED BY <1>1, <1>3, <3>1, <3>2 DEF Kept
    <2>8. Talks'
        <3>1. Sent(ask)'
            <4>1. Past(ask)' /\ Bounded(ask)'
                BY <1>2, <2>3 DEF PainterInv, Hosted, Past, Bounded
            <4> QED BY <1>1, <1>3, <2>2, <2>3, <2>4, <4>1 DEF Sent, Carried
        <3>2. \A m \in Talk : Sent(m)'
            BY <1>1, <1>2, <1>3, <1>4, <2>2 DEF Sent, Past, Bounded
        <3>3. \A m, n \in Talk' : m.seq = n.seq => m = n
            BY <1>4, <1>3, <2>3, <2>5 DEF PainterInv, Talks
        <3> QED BY <2>5, <3>1, <3>2, <3>3 DEF Talks
    <2>9. AboutView'
        BY <1>1, <2>2 DEF AboutView
    <2>10. ImagesTrue'
        BY <1>1, <1>2, <2>3, <2>5 DEF PainterInv, ImagesTrue
    <2>11. Inventories'
        BY <1>6, <2>2, <2>3, <2>5, <2>6 DEF Inventories
    <2>12. UpToDate'
        BY <1>1, <1>2, <2>2, <2>3, <2>5, <2>6 DEF PainterInv, UpToDate
    <2> QED BY <1>5, <2>7, <2>8, <2>9, <2>10, <2>11, <2>12 DEF PainterInv
<1> QED BY <1>7, <1>8

-----------------------------------------------------------------------------
(* The browser receives an answer.                                         *)
LEMMA AnsweredIs ==
    ASSUME PainterInv, NEW m, memo' = Answered(m), pendingSeq' = Awaited(m)
    PROVE  SameMemo /\ pendingSeq' \in {0, pendingSeq}
<1>1. memo = NoMemo \/ memo \in Memos
    BY DEF PainterInv, Kept
<1>2. memo \in Memos => [memo EXCEPT !.answered = TRUE] \in Memos
                        /\ [memo EXCEPT !.answered = TRUE].seq = memo.seq
                        /\ [memo EXCEPT !.answered = TRUE].window = memo.window
    BY DEF Memos
<1>3. SameMemo
    BY <1>1, <1>2 DEF Answered, SameMemo
<1>4. pendingSeq' \in {0, pendingSeq}
    BY DEF Awaited
<1> QED BY <1>3, <1>4

(* The requests and replies once one of them has arrived.                   *)
LEMMA Taken ==
    ASSUME PainterInv, UNCHANGED <<vars, hostVars>>, NEW m \in Talk, wire' = wire \ {m}
    PROVE  Talk' = Talk \ {m} /\ Behind' = Behind
<1>1. appending' = appending
    BY SameHost
<1> QED BY <1>1 DEF Talk, Behind

(* An answer that leaves the textures alone: it is stale, or refused, or a  *)
(* grid.                                                                   *)
LEMMA UnshownKeeps ==
    ASSUME PainterInv, UNCHANGED <<vars, hostVars>>, NEW m \in Talk, wire' = wire \ {m},
           UNCHANGED <<window, seq, due, textures, painted, looks>>, outcome' # "frame",
           onGrid' \in {onGrid, TRUE}, pendingSeq' \in {0, pendingSeq},
           SameMemo \/ (Current(m) /\ memo' = NoMemo)
    PROVE  PainterInv'
<1>1. /\ UNCHANGED <<live, counts, generation, nextGeneration, appending, colored, opacity>>
      /\ \A rgba, alpha, images : Paints(rgba, alpha, images)' = Paints(rgba, alpha, images)
      /\ \A w, l, keys : Covers(w, l, keys)' = Covers(w, l, keys)
    BY SameHost
<1>2. Talk' = Talk \ {m} /\ Behind' = Behind
    BY Taken
<1>3. /\ Kept /\ seq \in Nat /\ pendingSeq \in 0..seq
      /\ memo = NoMemo \/ (memo \in Memos /\ memo.seq <= seq)
    BY DEF PainterInv, Kept
<1>4. Hosted' /\ TexturesFit'
    BY <1>1 DEF PainterInv, Hosted, TexturesFit, WithinBudget
<1>5. \A n : Valid(n)' = Valid(n) /\ NamesTextures(n)' = NamesTextures(n)
    BY DEF Valid, NamesTextures
<1>6. ImagesTrue'
    BY <1>1, <1>2 DEF PainterInv, ImagesTrue
<1>7. pendingSeq' \in 0..seq /\ onGrid' \in BOOLEAN
    <2>1. pendingSeq' \in 0..seq
        BY <1>3
    <2>2. onGrid' \in BOOLEAN
        BY DEF PainterInv, Kept
    <2> QED BY <2>1, <2>2
<1>8. CASE SameMemo
    <2>1. /\ memo' = NoMemo <=> memo = NoMemo
          /\ memo # NoMemo => memo'.seq = memo.seq /\ memo'.window = memo.window
          /\ \A n : Latest(n)' = Latest(n)
        BY <1>8, SameLatest
    <2>2. Kept'
        <3>1. memo' = NoMemo \/ (memo' \in Memos /\ memo'.seq <= seq')
            BY <1>3, <1>8, MemoIsSome DEF SameMemo
        <3> QED BY <1>3, <1>7, <3>1 DEF Kept
    <2>3. Talks'
        <3>1. \A n \in Talk : Sent(n)'
            BY <1>1, <2>1 DEF PainterInv, Talks, Sent, Past, Bounded
        <3> QED BY <1>2, <3>1 DEF PainterInv, Talks
    <2>4. AboutView'
        <3>1. memo # NoMemo => memo.seq \in Nat \ {0}
            BY <1>3 DEF Memos
        <3> QED BY <2>1, <3>1 DEF PainterInv, AboutView
    <2>5. Inventories'
        BY <1>2, <1>5, <2>1 DEF PainterInv, Inventories, Latest
    <2>6. UpToDate'
        BY <1>1, <1>2, <2>1 DEF PainterInv, UpToDate, Latest
    <2> QED BY <1>4, <1>6, <2>2, <2>3, <2>4, <2>5, <2>6 DEF PainterInv
<1>9. CASE Current(m) /\ memo' = NoMemo
    <2>1. Latest(m) /\ \A n \in Talk \ {m} : n.seq < memo.seq
        BY <1>9, CurrentIsLatest
    <2>2. Kept'
        BY <1>3, <1>7, <1>9 DEF Kept
    <2>3. Talks'
        <3>1. memo \in Memos /\ memo.seq \in Nat /\ memo.seq <= seq
            BY <1>3, <2>1 DEF Latest, Memos
        <3>2. ASSUME NEW n \in Talk \ {m} PROVE Sent(n)'
            <4>1. Sent(n) /\ n.seq \in Nat /\ n.seq < seq
                BY <1>3, <2>1, <3>1, <3>2, Kinds DEF PainterInv, Talks, Sent
            <4>2. Past(n)' /\ Bounded(n)'
                BY <1>1, <4>1 DEF Sent, Past, Bounded
            <4> QED BY <1>9, <4>1, <4>2 DEF Sent
        <3> QED BY <1>2, <3>2 DEF PainterInv, Talks
    <2>4. AboutView' /\ Inventories'
        BY <1>9 DEF AboutView, Inventories, Latest
    <2>5. UpToDate'
        BY <1>1, <1>2, <1>9 DEF PainterInv, UpToDate, Latest
    <2> QED BY <1>4, <1>6, <2>2, <2>3, <2>4, <2>5 DEF PainterInv
<1> QED BY <1>8, <1>9

(* A frame is shown: its pixels and the textures it keeps.                  *)
LEMMA FrameShown ==
    ASSUME PainterInv, NEW m \in Talk, m.kind = "frame", Valid(m)
    PROVE  /\ DOMAIN FrameTextures(m) = m.keys
           /\ \A k \in m.keys : FrameTextures(m)[k].rgba = m.rgba
           /\ Store \in live /\ m.generation = generation[Store] =>
                 \A k \in m.keys : Paints(m.rgba, m.opacity, FrameTextures(m))
<1>1. IsFrame(m)
    BY Kinds DEF PainterInv, Talks, Sent
<1>2. DOMAIN FrameTextures(m) = m.keys
    BY DEF FrameTextures
<1>3. ASSUME NEW k \in m.keys \ DOMAIN m.data
      PROVE  /\ painted.generation = m.generation /\ (m.rgba => painted.opacity = m.opacity)
             /\ k \in DOMAIN textures /\ textures[k].rgba = m.rgba /\ FrameTextures(m)[k] = textures[k]
    BY <1>3 DEF Valid, FrameTextures
<1>4. ASSUME NEW k \in DOMAIN m.data
      PROVE  FrameTextures(m)[k] = m.data[k] /\ m.data[k].rgba = m.rgba
    BY <1>1, <1>4 DEF IsFrame, FrameTextures
<1>5. ASSUME Store \in live, m.generation = generation[Store]
      PROVE  Paints(m.rgba, m.opacity, FrameTextures(m))
    <2>1. Paints(m.rgba, m.opacity, m.data)
        BY <1>5 DEF PainterInv, ImagesTrue
    <2>2. ASSUME colored => m.opacity = opacity, NEW k \in m.keys
          PROVE  FrameTextures(m)[k] = Image(k)
        <3>1. CASE k \in DOMAIN m.data
            BY <1>4, <2>1, <2>2, <3>1 DEF Paints
        <3>2. CASE k \notin DOMAIN m.data
            <4>1. k \in m.keys \ DOMAIN m.data
                BY <2>2, <3>2
            <4>2. Paints(textures[k].rgba, painted.opacity, textures)
                BY <1>3, <1>5, <4>1 DEF PainterInv, ImagesTrue
            <4>3. m.rgba = colored
                BY <2>1 DEF Paints
            <4> QED BY <1>3, <2>2, <4>1, <4>2, <4>3 DEF Paints
        <3> QED BY <3>1, <3>2
    <2> QED BY <1>2, <2>1, <2>2 DEF Paints
<1> QED BY <1>2, <1>3, <1>4, <1>5

LEMMA ApplyFrameKeeps ==
    ASSUME PainterInv, UNCHANGED <<vars, hostVars>>, NEW m \in Talk, wire' = wire \ {m}, ApplyFrame(m)
    PROVE  PainterInv'
<1>1. /\ UNCHANGED <<live, counts, generation, nextGeneration, appending, colored, opacity>>
      /\ \A rgba, alpha, images : Paints(rgba, alpha, images)' = Paints(rgba, alpha, images)
      /\ \A w, l, keys : Covers(w, l, keys)' = Covers(w, l, keys)
    BY SameHost
<1>2. Talk' = Talk \ {m} /\ Behind' = Behind
    BY Taken
<1>3. /\ Current(m) /\ m.kind = "frame" /\ Valid(m) /\ textures' = FrameTextures(m)
      /\ painted' = [generation |-> m.generation, opacity |-> m.opacity, level |-> m.level]
      /\ onGrid' = FALSE /\ outcome' = "frame" /\ looks' = looks
    BY DEF ApplyFrame
<1>4. /\ Latest(m) /\ memo # NoMemo
      /\ \A n \in Talk \ {m} : n.seq < memo.seq
    BY <1>3, CurrentIsLatest DEF Latest
<1>5. /\ Kept /\ seq \in Nat /\ pendingSeq \in 0..seq /\ memo \in Memos /\ memo.seq \in Nat /\ memo.seq <= seq
      /\ memo.seq # 0 /\ window \in Windows
    BY <1>4 DEF PainterInv, Kept, Memos
<1>6. IsFrame(m) /\ Past(m) /\ Bounded(m) /\ Sent(m)
    BY <1>3, Kinds DEF PainterInv, Talks, Sent
<1>7. /\ DOMAIN textures' = m.keys /\ \A k \in m.keys : textures'[k].rgba = m.rgba
      /\ Store \in live /\ m.generation = generation[Store] => \A k \in m.keys : Paints(m.rgba, m.opacity, textures')
    BY <1>3, FrameShown
<1>8. /\ painted'.generation = m.generation /\ painted'.opacity = m.opacity /\ painted'.level = m.level
      /\ m.generation \in 0..MaxGeneration /\ m.generation < nextGeneration
      /\ m.opacity \in Int /\ m.opacity <= opacity /\ m.level \in 0..Top /\ m.keys \subseteq Tiles
    BY <1>3, <1>6, PainterAssumption DEF IsFrame, Past, Bounded
<1>9. Hosted'
    BY <1>1, <1>8 DEF PainterInv, Hosted
<1>10. TexturesFit'
    BY <1>6, <1>7 DEF TexturesFit, WithinBudget, IsFrame
<1>11. ImagesTrue'
    <2>1. \A n \in Talk' : n.kind = "frame" /\ n.generation = generation[Store] /\ Store \in live => Paints(n.rgba, n.opacity, n.data)
        BY <1>2 DEF PainterInv, ImagesTrue
    <2>2. ASSUME Store \in live, painted'.generation = generation[Store], NEW k \in DOMAIN textures'
          PROVE  Paints(textures'[k].rgba, painted'.opacity, textures')
        BY <1>7, <1>8, <2>2
    <2>3. ASSUME Store \in live, painted'.generation = generation[Store], NEW k \in DOMAIN textures'
          PROVE  Paints(textures[k].rgba, painted.opacity, textures)'
        BY <1>1, <2>2, <2>3 DEF Paints, Image, LevelTop
    <2> QED BY <1>1, <2>1, <2>3 DEF ImagesTrue
<1>12. \A n \in Talk' : n.seq \in Nat /\ n.seq < memo.seq /\ Sent(n)
    BY <1>2, <1>4, Kinds DEF PainterInv, Talks, Sent
<1>13. \A n \in Talk' : Past(n)' /\ Bounded(n)'
    BY <1>1, <1>12 DEF Sent, Past, Bounded
<1>14. /\ painted' = [generation |-> painted'.generation, opacity |-> painted'.opacity, level |-> painted'.level]
       /\ painted'.generation \in 0..MaxGeneration /\ painted'.opacity \in Int /\ painted'.level \in -1..Top
       /\ DOMAIN textures' \subseteq Tiles
    BY <1>3, <1>7, <1>8, PainterAssumption
<1>15. CASE m.refine
    <2>1. seq' = seq + 1 /\ window' = window /\ due' = TRUE /\ memo' = NoMemo /\ pendingSeq' = seq + 1
        BY <1>15 DEF ApplyFrame, Schedule
    <2>2. Kept'
        <3>1. onGrid' \in BOOLEAN /\ due' \in BOOLEAN
            BY <1>3, <2>1
        <3>2. seq' \in Nat /\ seq' > 0 /\ pendingSeq' \in 0..seq'
            BY <1>5, <2>1
        <3> QED BY <1>3, <1>5, <1>14, <2>1, <3>1, <3>2 DEF Kept
    <2>3. Talks'
        <3>1. \A n \in Talk' : Sent(n)'
            BY <1>5, <1>12, <1>13, <2>1 DEF Sent
        <3> QED BY <1>2, <3>1 DEF PainterInv, Talks
    <2>4. AboutView' /\ Inventories'
        BY <2>1 DEF AboutView, Inventories, Latest
    <2>5. UpToDate'
        BY <1>1, <1>2, <1>3, <1>4, <1>8, <2>1 DEF PainterInv, UpToDate, Latest
    <2> QED BY <1>9, <1>10, <1>11, <2>2, <2>3, <2>4, <2>5 DEF PainterInv
<1>16. CASE ~m.refine
    <2>1. memo' = Answered(m) /\ pendingSeq' = Awaited(m) /\ UNCHANGED <<window, seq, due>>
        BY <1>16 DEF ApplyFrame
    <2>2. SameMemo /\ pendingSeq' \in {0, pendingSeq}
        BY <2>1, AnsweredIs
    <2>3. memo' # NoMemo /\ memo'.seq = memo.seq /\ memo'.window = memo.window /\ memo' \in Memos
        BY <1>4, <1>5, <2>2, SameLatest DEF SameMemo
    <2>4. Kept'
        <3>1. pendingSeq' \in 0..seq'
            BY <1>5, <2>1, <2>2
        <3>2. memo'.seq <= seq'
            BY <1>5, <2>1, <2>3
        <3> QED BY <1>3, <1>5, <1>14, <2>1, <2>3, <3>1, <3>2 DEF Kept
    <2>5. \A n \in Talk' : ~ Latest(n)'
        BY <1>5, <1>12, <2>3 DEF Latest
    <2>6. Talks'
        <3>1. \A n \in Talk' : Sent(n)'
            BY <1>5, <1>12, <1>13, <2>1, <2>3 DEF Sent
        <3> QED BY <1>2, <3>1 DEF PainterInv, Talks
    <2>7. AboutView'
        BY <1>4, <1>5, <2>1, <2>2, <2>3 DEF PainterInv, AboutView
    <2>8. Inventories'
        BY <2>5 DEF Inventories
    <2>9. UpToDate'
        <3>1. ASSUME ~Behind PROVE Store \in live /\ m.generation = generation[Store] /\ Covers(memo.window, m.level, m.keys)
            BY <1>3, <1>4, <1>16, <3>1 DEF PainterInv, UpToDate
        <3> QED BY <1>1, <1>2, <1>3, <1>7, <1>8, <2>3, <2>5, <3>1 DEF UpToDate
    <2> QED BY <1>9, <1>10, <1>11, <2>4, <2>6, <2>7, <2>8, <2>9 DEF PainterInv
<1> QED BY <1>6, <1>15, <1>16 DEF IsFrame

LEMMA ReceiveKeeps == ASSUME PainterInv, Receive PROVE PainterInv'
<1>1. PICK m \in wire : /\ m.kind \in {"frame", "grid"} /\ wire' = wire \ {m}
                        /\ DropStale(m) \/ RefuseFrame(m) \/ ApplyFrame(m) \/ ApplyGrid(m)
    BY DEF Receive
<1>2. UNCHANGED <<vars, hostVars>> /\ m \in Talk
    BY <1>1 DEF Receive, Talk
<1>3. CASE DropStale(m)
    <2>1. UNCHANGED <<window, seq, due, textures, painted, looks, onGrid, pendingSeq, memo>> /\ outcome' = "stale"
        BY <1>3 DEF DropStale, clientVars
    <2> QED BY <1>1, <1>2, <2>1, UnshownKeeps DEF SameMemo
<1>4. CASE RefuseFrame(m)
    <2>1. /\ UNCHANGED <<window, seq, due, textures, painted, looks, onGrid>> /\ outcome' = "refused"
          /\ Current(m) /\ memo' = NoMemo /\ pendingSeq' \in {0, pendingSeq}
        BY <1>4 DEF RefuseFrame, Awaited
    <2> QED BY <1>1, <1>2, <2>1, UnshownKeeps
<1>5. CASE ApplyFrame(m)
    BY <1>1, <1>2, <1>5, ApplyFrameKeeps
<1>6. CASE ApplyGrid(m)
    <2>1. /\ UNCHANGED <<window, seq, due, textures, painted, looks>> /\ outcome' = "grid" /\ onGrid' \in {onGrid, TRUE}
          /\ memo' = Answered(m) /\ pendingSeq' = Awaited(m)
        BY <1>6 DEF ApplyGrid
    <2>2. SameMemo /\ pendingSeq' \in {0, pendingSeq}
        BY <2>1, AnsweredIs
    <2> QED BY <1>1, <1>2, <2>1, <2>2, UnshownKeeps
<1> QED BY <1>1, <1>3, <1>4, <1>5, <1>6

-----------------------------------------------------------------------------
(* The browser drops its textures: what is under way about them is marked.  *)
Lost(m) == IF m.kind \in {"ask", "frame"} THEN [m EXCEPT !.kept = FALSE] ELSE m

LEMMA LostIs ==
    ASSUME NEW m, Carried(m)
    PROVE  /\ Carried(Lost(m)) /\ Lost(m).kind = m.kind /\ Lost(m).seq = m.seq
           /\ m.kind = "ask" => /\ Lost(m).window = m.window /\ Lost(m).generation = m.generation
                                /\ Lost(m).kept = FALSE
           /\ m.kind = "frame" => /\ Lost(m).generation = m.generation /\ Lost(m).opacity = m.opacity
                                  /\ Lost(m).rgba = m.rgba /\ Lost(m).level = m.level
                                  /\ Lost(m).keys = m.keys /\ Lost(m).data = m.data
                                  /\ Lost(m).refine = m.refine /\ Lost(m).kept = FALSE
<1>1. m.kind \in {"ask", "frame", "grid"}
    BY Kinds
<1>2. CASE m.kind = "ask"
    <2>1. m \in Asks
        BY <1>2, Kinds
    <2>2. Lost(m) = [m EXCEPT !.kept = FALSE]
        BY <1>2 DEF Lost
    <2> QED BY <1>2, <2>1, <2>2 DEF Asks, Carried
<1>3. CASE m.kind = "frame"
    <2>1. IsFrame(m)
        BY <1>3, Kinds
    <2> DEFINE n == Lost(m)
    <2>2. n = [kind |-> "frame", seq |-> m.seq, kept |-> FALSE, generation |-> m.generation,
               opacity |-> m.opacity, rgba |-> m.rgba, level |-> m.level, keys |-> m.keys,
               data |-> m.data, refine |-> m.refine]
        <3>1. n = [m EXCEPT !.kept = FALSE]
            BY <1>3 DEF Lost
        <3>2. m = [kind |-> "frame", seq |-> m.seq, kept |-> m.kept, generation |-> m.generation,
                   opacity |-> m.opacity, rgba |-> m.rgba, level |-> m.level, keys |-> m.keys,
                   data |-> m.data, refine |-> m.refine]
            BY <2>1 DEF IsFrame
        <3> DEFINE s == m.seq  kept == m.kept  g == m.generation  o == m.opacity  r == m.rgba
                   l == m.level  keys == m.keys  d == m.data  refine == m.refine
        <3>3. m = [kind |-> "frame", seq |-> s, kept |-> kept, generation |-> g, opacity |-> o,
                   rgba |-> r, level |-> l, keys |-> keys, data |-> d, refine |-> refine]
            BY <3>2
        <3>4. n = [kind |-> "frame", seq |-> s, kept |-> FALSE, generation |-> g, opacity |-> o,
                   rgba |-> r, level |-> l, keys |-> keys, data |-> d, refine |-> refine]
            <4> HIDE DEF s, kept, g, o, r, l, keys, d, refine, n
            <4> QED BY <3>1, <3>3
        <3> QED BY <3>4
    <2> HIDE DEF n
    <2>3. /\ n.kind = "frame" /\ n.seq = m.seq /\ n.kept = FALSE /\ n.generation = m.generation
          /\ n.opacity = m.opacity /\ n.rgba = m.rgba /\ n.level = m.level /\ n.keys = m.keys
          /\ n.data = m.data /\ n.refine = m.refine
        BY <2>2
    <2>4. IsFrame(n)
        BY <2>1, <2>2, <2>3 DEF IsFrame
    <2> QED BY <1>3, <2>3, <2>4 DEF n, Carried
<1>4. CASE m.kind = "grid"
    BY <1>4 DEF Lost
<1> QED BY <1>1, <1>2, <1>3, <1>4

LEMMA LostTalk ==
    ASSUME PainterInv, NEW sent \in SUBSET wire, Talk \subseteq sent, wire' = TexturesLost(sent)
    PROVE  /\ Talk' = {Lost(m) : m \in Talk}
           /\ (\E m \in wire' : m.kind = "append") => \E m \in sent : m.kind = "append"
<1>1. wire' = {Lost(m) : m \in sent}
    BY DEF TexturesLost, Lost
<1>2. ASSUME NEW m \in Talk PROVE Lost(m).kind # "append"
    <2>1. Carried(m)
        BY DEF PainterInv, Talks, Sent
    <2> QED BY <2>1, Kinds, LostIs
<1>3. ASSUME NEW m \in sent \ Talk PROVE m.kind = "append" /\ Lost(m) = m
    BY DEF Talk, Lost
<1> QED BY <1>1, <1>2, <1>3 DEF Talk

(* What was said about the textures, once they are gone.                    *)
LEMMA LostKeeps ==
    ASSUME PainterInv, UNCHANGED <<vars, hostVars>>, Talk' = {Lost(m) : m \in Talk},
           textures' = <<>>, painted' = [generation |-> 0, opacity |-> painted'.opacity, level |-> -1],
           painted'.opacity \in Int, painted'.opacity <= opacity,
           seq <= seq', seq' \in Nat, due' => due \/ seq < seq',
           memo' = memo \/ (memo' = NoMemo /\ seq < seq')
    PROVE  /\ Hosted' /\ Talks' /\ ImagesTrue' /\ TexturesFit' /\ Inventories'
           /\ DOMAIN textures' = {}
<1>1. /\ UNCHANGED <<live, counts, generation, nextGeneration, appending, colored, opacity>>
      /\ \A rgba, alpha, images : Paints(rgba, alpha, images)' = Paints(rgba, alpha, images)
    BY SameHost
<1>2. DOMAIN textures' = {}
    OBVIOUS
<1>3. painted'.generation = 0
    OBVIOUS
<1>4. ASSUME NEW m \in Talk PROVE Carried(m) /\ Sent(m) /\ m.seq \in Nat
    BY Kinds DEF PainterInv, Talks, Sent
<1>5. Hosted'
    <2>1. /\ Hosted /\ nextGeneration \in Nat /\ generation[Store] \in Nat
          /\ Store \in Stores
        BY PainterAssumption DEF PainterInv, Hosted
    <2>2. 0 < nextGeneration
        BY <2>1 DEF Hosted
    <2> QED BY <1>1, <1>3, <2>1, <2>2 DEF Hosted
<1>6. Talks'
    <2>1. ASSUME NEW m \in Talk PROVE Sent(Lost(m))'
        <3>1. Carried(Lost(m)) /\ Lost(m).kind = m.kind /\ Lost(m).seq = m.seq
            BY <1>4, LostIs
        <3>2. Past(Lost(m))' /\ Bounded(Lost(m))'
            <4>1. /\ m.kind \in {"ask", "frame"} => Lost(m).generation = m.generation
                  /\ m.kind = "frame" => Lost(m).opacity = m.opacity
                BY <1>4, LostIs
            <4> QED BY <1>1, <1>4, <3>1, <4>1 DEF Sent, Past, Bounded
        <3>3. seq \in Nat /\ (memo = NoMemo \/ (memo.seq \in Nat /\ memo.seq <= seq))
            <4>1. memo \in Memos => memo.seq \in Nat
                BY DEF Memos
            <4> QED BY <4>1 DEF PainterInv, Kept
        <3>4. 1 <= m.seq /\ m.seq <= seq' /\ (due' => m.seq < seq')
            BY <1>4, <3>3 DEF Sent
        <3>5. IF memo' = NoMemo THEN m.seq < seq' ELSE m.seq <= memo'.seq
            BY <1>4, <3>3 DEF Sent
        <3> QED BY <3>1, <3>2, <3>4, <3>5 DEF Sent
    <2>2. ASSUME NEW m \in Talk, NEW n \in Talk, Lost(m).seq = Lost(n).seq PROVE m = n
        <3>1. m.seq = n.seq
            BY <1>4, <2>2, LostIs
        <3> QED BY <3>1 DEF PainterInv, Talks
    <2> QED BY <2>1, <2>2 DEF Talks
<1>7. ImagesTrue'
    <2>1. ASSUME Store \in live, NEW m \in Talk, Lost(m).kind = "frame", Lost(m).generation = generation[Store]
          PROVE  Paints(Lost(m).rgba, Lost(m).opacity, Lost(m).data)
        <3>1. /\ m.kind = "frame" /\ m.generation = generation[Store] /\ Lost(m).rgba = m.rgba
              /\ Lost(m).opacity = m.opacity /\ Lost(m).data = m.data
            BY <1>4, <2>1, LostIs
        <3> QED BY <2>1, <3>1 DEF PainterInv, ImagesTrue
    <2> QED BY <1>1, <1>2, <2>1 DEF ImagesTrue
<1>8. TexturesFit'
    BY <1>2 DEF TexturesFit, WithinBudget
<1>9. Inventories'
    <2>1. ASSUME NEW m \in Talk, Latest(Lost(m))'
          PROVE  /\ Lost(m).kind = "ask" => Lost(m).window = memo'.window /\ ~Lost(m).kept
                 /\ Lost(m).kind = "frame" => ~Lost(m).kept
        <3>1. Lost(m).seq = m.seq /\ Lost(m).kind = m.kind
            BY <1>4, LostIs
        <3>2. memo' = memo /\ Latest(m)
            BY <2>1, <3>1 DEF Latest
        <3>3. m.kind = "ask" => m.window = memo.window
            BY <3>2 DEF PainterInv, Inventories
        <3> QED BY <1>4, <3>1, <3>2, <3>3, LostIs
    <2> QED BY <2>1 DEF Inventories
<1> QED BY <1>2, <1>5, <1>6, <1>7, <1>8, <1>9

LEMMA RebuildKeeps == ASSUME PainterInv, Rebuild PROVE PainterInv'
<1>1. PICK m \in wire : m.kind = "append" /\ wire' = TexturesLost(wire \ {m})
    BY DEF Rebuild
<1>2. /\ textures' = <<>> /\ painted' = Unpainted /\ onGrid' = TRUE /\ looks' = looks
      /\ seq' = seq + 1 /\ window' = window /\ due' = TRUE /\ memo' = NoMemo /\ pendingSeq' = seq + 1
      /\ UNCHANGED <<vars, hostVars>>
    BY DEF Rebuild, Schedule
<1>3. Talk' = {Lost(n) : n \in Talk}
    <2>1. Talk \subseteq wire \ {m}
        BY <1>1 DEF Talk
    <2> QED BY <1>1, <2>1, LostTalk
<1>4. Kept /\ seq \in Nat /\ opacity \in Nat
    BY PainterAssumption DEF PainterInv, Kept, Hosted
<1>5. /\ painted' = [generation |-> 0, opacity |-> painted'.opacity, level |-> -1]
      /\ painted'.opacity = -1 /\ painted'.generation = 0 /\ painted'.level = -1
    BY <1>2 DEF Unpainted
<1>6. /\ Hosted' /\ Talks' /\ ImagesTrue' /\ TexturesFit' /\ Inventories'
      /\ DOMAIN textures' = {}
    <2>1. seq <= seq' /\ seq < seq' /\ seq' \in Nat /\ painted'.opacity \in Int /\ painted'.opacity <= opacity
        BY <1>2, <1>4, <1>5
    <2> QED BY <1>2, <1>3, <1>5, <2>1, LostKeeps
<1>7. Kept'
    <2>1. due' \in BOOLEAN /\ onGrid' \in BOOLEAN
        BY <1>2
    <2>2. seq' \in Nat /\ seq' > 0 /\ pendingSeq' \in 0..seq'
        BY <1>2, <1>4
    <2>3. painted'.generation \in 0..MaxGeneration /\ painted'.opacity \in Int /\ painted'.level \in -1..Top
        BY <1>5, PainterAssumption
    <2>4. painted' = [generation |-> painted'.generation, opacity |-> painted'.opacity, level |-> painted'.level]
        BY <1>5
    <2> QED BY <1>2, <1>4, <1>6, <2>1, <2>2, <2>3, <2>4 DEF Kept
<1>8. AboutView'
    BY <1>2 DEF AboutView
<1>9. UpToDate'
    BY <1>2 DEF UpToDate, Latest
<1> QED BY <1>6, <1>7, <1>8, <1>9 DEF PainterInv

LEMMA DropTilesKeeps == ASSUME PainterInv, DropTiles PROVE PainterInv'
<1>1. /\ onGrid /\ textures' = <<>> /\ painted' = [painted EXCEPT !.generation = 0, !.level = -1]
      /\ wire' = TexturesLost(wire)
      /\ UNCHANGED <<vars, hostVars>>
      /\ UNCHANGED <<window, seq, due, pendingSeq, memo, onGrid, looks, outcome>>
    BY DEF DropTiles
<1>2. /\ Talk' = {Lost(n) : n \in Talk}
      /\ (\E m \in wire' : m.kind = "append") => \E m \in wire : m.kind = "append"
    <2>1. Talk \subseteq wire /\ wire \in SUBSET wire
        BY DEF Talk
    <2> QED BY <1>1, <2>1, LostTalk
<1>3. /\ Kept /\ seq \in Nat /\ painted.opacity \in Int /\ painted.opacity <= opacity
    BY DEF PainterInv, Kept, Hosted
<1>4. /\ painted' = [generation |-> 0, opacity |-> painted.opacity, level |-> -1]
    <2>1. painted = [generation |-> painted.generation, opacity |-> painted.opacity, level |-> painted.level]
        BY <1>3 DEF Kept
    <2> QED BY <1>1, <2>1
<1>5. painted'.opacity = painted.opacity /\ painted'.generation = 0 /\ painted'.level = -1
    BY <1>4
<1>6. /\ Hosted' /\ Talks' /\ ImagesTrue' /\ TexturesFit' /\ Inventories'
      /\ DOMAIN textures' = {}
    <2>1. painted' = [generation |-> 0, opacity |-> painted'.opacity, level |-> -1]
        BY <1>4, <1>5
    <2>2. seq <= seq' /\ seq' \in Nat
        BY <1>1, <1>3
    <2> QED BY <1>1, <1>2, <1>3, <1>5, <2>1, <2>2, LostKeeps
<1>7. Kept'
    <2>1. painted'.generation \in 0..MaxGeneration /\ painted'.opacity \in Int /\ painted'.level \in -1..Top
        BY <1>3, <1>5, PainterAssumption
    <2>2. painted' = [generation |-> painted'.generation, opacity |-> painted'.opacity, level |-> painted'.level]
        BY <1>4, <1>5
    <2> QED BY <1>1, <1>3, <1>6, <2>1, <2>2 DEF Kept
<1>8. AboutView'
    BY <1>1 DEF PainterInv, AboutView
<1>9. UpToDate'
    <2>1. /\ UNCHANGED <<live, generation, appending>>
          /\ \A w, l, keys : Covers(w, l, keys)' = Covers(w, l, keys)
        BY <1>1, SameHost
    <2>2. Behind => Behind'
        <3>1. ASSUME NEW m \in wire, m.kind = "append" PROVE m \in wire'
            BY <1>1, <3>1 DEF TexturesLost
        <3> QED BY <2>1, <3>1 DEF Behind
    <2>3. ASSUME ~Behind, NEW m \in Talk, Latest(Lost(m))', Lost(m).kind = "frame"
          PROVE  /\ Store \in live /\ Lost(m).generation = generation[Store]
                 /\ ~Lost(m).refine => Covers(memo.window, Lost(m).level, Lost(m).keys)
        <3>1. Carried(m)
            BY DEF PainterInv, Talks, Sent
        <3>2. /\ m.kind = "frame" /\ m.seq = Lost(m).seq /\ Lost(m).generation = m.generation
              /\ Lost(m).level = m.level /\ Lost(m).keys = m.keys /\ Lost(m).refine = m.refine
            BY <2>3, <3>1, LostIs
        <3>3. Latest(m)
            BY <1>1, <2>3, <3>2 DEF Latest
        <3> QED BY <2>3, <3>2, <3>3 DEF PainterInv, UpToDate
    <2> QED BY <1>1, <1>2, <2>1, <2>2, <2>3 DEF UpToDate
<1> QED BY <1>6, <1>7, <1>8, <1>9 DEF PainterInv

-----------------------------------------------------------------------------
LEMMA PainterBegins == ASSUME PainterInit PROVE PainterInv
<1>1. /\ live = {} /\ generation = [s \in Stores |-> 0] /\ nextGeneration = 1
      /\ appending = [s \in Stores |-> FALSE]
      /\ colored = FALSE /\ opacity = Min(Opacities) /\ window \in Windows
      /\ seq = 0 /\ due = FALSE /\ pendingSeq = 0 /\ memo = NoMemo
      /\ textures = <<>> /\ painted = Unpainted /\ onGrid = TRUE
      /\ wire = {} /\ looks = 0 /\ outcome = "none"
    BY DEF PainterInit, Init
<1>2. opacity \in Opacities /\ opacity \in Nat
    <2>1. Min(Opacities) \in Opacities
        BY PainterAssumption, LeastLevel
    <2> QED BY <1>1, <2>1, PainterAssumption
<1>3. Talk = {} /\ DOMAIN textures = {}
    BY <1>1 DEF Talk
<1>4. /\ painted = [generation |-> 0, opacity |-> -1, level |-> -1]
      /\ painted.generation = 0 /\ painted.opacity = -1 /\ painted.level = -1
    BY <1>1 DEF Unpainted
<1>5. Hosted
    <2>1. generation[Store] = 0 /\ ~appending[Store] /\ appending \in [Stores -> BOOLEAN] /\ generation \in [Stores -> Nat]
        BY <1>1, PainterAssumption
    <2>2. colored \in BOOLEAN
        BY <1>1
    <2> QED BY <1>1, <1>2, <1>4, <2>1, <2>2, PainterAssumption DEF Hosted
<1>6. Kept
    <2>1. due \in BOOLEAN /\ onGrid \in BOOLEAN
        BY <1>1
    <2>2. painted = [generation |-> painted.generation, opacity |-> painted.opacity, level |-> painted.level]
        BY <1>4
    <2>3. painted.generation \in 0..MaxGeneration /\ painted.opacity \in Int /\ painted.level \in -1..Top
        BY <1>4, PainterAssumption
    <2>4. seq \in Nat /\ pendingSeq \in 0..seq /\ looks \in 0..MaxLooks
        BY <1>1, PainterAssumption
    <2> QED BY <1>1, <1>3, <2>1, <2>2, <2>3, <2>4 DEF Kept
<1>7. Talks /\ AboutView /\ ImagesTrue /\ TexturesFit /\ Inventories /\ UpToDate
    BY <1>1, <1>3 DEF Talks, AboutView, ImagesTrue, TexturesFit, WithinBudget, Inventories, UpToDate
<1> QED BY <1>5, <1>6, <1>7 DEF PainterInv

LEMMA PainterStepKeeps == ASSUME PainterInv, [PainterNext]_allVars PROVE PainterInv'
<1>1. CASE Serve
    BY <1>1, ServeKeeps
<1>2. CASE Build
    BY <1>2, BuildKeeps
<1>3. CASE StartAppend
    BY <1>3, StartAppendKeeps
<1>4. CASE LandPoint
    BY <1>4, LandPointKeeps
<1>5. CASE FinishAppend \/ RefuseAppend \/ FailAppend
    BY <1>5, AppendEndsKeep
<1>6. CASE Restyle
    BY <1>6, RestyleKeeps
<1>7. CASE Look
    BY <1>7, LookKeeps
<1>8. CASE Expire
    BY <1>8, ExpireKeeps
<1>9. CASE Send
    BY <1>9, SendKeeps
<1>10. CASE Receive
    BY <1>10, ReceiveKeeps
<1>11. CASE Rebuild
    BY <1>11, RebuildKeeps
<1>12. CASE DropTiles
    BY <1>12, DropTilesKeeps
<1>13. CASE UNCHANGED allVars
    <2>1. /\ UNCHANGED <<vars, hostVars>> /\ wire' = wire
          /\ UNCHANGED <<window, seq, due, pendingSeq, memo, textures, painted, onGrid, looks, outcome>>
        BY <1>13 DEF allVars, painterVars, clientVars, historyVars
    <2>2. Kept' /\ AboutView' /\ SameMemo /\ seq <= seq'
        BY <2>1 DEF PainterInv, Kept, AboutView, SameMemo
    <2> QED BY <2>1, <2>2, NothingShown
<1> QED BY <1>1, <1>2, <1>3, <1>4, <1>5, <1>6, <1>7, <1>8, <1>9, <1>10, <1>11, <1>12, <1>13 DEF PainterNext

LEMMA InvShowsTheCounts == ASSUME PainterInv PROVE ShowsTheCounts
<1>1. TexturesAreTrue
    BY DEF PainterInv, ImagesTrue, TexturesAreTrue, Paints
<1>2. FramesFit
    <2>1. PainterTypeOK
        <3>1. memo # NoMemo => memo.window \in Windows /\ memo.seq \in 1..seq
            BY DEF PainterInv, Kept, Memos
        <3> QED BY <3>1 DEF PainterInv, Hosted, Kept, PainterTypeOK
    <2>2. ASSUME NEW m \in wire, m.kind = "frame", Current(m), m.kept PROVE Valid(m)
        <3>1. m \in Talk
            BY <2>2 DEF Talk
        <3>2. Latest(m)
            BY <2>2, <3>1, CurrentIsLatest
        <3> QED BY <2>2, <3>1, <3>2 DEF PainterInv, Inventories
    <2> QED BY <2>1, <2>2 DEF PainterInv, TexturesFit, FramesFit
<1>3. ASSUME Quiet, outcome = "frame", ~onGrid
      PROVE  /\ painted.generation = generation[Store]
             /\ Covers(window, painted.level, DOMAIN textures)
    <2>1. ~Behind /\ Talk = {} /\ ~due
        BY <1>3 DEF Quiet, Behind, Talk
    <2>2. memo # NoMemo /\ painted.generation = generation[Store] /\ Covers(memo.window, painted.level, DOMAIN textures)
        BY <1>3, <2>1 DEF PainterInv, UpToDate
    <2>3. memo.window = window
        BY <2>1, <2>2 DEF PainterInv, AboutView
    <2> QED BY <2>2, <2>3
<1> QED BY <1>1, <1>2, <1>3 DEF ShowsTheCounts, QuietMeansFresh, Covers

-----------------------------------------------------------------------------
(* The trace shows the counts, whatever is appended, restyled, invalidated  *)
(* or rebuilt, and in whatever order requests, replies and notes of appends *)
(* arrive: the textures under the store's generation are what it would      *)
(* paint, an awaited frame is refused only if the browser dropped its       *)
(* textures after asking, they fit the budget, and when nothing is under    *)
(* way the frame on screen is the one its view wants.                       *)
THEOREM ShowsWhatIsCounted == PainterSpec => []ShowsTheCounts
<1>1. PainterInit => PainterInv
    BY PainterBegins
<1>2. PainterInv /\ [PainterNext]_allVars => PainterInv'
    BY PainterStepKeeps
<1>3. PainterInv => ShowsTheCounts
    BY InvShowsTheCounts
<1> QED BY <1>1, <1>2, <1>3, PTL DEF PainterSpec
=============================================================================
