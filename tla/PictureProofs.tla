---------------------------- MODULE PictureProofs ----------------------------
(***************************************************************************)
(* Proofs about pictures that are kept and shown again.                    *)
(*                                                                         *)
(* VideoHandoff: a hold stays inside both pictures and only gets darker,   *)
(* the saved picture lies where its part of the map now is, and a standing *)
(* effect is given back within its budget.                                 *)
(*                                                                         *)
(* PixelCaches: what the caches of drawn rows serve is what a draw would   *)
(* give now.  A row's pixels are put together again from its certificates  *)
(* (PixelsKept); they stay so for as long as the row is valid, and a row   *)
(* that is served has the certificates of the inputs that there are now.   *)
(***************************************************************************)
EXTENDS VideoHandoff, PixelCaches, TLAPS


\* The frames in succession that the saved picture has filled are counted by
\* the budget, unless there is no saved picture since a reset.
Counted == h.valid => stale <= h.effectFrames

HandoffInductive == TypeOK /\ HeldInside /\ Counted /\ EffectEnds

\* What FadesOut says of one step.
Darker == h.holding /\ h'.holding => h'.held <= h.held

\* The lesser of two numbers.
LEMMA MinPair ==
  ASSUME NEW a \in Nat, NEW b \in Nat
  PROVE  /\ Min({a, b}) \in {a, b}
         /\ Min({a, b}) <= a /\ Min({a, b}) <= b
<1> DEFINE least(x) == x \in {a, b} /\ \A y \in {a, b} : x <= y
<1>1. \E x : least(x)
  <2>1. CASE a <= b
    BY <2>1
  <2>2. CASE b <= a
    BY <2>2
  <2> QED
    BY <2>1, <2>2
<1>2. least(CHOOSE x : least(x))
  <2> HIDE DEF least
  <2> QED
    BY <1>1
<1>3. Min({a, b}) = CHOOSE x : least(x)
  BY DEF Min
<1> QED
  BY <1>2, <1>3

\* The shift between two scrolls is less than a period either way.
LEMMA ShiftBounded ==
  ASSUME NEW a \in Scroll, NEW b \in Scroll
  PROVE  ScrollDelta(a, b) \in -Period .. Period
<1>1. Period \in Nat \ {0}
  BY LevelAssumption
<1>2. (a - b) \in Int
  BY <1>1 DEF Scroll
<1>3. (a - b) % Period \in 0 .. Period - 1
  BY <1>1, <1>2
<1>4. Period \div 2 \in Nat
  BY <1>1
<1> QED
  BY <1>1, <1>3, <1>4 DEF ScrollDelta

LEMMA ConstantTypes ==
  /\ MaxLevel \in Nat \ {0} /\ MaxEffect \in Nat \ {0} /\ Period \in Nat \ {0}
  /\ 0 \in Level /\ 0 \in Scroll /\ Still \in RowScroll /\ Cleared \in Handoff
<1>1. MaxLevel \in Nat \ {0} /\ MaxEffect \in Nat \ {0} /\ Period \in Nat \ {0}
  BY LevelAssumption
<1>2. 0 \in Level /\ 0 \in Scroll
  BY <1>1 DEF Level, Scroll
<1>3. Still \in RowScroll
  BY <1>2 DEF Still, RowScroll
<1> QED
  BY <1>1, <1>2, <1>3 DEF Cleared, Handoff, Scene

\* Following the frame's brightness, the hold stays inside both pictures.
LEMMA HeldStep ==
  ASSUME NEW g \in Handoff, g.holding => g.held > 0 /\ g.held <= g.savedLevel,
         NEW scene \in Scene, NEW level \in Level
  PROVE  /\ Held(g, scene, level) \in Handoff
         /\ Held(g, scene, level).holding =>
              /\ Held(g, scene, level).held > 0
              /\ Held(g, scene, level).held <= level
              /\ Held(g, scene, level).held <= g.savedLevel
              /\ g.holding => Held(g, scene, level).held <= g.held
              /\ g.holding \/ g.valid
         /\ Held(g, scene, level).savedLevel = g.savedLevel
         /\ Held(g, scene, level).valid = g.valid
         /\ Held(g, scene, level).effectFrames = g.effectFrames
<1>1. Level \subseteq Nat
  BY DEF Level
<1>2. /\ level \in Level /\ g.held \in Level /\ g.savedLevel \in Level
      /\ g.holding \in BOOLEAN /\ g.valid \in BOOLEAN
  BY DEF Handoff
<1>3. Min({level, g.held}) \in {level, g.held} /\ Min({level, g.held}) <= level
      /\ Min({level, g.held}) <= g.held
  BY <1>1, <1>2, MinPair
<1>4. Min({level, g.savedLevel}) \in {level, g.savedLevel}
      /\ Min({level, g.savedLevel}) <= level
      /\ Min({level, g.savedLevel}) <= g.savedLevel
  BY <1>1, <1>2, MinPair
<1>5. CASE scene \in Wide
  BY <1>5 DEF Held, Handoff
<1>6. CASE scene \notin Wide /\ g.holding /\ (level = 0 \/ (level > g.held /\ scene # "loading"))
  BY <1>6 DEF Held, Handoff
<1>7. CASE scene \notin Wide /\ g.holding /\ ~(level = 0 \/ (level > g.held /\ scene # "loading"))
  <2> DEFINE m == Min({level, g.held})
  <2>1. Held(g, scene, level) = [g EXCEPT !.held = m]
    BY <1>7 DEF Held, Handoff
  <2>2. m \in Level /\ m > 0 /\ m <= level /\ m <= g.held /\ m <= g.savedLevel
    <3>1. level # 0 /\ g.held > 0 /\ g.held <= g.savedLevel
      BY <1>7
    <3>2. m \in {level, g.held} /\ m <= level /\ m <= g.held
      BY <1>3
    <3>3. level \in Nat /\ g.held \in Nat /\ g.savedLevel \in Nat
      BY <1>1, <1>2
    <3> HIDE DEF m
    <3>4. m \in Level /\ m \in Nat /\ m > 0
      BY <1>2, <3>1, <3>2, <3>3
    <3> QED
      BY <3>1, <3>2, <3>3, <3>4
  <2> HIDE DEF m
  <2> QED
    BY <2>1, <2>2, <1>7 DEF Handoff
<1>8. CASE scene \notin Wide /\ ~g.holding /\ g.valid /\ g.previousWide /\ g.savedLevel > 0 /\ level > 0
  <2> DEFINE m == Min({level, g.savedLevel})
  <2>1. Held(g, scene, level) = [g EXCEPT !.holding = TRUE, !.held = m]
    BY <1>8 DEF Held
  <2>2. m \in Level /\ m > 0 /\ m <= level /\ m <= g.savedLevel
    BY <1>1, <1>2, <1>4, <1>8
  <2> HIDE DEF m
  <2> QED
    BY <2>1, <2>2, <1>8 DEF Handoff
<1>9. CASE scene \notin Wide /\ ~g.holding
           /\ ~(g.valid /\ g.previousWide /\ g.savedLevel > 0 /\ level > 0)
  BY <1>9 DEF Held
<1> QED
  BY <1>5, <1>6, <1>7, <1>8, <1>9

\* Spending the budget of an effect counts the frame, and changes nothing else.
LEMMA SpentStep ==
  ASSUME NEW g \in Handoff
  PROVE  /\ Spent(g) \in Handoff
         /\ Spent(g) = [g EXCEPT !.effectFrames = Spent(g).effectFrames]
         /\ g.effect /\ Spent(g).effectFrames < MaxEffect =>
              Spent(g).effectFrames = g.effectFrames + 1
<1> DEFINE m == Min({g.effectFrames + 1, MaxEffect})
<1>1. MaxEffect \in Nat \ {0} /\ g.effectFrames \in 0 .. MaxEffect
  BY ConstantTypes DEF Handoff
<1>2. m \in {g.effectFrames + 1, MaxEffect} /\ m <= MaxEffect
  BY <1>1, MinPair
<1>3. Spent(g) = [g EXCEPT !.effectFrames = IF ~g.effect THEN 0 ELSE m]
  BY DEF Spent
<1> HIDE DEF m
<1>4. m \in 0 .. MaxEffect /\ 0 \in 0 .. MaxEffect
  BY <1>1, <1>2
<1> QED
  BY <1>1, <1>2, <1>3, <1>4 DEF Handoff

-----------------------------------------------------------------------------
(* The steps.                                                              *)

LEMMA HandoffInit == Init => HandoffInductive
<1> SUFFICES ASSUME Init PROVE HandoffInductive
  OBVIOUS
<1> USE ConstantTypes DEF Init
<1>1. TypeOK
  <2>1. Nothing.level \in Level /\ Nothing.shift \in [Rows -> -Period .. Period]
    BY DEF Nothing, Still
  <2>2. {widescreen, battleLayout, black} \subseteq BOOLEAN
    BY Zenon
  <2>3. stale \in 0 .. MaxEffect
    OBVIOUS
  <2> QED
    BY <2>1, <2>2, <2>3 DEF TypeOK
<1> QED
  BY <1>1 DEF HandoffInductive, HeldInside, Counted, EffectEnds, Cleared

LEMMA PrepareStep == HandoffInductive /\ PrepareFrame => HandoffInductive' /\ Darker
<1> SUFFICES ASSUME HandoffInductive, PrepareFrame PROVE HandoffInductive' /\ Darker
  OBVIOUS
<1> USE ConstantTypes
<1>1. PICK battle \in BOOLEAN, level \in Level, mosaic \in BOOLEAN, scroll \in Scroll :
      \E scene \in Scenes(battle, level) :
       /\ h' = Observed(IF battle # battleLayout THEN Cleared ELSE h,
                        scene, level, mosaic, scroll)
       /\ battleLayout' = (scene = "effects")
       /\ black' = (black \/ level = 0)
  BY DEF PrepareFrame
<1>2. PICK scene \in Scenes(battle, level) :
       /\ h' = Observed(IF battle # battleLayout THEN Cleared ELSE h,
                        scene, level, mosaic, scroll)
       /\ battleLayout' = (scene = "effects")
       /\ black' = (black \/ level = 0)
  BY <1>1
<1> DEFINE g == IF battle # battleLayout THEN Cleared ELSE h
           k == Held(g, scene, level)
<1>3. scene \in Scene
  BY DEF Scenes, Scene, Wide
<1>4. g \in Handoff /\ (g.holding => g.held > 0 /\ g.held <= g.savedLevel)
      /\ (g.valid => g = h) /\ (g # h => ~g.holding /\ ~g.valid)
  BY DEF HandoffInductive, TypeOK, HeldInside, Cleared
<1>5. h' = [k EXCEPT !.scene = scene, !.level = level, !.scroll = scroll,
              !.lines = FALSE, !.lineScroll = Still, !.effect = mosaic,
              !.previousWide = (scene \in Wide /\ level > 0)]
  BY <1>2 DEF Observed
<1>6. /\ k \in Handoff
      /\ k.holding => k.held > 0 /\ k.held <= level /\ k.held <= g.savedLevel
      /\ k.savedLevel = g.savedLevel /\ k.valid = g.valid /\ k.effectFrames = g.effectFrames
      /\ k.holding => (g.holding => k.held <= g.held) /\ (g.holding \/ g.valid)
  <2> HIDE DEF g
  <2> QED
    BY <1>3, <1>4, HeldStep
<1> HIDE DEF k, g
<1>6a. PICK wide \in BOOLEAN : wide = (scene \in Wide /\ level > 0)
  OBVIOUS
<1>7. /\ h' \in Handoff /\ h'.level = level
      /\ h'.holding = k.holding /\ h'.held = k.held /\ h'.savedLevel = k.savedLevel
      /\ h'.valid = k.valid /\ h'.effectFrames = k.effectFrames
  <2> DEFINE Follows(a, b) ==
        /\ a \in Handoff /\ a.holding = b.holding /\ a.held = b.held
        /\ a.savedLevel = b.savedLevel /\ a.valid = b.valid
        /\ a.effectFrames = b.effectFrames
             u == [k EXCEPT !.scene = scene, !.level = level, !.scroll = scroll]
             v == [u EXCEPT !.lines = FALSE, !.lineScroll = Still]
             w == [v EXCEPT !.effect = mosaic, !.previousWide = wide]
  <2>1. h' = w
    BY <1>5, <1>6a
  <2>2. Follows(u, k) /\ u.level = level
    BY ONLY <1>3, <1>6, level \in Level, scroll \in Scroll, ZenonT(60) DEF Handoff
  <2> HIDE DEF u
  <2>3. Follows(v, u) /\ v.level = u.level
    BY ONLY <2>2, ConstantTypes, Still \in RowScroll, ZenonT(60) DEF Handoff
  <2> HIDE DEF v
  <2>4. Follows(w, v) /\ w.level = v.level
    BY ONLY <2>3, mosaic \in BOOLEAN, wide \in BOOLEAN, ZenonT(60) DEF Handoff
  <2> HIDE DEF w
  <2> QED
    BY <2>1, <2>2, <2>3, <2>4
<1>8. TypeOK'
  BY <1>2, <1>7 DEF HandoffInductive, TypeOK, PrepareFrame
<1>9. HeldInside'
  BY <1>6, <1>7 DEF HeldInside
<1>10. Counted' /\ EffectEnds'
  BY <1>4, <1>6, <1>7 DEF HandoffInductive, Counted, EffectEnds, PrepareFrame
<1>11. Darker
  BY <1>4, <1>6, <1>7 DEF Darker
<1> QED
  BY <1>8, <1>9, <1>10, <1>11 DEF HandoffInductive

LEMMA DrawStep == HandoffInductive /\ DrawFrame => HandoffInductive' /\ Darker
<1> SUFFICES ASSUME HandoffInductive, DrawFrame PROVE HandoffInductive' /\ Darker
  OBVIOUS
<1> USE ConstantTypes
<1>1. h \in Handoff
  BY DEF HandoffInductive, TypeOK
<1>2. drawn' \in RowScroll
  BY DEF DrawFrame
<1> DEFINE Same ==
      /\ h' \in Handoff /\ h'.level = h.level
      /\ h'.holding = h.holding /\ h'.held = h.held /\ h'.savedLevel = h.savedLevel
      /\ h'.valid = h.valid /\ h'.effectFrames = h.effectFrames
<1>3. Same
  <2>1. CASE UNCHANGED h
    BY <2>1, <1>1
  <2>2. ASSUME NEW mosaic \in BOOLEAN, h' = Rastered(h, drawn', mosaic)
        PROVE  Same
    <3>1. PICK effect \in BOOLEAN :
            h' = [h EXCEPT !.lines = TRUE, !.lineScroll = drawn', !.effect = effect]
      BY <2>2, <1>1 DEF Rastered, Handoff
    <3> QED
      BY <3>1, <1>1, <1>2 DEF Handoff
  <2> HIDE DEF Same
  <2> QED
    BY <2>1, <2>2 DEF DrawFrame
<1> QED
  BY <1>2, <1>3 DEF HandoffInductive, TypeOK, HeldInside, Counted, EffectEnds, Darker, DrawFrame,
                    Handoff, Level

\* Saving a picture ends no hold that it could not, and keeps the budget.
LEMMA SaveStep ==
  ASSUME NEW g \in Handoff
  PROVE  /\ SavedFrame(g) \in Handoff
         /\ SavedFrame(g).holding = g.holding /\ SavedFrame(g).level = g.level
         /\ SavedFrame(g).effectFrames = g.effectFrames
<1> DEFINE u == [g EXCEPT !.valid = TRUE, !.savedLevel = g.level,
                          !.savedScroll = g.scroll, !.savedLines = g.lines]
<1>1. /\ u \in Handoff /\ u.scene = g.scene /\ u.lines = g.lines
      /\ u.lineScroll = g.lineScroll /\ u.savedLineScroll = g.savedLineScroll
      /\ u.holding = g.holding /\ u.level = g.level /\ u.effectFrames = g.effectFrames
  BY DEF Handoff
<1>2. PICK map \in BOOLEAN, effects \in BOOLEAN :
        map = (g.scene = "map") /\ effects = (g.scene = "effects")
  OBVIOUS
<1>3. PICK kept \in RowScroll :
        kept = IF g.lines THEN g.lineScroll ELSE g.savedLineScroll
  BY DEF Handoff
<1> DEFINE v == [u EXCEPT !.tracks = map, !.full = effects, !.savedLineScroll = kept]
<1>4. SavedFrame(g) = v
  BY <1>2, <1>3 DEF SavedFrame, Handoff
<1> HIDE DEF u
<1>5. v \in Handoff /\ v.holding = u.holding /\ v.level = u.level
      /\ v.effectFrames = u.effectFrames
  BY <1>1, ZenonT(60) DEF Handoff
<1> HIDE DEF v
<1> QED
  BY <1>1, <1>4, <1>5

LEMMA RowShiftBounded ==
  ASSUME NEW g \in Handoff, NEW y \in Rows
  PROVE  RowShift(g, y) \in -Period .. Period
<1>1. /\ g.lineScroll[y] \in Scroll /\ g.savedLineScroll[y] \in Scroll
      /\ g.scroll \in Scroll /\ g.savedScroll \in Scroll
  BY DEF Handoff, RowScroll
<1>2. 0 \in -Period .. Period
  BY ConstantTypes
<1> QED
  BY <1>1, <1>2, ShiftBounded DEF RowShift

LEMMA ComposeStep == HandoffInductive /\ ComposeFrame => HandoffInductive' /\ Darker
<1> SUFFICES ASSUME HandoffInductive, ComposeFrame PROVE HandoffInductive' /\ Darker
  OBVIOUS
<1> DEFINE g == IF widescreen THEN Spent(h) ELSE h
           raster == g.effect /\ g.effectFrames < MaxEffect
           ready == raster /\ g.valid /\ g.savedLevel > 0 /\ (g.tracks \/ g.full)
           blit == widescreen /\ (g.holding \/ (g.scene \in Wide /\ ready))
           save == /\ widescreen /\ ~blit
                   /\ g.scene \in Wide /\ g.level > 0 /\ ~g.effect
<1>1. /\ h' = IF save THEN SavedFrame(g) ELSE g
      /\ savedDrawn' = IF save THEN drawn ELSE savedDrawn
      /\ black' = (black /\ ~save)
      /\ shown' = IF blit
                   THEN [centre |-> ready, edges |-> TRUE,
                         level |-> IF g.holding THEN g.held ELSE g.level,
                         shift |-> [y \in Rows |-> RowShift(g, y)]]
                   ELSE Nothing
      /\ stale' = IF ~(blit /\ ready) THEN 0 ELSE Min({stale + 1, MaxEffect})
      /\ phase' = "prepare" /\ UNCHANGED <<widescreen, battleLayout, drawn>>
  BY DEF ComposeFrame
<1>2. h \in Handoff /\ widescreen \in BOOLEAN /\ black \in BOOLEAN
  BY DEF HandoffInductive, TypeOK
<1>3. /\ g \in Handoff /\ g.holding = h.holding /\ g.held = h.held
      /\ g.level = h.level /\ g.savedLevel = h.savedLevel /\ g.valid = h.valid
      /\ g.effect = h.effect
      /\ widescreen /\ raster => g.effectFrames = h.effectFrames + 1
  <2>1. CASE widescreen
    <3> DEFINE n == Spent(h).effectFrames
    <3>1. Spent(h) = [h EXCEPT !.effectFrames = n]
      BY <1>2, SpentStep
    <3>2. Spent(h) \in Handoff
          /\ (h.effect /\ n < MaxEffect => n = h.effectFrames + 1)
      BY <1>2, SpentStep
    <3> HIDE DEF n
    <3>3. Spent(h).effectFrames = n
      BY <1>2, <3>1 DEF Handoff
    <3> QED
      BY <2>1, <1>2, <3>1, <3>2, <3>3 DEF Handoff
  <2>2. CASE ~widescreen
    BY <2>2, <1>2
  <2> QED
    BY <2>1, <2>2
<1> HIDE DEF g
<1>4. save => ~g.holding
  BY <1>3
<1>5. h' \in Handoff /\ h'.holding = g.holding /\ h'.effectFrames = g.effectFrames
      /\ (~save => h' = g)
  BY <1>1, <1>3, SaveStep
<1>6. HeldInside'
  BY <1>3, <1>4, <1>5 DEF HandoffInductive, HeldInside
<1>7. /\ stale' \in 0 .. MaxEffect /\ stale' < MaxEffect
      /\ stale' <= h'.effectFrames
  <2>1. h'.effectFrames \in 0 .. MaxEffect /\ stale \in 0 .. MaxEffect
        /\ h.effectFrames \in 0 .. MaxEffect /\ MaxEffect \in Nat \ {0}
    BY <1>2, <1>5, ConstantTypes DEF HandoffInductive, TypeOK, Handoff
  <2>2. CASE blit /\ ready
    <3>1. stale <= h.effectFrames
      BY <2>2, <1>3 DEF HandoffInductive, Counted
    <3>2. h'.effectFrames = h.effectFrames + 1 /\ h'.effectFrames < MaxEffect
      BY <2>2, <1>3, <1>5
    <3>3. stale' = Min({stale + 1, MaxEffect})
      BY <2>2, <1>1
    <3>4. stale' \in {stale + 1, MaxEffect} /\ stale' <= stale + 1
      BY <2>1, <3>3, MinPair
    <3> QED
      BY <2>1, <3>1, <3>2, <3>4
  <2>3. CASE ~(blit /\ ready)
    BY <1>1, <2>1, <2>3
  <2> QED
    BY <2>2, <2>3
<1>8. shown'.level \in Level /\ shown'.shift \in [Rows -> -Period .. Period]
  <2>1. CASE blit
    <3>1. shown'.level = IF g.holding THEN g.held ELSE g.level
      BY <2>1, <1>1
    <3>2. shown'.shift = [y \in Rows |-> RowShift(g, y)]
      BY <2>1, <1>1
    <3>3. \A y \in Rows : RowShift(g, y) \in -Period .. Period
      BY <1>3, RowShiftBounded
    <3>4. g.held \in Level /\ g.level \in Level
      BY <1>3 DEF Handoff
    <3> QED
      BY <3>1, <3>2, <3>3, <3>4
  <2>2. CASE ~blit
    <3>1. Nothing.level \in Level /\ Nothing.shift \in [Rows -> -Period .. Period]
      BY ConstantTypes DEF Nothing, Still
    <3> QED
      BY <2>2, <3>1, <1>1
  <2> QED
    BY <2>1, <2>2
<1>9. black' \in BOOLEAN /\ savedDrawn' \in RowScroll /\ drawn' \in RowScroll
  <2> HIDE DEF save, blit
  <2> QED
    BY <1>1, <1>2 DEF HandoffInductive, TypeOK
<1>10. TypeOK'
  BY <1>1, <1>5, <1>7, <1>8, <1>9 DEF HandoffInductive, TypeOK
<1>11. Darker
  <2>1. h.holding => h'.held = h.held /\ h.held \in Nat
    BY <1>2, <1>3, <1>4, <1>5 DEF Handoff, Level
  <2> QED
    BY <2>1 DEF Darker
<1> QED
  BY <1>6, <1>7, <1>10, <1>11 DEF HandoffInductive, Counted, EffectEnds

LEMMA ResetStep == HandoffInductive /\ (ToggleWidescreen \/ RestoreState) => HandoffInductive' /\ Darker
<1> SUFFICES ASSUME HandoffInductive, ToggleWidescreen \/ RestoreState PROVE HandoffInductive' /\ Darker
  OBVIOUS
<1>1. /\ h' = Cleared /\ widescreen' \in BOOLEAN /\ battleLayout' \in BOOLEAN
      /\ UNCHANGED <<phase, drawn, shown, savedDrawn, black, stale>>
  BY DEF HandoffInductive, TypeOK, ToggleWidescreen, RestoreState
<1>2. Cleared.valid = FALSE /\ Cleared.holding = FALSE
  BY DEF Cleared
<1> QED
  BY <1>1, <1>2, ConstantTypes DEF HandoffInductive, TypeOK, HeldInside, Counted, EffectEnds, Darker

LEMMA HandoffStep == HandoffInductive /\ [Next]_vars => HandoffInductive' /\ Darker
<1>1. HandoffInductive /\ UNCHANGED vars => HandoffInductive'
  BY DEF HandoffInductive, TypeOK, HeldInside, Counted, EffectEnds, vars
<1>2. HandoffInductive /\ UNCHANGED vars => Darker
  BY DEF HandoffInductive, TypeOK, Handoff, Level, Darker, vars
<1> QED
  BY <1>1, <1>2, PrepareStep, DrawStep, ComposeStep, ResetStep DEF Next

-----------------------------------------------------------------------------
(* Where the saved picture is shown.                                       *)

\* What the handoff remembers of the rows is what they were drawn with; until a
\* frame is drawn it remembers none.
RowsKnown ==
  /\ phase = "draw" => ~h.lines
  /\ h.lines => drawn = h.lineScroll
  /\ h.savedLines => savedDrawn = h.savedLineScroll

\* Between two frames the picture on screen was placed by what is remembered.
Placed ==
  phase = "prepare" /\ shown.edges /\ h.tracks =>
    \A y \in Rows : shown.shift[y] = RowShift(h, y)

Aligned == RowsKnown /\ Placed

\* The shorter way around still leads from one scroll to the other.
LEMMA ShiftLeads ==
  ASSUME NEW a \in Scroll, NEW b \in Scroll
  PROVE  (b + ScrollDelta(a, b)) % Period = a
<1>1. Period \in Nat \ {0} /\ a \in 0 .. Period - 1 /\ b \in 0 .. Period - 1
  BY ConstantTypes DEF Scroll
<1> DEFINE d == (a - b) % Period
<1>2. d = IF a >= b THEN a - b ELSE a - b + Period
  BY <1>1
<1>3. ScrollDelta(a, b) \in {d, d - Period}
  BY DEF ScrollDelta
<1> HIDE DEF d
<1>4. (b + ScrollDelta(a, b)) \in {a - Period, a, a + Period}
  BY <1>1, <1>2, <1>3
<1>5. (a - Period) % Period = a /\ a % Period = a /\ (a + Period) % Period = a
  BY <1>1
<1> QED
  BY <1>4, <1>5

LEMMA AlignedRows == HandoffInductive /\ Aligned => RowsAligned
<1> SUFFICES ASSUME HandoffInductive, Aligned, phase = "prepare", shown.edges, h.tracks,
                    NEW y \in Rows
             PROVE  ((IF h.lines /\ h.savedLines THEN savedDrawn[y] ELSE h.savedScroll)
                      + shown.shift[y]) % Period
                    = IF h.lines /\ h.savedLines THEN drawn[y] ELSE h.scroll
  BY DEF RowsAligned
<1>1. /\ drawn[y] \in Scroll /\ savedDrawn[y] \in Scroll
      /\ h.scroll \in Scroll /\ h.savedScroll \in Scroll
  BY DEF HandoffInductive, TypeOK, Handoff, RowScroll
<1>2. shown.shift[y] = RowShift(h, y)
  BY DEF Aligned, Placed
<1>3. CASE h.lines /\ h.savedLines
  <2>1. shown.shift[y] = ScrollDelta(drawn[y], savedDrawn[y])
    BY <1>2, <1>3 DEF RowShift, Aligned, RowsKnown
  <2> QED
    BY <1>1, <1>3, <2>1, ShiftLeads
<1>4. CASE ~(h.lines /\ h.savedLines)
  <2>1. shown.shift[y] = ScrollDelta(h.scroll, h.savedScroll)
    BY <1>2, <1>4 DEF RowShift
  <2> QED
    BY <1>1, <1>4, <2>1, ShiftLeads
<1> QED
  BY <1>3, <1>4

LEMMA PrepareAligned == HandoffInductive /\ Aligned /\ PrepareFrame => Aligned'
<1> SUFFICES ASSUME HandoffInductive, Aligned, PrepareFrame PROVE Aligned'
  OBVIOUS
<1>1. PICK battle \in BOOLEAN, level \in Level, mosaic \in BOOLEAN, scroll \in Scroll,
           scene \in Scene :
        h' = Observed(IF battle # battleLayout THEN Cleared ELSE h,
                      scene, level, mosaic, scroll)
  BY DEF PrepareFrame, Scenes, Scene, Wide
<1> DEFINE g == IF battle # battleLayout THEN Cleared ELSE h
           k == Held(g, scene, level)
<1>2. g \in Handoff /\ (g.savedLines => g = h)
  BY ConstantTypes DEF HandoffInductive, TypeOK, Cleared
<1>3. k \in Handoff /\ k.savedLines = g.savedLines /\ k.savedLineScroll = g.savedLineScroll
  <2>1. g.holding => g.held > 0 /\ g.held <= g.savedLevel
    BY DEF HandoffInductive, HeldInside, Cleared
  <2> HIDE DEF g
  <2>2. k \in Handoff
    BY <1>2, <2>1, HeldStep
  <2>3. k.savedLines = g.savedLines
    BY <1>2 DEF Held, Handoff
  <2>4. k.savedLineScroll = g.savedLineScroll
    BY <1>2 DEF Held, Handoff
  <2> QED
    BY <2>2, <2>3, <2>4
<1>4. h' = [k EXCEPT !.scene = scene, !.level = level, !.scroll = scroll,
              !.lines = FALSE, !.lineScroll = Still, !.effect = mosaic,
              !.previousWide = (scene \in Wide /\ level > 0)]
  BY <1>1 DEF Observed
<1> HIDE DEF k
<1>5. h'.lines = FALSE /\ h'.savedLines = k.savedLines
      /\ h'.savedLineScroll = k.savedLineScroll
  BY <1>3, <1>4 DEF Handoff
<1>6. phase' = "draw" /\ UNCHANGED savedDrawn
  BY DEF PrepareFrame
<1> QED
  BY <1>2, <1>3, <1>5, <1>6 DEF Aligned, RowsKnown, Placed

LEMMA DrawAligned == HandoffInductive /\ Aligned /\ DrawFrame => Aligned'
<1> SUFFICES ASSUME HandoffInductive, Aligned, DrawFrame PROVE Aligned'
  OBVIOUS
<1>1. h \in Handoff /\ phase' = "compose" /\ UNCHANGED savedDrawn
  BY DEF HandoffInductive, TypeOK, DrawFrame
<1>2. CASE drawn' = Still /\ UNCHANGED h
  BY <1>1, <1>2 DEF Aligned, RowsKnown, Placed, DrawFrame
<1>3. CASE \E mosaic \in BOOLEAN : h' = Rastered(h, drawn', mosaic)
  <2>1. /\ h'.lines = TRUE /\ h'.lineScroll = drawn'
        /\ h'.savedLines = h.savedLines /\ h'.savedLineScroll = h.savedLineScroll
    BY <1>1, <1>3 DEF Rastered, Handoff
  <2> QED
    BY <1>1, <2>1 DEF Aligned, RowsKnown, Placed
<1> QED
  BY <1>2, <1>3 DEF DrawFrame

LEMMA ComposeAligned == HandoffInductive /\ Aligned /\ ComposeFrame => Aligned'
<1> SUFFICES ASSUME HandoffInductive, Aligned, ComposeFrame PROVE Aligned'
  OBVIOUS
<1> DEFINE g == IF widescreen THEN Spent(h) ELSE h
<1>1. PICK blit \in BOOLEAN, save \in BOOLEAN :
        /\ save => ~blit
        /\ h' = IF save THEN SavedFrame(g) ELSE g
        /\ savedDrawn' = IF save THEN drawn ELSE savedDrawn
        /\ blit => shown'.shift = [y \in Rows |-> RowShift(g, y)]
        /\ ~blit => shown' = Nothing
        /\ phase' = "prepare" /\ UNCHANGED drawn
  BY DEF ComposeFrame
<1>2. h \in Handoff
  BY DEF HandoffInductive, TypeOK
<1>3. /\ g \in Handoff
      /\ g.lines = h.lines /\ g.lineScroll = h.lineScroll
      /\ g.savedLines = h.savedLines /\ g.savedLineScroll = h.savedLineScroll
  <2>1. CASE widescreen
    <3> DEFINE n == Spent(h).effectFrames
    <3>1. Spent(h) = [h EXCEPT !.effectFrames = n] /\ Spent(h) \in Handoff
      BY <1>2, SpentStep
    <3> HIDE DEF n
    <3> QED
      BY <2>1, <1>2, <3>1 DEF Handoff
  <2>2. CASE ~widescreen
    BY <2>2, <1>2
  <2> QED
    BY <2>1, <2>2
<1> HIDE DEF g
<1>4. CASE save
  <2>1. /\ h'.lines = g.lines /\ h'.lineScroll = g.lineScroll
        /\ h'.savedLines = g.lines
        /\ g.lines => h'.savedLineScroll = g.lineScroll
    <3>1. h' = SavedFrame(g)
      BY <1>1, <1>4
    <3> QED
      BY <1>3, <3>1 DEF SavedFrame, Handoff
  <2>2. shown'.edges = FALSE
    BY <1>1, <1>4 DEF Nothing
  <2> QED
    BY <1>1, <1>3, <1>4, <2>1, <2>2 DEF Aligned, RowsKnown, Placed
<1>5. CASE ~save
  <2>1. h' = g /\ UNCHANGED <<drawn, savedDrawn>>
    BY <1>1, <1>5
  <2>2. RowsKnown'
    BY <1>1, <1>3, <2>1 DEF Aligned, RowsKnown
  <2>3. Placed'
    <3>1. CASE blit
      BY <1>1, <2>1, <3>1 DEF Placed
    <3>2. CASE ~blit
      BY <1>1, <3>2 DEF Placed, Nothing
    <3> QED
      BY <3>1, <3>2
  <2> QED
    BY <2>2, <2>3 DEF Aligned
<1> QED
  BY <1>4, <1>5

LEMMA AlignedStep == HandoffInductive /\ Aligned /\ [Next]_vars => Aligned'
<1>1. Aligned /\ UNCHANGED vars => Aligned'
  BY DEF Aligned, RowsKnown, Placed, vars, RowShift
<1>2. ToggleWidescreen \/ RestoreState => Aligned'
  BY DEF ToggleWidescreen, RestoreState, Cleared, Aligned, RowsKnown, Placed
<1> QED
  BY <1>1, <1>2, PrepareAligned, DrawAligned, ComposeAligned DEF Next

-----------------------------------------------------------------------------
(* The theorems.                                                           *)

\* HandoffInductive holds in every state of the handoff: for any number of rows,
\* any brightness, scroll period and budget.
THEOREM HandoffInductiveHolds == Spec => []HandoffInductive
<1> QED
  BY HandoffInit, HandoffStep, PTL DEF Spec

\* The held edges are lit, and no brighter than the picture between them or the
\* one they were cut from (ObserveHold in Lufia2VideoHandoffObserve).
THEOREM HoldStaysInside == Spec => []HeldInside
<1>1. HandoffInductive => HeldInside
  BY DEF HandoffInductive
<1> QED
  BY <1>1, HandoffInductiveHolds, PTL

\* A standing effect is given back to the live frame within its budget
\* (SpendEffectBudget), across battles, resets and switches.
THEOREM EffectGivenBack == Spec => []EffectEnds
<1>1. HandoffInductive => EffectEnds
  BY DEF HandoffInductive
<1> QED
  BY <1>1, HandoffInductiveHolds, PTL

\* A bridge, as long as it is held, only gets darker.
THEOREM BridgeFadesOut == Spec => FadesOut
<1>1. HandoffInductive /\ [Next]_vars => [h.holding /\ h'.holding => h'.held <= h.held]_vars
  BY HandoffStep DEF Darker
<1> QED
  BY <1>1, HandoffInductiveHolds, PTL DEF Spec, FadesOut

\* The saved picture lies where its part of the map now is, row by row where the
\* rows of both pictures are known, whichever way the scroll has wrapped
\* (ResolveRow and ScrollDelta).
THEOREM PictureStaysAligned == Spec => []RowsAligned
<1>1. Init => Aligned
  BY DEF Init, Cleared, Nothing, Aligned, RowsKnown, Placed
<1>2. Spec => []Aligned
  BY <1>1, AlignedStep, HandoffInductiveHolds, PTL DEF Spec
<1> QED
  BY <1>2, AlignedRows, HandoffInductiveHolds, PTL

-----------------------------------------------------------------------------
(* The planes that the core keeps                                          *)


LayerFields ==
  {"checked", "counted", "memory", "snapshot", "valid", "key", "pages", "pixels"}

LayerOK(l) ==
  /\ DOMAIN l = LayerFields
  /\ l.counted => l.snapshot = in.vram
  /\ l.valid => l.pages = {l.key[1]} /\ l.pixels = <<l.key, l.snapshot[l.key[1]]>>

LEMMA LayerComparedKeeps ==
  ASSUME NEW l, LayerOK(l)
  PROVE  LayerOK(LayerCompared(l)) /\ LayerCompared(l).counted
<1>1. CASE l.checked /\ l.counted
  BY <1>1 DEF LayerCompared
<1>2. CASE ~(l.checked /\ l.counted)
  <2> DEFINE d == LayerCompared(l)
  <2>1. /\ DOMAIN d = LayerFields /\ d.snapshot = in.vram /\ d.counted = TRUE
        /\ d.key = l.key /\ d.pages = l.pages /\ d.pixels = l.pixels
        /\ d.valid = (l.valid /\ l.memory /\ \A g \in l.pages : l.snapshot[g] = in.vram[g])
    BY <1>2 DEF LayerCompared, LayerOK, LayerFields
  <2> QED
    BY <2>1 DEF LayerOK
<1> QED
  BY <1>1, <1>2

LEMMA LayerIsExact == ASSUME NEW l, LayerOK(l) PROVE LayerExact(l)
<1> DEFINE d == LayerCompared(l)
<1>1. LayerOK(d) /\ d.counted
  BY LayerComparedKeeps
<1> HIDE DEF d
<1> SUFFICES ASSUME LayerMatches(d) PROVE d.pixels = LayerPixels
  BY DEF LayerExact, d
<1>2. d.valid /\ d.key = LayerKey /\ LayerKey[1] = in.page
  BY DEF LayerMatches, LayerKey
<1> QED
  BY <1>1, <1>2 DEF LayerOK, LayerPixels, Indices, PageOf

LEMMA LayerRowKeeps == ASSUME NEW l, LayerOK(l) PROVE LayerOK(LayerRow(l))
<1> DEFINE d == LayerCompared(l)
           e == [d EXCEPT !.key = LayerKey, !.pages = {PageOf(1)}, !.pixels = LayerPixels,
                          !.valid = TRUE]
<1>1. LayerOK(d) /\ d.counted
  BY LayerComparedKeeps
<1>2. LayerRow(l) = IF LayerMatches(d) THEN d ELSE e
  BY DEF LayerRow
<1> HIDE DEF d
<1>3. /\ DOMAIN e = LayerFields /\ e.key = LayerKey /\ e.pages = {PageOf(1)}
      /\ e.pixels = LayerPixels /\ e.counted = d.counted /\ e.snapshot = d.snapshot
  BY <1>1 DEF LayerOK, LayerFields
<1> HIDE DEF e
<1>4. LayerKey[1] = in.page /\ PageOf(1) = in.page
  BY DEF LayerKey, PageOf
<1>5. LayerOK(e)
  BY <1>1, <1>3, <1>4 DEF LayerOK, LayerPixels, Indices
<1> QED
  BY <1>1, <1>2, <1>5

-----------------------------------------------------------------------------

BackgroundFields ==
  {"checked", "counted", "memory", "snapshot", "valid", "key", "objects", "pages", "indices",
   "rgb", "row", "rgbValid", "palette", "light", "captured",
   "capture", "banks", "capturePalette", "captureLight"}

\* The colours are those of the indices that are kept: a plane's in the palette
\* it was captured with, the row's in the one it was made with.
PlaneKept(b, g) ==
  LET index == b.indices.backgrounds[g] IN
  /\ b.banks[g] = {index}
  /\ b.rgb[g] = <<index, b.capturePalette[g][index], b.captureLight[g]>>
RowKept(b) ==
  /\ b.row = <<b.indices, b.palette, b.light, b.captured>>
  /\ \A g \in Planes :
       LET index == b.indices.backgrounds[g]
       IN  b.rgb[g] = <<index, b.palette[index], b.light>>

\* The indices are those of the VRAM that was compared last, on the pages that the
\* row reads, under the registers of the key.
IndicesKept(b) ==
  /\ b.pages = {b.key[1], 2}
  /\ b.indices = [key |-> b.key,
                  backgrounds |-> [g \in BGs |-> b.snapshot[IF g = 1 THEN b.key[1] ELSE 2]],
                  sprites |-> IF Obj \in b.key[2] THEN b.objects ELSE <<>>]

BackgroundShape(b) ==
  /\ DOMAIN b = BackgroundFields
  /\ DOMAIN b.rgb = Planes /\ DOMAIN b.banks = Planes
  /\ DOMAIN b.capturePalette = Planes /\ DOMAIN b.captureLight = Planes
  /\ b.capture \subseteq Planes

BackgroundOK(b) ==
  /\ BackgroundShape(b)
  /\ b.counted => b.snapshot = in.vram
  /\ b.valid => IndicesKept(b)
  /\ \A g \in b.capture : PlaneKept(b, g)
  /\ b.rgbValid => b.capture = {} /\ RowKept(b)

LEMMA BackgroundComparedKeeps ==
  ASSUME NEW b, BackgroundOK(b)
  PROVE  BackgroundOK(BackgroundCompared(b)) /\ BackgroundCompared(b).counted
<1>1. CASE b.checked /\ b.counted
  BY <1>1 DEF BackgroundCompared
<1>2. CASE ~(b.checked /\ b.counted)
  <2> DEFINE d == BackgroundCompared(b)
             kept == b.valid /\ b.memory /\ \A g \in b.pages : b.snapshot[g] = in.vram[g]
  <2>1. /\ DOMAIN d = BackgroundFields /\ d.snapshot = in.vram /\ d.counted = TRUE
        /\ d.key = b.key /\ d.objects = b.objects /\ d.pages = b.pages /\ d.indices = b.indices
        /\ d.rgb = b.rgb /\ d.row = b.row /\ d.palette = b.palette /\ d.light = b.light
        /\ d.captured = b.captured /\ d.banks = b.banks
        /\ d.capturePalette = b.capturePalette /\ d.captureLight = b.captureLight
    BY <1>2 DEF BackgroundCompared, BackgroundOK, BackgroundShape, BackgroundFields
  <2>2. /\ d.valid = kept /\ d.rgbValid = (b.rgbValid /\ kept)
        /\ d.capture = IF kept THEN b.capture ELSE {}
    BY <1>2 DEF BackgroundCompared, BackgroundOK, BackgroundShape, BackgroundFields
  <2> HIDE DEF d
  <2>3. BackgroundShape(d)
    BY <2>1, <2>2 DEF BackgroundOK, BackgroundShape
  <2>4. d.valid => IndicesKept(d)
    <3> SUFFICES ASSUME d.valid PROVE IndicesKept(d)
      OBVIOUS
    <3>1. kept /\ IndicesKept(b)
      BY <2>2 DEF BackgroundOK
    <3>2. \A g \in BGs : b.snapshot[IF g = 1 THEN b.key[1] ELSE 2]
                           = d.snapshot[IF g = 1 THEN b.key[1] ELSE 2]
      BY <2>1, <3>1 DEF IndicesKept
    <3>3. [g \in BGs |-> b.snapshot[IF g = 1 THEN b.key[1] ELSE 2]]
            = [g \in BGs |-> d.snapshot[IF g = 1 THEN b.key[1] ELSE 2]]
      BY <3>2
    <3> QED
      BY <2>1, <3>1, <3>3 DEF IndicesKept
  <2>5. \A g \in d.capture : PlaneKept(d, g)
    BY <2>1, <2>2 DEF BackgroundOK, PlaneKept
  <2>6. d.rgbValid => d.capture = {} /\ RowKept(d)
    BY <2>1, <2>2 DEF BackgroundOK, RowKept
  <2> QED
    BY <2>1, <2>3, <2>4, <2>5, <2>6 DEF BackgroundOK, d
<1> QED
  BY <1>1, <1>2

\* What is kept under the key of the row now is what the row has now.
LEMMA MatchingIndices ==
  ASSUME NEW b, BackgroundOK(b), b.counted, BackgroundMatches(b)
  PROVE  b.indices = RowIndices
<1>1. /\ b.valid /\ b.key = BackgroundKey /\ (Obj \in in.screen => b.objects = SpriteRow)
      /\ b.snapshot = in.vram /\ IndicesKept(b)
  BY DEF BackgroundMatches, BackgroundOK
<1>2. BackgroundKey[1] = in.page /\ BackgroundKey[2] = in.screen
  BY DEF BackgroundKey
<1>3. [g \in BGs |-> b.snapshot[IF g = 1 THEN b.key[1] ELSE 2]]
        = [g \in BGs |-> Indices(g, in.vram)]
  BY <1>1, <1>2 DEF Indices, PageOf
<1> QED
  BY <1>1, <1>2, <1>3 DEF IndicesKept, RowIndices

LEMMA IndexOfRow == \A g \in BGs : RowIndices.backgrounds[g] = Indices(g, in.vram)
BY DEF RowIndices

LEMMA BackgroundIsExact == ASSUME NEW b, BackgroundOK(b) PROVE BackgroundExact(b)
<1> DEFINE d == BackgroundCompared(b)
<1>1. BackgroundOK(d) /\ d.counted
  BY BackgroundComparedKeeps
<1> HIDE DEF d
<1> SUFFICES ASSUME BackgroundMatches(d)
             PROVE  /\ d.indices = RowIndices
                    /\ \A g \in Planes :
                         PlaneMatches(d, g) \/ RgbMatches(d) => d.rgb[g] = PlaneColours(g)
                    /\ RgbMatches(d) => d.row = RowColours
  BY DEF BackgroundExact, d
<1>2. d.indices = RowIndices
  BY <1>1, MatchingIndices
<1>3. ASSUME NEW g \in Planes, PlaneMatches(d, g) PROVE d.rgb[g] = PlaneColours(g)
  <2>1. PlaneKept(d, g) /\ d.captureLight[g] = in.light
        /\ \A k \in d.banks[g] : d.capturePalette[g][k] = in.cgram[k]
    BY <1>1, <1>3 DEF PlaneMatches, BackgroundOK
  <2>2. d.indices.backgrounds[g] = Indices(g, in.vram)
    BY <1>2, IndexOfRow DEF Planes
  <2> QED
    BY <2>1, <2>2 DEF PlaneKept, PlaneColours
<1>4. ASSUME RgbMatches(d)
      PROVE  d.row = RowColours /\ \A g \in Planes : d.rgb[g] = PlaneColours(g)
  <2>1. RowKept(d) /\ d.palette = in.cgram /\ d.light = in.light /\ d.captured = in.captured
    BY <1>1, <1>4 DEF RgbMatches, BackgroundOK
  <2>2. \A g \in Planes : d.indices.backgrounds[g] = Indices(g, in.vram)
    BY <1>2, IndexOfRow DEF Planes
  <2> QED
    BY <1>2, <2>1, <2>2 DEF RowKept, PlaneColours, RowColours
<1> QED
  BY <1>2, <1>3, <1>4

LEMMA IndicesDrawnKeeps ==
  ASSUME NEW b, BackgroundOK(b), b.counted
  PROVE  /\ BackgroundOK(IndicesDrawn(b)) /\ IndicesDrawn(b).counted
         /\ IndicesDrawn(b).indices = RowIndices
<1> DEFINE d == IndicesDrawn(b)
<1>1. /\ DOMAIN d = BackgroundFields /\ d.snapshot = in.vram /\ d.counted = b.counted
      /\ d.key = BackgroundKey /\ d.objects = IF Obj \in in.screen THEN SpriteRow ELSE b.objects
      /\ d.pages = {PageOf(g) : g \in BGs} /\ d.indices = RowIndices
      /\ d.rgb = b.rgb /\ d.banks = b.banks /\ d.capture = {} /\ d.rgbValid = FALSE
      /\ d.capturePalette = b.capturePalette /\ d.captureLight = b.captureLight
  BY DEF IndicesDrawn, BackgroundOK, BackgroundShape, BackgroundFields
<1> HIDE DEF d
<1>2. BackgroundKey[1] = in.page /\ BackgroundKey[2] = in.screen
  BY DEF BackgroundKey
<1>3. IndicesKept(d)
  <2>1. d.pages = {d.key[1], 2}
    BY <1>1, <1>2 DEF PageOf, BGs
  <2>2. [g \in BGs |-> d.snapshot[IF g = 1 THEN d.key[1] ELSE 2]]
          = [g \in BGs |-> Indices(g, in.vram)]
    BY <1>1, <1>2 DEF Indices, PageOf
  <2> QED
    BY <1>1, <1>2, <2>1, <2>2 DEF IndicesKept, RowIndices
<1>4. BackgroundShape(d)
  BY <1>1 DEF BackgroundOK, BackgroundShape
<1> QED
  BY <1>1, <1>3, <1>4 DEF BackgroundOK, d

LEMMA PlaneStoredKeeps ==
  ASSUME NEW b, BackgroundOK(b), b.indices = RowIndices, NEW g \in Planes
  PROVE  /\ BackgroundOK(PlaneStored(b, g)) /\ PlaneStored(b, g).indices = RowIndices
         /\ PlaneStored(b, g).rgb[g] = PlaneColours(g)
         /\ \A f \in Planes \ {g} : PlaneStored(b, g).rgb[f] = b.rgb[f]
<1> DEFINE d == PlaneStored(b, g)
<1>1. /\ DOMAIN d = BackgroundFields /\ d.snapshot = b.snapshot /\ d.counted = b.counted
      /\ d.valid = b.valid /\ d.key = b.key /\ d.objects = b.objects /\ d.pages = b.pages
      /\ d.indices = b.indices /\ d.capture = b.capture \cup {g} /\ d.rgbValid = FALSE
      /\ d.rgb = [b.rgb EXCEPT ![g] = PlaneColours(g)]
      /\ d.banks = [b.banks EXCEPT ![g] = {b.indices.backgrounds[g]}]
      /\ d.capturePalette = [b.capturePalette EXCEPT ![g] = in.cgram]
      /\ d.captureLight = [b.captureLight EXCEPT ![g] = in.light]
  BY DEF PlaneStored, BackgroundOK, BackgroundShape, BackgroundFields
<1> HIDE DEF d
<1>2. BackgroundShape(d)
  BY <1>1 DEF BackgroundOK, BackgroundShape
<1>3. b.indices.backgrounds[g] = Indices(g, in.vram)
  BY IndexOfRow DEF Planes
<1>4. PlaneKept(d, g)
  BY <1>1, <1>3 DEF PlaneKept, PlaneColours, BackgroundOK, BackgroundShape
<1>5. \A f \in d.capture \ {g} : PlaneKept(d, f)
  BY <1>1 DEF PlaneKept, BackgroundOK, BackgroundShape
<1>6. d.valid => IndicesKept(d)
  BY <1>1 DEF IndicesKept, BackgroundOK
<1>7. BackgroundOK(d)
  BY <1>1, <1>2, <1>4, <1>5, <1>6 DEF BackgroundOK
<1>8. d.rgb[g] = PlaneColours(g) /\ \A f \in Planes \ {g} : d.rgb[f] = b.rgb[f]
  BY <1>1 DEF BackgroundOK, BackgroundShape
<1> QED
  BY <1>1, <1>7, <1>8 DEF d

LEMMA PlaneDrawnKeeps ==
  ASSUME NEW b, BackgroundOK(b), b.indices = RowIndices, NEW g \in Planes
  PROVE  /\ BackgroundOK(PlaneDrawn(b, g)) /\ PlaneDrawn(b, g).indices = RowIndices
         /\ PlaneDrawn(b, g).rgb[g] = PlaneColours(g)
         /\ \A f \in Planes \ {g} : PlaneDrawn(b, g).rgb[f] = b.rgb[f]
<1>1. CASE PlaneMatches(b, g)
  <2>1. PlaneKept(b, g) /\ b.captureLight[g] = in.light
        /\ \A k \in b.banks[g] : b.capturePalette[g][k] = in.cgram[k]
    BY <1>1 DEF PlaneMatches, BackgroundOK
  <2>2. b.indices.backgrounds[g] = Indices(g, in.vram)
    BY IndexOfRow DEF Planes
  <2>3. b.rgb[g] = PlaneColours(g)
    BY <2>1, <2>2 DEF PlaneKept, PlaneColours
  <2> QED
    BY <1>1, <2>3 DEF PlaneDrawn
<1>2. CASE ~PlaneMatches(b, g)
  BY <1>2, PlaneStoredKeeps DEF PlaneDrawn
<1> QED
  BY <1>1, <1>2

LEMMA RgbStoredKeeps ==
  ASSUME NEW b, BackgroundOK(b), b.indices = RowIndices,
         \A g \in Planes : b.rgb[g] = PlaneColours(g)
  PROVE  BackgroundOK(RgbStored(b))
<1>1. CASE in.math
  BY <1>1 DEF RgbStored
<1>2. CASE ~in.math
  <2> DEFINE d == RgbStored(b)
  <2>1. /\ DOMAIN d = BackgroundFields /\ d.snapshot = b.snapshot /\ d.counted = b.counted
        /\ d.valid = b.valid /\ d.key = b.key /\ d.objects = b.objects /\ d.pages = b.pages
        /\ d.indices = b.indices /\ d.capture = {} /\ d.rgb = b.rgb /\ d.banks = b.banks
        /\ d.capturePalette = b.capturePalette /\ d.captureLight = b.captureLight
        /\ d.row = RowColours /\ d.palette = in.cgram /\ d.light = in.light
        /\ d.captured = in.captured
    BY <1>2 DEF RgbStored, BackgroundOK, BackgroundShape, BackgroundFields
  <2> HIDE DEF d
  <2>2. BackgroundShape(d)
    BY <2>1 DEF BackgroundOK, BackgroundShape
  <2>3. d.valid => IndicesKept(d)
    BY <2>1 DEF IndicesKept, BackgroundOK
  <2>4. RowKept(d)
    <3>1. \A g \in Planes : b.indices.backgrounds[g] = Indices(g, in.vram)
      BY IndexOfRow DEF Planes
    <3> QED
      BY <2>1, <3>1 DEF RowKept, RowColours, PlaneColours
  <2> QED
    BY <2>1, <2>2, <2>3, <2>4 DEF BackgroundOK, d
<1> QED
  BY <1>1, <1>2

LEMMA BackgroundRowKeeps ==
  ASSUME NEW b, BackgroundOK(b), NEW native \in BOOLEAN
  PROVE  BackgroundOK(BackgroundRow(b, native))
<1> DEFINE d == BackgroundCompared(b)
           hit == BackgroundMatches(d)
           e == IF hit THEN d ELSE IndicesDrawn(d)
<1>1. BackgroundOK(d) /\ d.counted
  BY BackgroundComparedKeeps
<1> HIDE DEF d
<1>2. BackgroundOK(e) /\ e.indices = RowIndices
  <2>1. CASE hit
    BY <1>1, <2>1, MatchingIndices
  <2>2. CASE ~hit
    BY <1>1, <2>2, IndicesDrawnKeeps
  <2> QED
    BY <2>1, <2>2
<1>3. BackgroundRow(b, native)
        \in {e, RgbStored(PlaneDrawn(PlaneDrawn(e, 1), 2)),
             RgbStored(PlaneStored(PlaneStored(e, 1), 2))}
  BY DEF BackgroundRow, d
<1> HIDE DEF e
<1>4. 1 \in Planes /\ 2 \in Planes /\ Planes = {1, 2} /\ 1 \in Planes \ {2}
  BY DEF Planes, BGs
<1>5. BackgroundOK(RgbStored(PlaneDrawn(PlaneDrawn(e, 1), 2)))
  <2> DEFINE p == PlaneDrawn(e, 1)  q == PlaneDrawn(p, 2)
  <2>1. BackgroundOK(p) /\ p.indices = RowIndices /\ p.rgb[1] = PlaneColours(1)
    BY <1>2, <1>4, PlaneDrawnKeeps
  <2> HIDE DEF p
  <2>2. /\ BackgroundOK(q) /\ q.indices = RowIndices /\ q.rgb[2] = PlaneColours(2)
        /\ q.rgb[1] = p.rgb[1]
    BY <1>4, <2>1, PlaneDrawnKeeps
  <2> HIDE DEF q
  <2>3. BackgroundOK(RgbStored(q))
    BY <1>4, <2>1, <2>2, RgbStoredKeeps
  <2> QED
    BY <2>3 DEF q, p
<1>6. BackgroundOK(RgbStored(PlaneStored(PlaneStored(e, 1), 2)))
  <2> DEFINE p == PlaneStored(e, 1)  q == PlaneStored(p, 2)
  <2>1. BackgroundOK(p) /\ p.indices = RowIndices /\ p.rgb[1] = PlaneColours(1)
    BY <1>2, <1>4, PlaneStoredKeeps
  <2> HIDE DEF p
  <2>2. /\ BackgroundOK(q) /\ q.indices = RowIndices /\ q.rgb[2] = PlaneColours(2)
        /\ q.rgb[1] = p.rgb[1]
    BY <1>4, <2>1, PlaneStoredKeeps
  <2> HIDE DEF q
  <2>3. BackgroundOK(RgbStored(q))
    BY <1>4, <2>1, <2>2, RgbStoredKeeps
  <2> QED
    BY <2>3 DEF q, p
<1> QED
  BY <1>2, <1>3, <1>5, <1>6


-----------------------------------------------------------------------------
(* The row cache: what an operator keeps of a pass.                        *)

RowFields ==
  {"checked", "disabled", "counted", "memory", "width", "snapshot",
   "bound", "policyChecked", "policyValid", "shared", "key", "policy",
   "objectsValid", "objects", "objectPasses", "valid", "pending",
   "registers", "layers", "pages", "extra", "blocks", "palettes", "pixels"}

RowShape(c) ==
  /\ DOMAIN c = RowFields /\ c.valid \subseteq Passes
  /\ DOMAIN c.registers = Passes /\ DOMAIN c.layers = Passes /\ DOMAIN c.pages = Passes
  /\ DOMAIN c.extra = Passes /\ DOMAIN c.blocks = Passes /\ DOMAIN c.palettes = Passes
  /\ DOMAIN c.pixels = Passes

\* The policy that a row was drawn for: the job's, or its own.
PolicyOf(c) == IF c.bound THEN c.shared ELSE c.policy

\* A pass with its certificate is the same, as far as the certificate reads.
SamePass(c, d, p) ==
  /\ d.width = c.width /\ d.key = c.key /\ d.bound = c.bound /\ PolicyOf(d) = PolicyOf(c)
  /\ \A g \in c.pages[p] : d.snapshot[g] = c.snapshot[g]
  /\ p \in d.objectPasses <=> p \in c.objectPasses
  /\ p \in c.objectPasses => d.objects = c.objects
  /\ d.registers[p] = c.registers[p] /\ d.layers[p] = c.layers[p]
  /\ d.pages[p] = c.pages[p] /\ d.extra[p] = c.extra[p]
  /\ d.blocks[p] = c.blocks[p] /\ d.palettes[p] = c.palettes[p]
  /\ d.pixels[p] = c.pixels[p]

\* Every pass that is still valid was valid, and is the same.
Keeps(c, d) ==
  RowShape(d) /\ \A p \in d.valid : p \in c.valid /\ SamePass(c, d, p)

LEMMA KeepsAll ==
  ASSUME NEW c, NEW d, NEW e, Keeps(c, d), Keeps(d, e)
  PROVE  Keeps(c, e)
BY DEF Keeps, SamePass

LEMMA KeepsSelf == ASSUME NEW c, RowShape(c) PROVE Keeps(c, c)
BY DEF Keeps, SamePass

\* The fields by which the row's policy and its comparison with VRAM are known.
SamePolicy(c, d) ==
  /\ d.bound = c.bound /\ d.policyValid = c.policyValid
  /\ d.policyChecked = c.policyChecked /\ d.shared = c.shared
SameView(c, d) ==
  /\ d.checked = c.checked /\ d.disabled = c.disabled /\ d.counted = c.counted
  /\ d.width = c.width /\ d.snapshot = c.snapshot

LEMMA ForgottenKeeps ==
  ASSUME NEW c, RowShape(c)
  PROVE  /\ Keeps(c, Forgotten(c)) /\ SamePolicy(c, Forgotten(c)) /\ SameView(c, Forgotten(c))
         /\ Forgotten(c).valid = {}
BY DEF RowShape, RowFields, Keeps, SamePass, Forgotten, SamePolicy, SameView

LEMMA BegunKeeps ==
  ASSUME NEW c, RowShape(c)
  PROVE  /\ Keeps(c, Begun(c)) /\ Begun(c).checked = FALSE /\ Begun(c).disabled = FALSE
         /\ Begun(c).policyChecked = FALSE
         /\ Begun(c).bound = c.bound /\ Begun(c).policyValid = c.policyValid
         /\ Begun(c).shared = c.shared /\ Begun(c).valid = c.valid
BY DEF RowShape, RowFields, Keeps, SamePass, Begun, PolicyOf

\* The policy's part of a cache: the shared one is there while it is bound.
PolicyKnown(c) == c.bound \in BOOLEAN /\ c.policyValid = c.bound

LEMMA PolicyBoundKeeps ==
  ASSUME NEW c, RowShape(c), PolicyKnown(c), NEW bound \in BOOLEAN,
         c.policyChecked => c.bound /\ c.shared = in.policy
  PROVE  LET d == PolicyBound(c, bound) IN
         /\ Keeps(c, d) /\ PolicyKnown(d) /\ SameView(c, d)
         /\ d.bound = bound /\ (bound => d.shared = in.policy)
         /\ d.policyChecked => bound
<1> DEFINE d == PolicyBound(c, bound)
           e == [c EXCEPT !.bound = bound, !.policyChecked = @ /\ c.bound = bound]
           same == e.policyValid /\ e.shared = in.policy
<1>1. /\ DOMAIN e = RowFields /\ e.bound = bound
      /\ e.policyChecked = (c.policyChecked /\ c.bound = bound)
      /\ e.policyValid = c.policyValid /\ e.shared = c.shared /\ e.policy = c.policy
      /\ e.valid = c.valid /\ e.key = c.key /\ e.objects = c.objects
      /\ e.objectPasses = c.objectPasses /\ SameView(c, e)
      /\ e.registers = c.registers /\ e.layers = c.layers /\ e.pages = c.pages
      /\ e.extra = c.extra /\ e.blocks = c.blocks /\ e.palettes = c.palettes
      /\ e.pixels = c.pixels
  BY DEF RowShape, RowFields, SameView
<1>2. d = IF bound
            THEN IF e.policyChecked THEN e
                 ELSE [e EXCEPT !.valid = IF same THEN @ ELSE {}, !.shared = in.policy,
                                !.policyChecked = TRUE, !.policyValid = TRUE]
            ELSE IF e.policyValid THEN [Forgotten(e) EXCEPT !.policyValid = FALSE] ELSE e
  BY DEF PolicyBound
<1> HIDE DEF e, d
<1>3. RowShape(e)
  BY <1>1 DEF RowShape
<1>4. CASE bound /\ e.policyChecked
  <2>1. d = e /\ c.bound = TRUE
    BY <1>1, <1>2, <1>4 DEF PolicyKnown
  <2> QED
    BY <1>1, <1>3, <1>4, <2>1 DEF Keeps, SamePass, PolicyOf, PolicyKnown, SameView, d
<1>5. CASE bound /\ ~e.policyChecked
  <2>1. /\ DOMAIN d = RowFields /\ d.valid = (IF same THEN e.valid ELSE {})
        /\ d.shared = in.policy /\ d.policyChecked = TRUE /\ d.policyValid = TRUE
        /\ d.bound = TRUE /\ d.policy = e.policy /\ d.key = e.key /\ d.objects = e.objects
        /\ d.objectPasses = e.objectPasses /\ SameView(e, d)
        /\ d.registers = e.registers /\ d.layers = e.layers /\ d.pages = e.pages
        /\ d.extra = e.extra /\ d.blocks = e.blocks /\ d.palettes = e.palettes
        /\ d.pixels = e.pixels
    BY <1>1, <1>2, <1>5 DEF RowFields, SameView
  <2>2. RowShape(d)
    BY <1>3, <2>1 DEF RowShape
  <2>3. d.valid # {} => c.bound = TRUE /\ c.shared = in.policy
    BY <1>1, <2>1 DEF PolicyKnown
  <2>4. Keeps(c, d)
    <3> SUFFICES ASSUME NEW p \in d.valid PROVE p \in c.valid /\ SamePass(c, d, p)
      BY <2>2 DEF Keeps
    <3>1. p \in c.valid /\ c.bound = TRUE /\ c.shared = in.policy
      BY <1>1, <2>1, <2>3
    <3>2. PolicyOf(d) = PolicyOf(c)
      BY <2>1, <3>1 DEF PolicyOf
    <3> QED
      BY <1>1, <2>1, <3>1, <3>2 DEF SamePass, SameView
  <2>5. PolicyKnown(d) /\ SameView(c, d)
    BY <1>1, <2>1 DEF PolicyKnown, SameView
  <2>6. d.bound = bound
    BY <1>5, <2>1
  <2> QED
    BY <1>5, <2>1, <2>4, <2>5, <2>6 DEF d
<1>6. CASE ~bound /\ e.policyValid
  <2>1. /\ DOMAIN d = RowFields /\ d.valid = {} /\ d.policyValid = FALSE
        /\ d.policyChecked = e.policyChecked /\ d.bound = e.bound /\ SameView(e, d)
        /\ d.registers = e.registers /\ d.layers = e.layers /\ d.pages = e.pages
        /\ d.extra = e.extra /\ d.blocks = e.blocks /\ d.palettes = e.palettes
        /\ d.pixels = e.pixels
    BY <1>1, <1>2, <1>6 DEF RowFields, SameView, Forgotten
  <2>2. RowShape(d)
    BY <1>3, <2>1 DEF RowShape
  <2>3. c.bound = TRUE /\ bound = FALSE
    BY <1>1, <1>6 DEF PolicyKnown
  <2>4. d.bound = FALSE /\ d.policyChecked = FALSE
    BY <1>1, <2>1, <2>3
  <2>5. Keeps(c, d) /\ PolicyKnown(d)
    BY <2>1, <2>2, <2>4 DEF Keeps, PolicyKnown
  <2>6. SameView(c, d)
    BY <1>1, <2>1 DEF SameView
  <2> QED
    BY <2>3, <2>4, <2>5, <2>6 DEF d
<1>7. CASE ~bound /\ ~e.policyValid
  <2>1. d = e /\ c.bound = FALSE
    BY <1>1, <1>2, <1>7 DEF PolicyKnown
  <2> QED
    BY <1>1, <1>3, <1>7, <2>1 DEF Keeps, SamePass, PolicyOf, PolicyKnown, SameView, d
<1> QED
  BY <1>4, <1>5, <1>6, <1>7

\* A cache whose row can be looked up: a comparison that still stands was with this
\* VRAM and in this width.
Ready(c, vram) ==
  /\ RowShape(c)
  /\ c.checked => c.width = in.width
  /\ c.checked /\ c.counted => c.snapshot = vram

LEMMA ComparedKeeps ==
  ASSUME NEW c, NEW vram, Ready(c, vram)
  PROVE  LET d == Compared(c, vram) IN
         /\ Keeps(c, d) /\ SamePolicy(c, d) /\ Ready(d, vram)
         /\ d.disabled \/ (d.snapshot = vram /\ d.width = in.width)
<1> DEFINE d == Compared(c, vram)
<1>1. CASE c.checked /\ c.counted
  <2>1. d = c
    BY <1>1 DEF Compared
  <2> QED
    BY <1>1, <2>1, KeepsSelf DEF Ready, SamePolicy
<1>2. CASE c.checked /\ ~c.counted
  <2>1. /\ DOMAIN d = RowFields /\ d.valid = {} /\ d.disabled = TRUE
        /\ d.checked = c.checked /\ d.counted = c.counted /\ d.width = c.width
        /\ SamePolicy(c, d)
        /\ d.registers = c.registers /\ d.layers = c.layers /\ d.pages = c.pages
        /\ d.extra = c.extra /\ d.blocks = c.blocks /\ d.palettes = c.palettes
        /\ d.pixels = c.pixels
    BY <1>2 DEF Compared, Forgotten, Ready, RowShape, RowFields, SamePolicy
  <2> QED
    BY <1>2, <2>1 DEF Ready, RowShape, Keeps
<1>3. CASE ~c.checked
  <2> DEFINE kept == IF c.memory /\ c.width = in.width
                       THEN {p \in c.valid : \A g \in c.pages[p] : c.snapshot[g] = vram[g]}
                       ELSE {}
  <2>1. /\ DOMAIN d = RowFields /\ d.valid = kept
        /\ d.checked = TRUE /\ d.counted = TRUE /\ d.width = in.width /\ d.snapshot = vram
        /\ SamePolicy(c, d) /\ d.policy = c.policy /\ d.key = c.key
        /\ d.objects = c.objects /\ d.objectPasses = c.objectPasses
        /\ d.registers = c.registers /\ d.layers = c.layers /\ d.pages = c.pages
        /\ d.extra = c.extra /\ d.blocks = c.blocks /\ d.palettes = c.palettes
        /\ d.pixels = c.pixels
    BY <1>3 DEF Compared, Ready, RowShape, RowFields, SamePolicy
  <2> HIDE DEF d
  <2>2. d.valid \subseteq c.valid
    BY <2>1
  <2>3. RowShape(d)
    BY <2>1, <2>2 DEF Ready, RowShape
  <2>4. \A p \in d.valid : c.width = in.width /\ \A g \in c.pages[p] : c.snapshot[g] = vram[g]
    BY <2>1
  <2> HIDE DEF kept
  <2>5. Keeps(c, d)
    BY <2>1, <2>2, <2>3, <2>4 DEF Keeps, SamePass, SamePolicy, PolicyOf
  <2> QED
    BY <2>1, <2>3, <2>5 DEF Ready, d
<1> QED
  BY <1>1, <1>2, <1>3

\* The parts of a look leave alone how the row stands in its frame.
SameFrame(c, d) ==
  SamePolicy(c, d) /\ SameView(c, d) /\ d.pending = c.pending /\ d.memory = c.memory

\* What all passes depend on is what there is now.
KeyNow(c) == c.key = CommonKey /\ PolicyOf(c) = in.policy

LEMMA KeyedKeeps ==
  ASSUME NEW c, RowShape(c), c.bound => c.shared = in.policy
  PROVE  Keeps(c, Keyed(c)) /\ SameFrame(c, Keyed(c)) /\ KeyNow(Keyed(c))
<1> DEFINE d == Keyed(c)
<1>1. CASE c.key = CommonKey /\ (c.bound \/ c.policy = in.policy)
  <2>1. d = c
    BY <1>1 DEF Keyed
  <2> QED
    BY <1>1, <2>1, KeepsSelf DEF SameFrame, SamePolicy, SameView, KeyNow, PolicyOf
<1>2. CASE ~(c.key = CommonKey /\ (c.bound \/ c.policy = in.policy))
  <2>1. /\ DOMAIN d = RowFields /\ d.valid = {} /\ SameFrame(c, d)
        /\ d.key = CommonKey /\ d.policy = IF c.bound THEN c.policy ELSE in.policy
        /\ d.registers = c.registers /\ d.layers = c.layers /\ d.pages = c.pages
        /\ d.extra = c.extra /\ d.blocks = c.blocks /\ d.palettes = c.palettes
        /\ d.pixels = c.pixels
    BY <1>2 DEF Keyed, Forgotten, RowShape, RowFields, SameFrame, SamePolicy, SameView
  <2> HIDE DEF d
  <2>2. Keeps(c, d)
    BY <2>1 DEF Keeps, RowShape
  <2>3. KeyNow(d)
    BY <2>1 DEF KeyNow, PolicyOf, SameFrame, SamePolicy
  <2> QED
    BY <2>1, <2>2, <2>3 DEF d
<1> QED
  BY <1>1, <1>2

\* A valid pass shows sprites if it is asked to.
ObjectsAs(c, p, objects) == p \in c.valid => ((p \in c.objectPasses) = objects)

LEMMA RegisteredKeeps ==
  ASSUME NEW c, RowShape(c), NEW p \in Passes, NEW layers, NEW objects \in BOOLEAN, NEW extra,
         NEW main
  PROVE  LET d == Registered(c, p, layers, objects, extra, main) IN
         /\ Keeps(c, d) /\ SameFrame(c, d) /\ (KeyNow(c) => KeyNow(d))
         /\ d.registers[p] = Registers(ReadSet(layers, objects), main)
         /\ ObjectsAs(d, p, objects)
<1> DEFINE d == Registered(c, p, layers, objects, extra, main)
           read == ReadSet(layers, objects)
           same == /\ c.registers[p] = Registers(read, main)
                   /\ c.layers[p] = read /\ c.extra[p] = extra
                   /\ (p \in c.objectPasses) = objects
<1>1. /\ DOMAIN d = RowFields /\ d.valid = (IF same THEN c.valid ELSE c.valid \ {p})
      /\ d.registers = [c.registers EXCEPT ![p] = Registers(read, main)]
      /\ SameFrame(c, d) /\ d.key = c.key /\ d.policy = c.policy /\ d.objects = c.objects
      /\ d.objectPasses = c.objectPasses /\ d.layers = c.layers /\ d.pages = c.pages
      /\ d.extra = c.extra /\ d.blocks = c.blocks /\ d.palettes = c.palettes
      /\ d.pixels = c.pixels
  BY DEF Registered, RowShape, RowFields, SameFrame, SamePolicy, SameView
<1> HIDE DEF d
<1>2. RowShape(d) /\ d.registers[p] = Registers(read, main)
  BY <1>1 DEF RowShape
<1>3. p \in d.valid => same
  BY <1>1
<1>4. \A q \in Passes \ {p} : d.registers[q] = c.registers[q]
  BY <1>1 DEF RowShape
<1>5. PolicyOf(d) = PolicyOf(c)
  BY <1>1 DEF PolicyOf, SameFrame, SamePolicy
<1>6. Keeps(c, d)
  <2> SUFFICES ASSUME NEW q \in d.valid PROVE q \in c.valid /\ SamePass(c, d, q)
    BY <1>2 DEF Keeps
  <2>1. q \in c.valid /\ d.registers[q] = c.registers[q]
    BY <1>1, <1>2, <1>3, <1>4 DEF RowShape
  <2> QED
    BY <1>1, <1>5, <2>1 DEF SamePass, SameFrame, SamePolicy, SameView
<1>7. KeyNow(c) => KeyNow(d)
  BY <1>1, <1>5 DEF KeyNow
<1> QED
  BY <1>1, <1>2, <1>3, <1>6, <1>7 DEF d, ObjectsAs

LEMMA CertifiedKeeps ==
  ASSUME NEW c, RowShape(c), NEW p \in Passes, NEW objects \in BOOLEAN,
         ObjectsAs(c, p, objects)
  PROVE  LET d == Certified(c, p, objects) IN
         /\ Keeps(c, d) /\ SameFrame(c, d) /\ (KeyNow(c) => KeyNow(d))
         /\ d.registers = c.registers
         /\ objects => p \in d.objectPasses /\ d.objects = in.oam
<1> DEFINE d == Certified(c, p, objects)
           same == c.objectsValid /\ c.objects = in.oam
<1>1. /\ DOMAIN d = RowFields
      /\ SameFrame(c, d) /\ d.key = c.key /\ d.policy = c.policy /\ d.registers = c.registers
      /\ d.layers = c.layers /\ d.pages = c.pages
      /\ d.extra = c.extra /\ d.blocks = c.blocks /\ d.palettes = c.palettes
      /\ d.pixels = c.pixels
  BY DEF Certified, RowShape, RowFields, SameFrame, SamePolicy, SameView
<1>2. CASE objects
  <2>1. /\ d.objects = in.oam /\ d.objectPasses = c.objectPasses \cup {p}
        /\ d.valid = IF same THEN c.valid ELSE c.valid \ c.objectPasses
    BY <1>2 DEF Certified, RowShape, RowFields
  <2> HIDE DEF d
  <2>2. \A q \in d.valid :
          /\ q \in c.valid /\ (q \in d.objectPasses <=> q \in c.objectPasses)
          /\ (q \in c.objectPasses => d.objects = c.objects)
    BY <1>2, <2>1 DEF ObjectsAs
  <2>3. Keeps(c, d)
    BY <1>1, <2>2 DEF Keeps, RowShape, SamePass, SameFrame, SamePolicy, SameView, PolicyOf
  <2>4. KeyNow(c) => KeyNow(d)
    BY <1>1 DEF KeyNow, PolicyOf, SameFrame, SamePolicy
  <2> QED
    BY <1>1, <2>1, <2>3, <2>4 DEF d
<1>3. CASE ~objects
  <2>1. d.objects = c.objects /\ d.objectPasses = c.objectPasses \ {p} /\ d.valid = c.valid
    BY <1>3 DEF Certified, RowShape, RowFields
  <2> HIDE DEF d
  <2>2. \A q \in d.valid :
          /\ q \in c.valid /\ (q \in d.objectPasses <=> q \in c.objectPasses)
    BY <1>3, <2>1 DEF ObjectsAs
  <2>3. Keeps(c, d)
    BY <1>1, <2>1, <2>2 DEF Keeps, RowShape, SamePass, SameFrame, SamePolicy, SameView, PolicyOf
  <2>4. KeyNow(c) => KeyNow(d)
    BY <1>1 DEF KeyNow, PolicyOf, SameFrame, SamePolicy
  <2> QED
    BY <1>1, <1>3, <2>3, <2>4 DEF d
<1> QED
  BY <1>2, <1>3

\* The palette as it was kept, on the blocks that the pass reads.
ColoursNow(c, p) == \A k \in c.blocks[p] : c.palettes[p][k] = in.cgram[k]

LEMMA ColouredKeeps ==
  ASSUME NEW c, RowShape(c), NEW p \in Passes
  PROVE  LET d == Coloured(c, p) IN
         /\ Keeps(c, d) /\ SameFrame(c, d) /\ (KeyNow(c) => KeyNow(d))
         /\ d.registers = c.registers /\ d.objects = c.objects
         /\ d.objectPasses = c.objectPasses /\ (p \in d.valid => ColoursNow(d, p))
<1> DEFINE d == Coloured(c, p)
<1>1. /\ DOMAIN d = RowFields
      /\ d.valid = IF p \in c.valid /\ \E k \in c.blocks[p] : c.palettes[p][k] # in.cgram[k]
                     THEN c.valid \ {p} ELSE c.valid
      /\ SameFrame(c, d) /\ d.key = c.key /\ d.policy = c.policy /\ d.registers = c.registers
      /\ d.objects = c.objects /\ d.objectPasses = c.objectPasses
      /\ d.layers = c.layers /\ d.pages = c.pages
      /\ d.extra = c.extra /\ d.blocks = c.blocks /\ d.palettes = c.palettes
      /\ d.pixels = c.pixels
  BY DEF Coloured, RowShape, RowFields, SameFrame, SamePolicy, SameView
<1> HIDE DEF d
<1>2. Keeps(c, d)
  BY <1>1 DEF Keeps, RowShape, SamePass, SameFrame, SamePolicy, SameView, PolicyOf
<1>3. KeyNow(c) => KeyNow(d)
  BY <1>1 DEF KeyNow, PolicyOf, SameFrame, SamePolicy
<1>4. p \in d.valid => ColoursNow(d, p)
  BY <1>1 DEF ColoursNow
<1> QED
  BY <1>1, <1>2, <1>3, <1>4 DEF d

\* What a pass that is drawn records of its reads.
Records(c, p, layers, objects, extra, vram) ==
  LET read == ReadSet(layers, objects) IN
  /\ c.pages[p] = IF read = All THEN Pages ELSE {PageOf(g) : g \in read}
  /\ c.blocks[p] = IF read = All THEN Blocks
                   ELSE {Backdrop} \cup extra \cup {Indices(g, vram) : g \in read}
  /\ c.palettes[p] = in.cgram

LEMMA RecordedKeeps ==
  ASSUME NEW c, RowShape(c), NEW p \in Passes, p \notin c.valid,
         NEW layers, NEW objects, NEW extra, NEW vram
  PROVE  LET d == Recorded(c, p, layers, objects, extra, vram) IN
         /\ Keeps(c, d) /\ SamePolicy(c, d) /\ SameView(c, d) /\ (KeyNow(c) => KeyNow(d))
         /\ d.registers = c.registers /\ d.objects = c.objects
         /\ d.objectPasses = c.objectPasses /\ d.valid = c.valid /\ d.pending = p
         /\ Records(d, p, layers, objects, extra, vram) /\ ColoursNow(d, p)
<1> DEFINE d == Recorded(c, p, layers, objects, extra, vram)
           read == ReadSet(layers, objects)
           pages == IF read = All THEN Pages ELSE {PageOf(g) : g \in read}
           blocks == IF read = All THEN Blocks
                     ELSE {Backdrop} \cup extra \cup {Indices(g, vram) : g \in read}
<1>1. /\ DOMAIN d = RowFields /\ d.valid = c.valid /\ d.pending = p
      /\ SamePolicy(c, d) /\ SameView(c, d) /\ d.key = c.key /\ d.policy = c.policy
      /\ d.registers = c.registers /\ d.objects = c.objects
      /\ d.objectPasses = c.objectPasses /\ d.pixels = c.pixels
      /\ d.layers = [c.layers EXCEPT ![p] = read] /\ d.extra = [c.extra EXCEPT ![p] = extra]
      /\ d.pages = [c.pages EXCEPT ![p] = pages] /\ d.blocks = [c.blocks EXCEPT ![p] = blocks]
      /\ d.palettes = [c.palettes EXCEPT ![p] = in.cgram]
  BY DEF Recorded, RowShape, RowFields, SamePolicy, SameView
<1> HIDE DEF d, pages, blocks
<1>2. /\ RowShape(d) /\ d.pages[p] = pages /\ d.blocks[p] = blocks
      /\ d.palettes[p] = in.cgram
  BY <1>1 DEF RowShape
<1>3. PolicyOf(d) = PolicyOf(c)
  BY <1>1 DEF PolicyOf, SamePolicy
<1>4. Keeps(c, d)
  <2> SUFFICES ASSUME NEW q \in d.valid PROVE q \in c.valid /\ SamePass(c, d, q)
    BY <1>2 DEF Keeps
  <2>1. q \in Passes /\ q # p
    BY <1>1 DEF RowShape
  <2>2. /\ d.layers[q] = c.layers[q] /\ d.extra[q] = c.extra[q] /\ d.pages[q] = c.pages[q]
        /\ d.blocks[q] = c.blocks[q] /\ d.palettes[q] = c.palettes[q]
    BY <1>1, <2>1 DEF RowShape
  <2> QED
    BY <1>1, <1>3, <2>2 DEF SamePass, SamePolicy, SameView
<1>5. Records(d, p, layers, objects, extra, vram) /\ ColoursNow(d, p)
  BY <1>2 DEF Records, ColoursNow, pages, blocks
<1>6. KeyNow(c) => KeyNow(d)
  BY <1>1, <1>3 DEF KeyNow
<1> QED
  BY <1>1, <1>4, <1>5, <1>6 DEF d

\* A pass that was looked up is as the inputs now are, in all that it was compared for.
Fresh(c, p, layers, objects, vram, main) ==
  /\ KeyNow(c) /\ c.width = in.width /\ c.snapshot = vram
  /\ c.registers[p] = Registers(ReadSet(layers, objects), main)
  /\ objects => p \in c.objectPasses /\ c.objects = in.oam
  /\ ColoursNow(c, p)

LEMMA LookedKeeps ==
  ASSUME NEW c, NEW vram, Ready(c, vram), c.bound => c.shared = in.policy,
         NEW p \in Passes, NEW layers, NEW objects \in BOOLEAN, NEW extra, NEW main
  PROVE  LET r == Looked(c, p, layers, objects, extra, vram, main) IN
         /\ Keeps(c, r) /\ SamePolicy(c, r) /\ Ready(r, vram)
         /\ r.disabled => r.pending = None
         /\ ~r.disabled => Fresh(r, p, layers, objects, vram, main)
         /\ ~r.disabled =>
              IF p \in r.valid THEN r.pending = None
              ELSE r.pending = p /\ Records(r, p, layers, objects, extra, vram)
<1> DEFINE d == [c EXCEPT !.pending = None]
           e == IF d.disabled THEN d ELSE Compared(d, vram)
           x == Keyed(e)
           y == Registered(x, p, layers, objects, extra, main)
           z == Certified(y, p, objects)
           f == Coloured(z, p)
           g == Recorded(f, p, layers, objects, extra, vram)
           r == Looked(c, p, layers, objects, extra, vram, main)
<1>1. r = IF e.disabled THEN e ELSE IF p \in f.valid THEN f ELSE g
  BY DEF Looked
<1>2. /\ Keeps(c, d) /\ SamePolicy(c, d) /\ Ready(d, vram) /\ d.pending = None
  <2>1. /\ DOMAIN d = RowFields /\ d.valid = c.valid /\ d.pending = None
        /\ SamePolicy(c, d) /\ SameView(c, d) /\ d.key = c.key /\ d.policy = c.policy
        /\ d.objects = c.objects /\ d.objectPasses = c.objectPasses /\ d.registers = c.registers
        /\ d.layers = c.layers /\ d.pages = c.pages /\ d.extra = c.extra
        /\ d.blocks = c.blocks /\ d.palettes = c.palettes /\ d.pixels = c.pixels
    BY DEF Ready, RowShape, RowFields, SamePolicy, SameView
  <2> HIDE DEF d
  <2>2. RowShape(d)
    BY <2>1 DEF Ready, RowShape
  <2>3. Keeps(c, d)
    BY <2>1, <2>2 DEF Keeps, SamePass, SamePolicy, SameView, PolicyOf
  <2> QED
    BY <2>1, <2>2, <2>3 DEF Ready, SameView
<1> HIDE DEF d
<1>3. /\ Keeps(c, e) /\ SamePolicy(c, e) /\ Ready(e, vram) /\ e.pending = None
      /\ e.disabled \/ (e.snapshot = vram /\ e.width = in.width)
  <2>1. CASE d.disabled
    BY <1>2, <2>1
  <2>2. CASE ~d.disabled
    <3>1. e = Compared(d, vram)
      BY <2>2
    <3>2. /\ Keeps(d, e) /\ SamePolicy(d, e) /\ Ready(e, vram)
          /\ e.disabled \/ (e.snapshot = vram /\ e.width = in.width)
      BY <1>2, <3>1, ComparedKeeps
    <3>3. e.pending = None
      BY <1>2, <3>1 DEF Compared, Forgotten, Ready, RowShape, RowFields
    <3>4. Keeps(c, e)
      BY <1>2, <3>2, KeepsAll
    <3> QED
      BY <1>2, <3>2, <3>3, <3>4 DEF SamePolicy
  <2> QED
    BY <2>1, <2>2
<1> HIDE DEF e
<1>4. CASE e.disabled
  <2>1. r = e
    BY <1>1, <1>4
  <2> QED
    BY <1>3, <1>4, <2>1
<1>5. CASE ~e.disabled
  <2>1. /\ Keeps(e, x) /\ SameFrame(e, x) /\ KeyNow(x)
    BY <1>3, KeyedKeeps DEF Ready, SamePolicy
  <2> HIDE DEF x
  <2>2. /\ Keeps(x, y) /\ SameFrame(x, y) /\ KeyNow(y)
        /\ y.registers[p] = Registers(ReadSet(layers, objects), main)
        /\ ObjectsAs(y, p, objects)
    <3>1. RowShape(x)
      BY <2>1 DEF Keeps
    <3> QED
      BY <2>1, <3>1, RegisteredKeeps
  <2> HIDE DEF y
  <2>3. /\ Keeps(y, z) /\ SameFrame(y, z) /\ KeyNow(z) /\ z.registers = y.registers
        /\ objects => p \in z.objectPasses /\ z.objects = in.oam
    BY <2>2, CertifiedKeeps DEF Keeps
  <2> HIDE DEF z
  <2>4. /\ Keeps(z, f) /\ SameFrame(z, f) /\ KeyNow(f) /\ f.registers = z.registers
        /\ f.objects = z.objects /\ f.objectPasses = z.objectPasses
        /\ p \in f.valid => ColoursNow(f, p)
    BY <2>3, ColouredKeeps DEF Keeps
  <2> HIDE DEF f
  <2>5. Keeps(c, f)
    BY <1>3, <2>1, <2>2, <2>3, <2>4, KeepsAll
  <2>6. /\ SamePolicy(c, f) /\ SameView(e, f) /\ f.pending = None
    BY <1>3, <2>1, <2>2, <2>3, <2>4 DEF SameFrame, SamePolicy, SameView
  <2>7. /\ f.registers[p] = Registers(ReadSet(layers, objects), main)
        /\ objects => p \in f.objectPasses /\ f.objects = in.oam
        /\ RowShape(f) /\ f.width = in.width /\ f.snapshot = vram /\ ~f.disabled
    BY <1>3, <1>5, <2>2, <2>3, <2>4, <2>6 DEF Keeps, SameView
  <2>8. CASE p \in f.valid
    <3>1. r = f
      BY <1>1, <1>5, <2>8
    <3> QED
      BY <2>4, <2>5, <2>6, <2>7, <2>8, <3>1 DEF Ready, Fresh
  <2>9. CASE p \notin f.valid
    <3>1. /\ Keeps(f, g) /\ SamePolicy(f, g) /\ SameView(f, g) /\ KeyNow(g)
          /\ g.registers = f.registers /\ g.objects = f.objects
          /\ g.objectPasses = f.objectPasses /\ g.valid = f.valid /\ g.pending = p
          /\ Records(g, p, layers, objects, extra, vram) /\ ColoursNow(g, p)
      BY <2>4, <2>7, <2>9, RecordedKeeps
    <3> HIDE DEF g
    <3>2. r = g
      BY <1>1, <1>5, <2>9
    <3>3. Keeps(c, g) /\ SamePolicy(c, g)
      BY <2>5, <2>6, <3>1, KeepsAll DEF SamePolicy
    <3>4. /\ RowShape(g) /\ g.width = in.width /\ g.snapshot = vram /\ ~g.disabled
          /\ g.registers[p] = Registers(ReadSet(layers, objects), main)
          /\ objects => p \in g.objectPasses /\ g.objects = in.oam
      BY <2>7, <3>1 DEF Keeps, SameView
    <3>5. Ready(g, vram) /\ Fresh(g, p, layers, objects, vram, main)
      BY <3>1, <3>4 DEF Ready, Fresh
    <3>6. p \notin g.valid
      BY <2>9, <3>1
    <3> QED
      BY <3>1, <3>2, <3>3, <3>4, <3>5, <3>6
  <2> QED
    BY <2>8, <2>9
<1> QED
  BY <1>4, <1>5

-----------------------------------------------------------------------------
(* The row's pixels, put together from its certificates.                   *)

PageKept(c, p, g) == IF g = 1 THEN c.registers[p][2] ELSE 2
IndexKept(c, p, g) == c.snapshot[PageKept(c, p, g)]
ShownBy(c, p) ==
  c.registers[p][3] \cup (IF user = "menu" /\ c.registers[p][1] THEN {Obj} ELSE {})
SpritesKept(c, i) ==
  IF user = "scene" THEN i.sprites ELSE <<c.objects, c.snapshot[ObjPage]>>

BackgroundColoursKept(c, p) ==
  [g \in BGs \cap ShownBy(c, p) |-> <<IndexKept(c, p, g), c.palettes[p][IndexKept(c, p, g)]>>]
SpriteColoursKept(c, p, i) ==
  IF Obj \in ShownBy(c, p)
    THEN <<SpritesKept(c, i), c.palettes[p][SpritesKept(c, i)[1]]>> ELSE <<>>
ColoursKept(c, p, draw, i) ==
  [width |-> c.width, policy |-> PolicyOf(c), common |-> c.key[1], light |-> c.key[2],
   draw |-> draw, backdrop |-> c.palettes[p][Backdrop],
   backgrounds |-> BackgroundColoursKept(c, p), sprites |-> SpriteColoursKept(c, p, i)]

\* What is known of the policy that the rows were drawn for
ToldAs(replayed) ==
  [valid |-> seen.valid, scripts |-> seen.scripts, actors |-> seen.actors, recovered |-> replayed]
Told == ToldAs(recovered)

\* What the effect of a battle adds: none where the row was drawn for no policy,
\* and otherwise that of the policy that was bound last.
Effective(c, s) == user \in Battle /\ (c.bound \/ s.recovered)
TailKept(c, p, i, s) ==
  IF Effective(c, s) /\ s.scripts
    THEN IF user = "hud" THEN s.actors
         ELSE IF Obj \in ShownBy(c, p) THEN i.mask ELSE None
    ELSE None

BattleKept(c, p, draw, i) ==
  [row |-> ColoursKept(c, p, draw, i),
   art |-> IF 1 \in ShownBy(c, p) THEN c.palettes[p][Art] ELSE None]
PixelsKept(c, p, draw, i, s) ==
  CASE user = "menu" -> <<c.registers[p][3], ColoursKept(c, p, draw, i)>>
    [] user = "highlight" -> ColoursKept(c, p, draw, i)
    [] OTHER -> <<BattleKept(c, p, draw, i), TailKept(c, p, i, s)>>
BackgroundsKept(c, p) ==
  <<[g \in BGs \cap ShownBy(c, p) |-> IndexKept(c, p, g)], PolicyOf(c), c.key[1], c.width>>

\* The certificates hold the pages and the palette blocks that the pixels are from.
Covered(c, p, i) ==
  /\ Backdrop \in c.blocks[p]
  /\ \A g \in BGs \cap ShownBy(c, p) :
       PageKept(c, p, g) \in c.pages[p] /\ IndexKept(c, p, g) \in c.blocks[p]
  /\ Obj \in ShownBy(c, p) =>
       /\ SpritesKept(c, i)[1] \in c.blocks[p]
       /\ user # "scene" => p \in c.objectPasses /\ ObjPage \in c.pages[p]
  /\ user \in Battle /\ 1 \in ShownBy(c, p) => Art \in c.blocks[p]
\* Of the effect of a policy that is not known any more nothing is said.
Described(c, p, draw, i, s) ==
  /\ (Effective(c, s) => s.valid) => c.pixels[p] = PixelsKept(c, p, draw, i, s)
  /\ user \in Battle => c.pixels[p][1] = BattleKept(c, p, draw, i)
  /\ user = "scene" => i.backgrounds = BackgroundsKept(c, p)

-----------------------------------------------------------------------------
(* The inductive invariant of the rows                                     *)

InputFields ==
  {"width", "policy", "common", "light", "draw", "page", "vram", "cgram", "oam", "screen",
   "math", "captured", "slot", "scripts", "actors", "mask"}
InputOK ==
  /\ DOMAIN in = InputFields
  /\ in.page \in Pages /\ in.vram \in [Pages -> Blocks] /\ in.oam \in Blocks
  /\ in.screen \subseteq All

\* A scene's rows are always drawn by the same function.
VaryingOK == user = "scene" => "draw" \notin varying

\* The row's policy is bound with the pixels' alone, and both in a battle.
JobOK ==
  /\ DOMAIN job = {"row", "pixel"} /\ job.row \in BOOLEAN /\ job.pixel \in BOOLEAN
  /\ job.row => job.pixel
  /\ job.pixel => user \in Battle

\* What was compared in this frame or job still is so.
PolicyOK ==
  /\ PolicyKnown(rows) /\ (user \notin Battle => rows.bound = FALSE)
  /\ rows.policyChecked => job.row /\ rows.bound /\ rows.shared = in.policy
FrameOK ==
  /\ rows.checked => rows.width = in.width
  /\ rows.checked /\ rows.counted =>
       rows.snapshot = IF user = "highlight" THEN lent.pixels ELSE in.vram

\* The highlight's copy is the VRAM it was made from, cleaned.
LentOK ==
  /\ DOMAIN lent = {"valid", "checked", "counted", "source", "slot", "pixels"}
  /\ lent.counted => lent.source = in.vram
  /\ lent.valid =>
       lent.pixels = IF lent.slot THEN [lent.source EXCEPT ![2] = 1] ELSE lent.source

\* The policy that is bound is the one the rows are drawn for.
SeenOK ==
  /\ DOMAIN seen = {"valid", "scripts", "actors"}
  /\ job.pixel => seen.valid /\ seen.scripts = in.scripts /\ (in.scripts => seen.actors = in.actors)

\* Under a known policy with an effect, a row that is kept was drawn for one.
EffectOK ==
  /\ recovered \in BOOLEAN /\ (recovered => user \in Battle)
  /\ user \in Battle /\ seen.valid /\ seen.scripts /\ rows.valid # {} =>
       rows.bound \/ recovered

RowInputOK == DOMAIN input = {"sprites", "mask", "backgrounds"}

Drawer == IF user = "scene" THEN in.draw ELSE renderer
RowsHeld ==
  \A p \in rows.valid :
    p \in UserPasses /\ Covered(rows, p, input) /\ Described(rows, p, Drawer, input, Told)

RowsInductive ==
  /\ InputOK /\ VaryingOK /\ JobOK /\ RowShape(rows) /\ PolicyOK /\ FrameOK
  /\ LentOK /\ SeenOK /\ EffectOK /\ RowInputOK /\ RowsHeld

-----------------------------------------------------------------------------
(* What is kept of a pass stays what it was, while the pass stays valid.   *)

LEMMA PartsKept ==
  ASSUME NEW c, NEW d, NEW p, SamePass(c, d, p), NEW i, Covered(c, p, i)
  PROVE  /\ ShownBy(d, p) = ShownBy(c, p)
         /\ \A g \in BGs \cap ShownBy(c, p) :
              PageKept(d, p, g) = PageKept(c, p, g) /\ IndexKept(d, p, g) = IndexKept(c, p, g)
         /\ Obj \in ShownBy(c, p) => SpritesKept(d, i) = SpritesKept(c, i)
<1>1. ShownBy(d, p) = ShownBy(c, p)
  BY DEF ShownBy, SamePass
<1>2. \A g \in BGs \cap ShownBy(c, p) :
        PageKept(d, p, g) = PageKept(c, p, g) /\ IndexKept(d, p, g) = IndexKept(c, p, g)
  <2> SUFFICES ASSUME NEW g \in BGs \cap ShownBy(c, p)
               PROVE  /\ PageKept(d, p, g) = PageKept(c, p, g)
                      /\ IndexKept(d, p, g) = IndexKept(c, p, g)
    OBVIOUS
  <2>1. PageKept(d, p, g) = PageKept(c, p, g)
    BY DEF PageKept, SamePass
  <2>2. d.snapshot[PageKept(c, p, g)] = c.snapshot[PageKept(c, p, g)]
    BY DEF Covered, SamePass
  <2> QED
    BY <2>1, <2>2 DEF IndexKept
<1>3. Obj \in ShownBy(c, p) => SpritesKept(d, i) = SpritesKept(c, i)
  BY DEF SpritesKept, SamePass, Covered
<1> QED
  BY <1>1, <1>2, <1>3

LEMMA CoveredKept ==
  ASSUME NEW c, NEW d, NEW p, SamePass(c, d, p), NEW i, Covered(c, p, i)
  PROVE  Covered(d, p, i)
<1>1. /\ ShownBy(d, p) = ShownBy(c, p)
      /\ \A g \in BGs \cap ShownBy(c, p) :
           PageKept(d, p, g) = PageKept(c, p, g) /\ IndexKept(d, p, g) = IndexKept(c, p, g)
      /\ Obj \in ShownBy(c, p) => SpritesKept(d, i) = SpritesKept(c, i)
  BY PartsKept
<1>2. /\ d.blocks[p] = c.blocks[p] /\ d.pages[p] = c.pages[p]
      /\ (p \in d.objectPasses <=> p \in c.objectPasses)
  BY DEF SamePass
<1> QED
  BY <1>1, <1>2 DEF Covered

\* If a policy is known after a step, it is the one from before, as far as the
\* user's pixels depend on it.
PolicyStands(c, s, t) ==
  /\ t.recovered = s.recovered
  /\ Effective(c, s) /\ t.valid =>
       s.valid /\ t.scripts = s.scripts /\ (user = "hud" => t.actors = s.actors)

LEMMA DescribedKept ==
  ASSUME NEW c, NEW d, NEW p, SamePass(c, d, p), NEW i, Covered(c, p, i), NEW draw,
         NEW s, NEW t, Described(c, p, draw, i, s), PolicyStands(c, s, t)
  PROVE  Described(d, p, draw, i, t)
<1>1. /\ ShownBy(d, p) = ShownBy(c, p)
      /\ \A g \in BGs \cap ShownBy(c, p) :
           PageKept(d, p, g) = PageKept(c, p, g) /\ IndexKept(d, p, g) = IndexKept(c, p, g)
      /\ Obj \in ShownBy(c, p) => SpritesKept(d, i) = SpritesKept(c, i)
  BY PartsKept
<1>2. /\ d.width = c.width /\ d.key = c.key /\ d.bound = c.bound /\ PolicyOf(d) = PolicyOf(c)
      /\ d.registers[p] = c.registers[p] /\ d.palettes[p] = c.palettes[p]
      /\ d.pixels[p] = c.pixels[p]
  BY DEF SamePass
<1>3. BackgroundsKept(d, p) = BackgroundsKept(c, p)
  BY <1>1, <1>2 DEF BackgroundsKept
<1>4. ColoursKept(d, p, draw, i) = ColoursKept(c, p, draw, i)
  <2>1. BackgroundColoursKept(d, p) = BackgroundColoursKept(c, p)
    BY <1>1, <1>2 DEF BackgroundColoursKept
  <2>2. SpriteColoursKept(d, p, i) = SpriteColoursKept(c, p, i)
    BY <1>1, <1>2 DEF SpriteColoursKept
  <2> QED
    BY <1>2, <2>1, <2>2 DEF ColoursKept
<1>5. BattleKept(d, p, draw, i) = BattleKept(c, p, draw, i)
  BY <1>1, <1>2, <1>4 DEF BattleKept
<1>6. Effective(d, t) <=> Effective(c, s)
  BY <1>2 DEF Effective, PolicyStands
<1>7. ASSUME Effective(d, t) => t.valid
      PROVE  d.pixels[p] = PixelsKept(d, p, draw, i, t)
  <2>1. c.pixels[p] = PixelsKept(c, p, draw, i, s)
    BY <1>6, <1>7 DEF Described, PolicyStands
  <2>2. TailKept(d, p, i, t) = TailKept(c, p, i, s)
    <3>1. CASE ~Effective(c, s)
      BY <1>6, <3>1 DEF TailKept
    <3>2. CASE Effective(c, s)
      BY <1>1, <1>6, <1>7, <3>2 DEF TailKept, PolicyStands
    <3> QED
      BY <3>1, <3>2
  <2> QED
    BY <1>2, <1>4, <1>5, <2>1, <2>2 DEF PixelsKept
<1>8. user \in Battle => d.pixels[p][1] = BattleKept(d, p, draw, i)
  BY <1>2, <1>5 DEF Described
<1> QED
  BY <1>3, <1>7, <1>8 DEF Described

-----------------------------------------------------------------------------
(* What the users look up                                                  *)

StartOf ==
  CASE user = "menu" -> IF SameRenderer THEN rows ELSE Forgotten(rows)
    [] user = "highlight" ->
         LET d == IF ViewChanged THEN Begun(rows) ELSE rows
         IN  IF SameRenderer THEN d ELSE Forgotten(d)
    [] user = "hud" -> PolicyBound(IF SameRenderer THEN rows ELSE Forgotten(rows), job.row)
    [] user = "scene" ->
         LET d == IF again THEN Begun(rows) ELSE rows
         IN  PolicyBound(IF Objects /\ ~InputSame THEN Forgotten(d) ELSE d, job.row)
LayersOf(p) ==
  CASE user = "menu" -> PassReads(p) \cap BGs
    [] user = "highlight" -> in.screen \cap {2}
    [] OTHER -> in.screen \cap BGs
ObjectsOf(p) ==
  CASE user = "menu" -> Obj \in PassReads(p)
    [] user = "hud" -> Objects
    [] OTHER -> FALSE
ExtraOf ==
  CASE user = "hud" -> Extra
    [] user = "scene" -> Extra \cup (IF Objects THEN {in.oam} ELSE {})
    [] OTHER -> {}
ViewOf == IF user = "highlight" THEN View.pixels ELSE in.vram
MainOf(p) ==
  CASE user = "menu" -> Main(p)
    [] user = "highlight" -> in.screen \cap {2}
    [] OTHER -> in.screen
ShownNow(p) == IF user = "menu" THEN PassReads(p) ELSE MainOf(p)

LEMMA LookIs ==
  ASSUME user \in RowUsers, NEW p \in UserPasses
  PROVE  Look(p) = Looked(StartOf, p, LayersOf(p), ObjectsOf(p), ExtraOf, ViewOf, MainOf(p))
<1>1. CASE user = "menu"
  <2>1. Look(p) = MenuLook(p)
    BY <1>1 DEF Look
  <2>2. /\ LayersOf(p) = PassReads(p) \cap BGs /\ ExtraOf = {} /\ ViewOf = in.vram
        /\ MainOf(p) = Main(p) /\ StartOf = IF SameRenderer THEN rows ELSE Forgotten(rows)
    BY <1>1 DEF LayersOf, ExtraOf, ViewOf, MainOf, StartOf
  <2>3. ObjectsOf(p) = (Obj \in PassReads(p))
    BY <1>1 DEF ObjectsOf
  <2> QED
    BY <2>1, <2>2, <2>3 DEF MenuLook
<1>2. CASE user = "highlight"
  <2>1. Look(p) = HighlightLook /\ ObjectsOf(p) = FALSE /\ p = 1
    BY <1>2 DEF Look, ObjectsOf, UserPasses
  <2>2. /\ LayersOf(p) = in.screen \cap {2} /\ ExtraOf = {} /\ ViewOf = View.pixels
        /\ MainOf(p) = in.screen \cap {2}
        /\ StartOf = LET d == IF ViewChanged THEN Begun(rows) ELSE rows
                     IN  IF SameRenderer THEN d ELSE Forgotten(d)
    BY <1>2 DEF LayersOf, ExtraOf, ViewOf, MainOf, StartOf
  <2> QED
    BY <2>1, <2>2 DEF HighlightLook
<1>3. CASE user = "hud"
  <2>1. Look(p) = HudLook /\ ObjectsOf(p) = Objects /\ p = 1
    BY <1>3 DEF Look, ObjectsOf, UserPasses
  <2>2. /\ LayersOf(p) = in.screen \cap BGs /\ ExtraOf = Extra /\ ViewOf = in.vram
        /\ MainOf(p) = in.screen
        /\ StartOf = PolicyBound(IF SameRenderer THEN rows ELSE Forgotten(rows), job.row)
    BY <1>3 DEF LayersOf, ExtraOf, ViewOf, MainOf, StartOf
  <2> QED
    BY <2>1, <2>2 DEF HudLook
<1>4. CASE user = "scene"
  <2>1. Look(p) = SceneLook /\ ObjectsOf(p) = FALSE /\ p = 1
    BY <1>4 DEF Look, ObjectsOf, UserPasses
  <2>2. /\ LayersOf(p) = in.screen \cap BGs
        /\ ExtraOf = Extra \cup (IF Objects THEN {in.oam} ELSE {}) /\ ViewOf = in.vram
        /\ MainOf(p) = in.screen
        /\ StartOf = LET d == IF again THEN Begun(rows) ELSE rows
                     IN  PolicyBound(IF Objects /\ ~InputSame THEN Forgotten(d) ELSE d, job.row)
    BY <1>4 DEF LayersOf, ExtraOf, ViewOf, MainOf, StartOf
  <2> QED
    BY <2>1, <2>2 DEF SceneLook
<1> QED
  BY <1>1, <1>2, <1>3, <1>4 DEF RowUsers

LEMMA LayersAre ==
  /\ 1 \in BGs /\ 2 \in BGs /\ Obj \notin BGs /\ Obj # 1 /\ Obj # 2 /\ All = BGs \cup {Obj}
  /\ Obj \in All /\ \A g \in BGs : g = 1 \/ g = 2
BY DEF BGs, Obj, All

\* The registers that a pass is compared by tell what it shows, and where from.
LEMMA ShownFresh ==
  ASSUME user \in RowUsers, InputOK, NEW p \in UserPasses, NEW c,
         c.registers[p] = Registers(ReadSet(LayersOf(p), ObjectsOf(p)), MainOf(p))
  PROVE  /\ ShownBy(c, p) = ShownNow(p) /\ c.registers[p][3] = MainOf(p)
         /\ \A g \in BGs \cap ShownNow(p) :
              PageKept(c, p, g) = PageOf(g) /\ g \in ReadSet(LayersOf(p), ObjectsOf(p))
         /\ Obj \in ShownNow(p) /\ user # "scene" => ObjectsOf(p)
<1> DEFINE read == ReadSet(LayersOf(p), ObjectsOf(p))
<1>1. /\ c.registers[p][1] = in.math
      /\ c.registers[p][2] = (IF 1 \in read THEN in.page ELSE None)
      /\ c.registers[p][3] = MainOf(p) \cap (read \cup {Obj})
  BY DEF Registers
<1>2. in.screen \subseteq All
  BY DEF InputOK
<1>3. /\ ShownNow(p) \cap BGs \subseteq read /\ MainOf(p) \subseteq ShownNow(p)
      /\ ShownNow(p) \subseteq All
  <2>1. CASE user = "menu"
    <3>1. Main(p) \subseteq All /\ Sub \subseteq {Obj}
      BY <1>2 DEF Main, Sub
    <3> QED
      BY <2>1, <3>1, LayersAre DEF ShownNow, MainOf, LayersOf, ReadSet, PassReads
  <2>2. CASE user = "highlight"
    BY <2>2, LayersAre DEF ShownNow, MainOf, LayersOf, ReadSet
  <2>3. CASE user \notin {"menu", "highlight"}
    BY <1>2, <2>3, LayersAre DEF ShownNow, MainOf, LayersOf, ReadSet
  <2> QED
    BY <2>1, <2>2, <2>3
<1>4. c.registers[p][3] = MainOf(p)
  BY <1>1, <1>3, LayersAre
<1>5. ShownBy(c, p) = ShownNow(p)
  BY <1>1, <1>4 DEF ShownBy, ShownNow, MainOf, PassReads, Sub
<1>6. \A g \in BGs \cap ShownNow(p) : PageKept(c, p, g) = PageOf(g) /\ g \in read
  BY <1>1, <1>3 DEF PageKept, PageOf
<1>7. Obj \in ShownNow(p) /\ user # "scene" => ObjectsOf(p)
  BY LayersAre DEF ShownNow, ObjectsOf, MainOf, RowUsers, Objects
<1> QED
  BY <1>4, <1>5, <1>6, <1>7

\* A pass p that is fresh for its user.
FreshFor(c, p) == Fresh(c, p, LayersOf(p), ObjectsOf(p), ViewOf, MainOf(p))
\* A scene's row is compared by the sprites that the raster made.
SpritesNow(i) == user = "scene" /\ Objects => i.sprites = SpriteRow

\* The certificates of a fresh pass hold the sprites that a draw would show.
LEMMA SpritesFresh ==
  ASSUME user \in RowUsers, InputOK, NEW p \in UserPasses, NEW c, FreshFor(c, p),
         NEW i, SpritesNow(i), Obj \in ShownBy(c, p)
  PROVE  /\ SpritesKept(c, i) = SpriteRow /\ SpritesKept(c, i)[1] = in.oam
         /\ user # "scene" => ObjectsOf(p) /\ p \in c.objectPasses
<1>1. /\ ShownBy(c, p) = ShownNow(p)
      /\ Obj \in ShownNow(p) /\ user # "scene" => ObjectsOf(p)
  BY ShownFresh DEF FreshFor, Fresh
<1>2. SpriteRow[1] = in.oam
  BY DEF SpriteRow
<1>3. CASE user = "scene"
  <2>1. Objects
    BY <1>1, <1>3 DEF ShownNow, MainOf, Objects
  <2> QED
    BY <1>2, <1>3, <2>1 DEF SpritesKept, SpritesNow
<1>4. CASE user # "scene"
  <2>1. ObjectsOf(p)
    BY <1>1, <1>4
  <2>2. user # "highlight"
    BY <2>1 DEF ObjectsOf
  <2>3. c.objects = in.oam /\ c.snapshot = in.vram /\ p \in c.objectPasses
    BY <2>1, <2>2 DEF FreshFor, Fresh, ViewOf
  <2> QED
    BY <1>2, <1>4, <2>1, <2>3 DEF SpritesKept, SpriteRow
<1> QED
  BY <1>3, <1>4

LEMMA IndicesFresh ==
  ASSUME user \in RowUsers, InputOK, NEW p \in UserPasses, NEW c, FreshFor(c, p),
         NEW g \in BGs \cap ShownBy(c, p)
  PROVE  /\ PageKept(c, p, g) = PageOf(g) /\ IndexKept(c, p, g) = Indices(g, ViewOf)
         /\ g \in ReadSet(LayersOf(p), ObjectsOf(p))
<1>1. /\ ShownBy(c, p) = ShownNow(p)
      /\ \A x \in BGs \cap ShownNow(p) :
           PageKept(c, p, x) = PageOf(x) /\ x \in ReadSet(LayersOf(p), ObjectsOf(p))
  BY ShownFresh DEF FreshFor, Fresh
<1>2. c.snapshot = ViewOf
  BY DEF FreshFor, Fresh
<1> QED
  BY <1>1, <1>2 DEF IndexKept, Indices

LEMMA ColoursFresh ==
  ASSUME user \in RowUsers, InputOK, NEW p \in UserPasses, NEW c, FreshFor(c, p),
         NEW i, SpritesNow(i), Covered(c, p, i)
  PROVE  ColoursKept(c, p, in.draw, i) = Colours(ShownNow(p), ViewOf)
<1>1. ShownBy(c, p) = ShownNow(p)
  BY ShownFresh DEF FreshFor, Fresh
<1>2. /\ c.width = in.width /\ PolicyOf(c) = in.policy
      /\ c.key[1] = in.common /\ c.key[2] = in.light
      /\ \A k \in c.blocks[p] : c.palettes[p][k] = in.cgram[k]
  BY DEF FreshFor, Fresh, KeyNow, CommonKey, ColoursNow
<1>3. c.palettes[p][Backdrop] = in.cgram[Backdrop]
  BY <1>2 DEF Covered
<1>4. BackgroundColoursKept(c, p)
        = [g \in BGs \cap ShownNow(p) |-> <<Indices(g, ViewOf), in.cgram[Indices(g, ViewOf)]>>]
  <2>1. \A g \in BGs \cap ShownBy(c, p) :
          /\ IndexKept(c, p, g) = Indices(g, ViewOf)
          /\ c.palettes[p][IndexKept(c, p, g)] = in.cgram[IndexKept(c, p, g)]
    BY <1>2, IndicesFresh DEF Covered
  <2> QED
    BY <1>1, <2>1 DEF BackgroundColoursKept
<1>5. SpriteColoursKept(c, p, i)
        = IF Obj \in ShownNow(p) THEN <<SpriteRow, in.cgram[in.oam]>> ELSE <<>>
  <2>1. CASE Obj \in ShownBy(c, p)
    <3>1. SpritesKept(c, i) = SpriteRow /\ SpritesKept(c, i)[1] = in.oam
      BY <2>1, SpritesFresh
    <3>2. c.palettes[p][in.oam] = in.cgram[in.oam]
      BY <1>2, <2>1, <3>1 DEF Covered
    <3> QED
      BY <1>1, <2>1, <3>1, <3>2 DEF SpriteColoursKept
  <2>2. CASE Obj \notin ShownBy(c, p)
    BY <1>1, <2>2 DEF SpriteColoursKept
  <2> QED
    BY <2>1, <2>2
<1> QED
  BY <1>2, <1>3, <1>4, <1>5 DEF ColoursKept, Colours

\* What a pass records is all that its pixels are made from.
LEMMA CoveredFresh ==
  ASSUME user \in RowUsers, InputOK, NEW p \in UserPasses, NEW c, FreshFor(c, p),
         Records(c, p, LayersOf(p), ObjectsOf(p), ExtraOf, ViewOf), NEW i, SpritesNow(i)
  PROVE  Covered(c, p, i)
<1> DEFINE read == ReadSet(LayersOf(p), ObjectsOf(p))
<1>1. ShownBy(c, p) = ShownNow(p)
  BY ShownFresh DEF FreshFor, Fresh
<1>2. \A g \in BGs \cap ShownBy(c, p) :
        /\ PageKept(c, p, g) = PageOf(g) /\ IndexKept(c, p, g) = Indices(g, ViewOf)
        /\ g \in read
  BY IndicesFresh
<1>3. Obj \in ShownBy(c, p) =>
        /\ SpritesKept(c, i) = SpriteRow /\ SpritesKept(c, i)[1] = in.oam
        /\ user # "scene" => ObjectsOf(p) /\ p \in c.objectPasses
  BY SpritesFresh
<1>4. /\ \A g \in BGs : PageOf(g) \in Pages
      /\ ObjPage \in Pages /\ Backdrop \in Blocks /\ Art \in Blocks /\ in.oam \in Blocks
      /\ \A x \in Pages : in.vram[x] \in Blocks
  BY DEF InputOK, PageOf, Pages, ObjPage, Blocks, Backdrop, Art
<1>5. CASE read = All
  <2>1. c.pages[p] = Pages /\ c.blocks[p] = Blocks
    BY <1>5 DEF Records
  <2>2. ObjectsOf(p)
    <3>1. Obj \notin LayersOf(p)
      BY LayersAre DEF LayersOf
    <3> QED
      BY <1>5, <3>1, LayersAre DEF ReadSet
  <2>3. ViewOf = in.vram
    BY <2>2 DEF ObjectsOf, ViewOf
  <2>4. \A g \in BGs : Indices(g, ViewOf) \in Blocks
    BY <1>4, <2>3 DEF Indices
  <2> QED
    BY <1>2, <1>3, <1>4, <2>1, <2>4 DEF Covered
<1>6. CASE read # All
  <2>1. /\ c.pages[p] = {PageOf(g) : g \in read}
        /\ c.blocks[p] = {Backdrop} \cup ExtraOf \cup {Indices(g, ViewOf) : g \in read}
    BY <1>6 DEF Records
  <2>2. ~ObjectsOf(p)
    BY <1>6 DEF ReadSet
  <2>3. Obj \in ShownBy(c, p) => user = "scene" /\ in.oam \in ExtraOf
    <3>1. Obj \in ShownBy(c, p) => user = "scene"
      BY <1>3, <2>2
    <3>2. ASSUME Obj \in ShownNow(p), user = "scene" PROVE in.oam \in ExtraOf
      BY <3>2 DEF ShownNow, MainOf, ExtraOf, Objects
    <3> QED
      BY <1>1, <3>1, <3>2
  <2>4. user \in Battle /\ 1 \in ShownBy(c, p) => Art \in ExtraOf
    BY <1>1 DEF Battle, ShownNow, MainOf, ExtraOf, Extra
  <2>5. \A g \in BGs \cap ShownBy(c, p) :
          PageKept(c, p, g) \in c.pages[p] /\ IndexKept(c, p, g) \in c.blocks[p]
    BY <1>2, <2>1
  <2> QED
    BY <1>3, <2>1, <2>3, <2>4, <2>5 DEF Covered
<1> QED
  BY <1>5, <1>6

\* The highlight's copy, made anew or not, is the VRAM there is now, cleaned.
LEMMA ViewIs == ASSUME LentOK PROVE View.pixels = Cleaned(in.vram)
<1>1. View.pixels = IF ViewChanged THEN Cleaned(ViewSource) ELSE lent.pixels
  BY DEF View, LentOK
<1>2. ViewSource = in.vram
  BY DEF ViewSource, LentOK
<1>3. ASSUME ~ViewChanged PROVE lent.pixels = Cleaned(in.vram)
  BY <1>3 DEF ViewChanged, LentOK, Cleaned
<1> QED
  BY <1>1, <1>2, <1>3

\* The effect that the row is looked up under is the one there is now.
EffectNow(c, i, s) ==
  /\ user \in Battle => c.bound = job.row
  /\ user \in Battle /\ job.pixel =>
       /\ s.scripts = in.scripts /\ (in.scripts => s.actors = in.actors)
       /\ in.scripts => c.bound \/ s.recovered
  /\ user \in Battle /\ ~job.pixel => ~s.recovered
  /\ user = "scene" /\ Objects /\ in.scripts => i.mask = in.mask

LEMMA TailFresh ==
  ASSUME user \in Battle, InputOK, JobOK, CanLook,
         NEW p \in UserPasses, NEW c, FreshFor(c, p), NEW i, NEW s, EffectNow(c, i, s)
  PROVE  TailKept(c, p, i, s)
           = IF user = "hud" THEN IF in.scripts THEN in.actors ELSE None
             ELSE IF in.scripts /\ Objects THEN in.mask ELSE None
<1>1. user \in {"hud", "scene"} /\ user \in RowUsers
  BY DEF Battle, RowUsers
<1>2. ShownBy(c, p) = in.screen
  <2>1. ShownBy(c, p) = ShownNow(p)
    BY <1>1, ShownFresh DEF FreshFor, Fresh
  <2> QED
    BY <1>1, <2>1 DEF ShownNow, MainOf
<1>3. CASE ~job.pixel
  <2>1. ~c.bound /\ ~s.recovered /\ ~in.scripts
    BY <1>3 DEF EffectNow, CanLook, Eligible, JobOK
  <2> QED
    BY <2>1 DEF TailKept, Effective
<1>4. CASE job.pixel
  <2>1. /\ s.scripts = in.scripts /\ (in.scripts => s.actors = in.actors)
        /\ in.scripts => c.bound \/ s.recovered
    BY <1>4 DEF EffectNow
  <2> QED
    BY <1>1, <1>2, <2>1 DEF TailKept, Effective, EffectNow, Objects
<1> QED
  BY <1>3, <1>4

LEMMA BattleFresh ==
  ASSUME user \in Battle, InputOK, NEW p \in UserPasses, NEW c, FreshFor(c, p),
         NEW i, SpritesNow(i), Covered(c, p, i)
  PROVE  BattleKept(c, p, in.draw, i) = BattleColours
<1>1. user \in RowUsers
  BY DEF Battle, RowUsers
<1>2. ColoursKept(c, p, in.draw, i) = Colours(ShownNow(p), ViewOf)
  BY <1>1, ColoursFresh
<1>3. ShownBy(c, p) = ShownNow(p)
  BY <1>1, ShownFresh DEF FreshFor, Fresh
<1>4. ShownNow(p) = in.screen /\ ViewOf = in.vram
  BY DEF MainOf, ShownNow, ViewOf, Battle
<1>5. 1 \in ShownBy(c, p) => c.palettes[p][Art] = in.cgram[Art]
  BY DEF Covered, FreshFor, Fresh, ColoursNow
<1> QED
  BY <1>2, <1>3, <1>4, <1>5 DEF BattleKept, BattleColours

LEMMA PixelsFresh ==
  ASSUME user \in RowUsers, InputOK, JobOK, LentOK, CanLook,
         NEW p \in UserPasses, NEW c, FreshFor(c, p),
         NEW i, NEW s, SpritesNow(i), EffectNow(c, i, s), Covered(c, p, i)
  PROVE  PixelsKept(c, p, in.draw, i, s) = Drawn(p)
<1>1. ColoursKept(c, p, in.draw, i) = Colours(ShownNow(p), ViewOf)
  BY ColoursFresh
<1>2. ShownBy(c, p) = ShownNow(p) /\ c.registers[p][3] = MainOf(p)
  BY ShownFresh DEF FreshFor, Fresh
<1>3. CASE user = "menu"
  <2>1. PixelsKept(c, p, in.draw, i, s)
          = <<c.registers[p][3], ColoursKept(c, p, in.draw, i)>>
    BY <1>3 DEF PixelsKept
  <2>2. MainOf(p) = Main(p) /\ ShownNow(p) = PassReads(p) /\ ViewOf = in.vram
    BY <1>3 DEF MainOf, ShownNow, ViewOf
  <2>3. Drawn(p) = <<Main(p), Colours(PassReads(p), in.vram)>>
    BY <1>3 DEF Drawn
  <2> QED
    BY <1>1, <1>2, <2>1, <2>2, <2>3
<1>4. CASE user = "highlight"
  <2>1. PixelsKept(c, p, in.draw, i, s) = ColoursKept(c, p, in.draw, i)
    BY <1>4 DEF PixelsKept
  <2>2. ShownNow(p) = in.screen \cap {2} /\ ViewOf = Cleaned(in.vram)
    BY <1>4, ViewIs DEF MainOf, ShownNow, ViewOf
  <2>3. Drawn(p) = Colours(in.screen \cap {2}, Cleaned(in.vram))
    BY <1>4 DEF Drawn
  <2> QED
    BY <1>1, <2>1, <2>2, <2>3
<1>5. CASE user \in Battle
  <2> DEFINE tail == TailKept(c, p, i, s)
  <2>1. PixelsKept(c, p, in.draw, i, s) = <<BattleKept(c, p, in.draw, i), tail>>
    BY <1>5 DEF PixelsKept, Battle
  <2>2. BattleKept(c, p, in.draw, i) = BattleColours
    BY <1>5, BattleFresh
  <2>3. tail = IF user = "hud" THEN IF in.scripts THEN in.actors ELSE None
               ELSE IF in.scripts /\ Objects THEN in.mask ELSE None
    BY <1>5, TailFresh
  <2> HIDE DEF tail
  <2>4. Drawn(p) = <<BattleColours, tail>>
    BY <1>5, <2>3 DEF Drawn, Battle
  <2> QED
    BY <2>1, <2>2, <2>4
<1> QED
  BY <1>3, <1>4, <1>5 DEF RowUsers, Battle

LEMMA BackgroundsFresh ==
  ASSUME user = "scene", InputOK, NEW p \in UserPasses, NEW c, FreshFor(c, p)
  PROVE  BackgroundsKept(c, p) = SceneBackgrounds
<1>1. user \in RowUsers
  BY DEF RowUsers
<1>2. ShownBy(c, p) = ShownNow(p) /\ ShownNow(p) = in.screen /\ ViewOf = in.vram
  <2>1. ShownBy(c, p) = ShownNow(p)
    BY <1>1, ShownFresh DEF FreshFor, Fresh
  <2> QED
    BY <2>1 DEF ShownNow, MainOf, ViewOf
<1>3. \A g \in BGs \cap ShownBy(c, p) : IndexKept(c, p, g) = Indices(g, in.vram)
  BY <1>1, <1>2, IndicesFresh
<1>4. [g \in BGs \cap ShownBy(c, p) |-> IndexKept(c, p, g)]
        = [g \in BGs \cap in.screen |-> Indices(g, in.vram)]
  BY <1>2, <1>3
<1>5. c.width = in.width /\ PolicyOf(c) = in.policy /\ c.key[1] = in.common
  BY DEF FreshFor, Fresh, KeyNow, CommonKey
<1> QED
  BY <1>4, <1>5 DEF BackgroundsKept, SceneBackgrounds

\* Where a look starts from: what no longer applies is forgotten.
StartWell(c) ==
  /\ Keeps(rows, c) /\ Ready(c, ViewOf) /\ PolicyKnown(c)
  /\ c.bound => c.shared = in.policy
  /\ c.bound = job.row /\ (c.policyChecked => job.row)
  /\ c.valid # {} => Drawer = in.draw /\ (user = "scene" => InputNow = input)

\* The same before the policies are bound.
BaseWell(c) ==
  /\ Keeps(rows, c) /\ PolicyKnown(c)
  /\ c.bound = rows.bound /\ c.shared = rows.shared
  /\ c.policyChecked => rows.policyChecked
  /\ c.checked => c.width = in.width
  /\ c.checked /\ c.counted =>
       c.snapshot = IF user = "highlight" THEN lent.pixels ELSE in.vram

LEMMA RowsBase == ASSUME RowsInductive PROVE BaseWell(rows)
<1>1. Keeps(rows, rows)
  BY KeepsSelf DEF RowsInductive
<1> QED
  BY <1>1 DEF RowsInductive, PolicyOK, FrameOK, BaseWell

LEMMA BegunBase ==
  ASSUME NEW c, BaseWell(c)
  PROVE  BaseWell(Begun(c)) /\ Begun(c).checked = FALSE /\ Begun(c).valid = c.valid
<1> DEFINE d == Begun(c)
<1>1. /\ Keeps(c, d) /\ d.checked = FALSE /\ d.policyChecked = FALSE
      /\ d.bound = c.bound /\ d.policyValid = c.policyValid
      /\ d.shared = c.shared /\ d.valid = c.valid
  BY BegunKeeps DEF BaseWell, Keeps
<1> HIDE DEF d
<1>2. Keeps(rows, d)
  BY <1>1, KeepsAll DEF BaseWell
<1> QED
  BY <1>1, <1>2 DEF BaseWell, PolicyKnown, d

LEMMA ForgottenBase ==
  ASSUME NEW c, BaseWell(c)
  PROVE  BaseWell(Forgotten(c)) /\ Forgotten(c).checked = c.checked /\ Forgotten(c).valid = {}
<1> DEFINE d == Forgotten(c)
<1>1. Keeps(c, d) /\ SamePolicy(c, d) /\ SameView(c, d) /\ d.valid = {}
  BY ForgottenKeeps DEF BaseWell, Keeps
<1> HIDE DEF d
<1>2. Keeps(rows, d)
  BY <1>1, KeepsAll DEF BaseWell
<1> QED
  BY <1>1, <1>2 DEF BaseWell, PolicyKnown, SamePolicy, SameView, d

LEMMA BattleStart ==
  ASSUME RowsInductive, user \in Battle, NEW c, BaseWell(c)
  PROVE  LET d == PolicyBound(c, job.row) IN
         /\ Keeps(rows, d) /\ Ready(d, ViewOf) /\ PolicyKnown(d)
         /\ d.bound => d.shared = in.policy
         /\ d.bound = job.row /\ (d.policyChecked => job.row)
         /\ d.valid \subseteq c.valid
<1> DEFINE d == PolicyBound(c, job.row)
<1>1. /\ RowShape(c) /\ PolicyKnown(c) /\ job.row \in BOOLEAN
      /\ c.policyChecked => c.bound /\ c.shared = in.policy
  BY DEF BaseWell, Keeps, RowsInductive, JobOK, PolicyOK
<1>2. /\ Keeps(c, d) /\ PolicyKnown(d) /\ SameView(c, d)
      /\ d.bound = job.row /\ (job.row => d.shared = in.policy)
      /\ d.policyChecked => job.row
  BY <1>1, PolicyBoundKeeps
<1> HIDE DEF d
<1>3. Keeps(rows, d)
  BY <1>2, KeepsAll DEF BaseWell
<1>4. ViewOf = in.vram /\ user # "highlight"
  BY DEF ViewOf, Battle
<1>5. Ready(d, ViewOf)
  BY <1>2, <1>4 DEF Ready, SameView, BaseWell, Keeps
<1>6. d.valid \subseteq c.valid
  BY <1>2 DEF Keeps
<1> QED
  BY <1>2, <1>3, <1>5, <1>6 DEF d

LEMMA PlainStart ==
  ASSUME RowsInductive, user \notin Battle, NEW c, BaseWell(c),
         user = "highlight" /\ ViewChanged => c.checked = FALSE
  PROVE  /\ Keeps(rows, c) /\ Ready(c, ViewOf) /\ PolicyKnown(c)
         /\ c.bound => c.shared = in.policy
         /\ c.bound = job.row /\ (c.policyChecked => job.row)
<1>1. c.bound = FALSE /\ job.row = FALSE
  BY DEF RowsInductive, PolicyOK, JobOK, BaseWell
<1>2. user = "highlight" /\ ~ViewChanged => View.pixels = lent.pixels
  BY DEF View, RowsInductive, LentOK
<1>3. Ready(c, ViewOf)
  BY <1>2 DEF Ready, ViewOf, BaseWell, Keeps
<1> QED
  BY <1>1, <1>3 DEF BaseWell, RowsInductive, PolicyOK

LEMMA StartIs == ASSUME RowsInductive, user \in RowUsers PROVE StartWell(StartOf)
<1>1. BaseWell(rows)
  BY RowsBase
<1>2. CASE user = "menu"
  <2>1. BaseWell(StartOf) /\ (StartOf.valid # {} => renderer = in.draw)
    BY <1>1, <1>2, ForgottenBase DEF StartOf, SameRenderer
  <2> QED
    BY <1>2, <2>1, PlainStart DEF StartWell, Drawer, Battle
<1>3. CASE user = "highlight"
  <2> DEFINE d == IF ViewChanged THEN Begun(rows) ELSE rows
  <2>1. BaseWell(d) /\ (ViewChanged => d.checked = FALSE)
    BY <1>1, BegunBase
  <2> HIDE DEF d
  <2>2. StartOf = IF SameRenderer THEN d ELSE Forgotten(d)
    BY <1>3 DEF StartOf, d
  <2>3. /\ BaseWell(StartOf) /\ (ViewChanged => StartOf.checked = FALSE)
        /\ StartOf.valid # {} => renderer = in.draw
    BY <2>1, <2>2, ForgottenBase DEF SameRenderer
  <2> QED
    BY <1>3, <2>3, PlainStart DEF StartWell, Drawer, Battle
<1>4. CASE user = "hud"
  <2> DEFINE d == IF SameRenderer THEN rows ELSE Forgotten(rows)
  <2>1. BaseWell(d) /\ (d.valid # {} => renderer = in.draw)
    BY <1>1, ForgottenBase DEF SameRenderer
  <2> HIDE DEF d
  <2>2. StartOf = PolicyBound(d, job.row)
    BY <1>4 DEF StartOf, d
  <2> QED
    BY <1>4, <2>1, <2>2, BattleStart DEF StartWell, Drawer, Battle
<1>5. CASE user = "scene"
  <2> DEFINE x == IF again THEN Begun(rows) ELSE rows
             d == IF Objects /\ ~InputSame THEN Forgotten(x) ELSE x
  <2>1. BaseWell(x)
    BY <1>1, BegunBase
  <2> HIDE DEF x
  <2>2. BaseWell(d) /\ (d.valid # {} => InputNow = input)
    BY <2>1, ForgottenBase DEF InputNow
  <2>3. StartOf = PolicyBound(d, job.row)
    BY <1>5 DEF StartOf, d, x
  <2> HIDE DEF d
  <2> QED
    BY <1>5, <2>2, <2>3, BattleStart DEF StartWell, Drawer, Battle
<1> QED
  BY <1>2, <1>3, <1>4, <1>5 DEF RowUsers

\* The passes of a cache are described by their certificates.
AllHeld(c, draw, i, s) ==
  \A p \in c.valid : p \in UserPasses /\ Covered(c, p, i) /\ Described(c, p, draw, i, s)

LEMMA HeldAlong ==
  ASSUME NEW c, NEW d, Keeps(c, d), NEW draw, NEW i, NEW s, AllHeld(c, draw, i, s),
         NEW e, NEW j, NEW t,
         d.valid # {} => e = draw /\ (user = "scene" => j = i) /\ PolicyStands(c, s, t)
  PROVE  AllHeld(d, e, j, t)
<1> SUFFICES ASSUME NEW p \in d.valid
             PROVE  p \in UserPasses /\ Covered(d, p, j) /\ Described(d, p, e, j, t)
  BY DEF AllHeld
<1>1. /\ p \in UserPasses /\ Covered(c, p, i) /\ Described(c, p, draw, i, s)
      /\ SamePass(c, d, p) /\ e = draw /\ PolicyStands(c, s, t)
  BY DEF AllHeld, Keeps
<1>2. Covered(d, p, i) /\ Described(d, p, e, i, t)
  BY <1>1, CoveredKept, DescribedKept
<1>3. CASE user = "scene"
  BY <1>1, <1>2, <1>3
<1>4. CASE user # "scene"
  <2>1. SpritesKept(d, j) = SpritesKept(d, i)
    BY <1>4 DEF SpritesKept
  <2>2. Covered(d, p, j)
    BY <1>2, <2>1 DEF Covered
  <2>3. TailKept(d, p, j, t) = TailKept(d, p, i, t)
    BY <1>4 DEF TailKept, Effective, Battle
  <2>4. ColoursKept(d, p, e, j) = ColoursKept(d, p, e, i)
    BY <2>1 DEF ColoursKept, SpriteColoursKept
  <2>5. BattleKept(d, p, e, j) = BattleKept(d, p, e, i)
    BY <2>4 DEF BattleKept
  <2>6. PixelsKept(d, p, e, j, t) = PixelsKept(d, p, e, i, t)
    BY <2>3, <2>4, <2>5 DEF PixelsKept
  <2> QED
    BY <1>1, <1>2, <1>4, <2>2, <2>5, <2>6 DEF Described
<1> QED
  BY <1>3, <1>4

LEMMA PolicyStandsSelf == ASSUME NEW c, NEW s PROVE PolicyStands(c, s, s)
BY DEF PolicyStands

InputKept == IF user = "scene" THEN InputNow ELSE input

LEMMA InputIsNow ==
  ASSUME RowInputOK
  PROVE  /\ DOMAIN InputKept = {"sprites", "mask", "backgrounds"}
         /\ SpritesNow(InputKept) /\ InputKept.backgrounds = input.backgrounds
         /\ user = "scene" /\ Objects /\ in.scripts => InputKept.mask = in.mask
BY DEF RowInputOK, InputKept, InputNow, InputSame, SpritesNow

LEMMA LookWell ==
  ASSUME RowsInductive, user \in RowUsers, NEW p \in UserPasses
  PROVE  LET r == Look(p) IN
         /\ Keeps(rows, r) /\ Ready(r, ViewOf) /\ PolicyKnown(r)
         /\ r.bound = job.row /\ (r.bound => r.shared = in.policy)
         /\ r.policyChecked => job.row
         /\ r.disabled => r.pending = None
         /\ ~r.disabled => FreshFor(r, p)
         /\ ~r.disabled =>
              IF p \in r.valid THEN r.pending = None
              ELSE r.pending = p
                   /\ Records(r, p, LayersOf(p), ObjectsOf(p), ExtraOf, ViewOf)
         /\ AllHeld(r, in.draw, InputKept, Told)
<1> DEFINE r == Look(p)
<1>1. PICK c : c = StartOf /\ StartWell(c)
  BY StartIs
<1>2. r = Looked(c, p, LayersOf(p), ObjectsOf(p), ExtraOf, ViewOf, MainOf(p))
  BY <1>1, LookIs
<1>3. p \in Passes /\ ObjectsOf(p) \in BOOLEAN
  <2>1. p \in Passes
    BY DEF UserPasses, Passes
  <2>2. (Obj \in PassReads(p)) \in BOOLEAN /\ (Obj \in in.screen) \in BOOLEAN
    OBVIOUS
  <2>3. CASE user = "menu"
    BY <2>1, <2>2, <2>3 DEF ObjectsOf
  <2>4. CASE user = "hud"
    BY <2>1, <2>2, <2>4 DEF ObjectsOf, Objects
  <2>5. CASE user \notin {"menu", "hud"}
    BY <2>1, <2>5 DEF ObjectsOf
  <2> QED
    BY <2>3, <2>4, <2>5
<1> HIDE DEF r
<1>4. /\ Keeps(c, r) /\ SamePolicy(c, r) /\ Ready(r, ViewOf)
      /\ r.disabled => r.pending = None
      /\ ~r.disabled => FreshFor(r, p)
      /\ ~r.disabled =>
           IF p \in r.valid THEN r.pending = None
           ELSE r.pending = p
                /\ Records(r, p, LayersOf(p), ObjectsOf(p), ExtraOf, ViewOf)
  <2>1. Ready(c, ViewOf) /\ (c.bound => c.shared = in.policy)
    BY <1>1 DEF StartWell
  <2> QED
    BY <1>2, <1>3, <2>1, LookedKeeps DEF FreshFor
<1>5. Keeps(rows, r)
  BY <1>1, <1>4, KeepsAll DEF StartWell
<1>6. /\ PolicyKnown(r) /\ r.bound = job.row /\ (r.bound => r.shared = in.policy)
      /\ r.policyChecked => job.row
  <2>1. /\ PolicyKnown(c) /\ c.bound = job.row /\ (c.bound => c.shared = in.policy)
        /\ c.policyChecked => job.row
    BY <1>1 DEF StartWell
  <2>2. /\ r.bound = c.bound /\ r.policyValid = c.policyValid
        /\ r.policyChecked = c.policyChecked /\ r.shared = c.shared
    BY <1>4 DEF SamePolicy
  <2>3. PolicyKnown(r)
    BY <2>1, <2>2 DEF PolicyKnown
  <2> QED
    BY <2>1, <2>2, <2>3
<1>7. AllHeld(r, in.draw, InputKept, Told)
  <2>1. AllHeld(rows, Drawer, input, Told)
    BY DEF RowsInductive, RowsHeld, AllHeld
  <2>2. r.valid # {} => c.valid # {}
    BY <1>4 DEF Keeps
  <2>3. r.valid # {} => in.draw = Drawer /\ (user = "scene" => InputKept = input)
    BY <1>1, <2>2 DEF StartWell, InputKept
  <2> QED
    BY <1>5, <2>1, <2>3, HeldAlong, PolicyStandsSelf
<1> QED
  BY <1>4, <1>5, <1>6, <1>7 DEF r

LEMMA RowsAreExact == ASSUME RowsInductive PROVE RowsExact
<1> SUFFICES ASSUME user \in RowUsers, CanLook, NEW p \in UserPasses, Serves(Look(p), p)
             PROVE  /\ Look(p).pixels[p] = Drawn(p) \/ OldEffect(p)
                    /\ user = "scene" => InputNow.backgrounds = SceneBackgrounds
  BY DEF RowsExact
<1> DEFINE r == Look(p)
<1>1. /\ r.bound = job.row /\ FreshFor(r, p) /\ p \in r.valid /\ Keeps(rows, r)
      /\ AllHeld(r, in.draw, InputKept, Told)
  BY LookWell DEF Serves
<1> HIDE DEF r
<1>2. Covered(r, p, InputKept) /\ Described(r, p, in.draw, InputKept, Told)
  BY <1>1 DEF AllHeld
<1>3. /\ SpritesNow(InputKept)
      /\ user = "scene" /\ Objects /\ in.scripts => InputKept.mask = in.mask
  BY InputIsNow DEF RowsInductive
<1>4. ASSUME user = "scene" PROVE InputNow.backgrounds = SceneBackgrounds
  <2>1. InputKept = InputNow
    BY <1>4 DEF InputKept
  <2>2. BackgroundsKept(r, p) = SceneBackgrounds
    BY <1>1, <1>4, BackgroundsFresh DEF RowsInductive
  <2> QED
    BY <1>2, <1>4, <2>1, <2>2 DEF Described
<1>5. CASE recovered /\ ~job.pixel
  <2>1. user \in Battle
    BY <1>5 DEF RowsInductive, EffectOK
  <2>2. r.pixels[p][1] = BattleColours
    BY <1>1, <1>2, <1>3, <2>1, BattleFresh DEF RowsInductive, Described
  <2>3. Drawn(p)[1] = BattleColours
    BY <2>1 DEF Drawn, Battle
  <2> QED
    BY <1>5, <2>2, <2>3, <1>4 DEF OldEffect, r
<1>6. CASE ~(recovered /\ ~job.pixel)
  <2>1. EffectNow(r, InputKept, Told)
    <3>1. rows.valid # {} /\ r.bound = rows.bound
      BY <1>1 DEF Keeps, SamePass
    <3> QED
      BY <1>1, <1>3, <1>6, <3>1 DEF RowsInductive, EffectNow, EffectOK, SeenOK, Told, ToldAs
  <2>2. PixelsKept(r, p, in.draw, InputKept, Told) = Drawn(p)
    BY <1>1, <1>2, <1>3, <2>1, PixelsFresh DEF RowsInductive
  <2>3. Effective(r, Told) => Told.valid
    BY <1>1, <1>6 DEF RowsInductive, JobOK, SeenOK, Effective, Told, ToldAs
  <2>4. r.pixels[p] = Drawn(p)
    BY <1>2, <2>2, <2>3 DEF Described
  <2> QED
    BY <2>4, <1>4 DEF r
<1> QED
  BY <1>5, <1>6

-----------------------------------------------------------------------------
(* The steps                                                               *)

\* The descriptions read the user alone, who stays.
LEMMA HeldNext ==
  ASSUME user' = user, AllHeld(rows', Drawer', input', Told')
  PROVE  RowsHeld'
<1> SUFFICES ASSUME NEW p \in rows'.valid
             PROVE  /\ p \in UserPasses' /\ Covered(rows, p, input)'
                    /\ Described(rows, p, Drawer, input, Told)'
  BY DEF RowsHeld
<1> DEFINE dr == Drawer'
           t == Told'
<1>1. p \in UserPasses /\ Covered(rows', p, input') /\ Described(rows', p, dr, input', t)
  BY DEF AllHeld
<1> HIDE DEF dr, t
<1>2. UserPasses' = UserPasses
  BY DEF UserPasses
<1>3. ShownBy(rows, p)' = ShownBy(rows', p)
  BY DEF ShownBy
<1>4. SpritesKept(rows, input)' = SpritesKept(rows', input')
  BY DEF SpritesKept
<1>5. Covered(rows, p, input)'
  BY <1>1, <1>3, <1>4 DEF Covered
<1>6. BackgroundsKept(rows, p)' = BackgroundsKept(rows', p)
  BY <1>3 DEF BackgroundsKept
<1>7. TailKept(rows, p, input, Told)' = TailKept(rows', p, input', t)
  BY <1>3 DEF TailKept, Effective, t
<1>8. ColoursKept(rows, p, Drawer, input)' = ColoursKept(rows', p, dr, input')
  <2>1. BackgroundColoursKept(rows, p)' = BackgroundColoursKept(rows', p)
    BY <1>3 DEF BackgroundColoursKept
  <2>2. SpriteColoursKept(rows, p, input)' = SpriteColoursKept(rows', p, input')
    BY <1>3, <1>4 DEF SpriteColoursKept
  <2> QED
    BY <2>1, <2>2 DEF ColoursKept, dr
<1>9. BattleKept(rows, p, Drawer, input)' = BattleKept(rows', p, dr, input')
  BY <1>3, <1>8 DEF BattleKept
<1>10. PixelsKept(rows, p, Drawer, input, Told)' = PixelsKept(rows', p, dr, input', t)
  BY <1>7, <1>8, <1>9 DEF PixelsKept
<1>11. Described(rows, p, Drawer, input, Told)'
  BY <1>1, <1>6, <1>9, <1>10 DEF Described, Effective, t
<1> QED
  BY <1>1, <1>2, <1>5, <1>11

\* If a policy is known after a step, it is the one from before.
SeenStays ==
  seen'.valid => /\ seen.valid /\ seen'.scripts = seen.scripts
                 /\ user = "hud" => seen'.actors = seen.actors

\* A step after which the passes that are valid are as they were.
LEMMA RowsKept ==
  ASSUME RowsInductive, user' = user, recovered' = recovered, Keeps(rows, rows'),
         rows'.valid # {} =>
           Drawer' = Drawer /\ (user = "scene" => input' = input) /\ SeenStays
  PROVE  RowsHeld' /\ EffectOK' /\ RowShape(rows)'
<1>1. AllHeld(rows, Drawer, input, Told)
  BY DEF RowsInductive, RowsHeld, AllHeld
<1> DEFINE dr == Drawer'
           t == Told'
<1>2. rows'.valid # {} => PolicyStands(rows, Told, t)
  BY DEF SeenStays, PolicyStands, Told, ToldAs
<1>3. rows'.valid # {} => dr = Drawer /\ (user = "scene" => input' = input)
        /\ PolicyStands(rows, Told, t)
  BY <1>2
<1> HIDE DEF dr, t
<1>4. AllHeld(rows', dr, input', t)
  BY <1>1, <1>3, HeldAlong
<1>5. RowsHeld'
  BY <1>4, HeldNext DEF dr, t
<1>6. EffectOK'
  <2>1. rows'.valid # {} => rows.valid # {} /\ rows'.bound = rows.bound
    BY DEF Keeps, SamePass
  <2> QED
    BY <2>1 DEF RowsInductive, EffectOK, SeenStays, Battle
<1> QED
  BY <1>5, <1>6 DEF Keeps, RowShape

LEMMA RasterKeeps == ASSUME RowsInductive, Raster PROVE RowsInductive'
<1>1. UNCHANGED <<user, varying, rows, renderer, lent, job, seen, input, recovered>>
  BY DEF Raster
<1>2. /\ InputOK' /\ in'.width = in.width /\ in'.vram = in.vram /\ in'.draw = in.draw
      /\ in'.policy = in.policy /\ in'.scripts = in.scripts /\ in'.actors = in.actors
  <2>1. CASE \E g \in Pages : in' = [in EXCEPT !.page = g]
    BY <2>1 DEF RowsInductive, InputOK, InputFields
  <2>2. CASE \E y \in Screens : in' = [in EXCEPT !.screen = y]
    <3>1. \A y \in Screens : y \subseteq All
      BY LayersAre DEF Screens
    <3> QED
      BY <2>2, <3>1 DEF RowsInductive, InputOK, InputFields
  <2>3. CASE \E k \in Blocks, v \in Values : in' = [in EXCEPT !.cgram[k] = v]
    BY <2>3 DEF RowsInductive, InputOK, InputFields
  <2>4. CASE \E k \in Blocks : in' = [in EXCEPT !.oam = k]
    BY <2>4 DEF RowsInductive, InputOK, InputFields
  <2>5. CASE \E x \in varying \cap {"common", "light", "captured", "mask"}, v \in Values :
               in' = [in EXCEPT ![x] = v]
    BY <2>5 DEF RowsInductive, InputOK, InputFields
  <2>6. CASE \E x \in varying \cap {"math", "slot"}, f \in BOOLEAN : in' = [in EXCEPT ![x] = f]
    BY <2>6 DEF RowsInductive, InputOK, InputFields
  <2> QED
    BY <2>1, <2>2, <2>3, <2>4, <2>5, <2>6 DEF Raster
<1>3. Keeps(rows, rows')
  BY <1>1, KeepsSelf DEF RowsInductive
<1>4. RowsHeld' /\ EffectOK' /\ RowShape(rows)'
  BY <1>1, <1>2, <1>3, RowsKept DEF Drawer, SeenStays
<1> QED
  BY <1>1, <1>2, <1>4
  DEF RowsInductive, VaryingOK, JobOK, PolicyOK, PolicyKnown, FrameOK, LentOK, SeenOK, RowInputOK

LEMMA VramWrittenKeeps == ASSUME RowsInductive, VramWritten PROVE RowsInductive'
<1>1. /\ rows' = [rows EXCEPT !.counted = FALSE] /\ lent' = [lent EXCEPT !.counted = FALSE]
      /\ UNCHANGED <<user, varying, renderer, job, seen, input, recovered>>
  BY DEF VramWritten
<1>2. /\ InputOK' /\ in'.width = in.width /\ in'.draw = in.draw
      /\ in'.policy = in.policy /\ in'.scripts = in.scripts /\ in'.actors = in.actors
  <2>1. PICK g \in Pages, k \in Blocks : in' = [in EXCEPT !.vram[g] = k]
    BY DEF VramWritten
  <2> QED
    BY <2>1 DEF RowsInductive, InputOK, InputFields
<1> DEFINE d == rows'
<1>3. /\ DOMAIN d = RowFields /\ d.counted = FALSE /\ d.valid = rows.valid
      /\ d.checked = rows.checked /\ d.width = rows.width /\ d.snapshot = rows.snapshot
      /\ SamePolicy(rows, d) /\ d.policy = rows.policy /\ d.key = rows.key
      /\ d.objects = rows.objects /\ d.objectPasses = rows.objectPasses
      /\ d.registers = rows.registers /\ d.layers = rows.layers /\ d.pages = rows.pages
      /\ d.extra = rows.extra /\ d.blocks = rows.blocks /\ d.palettes = rows.palettes
      /\ d.pixels = rows.pixels
  BY <1>1 DEF RowsInductive, RowShape, RowFields, SamePolicy
<1> HIDE DEF d
<1>4. Keeps(rows, d)
  BY <1>3 DEF RowsInductive, Keeps, RowShape, SamePass, SamePolicy, PolicyOf
<1>5. RowsHeld' /\ EffectOK' /\ RowShape(rows)'
  BY <1>1, <1>2, <1>4, RowsKept DEF Drawer, SeenStays, d
<1>6. PolicyOK' /\ FrameOK'
  BY <1>1, <1>2, <1>3
  DEF RowsInductive, PolicyOK, PolicyKnown, SamePolicy, FrameOK, JobOK, d
<1>7. LentOK'
  BY <1>1 DEF RowsInductive, LentOK
<1> QED
  BY <1>1, <1>2, <1>5, <1>6, <1>7 DEF RowsInductive, VaryingOK, JobOK, SeenOK, RowInputOK

LEMMA HostChangesKeeps == ASSUME RowsInductive, HostChanges PROVE RowsInductive'
<1>1. UNCHANGED <<user, varying, rows, renderer, lent, job, seen, input, recovered>>
  BY DEF HostChanges
<1>2. /\ InputOK' /\ in'.width = in.width /\ in'.vram = in.vram
      /\ in'.draw # in.draw => "draw" \in varying
      /\ in'.policy # in.policy => ~job.row
      /\ in'.scripts # in.scripts \/ in'.actors # in.actors => ~job.pixel
  <2>1. CASE ~job.row /\ \E v \in Values : in' = [in EXCEPT !.policy = v]
    BY <2>1 DEF RowsInductive, InputOK, InputFields
  <2>2. CASE "draw" \in varying /\ \E v \in Values : in' = [in EXCEPT !.draw = v]
    BY <2>2 DEF RowsInductive, InputOK, InputFields
  <2>3. CASE ~job.pixel /\ \E f \in BOOLEAN : in' = [in EXCEPT !.scripts = f]
    BY <2>3 DEF RowsInductive, InputOK, InputFields
  <2>4. CASE ~job.pixel /\ \E v \in Values : in' = [in EXCEPT !.actors = v]
    BY <2>4 DEF RowsInductive, InputOK, InputFields
  <2> QED
    BY <2>1, <2>2, <2>3, <2>4 DEF HostChanges
<1>3. Keeps(rows, rows')
  BY <1>1, KeepsSelf DEF RowsInductive
<1>4. RowsHeld' /\ EffectOK' /\ RowShape(rows)'
  BY <1>1, <1>2, <1>3, RowsKept DEF Drawer, SeenStays, RowsInductive, VaryingOK
<1>5. PolicyOK' /\ SeenOK'
  BY <1>1, <1>2 DEF RowsInductive, PolicyOK, PolicyKnown, SeenOK
<1> QED
  BY <1>1, <1>2, <1>4, <1>5
  DEF RowsInductive, VaryingOK, JobOK, FrameOK, LentOK, RowInputOK

LEMMA FrameKeeps == ASSUME RowsInductive, Frame PROVE RowsInductive'
<1>1. /\ rows' = Begun(rows) /\ lent' = [lent EXCEPT !.checked = FALSE]
      /\ UNCHANGED <<user, varying, renderer, job, seen, input, recovered>>
  BY DEF Frame
<1>2. /\ InputOK' /\ in'.draw = in.draw /\ in'.vram = in.vram
      /\ in'.policy = in.policy /\ in'.scripts = in.scripts /\ in'.actors = in.actors
  <2>1. PICK v : in' = [in EXCEPT !.width = v]
    BY DEF Frame
  <2> QED
    BY <2>1 DEF RowsInductive, InputOK, InputFields
<1>3. /\ Keeps(rows, rows') /\ rows'.checked = FALSE /\ rows'.policyChecked = FALSE
      /\ rows'.bound = rows.bound /\ rows'.policyValid = rows.policyValid
  BY <1>1, BegunKeeps DEF RowsInductive
<1>4. RowsHeld' /\ EffectOK' /\ RowShape(rows)'
  BY <1>1, <1>2, <1>3, RowsKept DEF Drawer, SeenStays
<1>5. PolicyOK' /\ FrameOK'
  BY <1>1, <1>3 DEF RowsInductive, PolicyOK, PolicyKnown, FrameOK
<1>6. LentOK'
  BY <1>1, <1>2 DEF RowsInductive, LentOK
<1> QED
  BY <1>1, <1>2, <1>4, <1>5, <1>6 DEF RowsInductive, VaryingOK, JobOK, SeenOK, RowInputOK

LEMMA CoreKeeps ==
  ASSUME RowsInductive, UNCHANGED <<in, user, varying, rows, renderer, lent, job, seen, input, recovered>>
  PROVE  RowsInductive'
<1>1. UNCHANGED <<in, user, varying, rows, renderer, lent, job, seen, input, recovered>>
  OBVIOUS
<1>2. Keeps(rows, rows')
  BY <1>1, KeepsSelf DEF RowsInductive
<1>3. RowsHeld' /\ EffectOK' /\ RowShape(rows)'
  BY <1>1, <1>2, RowsKept DEF Drawer, SeenStays
<1> QED
  BY <1>1, <1>3
  DEF RowsInductive, InputOK, VaryingOK, JobOK, PolicyOK, PolicyKnown, FrameOK, LentOK, SeenOK,
      RowInputOK

\* A policy that has to be compared again.
Unchecked(c, d) ==
  /\ DOMAIN d = RowFields /\ d.valid = c.valid
  /\ d.bound = c.bound /\ d.policyValid = c.policyValid /\ d.shared = c.shared
  /\ d.policyChecked = FALSE /\ SameView(c, d)
  /\ d.policy = c.policy /\ d.key = c.key
  /\ d.objects = c.objects /\ d.objectPasses = c.objectPasses
  /\ d.registers = c.registers /\ d.layers = c.layers /\ d.pages = c.pages
  /\ d.extra = c.extra /\ d.blocks = c.blocks /\ d.palettes = c.palettes
  /\ d.pixels = c.pixels

LEMMA UncheckedKeeps ==
  ASSUME NEW c, NEW d, RowShape(c), Unchecked(c, d) PROVE Keeps(c, d)
BY DEF Unchecked, RowShape, Keeps, SamePass, SameView, PolicyOf

LEMMA BindKeeps == ASSUME RowsInductive, Bind PROVE RowsInductive'
<1> DEFINE same == seen.valid /\ seen.scripts = in.scripts
                   /\ (in.scripts => seen.actors = in.actors)
           preserved == user = "scene" /\ seen.valid /\ seen.scripts = in.scripts
           c == IF same \/ preserved THEN rows ELSE Forgotten(rows)
<1>1. PICK row \in BOOLEAN :
        /\ user \in Battle /\ ~job.pixel /\ job' = [row |-> row, pixel |-> TRUE]
        /\ UNCHANGED <<in, user, varying, renderer, lent, input, recovered>>
        /\ seen' = IF same THEN seen
                   ELSE [valid |-> TRUE, scripts |-> in.scripts, actors |-> in.actors]
        /\ rows' = [c EXCEPT !.policyChecked = c.policyChecked /\ ~job'.row]
  BY DEF Bind
<1>2. /\ Keeps(rows, c) /\ SamePolicy(rows, c) /\ SameView(rows, c)
      /\ c.valid # {} => same \/ preserved
  BY KeepsSelf, ForgottenKeeps DEF RowsInductive, SamePolicy, SameView
<1> HIDE DEF c
<1>3. Unchecked(c, rows')
  <2>1. c.policyChecked = FALSE
    BY <1>1, <1>2 DEF RowsInductive, PolicyOK, JobOK, SamePolicy
  <2>2. RowShape(c)
    BY <1>2 DEF Keeps
  <2> QED
    BY <1>1, <2>1, <2>2 DEF Unchecked, RowShape, RowFields, SameView
<1>4. Keeps(rows, rows')
  BY <1>2, <1>3, UncheckedKeeps, KeepsAll DEF Keeps
<1>5. rows'.valid # {} => SeenStays
  <2>1. rows'.valid # {} => same \/ preserved
    BY <1>2, <1>3 DEF Unchecked
  <2> QED
    BY <1>1, <2>1 DEF SeenStays
<1>6. RowsHeld' /\ EffectOK' /\ RowShape(rows)'
  BY <1>1, <1>4, <1>5, RowsKept DEF Drawer
<1>7. PolicyOK' /\ FrameOK'
  <2>1. /\ rows'.bound = rows.bound /\ rows'.policyValid = rows.policyValid
        /\ rows'.policyChecked = FALSE /\ rows'.checked = rows.checked
        /\ rows'.counted = rows.counted /\ rows'.width = rows.width
        /\ rows'.snapshot = rows.snapshot
    BY <1>2, <1>3 DEF Unchecked, SamePolicy, SameView
  <2> QED
    BY <1>1, <2>1 DEF RowsInductive, PolicyOK, PolicyKnown, FrameOK
<1>8. SeenOK' /\ JobOK'
  BY <1>1 DEF RowsInductive, SeenOK, JobOK
<1> QED
  BY <1>1, <1>6, <1>7, <1>8 DEF RowsInductive, InputOK, VaryingOK, LentOK, RowInputOK

LEMMA UnbindKeeps == ASSUME RowsInductive, Unbind PROVE RowsInductive'
<1>1. /\ job' = [row |-> FALSE, pixel |-> FALSE]
      /\ UNCHANGED <<in, user, varying, renderer, lent, seen, input, recovered>>
      /\ rows' = [rows EXCEPT !.policyChecked = rows.policyChecked /\ ~job.row]
  BY DEF Unbind, RowsInductive, JobOK
<1>2. Unchecked(rows, rows')
  BY <1>1 DEF RowsInductive, PolicyOK, Unchecked, RowShape, RowFields, SameView
<1>3. Keeps(rows, rows')
  BY <1>2, UncheckedKeeps DEF RowsInductive
<1>4. RowsHeld' /\ EffectOK' /\ RowShape(rows)'
  BY <1>1, <1>3, RowsKept DEF Drawer, SeenStays
<1>5. PolicyOK' /\ FrameOK' /\ SeenOK' /\ JobOK'
  BY <1>1, <1>2
  DEF RowsInductive, PolicyOK, PolicyKnown, FrameOK, Unchecked, SameView, SeenOK, JobOK
<1> QED
  BY <1>1, <1>4, <1>5 DEF RowsInductive, InputOK, VaryingOK, LentOK, RowInputOK

\* Where rows are drawn for no policy, the one from before is not known any more.
LEMMA SeenStands ==
  ASSUME SeenOK, NEW drawing \in BOOLEAN
  PROVE  /\ SeenBy(drawing).valid => SeenBy(drawing) = seen
         /\ DOMAIN SeenBy(drawing) = {"valid", "scripts", "actors"}
         /\ job.pixel => SeenBy(drawing) = seen
BY DEF SeenOK, SeenBy

LEMMA DrawUnrecordedKeeps == ASSUME RowsInductive, DrawUnrecorded PROVE RowsInductive'
<1>1. /\ seen' = SeenBy(TRUE)
      /\ UNCHANGED <<in, user, varying, rows, renderer, lent, job, input, recovered>>
  BY DEF DrawUnrecorded
<1>2. /\ SeenStays /\ DOMAIN seen' = {"valid", "scripts", "actors"}
      /\ job.pixel => seen' = seen
  BY <1>1, SeenStands DEF RowsInductive, SeenStays
<1>3. Keeps(rows, rows')
  BY <1>1, KeepsSelf DEF RowsInductive
<1>4. RowsHeld' /\ EffectOK' /\ RowShape(rows)'
  BY <1>1, <1>2, <1>3, RowsKept DEF Drawer
<1> QED
  BY <1>1, <1>2, <1>4
  DEF RowsInductive, InputOK, VaryingOK, JobOK, PolicyOK, PolicyKnown, FrameOK, LentOK, SeenOK,
      RowInputOK

\* What a look leaves behind stands for the rest of the frame and the job.
LEMMA AfterLook ==
  ASSUME RowsInductive, NEW c, Ready(c, ViewOf), PolicyKnown(c),
         c.bound = job.row, c.bound => c.shared = in.policy, c.policyChecked => job.row,
         rows' = c, UNCHANGED <<in, user, varying, job>>,
         lent' = IF user = "highlight" THEN View ELSE lent
  PROVE  InputOK' /\ VaryingOK' /\ JobOK' /\ PolicyOK' /\ FrameOK' /\ LentOK'
<1>1. View.pixels = Cleaned(in.vram)
  BY ViewIs DEF RowsInductive
<1>2. /\ DOMAIN View = {"valid", "checked", "counted", "source", "slot", "pixels"}
      /\ View.source = in.vram /\ View.slot = in.slot
  BY DEF RowsInductive, LentOK, View, ViewSource
<1>3. LentOK'
  <2>1. CASE user = "highlight"
    BY <1>1, <1>2, <2>1 DEF LentOK, Cleaned
  <2>2. CASE user # "highlight"
    BY <2>2 DEF RowsInductive, LentOK
  <2> QED
    BY <2>1, <2>2
<1>4. FrameOK'
  <2>1. /\ c.checked => c.width = in.width
        /\ c.checked /\ c.counted => c.snapshot = ViewOf
    BY DEF Ready
  <2> QED
    BY <2>1 DEF FrameOK, ViewOf
<1>5. PolicyOK'
  <2>1. user \notin Battle => c.bound = FALSE
    BY DEF RowsInductive, JobOK
  <2> QED
    BY <2>1 DEF PolicyOK, PolicyKnown
<1> QED
  BY <1>3, <1>4, <1>5 DEF RowsInductive, InputOK, VaryingOK, JobOK

LEMMA StoredIs ==
  ASSUME NEW c, RowShape(c), NEW p \in Passes, c.pending = p, p \notin c.valid, NEW pixels
  PROVE  LET d == Stored(c, pixels) IN
         /\ RowShape(d) /\ d.valid = c.valid \cup {p} /\ d.pixels[p] = pixels
         /\ SamePolicy(c, d) /\ SameView(c, d) /\ d.policy = c.policy /\ d.key = c.key
         /\ d.objects = c.objects /\ d.objectPasses = c.objectPasses
         /\ d.registers = c.registers /\ d.pages = c.pages /\ d.blocks = c.blocks
         /\ d.palettes = c.palettes
         /\ \A q \in c.valid : SamePass(c, d, q)
<1> DEFINE d == Stored(c, pixels)
<1>1. c.pending # None
  BY NoneAssumption
<1>2. /\ DOMAIN d = RowFields /\ d.valid = c.valid \cup {p}
      /\ d.pixels = [c.pixels EXCEPT ![p] = pixels]
      /\ SamePolicy(c, d) /\ SameView(c, d) /\ d.policy = c.policy /\ d.key = c.key
      /\ d.objects = c.objects /\ d.objectPasses = c.objectPasses
      /\ d.registers = c.registers /\ d.layers = c.layers /\ d.pages = c.pages
      /\ d.extra = c.extra /\ d.blocks = c.blocks /\ d.palettes = c.palettes
  BY <1>1 DEF Stored, RowShape, RowFields, SamePolicy, SameView
<1> HIDE DEF d
<1>3. RowShape(d) /\ d.pixels[p] = pixels
  BY <1>2 DEF RowShape
<1>4. \A q \in c.valid : d.pixels[q] = c.pixels[q]
  BY <1>2 DEF RowShape
<1>5. \A q \in c.valid : SamePass(c, d, q)
  BY <1>2, <1>4 DEF SamePass, SamePolicy, SameView, PolicyOf
<1> QED
  BY <1>2, <1>3, <1>5 DEF d

\* A pass that was drawn and kept is described by what was recorded of it.
LEMMA StoredWell ==
  ASSUME RowsInductive, user \in RowUsers, CanLook, NEW p \in UserPasses,
         ~Look(p).disabled, p \notin Look(p).valid,
         NEW i, i = IF user = "scene" THEN [InputNow EXCEPT !.backgrounds = SceneBackgrounds]
                    ELSE input,
         NEW b, b = (Recovering /\ in.scripts)
  PROVE  LET d == Stored(Look(p), Drawn(p)) IN
         /\ Ready(d, ViewOf) /\ PolicyKnown(d) /\ d.bound = job.row
         /\ d.bound => d.shared = in.policy
         /\ d.policyChecked => job.row
         /\ AllHeld(d, in.draw, i, ToldAs(b))
         /\ b => user \in Battle
<1> DEFINE r == Look(p)
           d == Stored(r, Drawn(p))
<1>1. /\ Keeps(rows, r) /\ Ready(r, ViewOf) /\ PolicyKnown(r)
      /\ r.bound = job.row /\ (r.bound => r.shared = in.policy)
      /\ r.policyChecked => job.row
      /\ FreshFor(r, p) /\ r.pending = p
      /\ Records(r, p, LayersOf(p), ObjectsOf(p), ExtraOf, ViewOf)
      /\ AllHeld(r, in.draw, InputKept, Told)
  BY LookWell
<1>2. p \in Passes /\ p \notin r.valid
  BY DEF UserPasses, Passes
<1> HIDE DEF r
<1>3. /\ RowShape(d) /\ d.valid = r.valid \cup {p} /\ d.pixels[p] = Drawn(p)
      /\ SamePolicy(r, d) /\ SameView(r, d) /\ d.policy = r.policy /\ d.key = r.key
      /\ d.objects = r.objects /\ d.objectPasses = r.objectPasses
      /\ d.registers = r.registers /\ d.pages = r.pages /\ d.blocks = r.blocks
      /\ d.palettes = r.palettes
      /\ \A q \in r.valid : SamePass(r, d, q)
  BY <1>1, <1>2, StoredIs DEF Keeps
<1> HIDE DEF d
<1>4. /\ Ready(d, ViewOf) /\ PolicyKnown(d) /\ d.bound = job.row
      /\ d.bound => d.shared = in.policy
      /\ d.policyChecked => job.row
  <2>1. Ready(d, ViewOf)
    BY <1>1, <1>3 DEF Ready, SameView
  <2>2. /\ d.bound = r.bound /\ d.policyValid = r.policyValid
        /\ d.policyChecked = r.policyChecked /\ d.shared = r.shared
    BY <1>3 DEF SamePolicy
  <2>3. PolicyKnown(d)
    BY <1>1, <2>2 DEF PolicyKnown
  <2> QED
    BY <1>1, <2>1, <2>2, <2>3
<1>5. FreshFor(d, p) /\ Records(d, p, LayersOf(p), ObjectsOf(p), ExtraOf, ViewOf)
  <2>1. PolicyOf(d) = PolicyOf(r)
    BY <1>3 DEF PolicyOf, SamePolicy
  <2> QED
    BY <1>1, <1>3, <2>1 DEF FreshFor, Fresh, KeyNow, ColoursNow, SameView, Records
<1>6. /\ SpritesNow(i) /\ (user = "scene" => i.backgrounds = SceneBackgrounds)
      /\ user = "scene" /\ Objects /\ in.scripts => i.mask = in.mask
  <2>1. /\ DOMAIN InputKept = {"sprites", "mask", "backgrounds"}
        /\ SpritesNow(InputKept)
        /\ user = "scene" /\ Objects /\ in.scripts => InputKept.mask = in.mask
    BY InputIsNow DEF RowsInductive
  <2>2. CASE user = "scene"
    <3>1. /\ i.sprites = InputKept.sprites /\ i.mask = InputKept.mask
          /\ i.backgrounds = SceneBackgrounds
      BY <2>1, <2>2 DEF InputKept
    <3> QED
      BY <2>1, <2>2, <3>1 DEF SpritesNow
  <2>3. CASE user # "scene"
    BY <2>3 DEF SpritesNow
  <2> QED
    BY <2>2, <2>3
<1>7. Covered(d, p, i)
  BY <1>5, <1>6, CoveredFresh DEF RowsInductive
<1>8. EffectNow(d, i, ToldAs(b)) /\ (b => user \in Battle)
  BY <1>4, <1>6 DEF RowsInductive, JobOK, SeenOK, EffectNow, Recovering, ToldAs
<1>9. Described(d, p, in.draw, i, ToldAs(b))
  <2>1. PixelsKept(d, p, in.draw, i, ToldAs(b)) = Drawn(p)
    BY <1>5, <1>6, <1>7, <1>8, PixelsFresh DEF RowsInductive
  <2>3. ASSUME user \in Battle PROVE Drawn(p)[1] = BattleKept(d, p, in.draw, i)
    <3>1. BattleKept(d, p, in.draw, i) = BattleColours
      BY <1>5, <1>6, <1>7, <2>3, BattleFresh DEF RowsInductive
    <3> QED
      BY <2>3, <3>1 DEF Drawn, Battle
  <2>2. user = "scene" => BackgroundsKept(d, p) = SceneBackgrounds
    BY <1>5, BackgroundsFresh DEF RowsInductive
  <2> QED
    BY <1>3, <1>6, <2>1, <2>2, <2>3 DEF Described
<1>10. ASSUME NEW q \in r.valid
      PROVE  q \in UserPasses /\ Covered(d, q, i) /\ Described(d, q, in.draw, i, ToldAs(b))
  <2>1. /\ q \in UserPasses /\ Covered(r, q, InputKept)
        /\ Described(r, q, in.draw, InputKept, Told) /\ SamePass(r, d, q)
    BY <1>1, <1>3 DEF AllHeld
  <2>2. user \notin Battle
    <3> SUFFICES ASSUME user \in Battle PROVE FALSE
      OBVIOUS
    <3>1. q = 1 /\ p = 1
      BY <2>1 DEF UserPasses, Battle
    <3> QED
      BY <1>2, <3>1
  <2>3. i = InputKept
    BY <2>2 DEF InputKept, Battle
  <2>4. PolicyStands(r, Told, ToldAs(b))
    BY <1>8, <2>2 DEF PolicyStands, Effective, Told, ToldAs, RowsInductive, EffectOK
  <2> QED
    BY <2>1, <2>3, <2>4, CoveredKept, DescribedKept
<1> QED
  BY <1>3, <1>4, <1>7, <1>8, <1>9, <1>10 DEF AllHeld, d, r

\* A look, or a look and a draw: the next cache is c and its passes are held.
LEMMA LookedNext ==
  ASSUME RowsInductive, NEW c, Ready(c, ViewOf), PolicyKnown(c),
         c.bound = job.row, c.bound => c.shared = in.policy, c.policyChecked => job.row,
         rows' = c, UNCHANGED <<in, user, varying, job>>,
         lent' = IF user = "highlight" THEN View ELSE lent,
         renderer' = IF user = "scene" THEN renderer ELSE in.draw,
         seen' = SeenBy(user \in Battle), RowInputOK',
         NEW b \in BOOLEAN, recovered' = b, b => user \in Battle,
         job.pixel /\ in.scripts /\ c.valid # {} => c.bound \/ b,
         AllHeld(c, in.draw, input', ToldAs(b))
  PROVE  RowsInductive'
<1>1. InputOK' /\ VaryingOK' /\ JobOK' /\ PolicyOK' /\ FrameOK' /\ LentOK'
  BY AfterLook
<1>2. (user \in Battle) \in BOOLEAN
  OBVIOUS
<1>3. /\ seen'.valid => seen' = seen
      /\ DOMAIN seen' = {"valid", "scripts", "actors"}
      /\ job.pixel => seen' = seen
  BY <1>2, SeenStands DEF RowsInductive
<1>4. SeenOK'
  BY <1>3 DEF RowsInductive, SeenOK
<1>5. EffectOK'
  <2>1. user \in Battle /\ ~job.pixel => ~seen'.valid
    BY DEF SeenBy, RowsInductive, SeenOK
  <2> QED
    BY <1>3, <2>1 DEF RowsInductive, SeenOK, EffectOK
<1> DEFINE i == input'
           t == Told'
           dr == Drawer'
<1>6. dr = in.draw
  BY DEF Drawer
<1>7. PolicyStands(c, ToldAs(b), t) /\ AllHeld(c, in.draw, i, ToldAs(b))
  BY <1>3 DEF PolicyStands, Told, ToldAs
<1> HIDE DEF i, t, dr
<1>8. RowShape(c) /\ Keeps(c, c)
  BY KeepsSelf DEF Ready
<1>9. AllHeld(c, dr, i, t)
  BY <1>6, <1>7, <1>8, HeldAlong
<1>10. RowsHeld'
  BY <1>9, HeldNext DEF dr, i, t
<1>11. RowShape(rows)'
  BY <1>8 DEF RowShape
<1> QED
  BY <1>1, <1>4, <1>5, <1>10, <1>11 DEF RowsInductive

\* What a look leaves of the rows was drawn for a policy if the rows were.
LEMMA EffectLooked ==
  ASSUME RowsInductive, NEW c, Keeps(rows, c)
  PROVE  job.pixel /\ in.scripts /\ c.valid # {} => c.bound \/ recovered
<1>1. c.valid # {} => rows.valid # {} /\ c.bound = rows.bound
  BY DEF Keeps, SamePass
<1> QED
  BY <1>1 DEF RowsInductive, JobOK, SeenOK, EffectOK

LEMMA DrawRowKeeps == ASSUME RowsInductive, DrawRow PROVE RowsInductive'
<1>1. PICK p \in UserPasses :
        /\ rows' = IF Serves(Look(p), p) THEN Look(p) ELSE Stored(Look(p), Drawn(p))
        /\ input' = IF user # "scene" THEN input
                    ELSE IF Look(p).pending = p
                           THEN [InputNow EXCEPT !.backgrounds = SceneBackgrounds]
                           ELSE InputNow
        /\ recovered' = IF Look(p).pending = p THEN Recovering /\ in.scripts ELSE recovered
  BY DEF DrawRow
<1>2. /\ user \in RowUsers /\ CanLook /\ UNCHANGED <<in, user, varying, job>>
      /\ lent' = IF user = "highlight" THEN View ELSE lent
      /\ renderer' = IF user = "scene" THEN renderer ELSE in.draw
      /\ seen' = SeenBy(user \in Battle)
  BY DEF DrawRow
<1>3. /\ Keeps(rows, Look(p)) /\ Ready(Look(p), ViewOf) /\ PolicyKnown(Look(p))
      /\ Look(p).bound = job.row /\ (Look(p).bound => Look(p).shared = in.policy)
      /\ Look(p).policyChecked => job.row
      /\ Look(p).disabled => Look(p).pending = None
      /\ ~Look(p).disabled =>
           IF p \in Look(p).valid THEN Look(p).pending = None ELSE Look(p).pending = p
      /\ AllHeld(Look(p), in.draw, InputKept, Told)
  BY <1>2, LookWell
<1>4. p # None /\ p \in Passes
  BY NoneAssumption DEF UserPasses, Passes
<1>5. DOMAIN InputNow = {"sprites", "mask", "backgrounds"}
  BY DEF RowsInductive, RowInputOK, InputNow
<1>6. RowInputOK'
  BY <1>1, <1>5 DEF RowsInductive, RowInputOK
<1>7. CASE Look(p).disabled \/ p \in Look(p).valid
  <2>1. Look(p).pending = None
    BY <1>3, <1>7
  <2>2. rows' = Look(p)
    BY <1>1, <2>1 DEF Stored
  <2>3. input' = InputKept
    BY <1>1, <1>4, <2>1 DEF InputKept
  <2>4. /\ recovered' = recovered /\ recovered \in BOOLEAN /\ (recovered => user \in Battle)
        /\ job.pixel /\ in.scripts /\ Look(p).valid # {} => Look(p).bound \/ recovered
    BY <1>1, <1>3, <1>4, <2>1, EffectLooked DEF RowsInductive, EffectOK
  <2>5. AllHeld(Look(p), in.draw, input', ToldAs(recovered))
    BY <1>3, <2>3 DEF Told
  <2> QED
    BY <1>2, <1>3, <1>6, <2>2, <2>4, <2>5, LookedNext
<1>8. CASE ~Look(p).disabled /\ p \notin Look(p).valid
  <2> DEFINE d == Stored(Look(p), Drawn(p))
             i == IF user = "scene" THEN [InputNow EXCEPT !.backgrounds = SceneBackgrounds]
                  ELSE input
             b == Recovering /\ in.scripts
  <2>1. rows' = d
    BY <1>1, <1>8 DEF Serves
  <2>2. input' = i
    BY <1>1, <1>3, <1>8
  <2>3. /\ Ready(d, ViewOf) /\ PolicyKnown(d) /\ d.bound = job.row
        /\ d.bound => d.shared = in.policy
        /\ d.policyChecked => job.row
        /\ AllHeld(d, in.draw, i, ToldAs(b)) /\ (b => user \in Battle)
    BY <1>2, <1>8, StoredWell
  <2>4. recovered' = b /\ b \in BOOLEAN
    BY <1>1, <1>3, <1>8
  <2>5. job.pixel /\ in.scripts => d.bound \/ b
    BY <2>3 DEF RowsInductive, JobOK, Recovering
  <2> HIDE DEF d, i, b
  <2> QED
    BY <1>2, <1>6, <2>1, <2>2, <2>3, <2>4, <2>5, LookedNext
<1> QED
  BY <1>7, <1>8

LEMMA OtherRowKeeps == ASSUME RowsInductive, OtherRow PROVE RowsInductive'
<1> DEFINE d == IF user = "scene" \/ SameRenderer THEN rows ELSE Forgotten(rows)
           e == IF user = "highlight" /\ ViewChanged THEN Begun(d) ELSE d
           f == IF user \in Battle THEN PolicyBound(e, job.row) ELSE e
           c == IF f.disabled THEN f ELSE Compared(f, ViewOf)
<1>1. /\ user \in RowUsers /\ rows' = c /\ UNCHANGED <<in, user, varying, job, input, recovered>>
      /\ lent' = IF user = "highlight" THEN View ELSE lent
      /\ renderer' = IF user = "scene" THEN renderer ELSE in.draw
      /\ seen' = SeenBy(user \in Battle)
  BY DEF OtherRow, ViewOf
<1>2. BaseWell(d) /\ (d.valid # {} => Drawer = in.draw)
  BY RowsBase, ForgottenBase DEF Drawer, SameRenderer
<1> HIDE DEF d
<1>3. /\ BaseWell(e) /\ (e.valid # {} => Drawer = in.draw)
      /\ user = "highlight" /\ ViewChanged => e.checked = FALSE
  BY <1>2, BegunBase
<1> HIDE DEF e
<1>4. /\ Keeps(rows, f) /\ Ready(f, ViewOf) /\ PolicyKnown(f)
      /\ f.bound => f.shared = in.policy
      /\ f.bound = job.row /\ (f.policyChecked => job.row)
      /\ f.valid # {} => Drawer = in.draw
  <2>1. CASE user \in Battle
    BY <1>3, <2>1, BattleStart
  <2>2. CASE user \notin Battle
    BY <1>3, <2>2, PlainStart
  <2> QED
    BY <2>1, <2>2
<1> HIDE DEF f
<1>5. Keeps(f, c) /\ SamePolicy(f, c) /\ Ready(c, ViewOf)
  <2>1. CASE f.disabled
    BY <1>4, <2>1, KeepsSelf DEF Ready, SamePolicy
  <2>2. CASE ~f.disabled
    BY <1>4, <2>2, ComparedKeeps
  <2> QED
    BY <2>1, <2>2
<1> HIDE DEF c
<1>6. /\ PolicyKnown(c) /\ c.bound = job.row /\ (c.bound => c.shared = in.policy)
      /\ c.policyChecked => job.row
  <2>1. /\ c.bound = f.bound /\ c.policyValid = f.policyValid
        /\ c.policyChecked = f.policyChecked /\ c.shared = f.shared
    BY <1>5 DEF SamePolicy
  <2>2. PolicyKnown(c)
    BY <1>4, <2>1 DEF PolicyKnown
  <2> QED
    BY <1>4, <2>1, <2>2
<1>7. AllHeld(c, in.draw, input, Told) /\ Keeps(rows, c)
  <2>1. AllHeld(rows, Drawer, input, Told)
    BY DEF RowsInductive, RowsHeld, AllHeld
  <2>2. Keeps(rows, c) /\ (c.valid # {} => f.valid # {})
    BY <1>4, <1>5, KeepsAll DEF Keeps
  <2>3. c.valid # {} => in.draw = Drawer
    BY <1>4, <2>2
  <2> QED
    BY <2>1, <2>2, <2>3, HeldAlong, PolicyStandsSelf
<1>8. RowInputOK' /\ AllHeld(c, in.draw, input', ToldAs(recovered))
  BY <1>1, <1>7 DEF RowsInductive, RowInputOK, Told
<1>9. /\ recovered \in BOOLEAN /\ (recovered => user \in Battle)
      /\ job.pixel /\ in.scripts /\ c.valid # {} => c.bound \/ recovered
  BY <1>7, EffectLooked DEF RowsInductive, EffectOK
<1> QED
  BY <1>1, <1>5, <1>6, <1>8, <1>9, LookedNext

LEMMA RowsInit == ASSUME PixelInit PROVE RowsInductive
<1>1. /\ rows = EmptyRow /\ lent = EmptyView /\ job = [row |-> FALSE, pixel |-> FALSE]
      /\ seen = NoPolicy /\ input = NoInput /\ recovered = FALSE
  BY DEF PixelInit
<1>2. InputOK
  <2> DEFINE v == CHOOSE x \in Values : TRUE
  <2>1. PICK y \in Screens, m \in IF user = "background" THEN BOOLEAN ELSE {FALSE} :
          in = [width |-> v, policy |-> v, common |-> v, light |-> v, draw |-> v,
                page |-> 1, vram |-> [g \in Pages |-> 0], cgram |-> [k \in Blocks |-> v],
                oam |-> 0, screen |-> y, math |-> m, captured |-> v, slot |-> FALSE,
                scripts |-> FALSE, actors |-> v, mask |-> v]
    BY Zenon DEF PixelInit
  <2> HIDE DEF v
  <2>2. y \subseteq All /\ 1 \in Pages /\ 0 \in Blocks
    BY LayersAre DEF Screens, Pages, Blocks
  <2>3. DOMAIN in = InputFields
    BY <2>1 DEF InputFields
  <2> QED
    BY <2>1, <2>2, <2>3 DEF InputOK
<1>3. VaryingOK
  <2>1. varying \subseteq InputsOf(user)
    BY DEF PixelInit, kSubset
  <2> QED
    BY <2>1 DEF VaryingOK, InputsOf
<1>4. RowShape(rows) /\ rows.valid = {}
  BY <1>1 DEF EmptyRow, RowShape, RowFields
<1>5. RowsHeld
  BY <1>4 DEF RowsHeld
<1>6. PolicyOK /\ FrameOK
  BY <1>1 DEF EmptyRow, PolicyOK, PolicyKnown, FrameOK
<1>7. JobOK /\ LentOK /\ SeenOK /\ EffectOK /\ RowInputOK
  BY <1>1 DEF JobOK, LentOK, EmptyView, SeenOK, EffectOK, NoPolicy, RowInputOK, NoInput
<1> QED
  BY <1>2, <1>3, <1>4, <1>5, <1>6, <1>7 DEF RowsInductive

LEMMA RowsStep == ASSUME RowsInductive, [PixelNext]_pixelVars PROVE RowsInductive'
<1>1. CASE Raster
  BY <1>1, RasterKeeps
<1>2. CASE VramWritten
  BY <1>2, VramWrittenKeeps
<1>3. CASE HostChanges
  BY <1>3, HostChangesKeeps
<1>4. CASE Frame
  BY <1>4, FrameKeeps
<1>5. CASE Reset \/ DrawInCore \/ UNCHANGED pixelVars
  <2>1. UNCHANGED <<in, user, varying, rows, renderer, lent, job, seen, input, recovered>>
    BY <1>5 DEF Reset, DrawInCore, pixelVars
  <2> QED
    BY <2>1, CoreKeeps
<1>6. CASE Bind
  BY <1>6, BindKeeps
<1>7. CASE Unbind
  BY <1>7, UnbindKeeps
<1>8. CASE DrawRow
  BY <1>8, DrawRowKeeps
<1>9. CASE OtherRow
  BY <1>9, OtherRowKeeps
<1>10. CASE DrawUnrecorded
  BY <1>10, DrawUnrecordedKeeps
<1> QED
  BY <1>1, <1>2, <1>3, <1>4, <1>5, <1>6, <1>7, <1>8, <1>9, <1>10 DEF PixelNext

\* Whatever changes between two draws, and whether a battle's frame is replayed
\* for its job or recovered row by row, what the row cache serves to a menu, a
\* highlight, a HUD or a scene is the row that a draw would give now, but for the
\* effect of a recovered row (RowsRecorded, DrawHudSource).
THEOREM ServedRowsAreExact == PixelSpec => []RowsExact
<1>1. RowsInductive /\ [PixelNext]_pixelVars => RowsInductive'
  BY RowsStep
<1>2. PixelSpec => []RowsInductive
  BY <1>1, RowsInit, PTL DEF PixelSpec
<1> QED
  BY <1>2, RowsAreExact, PTL

-----------------------------------------------------------------------------
(* The core's own caches                                                   *)

PlanesInductive == DOMAIN in = InputFields /\ BackgroundOK(whole) /\ LayerOK(plane)

\* The two caches are compared with VRAM alone.
LEMMA PlanesNext ==
  ASSUME in'.vram = in.vram, BackgroundOK(whole'), LayerOK(plane')
  PROVE  BackgroundOK(whole)' /\ LayerOK(plane)'
BY DEF BackgroundOK, LayerOK

LEMMA InputStep ==
  ASSUME DOMAIN in = InputFields, Raster \/ HostChanges \/ Frame
  PROVE  DOMAIN in' = InputFields /\ in'.vram = in.vram
<1>1. CASE Raster
  <2>1. CASE \E g \in Pages : in' = [in EXCEPT !.page = g]
    BY <2>1 DEF InputFields
  <2>2. CASE \E y \in Screens : in' = [in EXCEPT !.screen = y]
    BY <2>2 DEF InputFields
  <2>3. CASE \E k \in Blocks, v \in Values : in' = [in EXCEPT !.cgram[k] = v]
    BY <2>3 DEF InputFields
  <2>4. CASE \E k \in Blocks : in' = [in EXCEPT !.oam = k]
    BY <2>4 DEF InputFields
  <2>5. CASE \E x \in varying \cap {"common", "light", "captured", "mask"}, v \in Values :
               in' = [in EXCEPT ![x] = v]
    BY <2>5 DEF InputFields
  <2>6. CASE \E x \in varying \cap {"math", "slot"}, f \in BOOLEAN : in' = [in EXCEPT ![x] = f]
    BY <2>6 DEF InputFields
  <2> QED
    BY <1>1, <2>1, <2>2, <2>3, <2>4, <2>5, <2>6 DEF Raster
<1>2. CASE HostChanges
  BY <1>2 DEF HostChanges, InputFields
<1>3. CASE Frame
  BY <1>3 DEF Frame, InputFields
<1> QED
  BY <1>1, <1>2, <1>3

\* Starting a frame or resetting the PPU takes nothing for compared that is not.
LEMMA PlanesMarked ==
  ASSUME NEW b, BackgroundOK(b), NEW l, LayerOK(l)
  PROVE  /\ BackgroundOK(BackgroundBegun(b)) /\ BackgroundOK(BackgroundReset(b))
         /\ LayerOK([l EXCEPT !.checked = FALSE])
         /\ LayerOK([l EXCEPT !.checked = FALSE, !.memory = FALSE])
<1>1. ASSUME NEW d, DOMAIN d = BackgroundFields,
             \A x \in BackgroundFields \ {"checked", "memory"} : d[x] = b[x]
      PROVE  BackgroundOK(d)
  <2>1. /\ d.counted = b.counted /\ d.snapshot = b.snapshot /\ d.valid = b.valid
        /\ d.key = b.key /\ d.objects = b.objects /\ d.pages = b.pages
        /\ d.indices = b.indices /\ d.rgb = b.rgb /\ d.row = b.row /\ d.rgbValid = b.rgbValid
        /\ d.palette = b.palette /\ d.light = b.light /\ d.captured = b.captured
        /\ d.capture = b.capture /\ d.banks = b.banks
        /\ d.capturePalette = b.capturePalette /\ d.captureLight = b.captureLight
    BY <1>1 DEF BackgroundFields
  <2>2. BackgroundShape(d)
    BY <1>1, <2>1 DEF BackgroundOK, BackgroundShape
  <2>3. d.valid => IndicesKept(d)
    BY <2>1 DEF BackgroundOK, IndicesKept
  <2>4. \A g \in d.capture : PlaneKept(d, g)
    BY <2>1 DEF BackgroundOK, PlaneKept
  <2>5. d.rgbValid => d.capture = {} /\ RowKept(d)
    BY <2>1 DEF BackgroundOK, RowKept
  <2> QED
    BY <2>1, <2>2, <2>3, <2>4, <2>5 DEF BackgroundOK
<1>2. BackgroundOK(BackgroundBegun(b)) /\ BackgroundOK(BackgroundReset(b))
  <2>1. DOMAIN b = BackgroundFields
    BY DEF BackgroundOK, BackgroundShape
  <2> QED
    BY <1>1, <2>1 DEF BackgroundBegun, BackgroundReset
<1>3. /\ LayerOK([l EXCEPT !.checked = FALSE])
      /\ LayerOK([l EXCEPT !.checked = FALSE, !.memory = FALSE])
  BY DEF LayerOK, LayerFields
<1> QED
  BY <1>2, <1>3

LEMMA PlanesStep == ASSUME PlanesInductive, [PixelNext]_pixelVars PROVE PlanesInductive'
<1>1. CASE Raster \/ HostChanges
  <2>1. DOMAIN in' = InputFields /\ in'.vram = in.vram
    BY <1>1, InputStep DEF PlanesInductive
  <2>2. whole' = whole /\ plane' = plane
    BY <1>1 DEF Raster, HostChanges
  <2> QED
    BY <2>1, <2>2, PlanesNext DEF PlanesInductive
<1>2. CASE VramWritten
  <2>1. DOMAIN in' = InputFields
    BY <1>2 DEF VramWritten, PlanesInductive, InputFields
  <2>2. whole' = [whole EXCEPT !.counted = FALSE] /\ plane' = [plane EXCEPT !.counted = FALSE]
    BY <1>2 DEF VramWritten
  <2> DEFINE b == whole'  l == plane'
  <2>3. /\ DOMAIN b = BackgroundFields /\ b.counted = FALSE
        /\ b.snapshot = whole.snapshot /\ b.valid = whole.valid
        /\ b.key = whole.key /\ b.objects = whole.objects /\ b.pages = whole.pages
        /\ b.indices = whole.indices /\ b.rgb = whole.rgb /\ b.row = whole.row
        /\ b.rgbValid = whole.rgbValid /\ b.palette = whole.palette /\ b.light = whole.light
        /\ b.captured = whole.captured /\ b.capture = whole.capture /\ b.banks = whole.banks
        /\ b.capturePalette = whole.capturePalette /\ b.captureLight = whole.captureLight
    BY <2>2 DEF PlanesInductive, BackgroundOK, BackgroundShape, BackgroundFields
  <2>4. /\ DOMAIN l = LayerFields /\ l.counted = FALSE /\ l.snapshot = plane.snapshot
        /\ l.valid = plane.valid /\ l.key = plane.key /\ l.pages = plane.pages
        /\ l.pixels = plane.pixels
    BY <2>2 DEF PlanesInductive, LayerOK, LayerFields
  <2> HIDE DEF b, l
  <2>5. BackgroundShape(b)
    BY <2>3 DEF PlanesInductive, BackgroundOK, BackgroundShape
  <2>6. /\ b.valid => IndicesKept(b)
        /\ \A g \in b.capture : PlaneKept(b, g)
        /\ b.rgbValid => b.capture = {} /\ RowKept(b)
    BY <2>3 DEF PlanesInductive, BackgroundOK, IndicesKept, PlaneKept, RowKept
  <2>7. BackgroundOK(whole)'
    BY <2>3, <2>5, <2>6 DEF BackgroundOK, b
  <2>8. LayerOK(plane)'
    BY <2>4 DEF PlanesInductive, LayerOK, l
  <2> QED
    BY <2>1, <2>7, <2>8 DEF PlanesInductive
<1>3. CASE Frame
  <2>1. DOMAIN in' = InputFields /\ in'.vram = in.vram
    BY <1>3, InputStep DEF PlanesInductive
  <2>2. whole' = BackgroundBegun(whole) /\ plane' = [plane EXCEPT !.checked = FALSE]
    BY <1>3 DEF Frame
  <2>3. BackgroundOK(whole') /\ LayerOK(plane')
    BY <2>2, PlanesMarked DEF PlanesInductive
  <2> QED
    BY <2>1, <2>3, PlanesNext DEF PlanesInductive
<1>4. CASE Reset
  <2>1. /\ whole' = BackgroundReset(whole) /\ in' = in
        /\ plane' = [plane EXCEPT !.checked = FALSE, !.memory = FALSE]
    BY <1>4 DEF Reset
  <2>2. BackgroundOK(whole') /\ LayerOK(plane')
    BY <2>1, PlanesMarked DEF PlanesInductive
  <2> QED
    BY <2>1, <2>2, PlanesNext DEF PlanesInductive
<1>5. CASE DrawInCore
  <2>1. /\ in' = in
        /\ whole' = whole \/ \E native \in BOOLEAN : whole' = BackgroundRow(whole, native)
        /\ plane' = plane \/ plane' = LayerRow(plane)
    BY <1>5 DEF DrawInCore
  <2>2. BackgroundOK(whole') /\ LayerOK(plane')
    BY <2>1, BackgroundRowKeeps, LayerRowKeeps DEF PlanesInductive
  <2> QED
    BY <2>1, <2>2, PlanesNext DEF PlanesInductive
<1>6. CASE Bind \/ Unbind \/ DrawRow \/ OtherRow \/ DrawUnrecorded \/ UNCHANGED pixelVars
  <2>1. in' = in /\ whole' = whole /\ plane' = plane
    BY <1>6 DEF Bind, Unbind, DrawRow, OtherRow, DrawUnrecorded, pixelVars
  <2> QED
    BY <2>1, PlanesNext DEF PlanesInductive
<1> QED
  BY <1>1, <1>2, <1>3, <1>4, <1>5, <1>6 DEF PixelNext

LEMMA PlanesInit == ASSUME PixelInit PROVE PlanesInductive
<1>1. DOMAIN in = InputFields
  BY RowsInit DEF RowsInductive, InputOK
<1>2. whole = EmptyBackground /\ plane = EmptyLayer
  BY DEF PixelInit
<1>3. BackgroundOK(whole)
  BY <1>2 DEF EmptyBackground, BackgroundOK, BackgroundShape, BackgroundFields
<1>4. LayerOK(plane)
  BY <1>2 DEF EmptyLayer, LayerOK, LayerFields
<1> QED
  BY <1>1, <1>3, <1>4 DEF PlanesInductive

\* Whatever is written, reset or drawn between two rows, the indices, planes and
\* rows of colours that the core takes from its own caches are those that it
\* would draw now (Lufia2PpuBackgroundCacheRead, Lufia2PpuLayerCacheRead).
THEOREM CorePlanesAreExact == PixelSpec => []PlanesExact
<1>1. PlanesInductive /\ [PixelNext]_pixelVars => PlanesInductive'
  BY PlanesStep
<1>2. PixelSpec => []PlanesInductive
  BY <1>1, PlanesInit, PTL DEF PixelSpec
<1>3. PlanesInductive => PlanesExact
  BY BackgroundIsExact, LayerIsExact DEF PlanesInductive, PlanesExact
<1> QED
  BY <1>2, <1>3, PTL
=============================================================================
