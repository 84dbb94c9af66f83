------------------------------ MODULE VideoHandoff ------------------------------
(***************************************************************************)
(* The bridge between a wide scene and a 4:3 one                           *)
(* (src/src/lufia2_video_handoff.c), as src/src/main.c drives it frame by  *)
(* frame: the last plain wide picture is kept, its edges are held beside   *)
(* the frames of a fade, and a mosaic or a split scroll is drawn from it.  *)
(*                                                                         *)
(* The guest decides scene, brightness, mosaic and scroll.  One scroll     *)
(* stands for the two directions, and of the mosaic only whether there is  *)
(* one.                                                                    *)
(***************************************************************************)
EXTENDS Integers, FiniteSetsExt

CONSTANTS
  Rows,      \* of the picture
  MaxLevel,  \* of the brightness, 15
  Period,    \* of the scroll, PPU_SCROLL_PERIOD
  MaxEffect  \* LUFIA2_VIDEO_HANDOFF_MAX_EFFECT_FRAMES, 180

ASSUME LevelAssumption == {MaxLevel, MaxEffect, Period} \subseteq Nat \ {0}

Level == 0 .. MaxLevel
Scroll == 0 .. Period - 1
Wide == {"wide", "effects", "map"}
Scene == Wide \cup {"own", "loading"}

VARIABLES
  phase,        \* of the frame: prepare, draw or compose
  h,            \* the Lufia2VideoHandoff
  widescreen,   \* g_config.widescreen; there are margins
  battleLayout, \* s_current_video_layout is that of a battle
  drawn,        \* external: the scroll each row was drawn with, where a line
    \* history tells
  shown,        \* what the last composed frame shows of the saved picture
  savedDrawn, black, stale  \* history: of the saved picture, the scroll of its
    \* rows and whether the screen has been black since; the frames in
    \* succession whose centre came from it

vars == <<phase, h, widescreen, battleLayout, drawn, shown, savedDrawn, black, stale>>

RowScroll == [Rows -> Scroll]
Handoff ==
  [scene : Scene, previousWide : BOOLEAN, tracks : BOOLEAN, full : BOOLEAN,
   valid : BOOLEAN, holding : BOOLEAN, effect : BOOLEAN,
   level : Level, savedLevel : Level, held : Level,
   scroll : Scroll, savedScroll : Scroll, effectFrames : 0 .. MaxEffect,
   lines : BOOLEAN, savedLines : BOOLEAN,   \* the counts: none or all
   lineScroll : RowScroll, savedLineScroll : RowScroll]

Still == [y \in Rows |-> 0]
Nothing == [centre |-> FALSE, edges |-> FALSE, level |-> 0, shift |-> Still]

\* Lufia2VideoHandoffReset.
Cleared ==
  [scene |-> "own", previousWide |-> FALSE, tracks |-> FALSE, full |-> FALSE,
   valid |-> FALSE, holding |-> FALSE, effect |-> FALSE,
   level |-> 0, savedLevel |-> 0, held |-> 0,
   scroll |-> 0, savedScroll |-> 0, effectFrames |-> 0,
   lines |-> FALSE, savedLines |-> FALSE,
   lineScroll |-> Still, savedLineScroll |-> Still]

Init ==
  /\ phase = "prepare" /\ h = Cleared
  /\ widescreen \in BOOLEAN /\ battleLayout = FALSE
  /\ drawn = Still /\ shown = Nothing
  /\ savedDrawn = Still /\ black = FALSE /\ stale = 0

-----------------------------------------------------------------------------
(* Observing the frame.                                                    *)

\* Mistake: the edges follow the frame's brightness up as well as down.
HeldEitherWay(g, scene, level) ==
  IF scene \in Wide THEN [g EXCEPT !.holding = FALSE]
  ELSE IF g.holding
  THEN IF level = 0 \/ (level > g.held /\ scene # "loading")
       THEN [g EXCEPT !.holding = FALSE] ELSE [g EXCEPT !.held = level]
  ELSE IF g.valid /\ g.previousWide /\ g.savedLevel > 0 /\ level > 0
  THEN [g EXCEPT !.holding = TRUE, !.held = Min({level, g.savedLevel})]
  ELSE g

\* A hold begins with the first lit 4:3 frame after a lit wide one, follows the
\* fade down, and ends when a scene arrives.
Held(g, scene, level) ==
  IF scene \in Wide THEN [g EXCEPT !.holding = FALSE]
  ELSE IF g.holding
  THEN IF level = 0 \/ (level > g.held /\ scene # "loading")
       THEN [g EXCEPT !.holding = FALSE] ELSE [g EXCEPT !.held = Min({level, @})]
  ELSE IF g.valid /\ g.previousWide /\ g.savedLevel > 0 /\ level > 0
  THEN [g EXCEPT !.holding = TRUE, !.held = Min({level, g.savedLevel})]
  ELSE g

\* Lufia2VideoHandoffObserve; without lines the old ones are dead.
Observed(g, scene, level, mosaic, scroll) ==
  [Held(g, scene, level) EXCEPT
     !.scene = scene, !.level = level, !.scroll = scroll,
     !.lines = FALSE, !.lineScroll = Still, !.effect = mosaic,
     !.previousWide = scene \in Wide /\ level > 0]

\* The layouts that the policy may choose: a battle owns its frames, and under
\* a forced blank the layout before is kept.
Scenes(battle, level) ==
  IF ~widescreen THEN {"own"}
  ELSE IF battle THEN {"effects"}
  ELSE (Scene \ {"effects"}) \cup
       (IF battleLayout /\ level = 0 THEN {"effects"} ELSE {})

\* PrepareVideoFrame, with Lufia2BattleWidescreenHandoff.
PrepareFrame ==
  /\ phase = "prepare" /\ phase' = "draw"
  /\ \E battle \in BOOLEAN, level \in Level, mosaic \in BOOLEAN, scroll \in Scroll :
     \E scene \in Scenes(battle, level) :
       /\ h' = Observed(IF battle # battleLayout THEN Cleared ELSE h,
                        scene, level, mosaic, scroll)
       /\ battleLayout' = (scene = "effects")
       /\ black' = (black \/ level = 0)
  /\ UNCHANGED <<widescreen, drawn, shown, savedDrawn, stale>>

\* Lufia2VideoHandoffObserveRaster.
Rastered(g, rows, mosaic) ==
  [g EXCEPT !.lines = TRUE, !.lineScroll = rows,
            !.effect = \/ @ \/ mosaic
                       \/ g.scene # "effects" /\ \E y, z \in Rows : rows[y] # rows[z]]

\* Lufia2DrawPpuFrame, then ObserveHandoffRaster unless there is no line history.
DrawFrame ==
  /\ phase = "draw" /\ phase' = "compose"
  /\ \/ drawn' = Still /\ UNCHANGED h
     \/ drawn' \in RowScroll /\ \E mosaic \in BOOLEAN : h' = Rastered(h, drawn', mosaic)
  /\ UNCHANGED <<widescreen, battleLayout, shown, savedDrawn, black, stale>>

-----------------------------------------------------------------------------
(* Composing the frame.                                                    *)

\* The scroll wraps: the shorter way around.
ScrollDelta(current, before) ==
  LET delta == (current - before) % Period IN
  IF delta >= Period \div 2 THEN delta - Period ELSE delta

\* Mistake: the saved lines are used though the saved picture had none.
RowShiftAnyLines(g, y) ==
  IF ~g.tracks THEN 0
  ELSE IF g.lines THEN ScrollDelta(g.lineScroll[y], g.savedLineScroll[y])
  ELSE ScrollDelta(g.scroll, g.savedScroll)

\* ResolveRow.
RowShift(g, y) ==
  IF ~g.tracks THEN 0
  ELSE IF g.lines /\ g.savedLines
  THEN ScrollDelta(g.lineScroll[y], g.savedLineScroll[y])
  ELSE ScrollDelta(g.scroll, g.savedScroll)

\* Mistake: a hold renews the budget.
SpentRenewed(g) ==
  [g EXCEPT !.effectFrames = IF ~g.effect \/ g.holding THEN 0 ELSE Min({@ + 1, MaxEffect})]

\* SpendEffectBudget.
Spent(g) ==
  [g EXCEPT !.effectFrames = IF ~g.effect THEN 0 ELSE Min({@ + 1, MaxEffect})]

\* SaveScrollSource.
SavedFrame(g) ==
  [g EXCEPT !.valid = TRUE, !.savedLevel = g.level,
            !.tracks = (g.scene = "map"), !.full = (g.scene = "effects"),
            !.savedScroll = g.scroll, !.savedLines = g.lines,
            !.savedLineScroll = IF g.lines THEN g.lineScroll ELSE @]

\* ComposeFrom and Lufia2VideoHandoffApply; without margins it does nothing.
ComposeFrame ==
  /\ phase = "compose" /\ phase' = "prepare"
  /\ LET g == IF widescreen THEN Spent(h) ELSE h
         raster == g.effect /\ g.effectFrames < MaxEffect
         ready == raster /\ g.valid /\ g.savedLevel > 0 /\ (g.tracks \/ g.full)
         blit == widescreen /\ (g.holding \/ (g.scene \in Wide /\ ready))
         save == /\ widescreen /\ ~blit
                 /\ g.scene \in Wide /\ g.level > 0 /\ ~g.effect
     IN /\ h' = IF save THEN SavedFrame(g) ELSE g
        /\ savedDrawn' = IF save THEN drawn ELSE savedDrawn
        /\ black' = (black /\ ~save)
        /\ shown' = IF blit
                    THEN [centre |-> ready, edges |-> TRUE,
                          level |-> IF g.holding THEN g.held ELSE g.level,
                          shift |-> [y \in Rows |-> RowShift(g, y)]]
                    ELSE Nothing
        /\ stale' = IF ~(blit /\ ready) THEN 0 ELSE Min({stale + 1, MaxEffect})
  /\ UNCHANGED <<widescreen, battleLayout, drawn>>

\* HandleHostCommand: the saved picture has the other width.
ToggleWidescreen ==
  /\ phase = "prepare"
  /\ widescreen' = ~widescreen /\ h' = Cleared
  /\ UNCHANGED <<phase, battleLayout, drawn, shown, savedDrawn, black, stale>>

\* InvalidateDerivedHostState.
RestoreState ==
  /\ phase = "prepare"
  /\ h' = Cleared /\ battleLayout' = FALSE
  /\ UNCHANGED <<phase, widescreen, drawn, shown, savedDrawn, black, stale>>

Next ==
  PrepareFrame \/ DrawFrame \/ ComposeFrame \/ ToggleWidescreen \/ RestoreState

Spec == Init /\ [][Next]_vars

-----------------------------------------------------------------------------
(* Properties.                                                             *)

TypeOK ==
  /\ phase \in {"prepare", "draw", "compose"}
  /\ h \in Handoff /\ {widescreen, battleLayout, black} \subseteq BOOLEAN
  /\ {drawn, savedDrawn} \subseteq RowScroll /\ stale \in 0 .. MaxEffect
  /\ shown.level \in Level /\ shown.shift \in [Rows -> -Period .. Period]

\* The edges of a hold are never brighter than the picture between them, nor
\* than the one they were cut from, and never black.
HeldInside ==
  h.holding => h.held > 0 /\ h.held <= h.level /\ h.held <= h.savedLevel

\* A bridge follows a scene out: as long as it is held it only gets darker.
FadesOut ==
  [][h.holding /\ h'.holding => h'.held <= h.held]_vars

\* An effect that never ends, a standing split of the scroll, falls back to the
\* live frame: the saved picture never fills MaxEffect frames in succession.
EffectEnds == stale < MaxEffect

\* Whatever is shown of the saved picture lies where its part of the map now
\* is, row by row where both pictures' rows are known.
RowsAligned ==
  LET at(y) == IF h.lines /\ h.savedLines THEN drawn[y] ELSE h.scroll
      was(y) == IF h.lines /\ h.savedLines THEN savedDrawn[y] ELSE h.savedScroll
  IN phase = "prepare" /\ shown.edges /\ h.tracks =>
       \A y \in Rows : (was(y) + shown.shift[y]) % Period = at(y)

\* What follows a black frame is a new scene and is never bridged from the
\* picture saved before it.
NoOldBridge == h.holding => ~black

\* The centre of the saved picture is never presented.
CentreLive == ~shown.centre
=============================================================================
