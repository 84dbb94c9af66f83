---------------------------- MODULE PixelCaches ----------------------------
(***************************************************************************)
(* The caches of drawn rows and who uses them.  One user is looked at in a *)
(* behaviour, as their caches share nothing but the inputs:                *)
(*                                                                         *)
(*   menu        the primitives of a menu, several passes in one row       *)
(*               (lufia2_menu_ui.c)                                        *)
(*   highlight   the same background over a copy of VRAM in which the      *)
(*               selected party member's colours are put back              *)
(*   hud, scene  the two kinds of rows of a battle                         *)
(*               (lufia2_battle_effects.c), drawn live or for a prepared   *)
(*               job, which binds policies of its own                      *)
(*   background, layer   the caches inside the core's drawing              *)
(*                                                                         *)
(* Everything the row is drawn from may change at any time between two     *)
(* draws, and any row of the cache may be drawn any number of times.       *)
(***************************************************************************)
EXTENDS RowCache, BackgroundCache

CONSTANTS
  Users,
  Varied      \* bound: how many of the inputs change in one behaviour

VARIABLES
  user,
  varying,  \* the inputs that change
  rows,     \* the row cache
  renderer, \* s_row_cache_renderer, s_highlight_renderer, s_hud_renderer
  lent,     \* s_highlight_vram
  job,      \* what is bound: s_row_policy, s_pixel_policy
  seen,     \* s_cached_pixel_policy
  input,    \* s_scene_inputs of the row
  again,    \* s_scene_seen of the row
  whole, plane,  \* the core's caches
  recovered \* history: an effect was on as the row kept was drawn again for a
            \* frame that was recovered row by row

pixelVars ==
  <<in, user, varying, rows, renderer, lent, job, seen, input, again, whole, plane, recovered>>

EmptyView ==
  [valid |-> FALSE, checked |-> FALSE, counted |-> FALSE, source |-> None, slot |-> FALSE,
   pixels |-> None]
NoPolicy == [valid |-> FALSE, scripts |-> FALSE, actors |-> None]
NoInput == [sprites |-> None, mask |-> None, backgrounds |-> None]

Battle == {"hud", "scene"}
RowUsers == {"menu", "highlight", "hud", "scene"}

\* What there is to change for a user; what the row cache does for all of them
\* in the same way, with one of them
InputsOf(u) ==
  CASE u = "menu" ->
         {"page", "screen", "math", "cgram", "oam", "vram1", "vram2", "common", "policy", "draw"}
    [] u = "highlight" -> {"screen", "cgram", "oam", "vram1", "vram2", "width", "draw", "slot"}
    [] u = "hud" -> {"cgram", "oam", "vram1", "vram2", "policy", "scripts", "actors"}
    [] u = "scene" -> {"screen", "cgram", "oam", "vram1", "vram2", "scripts", "mask"}
    [] u = "background" ->
         {"page", "screen", "cgram", "oam", "vram1", "vram2", "common", "policy",
          "light", "captured", "math"}
    [] u = "layer" -> {"page", "screen", "oam", "vram1", "vram2", "common"}

PixelInit ==
  /\ user \in Users
  /\ varying \in kSubset(Varied, InputsOf(user))
  /\ \E s \in Screens, m \in IF user = "background" THEN BOOLEAN ELSE {FALSE} :
     LET v == CHOOSE x \in Values : TRUE
     IN  in =
          [width |-> v, policy |-> v, common |-> v, light |-> v, draw |-> v,
           page |-> 1, vram |-> [g \in Pages |-> 0], cgram |-> [k \in Blocks |-> v],
           oam |-> 0, screen |-> s, math |-> m, captured |-> v, slot |-> FALSE,
           scripts |-> FALSE, actors |-> v, mask |-> v]
  /\ rows = EmptyRow /\ renderer = None /\ lent = EmptyView
  /\ job = [row |-> FALSE, pixel |-> FALSE] /\ seen = NoPolicy
  /\ input = NoInput /\ again = FALSE
  /\ whole = EmptyBackground /\ plane = EmptyLayer
  /\ recovered = FALSE

-----------------------------------------------------------------------------
(* The inputs                                                              *)

\* The raster and the guest change what is drawn, and with what.
Raster ==
  /\ \/ "page" \in varying /\ \E g \in Pages : in' = [in EXCEPT !.page = g]
     \/ "screen" \in varying /\ \E s \in Screens : in' = [in EXCEPT !.screen = s]
     \/ "cgram" \in varying /\ \E k \in Blocks, v \in Values : in' = [in EXCEPT !.cgram[k] = v]
     \/ "oam" \in varying /\ \E k \in Blocks : in' = [in EXCEPT !.oam = k]
     \/ \E x \in varying \cap {"common", "light", "captured", "mask"}, v \in Values :
          in' = [in EXCEPT ![x] = v]
     \/ \E x \in varying \cap {"math", "slot"}, f \in BOOLEAN : in' = [in EXCEPT ![x] = f]
  /\ UNCHANGED <<user, varying, rows, renderer, lent, job, seen, input, again,
                 whole, plane, recovered>>

\* A write to VRAM, or a row that is drawn from another one's VRAM
VramWritten ==
  /\ \E g \in Pages, k \in Blocks :
       /\ <<"vram1", "vram2">>[g] \in varying
       /\ in' = [in EXCEPT !.vram[g] = k]
  /\ rows' = [rows EXCEPT !.counted = FALSE]
  /\ lent' = [lent EXCEPT !.counted = FALSE]
  /\ whole' = [whole EXCEPT !.counted = FALSE] /\ plane' = [plane EXCEPT !.counted = FALSE]
  /\ UNCHANGED <<user, varying, renderer, job, seen, input, again, recovered>>

\* The host's own decisions; a job's policies are copies and do not change.
HostChanges ==
  /\ \/ "policy" \in varying /\ ~job.row /\ \E v \in Values : in' = [in EXCEPT !.policy = v]
     \/ "draw" \in varying /\ \E v \in Values : in' = [in EXCEPT !.draw = v]
     \/ "scripts" \in varying /\ ~job.pixel /\ \E f \in BOOLEAN : in' = [in EXCEPT !.scripts = f]
     \/ "actors" \in varying /\ ~job.pixel /\ \E v \in Values : in' = [in EXCEPT !.actors = v]
  /\ UNCHANGED <<user, varying, rows, renderer, lent, job, seen, input, again,
                 whole, plane, recovered>>

-----------------------------------------------------------------------------
(* Frames and jobs                                                         *)

\* MenuPrepare and Lufia2BattleEffectsRestartPixels; ppu_runLine at line 0
Frame ==
  /\ \E v \in IF "width" \in varying THEN Values ELSE {in.width} : in' = [in EXCEPT !.width = v]
  /\ rows' = Begun(rows) /\ lent' = [lent EXCEPT !.checked = FALSE] /\ again' = FALSE
  /\ whole' = BackgroundBegun(whole) /\ plane' = [plane EXCEPT !.checked = FALSE]
  /\ UNCHANGED <<user, varying, renderer, job, seen, input, recovered>>

\* ppu_reset; and the same for a row that the core draws for another PPU
Reset ==
  /\ user \in {"background", "layer"}
  /\ whole' = BackgroundReset(whole) /\ plane' = [plane EXCEPT !.checked = FALSE, !.memory = FALSE]
  /\ UNCHANGED <<in, user, varying, rows, renderer, lent, job, seen, input, again, recovered>>

\* Lufia2BattlePpuJobPrepareRecordedRows binds the policies of a prepared job,
\* Lufia2PpuOffloadFallback those of the pixels alone. The rows were drawn for
\* the policy that was bound last; a scene's row has a certificate of its own
\* for the sprites (Lufia2BattleEffectsBindPixelPolicy).
Bind ==
  /\ user \in Battle /\ ~job.pixel
  /\ \E row \in BOOLEAN : job' = [row |-> row, pixel |-> TRUE]
  /\ LET same == seen.valid /\ seen.scripts = in.scripts
                 /\ (in.scripts => seen.actors = in.actors)
         preserved == user = "scene" /\ seen.valid /\ seen.scripts = in.scripts
     IN  /\ seen' = IF same THEN seen
                    ELSE [valid |-> TRUE, scripts |-> in.scripts, actors |-> in.actors]
         /\ rows' = [IF same \/ preserved THEN rows ELSE Forgotten(rows)
                    EXCEPT !.policyChecked = @ /\ ~job'.row]
  /\ UNCHANGED <<in, user, varying, renderer, lent, input, again, whole, plane, recovered>>

Unbind ==
  /\ user \in Battle /\ job.pixel
  /\ job' = [row |-> FALSE, pixel |-> FALSE]
  /\ rows' = [rows EXCEPT !.policyChecked = @ /\ ~job.row]
  /\ UNCHANGED <<in, user, varying, renderer, lent, seen, input, again, whole, plane, recovered>>

-----------------------------------------------------------------------------
(* The users' look-ups, each as the cache that its look leaves behind      *)

Objects == Obj \in in.screen
Extra == IF 1 \in in.screen THEN {Art} ELSE {}

\* A pass shows the second background and a plane; the last pass, which shows no
\* plane, is as any of them where its plane is off. The sprites may be on the sub
\* screen too, and colour math then adds them to every pass.
Plane == <<{1}, {Obj}>>
Main(p) == in.screen \cap ({2} \cup Plane[p])
Sub == IF in.math THEN {Obj} ELSE {}
PassReads(p) == Main(p) \cup Sub
SameRenderer == renderer = in.draw
MenuLook(p) ==
  Looked(IF SameRenderer THEN rows ELSE Forgotten(rows), p, PassReads(p) \cap BGs,
         Obj \in PassReads(p), {}, in.vram, Main(p))

\* PrepareHighlightVram: the copy is made anew if VRAM or the selection has
\* changed, and then has to be compared again.
Cleaned(vram) == IF in.slot THEN [vram EXCEPT ![2] = 1] ELSE vram
ViewChanged ==
  \/ ~lent.valid
  \/ ~(lent.checked /\ lent.counted) /\ lent.source # in.vram
  \/ lent.slot # in.slot
ViewSource == IF lent.checked /\ lent.counted THEN lent.source ELSE in.vram
View ==
  [lent EXCEPT !.source = ViewSource, !.checked = TRUE, !.counted = TRUE, !.valid = TRUE,
               !.slot = in.slot,
               !.pixels = IF ViewChanged THEN Cleaned(ViewSource) ELSE @]
HighlightLook ==
  LET d == IF ViewChanged THEN Begun(rows) ELSE rows
  IN  Looked(IF SameRenderer THEN d ELSE Forgotten(d), 1, in.screen \cap {2}, FALSE, {},
             View.pixels, in.screen \cap {2})

\* RowsRecorded; DrawHudSource
Eligible == ~in.scripts \/ job.pixel
HudLook ==
  LET d == IF SameRenderer THEN rows ELSE Forgotten(rows)
  IN  Looked(PolicyBound(d, job.row), 1, in.screen \cap BGs, Objects, Extra, in.vram, in.screen)

\* Lufia2BattleEffectsReadRow: what the raster made of the sprites is compared
\* as it is (CertifySceneObjects), and the mask if an effect is on.
InputSame == input.sprites = SpriteRow /\ (in.scripts => input.mask = in.mask)
InputNow ==
  IF Objects /\ ~InputSame
    THEN [input EXCEPT !.sprites = SpriteRow, !.mask = IF in.scripts THEN in.mask ELSE @]
    ELSE input
SceneLook ==
  LET d == IF again THEN Begun(rows) ELSE rows
      e == IF Objects /\ ~InputSame THEN Forgotten(d) ELSE d
  IN  Looked(PolicyBound(e, job.row), 1, in.screen \cap BGs, FALSE,
             Extra \cup (IF Objects THEN {in.oam} ELSE {}), in.vram, in.screen)

Look(p) ==
  CASE user = "menu" -> MenuLook(p)
    [] user = "highlight" -> HighlightLook
    [] user = "hud" -> HudLook
    [] user = "scene" -> SceneLook

\* What the user's draw of a pass gives
BattleColours ==
  [row |-> Colours(in.screen, in.vram),
   art |-> IF 1 \in in.screen THEN in.cgram[Art] ELSE None]
Drawn(p) ==
  CASE user = "menu" -> <<Main(p), Colours(PassReads(p), in.vram)>>
    [] user = "highlight" -> Colours(in.screen \cap {2}, Cleaned(in.vram))
    [] user = "hud" -> <<BattleColours, IF in.scripts THEN in.actors ELSE None>>
    [] user = "scene" -> <<BattleColours, IF in.scripts /\ Objects THEN in.mask ELSE None>>
SceneBackgrounds ==
  <<[g \in BGs \cap in.screen |-> Indices(g, in.vram)], in.policy, in.common, in.width>>

-----------------------------------------------------------------------------
(* Rows                                                                    *)

UserPasses == IF user = "menu" THEN Passes ELSE {1}
CanLook == user \in Battle => Eligible

\* The policy that the rows are drawn for is lost where they are drawn for none.
SeenBy(drawing) == IF job.pixel \/ ~drawing THEN seen ELSE [seen EXCEPT !.valid = FALSE]

\* Lufia2PpuOffloadFallback's drawing: the pixels' policy without the row's
Recovering == job.pixel /\ ~job.row

\* The row is looked up, drawn if it is not there, and kept.
DrawRow ==
  /\ user \in RowUsers /\ CanLook
  /\ \E p \in UserPasses :
       /\ rows' = IF Serves(Look(p), p) THEN Look(p) ELSE Stored(Look(p), Drawn(p))
       /\ input' = IF user # "scene" THEN input
                   ELSE IF Look(p).pending = p
                          THEN [InputNow EXCEPT !.backgrounds = SceneBackgrounds]
                          ELSE InputNow
       /\ recovered' = IF Look(p).pending = p THEN Recovering /\ in.scripts ELSE recovered
  /\ renderer' = IF user = "scene" THEN renderer ELSE in.draw
  /\ lent' = IF user = "highlight" THEN View ELSE lent
  /\ again' = (user = "scene")
  /\ seen' = SeenBy(user \in Battle)
  /\ UNCHANGED <<in, user, varying, job, whole, plane>>

\* Another row of the same cache comes first: all rows are compared with VRAM.
OtherRow ==
  /\ user \in RowUsers /\ CanLook
  /\ LET d == IF user = "scene" \/ SameRenderer THEN rows ELSE Forgotten(rows)
         e == IF user = "highlight" /\ ViewChanged THEN Begun(d) ELSE d
         f == IF user \in Battle THEN PolicyBound(e, job.row) ELSE e
     IN  rows' = IF f.disabled THEN f
              ELSE Compared(f, IF user = "highlight" THEN View.pixels ELSE in.vram)
  /\ renderer' = IF user = "scene" THEN renderer ELSE in.draw
  /\ lent' = IF user = "highlight" THEN View ELSE lent
  /\ seen' = SeenBy(user \in Battle)
  /\ UNCHANGED <<in, user, varying, job, input, again, whole, plane, recovered>>

\* A row that no cache may keep: RowsRecorded has been asked all the same.
DrawUnrecorded ==
  /\ user \in Battle /\ ~CanLook
  /\ seen' = SeenBy(TRUE)
  /\ UNCHANGED <<in, user, varying, rows, renderer, lent, job, input, again,
                 whole, plane, recovered>>

DrawInCore ==
  /\ \/ /\ user = "background"
        /\ \E native \in BOOLEAN : whole' = BackgroundRow(whole, native)
        /\ UNCHANGED plane
     \/ user = "layer" /\ plane' = LayerRow(plane) /\ UNCHANGED whole
  /\ UNCHANGED <<in, user, varying, rows, renderer, lent, job, seen, input, again, recovered>>

PixelNext ==
  \/ Raster \/ VramWritten \/ HostChanges \/ Frame \/ Reset
  \/ Bind \/ Unbind
  \/ DrawRow \/ OtherRow \/ DrawUnrecorded \/ DrawInCore

PixelSpec == PixelInit /\ [][PixelNext]_pixelVars

-----------------------------------------------------------------------------
(* The properties                                                          *)

\* A row that is served is the row a draw would give now: the certificates hold
\* everything the pixels depend on.
RowsAlwaysExact ==
  user \in RowUsers /\ CanLook =>
    \A p \in UserPasses :
      Serves(Look(p), p) =>
        /\ Look(p).pixels[p] = Drawn(p)
        /\ user = "scene" => InputNow.backgrounds = SceneBackgrounds

\* But for one thing that only a recovered frame leaves behind: a row that it
\* drew with an effect on may be served after it, where no policy is bound, with
\* that effect. Its colours and its backgrounds are those of now all the same.
OldEffect(p) == recovered /\ ~job.pixel /\ Look(p).pixels[p][1] = Drawn(p)[1]
RowsExact ==
  user \in RowUsers /\ CanLook =>
    \A p \in UserPasses :
      Serves(Look(p), p) =>
        /\ Look(p).pixels[p] = Drawn(p) \/ OldEffect(p)
        /\ user = "scene" => InputNow.backgrounds = SceneBackgrounds

\* What the core takes from its own two caches instead of drawing it, indices,
\* planes or a whole row of colours, is what drawing would give.
PlanesExact ==
  /\ user = "background" => BackgroundExact(whole)
  /\ user = "layer" => LayerExact(plane)
=============================================================================
