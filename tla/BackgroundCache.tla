-------------------------- MODULE BackgroundCache --------------------------
(***************************************************************************)
(* The caches inside the core's own drawing of a menu's row: the palette   *)
(* indices of the whole row, with two kinds of colours made of them that   *)
(* are kept in the same place (lufia2_ppu_background_cache.h), and the     *)
(* indices of a single plane (lufia2_ppu_layer_cache.h).  As operators on  *)
(* the caches' records, for one row.                                       *)
(***************************************************************************)
EXTENDS PpuPixels

\* The two backgrounds are also captured, each to a plane of colours.
Planes == BGs

EmptyBackground ==
  [checked |-> FALSE, counted |-> FALSE, memory |-> FALSE, snapshot |-> None,
   valid |-> FALSE, key |-> None, objects |-> None, pages |-> {}, indices |-> None,
   \* the colours of the planes and of the row, and the two certificates
   rgb |-> [g \in Planes |-> None], row |-> None,
   rgbValid |-> FALSE, palette |-> None, light |-> None, captured |-> None,
   capture |-> {}, banks |-> [g \in Planes |-> {}],
   capturePalette |-> [g \in Planes |-> None], captureLight |-> [g \in Planes |-> None]]

\* Lufia2PpuBackgroundCacheBegin, at every start of a drawing frame
BackgroundBegun(b) == [b EXCEPT !.checked = FALSE]
\* ppu_reset
BackgroundReset(b) == [b EXCEPT !.checked = FALSE, !.memory = FALSE]

\* The cache compares VRAM again after every write; a row keeps its pixels if
\* the pages that it reads are the same.
BackgroundCompared(b) ==
  LET kept == b.valid /\ b.memory /\ \A g \in b.pages : b.snapshot[g] = in.vram[g]
  IN  IF b.checked /\ b.counted THEN b
      ELSE [b EXCEPT !.valid = kept, !.rgbValid = @ /\ kept, !.capture = IF kept THEN @ ELSE {},
                     !.snapshot = in.vram, !.counted = TRUE, !.checked = TRUE, !.memory = TRUE]

\* Lufia2PpuBackgroundKeyMatches; the sprites' row is compared if there is one.
BackgroundKey == <<in.page, in.screen, in.math, in.policy, in.common>>
RowIndices ==
  [key |-> BackgroundKey, backgrounds |-> [g \in BGs |-> Indices(g, in.vram)],
   sprites |-> IF Obj \in in.screen THEN SpriteRow ELSE <<>>]

BackgroundMatches(b) ==
  b.valid /\ b.key = BackgroundKey /\ (Obj \in in.screen => b.objects = SpriteRow)

\* Mutant: the planes captured from the row before are kept.
IndicesDrawnUnderPlanes(b) ==
  [b EXCEPT !.key = BackgroundKey, !.objects = IF Obj \in in.screen THEN SpriteRow ELSE @,
            !.pages = {PageOf(g) : g \in BGs}, !.indices = RowIndices,
            !.valid = TRUE, !.rgbValid = FALSE]

\* Lufia2PpuBackgroundCacheRead when it rejects the row, and, after the draw,
\* Lufia2PpuBackgroundCacheStore
IndicesDrawn(b) ==
  [b EXCEPT !.key = BackgroundKey, !.objects = IF Obj \in in.screen THEN SpriteRow ELSE @,
            !.pages = {PageOf(g) : g \in BGs}, !.indices = RowIndices,
            !.valid = TRUE, !.rgbValid = FALSE, !.capture = {}]

\* The colours of a plane come from its own palette blocks, whatever the rest
\* of the row looks like.
PlaneColours(g) == <<Indices(g, in.vram), in.cgram[Indices(g, in.vram)], in.light>>
RowColours == <<RowIndices, in.cgram, in.light, in.captured>>

\* Lufia2PpuBackgroundCaptureRead and CaptureStore
PlaneMatches(b, g) ==
  /\ g \in b.capture /\ b.captureLight[g] = in.light
  /\ \A k \in b.banks[g] : b.capturePalette[g][k] = in.cgram[k]
PlaneStored(b, g) ==
  [b EXCEPT !.capture = @ \cup {g}, !.rgbValid = FALSE,
            !.rgb[g] = PlaneColours(g), !.banks[g] = {b.indices.backgrounds[g]},
            !.capturePalette[g] = in.cgram, !.captureLight[g] = in.light]
PlaneDrawn(b, g) == IF PlaneMatches(b, g) THEN b ELSE PlaneStored(b, g)

\* Lufia2PpuBackgroundRgbEligible, RgbRead and RgbStore: colour math with the
\* sub screen is left to the ordinary composition.
RgbMatches(b) ==
  ~in.math /\ b.rgbValid /\ b.palette = in.cgram /\ b.light = in.light /\ b.captured = in.captured
RgbStored(b) ==
  IF in.math THEN b
  ELSE [b EXCEPT !.capture = {}, !.row = RowColours, !.rgbValid = TRUE,
                 !.palette = in.cgram, !.light = in.light, !.captured = in.captured]

\* PpuDrawBackgrounds and the rest of the row. A native menu stops at the
\* indices.
BackgroundRow(b, native) ==
  LET d == BackgroundCompared(b)
      hit == BackgroundMatches(d)
      e == IF hit THEN d ELSE IndicesDrawn(d)
  IN  IF native THEN e
      ELSE IF hit /\ RgbMatches(e) THEN e
      ELSE IF hit THEN RgbStored(PlaneDrawn(PlaneDrawn(e, 1), 2))
      ELSE RgbStored(PlaneStored(PlaneStored(e, 1), 2))

\* What is taken from the cache instead of being drawn is what a draw gives.
BackgroundExact(b) ==
  LET d == BackgroundCompared(b)
  IN  BackgroundMatches(d) =>
        /\ d.indices = RowIndices
        /\ \A g \in Planes : PlaneMatches(d, g) \/ RgbMatches(d) => d.rgb[g] = PlaneColours(g)
        /\ RgbMatches(d) => d.row = RowColours

-----------------------------------------------------------------------------
(* lufia2_ppu_layer_cache.h, for the first background                      *)

EmptyLayer ==
  [checked |-> FALSE, counted |-> FALSE, memory |-> FALSE, snapshot |-> None,
   valid |-> FALSE, key |-> None, pages |-> {}, pixels |-> None]

\* The row reads only its own background's registers; its native width does not
\* reach the margins that the wide-screen policies are about.
LayerKey == <<in.page, in.screen \cap {1, Obj}, in.common>>
LayerPixels == <<LayerKey, Indices(1, in.vram)>>

LayerCompared(l) ==
  IF l.checked /\ l.counted THEN l
  ELSE [l EXCEPT !.valid = @ /\ l.memory /\ \A g \in l.pages : l.snapshot[g] = in.vram[g],
                 !.snapshot = in.vram, !.counted = TRUE, !.checked = TRUE, !.memory = TRUE]

LayerMatches(l) == l.valid /\ l.key = LayerKey

\* Lufia2PpuLayerCacheRead, the draw and Lufia2PpuLayerCacheStore
LayerRow(l) ==
  LET d == LayerCompared(l)
  IN  IF LayerMatches(d) THEN d
      ELSE [d EXCEPT !.key = LayerKey, !.pages = {PageOf(1)}, !.pixels = LayerPixels,
                     !.valid = TRUE]
LayerExact(l) == LayerMatches(LayerCompared(l)) => LayerCompared(l).pixels = LayerPixels
=============================================================================
