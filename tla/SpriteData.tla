------------------------------ MODULE SpriteData ------------------------------
(***************************************************************************)
(* The data of a sprite row: slivers, the words they name and the pixels   *)
(* they leave, shared by the serial evaluator and the deferred one.        *)
(***************************************************************************)
EXTENDS Integers, Sequences

CONSTANTS
  Rows,         \* number of visible lines (ROWS, 224)
  LineSlivers,  \* most slivers one line selects (LINE_SLIVERS, 1024)
  Columns,      \* the columns of a row
  Spans,        \* the spans PpuActiveSpan may ask to clear
  Tiles,        \* the tile words a sliver can name
  PastEnd,      \* the tiles whose words lie past the end of VRAM
  Words         \* what such a word decodes to; 0 is transparent

\* The words of a sliver are fetched when the row is painted, unless they
\* had to be read at selection.
Later == -1

ASSUME RowsAssumption == Rows \in Nat \ {0} /\ LineSlivers \in Nat \ {0}
ASSUME DataAssumption ==
  /\ Spans \subseteq SUBSET Columns
  /\ PastEnd \subseteq Tiles
  /\ Columns # {} /\ Tiles # {}
  /\ 0 \in Words /\ Later \notin Words

Lines == 0 .. Rows - 1

\* A row that had no sprites: its obj_pixels are all zero.
NoSprites == <<>>

Backdrop == 0

Sliver == [x : Columns, tile : Tiles, words : Words \cup {Later}]

Decode(sliver, mem) ==
  IF sliver.words = Later THEN mem[sliver.tile] ELSE sliver.words

Paints(slivers, mem) ==
  [i \in DOMAIN slivers |-> [x |-> slivers[i].x, word |-> Decode(slivers[i], mem)]]

\* Clear the span, then paint each opaque word over what is there.
Raster(old, span, paints) ==
  LET drawn[i \in 0 .. Len(paints)] ==
        IF i = 0
          THEN [c \in Columns |-> IF c \in span THEN Backdrop ELSE old[c]]
          ELSE IF paints[i].word = 0
                 THEN drawn[i - 1]
                 ELSE [drawn[i - 1] EXCEPT ![paints[i].x] = paints[i].word]
  IN  drawn[Len(paints)]

Captured(pixels, hasSprites) == IF hasSprites THEN pixels ELSE NoSprites

\* What the evaluator may select for one line.
Selection == UNION {[1 .. n -> Sliver] : n \in 0 .. LineSlivers}
=============================================================================
