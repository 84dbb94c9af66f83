----------------------------- MODULE PpuPixels -----------------------------
(***************************************************************************)
(* What one row of pixels is drawn from: the PPU's registers and memory as *)
(* the row's draw finds them, and the host's own policies.  The core that  *)
(* draws is not part of the repository; what a draw reads of all this is   *)
(* what the caches under src/ say of it.                                   *)
(*                                                                         *)
(* A background reads the VRAM page that its registers name.  The words    *)
(* there name the palette block its pixels are coloured with; all else     *)
(* they hold goes with that.  The sprites' row comes from OAM, which names *)
(* their block, and from the page of their characters.                     *)
(***************************************************************************)
EXTENDS FiniteSetsExt

CONSTANTS
  Values,     \* contents that no decision looks at
  None        \* nothing has been kept yet

BGs == {1, 2}
Obj == 3
Pages == {1, 2}
ObjPage == 2
\* Block 0 holds the backdrop's colour; the authored art of a battle, which
\* stands in for the first background, has its colours in block 1.
Blocks == {0, 1}
Backdrop == 0
Art == 1

\* The layers that are shown; the second background always is.
Screens == {{2}, {2, Obj}, {1, 2, Obj}}

VARIABLE in
\* What a draw of the row would find now:
\*   width, policy, common, light   the canvas; the host's wide-screen policies;
\*       its other settings with the registers that all rows share; the brightness
\*   draw        the function that draws
\*   page, vram, cgram, oam, screen, math   the first background's page, what the
\*       pages hold, the palette, the sprites, the layers shown, colour math
\*   captured    the row of sprites that a menu has taken out of the picture
\*   slot        a party member is highlighted
\*   scripts, actors, mask    a battle's effect is on; whose sprites are its own,
\*       and where in the row they are

PageOf(g) == IF g = 1 THEN in.page ELSE 2

\* The palette indices of a background, and of the sprites, without a colour.
Indices(g, vram) == vram[PageOf(g)]
SpriteRow == <<in.oam, in.vram[ObjPage]>>

\* A row of colours drawn from some of the layers, over the pages of a view.
Colours(layers, vram) ==
  [width |-> in.width, policy |-> in.policy, common |-> in.common, light |-> in.light,
   draw |-> in.draw, backdrop |-> in.cgram[Backdrop],
   backgrounds |-> [g \in BGs \cap layers |-> <<Indices(g, vram), in.cgram[Indices(g, vram)]>>],
   sprites |-> IF Obj \in layers THEN <<SpriteRow, in.cgram[in.oam]>> ELSE <<>>]
=============================================================================
