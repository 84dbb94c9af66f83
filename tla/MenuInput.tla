------------------------------- MODULE MenuInput -------------------------------
(***************************************************************************)
(* The pad between the guest and the host's menus: the main loop of        *)
(* src/src/main.c, RunRewindLoop, RunSaveStateMenuLoop, and GesturePressed *)
(* and PollNav of src/src/lufia2_savestate_menu.c.  The player may press or release a     *)
(* button between any two of the loop's reads of the pad.                  *)
(*                                                                         *)
(* The same two buttons open and close the menu, both functions share one  *)
(* s_previous_inputs, and what was pressed for the menu must not reach the *)
(* game behind it.                                                         *)
(***************************************************************************)
EXTENDS Integers

\* PAD_SELECT, PAD_R, and PAD_B for every other button.
Button == {"select", "r", "b"}
Gesture == {"select", "r"}

VARIABLES
  held,      \* external: the buttons the player holds
  previous,  \* s_previous_inputs
  mask,      \* s_input_release_mask
  seen,      \* what the last guest frame was given
  loop,      \* where the main loop is
  menuHeld,  \* history: held without a break since a menu was open
  up,        \* history: not held at the last guest frame, no menu since
  toggles    \* history: times the current hold of the gesture toggled the menu

padVars == <<held, previous, mask, seen, loop, menuHeld, up, toggles>>

PadInit ==
  /\ held = {} /\ previous = {} /\ mask = {} /\ seen = {}
  /\ loop = "top" /\ menuHeld = {} /\ up = {} /\ toggles = 0

InMenu == loop \in {"menu", "mask", "rewind"}

Press == \E b \in Button \ held :
  /\ held' = held \cup {b}
  /\ menuHeld' = IF InMenu THEN menuHeld \cup {b} ELSE menuHeld
  /\ UNCHANGED <<previous, mask, seen, loop, up, toggles>>

Release == \E b \in held :
  /\ held' = held \ {b} /\ menuHeld' = menuHeld \ {b}
  /\ toggles' = IF b \in Gesture THEN 0 ELSE toggles
  /\ UNCHANGED <<previous, mask, seen, loop, up>>

\* The top of the loop, where the rewind view may open.
CheckRewind ==
  /\ loop = "top"
  /\ \/ loop' = "rewind" /\ menuHeld' = held
     \/ loop' = "gesture" /\ UNCHANGED menuHeld
  /\ UNCHANGED <<held, previous, mask, seen, up, toggles>>

\* The end of RunRewindLoop, which keeps what it read to itself.
LeaveRewind ==
  /\ loop = "rewind" /\ loop' = "gesture"
  /\ mask' = mask \cup held
  /\ up' = {}
  /\ UNCHANGED <<held, previous, seen, menuHeld, toggles>>

Whole(inputs) == Gesture \subseteq inputs

\* Mistake: the edge is found without remembering it.
CheckGestureForgets ==
  /\ loop = "gesture"
  /\ previous' = previous
  /\ IF Whole(held) /\ ~Whole(previous)
     THEN \/ loop' = "menu" /\ toggles' = toggles + 1 /\ menuHeld' = held
          \/ loop' = "guest" /\ UNCHANGED <<toggles, menuHeld>>
     ELSE loop' = "guest" /\ UNCHANGED <<toggles, menuHeld>>
  /\ UNCHANGED <<held, mask, seen, up>>

\* Lufia2SavestateMenuGesturePressed in the main loop.  Without a bound game
\* the menu does not open.
CheckGesture ==
  /\ loop = "gesture"
  /\ previous' = held
  /\ IF Whole(held) /\ ~Whole(previous)
     THEN \/ loop' = "menu" /\ toggles' = toggles + 1 /\ menuHeld' = held
          \/ loop' = "guest" /\ UNCHANGED <<toggles, menuHeld>>
     ELSE loop' = "guest" /\ UNCHANGED <<toggles, menuHeld>>
  /\ UNCHANGED <<held, mask, seen, up>>

\* F11 opens the menu without the pad.
OpenByKey ==
  /\ loop = "gesture" /\ loop' = "menu"
  /\ previous' = held
  /\ ~(Whole(held) /\ ~Whole(previous))
  /\ menuHeld' = held
  /\ UNCHANGED <<held, mask, seen, up, toggles>>

\* Lufia2SavestateMenuPollNav, once per turn of RunSaveStateMenuLoop.
PollNav ==
  /\ loop = "menu"
  /\ previous' = held
  /\ LET pressed == held \ previous IN
     \/ /\ pressed \cap Gesture # {} /\ Whole(held)
        /\ loop' = "mask" /\ toggles' = toggles + 1
     \/ /\ ~(pressed \cap Gesture # {} /\ Whole(held))
        /\ toggles' = toggles
        /\ \/ "b" \in pressed /\ loop' = "mask"
           \/ "b" \notin pressed /\ loop' = "menu"
  /\ UNCHANGED <<held, mask, seen, menuHeld, up>>

\* Loading a state or a failed present ends the loop after the poll; Escape,
\* Return or quitting ends it before, and the poll of that turn still reads.
CloseOtherwise ==
  /\ loop = "menu" /\ loop' = "mask"
  /\ previous' \in {previous, held}
  /\ UNCHANGED <<held, mask, seen, menuHeld, up, toggles>>

\* Mistake: only what the menu's last poll saw is masked.
LeaveMenuPolled ==
  /\ loop = "mask" /\ loop' = "guest"
  /\ mask' = mask \cup (previous \cap held)
  /\ up' = {}
  /\ UNCHANGED <<held, previous, seen, menuHeld, toggles>>

LeaveMenu ==
  /\ loop = "mask" /\ loop' = "guest"
  /\ mask' = mask \cup held
  /\ up' = {}
  /\ UNCHANGED <<held, previous, seen, menuHeld, toggles>>

\* Mistake: a button stays masked once it was.
GuestFrameKeepsMask ==
  /\ loop = "guest" /\ loop' = "top"
  /\ mask' = mask
  /\ seen' = held \ mask /\ up' = Button \ held
  /\ UNCHANGED <<held, previous, menuHeld, toggles>>

GuestFrame ==
  /\ loop = "guest" /\ loop' = "top"
  /\ mask' = mask \cap held
  /\ seen' = held \ mask /\ up' = Button \ held
  /\ UNCHANGED <<held, previous, menuHeld, toggles>>

\* A paused loop, or one that only repeats a frame, runs no guest frame.
SkipFrame ==
  /\ loop = "guest" /\ loop' = "top" /\ seen' = {}
  /\ UNCHANGED <<held, previous, mask, menuHeld, up, toggles>>

PadNext ==
  \/ Press \/ Release \/ CheckRewind \/ LeaveRewind \/ CheckGesture \/ OpenByKey
  \/ PollNav \/ CloseOtherwise
  \/ LeaveMenu \/ GuestFrame \/ SkipFrame

PadSpec == PadInit /\ [][PadNext]_padVars

-----------------------------------------------------------------------------
(* Properties.                                                             *)

\* Types, and a bound on the history counter that the next property tightens.
PadTypeOK ==
  /\ {held, previous, mask, seen, menuHeld, up} \subseteq SUBSET Button
  /\ loop \in {"top", "rewind", "gesture", "menu", "mask", "guest"} /\ toggles \in 0 .. 2
  /\ menuHeld \subseteq held

\* However long Select and R stay down, one press of the gesture opens the menu
\* or closes it, never both and never twice.
GestureOnce == toggles <= 1

\* No guest frame is given a button that was pressed in a menu and has not been
\* let go since.
NoLeak == loop = "top" => seen \cap menuHeld = {}

\* A button that was up at a guest frame is not held back at the next one: the
\* mask gives every button back after its release.
MaskExpires == mask \cap up = {}
=============================================================================
