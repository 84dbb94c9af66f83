----------------------------- MODULE SavestateMenu -----------------------------
(***************************************************************************)
(* The save-state browser (src/src/lufia2_savestate_menu.c): which of the  *)
(* game's save files the states belong to, the files behind the slots, and *)
(* the one-time removal of states from before there was such a binding.    *)
(*                                                                         *)
(* The game reports its own file transfers to OnTransfer; rewinding and    *)
(* loading a state change the game being played without any report.  The   *)
(* process can be killed between any two files it writes or removes.       *)
(***************************************************************************)
EXTENDS Integers, FiniteSets

CONSTANTS
  Files,       \* GAME_SAVE_FILES, 4
  Slots,       \* LUFIA2_SAVESTATE_SLOTS, 3
  LegacySlots, \* LEGACY_SLOT_SCAN, 20
  MaxStates    \* a bound: how many slots are ever filled at once

ASSUME SlotsAssumption ==
  /\ Files \in Nat \ {0} /\ Slots \in Nat \ {0}
  /\ LegacySlots \in Nat /\ LegacySlots >= Files * Slots /\ MaxStates \in Nat

File == 0 .. Files - 1
Slot == 0 .. Slots - 1
Index == 0 .. LegacySlots - 1
NoFile == -1

\* What is being played; a game belongs to the file it was loaded from or
\* last saved to.
Title == -1       \* the title screen
Selecting == -2   \* the file select
Unsaved == -3     \* a game never loaded or saved
Play == {Title, Selecting, Unsaved} \cup File

Legacy == -4      \* of an unbound state
Nothing == -5     \* of no state
State == [of : Play \cup {Legacy}, strayed : BOOLEAN]
Empty == [of |-> Nothing, strayed |-> FALSE]

VARIABLES
  disk, marker,  \* the files
  sidecars,   \* whether a state's .thumb and .meta, taken together, are its own;
              \* else there are none, or they are those of one it replaced
  pc,         \* off, clear (installing), run, menu, or inside a save
  clearing,   \* the next state file clear_unbound_states looks at
  gameFile, bound, scanned, slots, open, selected,  \* the menu's statics
  play,       \* external: the guest
  past,       \* external: a moment that the rewind history can restore
  strayed,    \* history: a rewind, a state saved after one, or an unbound state
              \* brought back a game that the menu is not bound to
  failed      \* history: a remove, or creating the marker, has failed

files == <<disk, marker, sidecars>>
menuVars == <<gameFile, bound, scanned, slots, open, selected>>
vars == <<files, pc, clearing, menuVars, play, past, strayed, failed>>

NoSlots == [s \in Slot |-> [used |-> FALSE, sidecar |-> FALSE]]

Init ==
  /\ disk \in [Index -> {Empty, [Empty EXCEPT !.of = Legacy]}]
  /\ sidecars = [i \in Index |-> disk[i] # Empty]
  /\ marker = FALSE
  /\ pc = "off" /\ clearing = 0
  /\ gameFile = NoFile /\ bound = FALSE /\ scanned = FALSE
  /\ slots = NoSlots /\ open = FALSE /\ selected = 0
  /\ play = Title /\ past = {} /\ strayed = FALSE /\ failed = FALSE

\* Mistake: the files of two save files overlap.
SlotIndexShared(file, s) == (IF file < 0 THEN 0 ELSE file) + s

\* One file per (game save file, state slot).
SlotIndex(file, s) == (IF file < 0 THEN 0 ELSE file) * Slots + s
FileOf(i) == i \div Slots

-----------------------------------------------------------------------------
(* Starting, and being killed.                                             *)

\* Mistake: the states are cleared whether or not the marker is there.
InstallAlwaysClears ==
  /\ pc = "off"
  /\ pc' = "clear"
  /\ clearing' = 0
  /\ UNCHANGED <<files, menuVars, play, past, strayed, failed>>

Install ==
  /\ pc = "off"
  /\ pc' = IF marker THEN "run" ELSE "clear"
  /\ clearing' = 0
  /\ UNCHANGED <<files, menuVars, play, past, strayed, failed>>

\* A file that cannot be removed is passed over.  A state and its sidecars are
\* taken as one file here; what is left of sidecars alone is never looked at.
ClearOne ==
  /\ pc = "clear" /\ clearing < LegacySlots
  /\ clearing' = clearing + 1
  /\ \/ /\ disk' = [disk EXCEPT ![clearing] = Empty]
        /\ sidecars' = [sidecars EXCEPT ![clearing] = FALSE] /\ UNCHANGED failed
     \/ disk[clearing] # Empty /\ failed' = TRUE /\ UNCHANGED <<disk, sidecars>>
  /\ UNCHANGED <<marker, pc, menuVars, play, past, strayed>>

\* Mistake: the marker is put down before the files are gone.
MarkBeforeClearing ==
  /\ pc = "clear"
  /\ pc' = IF clearing = LegacySlots THEN "run" ELSE pc
  /\ marker' = TRUE
  /\ clearing = LegacySlots \/ ~marker
  /\ UNCHANGED <<disk, sidecars, clearing, menuVars, play, past, strayed, failed>>

Mark ==
  /\ pc = "clear" /\ clearing = LegacySlots
  /\ pc' = "run"
  /\ marker' \in BOOLEAN /\ failed' = (failed \/ ~marker')
  /\ UNCHANGED <<disk, sidecars, clearing, menuVars, play, past, strayed>>

\* The process ends, by request or not; the guest starts over next time.
Kill ==
  /\ pc # "off" /\ pc' = "off"
  /\ play' = Title /\ past' = {}
  /\ gameFile' = NoFile /\ bound' = FALSE /\ scanned' = FALSE
  /\ slots' = NoSlots /\ open' = FALSE /\ selected' = 0
  /\ strayed' = FALSE /\ UNCHANGED <<files, clearing, failed>>

-----------------------------------------------------------------------------
(* The game.                                                               *)

\* Mistake: the slots of another file stay on show.
OnTransferKeepsSlots(operation, file) ==
  /\ bound' = (operation # "preview")
  /\ gameFile' = file
  /\ strayed' = FALSE /\ UNCHANGED <<slots, open, selected, scanned>>

\* on_slot_transfer, for a load, a save, or a preview of the title screen.
OnTransfer(operation, file) ==
  /\ bound' = (operation # "preview")
  /\ gameFile' = file
  /\ scanned' = (scanned /\ file = gameFile)
  /\ strayed' = FALSE /\ UNCHANGED <<slots, open, selected>>

\* A step of the guest.  Every frame enters the rewind history; a bound: of
\* its moments any one is remembered.
Guest(next) ==
  /\ pc = "run"
  /\ play' = next /\ past' \in {past, {play}}
  /\ UNCHANGED <<files, pc, clearing, failed>>

FileSelect == \E f \in File :
  play \in {Title, Selecting} /\ Guest(Selecting) /\ OnTransfer("preview", f)
LoadGame == \E f \in File : play = Selecting /\ Guest(f) /\ OnTransfer("load", f)
SaveGame == \E f \in File :
  play \in File \cup {Unsaved} /\ Guest(f) /\ OnTransfer("save", f)
NewGame == play = Selecting /\ Guest(Unsaved) /\ UNCHANGED <<menuVars, strayed>>
GameOver == play \in File \cup {Unsaved} /\ Guest(Title) /\ UNCHANGED <<menuVars, strayed>>

\* Mistake: the file descriptions shown inside a game count as well.
GameListPreviews == \E f \in File :
  play \in File \cup {Unsaved} /\ Guest(play) /\ OnTransfer("preview", f)

\* A slot list in a game previews files too, but not from the title screen.
GameList == play \in File \cup {Unsaved} /\ Guest(play) /\ UNCHANGED <<menuVars, strayed>>

Bound(game) ==
  /\ game \in File => bound /\ gameFile = game
  /\ game \in {Selecting, Unsaved} => ~bound

\* snes_rewind_commit, in the rewind loop.
Rewind ==
  /\ pc = "run"
  /\ play' \in past /\ strayed' = ~Bound(play')
  /\ UNCHANGED <<files, pc, clearing, menuVars, past, failed>>

-----------------------------------------------------------------------------
(* The menu.                                                               *)

Described ==
  [s \in Slot |-> LET i == SlotIndex(gameFile, s) IN
     IF disk[i] = Empty THEN NoSlots[s]
     ELSE [used |-> TRUE, sidecar |-> sidecars[i]]]

Rescan == slots' = Described /\ scanned' = TRUE

\* Drawing a slot while the menu is shut reads the files if it must.
ShowSlot ==
  /\ pc = "run" /\ ~scanned /\ Rescan
  /\ UNCHANGED <<files, pc, clearing, gameFile, bound, open, selected, play, past, strayed, failed>>

Open ==
  /\ pc = "run" /\ bound /\ gameFile >= 0
  /\ open' = TRUE /\ pc' = "menu" /\ Rescan
  /\ UNCHANGED <<files, clearing, gameFile, bound, selected, play, past, strayed, failed>>

Close ==
  /\ pc = "menu" /\ pc' = "run" /\ open' = FALSE
  /\ UNCHANGED <<files, clearing, gameFile, bound, scanned, slots, selected, play, past, strayed, failed>>

MoveSelection ==
  /\ pc = "menu"
  /\ \E delta \in {-1, 1} : selected' = (selected + delta + Slots) % Slots
  /\ UNCHANGED <<files, pc, clearing, gameFile, bound, scanned, slots, open, play, past, strayed, failed>>

Here == SlotIndex(gameFile, selected)

\* submit(true): the state itself, which may fail and leave all as it was, ...
SaveState ==
  /\ pc = "menu" /\ pc' = "sidecars"
  /\ Cardinality({i \in Index \ {Here} : disk[i] # Empty}) < MaxStates
  /\ disk' = [disk EXCEPT ![Here] = [of |-> play, strayed |-> strayed]]
  /\ sidecars' = [sidecars EXCEPT ![Here] = FALSE]
  /\ UNCHANGED <<marker, clearing, menuVars, play, past, strayed, failed>>

\* ... then its sidecars, where a file that cannot be written goes unnoticed;
\* the browser reads the rows back.
SaveSidecars ==
  /\ pc = "sidecars" /\ pc' = "menu"
  /\ \/ sidecars' = [sidecars EXCEPT ![Here] = TRUE]
     \/ sidecars' = sidecars
  /\ UNCHANGED <<disk, marker, clearing, gameFile, bound, open, selected, play, past, strayed, failed>>
  /\ slots' = Described' /\ scanned' = TRUE

\* The games that a state file may hold; an unbound one was saved in any.
GamesOf(state) == IF state.of = Legacy THEN Play ELSE {state.of}

\* submit(false): an empty slot, or a state that does not load, changes nothing.
\* A loaded state ends the rewind history.
LoadState ==
  /\ pc = "menu" /\ slots[selected].used
  /\ play' \in GamesOf(disk[Here]) /\ past' = {}
  /\ strayed' = IF disk[Here].of = Legacy THEN ~Bound(play') ELSE disk[Here].strayed
  /\ pc' = "run" /\ open' = FALSE
  /\ UNCHANGED <<files, clearing, gameFile, bound, scanned, slots, selected, failed>>

Next ==
  \/ Install \/ ClearOne \/ Mark \/ Kill
  \/ FileSelect \/ LoadGame \/ SaveGame \/ NewGame \/ GameOver \/ GameList \/ Rewind
  \/ ShowSlot \/ Open \/ Close \/ MoveSelection
  \/ SaveState \/ SaveSidecars \/ LoadState

Spec == Init /\ [][Next]_vars

-----------------------------------------------------------------------------
(* Properties.                                                             *)

\* Types.  Above all, a slot the browser offers to load holds a state of some
\* game, never an empty one.
TypeOK ==
  /\ disk \in [Index -> State \cup {Empty}]
  /\ sidecars \in [Index -> BOOLEAN]
  /\ {marker, bound, scanned, open} \subseteq BOOLEAN
  /\ pc \in {"off", "clear", "run", "menu", "sidecars"} /\ clearing \in 0 .. LegacySlots
  /\ gameFile \in File \cup {NoFile} /\ selected \in Slot
  /\ slots \in [Slot -> [used : BOOLEAN, sidecar : BOOLEAN]]
  /\ play \in Play /\ past \subseteq Play /\ {strayed, failed} \subseteq BOOLEAN

\* While a game that has a save file is played, the menu is unlocked and bound
\* to that file, across previews, saves to another file and loaded states; at
\* the file select and in a game never saved it stays locked.  A rewind past a
\* transfer undoes that until the next transfer.
Binding == pc # "clear" /\ ~strayed => Bound(play)

\* A state of one file's game is never filed among another file's states.  The
\* title screen after a game is still filed under the game that was left.
FiledUnderPlayed ==
  \A i \in Index : disk[i].of \in {Nothing, Legacy, Title} \cup {FileOf(i)}

\* But for games that a rewind brought back, this holds.
FiledUnderBound ==
  \A i \in Index :
    disk[i].strayed \/ disk[i].of \in {Nothing, Legacy, Title} \cup {FileOf(i)}

\* What the browser shows of a slot is what the files say, whenever it trusts
\* its scan, whatever was saved or loaded since.
BrowserFresh == scanned /\ pc \in {"run", "menu"} => slots = Described

\* Unbound states are gone before the game runs, though the process may have
\* been killed halfway through clearing, unless a file could not be removed.
NoUnboundLeft ==
  pc \in {"run", "menu"} /\ ~failed => \A i \in Index : disk[i].of # Legacy

\* Starting the program never removes a bound state, unless the marker could
\* not be made.
BoundKept ==
  [][~failed => \A i \in Index : disk[i].of \in Play => disk'[i] # Empty]_vars
=============================================================================
