------------------------------- MODULE MenuProofs ------------------------------
(***************************************************************************)
(* Proofs about the save-state browser and about the pad.                  *)
(*                                                                         *)
(* States are filed under the game they hold, what the browser shows is on *)
(* disk, and starting the program removes the unbound states and no other, *)
(* for any number of files and slots and wherever the process is killed.   *)
(*                                                                         *)
(* The pad never leaks, and the gesture never toggles twice, whatever the  *)
(* player does between two reads.                                          *)
(***************************************************************************)
EXTENDS SavestateMenu, MenuInput, TLAPS

-----------------------------------------------------------------------------
(* The save-state browser.                                                 *)

\* What holds at each place: no game is played and nothing is scanned before
\* the menu is installed; an open menu is bound and shows what it has scanned.
Places ==
  /\ pc \in {"off", "clear"} => play = Title /\ ~scanned
  /\ pc \in {"menu", "sidecars"} => bound /\ gameFile \in File
  /\ pc = "menu" => scanned

\* How far the clearing has come; the marker is there once it is done.
Cleared ==
  /\ pc = "clear" => ~marker
  /\ ~failed /\ pc = "clear" => \A i \in Index : i < clearing => disk[i] = Empty
  /\ ~failed /\ pc \in {"run", "menu", "sidecars"} => marker
  /\ ~failed /\ marker => \A i \in Index : disk[i].of # Legacy
  /\ ~failed /\ ~marker => \A i \in Index : disk[i].of \notin Play

Inductive ==
  /\ TypeOK /\ Places /\ Cleared
  /\ Binding /\ FiledUnderBound /\ BrowserFresh

USE SlotsAssumption DEF menuVars, files

-----------------------------------------------------------------------------
(* The files of a slot.                                                    *)

LEMMA SlotIndexFacts ==
  ASSUME NEW f \in File, NEW s \in Slot
  PROVE  SlotIndex(f, s) \in Index /\ FileOf(SlotIndex(f, s)) = f
<1>1. f \in Nat /\ s \in Nat /\ s < Slots /\ f <= Files - 1
  BY DEF File, Slot
<1>2. SlotIndex(f, s) = f * Slots + s
  BY <1>1 DEF SlotIndex
<1>3. f * Slots \in Nat /\ f * Slots <= (Files - 1) * Slots
  BY <1>1
<1>4. (Files - 1) * Slots + Slots = Files * Slots
  OBVIOUS
<1>5. SlotIndex(f, s) \in Index
  BY <1>1, <1>2, <1>3, <1>4 DEF Index
<1>6. FileOf(SlotIndex(f, s)) = f
  BY <1>1, <1>2, <1>3 DEF FileOf
<1> QED
  BY <1>5, <1>6

LEMMA Numbers ==
  /\ \A f \in File : f >= 0
  /\ Title \notin File /\ Selecting \notin File /\ Unsaved \notin File
  /\ Legacy \notin Play /\ Nothing \notin Play /\ Nothing # Legacy
  /\ Empty \notin State /\ Empty.of = Nothing /\ Empty.strayed = FALSE
  /\ \A x \in State \cup {Empty} : x.of = Nothing => x = Empty
  BY DEF File, Title, Selecting, Unsaved, Legacy, Nothing, Play, Empty, State

LEMMA NoSlotsType == NoSlots \in [Slot -> [used : BOOLEAN, sidecar : BOOLEAN]]
  BY DEF NoSlots

LEMMA DescribedType ==
  ASSUME TypeOK PROVE Described \in [Slot -> [used : BOOLEAN, sidecar : BOOLEAN]]
<1>1. ASSUME NEW s \in Slot PROVE SlotIndex(gameFile, s) \in Index
  <2>1. CASE gameFile \in File
    BY <2>1, SlotIndexFacts
  <2>2. CASE gameFile = NoFile
    <3>1. 0 \in File
      BY DEF File
    <3>2. SlotIndex(NoFile, s) = SlotIndex(0, s)
      BY DEF SlotIndex, NoFile
    <3> QED
      BY <2>2, <3>1, <3>2, SlotIndexFacts
  <2> QED
    BY <2>1, <2>2 DEF TypeOK
<1>2. \A i \in Index : sidecars[i] \in BOOLEAN
  BY DEF TypeOK
<1>3. \A s \in Slot : [used |-> TRUE, sidecar |-> sidecars[SlotIndex(gameFile, s)]]
                          \in [used : BOOLEAN, sidecar : BOOLEAN]
  BY <1>1, <1>2
<1>4. \A s \in Slot : NoSlots[s] \in [used : BOOLEAN, sidecar : BOOLEAN]
  BY NoSlotsType
<1> QED
  BY <1>3, <1>4 DEF Described

LEMMA DescribedSame ==
  ASSUME UNCHANGED <<gameFile, disk, sidecars>> PROVE Described' = Described
  BY DEF Described, SlotIndex

LEMMA HereIsFiled ==
  ASSUME TypeOK, gameFile \in File
  PROVE  Here \in Index /\ FileOf(Here) = gameFile
  BY SlotIndexFacts DEF Here, TypeOK

-----------------------------------------------------------------------------
(* Initially, and across starting, clearing and being killed.              *)

LEMMA InitInductive == Init => Inductive
<1> SUFFICES ASSUME Init PROVE Inductive
  OBVIOUS
<1>1. \A i \in Index : disk[i] \in State \cup {Empty} /\ disk[i].of \in {Legacy, Nothing}
  <2>1. Empty \in State \cup {Empty} /\ Empty.of = Nothing
    BY DEF Empty
  <2>2. [Empty EXCEPT !.of = Legacy] \in State
    BY DEF Empty, State
  <2>3. [Empty EXCEPT !.of = Legacy].of = Legacy
    BY DEF Empty
  <2> QED
    BY <2>1, <2>2, <2>3 DEF Init
<1>2. disk \in [Index -> State \cup {Empty}]
  <2>1. Empty \in State \cup {Empty} /\ [Empty EXCEPT !.of = Legacy] \in State
    BY DEF Empty, State
  <2> QED
    BY <2>1 DEF Init
<1>3. TypeOK
  <2>1. sidecars \in [Index -> BOOLEAN]
    BY DEF Init
  <2>2. {marker, bound, scanned, open} \subseteq BOOLEAN /\ {strayed, failed} \subseteq BOOLEAN
    BY DEF Init
  <2>3. clearing \in 0 .. LegacySlots /\ selected \in Slot
    BY DEF Init, Slot
  <2>4. play \in Play /\ past \subseteq Play /\ gameFile \in File \cup {NoFile}
    BY DEF Init, Play
  <2> QED
    BY <1>2, <2>1, <2>2, <2>3, <2>4, NoSlotsType DEF Init, TypeOK
<1>4. Places /\ Binding
  BY Numbers DEF Init, Places, Binding, Bound, Title, Selecting, Unsaved
<1>5. Cleared
  BY <1>1, Numbers DEF Init, Cleared
<1>6. FiledUnderBound
  BY <1>1 DEF FiledUnderBound
<1>7. BrowserFresh
  BY DEF Init, BrowserFresh
<1> QED
  BY <1>3, <1>4, <1>5, <1>6, <1>7 DEF Inductive

LEMMA StartKeeps ==
  ASSUME Inductive, Install \/ Mark \/ Kill
  PROVE  Inductive'
<1> USE DEF Inductive
<1>1. disk' = disk /\ sidecars' = sidecars
  BY DEF Install, Mark, Kill
<1>2. TypeOK'
  <2>1. {marker', bound', scanned', open'} \subseteq BOOLEAN
    BY DEF TypeOK, Install, Mark, Kill
  <2>2. {strayed', failed'} \subseteq BOOLEAN
    BY DEF TypeOK, Install, Mark, Kill
  <2>3. clearing' \in 0 .. LegacySlots /\ selected' \in Slot
    BY DEF TypeOK, Install, Mark, Kill, Slot
  <2>4. play' \in Play /\ past' \subseteq Play
    BY DEF TypeOK, Install, Mark, Kill, Play
  <2>5. /\ gameFile' \in File \cup {NoFile}
        /\ pc' \in {"off", "clear", "run", "menu", "sidecars"}
        /\ slots' \in [Slot -> [used : BOOLEAN, sidecar : BOOLEAN]]
    BY NoSlotsType DEF TypeOK, Install, Mark, Kill
  <2> QED
    BY <1>1, <2>1, <2>2, <2>3, <2>4, <2>5 DEF TypeOK
<1>3. Places'
  BY DEF Places, Install, Mark, Kill
<1>4. Cleared'
  <2>1. CASE Install
    <3>1. /\ UNCHANGED <<disk, marker, failed>> /\ clearing' = 0
          /\ pc' = IF marker THEN "run" ELSE "clear"
      BY <2>1 DEF Install
    <3>2. \A i \in Index : ~(i < 0)
      BY DEF Index
    <3>3. (~failed /\ pc = "clear" => \A i \in Index : i < clearing => disk[i] = Empty)'
      BY <3>1, <3>2
    <3>4. /\ (~failed /\ marker => \A i \in Index : disk[i].of # Legacy)'
          /\ (~failed /\ ~marker => \A i \in Index : disk[i].of \notin Play)'
      BY <3>1 DEF Cleared
    <3>5. CASE marker
      BY <3>1, <3>3, <3>4, <3>5 DEF Cleared
    <3>6. CASE ~marker
      BY <3>1, <3>3, <3>4, <3>6 DEF Cleared
    <3> QED
      BY <3>5, <3>6
  <2>2. CASE Mark
    <3>1. ~failed' => ~failed /\ marker'
      BY <2>2 DEF Mark
    <3>2. ~failed => \A i \in Index : disk[i] = Empty
      BY <2>2 DEF Mark, Cleared, Index
    <3> QED
      BY <2>2, <1>1, <3>1, <3>2, Numbers DEF Mark, Cleared
  <2>3. CASE Kill
    BY <2>3, <1>1 DEF Cleared, Kill
  <2> QED
    BY <2>1, <2>2, <2>3
<1>5. Binding'
  <2>1. play' = Title
    BY DEF Places, Install, Mark, Kill
  <2> QED
    BY <2>1, Numbers DEF Binding, Bound, Title, Selecting, Unsaved
<1>6. FiledUnderBound'
  BY <1>1 DEF FiledUnderBound
<1>7. BrowserFresh'
  BY DEF BrowserFresh, Places, Install, Mark, Kill
<1> QED
  BY <1>2, <1>3, <1>4, <1>5, <1>6, <1>7

LEMMA ClearOneKeeps ==
  ASSUME Inductive, ClearOne PROVE Inductive'
<1> USE DEF Inductive
<1>1. /\ UNCHANGED <<marker, pc, menuVars, play, past, strayed>>
      /\ pc = "clear" /\ clearing < LegacySlots /\ clearing' = clearing + 1
  BY DEF ClearOne
<1>2. clearing \in Index /\ clearing \in 0 .. LegacySlots
  BY <1>1 DEF TypeOK, Index
<1>3. \A i \in Index : disk'[i] = disk[i] \/ disk'[i] = Empty
  BY <1>2 DEF ClearOne, TypeOK
<1>4. ~failed' => ~failed /\ disk'[clearing] = Empty
  BY <1>2 DEF ClearOne, TypeOK
<1>5. TypeOK'
  <2>1. disk' \in [Index -> State \cup {Empty}]
    BY DEF ClearOne, TypeOK
  <2>2. sidecars' \in [Index -> BOOLEAN]
    BY DEF ClearOne, TypeOK
  <2>3. {marker', bound', scanned', open'} \subseteq BOOLEAN
    BY <1>1 DEF TypeOK
  <2>4. {strayed', failed'} \subseteq BOOLEAN
    BY <1>1 DEF TypeOK, ClearOne
  <2>5. clearing' \in 0 .. LegacySlots
    BY <1>1, <1>2
  <2> QED
    BY <1>1, <2>1, <2>2, <2>3, <2>4, <2>5 DEF TypeOK
<1>6. Places'
  BY <1>1 DEF Places
<1>7. Cleared'
  <2> USE <1>1, <1>3, <1>4, Numbers
  <2>1. (~failed /\ pc = "clear" => \A i \in Index : i < clearing => disk[i] = Empty)'
    BY <1>2 DEF Cleared, Index
  <2>2. ~marker
    BY DEF Cleared
  <2>3. (~failed /\ ~marker => \A i \in Index : disk[i].of \notin Play)'
    BY <2>2 DEF Cleared
  <2> QED
    BY <2>1, <2>2, <2>3 DEF Cleared
<1>8. Binding'
  BY <1>1 DEF Binding
<1>9. FiledUnderBound'
  BY <1>3, Numbers DEF FiledUnderBound
<1>10. BrowserFresh'
  BY <1>1 DEF BrowserFresh
<1> QED
  BY <1>5, <1>6, <1>7, <1>8, <1>9, <1>10

-----------------------------------------------------------------------------
(* The game's steps leave the files alone.                                 *)

LEMMA FilesKept ==
  ASSUME Inductive, UNCHANGED <<files, failed>>, pc' \in {"run", "menu", "sidecars"},
         pc \in {"run", "menu", "sidecars"}
  PROVE  Cleared' /\ FiledUnderBound'
  BY DEF Inductive, Cleared, FiledUnderBound

LEMMA TransferKeeps ==
  ASSUME Inductive, NEW f \in File, NEW operation, NEW next \in Play,
         Guest(next), OnTransfer(operation, f), play \in Play,
         operation = "preview" => next = Selecting,
         operation # "preview" => next = f
  PROVE  Inductive'
<1> USE DEF Inductive
<1>1. /\ pc = "run" /\ UNCHANGED <<files, pc, clearing, failed, slots, open, selected>>
      /\ play' = next /\ past' \in {past, {play}} /\ strayed' = FALSE
      /\ bound' = (operation # "preview") /\ gameFile' = f
      /\ scanned' = (scanned /\ f = gameFile)
  BY DEF Guest, OnTransfer
<1>2. Cleared' /\ FiledUnderBound'
  BY <1>1, FilesKept
<1>3. TypeOK'
  <2>1. past' \subseteq Play
    BY <1>1 DEF TypeOK
  <2>2. {marker', bound', scanned', open'} \subseteq BOOLEAN
    BY <1>1 DEF TypeOK
  <2>3. {strayed', failed'} \subseteq BOOLEAN
    BY <1>1 DEF TypeOK
  <2> QED
    BY <1>1, <2>1, <2>2, <2>3 DEF TypeOK
<1>4. Places'
  BY <1>1 DEF Places
<1>5. Binding'
  BY <1>1, Numbers DEF Binding, Bound, Selecting, Unsaved
<1>6. BrowserFresh'
  <2>1. CASE scanned'
    BY <1>1, <2>1, DescribedSame DEF BrowserFresh
  <2> QED
    BY <2>1 DEF BrowserFresh
<1> QED
  BY <1>2, <1>3, <1>4, <1>5, <1>6

LEMMA UnreportedKeeps ==
  ASSUME Inductive, NewGame \/ GameOver \/ GameList \/ Rewind
  PROVE  Inductive'
<1> USE DEF Inductive
<1>1. /\ pc = "run" /\ UNCHANGED <<files, pc, clearing, failed, menuVars>>
      /\ past' \in {past, {play}} \/ past' = past
  BY DEF NewGame, GameOver, GameList, Rewind, Guest
<1>2. Cleared' /\ FiledUnderBound'
  BY <1>1, FilesKept
<1>3. TypeOK'
  <2>1. past' \subseteq Play
    BY <1>1 DEF TypeOK
  <2>2. play' \in Play
    BY DEF TypeOK, Play, NewGame, GameOver, GameList, Rewind, Guest
  <2>3. {strayed', failed'} \subseteq BOOLEAN
    BY <1>1 DEF TypeOK, NewGame, GameOver, GameList, Rewind
  <2> QED
    BY <1>1, <2>1, <2>2, <2>3 DEF TypeOK
<1>4. Places'
  BY <1>1 DEF Places
<1>5. Binding'
  <2>1. CASE Rewind
    <3>1. strayed' = ~Bound(play')
      BY <2>1 DEF Rewind
    <3>2. UNCHANGED <<bound, gameFile>>
      BY <1>1
    <3> QED
      BY <3>1, <3>2 DEF Binding, Bound
  <2>2. CASE NewGame \/ GameOver \/ GameList
    <3>1. play' = Title \/ play' = play \/ (play = Selecting /\ play' = Unsaved)
      BY <2>2 DEF NewGame, GameOver, GameList, Guest
    <3>2. strayed' = strayed
      BY <2>2 DEF NewGame, GameOver, GameList
    <3>3. CASE play' = play
      BY <1>1, <3>2, <3>3 DEF Binding, Bound
    <3>4. CASE play' = Title
      BY <3>4, Numbers DEF Binding, Bound, Title, Selecting, Unsaved
    <3>5. CASE play = Selecting /\ play' = Unsaved
      <4>1. ~strayed' => ~bound'
        BY <1>1, <3>2, <3>5 DEF Binding, Bound
      <4> QED
        BY <3>5, <4>1, Numbers DEF Binding, Bound
    <3> QED
      BY <3>1, <3>3, <3>4, <3>5
  <2> QED
    BY <2>1, <2>2
<1>6. BrowserFresh'
  BY <1>1, DescribedSame DEF BrowserFresh
<1> QED
  BY <1>2, <1>3, <1>4, <1>5, <1>6

-----------------------------------------------------------------------------
(* The menu's steps.                                                       *)

LEMMA BrowsingKeeps ==
  ASSUME Inductive, ShowSlot \/ Open \/ Close \/ MoveSelection
  PROVE  Inductive'
<1> USE DEF Inductive
<1>1. /\ pc \in {"run", "menu"} /\ pc' \in {"run", "menu"}
      /\ UNCHANGED <<files, clearing, gameFile, bound, play, past, strayed, failed>>
  BY DEF ShowSlot, Open, Close, MoveSelection
<1>2. Cleared' /\ FiledUnderBound'
  BY <1>1, FilesKept
<1>3. TypeOK'
  <2>1. selected' \in Slot
    <3>1. CASE MoveSelection
      <4>1. \A x \in Int : x % Slots \in Slot
        BY DEF Slot
      <4>2. \A delta \in {-1, 1} : selected + delta + Slots \in Int
        BY DEF TypeOK, Slot
      <4> QED
        BY <3>1, <4>1, <4>2 DEF MoveSelection
    <3>2. CASE ShowSlot \/ Open \/ Close
      BY <3>2 DEF TypeOK, ShowSlot, Open, Close
    <3> QED
      BY <3>1, <3>2
  <2>2. slots' \in [Slot -> [used : BOOLEAN, sidecar : BOOLEAN]]
    BY DescribedType DEF TypeOK, ShowSlot, Open, Close, MoveSelection, Rescan
  <2>3. {marker', bound', scanned', open'} \subseteq BOOLEAN
    BY <1>1 DEF TypeOK, ShowSlot, Open, Close, MoveSelection, Rescan
  <2> QED
    BY <1>1, <2>1, <2>2, <2>3 DEF TypeOK
<1>4. Places'
  BY <1>1 DEF Places, TypeOK, File, NoFile, ShowSlot, Open, Close, MoveSelection, Rescan
<1>5. Binding'
  BY <1>1 DEF Binding, Bound
<1>6. BrowserFresh'
  <2>1. Described' = Described
    BY <1>1, DescribedSame
  <2> QED
    BY <1>1, <2>1 DEF BrowserFresh, ShowSlot, Open, Close, MoveSelection, Rescan
<1> QED
  BY <1>2, <1>3, <1>4, <1>5, <1>6

LEMMA SaveStateKeeps ==
  ASSUME Inductive, SaveState PROVE Inductive'
<1> USE DEF Inductive
<1>1. /\ pc = "menu" /\ pc' = "sidecars" /\ bound /\ gameFile \in File
      /\ UNCHANGED <<marker, clearing, menuVars, play, past, strayed, failed>>
  BY DEF SaveState, Places
<1>2. Here \in Index /\ FileOf(Here) = gameFile
  BY <1>1, HereIsFiled
<1>3. /\ disk'[Here].of = play /\ disk'[Here].strayed = strayed
      /\ disk'[Here] \in State
      /\ \A i \in Index \ {Here} : disk'[i] = disk[i]
  BY <1>2 DEF SaveState, TypeOK, State
<1>4. TypeOK'
  <2>1. disk' \in [Index -> State \cup {Empty}]
    BY <1>2 DEF SaveState, TypeOK, State
  <2>2. sidecars' \in [Index -> BOOLEAN]
    BY DEF SaveState, TypeOK
  <2> QED
    BY <1>1, <2>1, <2>2 DEF TypeOK
<1>5. Places'
  BY <1>1 DEF Places
<1>6. Cleared'
  BY <1>1, <1>2, <1>3, Numbers DEF Cleared, TypeOK
<1>7. Binding'
  BY <1>1 DEF Binding, Bound
<1>8. FiledUnderBound'
  <2>1. ~strayed => play \in {Title, gameFile}
    BY <1>1, Numbers DEF Binding, Bound, TypeOK, Play
  <2>2. disk'[Here].strayed \/ disk'[Here].of \in {Title, FileOf(Here)}
    BY <1>2, <1>3, <2>1
  <2> QED
    BY <1>3, <2>2 DEF FiledUnderBound
<1>9. BrowserFresh'
  BY <1>1 DEF BrowserFresh
<1> QED
  BY <1>4, <1>5, <1>6, <1>7, <1>8, <1>9

LEMMA SaveSidecarsKeeps ==
  ASSUME Inductive, SaveSidecars PROVE Inductive'
<1> USE DEF Inductive
<1>1. /\ pc = "sidecars" /\ pc' = "menu" /\ slots' = Described' /\ scanned' = TRUE
      /\ UNCHANGED <<disk, marker, clearing, gameFile, bound, open, selected>>
      /\ UNCHANGED <<play, past, strayed, failed>>
  BY DEF SaveSidecars
<1>2. Cleared' /\ FiledUnderBound'
  BY <1>1 DEF Cleared, FiledUnderBound
<1>3. TypeOK'
  <2>1. sidecars' \in [Index -> BOOLEAN]
    BY DEF SaveSidecars, TypeOK
  <2>2. \A s \in Slot : Described'[s] \in [used : BOOLEAN, sidecar : BOOLEAN]
    <3>1. \A s \in Slot : SlotIndex(gameFile, s) \in Index
      BY <1>1, SlotIndexFacts DEF Places
    <3> QED
      BY <1>1, <2>1, <3>1, NoSlotsType DEF Described, SlotIndex
  <2>3. slots' \in [Slot -> [used : BOOLEAN, sidecar : BOOLEAN]]
    BY <1>1, <2>2 DEF Described
  <2>4. {marker', bound', scanned', open'} \subseteq BOOLEAN
    BY <1>1 DEF TypeOK
  <2> QED
    BY <1>1, <2>1, <2>3, <2>4 DEF TypeOK
<1>4. Places'
  BY <1>1 DEF Places
<1>5. Binding'
  BY <1>1 DEF Binding, Bound
<1>6. BrowserFresh'
  BY <1>1 DEF BrowserFresh
<1> QED
  BY <1>2, <1>3, <1>4, <1>5, <1>6

\* A slot that the browser offers holds a state of a game, and one that no
\* rewind is behind holds the game that the menu is bound to.
LEMMA OfferedIsAState ==
  ASSUME Inductive, pc = "menu", slots[selected].used
  PROVE  /\ Here \in Index /\ disk[Here] \in State
         /\ disk[Here].strayed \/ disk[Here].of \in {Legacy, Title, gameFile}
<1> USE DEF Inductive
<1>1. gameFile \in File /\ Here \in Index /\ FileOf(Here) = gameFile
  BY HereIsFiled DEF Places
<1>2. slots = Described /\ selected \in Slot
  BY DEF Places, BrowserFresh, TypeOK
<1>3. disk[Here] # Empty
  <2>1. ~NoSlots[selected].used
    BY <1>2 DEF NoSlots
  <2>2. disk[SlotIndex(gameFile, selected)] = Empty => slots[selected] = NoSlots[selected]
    BY <1>2 DEF Described
  <2> QED
    BY <2>1, <2>2 DEF Here
<1>4. disk[Here] \in State
  BY <1>1, <1>3 DEF TypeOK
<1>5. disk[Here].strayed \/ disk[Here].of \in {Nothing, Legacy, Title} \cup {gameFile}
  BY <1>1 DEF FiledUnderBound
<1> QED
  BY <1>1, <1>3, <1>4, <1>5, Numbers

LEMMA LoadStateKeeps ==
  ASSUME Inductive, LoadState PROVE Inductive'
<1> USE DEF Inductive
<1>1. /\ pc = "menu" /\ pc' = "run" /\ slots[selected].used /\ past' = {} /\ open' = FALSE
      /\ play' \in GamesOf(disk[Here])
      /\ strayed' = IF disk[Here].of = Legacy THEN ~Bound(play') ELSE disk[Here].strayed
      /\ UNCHANGED <<files, clearing, gameFile, bound, scanned, slots, selected, failed>>
  BY DEF LoadState
<1>2. /\ disk[Here] \in State
      /\ disk[Here].strayed \/ disk[Here].of \in {Legacy, Title, gameFile}
  BY <1>1, OfferedIsAState
<1>3. Cleared' /\ FiledUnderBound'
  BY <1>1, FilesKept
<1>4. disk[Here].of # Legacy => play' = disk[Here].of /\ strayed' = disk[Here].strayed
  BY <1>1 DEF GamesOf
<1>5. disk[Here].of \in Play \cup {Legacy} /\ disk[Here].strayed \in BOOLEAN
  BY <1>2 DEF State
<1>6. TypeOK'
  <2>1. play' \in Play
    BY <1>1, <1>5 DEF GamesOf
  <2>2. strayed' \in BOOLEAN
    <3>1. CASE disk[Here].of = Legacy
      BY <1>1, <3>1 DEF Bound
    <3>2. CASE disk[Here].of # Legacy
      BY <1>4, <1>5, <3>2
    <3> QED
      BY <3>1, <3>2
  <2>3. {strayed', failed'} \subseteq BOOLEAN
    BY <1>1, <2>2 DEF TypeOK
  <2>4. {marker', bound', scanned', open'} \subseteq BOOLEAN
    BY <1>1 DEF TypeOK
  <2> QED
    BY <1>1, <2>1, <2>3, <2>4 DEF TypeOK
<1>7. Places'
  BY <1>1 DEF Places
<1>8. Binding'
  <2>1. CASE disk[Here].of = Legacy
    BY <1>1, <2>1 DEF Binding, Bound
  <2>2. CASE disk[Here].of # Legacy
    <3>1. ~strayed' => play' \in {Title, gameFile}
      BY <1>2, <1>4, <2>2
    <3>2. bound' /\ gameFile' = gameFile /\ gameFile \in File
      BY <1>1 DEF Places
    <3> QED
      BY <3>1, <3>2, Numbers DEF Binding, Bound, Title, Selecting, Unsaved
  <2> QED
    BY <2>1, <2>2
<1>9. BrowserFresh'
  BY <1>1, DescribedSame DEF BrowserFresh
<1> QED
  BY <1>3, <1>6, <1>7, <1>8, <1>9

-----------------------------------------------------------------------------
(* The theorems.                                                           *)

LEMMA StepInductive == Inductive /\ [Next]_vars => Inductive'
<1> SUFFICES ASSUME Inductive, [Next]_vars PROVE Inductive'
  OBVIOUS
<1>1. CASE Install \/ Mark \/ Kill
  BY <1>1, StartKeeps
<1>2. CASE ClearOne
  BY <1>2, ClearOneKeeps
<1>3. CASE FileSelect
  <2>1. PICK f \in File : Guest(Selecting) /\ OnTransfer("preview", f)
    BY <1>3 DEF FileSelect
  <2>2. Selecting \in Play /\ play \in Play
    BY DEF Play, Inductive, TypeOK
  <2> QED
    BY <2>1, <2>2, TransferKeeps
<1>4. CASE LoadGame
  <2>1. PICK f \in File : Guest(f) /\ OnTransfer("load", f)
    BY <1>4 DEF LoadGame
  <2>2. f \in Play /\ play \in Play
    BY DEF Play, Inductive, TypeOK
  <2> QED
    BY <2>1, <2>2, TransferKeeps
<1>5. CASE SaveGame
  <2>1. PICK f \in File : Guest(f) /\ OnTransfer("save", f)
    BY <1>5 DEF SaveGame
  <2>2. f \in Play /\ play \in Play
    BY DEF Play, Inductive, TypeOK
  <2> QED
    BY <2>1, <2>2, TransferKeeps
<1>6. CASE NewGame \/ GameOver \/ GameList \/ Rewind
  BY <1>6, UnreportedKeeps
<1>7. CASE ShowSlot \/ Open \/ Close \/ MoveSelection
  BY <1>7, BrowsingKeeps
<1>8. CASE SaveState
  BY <1>8, SaveStateKeeps
<1>9. CASE SaveSidecars
  BY <1>9, SaveSidecarsKeeps
<1>10. CASE LoadState
  BY <1>10, LoadStateKeeps
<1>11. CASE UNCHANGED vars
  <2>1. Described' = Described
    BY <1>11, DescribedSame DEF vars
  <2> QED
    BY <1>11, <2>1 DEF vars, Inductive, TypeOK, Places, Cleared, Binding, Bound,
       FiledUnderBound, BrowserFresh
<1> QED
  BY <1>1, <1>2, <1>3, <1>4, <1>5, <1>6, <1>7, <1>8, <1>9, <1>10, <1>11 DEF Next

THEOREM AlwaysInductive == Spec => []Inductive
<1>1. Init => Inductive
  BY InitInductive
<1>2. Inductive /\ [Next]_vars => Inductive'
  BY StepInductive
<1> QED
  BY <1>1, <1>2, PTL DEF Spec

\* Types: every state that the browser offers is a state of some game.
THEOREM TypeCorrect == Spec => []TypeOK
<1>1. Inductive => TypeOK
  BY DEF Inductive
<1> QED
  BY <1>1, AlwaysInductive, PTL

\* While a game that has a save file is played, the menu is unlocked and bound
\* to it, but for what a rewind past a transfer brought back.
THEOREM BindingHolds == Spec => []Binding
<1>1. Inductive => Binding
  BY DEF Inductive
<1> QED
  BY <1>1, AlwaysInductive, PTL

\* A state is filed among those of the file whose game it holds.
THEOREM StatesFiledUnderBound == Spec => []FiledUnderBound
<1>1. Inductive => FiledUnderBound
  BY DEF Inductive
<1> QED
  BY <1>1, AlwaysInductive, PTL

\* What the browser shows of a slot is what its files say.
THEOREM BrowserIsFresh == Spec => []BrowserFresh
<1>1. Inductive => BrowserFresh
  BY DEF Inductive
<1> QED
  BY <1>1, AlwaysInductive, PTL

\* Unless a file could not be removed, no unbound state is left when the game
\* runs, wherever clearing was cut short before.
THEOREM UnboundAreGone == Spec => []NoUnboundLeft
<1>1. Inductive => NoUnboundLeft
  BY DEF Inductive, Cleared, NoUnboundLeft
<1> QED
  BY <1>1, AlwaysInductive, PTL

\* Unless the marker could not be made, starting the program and every other
\* step leaves each bound state there, though a save may put another over it.
THEOREM BoundAreKept == Spec => BoundKept
<1>1. Inductive /\ [Next]_vars
        => [~failed => \A i \in Index : disk[i].of \in Play => disk'[i] # Empty]_vars
  <2> SUFFICES ASSUME Inductive, Next, ~failed, NEW i \in Index, disk[i].of \in Play
               PROVE  disk'[i] # Empty
    OBVIOUS
  <2>1. disk[i] # Empty
    BY Numbers
  <2>2. ~ClearOne
    <3>1. ASSUME ClearOne PROVE ~marker
      BY <3>1 DEF ClearOne, Inductive, Cleared
    <3> QED
      BY <3>1 DEF Inductive, Cleared, TypeOK
  <2>3. CASE SaveState
    <3>1. gameFile \in File
      BY <2>3 DEF SaveState, Inductive, Places
    <3>2. Here \in Index
      BY <3>1, HereIsFiled DEF Inductive
    <3>3. disk'[i] = disk[i] \/ disk'[i] \in State
      BY <2>3, <3>2 DEF SaveState, Inductive, TypeOK, State
    <3> QED
      BY <2>1, <3>3, Numbers
  <2>4. CASE ~SaveState
    <3>1. disk' = disk
      BY <2>2, <2>4 DEF Next, Install, Mark, Kill, FileSelect, LoadGame, SaveGame, NewGame,
         GameOver, GameList, Rewind, Guest, ShowSlot, Open, Close, MoveSelection,
         SaveSidecars, LoadState
    <3> QED
      BY <2>1, <3>1
  <2> QED
    BY <2>3, <2>4
<1> QED
  BY <1>1, AlwaysInductive, PTL DEF Spec, BoundKept

-----------------------------------------------------------------------------
(* The pad.                                                                *)

\* The menu's buttons are still down, and outside the menu they are masked; a
\* hold of the gesture that has toggled was seen whole by the last read.
PadInductive ==
  /\ PadTypeOK
  /\ toggles > 0 => Whole(held) /\ Whole(previous) /\ toggles = 1
  /\ ~InMenu => menuHeld \subseteq mask
  /\ mask \cap up = {}
  /\ NoLeak

\* Every step of the loop and of the player keeps PadInductive.
LEMMA PadInductiveStep == PadInductive /\ [PadNext]_padVars => PadInductive'
<1> SUFFICES ASSUME PadInductive, [PadNext]_padVars PROVE PadInductive'
  OBVIOUS
<1> USE DEF PadInductive, PadTypeOK, NoLeak, InMenu, Whole, Gesture, Button
<1>1. CASE Press
  BY <1>1 DEF Press
<1>2. CASE Release
  BY <1>2 DEF Release
<1>3. CASE CheckGesture
  BY <1>3 DEF CheckGesture
<1>4. CASE OpenByKey
  BY <1>4 DEF OpenByKey
<1>5. CASE PollNav
  BY <1>5 DEF PollNav
<1>6. CASE CloseOtherwise
  BY <1>6 DEF CloseOtherwise
<1>7. CASE LeaveMenu
  BY <1>7 DEF LeaveMenu
<1>8. CASE GuestFrame
  BY <1>8 DEF GuestFrame
<1>9. CASE SkipFrame
  BY <1>9 DEF SkipFrame
<1>10. CASE CheckRewind
  BY <1>10 DEF CheckRewind
<1>11. CASE LeaveRewind
  BY <1>11 DEF LeaveRewind
<1>12. CASE UNCHANGED padVars
  BY <1>12 DEF padVars
<1> QED
  BY <1>1, <1>2, <1>3, <1>4, <1>5, <1>6, <1>7, <1>8, <1>9, <1>10, <1>11,
     <1>12 DEF PadNext

\* PadInductive holds in every state the loop can reach.
THEOREM PadInductiveHolds == PadSpec => []PadInductive
<1>1. PadInit => PadInductive
  BY DEF PadInit, PadInductive, PadTypeOK, NoLeak, InMenu, Whole, Gesture, Button
<1> QED
  BY <1>1, PadInductiveStep, PTL DEF PadSpec

\* No guest frame is given a button that was pressed in a menu and has not been
\* let go since (RunRewindLoop, RunSaveStateMenuLoop and s_input_release_mask).
THEOREM NoButtonLeaks == PadSpec => []NoLeak
<1>1. PadInductive => NoLeak
  BY DEF PadInductive
<1> QED
  BY <1>1, PadInductiveHolds, PTL

\* One hold of Select and R opens or closes the menu at most once
\* (GesturePressed and PollNav sharing s_previous_inputs).
THEOREM GestureTogglesOnce == PadSpec => []GestureOnce
<1>1. PadInductive => GestureOnce
  BY DEF PadInductive, PadTypeOK, GestureOnce
<1> QED
  BY <1>1, PadInductiveHolds, PTL

\* A button that was up at a guest frame is not masked at the next
\* (s_input_release_mask &= raw_input).
THEOREM MaskAlwaysExpires == PadSpec => []MaskExpires
<1>1. PadInductive => MaskExpires
  BY DEF PadInductive, MaskExpires
<1> QED
  BY <1>1, PadInductiveHolds, PTL
=============================================================================
