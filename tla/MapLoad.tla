-------------------------------- MODULE MapLoad --------------------------------
(***************************************************************************)
(* When the processed map in bank $7F may be read (src/src/lufia2_map_load.c) *)
(* behind the events of native and interpreted map loads                   *)
(* (src/src/decomp_bridge/host_events.c).                                  *)
(*                                                                         *)
(* The guest selects a map first and loads it later, over several frames,  *)
(* natively or in the interpreter, and a native load that unwinds is       *)
(* finished by the interpreter.  A reset or a restored state abandons a    *)
(* load halfway, with no event.  The widescreen renderer, once a frame,    *)
(* asks whether a load is in progress and drops what it derived from the   *)
(* map when the generation has moved.                                      *)
(*                                                                         *)
(* The guest and its loader are external.                                  *)
(***************************************************************************)
EXTENDS Integers

CONSTANTS
  Map,        \* runtime map ids other than 0, the overworld
  Stack,      \* where the loader's frame lies on the guest's stack
  MaxPending  \* LUFIA2_MAX_PENDING_FRAMES, 120

ASSUME MapAssumption == Map \subseteq Nat \ {0}
ASSUME PendingAssumption == MaxPending \in Nat \ {0}
ASSUME StackAssumption == Stack \subseteq Nat \ {0}

Torn == -1    \* bank $7F half rewritten
NoMap == 0
Out == [at |-> "out", by |-> "interpreter", map |-> NoMap, stack |-> 0]

VARIABLES
  field,      \* external: the current-map field
  resident,   \* external: the map in bank $7F
  guest,      \* external: out of the loader, entering it, or loading
  state,      \* external: a saved state
  interpreterLoading, interpreterStack,   \* host_events.c
  loading, committed, pendingMap, committedMap, pendingField, pendingFrames,
  renewed,    \* s_generation # the renderer's s_map_generation
  cache,      \* the map from which the renderer derived what it keeps
  framed,     \* history: the field at the last frame
  missed      \* history: a state was restored inside a load, and no load
              \* has begun and no other state was restored since

external == <<field, resident, guest, state>>
events == <<interpreterLoading, interpreterStack>>
readiness == <<loading, committed, pendingMap, committedMap, pendingField, pendingFrames>>
history == <<framed, missed>>
vars == <<external, events, readiness, renewed, cache, history>>

Saved == [field |-> field, resident |-> resident, guest |-> guest]

Init ==
  /\ field = NoMap /\ resident = Torn /\ guest = Out /\ state = Saved
  /\ interpreterLoading = FALSE /\ interpreterStack = 0
  /\ loading = FALSE /\ committed = FALSE /\ pendingMap = NoMap /\ committedMap = NoMap
  /\ pendingField = NoMap /\ pendingFrames = 0
  /\ renewed = FALSE /\ cache = NoMap /\ framed = NoMap /\ missed = FALSE

-----------------------------------------------------------------------------
(* The events.                                                             *)

\* Mistake: loading the same map once more is no load.
BeginAnother(map, stack) ==
  /\ interpreterLoading' = TRUE /\ interpreterStack' = stack
  /\ loading' = (map # committedMap) /\ pendingMap' = map
  /\ UNCHANGED <<committed, committedMap, pendingField, pendingFrames, renewed>>

\* Lufia2DecompMapLoadBegin and MapLoadBegin.
Begin(map, stack) ==
  /\ interpreterLoading' = TRUE /\ interpreterStack' = stack
  /\ loading' = TRUE /\ pendingMap' = map
  /\ UNCHANGED <<committed, committedMap, pendingField, pendingFrames, renewed>>

\* Mistake: what was derived from the map before is kept.
CommitSilent ==
  /\ loading' = FALSE /\ UNCHANGED <<pendingMap, pendingField, renewed>>
  /\ IF loading
     THEN committed' = TRUE /\ committedMap' = pendingMap /\ pendingFrames' = 0
     ELSE UNCHANGED <<committed, committedMap, pendingFrames>>

\* MapLoadCommit.
Commit ==
  /\ loading' = FALSE /\ UNCHANGED <<pendingMap, pendingField>>
  /\ IF loading
     THEN /\ committed' = TRUE /\ committedMap' = pendingMap
          /\ pendingFrames' = 0 /\ renewed' = TRUE
     ELSE UNCHANGED <<committed, committedMap, pendingFrames, renewed>>

\* InterpreterMapCommitted: every interpreted return from the loader.
InterpreterCommitted(stack) ==
  /\ interpreterLoading' = FALSE /\ UNCHANGED interpreterStack
  /\ IF interpreterLoading /\ stack = interpreterStack
     THEN Commit ELSE UNCHANGED <<readiness, renewed>>

\* Mistake: a new entry leaves a load open that will never be finished.
EnteredKeepsLoad == UNCHANGED interpreterLoading

\* InterpreterMapEntered: a new entry cancels a load that was abandoned.
Entered == interpreterLoading' = FALSE

-----------------------------------------------------------------------------
(* The guest.                                                              *)

Select ==
  /\ guest.at = "out" /\ field' \in Map \cup {NoMap}
  /\ UNCHANGED <<resident, guest, state, events, readiness, renewed, cache, history>>

Enter ==
  /\ guest.at = "out" /\ field # NoMap
  /\ \E s \in Stack : guest' = [Out EXCEPT !.at = "in", !.map = field, !.stack = s]
  /\ Entered
  /\ UNCHANGED <<field, resident, state, interpreterStack, readiness, renewed, cache, history>>

\* The loader finds the map already loaded and returns the way a load does.
Skip ==
  /\ guest.at = "in" /\ guest' = Out
  /\ InterpreterCommitted(guest.stack)
  /\ UNCHANGED <<field, resident, state, cache, history>>

\* The load itself begins.  The native loader reports neither its entry nor a
\* map that is already loaded.
BeginLoad ==
  /\ \/ guest.at = "in" /\ guest' = [guest EXCEPT !.at = "load"]
     \/ /\ guest.at = "out" /\ field # NoMap
        /\ \E s \in Stack :
             guest' = [at |-> "load", by |-> "native", map |-> field, stack |-> s]
  /\ resident' = Torn
  /\ Begin(guest'.map, guest'.stack)
  /\ missed' = FALSE
  /\ UNCHANGED <<field, state, cache, framed>>

Unwind ==
  /\ guest.at = "load" /\ guest.by = "native"
  /\ guest' = [guest EXCEPT !.by = "interpreter"]
  /\ UNCHANGED <<field, resident, state, events, readiness, renewed, cache, history>>

\* The load returns: Lufia2DecompMapLoadCommitted, or through the interpreter.
Return ==
  /\ guest.at = "load" /\ guest' = Out /\ resident' = guest.map
  /\ \/ guest.by = "interpreter" /\ InterpreterCommitted(guest.stack)
     \/ /\ guest.by = "native" /\ interpreterLoading' = FALSE /\ Commit
        /\ UNCHANGED interpreterStack
  /\ UNCHANGED <<field, state, cache, history>>

\* A reset of the game.
Abandon ==
  /\ guest # Out /\ guest' = Out /\ field' = NoMap
  /\ UNCHANGED <<resident, state, events, readiness, renewed, cache, history>>

\* The rewind saves after every frame of the guest (main.c), inside a load too.
SaveState ==
  /\ state' = Saved
  /\ UNCHANGED <<field, resident, guest, events, readiness, renewed, cache, history>>

\* A restored state, with Lufia2MapLoadStateChanged.  Whatever the guest was at
\* goes on in the interpreter, and a load that it was at is forgotten.
RestoreState ==
  /\ field' = state.field /\ resident' = state.resident
  /\ guest' = [state.guest EXCEPT !.by = "interpreter"]
  /\ missed' = (state.guest.at = "load")
  /\ loading' = FALSE /\ committed' = FALSE /\ pendingMap' = NoMap
  /\ committedMap' = NoMap /\ pendingField' = field' /\ pendingFrames' = 0
  /\ renewed' = TRUE
  /\ UNCHANGED <<state, events, cache, framed>>

-----------------------------------------------------------------------------
(* A frame.                                                                *)

\* MapFieldIsPending.
Pending == committed /\ field # NoMap /\ field # committedMap

\* Lufia2MapLoadInProgress.
InProgress == loading \/ (Pending /\ pendingFrames <= MaxPending)

\* Mistake: one budget for all the maps that are selected.
MapLoadFrameOneBudget ==
  IF loading \/ ~Pending
  THEN pendingField' = field /\ pendingFrames' = 0
  ELSE /\ pendingField' = field
       /\ pendingFrames' = IF pendingFrames > MaxPending THEN pendingFrames
                           ELSE pendingFrames + 1

\* Mistake: the budget is never spent.
MapLoadFrameForever ==
  pendingField' = field /\ pendingFrames' = 0

\* Lufia2MapLoadFrame: each selected map gets its own budget.
MapLoadFrame ==
  IF loading \/ ~Pending
  THEN pendingField' = field /\ pendingFrames' = 0
  ELSE LET spent == IF field = pendingField THEN pendingFrames ELSE 0 IN
       /\ pendingField' = field
       /\ pendingFrames' = IF spent > MaxPending THEN spent ELSE spent + 1

\* PrepareVideoFrame: MapLoadFrame, then Lufia2PrepareMapWidescreen.
Frame ==
  /\ MapLoadFrame
  /\ UNCHANGED <<external, events, loading, committed, pendingMap, committedMap>>
  /\ renewed' = FALSE
  /\ cache' = IF InProgress' \/ field = NoMap THEN NoMap
              ELSE IF renewed \/ cache = NoMap THEN resident ELSE cache
  /\ framed' = field /\ UNCHANGED missed

Next ==
  \/ Select \/ Enter \/ Skip \/ BeginLoad \/ Unwind \/ Return \/ Abandon
  \/ SaveState \/ RestoreState \/ Frame

Spec == Init /\ [][Next]_vars

\* Frames go on being prepared.
FairSpec == Spec /\ WF_vars(Frame)

-----------------------------------------------------------------------------
(* Properties.                                                             *)

TypeOK ==
  LET Id == Map \cup {NoMap} IN
  /\ {field, pendingMap, committedMap, pendingField, framed} \subseteq Id
  /\ {resident, cache} \subseteq Id \cup {Torn}
  /\ guest \in [at : {"out", "in", "load"}, by : {"native", "interpreter"},
                map : Id, stack : Stack \cup {0}]
  /\ {interpreterLoading, loading, committed, renewed, missed} \subseteq BOOLEAN
  /\ interpreterStack \in Stack \cup {0} /\ pendingFrames \in 0 .. MaxPending + 1

\* A map counts as committed only while it is whole in bank $7F, whatever loads
\* were unwound, abandoned or restored on the way.
CommitExact == committed /\ ~loading => resident = committedMap

\* While the guest rewrites bank $7F, a load is reported, unless the load is
\* one that a restored state lies in: Lufia2MapLoadStateChanged forgets it.
LoadCovered == guest.at = "load" /\ ~missed => InProgress

\* After a frame the renderer keeps nothing that it derived from another map
\* than the one in bank $7F, though a load may begin and end between frames.
\* What it derived from the half-written bank of a missed load may stay until
\* the next load or restored state, and no longer.
CacheCurrent ==
  [][Frame /\ ~missed => cache' \in {NoMap, resident}]_vars

\* The same of every load.  The code does not promise it: a state restored
\* inside a load is the counterexample (MapLoadRestore.cfg).
EveryLoadCovered == guest.at = "load" => InProgress

\* A map selected since the last frame is reported as loading, however many
\* maps before it never reached the loader.
FreshReported ==
  [][Frame /\ field # framed /\ Pending => InProgress']_vars

\* A map that never reaches the loader is not waited for forever.
BudgetSpent ==
  \A m \in Map : <>[](field = m /\ ~loading) => <>[]~InProgress
=============================================================================
