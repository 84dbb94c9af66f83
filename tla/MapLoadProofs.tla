------------------------------ MODULE MapLoadProofs ------------------------------
(* Proofs about MapLoad: a committed map is whole, a load is reported while it *)
(* lasts, and what the renderer derived from a map goes with it.               *)
EXTENDS MapLoad, TLAPS

Id == Map \cup {NoMap}
GuestType ==
  [at : {"out", "in", "load"}, by : {"native", "interpreter"}, map : Id, stack : Stack \cup {0}]
StateType == [field : Id, resident : Id \cup {Torn}, guest : GuestType]

Types ==
  /\ field \in Id /\ pendingMap \in Id /\ committedMap \in Id /\ pendingField \in Id
  /\ framed \in Id /\ resident \in Id \cup {Torn} /\ cache \in Id \cup {Torn}
  /\ guest \in GuestType /\ state \in StateType
  /\ interpreterLoading \in BOOLEAN /\ loading \in BOOLEAN /\ committed \in BOOLEAN
  /\ renewed \in BOOLEAN /\ missed \in BOOLEAN
  /\ interpreterStack \in Stack \cup {0} /\ pendingFrames \in 0 .. MaxPending + 1

\* The load that the observer has open, if it has one, is the guest's; one
\* that the guest has abandoned is closed by the next entry, so a map that was
\* found loaded commits nothing.
OpenLoad ==
  /\ guest.at = "load" /\ loading => pendingMap = guest.map
  /\ guest.at = "load" /\ ~loading => ~committed
  /\ guest.at = "in" /\ loading => ~interpreterLoading

Committing == Types /\ OpenLoad /\ CommitExact

\* What is known since the last load began, or since a state outside every load
\* was restored.
CacheKnown == ~renewed /\ ~loading => cache \in {NoMap, resident}
Whole == guest.at = "load" => loading
Reporting == ~missed => Whole /\ CacheKnown

\* The budget spent is that of the map the last frame saw.
Counted == pendingField = framed \/ pendingFrames = 0

\* What CacheCurrent and FreshReported say of one step.
CacheStep == Frame /\ ~missed => cache' \in {NoMap, resident}
FreshStep == Frame /\ field # framed /\ Pending => InProgress'

LEMMA CommittingStart == Init => Committing
<1> SUFFICES ASSUME Init PROVE Committing
  OBVIOUS
<1>1. Out \in GuestType /\ NoMap \in Id
  BY DEF Out, GuestType, Id, NoMap
<1>3. state \in StateType
  BY <1>1 DEF Init, StateType, Saved
<1>4. pendingFrames \in 0 .. MaxPending + 1
  BY PendingAssumption DEF Init
<1>2. Types
  BY <1>1, <1>3, <1>4 DEF Init, Types
<1> QED
  BY <1>2 DEF Init, Committing, OpenLoad, CommitExact, Out

\* The events and the readiness keep their types when a load may have ended.
LEMMA CommitTypes ==
  ASSUME Types, interpreterLoading' = FALSE, interpreterStack' = interpreterStack,
         Commit \/ UNCHANGED <<readiness, renewed>>
  PROVE  /\ pendingMap' \in Id /\ committedMap' \in Id /\ pendingField' \in Id
         /\ interpreterLoading' \in BOOLEAN /\ loading' \in BOOLEAN /\ committed' \in BOOLEAN
         /\ renewed' \in BOOLEAN
         /\ interpreterStack' \in Stack \cup {0} /\ pendingFrames' \in 0 .. MaxPending + 1
<1>1. CASE UNCHANGED <<readiness, renewed>>
  BY <1>1 DEF Types, readiness
<1>2. CASE Commit /\ loading
  <2>1. 0 \in 0 .. MaxPending + 1
    BY PendingAssumption
  <2>2. pendingFrames' \in 0 .. MaxPending + 1
    BY <1>2, <2>1 DEF Commit
  <2> QED
    BY <1>2, <2>2 DEF Types, Commit
<1>3. CASE Commit /\ ~loading
  BY <1>3 DEF Types, Commit
<1> QED
  BY <1>1, <1>2, <1>3

LEMMA TypesStep == Types /\ [Next]_vars => Types'
<1> SUFFICES ASSUME Types, [Next]_vars PROVE Types'
  OBVIOUS
<1> USE PendingAssumption DEF Types, history
<1>t. Out \in GuestType /\ NoMap \in Id
  BY DEF Out, GuestType, Id, NoMap
<1>1. CASE Select
  BY <1>1 DEF Select, events, readiness, Id
<1>2. CASE Enter
  <2>1. guest' \in GuestType
    BY <1>2, <1>t DEF Enter, GuestType, Out
  <2> QED
    BY <1>2, <2>1 DEF Enter, Entered, readiness
<1>3. CASE Skip
  <2>1. /\ interpreterLoading' = FALSE /\ interpreterStack' = interpreterStack
        /\ Commit \/ UNCHANGED <<readiness, renewed>>
    BY <1>3 DEF Skip, InterpreterCommitted
  <2> QED
    BY <1>3, <1>t, <2>1, CommitTypes DEF Skip
<1>4. CASE BeginLoad
  <2>1. guest' \in GuestType /\ guest'.map \in Id /\ guest'.stack \in Stack \cup {0}
    BY <1>4 DEF BeginLoad, GuestType
  <2> QED
    BY <1>4, <2>1 DEF BeginLoad, Begin
<1>5. CASE Unwind
  BY <1>5 DEF Unwind, GuestType, events, readiness
<1>6. CASE Return
  <2>1. /\ interpreterLoading' = FALSE /\ interpreterStack' = interpreterStack
        /\ Commit \/ UNCHANGED <<readiness, renewed>>
    BY <1>6 DEF Return, InterpreterCommitted
  <2>2. guest.map \in Id
    BY DEF GuestType
  <2> QED
    BY <1>6, <1>t, <2>1, <2>2, CommitTypes DEF Return
<1>7. CASE Abandon
  BY <1>7, <1>t DEF Abandon, events, readiness
<1>8. CASE SaveState
  <2>1. state' \in StateType
    BY <1>8 DEF SaveState, Saved, StateType
  <2> QED
    BY <1>8, <2>1 DEF SaveState, events, readiness
<1>9. CASE RestoreState
  <2>1. state.field \in Id /\ state.resident \in Id \cup {Torn} /\ state.guest \in GuestType
    BY DEF StateType
  <2>3. guest' \in GuestType
    BY <1>9, <2>1 DEF RestoreState, GuestType
  <2>2. pendingFrames' \in 0 .. MaxPending + 1
    BY <1>9 DEF RestoreState
  <2> QED
    BY <1>9, <1>t, <2>1, <2>2, <2>3 DEF RestoreState, events
<1>10. CASE Frame
  <2>1. pendingFrames' \in 0 .. MaxPending + 1
    BY <1>10 DEF Frame, MapLoadFrame
  <2>2. pendingField' \in Id
    BY <1>10 DEF Frame, MapLoadFrame, external
  <2>3. cache' \in Id \cup {Torn}
    BY <1>10, <1>t DEF Frame
  <2> QED
    BY <1>10, <2>1, <2>2, <2>3 DEF Frame, external, events
<1>11. CASE UNCHANGED vars
  BY <1>11 DEF vars, external, events, readiness
<1> QED
  BY <1>1, <1>2, <1>3, <1>4, <1>5, <1>6, <1>7, <1>8, <1>9, <1>10, <1>11 DEF Next

LEMMA CommittingStep == Committing /\ [Next]_vars => Committing'
<1> SUFFICES ASSUME Committing, [Next]_vars PROVE Committing'
  OBVIOUS
<1>0. Types'
  BY TypesStep DEF Committing
<1> USE DEF Committing, Types, OpenLoad, CommitExact
<1>1. CASE Select
  BY <1>0, <1>1 DEF Select, events, readiness
<1>2. CASE Enter
  BY <1>0, <1>2 DEF Enter, Entered, Out, readiness
<1>3. CASE Skip
  BY <1>0, <1>3 DEF Skip, InterpreterCommitted, Commit, Out, readiness
<1>4. CASE BeginLoad
  BY <1>0, <1>4 DEF BeginLoad, Begin, GuestType
<1>5. CASE Unwind
  BY <1>0, <1>5 DEF Unwind, GuestType, events, readiness
<1>6. CASE Return
  BY <1>0, <1>6 DEF Return, InterpreterCommitted, Commit, Out, readiness
<1>7. CASE Abandon
  BY <1>0, <1>7 DEF Abandon, Out, events, readiness
<1>8. CASE SaveState
  BY <1>0, <1>8 DEF SaveState, events, readiness
<1>9. CASE RestoreState
  BY <1>0, <1>9 DEF RestoreState, events
<1>10. CASE Frame
  BY <1>0, <1>10 DEF Frame, MapLoadFrame, external, events
<1>11. CASE UNCHANGED vars
  BY <1>0, <1>11 DEF vars, external, events, readiness
<1> QED
  BY <1>1, <1>2, <1>3, <1>4, <1>5, <1>6, <1>7, <1>8, <1>9, <1>10, <1>11 DEF Next

\* A map counts as committed only while it is whole in bank $7F, wherever a
\* restored state lies (MapLoadCommit, InterpreterMapEntered).
THEOREM CommitIsExact == Spec => []CommitExact
<1>1. Committing => CommitExact
  BY DEF Committing
<1> QED
  BY <1>1, CommittingStart, CommittingStep, PTL DEF Spec

\* A load is known to the observer, and what the renderer keeps is known to be
\* the map's; a restored state makes this so again unless it lies inside a load,
\* and then the next load does.
LEMMA ReportingStep == Committing /\ Reporting /\ [Next]_vars => Reporting'
<1> SUFFICES ASSUME Committing, Reporting, [Next]_vars PROVE Reporting'
  OBVIOUS
<1>0. Types'
  BY TypesStep DEF Committing
<1> USE DEF Committing, Types, OpenLoad, CommitExact, Reporting, Whole, CacheKnown, history
<1>1. CASE Select
  BY <1>0, <1>1 DEF Select, events, readiness
<1>2. CASE Enter
  BY <1>0, <1>2 DEF Enter, Entered, Out, readiness
<1>3. CASE Skip
  BY <1>0, <1>3 DEF Skip, InterpreterCommitted, Commit, Out, readiness
<1>4. CASE BeginLoad
  BY <1>0, <1>4 DEF BeginLoad, Begin
<1>5. CASE Unwind
  BY <1>0, <1>5 DEF Unwind, GuestType, events, readiness
<1>6. CASE Return
  BY <1>0, <1>6 DEF Return, InterpreterCommitted, Commit, Out, readiness
<1>7. CASE Abandon
  BY <1>0, <1>7 DEF Abandon, Out, events, readiness
<1>8. CASE SaveState
  BY <1>0, <1>8 DEF SaveState, events, readiness
<1>9. CASE RestoreState
  BY <1>0, <1>9 DEF RestoreState, events, StateType, GuestType
<1>10. CASE Frame
  BY <1>0, <1>10 DEF Frame, MapLoadFrame, InProgress, external, events
<1>11. CASE UNCHANGED vars
  BY <1>0, <1>11 DEF vars, external, events, readiness
<1> QED
  BY <1>1, <1>2, <1>3, <1>4, <1>5, <1>6, <1>7, <1>8, <1>9, <1>10, <1>11 DEF Next

LEMMA CacheKept == Reporting => CacheStep
  BY DEF Reporting, CacheKnown, CacheStep, Frame, InProgress, external

\* While the guest rewrites bank $7F, a load is reported (MapLoadBegin, and the
\* events that end a load), however often states are saved inside one: only the
\* load that a restored state lies in is missed, and only until it is over.
THEOREM LoadIsCovered == Spec => []LoadCovered
<1>1. Init => Reporting
  BY DEF Init, Reporting, Whole, CacheKnown, Out, Saved
<1>2. Committing /\ Reporting /\ [Next]_vars => Reporting'
  BY ReportingStep
<1>3. Reporting => LoadCovered
  BY DEF Reporting, Whole, LoadCovered, InProgress
<1> QED
  BY <1>1, <1>2, <1>3, CommittingStart, CommittingStep, PTL DEF Spec

\* What the renderer keeps after a frame was derived from the map in bank $7F
\* (Lufia2PrepareMapWidescreen, s_generation), but for what the bank held in a
\* missed load, which the next load or restored state drops.
THEOREM CacheIsCurrent == Spec => CacheCurrent
<1>1. Init => Reporting
  BY DEF Init, Reporting, Whole, CacheKnown, Out, Saved
<1>2. Committing /\ Reporting /\ [Next]_vars => Reporting'
  BY ReportingStep
<1>3. Reporting /\ [Next]_vars => [Frame /\ ~missed => cache' \in {NoMap, resident}]_vars
  BY CacheKept DEF CacheStep
<1> QED
  BY <1>1, <1>2, <1>3, CommittingStart, CommittingStep, PTL DEF Spec, CacheCurrent

LEMMA CountedStep == Types /\ Counted /\ [Next]_vars => Counted'
<1> SUFFICES ASSUME Types, Counted, [Next]_vars PROVE Counted'
  OBVIOUS
<1> USE DEF Types, Counted, history
<1>1. CASE Select \/ Enter \/ Unwind \/ Abandon \/ SaveState
  BY <1>1 DEF Select, Enter, Unwind, Abandon, SaveState, readiness
<1>2. CASE BeginLoad
  BY <1>2 DEF BeginLoad, Begin
<1>3. CASE Skip \/ Return
  BY <1>3 DEF Skip, Return, InterpreterCommitted, Commit, readiness
<1>4. CASE RestoreState
  BY <1>4 DEF RestoreState
<1>5. CASE Frame
  BY <1>5 DEF Frame, MapLoadFrame
<1>6. CASE UNCHANGED vars
  BY <1>6 DEF vars, readiness
<1> QED
  BY <1>1, <1>2, <1>3, <1>4, <1>5, <1>6 DEF Next

\* A map selected since the last frame is reported as loading at once, however
\* much of another map's budget was spent (Lufia2MapLoadFrame).
THEOREM FreshIsReported == Spec => FreshReported
<1>1. Init => Counted
  BY DEF Init, Counted
<1>2. Types /\ Counted => FreshStep
  BY PendingAssumption DEF Types, Counted, FreshStep, Frame, MapLoadFrame, Pending, InProgress, external
<1>3. FreshStep => [Frame /\ field # framed /\ Pending => InProgress']_vars
  BY DEF FreshStep
<1>4. Committing => Types
  BY DEF Committing
<1> QED
  BY <1>1, <1>2, <1>3, <1>4, CommittingStart, CommittingStep, CountedStep, PTL
  DEF Spec, FreshReported
=============================================================================
