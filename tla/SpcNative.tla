------------------------------- MODULE SpcNative -------------------------------
(***************************************************************************)
(* The decompiled sound driver as the APU program                          *)
(* (src/src/lufia2_spc_native.c): the queue of hardware accesses that the  *)
(* original would make later, runs deferred while it is not empty, taking  *)
(* over from the interpreted SPC, and saved states with and without the    *)
(* driver's chunk.                                                         *)
(*                                                                         *)
(* The APU clock is a counter of Modulus values that wraps, as the uint32  *)
(* of the code does; the core that counts it and asks Active before every  *)
(* use of the program is external.                                         *)
(***************************************************************************)
EXTENDS Integers, SequencesExt

CONSTANTS
  Dsp, Other,  \* the DSP registers; ports, control and timer targets
  Value,
  MaxBusy,     \* the longest run, in cycles
  RunLength,   \* a bound: the most accesses of a run
  Modulus,     \* 2^32
  StateClock,  \* a bound: the clocks of the states that are loaded
  Limit        \* QUEUE_LIMIT

ASSUME ClockAssumption ==
  /\ Modulus \in Nat \ {0} /\ Modulus % 2 = 0
  /\ MaxBusy \in Nat /\ MaxBusy < Modulus \div 2
  /\ StateClock \subseteq 0 .. Modulus - 1
ASSUME QueueAssumption == {Limit, RunLength} \subseteq Nat \ {0}
ASSUME ValueAssumption == Value # {}

Target == Dsp \cup Other
Clock == 0 .. Modulus - 1

\* Where the SPC is: the driver not uploaded; at its entry, or held there with
\* cycles left since a native driver took it over; at the boundary of an empty
\* main loop; or anywhere else in the driver.
Place == {"loader", "entry", "held", "idle", "busy"}

VARIABLES
  cycles,    \* external: apu->cycles
  place,     \* external: the interpreted SPC
  hardware,  \* external: the APU's registers
  queue, runDelay, runDeferred, active, loadedWithoutState, resumeIdle,
  running, accesses,  \* a run is under way, and how many accesses it has made
  saved,     \* a saved state
  written,   \* history: what the driver, or the SPC, wrote last
  strayed    \* history: a state is played that was saved when an older one had
             \* been loaded and the driver had not yet settled

core == <<cycles, place, hardware>>
mode == <<active, loadedWithoutState, resumeIdle>>
history == <<written, strayed>>
vars == <<core, queue, runDelay, runDeferred, mode, running, accesses, saved, history>>

Queued == [target : Target, value : Value, due : Clock]

\* SaveState: queue times relative to the clock.  Before the driver has settled,
\* the queue and the flag are still those that the older state has replaced.
Image == [hardware |-> hardware, place |-> place, active |-> active,
          queue |-> [i \in DOMAIN queue |->
                       [queue[i] EXCEPT !.due = (@ - cycles) % Modulus]],
          runDeferred |-> runDeferred, written |-> written,
          strayed |-> strayed \/ (loadedWithoutState /\ active)]

Init ==
  /\ cycles = Modulus - 1 /\ place = "loader"
  /\ hardware = [t \in Target |-> CHOOSE v \in Value : TRUE]
  /\ queue = <<>> /\ runDelay = 0 /\ runDeferred = FALSE
  /\ active = FALSE /\ loadedWithoutState = FALSE /\ resumeIdle = FALSE
  /\ running = FALSE /\ accesses = 0 /\ written = hardware
  /\ strayed = FALSE /\ saved = Image

Apply(registers, due) ==
  FoldLeft(LAMBDA r, a : [r EXCEPT ![a.target] = a.value], registers, due)

-----------------------------------------------------------------------------
(* A run of the driver.                                                    *)

Used == active /\ ~loadedWithoutState

StartRun ==
  /\ running' = TRUE /\ accesses' = 0 /\ runDelay' = 0

\* Run: a port write or a timer tick.
Run ==
  /\ Used /\ ~running
  /\ IF queue # <<>>
     THEN runDeferred' = TRUE /\ UNCHANGED <<running, accesses, runDelay>>
     ELSE StartRun /\ UNCHANGED runDeferred
  /\ UNCHANGED <<core, queue, mode, saved, history>>

Delay ==
  /\ running /\ runDelay' \in runDelay + 1 .. MaxBusy
  /\ UNCHANGED <<core, queue, runDeferred, mode, running, accesses, saved, history>>

\* Access: now, or after this run's busy time; a full queue gives up its head.
Access(a) ==
  IF runDelay = 0 /\ queue = <<>>
  THEN hardware' = Apply(hardware, <<a>>) /\ UNCHANGED queue
  ELSE IF Len(queue) = Limit
  THEN hardware' = Apply(hardware, <<Head(queue)>>) /\ queue' = Append(Tail(queue), a)
  ELSE queue' = Append(queue, a) /\ UNCHANGED hardware

Write ==
  /\ running /\ accesses < RunLength
  /\ accesses' = accesses + 1
  /\ \E t \in Target, v \in Value :
       /\ Access([target |-> t, value |-> v, due |-> (cycles + runDelay) % Modulus])
       /\ written' = [written EXCEPT ![t] = v]
  /\ UNCHANGED <<cycles, place, runDelay, runDeferred, mode, running, saved, strayed>>

\* RunDriver clears s_run_delay once more; taking over does not, but nothing
\* reads it until a run clears it.
End ==
  /\ running /\ running' = FALSE /\ accesses' = 0 /\ runDelay' = 0
  /\ UNCHANGED <<core, queue, runDeferred, mode, saved, history>>

\* Mistake: the first write of a register is found, not the last.
ReadDspFirst(reg) ==
  LET hits == {i \in DOMAIN queue : queue[i].target = reg} IN
  IF hits = {} THEN hardware[reg] ELSE queue[Min(hits)].value

\* A queued DSP write is what the original reads.
ReadDsp(reg) ==
  LET hits == {i \in DOMAIN queue : queue[i].target = reg} IN
  IF hits = {} THEN hardware[reg] ELSE queue[Max(hits)].value

-----------------------------------------------------------------------------
(* The clock.                                                              *)

\* Mistake: the times are compared as they are.
ReachedUnsigned(now, a) == now >= a.due

\* (int32_t)(now - due) >= 0
Reached(now, a) == (now - a.due) % Modulus < Modulus \div 2

\* Idle: the cycles the core may count before it has to call Cycle.
Idle ==
  LET wait == (queue[1].due - cycles) % Modulus IN
  IF queue = <<>> THEN Modulus - 1 ELSE IF wait < Modulus \div 2 THEN wait ELSE 0

\* Cycle, with ApplyDue.
Cycle ==
  /\ Used /\ ~running
  /\ \E n \in 1 .. Max({1, Idle}) :
       LET now == (cycles + n) % Modulus
           applied == Max({k \in 0 .. Len(queue) : \A i \in 1 .. k : Reached(now, queue[i])})
       IN /\ cycles' = now
          /\ hardware' = Apply(hardware, SubSeq(queue, 1, applied))
          /\ queue' = SubSeq(queue, applied + 1, Len(queue))
  /\ IF queue # <<>> /\ queue' = <<>> /\ runDeferred
     THEN StartRun /\ runDeferred' = FALSE
     ELSE UNCHANGED <<running, accesses, runDelay, runDeferred>>
  /\ UNCHANGED <<place, mode, saved, history>>

-----------------------------------------------------------------------------
(* Taking over, and saved states.                                          *)

\* The SPC interprets its own program.
Interpret ==
  /\ ~active /\ ~loadedWithoutState
  /\ place' \in Place \ {"held"} /\ cycles' = (cycles + 1) % Modulus
  /\ \E t \in Target, v \in Value : hardware' = [hardware EXCEPT ![t] = v]
  /\ written' = hardware'
  /\ UNCHANGED <<queue, runDelay, runDeferred, mode, running, accesses, saved, strayed>>

\* At the entry the driver's start code is the first run; at the boundary of an
\* empty main loop there is nothing to start.
TakeOver ==
  /\ ~active /\ ~loadedWithoutState
  /\ place \in {"entry", "held"} \/ (resumeIdle /\ place = "idle")
  /\ queue' = <<>> /\ runDeferred' = FALSE /\ runDelay' = 0
  /\ running' = (place \in {"entry", "held"}) /\ accesses' = 0
  /\ active' = TRUE /\ resumeIdle' = FALSE
  /\ UNCHANGED <<core, loadedWithoutState, saved, history>>

\* The save loop of a paused game runs without the core, so a state may be saved
\* that was just loaded (main.c).
SaveState ==
  /\ ~running
  /\ saved' = Image
  /\ UNCHANGED <<core, queue, runDelay, runDeferred, mode, running, accesses, history>>

\* The core's state, then Loaded, then LoadState.
LoadState ==
  /\ ~running
  /\ cycles' \in StateClock /\ hardware' = saved.hardware /\ place' = saved.place
  /\ queue' = [i \in DOMAIN saved.queue |->
                 [saved.queue[i] EXCEPT !.due = (@ + cycles') % Modulus]]
  /\ active' = saved.active /\ runDeferred' = saved.runDeferred
  /\ loadedWithoutState' = FALSE /\ resumeIdle' = FALSE
  /\ written' = saved.written /\ strayed' = saved.strayed
  /\ UNCHANGED <<runDelay, running, accesses, saved>>

\* A state without the chunk, from before the driver had one: Loaded only.
LoadOlder ==
  /\ ~running
  /\ place' \in Place /\ hardware' \in [Target -> Value] /\ written' = hardware'
  /\ cycles' \in StateClock /\ strayed' = FALSE
  /\ loadedWithoutState' = TRUE /\ resumeIdle' = FALSE
  /\ UNCHANGED <<queue, runDelay, runDeferred, active, running, accesses, saved>>

\* Mistake: a request from before the load is still waiting.
SettleKeepsRequest ==
  /\ loadedWithoutState /\ loadedWithoutState' = FALSE
  /\ queue' = <<>>
  /\ active' = (place = "held")
  /\ resumeIdle' = (place \in {"entry", "idle", "busy"})
  /\ UNCHANGED <<core, runDeferred, runDelay, running, accesses, saved, history>>

\* Active, with SettleAfterLoad.
Settle ==
  /\ loadedWithoutState /\ loadedWithoutState' = FALSE
  /\ queue' = <<>> /\ runDeferred' = FALSE
  /\ active' = (place = "held")
  /\ resumeIdle' = (place \in {"entry", "idle", "busy"})
  /\ UNCHANGED <<core, runDelay, running, accesses, saved, history>>

Next ==
  \/ Run \/ Delay \/ Write \/ End \/ Cycle
  \/ Interpret \/ TakeOver \/ SaveState \/ LoadState \/ LoadOlder \/ Settle

Spec == Init /\ [][Next]_vars

-----------------------------------------------------------------------------
(* Properties.                                                             *)

TypeOK ==
  /\ cycles \in Clock /\ place \in Place
  /\ {hardware, written} \subseteq [Target -> Value]
  /\ queue \in Seq(Queued) /\ Len(queue) <= Limit
  /\ runDelay \in 0 .. MaxBusy /\ accesses \in 0 .. RunLength
  /\ {runDeferred, active, loadedWithoutState, resumeIdle, running} \subseteq BOOLEAN
  /\ strayed \in BOOLEAN

\* The driver reads back what it wrote last, whether that has reached the DSP,
\* waits in the queue or came with a saved state; but not in a state that was
\* saved before the driver had settled, which keeps the queue of another game.
ReadsOwnWrites ==
  \A reg \in Dsp : Used /\ ~strayed => ReadDsp(reg) = written[reg]

\* The same in any state that is played.  The code does not promise it
\* (SpcUnsettled.cfg).
AlwaysReadsOwnWrites == \A reg \in Dsp : Used => ReadDsp(reg) = written[reg]

\* A run is deferred only while something in the queue will wake it: Cycle looks
\* at s_run_deferred only after it has applied an access.
DeferredHasWaker == Used /\ runDeferred => queue # <<>>

\* What is queued, with the cycles that it still waits at a time.
Waiting(due, now) ==
  [i \in DOMAIN due |->
     [target |-> due[i].target, value |-> due[i].value,
      wait |-> (due[i].due - now) % Modulus]]
Faithful == Used /\ ~strayed
StillWaiting == IF Faithful THEN Waiting(queue, cycles) ELSE <<>>
Running == running /\ ~strayed
BusyFor == IF Running THEN runDelay ELSE 0
SavedView ==
  [hardware |-> saved.hardware, strayed |-> saved.strayed,
   pending |-> IF saved.strayed THEN <<>> ELSE Waiting(saved.queue, 0),
   wanted |-> saved.runDeferred /\ ~saved.strayed,
   native |-> saved.active /\ ~saved.strayed]

Timeline == INSTANCE SpcTimeline WITH
  pending <- StillWaiting, wanted <- Faithful /\ runDeferred, native <- Faithful,
  running <- Running, busy <- BusyFor, settled <- ~loadedWithoutState,
  saved <- SavedView

\* The wrapping clock and the queue give every access its time, and the saved
\* states all of it: the driver keeps what SpcTimeline promises, which excuses
\* no state but one saved between an older one's load and the settling.
OnTime == Timeline!Spec
=============================================================================
