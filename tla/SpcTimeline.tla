------------------------------ MODULE SpcTimeline ------------------------------
(***************************************************************************)
(* What the native sound driver promises: the decompiled driver computes   *)
(* in no time what took the original many APU cycles, so each hardware     *)
(* access takes effect as many cycles after the run began as the original  *)
(* was busy before it; a run that is asked for meanwhile begins when the   *)
(* last access has taken effect, and a saved state resumes all of it.      *)
(*                                                                         *)
(* Time has no clock here: a pending access says how long it still waits.  *)
(*                                                                         *)
(* Nothing is promised of one kind of saved state: an older state does not *)
(* say who has the APU, and a state that is saved before that is settled   *)
(* may have gone astray.                                                   *)
(***************************************************************************)
EXTENDS Integers, SequencesExt

CONSTANTS
  Target,   \* the registers the driver writes
  Value,
  MaxBusy,  \* the longest run, in cycles
  Limit     \* accesses that can wait

VARIABLES
  hardware,  \* the registers
  pending,   \* the accesses still to take effect, the next first
  wanted,    \* a run was asked for while accesses were pending
  native,    \* the driver has the APU, not the interpreted SPC
  running, busy,  \* a run is under way, and how long it has taken
  settled,   \* it is known who has the APU
  strayed,   \* a state is played that has gone astray
  saved      \* a saved state

vars == <<hardware, pending, wanted, native, running, busy, settled, strayed, saved>>

Access == [target : Target, value : Value, wait : 0 .. MaxBusy]
Image == [hardware : [Target -> Value], pending : Seq(Access),
          wanted : BOOLEAN, native : BOOLEAN, strayed : BOOLEAN]
Now(astray) == [hardware |-> hardware, pending |-> pending, wanted |-> wanted,
                native |-> native, strayed |-> astray]

Effect(registers, accesses) ==
  FoldLeft(LAMBDA r, a : [r EXCEPT ![a.target] = a.value], registers, accesses)

Init ==
  /\ hardware \in [Target -> Value] /\ pending = <<>> /\ wanted = FALSE
  /\ native = FALSE /\ running = FALSE /\ busy = 0
  /\ settled = TRUE /\ strayed = FALSE /\ saved = Now(FALSE)

\* The interpreted SPC writes for itself.
Interpret ==
  /\ ~native /\ settled
  /\ \E t \in Target, v \in Value : hardware' = [hardware EXCEPT ![t] = v]
  /\ UNCHANGED <<pending, wanted, native, running, busy, settled, strayed, saved>>

\* The driver takes the APU, with or without its start code.
Adopt ==
  /\ ~native /\ settled /\ native' = TRUE
  /\ pending' = <<>> /\ wanted' = FALSE
  /\ running' \in BOOLEAN /\ busy' = 0
  /\ UNCHANGED <<hardware, settled, strayed, saved>>

\* A port write or a timer tick.
Ask ==
  /\ native /\ ~running
  /\ running' = (pending = <<>>) /\ wanted' = (wanted \/ pending # <<>>)
  /\ busy' = 0
  /\ UNCHANGED <<hardware, pending, native, settled, strayed, saved>>

Delay ==
  /\ running /\ busy' \in busy + 1 .. MaxBusy
  /\ UNCHANGED <<hardware, pending, wanted, native, running, settled, strayed, saved>>

\* When no more can wait the oldest is early, and nothing else.
Write ==
  /\ running
  /\ \E t \in Target, v \in Value :
       LET a == [target |-> t, value |-> v, wait |-> busy]
           early == IF Len(pending) < Limit THEN 0 ELSE 1 IN
       IF busy = 0
       THEN hardware' = Effect(hardware, <<a>>) /\ UNCHANGED pending
       ELSE /\ pending' = Append(SubSeq(pending, early + 1, Len(pending)), a)
            /\ hardware' = Effect(hardware, SubSeq(pending, 1, early))
  /\ UNCHANGED <<wanted, native, running, busy, settled, strayed, saved>>

End ==
  /\ running /\ running' = FALSE /\ busy' = 0
  /\ UNCHANGED <<hardware, pending, wanted, native, settled, strayed, saved>>

\* Time passes, but never past the next access; those whose wait is over take
\* effect.
Pass ==
  /\ native /\ ~running /\ pending # <<>>
  /\ \E n \in 1 .. pending[1].wait, k \in 0 .. Len(pending) :
       /\ \A i \in DOMAIN pending : i <= k <=> pending[i].wait <= n
       /\ hardware' = Effect(hardware, SubSeq(pending, 1, k))
       /\ pending' = [i \in 1 .. Len(pending) - k |->
                        [pending[i + k] EXCEPT !.wait = @ - n]]
  /\ running' = (wanted /\ pending' = <<>>) /\ wanted' = (wanted /\ pending' # <<>>)
  /\ busy' = 0
  /\ UNCHANGED <<native, settled, strayed, saved>>

Save ==
  /\ ~running
  /\ saved' = Now(strayed) \/ (~settled /\ saved' = Now(TRUE))
  /\ UNCHANGED <<hardware, pending, wanted, native, running, busy, settled, strayed>>

Load ==
  /\ ~running
  /\ hardware' = saved.hardware /\ pending' = saved.pending
  /\ wanted' = saved.wanted /\ native' = saved.native
  /\ busy' = 0 /\ settled' = TRUE /\ strayed' = saved.strayed
  /\ UNCHANGED <<running, saved>>

\* A state from before the driver was part of it.
LoadOlder ==
  /\ ~running
  /\ hardware' \in [Target -> Value]
  /\ pending' = <<>> /\ wanted' = FALSE /\ native' = FALSE /\ busy' = 0
  /\ settled' = FALSE /\ strayed' = FALSE
  /\ UNCHANGED <<running, saved>>

Settle ==
  /\ ~settled /\ settled' = TRUE /\ native' \in BOOLEAN
  /\ UNCHANGED <<hardware, pending, wanted, running, busy, strayed, saved>>

\* Accesses of another game take effect.
Astray ==
  /\ strayed /\ hardware' \in [Target -> Value]
  /\ UNCHANGED <<pending, wanted, native, running, busy, settled, strayed, saved>>

Next ==
  \/ Interpret \/ Adopt \/ Ask \/ Delay \/ Write \/ End \/ Pass
  \/ Save \/ Load \/ LoadOlder \/ Settle \/ Astray

Spec == Init /\ [][Next]_vars
=============================================================================
