---------------------------- MODULE DecompBridge ----------------------------
(***************************************************************************)
(* How the routines that run as portable C share the game's call stack     *)
(* with the interpreter (actor_bridge.c).  The guest keeps return frames   *)
(* on its stack; the host has an activation per C function or interpreter  *)
(* that is underway, the owning interpreter at the bottom.  A routine      *)
(* works on a copy of the registers, stores it before anything else may    *)
(* run and loads it again after.  A result says how many activations above *)
(* the caller the guest has already returned through: 0 to the caller's    *)
(* own landing.  The interpreter and its dispatcher are not in this        *)
(* repository; they are modelled by what the bridge asks of them.          *)
(***************************************************************************)
EXTENDS Integers, Sequences, SequencesExt, BridgeRoutines

CONSTANTS
  MaxHost,      \* bound: activations underway
  MaxFrames     \* bound: return frames on the guest stack

\* A pushed call from the field reload is told by its site (1264).
Sites == (Protocols \ {"leaf"}) \cup {"reload"}
SitesOf(calls) == IF calls = "pushed" THEN {"pushed", "reload"} ELSE {calls} \ {"leaf"}

ASSUME BoundsAssumption == MaxHost \in Nat \ {0} /\ MaxFrames \in Nat

VARIABLES
  host,     \* the activations underway, the owning interpreter first
  stack,    \* the guest's return frames: whose landing each holds, 0 for plain guest code
  at,       \* the activation whose landing the guest stands at, or 0
  flow,     \* "on": the top activation runs; "returns": it has ended; "yields": all unwind
  levels,   \* the result of an activation that returns
  regs,     \* who has the newest registers: 0 the cpu, n the copy of n, -1 nobody
  missing,  \* history: the levels that hand-overs have left out of the result
  misled    \* history: a result that was wrong for it has let somebody underway go on

vars == <<host, stack, at, flow, levels, regs, missing, misled>>

-----------------------------------------------------------------------------
(* Which kinds of routine can be met, from the table.                      *)

\* ActorBridgeSupported and the inline guards: the rest of a refusal is open.
Admits(routine, width, s) ==
  width \in routine.widths /\ routine.low <= s /\ s <= routine.high

StackPointers == {\h1EFF, \h1F10, \h1FFA, \h1FFC, \h1FFE, \h1FFF}

Natives == {[calls |-> r.calls, returns |-> r.frame # 0] :
              r \in {r \in Routines : \E w \in AnyWidth, s \in StackPointers : Admits(r, w, s)}}

-----------------------------------------------------------------------------
top == Len(host)
Running(as) == flow = "on" /\ host[top].as \in as
Interpreters == {"owner", "nested", "tail"}

Activation(as, routine, base) ==
  [as |-> as, calls |-> routine.calls, returns |-> routine.returns, base |-> base,
   waits |-> FALSE, site |-> "leaf", excess |-> 0, owes |-> 0]

Interpreter(as, base) == Activation(as, [calls |-> "leaf", returns |-> TRUE], base)

\* The landings of a body that will not go on are plain guest code.
Forget(n, frames) == [i \in DOMAIN frames |-> IF frames[i] = n THEN 0 ELSE frames[i]]

Wait(n, site) == [host EXCEPT ![n].waits = TRUE, ![n].site = site]

\* interp_tier_dispatch_tail: an interpreter goes on in place of activation n.
\* What it returns is short by `excess` levels when it reaches n's caller;
\* `owes` is history, the levels that the site is known not to add.
GoesOn(n, excess, owes) ==
  [host EXCEPT ![n] = [Interpreter("tail", host[n].base) EXCEPT !.excess = excess, !.owes = owes]]

\* The copy of n goes to the cpu, the cpu to the copy of n.
ActorBridgeStore(n) == IF regs = n THEN 0 ELSE -1
ActorBridgeLoad(n, held) == IF held = 0 THEN n ELSE -1

\* Sites that hand a child without an entry to the interpreter that goes on
\* for the parent, rather than start one for the call.
HandsAllOthers == {"engine", "scene", "owned"}   \* mutant: a child of the reload is waited for
HandedOver == {"reload", "engine", "scene", "owned"}

\* Sites that look where the child came back, and the level they add to what
\* the interpreter returns when it came back elsewhere.
ChecksNoScene == Sites \ {"slot", "scene"}       \* mutant: a scene's child is taken at its word
Checked == Sites \ {"slot"}
AddsNone(site) == 0                              \* mutant: no site adds it
HandOff(site) == IF site \in {"engine", "scene"} THEN 1 ELSE 0
Short == Sites \ {"engine", "scene"}             \* history: where none is added (1278)

\* Sites that let the dispatcher say where the child came back, and sites
\* that wait for an interpreted child which may outlast its time.
Told == Sites \ {"slot"}
Waiting == {"slot", "pushed", "music"}

Init ==
  /\ host = <<Interpreter("owner", 0)>>
  /\ stack = <<>>
  /\ at = 0
  /\ flow = "on"
  /\ levels = 0
  /\ regs = 0
  /\ missing = 0
  /\ misled = FALSE

-----------------------------------------------------------------------------
(* Entering a routine.                                                     *)

\* A routine enters as activation Len(before) + 1 over the frames given: it
\* loads its copy, or refuses and an interpreter goes on from its entry.
Enter(before, frames, held) ==
  \/ \E routine \in Natives :
       /\ frames = <<>> => ~routine.returns
       /\ host' = Append(before, Activation("native", routine, Len(frames)))
       /\ regs' = ActorBridgeLoad(Len(before) + 1, held)
  \/ /\ host' = Append(before, Interpreter("tail", Len(frames)))   \* ActorBridgeFallback
     /\ regs' = held

Room == top < MaxHost
FrameRoom == Len(stack) < MaxFrames

\* The caller n can be told that its child came back elsewhere.
MayStray(n) ==
  n > 0 /\ (host[n].as \in Interpreters \/ host[n].site \in Told)

\* A call, or a jump, of an interpreter to an entry the bridge has bound.
PairedCall ==
  /\ Running(Interpreters) /\ Room /\ FrameRoom
  /\ stack' = Append(stack, top)
  /\ Enter(Wait(top, "leaf"), stack', regs)
  /\ at' = 0
  /\ UNCHANGED <<flow, levels, missing, misled>>

Jump ==
  /\ Running(Interpreters) /\ Room
  /\ Enter(Wait(top, "leaf"), stack, regs)
  /\ at' = 0
  /\ UNCHANGED <<stack, flow, levels, missing, misled>>

\* A routine calls a child.  Its copy goes to the cpu, the call frame is on
\* the stack; a child with an entry is entered.
ActorBridgePushedChild ==
  /\ Running({"native"}) /\ Room /\ FrameRoom
  /\ \E site \in SitesOf(host[top].calls) :
       /\ stack' = Append(stack, top)
       /\ Enter(Wait(top, site), stack', ActorBridgeStore(top))
  /\ at' = 0
  /\ UNCHANGED <<flow, levels, missing, misled>>

\* A child without an entry in the widths at hand.
ActorBridgeMissingChild ==
  /\ Running({"native"}) /\ Room /\ FrameRoom
  /\ \E site \in SitesOf(host[top].calls) :
       IF site \in HandedOver
         THEN /\ host' = GoesOn(top, 0, 0)
              /\ stack' = Append(Forget(top, stack), 0)
         ELSE /\ host' = Append(Wait(top, site), Interpreter("nested", Len(stack) + 1))
              /\ stack' = Append(stack, top)
  /\ regs' = ActorBridgeStore(top)
  /\ at' = 0
  /\ UNCHANGED <<flow, levels, missing, misled>>

-----------------------------------------------------------------------------
(* Leaving one.                                                            *)

Ends(n, owed) == flow' = "returns" /\ levels' = n /\ missing' = owed

\* The frame of an older activation has been popped: the guest stands there.
AtLanding(owner, excess, owed) ==
  /\ at' = owner
  /\ Ends(top - 1 - owner - excess, owed)

\* ActorBridgeReturn: the guest's RTS or RTL, then ActorBridgeResolveReturn.
\* The frame of a routine that was called is its caller's; if the game has
\* changed the address, the caller is told so or the code there is
\* interpreted, and so it is after a routine that was jumped to.
ActorBridgeReturn ==
  /\ Running({"native"}) /\ host[top].returns /\ stack # <<>>
  /\ stack' = Front(stack)
  /\ regs' = ActorBridgeStore(top)
  /\ \/ /\ Last(stack) > 0
        /\ AtLanding(Last(stack), 0, 0)
        /\ UNCHANGED host
     \/ /\ Last(stack) = 0 /\ Len(stack) = host[top].base /\ MayStray(top - 1)
        /\ at' = 0
        /\ Ends(0, 0)
        /\ UNCHANGED host
     \/ /\ Last(stack) = 0
        /\ at' = 0
        /\ host' = GoesOn(top, 0, 0)
        /\ UNCHANGED <<flow, levels, missing>>
  /\ UNCHANGED misled

\* ActorBridgeReturnPastFrame: a battle effect drops its own frame and
\* returns through the one below.  The owning interpreter is reached by
\* unwinding everything.
ActorBridgeReturnPastFrame ==
  /\ Running({"native"}) /\ host[top].calls = "leaf" /\ host[top].returns
  /\ Len(stack) > 1
  /\ LET landing == stack[Len(stack) - 1] IN
       \/ landing > 1 /\ AtLanding(landing, 0, 0) /\ UNCHANGED host
       \/ landing = 1 /\ at' = 0 /\ flow' = "yields" /\ UNCHANGED <<host, levels, missing>>
       \/ /\ landing = 0
          /\ at' = 0
          /\ host' = GoesOn(top, 0, 0)
          /\ UNCHANGED <<flow, levels, missing>>
  /\ stack' = SubSeq(stack, 1, Len(stack) - 2)
  /\ regs' = ActorBridgeStore(top)
  /\ UNCHANGED misled

\* The portable code stops at a boundary: the interpreter goes on from there.
Boundary ==
  /\ Running({"native"})
  /\ host' = GoesOn(top, 0, 0)
  /\ regs' = ActorBridgeStore(top)
  /\ UNCHANGED <<stack, at, flow, levels, missing, misled>>

\* ActorBridgeExecutionCheckpoint: host listeners see and change the cpu.
ActorBridgeExecutionCheckpoint ==
  /\ Running({"native"})
  /\ regs' = ActorBridgeLoad(top, ActorBridgeStore(top))
  /\ UNCHANGED <<host, stack, at, flow, levels, missing, misled>>

-----------------------------------------------------------------------------
(* What an activation does when the one it called has ended.               *)

Caller == host[top - 1]
Gone == flow = "returns" /\ top > 1

\* History: the caller is passed over, or goes on, with what the result says.
PassesOver ==
  /\ missing' = missing + Caller.owes
  /\ misled' = (misled \/ levels + missing = 0)
ActsOn == missing' = 0 /\ misled' = (misled \/ missing # 0)

\* Mutant: the caller stores its copy before it looks at the result.
UnwoundStoring ==
  /\ Gone /\ levels # 0
  /\ host' = Front(host)
  /\ levels' = levels - 1 - Caller.excess
  /\ PassesOver
  /\ stack' = Forget(top, stack)
  /\ regs' = ActorBridgeStore(top - 1)
  /\ UNCHANGED <<at, flow>>

\* CHILD_UNWOUND: the caller is passed over without touching the registers.
Unwound ==
  /\ Gone /\ levels # 0
  /\ host' = Front(host)
  /\ levels' = levels - 1 - Caller.excess
  /\ PassesOver
  /\ stack' = Forget(top, stack)
  /\ UNCHANGED <<at, flow, regs>>

\* The child came back as it was called, as far as the site looks.
CameBack(n) == at = n /\ Len(stack) = host[n].base

Resume ==
  /\ Gone /\ levels = 0 /\ Caller.as = "native"
  /\ CameBack(top - 1) \/ Caller.site \notin Checked
  /\ host' = [Front(host) EXCEPT ![top - 1].waits = FALSE, ![top - 1].site = "leaf"]
  /\ regs' = ActorBridgeLoad(top - 1, regs)
  /\ stack' = Forget(top, stack)
  /\ at' = 0
  /\ flow' = "on"
  /\ ActsOn
  /\ UNCHANGED levels

\* It did not: the interpreter goes on where the guest is.
ChangedReturn ==
  /\ Gone /\ levels = 0 /\ Caller.as = "native"
  /\ Caller.site \in Checked /\ ~CameBack(top - 1)
  /\ LET owes == IF Caller.site \in Short THEN 1 ELSE 0
     IN  host' = Front(GoesOn(top - 1, 1 - HandOff(Caller.site), owes))
  /\ stack' = Forget(top - 1, Forget(top, stack))
  /\ at' = 0
  /\ flow' = "on"
  /\ ActsOn
  /\ UNCHANGED <<levels, regs>>

InterpreterResumes ==
  /\ Gone /\ levels = 0 /\ Caller.as \in Interpreters
  /\ host' = [Front(host) EXCEPT ![top - 1].waits = FALSE]
  /\ stack' = Forget(top, stack)
  /\ at' = 0
  /\ flow' = "on"
  /\ ActsOn
  /\ UNCHANGED <<levels, regs>>

\* Everything unwinds, or a result has passed over everybody: the owner goes
\* on, alone, where the guest is.
Unwind ==
  /\ flow = "yields" \/ (flow = "returns" /\ top = 1)
  /\ host' = <<Interpreter("owner", 0)>>
  /\ stack' = [i \in DOMAIN stack |-> 0]
  /\ at' = 0
  /\ flow' = "on"
  /\ levels' = 0
  /\ missing' = 0
  /\ misled' = FALSE
  /\ UNCHANGED regs

-----------------------------------------------------------------------------
(* External: the guest code an interpreter runs.                           *)

InterpretedCall ==
  /\ Running(Interpreters) /\ FrameRoom
  /\ stack' = Append(stack, 0)
  /\ UNCHANGED <<host, at, flow, levels, regs, missing, misled>>

\* At the frame it was started on, whose address the game has changed, an
\* interpreter started for a call says where the guest has gone instead.
InterpretedReturn ==
  /\ Running(Interpreters) /\ stack # <<>>
  /\ stack' = Front(stack)
  /\ \/ /\ Last(stack) > 0
        /\ AtLanding(Last(stack), host[top].excess, host[top].owes)
     \/ /\ Last(stack) = 0
        /\ at' = 0
        /\ IF host[top].as = "nested" /\ Len(stack) = host[top].base /\ MayStray(top - 1)
             THEN Ends(0, 0)
             ELSE UNCHANGED <<flow, levels, missing>>
  /\ UNCHANGED <<host, regs, misled>>

\* The game changes the return address on top of its stack, or drops it.
GuestRewrites ==
  /\ flow = "on" /\ stack # <<>>
  /\ \/ stack' = [stack EXCEPT ![Len(stack)] = 0]
     \/ Running(Interpreters) /\ stack' = Front(stack)
  /\ UNCHANGED <<host, at, flow, levels, regs, missing, misled>>

\* The interpreter's time is up.  One that goes on for a routine yields to
\* the owner; one started for a call gives up with its child still active,
\* and one level only for a caller that waits.
TimeUp ==
  /\ Running({"tail", "nested"})
  /\ IF host[top].as = "tail"
       THEN flow' = "yields" /\ UNCHANGED <<levels, missing, misled>>
       ELSE Ends(1, 0) /\ misled' = (misled \/ Caller.site \in Waiting)
  /\ UNCHANGED <<host, stack, at, regs>>

Next ==
  \/ PairedCall \/ Jump
  \/ ActorBridgePushedChild \/ ActorBridgeMissingChild
  \/ ActorBridgeReturn \/ ActorBridgeReturnPastFrame \/ Boundary
  \/ ActorBridgeExecutionCheckpoint
  \/ Unwound \/ Resume \/ ChangedReturn \/ InterpreterResumes \/ Unwind
  \/ InterpretedCall \/ InterpretedReturn \/ GuestRewrites \/ TimeUp

Spec == Init /\ [][Next]_vars

-----------------------------------------------------------------------------
(* What the bridge promises.                                               *)

ActivationType ==
  [as : Interpreters \cup {"native"}, calls : Protocols, returns : BOOLEAN, base : 0 .. MaxFrames,
   waits : BOOLEAN, site : Sites \cup {"leaf"}, excess : {0, 1}, owes : {0, 1}]

TypeOK ==
  /\ host \in Seq(ActivationType) /\ top \in 1 .. MaxHost
  /\ stack \in Seq(0 .. MaxHost) /\ Len(stack) <= MaxFrames
  /\ at \in 0 .. MaxHost
  /\ flow \in {"on", "returns", "yields"}
  /\ levels \in -2 * MaxHost .. MaxHost
  /\ regs \in -1 .. MaxHost
  /\ missing \in 0 .. MaxHost /\ misled \in BOOLEAN

(***************************************************************************)
(* A result names the activation the guest continues in, less the levels   *)
(* that the hand-overs it has come over left out: with these, it stands at *)
(* that activation's landing, or it has come back to the caller elsewhere  *)
(* and the caller is told so.  Through every boundary, hand-over, skipped  *)
(* frame and unwinding, nobody is resumed whose child is still underway    *)
(* and nobody the guest returned to is passed over, until somebody takes a *)
(* result for exact that lacks a level (1278), or a child that a site      *)
(* waits for runs out of time.                                             *)
(***************************************************************************)
Exact(n) ==
  /\ n \in 0 .. top - 2
  /\ at = top - 1 - n \/ (n = 0 /\ levels = 0 /\ at = 0 /\ MayStray(top - 1))

LevelsExact == ~misled /\ flow = "returns" => Exact(levels + missing)

\* The same without the exceptions.
NoneMissing == missing = 0
LevelsAlwaysExact == flow = "returns" => Exact(levels)

(***************************************************************************)
(* A body goes on after a call only where the call returns to, with the    *)
(* guest's stack as it was before the call, unless it, or one it is under, *)
(* has been misled.                                                        *)
(***************************************************************************)
ResumedWhereReturned ==
  [][\A n \in DOMAIN host :
       (host[n].as = "native" /\ host[n].waits
          /\ n = Len(host') /\ host'[n].as = "native" /\ ~host'[n].waits)
         => misled' \/ (at = n /\ Len(stack) = host[n].base)]_vars

(***************************************************************************)
(* The newest registers are in the copy of the routine that runs, and in   *)
(* the cpu whenever anything else does: no store writes an older copy over *)
(* what a child or a listener left, no load misses it.                     *)
(***************************************************************************)
RegistersCurrent ==
  regs = IF flow = "on" /\ host[top].as = "native" THEN top ELSE 0
=============================================================================
