---------------------------- MODULE DecompBridgeProofs ----------------------------
(* Proofs about DecompBridge, for any number of activations and frames: a       *)
(* result names the activation the guest continues in, a body goes on where its *)
(* call returned to, and the registers are never those of an older copy.        *)
EXTENDS DecompBridge, SequenceTheorems, TLAPS

Shape ==
  [as : Interpreters \cup {"native"}, calls : Protocols, returns : BOOLEAN, base : Nat,
   waits : BOOLEAN, site : Sites \cup {"leaf"}, excess : {0, 1}, owes : {0, 1}]

Shapes ==
  /\ host \in Seq(Shape) /\ host # <<>>
  /\ stack \in Seq(Nat)
  /\ at \in Nat /\ levels \in Int /\ flow \in {"on", "returns", "yields"}
  /\ missing \in Nat /\ misled \in BOOLEAN

\* A frame's owner is underway below the top, and called the one above it with
\* this frame; of two frames the upper one's owner is the younger.
Framed(h, s) ==
  \A i \in 1 .. Len(s) : s[i] > 0 => s[i] < Len(h) /\ h[s[i] + 1].base = i
Rising(s) ==
  \A i, j \in 1 .. Len(s) : i < j /\ s[i] > 0 /\ s[j] > 0 => s[i] < s[j]

\* A body has nothing on the stack of its own but the call it waits for, no more
\* is left out of a result than its site is known to leave out, and an
\* interpreter for a call was started where one is waited for.
Balanced(h) ==
  /\ \A n \in 1 .. Len(h) - 1 : h[n].as = "native" => h[n + 1].base = h[n].base + 1
  /\ \A n \in 1 .. Len(h) : h[n].excess = h[n].owes
  /\ \A n \in 1 .. Len(h) : h[n].as = "nested" =>
       n > 1 /\ h[n - 1].as = "native" /\ h[n - 1].site \in Waiting

Level == flow = "on" /\ host[top].as = "native" => Len(stack) = host[top].base

\* Who is returned to has no frame left, nor has anyone above it.
Landed ==
  flow = "returns" =>
    /\ at > 0 => /\ \A i \in 1 .. Len(stack) : stack[i] < at
                 /\ host[at].as = "native" => Len(stack) = host[at].base
    /\ at = 0 => \A i \in 1 .. Len(stack) : stack[i] < top - 1

Levelled == flow = "returns" => Exact(levels + missing)

-----------------------------------------------------------------------------
(* What the sequences of a step look like.                                 *)

LEMMA FrontShape ==
  ASSUME NEW S, NEW s \in Seq(S), s # <<>>
  PROVE  /\ Front(s) \in Seq(S) /\ Len(s) \in Nat \ {0} /\ Len(Front(s)) = Len(s) - 1
         /\ \A i \in 1 .. Len(s) - 1 : Front(s)[i] = s[i]
         /\ Last(s) = s[Len(s)] /\ Last(s) \in S
<1>1. Len(s) \in Nat \ {0}
  BY EmptySeq
<1>2. \A i \in 1 .. Len(s) - 1 : s[i] \in S
  BY <1>1, ElementOfSeq
<1>3. Last(s) = s[Len(s)] /\ Last(s) \in S
  BY <1>1, ElementOfSeq DEF Last
<1> DEFINE n == Len(s) - 1
<1>4. n \in Nat /\ Front(s) = SubSeq(s, 1, n)
  BY <1>1 DEF Front
<1> HIDE DEF n
<1>5. /\ Front(s) \in Seq(S) /\ Len(Front(s)) = (IF 1 <= n THEN n - 1 + 1 ELSE 0)
      /\ \A i \in 1 .. n - 1 + 1 : Front(s)[i] = s[1 + i - 1]
  BY <1>2, <1>4, SubSeqProperties DEF n
<1>6. n - 1 + 1 = n /\ \A i \in 1 .. n : 1 + i - 1 = i
  BY <1>4
<1>7. Len(Front(s)) = n /\ \A i \in 1 .. n : Front(s)[i] = s[i]
  BY <1>4, <1>5, <1>6
<1> QED
  BY <1>1, <1>3, <1>5, <1>7 DEF n

LEMMA ForgetShape ==
  ASSUME NEW n, NEW s \in Seq(Nat)
  PROVE  /\ Forget(n, s) \in Seq(Nat) /\ Len(Forget(n, s)) = Len(s)
         /\ \A i \in 1 .. Len(s) : Forget(n, s)[i] = IF s[i] = n THEN 0 ELSE s[i]
<1>1. Len(s) \in Nat /\ DOMAIN s = 1 .. Len(s)
  BY LenProperties
<1>2. \A i \in 1 .. Len(s) : s[i] \in Nat
  BY ElementOfSeq
<1>3. Forget(n, s) = [i \in 1 .. Len(s) |-> IF s[i] = n THEN 0 ELSE s[i]]
  BY <1>1 DEF Forget
<1> HIDE DEF Forget
<1>4. Forget(n, s) \in [1 .. Len(s) -> Nat]
  BY <1>2, <1>3
<1> QED
  BY <1>1, <1>3, <1>4, SeqDef

\* Nothing that the properties ask of the activations below n has changed.
Kept(h, k) ==
  \A n \in 1 .. k :
    /\ h[n].as = host[n].as /\ h[n].base = host[n].base
    /\ h[n].excess = host[n].excess /\ h[n].owes = host[n].owes

LEMMA WaitShape ==
  ASSUME Shapes, NEW site \in Sites \cup {"leaf"}
  PROVE  /\ Wait(top, site) \in Seq(Shape) /\ Len(Wait(top, site)) = top /\ top \in Nat \ {0}
         /\ Kept(Wait(top, site), top)
         /\ \A n \in 1 .. top - 1 : Wait(top, site)[n] = host[n]
         /\ Wait(top, site)[top].site = site
<1>1. top \in Nat \ {0} /\ host[top] \in Shape
  BY EmptySeq, ElementOfSeq DEF Shapes, top
<1> DEFINE new == [host[top] EXCEPT !.waits = TRUE, !.site = site]
<1>2. new \in Shape /\ new.as = host[top].as /\ new.base = host[top].base
      /\ new.excess = host[top].excess /\ new.owes = host[top].owes /\ new.site = site
  BY <1>1 DEF Shape
<1>3. Wait(top, site) = [host EXCEPT ![top] = new]
  BY <1>1 DEF Wait, top, Shapes
<1> HIDE DEF new
<1>4. /\ Wait(top, site) \in Seq(Shape) /\ Len(Wait(top, site)) = top
      /\ \A j \in 1 .. top : Wait(top, site)[j] = IF j = top THEN new ELSE host[j]
  BY <1>1, <1>2, <1>3, ExceptSeq DEF Shapes, top
<1> QED
  BY <1>1, <1>2, <1>4 DEF Kept

\* An interpreter goes on in place of activation n.
LEMMA GoesOnShape ==
  ASSUME Shapes, NEW n \in 1 .. top, NEW excess \in {0, 1}, NEW owes \in {0, 1}
  PROVE  LET h == GoesOn(n, excess, owes) IN
         /\ h \in Seq(Shape) /\ Len(h) = top
         /\ \A j \in 1 .. top : j # n => h[j] = host[j]
         /\ h[n].as = "tail" /\ h[n].base = host[n].base
         /\ h[n].excess = excess /\ h[n].owes = owes
<1>1. host[n] \in Shape
  BY ElementOfSeq DEF Shapes, top
<1> DEFINE new == [Interpreter("tail", host[n].base) EXCEPT !.excess = excess, !.owes = owes]
<1>2. /\ new \in Shape /\ new.as = "tail" /\ new.base = host[n].base
      /\ new.excess = excess /\ new.owes = owes
  BY <1>1 DEF Shape, Interpreters, Interpreter, Activation, Protocols
<1>3. GoesOn(n, excess, owes) = [host EXCEPT ![n] = new]
  BY <1>1 DEF GoesOn, top, Shapes
<1> HIDE DEF new
<1> QED
  BY <1>2, <1>3, ExceptSeq DEF Shapes, top

LEMMA EnterShape ==
  ASSUME NEW before \in Seq(Shape), NEW frames \in Seq(Nat), NEW held, Enter(before, frames, held)
  PROVE  /\ host' \in Seq(Shape) /\ Len(host') = Len(before) + 1
         /\ \A n \in 1 .. Len(before) : host'[n] = before[n]
         /\ host'[Len(host')].base = Len(frames)
         /\ host'[Len(host')].excess = 0 /\ host'[Len(host')].owes = 0
         /\ host'[Len(host')].as \in {"native", "tail"}
         /\ regs' = IF host'[Len(host')].as = "native"
                      THEN ActorBridgeLoad(Len(before) + 1, held) ELSE held
<1> DEFINE Entered(new) ==
      /\ host' = Append(before, new) /\ new.base = Len(frames) /\ new.excess = 0 /\ new.owes = 0
      /\ new.as \in {"native", "tail"}
      /\ regs' = IF new.as = "native" THEN ActorBridgeLoad(Len(before) + 1, held) ELSE held
<1>1. PICK new \in Shape : Entered(new)
  <2>1. ASSUME NEW routine \in Natives,
               host' = Append(before, Activation("native", routine, Len(frames))),
               regs' = ActorBridgeLoad(Len(before) + 1, held)
        PROVE  \E new \in Shape : Entered(new)
    <3>1. PICK r \in Routines : routine = [calls |-> r.calls, returns |-> r.frame # 0]
      BY DEF Natives
    <3>2. r.calls \in Protocols
      BY <3>1, RoutineType
    <3>3. routine.calls \in Protocols /\ routine.returns \in BOOLEAN
      <4>1. CASE r.frame = 0
        BY <3>1, <3>2, <4>1
      <4>2. CASE r.frame # 0
        BY <3>1, <3>2, <4>2
      <4> QED
        BY <4>1, <4>2
    <3> DEFINE new == Activation("native", routine, Len(frames))
    <3>4. new \in Shape
      BY <3>3, LenProperties DEF Activation, Shape
    <3>5. new.base = Len(frames) /\ new.excess = 0 /\ new.owes = 0 /\ new.as = "native"
      BY DEF Activation
    <3> HIDE DEF new
    <3> QED
      BY <2>1, <3>4, <3>5 DEF new
  <2>2. ASSUME host' = Append(before, Interpreter("tail", Len(frames))), regs' = held
        PROVE  \E new \in Shape : Entered(new)
    <3> DEFINE new == Interpreter("tail", Len(frames))
    <3>1. new \in Shape
      BY LenProperties DEF Interpreter, Activation, Shape, Interpreters, Protocols
    <3>2. new.base = Len(frames) /\ new.excess = 0 /\ new.owes = 0 /\ new.as = "tail"
      BY DEF Interpreter, Activation
    <3> HIDE DEF new
    <3> QED
      BY <2>2, <3>1, <3>2 DEF new
  <2> HIDE DEF Entered
  <2> QED
    BY <2>1, <2>2 DEF Enter
<1> QED
  BY <1>1, AppendProperties, LenProperties

\* The sequences an action starts from, and what a push or a pop makes of them.
LEMMA Now ==
  ASSUME Shapes
  PROVE  /\ top \in Nat \ {0} /\ Len(stack) \in Nat
         /\ \A n \in 1 .. top : host[n] \in Shape
         /\ \A i \in 1 .. Len(stack) : stack[i] \in Nat
  BY EmptySeq, ElementOfSeq, LenProperties DEF Shapes, top

LEMMA PushShape ==
  ASSUME NEW s \in Seq(Nat), NEW n \in Nat
  PROVE  /\ Append(s, n) \in Seq(Nat) /\ Len(Append(s, n)) = Len(s) + 1 /\ Len(s) \in Nat
         /\ \A i \in 1 .. Len(s) : Append(s, n)[i] = s[i]
         /\ Append(s, n)[Len(s) + 1] = n
  BY AppendProperties, LenProperties

LEMMA TwoOff ==
  ASSUME NEW s \in Seq(Nat), Len(s) > 1
  PROVE  /\ SubSeq(s, 1, Len(s) - 2) \in Seq(Nat) /\ Len(s) \in Nat
         /\ Len(SubSeq(s, 1, Len(s) - 2)) = Len(s) - 2
         /\ \A i \in 1 .. Len(s) - 2 : SubSeq(s, 1, Len(s) - 2)[i] = s[i]
<1>1. Len(s) \in Nat /\ \A i \in 1 .. Len(s) : s[i] \in Nat
  BY ElementOfSeq, LenProperties
<1> DEFINE n == Len(s) - 2
<1>2. n \in Nat /\ \A i \in 1 .. n : s[i] \in Nat
  BY <1>1
<1> HIDE DEF n
<1>3. /\ SubSeq(s, 1, n) \in Seq(Nat) /\ Len(SubSeq(s, 1, n)) = (IF 1 <= n THEN n - 1 + 1 ELSE 0)
      /\ \A i \in 1 .. n - 1 + 1 : SubSeq(s, 1, n)[i] = s[1 + i - 1]
  BY <1>2, SubSeqProperties
<1>4. n - 1 + 1 = n /\ \A i \in 1 .. n : 1 + i - 1 = i
  BY <1>2
<1>5. Len(SubSeq(s, 1, n)) = n /\ \A i \in 1 .. n : SubSeq(s, 1, n)[i] = s[i]
  BY <1>2, <1>3, <1>4
<1> QED
  BY <1>1, <1>3, <1>5 DEF n

-----------------------------------------------------------------------------
(* The registers: nothing but the shape of the state is needed.              *)

Sound == Shapes /\ RegistersCurrent

\* What an action that enters a routine or starts an interpreter leaves behind.
Entered(site, frames) ==
  /\ host' \in Seq(Shape) /\ Len(host') = top + 1
  /\ Kept(host', top) /\ \A n \in 1 .. top - 1 : host'[n] = host[n]
  /\ host'[top].site = site
  /\ host'[top + 1].base = Len(frames)
  /\ host'[top + 1].excess = 0 /\ host'[top + 1].owes = 0
  /\ flow' = "on" /\ at' = 0 /\ stack' = frames /\ frames \in Seq(Nat)
  /\ UNCHANGED <<levels, missing, misled>>

LEMMA EnterStep ==
  ASSUME Sound, NEW site \in Sites \cup {"leaf"}, NEW frames \in Seq(Nat), flow = "on",
         NEW held, held = 0,
         Enter(Wait(top, site), frames, held), stack' = frames, at' = 0,
         UNCHANGED <<flow, levels, missing, misled>>
  PROVE  /\ Entered(site, frames) /\ host'[top + 1].as \in {"native", "tail"}
         /\ Sound'
<1> DEFINE before == Wait(top, site)
<1>1. /\ before \in Seq(Shape) /\ Len(before) = top /\ top \in Nat \ {0}
      /\ Kept(before, top) /\ \A n \in 1 .. top - 1 : before[n] = host[n]
      /\ before[top].site = site
  BY WaitShape DEF Sound
<1>2. Enter(before, frames, held)
  OBVIOUS
<1> HIDE DEF before
<1>3. /\ host' \in Seq(Shape) /\ Len(host') = top + 1
      /\ \A n \in 1 .. top : host'[n] = before[n]
      /\ host'[top + 1].base = Len(frames)
      /\ host'[top + 1].excess = 0 /\ host'[top + 1].owes = 0
      /\ host'[top + 1].as \in {"native", "tail"}
      /\ regs' = IF host'[top + 1].as = "native" THEN ActorBridgeLoad(top + 1, held) ELSE held
  BY <1>1, <1>2, EnterShape
<1>4. Entered(site, frames)
  <2>1. Kept(host', top)
    BY <1>1, <1>3 DEF Kept
  <2>2. \A n \in 1 .. top - 1 : host'[n] = host[n]
    BY <1>1, <1>3
  <2>3. host'[top].site = site
    BY <1>1, <1>3
  <2> QED
    BY <1>3, <2>1, <2>2, <2>3 DEF Entered
<1>5. Shapes'
  BY <1>1, <1>3, EmptySeq DEF Shapes, Sound
<1>6. RegistersCurrent'
  BY <1>1, <1>3 DEF RegistersCurrent, ActorBridgeLoad, top
<1> QED
  BY <1>3, <1>4, <1>5, <1>6 DEF Sound

LEMMA SiteOf ==
  ASSUME Shapes, NEW site \in SitesOf(host[top].calls)
  PROVE  site \in Sites
  BY Now DEF SitesOf, Sites, Shape

LEMMA PairedCallStep ==
  ASSUME Sound, PairedCall
  PROVE  /\ Entered("leaf", Append(stack, top)) /\ host'[top + 1].as \in {"native", "tail"}
         /\ Sound'
<1>1. Append(stack, top) \in Seq(Nat) /\ regs = 0
  BY Now, PushShape DEF Sound, Shapes, RegistersCurrent, PairedCall, Running, Interpreters
<1> QED
  BY <1>1, EnterStep DEF PairedCall, Running

LEMMA JumpStep ==
  ASSUME Sound, Jump
  PROVE  /\ Entered("leaf", stack) /\ host'[top + 1].as \in {"native", "tail"}
         /\ Sound'
<1>1. stack \in Seq(Nat) /\ regs = 0
  BY DEF Sound, Shapes, RegistersCurrent, Jump, Running, Interpreters
<1> QED
  BY <1>1, EnterStep DEF Jump, Running

LEMMA PushedChildStep ==
  ASSUME Sound, ActorBridgePushedChild
  PROVE  /\ \E site \in Sites :
              Entered(site, Append(stack, top)) /\ host'[top + 1].as \in {"native", "tail"}
         /\ Sound'
<1>1. Append(stack, top) \in Seq(Nat) /\ ActorBridgeStore(top) = 0
  BY Now, PushShape
     DEF Sound, Shapes, RegistersCurrent, ActorBridgePushedChild, Running, ActorBridgeStore
<1>2. PICK site \in SitesOf(host[top].calls) :
        /\ stack' = Append(stack, top)
        /\ Enter(Wait(top, site), stack', ActorBridgeStore(top))
  BY DEF ActorBridgePushedChild
<1>3. site \in Sites
  BY <1>2, SiteOf DEF Sound
<1> QED
  BY <1>1, <1>2, <1>3, EnterStep DEF ActorBridgePushedChild, Running

\* A child that is waited for has an interpreter of its own; else the one
\* that goes on for the parent has no frame to come back to.
LEMMA MissingChildStep ==
  ASSUME Sound, ActorBridgeMissingChild
  PROVE  /\ \/ \E site \in Sites \ HandedOver :
                 Entered(site, Append(stack, top)) /\ host'[top + 1].as = "nested"
            \/ /\ host' = GoesOn(top, 0, 0) /\ stack' = Append(Forget(top, stack), 0)
               /\ flow' = "on" /\ at' = 0 /\ UNCHANGED <<levels, missing, misled>>
         /\ Sound'
<1>1. /\ Append(stack, top) \in Seq(Nat) /\ Len(Append(stack, top)) = Len(stack) + 1
      /\ ActorBridgeStore(top) = 0 /\ top \in Nat \ {0} /\ Len(stack) \in Nat /\ flow = "on"
  BY Now, PushShape
     DEF Sound, Shapes, RegistersCurrent, ActorBridgeMissingChild, Running, ActorBridgeStore
<1>2. PICK site \in SitesOf(host[top].calls) :
        IF site \in HandedOver
          THEN /\ host' = GoesOn(top, 0, 0)
               /\ stack' = Append(Forget(top, stack), 0)
          ELSE /\ host' = Append(Wait(top, site), Interpreter("nested", Len(stack) + 1))
               /\ stack' = Append(stack, top)
  BY DEF ActorBridgeMissingChild
<1>3. site \in Sites
  BY <1>2, SiteOf DEF Sound
<1>4. regs' = 0 /\ at' = 0 /\ flow' = "on" /\ UNCHANGED <<levels, missing, misled>>
  BY <1>1 DEF ActorBridgeMissingChild
<1>5. CASE site \in HandedOver
  <2>1. host' = GoesOn(top, 0, 0) /\ stack' = Append(Forget(top, stack), 0)
    BY <1>2, <1>5
  <2>2. host' \in Seq(Shape) /\ Len(host') = top /\ host'[top].as = "tail"
    BY <1>1, <2>1, GoesOnShape DEF Sound
  <2>3. stack' \in Seq(Nat)
    BY <2>1, ForgetShape, PushShape DEF Sound, Shapes
  <2>4. Sound'
    BY <1>1, <1>4, <2>2, <2>3, EmptySeq DEF Sound, Shapes, RegistersCurrent, top
  <2> QED
    BY <1>4, <2>1, <2>4
<1>6. CASE site \notin HandedOver
  <2> DEFINE before == Wait(top, site)  new == Interpreter("nested", Len(stack) + 1)
  <2>1. host' = Append(before, new) /\ stack' = Append(stack, top)
    BY <1>2, <1>6
  <2>2. /\ new \in Shape /\ new.base = Len(stack) + 1 /\ new.as = "nested"
        /\ new.excess = 0 /\ new.owes = 0
    BY <1>1 DEF Interpreter, Activation, Shape, Interpreters, Protocols
  <2>3. /\ before \in Seq(Shape) /\ Len(before) = top
        /\ Kept(before, top) /\ \A n \in 1 .. top - 1 : before[n] = host[n]
        /\ before[top].site = site
    BY <1>3, WaitShape DEF Sound
  <2> HIDE DEF before, new
  <2>4. /\ host' \in Seq(Shape) /\ Len(host') = top + 1
        /\ \A n \in 1 .. top : host'[n] = before[n]
        /\ host'[top + 1] = new
    BY <2>1, <2>2, <2>3, AppendProperties
  <2>5. Entered(site, Append(stack, top))
    <3>1. Kept(host', top)
      <4>1. ASSUME NEW n \in 1 .. top
            PROVE  host'[n].as = host[n].as /\ host'[n].base = host[n].base
                   /\ host'[n].excess = host[n].excess /\ host'[n].owes = host[n].owes
        <5>1. host'[n] = before[n]
          BY <2>4
        <5>2. before[n].as = host[n].as /\ before[n].base = host[n].base
              /\ before[n].excess = host[n].excess /\ before[n].owes = host[n].owes
          BY <2>3 DEF Kept
        <5> QED
          BY <5>1, <5>2
      <4> QED
        BY <4>1 DEF Kept
    <3>2. \A n \in 1 .. top - 1 : host'[n] = host[n]
      BY <1>1, <2>3, <2>4
    <3>3. host'[top].site = site
      BY <1>1, <2>3, <2>4
    <3> QED
      BY <1>1, <1>4, <2>1, <2>2, <2>4, <3>1, <3>2, <3>3 DEF Entered
  <2>6. Shapes'
    BY <1>1, <1>4, <2>1, <2>4, EmptySeq, SMTT(30) DEF Sound, Shapes
  <2>7. host'[Len(host')].as = "nested"
    BY <2>2, <2>4
  <2>8. RegistersCurrent'
    BY <1>4, <2>7 DEF RegistersCurrent, top
  <2> QED
    BY <1>3, <1>6, <2>2, <2>4, <2>5, <2>6, <2>8 DEF Sound
<1> QED
  BY <1>5, <1>6

\* An action after which an interpreter has gone on for the top activation.
LEMMA TailStep ==
  ASSUME Sound, Running({"native"}), host' = GoesOn(top, 0, 0), regs' = ActorBridgeStore(top),
         stack' \in Seq(Nat), at' \in Nat, UNCHANGED <<flow, levels, missing, misled>>
  PROVE  Sound'
<1>1. /\ top \in Nat \ {0} /\ regs' = 0 /\ flow = "on"
      /\ host' \in Seq(Shape) /\ Len(host') = top /\ host'[top].as = "tail"
  BY Now, GoesOnShape DEF Sound, RegistersCurrent, Running, ActorBridgeStore
<1> QED
  BY <1>1, EmptySeq DEF Sound, Shapes, RegistersCurrent, top

\* An action after which the top activation has ended, or everything unwinds.
LEMMA EndStep ==
  ASSUME Sound, flow = "on", host' = host, stack' \in Seq(Nat), at' \in Nat, levels' \in Int,
         flow' \in {"returns", "yields"}, missing' \in Nat, misled' \in BOOLEAN,
         IF host[top].as = "native" THEN regs' = ActorBridgeStore(top) ELSE regs' = regs
  PROVE  Sound'
<1>1. Shapes'
  BY DEF Sound, Shapes
<1>2. regs' = 0 /\ flow' # "on"
  BY DEF Sound, RegistersCurrent, ActorBridgeStore
<1> QED
  BY <1>1, <1>2 DEF Sound, RegistersCurrent

\* An action of an interpreter that changes the stack alone.
LEMMA StackStep ==
  ASSUME Sound, stack' \in Seq(Nat), at' \in Nat,
         UNCHANGED <<host, flow, levels, regs, missing, misled>>
  PROVE  Sound'
  BY DEF Sound, Shapes, RegistersCurrent, top

\* What the end of an activation leaves: a prefix of the activations.
Leaving(k) ==
  /\ host' \in Seq(Shape) /\ Len(host') = k /\ \A n \in 1 .. k - 1 : host'[n] = host[n]
  /\ host'[k].as = host[k].as /\ host'[k].base = host[k].base
  /\ host'[k].excess = host[k].excess /\ host'[k].owes = host[k].owes

LEMMA FrontHost ==
  ASSUME Shapes, top > 1
  PROVE  /\ Front(host) \in Seq(Shape) /\ Len(Front(host)) = top - 1 /\ top \in Nat /\ top > 1
         /\ \A n \in 1 .. top - 1 : Front(host)[n] = host[n]
         /\ Caller = host[top - 1] /\ Caller \in Shape
<1>1. Front(host) \in Seq(Shape) /\ Len(Front(host)) = top - 1
      /\ \A n \in 1 .. top - 1 : Front(host)[n] = host[n]
  BY FrontShape DEF Shapes, top
<1>2. top \in Nat /\ host[top - 1] \in Shape
  BY Now
<1> QED
  BY <1>1, <1>2 DEF Caller

\* The caller goes on: only what it waited for is forgotten.
LEMMA WokenShape ==
  ASSUME NEW h \in Seq(Shape), NEW n \in 1 .. Len(h), NEW e \in Shape,
         e.as = h[n].as /\ e.base = h[n].base /\ e.excess = h[n].excess /\ e.owes = h[n].owes
  PROVE  LET g == [h EXCEPT ![n] = e] IN
         /\ g \in Seq(Shape) /\ Len(g) = Len(h) /\ \A j \in 1 .. Len(h) : j # n => g[j] = h[j]
         /\ g[n].as = h[n].as /\ g[n].base = h[n].base
         /\ g[n].excess = h[n].excess /\ g[n].owes = h[n].owes
  BY ExceptSeq

LEMMA UnwoundStep ==
  ASSUME Sound, Unwound
  PROVE  /\ Leaving(top - 1) /\ host'[top - 1] = host[top - 1] /\ stack' = Forget(top, stack)
         /\ Sound'
<1>1. /\ Front(host) \in Seq(Shape) /\ Len(Front(host)) = top - 1 /\ top \in Nat /\ top > 1
      /\ \A n \in 1 .. top - 1 : Front(host)[n] = host[n]
      /\ Caller \in Shape
  BY FrontHost DEF Sound, Unwound, Gone
<1>2. stack' \in Seq(Nat)
  BY ForgetShape DEF Sound, Shapes, Unwound
<1>3. levels' \in Int /\ missing' \in Nat /\ misled' \in BOOLEAN
  BY <1>1 DEF Sound, Shapes, Unwound, PassesOver, Shape
<1>4. Shapes'
  BY <1>1, <1>2, <1>3, EmptySeq DEF Sound, Shapes, Unwound
<1>5. host' = Front(host) /\ stack' = Forget(top, stack) /\ regs' = 0 /\ flow' # "on"
  BY DEF Sound, RegistersCurrent, Unwound, Gone
<1>6. Leaving(top - 1) /\ host'[top - 1] = host[top - 1]
  BY <1>1, <1>5 DEF Leaving
<1> QED
  BY <1>4, <1>5, <1>6 DEF Sound, RegistersCurrent

LEMMA ResumeStep ==
  ASSUME Sound, Resume
  PROVE  Leaving(top - 1) /\ Sound'
<1>1. /\ Front(host) \in Seq(Shape) /\ Len(Front(host)) = top - 1 /\ top \in Nat /\ top > 1
      /\ \A n \in 1 .. top - 1 : Front(host)[n] = host[n]
      /\ Caller = host[top - 1] /\ Caller \in Shape
  BY FrontHost DEF Sound, Resume, Gone
<1> DEFINE before == Front(host)
<1>2. host' = [before EXCEPT ![top - 1].waits = FALSE, ![top - 1].site = "leaf"]
  BY DEF Resume
<1>3. /\ before \in Seq(Shape) /\ Len(before) = top - 1 /\ top - 1 \in 1 .. Len(before)
      /\ \A n \in 1 .. top - 1 : before[n] = host[n]
  BY <1>1
<1> HIDE DEF before
<1>4. /\ host' \in Seq(Shape) /\ Len(host') = top - 1
      /\ \A n \in 1 .. top - 1 : n # top - 1 => host'[n] = before[n]
      /\ host'[top - 1].as = before[top - 1].as /\ host'[top - 1].base = before[top - 1].base
      /\ host'[top - 1].excess = before[top - 1].excess
      /\ host'[top - 1].owes = before[top - 1].owes
  <2> DEFINE k == top - 1  e == [before[k] EXCEPT !.waits = FALSE, !.site = "leaf"]
  <2>1. k \in 1 .. Len(before) /\ before[k] \in Shape
    BY <1>1, <1>3
  <2>2. host' = [before EXCEPT ![k] = e]
    BY <1>2, <2>1
  <2>3. /\ e \in Shape /\ e.as = before[k].as /\ e.base = before[k].base
        /\ e.excess = before[k].excess /\ e.owes = before[k].owes
    BY <2>1 DEF Shape
  <2> HIDE DEF k, e
  <2>4. /\ host' \in Seq(Shape) /\ Len(host') = Len(before)
        /\ \A j \in 1 .. Len(before) : j # k => host'[j] = before[j]
        /\ host'[k].as = before[k].as /\ host'[k].base = before[k].base
        /\ host'[k].excess = before[k].excess /\ host'[k].owes = before[k].owes
    BY <1>3, <2>1, <2>2, <2>3, WokenShape
  <2> QED
    BY <1>3, <2>4 DEF k
<1>5. Leaving(top - 1)
  BY <1>1, <1>3, <1>4 DEF Leaving
<1>6. stack' \in Seq(Nat)
  BY ForgetShape DEF Sound, Shapes, Resume, ActsOn
<1>7. Shapes'
  BY <1>1, <1>4, <1>6, EmptySeq DEF Sound, Shapes, Resume, ActsOn
<1>8. regs = 0 /\ regs' = top - 1 /\ host'[top - 1].as = "native"
  BY <1>1, <1>5 DEF Sound, RegistersCurrent, Resume, Gone, Leaving, ActorBridgeLoad
<1> QED
  BY <1>4, <1>5, <1>7, <1>8 DEF Sound, RegistersCurrent, Resume, top

LEMMA InterpreterResumesStep ==
  ASSUME Sound, InterpreterResumes
  PROVE  Leaving(top - 1) /\ host'[top - 1].as \in Interpreters /\ Sound'
<1>1. /\ Front(host) \in Seq(Shape) /\ Len(Front(host)) = top - 1 /\ top \in Nat /\ top > 1
      /\ \A n \in 1 .. top - 1 : Front(host)[n] = host[n]
      /\ Caller = host[top - 1] /\ Caller \in Shape
  BY FrontHost DEF Sound, InterpreterResumes, Gone
<1> DEFINE before == Front(host)
<1>2. host' = [before EXCEPT ![top - 1].waits = FALSE]
  BY DEF InterpreterResumes
<1>3. /\ before \in Seq(Shape) /\ Len(before) = top - 1 /\ top - 1 \in 1 .. Len(before)
      /\ \A n \in 1 .. top - 1 : before[n] = host[n]
  BY <1>1
<1> HIDE DEF before
<1>4. /\ host' \in Seq(Shape) /\ Len(host') = top - 1
      /\ \A n \in 1 .. top - 1 : n # top - 1 => host'[n] = before[n]
      /\ host'[top - 1].as = before[top - 1].as /\ host'[top - 1].base = before[top - 1].base
      /\ host'[top - 1].excess = before[top - 1].excess
      /\ host'[top - 1].owes = before[top - 1].owes
  <2> DEFINE k == top - 1  e == [before[k] EXCEPT !.waits = FALSE]
  <2>1. k \in 1 .. Len(before) /\ before[k] \in Shape
    BY <1>1, <1>3
  <2>2. host' = [before EXCEPT ![k] = e]
    BY <1>2, <2>1
  <2>3. /\ e \in Shape /\ e.as = before[k].as /\ e.base = before[k].base
        /\ e.excess = before[k].excess /\ e.owes = before[k].owes
    BY <2>1 DEF Shape
  <2> HIDE DEF k, e
  <2>4. /\ host' \in Seq(Shape) /\ Len(host') = Len(before)
        /\ \A j \in 1 .. Len(before) : j # k => host'[j] = before[j]
        /\ host'[k].as = before[k].as /\ host'[k].base = before[k].base
        /\ host'[k].excess = before[k].excess /\ host'[k].owes = before[k].owes
    BY <1>3, <2>1, <2>2, <2>3, WokenShape
  <2> QED
    BY <1>3, <2>4 DEF k
<1>5. Leaving(top - 1) /\ host'[top - 1].as \in Interpreters
  BY <1>1, <1>3, <1>4 DEF Leaving, InterpreterResumes
<1>6. stack' \in Seq(Nat)
  BY ForgetShape DEF Sound, Shapes, InterpreterResumes, ActsOn
<1>7. Shapes'
  BY <1>1, <1>4, <1>6, EmptySeq DEF Sound, Shapes, InterpreterResumes, ActsOn
<1>8. regs' = 0 /\ host'[top - 1].as # "native"
  BY <1>5 DEF Sound, RegistersCurrent, InterpreterResumes, Gone, Interpreters
<1> QED
  BY <1>4, <1>5, <1>7, <1>8 DEF Sound, RegistersCurrent, InterpreterResumes, top

LEMMA ChangedReturnStep ==
  ASSUME Sound, ChangedReturn
  PROVE  /\ host' \in Seq(Shape) /\ Len(host') = top - 1
         /\ \A n \in 1 .. top - 2 : host'[n] = host[n]
         /\ host'[top - 1].as = "tail" /\ host'[top - 1].base = host[top - 1].base
         /\ host'[top - 1].excess = host'[top - 1].owes
         /\ Sound'
<1>1. top - 1 \in 1 .. top /\ top - 1 \in Nat \ {0} /\ top > 1 /\ top \in Nat
  BY Now DEF Sound, ChangedReturn, Gone
<1> DEFINE excess == 1 - HandOff(Caller.site)
           owes == IF Caller.site \in Short THEN 1 ELSE 0
           new == GoesOn(top - 1, excess, owes)
<1>2. excess \in {0, 1} /\ owes \in {0, 1} /\ excess = owes
  BY DEF HandOff, Short, ChangedReturn, Checked
<1> HIDE DEF excess, owes
<1>3. /\ new \in Seq(Shape) /\ Len(new) = top
      /\ \A j \in 1 .. top : j # top - 1 => new[j] = host[j]
      /\ new[top - 1].as = "tail" /\ new[top - 1].base = host[top - 1].base
      /\ new[top - 1].excess = excess /\ new[top - 1].owes = owes
  BY <1>1, <1>2, GoesOnShape DEF Sound
<1>4. host' = Front(new)
  BY DEF ChangedReturn, excess, owes
<1> HIDE DEF new
<1>5. new # <<>>
  BY <1>1, <1>3, EmptySeq
<1>6. /\ host' \in Seq(Shape) /\ Len(host') = top - 1
      /\ \A n \in 1 .. top - 1 : host'[n] = new[n]
  BY <1>3, <1>4, <1>5, FrontShape
<1>7. stack' \in Seq(Nat)
  BY ForgetShape DEF Sound, Shapes, ChangedReturn, ActsOn
<1>8. Shapes'
  BY <1>1, <1>6, <1>7, EmptySeq DEF Sound, Shapes, ChangedReturn, ActsOn
<1>9. regs' = 0 /\ host'[top - 1].as = "tail"
  BY <1>1, <1>3, <1>6 DEF Sound, RegistersCurrent, ChangedReturn, Gone
<1>10. \A n \in 1 .. top - 2 : host'[n] = host[n]
  BY <1>1, <1>3, <1>6
<1>11. /\ host'[top - 1].base = host[top - 1].base
       /\ host'[top - 1].excess = host'[top - 1].owes
  BY <1>1, <1>2, <1>3, <1>6
<1>12. RegistersCurrent'
  BY <1>6, <1>9 DEF RegistersCurrent, top
<1> QED
  BY <1>6, <1>8, <1>9, <1>10, <1>11, <1>12 DEF Sound

LEMMA UnwindStep ==
  ASSUME Sound, Unwind
  PROVE  /\ host' = <<Interpreter("owner", 0)>> /\ Len(stack') = Len(stack)
         /\ \A i \in 1 .. Len(stack) : stack'[i] = 0
         /\ Sound'
<1>1. Interpreter("owner", 0) \in Shape /\ Interpreter("owner", 0).as = "owner"
  BY DEF Interpreter, Activation, Shape, Interpreters, Protocols
<1>2. host' \in Seq(Shape) /\ host' # <<>> /\ Len(host') = 1 /\ host'[1].as = "owner"
  BY <1>1, EmptySeq DEF Unwind
<1>3. Len(stack) \in Nat /\ stack' = [i \in 1 .. Len(stack) |-> 0]
  BY LenProperties DEF Sound, Shapes, Unwind
<1>4. stack' \in [1 .. Len(stack) -> Nat]
  BY <1>3
<1>5. stack' \in Seq(Nat) /\ Len(stack') = Len(stack)
  BY <1>3, <1>4, SeqDef, LenProperties
<1>6. at' = 0 /\ flow' = "on" /\ levels' = 0 /\ missing' = 0 /\ misled' \in BOOLEAN
  BY DEF Unwind
<1>7. Shapes'
  BY <1>2, <1>5, <1>6 DEF Shapes
<1> QED
  BY <1>2, <1>3, <1>5, <1>7 DEF Sound, RegistersCurrent, Unwind, top

\* What the two returns of a routine leave of the stack.
LEMMA ReturnShape ==
  ASSUME Shapes
  PROVE  /\ ActorBridgeReturn => stack' \in Seq(Nat) /\ at' \in Nat
         /\ ActorBridgeReturnPastFrame => stack' \in Seq(Nat) /\ at' \in Nat
         /\ InterpretedReturn => stack' \in Seq(Nat) /\ at' \in Nat
         /\ GuestRewrites => stack' \in Seq(Nat)
         /\ InterpretedCall => stack' \in Seq(Nat)
<1>1. ActorBridgeReturn => stack' \in Seq(Nat) /\ at' \in Nat
  BY FrontShape, SMTT(30) DEF ActorBridgeReturn, AtLanding, Shapes
<1>2. ActorBridgeReturnPastFrame => stack' \in Seq(Nat) /\ at' \in Nat
  <2> SUFFICES ASSUME ActorBridgeReturnPastFrame PROVE stack' \in Seq(Nat) /\ at' \in Nat
    OBVIOUS
  <2>1. Len(stack) > 1 /\ stack' = SubSeq(stack, 1, Len(stack) - 2)
    BY DEF ActorBridgeReturnPastFrame
  <2>2. stack[Len(stack) - 1] \in Nat
    BY <2>1, Now
  <2>3. stack' \in Seq(Nat)
    BY <2>1, TwoOff DEF Shapes
  <2> QED
    BY <2>2, <2>3 DEF ActorBridgeReturnPastFrame, AtLanding
<1>3. InterpretedReturn => stack' \in Seq(Nat) /\ at' \in Nat
  BY FrontShape, SMTT(30) DEF InterpretedReturn, AtLanding, Shapes
<1>4. GuestRewrites => stack' \in Seq(Nat)
  <2>1. stack' = [stack EXCEPT ![Len(stack)] = 0] /\ stack # <<>> => stack' \in Seq(Nat)
    <3>1. stack # <<>> => Len(stack) \in 1 .. Len(stack)
      BY EmptySeq, LenProperties DEF Shapes
    <3> QED
      BY <3>1, ExceptSeq DEF Shapes
  <2> QED
    BY <2>1, FrontShape DEF GuestRewrites, Shapes
<1>5. InterpretedCall => stack' \in Seq(Nat)
  BY PushShape DEF InterpretedCall, Shapes
<1> QED
  BY <1>1, <1>2, <1>3, <1>4, <1>5

LEMMA SoundStep ==
  ASSUME Sound, Next
  PROVE  Sound'
<1>1. CASE PairedCall
  BY <1>1, PairedCallStep
<1>2. CASE Jump
  BY <1>2, JumpStep
<1>3. CASE ActorBridgePushedChild
  BY <1>3, PushedChildStep
<1>4. CASE ActorBridgeMissingChild
  BY <1>4, MissingChildStep
<1>5. CASE ActorBridgeReturn
  <2>1. /\ stack' \in Seq(Nat) /\ at' \in Nat /\ Running({"native"})
        /\ regs' = ActorBridgeStore(top) /\ UNCHANGED misled
    BY <1>5, ReturnShape DEF Sound, ActorBridgeReturn
  <2>2. CASE host' = GoesOn(top, 0, 0) /\ UNCHANGED <<flow, levels, missing>>
    BY <2>1, <2>2, TailStep
  <2>3. CASE host' = host /\ \E n \in {top - 1 - Last(stack) - 0, 0} : Ends(n, 0)
    <3>1. levels' \in Int /\ flow' = "returns" /\ missing' \in Nat /\ misled' \in BOOLEAN
      <4>1. top \in Nat /\ (stack # <<>> => Last(stack) \in Nat)
        BY Now, FrontShape DEF Sound, Shapes
      <4> QED
        BY <1>5, <2>1, <2>3, <4>1 DEF Ends, ActorBridgeReturn, Sound, Shapes
    <3> QED
      BY <2>1, <2>3, <3>1, EndStep DEF Running
  <2> QED
    BY <1>5, <2>2, <2>3 DEF ActorBridgeReturn, AtLanding
<1>6. CASE ActorBridgeReturnPastFrame
  <2>1. /\ stack' \in Seq(Nat) /\ at' \in Nat /\ Running({"native"})
        /\ regs' = ActorBridgeStore(top) /\ UNCHANGED misled
    BY <1>6, ReturnShape DEF Sound, ActorBridgeReturnPastFrame
  <2> DEFINE landing == stack[Len(stack) - 1]
  <2>2. top \in Nat /\ landing \in Nat
    BY <1>6, Now DEF Sound, ActorBridgeReturnPastFrame
  <2>3. CASE host' = GoesOn(top, 0, 0) /\ UNCHANGED <<flow, levels, missing>>
    BY <2>1, <2>3, TailStep
  <2>4. CASE host' = host /\ Ends(top - 1 - landing - 0, 0)
    <3>1. levels' \in Int /\ flow' = "returns" /\ missing' \in Nat /\ misled' \in BOOLEAN
      BY <2>1, <2>2, <2>4 DEF Ends, Sound, Shapes
    <3> QED
      BY <2>1, <2>4, <3>1, EndStep DEF Running
  <2>5. CASE host' = host /\ flow' = "yields" /\ levels' = levels /\ missing' = missing
    <3>1. levels' \in Int /\ missing' \in Nat /\ misled' \in BOOLEAN
      BY <2>1, <2>5 DEF Sound, Shapes
    <3> QED
      BY <2>1, <2>5, <3>1, EndStep DEF Running
  <2> QED
    BY <1>6, <2>3, <2>4, <2>5 DEF ActorBridgeReturnPastFrame, AtLanding
<1>7. CASE Boundary
  BY <1>7, TailStep DEF Boundary, Sound, Shapes
<1>8. CASE ActorBridgeExecutionCheckpoint
  BY <1>8 DEF ActorBridgeExecutionCheckpoint, Sound, Shapes, RegistersCurrent, Running,
              ActorBridgeStore, ActorBridgeLoad, top
<1>9. CASE Unwound
  BY <1>9, UnwoundStep
<1>10. CASE Resume
  BY <1>10, ResumeStep
<1>11. CASE ChangedReturn
  BY <1>11, ChangedReturnStep
<1>12. CASE InterpreterResumes
  BY <1>12, InterpreterResumesStep
<1>13. CASE Unwind
  BY <1>13, UnwindStep
<1>14. CASE InterpretedCall
  BY <1>14, ReturnShape, StackStep DEF InterpretedCall, Sound, Shapes
<1>15. CASE InterpretedReturn
  <2>1. /\ stack' \in Seq(Nat) /\ at' \in Nat /\ UNCHANGED <<host, regs, misled>>
        /\ flow = "on" /\ host[top].as # "native" /\ stack # <<>>
    BY <1>15, ReturnShape DEF Sound, InterpretedReturn, Running, Interpreters
  <2>2. CASE UNCHANGED <<flow, levels, missing>>
    BY <2>1, <2>2, StackStep
  <2>3. CASE \E n \in {top - 1 - Last(stack) - host[top].excess, 0}, owed \in {host[top].owes, 0} :
               Ends(n, owed)
    <3>1. top \in Nat /\ Last(stack) \in Nat /\ host[top].excess \in {0, 1} /\ host[top].owes \in {0, 1}
      <4>1. top \in Nat \ {0} /\ host[top] \in Shape
        BY Now DEF Sound
      <4>2. Last(stack) \in Nat
        BY <2>1, FrontShape DEF Sound, Shapes
      <4> QED
        BY <4>1, <4>2 DEF Shape
    <3>2. levels' \in Int /\ flow' = "returns" /\ missing' \in Nat /\ misled' \in BOOLEAN
      BY <2>1, <2>3, <3>1 DEF Ends, Sound, Shapes
    <3> QED
      BY <2>1, <3>2, EndStep
  <2> QED
    BY <1>15, <2>2, <2>3 DEF InterpretedReturn, AtLanding
<1>16. CASE GuestRewrites
  BY <1>16, ReturnShape, StackStep DEF GuestRewrites, Sound, Shapes
<1>17. CASE TimeUp
  <2>1. flow = "on" /\ UNCHANGED <<host, stack, at, regs>> /\ host[top].as # "native"
    BY <1>17 DEF TimeUp, Running
  <2>2. misled' \in BOOLEAN
    BY <1>17 DEF TimeUp, Sound, Shapes
  <2>3. flow' \in {"returns", "yields"} /\ levels' \in Int /\ missing' \in Nat
    BY <1>17 DEF TimeUp, Ends, Sound, Shapes
  <2> QED
    BY <2>1, <2>2, <2>3, EndStep DEF Sound, Shapes
<1> QED
  BY <1>1, <1>2, <1>3, <1>4, <1>5, <1>6, <1>7, <1>8, <1>9, <1>10, <1>11, <1>12, <1>13, <1>14,
     <1>15, <1>16, <1>17 DEF Next

LEMMA SoundInit ==
  ASSUME Init
  PROVE  Sound
<1>1. Interpreter("owner", 0) \in Shape /\ Interpreter("owner", 0).as = "owner"
  BY DEF Interpreter, Activation, Shape, Interpreters, Protocols
<1>2. host \in Seq(Shape) /\ host # <<>> /\ host[Len(host)].as = "owner"
  BY <1>1, EmptySeq DEF Init
<1>3. stack \in Seq(Nat)
  BY DEF Init
<1>4. misled \in BOOLEAN
  BY DEF Init
<1> QED
  BY <1>2, <1>3, <1>4 DEF Init, Sound, Shapes, RegistersCurrent, top

\* Whoever runs has the newest registers, whatever the call sites take into
\* account: no store of the bridge writes an older copy over them.
THEOREM RegistersAreCurrent == Spec => []RegistersCurrent
<1>1. Init => Sound
  BY SoundInit
<1>2. Sound /\ [Next]_vars => Sound'
  <2>1. Sound /\ UNCHANGED vars => Sound'
    BY DEF Sound, Shapes, RegistersCurrent, vars, top
  <2> QED
    BY <2>1, SoundStep
<1>3. Sound => RegistersCurrent
  BY DEF Sound
<1> QED
  BY <1>1, <1>2, <1>3, PTL DEF Spec

-----------------------------------------------------------------------------
(* The levels: where every frame below the top leads.                        *)

\* The stack keeps its frames, as far as they are not forgotten.
Under(s) ==
  /\ s \in Seq(Nat) /\ Len(s) <= Len(stack)
  /\ \A i \in 1 .. Len(s) : s[i] = stack[i] \/ s[i] = 0

LEMMA StillFramed ==
  ASSUME Shapes, Framed(host, stack), Rising(stack), NEW s, Under(s),
         NEW h, NEW k \in Nat, k <= Len(h), Len(h) \in Nat, k <= top,
         \A n \in 1 .. k : h[n].base = host[n].base,
         \A i \in 1 .. Len(s) : s[i] < k
  PROVE  Framed(h, s) /\ Rising(s)
<1>1. Len(stack) \in Nat /\ Len(s) \in Nat /\ top \in Nat
      /\ \A i \in 1 .. Len(s) : s[i] \in Nat /\ i \in 1 .. Len(stack)
  BY Now, ElementOfSeq, LenProperties DEF Under
<1>2. ASSUME NEW i \in 1 .. Len(s), s[i] > 0
      PROVE  s[i] = stack[i] /\ s[i] < Len(h) /\ h[s[i] + 1].base = i
  <2>1. s[i] = stack[i] /\ i \in 1 .. Len(stack) /\ s[i] + 1 \in 1 .. k
    BY <1>1, <1>2 DEF Under
  <2> QED
    BY <1>1, <1>2, <2>1 DEF Framed
<1>3. Framed(h, s)
  BY <1>2 DEF Framed
<1>4. Rising(s)
  BY <1>1, <1>2 DEF Rising
<1> QED
  BY <1>3, <1>4

\* A call: its frame leads to the activation that makes it.
LEMMA CallFramed ==
  ASSUME Shapes, Framed(host, stack), Rising(stack), NEW h, Len(h) = top + 1,
         \A n \in 1 .. top : h[n].base = host[n].base,
         h[top + 1].base = Len(stack) + 1
  PROVE  Framed(h, Append(stack, top)) /\ Rising(Append(stack, top))
<1> DEFINE s == Append(stack, top)
<1>1. /\ top \in Nat \ {0} /\ Len(stack) \in Nat /\ Len(s) = Len(stack) + 1
      /\ \A i \in 1 .. Len(stack) : s[i] = stack[i] /\ stack[i] \in Nat
      /\ s[Len(stack) + 1] = top
  BY Now, PushShape DEF Shapes
<1> HIDE DEF s
<1>2. \A i \in 1 .. Len(stack) : s[i] > 0 => s[i] < top /\ host[s[i] + 1].base = i
  BY <1>1 DEF Framed, top
<1>3. \A i \in 1 .. Len(stack) : s[i] > 0 => s[i] + 1 \in 1 .. top
  BY <1>1, <1>2
<1>4. Framed(h, s)
  BY <1>1, <1>2, <1>3, SMTT(30) DEF Framed
<1>5. Rising(s)
  <2>1. ASSUME NEW i \in 1 .. Len(s), NEW j \in 1 .. Len(s), i < j, s[i] > 0, s[j] > 0
        PROVE  s[i] < s[j]
    BY <1>1, <1>2, <2>1 DEF Rising
  <2> QED
    BY <2>1 DEF Rising
<1> QED
  BY <1>4, <1>5 DEF s

Guarded == Framed(host, stack) /\ Rising(stack) /\ Balanced(host) /\ Level /\ Landed /\ Levelled

LEMMA CallGuarded ==
  ASSUME Shapes, Guarded, flow = "on", NEW site,
         Entered(site, Append(stack, top)),
         \/ host'[top + 1].as \in {"native", "tail"}
         \/ host'[top + 1].as = "nested" /\ host[top].as = "native" /\ site \in Waiting
  PROVE  Guarded'
<1>1. top \in Nat \ {0} /\ Len(stack) \in Nat /\ Len(Append(stack, top)) = Len(stack) + 1
  BY Now, PushShape DEF Shapes
<1>2. /\ Len(host') = top + 1
      /\ \A n \in 1 .. top : host'[n].as = host[n].as /\ host'[n].base = host[n].base
                             /\ host'[n].excess = host[n].excess /\ host'[n].owes = host[n].owes
      /\ \A n \in 1 .. top - 1 : host'[n] = host[n]
      /\ host'[top].site = site
      /\ host'[top + 1].base = Len(stack) + 1
      /\ host'[top + 1].excess = 0 /\ host'[top + 1].owes = 0
      /\ flow' = "on" /\ stack' = Append(stack, top)
  BY <1>1 DEF Entered, Kept
<1>3. (Framed(host, stack) /\ Rising(stack))'
  <2>1. Framed(host', Append(stack, top)) /\ Rising(Append(stack, top))
    BY <1>2, CallFramed DEF Guarded
  <2> QED
    BY <1>2, <2>1 DEF Framed, Rising
<1>4. Balanced(host')
  <2>1. \A n \in 1 .. Len(host') - 1 : host'[n].as = "native" => host'[n + 1].base = host'[n].base + 1
    <3>1. ASSUME NEW n \in 1 .. top - 1 PROVE host'[n].as = "native" => host'[n + 1].base = host'[n].base + 1
      <4>1. n \in 1 .. top /\ n + 1 \in 1 .. top /\ n \in 1 .. Len(host) - 1
        BY <1>1, <3>1 DEF top
      <4> QED
        BY <1>2, <4>1 DEF Guarded, Balanced
    <3>2. host'[top].as = "native" => host'[top + 1].base = host'[top].base + 1
      BY <1>1, <1>2 DEF Guarded, Level
    <3> QED
      BY <1>1, <1>2, <3>1, <3>2
  <2>2. \A n \in 1 .. Len(host') : host'[n].excess = host'[n].owes
    BY <1>1, <1>2 DEF Guarded, Balanced, top
  <2>3. ASSUME NEW n \in 1 .. Len(host'), host'[n].as = "nested"
        PROVE  n > 1 /\ host'[n - 1].as = "native" /\ host'[n - 1].site \in Waiting
    <3>1. CASE n \in 1 .. top
      <4>1. n > 1 /\ host[n - 1].as = "native" /\ host[n - 1].site \in Waiting
        BY <1>2, <2>3, <3>1 DEF Guarded, Balanced, top
      <4> QED
        BY <1>1, <1>2, <3>1, <4>1
    <3>2. CASE n = top + 1
      BY <1>1, <1>2, <2>3, <3>2
    <3> QED
      BY <1>1, <1>2, <3>1, <3>2
  <2> QED
    BY <2>1, <2>2, <2>3 DEF Balanced
<1>5. Level'
  BY <1>1, <1>2 DEF Level, top
<1>6. (Landed /\ Levelled)'
  BY <1>2 DEF Landed, Levelled
<1> QED
  BY <1>3, <1>4, <1>5, <1>6 DEF Guarded, Balanced

LEMMA PlainFrame ==
  ASSUME NEW h, NEW s \in Seq(Nat), Framed(h, s), Rising(s)
  PROVE  Framed(h, Append(s, 0)) /\ Rising(Append(s, 0))
<1>1. /\ Len(s) \in Nat /\ Len(Append(s, 0)) = Len(s) + 1
      /\ \A i \in 1 .. Len(s) : Append(s, 0)[i] = s[i]
      /\ Append(s, 0)[Len(s) + 1] = 0
  BY PushShape
<1>2. ASSUME NEW i \in 1 .. Len(s) + 1, Append(s, 0)[i] > 0
      PROVE  i \in 1 .. Len(s) /\ Append(s, 0)[i] = s[i]
  BY <1>1, <1>2
<1>3. Framed(h, Append(s, 0))
  BY <1>1, <1>2 DEF Framed
<1>4. Rising(Append(s, 0))
  BY <1>1, <1>2 DEF Rising
<1> QED
  BY <1>3, <1>4

LEMMA JumpGuarded ==
  ASSUME Shapes, Guarded, flow = "on", host[top].as # "native",
         Entered("leaf", stack), host'[top + 1].as \in {"native", "tail"}
  PROVE  Guarded'
<1>1. top \in Nat \ {0} /\ Len(stack) \in Nat /\ \A i \in 1 .. Len(stack) : stack[i] \in Nat
  BY Now
<1>2. /\ Len(host') = top + 1
      /\ \A n \in 1 .. top : host'[n].as = host[n].as /\ host'[n].base = host[n].base
                             /\ host'[n].excess = host[n].excess /\ host'[n].owes = host[n].owes
      /\ \A n \in 1 .. top - 1 : host'[n] = host[n]
      /\ host'[top + 1].base = Len(stack)
      /\ host'[top + 1].excess = 0 /\ host'[top + 1].owes = 0
      /\ flow' = "on" /\ stack' = stack
  BY <1>1 DEF Entered, Kept
<1>3. (Framed(host, stack) /\ Rising(stack))'
  <2>1. \A i \in 1 .. Len(stack) : stack[i] < top
    BY <1>1 DEF Guarded, Framed, top
  <2>2. Under(stack)
    BY <1>1 DEF Under, Shapes
  <2>3. top \in Nat /\ top <= top /\ top <= Len(host') /\ Len(host') \in Nat
        /\ \A n \in 1 .. top : host'[n].base = host[n].base
    BY <1>1, <1>2
  <2>4. Framed(host', stack) /\ Rising(stack)
    BY <2>1, <2>2, <2>3, StillFramed DEF Guarded
  <2> QED
    BY <1>2, <2>4 DEF Framed, Rising
<1>4. Balanced(host')
  <2>1. \A n \in 1 .. Len(host') - 1 : host'[n].as = "native" => host'[n + 1].base = host'[n].base + 1
    <3>1. ASSUME NEW n \in 1 .. top - 1 PROVE host'[n].as = "native" => host'[n + 1].base = host'[n].base + 1
      <4>1. n \in 1 .. top /\ n + 1 \in 1 .. top /\ n \in 1 .. Len(host) - 1
        BY <1>1, <3>1 DEF top
      <4> QED
        BY <1>2, <4>1 DEF Guarded, Balanced
    <3>2. host'[top].as # "native"
      BY <1>1, <1>2
    <3> QED
      BY <1>1, <1>2, <3>1, <3>2
  <2>2. \A n \in 1 .. Len(host') : host'[n].excess = host'[n].owes
    BY <1>1, <1>2 DEF Guarded, Balanced, top
  <2>3. ASSUME NEW n \in 1 .. Len(host'), host'[n].as = "nested"
        PROVE  n > 1 /\ host'[n - 1].as = "native" /\ host'[n - 1].site \in Waiting
    <3>1. n \in 1 .. top
      BY <1>1, <1>2, <2>3
    <3>2. n > 1 /\ host[n - 1].as = "native" /\ host[n - 1].site \in Waiting
      BY <1>2, <2>3, <3>1 DEF Guarded, Balanced, top
    <3>3. n - 1 \in 1 .. top - 1
      BY <1>1, <3>1, <3>2
    <3> QED
      BY <1>2, <3>2, <3>3
  <2> QED
    BY <2>1, <2>2, <2>3 DEF Balanced
<1>5. Level'
  BY <1>1, <1>2 DEF Level, top
<1>6. (Landed /\ Levelled)'
  BY <1>2 DEF Landed, Levelled
<1> QED
  BY <1>3, <1>4, <1>5, <1>6 DEF Guarded, Balanced

\* An interpreter goes on for the top activation, over fewer frames.
LEMMA GoesOnGuarded ==
  ASSUME Shapes, Guarded, host' = GoesOn(top, 0, 0), flow' = "on",
         NEW s, Under(s), stack' = s \/ stack' = Append(s, 0)
  PROVE  Guarded'
<1>1. /\ top \in Nat \ {0} /\ \A i \in 1 .. Len(stack) : stack[i] \in Nat
      /\ Len(host') = top /\ \A n \in 1 .. top : n # top => host'[n] = host[n]
      /\ host'[top].as = "tail" /\ host'[top].base = host[top].base
      /\ host'[top].excess = 0 /\ host'[top].owes = 0
  BY Now, GoesOnShape
<1>2. \A n \in 1 .. top : host'[n].base = host[n].base
  BY <1>1
<1>3. Framed(host', s) /\ Rising(s)
  <2>1. \A i \in 1 .. Len(s) : s[i] < top
    <3>1. \A i \in 1 .. Len(stack) : stack[i] < top
      BY <1>1 DEF Guarded, Framed, top
    <3>2. Len(s) \in Nat /\ Len(stack) \in Nat
      BY Now, LenProperties DEF Under
    <3> QED
      BY <1>1, <3>1, <3>2, SMTT(30) DEF Under
  <2> QED
    BY <1>1, <1>2, <2>1, StillFramed DEF Guarded
<1>4. (Framed(host, stack) /\ Rising(stack))'
  <2>1. Framed(host', Append(s, 0)) /\ Rising(Append(s, 0))
    BY <1>3, PlainFrame DEF Under
  <2> QED
    BY <1>3, <2>1 DEF Framed, Rising
<1>5. Balanced(host')
  <2>1. ASSUME NEW n \in 1 .. Len(host') - 1, host'[n].as = "native"
        PROVE  host'[n + 1].base = host'[n].base + 1
    <3>1. n \in 1 .. top /\ n + 1 \in 1 .. top /\ n \in 1 .. Len(host) - 1 /\ n # top
      BY <1>1, <2>1 DEF top
    <3> QED
      BY <1>1, <1>2, <2>1, <3>1 DEF Guarded, Balanced
  <2>2. \A n \in 1 .. Len(host') : host'[n].excess = host'[n].owes
    BY <1>1 DEF Guarded, Balanced, top
  <2>3. ASSUME NEW n \in 1 .. Len(host'), host'[n].as = "nested"
        PROVE  n > 1 /\ host'[n - 1].as = "native" /\ host'[n - 1].site \in Waiting
    <3>1. n \in 1 .. top /\ n # top /\ host[n].as = "nested"
      BY <1>1, <2>3
    <3>2. n > 1 /\ host[n - 1].as = "native" /\ host[n - 1].site \in Waiting
      BY <3>1 DEF Guarded, Balanced, top
    <3> QED
      BY <1>1, <3>1, <3>2
  <2> QED
    BY <2>1, <2>2, <2>3 DEF Balanced
<1>6. Level' /\ (Landed /\ Levelled)'
  BY <1>1 DEF Level, Landed, Levelled, Exact, top
<1> QED
  BY <1>4, <1>5, <1>6 DEF Guarded, Balanced

\* The activations are as they were: what remains is where the guest stands.
LEMMA EndGuarded ==
  ASSUME Shapes, Guarded, host' = host, NEW s, Under(s), stack' = s \/ stack' = Append(s, 0),
         (Level /\ Landed /\ Levelled)'
  PROVE  Guarded'
<1>1. /\ top \in Nat \ {0} /\ \A i \in 1 .. Len(stack) : stack[i] \in Nat
      /\ Len(s) \in Nat /\ Len(stack) \in Nat
  BY Now, LenProperties DEF Under
<1>2. \A i \in 1 .. Len(stack) : stack[i] < top
  BY <1>1 DEF Guarded, Framed, top
<1>3. \A i \in 1 .. Len(s) : s[i] < top
  BY <1>1, <1>2 DEF Under
<1>4. Framed(host, s) /\ Rising(s)
  BY <1>1, <1>3, StillFramed DEF Guarded, top
<1>5. Framed(host, Append(s, 0)) /\ Rising(Append(s, 0))
  BY <1>4, PlainFrame DEF Under
<1>6. (Framed(host, stack) /\ Rising(stack))'
  BY <1>4, <1>5 DEF Framed, Rising
<1> QED
  BY <1>6 DEF Guarded, Balanced

\* The guest has popped frame i: its owner is called with it still there, so
\* it stands at the owner's landing with what was on the stack before.
LEMMA LandingGuarded ==
  ASSUME Shapes, Guarded, NEW i \in 1 .. Len(stack), stack[i] > 0, host' = host,
         stack' \in Seq(Nat), Len(stack') = i - 1, \A j \in 1 .. i - 1 : stack'[j] = stack[j],
         at' = stack[i], flow' = "returns", levels' + missing' = top - 1 - stack[i]
  PROVE  Guarded'
<1>1. top \in Nat \ {0} /\ Len(stack) \in Nat /\ stack[i] \in Nat /\ stack[i] < top
      /\ \A j \in 1 .. Len(stack) : stack[j] \in Nat
  BY Now DEF Guarded, Framed, top
<1>2. Under(stack')
  BY <1>1 DEF Under
<1>3. Level'
  BY DEF Level
<1>4. Landed'
  <2>1. ASSUME NEW j \in 1 .. Len(stack') PROVE stack'[j] < stack[i]
    <3>1. j \in 1 .. Len(stack) /\ j < i /\ stack'[j] = stack[j] /\ stack[j] \in Nat
      BY <1>1, <2>1
    <3>2. stack[j] > 0 => stack[j] < stack[i]
      BY <3>1 DEF Guarded, Rising
    <3> QED
      BY <1>1, <3>1, <3>2
  <2>2. host[stack[i]].as = "native" => Len(stack') = host[stack[i]].base
    <3>1. stack[i] \in 1 .. Len(host) - 1 /\ host[stack[i] + 1].base = i
      BY <1>1 DEF Guarded, Framed, top
    <3>2. host[stack[i]].as = "native" => i = host[stack[i]].base + 1
      BY <3>1 DEF Guarded, Balanced
    <3>3. host[stack[i]].base \in Nat
      <4>1. host[stack[i]] \in Shape
        BY <1>1, <3>1, Now DEF top
      <4> QED
        BY <4>1 DEF Shape
    <3> QED
      BY <3>2, <3>3
  <2> QED
    BY <2>1, <2>2 DEF Landed
<1>5. Levelled'
  BY <1>1, SMTT(30) DEF Levelled, Exact, top
<1> QED
  BY <1>2, <1>3, <1>4, <1>5, EndGuarded

\* The guest has come back from the activation on top, but somewhere else; its
\* caller, who is told, has no frame left to be reached by.
LEMMA ElsewhereGuarded ==
  ASSUME Shapes, Guarded, stack # <<>>, Last(stack) = 0, Len(stack) = host[top].base,
         MayStray(top - 1), host' = host, stack' = Front(stack), at' = 0, Ends(0, 0)
  PROVE  Guarded'
<1>1. /\ top \in Nat \ {0} /\ Len(stack) \in Nat \ {0} /\ stack[Len(stack)] = 0
      /\ stack' \in Seq(Nat) /\ Len(stack') = Len(stack) - 1
      /\ \A j \in 1 .. Len(stack) - 1 : stack'[j] = stack[j]
      /\ \A j \in 1 .. Len(stack) : stack[j] \in Nat
  BY Now, FrontShape DEF Shapes
<1>2. Under(stack')
  BY <1>1 DEF Under
<1>3. top - 1 > 0
  BY DEF MayStray
<1>4. \A j \in 1 .. Len(stack') : stack'[j] < top - 1
  <2>1. ASSUME NEW j \in 1 .. Len(stack')
        PROVE  stack'[j] < top - 1
    <3>1. j \in 1 .. Len(stack) /\ j # Len(stack) /\ stack'[j] = stack[j] /\ stack[j] \in Nat
      BY <1>1, <2>1, SMTT(30)
    <3>2. stack[j] > 0 => stack[j] < top /\ host[stack[j] + 1].base = j
      BY <3>1 DEF Guarded, Framed, top
    <3>3. stack[j] # top - 1
      <4>1. stack[j] = top - 1 => stack[j] + 1 = top
        BY <1>1
      <4> QED
        BY <1>3, <3>1, <3>2, <4>1
    <3> QED
      BY <1>1, <1>3, <3>1, <3>2, <3>3
  <2> QED
    BY <2>1
<1>5. Level'
  BY DEF Level, Ends
<1>6. Landed'
  BY <1>4 DEF Landed, top
<1>7. Levelled'
  BY <1>1, <1>3 DEF Levelled, Exact, Ends, MayStray, top
<1> QED
  BY <1>2, <1>5, <1>6, <1>7, EndGuarded

\* The activation on top is gone, and none of the frames is its caller's.
LEMMA LeavingGuarded ==
  ASSUME Shapes, Guarded, top > 1, host' \in Seq(Shape), Len(host') = top - 1,
         \A n \in 1 .. top - 2 : host'[n] = host[n],
         host'[top - 1].base = host[top - 1].base, host'[top - 1].excess = host'[top - 1].owes,
         host'[top - 1].as \in {host[top - 1].as, "tail"},
         NEW s, Under(s), stack' = s, \A i \in 1 .. Len(s) : s[i] < top - 1,
         (Level /\ Landed /\ Levelled)'
  PROVE  Guarded'
<1>1. top \in Nat \ {0} /\ top - 1 \in Nat \ {0}
  BY Now
<1>2. \A n \in 1 .. top - 1 : host'[n].base = host[n].base
  BY <1>1
<1>3. (Framed(host, stack) /\ Rising(stack))'
  <2>1. Framed(host', s) /\ Rising(s)
    <3> DEFINE k == top - 1
    <3>1. /\ k \in Nat /\ k <= Len(host') /\ Len(host') \in Nat /\ k <= top
          /\ \A n \in 1 .. k : host'[n].base = host[n].base
          /\ \A i \in 1 .. Len(s) : s[i] < k
      BY <1>1, <1>2
    <3> HIDE DEF k
    <3>2. Framed(host, stack) /\ Rising(stack) /\ Shapes /\ Under(s)
      BY DEF Guarded
    <3> QED
      BY <3>1, <3>2, StillFramed
  <2> QED
    BY <2>1 DEF Framed, Rising
<1>4. Balanced(host')
  <2>1. ASSUME NEW n \in 1 .. Len(host') - 1, host'[n].as = "native"
        PROVE  host'[n + 1].base = host'[n].base + 1
    <3>1. n \in 1 .. top - 2 /\ n \in 1 .. top - 1 /\ n + 1 \in 1 .. top - 1
          /\ n \in 1 .. Len(host) - 1
      BY <1>1, <2>1 DEF top
    <3> QED
      BY <1>2, <2>1, <3>1 DEF Guarded, Balanced
  <2>2. \A n \in 1 .. Len(host') : host'[n].excess = host'[n].owes
    <3>1. ASSUME NEW n \in 1 .. top - 1 PROVE host'[n].excess = host'[n].owes
      <4>1. n \in 1 .. top - 2 \/ n = top - 1
        BY <1>1, <3>1
      <4>2. n \in 1 .. Len(host)
        BY <1>1, <3>1 DEF top
      <4> QED
        BY <4>1, <4>2 DEF Guarded, Balanced
    <3> QED
      BY <3>1
  <2>3. ASSUME NEW n \in 1 .. Len(host'), host'[n].as = "nested"
        PROVE  n > 1 /\ host'[n - 1].as = "native" /\ host'[n - 1].site \in Waiting
    <3>1. n \in 1 .. Len(host) /\ (n \in 1 .. top - 2 \/ n = top - 1)
      BY <1>1, <2>3 DEF top
    <3>2. host[n].as = "nested"
      BY <2>3, <3>1
    <3>3. n > 1 /\ host[n - 1].as = "native" /\ host[n - 1].site \in Waiting
      BY <3>1, <3>2 DEF Guarded, Balanced
    <3>4. n - 1 \in 1 .. top - 2
      BY <1>1, <3>1, <3>3
    <3> QED
      BY <3>3, <3>4
  <2> QED
    BY <2>1, <2>2, <2>3 DEF Balanced
<1> QED
  BY <1>3, <1>4 DEF Guarded, Balanced

\* When a result of 0 arrives, the caller's frame is gone and so are those above.
LEMMA ArrivedShape ==
  ASSUME Shapes, Guarded, Gone
  PROVE  /\ Under(Forget(top, stack)) /\ Len(Forget(top, stack)) = Len(stack)
         /\ top > 1 /\ top \in Nat
         /\ \/ at = top - 1 - (levels + missing)
            \/ levels = 0 /\ missing = 0 /\ at = 0 /\ MayStray(top - 1)
         /\ levels + missing \in 0 .. top - 2
         /\ \A i \in 1 .. Len(stack) : Forget(top, stack)[i] < top - 1
         /\ \A i \in 1 .. Len(stack) : Forget(top, stack)[i] = stack[i]
<1>1. /\ top \in Nat \ {0} /\ Len(stack) \in Nat /\ \A i \in 1 .. Len(stack) : stack[i] \in Nat
      /\ at \in Nat
  BY Now DEF Shapes
<1>2. /\ Forget(top, stack) \in Seq(Nat) /\ Len(Forget(top, stack)) = Len(stack)
      /\ \A i \in 1 .. Len(stack) : Forget(top, stack)[i] = IF stack[i] = top THEN 0 ELSE stack[i]
  BY ForgetShape DEF Shapes
<1>3. /\ \/ at = top - 1 - (levels + missing)
         \/ levels = 0 /\ missing = 0 /\ at = 0 /\ MayStray(top - 1)
      /\ levels + missing \in 0 .. top - 2
  BY DEF Guarded, Levelled, Exact, Gone, Shapes
<1>4. \A i \in 1 .. Len(stack) : stack[i] < top - 1
  <2>1. CASE at > 0
    <3>1. \A i \in 1 .. Len(stack) : stack[i] < at
      BY <2>1 DEF Guarded, Landed, Gone
    <3>2. at <= top - 1
      BY <1>1, <1>3, <2>1
    <3> QED
      BY <1>1, <3>1, <3>2
  <2>2. CASE at = 0
    BY <2>2 DEF Guarded, Landed, Gone
  <2> QED
    BY <1>1, <2>1, <2>2
<1>5. \A i \in 1 .. Len(stack) : Forget(top, stack)[i] = stack[i]
  BY <1>1, <1>2, <1>4
<1>6. Under(Forget(top, stack))
  BY <1>1, <1>2, <1>5 DEF Under
<1> QED
  BY <1>1, <1>2, <1>3, <1>4, <1>5, <1>6 DEF Gone

Inductive == Sound /\ Guarded

LEMMA ReturnGuarded ==
  ASSUME Inductive, ActorBridgeReturn
  PROVE  Guarded'
<1>1. /\ Front(stack) \in Seq(Nat) /\ Len(stack) \in Nat \ {0}
      /\ Len(Front(stack)) = Len(stack) - 1
      /\ \A i \in 1 .. Len(stack) - 1 : Front(stack)[i] = stack[i]
      /\ Last(stack) = stack[Len(stack)] /\ stack # <<>> /\ stack' = Front(stack)
  BY FrontShape DEF Inductive, Sound, Shapes, ActorBridgeReturn
<1>2. CASE Last(stack) > 0 /\ AtLanding(Last(stack), 0, 0) /\ UNCHANGED host
  <2>1. top \in Nat /\ stack[Len(stack)] \in Nat
    BY <1>1, Now DEF Inductive, Sound
  <2>2. /\ levels' + missing' = top - 1 - stack[Len(stack)]
        /\ flow' = "returns" /\ at' = stack[Len(stack)]
    BY <1>1, <1>2, <2>1 DEF AtLanding, Ends
  <2> QED
    BY <1>1, <1>2, <2>2, LandingGuarded DEF Inductive, Sound
<1>3. CASE Last(stack) = 0 /\ Len(stack) = host[top].base /\ MayStray(top - 1)
           /\ at' = 0 /\ Ends(0, 0) /\ UNCHANGED host
  BY <1>1, <1>3, ElsewhereGuarded DEF Inductive, Sound
<1>4. CASE host' = GoesOn(top, 0, 0) /\ UNCHANGED <<flow, levels, missing>>
  <2>1. Under(Front(stack)) /\ flow' = "on"
    BY <1>1, <1>4 DEF Under, ActorBridgeReturn, Running
  <2> QED
    BY <1>1, <1>4, <2>1, GoesOnGuarded DEF Inductive, Sound
<1> QED
  BY <1>2, <1>3, <1>4 DEF ActorBridgeReturn

LEMMA ReturnPastFrameGuarded ==
  ASSUME Inductive, ActorBridgeReturnPastFrame
  PROVE  Guarded'
<1> DEFINE s == SubSeq(stack, 1, Len(stack) - 2)
           landing == stack[Len(stack) - 1]
<1>1. /\ s \in Seq(Nat) /\ Len(stack) \in Nat /\ Len(stack) > 1 /\ Len(s) = Len(stack) - 2
      /\ \A i \in 1 .. Len(stack) - 2 : s[i] = stack[i]
      /\ stack' = s /\ landing \in Nat /\ top \in Nat
  BY TwoOff, Now DEF Inductive, Sound, Shapes, ActorBridgeReturnPastFrame
<1>2. /\ \/ landing > 1 /\ AtLanding(landing, 0, 0) /\ UNCHANGED host
         \/ at' = 0 /\ flow' = "yields" /\ UNCHANGED <<host, levels, missing>>
         \/ host' = GoesOn(top, 0, 0) /\ UNCHANGED <<flow, levels, missing>>
      /\ flow = "on"
  BY DEF ActorBridgeReturnPastFrame, Running
<1> DEFINE i == Len(stack) - 1
<1>3. i \in 1 .. Len(stack) /\ stack[i] = landing /\ Len(s) = i - 1
      /\ \A j \in 1 .. i - 1 : s[j] = stack[j]
  BY <1>1
<1>4. Under(s)
  BY <1>1 DEF Under
<1> HIDE DEF s, landing, i
<1>5. CASE landing > 1 /\ AtLanding(landing, 0, 0) /\ UNCHANGED host
  <2>1. levels' + missing' = top - 1 - landing /\ flow' = "returns" /\ at' = landing
    BY <1>1, <1>5 DEF AtLanding, Ends
  <2> QED
    BY <1>1, <1>3, <1>5, <2>1, LandingGuarded DEF Inductive, Sound
<1>6. CASE flow' = "yields" /\ UNCHANGED host
  <2>1. (Level /\ Landed /\ Levelled)'
    BY <1>6 DEF Level, Landed, Levelled
  <2> QED
    BY <1>1, <1>4, <1>6, <2>1, EndGuarded DEF Inductive, Sound
<1>7. CASE host' = GoesOn(top, 0, 0) /\ UNCHANGED <<flow, levels, missing>>
  BY <1>1, <1>2, <1>4, <1>7, GoesOnGuarded DEF Inductive, Sound
<1> QED
  BY <1>2, <1>5, <1>6, <1>7

LEMMA InterpretedReturnGuarded ==
  ASSUME Inductive, InterpretedReturn
  PROVE  Guarded'
<1>1. /\ Front(stack) \in Seq(Nat) /\ Len(stack) \in Nat \ {0}
      /\ Len(Front(stack)) = Len(stack) - 1
      /\ \A i \in 1 .. Len(stack) - 1 : Front(stack)[i] = stack[i]
      /\ Last(stack) = stack[Len(stack)] /\ stack # <<>> /\ stack' = Front(stack)
      /\ host' = host /\ flow = "on" /\ host[top].as # "native"
  BY FrontShape DEF Inductive, Sound, Shapes, InterpretedReturn, Running, Interpreters
<1>2. CASE Last(stack) > 0 /\ AtLanding(Last(stack), host[top].excess, host[top].owes)
  <2>1. top \in Nat \ {0} /\ stack[Len(stack)] \in Nat
    BY <1>1, Now DEF Inductive, Sound
  <2>2. host[top].excess = host[top].owes /\ host[top].owes \in {0, 1}
    BY <2>1, Now DEF Inductive, Guarded, Balanced, Sound, Shape, top
  <2>3. /\ levels' + missing' = top - 1 - stack[Len(stack)]
        /\ flow' = "returns" /\ at' = stack[Len(stack)]
    BY <1>1, <1>2, <2>1, <2>2 DEF AtLanding, Ends
  <2>4. Len(stack) \in 1 .. Len(stack) /\ stack[Len(stack)] > 0
    BY <1>1, <1>2
  <2>5. Shapes /\ Guarded
    BY DEF Inductive, Sound
  <2> QED
    BY <1>1, <2>3, <2>4, <2>5, LandingGuarded
<1>3. CASE Last(stack) = 0 /\ Len(stack) = host[top].base /\ MayStray(top - 1)
           /\ at' = 0 /\ Ends(0, 0)
  BY <1>1, <1>3, ElsewhereGuarded DEF Inductive, Sound
<1>4. CASE at' = 0 /\ UNCHANGED <<flow, levels, missing>>
  <2>1. Under(Front(stack))
    BY <1>1 DEF Under
  <2>2. (Level /\ Landed /\ Levelled)'
    BY <1>1, <1>4 DEF Level, Landed, Levelled, Exact, top
  <2> QED
    BY <1>1, <2>1, <2>2, EndGuarded DEF Inductive, Sound
<1> QED
  BY <1>2, <1>3, <1>4 DEF InterpretedReturn

LEMMA GuestRewritesGuarded ==
  ASSUME Inductive, GuestRewrites
  PROVE  Guarded'
<1>1. /\ stack # <<>> /\ flow = "on" /\ UNCHANGED <<host, at, flow, levels, missing>>
      /\ stack \in Seq(Nat) /\ stack' \in Seq(Nat) /\ Len(stack) \in Nat \ {0}
  BY ReturnShape, EmptySeq, LenProperties DEF Inductive, Sound, Shapes, GuestRewrites
<1>2. Under(stack') /\ Level'
  <2>1. CASE stack' = [stack EXCEPT ![Len(stack)] = 0]
    <3>1. Len(stack') = Len(stack) /\ \A i \in 1 .. Len(stack) : stack'[i] = stack[i] \/ stack'[i] = 0
      BY <1>1, <2>1, ExceptSeq
    <3>2. Under(stack')
      BY <1>1, <3>1 DEF Under
    <3>3. Level'
      BY <1>1, <3>1 DEF Inductive, Guarded, Level, top
    <3> QED
      BY <3>2, <3>3
  <2>2. CASE Running(Interpreters) /\ stack' = Front(stack)
    <3>1. Len(stack') = Len(stack) - 1 /\ \A i \in 1 .. Len(stack) - 1 : stack'[i] = stack[i]
      BY <1>1, <2>2, FrontShape
    <3> QED
      BY <1>1, <2>2, <3>1 DEF Under, Level, top, Running, Interpreters
  <2> QED
    BY <2>1, <2>2 DEF GuestRewrites
<1>3. (Landed /\ Levelled)'
  BY <1>1 DEF Landed, Levelled
<1> QED
  BY <1>1, <1>2, <1>3, EndGuarded DEF Inductive, Sound

LEMMA InterpretedCallGuarded ==
  ASSUME Inductive, InterpretedCall
  PROVE  Guarded'
<1>1. /\ flow = "on" /\ UNCHANGED <<host, at, flow, levels, missing>> /\ host[top].as # "native"
      /\ stack' = Append(stack, 0) /\ Under(stack)
  BY LenProperties DEF Inductive, Sound, Shapes, InterpretedCall, Running, Interpreters, Under
<1>2. (Level /\ Landed /\ Levelled)'
  BY <1>1 DEF Level, Landed, Levelled, Exact, top
<1> QED
  BY <1>1, <1>2, EndGuarded DEF Inductive, Sound

LEMMA MissingChildGuarded ==
  ASSUME Inductive, ActorBridgeMissingChild
  PROVE  Guarded'
<1>1. flow = "on" /\ host[top].as = "native"
  BY DEF ActorBridgeMissingChild, Running
<1>2. CASE \E site \in Sites \ HandedOver :
             Entered(site, Append(stack, top)) /\ host'[top + 1].as = "nested"
  <2>1. PICK site \in Sites \ HandedOver :
          Entered(site, Append(stack, top)) /\ host'[top + 1].as = "nested"
    BY <1>2
  <2>2. site \in Waiting
    BY DEF Sites, Protocols, HandedOver, Waiting
  <2> QED
    BY <1>1, <2>1, <2>2, CallGuarded DEF Inductive, Sound
<1>3. CASE /\ host' = GoesOn(top, 0, 0) /\ stack' = Append(Forget(top, stack), 0)
           /\ flow' = "on"
  <2>1. /\ Forget(top, stack) \in Seq(Nat) /\ Len(Forget(top, stack)) = Len(stack)
        /\ \A i \in 1 .. Len(stack) :
             Forget(top, stack)[i] = IF stack[i] = top THEN 0 ELSE stack[i]
        /\ Len(stack) \in Nat
    BY ForgetShape, Now DEF Inductive, Sound, Shapes
  <2>2. Under(Forget(top, stack))
    BY <2>1 DEF Under
  <2> QED
    BY <1>3, <2>2, GoesOnGuarded DEF Inductive, Sound
<1> QED
  BY <1>2, <1>3, MissingChildStep DEF Inductive

LEMMA UnwoundGuarded ==
  ASSUME Inductive, Unwound, ~misled'
  PROVE  Guarded'
<1>1. /\ Leaving(top - 1) /\ host'[top - 1] = host[top - 1] /\ stack' = Forget(top, stack)
      /\ Gone /\ levels # 0 /\ flow = "returns"
      /\ UNCHANGED <<at, flow>> /\ levels' = levels - 1 - Caller.excess
      /\ missing' = missing + Caller.owes /\ levels + missing # 0
  BY UnwoundStep DEF Inductive, Unwound, PassesOver, Gone
<1>2. /\ Under(Forget(top, stack)) /\ top > 1 /\ top \in Nat /\ Len(Forget(top, stack)) = Len(stack)
      /\ at = top - 1 - (levels + missing) /\ levels + missing \in 1 .. top - 2
      /\ \A i \in 1 .. Len(stack) : Forget(top, stack)[i] < top - 1
      /\ \A i \in 1 .. Len(stack) : Forget(top, stack)[i] = stack[i]
  BY <1>1, ArrivedShape DEF Inductive, Sound
<1>3. /\ host[top - 1].excess = host[top - 1].owes /\ Caller = host[top - 1]
      /\ host[top - 1].owes \in {0, 1}
  BY <1>2, Now DEF Inductive, Guarded, Balanced, Caller, Sound, Shape, top
<1>4. /\ host' \in Seq(Shape) /\ Len(host') = top - 1
      /\ \A n \in 1 .. top - 2 : host'[n] = host[n]
  BY <1>1, <1>2 DEF Leaving
<1>5. levels' + missing' = levels + missing - 1
  <2>1. levels \in Int /\ missing \in Nat
    BY DEF Inductive, Sound, Shapes
  <2>2. levels' = levels - 1 - host[top - 1].owes /\ missing' = missing + host[top - 1].owes
    BY <1>1, <1>3
  <2> QED
    BY <1>3, <2>1, <2>2
<1>6. Level'
  BY <1>1 DEF Level
<1>7. Landed'
  <2>1. /\ \A i \in 1 .. Len(stack) : stack[i] < at
        /\ host[at].as = "native" => Len(stack) = host[at].base
    <3>1. at > 0
      BY <1>2
    <3> QED
      BY <1>1, <3>1 DEF Inductive, Guarded, Landed
  <2>2. at \in 1 .. top - 2 /\ at > 0 /\ host'[at] = host[at]
    BY <1>2, <1>4
  <2>3. stack' = Forget(top, stack) /\ Len(stack') = Len(stack) /\ at' = at
        /\ \A i \in 1 .. Len(stack) : stack'[i] = stack[i]
    BY <1>1, <1>2
  <2>4. \A i \in 1 .. Len(stack') : stack'[i] < at'
    BY <2>1, <2>3
  <2>5. host'[at'].as = "native" => Len(stack') = host'[at'].base
    BY <2>1, <2>2, <2>3
  <2> QED
    BY <2>2, <2>3, <2>4, <2>5 DEF Landed
<1>8. Levelled'
  <2>1. levels + missing \in 1 .. top - 2 /\ at = top - 1 - (levels + missing) /\ at' = at
    BY <1>1, <1>2
  <2>2. levels \in Int /\ missing \in Nat /\ top \in Nat /\ Len(host') = top - 1
    BY <1>2, <1>4 DEF Inductive, Sound, Shapes
  <2>3. /\ levels' + missing' \in 0 .. Len(host') - 2
        /\ at' = Len(host') - 1 - (levels' + missing')
    BY <1>5, <2>1, <2>2
  <2> QED
    BY <2>3 DEF Levelled, Exact, top
<1> QED
  BY <1>1, <1>2, <1>3, <1>4, <1>6, <1>7, <1>8, LeavingGuarded DEF Inductive, Sound

\* A body that goes on is at its landing: where nothing is looked at, the
\* child cannot have come back anywhere else.
LEMMA ResumesAtLanding ==
  ASSUME Inductive, Resume, missing = 0
  PROVE  CameBack(top - 1)
<1>1. /\ Gone /\ levels = 0 /\ Caller.as = "native"
      /\ CameBack(top - 1) \/ Caller.site \notin Checked
  BY DEF Resume
<1>2. top > 1 /\ top \in Nat /\ (at = top - 1 \/ MayStray(top - 1))
  BY <1>1, ArrivedShape DEF Inductive, Sound
<1>3. CASE Caller.site \notin Checked
  <2>1. Caller.site \notin Told
    BY <1>3 DEF Told, Checked
  <2>2. at = top - 1
    BY <1>1, <1>2, <2>1 DEF MayStray, Caller, Interpreters
  <2>3. Len(stack) = host[top - 1].base
    BY <1>1, <1>2, <2>2 DEF Inductive, Guarded, Landed, Gone, Caller
  <2> QED
    BY <2>2, <2>3 DEF CameBack
<1> QED
  BY <1>1, <1>3

LEMMA ResumeGuarded ==
  ASSUME Inductive, Resume, ~misled'
  PROVE  Guarded'
<1>1. /\ Leaving(top - 1) /\ Gone /\ stack' = Forget(top, stack) /\ flow' = "on"
  BY ResumeStep DEF Inductive, Resume
<1>2. /\ Under(Forget(top, stack)) /\ top > 1 /\ top \in Nat /\ Len(Forget(top, stack)) = Len(stack)
      /\ \A i \in 1 .. Len(stack) : Forget(top, stack)[i] < top - 1
  BY <1>1, ArrivedShape DEF Inductive, Sound
<1>3. host[top - 1].excess = host[top - 1].owes
  BY <1>2 DEF Inductive, Guarded, Balanced, top
<1>4. /\ host' \in Seq(Shape) /\ Len(host') = top - 1
      /\ \A n \in 1 .. top - 2 : host'[n] = host[n]
      /\ host'[top - 1].as = host[top - 1].as /\ host'[top - 1].base = host[top - 1].base
      /\ host'[top - 1].excess = host[top - 1].excess /\ host'[top - 1].owes = host[top - 1].owes
  BY <1>1, <1>2 DEF Leaving
<1>5. Len(stack) = host[top - 1].base
  BY ResumesAtLanding DEF CameBack, Resume, ActsOn
<1>6. (Level /\ Landed /\ Levelled)'
  BY <1>1, <1>2, <1>4, <1>5 DEF Level, Landed, Levelled, Exact, top
<1> QED
  BY <1>1, <1>2, <1>3, <1>4, <1>6, LeavingGuarded DEF Inductive, Sound

\* The interpreter that goes on leaves out what its site is known to leave out.
LEMMA ChangedReturnGuarded ==
  ASSUME Inductive, ChangedReturn
  PROVE  Guarded'
<1>1. /\ host' \in Seq(Shape) /\ Len(host') = top - 1
      /\ \A n \in 1 .. top - 2 : host'[n] = host[n]
      /\ host'[top - 1].as = "tail" /\ host'[top - 1].base = host[top - 1].base
      /\ host'[top - 1].excess = host'[top - 1].owes
  BY ChangedReturnStep DEF Inductive
<1>2. Gone /\ flow' = "on" /\ stack' = Forget(top - 1, Forget(top, stack))
  BY DEF ChangedReturn
<1>3. /\ Under(Forget(top, stack)) /\ top > 1 /\ top \in Nat /\ Len(Forget(top, stack)) = Len(stack)
      /\ \A i \in 1 .. Len(stack) : Forget(top, stack)[i] < top - 1
  BY <1>2, ArrivedShape DEF Inductive, Sound
<1> DEFINE s == Forget(top, stack)  k == top - 1
<1>7. /\ Forget(k, s) \in Seq(Nat) /\ Len(Forget(k, s)) = Len(s)
      /\ \A i \in 1 .. Len(s) : Forget(k, s)[i] = IF s[i] = k THEN 0 ELSE s[i]
      /\ \A i \in 1 .. Len(s) : s[i] \in Nat
  BY <1>3, ForgetShape, ElementOfSeq DEF Under
<1>8. /\ Under(s) /\ stack' = Forget(k, s) /\ Len(s) = Len(stack) /\ Len(stack) \in Nat
      /\ \A i \in 1 .. Len(stack) : s[i] < k
  BY <1>2, <1>3, Now DEF Inductive, Sound
<1>9. Under(stack') /\ \A i \in 1 .. Len(stack') : stack'[i] < k
  <2> HIDE DEF s, k
  <2>1. \A i \in 1 .. Len(stack) : Forget(k, s)[i] = s[i]
    BY <1>7, <1>8 DEF k
  <2> QED
    BY <1>7, <1>8, <2>1 DEF Under
<1>10. (Level /\ Landed /\ Levelled)'
  BY <1>1, <1>2 DEF Level, Landed, Levelled, Exact, top
<1> QED
  BY <1>1, <1>3, <1>9, <1>10, LeavingGuarded DEF Inductive, Sound

LEMMA InterpreterResumesGuarded ==
  ASSUME Inductive, InterpreterResumes
  PROVE  Guarded'
<1>1. /\ Leaving(top - 1) /\ host'[top - 1].as \in Interpreters
      /\ Gone /\ stack' = Forget(top, stack) /\ flow' = "on"
  BY InterpreterResumesStep DEF Inductive, InterpreterResumes
<1>2. /\ Under(Forget(top, stack)) /\ top > 1 /\ top \in Nat /\ Len(Forget(top, stack)) = Len(stack)
      /\ \A i \in 1 .. Len(stack) : Forget(top, stack)[i] < top - 1
  BY <1>1, ArrivedShape DEF Inductive, Sound
<1>3. host[top - 1].excess = host[top - 1].owes
  BY <1>2 DEF Inductive, Guarded, Balanced, top
<1>4. /\ host' \in Seq(Shape) /\ Len(host') = top - 1
      /\ \A n \in 1 .. top - 2 : host'[n] = host[n]
      /\ host'[top - 1].as = host[top - 1].as /\ host'[top - 1].base = host[top - 1].base
      /\ host'[top - 1].excess = host[top - 1].excess /\ host'[top - 1].owes = host[top - 1].owes
  BY <1>1, <1>2 DEF Leaving
<1>5. (Level /\ Landed /\ Levelled)'
  BY <1>1, <1>4 DEF Level, Landed, Levelled, Interpreters, top
<1> QED
  BY <1>1, <1>2, <1>3, <1>4, <1>5, LeavingGuarded DEF Inductive, Sound

LEMMA UnwindGuarded ==
  ASSUME Sound, Unwind
  PROVE  Guarded'
<1>1. /\ host' = <<Interpreter("owner", 0)>> /\ Len(stack') = Len(stack)
      /\ \A i \in 1 .. Len(stack) : stack'[i] = 0
      /\ flow' = "on"
  BY UnwindStep DEF Unwind
<1>2. /\ Len(host') = 1 /\ host'[1].as = "owner" /\ host'[1].excess = host'[1].owes
  BY <1>1 DEF Interpreter, Activation
<1>3. (Framed(host, stack) /\ Rising(stack))'
  BY <1>1 DEF Framed, Rising
<1>4. Balanced(host')
  BY <1>2 DEF Balanced
<1>5. (Level /\ Landed /\ Levelled)'
  BY <1>1, <1>2 DEF Level, Landed, Levelled, Exact, top
<1> QED
  BY <1>3, <1>4, <1>5 DEF Guarded, Balanced

\* An interpreter for a call was started where one is waited for.
LEMMA TimeUpGuarded ==
  ASSUME Inductive, TimeUp, ~misled'
  PROVE  Guarded'
<1>1. host[top].as # "nested" \/ Caller.site \in Waiting
  <2>1. top \in Nat \ {0}
    BY Now DEF Inductive, Sound
  <2>2. host[top].as = "nested" => host[top - 1].site \in Waiting
    BY <2>1 DEF Inductive, Guarded, Balanced, top
  <2> QED
    BY <2>2 DEF Caller
<1>2. flow' = "yields" /\ UNCHANGED <<host, stack, at>>
  BY <1>1 DEF TimeUp, Running
<1>3. Under(stack)
  BY LenProperties DEF Under, Inductive, Sound, Shapes
<1>4. (Level /\ Landed /\ Levelled)'
  BY <1>2 DEF Level, Landed, Levelled
<1> QED
  BY <1>2, <1>3, <1>4, EndGuarded DEF Inductive, Sound

\* Nobody underway has been misled: until then all of it holds, and again once
\* everything has unwound.
Trusted == Sound /\ (~misled => Guarded)

LEMMA GuardedStep ==
  ASSUME Trusted, Next, ~misled'
  PROVE  Guarded'
<1> Inductive \/ Unwind
  <2>1. ASSUME ~Unwind PROVE ~misled
    BY <2>1 DEF Next, PairedCall, Jump, ActorBridgePushedChild, ActorBridgeMissingChild,
                ActorBridgeReturn, ActorBridgeReturnPastFrame, Boundary,
                ActorBridgeExecutionCheckpoint, Unwound, Resume, ChangedReturn,
                InterpreterResumes, InterpretedCall, InterpretedReturn, GuestRewrites, TimeUp,
                PassesOver, ActsOn
  <2> QED
    BY <2>1 DEF Trusted, Inductive
<1>0. CASE Unwind
  BY <1>0, UnwindGuarded DEF Trusted
<1> SUFFICES ASSUME Inductive PROVE Guarded'
  BY <1>0
<1>1. CASE PairedCall
  <2>1. Entered("leaf", Append(stack, top)) /\ host'[top + 1].as \in {"native", "tail"}
    BY <1>1, PairedCallStep DEF Inductive
  <2> QED
    BY <1>1, <2>1, CallGuarded DEF Inductive, Sound, PairedCall, Running
<1>2. CASE Jump
  <2>1. Entered("leaf", stack) /\ host'[top + 1].as \in {"native", "tail"}
    BY <1>2, JumpStep DEF Inductive
  <2> QED
    BY <1>2, <2>1, JumpGuarded DEF Inductive, Sound, Jump, Running, Interpreters
<1>3. CASE ActorBridgePushedChild
  <2>1. PICK site \in Sites :
          Entered(site, Append(stack, top)) /\ host'[top + 1].as \in {"native", "tail"}
    BY <1>3, PushedChildStep DEF Inductive
  <2> QED
    BY <1>3, <2>1, CallGuarded DEF Inductive, Sound, ActorBridgePushedChild, Running
<1>4. CASE ActorBridgeMissingChild
  BY <1>4, MissingChildGuarded
<1>5. CASE ActorBridgeReturn
  BY <1>5, ReturnGuarded
<1>6. CASE ActorBridgeReturnPastFrame
  BY <1>6, ReturnPastFrameGuarded
<1>7. CASE Boundary
  <2>1. Under(stack)
    BY LenProperties DEF Under, Inductive, Sound, Shapes
  <2> QED
    BY <1>7, <2>1, GoesOnGuarded DEF Inductive, Sound, Boundary, Running
<1>8. CASE ActorBridgeExecutionCheckpoint
  BY <1>8 DEF Inductive, Guarded, ActorBridgeExecutionCheckpoint, Level, Landed, Levelled, Exact, top,
              Framed, Rising, Balanced, MayStray
<1>9. CASE Unwound
  BY <1>9, UnwoundGuarded
<1>10. CASE Resume
  BY <1>10, ResumeGuarded
<1>11. CASE ChangedReturn
  BY <1>11, ChangedReturnGuarded
<1>12. CASE InterpreterResumes
  BY <1>12, InterpreterResumesGuarded
<1>14. CASE InterpretedCall
  BY <1>14, InterpretedCallGuarded
<1>15. CASE InterpretedReturn
  BY <1>15, InterpretedReturnGuarded
<1>16. CASE GuestRewrites
  BY <1>16, GuestRewritesGuarded
<1>17. CASE TimeUp
  BY <1>17, TimeUpGuarded
<1> QED
  BY <1>0, <1>1, <1>2, <1>3, <1>4, <1>5, <1>6, <1>7, <1>8, <1>9, <1>10, <1>11, <1>12, <1>14,
     <1>15, <1>16, <1>17 DEF Next

LEMMA TrustedStep ==
  ASSUME Trusted, [Next]_vars
  PROVE  Trusted'
<1>1. CASE Next
  BY <1>1, SoundStep, GuardedStep DEF Trusted
<1>2. CASE UNCHANGED vars
  BY <1>2 DEF vars, Trusted, Sound, Shapes, RegistersCurrent, Guarded, Framed, Rising, Balanced,
              Level, Landed, Levelled, Exact, MayStray, top
<1> QED
  BY <1>1, <1>2

LEMMA TrustedInit ==
  ASSUME Init
  PROVE  Trusted
<1>1. Len(host) = 1 /\ host[1].as = "owner" /\ host[1].excess = host[1].owes /\ Len(stack) = 0 /\ flow = "on"
  BY DEF Init, Interpreter, Activation
<1>2. Framed(host, stack) /\ Rising(stack) /\ Balanced(host)
  BY <1>1 DEF Framed, Rising, Balanced
<1>3. Level /\ Landed /\ Levelled
  BY <1>1 DEF Level, Landed, Levelled, Exact, top
<1> QED
  BY <1>2, <1>3, SoundInit DEF Trusted, Guarded

\* Through any number of calls, boundaries, skipped frames and unwindings, a
\* result names the activation the guest continues in.
THEOREM ResultsNameTheReceiver == Spec => []LevelsExact
<1>1. Init => Trusted
  BY TrustedInit
<1>2. Trusted /\ [Next]_vars => Trusted'
  BY TrustedStep
<1>3. Trusted => LevelsExact
  BY DEF Trusted, Guarded, Levelled, LevelsExact
<1> QED
  BY <1>1, <1>2, <1>3, PTL DEF Spec

ResumedAt ==
  \A n \in DOMAIN host :
    (host[n].as = "native" /\ host[n].waits
       /\ n = Len(host') /\ host'[n].as = "native" /\ ~host'[n].waits)
      => misled' \/ (at = n /\ Len(stack) = host[n].base)

LEMMA ResumedStep ==
  ASSUME Trusted, [Next]_vars
  PROVE  ResumedAt
<1> SUFFICES ASSUME NEW n \in DOMAIN host, host[n].as = "native", host[n].waits,
                    n = Len(host'), host'[n].as = "native", ~host'[n].waits, ~misled'
             PROVE  at = n /\ Len(stack) = host[n].base
  BY DEF ResumedAt
<1>1. n \in 1 .. top /\ top \in Nat \ {0} /\ host' # host
  BY Now, LenProperties DEF Trusted, Sound, Shapes, top
<1>2. Len(host') # top + 1
  BY <1>1
<1>3. ~(host' = GoesOn(top, 0, 0))
  BY <1>1, GoesOnShape DEF Trusted, Sound
<1>4. CASE Resume
  <2>1. n = top - 1
    BY <1>1, <1>4, ResumeStep DEF Trusted, Leaving
  <2>2. ~misled /\ missing = 0
    BY <1>4 DEF Resume, ActsOn
  <2> QED
    BY <1>4, <2>1, <2>2, ResumesAtLanding DEF CameBack, Trusted, Inductive
<1>5. ~Unwound /\ ~ChangedReturn /\ ~InterpreterResumes /\ ~Unwind
  <2>1. ~Unwound
    BY <1>1, UnwoundStep DEF Trusted, Leaving
  <2>2. ~ChangedReturn
    BY <1>1, ChangedReturnStep DEF Trusted
  <2>3. ~InterpreterResumes
    BY <1>1, InterpreterResumesStep DEF Trusted, Leaving, Interpreters
  <2>4. ~Unwind
    BY UnwindStep DEF Trusted, Interpreter, Activation
  <2> QED
    BY <2>1, <2>2, <2>3, <2>4
<1>6. ~PairedCall /\ ~Jump /\ ~ActorBridgePushedChild /\ ~ActorBridgeMissingChild
  BY <1>2, <1>3, PairedCallStep, JumpStep, PushedChildStep, MissingChildStep
     DEF Trusted, Entered
<1>7. ~ActorBridgeReturn /\ ~ActorBridgeReturnPastFrame /\ ~Boundary
      /\ ~ActorBridgeExecutionCheckpoint
  BY <1>1, <1>3 DEF ActorBridgeReturn, ActorBridgeReturnPastFrame, Boundary,
                    ActorBridgeExecutionCheckpoint
<1>8. ~InterpretedCall /\ ~InterpretedReturn /\ ~GuestRewrites /\ ~TimeUp /\ ~UNCHANGED vars
  BY <1>1 DEF InterpretedCall, InterpretedReturn, GuestRewrites, TimeUp, vars
<1> QED
  BY <1>4, <1>5, <1>6, <1>7, <1>8 DEF Next

\* A body goes on after a call only at the call's landing, with the stack as
\* it was before: also at the one kind of site that does not look.
THEOREM BodiesResumeAtLanding == Spec => ResumedWhereReturned
<1>1. Init => Trusted
  BY TrustedInit
<1>2. Trusted /\ [Next]_vars => Trusted'
  BY TrustedStep
<1>3. Trusted /\ [Next]_vars => [ResumedAt]_vars
  BY ResumedStep
<1> QED
  BY <1>1, <1>2, <1>3, PTL DEF Spec, ResumedWhereReturned, ResumedAt
=============================================================================
