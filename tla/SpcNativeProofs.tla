---------------------------- MODULE SpcNativeProofs ----------------------------
(***************************************************************************)
(* The driver reads back what it wrote, a deferred run is woken, and every *)
(* access keeps its time on a clock that wraps: SpcNative implements       *)
(* SpcTimeline, for any registers, longest run, clock and queue.           *)
(***************************************************************************)
EXTENDS SpcNative, WellFoundedInduction, TLAPS

-----------------------------------------------------------------------------
(* Numbers.                                                                *)

\* A set of naturals has a least element.
LEMMA Least ==
  ASSUME NEW S \in SUBSET Nat, S # {}
  PROVE  \E n \in S : \A k \in S : n <= k
<1>1. PICK n \in S : \A k \in S : ~(<<k, n>> \in OpToRel(<, Nat))
  BY NatLessThanWellFounded, WFMin
<1>2. \A k \in S : ~(k < n)
  BY <1>1 DEF OpToRel
<1> QED
  BY <1>2

\* Max is the greatest element of a bounded set of naturals.
LEMMA Greatest ==
  ASSUME NEW n \in Nat, NEW S \in SUBSET (0 .. n), S # {}
  PROVE  Max(S) \in S /\ \A k \in S : k <= Max(S)
<1> DEFINE T == {k \in 0 .. n : n - k \in S}
<1>1. T # {}
  <2>1. PICK x \in S : TRUE
    OBVIOUS
  <2>2. n - x \in 0 .. n /\ n - (n - x) = x
    OBVIOUS
  <2>3. n - (n - x) \in S
    BY <2>2
  <2>4. n - x \in T
    BY <2>2, <2>3
  <2> QED
    BY <2>4
<1>2. T \in SUBSET Nat
  OBVIOUS
<1>3. PICK m \in T : \A k \in T : m <= k
  <2> HIDE DEF T
  <2> QED
    BY <1>1, <1>2, Least
<1>4. \A k \in S : k <= n - m
  <2> SUFFICES ASSUME NEW k \in S PROVE k <= n - m
    OBVIOUS
  <2>1. n - k \in 0 .. n /\ n - (n - k) = k /\ k \in 0 .. n
    OBVIOUS
  <2>2. n - k \in T
    BY <2>1
  <2>3. m <= n - k
    BY <1>3, <2>2
  <2> QED
    BY <2>1, <2>3
<1>5. n - m \in S
  OBVIOUS
<1>6. \E x \in S : \A y \in S : x >= y
  <2>1. \A y \in S : n - m >= y
    BY <1>4
  <2> QED
    BY <1>5, <2>1
<1> QED
  BY <1>6 DEF Max

-----------------------------------------------------------------------------
(* What a list of accesses does to the registers.                          *)

\* The last write of a register, among the accesses at some places of a list.
Hits(due, s, t) == {i \in s : due[i].target = t}
LastOf(registers, due, s, t) ==
  IF Hits(due, s, t) = {} THEN registers[t] ELSE due[Max(Hits(due, s, t))].value
Lasts(registers, due, s) == [t \in Target |-> LastOf(registers, due, s, t)]

Writes == [target : Target, value : Value]
Step(r, a) == [r EXCEPT ![a.target] = a.value]

\* One more access, the last of all.
LEMMA LastsStep ==
  ASSUME NEW registers \in [Target -> Value],
         NEW n \in Nat, NEW due, \A i \in 1 .. n : due[i].target \in Target,
         NEW s \in SUBSET (1 .. n), s # {}
  PROVE  Lasts(registers, due, s)
           = Step(Lasts(registers, due, s \ {Max(s)}), due[Max(s)])
<1> DEFINE m == Max(s)  r == Lasts(registers, due, s \ {m})
<1>0. \A i \in s : i \in 0 .. n /\ i \in Nat
  <2> SUFFICES ASSUME NEW i \in s PROVE i \in 0 .. n /\ i \in Nat
    OBVIOUS
  <2>1. i \in 1 .. n
    OBVIOUS
  <2> QED
    BY <2>1
<1>1. m \in s /\ m \in Nat /\ \A k \in s : k <= m
  <2>1. s \in SUBSET (0 .. n)
    BY <1>0
  <2>2. m \in s /\ \A k \in s : k <= m
    BY <2>1, Greatest
  <2> QED
    BY <1>0, <2>2
<1> HIDE DEF m
<1>2. Step(r, due[m]) = [t \in Target |-> IF t = due[m].target THEN due[m].value ELSE r[t]]
  BY DEF Step, Lasts
<1>3. ASSUME NEW t \in Target
      PROVE  LastOf(registers, due, s, t) = IF t = due[m].target THEN due[m].value ELSE r[t]
  <2>1. CASE t = due[m].target
    <3>1. m \in Hits(due, s, t)
      BY <1>1, <2>1 DEF Hits
    <3>2. Hits(due, s, t) \in SUBSET (0 .. n)
      BY <1>0 DEF Hits
    <3>3. Max(Hits(due, s, t)) \in Hits(due, s, t) /\ m <= Max(Hits(due, s, t))
      BY <3>1, <3>2, Greatest
    <3>4. Max(Hits(due, s, t)) = m
      <4>1. Max(Hits(due, s, t)) \in s
        BY <3>3 DEF Hits
      <4>2. Max(Hits(due, s, t)) \in Nat /\ Max(Hits(due, s, t)) <= m
        BY <1>0, <1>1, <4>1
      <4> QED
        BY <1>1, <3>3, <4>2
    <3> QED
      BY <2>1, <3>1, <3>4 DEF LastOf
  <2>2. CASE t # due[m].target
    <3>1. Hits(due, s, t) = Hits(due, s \ {m}, t)
      BY <2>2 DEF Hits
    <3> QED
      BY <2>2, <3>1 DEF LastOf, Lasts
  <2> QED
    BY <2>1, <2>2
<1>4. Lasts(registers, due, s)
        = [t \in Target |-> IF t = due[m].target THEN due[m].value ELSE r[t]]
  BY <1>3 DEF Lasts
<1> QED
  BY <1>2, <1>4 DEF m

\* Folding the accesses into the registers leaves the last write of each.
LEMMA FoldLasts ==
  ASSUME NEW registers \in [Target -> Value], NEW n \in Nat,
         NEW due, DOMAIN due = 1 .. n, \A i \in 1 .. n : due[i].target \in Target
  PROVE  FoldLeft(LAMBDA r, a : [r EXCEPT ![a.target] = a.value], registers, due)
           = Lasts(registers, due, 1 .. n)
<1> DEFINE
      IsIter(f) ==
        f = [s \in SUBSET DOMAIN due |->
               IF s = {} THEN registers
               ELSE [f[s \ {Max(s)}] EXCEPT ![due[Max(s)].target] = due[Max(s)].value]]
      W == [s \in SUBSET DOMAIN due |-> Lasts(registers, due, s)]
<1>1. FoldLeft(LAMBDA r, a : [r EXCEPT ![a.target] = a.value], registers, due)
        = (CHOOSE f : IsIter(f))[DOMAIN due]
  BY DEF FoldLeft, MapThenFoldSet
<1>2. Lasts(registers, due, {}) = registers
  BY DEF Lasts, LastOf, Hits
<1>3. ASSUME NEW s \in SUBSET (1 .. n), s # {}
      PROVE  /\ s \ {Max(s)} \in SUBSET (1 .. n)
             /\ Lasts(registers, due, s)
                  = [Lasts(registers, due, s \ {Max(s)})
                       EXCEPT ![due[Max(s)].target] = due[Max(s)].value]
  <2>1. s \ {Max(s)} \in SUBSET (1 .. n)
    OBVIOUS
  <2>2. Lasts(registers, due, s)
          = Step(Lasts(registers, due, s \ {Max(s)}), due[Max(s)])
    BY <1>3, LastsStep
  <2> QED
    BY <2>1, <2>2, Zenon DEF Step
<1>4. IsIter(W)
  <2>1. ASSUME NEW s \in SUBSET (1 .. n)
        PROVE  Lasts(registers, due, s)
                 = IF s = {} THEN registers
                   ELSE [W[s \ {Max(s)}] EXCEPT ![due[Max(s)].target] = due[Max(s)].value]
    BY <1>2, <1>3
  <2> QED
    BY <2>1
<1>5. ASSUME NEW f, IsIter(f)
      PROVE  f[1 .. n] = Lasts(registers, due, 1 .. n)
  <2> DEFINE T == {k \in Nat : \E s \in SUBSET (1 .. n) :
                     (\A i \in s : i <= k) /\ f[s] # Lasts(registers, due, s)}
  <2>1. f[{}] = registers
    BY <1>5
  <2>2. ASSUME NEW s \in SUBSET (1 .. n), s # {}
        PROVE  f[s] = [f[s \ {Max(s)}] EXCEPT ![due[Max(s)].target] = due[Max(s)].value]
    BY <1>5, <2>2
  <2> HIDE DEF IsIter
  <2>3. T = {}
    <3> SUFFICES ASSUME T # {} PROVE FALSE
      OBVIOUS
    <3>1. PICK k \in T : \A j \in T : k <= j
      <4>1. T \in SUBSET Nat
        OBVIOUS
      <4> HIDE DEF T
      <4> QED
        BY <4>1, Least
    <3>2. PICK s \in SUBSET (1 .. n) :
            (\A i \in s : i <= k) /\ f[s] # Lasts(registers, due, s)
      OBVIOUS
    <3>3. s # {}
      BY <1>2, <2>1, <3>2
    <3> DEFINE m == Max(s)
    <3>4. m \in s /\ \A i \in s : i <= m
      BY <3>3, Greatest, \A i \in 1 .. n : i \in 0 .. n
    <3>5. m \in 1 .. n
      BY <3>4
    <3> HIDE DEF m
    <3>6. m - 1 \in Nat /\ \A i \in s \ {m} : i <= m - 1
      <4> SUFFICES ASSUME NEW i \in s \ {m} PROVE i <= m - 1
        BY <3>5
      <4>1. i \in 1 .. n /\ i # m /\ i <= m
        BY <3>4
      <4> QED
        BY <3>5, <4>1
    <3>7. f[s \ {m}] # Lasts(registers, due, s \ {m})
      BY <1>3, <2>2, <3>2, <3>3 DEF m
    <3>8. m - 1 \in T
      <4>1. s \ {m} \in SUBSET (1 .. n)
        OBVIOUS
      <4> QED
        BY <3>6, <3>7, <4>1
    <3>9. k <= m - 1 /\ m <= k /\ k \in Nat
      BY <3>1, <3>2, <3>4, <3>8
    <3> QED
      BY <3>5, <3>9
  <2>4. \A i \in 1 .. n : i <= n
    OBVIOUS
  <2> QED
    BY <2>3, <2>4
<1> HIDE DEF IsIter
<1>6. IsIter(CHOOSE f : IsIter(f))
  BY <1>4
<1> QED
  BY <1>1, <1>5, <1>6

\* S is a set of accesses, whatever else they carry.
IsWrites(S) == \A a \in S : a.target \in Target /\ a.value \in Value

LEMMA ApplyLasts ==
  ASSUME NEW S, IsWrites(S), NEW registers \in [Target -> Value], NEW due \in Seq(S)
  PROVE  Apply(registers, due) = Lasts(registers, due, DOMAIN due)
<1>1. DOMAIN due = 1 .. Len(due) /\ Len(due) \in Nat
      /\ \A i \in 1 .. Len(due) : due[i].target \in Target
  BY DEF IsWrites
<1> QED
  BY <1>1, FoldLasts DEF Apply

\* A register has a last write in a list, or none.
LEMMA LastHit ==
  ASSUME NEW S, IsWrites(S), NEW due \in Seq(S), NEW t
  PROVE  \/ \A i \in DOMAIN due : due[i].target # t
         \/ \E i \in DOMAIN due :
              due[i].target = t /\ \A j \in DOMAIN due : j > i => due[j].target # t
<1> DEFINE H == Hits(due, DOMAIN due, t)
<1>1. CASE H = {}
  BY <1>1 DEF Hits
<1>2. CASE H # {}
  <2>1. H \in SUBSET (0 .. Len(due))
    <3>1. DOMAIN due = 1 .. Len(due)
      OBVIOUS
    <3>2. \A i \in 1 .. Len(due) : i \in 0 .. Len(due)
      OBVIOUS
    <3> QED
      BY <3>1, <3>2 DEF Hits
  <2>2. Len(due) \in Nat
    OBVIOUS
  <2> HIDE DEF H
  <2>3. Max(H) \in H /\ \A k \in H : k <= Max(H)
    BY <1>2, <2>1, <2>2, Greatest
  <2>4. Max(H) \in DOMAIN due /\ due[Max(H)].target = t
    BY <2>3 DEF H, Hits
  <2>5. ASSUME NEW j \in DOMAIN due, j > Max(H) PROVE due[j].target # t
    <3>1. j \in Nat /\ Max(H) \in Nat
      BY <2>4
    <3>2. j \notin H
      BY <2>3, <2>5, <3>1
    <3> QED
      BY <3>2 DEF H, Hits
  <2> QED
    BY <2>4, <2>5
<1> QED
  BY <1>1, <1>2

\* A register keeps its last write, or what it was.
LEMMA ApplyHit ==
  ASSUME NEW S, IsWrites(S), NEW registers \in [Target -> Value], NEW due \in Seq(S),
         NEW i \in DOMAIN due, \A j \in DOMAIN due : j > i => due[j].target # due[i].target
  PROVE  Apply(registers, due)[due[i].target] = due[i].value
<1> DEFINE t == due[i].target  H == Hits(due, DOMAIN due, t)
<1>1. DOMAIN due = 1 .. Len(due) /\ Len(due) \in Nat /\ i \in Nat /\ t \in Target
  BY DEF IsWrites
<1>2. H \in SUBSET (0 .. Len(due)) /\ i \in H
  <2>1. \A k \in 1 .. Len(due) : k \in 0 .. Len(due)
    OBVIOUS
  <2> QED
    BY <1>1, <2>1 DEF Hits
<1> HIDE DEF H
<1>3. Max(H) \in H /\ i <= Max(H)
  BY <1>1, <1>2, Greatest
<1>4. Max(H) \in DOMAIN due /\ due[Max(H)].target = t
  BY <1>3 DEF H, Hits
<1>5. Max(H) = i
  <2>1. Max(H) \in Nat /\ ~(Max(H) > i)
    BY <1>1, <1>4
  <2> QED
    BY <1>1, <1>3, <2>1
<1>6. LastOf(registers, due, DOMAIN due, t) = due[i].value
  BY <1>2, <1>5 DEF LastOf, H
<1> QED
  BY <1>1, <1>6, ApplyLasts DEF Lasts

LEMMA ApplyMiss ==
  ASSUME NEW S, IsWrites(S), NEW registers \in [Target -> Value], NEW due \in Seq(S),
         NEW t \in Target, \A i \in DOMAIN due : due[i].target # t
  PROVE  Apply(registers, due)[t] = registers[t]
<1>1. Hits(due, DOMAIN due, t) = {}
  BY DEF Hits
<1> QED
  BY <1>1, ApplyLasts DEF Lasts, LastOf

LEMMA ApplyType ==
  ASSUME NEW S, IsWrites(S), NEW registers \in [Target -> Value], NEW due \in Seq(S)
  PROVE  Apply(registers, due) \in [Target -> Value]
<1>1. Apply(registers, due) = Lasts(registers, due, DOMAIN due)
  BY ApplyLasts
<1>2. ASSUME NEW t \in Target PROVE Apply(registers, due)[t] \in Value
  <2>1. CASE \A i \in DOMAIN due : due[i].target # t
    BY <2>1, ApplyMiss
  <2>2. ASSUME NEW i \in DOMAIN due, due[i].target = t,
               \A j \in DOMAIN due : j > i => due[j].target # t
        PROVE  Apply(registers, due)[t] \in Value
    <3>1. Apply(registers, due)[t] = due[i].value
      BY <2>2, ApplyHit
    <3> QED
      BY <3>1 DEF IsWrites
  <2> QED
    BY <2>1, <2>2, LastHit
<1>3. Apply(registers, due) = [t \in Target |-> Apply(registers, due)[t]]
  BY <1>1 DEF Lasts
<1> QED
  BY <1>2, <1>3

\* f has each register as a list leaves it: its last write, or what it was.
IsResult(f, registers, due) ==
  /\ \A t \in Target : (\A i \in DOMAIN due : due[i].target # t) => f[t] = registers[t]
  /\ \A i \in DOMAIN due :
       (\A j \in DOMAIN due : j > i => due[j].target # due[i].target)
         => f[due[i].target] = due[i].value

LEMMA ApplyIs ==
  ASSUME NEW S, IsWrites(S), NEW registers \in [Target -> Value], NEW due \in Seq(S),
         NEW f \in [Target -> Value], IsResult(f, registers, due)
  PROVE  Apply(registers, due) = f
<1> USE DEF IsResult
<1>1. Apply(registers, due) \in [Target -> Value]
  BY ApplyType
<1>2. ASSUME NEW t \in Target PROVE Apply(registers, due)[t] = f[t]
  <2>1. CASE \A i \in DOMAIN due : due[i].target # t
    BY <2>1, ApplyMiss
  <2>2. CASE \E i \in DOMAIN due :
               due[i].target = t /\ \A j \in DOMAIN due : j > i => due[j].target # t
    <3>1. PICK i \in DOMAIN due :
            due[i].target = t /\ \A j \in DOMAIN due : j > i => due[j].target # t
      BY <2>2
    <3>2. Apply(registers, due)[t] = due[i].value
      BY <3>1, ApplyHit
    <3>3. f[t] = due[i].value
      BY <3>1
    <3> QED
      BY <3>2, <3>3
  <2> QED
    BY <2>1, <2>2, LastHit
<1> QED
  BY <1>1, <1>2

LEMMA ApplyNone ==
  ASSUME NEW registers \in [Target -> Value]
  PROVE  Apply(registers, <<>>) = registers
<1> DEFINE S == {}
<1>1. IsWrites(S) /\ <<>> \in Seq(S) /\ DOMAIN <<>> = {}
  BY DEF IsWrites
<1> HIDE DEF S
<1> QED
  BY <1>1, ApplyIs DEF IsResult

LEMMA ApplyOne ==
  ASSUME NEW registers \in [Target -> Value], NEW a, a.target \in Target, a.value \in Value
  PROVE  /\ Apply(registers, <<a>>) = [registers EXCEPT ![a.target] = a.value]
         /\ Apply(registers, <<a>>) \in [Target -> Value]
<1> DEFINE S == {a}  due == <<a>>
           f == [registers EXCEPT ![a.target] = a.value]
<1>1. IsWrites(S)
  BY DEF IsWrites
<1>2. due \in Seq(S) /\ DOMAIN due = {1} /\ due[1] = a
  OBVIOUS
<1>3. f \in [Target -> Value] /\ f[a.target] = a.value
      /\ \A t \in Target : t # a.target => f[t] = registers[t]
  OBVIOUS
<1> HIDE DEF S, due, f
<1>4. Apply(registers, due) = f
  BY <1>1, <1>2, <1>3, ApplyIs DEF IsResult
<1> QED
  BY <1>3, <1>4 DEF due, f

\* What is queued behind is written last.
LEMMA ApplyAppend ==
  ASSUME NEW S, IsWrites(S), NEW registers \in [Target -> Value], NEW due \in Seq(S),
         NEW a \in S
  PROVE  Apply(registers, Append(due, a))
           = [Apply(registers, due) EXCEPT ![a.target] = a.value]
<1> DEFINE all == Append(due, a)  n == Len(due)
           f == [Apply(registers, due) EXCEPT ![a.target] = a.value]
<1>1. Apply(registers, due) \in [Target -> Value] /\ a.target \in Target /\ a.value \in Value
  BY ApplyType DEF IsWrites
<1>2. f \in [Target -> Value] /\ f[a.target] = a.value
      /\ \A t \in Target : t # a.target => f[t] = Apply(registers, due)[t]
  BY <1>1
<1>3. /\ all \in Seq(S) /\ n \in Nat /\ DOMAIN due = 1 .. n /\ DOMAIN all = 1 .. n + 1
      /\ all[n + 1] = a /\ \A i \in 1 .. n : all[i] = due[i]
  OBVIOUS
<1> HIDE DEF all, n, f
<1>3a. n + 1 \in 1 .. n + 1 /\ \A i \in 1 .. n : i \in 1 .. n + 1 /\ n + 1 > i
  BY <1>3
<1>4. \A t \in Target : (\A i \in DOMAIN all : all[i].target # t) => f[t] = registers[t]
  <2> SUFFICES ASSUME NEW t \in Target, \A i \in DOMAIN all : all[i].target # t
               PROVE  f[t] = registers[t]
    OBVIOUS
  <2>1. t # a.target /\ \A i \in DOMAIN due : due[i].target # t
    BY <1>3, <1>3a
  <2> QED
    BY <1>2, <2>1, ApplyMiss
<1>5. \A i \in DOMAIN all :
        (\A j \in DOMAIN all : j > i => all[j].target # all[i].target)
          => f[all[i].target] = all[i].value
  <2> SUFFICES ASSUME NEW i \in DOMAIN all,
                      \A j \in DOMAIN all : j > i => all[j].target # all[i].target
               PROVE  f[all[i].target] = all[i].value
    OBVIOUS
  <2>1. CASE i = n + 1
    BY <1>2, <1>3, <2>1
  <2>2. CASE i # n + 1
    <3>1. i \in DOMAIN due /\ all[i] = due[i]
      BY <1>3, <2>2
    <3>2. due[i].target # a.target
      BY <1>3, <1>3a, <3>1
    <3>3. \A j \in DOMAIN due : j > i => due[j].target # due[i].target
      BY <1>3, <1>3a, <3>1
    <3>4. due[i].target \in Target
      <4>1. due[i] \in S
        BY <3>1
      <4> QED
        BY <4>1 DEF IsWrites
    <3> QED
      BY <1>2, <3>1, <3>2, <3>3, <3>4, ApplyHit
  <2> QED
    BY <2>1, <2>2
<1>6. IsResult(f, registers, all)
  BY <1>4, <1>5 DEF IsResult
<1>7. Apply(registers, all) = f
  BY <1>2, <1>3, <1>6, ApplyIs
<1> QED
  BY <1>7 DEF all, f

\* The first accesses now and the rest later is all of them.
LEMMA ApplySplit ==
  ASSUME NEW S, IsWrites(S), NEW registers \in [Target -> Value], NEW due \in Seq(S),
         NEW k \in 0 .. Len(due)
  PROVE  /\ Apply(registers, SubSeq(due, 1, k)) \in [Target -> Value]
         /\ Apply(Apply(registers, SubSeq(due, 1, k)), SubSeq(due, k + 1, Len(due)))
              = Apply(registers, due)
<1> DEFINE n == Len(due)  early == SubSeq(due, 1, k)  late == SubSeq(due, k + 1, n)
           f == Apply(registers, due)  r == Apply(registers, early)
<1>1. n \in Nat /\ DOMAIN due = 1 .. n /\ k \in Nat /\ k <= n
  OBVIOUS
<1>2. early \in Seq(S) /\ DOMAIN early = 1 .. k /\ \A i \in 1 .. k : early[i] = due[i]
  OBVIOUS
<1>3. late \in Seq(S) /\ DOMAIN late = 1 .. n - k
      /\ \A i \in 1 .. n - k : late[i] = due[i + k]
  OBVIOUS
<1> HIDE DEF n, early, late
<1>4. r \in [Target -> Value] /\ f \in [Target -> Value]
  BY <1>2, ApplyType
<1>4a. \A i \in 1 .. n : i \in 1 .. k \/ (i - k \in 1 .. n - k /\ due[i] = late[i - k])
  <2> SUFFICES ASSUME NEW i \in 1 .. n, i \notin 1 .. k
               PROVE  i - k \in 1 .. n - k /\ due[i] = late[i - k]
    OBVIOUS
  <2>1. i - k \in 1 .. n - k /\ (i - k) + k = i
    BY <1>1
  <2> QED
    BY <1>3, <2>1
<1>5. \A t \in Target : (\A i \in DOMAIN late : late[i].target # t) => f[t] = r[t]
  <2> SUFFICES ASSUME NEW t \in Target, \A i \in DOMAIN late : late[i].target # t
               PROVE  f[t] = r[t]
    OBVIOUS
  <2>0. \A i \in 1 .. n : i \notin 1 .. k => due[i].target # t
    BY <1>3, <1>4a
  <2>1. CASE \A i \in DOMAIN early : early[i].target # t
    <3>1. \A i \in DOMAIN due : due[i].target # t
      BY <1>1, <1>2, <2>0, <2>1
    <3> QED
      BY <1>2, <2>1, <3>1, ApplyMiss
  <2>2. CASE \E i \in DOMAIN early :
               early[i].target = t /\ \A j \in DOMAIN early : j > i => early[j].target # t
    <3>0. PICK i \in DOMAIN early :
            early[i].target = t /\ \A j \in DOMAIN early : j > i => early[j].target # t
      BY <2>2
    <3>1. r[t] = early[i].value
      <4>1. \A j \in DOMAIN early : j > i => early[j].target # early[i].target
        BY <3>0
      <4>2. r[early[i].target] = early[i].value
        BY <1>2, <4>1, ApplyHit
      <4> QED
        BY <3>0, <4>2
    <3>2. i \in DOMAIN due /\ due[i] = early[i]
      BY <1>1, <1>2
    <3>3. \A j \in DOMAIN due : j > i => due[j].target # t
      BY <1>1, <1>2, <2>0, <3>0
    <3>4. f[t] = due[i].value
      BY <3>0, <3>2, <3>3, ApplyHit
    <3> QED
      BY <3>1, <3>2, <3>4
  <2> QED
    BY <1>2, <2>1, <2>2, LastHit
<1>6. \A i \in DOMAIN late :
        (\A j \in DOMAIN late : j > i => late[j].target # late[i].target)
          => f[late[i].target] = late[i].value
  <2> SUFFICES ASSUME NEW i \in DOMAIN late,
                      \A j \in DOMAIN late : j > i => late[j].target # late[i].target
               PROVE  f[late[i].target] = late[i].value
    OBVIOUS
  <2>1. i + k \in DOMAIN due /\ due[i + k] = late[i]
    BY <1>1, <1>3
  <2>2. ASSUME NEW j \in DOMAIN due, j > i + k PROVE due[j].target # late[i].target
    <3>1. j - k \in 1 .. n - k /\ j - k > i /\ (j - k) + k = j
      BY <1>1, <1>3, <2>2
    <3> QED
      BY <1>3, <3>1
  <2> QED
    BY <2>1, <2>2, ApplyHit
<1>7. Apply(r, late) = f
  <2> HIDE DEF r, f
  <2>1. IsResult(f, r, late)
    BY <1>5, <1>6 DEF IsResult
  <2> QED
    BY <1>3, <1>4, <2>1, ApplyIs
<1> QED
  BY <1>4, <1>7 DEF early, late, n

\* Lists that write the same do the same, whenever they are due.
LEMMA ApplySame ==
  ASSUME NEW S, IsWrites(S), NEW registers \in [Target -> Value], NEW due \in Seq(S),
         NEW T, IsWrites(T), NEW other \in Seq(T), Len(other) = Len(due),
         \A i \in DOMAIN due :
           other[i].target = due[i].target /\ other[i].value = due[i].value
  PROVE  Apply(registers, other) = Apply(registers, due)
<1>1. DOMAIN other = DOMAIN due
  OBVIOUS
<1> DEFINE f == Apply(registers, due)
<1>2. f \in [Target -> Value]
  BY ApplyType
<1>3. \A t \in Target : (\A i \in DOMAIN other : other[i].target # t) => f[t] = registers[t]
  <2> SUFFICES ASSUME NEW t \in Target, \A i \in DOMAIN other : other[i].target # t
               PROVE  f[t] = registers[t]
    OBVIOUS
  <2>1. \A i \in DOMAIN due : due[i].target # t
    BY <1>1
  <2> QED
    BY <2>1, ApplyMiss
<1>4. \A i \in DOMAIN other :
        (\A j \in DOMAIN other : j > i => other[j].target # other[i].target)
          => f[other[i].target] = other[i].value
  <2> SUFFICES ASSUME NEW i \in DOMAIN other,
                      \A j \in DOMAIN other : j > i => other[j].target # other[i].target
               PROVE  f[other[i].target] = other[i].value
    OBVIOUS
  <2>1. i \in DOMAIN due
    BY <1>1
  <2>2. \A j \in DOMAIN due : j > i => due[j].target # due[i].target
    BY <1>1
  <2>3. Apply(registers, due)[due[i].target] = due[i].value
    BY ONLY IsWrites(S), registers \in [Target -> Value], due \in Seq(S), <2>1, <2>2, ApplyHit
  <2> QED
    BY <2>1, <2>3
<1> HIDE DEF f
<1>4a. IsResult(f, registers, other)
  BY <1>3, <1>4 DEF IsResult
<1>5. Apply(registers, other) = f
  BY <1>2, <1>4a, ApplyIs
<1> QED
  BY <1>5 DEF f

-----------------------------------------------------------------------------
(* The clock.                                                              *)

LEMMA Constants ==
  /\ Modulus \in Nat \ {0} /\ MaxBusy \in Nat
  /\ Modulus \div 2 \in Nat /\ MaxBusy < Modulus \div 2
  /\ Modulus = 2 * (Modulus \div 2)
  /\ Limit \in Nat \ {0} /\ RunLength \in Nat \ {0}
<1>1. /\ Modulus \in Nat \ {0} /\ Modulus % 2 = 0 /\ MaxBusy \in Nat
      /\ MaxBusy < Modulus \div 2
  BY ClockAssumption
<1>2. Modulus \div 2 \in Nat /\ Modulus = 2 * (Modulus \div 2)
  BY <1>1
<1>3. Limit \in Nat \ {0} /\ RunLength \in Nat \ {0}
  BY QueueAssumption
<1> QED
  BY <1>1, <1>2, <1>3

LEMMA Wraps ==
  ASSUME NEW x \in -Modulus .. 2 * Modulus - 1
  PROVE  x % Modulus = IF x < 0 THEN x + Modulus
                       ELSE IF x < Modulus THEN x ELSE x - Modulus
BY Constants

LEMMA Away ==
  ASSUME NEW c \in Clock, NEW d \in Clock
  PROVE  /\ (d - c) % Modulus = IF d < c THEN d - c + Modulus ELSE d - c
         /\ (d - c) % Modulus \in 0 .. Modulus - 1
<1>1. Modulus \in Nat \ {0} /\ c \in 0 .. Modulus - 1 /\ d \in 0 .. Modulus - 1
  BY Constants DEF Clock
<1> DEFINE x == d - c
<1>2. x \in -Modulus .. 2 * Modulus - 1 /\ x < Modulus
  BY <1>1
<1>3. x % Modulus = IF x < 0 THEN x + Modulus
                    ELSE IF x < Modulus THEN x ELSE x - Modulus
  <2> HIDE DEF x
  <2> QED
    BY <1>2, Wraps
<1>4. x < 0 <=> d < c
  BY <1>1
<1>5. x % Modulus = IF d < c THEN x + Modulus ELSE x
  BY <1>2, <1>3, <1>4
<1>6. (IF d < c THEN x + Modulus ELSE x) \in 0 .. Modulus - 1
  BY <1>1
<1> QED
  BY <1>5, <1>6

\* A time that is b cycles away is b cycles away, whatever the clock has wrapped.
LEMMA WaitNew ==
  ASSUME NEW c \in Clock, NEW b \in 0 .. MaxBusy
  PROVE  (c + b) % Modulus \in Clock /\ (((c + b) % Modulus) - c) % Modulus = b
<1>1. c + b \in -Modulus .. 2 * Modulus - 1
  BY Constants DEF Clock
<1> DEFINE d == (c + b) % Modulus
<1>2. d = IF c + b < Modulus THEN c + b ELSE c + b - Modulus
  BY <1>1, Wraps, Constants DEF Clock
<1>3. d \in Clock
  BY <1>2, Constants DEF Clock
<1> HIDE DEF d
<1>4. d - c \in -Modulus .. 2 * Modulus - 1
  BY <1>3, Constants DEF Clock
<1>5. (d - c) % Modulus = IF d - c < 0 THEN d - c + Modulus
                          ELSE IF d - c < Modulus THEN d - c ELSE d - c - Modulus
  BY <1>4, Wraps
<1>6. (d - c) % Modulus = b
  BY <1>2, <1>3, <1>5, Constants DEF Clock
<1> QED
  BY <1>3, <1>6 DEF d

\* When n cycles have passed a time is n cycles nearer.
LEMMA WaitPassed ==
  ASSUME NEW c \in Clock, NEW d \in Clock, NEW n \in 0 .. (d - c) % Modulus
  PROVE  /\ (c + n) % Modulus \in Clock
         /\ (d - ((c + n) % Modulus)) % Modulus = ((d - c) % Modulus) - n
<1> DEFINE w == (d - c) % Modulus  e == (c + n) % Modulus
<1>1. w = IF d < c THEN d - c + Modulus ELSE d - c
  BY Away
<1>2. w \in 0 .. Modulus - 1 /\ n \in 0 .. w
  BY <1>1, Constants DEF Clock
<1>3. e = IF c + n < Modulus THEN c + n ELSE c + n - Modulus
  <2>1. c + n \in -Modulus .. 2 * Modulus - 1
    BY <1>2, Constants DEF Clock
  <2> QED
    BY <1>2, <2>1, Wraps, Constants DEF Clock
<1> HIDE DEF w, e
<1>4. e \in Clock
  BY <1>2, <1>3, Constants DEF Clock
<1>5. (d - e) % Modulus = IF d < e THEN d - e + Modulus ELSE d - e
  BY <1>4, Away
<1>6. (d - e) % Modulus = w - n
  BY <1>1, <1>2, <1>3, <1>4, <1>5, Constants DEF Clock
<1> QED
  BY <1>4, <1>6 DEF w, e

\* A time not yet past is reached exactly when its wait is over: no wait is half
\* a turn of the clock.
LEMMA ReachedExactly ==
  ASSUME NEW now \in Clock, NEW a \in Queued, (a.due - now) % Modulus <= MaxBusy
  PROVE  Reached(now, a) <=> (a.due - now) % Modulus = 0
<1> DEFINE d == a.due  half == Modulus \div 2
<1>1. d \in Clock /\ half \in Nat /\ MaxBusy < half /\ Modulus = 2 * half
  BY Constants DEF Queued
<1>2. Reached(now, a) <=> (now - d) % Modulus < half
  BY DEF Reached
<1> HIDE DEF d, half
<1>3. (d - now) % Modulus = IF d < now THEN d - now + Modulus ELSE d - now
  BY <1>1, Away
<1>4. (now - d) % Modulus = IF now < d THEN now - d + Modulus ELSE now - d
  BY <1>1, Away
<1>5. (d - now) % Modulus <= MaxBusy
  BY DEF d
<1>6. (now - d) % Modulus < half <=> (d - now) % Modulus = 0
  BY <1>1, <1>3, <1>4, <1>5, Constants DEF Clock
<1> QED
  BY <1>2, <1>6 DEF d

-----------------------------------------------------------------------------
(* The inductive invariant.                                                *)

\* The cycles until an access of a queue is due.
Wait(q, c, i) == (q[i].due - c) % Modulus

\* A queue is in the order of its times, none of them past and none further away
\* than the longest run.
InOrder(q, c) ==
  /\ \A i \in DOMAIN q : Wait(q, c, i) \in 1 .. MaxBusy
  /\ \A i, j \in DOMAIN q : i <= j => Wait(q, c, i) <= Wait(q, c, j)

\* What a run has queued is not due before its own time.
Ordered ==
  Faithful =>
    /\ InOrder(queue, cycles)
    /\ running => \A i \in DOMAIN queue : Wait(queue, cycles, i) <= runDelay

\* A run begins with an empty queue and belongs to a driver that is in use;
\* without one nothing is queued and nothing asked for, and what a state without
\* the driver's chunk leaves behind is that of a driver.
Modes ==
  /\ running => Used
  /\ running /\ runDelay = 0 => queue = <<>>
  /\ ~active => queue = <<>> /\ ~runDeferred
  /\ runDeferred => queue # <<>>
  /\ strayed => Used

\* The registers as the queue will leave them are what was written last.
Pending ==
  ~strayed => written = IF loadedWithoutState THEN hardware ELSE Apply(hardware, queue)

\* The same of a saved state, which keeps the waits in place of the times.
SavedTypeOK ==
  /\ saved.hardware \in [Target -> Value] /\ saved.written \in [Target -> Value]
  /\ saved.place \in Place /\ saved.active \in BOOLEAN /\ saved.runDeferred \in BOOLEAN
  /\ saved.strayed \in BOOLEAN
  /\ saved.queue \in Seq(Queued) /\ Len(saved.queue) <= Limit
SavedOrdered ==
  ~saved.strayed =>
    /\ \A i \in DOMAIN saved.queue : saved.queue[i].due \in 1 .. MaxBusy
    /\ \A i, j \in DOMAIN saved.queue :
         i <= j => saved.queue[i].due <= saved.queue[j].due
SavedModes ==
  /\ ~saved.active => saved.queue = <<>> /\ ~saved.runDeferred
  /\ saved.runDeferred => saved.queue # <<>>
  /\ saved.strayed => saved.active
SavedPending == ~saved.strayed => saved.written = Apply(saved.hardware, saved.queue)

SavedOK == SavedTypeOK /\ SavedOrdered /\ SavedModes /\ SavedPending

Inductive == TypeOK /\ Ordered /\ Modes /\ Pending /\ SavedOK

LEMMA QueuedWrites == IsWrites(Queued)
BY DEF IsWrites, Queued

LEMMA DueChanged ==
  ASSUME NEW a \in Queued, NEW d \in Clock
  PROVE  /\ [a EXCEPT !.due = d] \in Queued
         /\ [a EXCEPT !.due = d].target = a.target
         /\ [a EXCEPT !.due = d].value = a.value
         /\ [a EXCEPT !.due = d].due = d
BY DEF Queued

\* A list whose times alone are changed.
Redated(p, q, due) ==
  /\ p = [i \in DOMAIN q |-> [q[i] EXCEPT !.due = due[i]]]
  /\ \A i \in DOMAIN q : due[i] \in Clock

LEMMA DuesChanged ==
  ASSUME NEW q \in Seq(Queued), NEW due, NEW p, Redated(p, q, due)
  PROVE  /\ p \in Seq(Queued) /\ Len(p) = Len(q) /\ DOMAIN p = DOMAIN q
         /\ p = <<>> <=> q = <<>>
         /\ \A i \in DOMAIN q :
              p[i].target = q[i].target /\ p[i].value = q[i].value /\ p[i].due = due[i]
         /\ \A r \in [Target -> Value] : Apply(r, p) = Apply(r, q)
<1> USE DEF Redated
<1>1. Len(q) \in Nat /\ DOMAIN q = 1 .. Len(q) /\ \A i \in DOMAIN q : q[i] \in Queued
  OBVIOUS
<1>2. \A i \in DOMAIN q :
        /\ p[i] \in Queued /\ p[i].target = q[i].target
        /\ p[i].value = q[i].value /\ p[i].due = due[i]
  BY <1>1, DueChanged
<1>3. DOMAIN p = 1 .. Len(q) /\ p \in [1 .. Len(q) -> Queued]
  BY <1>1, <1>2
<1>4. p \in Seq(Queued) /\ Len(p) = Len(q)
  BY <1>1, <1>3
<1>5. \A r \in [Target -> Value] : Apply(r, p) = Apply(r, q)
  <2> SUFFICES ASSUME NEW r \in [Target -> Value] PROVE Apply(r, p) = Apply(r, q)
    OBVIOUS
  <2> QED
    BY ONLY r \in [Target -> Value], q \in Seq(Queued), <1>2, <1>4, QueuedWrites, ApplySame
<1> QED
  BY <1>1, <1>2, <1>3, <1>4, <1>5

LEMMA InOrderAppend ==
  ASSUME NEW q \in Seq(Queued), NEW c \in Clock, InOrder(q, c), NEW a \in Queued,
         NEW w \in 1 .. MaxBusy, (a.due - c) % Modulus = w,
         \A i \in DOMAIN q : Wait(q, c, i) <= w
  PROVE  /\ InOrder(Append(q, a), c)
         /\ \A i \in DOMAIN Append(q, a) : Wait(Append(q, a), c, i) <= w
<1> DEFINE p == Append(q, a)  n == Len(q)
<1>1. /\ n \in Nat /\ DOMAIN q = 1 .. n /\ DOMAIN p = 1 .. n + 1
      /\ p[n + 1] = a /\ \A i \in 1 .. n : p[i] = q[i]
  OBVIOUS
<1> HIDE DEF p, n
<1>2. Wait(p, c, n + 1) = w /\ \A i \in 1 .. n : Wait(p, c, i) = Wait(q, c, i)
  BY <1>1 DEF Wait
<1>3. \A i \in 1 .. n + 1 : i = n + 1 \/ i \in 1 .. n
  BY <1>1
<1>4. MaxBusy \in Nat
  BY Constants
<1>5. /\ \A i \in 1 .. n : Wait(q, c, i) \in 1 .. MaxBusy /\ Wait(q, c, i) <= w
      /\ \A i, j \in 1 .. n : i <= j => Wait(q, c, i) <= Wait(q, c, j)
  BY <1>1 DEF InOrder
<1>6. ASSUME NEW i \in 1 .. n + 1 PROVE Wait(p, c, i) \in 1 .. MaxBusy /\ Wait(p, c, i) <= w
  BY <1>2, <1>3, <1>4, <1>5
<1>7. ASSUME NEW i \in 1 .. n + 1, NEW j \in 1 .. n + 1, i <= j
      PROVE  Wait(p, c, i) <= Wait(p, c, j)
  <2>1. CASE j = n + 1
    BY <1>2, <1>6, <2>1
  <2>2. CASE j \in 1 .. n
    <3>1. i \in 1 .. n
      BY <1>1, <1>7, <2>2
    <3> QED
      BY <1>2, <1>5, <1>7, <2>2, <3>1
  <2> QED
    BY <1>3, <2>1, <2>2
<1> QED
  BY <1>1, <1>6, <1>7 DEF InOrder, p

\* Time goes on and the first accesses of a queue are gone.
LEMMA InOrderRest ==
  ASSUME NEW q \in Seq(Queued), NEW c \in Clock, InOrder(q, c), NEW p \in Seq(Queued),
         NEW k \in Nat, Len(q) = Len(p) + k, \A i \in DOMAIN p : p[i] = q[i + k],
         NEW d \in Clock, NEW n \in Nat,
         \A i \in DOMAIN p : Wait(p, d, i) = Wait(q, c, i + k) - n /\ Wait(q, c, i + k) > n
  PROVE  InOrder(p, d)
<1>1. /\ Len(p) \in Nat /\ DOMAIN p = 1 .. Len(p) /\ DOMAIN q = 1 .. Len(p) + k
      /\ MaxBusy \in Nat
  BY Constants
<1>2. \A i \in 1 .. Len(p) : i + k \in 1 .. Len(p) + k
  BY <1>1
<1>3. /\ \A i \in 1 .. Len(p) : Wait(q, c, i + k) \in 1 .. MaxBusy
      /\ \A i, j \in 1 .. Len(p) + k : i <= j => Wait(q, c, i) <= Wait(q, c, j)
  BY <1>1, <1>2 DEF InOrder
<1>4. ASSUME NEW i \in 1 .. Len(p) PROVE Wait(p, d, i) \in 1 .. MaxBusy
  <2>1. Wait(p, d, i) = Wait(q, c, i + k) - n /\ Wait(q, c, i + k) > n
        /\ Wait(q, c, i + k) \in 1 .. MaxBusy
    BY <1>1, <1>3
  <2> QED
    BY <1>1, <2>1
<1>5. ASSUME NEW i \in 1 .. Len(p), NEW j \in 1 .. Len(p), i <= j
      PROVE  Wait(p, d, i) <= Wait(p, d, j)
  <2>1. Wait(q, c, i + k) <= Wait(q, c, j + k)
    <3>1. i + k <= j + k
      BY <1>1, <1>5
    <3> QED
      BY <1>2, <1>3, <3>1
  <2>2. /\ Wait(p, d, i) = Wait(q, c, i + k) - n /\ Wait(p, d, j) = Wait(q, c, j + k) - n
        /\ Wait(q, c, i + k) \in 1 .. MaxBusy /\ Wait(q, c, j + k) \in 1 .. MaxBusy
    BY <1>1, <1>3
  <2> QED
    BY <1>1, <2>1, <2>2
<1> QED
  BY <1>1, <1>4, <1>5 DEF InOrder

-----------------------------------------------------------------------------
(* The steps.                                                              *)

LEMMA InitInductive == Init => Inductive
<1> SUFFICES ASSUME Init PROVE Inductive
  OBVIOUS
<1>1. hardware \in [Target -> Value] /\ written = hardware
  BY ValueAssumption DEF Init
<1>2. /\ queue = <<>> /\ DOMAIN queue = {} /\ queue \in Seq(Queued) /\ Len(queue) = 0
      /\ runDelay = 0 /\ runDeferred = FALSE /\ active = FALSE
      /\ loadedWithoutState = FALSE /\ resumeIdle = FALSE /\ running = FALSE
      /\ accesses = 0 /\ place = "loader" /\ saved = Image /\ strayed = FALSE
  BY DEF Init
<1>3. cycles \in Clock
  BY Constants DEF Init, Clock
<1>4. Apply(hardware, <<>>) = hardware
  BY <1>1, ApplyNone
<1>5. TypeOK
  <2>1. {runDeferred, active, loadedWithoutState, resumeIdle, running} \subseteq BOOLEAN
    BY <1>2
  <2>2. strayed \in BOOLEAN
    BY <1>2
  <2> QED
    BY <1>1, <1>2, <1>3, <2>1, <2>2, Constants DEF TypeOK, Place
<1>6. Ordered /\ Modes /\ Pending
  BY <1>1, <1>2, <1>4 DEF Ordered, Modes, Pending, Faithful, Used
<1>7. /\ saved.hardware = hardware /\ saved.place = place /\ saved.active = active
      /\ saved.runDeferred = runDeferred /\ saved.written = written
      /\ saved.strayed = FALSE
      /\ saved.queue = [i \in DOMAIN queue |->
                          [queue[i] EXCEPT !.due = (@ - cycles) % Modulus]]
  BY <1>2 DEF Image
<1>8. saved.queue = <<>>
  BY <1>2, <1>7
<1>9. SavedOK
  <2>1. SavedTypeOK
    <3>1. saved.queue \in Seq(Queued) /\ Len(saved.queue) <= Limit
      BY <1>2, <1>8, Constants
    <3>2. saved.active \in BOOLEAN /\ saved.runDeferred \in BOOLEAN /\ saved.strayed \in BOOLEAN
      BY <1>2, <1>7
    <3>3. saved.place \in Place
      BY <1>2, <1>7 DEF Place
    <3> QED
      BY <1>1, <1>7, <3>1, <3>2, <3>3 DEF SavedTypeOK
  <2>2. SavedOrdered /\ SavedModes
    BY <1>2, <1>7, <1>8 DEF SavedOrdered, SavedModes
  <2>3. SavedPending
    BY <1>1, <1>4, <1>7, <1>8 DEF SavedPending
  <2> QED
    BY <2>1, <2>2, <2>3 DEF SavedOK
<1> QED
  BY <1>5, <1>6, <1>9 DEF Inductive

LEMMA SavedStays == SavedOK /\ UNCHANGED saved => SavedOK'
BY DEF SavedOK, SavedTypeOK, SavedOrdered, SavedModes, SavedPending

LEMMA RunStep == Inductive /\ Run => Inductive'
<1> SUFFICES ASSUME Inductive, Run PROVE Inductive'
  OBVIOUS
<1>1. /\ Used /\ ~running
      /\ UNCHANGED <<cycles, place, hardware, queue, active, loadedWithoutState,
                     resumeIdle, saved, written,
                     strayed>>
  BY DEF Run, core, mode, history
<1>2. \/ /\ queue # <<>> /\ runDeferred' = TRUE
         /\ UNCHANGED <<running, accesses, runDelay>>
      \/ /\ queue = <<>> /\ running' = TRUE /\ accesses' = 0 /\ runDelay' = 0
         /\ UNCHANGED runDeferred
  BY DEF Run, StartRun
<1>3. TypeOK'
  <2>1. runDeferred' \in BOOLEAN /\ running' \in BOOLEAN
    BY <1>2, Zenon DEF Inductive, TypeOK
  <2>2. runDelay' \in 0 .. MaxBusy /\ accesses' \in 0 .. RunLength
    BY <1>2, Constants DEF Inductive, TypeOK
  <2>3. {runDeferred, active, loadedWithoutState, resumeIdle, running}' \subseteq BOOLEAN
    BY <1>1, <2>1, Zenon DEF Inductive, TypeOK
  <2> QED
    BY <1>1, <2>2, <2>3 DEF Inductive, TypeOK
<1>4. Ordered'
  BY <1>1, <1>2 DEF Inductive, Ordered, Faithful, Used, InOrder, Wait
<1>5. Modes'
  BY <1>1, <1>2 DEF Inductive, Modes, Used
<1>6. Pending'
  BY <1>1 DEF Inductive, Pending
<1> QED
  BY <1>1, <1>3, <1>4, <1>5, <1>6, SavedStays DEF Inductive

LEMMA DelayStep == Inductive /\ Delay => Inductive'
<1> SUFFICES ASSUME Inductive, Delay PROVE Inductive'
  OBVIOUS
<1>1. /\ running /\ runDelay' \in runDelay + 1 .. MaxBusy
      /\ UNCHANGED <<cycles, place, hardware, queue, runDeferred, active,
                     loadedWithoutState, resumeIdle, running, accesses, saved, written,
                     strayed>>
  BY DEF Delay, core, mode, history
<1>2. runDelay' \in 0 .. MaxBusy /\ runDelay' > runDelay /\ runDelay' > 0
  BY <1>1, Constants DEF Inductive, TypeOK
<1>3. TypeOK'
  BY <1>1, <1>2 DEF Inductive, TypeOK
<1>4. Ordered'
  <2> SUFFICES ASSUME Faithful PROVE Ordered'
    BY <1>1 DEF Ordered, Faithful, Used
  <2>1. InOrder(queue, cycles)
        /\ \A i \in DOMAIN queue : Wait(queue, cycles, i) \in 1 .. MaxBusy
                                   /\ Wait(queue, cycles, i) <= runDelay
    BY <1>1 DEF Inductive, Ordered, InOrder
  <2>2. runDelay \in Nat /\ MaxBusy \in Nat
    BY Constants DEF Inductive, TypeOK
  <2>3. \A i \in DOMAIN queue : Wait(queue, cycles, i) <= runDelay'
    BY <1>2, <2>1, <2>2
  <2> QED
    BY <1>1, <2>1, <2>3 DEF Ordered, InOrder, Wait
<1>5. Modes'
  BY <1>1, <1>2 DEF Inductive, Modes, Used
<1>6. Pending'
  BY <1>1 DEF Inductive, Pending
<1> QED
  BY <1>1, <1>3, <1>4, <1>5, <1>6, SavedStays DEF Inductive

LEMMA EndStep == Inductive /\ End => Inductive'
<1> SUFFICES ASSUME Inductive, End PROVE Inductive'
  OBVIOUS
<1>1. /\ running /\ running' = FALSE /\ accesses' = 0 /\ runDelay' = 0
      /\ UNCHANGED <<cycles, place, hardware, queue, runDeferred, active,
                     loadedWithoutState, resumeIdle, saved, written,
                     strayed>>
  BY DEF End, core, mode, history
<1>2. TypeOK'
  <2>1. {runDeferred, active, loadedWithoutState, resumeIdle, running}' \subseteq BOOLEAN
    BY <1>1, Zenon DEF Inductive, TypeOK
  <2> QED
    BY <1>1, <2>1, Constants DEF Inductive, TypeOK
<1>3. Ordered' /\ Modes'
  BY <1>1 DEF Inductive, Ordered, Faithful, InOrder, Wait, Modes, Used
<1>4. Pending'
  BY <1>1 DEF Inductive, Pending
<1> QED
  BY <1>1, <1>2, <1>3, <1>4, SavedStays DEF Inductive

\* What an access leaves in any run.
LEMMA AccessTypes ==
  ASSUME Inductive, running, NEW a \in Queued, Access(a)
  PROVE  /\ hardware' \in [Target -> Value]
         /\ queue' \in Seq(Queued) /\ Len(queue') <= Limit
         /\ runDelay = 0 => queue' = <<>>
         /\ queue # <<>> => queue' # <<>>
<1>1. /\ hardware \in [Target -> Value] /\ queue \in Seq(Queued) /\ Len(queue) <= Limit
      /\ Len(queue) \in Nat /\ Limit \in Nat \ {0}
      /\ a.target \in Target /\ a.value \in Value
      /\ runDelay = 0 => queue = <<>>
  BY Constants DEF Inductive, TypeOK, Queued, Modes
<1>2. CASE runDelay = 0
  <2>1. hardware' = Apply(hardware, <<a>>) /\ queue' = queue
    BY <1>1, <1>2 DEF Access
  <2> QED
    BY <1>1, <1>2, <2>1, ApplyOne
<1>3. CASE runDelay # 0 /\ Len(queue) = Limit
  <2>1. queue # <<>> /\ Len(queue) > 0 /\ Head(queue) \in Queued
    BY <1>1, <1>3
  <2>2. hardware' = Apply(hardware, <<Head(queue)>>) /\ queue' = Append(Tail(queue), a)
    BY <1>3 DEF Access
  <2>3. Head(queue).target \in Target /\ Head(queue).value \in Value
    BY <2>1 DEF Queued
  <2>4. hardware' \in [Target -> Value]
    BY <1>1, <2>2, <2>3, ApplyOne
  <2> QED
    BY <1>1, <1>3, <2>1, <2>2, <2>4
<1>4. CASE runDelay # 0 /\ Len(queue) # Limit
  <2>1. queue' = Append(queue, a) /\ hardware' = hardware
    BY <1>4 DEF Access
  <2> QED
    BY <1>1, <1>4, <2>1
<1> QED
  BY <1>2, <1>3, <1>4

\* What an access does to the registers and to the queue, in a run.
LEMMA AccessStep ==
  ASSUME Inductive, running, ~strayed,
         NEW a \in Queued, a.due = (cycles + runDelay) % Modulus, Access(a)
  PROVE  /\ hardware' \in [Target -> Value]
         /\ queue' \in Seq(Queued) /\ Len(queue') <= Limit
         /\ Apply(hardware', queue') = [Apply(hardware, queue) EXCEPT ![a.target] = a.value]
         /\ InOrder(queue', cycles)
         /\ \A i \in DOMAIN queue' : Wait(queue', cycles, i) <= runDelay
         /\ runDelay = 0 => queue' = <<>>
         /\ queue # <<>> => queue' # <<>>
<1>1. /\ hardware \in [Target -> Value] /\ queue \in Seq(Queued) /\ Len(queue) <= Limit
      /\ cycles \in Clock /\ runDelay \in 0 .. MaxBusy
      /\ a.target \in Target /\ a.value \in Value /\ a.due \in Clock
      /\ Len(queue) \in Nat /\ Limit \in Nat \ {0} /\ MaxBusy \in Nat
  BY Constants DEF Inductive, TypeOK, Queued
<1>2. /\ Used /\ InOrder(queue, cycles)
      /\ \A i \in DOMAIN queue : Wait(queue, cycles, i) <= runDelay
      /\ runDelay = 0 => queue = <<>>
  BY DEF Inductive, Modes, Ordered, Faithful
<1>3. (a.due - cycles) % Modulus = runDelay
  BY <1>1, WaitNew
<1>4. CASE runDelay = 0 /\ queue = <<>>
  <2>1. hardware' = Apply(hardware, <<a>>) /\ queue' = <<>>
    BY <1>4 DEF Access
  <2>2. /\ hardware' \in [Target -> Value]
        /\ hardware' = [hardware EXCEPT ![a.target] = a.value]
    BY <1>1, <2>1, ApplyOne
  <2>3. Apply(hardware, queue) = hardware /\ Apply(hardware', queue') = hardware'
    BY <1>1, <1>4, <2>1, <2>2, ApplyNone
  <2>4. DOMAIN queue' = {} /\ queue' \in Seq(Queued) /\ Len(queue') = 0
    BY <2>1
  <2> QED
    BY <1>1, <1>4, <2>1, <2>2, <2>3, <2>4 DEF InOrder
<1>5. CASE runDelay # 0 /\ Len(queue) = Limit
  <2> DEFINE rest == Tail(queue)
  <2>1. queue # <<>> /\ Len(queue) > 0
    BY <1>1, <1>5
  <2>2. hardware' = Apply(hardware, <<Head(queue)>>) /\ queue' = Append(rest, a)
    BY <1>5, <2>1 DEF Access
  <2>3. /\ rest \in Seq(Queued) /\ Len(queue) = Len(rest) + 1
        /\ \A i \in DOMAIN rest : rest[i] = queue[i + 1]
        /\ Len(rest) \in Nat /\ DOMAIN rest = 1 .. Len(rest) /\ DOMAIN queue = 1 .. Len(rest) + 1
    BY <1>1, <2>1
  <2>4. <<Head(queue)>> = SubSeq(queue, 1, 1) /\ rest = SubSeq(queue, 2, Len(queue))
    BY <1>1, <2>1
  <2>5. /\ hardware' \in [Target -> Value]
        /\ Apply(hardware', rest) = Apply(hardware, queue)
    <3>1. 1 \in 0 .. Len(queue) /\ 1 + 1 = 2
      BY <1>1, <2>1
    <3>2. /\ Apply(hardware, SubSeq(queue, 1, 1)) \in [Target -> Value]
          /\ Apply(Apply(hardware, SubSeq(queue, 1, 1)), SubSeq(queue, 1 + 1, Len(queue)))
               = Apply(hardware, queue)
      BY <1>1, <3>1, QueuedWrites, ApplySplit
    <3> QED
      BY <2>2, <2>4, <3>1, <3>2
  <2> HIDE DEF rest
  <2>6. Apply(hardware', queue') = [Apply(hardware, queue) EXCEPT ![a.target] = a.value]
    BY <2>2, <2>3, <2>5, QueuedWrites, ApplyAppend
  <2>7. \A i \in DOMAIN rest :
          i + 1 \in DOMAIN queue /\ Wait(rest, cycles, i) = Wait(queue, cycles, i + 1)
    BY <2>3 DEF Wait
  <2>8. \A i \in DOMAIN rest :
          /\ Wait(queue, cycles, i + 1) \in 1 .. MaxBusy
          /\ Wait(rest, cycles, i) <= runDelay
    BY <1>2, <2>7 DEF InOrder
  <2>9. InOrder(rest, cycles)
    <3>1. \A i \in DOMAIN rest :
            /\ Wait(rest, cycles, i) = Wait(queue, cycles, i + 1) - 0
            /\ Wait(queue, cycles, i + 1) > 0
      BY <1>1, <2>7, <2>8
    <3>2. 1 \in Nat /\ 0 \in Nat
      OBVIOUS
    <3> QED
      BY <1>1, <1>2, <2>3, <3>1, <3>2, InOrderRest
  <2>10. runDelay \in 1 .. MaxBusy
    BY <1>1, <1>5
  <2>11. /\ InOrder(queue', cycles)
         /\ \A i \in DOMAIN queue' : Wait(queue', cycles, i) <= runDelay
    BY <1>1, <1>3, <2>2, <2>3, <2>8, <2>9, <2>10, InOrderAppend
  <2>12. queue' \in Seq(Queued) /\ Len(queue') <= Limit /\ queue' # <<>>
    BY <1>1, <1>5, <2>2, <2>3
  <2> QED
    BY <1>5, <2>5, <2>6, <2>11, <2>12
<1>6. CASE runDelay # 0 /\ Len(queue) # Limit
  <2>1. queue' = Append(queue, a) /\ hardware' = hardware
    BY <1>6 DEF Access
  <2>2. Apply(hardware', queue') = [Apply(hardware, queue) EXCEPT ![a.target] = a.value]
    BY <1>1, <2>1, QueuedWrites, ApplyAppend
  <2>3. runDelay \in 1 .. MaxBusy
    BY <1>1, <1>6
  <2>4. /\ InOrder(queue', cycles)
        /\ \A i \in DOMAIN queue' : Wait(queue', cycles, i) <= runDelay
    BY <1>1, <1>2, <1>3, <2>1, <2>3, InOrderAppend
  <2>5. queue' \in Seq(Queued) /\ Len(queue') <= Limit /\ queue' # <<>>
    BY <1>1, <1>6, <2>1
  <2> QED
    BY <1>1, <1>6, <2>1, <2>2, <2>4, <2>5
<1> QED
  BY <1>2, <1>4, <1>5, <1>6

LEMMA WriteStep == Inductive /\ Write => Inductive'
<1> SUFFICES ASSUME Inductive, Write PROVE Inductive'
  OBVIOUS
<1>1. /\ running /\ accesses < RunLength /\ accesses' = accesses + 1
      /\ UNCHANGED <<cycles, place, runDelay, runDeferred, active, loadedWithoutState,
                     resumeIdle, running, saved, strayed>>
  BY DEF Write, mode
<1>2. PICK t \in Target, v \in Value :
        /\ Access([target |-> t, value |-> v, due |-> (cycles + runDelay) % Modulus])
        /\ written' = [written EXCEPT ![t] = v]
  BY DEF Write
<1> DEFINE a == [target |-> t, value |-> v, due |-> (cycles + runDelay) % Modulus]
<1>3. cycles \in Clock /\ runDelay \in 0 .. MaxBusy /\ accesses \in 0 .. RunLength
      /\ written \in [Target -> Value]
  BY DEF Inductive, TypeOK
<1>4. a \in Queued /\ a.due = (cycles + runDelay) % Modulus /\ a.target = t /\ a.value = v
  BY <1>3, WaitNew DEF Queued
<1> HIDE DEF a
<1>5. Used /\ active /\ ~loadedWithoutState
  BY <1>1 DEF Inductive, Modes, Used
<1>6. Access(a)
  BY <1>2 DEF a
<1>6a. /\ hardware' \in [Target -> Value]
       /\ queue' \in Seq(Queued) /\ Len(queue') <= Limit
       /\ runDelay = 0 => queue' = <<>>
       /\ queue # <<>> => queue' # <<>>
  BY <1>1, <1>4, <1>6, AccessTypes
<1>6b. ASSUME ~strayed
       PROVE  /\ Apply(hardware', queue') = [Apply(hardware, queue) EXCEPT ![t] = v]
              /\ InOrder(queue', cycles)
              /\ \A i \in DOMAIN queue' : Wait(queue', cycles, i) <= runDelay
  BY <1>1, <1>4, <1>6, <1>6b, AccessStep
<1>7. TypeOK'
  <2>1. accesses' \in 0 .. RunLength
    BY <1>1, <1>3, Constants
  <2>2. written' \in [Target -> Value]
    BY <1>2, <1>3
  <2> QED
    BY <1>1, <1>6a, <2>1, <2>2 DEF Inductive, TypeOK
<1>8. Ordered'
  <2> SUFFICES ASSUME ~strayed PROVE Ordered'
    BY <1>1 DEF Ordered, Faithful
  <2> QED
    BY <1>1, <1>6b DEF Ordered, InOrder, Wait
<1>9. Modes'
  BY <1>1, <1>5, <1>6a DEF Inductive, Modes, Used
<1>10. Pending'
  <2> SUFFICES ASSUME ~strayed PROVE Pending'
    BY <1>1 DEF Pending
  <2>1. written = Apply(hardware, queue)
    BY <1>5 DEF Inductive, Pending
  <2>2. written' = Apply(hardware', queue')
    BY <1>2, <1>6b, <2>1
  <2> QED
    BY <1>1, <1>5, <2>2 DEF Pending
<1> QED
  BY <1>1, <1>7, <1>8, <1>9, <1>10, SavedStays DEF Inductive

LEMMA Suffix ==
  ASSUME NEW S, NEW q \in Seq(S), NEW k \in 0 .. Len(q),
         NEW p, p = SubSeq(q, k + 1, Len(q))
  PROVE  /\ p \in Seq(S) /\ Len(p) = Len(q) - k /\ Len(p) \in Nat
         /\ DOMAIN p = 1 .. Len(p)
         /\ \A i \in DOMAIN p : p[i] = q[i + k]
OBVIOUS

\* The cycles that the core may count are as many as Idle says, and at least one.
LEMMA IdleSpan ==
  ASSUME queue \in Seq(Queued), cycles \in Clock
  PROVE  /\ Max({1, Idle}) \in Nat
         /\ \A n \in 1 .. Max({1, Idle}) : n \in Nat /\ n >= 1
         /\ Idle \in Int /\ Idle >= 1 => Max({1, Idle}) = Idle
<1>1. Modulus \in Nat /\ Modulus \div 2 \in Nat /\ Modulus >= 2
  BY Constants
<1>2. Idle \in 0 .. Modulus - 1
  <2>1. CASE queue = <<>>
    BY <1>1, <2>1 DEF Idle
  <2>2. CASE queue # <<>>
    <3>1. queue[1] \in Queued
      BY <2>2
    <3>2. queue[1].due \in Clock
      BY <3>1 DEF Queued
    <3>3. (queue[1].due - cycles) % Modulus \in 0 .. Modulus - 1
      BY <3>2, Away
    <3> QED
      BY <1>1, <2>2, <3>3 DEF Idle
  <2> QED
    BY <2>1, <2>2
<1> DEFINE S == {1, Idle}  m == Modulus - 1
<1>3. m \in Nat /\ S \in SUBSET (0 .. m) /\ S # {}
  BY <1>1, <1>2
<1>4. S = {1, Idle}
  OBVIOUS
<1> HIDE DEF S, m
<1>5. Max(S) \in S /\ \A k \in S : k <= Max(S)
  BY <1>3, Greatest
<1>6. Max(S) \in Nat /\ (Idle >= 1 => Max(S) = Idle)
  BY <1>2, <1>4, <1>5
<1> QED
  BY <1>4, <1>6

\* What Cycle applies, whatever the queue holds.
LEMMA CycleTypes ==
  ASSUME Inductive, Cycle
  PROVE  /\ cycles' \in Clock /\ hardware' \in [Target -> Value]
         /\ queue' \in Seq(Queued) /\ Len(queue') <= Limit
<1>1. /\ queue \in Seq(Queued) /\ Len(queue) \in Nat /\ Len(queue) <= Limit
      /\ cycles \in Clock /\ Modulus \in Nat \ {0} /\ hardware \in [Target -> Value]
      /\ Limit \in Nat
  BY Constants DEF Inductive, TypeOK
<1>2. PICK n \in 1 .. Max({1, Idle}) :
       LET now == (cycles + n) % Modulus
           applied == Max({k \in 0 .. Len(queue) : \A i \in 1 .. k : Reached(now, queue[i])})
       IN /\ cycles' = now
          /\ hardware' = Apply(hardware, SubSeq(queue, 1, applied))
          /\ queue' = SubSeq(queue, applied + 1, Len(queue))
  BY DEF Cycle
<1> DEFINE now == (cycles + n) % Modulus
           K == {k \in 0 .. Len(queue) : \A i \in 1 .. k : Reached(now, queue[i])}
           applied == Max(K)
<1>3. /\ cycles' = now
      /\ hardware' = Apply(hardware, SubSeq(queue, 1, applied))
      /\ queue' = SubSeq(queue, applied + 1, Len(queue))
  BY <1>2
<1>4. now \in Clock
  <2>1. n \in Nat
    BY <1>1, IdleSpan
  <2>2. cycles + n \in Int
    BY <1>1, <2>1 DEF Clock
  <2> QED
    BY <1>1, <2>2 DEF Clock
<1>5. K \in SUBSET (0 .. Len(queue)) /\ 0 \in K
  BY <1>1
<1> HIDE DEF K, now
<1>6. applied \in 0 .. Len(queue)
  BY <1>1, <1>5, Greatest
<1> HIDE DEF applied
<1>7. /\ SubSeq(queue, applied + 1, Len(queue)) \in Seq(Queued)
      /\ Len(SubSeq(queue, applied + 1, Len(queue))) <= Limit
  <2> DEFINE rest == SubSeq(queue, applied + 1, Len(queue))
  <2>1. rest = SubSeq(queue, applied + 1, Len(queue))
    OBVIOUS
  <2> HIDE DEF rest
  <2>2. rest \in Seq(Queued) /\ Len(rest) = Len(queue) - applied
    BY ONLY <1>1, <1>6, <2>1, Suffix
  <2> QED
    BY <1>1, <1>6, <2>2 DEF rest
<1>8. Apply(hardware, SubSeq(queue, 1, applied)) \in [Target -> Value]
  BY <1>1, <1>6, QueuedWrites, ApplySplit
<1> QED
  BY <1>3, <1>4, <1>7, <1>8

\* What the accesses that Cycle applies are: those whose wait is over, and the
\* clock passes none of the others.
LEMMA CycleEffect ==
  ASSUME Inductive, Faithful, NEW n \in 1 .. Max({1, Idle}),
         NEW now, now = (cycles + n) % Modulus,
         NEW applied,
         applied = Max({k \in 0 .. Len(queue) : \A i \in 1 .. k : Reached(now, queue[i])})
  PROVE  /\ n \in Nat /\ now \in Clock /\ applied \in 0 .. Len(queue)
         /\ queue # <<>> => n <= Wait(queue, cycles, 1)
         /\ \A i \in DOMAIN queue :
              /\ Wait(queue, cycles, i) \in 1 .. MaxBusy
              /\ Wait(queue, now, i) = Wait(queue, cycles, i) - n
              /\ Wait(queue, cycles, i) >= n
              /\ i <= applied <=> Wait(queue, cycles, i) <= n
<1>1. /\ queue \in Seq(Queued) /\ Len(queue) \in Nat /\ DOMAIN queue = 1 .. Len(queue)
      /\ cycles \in Clock /\ MaxBusy \in Nat /\ Modulus \in Nat \ {0}
      /\ InOrder(queue, cycles)
  BY Constants DEF Inductive, TypeOK, Ordered
<1>2. \A i \in DOMAIN queue : queue[i] \in Queued /\ queue[i].due \in Clock
  <2>1. \A i \in DOMAIN queue : queue[i] \in Queued
    BY <1>1
  <2> QED
    BY <2>1 DEF Queued
<1>3. /\ \A i \in DOMAIN queue : Wait(queue, cycles, i) \in 1 .. MaxBusy
      /\ \A i, j \in DOMAIN queue :
           i <= j => Wait(queue, cycles, i) <= Wait(queue, cycles, j)
  BY <1>1 DEF InOrder
<1>4. queue # <<>> => 1 \in DOMAIN queue /\ Idle = Wait(queue, cycles, 1)
                      /\ Wait(queue, cycles, 1) \in 1 .. MaxBusy
  <2> SUFFICES ASSUME queue # <<>>
               PROVE  1 \in DOMAIN queue /\ Idle = Wait(queue, cycles, 1)
                      /\ Wait(queue, cycles, 1) \in 1 .. MaxBusy
    OBVIOUS
  <2>1. 1 \in DOMAIN queue
    BY <1>1
  <2>2. Wait(queue, cycles, 1) \in 1 .. MaxBusy /\ Wait(queue, cycles, 1) < Modulus \div 2
    BY <1>3, <2>1, Constants
  <2>3. Idle = Wait(queue, cycles, 1)
    BY <2>2 DEF Idle, Wait
  <2> QED
    BY <2>1, <2>2, <2>3
<1>5. n \in Nat /\ n >= 1
  BY <1>1, IdleSpan
<1>6. ASSUME NEW i \in DOMAIN queue
      PROVE  n <= Wait(queue, cycles, i) /\ n \in 0 .. Wait(queue, cycles, i)
  <2>1. queue # <<>> /\ i \in Nat /\ 1 <= i
    BY <1>1
  <2>2. n <= Wait(queue, cycles, 1)
    <3>1. Idle \in 1 .. MaxBusy /\ MaxBusy < Modulus
      BY <1>4, <2>1, Constants
    <3>2. Max({1, Idle}) = Idle
      BY <1>1, <3>1, IdleSpan
    <3> QED
      BY <1>4, <1>5, <2>1, <3>1, <3>2
  <2>3. Wait(queue, cycles, 1) <= Wait(queue, cycles, i)
    BY <1>3, <1>4, <2>1
  <2>4. Wait(queue, cycles, 1) \in 1 .. MaxBusy /\ Wait(queue, cycles, i) \in 1 .. MaxBusy
    BY <1>3, <1>4, <2>1
  <2> QED
    BY <1>1, <1>5, <2>2, <2>3, <2>4
<1>7. now \in Clock
  <2>1. (cycles + n) \in Int
    BY <1>1, <1>5 DEF Clock
  <2> QED
    BY <1>1, <2>1 DEF Clock
<1>8. ASSUME NEW i \in DOMAIN queue
      PROVE  Wait(queue, now, i) = Wait(queue, cycles, i) - n
  <2>1. n \in 0 .. (queue[i].due - cycles) % Modulus
    BY <1>6 DEF Wait
  <2>2. (queue[i].due - ((cycles + n) % Modulus)) % Modulus
          = ((queue[i].due - cycles) % Modulus) - n
    BY <1>1, <1>2, <2>1, WaitPassed
  <2> QED
    BY <2>2 DEF Wait
<1>9. ASSUME NEW i \in DOMAIN queue
      PROVE  Reached(now, queue[i]) <=> Wait(queue, cycles, i) = n
  <2>1. /\ Wait(queue, now, i) = Wait(queue, cycles, i) - n
        /\ Wait(queue, cycles, i) \in 1 .. MaxBusy
    BY <1>3, <1>8
  <2>2. Wait(queue, now, i) <= MaxBusy
    BY <1>1, <1>5, <2>1
  <2>3. Reached(now, queue[i]) <=> Wait(queue, now, i) = 0
    BY <1>2, <1>7, <2>2, ReachedExactly DEF Wait
  <2> QED
    BY <1>5, <2>1, <2>3
<1> DEFINE K == {k \in 0 .. Len(queue) : \A i \in 1 .. k : Reached(now, queue[i])}
<1>10. K \in SUBSET (0 .. Len(queue)) /\ 0 \in K
  BY <1>1
<1>11. applied = Max(K)
  OBVIOUS
<1> HIDE DEF K
<1>12. applied \in K /\ \A k \in K : k <= applied
  BY <1>1, <1>10, <1>11, Greatest
<1>13. applied \in 0 .. Len(queue) /\ \A i \in 1 .. applied : Reached(now, queue[i])
  BY <1>12 DEF K
<1>14. ASSUME NEW i \in DOMAIN queue, i <= applied
       PROVE  Wait(queue, cycles, i) <= n
  <2>1. i \in 1 .. applied
    BY <1>1, <1>13, <1>14
  <2> QED
    BY <1>5, <1>9, <1>13, <2>1
<1>15. ASSUME NEW i \in DOMAIN queue, ~(i <= applied)
       PROVE  ~(Wait(queue, cycles, i) <= n)
  <2> DEFINE k == applied + 1
  <2>1. k \in 0 .. Len(queue) /\ k \in DOMAIN queue /\ k <= i
        /\ \A j \in 1 .. k : j = k \/ j \in 1 .. applied
    <3>1. i \in 1 .. Len(queue) /\ applied \in Nat /\ applied < i
      BY <1>1, <1>13, <1>15
    <3>2. k \in 0 .. Len(queue) /\ k \in 1 .. Len(queue) /\ k <= i
      BY <1>1, <3>1
    <3>3. \A j \in 1 .. k : j = k \/ j \in 1 .. applied
      BY <3>1
    <3> QED
      BY <1>1, <3>2, <3>3
  <2>2. ~(k <= applied)
    BY <1>13
  <2> HIDE DEF k
  <2>3. ~Reached(now, queue[k])
    BY <1>12, <1>13, <2>1, <2>2 DEF K
  <2>4. Wait(queue, cycles, k) # n /\ n <= Wait(queue, cycles, k)
        /\ Wait(queue, cycles, k) <= Wait(queue, cycles, i)
    BY <1>3, <1>6, <1>9, <2>1, <2>3
  <2>5. Wait(queue, cycles, k) \in 1 .. MaxBusy /\ Wait(queue, cycles, i) \in 1 .. MaxBusy
    BY <1>3, <2>1
  <2> QED
    BY <1>1, <1>5, <2>4, <2>5
<1> QED
  BY <1>3, <1>4, <1>5, <1>6, <1>7, <1>8, <1>13, <1>14, <1>15

LEMMA CycleStep == Inductive /\ Cycle => Inductive'
<1> SUFFICES ASSUME Inductive, Cycle PROVE Inductive'
  OBVIOUS
<1>1. /\ Used /\ ~running
      /\ UNCHANGED <<place, active, loadedWithoutState, resumeIdle, saved, written, strayed>>
  BY DEF Cycle, mode, history
<1>2. cycles' \in Clock /\ hardware' \in [Target -> Value] /\ queue' \in Seq(Queued)
      /\ Len(queue') <= Limit
  BY CycleTypes
<1>3. ASSUME ~strayed
      PROVE  InOrder(queue', cycles') /\ Apply(hardware', queue') = Apply(hardware, queue)
  <2>0. Faithful
    BY <1>1, <1>3 DEF Faithful
  <2>2. PICK n \in 1 .. Max({1, Idle}) :
         LET now == (cycles + n) % Modulus
             applied == Max({k \in 0 .. Len(queue) : \A i \in 1 .. k : Reached(now, queue[i])})
         IN /\ cycles' = now
            /\ hardware' = Apply(hardware, SubSeq(queue, 1, applied))
            /\ queue' = SubSeq(queue, applied + 1, Len(queue))
    BY DEF Cycle
  <2> DEFINE now == (cycles + n) % Modulus
             k == Max({j \in 0 .. Len(queue) : \A i \in 1 .. j : Reached(now, queue[i])})
  <2>3. /\ cycles' = now
        /\ hardware' = Apply(hardware, SubSeq(queue, 1, k))
        /\ queue' = SubSeq(queue, k + 1, Len(queue))
    BY <2>2
  <2>4. /\ n \in Nat /\ n >= 1 /\ now \in Clock /\ k \in 0 .. Len(queue)
        /\ queue # <<>> => n <= Wait(queue, cycles, 1)
        /\ \A i \in DOMAIN queue :
             /\ Wait(queue, cycles, i) \in 1 .. MaxBusy
             /\ Wait(queue, now, i) = Wait(queue, cycles, i) - n
             /\ i <= k <=> Wait(queue, cycles, i) <= n
    <3>1. /\ Inductive /\ Faithful /\ n \in 1 .. Max({1, Idle}) /\ now = (cycles + n) % Modulus
          /\ k = Max({j \in 0 .. Len(queue) : \A i \in 1 .. j : Reached(now, queue[i])})
      BY <2>0
    <3> HIDE DEF now, k
    <3>2. n >= 1
      BY IdleSpan DEF Inductive, TypeOK
    <3> QED
      BY ONLY <3>1, <3>2, CycleEffect
  <2> HIDE DEF now, k
  <2>5. /\ queue \in Seq(Queued) /\ Len(queue) \in Nat /\ DOMAIN queue = 1 .. Len(queue)
        /\ Len(queue) <= Limit /\ hardware \in [Target -> Value] /\ cycles \in Clock
        /\ InOrder(queue, cycles) /\ Limit \in Nat /\ k \in Nat
    BY <2>0, <2>4, Constants DEF Inductive, TypeOK, Ordered
  <2>6. /\ queue' \in Seq(Queued) /\ Len(queue') = Len(queue) - k
        /\ Len(queue') \in Nat
        /\ DOMAIN queue' = 1 .. Len(queue')
        /\ \A i \in DOMAIN queue' : queue'[i] = queue[i + k]
    <3> DEFINE rest == SubSeq(queue, k + 1, Len(queue))
    <3>1. queue' = rest
      BY <2>3
    <3>2. rest = SubSeq(queue, k + 1, Len(queue))
      OBVIOUS
    <3>3. k \in 0 .. Len(queue) /\ queue \in Seq(Queued)
      BY <2>4, <2>5
    <3> HIDE DEF rest
    <3>4. /\ rest \in Seq(Queued) /\ Len(rest) = Len(queue) - k /\ Len(rest) \in Nat
          /\ DOMAIN rest = 1 .. Len(rest)
          /\ \A i \in DOMAIN rest : rest[i] = queue[i + k]
      BY ONLY <3>2, <3>3, Suffix
    <3> QED
      BY <3>1, <3>4
  <2>7. Len(queue') <= Limit /\ Len(queue) = Len(queue') + k
    BY <2>4, <2>5, <2>6
  <2>8. \A i \in DOMAIN queue' : i + k \in DOMAIN queue /\ ~(i + k <= k)
    BY <2>4, <2>5, <2>6
  <2>9. InOrder(queue', now)
    <3>1. ASSUME NEW i \in DOMAIN queue'
          PROVE  /\ Wait(queue', now, i) = Wait(queue, cycles, i + k) - n
                 /\ Wait(queue, cycles, i + k) > n
      <4>1. Wait(queue', now, i) = Wait(queue, now, i + k)
        BY <2>6 DEF Wait
      <4>2. Wait(queue, cycles, i + k) \in 1 .. MaxBusy
            /\ ~(Wait(queue, cycles, i + k) <= n)
        BY <2>4, <2>8
      <4> QED
        BY <2>4, <2>8, <4>1, <4>2, Constants
    <3> QED
      BY <2>4, <2>5, <2>6, <2>7, <3>1, InOrderRest
  <2>10. /\ hardware' \in [Target -> Value]
         /\ Apply(hardware', queue') = Apply(hardware, queue)
    BY <2>3, <2>4, <2>5, QueuedWrites, ApplySplit
  <2> QED
    BY <2>3, <2>9, <2>10
<1>11. \/ /\ queue' = <<>> /\ running' = TRUE /\ accesses' = 0 /\ runDelay' = 0
          /\ runDeferred' = FALSE
       \/ /\ UNCHANGED <<running, accesses, runDelay, runDeferred>>
          /\ ~(queue # <<>> /\ queue' = <<>> /\ runDeferred)
  BY DEF Cycle, StartRun
<1>12. TypeOK'
  <2>1. runDeferred' \in BOOLEAN /\ running' \in BOOLEAN
    BY <1>11, Zenon DEF Inductive, TypeOK
  <2>2. runDelay' \in 0 .. MaxBusy /\ accesses' \in 0 .. RunLength
    BY <1>11, Constants DEF Inductive, TypeOK
  <2>3. {runDeferred, active, loadedWithoutState, resumeIdle, running}' \subseteq BOOLEAN
    BY <1>1, <2>1, Zenon DEF Inductive, TypeOK
  <2> QED
    BY <1>1, <1>2, <2>2, <2>3 DEF Inductive, TypeOK
<1>13. Ordered'
  <2> SUFFICES ASSUME ~strayed PROVE Ordered'
    BY <1>1 DEF Ordered, Faithful
  <2>1. InOrder(queue', cycles')
    BY <1>3
  <2>2. running' => DOMAIN queue' = {}
    <3>1. running' => queue' = <<>>
      BY <1>1, <1>11, Zenon DEF Inductive, TypeOK
    <3>2. DOMAIN <<>> = {}
      OBVIOUS
    <3> QED
      BY <3>1, <3>2
  <2> QED
    BY <2>1, <2>2 DEF Ordered
<1>14. Modes'
  BY <1>1, <1>11 DEF Inductive, Modes, Used
<1>15. Pending'
  <2> SUFFICES ASSUME ~strayed PROVE Pending'
    BY <1>1 DEF Pending
  <2>1. written = Apply(hardware, queue) /\ ~loadedWithoutState
    BY <1>1 DEF Inductive, Pending, Used
  <2> QED
    BY <1>1, <1>3, <2>1 DEF Pending
<1> QED
  BY <1>1, <1>12, <1>13, <1>14, <1>15, SavedStays DEF Inductive

LEMMA InterpretStep == Inductive /\ Interpret => Inductive'
<1> SUFFICES ASSUME Inductive, Interpret PROVE Inductive'
  OBVIOUS
<1>1. /\ ~active /\ ~loadedWithoutState /\ place' \in Place
      /\ cycles' = (cycles + 1) % Modulus
      /\ written' = hardware'
      /\ UNCHANGED <<queue, runDelay, runDeferred, active, loadedWithoutState, resumeIdle,
                     running, accesses, saved, strayed>>
  BY DEF Interpret, mode
<1>2. hardware' \in [Target -> Value]
  BY DEF Interpret, Inductive, TypeOK
<1>3. cycles' \in Clock
  <2>1. cycles \in Clock /\ (cycles + 1) \in Int /\ Modulus \in Nat \ {0}
    BY Constants DEF Inductive, TypeOK, Clock
  <2> QED
    BY <1>1, <2>1 DEF Clock
<1>4. queue' = <<>> /\ Apply(hardware', <<>>) = hardware'
  BY <1>1, <1>2, ApplyNone DEF Inductive, Modes
<1>5. TypeOK'
  BY <1>1, <1>2, <1>3 DEF Inductive, TypeOK
<1>6. Ordered' /\ Modes'
  BY <1>1, <1>4 DEF Inductive, Ordered, Modes, Faithful, Used
<1>7. Pending'
  BY <1>1, <1>4 DEF Pending
<1> QED
  BY <1>1, <1>5, <1>6, <1>7, SavedStays DEF Inductive

LEMMA TakeOverStep == Inductive /\ TakeOver => Inductive'
<1> SUFFICES ASSUME Inductive, TakeOver PROVE Inductive'
  OBVIOUS
<1>1. /\ ~active /\ ~loadedWithoutState /\ queue' = <<>>
      /\ runDeferred' = FALSE /\ runDelay' = 0 /\ accesses' = 0
      /\ running' = (place \in {"entry", "held"})
      /\ active' = TRUE /\ resumeIdle' = FALSE
      /\ UNCHANGED <<cycles, place, hardware, loadedWithoutState, saved, written,
                     strayed>>
  BY DEF TakeOver, core, history
<1>2. queue = <<>> /\ queue' \in Seq(Queued) /\ Len(queue') = 0 /\ DOMAIN queue' = {}
  BY <1>1 DEF Inductive, Modes
<1>3. hardware \in [Target -> Value] /\ Apply(hardware, <<>>) = hardware
  BY ApplyNone DEF Inductive, TypeOK
<1>4. TypeOK'
  <2>1. {runDeferred, active, loadedWithoutState, resumeIdle, running}' \subseteq BOOLEAN
    <3>1. running' \in BOOLEAN
      BY <1>1
    <3> QED
      BY <1>1, <3>1, Zenon DEF Inductive, TypeOK
  <2> QED
    BY <1>1, <1>2, <2>1, Constants DEF Inductive, TypeOK
<1>5. Ordered' /\ Modes'
  BY <1>1, <1>2 DEF Inductive, Ordered, InOrder, Modes, Used
<1>6. Pending'
  BY <1>1, <1>2, <1>3 DEF Inductive, Pending
<1> QED
  BY <1>1, <1>4, <1>5, <1>6, SavedStays DEF Inductive

LEMMA SaveStep == Inductive /\ SaveState => Inductive'
<1> SUFFICES ASSUME Inductive, SaveState PROVE Inductive'
  OBVIOUS
<1>1. /\ saved' = Image
      /\ UNCHANGED <<cycles, place, hardware, queue, runDelay, runDeferred, active,
                     loadedWithoutState, resumeIdle, running, accesses, written,
                     strayed>>
  BY DEF SaveState, core, mode, history
<1>2. TypeOK' /\ Ordered' /\ Modes' /\ Pending'
  <2>1. TypeOK'
    BY <1>1 DEF Inductive, TypeOK
  <2>2. Ordered' /\ Modes'
    BY <1>1 DEF Inductive, Ordered, Faithful, InOrder, Wait, Modes, Used
  <2>3. Pending'
    BY <1>1 DEF Inductive, Pending
  <2> QED
    BY <2>1, <2>2, <2>3
<1> DEFINE due == [i \in DOMAIN queue |-> (queue[i].due - cycles) % Modulus]
<1>3. /\ queue \in Seq(Queued) /\ cycles \in Clock
      /\ hardware \in [Target -> Value] /\ written \in [Target -> Value]
      /\ place \in Place /\ active \in BOOLEAN /\ runDeferred \in BOOLEAN
      /\ Len(queue) <= Limit /\ strayed \in BOOLEAN
      /\ loadedWithoutState \in BOOLEAN
  BY DEF Inductive, TypeOK
<1>4. \A i \in DOMAIN queue : due[i] = Wait(queue, cycles, i) /\ due[i] \in Clock
  <2> SUFFICES ASSUME NEW i \in DOMAIN queue
               PROVE  due[i] = Wait(queue, cycles, i) /\ due[i] \in Clock
    OBVIOUS
  <2>1. queue[i] \in Queued
    BY <1>3
  <2>2. queue[i].due \in Clock
    BY <2>1 DEF Queued
  <2>3. (queue[i].due - cycles) % Modulus \in Clock
    BY <1>3, <2>2, Away DEF Clock
  <2> QED
    BY <2>3 DEF Wait
<1>5. /\ saved'.hardware = hardware /\ saved'.place = place /\ saved'.active = active
      /\ saved'.runDeferred = runDeferred /\ saved'.written = written
      /\ saved'.strayed = (strayed \/ (loadedWithoutState /\ active))
      /\ saved'.queue = [i \in DOMAIN queue |-> [queue[i] EXCEPT !.due = due[i]]]
  BY <1>1 DEF Image
<1> HIDE DEF due
<1>6. /\ saved'.queue \in Seq(Queued) /\ Len(saved'.queue) = Len(queue)
      /\ DOMAIN saved'.queue = DOMAIN queue
      /\ saved'.queue = <<>> <=> queue = <<>>
      /\ \A i \in DOMAIN queue : saved'.queue[i].due = due[i]
      /\ \A r \in [Target -> Value] : Apply(r, saved'.queue) = Apply(r, queue)
  <2> DEFINE p == saved'.queue
  <2>1. Redated(p, queue, due)
    BY <1>4, <1>5 DEF Redated
  <2>2. queue \in Seq(Queued)
    BY <1>3
  <2> HIDE DEF p
  <2>3. /\ p \in Seq(Queued) /\ Len(p) = Len(queue) /\ DOMAIN p = DOMAIN queue
        /\ p = <<>> <=> queue = <<>>
        /\ \A i \in DOMAIN queue : p[i].due = due[i]
        /\ \A r \in [Target -> Value] : Apply(r, p) = Apply(r, queue)
    BY ONLY <2>1, <2>2, DuesChanged
  <2> QED
    BY <2>3 DEF p
<1>7. SavedTypeOK'
  BY <1>3, <1>5, <1>6 DEF SavedTypeOK
<1>8. SavedModes'
  BY <1>1, <1>5, <1>6 DEF Inductive, Modes, Used, SavedModes
<1>9. SavedPending'
  <2> SUFFICES ASSUME ~saved'.strayed PROVE SavedPending'
    BY DEF SavedPending
  <2>1. ~strayed /\ (loadedWithoutState => queue = <<>>)
    BY <1>5 DEF Inductive, Modes
  <2>2. Apply(hardware, <<>>) = hardware
    BY <1>3, ApplyNone
  <2>3. written = Apply(hardware, queue)
    BY <2>1, <2>2 DEF Inductive, Pending
  <2> QED
    BY <1>3, <1>5, <1>6, <2>3 DEF SavedPending
<1>10. SavedOrdered'
  <2> SUFFICES ASSUME ~saved'.strayed PROVE SavedOrdered'
    BY DEF SavedOrdered
  <2>1. CASE active
    <3>1. Faithful
      BY <1>5, <2>1 DEF Faithful, Used
    <3>2. InOrder(queue, cycles)
      BY <3>1 DEF Inductive, Ordered
    <3> QED
      BY <1>4, <1>6, <3>2 DEF SavedOrdered, InOrder
  <2>2. CASE ~active
    <3>1. queue = <<>> /\ DOMAIN queue = {}
      BY <2>2 DEF Inductive, Modes
    <3> QED
      BY <1>6, <3>1 DEF SavedOrdered
  <2> QED
    BY <1>3, <2>1, <2>2
<1> QED
  BY <1>2, <1>7, <1>8, <1>9, <1>10 DEF Inductive, SavedOK

\* A state puts its queue back in front of the clock.
LEMMA LoadedQueue ==
  ASSUME Inductive, LoadState
  PROVE  /\ cycles' \in Clock
         /\ queue' \in Seq(Queued) /\ Len(queue') = Len(saved.queue)
         /\ DOMAIN queue' = DOMAIN saved.queue
         /\ queue' = <<>> <=> saved.queue = <<>>
         /\ \A i \in DOMAIN saved.queue :
              /\ queue'[i].target = saved.queue[i].target
              /\ queue'[i].value = saved.queue[i].value
              /\ ~saved.strayed => Wait(queue', cycles', i) = saved.queue[i].due
         /\ \A r \in [Target -> Value] : Apply(r, queue') = Apply(r, saved.queue)
<1>1. saved.queue \in Seq(Queued)
  BY DEF Inductive, SavedOK, SavedTypeOK
<1>2. cycles' \in Clock
  BY ClockAssumption DEF LoadState, Clock
<1> DEFINE due == [i \in DOMAIN saved.queue |-> (saved.queue[i].due + cycles') % Modulus]
<1>3. ASSUME NEW i \in DOMAIN saved.queue
      PROVE  /\ due[i] \in Clock
             /\ ~saved.strayed => (due[i] - cycles') % Modulus = saved.queue[i].due
  <2> DEFINE b == saved.queue[i].due
  <2>1. b \in Clock
    <3>1. saved.queue[i] \in Queued
      BY <1>1
    <3> QED
      BY <3>1 DEF Queued
  <2>2. ~saved.strayed => b \in 0 .. MaxBusy
    <3>1. ~saved.strayed => b \in 1 .. MaxBusy
      BY DEF Inductive, SavedOK, SavedOrdered
    <3> QED
      BY <3>1, Constants
  <2> HIDE DEF b
  <2>3. cycles' + b \in Int /\ cycles' + b = b + cycles'
    BY <1>2, <2>1, Constants DEF Clock
  <2>4. (cycles' + b) % Modulus \in Clock
    BY <2>3, Constants DEF Clock
  <2>5. ~saved.strayed => (((cycles' + b) % Modulus) - cycles') % Modulus = b
    BY <1>2, <2>2, WaitNew
  <2>6. due[i] = (b + cycles') % Modulus
    BY DEF b
  <2> QED
    BY <2>3, <2>4, <2>5, <2>6 DEF b
<1>4. queue' = [i \in DOMAIN saved.queue |-> [saved.queue[i] EXCEPT !.due = due[i]]]
  BY DEF LoadState
<1> HIDE DEF due
<1>5. /\ queue' \in Seq(Queued) /\ Len(queue') = Len(saved.queue)
      /\ DOMAIN queue' = DOMAIN saved.queue
      /\ queue' = <<>> <=> saved.queue = <<>>
      /\ \A i \in DOMAIN saved.queue :
           /\ queue'[i].target = saved.queue[i].target
           /\ queue'[i].value = saved.queue[i].value /\ queue'[i].due = due[i]
      /\ \A r \in [Target -> Value] : Apply(r, queue') = Apply(r, saved.queue)
  <2>1. Redated(queue', saved.queue, due)
    BY <1>3, <1>4 DEF Redated
  <2> QED
    BY ONLY <1>1, <2>1, DuesChanged
<1>6. ~saved.strayed =>
        \A i \in DOMAIN saved.queue : Wait(queue', cycles', i) = saved.queue[i].due
  BY <1>3, <1>5 DEF Wait
<1> QED
  BY <1>2, <1>5, <1>6

LEMMA LoadStep == Inductive /\ LoadState => Inductive'
<1> SUFFICES ASSUME Inductive, LoadState PROVE Inductive'
  OBVIOUS
<1>1. /\ ~running /\ hardware' = saved.hardware /\ place' = saved.place
      /\ active' = saved.active /\ runDeferred' = saved.runDeferred
      /\ loadedWithoutState' = FALSE /\ resumeIdle' = FALSE
      /\ written' = saved.written /\ strayed' = saved.strayed
      /\ UNCHANGED <<runDelay, running, accesses, saved>>
  BY DEF LoadState
<1>2. SavedTypeOK /\ SavedOrdered /\ SavedModes /\ SavedPending
  BY DEF Inductive, SavedOK
<1>3. TypeOK'
  <2>1. {runDeferred, active, loadedWithoutState, resumeIdle, running}' \subseteq BOOLEAN
    BY <1>1, <1>2, Zenon DEF Inductive, TypeOK, SavedTypeOK
  <2> QED
    BY <1>1, <1>2, <2>1, LoadedQueue DEF Inductive, TypeOK, SavedTypeOK
<1>4. ~saved.strayed => InOrder(queue', cycles')
  BY <1>2, LoadedQueue DEF SavedOrdered, InOrder
<1>5. Ordered'
  BY <1>1, <1>4 DEF Ordered, Faithful, InOrder, Wait
<1>6. Modes'
  BY <1>1, <1>2, LoadedQueue DEF SavedModes, Modes, Used
<1>7. Pending'
  <2>1. ~saved.strayed => Apply(hardware', queue') = saved.written
    BY <1>1, <1>2, LoadedQueue DEF SavedTypeOK, SavedPending
  <2> QED
    BY <1>1, <2>1 DEF Pending
<1> QED
  BY <1>1, <1>3, <1>5, <1>6, <1>7, SavedStays DEF Inductive

LEMMA LoadOlderStep == Inductive /\ LoadOlder => Inductive'
<1> SUFFICES ASSUME Inductive, LoadOlder PROVE Inductive'
  OBVIOUS
<1>1. /\ ~running /\ place' \in Place /\ hardware' \in [Target -> Value]
      /\ written' = hardware' /\ loadedWithoutState' = TRUE /\ resumeIdle' = FALSE
      /\ cycles' \in Clock /\ strayed' = FALSE
      /\ UNCHANGED <<queue, runDelay, runDeferred, active, running, accesses, saved>>
  BY ClockAssumption DEF LoadOlder, Clock
<1>2. TypeOK'
  <2>1. {runDeferred, active, loadedWithoutState, resumeIdle, running}' \subseteq BOOLEAN
    BY <1>1, Zenon DEF Inductive, TypeOK
  <2> QED
    BY <1>1, <2>1 DEF Inductive, TypeOK
<1>3. Ordered' /\ Modes' /\ Pending'
  BY <1>1 DEF Inductive, Ordered, Modes, Pending, Faithful, Used
<1> QED
  BY <1>1, <1>2, <1>3, SavedStays DEF Inductive

LEMMA SettleStep == Inductive /\ Settle => Inductive'
<1> SUFFICES ASSUME Inductive, Settle PROVE Inductive'
  OBVIOUS
<1>1. /\ loadedWithoutState /\ loadedWithoutState' = FALSE
      /\ queue' = <<>> /\ runDeferred' = FALSE
      /\ active' = (place = "held")
      /\ resumeIdle' = (place \in {"entry", "idle", "busy"})
      /\ UNCHANGED <<cycles, place, hardware, runDelay, running, accesses, saved, written,
                     strayed>>
  BY DEF Settle, core, history
<1>2. /\ ~running /\ ~strayed /\ written = hardware /\ hardware \in [Target -> Value]
      /\ Apply(hardware, <<>>) = hardware
  BY <1>1, ApplyNone DEF Inductive, Modes, Pending, Used, TypeOK
<1>3. queue' \in Seq(Queued) /\ Len(queue') = 0 /\ DOMAIN queue' = {}
  BY <1>1
<1>4. TypeOK'
  <2>1. {runDeferred, active, loadedWithoutState, resumeIdle, running}' \subseteq BOOLEAN
    <3>1. active' \in BOOLEAN /\ resumeIdle' \in BOOLEAN
      BY <1>1
    <3> QED
      BY <1>1, <3>1, Zenon DEF Inductive, TypeOK
  <2> QED
    BY <1>1, <1>3, <2>1, Constants DEF Inductive, TypeOK
<1>5. Ordered' /\ Modes'
  BY <1>1, <1>2, <1>3 DEF Ordered, InOrder, Modes, Used
<1>6. Pending'
  BY <1>1, <1>2 DEF Pending
<1> QED
  BY <1>1, <1>4, <1>5, <1>6, SavedStays DEF Inductive

LEMMA StutterStep == Inductive /\ UNCHANGED vars => Inductive'
<1> SUFFICES ASSUME Inductive, UNCHANGED vars PROVE Inductive'
  OBVIOUS
<1>1. UNCHANGED <<cycles, place, hardware, queue, runDelay, runDeferred, active,
                  loadedWithoutState, resumeIdle, running, accesses, saved, written,
                  strayed>>
  BY DEF vars, core, mode, history
<1>2. TypeOK'
  BY <1>1 DEF Inductive, TypeOK
<1>3. Ordered' /\ Modes'
  BY <1>1 DEF Inductive, Ordered, Faithful, InOrder, Wait, Modes, Used
<1>4. Pending'
  BY <1>1 DEF Inductive, Pending
<1> QED
  BY <1>1, <1>2, <1>3, <1>4, SavedStays DEF Inductive

LEMMA InductiveStep == Inductive /\ [Next]_vars => Inductive'
BY RunStep, DelayStep, WriteStep, EndStep, CycleStep, InterpretStep, TakeOverStep, SaveStep,
   LoadStep, LoadOlderStep, SettleStep, StutterStep DEF Next

-----------------------------------------------------------------------------
(* The theorems.                                                           *)

\* Inductive holds in every state: for any registers and values, any longest run,
\* any clock that is more than twice as wide, and any queue.
THEOREM InductiveHolds == Spec => []Inductive
<1> QED
  BY InitInductive, InductiveStep, PTL DEF Spec

\* The driver reads back what it wrote last, whether that has reached the DSP,
\* waits in the queue, was pushed out of it or came with a saved state
\* (Lufia2SpcNativeReadDsp).
THEOREM DriverReadsBack == Spec => []ReadsOwnWrites
<1>1. Inductive => ReadsOwnWrites
  <2> SUFFICES ASSUME Inductive, Used, ~strayed, NEW reg \in Dsp PROVE ReadDsp(reg) = written[reg]
    BY DEF ReadsOwnWrites
  <2>1. hardware \in [Target -> Value] /\ queue \in Seq(Queued) /\ reg \in Target
    BY DEF Inductive, TypeOK, Target
  <2>2. written = Apply(hardware, queue)
    BY DEF Inductive, Pending, Used
  <2>3. Apply(hardware, queue) = Lasts(hardware, queue, DOMAIN queue)
    BY <2>1, QueuedWrites, ApplyLasts
  <2>4. written[reg] = LastOf(hardware, queue, DOMAIN queue, reg)
    BY <2>1, <2>2, <2>3 DEF Lasts
  <2> QED
    BY <2>4 DEF ReadDsp, LastOf, Hits
<1> QED
  BY <1>1, InductiveHolds, PTL

\* A deferred run always has an access in the queue whose time will wake it
\* (Lufia2SpcNativeCycle looks for it nowhere else).
THEOREM DeferredRunWakes == Spec => []DeferredHasWaker
<1>1. Inductive => DeferredHasWaker
  BY DEF Inductive, Modes, DeferredHasWaker
<1> QED
  BY <1>1, InductiveHolds, PTL

-----------------------------------------------------------------------------
(* The driver keeps the timeline.                                          *)

Waits == [target : Target, value : Value, wait : Clock]

LEMMA WaitsWrites == IsWrites(Waits)
BY DEF IsWrites, Waits

LEMMA EffectIsApply ==
  ASSUME NEW registers, NEW due
  PROVE  Timeline!Effect(registers, due) = Apply(registers, due)
BY DEF Timeline!Effect, Timeline!FoldLeft, Timeline!MapThenFoldSet, Timeline!Max,
       Apply, FoldLeft, MapThenFoldSet, Max

\* A list of waits says what a queue says at a time.
IsWaiting(p, q, c) ==
  \A i \in DOMAIN q :
    p[i].target = q[i].target /\ p[i].value = q[i].value /\ p[i].wait = Wait(q, c, i)

LEMMA WaitingList ==
  ASSUME NEW q \in Seq(Queued), NEW c \in Clock
  PROVE  /\ Waiting(q, c) \in Seq(Waits) /\ Len(Waiting(q, c)) = Len(q)
         /\ DOMAIN Waiting(q, c) = DOMAIN q
         /\ Waiting(q, c) = <<>> <=> q = <<>>
         /\ IsWaiting(Waiting(q, c), q, c)
<1> DEFINE p == Waiting(q, c)
<1>1. Len(q) \in Nat /\ DOMAIN q = 1 .. Len(q) /\ \A i \in DOMAIN q : q[i] \in Queued
  OBVIOUS
<1>2. \A i \in DOMAIN q :
        p[i] = [target |-> q[i].target, value |-> q[i].value, wait |-> Wait(q, c, i)]
  BY DEF Waiting, Wait
<1>3. \A i \in DOMAIN q : p[i] \in Waits
  <2> SUFFICES ASSUME NEW i \in DOMAIN q PROVE p[i] \in Waits
    OBVIOUS
  <2>1. q[i].target \in Target /\ q[i].value \in Value /\ q[i].due \in Clock
    BY <1>1 DEF Queued
  <2>2. Wait(q, c, i) \in Clock
    BY <2>1, Away DEF Wait, Clock
  <2>3. [target |-> q[i].target, value |-> q[i].value, wait |-> Wait(q, c, i)] \in Waits
    BY <2>1, <2>2 DEF Waits
  <2> QED
    BY <1>2, <2>3
<1>4. p \in [1 .. Len(q) -> Waits] /\ DOMAIN p = 1 .. Len(q)
  BY <1>1, <1>3 DEF Waiting
<1> HIDE DEF p
<1>5. IsWaiting(p, q, c)
  <2> SUFFICES ASSUME NEW i \in DOMAIN q
               PROVE  /\ p[i].target = q[i].target /\ p[i].value = q[i].value
                      /\ p[i].wait = Wait(q, c, i)
    BY DEF IsWaiting
  <2>1. p[i] = [target |-> q[i].target, value |-> q[i].value, wait |-> Wait(q, c, i)]
    BY <1>2
  <2> QED
    BY <2>1
<1>6. p \in Seq(Waits) /\ Len(p) = Len(q)
  BY <1>1, <1>4
<1>7. p = <<>> <=> q = <<>>
  BY <1>1, <1>4, <1>6
<1> QED
  BY <1>1, <1>4, <1>5, <1>6, <1>7 DEF p

\* And no other list does.
LEMMA OneWaiting ==
  ASSUME NEW q \in Seq(Queued), NEW c \in Clock, NEW p \in Seq(Waits),
         Len(p) = Len(q), IsWaiting(p, q, c)
  PROVE  p = Waiting(q, c)
<1> DEFINE w == Waiting(q, c)
<1>1. w \in Seq(Waits) /\ Len(w) = Len(q) /\ IsWaiting(w, q, c)
  BY WaitingList
<1> HIDE DEF w
<1>2. Len(q) \in Nat /\ DOMAIN q = 1 .. Len(q)
  OBVIOUS
<1>3. \A i \in 1 .. Len(q) : p[i] = w[i]
  <2> SUFFICES ASSUME NEW i \in 1 .. Len(q) PROVE p[i] = w[i]
    OBVIOUS
  <2>1. p[i] \in Waits /\ w[i] \in Waits
    BY <1>1, <1>2
  <2>2. p[i].target = w[i].target /\ p[i].value = w[i].value /\ p[i].wait = w[i].wait
    BY <1>1, <1>2 DEF IsWaiting
  <2> QED
    BY <2>1, <2>2 DEF Waits
<1> QED
  BY <1>1, <1>2, <1>3 DEF w

\* The first accesses of the queue do the same whether their times are kept or
\* their waits.
LEMMA WaitingEffect ==
  ASSUME NEW q \in Seq(Queued), NEW c \in Clock, NEW k \in 0 .. Len(q),
         NEW r \in [Target -> Value]
  PROVE  Apply(r, SubSeq(Waiting(q, c), 1, k)) = Apply(r, SubSeq(q, 1, k))
<1> DEFINE p == Waiting(q, c)  qs == SubSeq(q, 1, k)  ps == SubSeq(p, 1, k)
<1>1. /\ p \in Seq(Waits) /\ Len(p) = Len(q) /\ IsWaiting(p, q, c)
  BY WaitingList
<1> HIDE DEF p
<1>2. /\ qs \in Seq(Queued) /\ Len(qs) = k /\ DOMAIN qs = 1 .. k
      /\ \A i \in 1 .. k : qs[i] = q[i] /\ i \in DOMAIN q
  OBVIOUS
<1>3. /\ ps \in Seq(Waits) /\ Len(ps) = k
      /\ \A i \in 1 .. k : ps[i] = p[i]
  BY <1>1
<1> HIDE DEF qs, ps
<1>4. \A i \in DOMAIN qs : ps[i].target = qs[i].target /\ ps[i].value = qs[i].value
  BY <1>1, <1>2, <1>3 DEF IsWaiting
<1>5. Apply(r, ps) = Apply(r, qs)
  BY <1>2, <1>3, <1>4, QueuedWrites, WaitsWrites, ApplySame
<1> QED
  BY <1>5 DEF p, ps, qs

LEMMA TimelineInit == Init => Timeline!Init
<1> SUFFICES ASSUME Init PROVE Timeline!Init
  OBVIOUS
<1>1. /\ queue = <<>> /\ runDeferred = FALSE /\ active = FALSE /\ loadedWithoutState = FALSE
      /\ running = FALSE /\ strayed = FALSE /\ saved = Image
      /\ hardware \in [Target -> Value]
  BY ValueAssumption DEF Init
<1>2. StillWaiting = <<>> /\ BusyFor = 0 /\ Running = FALSE /\ Faithful = FALSE
  BY <1>1 DEF StillWaiting, BusyFor, Running, Faithful, Used
<1>3. /\ saved.hardware = hardware /\ saved.active = FALSE
      /\ saved.runDeferred = FALSE /\ saved.queue = <<>> /\ saved.strayed = FALSE
  <2>1. /\ Image.hardware = hardware /\ Image.active = active
        /\ Image.runDeferred = runDeferred
        /\ Image.strayed = (strayed \/ (loadedWithoutState /\ active))
        /\ Image.queue = [i \in DOMAIN queue |->
                            [queue[i] EXCEPT !.due = (@ - cycles) % Modulus]]
    BY DEF Image
  <2>2. Image.queue = <<>>
    BY <1>1, <2>1
  <2>3. Image.strayed = FALSE
    BY <1>1, <2>1
  <2> QED
    BY <1>1, <2>1, <2>2, <2>3
<1>4. Waiting(saved.queue, 0) = <<>>
  BY <1>3 DEF Waiting
<1>5. SavedView = [hardware |-> hardware, pending |-> StillWaiting,
                   wanted |-> Faithful /\ runDeferred, native |-> Faithful,
                   strayed |-> strayed]
  <2>1. (saved.runDeferred /\ ~saved.strayed) = FALSE
        /\ (saved.active /\ ~saved.strayed) = FALSE /\ (Faithful /\ runDeferred) = FALSE
    BY <1>2, <1>3
  <2> QED
    BY <1>1, <1>2, <1>3, <1>4, <2>1 DEF SavedView
<1> QED
  BY <1>1, <1>2, <1>5 DEF Timeline!Init, Timeline!Now

\* What the mapping reads, and the steps that leave it.
LEMMA ViewStays ==
  /\ UNCHANGED <<queue, cycles, active, loadedWithoutState, strayed>>
       => UNCHANGED <<StillWaiting, Faithful>>
  /\ UNCHANGED saved => UNCHANGED SavedView
<1>1. UNCHANGED <<queue, cycles, active, loadedWithoutState, strayed>>
        => UNCHANGED <<StillWaiting, Faithful>>
  BY DEF StillWaiting, Faithful, Used
<1>2. UNCHANGED saved => UNCHANGED SavedView
  BY DEF SavedView
<1> QED
  BY <1>1, <1>2

\* In a state that has not strayed a run is a run.
LEMMA RunningIs ==
  /\ Inductive /\ ~strayed => Running = running /\ BusyFor = IF running THEN runDelay ELSE 0
  /\ Inductive' /\ ~strayed' =>
       Running' = running' /\ BusyFor' = IF running' THEN runDelay' ELSE 0
BY DEF Running, BusyFor, Inductive, TypeOK

\* In a state that has, all that is seen of the driver is what it makes of the
\* registers.
LEMMA StrayedMaps ==
  ASSUME Inductive, Inductive', strayed,
         UNCHANGED <<active, loadedWithoutState, saved, strayed>>
  PROVE  Timeline!Astray
<1>1. /\ StillWaiting = <<>> /\ BusyFor = 0 /\ Faithful = FALSE /\ Running = FALSE
      /\ StillWaiting' = <<>> /\ BusyFor' = 0 /\ Faithful' = FALSE /\ Running' = FALSE
  BY DEF StillWaiting, BusyFor, Faithful, Running
<1>2. hardware' \in [Target -> Value]
  BY DEF Inductive, TypeOK
<1>3. UNCHANGED SavedView
  BY ViewStays
<1> QED
  BY <1>1, <1>2, <1>3 DEF Timeline!Astray

\* While the driver has the APU, in a state that has not strayed, the pending
\* accesses are the queue.
LEMMA FaithfulView ==
  Inductive /\ Faithful =>
    /\ StillWaiting = Waiting(queue, cycles)
    /\ StillWaiting \in Seq(Waits) /\ Len(StillWaiting) = Len(queue)
    /\ DOMAIN StillWaiting = DOMAIN queue
    /\ StillWaiting = <<>> <=> queue = <<>>
    /\ IsWaiting(StillWaiting, queue, cycles)
<1> SUFFICES ASSUME Inductive, Faithful
             PROVE  /\ StillWaiting = Waiting(queue, cycles)
                    /\ StillWaiting \in Seq(Waits) /\ Len(StillWaiting) = Len(queue)
                    /\ DOMAIN StillWaiting = DOMAIN queue
                    /\ StillWaiting = <<>> <=> queue = <<>>
                    /\ IsWaiting(StillWaiting, queue, cycles)
  OBVIOUS
<1>1. StillWaiting = Waiting(queue, cycles)
  BY DEF StillWaiting
<1>2. queue \in Seq(Queued) /\ cycles \in Clock
  BY DEF Inductive, TypeOK
<1> QED
  BY <1>1, <1>2, WaitingList

LEMMA AskMaps == Inductive /\ Inductive' /\ Run /\ ~strayed => Timeline!Ask
<1> SUFFICES ASSUME Inductive, Inductive', Run, ~strayed PROVE Timeline!Ask
  OBVIOUS
<1>1. /\ Used /\ ~running
      /\ UNCHANGED <<cycles, hardware, queue, active, loadedWithoutState, saved, strayed>>
  BY DEF Run, core, mode, history
<1>2. UNCHANGED <<StillWaiting, Faithful, SavedView>> /\ Faithful
  BY <1>1, ViewStays DEF Faithful
<1>3. StillWaiting = <<>> <=> queue = <<>>
  BY <1>2, FaithfulView
<1>4. /\ running \in BOOLEAN /\ runDeferred \in BOOLEAN
      /\ Running = running /\ Running' = running'
      /\ BusyFor' = IF running' THEN runDelay' ELSE 0
  BY <1>1, RunningIs DEF Inductive, TypeOK
<1>5. queue = <<>> => ~runDeferred
  BY <1>1 DEF Inductive, Modes
<1>6. CASE queue = <<>>
  <2>1. running' = TRUE /\ runDelay' = 0 /\ UNCHANGED runDeferred
    BY <1>6 DEF Run, StartRun
  <2> QED
    BY <1>1, <1>2, <1>3, <1>4, <1>5, <1>6, <2>1 DEF Timeline!Ask
<1>7. CASE queue # <<>>
  <2>1. runDeferred' = TRUE /\ running' = FALSE
    BY <1>1, <1>4, <1>7 DEF Run
  <2> QED
    BY <1>1, <1>2, <1>3, <1>4, <1>7, <2>1 DEF Timeline!Ask
<1> QED
  BY <1>6, <1>7

LEMMA DelayMaps == Inductive /\ Inductive' /\ Delay /\ ~strayed => Timeline!Delay
<1> SUFFICES ASSUME Inductive, Inductive', Delay, ~strayed PROVE Timeline!Delay
  OBVIOUS
<1>1. /\ running /\ running' /\ runDelay' \in runDelay + 1 .. MaxBusy
      /\ UNCHANGED <<cycles, hardware, queue, runDeferred, active, loadedWithoutState,
                     running, saved, strayed>>
  BY DEF Delay, core, mode, history
<1>2. UNCHANGED <<StillWaiting, Faithful, SavedView>>
  BY <1>1, ViewStays
<1>3. BusyFor = runDelay /\ BusyFor' = runDelay' /\ Running /\ UNCHANGED Running
  BY <1>1 DEF BusyFor, Running
<1> QED
  BY <1>1, <1>2, <1>3 DEF Timeline!Delay

LEMMA EndMaps == Inductive /\ Inductive' /\ End /\ ~strayed => Timeline!End
<1> SUFFICES ASSUME Inductive, Inductive', End, ~strayed PROVE Timeline!End
  OBVIOUS
<1>1. /\ running /\ running' = FALSE
      /\ UNCHANGED <<cycles, hardware, queue, runDeferred, active, loadedWithoutState, saved,
                     strayed>>
  BY DEF End, core, mode, history
<1>2. /\ UNCHANGED <<StillWaiting, Faithful, SavedView>>
      /\ BusyFor' = 0 /\ Running /\ Running' = FALSE
  BY <1>1, ViewStays DEF BusyFor, Running
<1> QED
  BY <1>1, <1>2 DEF Timeline!End

LEMMA InterpretMaps == Inductive /\ Interpret => Timeline!Interpret
<1> SUFFICES ASSUME Inductive, Interpret PROVE Timeline!Interpret
  OBVIOUS
<1>1. /\ ~active /\ ~loadedWithoutState
      /\ \E t \in Target, v \in Value : hardware' = [hardware EXCEPT ![t] = v]
      /\ UNCHANGED <<queue, runDelay, runDeferred, active, loadedWithoutState, running, saved,
                     strayed>>
  BY DEF Interpret, mode
<1>2. /\ StillWaiting = <<>> /\ StillWaiting' = <<>> /\ ~Faithful /\ ~Faithful'
      /\ UNCHANGED <<Faithful, Running, BusyFor>>
  BY <1>1 DEF StillWaiting, Faithful, Used, BusyFor, Running
<1>3. UNCHANGED SavedView
  BY <1>1, ViewStays
<1> QED
  BY <1>1, <1>2, <1>3 DEF Timeline!Interpret

LEMMA TakeOverMaps == Inductive /\ TakeOver => Timeline!Adopt
<1> SUFFICES ASSUME Inductive, TakeOver PROVE Timeline!Adopt
  OBVIOUS
<1>1. /\ ~active /\ ~loadedWithoutState /\ ~loadedWithoutState' /\ active' = TRUE
      /\ queue' = <<>> /\ runDeferred' = FALSE /\ runDelay' = 0
      /\ running' = (place \in {"entry", "held"})
      /\ UNCHANGED <<hardware, loadedWithoutState, saved, strayed>>
  BY DEF TakeOver, core, history
<1>2. ~strayed /\ ~strayed'
  BY <1>1 DEF Inductive, Modes, Used
<1>3. ~Faithful /\ Faithful' = TRUE /\ StillWaiting' = <<>> /\ BusyFor' = 0
  BY <1>1, <1>2 DEF StillWaiting, Faithful, Used, BusyFor, Waiting
<1>4. UNCHANGED SavedView
  BY <1>1, ViewStays
<1>5. Running' \in BOOLEAN
  BY DEF Running
<1>6. (Faithful /\ runDeferred)' = FALSE
  BY <1>1
<1> QED
  BY <1>1, <1>3, <1>4, <1>5, <1>6 DEF Timeline!Adopt

LEMMA SettleMaps == Inductive /\ Inductive' /\ Settle => Timeline!Settle
<1> SUFFICES ASSUME Inductive, Inductive', Settle PROVE Timeline!Settle
  OBVIOUS
<1>1. /\ loadedWithoutState /\ loadedWithoutState' = FALSE
      /\ queue' = <<>> /\ runDeferred' = FALSE
      /\ UNCHANGED <<hardware, runDelay, running, saved, strayed>>
  BY DEF Settle, core, history
<1>2. ~Faithful /\ StillWaiting = <<>> /\ StillWaiting' = <<>>
      /\ UNCHANGED <<Running, BusyFor>>
  BY <1>1 DEF StillWaiting, Faithful, Used, Waiting, Running, BusyFor
<1>3. (Faithful /\ runDeferred) = FALSE /\ (Faithful /\ runDeferred)' = FALSE
  BY <1>1, <1>2
<1>4. UNCHANGED SavedView
  BY <1>1, ViewStays
<1>5. Faithful' \in BOOLEAN
  BY DEF Faithful
<1> QED
  BY <1>1, <1>2, <1>3, <1>4, <1>5 DEF Timeline!Settle

LEMMA NoWait ==
  ASSUME NEW d \in Clock
  PROVE  (d - 0) % Modulus = d
<1>1. 0 \in Clock /\ d >= 0
  BY Constants DEF Clock
<1> QED
  BY <1>1, Away DEF Clock

LEMMA SaveMaps == Inductive /\ SaveState => Timeline!Save
<1> SUFFICES ASSUME Inductive, SaveState PROVE Timeline!Save
  OBVIOUS
<1>1. /\ ~running /\ saved' = Image
      /\ UNCHANGED <<cycles, hardware, queue, runDelay, runDeferred, active,
                     loadedWithoutState, running, strayed>>
  BY DEF SaveState, core, mode, history
<1>2. /\ queue \in Seq(Queued) /\ cycles \in Clock /\ 0 \in Clock
      /\ {active, loadedWithoutState, runDeferred, strayed} \subseteq BOOLEAN
  BY <1>1, Constants DEF Inductive, TypeOK, Clock
<1>3. Waiting(Image.queue, 0) = Waiting(queue, cycles)
  <2> DEFINE image == Image.queue
             due == [i \in DOMAIN queue |-> (queue[i].due - cycles) % Modulus]
  <2>1. \A i \in DOMAIN queue : due[i] \in Clock /\ due[i] = Wait(queue, cycles, i)
    <3> SUFFICES ASSUME NEW i \in DOMAIN queue
                 PROVE  due[i] \in Clock /\ due[i] = Wait(queue, cycles, i)
      OBVIOUS
    <3>1. queue[i] \in Queued
      BY <1>2
    <3>2. queue[i].due \in Clock
      BY <3>1 DEF Queued
    <3> QED
      BY <1>2, <3>2, Away DEF Clock, Wait
  <2>2. Redated(image, queue, due)
    BY <2>1 DEF Redated, Image
  <2> HIDE DEF image, due
  <2>3. /\ image \in Seq(Queued) /\ Len(image) = Len(queue) /\ DOMAIN image = DOMAIN queue
        /\ \A i \in DOMAIN queue :
             /\ image[i].target = queue[i].target /\ image[i].value = queue[i].value
             /\ image[i].due = due[i]
    BY ONLY <2>2, <1>2, DuesChanged
  <2>4. IsWaiting(Waiting(image, 0), image, 0) /\ Waiting(image, 0) \in Seq(Waits)
        /\ Len(Waiting(image, 0)) = Len(image)
    BY <1>2, <2>3, WaitingList
  <2>5. \A i \in DOMAIN queue : Wait(image, 0, i) = due[i]
    <3> SUFFICES ASSUME NEW i \in DOMAIN queue PROVE Wait(image, 0, i) = due[i]
      OBVIOUS
    <3>1. due[i] \in Clock /\ image[i].due = due[i]
      BY <2>1, <2>3
    <3>2. (due[i] - 0) % Modulus = due[i]
      BY <3>1, NoWait
    <3> QED
      BY <3>1, <3>2 DEF Wait
  <2>6. IsWaiting(Waiting(image, 0), queue, cycles)
    BY <2>1, <2>3, <2>4, <2>5 DEF IsWaiting
  <2> QED
    BY <1>2, <2>3, <2>4, <2>6, OneWaiting DEF image
<1> DEFINE astray == strayed \/ (loadedWithoutState /\ active)
<1>4. SavedView' = [hardware |-> hardware, strayed |-> astray,
                    pending |-> IF astray THEN <<>> ELSE Waiting(queue, cycles),
                    wanted |-> runDeferred /\ ~astray, native |-> active /\ ~astray]
  <2>1. /\ Image.hardware = hardware /\ Image.strayed = astray
        /\ Image.runDeferred = runDeferred /\ Image.active = active
    BY DEF Image
  <2> QED
    BY <1>1, <1>3, <2>1 DEF SavedView
<1>5. /\ ~Running /\ UNCHANGED <<hardware, StillWaiting, Faithful, Running, BusyFor>>
      /\ UNCHANGED (Faithful /\ runDeferred)
  BY <1>1, ViewStays DEF BusyFor, Running
<1>6. CASE ~astray
  <2>1. StillWaiting = Waiting(queue, cycles) /\ Faithful = active
        /\ (Faithful /\ runDeferred) = runDeferred
    <3>1. CASE active
      <4>1. active = TRUE /\ Faithful = TRUE
        BY <1>2, <1>6, <3>1 DEF Faithful, Used
      <4>2. (Faithful /\ runDeferred) = runDeferred
        BY <1>2, <4>1
      <4> QED
        BY <4>1, <4>2, FaithfulView
    <3>2. CASE ~active
      <4>1. queue = <<>> /\ runDeferred = FALSE /\ active = FALSE /\ Faithful = FALSE
        BY <1>2, <3>2 DEF Inductive, Modes, Faithful, Used
      <4>2. StillWaiting = Waiting(queue, cycles)
        BY <4>1 DEF StillWaiting, Waiting
      <4> QED
        BY <4>1, <4>2
    <3> QED
      BY <3>1, <3>2
  <2>2. strayed = FALSE /\ astray = FALSE /\ (runDeferred /\ ~astray) = runDeferred
        /\ (active /\ ~astray) = active
    BY <1>2, <1>6
  <2>3. SavedView' = Timeline!Now(strayed)
    BY <1>4, <2>1, <2>2 DEF Timeline!Now
  <2> QED
    BY <1>1, <1>5, <2>3 DEF Timeline!Save
<1>7. CASE astray
  <2>1. StillWaiting = <<>> /\ Faithful = FALSE /\ (Faithful /\ runDeferred) = FALSE
    BY <1>7 DEF StillWaiting, Faithful, Used
  <2>2. /\ SavedView' = [hardware |-> hardware, strayed |-> TRUE, pending |-> <<>>,
                         wanted |-> FALSE, native |-> FALSE]
    BY <1>4, <1>7
  <2>3. strayed => SavedView' = Timeline!Now(strayed)
    BY <1>2, <2>1, <2>2 DEF Timeline!Now
  <2>4. CASE strayed
    <3>1. SavedView' = Timeline!Now(strayed)
      BY <2>3, <2>4
    <3> QED
      BY <1>1, <1>5, <3>1 DEF Timeline!Save
  <2>5. CASE ~strayed
    <3>1. ~(~loadedWithoutState)
      BY <1>7, <2>5
    <3>2. SavedView' = Timeline!Now(TRUE)
      BY <2>1, <2>2 DEF Timeline!Now
    <3> QED
      BY <1>1, <1>5, <3>1, <3>2 DEF Timeline!Save
  <2> QED
    BY <2>4, <2>5
<1> QED
  BY <1>6, <1>7

LEMMA LoadMaps == Inductive /\ LoadState => Timeline!Load
<1> SUFFICES ASSUME Inductive, LoadState PROVE Timeline!Load
  OBVIOUS
<1>1. /\ ~running /\ hardware' = saved.hardware
      /\ active' = saved.active /\ runDeferred' = saved.runDeferred
      /\ loadedWithoutState' = FALSE /\ strayed' = saved.strayed
      /\ UNCHANGED <<running, saved>>
  BY DEF LoadState
<1>2. /\ saved.queue \in Seq(Queued) /\ saved.active \in BOOLEAN
      /\ saved.runDeferred \in BOOLEAN /\ saved.strayed \in BOOLEAN
      /\ ~saved.active => saved.queue = <<>> /\ ~saved.runDeferred
      /\ 0 \in Clock /\ running = FALSE
  BY <1>1, Constants DEF Inductive, SavedOK, SavedTypeOK, SavedModes, Clock, TypeOK
<1>3. /\ Faithful' = (saved.active /\ ~saved.strayed)
      /\ (Faithful /\ runDeferred)' = (saved.runDeferred /\ ~saved.strayed)
  BY <1>1, <1>2 DEF Faithful, Used
<1>4. StillWaiting' = IF saved.strayed THEN <<>> ELSE Waiting(saved.queue, 0)
  <2> DEFINE q == queue'  c == cycles'  old == saved.queue
  <2>0. CASE saved.strayed
    BY <1>3, <2>0 DEF StillWaiting
  <2> SUFFICES ASSUME ~saved.strayed PROVE StillWaiting' = Waiting(old, 0)
    BY <2>0
  <2>1. /\ q \in Seq(Queued) /\ c \in Clock /\ Len(q) = Len(old) /\ DOMAIN q = DOMAIN old
        /\ q = <<>> <=> old = <<>>
        /\ \A i \in DOMAIN old :
             /\ q[i].target = old[i].target /\ q[i].value = old[i].value
             /\ Wait(q, c, i) = old[i].due
    BY LoadedQueue
  <2>2. StillWaiting' = IF saved.active /\ ~saved.strayed THEN Waiting(q, c) ELSE <<>>
    BY <1>3 DEF StillWaiting
  <2> HIDE DEF q, c
  <2>3. IsWaiting(Waiting(q, c), q, c) /\ Waiting(q, c) \in Seq(Waits)
        /\ Len(Waiting(q, c)) = Len(q)
    BY <2>1, WaitingList
  <2>4. \A i \in DOMAIN old : Wait(old, 0, i) = old[i].due
    <3> SUFFICES ASSUME NEW i \in DOMAIN old PROVE Wait(old, 0, i) = old[i].due
      OBVIOUS
    <3>1. old[i] \in Queued
      BY <1>2
    <3>2. old[i].due \in Clock
      BY <3>1 DEF Queued
    <3> QED
      BY <3>2, NoWait DEF Wait
  <2>5. IsWaiting(Waiting(q, c), old, 0)
    BY <2>1, <2>3, <2>4 DEF IsWaiting
  <2>6. Waiting(q, c) = Waiting(old, 0)
    BY <1>2, <2>1, <2>3, <2>5, OneWaiting
  <2>7. CASE saved.active
    BY <2>2, <2>6, <2>7
  <2>8. CASE ~saved.active
    <3>1. old = <<>>
      BY <1>2, <2>8
    <3> QED
      BY <2>2, <2>8, <3>1 DEF Waiting
  <2> QED
    BY <1>2, <2>7, <2>8
<1>5. BusyFor' = 0 /\ ~Running /\ UNCHANGED <<Running, SavedView>>
  BY <1>1, <1>2, ViewStays DEF BusyFor, Running
<1>6. /\ SavedView.hardware = saved.hardware /\ SavedView.strayed = saved.strayed
      /\ SavedView.pending = IF saved.strayed THEN <<>> ELSE Waiting(saved.queue, 0)
      /\ SavedView.wanted = (saved.runDeferred /\ ~saved.strayed)
      /\ SavedView.native = (saved.active /\ ~saved.strayed)
  BY DEF SavedView
<1> QED
  BY <1>1, <1>3, <1>4, <1>5, <1>6 DEF Timeline!Load

LEMMA LoadOlderMaps == Inductive /\ LoadOlder => Timeline!LoadOlder
<1> SUFFICES ASSUME Inductive, LoadOlder PROVE Timeline!LoadOlder
  OBVIOUS
<1>1. /\ ~running /\ hardware' \in [Target -> Value] /\ loadedWithoutState' = TRUE
      /\ strayed' = FALSE /\ UNCHANGED <<running, saved>>
  BY DEF LoadOlder
<1>2. Faithful' = FALSE /\ (Faithful /\ runDeferred)' = FALSE /\ StillWaiting' = <<>>
  BY <1>1 DEF Faithful, Used, StillWaiting
<1>3. running \in BOOLEAN
  BY DEF Inductive, TypeOK
<1>4. BusyFor' = 0 /\ ~Running /\ UNCHANGED <<Running, SavedView>>
  BY <1>1, <1>3, ViewStays DEF BusyFor, Running
<1> QED
  BY <1>1, <1>2, <1>4 DEF Timeline!LoadOlder

\* What is left of the queue, with one access more.
LEMMA WaitingAppend ==
  ASSUME NEW q \in Seq(Queued), NEW c \in Clock, NEW k \in 0 .. Len(q),
         NEW a \in Queued, NEW b \in Waits,
         b.target = a.target, b.value = a.value, b.wait = (a.due - c) % Modulus
  PROVE  Append(SubSeq(Waiting(q, c), k + 1, Len(q)), b)
           = Waiting(Append(SubSeq(q, k + 1, Len(q)), a), c)
<1> DEFINE w == Waiting(q, c)
           ws == SubSeq(w, k + 1, Len(w))  qs == SubSeq(q, k + 1, Len(q))
           p == Append(ws, b)  r == Append(qs, a)
<1>1. w \in Seq(Waits) /\ Len(w) = Len(q) /\ DOMAIN w = DOMAIN q /\ IsWaiting(w, q, c)
  BY WaitingList
<1> HIDE DEF w
<1>2. Len(q) \in Nat /\ DOMAIN q = 1 .. Len(q) /\ k \in 0 .. Len(w)
  BY <1>1
<1>3. /\ ws \in Seq(Waits) /\ Len(ws) = Len(q) - k /\ DOMAIN ws = 1 .. Len(ws)
      /\ \A i \in DOMAIN ws : ws[i] = w[i + k]
  <2>1. ws = SubSeq(w, k + 1, Len(w)) /\ w \in Seq(Waits) /\ k \in 0 .. Len(w)
    BY <1>1, <1>2
  <2> HIDE DEF ws
  <2>2. /\ ws \in Seq(Waits) /\ Len(ws) = Len(w) - k /\ DOMAIN ws = 1 .. Len(ws)
        /\ \A i \in DOMAIN ws : ws[i] = w[i + k]
    BY ONLY <2>1, Suffix
  <2> QED
    BY <1>1, <2>2
<1>4. /\ qs \in Seq(Queued) /\ Len(qs) = Len(q) - k /\ DOMAIN qs = 1 .. Len(qs)
      /\ \A i \in DOMAIN qs : qs[i] = q[i + k]
  <2>1. qs = SubSeq(q, k + 1, Len(q)) /\ q \in Seq(Queued) /\ k \in 0 .. Len(q)
    OBVIOUS
  <2> HIDE DEF qs
  <2> QED
    BY ONLY <2>1, Suffix
<1> HIDE DEF ws, qs
<1>5. /\ p \in Seq(Waits) /\ Len(p) = Len(q) - k + 1 /\ p[Len(q) - k + 1] = b
      /\ \A i \in 1 .. Len(q) - k : p[i] = ws[i]
  BY <1>2, <1>3
<1>6. /\ r \in Seq(Queued) /\ Len(r) = Len(q) - k + 1 /\ r[Len(q) - k + 1] = a
      /\ \A i \in 1 .. Len(q) - k : r[i] = qs[i]
      /\ DOMAIN r = 1 .. Len(q) - k + 1
  BY <1>2, <1>4
<1> HIDE DEF p, r
<1>7. IsWaiting(p, r, c)
  <2> SUFFICES ASSUME NEW i \in DOMAIN r
               PROVE  /\ p[i].target = r[i].target /\ p[i].value = r[i].value
                      /\ p[i].wait = Wait(r, c, i)
    BY DEF IsWaiting
  <2>1. CASE i = Len(q) - k + 1
    BY <1>5, <1>6, <2>1 DEF Wait
  <2>2. CASE i # Len(q) - k + 1
    <3>1. i \in 1 .. Len(q) - k /\ i + k \in DOMAIN q
      BY <1>2, <1>6, <2>2
    <3>2. p[i] = w[i + k] /\ r[i] = q[i + k]
      BY <1>3, <1>4, <1>5, <1>6, <3>1
    <3> QED
      BY <1>1, <3>1, <3>2 DEF IsWaiting, Wait
  <2> QED
    BY <2>1, <2>2
<1>8. p = Waiting(r, c)
  BY <1>5, <1>6, <1>7, OneWaiting
<1> QED
  BY <1>1, <1>8 DEF p, r, ws, qs, w

LEMMA WriteMaps == Inductive /\ Write /\ ~strayed => Timeline!Write
<1> SUFFICES ASSUME Inductive, Write, ~strayed PROVE Timeline!Write
  OBVIOUS
<1>1. /\ running
      /\ UNCHANGED <<cycles, runDelay, runDeferred, active, loadedWithoutState,
                     running, saved, strayed>>
  BY DEF Write, mode
<1>2. PICK t \in Target, v \in Value :
        Access([target |-> t, value |-> v, due |-> (cycles + runDelay) % Modulus])
  BY DEF Write
<1> DEFINE a == [target |-> t, value |-> v, due |-> (cycles + runDelay) % Modulus]
           b == [target |-> t, value |-> v, wait |-> runDelay]
           w == StillWaiting
<1>3. /\ Faithful /\ hardware \in [Target -> Value] /\ runDelay \in 0 .. MaxBusy
      /\ runDelay = 0 => queue = <<>>
      /\ queue \in Seq(Queued) /\ Len(queue) <= Limit /\ cycles \in Clock
  BY <1>1 DEF Inductive, Modes, TypeOK, Faithful
<1>4. /\ (cycles + runDelay) % Modulus \in Clock
      /\ (((cycles + runDelay) % Modulus) - cycles) % Modulus = runDelay
  BY <1>3, WaitNew
<1>5. /\ a \in Queued /\ a.target = t /\ a.value = v
      /\ (a.due - cycles) % Modulus = runDelay
  BY <1>4 DEF Queued
<1>6. b \in Waits /\ b.target = t /\ b.value = v /\ b.wait = runDelay
  BY <1>3, Constants DEF Waits, Clock
<1>7. BusyFor = runDelay /\ Running
      /\ UNCHANGED <<BusyFor, Running, Faithful, SavedView, Faithful /\ runDeferred>>
  BY <1>1, ViewStays DEF BusyFor, Running, Faithful, Used
<1>8. w = Waiting(queue, cycles) /\ Len(w) = Len(queue) /\ Len(queue) \in Nat
  BY <1>3, FaithfulView
<1>9. StillWaiting' = Waiting(queue', cycles)
  <2>1. Faithful' /\ cycles' = cycles
    BY <1>1, <1>3 DEF Faithful, Used
  <2> QED
    BY <2>1 DEF StillWaiting
<1>10. Access(a)
  BY <1>2
<1> HIDE DEF a, b
<1> DEFINE early == IF Len(w) < Limit THEN 0 ELSE 1
<1>11. IF runDelay = 0
       THEN hardware' = Apply(hardware, <<b>>) /\ StillWaiting' = StillWaiting
       ELSE /\ StillWaiting' = Append(SubSeq(w, early + 1, Len(w)), b)
            /\ hardware' = Apply(hardware, SubSeq(w, 1, early))
  <2>1. CASE runDelay = 0
    <3>1. hardware' = Apply(hardware, <<a>>) /\ queue' = queue
      BY <1>3, <1>10, <2>1 DEF Access
    <3>2. Apply(hardware, <<a>>) = [hardware EXCEPT ![t] = v]
      BY <1>3, <1>5, ApplyOne
    <3>3. Apply(hardware, <<b>>) = [hardware EXCEPT ![t] = v]
      BY <1>3, <1>6, ApplyOne
    <3>4. StillWaiting' = StillWaiting
      BY <1>1, <3>1, ViewStays
    <3> QED
      BY <2>1, <3>1, <3>2, <3>3, <3>4
  <2>2. CASE runDelay # 0 /\ Len(queue) = Limit
    <3>1. /\ queue # <<>> /\ early = 1 /\ Len(queue) \in Nat \ {0}
          /\ 1 \in 0 .. Len(queue)
      BY <1>3, <1>8, <2>2, Constants
    <3>2. hardware' = Apply(hardware, <<Head(queue)>>) /\ queue' = Append(Tail(queue), a)
      BY <1>10, <2>2 DEF Access
    <3>3. <<Head(queue)>> = SubSeq(queue, 1, 1) /\ Tail(queue) = SubSeq(queue, 2, Len(queue))
      BY <1>3, <3>1
    <3>4. hardware' = Apply(hardware, SubSeq(w, 1, 1))
      <4>1. Apply(hardware, SubSeq(Waiting(queue, cycles), 1, 1))
              = Apply(hardware, SubSeq(queue, 1, 1))
        BY <1>3, <3>1, WaitingEffect
      <4> QED
        BY <1>8, <3>2, <3>3, <4>1
    <3>5. Append(SubSeq(Waiting(queue, cycles), 1 + 1, Len(queue)), b)
            = Waiting(Append(SubSeq(queue, 1 + 1, Len(queue)), a), cycles)
      BY <1>3, <1>5, <1>6, <3>1, WaitingAppend
    <3>6. StillWaiting' = Append(SubSeq(w, 1 + 1, Len(w)), b)
      <4>1. queue' = Append(SubSeq(queue, 1 + 1, Len(queue)), a)
        BY <3>2, <3>3
      <4>2. StillWaiting' = Append(SubSeq(Waiting(queue, cycles), 1 + 1, Len(queue)), b)
        BY <1>9, <3>5, <4>1
      <4>3. w = Waiting(queue, cycles) /\ Len(w) = Len(queue)
        BY <1>8
      <4> HIDE DEF w
      <4> QED
        BY <4>2, <4>3
    <3> QED
      BY <2>2, <3>1, <3>4, <3>6
  <2>3. CASE runDelay # 0 /\ Len(queue) # Limit
    <3>1. /\ early = 0 /\ 0 \in 0 .. Len(queue)
      BY <1>3, <1>8, <2>3, Constants
    <3>2. queue' = Append(queue, a) /\ hardware' = hardware
      BY <1>10, <2>3 DEF Access
    <3>3. queue = SubSeq(queue, 1, Len(queue)) /\ SubSeq(queue, 1, 0) = <<>>
      BY <1>3
    <3>4. hardware' = Apply(hardware, SubSeq(w, 1, 0))
      <4>1. Apply(hardware, SubSeq(Waiting(queue, cycles), 1, 0))
              = Apply(hardware, SubSeq(queue, 1, 0))
        BY <1>3, <3>1, WaitingEffect
      <4>2. Apply(hardware, <<>>) = hardware
        BY <1>3, ApplyNone
      <4> QED
        BY <1>8, <3>2, <3>3, <4>1, <4>2
    <3>5. Append(SubSeq(Waiting(queue, cycles), 0 + 1, Len(queue)), b)
            = Waiting(Append(SubSeq(queue, 0 + 1, Len(queue)), a), cycles)
      BY <1>3, <1>5, <1>6, <3>1, WaitingAppend
    <3>6. StillWaiting' = Append(SubSeq(w, 0 + 1, Len(w)), b)
      <4>1. queue' = Append(SubSeq(queue, 0 + 1, Len(queue)), a)
        BY <3>2, <3>3
      <4>2. StillWaiting' = Append(SubSeq(Waiting(queue, cycles), 0 + 1, Len(queue)), b)
        BY <1>9, <3>5, <4>1
      <4>3. w = Waiting(queue, cycles) /\ Len(w) = Len(queue)
        BY <1>8
      <4> HIDE DEF w
      <4> QED
        BY <4>2, <4>3
    <3> QED
      BY <2>3, <3>1, <3>4, <3>6
  <2> QED
    BY <2>1, <2>2, <2>3
<1> HIDE DEF w
<1>12. \A s : Timeline!Effect(hardware, s) = Apply(hardware, s)
  BY EffectIsApply
<1> QED
  BY <1>1, <1>7, <1>11, <1>12 DEF Timeline!Write, b, w

\* What is left of the queue when time has passed.
LEMMA WaitingRest ==
  ASSUME NEW q \in Seq(Queued), NEW c \in Clock, NEW k \in 0 .. Len(q),
         NEW d \in Clock, NEW n \in Nat,
         \A i \in DOMAIN q : i > k => Wait(q, d, i) = Wait(q, c, i) - n
  PROVE  [i \in 1 .. Len(Waiting(q, c)) - k |->
            [Waiting(q, c)[i + k] EXCEPT !.wait = @ - n]]
           = Waiting(SubSeq(q, k + 1, Len(q)), d)
<1> DEFINE w == Waiting(q, c)  qs == SubSeq(q, k + 1, Len(q))
           m == Len(w) - k
           p == [i \in 1 .. m |-> [w[i + k] EXCEPT !.wait = @ - n]]
           r == Waiting(qs, d)
<1>1. w \in Seq(Waits) /\ Len(w) = Len(q) /\ DOMAIN w = DOMAIN q /\ IsWaiting(w, q, c)
  BY WaitingList
<1> HIDE DEF w
<1>2. /\ qs \in Seq(Queued) /\ Len(qs) = m /\ DOMAIN qs = 1 .. m /\ m \in Nat
      /\ \A i \in 1 .. m : qs[i] = q[i + k] /\ i + k \in DOMAIN q /\ i + k > k
  <2>1. Len(q) \in Nat /\ DOMAIN q = 1 .. Len(q)
    OBVIOUS
  <2>2. /\ qs \in Seq(Queued) /\ Len(qs) = Len(q) - k /\ DOMAIN qs = 1 .. Len(qs)
        /\ \A i \in DOMAIN qs : qs[i] = q[i + k]
    <3>1. qs = SubSeq(q, k + 1, Len(q)) /\ q \in Seq(Queued) /\ k \in 0 .. Len(q)
      OBVIOUS
    <3> HIDE DEF qs
    <3> QED
      BY ONLY <3>1, Suffix
  <2>3. m = Len(q) - k /\ m \in Nat
    BY <1>1, <2>1
  <2> HIDE DEF qs, m
  <2>4. \A i \in 1 .. m : i + k \in DOMAIN q /\ i + k > k
    BY <2>1, <2>3
  <2> QED
    BY <2>2, <2>3, <2>4
<1> HIDE DEF qs, m
<1>3. r \in Seq(Waits) /\ Len(r) = m /\ IsWaiting(r, qs, d) /\ DOMAIN r = 1 .. m
  BY <1>2, WaitingList
<1> HIDE DEF r
<1>4. \A i \in 1 .. m : p[i] = r[i]
  <2> SUFFICES ASSUME NEW i \in 1 .. m PROVE p[i] = r[i]
    OBVIOUS
  <2>1. w[i + k] \in Waits /\ r[i] \in Waits
    BY <1>1, <1>2, <1>3
  <2>2. /\ r[i].target = w[i + k].target /\ r[i].value = w[i + k].value
        /\ r[i].wait = w[i + k].wait - n
    <3>1. Wait(qs, d, i) = Wait(q, d, i + k)
      BY <1>2 DEF Wait
    <3> QED
      BY <1>1, <1>2, <1>3, <3>1 DEF IsWaiting
  <2>3. p[i] = [w[i + k] EXCEPT !.wait = @ - n]
    OBVIOUS
  <2> HIDE DEF p
  <2> QED
    BY <2>1, <2>2, <2>3 DEF Waits
<1>5. p = r
  <2>1. DOMAIN p = 1 .. m /\ r \in [1 .. m -> Waits]
    BY <1>2, <1>3
  <2> QED
    BY <1>4, <2>1
<1> QED
  BY <1>5 DEF p, r, qs, w, m

LEMMA CycleMaps ==
  Inductive /\ Inductive' /\ Cycle /\ ~strayed => [Timeline!Pass]_(Timeline!vars)
<1> SUFFICES ASSUME Inductive, Inductive', Cycle, ~strayed PROVE [Timeline!Pass]_(Timeline!vars)
  OBVIOUS
<1>1. /\ Faithful /\ ~running
      /\ UNCHANGED <<active, loadedWithoutState, saved, strayed>>
  BY DEF Cycle, mode, history, Faithful
<1>2. PICK n \in 1 .. Max({1, Idle}) :
        LET now == (cycles + n) % Modulus
            applied == Max({k \in 0 .. Len(queue) : \A i \in 1 .. k : Reached(now, queue[i])})
        IN /\ cycles' = now
           /\ hardware' = Apply(hardware, SubSeq(queue, 1, applied))
           /\ queue' = SubSeq(queue, applied + 1, Len(queue))
  BY DEF Cycle
<1> DEFINE now == (cycles + n) % Modulus
           k == Max({j \in 0 .. Len(queue) : \A i \in 1 .. j : Reached(now, queue[i])})
           w == StillWaiting
<1>3. /\ cycles' = now
      /\ hardware' = Apply(hardware, SubSeq(queue, 1, k))
      /\ queue' = SubSeq(queue, k + 1, Len(queue))
  BY <1>2
<1>4. /\ n \in Nat /\ n >= 1 /\ now \in Clock /\ k \in 0 .. Len(queue)
      /\ queue # <<>> => n <= Wait(queue, cycles, 1)
      /\ \A i \in DOMAIN queue :
           /\ Wait(queue, cycles, i) \in 1 .. MaxBusy
           /\ Wait(queue, now, i) = Wait(queue, cycles, i) - n
           /\ i <= k <=> Wait(queue, cycles, i) <= n
  <2>1. /\ Inductive /\ Faithful /\ n \in 1 .. Max({1, Idle}) /\ now = (cycles + n) % Modulus
        /\ k = Max({j \in 0 .. Len(queue) : \A i \in 1 .. j : Reached(now, queue[i])})
    BY <1>1
  <2> HIDE DEF now, k
  <2>2. n >= 1
    BY IdleSpan DEF Inductive, TypeOK
  <2> QED
    BY ONLY <2>1, <2>2, CycleEffect
<1> HIDE DEF now, k
<1>5. /\ queue \in Seq(Queued) /\ Len(queue) \in Nat /\ cycles \in Clock
      /\ hardware \in [Target -> Value]
      /\ {running, runDeferred} \subseteq BOOLEAN /\ running = FALSE
  BY <1>1 DEF Inductive, TypeOK
<1>6. /\ UNCHANGED <<Faithful, SavedView>> /\ Faithful'
      /\ StillWaiting' = Waiting(queue', cycles')
  BY <1>1, ViewStays DEF Faithful, Used, StillWaiting
<1>6a. /\ Running = running /\ Running' = running'
       /\ BusyFor = 0 /\ BusyFor' = IF running' THEN runDelay' ELSE 0
  BY <1>1, RunningIs
<1>7. /\ w = Waiting(queue, cycles) /\ Len(w) = Len(queue) /\ DOMAIN w = DOMAIN queue
      /\ w = <<>> <=> queue = <<>>
      /\ IsWaiting(w, queue, cycles)
  BY <1>1, FaithfulView
<1>8. hardware' = Apply(hardware, SubSeq(w, 1, k))
  BY <1>3, <1>4, <1>5, <1>7, WaitingEffect
<1>9. StillWaiting' = [i \in 1 .. Len(w) - k |-> [w[i + k] EXCEPT !.wait = @ - n]]
  <2>1. \A i \in DOMAIN queue : i > k => Wait(queue, now, i) = Wait(queue, cycles, i) - n
    BY <1>4
  <2>2. [i \in 1 .. Len(Waiting(queue, cycles)) - k |->
           [Waiting(queue, cycles)[i + k] EXCEPT !.wait = @ - n]]
          = Waiting(SubSeq(queue, k + 1, Len(queue)), now)
    BY <1>4, <1>5, <2>1, WaitingRest
  <2> QED
    BY <1>3, <1>6, <1>7, <2>2
<1>10. StillWaiting' = <<>> <=> queue' = <<>>
  <2>1. queue' \in Seq(Queued) /\ cycles' \in Clock
    BY <1>3, <1>4, <1>5, Suffix
  <2> QED
    BY <1>6, <2>1, WaitingList
<1>11. CASE queue = <<>>
  <2>1. queue' = <<>> /\ hardware' = hardware
    <3>1. SubSeq(queue, 1, k) = <<>> /\ SubSeq(queue, k + 1, Len(queue)) = <<>>
      BY <1>4, <1>5, <1>11
    <3> QED
      BY <1>3, <1>5, <3>1, ApplyNone
  <2>2. UNCHANGED <<running, runDelay, runDeferred>>
    BY <1>11 DEF Cycle
  <2>3. UNCHANGED <<hardware, StillWaiting, Faithful /\ runDeferred, Faithful, Running,
                    BusyFor, SavedView>>
    BY <1>1, <1>6, <1>6a, <1>7, <1>10, <1>11, <2>1, <2>2
  <2> QED
    BY <1>1, <2>3 DEF Timeline!vars
<1>12. CASE queue # <<>>
  <2>1. n \in 1 .. w[1].wait /\ w # <<>>
    <3>1. 1 \in DOMAIN queue /\ Wait(queue, cycles, 1) \in Int
      BY <1>4, <1>5, <1>12
    <3> QED
      BY <1>4, <1>7, <1>12, <3>1 DEF IsWaiting
  <2>2. \A i \in DOMAIN w : i <= k <=> w[i].wait <= n
    BY <1>4, <1>7 DEF IsWaiting
  <2>3. /\ running' = (runDeferred /\ StillWaiting' = <<>>)
        /\ runDeferred' = (runDeferred /\ StillWaiting' # <<>>) /\ BusyFor' = 0
    <3>1. CASE queue' = <<>> /\ runDeferred
      <4>1. running' = TRUE /\ runDelay' = 0 /\ runDeferred' = FALSE
        BY <1>12, <3>1 DEF Cycle, StartRun
      <4> QED
        BY <1>5, <1>6a, <1>10, <3>1, <4>1
    <3>2. CASE ~(queue' = <<>> /\ runDeferred)
      <4>1. UNCHANGED <<running, runDelay, runDeferred>>
        BY <1>12, <3>2 DEF Cycle
      <4> QED
        BY <1>5, <1>6a, <1>10, <3>2, <4>1
    <3> QED
      BY <3>1, <3>2
  <2>4. Timeline!Effect(hardware, SubSeq(w, 1, k)) = Apply(hardware, SubSeq(w, 1, k))
    BY EffectIsApply
  <2>5. /\ Faithful /\ ~Running /\ w # <<>>
        /\ \E m \in 1 .. w[1].wait, j \in 0 .. Len(w) :
             /\ \A i \in DOMAIN w : i <= j <=> w[i].wait <= m
             /\ hardware' = Timeline!Effect(hardware, SubSeq(w, 1, j))
             /\ StillWaiting' = [i \in 1 .. Len(w) - j |-> [w[i + j] EXCEPT !.wait = @ - m]]
    BY <1>1, <1>4, <1>6a, <1>7, <1>8, <1>9, <2>1, <2>2, <2>4
  <2>6. /\ Running' = ((Faithful /\ runDeferred) /\ StillWaiting' = <<>>)
        /\ (Faithful /\ runDeferred)' = ((Faithful /\ runDeferred) /\ StillWaiting' # <<>>)
        /\ BusyFor' = 0
        /\ UNCHANGED <<Faithful, SavedView, strayed, ~loadedWithoutState>>
    BY <1>1, <1>6, <1>6a, <2>3
  <2> QED
    BY <2>5, <2>6 DEF Timeline!Pass, w
<1> QED
  BY <1>11, <1>12

LEMMA StutterMaps == UNCHANGED vars => UNCHANGED Timeline!vars
<1> SUFFICES ASSUME UNCHANGED vars PROVE UNCHANGED Timeline!vars
  OBVIOUS
<1>1. UNCHANGED <<cycles, hardware, queue, runDelay, runDeferred, active,
                  loadedWithoutState, running, saved, strayed>>
  BY DEF vars, core, mode, history
<1>2. UNCHANGED <<StillWaiting, Faithful, SavedView, Running, BusyFor, Faithful /\ runDeferred>>
  BY <1>1, ViewStays DEF BusyFor, Running, Faithful, Used
<1> QED
  BY <1>1, <1>2 DEF Timeline!vars

LEMMA StepMaps == Inductive /\ [Next]_vars => [Timeline!Next]_(Timeline!vars)
<1> SUFFICES ASSUME Inductive, [Next]_vars PROVE [Timeline!Next]_(Timeline!vars)
  OBVIOUS
<1>1. Inductive'
  BY InductiveStep
<1>2. CASE ~strayed
  BY <1>1, <1>2, AskMaps, DelayMaps, WriteMaps, EndMaps, CycleMaps, InterpretMaps,
     TakeOverMaps, SaveMaps, LoadMaps, LoadOlderMaps, SettleMaps, StutterMaps
     DEF Next, Timeline!Next
<1>3. CASE strayed
  <2>1. Run \/ Delay \/ Write \/ End \/ Cycle
          => UNCHANGED <<active, loadedWithoutState, saved, strayed>>
    BY DEF Run, Delay, Write, End, Cycle, mode, history
  <2>2. Run \/ Delay \/ Write \/ End \/ Cycle => Timeline!Astray
    BY <1>1, <1>3, <2>1, StrayedMaps
  <2> QED
    BY <1>1, <2>2, InterpretMaps, TakeOverMaps, SaveMaps, LoadMaps, LoadOlderMaps,
       SettleMaps, StutterMaps DEF Next, Timeline!Next
<1> QED
  BY <1>2, <1>3

\* The driver keeps the timeline: every access takes effect as many cycles after
\* its run began as the original was busy before it, on a clock that wraps, with a
\* queue that may be full, and across saved states of either kind.
THEOREM DriverKeepsTime == Spec => OnTime
<1> QED
  BY TimelineInit, StepMaps, InductiveHolds, PTL DEF Spec, OnTime, Timeline!Spec

====
