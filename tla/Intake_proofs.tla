---------------------------- MODULE Intake_proofs ----------------------------
(***************************************************************************)
(* Proofs about what reaches the Mind, for every set of messages, wakeups  *)
(* and concurrent requests, every batch and every depth: the types, and    *)
(* how far requests that were checked and not pushed yet can overshoot the *)
(* web doorway's depth limit.                                              *)
(***************************************************************************)
EXTENDS Intake, FiniteSetTheorems, SequenceTheorems, TLAPS

Pending == {r \in Requests : request[r] # Nothing}

Queued == {queue[i] : i \in 1..Len(queue)}

\* Behind the bound: what the web pushed is in the queue, and a request that
\* may still push is counted as if it had.
DepthInv ==
    /\ IsFiniteSet(byWeb) /\ byWeb \subseteq Queued
    /\ Cardinality(byWeb) + Cardinality(Pending) <= MaxDepth - 1 + Cardinality(Requests)

\* The loop persists and pushes only while it has something in hand.
HandInv == (at = "persist" => held # <<>>) /\ (at = "push" => claimed # <<>>)

IntakeInv == TypeOK /\ DepthInv /\ HandInv

----------------------------------------------------------------------------
(* Sizes.                                                                  *)

\* A set of a sequence's elements is finite, and no larger than its length.
LEMMA ElementsAreFew ==
  ASSUME NEW S, NEW q \in Seq(S), NEW T, T \subseteq {q[i] : i \in 1..Len(q)}
  PROVE  IsFiniteSet(T) /\ Cardinality(T) \in Nat /\ Cardinality(T) <= Len(q)
<1> DEFINE E == {q[i] : i \in 1..Len(q)}
           f == [i \in 1..Len(q) |-> q[i]]
<1>1. Len(q) \in Nat /\ IsFiniteSet(1..Len(q)) /\ Cardinality(1..Len(q)) = Len(q)
  <2>1. Len(q) \in Nat
    BY LenProperties
  <2>2. /\ IsFiniteSet(1..Len(q))
        /\ Cardinality(1..Len(q)) = IF 1 > Len(q) THEN 0 ELSE Len(q) - 1 + 1
    BY <2>1, FS_Interval
  <2> QED BY <2>1, <2>2
<1>2. f \in Surjection(1..Len(q), E)
  BY DEF Surjection
<1>3. IsFiniteSet(E) /\ Cardinality(E) <= Cardinality(1..Len(q))
  BY <1>1, <1>2, FS_Surjection
<1>4. T \in SUBSET E
  OBVIOUS
<1>5. IsFiniteSet(T) /\ Cardinality(T) <= Cardinality(E)
  BY <1>3, <1>4, FS_Subset
<1>6. Cardinality(E) \in Nat /\ Cardinality(T) \in Nat
  BY <1>3, <1>5, FS_CardinalityType
<1> QED BY <1>1, <1>3, <1>5, <1>6

LEMMA FewPending ==
  IsFiniteSet(Pending) /\ Cardinality(Pending) \in Nat /\ Cardinality(Requests) \in Nat
  /\ Cardinality(Pending) <= Cardinality(Requests)
<1>1. Pending \in SUBSET Requests
  BY DEF Pending
<1>2. IsFiniteSet(Pending) /\ Cardinality(Pending) <= Cardinality(Requests)
  BY <1>1, FS_Subset, IntakeAssumption
<1> QED BY <1>2, FS_CardinalityType, IntakeAssumption

LEMMA NoLength ==
  ASSUME NEW S, NEW q \in Seq(S)
  PROVE  Len(q) = 0 <=> q = <<>>
BY EmptySeq

\* Taking the head leaves something, unless it was all there was.
LEMMA RestOfMany ==
  ASSUME NEW S, NEW q \in Seq(S), q # <<>>
  PROVE  Head(q) \in S /\ Tail(q) \in Seq(S) /\ (Len(q) = 1 <=> Tail(q) = <<>>)
<1>1. Head(q) \in S /\ Tail(q) \in Seq(S) /\ Len(Tail(q)) = Len(q) - 1 /\ Len(q) \in Nat
  BY HeadTailProperties, LenProperties
<1>2. Tail(q) = <<>> <=> Len(Tail(q)) = 0
  BY <1>1, NoLength
<1> QED BY <1>1, <1>2

----------------------------------------------------------------------------
(* How the steps change the two sets.                                      *)

\* An item joins at the tail: nothing that was queued is lost.
LEMMA AppendQueues ==
  ASSUME TypeOK, NEW x \in Items, queue' = Append(queue, x)
  PROVE  Queued' = Queued \cup {x}
<1>1. /\ Len(queue) \in Nat /\ Len(queue') = Len(queue) + 1
      /\ \A i \in 1..Len(queue) : queue'[i] = queue[i]
      /\ queue'[Len(queue) + 1] = x
  BY AppendProperties, LenProperties DEF TypeOK
<1>2. 1..Len(queue') = 1..Len(queue) \cup {Len(queue) + 1}
  BY <1>1
<1> QED BY <1>1, <1>2 DEF Queued

\* The handler r answers, and pushed a message or did not.
LEMMA HandlerAnswers ==
  ASSUME IntakeInv, NEW r \in Requests, request[r] # Nothing,
         request' = [request EXCEPT ![r] = Nothing]
  PROVE  Pending' = Pending \ {r} /\ Cardinality(Pending') = Cardinality(Pending) - 1
<1>1. Pending' = Pending \ {r} /\ r \in Pending
  BY DEF Pending, IntakeInv, TypeOK
<1> QED BY <1>1, FewPending, FS_RemoveElement

----------------------------------------------------------------------------
(* The steps.                                                              *)

LEMMA CheckDepthStep ==
  ASSUME IntakeInv, NEW r \in Requests, NEW m \in Messages, CheckDepth(r, m)
  PROVE  IntakeInv'
<1>1. TypeOK' /\ HandInv'
  BY DEF IntakeInv, TypeOK, HandInv, CheckDepth, DoorFrame
<1>2. byWeb' = byWeb /\ Queued' = Queued /\ Len(queue) < MaxDepth
  BY DEF CheckDepth, Queued
<1>3. Cardinality(byWeb) \in Nat /\ Cardinality(byWeb) <= Len(queue)
  BY ElementsAreFew DEF IntakeInv, TypeOK, DepthInv, Queued
<1>4. Cardinality(Pending') \in Nat /\ Cardinality(Pending') <= Cardinality(Requests)
  <2>1. Pending' \in SUBSET Requests
    BY DEF Pending
  <2> QED BY <2>1, FS_Subset, FS_CardinalityType, IntakeAssumption
<1>5. Len(queue) \in Nat /\ MaxDepth \in Nat /\ Cardinality(Requests) \in Nat
  BY FewPending, LenProperties, IntakeAssumption DEF IntakeInv, TypeOK
<1>6. Cardinality(byWeb) + Cardinality(Pending') <= MaxDepth - 1 + Cardinality(Requests)
  BY <1>2, <1>3, <1>4, <1>5
<1> QED BY <1>1, <1>2, <1>6 DEF IntakeInv, DepthInv

LEMMA PushInputStep ==
  ASSUME IntakeInv, NEW r \in Requests, PushInput(r)
  PROVE  IntakeInv'
<1> DEFINE x == request[r]
<1>1. x \in Messages /\ x \in Items /\ x # Nothing
  BY DEF IntakeInv, TypeOK, PushInput, Items
<1>2. queue' \in Seq(Items)
  BY <1>1, AppendProperties DEF IntakeInv, TypeOK, PushInput
<1>3. TypeOK' /\ HandInv'
  BY <1>1, <1>2 DEF IntakeInv, TypeOK, HandInv, PushInput, DoorFrame
<1>4. Queued' = Queued \cup {x} /\ byWeb' = byWeb \cup {x}
  BY <1>1, AppendQueues DEF IntakeInv, PushInput
<1>5. /\ IsFiniteSet(byWeb') /\ Cardinality(byWeb') <= Cardinality(byWeb) + 1
      /\ Cardinality(byWeb) \in Nat /\ Cardinality(byWeb') \in Nat
  <2>1. IsFiniteSet(byWeb)
    BY DEF IntakeInv, DepthInv
  <2>2. /\ IsFiniteSet(byWeb \cup {x})
        /\ Cardinality(byWeb \cup {x}) = IF x \in byWeb THEN Cardinality(byWeb) ELSE Cardinality(byWeb) + 1
    BY <2>1, FS_AddElement
  <2>3. Cardinality(byWeb) \in Nat
    BY <2>1, FS_CardinalityType
  <2> QED BY <1>4, <2>2, <2>3
<1>6. Cardinality(Pending') = Cardinality(Pending) - 1
  BY <1>1, HandlerAnswers DEF PushInput
<1>7. Cardinality(byWeb') + Cardinality(Pending') <= MaxDepth - 1 + Cardinality(Requests)
  <2>1. Cardinality(byWeb) + Cardinality(Pending) <= MaxDepth - 1 + Cardinality(Requests)
    BY DEF IntakeInv, DepthInv
  <2> QED BY <1>5, <1>6, <2>1, FewPending, IntakeAssumption
<1> QED BY <1>3, <1>4, <1>5, <1>7 DEF IntakeInv, DepthInv

LEMMA PushInputFailsStep ==
  ASSUME IntakeInv, NEW r \in Requests, PushInputFails(r)
  PROVE  IntakeInv'
<1>1. TypeOK' /\ HandInv'
  BY DEF IntakeInv, TypeOK, HandInv, PushInputFails, DoorFrame
<1>2. byWeb' = byWeb /\ Queued' = Queued
  BY DEF PushInputFails, Queued
<1>3. Cardinality(Pending') = Cardinality(Pending) - 1
  BY HandlerAnswers DEF PushInputFails
<1>4. Cardinality(byWeb) \in Nat
  BY FS_CardinalityType DEF IntakeInv, DepthInv
<1> QED BY <1>1, <1>2, <1>3, <1>4, FewPending, IntakeAssumption DEF IntakeInv, DepthInv

LEMMA SayStep ==
  ASSUME IntakeInv, NEW m \in Messages, Say(m)
  PROVE  IntakeInv'
<1>1. m \in Items /\ queue' \in Seq(Items)
  BY AppendProperties DEF IntakeInv, TypeOK, Say, Items
<1>2. TypeOK' /\ HandInv'
  BY <1>1 DEF IntakeInv, TypeOK, HandInv, Say, DoorFrame
<1>3. byWeb' = byWeb /\ Pending' = Pending /\ Queued' = Queued \cup {m}
  BY <1>1, AppendQueues DEF IntakeInv, Say, Pending
<1> QED BY <1>2, <1>3 DEF IntakeInv, DepthInv

LEMMA DrainStep ==
  ASSUME IntakeInv, Drain
  PROVE  IntakeInv'
<1> DEFINE n == First(Batch, Len(queue))
<1>1. n \in 0..Len(queue) /\ Len(queue) \in Nat
  BY IntakeAssumption, LenProperties DEF IntakeInv, TypeOK, First
<1>2. /\ held' = SubSeq(queue, 1, n) /\ queue' = SubSeq(queue, n + 1, Len(queue))
      /\ byWeb' = byWeb \ {queue[i] : i \in 1..n}
  BY DEF Drain
<1>3. /\ held' \in Seq(Items) /\ queue' \in Seq(Items)
      /\ Len(queue') = Len(queue) - n
      /\ \A i \in 1..Len(queue) - n : queue'[i] = queue[n + i]
  BY <1>1, <1>2, SubSeqProperties DEF IntakeInv, TypeOK
<1>4. TypeOK' /\ HandInv'
  <2>1. TypeOK'
    BY <1>2, <1>3 DEF IntakeInv, TypeOK, Drain, SensoriumFrame
  <2>2. at' = (IF n = 0 THEN "ambient" ELSE "persist") /\ claimed' = claimed
    BY DEF Drain, SensoriumFrame
  <2>3. n # 0 => held' # <<>>
    BY <1>1, <1>2, SubSeqProperties DEF IntakeInv, TypeOK
  <2> QED BY <2>1, <2>2, <2>3 DEF HandInv
<1>5. byWeb' \subseteq Queued'
  <2> SUFFICES ASSUME NEW y \in byWeb' PROVE y \in Queued'
    OBVIOUS
  <2>1. y \in Queued /\ y \notin {queue[i] : i \in 1..n}
    BY <1>2 DEF IntakeInv, DepthInv
  <2>2. PICK j \in 1..Len(queue) : y = queue[j]
    BY <2>1 DEF Queued
  <2>3. j - n \in 1..Len(queue') /\ queue'[j - n] = y
    BY <1>1, <1>3, <2>1, <2>2
  <2> QED BY <2>3 DEF Queued
<1>6. /\ IsFiniteSet(byWeb') /\ Cardinality(byWeb') <= Cardinality(byWeb)
      /\ Cardinality(byWeb) \in Nat /\ Cardinality(byWeb') \in Nat
  <2>1. byWeb' \in SUBSET byWeb
    BY <1>2
  <2> QED BY <2>1, FS_Subset, FS_CardinalityType DEF IntakeInv, DepthInv
<1>7. Pending' = Pending
  BY DEF Drain, SensoriumFrame, Pending
<1> QED BY <1>4, <1>5, <1>6, <1>7, FewPending, IntakeAssumption DEF IntakeInv, DepthInv

\* The rest of PERCEIVE touches neither the queue nor a request.
LEMMA PerceiveStep ==
  ASSUME IntakeInv, DrainFails \/ PersistInput \/ SampleAmbient \/ PerceiveFails
  PROVE  IntakeInv'
<1>1. byWeb' = byWeb /\ Queued' = Queued /\ Pending' = Pending
  BY DEF DrainFails, PersistInput, SampleAmbient, PerceiveFails, SensoriumFrame, Queued, Pending
<1>2. TypeOK' /\ HandInv'
  <2>1. CASE DrainFails
    BY <2>1 DEF IntakeInv, TypeOK, HandInv, DrainFails, SensoriumFrame
  <2>2. CASE PersistInput
    <3>1. held # <<>> /\ held \in Seq(Items) /\ arrived \in Seq(Items)
      BY <2>2 DEF IntakeInv, HandInv, TypeOK, PersistInput
    <3>2. /\ Head(held) \in Items /\ Tail(held) \in Seq(Items)
          /\ Len(held) # 1 => Tail(held) # <<>>
      BY <3>1, RestOfMany
    <3>3. Append(arrived, Head(held)) \in Seq(Items)
      BY <3>1, <3>2, AppendProperties
    <3> QED BY <2>2, <3>2, <3>3 DEF IntakeInv, TypeOK, HandInv, PersistInput, SensoriumFrame
  <2>3. CASE SampleAmbient
    <3>1. {arrived[i] : i \in 1..Len(arrived)} \subseteq Items
      BY ElementOfSeq DEF IntakeInv, TypeOK
    <3> QED BY <2>3, <3>1, EmptySeq DEF IntakeInv, TypeOK, HandInv, SampleAmbient, SensoriumFrame
  <2>4. CASE PerceiveFails
    BY <2>4, EmptySeq DEF IntakeInv, TypeOK, HandInv, PerceiveFails, SensoriumFrame
  <2> QED BY <2>1, <2>2, <2>3, <2>4
<1> QED BY <1>1, <1>2 DEF IntakeInv, DepthInv

\* A claim takes every due row, in some order.
LEMMA ClaimStep ==
  ASSUME IntakeInv, ClaimDue
  PROVE  IntakeInv'
<1>1. Due \subseteq Wakeups /\ IsFiniteSet(Due) /\ Cardinality(Due) \in Nat
  <2>1. Due \in SUBSET Wakeups
    BY DEF Due
  <2> QED BY <2>1, FS_Subset, FS_CardinalityType, IntakeAssumption
<1>2. claimed' \in [1..Cardinality(Due) -> Due]
  BY DEF ClaimDue, Orders
<1>3. claimed' \in Seq(Wakeups) /\ Len(claimed') = Cardinality(Due)
  BY <1>1, <1>2
<1>4. Due # {} => claimed' # <<>>
  <2>1. Cardinality(Due) = 0 <=> Due = {}
    BY <1>1, FS_EmptySet
  <2> QED BY <1>3, <2>1
<1>5. status' \in [Wakeups -> {"none", "pending", "due", "fired"}]
  BY DEF ClaimDue, IntakeInv, TypeOK
<1>6. TypeOK' /\ HandInv'
  BY <1>3, <1>4, <1>5 DEF ClaimDue, SchedulerFrame, IntakeInv, TypeOK, HandInv
<1>7. byWeb' = byWeb /\ Queued' = Queued /\ Pending' = Pending
  BY DEF ClaimDue, SchedulerFrame, Queued, Pending
<1> QED BY <1>6, <1>7 DEF IntakeInv, DepthInv

LEMMA PushWakeupStep ==
  ASSUME IntakeInv, PushWakeup
  PROVE  IntakeInv'
<1>1. claimed # <<>> /\ claimed \in Seq(Wakeups) /\ queue \in Seq(Items)
  BY DEF IntakeInv, HandInv, TypeOK, PushWakeup
<1>2. /\ Head(claimed) \in Items /\ Tail(claimed) \in Seq(Wakeups)
      /\ Len(claimed) # 1 => Tail(claimed) # <<>>
  BY <1>1, RestOfMany DEF Items
<1>3. queue' \in Seq(Items)
  BY <1>1, <1>2, AppendProperties DEF PushWakeup
<1>4. TypeOK' /\ HandInv'
  BY <1>2, <1>3 DEF PushWakeup, SchedulerFrame, IntakeInv, TypeOK, HandInv
<1>5. byWeb' = byWeb /\ Pending' = Pending /\ Queued' = Queued \cup {Head(claimed)}
  BY <1>2, AppendQueues DEF IntakeInv, PushWakeup, SchedulerFrame, Pending
<1> QED BY <1>4, <1>5 DEF IntakeInv, DepthInv

\* The rest of the scheduler leaves the queue and the requests alone.
LEMMA SchedulerStep ==
  ASSUME IntakeInv,
         ClaimFails \/ PushWakeupFails \/ \E w \in Wakeups : Schedule(w) \/ FireAtPasses(w)
  PROVE  IntakeInv'
<1>1. TypeOK' /\ HandInv'
  <2>1. CASE ClaimFails
    BY <2>1 DEF ClaimFails, SchedulerFrame, IntakeInv, TypeOK, HandInv
  <2>2. CASE PushWakeupFails
    BY <2>2, EmptySeq DEF PushWakeupFails, SchedulerFrame, IntakeInv, TypeOK, HandInv
  <2>3. CASE \E w \in Wakeups : Schedule(w) \/ FireAtPasses(w)
    BY <2>3 DEF Schedule, FireAtPasses, SchedulerFrame, IntakeInv, TypeOK, HandInv
  <2> QED BY <2>1, <2>2, <2>3
<1>2. byWeb' = byWeb /\ Queued' = Queued /\ Pending' = Pending
  BY DEF ClaimFails, PushWakeupFails, Schedule, FireAtPasses, SchedulerFrame, Queued, Pending
<1> QED BY <1>1, <1>2 DEF IntakeInv, DepthInv

\* A start and a death forget what the process held; Redis keeps the queue.
LEMMA ProcessStep ==
  ASSUME IntakeInv, Start \/ Die
  PROVE  IntakeInv'
<1>1. FreshMemory /\ proc' \in {"down", "up"}
  BY DEF Start, Die
<1>2. TypeOK' /\ HandInv'
  BY <1>1, EmptySeq DEF FreshMemory, IntakeInv, TypeOK, HandInv
<1>3. byWeb' = byWeb /\ Queued' = Queued
  BY <1>1 DEF FreshMemory, Queued
<1>4. Pending' = {} /\ Cardinality(Pending') = 0
  BY <1>1, FS_EmptySet DEF FreshMemory, Pending
<1>5. Cardinality(byWeb) \in Nat
  BY FS_CardinalityType DEF IntakeInv, DepthInv
<1> QED BY <1>2, <1>3, <1>4, <1>5, FewPending, IntakeAssumption DEF IntakeInv, DepthInv

----------------------------------------------------------------------------
(* The theorems.                                                           *)

LEMMA IntakeInit == Init => IntakeInv
<1> SUFFICES ASSUME Init PROVE IntakeInv
  OBVIOUS
<1>1. TypeOK /\ HandInv
  BY EmptySeq DEF Init, TypeOK, HandInv
<1>2. byWeb = {} /\ Pending = {} /\ IsFiniteSet({}) /\ Cardinality({}) = 0
  BY FS_EmptySet DEF Init, Pending
<1> QED BY <1>1, <1>2, FewPending, IntakeAssumption DEF IntakeInv, DepthInv

LEMMA IntakeNext == IntakeInv /\ [Next]_vars => IntakeInv'
<1> SUFFICES ASSUME IntakeInv, [Next]_vars PROVE IntakeInv'
  OBVIOUS
<1>1. ASSUME NEW r \in Requests, NEW m \in Messages, CheckDepth(r, m) PROVE IntakeInv'
  BY <1>1, CheckDepthStep
<1>2. ASSUME NEW r \in Requests, PushInput(r) \/ PushInputFails(r) PROVE IntakeInv'
  BY <1>2, PushInputStep, PushInputFailsStep
<1>3. ASSUME NEW m \in Messages, Say(m) PROVE IntakeInv'
  BY <1>3, SayStep
<1>4. CASE Perceive
  BY <1>4, DrainStep, PerceiveStep DEF Perceive
<1>5. CASE FireDue \/ \E w \in Wakeups : Schedule(w) \/ FireAtPasses(w)
  BY <1>5, ClaimStep, PushWakeupStep, SchedulerStep DEF FireDue
<1>6. CASE Start \/ Die
  BY <1>6, ProcessStep
<1>7. CASE UNCHANGED vars
  BY <1>7 DEF vars, IntakeInv, TypeOK, HandInv, DepthInv, Queued, Pending
<1> QED BY <1>1, <1>2, <1>3, <1>4, <1>5, <1>6, <1>7 DEF Next

(* Every reachable state has its types, an item in the hands of whoever    *)
(* persists or pushes one, and what the web pushed inside the queue        *)
(* (InputQueue, Sensorium.perceive, Scheduler.fire_due).                   *)
THEOREM IntakeInvariant == Spec => []IntakeInv
BY IntakeInit, IntakeNext, PTL DEF Spec

(* TypeOK holds whatever arrives, fails or dies.                           *)
THEOREM IntakeTypes == Spec => []TypeOK
BY IntakeInvariant, PTL DEF IntakeInv

(* The depth limit the web checks before it pushes is overshot by no more  *)
(* than the requests in flight, however many there are (post_input).       *)
THEOREM DepthHolds == Spec => []WebDepthBounded
<1>1. IntakeInv => WebDepthBounded
  <2> SUFFICES ASSUME IntakeInv PROVE WebDepthBounded
    OBVIOUS
  <2>1. /\ Cardinality(byWeb) \in Nat
        /\ Cardinality(byWeb) + Cardinality(Pending) <= MaxDepth - 1 + Cardinality(Requests)
    BY FS_CardinalityType DEF IntakeInv, DepthInv
  <2> QED BY <2>1, FewPending, IntakeAssumption DEF WebDepthBounded
<1> QED BY <1>1, IntakeInvariant, PTL

----------------------------------------------------------------------------
(* Order.  Sequences first: what is in them, and what is in them once.     *)

LEMMA InConcat ==
  ASSUME NEW S, NEW s \in Seq(S), NEW t \in Seq(S), NEW x
  PROVE  In(x, s \o t) <=> In(x, s) \/ In(x, t)
<1>1. /\ Len(s) \in Nat /\ Len(t) \in Nat /\ Len(s \o t) = Len(s) + Len(t)
      /\ \A i \in 1..Len(s) + Len(t) : (s \o t)[i] = IF i <= Len(s) THEN s[i] ELSE t[i - Len(s)]
  BY ConcatProperties, LenProperties
<1>2. ASSUME NEW i \in 1..Len(t)
      PROVE  i + Len(s) \in 1..Len(s) + Len(t) /\ (s \o t)[i + Len(s)] = t[i]
  BY <1>1
<1>3. ASSUME In(x, s \o t) PROVE In(x, s) \/ In(x, t)
  <2>1. PICK i \in 1..Len(s) + Len(t) : (s \o t)[i] = x
    BY <1>1, <1>3 DEF In
  <2>2. CASE i <= Len(s)
    BY <1>1, <2>1, <2>2 DEF In
  <2>3. CASE ~(i <= Len(s))
    <3>1. i - Len(s) \in 1..Len(t) /\ t[i - Len(s)] = x
      BY <1>1, <2>1, <2>3
    <3> QED BY <3>1 DEF In
  <2> QED BY <2>2, <2>3
<1>4. In(x, s) => In(x, s \o t)
  BY <1>1 DEF In
<1>5. ASSUME In(x, t) PROVE In(x, s \o t)
  <2>1. PICK i \in 1..Len(t) : t[i] = x
    BY <1>5 DEF In
  <2> QED BY <1>1, <1>2, <2>1 DEF In
<1> QED BY <1>3, <1>4, <1>5

LEMMA OnceConcat ==
  ASSUME NEW S, NEW s \in Seq(S), NEW t \in Seq(S)
  PROVE  Once(s \o t) <=> Once(s) /\ Once(t) /\ \A x : ~(In(x, s) /\ In(x, t))
<1>1. /\ Len(s) \in Nat /\ Len(t) \in Nat /\ Len(s \o t) = Len(s) + Len(t)
      /\ \A i \in 1..Len(s) + Len(t) : (s \o t)[i] = IF i <= Len(s) THEN s[i] ELSE t[i - Len(s)]
  BY ConcatProperties, LenProperties
<1>2. \A i \in 1..Len(t) : i + Len(s) \in 1..Len(s) + Len(t) /\ (s \o t)[i + Len(s)] = t[i]
  BY <1>1
<1>3. \A i \in 1..Len(s) : i \in 1..Len(s) + Len(t) /\ (s \o t)[i] = s[i]
  BY <1>1
<1>4. ASSUME Once(s \o t) PROVE Once(s) /\ Once(t) /\ \A x : ~(In(x, s) /\ In(x, t))
  <2>1. Once(s)
    BY <1>1, <1>3, <1>4 DEF Once
  <2>2. Once(t)
    <3> SUFFICES ASSUME NEW i \in 1..Len(t), NEW j \in 1..Len(t), t[i] = t[j] PROVE i = j
      BY DEF Once
    <3>1. i + Len(s) = j + Len(s)
      BY <1>1, <1>2, <1>4 DEF Once
    <3> QED BY <1>1, <3>1
  <2>3. ASSUME NEW x, In(x, s), In(x, t) PROVE FALSE
    <3>1. PICK i \in 1..Len(s) : s[i] = x
      BY <2>3 DEF In
    <3>2. PICK j \in 1..Len(t) : t[j] = x
      BY <2>3 DEF In
    <3>3. i = j + Len(s)
      BY <1>1, <1>2, <1>3, <1>4, <3>1, <3>2 DEF Once
    <3> QED BY <1>1, <3>3
  <2> QED BY <2>1, <2>2, <2>3
<1>5. ASSUME Once(s), Once(t), \A x : ~(In(x, s) /\ In(x, t)) PROVE Once(s \o t)
  <2> SUFFICES ASSUME NEW i \in 1..Len(s) + Len(t), NEW j \in 1..Len(s) + Len(t),
                      (s \o t)[i] = (s \o t)[j]
               PROVE  i = j
    BY <1>1 DEF Once
  <2>1. CASE i <= Len(s) /\ j <= Len(s)
    <3>1. s[i] = s[j] /\ i \in 1..Len(s) /\ j \in 1..Len(s)
      BY <1>1, <2>1
    <3> QED BY <1>5, <3>1 DEF Once
  <2>2. CASE ~(i <= Len(s)) /\ ~(j <= Len(s))
    <3>1. /\ t[i - Len(s)] = t[j - Len(s)]
          /\ i - Len(s) \in 1..Len(t) /\ j - Len(s) \in 1..Len(t)
      BY <1>1, <2>2
    <3>2. i - Len(s) = j - Len(s)
      BY <1>5, <3>1 DEF Once
    <3> QED BY <1>1, <3>2
  <2>3. CASE i <= Len(s) /\ ~(j <= Len(s))
    <3>1. i \in 1..Len(s) /\ j - Len(s) \in 1..Len(t) /\ s[i] = t[j - Len(s)]
      BY <1>1, <2>3
    <3> QED BY <1>5, <3>1 DEF In
  <2>4. CASE ~(i <= Len(s)) /\ j <= Len(s)
    <3>1. j \in 1..Len(s) /\ i - Len(s) \in 1..Len(t) /\ s[j] = t[i - Len(s)]
      BY <1>1, <2>4
    <3> QED BY <1>5, <3>1 DEF In
  <2> QED BY <2>1, <2>2, <2>3, <2>4
<1> QED BY <1>4, <1>5

\* One element, as a sequence.
LEMMA OnlyOne ==
  ASSUME NEW S, NEW x \in S
  PROVE  <<x>> \in Seq(S) /\ Once(<<x>>) /\ \A y : In(y, <<x>>) <=> y = x
BY DEF Once, In

LEMMA InNothing == Once(<<>>) /\ \A y : ~In(y, <<>>)
BY DEF Once, In

\* To take the head of one sequence and join it to the tail of another
\* changes nothing of the two in a row.
LEMMA HeadMovesOver ==
  ASSUME NEW S, NEW s \in Seq(S), NEW t \in Seq(S), t # <<>>
  PROVE  /\ Head(t) \in S /\ Tail(t) \in Seq(S) /\ t = <<Head(t)>> \o Tail(t)
         /\ Append(s, Head(t)) = s \o <<Head(t)>>
         /\ Append(s, Head(t)) \o Tail(t) = s \o t
<1>1. Head(t) \in S /\ Tail(t) \in Seq(S)
  BY HeadTailProperties
<1>2. t = <<Head(t)>> \o Tail(t)
  OBVIOUS
<1>3. Append(s, Head(t)) = s \o <<Head(t)>> /\ <<Head(t)>> \in Seq(S)
  BY <1>1
<1>4. (s \o <<Head(t)>>) \o Tail(t) = s \o (<<Head(t)>> \o Tail(t))
  BY <1>1, <1>3, ConcatAssociative
<1> QED BY <1>1, <1>2, <1>3, <1>4

----------------------------------------------------------------------------
(* What the pipeline carries.                                              *)

Line == arrived \o held \o queue

Carried(x) == In(x, Line) \/ In(x, claimed)

\* Each place of the run loop has only its own hands full.
PlaceInv ==
    /\ at \in {"drain", "between", "push"} => held = <<>> /\ arrived = <<>>
    /\ at = "ambient" => held = <<>>
    /\ at # "push" => claimed = <<>>

OnceInv == Once(Line) /\ Once(claimed) /\ \A x \in Items : ~(In(x, Line) /\ In(x, claimed))

\* What may still enter the pipeline is not in it: a message between its
\* depth check and its push, and a wakeup that has not fired.
AsideInv ==
    /\ \A r \in Requests : request[r] # Nothing =>
         ~Carried(request[r]) /\ \A q \in Requests : request[q] = request[r] => q = r
    /\ \A w \in Wakeups : status[w] \in {"pending", "due"} => ~Carried(w)

OrderInv == IntakeInv /\ PlaceInv /\ OnceInv /\ AsideInv

LEMMA LineType ==
  ASSUME TypeOK
  PROVE  /\ arrived \o held \in Seq(Items) /\ Line \in Seq(Items) /\ claimed \in Seq(Items)
         /\ \A x : In(x, Line) <=> In(x, arrived) \/ In(x, held) \/ In(x, queue)
<1>1. arrived \o held \in Seq(Items)
  BY ConcatProperties DEF TypeOK
<1>2. Line \in Seq(Items)
  BY <1>1, ConcatProperties DEF TypeOK, Line
<1>3. claimed \in Seq(Items)
  BY SeqMonotonic DEF TypeOK, Items
<1>4. ASSUME NEW x PROVE In(x, Line) <=> In(x, arrived) \/ In(x, held) \/ In(x, queue)
  <2>1. In(x, Line) <=> In(x, arrived \o held) \/ In(x, queue)
    BY <1>1, InConcat DEF TypeOK, Line
  <2>2. In(x, arrived \o held) <=> In(x, arrived) \/ In(x, held)
    BY InConcat DEF TypeOK
  <2> QED BY <2>1, <2>2
<1> QED BY <1>1, <1>2, <1>3, <1>4

LEMMA CarriedIsInPipeline ==
  ASSUME TypeOK, NEW x
  PROVE  Carried(x) <=> InPipeline(x)
BY LineType DEF Carried, InPipeline

LEMMA CarriedIsItem ==
  ASSUME TypeOK, NEW x, In(x, Line) \/ In(x, claimed)
  PROVE  x \in Items
BY LineType, ElementOfSeq DEF In

----------------------------------------------------------------------------
(* How a step moves the line.                                              *)

\* An item pushed to Redis joins the line at its tail.
LEMMA LineGrows ==
  ASSUME TypeOK, NEW x \in Items, queue' = Append(queue, x), UNCHANGED <<arrived, held>>
  PROVE  /\ Line' = Append(Line, x)
         /\ \A y : In(y, Line') <=> In(y, Line) \/ y = x
         /\ ~In(x, Line) /\ Once(Line) => Once(Line')
<1>1. /\ arrived \o held \in Seq(Items) /\ queue \in Seq(Items) /\ Line \in Seq(Items)
      /\ <<x>> \in Seq(Items)
  BY LineType, OnlyOne DEF TypeOK
<1>2. Append(queue, x) = queue \o <<x>> /\ Append(Line, x) = Line \o <<x>>
  BY <1>1
<1>3. Line' = (arrived \o held) \o (queue \o <<x>>)
  BY <1>2 DEF Line
<1>4. Line' = Line \o <<x>>
  BY <1>1, <1>3, ConcatAssociative DEF Line
<1>5. \A y : In(y, Line') <=> In(y, Line) \/ y = x
  BY <1>1, <1>4, InConcat, OnlyOne
<1>6. ~In(x, Line) /\ Once(Line) => Once(Line')
  BY <1>1, <1>4, OnceConcat, OnlyOne
<1> QED BY <1>2, <1>4, <1>5, <1>6

\* A batch leaves Redis for the Sensorium's hands, and its place in the line
\* is the same.
LEMMA DrainKeepsLine ==
  ASSUME OrderInv, Drain
  PROVE  Line' = Line /\ (at' = "ambient" => held' = <<>>)
<1> DEFINE n == First(Batch, Len(queue))
<1>1. queue \in Seq(Items) /\ Len(queue) \in Nat /\ n \in 0..Len(queue)
  BY IntakeAssumption, LenProperties DEF OrderInv, IntakeInv, TypeOK, First
<1>2. arrived = <<>> /\ held = <<>> /\ arrived' = <<>>
  BY DEF OrderInv, PlaceInv, Drain
<1>3. held' = SubSeq(queue, 1, n) /\ queue' = SubSeq(queue, n + 1, Len(queue))
  BY DEF Drain
<1>4. held' \o queue' = SubSeq(queue, 1, Len(queue))
  <2>1. 1 \in 1..Len(queue) + 1 /\ n \in 1 - 1..Len(queue) /\ Len(queue) \in n..Len(queue)
    BY <1>1
  <2> QED BY <1>1, <1>3, <2>1, ConcatAdjacentSubSeq
<1>5. held' \o queue' = queue
  BY <1>1, <1>4, SubSeqFull
<1>6. held' \in Seq(Items)
  <2>1. \A i \in 1..n : queue[i] \in Items
    BY <1>1, ElementOfSeq
  <2> QED BY <1>1, <1>3, <2>1, SubSeqProperties
<1>7. Line' = held' \o queue' /\ Line = queue
  BY <1>1, <1>2, <1>6, ConcatEmptySeq, EmptySeq DEF Line
<1>8. at' = (IF n = 0 THEN "ambient" ELSE "persist")
  BY DEF Drain
<1>9. n = 0 => held' = <<>>
  BY <1>1, <1>3, SubSeqEmpty
<1> QED BY <1>5, <1>7, <1>8, <1>9

LEMMA PersistKeepsLine ==
  ASSUME OrderInv, PersistInput
  PROVE  Line' = Line /\ (at' = "ambient" => held' = <<>>)
<1>1. arrived \in Seq(Items) /\ held \in Seq(Items) /\ held # <<>>
  BY DEF OrderInv, IntakeInv, HandInv, TypeOK, PersistInput
<1>2. arrived' \o held' = arrived \o held
  BY <1>1, HeadMovesOver DEF PersistInput
<1>3. Len(held) = 1 => Tail(held) = <<>>
  BY <1>1, RestOfMany
<1> QED BY <1>2, <1>3 DEF Line, PersistInput, SensoriumFrame

\* What the tick has perceived, or lost, was the head of the line.
LEMMA LineLosesHead ==
  ASSUME TypeOK, TypeOK', arrived' = <<>>, held' = <<>>, queue' = queue
  PROVE  /\ Line = (arrived \o held) \o Line' /\ Line' \in Seq(Items)
         /\ \A x : In(x, Line') => In(x, Line)
         /\ Once(Line) => Once(Line')
<1>1. Line' = queue /\ queue \in Seq(Items)
  BY ConcatEmptySeq, EmptySeq DEF Line, TypeOK
<1>2. Line = (arrived \o held) \o Line' /\ arrived \o held \in Seq(Items)
  BY <1>1, LineType DEF Line
<1> QED BY <1>1, <1>2, InConcat, OnceConcat

LEMMA ClaimedLosesHead ==
  ASSUME OrderInv, PushWakeup
  PROVE  /\ Head(claimed) \in Wakeups /\ claimed' \in Seq(Items) /\ Once(claimed')
         /\ \A x : In(x, claimed) <=> In(x, claimed') \/ x = Head(claimed)
         /\ ~In(Head(claimed), claimed')
         /\ at' # "push" => claimed' = <<>>
<1>1. claimed # <<>> /\ claimed \in Seq(Wakeups) /\ Once(claimed)
  BY DEF OrderInv, OnceInv, IntakeInv, HandInv, TypeOK, PushWakeup
<1>2. /\ Head(claimed) \in Wakeups /\ Tail(claimed) \in Seq(Wakeups)
      /\ claimed = <<Head(claimed)>> \o Tail(claimed)
      /\ <<Head(claimed)>> \in Seq(Wakeups)
  BY <1>1, HeadMovesOver, OnlyOne
<1>3. claimed' = Tail(claimed) /\ claimed' \in Seq(Items)
  BY <1>2, SeqMonotonic DEF PushWakeup, Items
<1>4. Len(claimed) = 1 => Tail(claimed) = <<>>
  BY <1>1, RestOfMany
<1>5. \A x : In(x, <<Head(claimed)>>) <=> x = Head(claimed)
  BY <1>2, OnlyOne
<1>6. Once(claimed') /\ ~In(Head(claimed), claimed')
  BY <1>1, <1>2, <1>3, <1>5, OnceConcat
<1>7. ASSUME NEW x PROVE In(x, claimed) <=> In(x, claimed') \/ x = Head(claimed)
  <2>1. In(x, <<Head(claimed)>> \o Tail(claimed)) <=> In(x, <<Head(claimed)>>) \/ In(x, Tail(claimed))
    BY <1>2, InConcat
  <2>2. In(x, claimed) <=> In(x, <<Head(claimed)>>) \/ In(x, Tail(claimed))
    BY ONLY <1>2, <2>1
  <2> QED BY <1>3, <1>5, <2>2
<1>8. at' # "push" => Len(claimed) = 1
  BY DEF PushWakeup
<1> QED BY <1>2, <1>3, <1>4, <1>6, <1>7, <1>8

\* The claimed rows, in whatever order, are the due ones and each is there once.
LEMMA ClaimIsOfDue ==
  ASSUME OrderInv, ClaimDue
  PROVE  Once(claimed') /\ \A x : In(x, claimed') => x \in Due
<1>1. Due \subseteq Wakeups /\ IsFiniteSet(Due) /\ Cardinality(Due) \in Nat
  <2>1. Due \in SUBSET Wakeups
    BY DEF Due
  <2> QED BY <2>1, FS_Subset, FS_CardinalityType, IntakeAssumption
<1> DEFINE k == Cardinality(Due)
<1>2. claimed' \in [1..k -> Due] /\ \A w \in Due : In(w, claimed')
  BY DEF ClaimDue, Orders
<1>3. Len(claimed') = k /\ claimed' \in Seq(Due)
  BY <1>1, <1>2
<1>4. \A x : In(x, claimed') => x \in Due
  BY <1>2, <1>3 DEF In
<1>5. \A w \in Due : \E i \in 1..k : claimed'[i] = w
  BY <1>2, <1>3 DEF In
<1>6. claimed' \in Surjection(1..k, Due)
  BY <1>2, <1>5 DEF Surjection
<1>7. IsFiniteSet(1..k) /\ Cardinality(1..k) = k
  <2>1. IsFiniteSet(1..k) /\ Cardinality(1..k) = (IF 1 > k THEN 0 ELSE k - 1 + 1)
    BY <1>1, FS_Interval
  <2> QED BY <1>1, <2>1
<1>8. claimed' \in Injection(1..k, Due)
  BY <1>6, <1>7, FS_Surjection
<1>9. Once(claimed')
  BY <1>3, <1>8 DEF Injection, IsInjective, Once
<1> QED BY <1>4, <1>9

----------------------------------------------------------------------------
(* The steps keep the order.                                               *)

\* A step that carries nothing new puts nothing aside into the pipeline.
LEMMA NothingNewCarried ==
  ASSUME AsideInv, \A x : Carried(x)' => Carried(x),
         \A r \in Requests : request'[r] \in {Nothing, request[r]},
         \A w \in Wakeups : status'[w] \in {"pending", "due"} => status[w] \in {"pending", "due"}
  PROVE  AsideInv'
BY DEF AsideInv, Carried

LEMMA DoorsKeepOrder ==
  ASSUME OrderInv, IntakeInv',
         \/ \E r \in Requests, m \in Messages : CheckDepth(r, m)
         \/ \E r \in Requests : PushInput(r) \/ PushInputFails(r)
         \/ \E m \in Messages : Say(m)
  PROVE  OrderInv'
<1>1. PlaceInv'
  BY DEF OrderInv, PlaceInv, CheckDepth, PushInput, PushInputFails, Say, DoorFrame
<1>2. ASSUME NEW r \in Requests, NEW m \in Messages, CheckDepth(r, m) PROVE OrderInv'
  <2>1. UNCHANGED <<Line, claimed, status>>
    BY <1>2 DEF CheckDepth, DoorFrame, Line
  <2>2. ~Carried(m) /\ \A q \in Requests : request[q] # m
    BY <1>2, CarriedIsInPipeline DEF CheckDepth, Fresh, OrderInv, IntakeInv
  <2>3. request' = [request EXCEPT ![r] = m]
    BY <1>2 DEF CheckDepth
  <2>4. AsideInv'
    BY <2>1, <2>2, <2>3 DEF OrderInv, AsideInv, Carried, IntakeInv, TypeOK
  <2> QED BY <1>1, <2>1, <2>4 DEF OrderInv, OnceInv
<1>3. ASSUME NEW r \in Requests, PushInput(r) PROVE OrderInv'
  <2> DEFINE x == request[r]
  <2>1. x \in Messages /\ x \in Items /\ ~Carried(x) /\ x # Nothing
    BY <1>3 DEF PushInput, OrderInv, AsideInv, IntakeInv, TypeOK, Items
  <2>2. (\A y : In(y, Line') <=> In(y, Line) \/ y = x) /\ Once(Line')
    BY <1>3, <2>1, LineGrows DEF PushInput, DoorFrame, OrderInv, OnceInv, IntakeInv, Carried
  <2>3. claimed' = claimed /\ status' = status /\ request' = [request EXCEPT ![r] = Nothing]
    BY <1>3 DEF PushInput, DoorFrame
  <2>4. OnceInv'
    BY <2>1, <2>2, <2>3 DEF OrderInv, OnceInv, Carried
  <2>5. \A w \in Wakeups : w # x
    BY <2>1, IntakeAssumption
  <2>6. AsideInv'
    BY <2>1, <2>2, <2>3, <2>5 DEF OrderInv, AsideInv, Carried, IntakeInv, TypeOK
  <2> QED BY <1>1, <2>4, <2>6 DEF OrderInv
<1>4. ASSUME NEW r \in Requests, PushInputFails(r) PROVE OrderInv'
  <2>1. UNCHANGED <<Line, claimed, status>>
    BY <1>4 DEF PushInputFails, DoorFrame, Line
  <2>2. \A q \in Requests : request'[q] \in {Nothing, request[q]}
    BY <1>4 DEF PushInputFails, OrderInv, IntakeInv, TypeOK
  <2>3. AsideInv'
    BY <2>1, <2>2, NothingNewCarried DEF OrderInv, Carried
  <2> QED BY <1>1, <2>1, <2>3 DEF OrderInv, OnceInv
<1>5. ASSUME NEW m \in Messages, Say(m) PROVE OrderInv'
  <2>1. m \in Items /\ ~Carried(m) /\ \A q \in Requests : request[q] # m
    BY <1>5, CarriedIsInPipeline DEF Say, Fresh, OrderInv, IntakeInv, Items
  <2>2. (\A y : In(y, Line') <=> In(y, Line) \/ y = m) /\ Once(Line')
    BY <1>5, <2>1, LineGrows DEF Say, DoorFrame, OrderInv, OnceInv, IntakeInv, Carried
  <2>3. UNCHANGED <<claimed, status, request>>
    BY <1>5 DEF Say, DoorFrame
  <2>4. OnceInv'
    BY <2>1, <2>2, <2>3 DEF OrderInv, OnceInv, Carried
  <2>5. \A w \in Wakeups : w # m
    BY IntakeAssumption
  <2>6. AsideInv'
    BY <2>1, <2>2, <2>3, <2>5 DEF OrderInv, AsideInv, Carried
  <2> QED BY <1>1, <2>4, <2>6 DEF OrderInv
<1> QED BY <1>2, <1>3, <1>4, <1>5

LEMMA PerceiveKeepsOrder ==
  ASSUME OrderInv, IntakeInv', Perceive
  PROVE  OrderInv'
<1>1. request' = request /\ status' = status /\ claimed' = claimed
  BY DEF Perceive, Drain, DrainFails, PersistInput, SampleAmbient, PerceiveFails, SensoriumFrame
<1>2. ASSUME Line' = Line PROVE OnceInv' /\ AsideInv'
  <2>1. AsideInv'
    BY <1>1, <1>2, NothingNewCarried DEF OrderInv, Carried
  <2> QED BY <1>1, <1>2, <2>1 DEF OrderInv, OnceInv
<1>3. ASSUME arrived' = <<>>, held' = <<>>, queue' = queue PROVE OnceInv' /\ AsideInv'
  <2>1. (\A x : In(x, Line') => In(x, Line)) /\ Once(Line')
    BY <1>3, LineLosesHead DEF OrderInv, OnceInv, IntakeInv
  <2>2. AsideInv'
    BY <1>1, <2>1, NothingNewCarried DEF OrderInv, Carried
  <2> QED BY <1>1, <2>1, <2>2 DEF OrderInv, OnceInv
<1>4. CASE Drain
  <2>1. PlaceInv'
    BY <1>1, <1>4, DrainKeepsLine DEF OrderInv, PlaceInv, Drain
  <2> QED BY <1>2, <1>4, <2>1, DrainKeepsLine DEF OrderInv
<1>5. CASE DrainFails
  <2>1. PlaceInv' /\ Line' = Line
    BY <1>1, <1>5 DEF OrderInv, PlaceInv, DrainFails, SensoriumFrame, Line
  <2> QED BY <1>2, <2>1 DEF OrderInv
<1>6. CASE PersistInput
  <2>1. PlaceInv'
    BY <1>1, <1>6, PersistKeepsLine DEF OrderInv, PlaceInv, PersistInput
  <2> QED BY <1>2, <1>6, <2>1, PersistKeepsLine DEF OrderInv
<1>7. CASE SampleAmbient \/ PerceiveFails
  <2>1. arrived' = <<>> /\ held' = <<>> /\ queue' = queue /\ at' = "between"
    BY <1>7 DEF OrderInv, PlaceInv, SampleAmbient, PerceiveFails, SensoriumFrame
  <2>2. PlaceInv'
    BY <1>1, <1>7, <2>1 DEF OrderInv, PlaceInv, SampleAmbient, PerceiveFails
  <2> QED BY <1>3, <2>1, <2>2 DEF OrderInv
<1> QED BY <1>4, <1>5, <1>6, <1>7 DEF Perceive

LEMMA SchedulerKeepsOrder ==
  ASSUME OrderInv, IntakeInv',
         FireDue \/ \E w \in Wakeups : Schedule(w) \/ FireAtPasses(w)
  PROVE  OrderInv'
<1>1. request' = request /\ arrived' = arrived /\ held' = held
  BY DEF FireDue, ClaimDue, ClaimFails, PushWakeup, PushWakeupFails, Schedule, FireAtPasses, SchedulerFrame
<1>2. CASE ClaimDue
  <2>1. Line' = Line /\ claimed = <<>>
    BY <1>1, <1>2 DEF ClaimDue, Line, OrderInv, PlaceInv
  <2>2. Once(claimed') /\ \A x : In(x, claimed') => x \in Due
    BY <1>2, ClaimIsOfDue
  <2>3. \A w \in Due : ~In(w, Line) /\ w \in Wakeups
    BY DEF Due, OrderInv, AsideInv, Carried
  <2>4. OnceInv'
    BY <2>1, <2>2, <2>3 DEF OrderInv, OnceInv
  <2>5. status' = [w \in Wakeups |-> IF w \in Due THEN "fired" ELSE status[w]]
    BY <1>2 DEF ClaimDue
  <2>6. \A r \in Requests : request[r] # Nothing => request[r] \notin Wakeups
    BY IntakeAssumption DEF OrderInv, IntakeInv, TypeOK
  <2>7. AsideInv'
    BY <1>1, <2>1, <2>2, <2>3, <2>5, <2>6 DEF OrderInv, AsideInv, Carried
  <2>8. PlaceInv'
    <3>1. Due = {} => claimed' = <<>>
      <4>1. claimed' \in Seq(Wakeups)
        BY DEF IntakeInv, TypeOK
      <4>2. Len(claimed') # 0 => In(claimed'[1], claimed')
        BY <4>1, LenProperties DEF In
      <4> QED BY <2>2, <4>1, <4>2, NoLength
    <3> QED BY <1>1, <1>2, <3>1 DEF OrderInv, PlaceInv, ClaimDue
  <2> QED BY <2>4, <2>7, <2>8 DEF OrderInv
<1>3. CASE PushWakeup
  <2> DEFINE x == Head(claimed)
  <2>1. /\ x \in Wakeups /\ Once(claimed') /\ ~In(x, claimed')
        /\ \A y : In(y, claimed) <=> In(y, claimed') \/ y = x
        /\ at' # "push" => claimed' = <<>>
    BY <1>3, ClaimedLosesHead
  <2>2. x \in Items /\ ~In(x, Line)
    BY <2>1 DEF OrderInv, OnceInv, Items
  <2>3. (\A y : In(y, Line') <=> In(y, Line) \/ y = x) /\ Once(Line')
    BY <1>1, <1>3, <2>2, LineGrows DEF PushWakeup, OrderInv, OnceInv, IntakeInv
  <2>4. OnceInv'
    BY <2>1, <2>3 DEF OrderInv, OnceInv
  <2>5. AsideInv'
    <3>1. \A y : Carried(y)' => Carried(y)
      BY <2>1, <2>3 DEF Carried
    <3>2. status' = status
      BY <1>3 DEF PushWakeup, SchedulerFrame
    <3> QED BY <1>1, <3>1, <3>2, NothingNewCarried DEF OrderInv
  <2>6. PlaceInv'
    BY <1>1, <1>3, <2>1 DEF OrderInv, PlaceInv, PushWakeup
  <2> QED BY <2>4, <2>5, <2>6 DEF OrderInv
<1>4. CASE ClaimFails \/ PushWakeupFails
  <2>1. Line' = Line /\ status' = status /\ claimed' = <<>>
    BY <1>1, <1>4 DEF ClaimFails, PushWakeupFails, Line, OrderInv, PlaceInv
  <2>2. AsideInv'
    BY <1>1, <2>1, InNothing, NothingNewCarried DEF OrderInv, Carried
  <2>3. OnceInv'
    BY <2>1, InNothing DEF OrderInv, OnceInv
  <2>4. PlaceInv'
    BY <1>1, <1>4, <2>1 DEF OrderInv, PlaceInv, ClaimFails, PushWakeupFails
  <2> QED BY <2>2, <2>3, <2>4 DEF OrderInv
<1>5. ASSUME NEW w \in Wakeups, Schedule(w) \/ FireAtPasses(w) PROVE OrderInv'
  <2>1. UNCHANGED <<Line, claimed, at>>
    BY <1>1, <1>5 DEF Schedule, FireAtPasses, Line
  <2>2. ~Carried(w)
    BY <1>5, CarriedIsInPipeline DEF Schedule, FireAtPasses, OrderInv, IntakeInv, AsideInv
  <2>3. \A v \in Wakeups : v # w => status'[v] = status[v]
    BY <1>5 DEF Schedule, FireAtPasses, OrderInv, IntakeInv, TypeOK
  <2>4. AsideInv'
    BY <1>1, <2>1, <2>2, <2>3 DEF OrderInv, AsideInv, Carried
  <2> QED BY <1>1, <2>1, <2>4 DEF OrderInv, OnceInv, PlaceInv
<1> QED BY <1>2, <1>3, <1>4, <1>5 DEF FireDue

LEMMA ProcessKeepsOrder ==
  ASSUME OrderInv, IntakeInv', Start \/ Die
  PROVE  OrderInv'
<1>1. FreshMemory
  BY DEF Start, Die
<1>2. (\A x : In(x, Line') => In(x, Line)) /\ Once(Line')
  BY <1>1, LineLosesHead DEF FreshMemory, OrderInv, OnceInv, IntakeInv
<1>3. claimed' = <<>> /\ status' = status /\ \A r \in Requests : request'[r] = Nothing
  BY <1>1 DEF FreshMemory
<1>4. AsideInv'
  BY <1>2, <1>3, InNothing, NothingNewCarried DEF OrderInv, Carried
<1>5. OnceInv'
  BY <1>2, <1>3, InNothing DEF OnceInv
<1>6. PlaceInv'
  BY <1>1 DEF FreshMemory, PlaceInv
<1> QED BY <1>4, <1>5, <1>6 DEF OrderInv

LEMMA OrderInit == Init => OrderInv
<1> SUFFICES ASSUME Init PROVE OrderInv
  OBVIOUS
<1>1. IntakeInv /\ PlaceInv
  BY IntakeInit DEF Init, PlaceInv
<1>2. Line = <<>> /\ claimed = <<>>
  BY ConcatEmptySeq, EmptySeq DEF Init, Line
<1>3. OnceInv
  BY <1>2, InNothing DEF OnceInv
<1>4. AsideInv
  BY <1>2, InNothing DEF AsideInv, Carried, Init
<1> QED BY <1>1, <1>3, <1>4 DEF OrderInv

LEMMA OrderNext == OrderInv /\ [Next]_vars => OrderInv'
<1> SUFFICES ASSUME OrderInv, [Next]_vars PROVE OrderInv'
  OBVIOUS
<1>1. IntakeInv'
  BY IntakeNext DEF OrderInv
<1>2. CASE \/ \E r \in Requests, m \in Messages : CheckDepth(r, m)
           \/ \E r \in Requests : PushInput(r) \/ PushInputFails(r)
           \/ \E m \in Messages : Say(m)
  BY <1>1, <1>2, DoorsKeepOrder
<1>3. CASE Perceive
  BY <1>1, <1>3, PerceiveKeepsOrder
<1>4. CASE FireDue \/ \E w \in Wakeups : Schedule(w) \/ FireAtPasses(w)
  BY <1>1, <1>4, SchedulerKeepsOrder
<1>5. CASE Start \/ Die
  BY <1>1, <1>5, ProcessKeepsOrder
<1>6. CASE UNCHANGED vars
  BY <1>1, <1>6 DEF vars, OrderInv, PlaceInv, OnceInv, AsideInv, Carried, Line
<1> QED BY <1>2, <1>3, <1>4, <1>5, <1>6 DEF Next

----------------------------------------------------------------------------
(* The order, as theorems.                                                 *)

(* Every reachable state keeps what it carries in one line without copies, *)
(* and apart from what may still enter it (drain, fire_due, post_input).   *)
THEOREM OrderInvariant == Spec => []OrderInv
BY OrderInit, OrderNext, PTL DEF Spec

(* Whatever fails and whenever the process dies, nothing is in the         *)
(* pipeline twice and a wakeup that has not fired is nowhere in it         *)
(* (InputQueue.drain, Scheduler.fire_due).                                 *)
THEOREM NeverTwice == Spec => []AtMostOnce
<1>1. OrderInv => AtMostOnce
  <2> SUFFICES ASSUME OrderInv PROVE AtMostOnce
    OBVIOUS
  <2>1. Line \in Seq(Items) /\ claimed \in Seq(Items)
    BY LineType DEF OrderInv, IntakeInv
  <2>2. \A x : ~(In(x, Line) /\ In(x, claimed))
    BY CarriedIsItem DEF OrderInv, OnceInv, IntakeInv
  <2>3. Once(Line \o claimed)
    BY <2>1, <2>2, OnceConcat DEF OrderInv, OnceInv
  <2>4. \A w \in Wakeups : status[w] \in {"pending", "due"} => ~InPipeline(w)
    BY CarriedIsInPipeline DEF OrderInv, AsideInv, IntakeInv
  <2> QED BY <2>3, <2>4 DEF AtMostOnce, Line
<1> QED BY <1>1, OrderInvariant, PTL

\* What is left when a prefix leaves.
LEMMA PrefixLeaves ==
  ASSUME NEW S, NEW s \in Seq(S), NEW t \in Seq(S)
  PROVE  /\ SubSeq(s \o t, Len(s) + 1, Len(s \o t)) = t
         /\ s = <<>> \/ Len(s) \in 1..Len(s \o t)
<1> DEFINE c == s \o t
           u == SubSeq(c, Len(s) + 1, Len(c))
<1>1. /\ Len(s) \in Nat /\ Len(t) \in Nat /\ Len(c) = Len(s) + Len(t) /\ c \in Seq(S)
      /\ \A i \in 1..Len(s) + Len(t) : c[i] = IF i <= Len(s) THEN s[i] ELSE t[i - Len(s)]
  BY ConcatProperties, LenProperties
<1>2. \A i \in Len(s) + 1..Len(c) : c[i] \in S
  BY <1>1, ElementOfSeq
<1>3. /\ u \in Seq(S)
      /\ Len(u) = IF Len(s) + 1 <= Len(c) THEN Len(c) - (Len(s) + 1) + 1 ELSE 0
      /\ \A i \in 1..Len(c) - (Len(s) + 1) + 1 : u[i] = c[Len(s) + 1 + i - 1]
  BY <1>1, <1>2, SubSeqProperties
<1>4. Len(u) = Len(t)
  BY <1>1, <1>3
<1>5. \A i \in 1..Len(u) : u[i] = t[i]
  <2> SUFFICES ASSUME NEW i \in 1..Len(u) PROVE u[i] = t[i]
    OBVIOUS
  <2>1. i \in 1..Len(c) - (Len(s) + 1) + 1 /\ Len(s) + 1 + i - 1 = Len(s) + i
    BY <1>1, <1>4
  <2>2. Len(s) + i \in 1..Len(s) + Len(t) /\ ~(Len(s) + i <= Len(s)) /\ (Len(s) + i) - Len(s) = i
    BY <1>1, <1>4
  <2>3. u[i] = c[Len(s) + i]
    BY <1>3, <2>1
  <2>4. c[Len(s) + i] = t[i]
    BY <1>1, <2>2
  <2> QED BY <2>3, <2>4
<1>6. u = t
  BY <1>3, <1>4, <1>5, SeqEqual
<1>7. s = <<>> \/ Len(s) \in 1..Len(c)
  BY <1>1, NoLength
<1> QED BY <1>6, <1>7

LEMMA LineLeaves ==
  ASSUME OrderInv, OrderInv', arrived' = <<>>, held' = <<>>, queue' = queue
  PROVE  Line' = Line \/ \E n \in 1..Len(Line) : Line' = SubSeq(Line, n + 1, Len(Line))
<1>1. Line = (arrived \o held) \o Line'
  BY LineLosesHead DEF OrderInv, IntakeInv
<1>2. arrived \o held \in Seq(Items) /\ Line' \in Seq(Items)
  BY LineType, LineLosesHead DEF OrderInv, IntakeInv
<1>3. CASE arrived \o held = <<>>
  BY <1>1, <1>2, <1>3, ConcatEmptySeq
<1>4. CASE Len(arrived \o held) \in 1..Len(Line)
  BY <1>1, <1>2, <1>4, PrefixLeaves
<1> QED BY <1>1, <1>2, <1>3, <1>4, PrefixLeaves

LEMMA StepIsFifo ==
  ASSUME OrderInv, OrderInv', [Next]_vars
  PROVE  \/ Line' = Line
         \/ \E x \in Items : ~In(x, Line) /\ Line' = Append(Line, x)
         \/ \E n \in 1..Len(Line) : Line' = SubSeq(Line, n + 1, Len(Line))
<1> DEFINE Goal == \/ Line' = Line
                   \/ \E x \in Items : ~In(x, Line) /\ Line' = Append(Line, x)
                   \/ \E n \in 1..Len(Line) : Line' = SubSeq(Line, n + 1, Len(Line))
<1>1. ASSUME NEW r \in Requests, PushInput(r) PROVE Goal
  <2>1. request[r] \in Items /\ ~In(request[r], Line)
    BY <1>1 DEF PushInput, OrderInv, AsideInv, Carried, IntakeInv, TypeOK, Items
  <2> QED BY <1>1, <2>1, LineGrows DEF PushInput, DoorFrame, OrderInv, IntakeInv
<1>2. ASSUME NEW m \in Messages, Say(m) PROVE Goal
  <2>1. m \in Items /\ ~In(m, Line)
    BY <1>2, CarriedIsInPipeline DEF Say, Fresh, OrderInv, IntakeInv, Items, Carried
  <2> QED BY <1>2, <2>1, LineGrows DEF Say, DoorFrame, OrderInv, IntakeInv
<1>3. CASE PushWakeup
  <2>1. Head(claimed) \in Items /\ ~In(Head(claimed), Line)
    BY <1>3, ClaimedLosesHead DEF OrderInv, OnceInv, Items
  <2> QED BY <1>3, <2>1, LineGrows DEF PushWakeup, SchedulerFrame, OrderInv, IntakeInv
<1>4. CASE Drain \/ PersistInput
  BY <1>4, DrainKeepsLine, PersistKeepsLine
<1>5. CASE SampleAmbient \/ PerceiveFails \/ Start \/ Die
  <2>1. arrived' = <<>> /\ held' = <<>> /\ queue' = queue
    BY <1>5 DEF OrderInv, PlaceInv, SampleAmbient, PerceiveFails, SensoriumFrame, Start, Die, FreshMemory
  <2> QED BY <2>1, LineLeaves
<1>6. CASE \/ DrainFails \/ ClaimDue \/ ClaimFails \/ PushWakeupFails
           \/ \E w \in Wakeups : Schedule(w) \/ FireAtPasses(w)
           \/ \E r \in Requests : PushInputFails(r) \/ \E m \in Messages : CheckDepth(r, m)
           \/ UNCHANGED vars
  BY <1>6 DEF DrainFails, ClaimDue, ClaimFails, PushWakeupFails, Schedule, FireAtPasses,
              PushInputFails, CheckDepth, DoorFrame, SensoriumFrame, SchedulerFrame, vars, Line
<1> QED BY <1>1, <1>2, <1>3, <1>4, <1>5, <1>6 DEF Next, Perceive, FireDue

(* The pipeline implements a queue that loses at its head and nowhere      *)
(* else: whatever fails, nothing overtakes and nothing is repeated         *)
(* (InputQueue, "FIFO so messages are perceived in the order they          *)
(* arrived").                                                              *)
THEOREM PipelineIsFifo == Spec => InputsAreFifo
<1>1. Init => Abs!FInit
  <2> SUFFICES ASSUME Init PROVE arrived \o held \o queue = <<>>
    BY DEF Abs!FInit
  <2> QED BY ConcatEmptySeq, EmptySeq DEF Init
<1>2. OrderInv /\ OrderInv' /\ [Next]_vars => [Abs!FNext]_(arrived \o held \o queue)
  BY StepIsFifo DEF Abs!FNext, Abs!Join, Abs!Depart, Abs!Waiting, In, Line
<1> QED BY <1>1, <1>2, OrderInvariant, PTL DEF Spec, InputsAreFifo, Abs!FSpec

=============================================================================
