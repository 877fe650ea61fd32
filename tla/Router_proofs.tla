--------------------------- MODULE Router_proofs ---------------------------
(***************************************************************************)
(* Proofs about the router, for every set of providers, models and chains, *)
(* every threshold, cooldown, number of retries, budget and cost: the      *)
(* types, the ceiling with its overshoot, and what opens a circuit.        *)
(***************************************************************************)
EXTENDS Router, SequenceTheorems, TLAPS

\* Behind the ceiling: a paid step starts under the budget, and each of its
\* answers adds at most the cost of one.
SpendInv ==
    /\ SpendBounded
    /\ at = "ask" /\ Model \in Paid => spent <= Budget - 1 + tries * MaxCost

RouterInv == TypeOK /\ SpendInv /\ CircuitCountsFailures

----------------------------------------------------------------------------
(* What the constants are: the router's parameters, routing included.      *)
LEMMA Parameters ==
  /\ ProviderOf \in [Models -> Providers]
  /\ Paid \subseteq Models
  /\ Chains \subseteq Seq(Models) \ {<<>>}
  /\ Threshold \in Nat \ {0} /\ Cooldown \in Nat \ {0}
  /\ Retries \in Nat /\ Budget \in Nat \ {0} /\ MaxCost \in Nat
BY RouterAssumption DEF ValidRouting

----------------------------------------------------------------------------
(* The breaker's operations, one breaker at a time.                        *)

Counts(b) == b.state # "closed" <=> b.failures = Threshold

LEMMA ClosedCounts == Closed \in Breakers /\ Counts(Closed)
BY Parameters DEF Closed, Breakers, Counts

LEMMA PolledCounts ==
  ASSUME NEW b \in Breakers, Counts(b)
  PROVE  Polled(b) \in Breakers /\ Counts(Polled(b))
BY DEF Breakers, Counts, Polled

LEMMA CoolerCounts ==
  ASSUME NEW b \in Breakers, Counts(b)
  PROVE  Cooler(b) \in Breakers /\ Counts(Cooler(b))
BY Parameters DEF Breakers, Counts, Cooler

LEMMA FailedCounts ==
  ASSUME NEW b \in Breakers, Counts(b)
  PROVE  Failed(b) \in Breakers /\ Counts(Failed(b))
<1> DEFINE n == IF b.failures < Threshold THEN b.failures + 1 ELSE Threshold
<1>1. n \in 0..Threshold /\ b.failures <= Threshold
  BY Parameters DEF Breakers
<1>2. CASE b.state = "half_open" \/ n >= Threshold
  <2>1. n = Threshold
    BY <1>1, <1>2, Parameters DEF Breakers, Counts
  <2>2. Failed(b) = [failures |-> n, state |-> "open", cooling |-> Cooldown]
    BY <1>2 DEF Failed
  <2> QED BY <1>1, <2>1, <2>2, Parameters DEF Breakers, Counts
<1>3. CASE ~(b.state = "half_open" \/ n >= Threshold)
  <2>1. Failed(b) = [b EXCEPT !.failures = n]
    BY <1>3 DEF Failed
  <2>2. b.state = "closed" /\ n # Threshold
    BY <1>1, <1>3, Parameters DEF Breakers, Counts
  <2> QED BY <1>1, <2>1, <2>2 DEF Breakers, Counts
<1> QED BY <1>2, <1>3

----------------------------------------------------------------------------
(* Money.                                                                  *)

LEMMA OneMoreAnswer ==
  ASSUME NEW t \in 0..Retries, NEW cost \in 0..MaxCost, NEW s \in Nat,
         s <= Budget - 1 + t * MaxCost
  PROVE  s + cost <= Budget - 1 + (t + 1) * MaxCost
<1>1. (t + 1) * MaxCost = t * MaxCost + MaxCost
  BY Parameters
<1>2. t * MaxCost \in Nat
  BY Parameters
<1> QED BY <1>1, <1>2, Parameters

LEMMA StepFits ==
  ASSUME NEW t \in 0..Retries
  PROVE  Budget - 1 + (t + 1) * MaxCost <= Overshoot
<1>1. PICK d \in Nat : Retries = t + d
  <2>1. Retries - t \in Nat /\ Retries = t + (Retries - t)
    BY Parameters
  <2> QED BY <2>1
<1>2. (Retries + 1) * MaxCost = (t + 1) * MaxCost + d * MaxCost
  BY <1>1, Parameters
<1>3. d * MaxCost \in Nat /\ (t + 1) * MaxCost \in Nat
  BY <1>1, Parameters
<1> QED BY <1>2, <1>3, Parameters DEF Overshoot

LEMMA OvershootInRange == Overshoot \in Nat /\ Budget - 1 <= Overshoot
<1>1. (Retries + 1) * MaxCost \in Nat
  BY Parameters
<1> QED BY <1>1, Parameters DEF Overshoot

\* What is logged for one answer of the current step.
LEMMA LoggedFits ==
  ASSUME RouterInv, at = "ask", Logged
  PROVE  /\ spent' \in Nat /\ spent' <= Overshoot
         /\ Model \in Paid => spent' <= Budget - 1 + (tries + 1) * MaxCost
<1> USE DEF RouterInv, TypeOK, SpendInv, SpendBounded
<1>1. PICK cost \in 0..MaxCost : spent' = IF Model \in Paid THEN spent + cost ELSE spent
  <2>1. PICK c \in Cost(Model) : spent' \in {spent, spent + c}
    BY DEF Logged, Record
  <2>2. c \in 0..MaxCost /\ 0 \in 0..MaxCost /\ (Model \notin Paid => c = 0)
    BY <2>1, Parameters DEF Cost
  <2>3. /\ spent + 0 = spent
        /\ spent' = spent \/ spent' = spent + c
    BY <2>1
  <2> QED BY <2>2, <2>3
<1>2. CASE Model \in Paid
  <2>1. spent' = spent + cost /\ spent <= Budget - 1 + tries * MaxCost
    BY <1>1, <1>2
  <2>2. spent' <= Budget - 1 + (tries + 1) * MaxCost
    BY <2>1, OneMoreAnswer
  <2>3. spent' \in Nat
    BY <2>1, Parameters
  <2>4. (tries + 1) * MaxCost \in Nat
    BY Parameters
  <2> QED BY <2>2, <2>3, <2>4, StepFits, OvershootInRange, Parameters
<1>3. CASE Model \notin Paid
  BY <1>1, <1>3
<1> QED BY <1>2, <1>3

----------------------------------------------------------------------------
LEMMA InitRouterInv == Init => RouterInv
<1> SUFFICES ASSUME Init PROVE RouterInv
  OBVIOUS
<1>1. breaker \in [Providers -> Breakers] /\ CircuitCountsFailures
  BY ClosedCounts DEF Init, CircuitCountsFailures, Counts
<1>2. chain \in Seq(Models) /\ tries \in 0..Retries
  BY EmptySeq, Parameters DEF Init
<1>3. SpendInv
  BY OvershootInRange DEF Init, SpendInv, SpendBounded
<1> QED BY <1>1, <1>2, <1>3 DEF Init, RouterInv, TypeOK

\* The chain: giving up a step leaves a chain, and its head is a model.
LEMMA ChainRest ==
  ASSUME TypeOK, chain # <<>>
  PROVE  /\ Tail(chain) \in Seq(Models)
         /\ Model \in Models /\ Provider \in Providers
BY Parameters DEF TypeOK, Model, Provider

\* Replacing one breaker by one that counts right keeps them all right.
LEMMA OneBreaker ==
  ASSUME RouterInv, NEW p \in Providers, NEW b \in Breakers, Counts(b),
         breaker' = [breaker EXCEPT ![p] = b]
  PROVE  breaker' \in [Providers -> Breakers] /\ CircuitCountsFailures'
BY DEF RouterInv, TypeOK, CircuitCountsFailures, Counts

LEMMA RouterStep == RouterInv /\ [Next]_vars => RouterInv'
<1> SUFFICES ASSUME RouterInv, [Next]_vars PROVE RouterInv'
  OBVIOUS
<1>0. /\ TypeOK /\ SpendInv /\ SpendBounded /\ CircuitCountsFailures
      /\ 0 \in 0..Retries
      /\ \A p \in Providers : breaker[p] \in Breakers /\ Counts(breaker[p])
  BY Parameters
  DEF RouterInv, TypeOK, SpendInv, CircuitCountsFailures, Counts
<1>a. ASSUME UNCHANGED breaker PROVE breaker' \in [Providers -> Breakers] /\ CircuitCountsFailures'
  BY <1>0, <1>a DEF TypeOK, CircuitCountsFailures
<1>b. ASSUME UNCHANGED spent PROVE spent' \in Nat /\ SpendBounded'
  BY <1>0, <1>b DEF TypeOK, SpendBounded, Overshoot
<1>1. ASSUME NEW c \in Chains, Complete(c) PROVE RouterInv'
  <2>1. c \in Seq(Models)
    BY Parameters
  <2> QED BY <1>0, <1>1, <2>1, <1>a, <1>b DEF Complete, RouterInv, TypeOK, SpendInv
<1>2. CASE SkipOpen \/ BudgetBlocks
  <2>1. chain # <<>>
    BY <1>0, <1>2 DEF SkipOpen, BudgetBlocks, Exhausted, TypeOK
  <2>2. NextStep /\ UNCHANGED <<breaker, spent, outcome>>
    BY <1>2 DEF SkipOpen, BudgetBlocks, Exhausted
  <2> QED BY <1>0, <2>1, <2>2, ChainRest, <1>a, <1>b DEF NextStep, RouterInv, TypeOK, SpendInv
<1>3. CASE Enter
  <2>1. Provider \in Providers /\ chain # <<>>
    BY <1>0, <1>3, ChainRest DEF Enter
  <2>2. breaker' = [breaker EXCEPT ![Provider] = Polled(breaker[Provider])]
    BY <1>3 DEF Enter
  <2>3. breaker' \in [Providers -> Breakers] /\ CircuitCountsFailures'
    BY <1>0, <2>1, <2>2, PolledCounts, OneBreaker
  <2> QED BY <1>0, <1>3, <2>1, <2>3, <1>b DEF Enter, RouterInv, TypeOK, SpendInv, Model
<1>4. CASE BudgetAllows
  <2>1. tries * MaxCost \in Nat
    BY <1>0, Parameters DEF TypeOK
  <2>2. spent <= Budget - 1 + tries * MaxCost
    BY <1>0, <1>4, <2>1, Parameters DEF BudgetAllows, Exhausted, TypeOK
  <2> QED BY <1>0, <1>4, <2>2, <1>a, <1>b
      DEF BudgetAllows, Exhausted, RouterInv, TypeOK, SpendInv, Model
<1>5. CASE Answer \/ SchemaFailover
  <2>1. at = "ask" /\ Logged /\ chain # <<>>
    BY <1>0, <1>5 DEF Answer, SchemaFailover, TypeOK
  <2>2. breaker' = [breaker EXCEPT ![Provider] = Closed]
    BY <1>5 DEF Answer, SchemaFailover, Succeeded
  <2>3. breaker' \in [Providers -> Breakers] /\ CircuitCountsFailures'
    BY <1>0, <2>1, <2>2, ChainRest, ClosedCounts, OneBreaker
  <2>4. spent' \in Nat /\ SpendBounded'
    BY <2>1, LoggedFits DEF SpendBounded, Overshoot
  <2>5. chain' \in Seq(Models) /\ tries' = 0 /\ at' \in {"idle", "step"}
        /\ outcome' \in {"none", "completion", "unavailable", "crash"}
    BY <1>0, <1>5, <2>1, ChainRest, EmptySeq DEF Answer, SchemaFailover, NextStep, TypeOK
  <2> QED BY <1>0, <2>3, <2>4, <2>5 DEF RouterInv, TypeOK, SpendInv
<1>6. CASE BadAnswer
  <2>1. at = "ask" /\ Logged /\ chain' = chain /\ at' = at
    BY <1>6 DEF BadAnswer
  <2>2. spent' \in Nat /\ SpendBounded'
    BY <2>1, LoggedFits DEF SpendBounded, Overshoot
  <2>3. tries' = tries + 1 /\ tries' \in 0..Retries
    BY <1>0, <1>6, Parameters DEF BadAnswer, TypeOK
  <2>4. SpendInv'
    BY <2>1, <2>2, <2>3, LoggedFits DEF SpendInv, Model
  <2> QED BY <1>0, <1>6, <2>2, <2>3, <2>4, <1>a DEF BadAnswer, RouterInv, TypeOK
<1>7. CASE ProviderFails
  <2>1. chain # <<>>
    BY <1>0, <1>7 DEF ProviderFails, TypeOK
  <2>2. breaker' = [breaker EXCEPT ![Provider] = Failed(breaker[Provider])]
    BY <1>7 DEF ProviderFails
  <2>3. breaker' \in [Providers -> Breakers] /\ CircuitCountsFailures'
    BY <1>0, <2>1, <2>2, ChainRest, FailedCounts, OneBreaker
  <2> QED BY <1>0, <1>7, <2>1, <2>3, ChainRest, <1>b
      DEF ProviderFails, NextStep, RouterInv, TypeOK, SpendInv
<1>8. CASE Unavailable \/ Crash
  <2>1. chain' \in Seq(Models) /\ tries' \in 0..Retries
    BY <1>0, <1>8, EmptySeq DEF Unavailable, Crash, TypeOK
  <2> QED BY <1>0, <1>8, <2>1, <1>a, <1>b
      DEF Unavailable, Crash, RouterInv, TypeOK, SpendInv
<1>9. CASE TimePasses
  <2>1. breaker' \in [Providers -> Breakers] /\ CircuitCountsFailures'
    BY <1>0, <1>9, CoolerCounts DEF TimePasses, CircuitCountsFailures, Counts
  <2> QED BY <1>0, <1>9, <2>1, <1>b DEF TimePasses, RouterInv, TypeOK, SpendInv, Model
<1>10. CASE Midnight
  <2>1. spent' = 0 /\ UNCHANGED <<breaker, at, chain, tries, outcome>>
    BY <1>10 DEF Midnight
  <2>2. tries * MaxCost \in Nat
    BY <1>0, Parameters DEF TypeOK
  <2>3. spent' \in Nat /\ SpendBounded' /\ SpendInv'
    BY <1>0, <2>1, <2>2, OvershootInRange, Parameters
    DEF SpendBounded, SpendInv, Overshoot, Model
  <2> QED BY <1>0, <2>1, <2>3, <1>a DEF RouterInv, TypeOK
<1>11. CASE CircuitStates
  <2>1. breaker' \in [Providers -> Breakers] /\ CircuitCountsFailures'
    BY <1>0, <1>11, PolledCounts DEF CircuitStates, CircuitCountsFailures, Counts
  <2> QED BY <1>0, <1>11, <2>1, <1>b DEF CircuitStates, RouterInv, TypeOK, SpendInv, Model
<1>12. CASE Restart
  <2>1. breaker' \in [Providers -> Breakers] /\ CircuitCountsFailures'
    BY <1>12, ClosedCounts DEF Restart, CircuitCountsFailures, Counts
  <2>2. chain' \in Seq(Models)
    BY <1>12, EmptySeq DEF Restart
  <2> QED BY <1>0, <1>12, <2>1, <2>2, <1>b DEF Restart, RouterInv, TypeOK, SpendInv
<1>13. CASE UNCHANGED vars
  BY <1>0, <1>13, <1>a, <1>b DEF vars, RouterInv, TypeOK, SpendInv, Model
<1> QED BY <1>1, <1>2, <1>3, <1>4, <1>5, <1>6, <1>7, <1>8, <1>9, <1>10, <1>11, <1>12, <1>13
    DEF Next, Progress

----------------------------------------------------------------------------
(* The inductive invariant, and what follows from it.                      *)

(* Types, ceiling and breakers hold together at every step of a call.      *)
THEOREM RouterInvariant == Spec => []RouterInv
BY InitRouterInv, RouterStep, PTL DEF Spec

(* TypeOK holds whatever providers, callers and the clock do.              *)
THEOREM RouterTypes == Spec => []TypeOK
BY RouterInvariant, PTL DEF RouterInv

(* The logged spend of a day never exceeds the ceiling by more than one    *)
(* step's answers (_budget_blocks).                                        *)
THEOREM CeilingHolds == Spec => []SpendBounded
BY RouterInvariant, PTL DEF RouterInv, SpendInv

(* Only a run of failures as long as the threshold opens a circuit, and    *)
(* only a success ends it (CircuitBreaker).                                *)
THEOREM CircuitsCount == Spec => []CircuitCountsFailures
BY RouterInvariant, PTL DEF RouterInv

=============================================================================
