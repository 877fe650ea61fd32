------------------------------- MODULE Router -------------------------------
(***************************************************************************)
(* The LLM router: a role's chain of models, a circuit breaker for each    *)
(* provider, the daily budget in front of the paid models, retries on      *)
(* answers that do not fit the schema, and the call log that the budget is *)
(* read from (brain/llm/router.py, circuit_breaker.py, call_logger.py,     *)
(* routing.py, brain/llm/providers, core/governors.py).                    *)
(*                                                                         *)
(* The Mind has one task that asks, so one call is in flight at a time.    *)
(* Money and time are counted in small units; what is asked and answered   *)
(* is left out.                                                            *)
(***************************************************************************)
EXTENDS Integers, Sequences

CONSTANTS
    Providers,    \* the keys of LLMRouter._providers
    Models,       \* the model slots of llm_routes.toml
    ProviderOf,   \* [Models -> Providers]
    Paid,         \* the models that PRICING lists
    Chains,       \* what chain_for may return
    Threshold,    \* circuit_failure_threshold
    Cooldown,     \* circuit_reset_seconds, in units of time
    Retries,      \* llm_schema_retries
    Budget,       \* groq_daily_budget_usd, in units of money
    MaxCost       \* bound: what one answer may cost

\* What load_routing_config and the router's constructor accept: every role has
\* known model slots only, and every slot a provider that exists.
ValidRouting ==
    /\ ProviderOf \in [Models -> Providers]
    /\ Chains \subseteq Seq(Models) \ {<<>>}

ASSUME RouterAssumption ==
    /\ ValidRouting
    /\ Paid \subseteq Models
    /\ Threshold \in Nat \ {0} /\ Cooldown \in Nat \ {0}
    /\ Retries \in Nat /\ Budget \in Nat \ {0} /\ MaxCost \in Nat

VARIABLES
    breaker,   \* per provider: its CircuitBreaker
    at,        \* "idle", or the next thing complete() does
    chain,     \* the steps of the call not yet given up on, current one first
    tries,     \* attempts of the current step that failed its schema
    spent,     \* what llm_call_log says was spent today
    outcome    \* how the last call ended

vars == <<breaker, at, chain, tries, spent, outcome>>

\* Failures are only compared with the threshold and counted up to it.
Breakers == [failures : 0..Threshold, state : {"closed", "open", "half_open"},
             cooling : 0..Cooldown]

Overshoot == Budget - 1 + (Retries + 1) * MaxCost

TypeOK ==
    /\ breaker \in [Providers -> Breakers]
    /\ at \in {"idle", "step", "gate", "ask"}
    /\ chain \in Seq(Models)
    /\ at \in {"gate", "ask"} => chain # <<>>
    /\ tries \in 0..Retries
    /\ spent \in Nat
    /\ outcome \in {"none", "completion", "unavailable", "crash"}

Model == Head(chain)
Provider == ProviderOf[Model]

----------------------------------------------------------------------------
(* The circuit breaker.                                                    *)

Closed == [failures |-> 0, state |-> "closed", cooling |-> 0]

\* The state property: an open circuit that has cooled down is half open.
Polled(b) == IF b.state = "open" /\ b.cooling = 0 THEN [b EXCEPT !.state = "half_open"] ELSE b

Succeeded(b) == Closed

Failed(b) ==
    LET n == IF b.failures < Threshold THEN b.failures + 1 ELSE Threshold IN
    IF b.state = "half_open" \/ n >= Threshold
    THEN [failures |-> n, state |-> "open", cooling |-> Cooldown]
    ELSE [b EXCEPT !.failures = n]

----------------------------------------------------------------------------
(* LLMRouter.complete.                                                     *)

Complete(c) ==
    /\ at = "idle"
    /\ chain' = c /\ at' = "step"
    /\ tries' = 0 /\ outcome' = "none"
    /\ UNCHANGED <<breaker, spent>>

NextStep == chain' = Tail(chain) /\ at' = "step" /\ tries' = 0

SkipOpen_RestartsCooldown ==
    /\ at = "step" /\ chain # <<>>
    /\ Polled(breaker[Provider]).state = "open"
    /\ breaker' = [breaker EXCEPT ![Provider].cooling = Cooldown]
    /\ NextStep
    /\ UNCHANGED <<spent, outcome>>

SkipOpen ==
    /\ at = "step" /\ chain # <<>>
    /\ Polled(breaker[Provider]).state = "open"
    /\ NextStep
    /\ UNCHANGED <<breaker, spent, outcome>>

Enter ==
    /\ at = "step" /\ chain # <<>>
    /\ Polled(breaker[Provider]).state # "open"
    /\ breaker' = [breaker EXCEPT ![Provider] = Polled(@)]
    /\ at' = IF Model \in Paid THEN "gate" ELSE "ask"
    /\ UNCHANGED <<chain, tries, spent, outcome>>

\* The day's rows are summed anew each time.
Exhausted == spent >= Budget

\* The skip is logged at no cost.
BudgetBlocks ==
    /\ at = "gate" /\ Exhausted
    /\ NextStep
    /\ UNCHANGED <<breaker, spent, outcome>>

BudgetAllows_AtCeiling ==
    /\ at = "gate" /\ spent <= Budget
    /\ at' = "ask"
    /\ UNCHANGED <<breaker, chain, tries, spent, outcome>>

BudgetAllows ==
    /\ at = "gate" /\ ~Exhausted
    /\ at' = "ask"
    /\ UNCHANGED <<breaker, chain, tries, spent, outcome>>

\* estimate_cost: a model without a price is free.
Cost(m) == IF m \in Paid THEN 0..MaxCost ELSE {0}

\* A row that cannot be written is given up silently.
Record(cost) == spent' \in {spent, spent + cost}

\* Every answer, good or bad, is priced by its tokens and logged.
Logged == \E cost \in Cost(Model) : Record(cost)

Answer ==
    /\ at = "ask"
    /\ Logged
    /\ breaker' = [breaker EXCEPT ![Provider] = Succeeded(@)]
    /\ at' = "idle" /\ chain' = <<>> /\ tries' = 0
    /\ outcome' = "completion"

\* The answer does not fit the schema: quoted back, as often as allowed.
BadAnswer ==
    /\ at = "ask" /\ tries < Retries
    /\ Logged
    /\ tries' = tries + 1
    /\ UNCHANGED <<breaker, at, chain, outcome>>

\* The provider is healthy, its output unusable: the next step's turn.
SchemaFailover ==
    /\ at = "ask" /\ tries = Retries
    /\ Logged
    /\ breaker' = [breaker EXCEPT ![Provider] = Succeeded(@)]
    /\ NextStep
    /\ UNCHANGED outcome

\* A timeout, a transport error, an HTTP error, an answer with no choices.
ProviderFails ==
    /\ at = "ask"
    /\ breaker' = [breaker EXCEPT ![Provider] = Failed(@)]
    /\ NextStep
    /\ UNCHANGED <<spent, outcome>>

Unavailable ==
    /\ at = "step" /\ chain = <<>>
    /\ at' = "idle" /\ outcome' = "unavailable"
    /\ UNCHANGED <<breaker, chain, tries, spent>>

\* Any other exception leaves complete(): the budget's query fails, or a
\* provider answers with a body that is not JSON.
Crash ==
    /\ at \in {"gate", "ask"}
    /\ at' = "idle" /\ chain' = <<>> /\ tries' = 0
    /\ outcome' = "crash"
    /\ UNCHANGED <<breaker, spent>>

----------------------------------------------------------------------------
(* The clock, and the process.                                             *)

Cooler(b) == [b EXCEPT !.cooling = IF @ > 0 THEN @ - 1 ELSE 0]

TimePasses ==
    /\ \E p \in Providers : breaker[p].cooling > 0
    /\ breaker' = [p \in Providers |-> Cooler(breaker[p])]
    /\ UNCHANGED <<at, chain, tries, spent, outcome>>

Midnight ==
    /\ spent > 0
    /\ spent' = 0
    /\ UNCHANGED <<breaker, at, chain, tries, outcome>>

\* An observer reads the states, which recomputes them.
CircuitStates ==
    /\ breaker' = [p \in Providers |-> Polled(breaker[p])]
    /\ UNCHANGED <<at, chain, tries, spent, outcome>>

Restart ==
    /\ breaker' = [p \in Providers |-> Closed]
    /\ at' = "idle" /\ chain' = <<>> /\ tries' = 0 /\ outcome' = "none"
    /\ UNCHANGED spent

Init ==
    /\ breaker = [p \in Providers |-> Closed]
    /\ at = "idle" /\ chain = <<>> /\ tries = 0 /\ outcome = "none"
    /\ spent = 0

Progress ==
    \/ SkipOpen \/ Enter \/ BudgetBlocks \/ BudgetAllows
    \/ Answer \/ BadAnswer \/ SchemaFailover \/ ProviderFails
    \/ Unavailable \/ Crash

Next ==
    \/ \E c \in Chains : Complete(c)
    \/ Progress
    \/ TimePasses \/ Midnight \/ CircuitStates \/ Restart

Spec == Init /\ [][Next]_vars

\* Each request has a timeout, time passes, and the Mind keeps asking for
\* every role.
Fairness ==
    /\ WF_vars(Progress) /\ WF_vars(TimePasses)
    /\ \A c \in Chains : SF_vars(Complete(c))

FairSpec == Spec /\ Fairness

----------------------------------------------------------------------------
(* Properties.                                                             *)

(* The day's logged spend overshoots the ceiling by no more than one       *)
(* step's answers: the gate is asked once, before the step, and neither    *)
(* the retries of that step nor the cost of the answers is known to it     *)
(* (_budget_blocks, _invoke_with_feedback).                                *)
SpendBounded == spent <= Overshoot

(* A circuit is away from closed exactly while the provider's last         *)
(* failures, counted since its last success of any caller, reach the       *)
(* threshold: unusable answers, budget skips, cooldowns, polls and other   *)
(* roles' calls neither open it nor close it (CircuitBreaker).             *)
CircuitCountsFailures ==
    \A p \in Providers :
        breaker[p].state # "closed" <=> breaker[p].failures = Threshold

(* Every call ends: with a completion, with LLMUnavailableError, or with   *)
(* another exception; no sequence of bad answers keeps it going            *)
(* (_invoke_with_feedback's bound, one step at a time down the chain).     *)
CallEnds == at # "idle" ~> at = "idle"

(* A provider whose circuit opened is given another chance, however often  *)
(* it is asked for while it cools down (allow, _cooldown_elapsed).         *)
OpenCircuitIsRetried ==
    \A p \in Providers : breaker[p].state = "open" ~> breaker[p].state # "open"

(* Nothing hangs: neither a call nor a provider (LLMRouter, CircuitBreaker).*)
NothingHangs == CallEnds /\ OpenCircuitIsRetried

=============================================================================
