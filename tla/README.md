# Johnny 5: a verification development

TLA+ modules, TLC configurations and TLAPS proofs for the Mind of Johnny 5:
the heartbeat and its control channel, the sleep cycle, the autonomy loop from
goal to audited action, the intake of messages and wakeups, the LLM router with
its circuit breakers and budget, long-term memory with what sleep makes of it,
the workspace bus, attention and working memory, drives and mood, the tools with
their sandbox, and backup and restore.
`PROJECT.json` lists the components, the runs, the mutants, the source lines
behind every definition, the findings and the hazards.

## 1. The system

One Python process runs the Mind on one asyncio event loop. A run task beats:
it waits at a gate, runs a tick (PERCEIVE, APPRAISE, ATTEND, NARRATE,
DELIBERATE, CHECK, ACT, then the state frame), then fires due wakeups, sleeps
if a trigger says so, and waits an interval. Beside it run the control
listener, the workspace's bus listener and the HTTP/WebSocket handlers.
Postgres keeps what is durable (goals, percepts, wakeups, `action_log`,
`sleep_log`, identity, drives), Redis the input queue, the working memory and
the two buses. The REPL is another process on the same Redis.

| Component | State | Operations | What makes it correct |
|---|---|---|---|
| `CycleGate`, run loop (`brain/cycle.py`) | `_paused`, `_step_once`, the event; where the loop waits | pause, resume, step, wait_turn, run, stop | no lost wakeup; a step is one tick; a free loop ticks; a shutdown ends |
| control bus (`brain/cycle_control.py`) | a Redis subscription | send_control, run, _apply, stop | only a command with the token reaches the gate |
| runtime (`brain/runtime.py`) | the tasks | start, stop | agency is decided before the first tick |
| sleep cycle (`brain/sleep.py`, `_maybe_sleep`) | `_asleep`, the `sleep_log` row, `_full_agency`, energy | trigger, open, stages, self-check, close, frames | agency is the verdict; asleep ends; a tired Mind rests |
| self-model (`brain/self_model`) | identity versions | bootstrap, refresh | the self-check sees what is stored |
| deliberation, goals (`brain/agents/deliberation.py`, `brain/goals`) | the active goal row, `_last_acted` | arbitrate, plan, act, settle | one pursuit; what is planned ends; the cadence |
| dispatch, conscience, audit (`brain/effectors/dispatch.py`, `core/audit.py`) | `ctx.vetted`, `action_log` | vet, commit, record | no run without consent; what happened is logged |
| sensorium, doorways (`brain/agents/sensorium.py`, `johnny/api/v1/input.py`, `repl/cockpit.py`) | the Redis list | push, depth, drain, perceive | order; at most once; bounded depth; no starvation |
| scheduler (`brain/effectors/scheduler.py`) | wakeup rows | schedule, fire_due | never twice; a due wakeup is claimed |
| workspace bus (`brain/workspace.py`) | subscribers, hops | broadcast, dispatch, run, stream | logged before seen; bounded chains; a broken handler keeps no other from being invoked |
| attention, recall, working memory (`brain/agents/attention.py`, `memory_stages.py`, `brain/memory/working.py`) | a hash and a sorted set, the novelty window | put, trim, decay, prune, select, recall | capacity; a failure tears one entry; everything fades |
| snapshot and restore (`brain/memory/snapshot.py`) | eight tables, the working set, directories | snapshot, restore, clear, resync | a restore gives back the backup; ids never clash; thoughts outlive it |
| long-term memory (`brain/memory/episodic.py`, `semantic.py`, `consolidator.py`, `decay.py`, `brain/effectors/web_consolidator.py`) | episode, fact and edge rows | write, upsert, link, consolidate, decay and merge | provenance is sound; merging and fading lose nothing; a sleep's cost is capped |
| LLM router (`brain/llm/router.py`) | breakers, call log | complete, budget gate | a free path remains; a paid step stops at the ceiling |
| drives, affect (`brain/drives`, `brain/affect`) | pressures with their timestamps, the mood and its last row | bootstrap, step, appraise, react, load | a moment counts once; a mood is called what its row says |
| tools (`brain/effectors`), sandbox (`ops/sandbox`) | a call, a container, an HTTP client | fetch, search, news, run a snippet | a call comes back; a success is the container's own word; what is left out is said |
| frontend streams (`frontend/src/services`) | a socket, a timer | start, stop, reconnect | one socket; it comes back |

How they interact: the tick's stages call each other through `CycleContext`
only; events reach agents through the bus; the doorways and the scheduler reach
the Mind only through the input queue; the self-check reaches DELIBERATE, CHECK
and ACT only through `_full_agency`.

What is hard here: every call to Postgres, Redis, a model or a tool may raise,
which ends a stage and not the tick; one operation is several transactions; the
process may die between any two of them; requests, listeners and the loop
interleave at every `await`. `PROJECT.json` lists the hazards at their lines.

## 2. The modules

| Module | Models | Its state, and the code's |
|---|---|---|
| `Turnstile` | what the gate promises | `held`, `permit`, `inside` |
| `Heartbeat` | gate, run loop, control listener, runtime | `paused`, `stepOnce`, `proceed` are the gate's three fields; `loop` is the run task's await; `channel` is the subscription's buffer |
| `Heartbeat_proofs` | proofs | |
| `SleepPhase` | boot check, tick's share of sleeping, the sleep pipeline, the frames | `at` is the next call; `asleep`, `fullAgency`, `row`, `energy`, `selfModel`; `verdict` is what the latest completed check said |
| `SleepPhase_proofs` | proofs | |
| `Autonomy` | APPRAISE's hand-over, DELIBERATE, CHECK, ACT | `at` is the next call; `goal`, `kind`, `vetted`, `success` are the tick's context; `active` is the goal rows; `pending` is `_pending_events`; `ran`, `logged`, `kept`, `sinceRan` only observe |
| `Autonomy_proofs`, `MCAutonomy` | proofs; four drives, one of each kind of action | |
| `LossyFifo` | an ordered queue that may lose its head | `line` |
| `Intake`, `Intake_proofs`, `MCIntake` | web and REPL doorways, queue, drain, scheduler; proofs | `queue` is the Redis list; `held`, `arrived` the batch on its way to percepts; `status`, `claimed` the wakeups |
| `Router` | `complete`, breakers, budget gate, call log, what a provider can answer | `breaker` is each CircuitBreaker; `chain` the steps left of the call; `tries` the schema retries; `spent` today's sum over `llm_call_log` |
| `Router_proofs`, `MCRouter` | proofs; the routes of `config/llm_routes.toml` | |
| `Knowledge` | episodes, facts and edges; the web read's two transactions; clustering, decay and merge in a sleep | `episodes`, `facts`, `edges` are the tables and `nextFact` the sequence of `semantic_fact`; `unplaced` and `clusters` the locals of `cluster_episodes` and `Consolidator.run` |
| `Knowledge_proofs`, `MCKnowledge` | proofs; a chain of near-duplicates, embeddings at the threshold and opposite | |
| `Bus`, `Bus_proofs`, `MCBus` | broadcast, dispatch, the listener, the live streams; proofs; one agent for thoughts and one for everything | `log` is `workspace_event`; `flight` what a publisher has logged and not yet published; `inbox`, `event`, `due`, `todo`, `emitted` the listener's subscription and the locals of `dispatch`; `asked` and `outage` only observe; `feed`, `seen` a socket's |
| `Focus`, `MCFocus` | the working set's Redis commands one by one, ATTEND's bottleneck, RECALL's merge | `items` is the hash and `ranks` the sorted set; `jobs` the calls of `_persist` and `_evict` left of an operation and `half` whether the first has done its first command; `recent` is `Attention._recent`; `contents` is `CycleContext.contents` |
| `Feeling`, `MCFeeling` | the drive step, the appraisal, the decay of the mood, its persistence rule, its load by the loop and by a request | `value`, `age` are a `drive_state` row and the time since its timestamp; `mood` is `Affect._current`, `row` the latest row; `true` and `felt` only observe |
| `Sandbox` | the tool's subprocess, the launcher script, the runner in its container, docker's failures, the clock | `answer`, `launcher`, `runner` are where the three are; `printed`, `out` the lines of the launcher and of the container; `deed` how the snippet ended; `container`, `code` what docker knows |
| `Reading` | a fetch over redirects, the body's cap, the HTML extractor | `step`, `hop`, `records` are the fetcher's; `page`, `body`, `plain`, `text`, `truncated` what it reads and hands over |
| `Tools`, `MCTools` | `Sandbox` and `Reading` composed behind ACT, and the searches | `call` is the tool under way; `found` the rows the last search returned, `shown` the places handed over |
| `Snapshot`, `MCSnapshot` | backup and restore of both formats, statement by statement where a failure differs | `rows`, `next` are the tables and their sequences; `dirs` the directories, `todo` what is left of the call |
| `Parts_proofs` | proofs about `Feeling`, `Focus`, `Snapshot` and `Tools` with its two parts | |

A step of a model is the code between two awaits that another party can see
between. Where a stage raises, `CognitiveCycle._stage` swallows the exception
and the tick goes on with what the context holds; the models follow it by what
the later stages then find (no goal, no verdict, no percepts).

In `Heartbeat` a tick is opaque. `SleepPhase`, `Autonomy` and `Intake` each
model their share of a tick and of the between-ticks phases, and see the others
as choices: `Autonomy.WakeCheck` is any change of agency that `SleepPhase` can
make between ticks, and `SleepPhase.Tick` counts a tick that `Heartbeat` runs.
In the same way `Focus` and `Feeling` are the ATTEND, RECALL and APPRAISE that
`Autonomy` sees the results of, `Tools` is what `Autonomy.RunTool` takes for one
step (its property that every call comes back is what entitles it to), and
`Snapshot` is the backup stage of `SleepPhase`. `Tools` extends `Sandbox` and
`Reading` and joins their next-state relations; `Heartbeat` and `Intake` are
mapped to `Turnstile` and `LossyFifo` by `INSTANCE ... WITH`.

`Parts_proofs` extends four components that do not interact, each with one
section: their proofs share the lemmas about sequences, finite sets and least
numbers that come first in it. This is why these modules prefix what they would
otherwise all call `Init`, `Next`, `Spec` and `TypeOK`.

## 3. The runs

| Run | States | Bounds | Shows |
|---|---|---|---|
| `Heartbeat` | 1 556 | `MaxInFlight = 3` messages | no lost wakeup, the turnstile, progress, shutdown |
| `SleepPhase` | 5 016 | sleep every 2 ticks, 1 degraded tick | agency, rest, frames |
| `Autonomy` | 9 416 | 4 drives, cadence 1 | pursuit, consent, easing, audit |
| `Intake` | 22 149 | 3 messages, 1 wakeup, 2 requests, batch 2, depth 1 | order, at most once, depth, no starvation |
| `Router` | 1 437 | 2 providers, 3 models, 2 chains, threshold 2, cooldown 2, 1 retry, budget 2, cost 2 | the ceiling; calls end and open circuits are tried again |
| `Knowledge` | 2 792 557 | 4 facts, 3 keys, 3 directions, 2 episodes, 1 cluster, window 2, 1 half-life, 1 edge, 3 upserts | provenance, the cap, merging, fading |
| `Bus` | 417 585 | 2 agents, 2 types, hop cap 1, 2 broadcasts by the Mind, 1 socket, backfill 2 | hop chains, order on a stream, every handler invoked |
| `Focus` | 269 586 | 2 percepts, 3 memories, 4 ids, salience 0..3, capacity 1, width 2, novelty window 2, 2 failures | torn entries, the capacity, fading |
| `Feeling` | 2 502 883 | 3 drives, pressure 0..1, 1 kind of outcome, 1 queued, a model that names an emotion of its own, ages up to 2 | clocks read once, names of moods |
| `Tools` | 2 127 059 | limits 2, 3 and 4, 2 faults of docker, 1 line of the snippet's own, 2 addresses, 7 pages, 2 redirects, 6 bytes, 2 characters, up to 3 rows of 7 kinds, 2 calls | success, leftovers, vetting, cuts, return |
| `Snapshot` | 1 094 348 | 3 tables, 2 ids each, 2 moments, 1 backup and one of the first format | restore, ids, thoughts |
| `SleepPhaseWedge` | | as `SleepPhase`, no scheduled sleep | finding: asleep for good |

Why the bounds are enough. Three control messages are enough for every order
of pause, resume and step around one waiting loop; the gate has three booleans
and remembers nothing else, and the theorems hold for any bound. A period of
two ticks lets a scheduled sleep and a tiredness sleep both happen, in either
order. The four drives are the ways an action is planned (a web tool; a code tool
or, with no model to write the snippet, a review; a reflection; a recall), and
with them every displacement of one by another happens; boredom, which the
program wires to a tool, has none in the run, so that the recall is reached; a cadence of one unit separates "due" from "not due". The queue of
`Intake` holds more than a batch, two requests overshoot a depth of one, and a
message or wakeup that left the pipeline may come again as a new one, so the
runs are unbounded in time. `Router` shares one provider between two chains, so
one role's failures open the circuit another role meets; with a cost equal to
the budget the ceiling is crossed by one answer and overshot by a retry. In `Knowledge`
three facts are the shortest chain on which likeness fails to be transitive, and
a fourth that shares a key makes an upsert overwrite another text; a cap of one
makes the second episode fold in or, if it is exactly opposite, open a cluster
past the cap; a decay limit of one leaves an episode that the pass does not
read; saliences run from 0 to 4 with the floor at 1, so one episode starts below
the floor and one above it. In `Bus` a hop cap of one lets one answer through and
drops the next; two broadcasts put one event behind another in every queue. In
`Focus` a capacity of one makes every put a trim, and two failures tear both
structures in either order; four ids are more than the capacity and the failures
can hold; a score is rounded down to a salience, and the two biases sharpen in either
direction. `Feeling` takes decay as linear, one unit in one unit of time: what the
properties use of the exponentials is that they never pass their target and that
two waits add up to one; the thresholds of the persistence rule are those of the
code, in hundredths. In `Tools` each limit is one unit inside the next, so that
each is met first in some run, and two faults are what it takes to lose a
container; two redirects and two addresses let a name change its answer on the
way; the pages nest, leave open, close what they never opened and hold an element
without an end tag, one name and one counter standing for all skipped elements, as in
the code. Of what a snippet writes past the runner one line is followed: which line comes
last is what counts, and it may come before or after any line of the runner's. A container
is followed until its call ends and `MaxFaults` counts per call. News are dated in
hours with no zone, +00:00, +01:00 and -01:00, which is where strings and moments
begin to differ. In `Snapshot` one table
stands for each way a table is treated (memory, state with a serial id, state
without, and `mood`), and the second id is the one a wrong sequence gives twice.

All runs but `Tools` check for deadlock: there the calls are bounded and the
model stops when they are used up. The passing runs also have a mutant for each
property: a plausible bug in one mapped definition that the run then finds.

### Fairness, and why the code has it

- `Heartbeat`: weak fairness of each task's next step. asyncio runs every ready
  task; a tick ends because every stage is bounded by timeouts and isolated by
  `_stage`; the interval is a finite sleep. Nothing makes a person send a
  command, a listener fail or the process stop.
- `SleepPhase`: weak fairness of the loop's next step, and strong fairness of
  the successful branch of the calls the property depends on: a database that
  fails for ever refutes no claim about the code. The failing branches have
  none, so they may happen any number of times.
- `Autonomy`: the same; time passes between ticks (`Appraise(Cadence)`). Where a
  tool action and an internal one stand at the same stage, the fairness is that
  of either, so a mixture of the two that always fails on one side is allowed.
- `Intake`: weak fairness of the loop, strong fairness of a successful LPOP and
  claim. The doorways have none.
- `Bus`: weak fairness of the listener's next step and of each socket's; a handler
  returns or raises, as it is awaited with nothing unbounded in it. The listener
  need not fail, and when a poll or a re-broadcast ends it, `BrokenReflexStopsNothing`
  says so and promises nothing more: what it does not allow is that a handler does.
- `Focus`: weak fairness of the tick's next step. Its failures are bounded
  (`MaxFailures`), which stands for a Redis that comes back.
- `Tools`: weak fairness of the coroutine, of the clock and of the three limits
  (alarm, backstop, outer wait), and of sockets up to their timeouts. Of docker
  nothing is assumed: any of its commands may hang until a limit cuts it.
- `Feeling`, `Knowledge`, `Snapshot`: none, they state safety only.
- `Router`: weak fairness of a call's next step (every request has a timeout) and
  of time; for the retrial of an open circuit also that the Mind goes on asking
  for each role (strong fairness of `Complete`), which the heartbeat does.

## 4. What is proved

| Theorem | Statement | Holds for |
|---|---|---|
| `TypeCorrect`, `WakeupsKept` | `Spec => []TypeOK`, `Spec => []NoLostWakeup` | any channel bound, either autostart |
| `StepSpent` | `Spec => StepIsSpentByATick` | the same |
| `ImplementsTurnstile` | `Spec => GateIsATurnstile` | the same |
| `SleepInvariant`, `AgencyIsTheVerdict`, `StuckOnlyBehindOpenRow` | `Spec => []SleepInv` and two consequences | any period, any degraded bound |
| `AutonomyInvariant`, `SinglePursuit`, `EasedAfterClosing` | `Spec => []AutonomyInv` and two consequences | any drives and tool mapping, any cadence |
| `ConsentToRun`, `EasingIsEarned`, `ClosingIsLogged` | the three action properties | the same |
| `AutonomyTypes`, `SleepTypes`, `IntakeTypes`, `RouterTypes` | `Spec => []TypeOK` of each | the parameters of each |
| `RouterInvariant`, `CeilingHolds`, `CircuitsCount` | `Spec => []RouterInv` and two consequences | any providers, chains, threshold, cooldown, retries, budget, cost |
| `DepthHolds`, `NeverTwice` | `Spec => []WebDepthBounded`, `Spec => []AtMostOnce` | any messages, wakeups and requests (finitely many of the last two), any batch and depth |
| `ProvenanceHolds`, `NoneAlikeHolds` | `Spec => []ProvenanceSound`, `Spec => []NoneAlike` | any texts, keys, window, cap, limits; any likeness that is reflexive and symmetric |
| `MergeKeeps` | `Spec => MergeKeepsKnowledge` | the same |
| `ClustersHoldTheWindow` | `Spec => ClusteringIsSound` | the same, embeddings in any integer directions |
| `AutobiographyHolds` | `Spec => AutobiographySurvives` | the same, any saliences, ages, half-life and floor |
| `PipelineIsFifo` | `Spec => InputsAreFifo` | as `DepthHolds` |
| `NoHandlerSkipped` | `Spec => []NobodySkipped` | any agents, types, subscriptions and emissions |
| `BusInvariant`, `ChainsStayShort` | `Spec => []BusInv`, `Spec => []ChainsAreShort` | any agents, types, subscriptions, emissions, clients and hop cap |
| `StreamsRunForward` | `Spec => []NeverBackwards` | the same, any backfill |
| `MomentsCountOnce` | `FeelingSpec => []EveryMomentCountsOnce` | any drives, setpoints, urgencies, reactions, ages and failures |
| `TagsStayOnRecord` | `FeelingSpec => []TagsAreOnRecord` | the same |
| `WorkingSetIsBounded` | `FocusSpec => []WorkingSetHolds` | any capacity, width, batch, percepts and memories (finitely many), fading and failures |
| `SuccessIsReal`, `LauncherSuffices` | `ToolsSpec => []SuccessIsVouched`, `ToolsSpec => []LauncherIsEnough` | any limits that nest, any number of docker's faults |
| `PeersAreVetted` | `ToolsSpec => []OnlyVettedPeers` | any addresses, refused addresses and redirects |
| `OmissionsAreOpen` | `ToolsSpec => []LeavesOutOpenly` | any pages, caps, rows found and result limit |
| `RestoresAreExact`, `IdsStayFresh`, `ThoughtsSurvive` | `SnapshotSpec => []RestoreIsExact`, `SnapshotSpec => []IdsNeverClash`, `SnapshotSpec => ThoughtsOutlive` | any tables of each kind, ids and backups |

Assumptions: the `ASSUME` of each module and nothing else; TLC evaluates them
in the runs.

The arguments. `Heartbeat`: `NoLostWakeup` is inductive with the types, as each
gate method sets its three fields between two awaits; the refinement adds that
a loop that was woken and paused again keeps one permit, so `Permit` counts
`loop = "woken"`. `SleepPhase`: agency is compared with the verdict only outside
the pipeline, so the invariant says what the pipeline carries (the report that
ApplyReport will apply) at each of its places. `Autonomy`: a promotion happens
only at the place `promote`, which is reached only with no active row; this
needs `at # "idle" => pending = {}` and the type of the tick's context at each
place, which is `ContextInv`. The action properties then look at the only step
that can set `ran`, extend `pending` or change `active`. `Router`: a bound on
`spent` alone is not inductive, as an answer adds to it; the invariant remembers
that a paid step began under the budget and that each of its answers so far
added at most one cost. That a circuit is open exactly when its failures reach
the threshold is shown one breaker operation at a time. `Intake`: the depth bound counts the
requests past their check as if they had pushed, and needs that what the web
pushed is in the queue. Order and no copies are about one sequence, the batch's
two halves and the queue in a row (`Line`): a step joins one item to its tail,
moves an item along without changing it, or drops a prefix. That what joins is
new needs `AsideInv` (a checked message and an unfired wakeup are nowhere in the
pipeline) and `PlaceInv` (each place of the loop has only its own hands full).
`Knowledge`: provenance alone is not inductive, because a summary cites whatever
its cluster holds; the invariant adds that the clusters in hand, the episodes
still to place and the page being read name episodes that exist (`WorkSound`).
That no duplicates are left uses that a fact which started a group was compared
with every fact that starts one before it, and that likeness is symmetric: the
pairs are compared in one order only. That nothing is forgotten follows each
fact to the row its group keeps; the chain t1-t2-t3 is why a fact is compared
with the row it joins and not with every member.

`Bus`: that no event is more than `MaxHops` re-broadcasts away from the Mind is
said of a history (`depth`), while `dispatch` looks at the count that rides in
the message; the invariant adds that the two agree on every row and that what a
handler returned is kept only below the cap (`ChainInv`). `NoHandlerSkipped` is
the safe half of `BrokenReflexStopsNothing`: those invoked and those still to be are
together the handlers the event was for (`NobodySkipped`), so a dispatch that comes to
its end has invoked them all.

That a client never sees a publisher's events go backwards (`StreamsInv`) needs two
facts about what is on the way: a row a publisher has logged and not yet
published is its latest, and nobody has been sent it (`FlightInv`); and of each
publisher a client's backfill, what it was sent and what waits for it come in
this order (`Stream`). Only the backfill and the live part may overlap, which is the
one repetition the property allows.

`Knowledge` again: `ClusterInv` says that the clusters and what is not yet placed
are the head and the rest of the window. That the cap gives way only to an exactly
opposite episode is a step's property and not a state's: clusters past the cap
go on growing, and two of them may come to sum to opposite directions. Its proof is
that of the code's starting value, -1.0: the nearest cluster is the first of
greatest cosine, the model compares cosines as signed squares, and no cosine is
below -1 (Cauchy-Schwarz on the integers of the plane), so that an episode which
is nearest to nothing is opposite to everything. The autobiography holds
because a power of two is positive, so a faded salience is never more than it was,
and the floor stops it.

`Feeling`: that every moment counts once is inductive with the types; what a
reader and the loop have loaded must each be a mood whose tags are those of the row
its id names (`Sound`), as either may be what a thought is stamped with. `Snapshot`
(`BackupsInv`): a backup reads the tables in one transaction and the working set
after it, so the invariant follows what was read into the files place by place, and
back again in a restore; `ClashInv` carries the outcome of the inserts past
the statement that could have failed. A sequence is ahead of its table except
that of `mood`, and that one is so unless a restore failed after resynchronising
it; a thought that names a mood names a row that is there and was made when the
thought says.

`Sandbox` and `Reading` under `Tools` (`ToolsInv`): a launcher whose last line says that it
went well repeats a line of a container that ended by itself, and without a fault of
docker's the last one; the runner says so only after the snippet ended well
(`VerdictInv`). The time outside docker's commands is within the hard limit, so when
the outer wait ends docker has used up the buffer between the two (`TimeInv`); and each
`rm` that did not take the container cost a fault (`FaultInv`).

For pages the reference is HTML's: an element goes from its start tag to the end tag
that balances it, and what stands inside one does not show (`Inside`). The proof goes
by way of a second description, close to the parser's counter: a token is hidden if a
title is open there or some stretch of tokens that ends at it opens more elements than
it closes (`Hidden`). The counter never goes below zero, and after n tokens it is the
greatest excess over any stretch ending there, the empty one included (`DepthSays`), so
the parser gives exactly what is not hidden (`ExtractedShows`, an induction over the page
by its least counterexample). What is inside an element is hidden (`InsideIsHidden`);
that nothing else is holds only where no end tag is missing: then the last start tag
still open at a token is that of an element around it (`HiddenIsInside`).

`Focus` (`FocusInv`): an entry between its two commands is set apart (`Between`);
outside it the ids that the hash and the sorted set do not share are no more than
the failures. Between a put and the end of its trim there is one item more
(`Slack`), what the trim has still to remove makes the sorted set fit (`TrimInv`), and
an item the sorted set does not know, and so no trim can find, is a torn one. `HeldInv`
adds these up to the bound on what Attention is offered.

How the modules serve the proofs. Where a fold, a filter or a power was used the
model has a recursive function (`PowerOfTwo`, `Parsed`), a set of places or a
cardinality, which the provers can reason about; induction is by a least
counterexample (`Least`), as the library's induction theorems take an operator.

Only model-checked: everything under fairness, which the proof system does not
reach (`LoopMakesProgress`, `StopCompletes`, `TiredComesToRest`,
`AsleepFrameIsRetracted`, `PursuitEnds`, `NothingStarves`, `NothingHangs`,
`BrokenReflexStopsNothing`, `EverythingFades`, `CallsComeBack`). Every safety
invariant and every action property of the runs is a theorem. The finding's run
shows a violation, and there is nothing to prove of it.

## 5. Findings

One disagreement has a run: a `sleep_log` row that cannot be closed leaves the
sleeper asleep for good, where `cycle.py:434` calls a wedged sleep impossible
(`SleepPhaseWedge`, and `findings` in `PROJECT.json`). Others were met while
reading and modelling. The models follow the code in each of them, and the
properties are stated as what does hold.

Heartbeat and sleep:

- Between the event's wakeup and the loop's next look at the gate a pause, or a
  pause right after a resume, does not stop the tick (`cycle.py:207`, `:229`);
  `GateIsATurnstile` says what the gate does promise.
- With `cycle_autostart` off the runtime starts no run task, so a step sent to it
  releases nobody, although the comment there says the control channel can step him.
- A Redis error ends the control listener and nothing starts it again
  (`cycle_control.py:75`): pause, resume and step are then ignored.
- When closing the log row fails, the report with its self-check is lost on its way to
  the gate, and agency stays what it was (`sleep.py:460`, `cycle.py:444-454`);
  `AgencyFollowsVerdict` excepts it, as the sleeper is then stuck asleep.
- After a close that failed, the last sleep shown in the live frame (the report in
  memory) and the one `GET /state` shows (the row) differ.

Autonomy, intake and router:

- A tool that raises, or whose audit insert does, ran without an `action_log` row
  (`dispatch.py:118`, `:185`), where `core/audit.py:3` speaks of every action.
- `fire_due` claims all due wakeups in one transaction and pushes them one by one:
  a failure in between drops more than the one its comment speaks of
  (`scheduler.py:174`, `:190`).
- A query of the budget that fails, or a provider's body that is not JSON, ends a
  call neither with a completion nor with `LLMUnavailableError`
  (`router.py:124-126`); `NothingHangs` counts it among the ends.

Memory:

- `adjusted_salience` applies the whole age of an episode to a salience that
  earlier passes have faded already, so with daily sleeps it falls much faster
  than the half-life `foundation/config.py` documents (the floor holds:
  `AutobiographySurvives`).
- An `upsert_fact` under a key that exists replaces the provenance of the row,
  where a merge of the same two facts would have united it.
- `setval` on `mood`, which a restore deletes instead of truncating, is not undone
  by a rollback, so after a restore that failed the next mood may take an id that
  is there, against "so new inserts don't clash" (`snapshot.py:385`);
  `IdsNeverClash` excepts exactly this.
- "Every persistent store" of a snapshot leaves out notes, scheduled wakeups,
  improvement notes and `action_log`, whose `goal_id` may name a reused id after a
  restore. That the Mind rests during a restore is assumed, not enforced.
- Recall scales episodes by the best of them: where every score is negative, the worse of
  them get the more salience, up to all of it (`memory_stages.py:126-134`).
- The blackboard in Redis, which `workspace.py:303` calls what the Narrator reads,
  is read by the cockpit alone, and lags when `set_contents` fails. Two readers
  that load the mood after a restart may each keep their own
  (`affect/agent.py:317-323`); when APPRAISE fails the narrator keeps the previous
  tick's mood.

Tools:

- `web_fetch.py:15-17` promises a failed result for operational failures; a resolver
  error that `system_resolver` passes on (`safe_http.py:83`) and a charset
  Python does not know (`web_fetch.py:264`) leave `run` as exceptions, and with
  them goes the audit row. Likewise a verdict that does not parse
  (`code_exec.py`, `parse_sandbox_verdict`).
- The outer wait kills the launcher with SIGKILL, which no trap sees, so the
  container may stay (`code_exec.py:137`, `ops/sandbox/README.md:94`);
  `LauncherIsEnough` excepts that case.
- The snippet and the runner are one process, and `parse_sandbox_verdict` asks only
  whether a line is a verdict: one that the snippet writes itself counts as much as the
  runner's, after `os._exit` or at the interpreter's exit too, where `runner.py:38-39`
  keeps a descriptor for the runner's own. What the launcher vouches for is the
  container (`SuccessIsVouched`). A snippet that is deaf to the alarm and ends before the
  backstop is reported as it ended, so a success may come after the limit.
- Past its CPU limit, or with what `main` needs used up, the runner may leave two verdicts
  where `runner.py:3` says exactly one; the last one counts.
- News are ranked by their dates as strings, whatever zone they are written in
  (`news.py:45-49`), where the docstring speaks of newest first (`news.py:11`): an item
  of 02:00-01:00 is left out for one of 03:00+01:00, which is an hour older, and the
  repository's fixture mixes dates with and without an offset
  (`tests/fixtures/searxng/news.json:13`, `:44`). In the model a row has both its clock
  reading and its zone; `LeavesOutOpenly` promises the newest of each zone.
- `<embed>`, a void element, and a `<head>` whose end tag is left out, as HTML allows, hide
  the rest of a page without its being marked as cut (`web_fetch.py:42-59`, `:103`), where
  the comment says that a void tag never opens a skipped span (`:112`). In the model
  this is the token `<lone>`; on a page that has it, and behind any element left open, `LeavesOutOpenly`
  promises only that what is handed over is text that shows.
- The timeout of a fetch is per operation, the docstring's is for the whole request
  (`safe_http.py:29`); a body of exactly the cap is called truncated; `final_url`
  names the pinned address; an address that httpx cannot put into a URL leaves `fetch`
  as an exception (`safe_http.py:270`).

## 6. Not modelled

- The text of prompts and answers (narrator, metacognition, reflection, summaries)
  and the parsing of it beyond "it fits or it does not".
- Vector search: any choice of near rows. The exact curves of drives and mood.
- The arbiter's scores: which urge wins is any choice that the code's conditions
  on freshness and strength leave open.
- Providers' wire formats, embeddings, vision, detection, voice: clients without
  state of their own. Read-only endpoints, authentication, redaction,
  configuration, migrations, deployment.
- The frontend renders what it is sent, in another language and process; the one
  protocol in it is the reconnecting socket (`reconnectingSocket.ts`), whose
  `start()` looks at the socket and not at the pending timer: a start during a
  backoff opens a second socket. It would be the next module.
- A retirement of a tool between CHECK and ACT, and a restore beside a running
  Mind, are not exercised.

## 7. What could come next

A module for the reconnecting socket; `Heartbeat`, `SleepPhase` and `Autonomy`
composed over a whole day, with the choices each now makes for the others replaced
by the others; and a refinement proof for the parts that are bound by promises
in words only (`Tools` as the one step `Autonomy.RunTool` takes it for).
