------------------------------ MODULE Heartbeat ------------------------------
(***************************************************************************)
(* The heartbeat: the run loop of the cognitive cycle, the pause/step gate *)
(* it passes before every tick, the listener that turns control messages   *)
(* from Redis into gate calls, and the runtime that starts and stops the   *)
(* three (brain/cycle.py, brain/cycle_control.py, brain/runtime.py).       *)
(*                                                                         *)
(* One asyncio event loop runs everything, so a step of the model is the   *)
(* code between two awaits.  A tick is opaque here: it begins and it ends; *)
(* what it does is modelled in Autonomy, Intake and SleepPhase.            *)
(***************************************************************************)
EXTENDS Naturals, Sequences

CONSTANTS
    Autostart,     \* settings.cycle_autostart: does start() create the run task?
    MaxInFlight    \* bound: control messages published and not yet applied

ASSUME HeartbeatAssumption ==
    /\ Autostart \in BOOLEAN
    /\ MaxInFlight \in Nat \ {0}

Commands == {"pause", "resume", "step"}

\* What a party on the bus can publish: a command with the right token, or
\* anything _apply drops (malformed, wrong token, unknown command).
Messages == Commands \cup {"junk"}

VARIABLES
    paused,     \* CycleGate._paused
    stepOnce,   \* CycleGate._step_once
    proceed,    \* CycleGate._proceed: the asyncio.Event's flag
    loop,       \* where the run task is (see LoopStates)
    running,    \* CognitiveCycle._running
    listener,   \* the control listener's task
    channel,    \* messages the subscription holds, oldest first
    runtime     \* "down", "up" or "stopping"

gate == <<paused, stepOnce, proceed>>
vars == <<paused, stepOnce, proceed, loop, running, listener, channel, runtime>>

\* none: never created (frozen); created: scheduled, not run yet; waiting:
\* blocked on the event; woken: its future is resolved, it has not run since;
\* tick: inside tick() or a between-ticks phase; interval: asleep between ticks.
LoopStates == {"none", "created", "waiting", "woken", "tick", "interval", "ended"}
ListenerStates == {"none", "created", "listening", "ended"}

LoopAlive == loop \notin {"none", "ended"}

TypeOK ==
    /\ paused \in BOOLEAN /\ stepOnce \in BOOLEAN /\ proceed \in BOOLEAN
    /\ loop \in LoopStates
    /\ running \in BOOLEAN
    /\ listener \in ListenerStates
    /\ channel \in Seq(Messages)
    /\ runtime \in {"down", "up", "stopping"}

----------------------------------------------------------------------------
(* The gate.  Event.set() resolves the future of a blocked waiter; a later *)
(* clear() does not take that back.                                        *)

Woken == IF loop = "waiting" THEN "woken" ELSE loop

Pause_KeepsEvent ==
    /\ paused' = TRUE /\ stepOnce' = FALSE
    /\ UNCHANGED <<proceed, loop>>

Pause ==
    /\ paused' = TRUE /\ stepOnce' = FALSE /\ proceed' = FALSE
    /\ UNCHANGED loop

Resume ==
    /\ paused' = FALSE /\ stepOnce' = FALSE /\ proceed' = TRUE
    /\ loop' = Woken

Step_DoesNotWake ==
    /\ paused' = TRUE /\ stepOnce' = TRUE /\ proceed' = TRUE
    /\ UNCHANGED loop

Step ==
    /\ paused' = TRUE /\ stepOnce' = TRUE /\ proceed' = TRUE
    /\ loop' = Woken

PassGate_LeavesEvent ==
    IF paused /\ stepOnce
    THEN stepOnce' = FALSE /\ UNCHANGED <<paused, proceed>>
    ELSE UNCHANGED gate

\* The tail of wait_turn: a single step is consumed and the gate closes again.
PassGate ==
    IF paused /\ stepOnce
    THEN stepOnce' = FALSE /\ proceed' = FALSE /\ UNCHANGED paused
    ELSE UNCHANGED gate

----------------------------------------------------------------------------
(* The run task.                                                           *)

\* while self._running: await wait_turn(); if not self._running: break; tick.
EnterTick ==
    IF running'
    THEN PassGate /\ loop' = "tick" /\ UNCHANGED <<listener, channel, runtime>>
    ELSE UNCHANGED <<gate, listener, channel, runtime>> /\ loop' = "ended"

BlockAtGate ==
    /\ ~proceed
    /\ loop' = "waiting"
    /\ UNCHANGED <<gate, listener, channel, runtime>>

LoopStarts ==
    /\ loop = "created" /\ runtime = "up"
    /\ running' = TRUE
    /\ IF proceed THEN EnterTick ELSE BlockAtGate

\* The tick and the phases after it return, or raise: either way the loop
\* sleeps (the interval, or the error backoff) and goes round again.
TickEnds ==
    /\ loop = "tick" /\ runtime = "up"
    /\ loop' = "interval"
    /\ UNCHANGED <<gate, running, listener, channel, runtime>>

IntervalOver ==
    /\ loop = "interval" /\ runtime = "up"
    /\ UNCHANGED running
    /\ IF proceed \/ ~running THEN EnterTick ELSE BlockAtGate

WokenRuns ==
    /\ loop = "woken" /\ runtime = "up"
    /\ UNCHANGED running
    /\ EnterTick

----------------------------------------------------------------------------
(* The control channel.                                                    *)

ListenerSubscribes ==
    /\ listener = "created" /\ runtime = "up"
    /\ listener' = "listening"
    /\ UNCHANGED <<gate, loop, running, channel, runtime>>

\* send_control: pub/sub keeps nothing for a channel nobody subscribes to.
Publish(m) ==
    /\ Len(channel) < MaxInFlight
    /\ channel' = IF listener = "listening" THEN Append(channel, m) ELSE channel
    /\ UNCHANGED <<gate, loop, running, listener, runtime>>

Apply(m) ==
    CASE m = "pause"  -> Pause
      [] m = "resume" -> Resume
      [] m = "step"   -> Step
      [] m = "junk"   -> UNCHANGED <<gate, loop>>

ListenerApplies ==
    /\ listener = "listening" /\ runtime = "up"
    /\ channel # <<>>
    /\ channel' = Tail(channel)
    /\ Apply(Head(channel))
    /\ UNCHANGED <<running, listener, runtime>>

\* get_message raises (the connection dropped): nothing restarts the task.
ListenerDies ==
    /\ listener \in {"created", "listening"} /\ runtime = "up"
    /\ listener' = "ended"
    /\ channel' = <<>>
    /\ UNCHANGED <<gate, loop, running, runtime>>

----------------------------------------------------------------------------
(* The runtime.                                                            *)

FreshMemory ==
    /\ paused' = FALSE /\ stepOnce' = FALSE /\ proceed' = TRUE
    /\ running' = FALSE
    /\ channel' = <<>>

Start ==
    /\ runtime = "down"
    /\ runtime' = "up"
    /\ FreshMemory
    /\ loop' = IF Autostart THEN "created" ELSE "none"
    /\ listener' = "created"

\* stop() up to its first await: cycle.stop() opens the gate, control.stop()
\* and task.cancel() are called; the tasks see it when they next run.
StopRequested ==
    /\ runtime = "up"
    /\ runtime' = "stopping"
    /\ running' = FALSE
    /\ Resume
    /\ UNCHANGED <<listener, channel>>

LoopCancelled_SwallowedByTick ==
    /\ runtime = "stopping" /\ LoopAlive /\ loop # "tick"
    /\ loop' = "ended"
    /\ running' = FALSE
    /\ UNCHANGED <<gate, listener, channel, runtime>>

\* CancelledError is raised at the task's await (a task that never ran is
\* closed before its first line) and run()'s finally clears the flag.
LoopCancelled ==
    /\ runtime = "stopping" /\ LoopAlive
    /\ loop' = "ended"
    /\ running' = FALSE
    /\ UNCHANGED <<gate, listener, channel, runtime>>

ListenerCancelled ==
    /\ runtime = "stopping" /\ ~LoopAlive
    /\ listener \in {"created", "listening"}
    /\ listener' = "ended"
    /\ channel' = <<>>
    /\ UNCHANGED <<gate, loop, running, runtime>>

Stopped ==
    /\ runtime = "stopping" /\ ~LoopAlive
    /\ listener \notin {"created", "listening"}
    /\ runtime' = "down"
    /\ FreshMemory
    /\ loop' = "none" /\ listener' = "none"

\* The process is killed: everything here is memory.
Crash ==
    /\ runtime # "down"
    /\ runtime' = "down"
    /\ FreshMemory
    /\ loop' = "none" /\ listener' = "none"

----------------------------------------------------------------------------
Init ==
    /\ paused = FALSE /\ stepOnce = FALSE /\ proceed = TRUE
    /\ loop = "none" /\ listener = "none"
    /\ running = FALSE
    /\ channel = <<>>
    /\ runtime = "down"

LoopNext == LoopStarts \/ TickEnds \/ IntervalOver \/ WokenRuns \/ LoopCancelled

ListenerNext == ListenerSubscribes \/ ListenerApplies \/ ListenerCancelled

Next ==
    \/ LoopStarts \/ TickEnds \/ IntervalOver \/ WokenRuns \/ LoopCancelled
    \/ ListenerSubscribes \/ ListenerApplies \/ ListenerCancelled \/ ListenerDies
    \/ \E m \in Messages : Publish(m)
    \/ Start \/ StopRequested \/ Stopped \/ Crash

Spec == Init /\ [][Next]_vars

\* asyncio runs every ready task, every await of a tick returns (the model
\* calls, the tools and the interval all carry a timeout), and a message the
\* connection holds is delivered while the listener lives.
Fairness == WF_vars(LoopNext) /\ WF_vars(ListenerNext) /\ WF_vars(Stopped)

FairSpec == Spec /\ Fairness

----------------------------------------------------------------------------
(* Properties.                                                             *)

TickBegins == loop # "tick" /\ loop' = "tick"

(* The flag of the event always says what the two booleans say, and the    *)
(* run task is blocked only while the event is clear: no pause, resume,    *)
(* step or consumed step, in any order and at any point of the loop, loses *)
(* a wakeup (CycleGate: each method sets the three fields separately).     *)
NoLostWakeup ==
    /\ proceed <=> (~paused \/ stepOnce)
    /\ loop = "waiting" => ~proceed

(* The gate implements the turnstile: between two commands that hold it    *)
(* the run loop passes at most once, and never without a permit            *)
(* (CycleGate and the run loop that waits at it).                          *)
Permit == paused /\ (stepOnce \/ loop = "woken")

Abs == INSTANCE Turnstile WITH
           held <- paused, permit <- Permit, inside <- loop = "tick"

GateIsATurnstile == Abs!TSpec

(* A single step, once applied, goes away only by being used by a tick or  *)
(* by a command or a shutdown that cancels it; the tick that uses it shuts *)
(* the gate behind it (CycleGate.step: "exactly one tick, then stay        *)
(* paused").                                                               *)
StepIsSpentByATick ==
    [][ stepOnce /\ ~stepOnce' =>
          \/ TickBegins /\ paused' /\ ~proceed'
          \/ channel # <<>> /\ channel' = Tail(channel)
          \/ runtime' # runtime ]_vars

(* With a live run task an applied step does not wait for ever             *)
(* (CycleGate.step sets the event the loop blocks on).                     *)
StepIsServed == (stepOnce /\ LoopAlive) ~> ~stepOnce

(* A heartbeat that is neither paused nor shut down ticks again, from      *)
(* wherever its loop stands (CognitiveCycle.run).                          *)
FreeRunningTicks ==
    [](runtime = "up" /\ LoopAlive /\ ~paused
        => <>(loop = "tick" \/ paused \/ runtime # "up"))

(* Neither a step nor a free run is forgotten.                             *)
LoopMakesProgress == StepIsServed /\ FreeRunningTicks

(* A shutdown completes whatever the gate's state, paused included         *)
(* (CognitiveRuntime.stop opens the gate and cancels the tasks).           *)
StopCompletes == runtime = "stopping" ~> runtime = "down"

=============================================================================
