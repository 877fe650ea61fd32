------------------------------- MODULE Intake -------------------------------
(***************************************************************************)
(* What reaches the Mind from outside and from its own past: the input     *)
(* queue in Redis, the doorways that push to it, the Sensorium that drains *)
(* it at PERCEIVE, and the Scheduler that fires due wakeups into it        *)
(* between ticks (brain/agents/sensorium.py, brain/effectors/scheduler.py, *)
(* brain/cycle.py, johnny/api/v1/input.py, repl/cockpit.py).               *)
(*                                                                         *)
(* Every Redis or database call may raise, and the process may die between *)
(* any two of them; the queue and the wakeup rows survive it.  A message   *)
(* or wakeup that has left the pipeline may stand for a new one.           *)
(***************************************************************************)
EXTENDS Naturals, Sequences, FiniteSets

CONSTANTS
    Messages,    \* what a person sends
    Wakeups,     \* rows of scheduled_wakeup
    Requests,    \* POST /api/v1/input handlers that can be in flight at once
    Nothing,     \* the message of a handler that has none
    Batch,       \* _MAX_DRAIN_PER_TICK
    MaxDepth     \* web_input_max_queue_depth

ASSUME IntakeAssumption ==
    /\ Messages \cap Wakeups = {}
    /\ Nothing \notin Messages
    /\ Batch \in Nat \ {0} /\ MaxDepth \in Nat \ {0}
    /\ IsFiniteSet(Requests) /\ IsFiniteSet(Wakeups)

Items == Messages \cup Wakeups

VARIABLES
    proc,      \* "down" or "up"
    at,        \* the next thing the run loop does
    queue,     \* the Redis list, head first
    byWeb,     \* the items of the queue that a web request pushed
    request,   \* per handler: the message past the depth check, not pushed yet
    held,      \* the batch drain() popped, not normalised yet
    arrived,   \* the batch's items already persisted as percepts
    percepts,  \* ctx.percepts of the current tick, the ambient one left out
    status,    \* per wakeup: "none", "pending", "due" or "fired"
    claimed    \* fired wakeups that fire_due has yet to push

vars == <<proc, at, queue, byWeb, request, held, arrived, percepts, status, claimed>>

In(x, s) == \E i \in 1..Len(s) : s[i] = x

InPipeline(x) == In(x, queue) \/ In(x, held) \/ In(x, arrived) \/ In(x, claimed)

TypeOK ==
    /\ proc \in {"down", "up"}
    /\ at \in {"drain", "persist", "ambient", "between", "push"}
    /\ queue \in Seq(Items)
    /\ byWeb \subseteq Messages
    /\ request \in [Requests -> Messages \cup {Nothing}]
    /\ held \in Seq(Items) /\ arrived \in Seq(Items)
    /\ percepts \subseteq Items
    /\ status \in [Wakeups -> {"none", "pending", "due", "fired"}]
    /\ claimed \in Seq(Wakeups)

----------------------------------------------------------------------------
(* The doorways.  The web handler reads the depth and pushes in two calls; *)
(* the REPL is another process and pushes without asking.                  *)

DoorFrame == UNCHANGED <<proc, at, held, arrived, percepts, status, claimed>>

Fresh(m) == ~InPipeline(m) /\ \A r \in Requests : request[r] # m

CheckDepth_NotAsked(r, m) ==
    /\ proc = "up" /\ request[r] = Nothing /\ Fresh(m)
    /\ request' = [request EXCEPT ![r] = m]
    /\ DoorFrame /\ UNCHANGED <<queue, byWeb>>

\* A full queue is answered 429 and nothing changes.
CheckDepth(r, m) ==
    /\ proc = "up" /\ request[r] = Nothing /\ Fresh(m)
    /\ Len(queue) < MaxDepth
    /\ request' = [request EXCEPT ![r] = m]
    /\ DoorFrame /\ UNCHANGED <<queue, byWeb>>

PushInput_AtHead(r) ==
    /\ proc = "up" /\ request[r] # Nothing
    /\ queue' = <<request[r]>> \o queue
    /\ byWeb' = byWeb \cup {request[r]}
    /\ request' = [request EXCEPT ![r] = Nothing]
    /\ DoorFrame

PushInput(r) ==
    /\ proc = "up" /\ request[r] # Nothing
    /\ queue' = Append(queue, request[r])
    /\ byWeb' = byWeb \cup {request[r]}
    /\ request' = [request EXCEPT ![r] = Nothing]
    /\ DoorFrame

PushInputFails(r) ==
    /\ proc = "up" /\ request[r] # Nothing
    /\ request' = [request EXCEPT ![r] = Nothing]
    /\ DoorFrame /\ UNCHANGED <<queue, byWeb>>

Say(m) ==
    /\ Fresh(m)
    /\ queue' = Append(queue, m)
    /\ DoorFrame /\ UNCHANGED <<byWeb, request>>

----------------------------------------------------------------------------
(* PERCEIVE: drain a batch, persist each input, sample the ambient state.  *)
(* An error anywhere leaves the tick without percepts.                     *)

SensoriumFrame == UNCHANGED <<proc, request, status, claimed>>

First(n, m) == IF n < m THEN n ELSE m

Drain_Newest ==
    /\ proc = "up" /\ at = "drain"
    /\ LET n == First(Batch, Len(queue))
           k == Len(queue) - n IN
         /\ held' = SubSeq(queue, k + 1, Len(queue))
         /\ queue' = SubSeq(queue, 1, k)
         /\ byWeb' = byWeb \ {queue[i] : i \in k + 1..Len(queue)}
         /\ at' = IF n = 0 THEN "ambient" ELSE "persist"
    /\ percepts' = {}
    /\ SensoriumFrame /\ UNCHANGED arrived

\* LPOP with a count removes the batch from Redis.
Drain ==
    /\ proc = "up" /\ at = "drain"
    /\ LET n == First(Batch, Len(queue)) IN
         /\ held' = SubSeq(queue, 1, n)
         /\ queue' = SubSeq(queue, n + 1, Len(queue))
         /\ byWeb' = byWeb \ {queue[i] : i \in 1..n}
         /\ at' = IF n = 0 THEN "ambient" ELSE "persist"
    /\ percepts' = {}
    /\ SensoriumFrame /\ UNCHANGED arrived

DrainFails ==
    /\ proc = "up" /\ at = "drain"
    /\ at' = "between" /\ percepts' = {}
    /\ SensoriumFrame /\ UNCHANGED <<queue, byWeb, held, arrived>>

PersistInput ==
    /\ proc = "up" /\ at = "persist"
    /\ arrived' = Append(arrived, Head(held))
    /\ held' = Tail(held)
    /\ at' = IF Len(held) = 1 THEN "ambient" ELSE "persist"
    /\ SensoriumFrame /\ UNCHANGED <<queue, byWeb, percepts>>

SampleAmbient ==
    /\ proc = "up" /\ at = "ambient"
    /\ percepts' = {arrived[i] : i \in 1..Len(arrived)}
    /\ arrived' = <<>>
    /\ at' = "between"
    /\ SensoriumFrame /\ UNCHANGED <<queue, byWeb, held>>

\* A percept row cannot be written: the exception takes the whole batch.
PerceiveFails ==
    /\ proc = "up" /\ at \in {"persist", "ambient"}
    /\ held' = <<>> /\ arrived' = <<>>
    /\ at' = "between"
    /\ SensoriumFrame /\ UNCHANGED <<queue, byWeb, percepts>>

----------------------------------------------------------------------------
(* The scheduler.  fire_due claims every due row in one transaction and    *)
(* pushes the claimed wakeups after it has committed.                      *)

SchedulerFrame == UNCHANGED <<proc, byWeb, request, held, arrived, percepts>>

\* The schedule_wakeup tool, at ACT: always a new row.
Schedule(w) ==
    /\ proc = "up" /\ at = "between"
    /\ status[w] \in {"none", "fired"} /\ ~InPipeline(w)
    /\ status' = [status EXCEPT ![w] = "pending"]
    /\ SchedulerFrame /\ UNCHANGED <<at, queue, claimed>>

FireAtPasses(w) ==
    /\ status[w] = "pending"
    /\ status' = [status EXCEPT ![w] = "due"]
    /\ SchedulerFrame /\ UNCHANGED <<at, queue, claimed>>

Due == {w \in Wakeups : status[w] = "due"}

\* The due rows in some order of fire_at.
Orders(S) == {s \in [1..Cardinality(S) -> S] : \A w \in S : In(w, s)}

ClaimDue_LeavesPending ==
    /\ proc = "up" /\ at = "between"
    /\ claimed' \in Orders(Due)
    /\ at' = IF Due = {} THEN "drain" ELSE "push"
    /\ SchedulerFrame /\ UNCHANGED <<queue, status>>

ClaimDue ==
    /\ proc = "up" /\ at = "between"
    /\ claimed' \in Orders(Due)
    /\ status' = [w \in Wakeups |-> IF w \in Due THEN "fired" ELSE status[w]]
    /\ at' = IF Due = {} THEN "drain" ELSE "push"
    /\ SchedulerFrame /\ UNCHANGED queue

\* The transaction rolls back: this phase is skipped until the next tick.
ClaimFails ==
    /\ proc = "up" /\ at = "between"
    /\ at' = "drain"
    /\ SchedulerFrame /\ UNCHANGED <<queue, status, claimed>>

PushWakeup ==
    /\ proc = "up" /\ at = "push"
    /\ queue' = Append(queue, Head(claimed))
    /\ claimed' = Tail(claimed)
    /\ at' = IF Len(claimed) = 1 THEN "drain" ELSE "push"
    /\ SchedulerFrame /\ UNCHANGED status

\* RPUSH raises out of fire_due: _fire_due_wakeups logs it and goes on.
PushWakeupFails ==
    /\ proc = "up" /\ at = "push"
    /\ claimed' = <<>>
    /\ at' = "drain"
    /\ SchedulerFrame /\ UNCHANGED <<queue, status>>

----------------------------------------------------------------------------
(* The process.                                                            *)

FreshMemory ==
    /\ at' = "drain"
    /\ request' = [r \in Requests |-> Nothing]
    /\ held' = <<>> /\ arrived' = <<>> /\ percepts' = {} /\ claimed' = <<>>
    /\ UNCHANGED <<queue, byWeb, status>>

Start == proc = "down" /\ proc' = "up" /\ FreshMemory
Die == proc = "up" /\ proc' = "down" /\ FreshMemory

Init ==
    /\ proc = "down" /\ at = "drain"
    /\ queue = <<>> /\ byWeb = {}
    /\ request = [r \in Requests |-> Nothing]
    /\ held = <<>> /\ arrived = <<>> /\ percepts = {}
    /\ status = [w \in Wakeups |-> "none"] /\ claimed = <<>>

Perceive == Drain \/ DrainFails \/ PersistInput \/ SampleAmbient \/ PerceiveFails
FireDue == ClaimDue \/ ClaimFails \/ PushWakeup \/ PushWakeupFails

Next ==
    \/ \E r \in Requests, m \in Messages : CheckDepth(r, m)
    \/ \E r \in Requests : PushInput(r) \/ PushInputFails(r)
    \/ \E m \in Messages : Say(m)
    \/ Perceive \/ FireDue
    \/ \E w \in Wakeups : Schedule(w) \/ FireAtPasses(w)
    \/ Start \/ Die

Spec == Init /\ [][Next]_vars

\* The loop goes on, and neither LPOP nor the claim fails for ever.
Fairness == WF_vars(Perceive \/ FireDue) /\ SF_vars(Drain) /\ SF_vars(ClaimDue)

FairSpec == Spec /\ Fairness

----------------------------------------------------------------------------
(* Properties.                                                             *)

Once(s) == \A i, j \in 1..Len(s) : s[i] = s[j] => i = j

(* No item is in the pipeline twice, and a wakeup that is still to fire is *)
(* nowhere in it: whatever fails and whenever the process dies, a message  *)
(* is perceived once and a wakeup never fires twice (InputQueue.drain's    *)
(* LPOP, and fire_due's claim before the injection).                       *)
AtMostOnce ==
    /\ Once(arrived \o held \o queue \o claimed)
    /\ \A w \in Wakeups : status[w] \in {"pending", "due"} => ~InPipeline(w)

(* The queue with the batch in the Sensorium's hands is a queue that loses *)
(* at its head and nowhere else, and keeps its order over drains, errors   *)
(* and restarts (InputQueue: "FIFO so messages are perceived in the order  *)
(* they arrived").                                                         *)
Abs == INSTANCE LossyFifo WITH line <- arrived \o held \o queue

InputsAreFifo == Abs!FSpec

(* The web doorway's depth limit is overshot by no more than the requests  *)
(* that can be between their check and their push (post_input).            *)
WebDepthBounded == Cardinality(byWeb) <= MaxDepth - 1 + Cardinality(Requests)

(* What waits in the queue leaves it, however much more comes in, unless   *)
(* the process ends (drain takes from the head, a batch per tick).         *)
QueueDrains == \A x \in Items : In(x, queue) ~> (~In(x, queue) \/ proc = "down")

(* A due wakeup is claimed, unless the process ends (_fire_due_wakeups     *)
(* after every tick).                                                      *)
DueIsClaimed == \A w \in Wakeups : status[w] = "due" ~> (status[w] = "fired" \/ proc = "down")

(* Neither a message nor a wakeup is starved by those that keep coming.    *)
NothingStarves == QueueDrains /\ DueIsClaimed

=============================================================================
