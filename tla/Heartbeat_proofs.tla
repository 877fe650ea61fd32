-------------------------- MODULE Heartbeat_proofs --------------------------
(***************************************************************************)
(* Proofs about the heartbeat, for every length of the control channel and *)
(* both values of cycle_autostart: its type invariant, that its gate loses *)
(* no wakeup, that a single step is spent by a tick or cancelled, and that *)
(* the gate implements the turnstile.                                      *)
(***************************************************************************)
EXTENDS Heartbeat, SequenceTheorems, TLAPS

(* Every variable keeps its type.                                          *)
THEOREM TypeCorrect == Spec => []TypeOK
<1>0. <<>> \in Seq(Messages)
  BY EmptySeq
<1>1. Init => TypeOK
  BY <1>0 DEF Init, TypeOK, LoopStates, ListenerStates
<1>2. TypeOK /\ [Next]_vars => TypeOK'
  <2> SUFFICES ASSUME TypeOK, [Next]_vars PROVE TypeOK'
    OBVIOUS
  <2> USE DEF TypeOK, LoopStates, ListenerStates, gate
  <2>1. CASE LoopStarts
    BY <2>1 DEF LoopStarts, EnterTick, BlockAtGate, PassGate
  <2>2. CASE TickEnds
    BY <2>2 DEF TickEnds
  <2>3. CASE IntervalOver
    BY <2>3 DEF IntervalOver, EnterTick, BlockAtGate, PassGate
  <2>4. CASE WokenRuns
    BY <2>4 DEF WokenRuns, EnterTick, PassGate
  <2>5. CASE LoopCancelled
    BY <2>5 DEF LoopCancelled
  <2>6. CASE ListenerSubscribes
    BY <2>6 DEF ListenerSubscribes
  <2>7. CASE ListenerApplies
    <3>1. Head(channel) \in Messages /\ Tail(channel) \in Seq(Messages)
      BY <2>7 DEF ListenerApplies
    <3>2. CASE Head(channel) = "junk"
      BY <2>7, <3>1, <3>2 DEF ListenerApplies, Apply
    <3>3. CASE Head(channel) # "junk"
      BY <2>7, <3>1, <3>3 DEF ListenerApplies, Apply, Pause, Resume, Step, Woken,
                              Messages, Commands
    <3> QED BY <3>2, <3>3
  <2>8. CASE ListenerCancelled
    BY <2>8, <1>0 DEF ListenerCancelled
  <2>9. CASE ListenerDies
    BY <2>9, <1>0 DEF ListenerDies
  <2>10. ASSUME NEW m \in Messages, Publish(m) PROVE TypeOK'
    BY <2>10 DEF Publish
  <2>11. CASE Start
    BY <2>11, <1>0, HeartbeatAssumption DEF Start, FreshMemory
  <2>12. CASE StopRequested
    BY <2>12 DEF StopRequested, Resume, Woken
  <2>13. CASE Stopped
    BY <2>13, <1>0 DEF Stopped, FreshMemory
  <2>14. CASE Crash
    BY <2>14, <1>0 DEF Crash, FreshMemory
  <2>15. CASE UNCHANGED vars
    BY <2>15 DEF vars
  <2> QED
    BY <2>1, <2>2, <2>3, <2>4, <2>5, <2>6, <2>7, <2>8, <2>9, <2>10, <2>11,
       <2>12, <2>13, <2>14, <2>15 DEF Next
<1> QED BY <1>1, <1>2, PTL DEF Spec

(* What one control message does to the gate, for the steps below.         *)
LEMMA ApplyKeepsWakeups ==
  ASSUME TypeOK, NoLostWakeup, channel # <<>>, Apply(Head(channel))
  PROVE  /\ NoLostWakeup'
         /\ loop' \in {loop, Woken}
         /\ loop' = "tick" <=> loop = "tick"
<1>1. Head(channel) \in Messages
  BY DEF TypeOK
<1>2. CASE Head(channel) = "pause"
  BY <1>2 DEF Apply, Pause, NoLostWakeup
<1>3. CASE Head(channel) = "resume"
  BY <1>3 DEF Apply, Resume, Woken, NoLostWakeup
<1>4. CASE Head(channel) = "step"
  BY <1>4 DEF Apply, Step, Woken, NoLostWakeup
<1>5. CASE Head(channel) = "junk"
  BY <1>5 DEF Apply, gate, NoLostWakeup
<1> QED BY <1>1, <1>2, <1>3, <1>4, <1>5 DEF Messages, Commands

(* The event's flag agrees with the gate's two booleans, and the run task  *)
(* is never blocked while the event is set.                                *)
THEOREM WakeupsKept == Spec => []NoLostWakeup
<1>1. Init => NoLostWakeup
  BY DEF Init, NoLostWakeup
<1>2. TypeOK /\ NoLostWakeup /\ [Next]_vars => NoLostWakeup'
  <2> SUFFICES ASSUME TypeOK, NoLostWakeup, [Next]_vars PROVE NoLostWakeup'
    OBVIOUS
  <2> USE DEF NoLostWakeup, gate
  <2>1. CASE LoopStarts
    BY <2>1 DEF LoopStarts, EnterTick, BlockAtGate, PassGate, TypeOK
  <2>2. CASE IntervalOver
    BY <2>2 DEF IntervalOver, EnterTick, BlockAtGate, PassGate, TypeOK
  <2>3. CASE WokenRuns
    BY <2>3 DEF WokenRuns, EnterTick, PassGate, TypeOK
  <2>4. CASE TickEnds \/ LoopCancelled
    BY <2>4 DEF TickEnds, LoopCancelled
  <2>5. CASE ListenerApplies
    BY <2>5, ApplyKeepsWakeups DEF ListenerApplies
  <2>6. CASE ListenerSubscribes \/ ListenerCancelled \/ ListenerDies
    BY <2>6 DEF ListenerSubscribes, ListenerCancelled, ListenerDies
  <2>7. ASSUME NEW m \in Messages, Publish(m) PROVE NoLostWakeup'
    BY <2>7 DEF Publish
  <2>8. CASE Start
    BY <2>8 DEF Start, FreshMemory
  <2>9. CASE StopRequested
    BY <2>9 DEF StopRequested, Resume, Woken
  <2>10. CASE Stopped \/ Crash
    BY <2>10 DEF Stopped, Crash, FreshMemory
  <2>11. CASE UNCHANGED vars
    BY <2>11 DEF vars
  <2> QED
    BY <2>1, <2>2, <2>3, <2>4, <2>5, <2>6, <2>7, <2>8, <2>9, <2>10, <2>11 DEF Next
<1> QED BY <1>1, <1>2, TypeCorrect, PTL DEF Spec

(* A pending step disappears only into a tick that closes the gate behind  *)
(* it, into a later command, or with the runtime.                          *)
THEOREM StepSpent == Spec => StepIsSpentByATick
<1> DEFINE Spent == stepOnce /\ ~stepOnce' =>
                      \/ TickBegins /\ paused' /\ ~proceed'
                      \/ channel # <<>> /\ channel' = Tail(channel)
                      \/ runtime' # runtime
<1>1. TypeOK /\ [Next]_vars => [Spent]_vars
  <2> SUFFICES ASSUME TypeOK, [Next]_vars, stepOnce, ~stepOnce' PROVE Spent
    OBVIOUS
  <2>1. CASE LoopStarts \/ IntervalOver \/ WokenRuns
    BY <2>1 DEF LoopStarts, IntervalOver, WokenRuns, EnterTick, BlockAtGate, PassGate,
                gate, TickBegins, TypeOK
  <2>2. CASE TickEnds \/ LoopCancelled
    BY <2>2 DEF TickEnds, LoopCancelled, gate
  <2>3. CASE ListenerApplies
    BY <2>3 DEF ListenerApplies
  <2>4. CASE ListenerSubscribes \/ ListenerCancelled \/ ListenerDies
    BY <2>4 DEF ListenerSubscribes, ListenerCancelled, ListenerDies, gate
  <2>5. ASSUME NEW m \in Messages, Publish(m) PROVE Spent
    BY <2>5 DEF Publish, gate
  <2>6. CASE Start \/ StopRequested \/ Stopped \/ Crash
    BY <2>6 DEF Start, StopRequested, Stopped, Crash
  <2>7. CASE UNCHANGED vars
    BY <2>7 DEF vars
  <2> QED BY <2>1, <2>2, <2>3, <2>4, <2>5, <2>6, <2>7 DEF Next
<1> QED BY <1>1, TypeCorrect, PTL DEF Spec, StepIsSpentByATick

(* The gate and its run loop implement the turnstile: every step of theirs *)
(* is one of its steps or leaves it unchanged.                             *)
THEOREM ImplementsTurnstile == Spec => GateIsATurnstile
<1>1. Init => Abs!TInit
  BY DEF Init, Abs!TInit, Permit
<1>2. TypeOK /\ NoLostWakeup /\ [Next]_vars => [Abs!TNext]_(Abs!tvars)
  <2> SUFFICES ASSUME TypeOK, NoLostWakeup, [Next]_vars
               PROVE  Abs!TNext \/ UNCHANGED Abs!tvars
    OBVIOUS
  <2> USE DEF Permit, Abs!tvars
  <2>1. CASE LoopStarts
    BY <2>1 DEF LoopStarts, EnterTick, BlockAtGate, PassGate, gate, NoLostWakeup,
                TypeOK, Abs!TNext, Abs!Enter
  <2>2. CASE IntervalOver
    BY <2>2 DEF IntervalOver, EnterTick, BlockAtGate, PassGate, gate, NoLostWakeup,
                TypeOK, Abs!TNext, Abs!Enter
  <2>3. CASE WokenRuns /\ running
    BY <2>3 DEF WokenRuns, EnterTick, PassGate, gate, TypeOK, Abs!TNext, Abs!Enter
  <2>4. CASE WokenRuns /\ ~running
    BY <2>4 DEF WokenRuns, EnterTick, gate, TypeOK, Abs!TNext, Abs!Void
  <2>5. CASE TickEnds
    BY <2>5 DEF TickEnds, gate, Abs!TNext, Abs!Leave
  <2>6. CASE LoopCancelled
    <3>1. CASE Permit'
      BY <2>6, <3>1 DEF LoopCancelled, gate, TypeOK, Abs!TNext, Abs!Leave
    <3>2. CASE ~Permit'
      BY <2>6, <3>2 DEF LoopCancelled, gate, TypeOK, Abs!TNext, Abs!Void
    <3> QED BY <3>1, <3>2
  <2>7. CASE ListenerApplies
    <3>1. Head(channel) \in Messages
      BY <2>7 DEF ListenerApplies, TypeOK
    <3>2. CASE Head(channel) = "pause"
      BY <2>7, <3>2 DEF ListenerApplies, Apply, Pause, TypeOK, NoLostWakeup,
                        Abs!TNext, Abs!Hold
    <3>3. CASE Head(channel) = "resume"
      BY <2>7, <3>3 DEF ListenerApplies, Apply, Resume, Woken, Abs!TNext, Abs!Free
    <3>4. CASE Head(channel) = "step"
      BY <2>7, <3>4 DEF ListenerApplies, Apply, Step, Woken, Abs!TNext, Abs!GrantOne
    <3>5. CASE Head(channel) = "junk"
      BY <2>7, <3>5 DEF ListenerApplies, Apply, gate
    <3> QED BY <3>1, <3>2, <3>3, <3>4, <3>5 DEF Messages, Commands
  <2>8. CASE ListenerSubscribes \/ ListenerCancelled \/ ListenerDies
    BY <2>8 DEF ListenerSubscribes, ListenerCancelled, ListenerDies, gate
  <2>9. ASSUME NEW m \in Messages, Publish(m) PROVE UNCHANGED Abs!tvars
    BY <2>9 DEF Publish, gate
  <2>10. CASE Start \/ Stopped \/ Crash
    BY <2>10, HeartbeatAssumption
       DEF Start, Stopped, Crash, FreshMemory, Abs!TNext, Abs!Void
  <2>11. CASE StopRequested
    BY <2>11 DEF StopRequested, Resume, Woken, Abs!TNext, Abs!Free
  <2>12. CASE UNCHANGED vars
    BY <2>12 DEF vars
  <2> QED
    BY <2>1, <2>2, <2>3, <2>4, <2>5, <2>6, <2>7, <2>8, <2>9, <2>10, <2>11, <2>12 DEF Next
<1> QED BY <1>1, <1>2, TypeCorrect, WakeupsKept, PTL DEF Spec, GateIsATurnstile, Abs!TSpec

=============================================================================
