-------------------------- MODULE Autonomy_proofs --------------------------
(***************************************************************************)
(* Proofs about the autonomy loop, for every set of drives, every mapping  *)
(* of them to tools and every cadence: one goal at a time, no run without  *)
(* the tick's own consent, no drive eased that was not earned, and no goal *)
(* closed by a tool action that left no audit row.                         *)
(***************************************************************************)
EXTENDS Autonomy, SequenceTheorems, TLAPS

ArbiterPlaces == {"arbitrate", "promote", "plan"}
ToolPlaces == {"check", "commit", "audit", "announce", "remember", "settle"}
InternalPlaces == {"think", "ponder", "note", "resolve", "report"}

\* Why there is one goal: promotion happens only when none is active.
PursuitInv ==
    /\ OneActiveGoal
    /\ EasedIsNotPursued
    /\ at # "idle" => proc = "up" /\ fullAgency /\ pending = {}
    /\ at \in {"promote", "report"} => active = <<>>
    /\ at \notin {"idle", "arbitrate"} => goal \in Drives

\* What the tick's context holds at each place.
ContextInv ==
    /\ at \in ArbiterPlaces => kind = "none"
    /\ at \in ToolPlaces => kind = "tool"
    /\ at \in InternalPlaces => kind = "internal"
    /\ at \in ArbiterPlaces \cup {"check"} => vetted = NoVerdict /\ ~ran /\ ~success
    /\ at = "commit" => vetted.for = goal
    /\ success => ran
    /\ at = "remember" => ran
    /\ at \in {"announce", "remember", "settle"} => logged
    /\ at = "settle" /\ success /\ goal \in WebReadDrives => kept

AutonomyInv == TypeOK /\ PursuitInv /\ ContextInv

----------------------------------------------------------------------------
LEMMA CadenceInRange == 0 \in 0..Cadence /\ Cadence \in 0..Cadence
BY AutonomyAssumption

LEMMA LaterInRange ==
  ASSUME NEW t \in 0..Cadence, NEW e \in 0..Cadence
  PROVE  Later(t, e) \in 0..Cadence
BY AutonomyAssumption DEF Later

LEMMA NoVerdictIsVerdict == NoVerdict \in Verdicts
BY DEF NoVerdict, Verdicts

LEMMA ShortTail ==
  ASSUME NEW s \in Seq(Drives), Len(s) <= 1, s # <<>>
  PROVE  Tail(s) = <<>> /\ Head(s) \in Drives
OBVIOUS

LEMMA InitAutonomyInv == Init => AutonomyInv
<1> SUFFICES ASSUME Init PROVE AutonomyInv
  OBVIOUS
<1> USE DEF Init
<1>1. TypeOK
  <2>1. active \in Seq(Drives) /\ vetted \in Verdicts
    BY EmptySeq, NoVerdictIsVerdict
  <2> QED BY <2>1, CadenceInRange DEF TypeOK, Places
<1>2. PursuitInv
  BY DEF PursuitInv, OneActiveGoal, EasedIsNotPursued
<1>3. ContextInv
  BY DEF ContextInv, ArbiterPlaces, ToolPlaces, InternalPlaces
<1> QED BY <1>1, <1>2, <1>3 DEF AutonomyInv

----------------------------------------------------------------------------
(* One step at a time: types first, then the pursuit, then the context.    *)

LEMMA TypeStep == AutonomyInv /\ [Next]_vars => TypeOK'
<1> SUFFICES ASSUME AutonomyInv, [Next]_vars PROVE TypeOK'
  OBVIOUS
<1> USE NoVerdictIsVerdict, CadenceInRange
    DEF AutonomyInv, TypeOK, Places, At, EndTick, context, FreshContext
<1>1. CASE Start
  <2>1. sinceRan' \in 0..Cadence
    BY <1>1, AutonomyAssumption DEF Start
  <2>2. dwelt' \in BOOLEAN
    BY <1>1 DEF Start
  <2> QED BY <1>1, <2>1, <2>2 DEF Start, FreshMemory
<1>2. CASE Die
  BY <1>2 DEF Die, FreshMemory
<1>3. CASE WakeCheck
  BY <1>3 DEF WakeCheck
<1>4. ASSUME NEW elapsed \in 0..Cadence, Appraise(elapsed) PROVE TypeOK'
  <2>1. sinceActed' \in 0..Cadence /\ sinceRan' \in 0..Cadence
    BY <1>4, LaterInRange DEF Appraise
  <2>2. dwelt' \in BOOLEAN /\ at' \in Places
    BY <1>4 DEF Appraise
  <2> QED BY <1>4, <2>1, <2>2 DEF Appraise
<1>5. CASE Deliberate
  <2> USE DEF ArbiterFrame, PlanFrame
  <2>1. CASE KeepGoal
    <3>1. goal' \in Drives
      BY <2>1 DEF KeepGoal, Incumbent
    <3> QED BY <2>1, <3>1 DEF KeepGoal
  <2>2. CASE NothingToDo
    BY <2>2 DEF NothingToDo
  <2>3. CASE Select
    BY <2>3 DEF Select
  <2>4. CASE Displace
    <3>1. active' \in Seq(Drives)
      BY <2>4 DEF Displace
    <3> QED BY <2>4, <3>1 DEF Displace
  <2>5. CASE Promote
    <3>1. active' \in Seq(Drives)
      BY <2>5 DEF Promote, PursuitInv
    <3> QED BY <2>5, <3>1 DEF Promote
  <2>6. CASE ArbitrationFails
    BY <2>6 DEF ArbitrationFails
  <2>7. CASE NotDue \/ PlanTool \/ PlanInternal \/ PlanFails
    BY <2>7 DEF NotDue, PlanTool, PlanInternal, PlanFails
  <2> QED BY <1>5, <2>1, <2>2, <2>3, <2>4, <2>5, <2>6, <2>7 DEF Deliberate
<1>6. CASE ActOnTool
  <2> USE DEF ToolFrame, ToolMemory
  <2>1. CASE Vet
    <3>1. vetted' \in Verdicts
      BY <2>1 DEF Vet, Verdicts, PursuitInv
    <3> QED BY <2>1, <3>1 DEF Vet
  <2>2. CASE VetFails
    BY <2>2 DEF VetFails
  <2>3. CASE RunTool
    BY <2>3 DEF RunTool
  <2>4. CASE Veto \/ Audit \/ Announce \/ CommitFails
    BY <2>4 DEF Veto, Audit, Announce, CommitFails
  <2>5. CASE RememberWebRead
    BY <2>5 DEF RememberWebRead
  <2>6. CASE Settle \/ SettleFails
    <3>1. pending' \subseteq Drives
      BY <2>6 DEF Settle, SettleFails, PursuitInv
    <3>2. active' \in Seq(Drives)
      BY <2>6 DEF Settle, SettleFails, Resolved
    <3> QED BY <2>6, <3>1, <3>2 DEF Settle, SettleFails
  <2> QED BY <1>6, <2>1, <2>2, <2>3, <2>4, <2>5, <2>6 DEF ActOnTool
<1>7. CASE ActInternally
  <2> USE DEF InternalFrame
  <2>1. CASE Execute
    BY <2>1 DEF Execute, Recall, Consolidate, Reflect
  <2>2. CASE Resolve
    <3>1. active' \in Seq(Drives)
      BY <2>2 DEF Resolve, Resolved
    <3> QED BY <2>2, <3>1 DEF Resolve
  <2>3. CASE Report
    BY <2>3 DEF Report, PursuitInv
  <2>4. CASE ActFails
    BY <2>4 DEF ActFails
  <2>5. CASE Ponder \/ Note \/ ThinkFails
    BY <2>5 DEF Ponder, Note, ThinkFails
  <2> QED BY <1>7, <2>1, <2>2, <2>3, <2>4, <2>5 DEF ActInternally
<1>8. CASE UNCHANGED vars
  BY <1>8 DEF vars
<1> QED BY <1>1, <1>2, <1>3, <1>4, <1>5, <1>6, <1>7, <1>8 DEF Next

LEMMA PursuitStep == AutonomyInv /\ [Next]_vars => PursuitInv'
<1> SUFFICES ASSUME AutonomyInv, [Next]_vars PROVE PursuitInv'
  OBVIOUS
<1> USE DEF AutonomyInv, TypeOK, PursuitInv, OneActiveGoal, EasedIsNotPursued,
            At, EndTick, context, FreshContext
<1>1. CASE Start \/ Die
  BY <1>1 DEF Start, Die, FreshMemory
<1>2. CASE WakeCheck
  BY <1>2 DEF WakeCheck
<1>3. ASSUME NEW elapsed \in 0..Cadence, Appraise(elapsed) PROVE PursuitInv'
  BY <1>3 DEF Appraise
<1>4. CASE Deliberate
  <2> USE DEF ArbiterFrame, PlanFrame
  <2>1. CASE KeepGoal
    BY <2>1, ShortTail DEF KeepGoal, Incumbent
  <2>2. CASE NothingToDo \/ Select \/ ArbitrationFails
    BY <2>2 DEF NothingToDo, Select, ArbitrationFails
  <2>3. CASE Displace
    <3>1. active' = <<>>
      BY <2>3, ShortTail DEF Displace
    <3> QED BY <2>3, <3>1 DEF Displace
  <2>4. CASE Promote
    <3>1. active' = <<goal>>
      BY <2>4 DEF Promote
    <3> QED BY <2>4, <3>1 DEF Promote
  <2>5. CASE NotDue \/ PlanTool \/ PlanInternal \/ PlanFails
    BY <2>5 DEF NotDue, PlanTool, PlanInternal, PlanFails
  <2> QED BY <1>4, <2>1, <2>2, <2>3, <2>4, <2>5 DEF Deliberate
<1>5. CASE ActOnTool
  <2> USE DEF ToolFrame, ToolMemory
  <2>1. CASE Vet \/ VetFails \/ RunTool \/ Veto
    BY <2>1 DEF Vet, VetFails, RunTool, Veto
  <2>2. CASE Audit \/ Announce \/ CommitFails \/ RememberWebRead
    BY <2>2 DEF Audit, Announce, CommitFails, RememberWebRead
  <2>3. CASE Settle
    <3>1. active' = <<>>
      BY <2>3, ShortTail DEF Settle, Resolved
    <3> QED BY <2>3, <3>1 DEF Settle
  <2>4. CASE SettleFails
    BY <2>4 DEF SettleFails
  <2> QED BY <1>5, <2>1, <2>2, <2>3, <2>4 DEF ActOnTool
<1>6. CASE ActInternally
  <2> USE DEF InternalFrame
  <2>1. CASE Report \/ ActFails
    BY <2>1 DEF Report, ActFails
  <2>2. CASE Resolve
    <3>1. active' = <<>>
      BY <2>2, ShortTail DEF Resolve, Resolved
    <3> QED BY <2>2, <3>1 DEF Resolve
  <2>3. CASE Execute
    BY <2>3 DEF Execute, Recall, Consolidate, Reflect
  <2>4. CASE Ponder \/ Note \/ ThinkFails
    BY <2>4 DEF Ponder, Note, ThinkFails
  <2> QED BY <1>6, <2>1, <2>2, <2>3, <2>4 DEF ActInternally
<1>7. CASE UNCHANGED vars
  BY <1>7 DEF vars
<1> QED BY <1>1, <1>2, <1>3, <1>4, <1>5, <1>6, <1>7 DEF Next

LEMMA ContextStep == AutonomyInv /\ [Next]_vars => ContextInv'
<1> SUFFICES ASSUME AutonomyInv, [Next]_vars PROVE ContextInv'
  OBVIOUS
<1> USE DEF AutonomyInv, TypeOK, ContextInv, ArbiterPlaces, ToolPlaces, InternalPlaces,
            At, EndTick, context, FreshContext
<1>1. CASE Start \/ Die
  BY <1>1 DEF Start, Die, FreshMemory
<1>2. CASE WakeCheck
  BY <1>2 DEF WakeCheck
<1>3. ASSUME NEW elapsed \in 0..Cadence, Appraise(elapsed) PROVE ContextInv'
  BY <1>3 DEF Appraise
<1>4. CASE Deliberate
  <2> USE DEF ArbiterFrame, PlanFrame
  <2>1. CASE KeepGoal \/ NothingToDo \/ Select \/ Displace
    BY <2>1 DEF KeepGoal, NothingToDo, Select, Displace
  <2>2. CASE Promote \/ ArbitrationFails
    BY <2>2 DEF Promote, ArbitrationFails
  <2>3. CASE NotDue \/ PlanTool \/ PlanInternal \/ PlanFails
    BY <2>3 DEF NotDue, PlanTool, PlanInternal, PlanFails
  <2> QED BY <1>4, <2>1, <2>2, <2>3 DEF Deliberate
<1>5. CASE ActOnTool
  <2> USE DEF ToolFrame, ToolMemory
  <2>1. CASE Vet
    BY <2>1 DEF Vet
  <2>2. CASE VetFails
    BY <2>2 DEF VetFails
  <2>3. CASE RunTool
    BY <2>3 DEF RunTool
  <2>4. CASE Veto \/ Audit
    BY <2>4 DEF Veto, Audit
  <2>5. CASE Announce \/ CommitFails
    BY <2>5 DEF Announce, CommitFails
  <2>6. CASE RememberWebRead
    BY <2>6 DEF RememberWebRead
  <2>7. CASE Settle \/ SettleFails
    BY <2>7 DEF Settle, SettleFails
  <2> QED BY <1>5, <2>1, <2>2, <2>3, <2>4, <2>5, <2>6, <2>7 DEF ActOnTool
<1>6. CASE ActInternally
  <2> USE DEF InternalFrame
  <2>1. CASE Execute
    BY <2>1 DEF Execute, Recall, Consolidate, Reflect
  <2>2. CASE Ponder \/ Note \/ ThinkFails
    BY <2>2 DEF Ponder, Note, ThinkFails
  <2>3. CASE Resolve \/ Report \/ ActFails
    BY <2>3 DEF Resolve, Report, ActFails
  <2> QED BY <1>6, <2>1, <2>2, <2>3 DEF ActInternally
<1>7. CASE UNCHANGED vars
  BY <1>7 DEF vars
<1> QED BY <1>1, <1>2, <1>3, <1>4, <1>5, <1>6, <1>7 DEF Next

----------------------------------------------------------------------------
(* The inductive invariant, and what follows from it.                      *)

THEOREM AutonomyInvariant == Spec => []AutonomyInv
<1>1. AutonomyInv /\ [Next]_vars => AutonomyInv'
  BY TypeStep, PursuitStep, ContextStep DEF AutonomyInv
<1> QED BY InitAutonomyInv, <1>1, PTL DEF Spec

(* No failure or restart in the middle of a switch leaves two active goals *)
(* (GoalArbiter.arbitrate).                                                *)
THEOREM SinglePursuit == Spec => []OneActiveGoal
BY AutonomyInvariant, PTL DEF AutonomyInv, PursuitInv

(* A drive about to be eased is one whose goal is closed.                  *)
THEOREM EasedAfterClosing == Spec => []EasedIsNotPursued
BY AutonomyInvariant, PTL DEF AutonomyInv, PursuitInv

(* TypeOK holds along every behaviour of the loop.                         *)
THEOREM AutonomyTypes == Spec => []TypeOK
BY AutonomyInvariant, PTL DEF AutonomyInv

----------------------------------------------------------------------------
(* What a single step may never do.                                        *)

(* A tool runs only on this tick's own "allow" for the goal it serves      *)
(* (EffectorDispatch.vet and commit).                                      *)
THEOREM ConsentToRun == Spec => RunsOnlyWithConsent
<1>1. AutonomyInv /\ [Next]_vars =>
        [~ran /\ ran' => fullAgency /\ vetted = [for |-> goal, verdict |-> "allow"]]_vars
  <2> SUFFICES ASSUME AutonomyInv, Next, ~ran, ran'
               PROVE  fullAgency /\ vetted = [for |-> goal, verdict |-> "allow"]
    BY DEF vars
  <2> USE DEF context, FreshContext
  <2>1. RunTool
    <3>1. ~Start /\ ~Die /\ ~WakeCheck /\ ~\E elapsed \in 0..Cadence : Appraise(elapsed)
      BY DEF Start, Die, FreshMemory, WakeCheck, Appraise
    <3>2. ~Deliberate
      BY DEF Deliberate, KeepGoal, NothingToDo, Select, Displace, Promote, ArbitrationFails,
             NotDue, PlanTool, PlanInternal, PlanFails, ArbiterFrame, PlanFrame
    <3>3. ~ActInternally
      BY DEF ActInternally, Execute, Recall, Consolidate, Reflect, Ponder, Note, ThinkFails,
              Resolve, Report, ActFails, InternalFrame
    <3>4. ActOnTool
      BY <3>1, <3>2, <3>3 DEF Next
    <3> QED BY <3>4 DEF ActOnTool, Vet, VetFails, Veto, Audit, Announce, CommitFails,
                        RememberWebRead, Settle, SettleFails
  <2>2. at = "commit" /\ vetted.verdict = "allow"
    BY <2>1 DEF RunTool, At
  <2>3. vetted.for = goal /\ fullAgency
    BY <2>2 DEF AutonomyInv, PursuitInv, ContextInv
  <2>4. vetted \in [for : Drives, verdict : {"allow", "veto"}]
    BY <2>2 DEF AutonomyInv, TypeOK, Verdicts, NoVerdict
  <2> QED BY <2>2, <2>3, <2>4
<1> QED BY AutonomyInvariant, <1>1, PTL DEF Spec, RunsOnlyWithConsent

(* A drive is eased by a tool action only if the tool ran, succeeded, was  *)
(* audited and, for a web read, left something in memory                   *)
(* (_dispatch_tool_action, _consolidate_web_read).                         *)
THEOREM EasingIsEarned == Spec => EasedOnlyIfEarned
<1>1. AutonomyInv /\ [Next]_vars =>
        [pending' \ pending # {} /\ kind = "tool" =>
            /\ pending' = {goal}
            /\ ran /\ success /\ logged
            /\ goal \in WebReadDrives => kept]_vars
  <2> SUFFICES ASSUME AutonomyInv, Next, pending' \ pending # {}, kind = "tool"
               PROVE  /\ pending' = {goal}
                      /\ ran /\ success /\ logged
                      /\ goal \in WebReadDrives => kept
    BY DEF vars
  <2> USE DEF AutonomyInv, ContextInv, PursuitInv
  <2>1. Settle
    <3>1. ~Start /\ ~Die /\ ~WakeCheck /\ ~\E elapsed \in 0..Cadence : Appraise(elapsed)
      BY DEF Start, Die, FreshMemory, WakeCheck, Appraise
    <3>2. ~Deliberate
      BY DEF Deliberate, KeepGoal, NothingToDo, Select, Displace, Promote, ArbitrationFails,
             NotDue, PlanTool, PlanInternal, PlanFails, ArbiterFrame, PlanFrame
    <3>3. ~ActInternally
      BY DEF ActInternally, Execute, Recall, Consolidate, Reflect, Ponder, Note, ThinkFails,
              Resolve, Report, ActFails, At, InternalPlaces
    <3>4. ActOnTool
      BY <3>1, <3>2, <3>3 DEF Next
    <3> QED BY <3>4 DEF ActOnTool, Vet, VetFails, RunTool, Veto, Audit, Announce, CommitFails,
                        RememberWebRead, SettleFails, ToolMemory
  <2>2. at = "settle" /\ success /\ pending' = pending \cup {goal}
    BY <2>1 DEF Settle, At
  <2> QED BY <2>2
<1> QED BY AutonomyInvariant, <1>1, PTL DEF Spec, EasedOnlyIfEarned

(* A goal closed by a tool action, run or vetoed, has its row in action_log *)
(* already (EffectorDispatch.commit before settle_tool_action).            *)
THEOREM ClosingIsLogged == Spec => ClosedByToolIsLogged
<1>1. AutonomyInv /\ [Next]_vars =>
        [active' # active /\ kind = "tool" => logged]_vars
  <2> SUFFICES ASSUME AutonomyInv, Next, active' # active, kind = "tool" PROVE logged
    BY DEF vars
  <2> USE DEF AutonomyInv, ContextInv, At
  <2>1. ~Start /\ ~Die /\ ~WakeCheck /\ ~\E elapsed \in 0..Cadence : Appraise(elapsed)
    BY DEF Start, Die, FreshMemory, WakeCheck, Appraise
  <2>2. ~Deliberate
    BY DEF Deliberate, KeepGoal, NothingToDo, Select, Displace, Promote, ArbitrationFails,
           NotDue, PlanTool, PlanInternal, PlanFails, ArbiterFrame, PlanFrame, ArbiterPlaces
  <2>3. ~ActInternally
    BY DEF ActInternally, Execute, Recall, Consolidate, Reflect, Ponder, Note, ThinkFails,
              Resolve, Report, ActFails, InternalPlaces
  <2>4. ActOnTool
    BY <2>1, <2>2, <2>3 DEF Next
  <2>5. Settle
    BY <2>4 DEF ActOnTool, Vet, VetFails, RunTool, Veto, Audit, Announce, CommitFails,
                RememberWebRead, SettleFails, ToolMemory
  <2> QED BY <2>5 DEF Settle
<1> QED BY AutonomyInvariant, <1>1, PTL DEF Spec, ClosedByToolIsLogged

=============================================================================
