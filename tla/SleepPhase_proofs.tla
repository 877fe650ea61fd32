-------------------------- MODULE SleepPhase_proofs --------------------------
(***************************************************************************)
(* Proofs about boot and sleep, for every cadence and every bound: agency  *)
(* follows the latest verdict whenever ticks can run and the sleeper is    *)
(* not stuck, and it is stuck only behind a sleep_log row left open.       *)
(***************************************************************************)
EXTENDS SleepPhase, TLAPS

\* What is known at each place of the run loop.  The two properties speak of
\* the places between sleeps only; these conjuncts carry them through one.
PlaceInv ==
    /\ proc # "up" => at = "idle" /\ ~asleep /\ row = "none"
    /\ at \in {"open"} \cup Stages =>
          asleep /\ ~checkPassed /\ (fullAgency <=> verdict = "ok")
    /\ at = "close" => asleep /\ (checkPassed <=> verdict = "ok")
    /\ at \in {"wake", "alert"} => ~asleep /\ (fullAgency <=> verdict = "ok")
    /\ at \in Stages \cup {"close"} => row = "open"
    /\ at = "open" => row # "open"

SleepInv == TypeOK /\ PlaceInv /\ AgencyFollowsVerdict /\ AsleepOnlyWithOpenRow

\* Where each stage leads; only self_check leads to close.
LEMMA AfterStage ==
  ASSUME NEW s \in {"open"} \cup Stages
  PROVE  /\ After[s] \in Stages \cup {"close"}
         /\ After[s] = "close" <=> s = "self_check"
BY DEF After, Stages

LEMMA SeededIsIdentity == ASSUME NEW d \in Identities PROVE Seeded(d) \in Identities
BY DEF Seeded, Identities

LEMMA ZeroInRange == 0 \in 0..MaxDegraded
BY SleepAssumption

LEMMA InitSleepInv == Init => SleepInv
<1> SUFFICES ASSUME Init PROVE SleepInv
  OBVIOUS
<1>1. TypeOK
  BY ZeroInRange DEF Init, TypeOK, Places, Rows
<1>2. PlaceInv /\ AgencyFollowsVerdict /\ AsleepOnlyWithOpenRow
  BY DEF Init, PlaceInv, AgencyFollowsVerdict, AsleepOnlyWithOpenRow, Stages
<1> QED BY <1>1, <1>2 DEF SleepInv

LEMMA TypeStep == TypeOK /\ [Next]_vars => TypeOK'
<1> SUFFICES ASSUME TypeOK, [Next]_vars PROVE TypeOK'
  OBVIOUS
<1> USE DEF TypeOK, Places, Pipeline, memory, stored, Rows, Frame, TickFrame
<1>1. CASE Start \/ BootFails \/ Shutdown
  <2>1. FreshMemory /\ proc' \in {"down", "boot"} /\ verdict' = "none"
        /\ UNCHANGED <<published, identity, energy, drivesOk>>
    BY <1>1 DEF Start, BootFails, Shutdown, Die
  <2> QED BY <2>1, ZeroInRange DEF FreshMemory
<1>2. CASE BootVerified
  BY <1>2, SeededIsIdentity DEF BootVerified, Verified
<1>3. CASE Tamper
  BY <1>3 DEF Tamper
<1>4. ASSUME NEW a \in BOOLEAN, NEW s \in BOOLEAN, NEW f \in BOOLEAN, Tick(a, s, f)
      PROVE TypeOK'
  <2>1. tickMod' \in Nat
    BY <1>4, SleepAssumption DEF Tick
  <2>2. degraded' \in 0..MaxDegraded
    BY <1>4, SleepAssumption DEF Tick, Count
  <2>3. energy' \in {"rested", "tired"} /\ sleepUrge' \in BOOLEAN /\ drivesOk' \in BOOLEAN
    <3>1. CASE a
      BY <1>4, <3>1 DEF Tick
    <3>2. CASE ~a
      BY <1>4, <3>2 DEF Tick
    <3> QED BY <3>1, <3>2
  <2>4. published' \in BOOLEAN
    BY <1>4 DEF Tick
  <2> QED BY <1>4, <2>1, <2>2, <2>3, <2>4 DEF Tick
<1>5. CASE StayAwake \/ EnterSleep \/ EnterFails
  BY <1>5 DEF StayAwake, EnterSleep, EnterFails
<1>6. CASE OpenLog \/ OpenLogFails
  BY <1>6, AfterStage DEF OpenLog, OpenLogFails
<1>7. CASE StageFails
  BY <1>7, AfterStage DEF StageFails, StageFrame
<1>8. CASE MemoryStage
  BY <1>8, AfterStage DEF MemoryStage, StageFrame, Stages
<1>9. CASE RefreshSelfModel
  <2>1. identity' \in Identities
    BY <1>9, SeededIsIdentity DEF RefreshSelfModel, Appended, Identities
  <2> QED BY <1>9, <2>1, AfterStage DEF RefreshSelfModel, StageFrame, Stages
<1>10. CASE RestoreEnergy
  BY <1>10, AfterStage DEF RestoreEnergy, StageFrame, Stages
<1>11. CASE SelfCheck
  BY <1>11, AfterStage, SeededIsIdentity DEF SelfCheck, StageFrame, Stages, Verified
<1>12. CASE CloseLog
  BY <1>12, ZeroInRange DEF CloseLog, ApplyReport
<1>13. CASE CloseLogFails \/ Alert \/ Wake \/ WakeFails
  BY <1>13 DEF CloseLogFails, Alert, Wake, WakeFails
<1>14. CASE UNCHANGED vars
  BY <1>14 DEF vars
<1> QED
  BY <1>1, <1>2, <1>3, <1>4, <1>5, <1>6, <1>7, <1>8, <1>9, <1>10, <1>11, <1>12,
     <1>13, <1>14 DEF Next

LEMMA PlaceStep ==
  SleepInv /\ [Next]_vars => PlaceInv' /\ AgencyFollowsVerdict' /\ AsleepOnlyWithOpenRow'
<1> SUFFICES ASSUME SleepInv, [Next]_vars
             PROVE  PlaceInv' /\ AgencyFollowsVerdict' /\ AsleepOnlyWithOpenRow'
  OBVIOUS
<1> USE DEF SleepInv, PlaceInv, AgencyFollowsVerdict, AsleepOnlyWithOpenRow,
            memory, stored
<1>a. TypeOK
  OBVIOUS
<1>b. Pipeline = {"open", "close"} \cup Stages
  BY DEF Pipeline
<1>c. /\ {"idle", "between", "wake", "alert", "open", "close"} \cap Stages = {}
      /\ "self_check" \in Stages
  BY DEF Stages
<1>1. CASE Start \/ BootFails \/ Shutdown
  BY <1>1, <1>b, <1>c DEF Start, BootFails, Shutdown, Die, FreshMemory
<1>2. CASE BootVerified
  BY <1>2, <1>b, <1>c DEF BootVerified
<1>3. CASE Tamper
  BY <1>3 DEF Tamper
<1>4. ASSUME NEW a \in BOOLEAN, NEW s \in BOOLEAN, NEW f \in BOOLEAN, Tick(a, s, f)
      PROVE  PlaceInv' /\ AgencyFollowsVerdict' /\ AsleepOnlyWithOpenRow'
  BY <1>4, <1>b, <1>c DEF Tick
<1>5. CASE StayAwake \/ EnterFails
  BY <1>5, <1>b, <1>c DEF StayAwake, EnterFails
<1>6. CASE EnterSleep
  BY <1>6, <1>b, <1>c DEF EnterSleep, Triggered, Frame
<1>7. CASE OpenLog
  <2>1. at' \in Stages /\ at' # "close"
    BY <1>7 DEF OpenLog, After, Stages
  <2> QED BY <1>7, <1>b, <1>c, <2>1 DEF OpenLog
<1>8. CASE OpenLogFails
  BY <1>8, <1>b, <1>c DEF OpenLogFails
<1>9. CASE StageFails
  <2>1. at' \in Stages \cup {"close"} /\ (at' = "close" <=> at = "self_check")
    BY <1>9, AfterStage DEF StageFails
  <2>2. /\ proc' = "up" /\ row' = "open" /\ row = "open"
        /\ asleep' /\ ~checkPassed' /\ (fullAgency' <=> fullAgency)
    BY <1>9 DEF StageFails, StageFrame
  <2>3. CASE at = "self_check"
    <3>1. at' = "close" /\ verdict' = "failed"
      BY <2>1, <2>3, <1>9 DEF StageFails
    <3> QED BY <2>2, <3>1, <1>b, <1>c
  <2>4. CASE at # "self_check"
    <3>1. at' \in Stages /\ verdict' = verdict
      BY <2>1, <2>4, <1>9 DEF StageFails
    <3>2. fullAgency <=> verdict = "ok"
      BY <1>9 DEF StageFails
    <3> QED BY <2>2, <3>1, <3>2, <1>b, <1>c
  <2> QED BY <2>3, <2>4
<1>10. CASE MemoryStage \/ RefreshSelfModel \/ RestoreEnergy
  <2>1. at \in Stages /\ at' \in Stages
    BY <1>10 DEF MemoryStage, RefreshSelfModel, RestoreEnergy, After, Stages
  <2>2. UNCHANGED <<proc, asleep, fullAgency, row, checkPassed, verdict>>
    BY <1>10 DEF MemoryStage, RefreshSelfModel, RestoreEnergy, StageFrame
  <2>3. proc' = "up" /\ row' = "open" /\ asleep' /\ ~checkPassed'
        /\ (fullAgency' <=> verdict' = "ok")
    BY <1>10, <2>1, <2>2 DEF MemoryStage, RefreshSelfModel, RestoreEnergy
  <2> QED BY <2>1, <2>3, <1>b, <1>c
<1>11. CASE SelfCheck
  <2>1. at' = "close"
    BY <1>11, AfterStage, <1>c DEF SelfCheck
  <2> QED BY <1>11, <1>b, <1>c, <2>1 DEF SelfCheck, StageFrame, Verified
<1>12. CASE CloseLog
  BY <1>12, <1>b, <1>c DEF CloseLog, ApplyReport
<1>13. CASE CloseLogFails
  BY <1>13, <1>b, <1>c DEF CloseLogFails
<1>14. CASE Alert \/ Wake \/ WakeFails
  BY <1>14, <1>b, <1>c DEF Alert, Wake, WakeFails, Frame
<1>15. CASE UNCHANGED vars
  BY <1>15 DEF vars
<1> QED
  BY <1>1, <1>2, <1>3, <1>4, <1>5, <1>6, <1>7, <1>8, <1>9, <1>10, <1>11, <1>12,
     <1>13, <1>14, <1>15 DEF Next

THEOREM SleepInvariant == Spec => []SleepInv
<1>1. SleepInv /\ [Next]_vars => SleepInv'
  BY TypeStep, PlaceStep DEF SleepInv
<1> QED BY InitSleepInv, <1>1, PTL DEF Spec

(* Types, through every failure, restart and edit of the database.         *)
THEOREM SleepTypes == Spec => []TypeOK
BY SleepInvariant, PTL DEF SleepInv

(* Between sleeps agency is what the latest wake self-check said, as long  *)
(* as the sleeper is not stuck asleep.                                     *)
THEOREM AgencyIsTheVerdict == Spec => []AgencyFollowsVerdict
BY SleepInvariant, PTL DEF SleepInv

(* The sleeper stays asleep outside a sleep only behind an open row.       *)
THEOREM StuckOnlyBehindOpenRow == Spec => []AsleepOnlyWithOpenRow
BY SleepInvariant, PTL DEF SleepInv

=============================================================================
