----------------------------- MODULE SleepPhase -----------------------------
(***************************************************************************)
(* Boot, ticks and sleep: the phases of the run loop seen from the agency  *)
(* gate (brain/cycle.py, brain/sleep.py, brain/runtime.py).  A tick is one *)
(* step here, reduced to what sleep reads of it; the offline pipeline runs *)
(* stage by stage, each of which may fail by itself, and around it stand   *)
(* the two broadcasts and the two sleep_log writes, which may fail too.    *)
(*                                                                         *)
(* The database can be edited, wiped or restored from a snapshot at any    *)
(* moment (Tamper), and the process can be shut down or killed.            *)
(***************************************************************************)
EXTENDS Naturals, Sequences

CONSTANTS
    EveryTicks,     \* settings.sleep_every_ticks; 0 = sleep only when tired
    MaxDegraded     \* bound: degraded ticks counted since the last report

ASSUME SleepAssumption == EveryTicks \in Nat /\ MaxDegraded \in Nat \ {0}

VARIABLES
    proc,         \* "down", "boot" or "up"
    at,           \* where the run loop is: "idle", "between" or a sleep step
    tickMod,      \* tick % EveryTicks
    asleep,       \* SleepCycle._asleep
    fullAgency,   \* CognitiveCycle._full_agency
    sleepUrge,    \* _last_urges holds a sleep signal
    degraded,     \* _degraded_ticks
    checkPassed,  \* self_check_ok of the report under construction
    verdict,      \* what the latest completed wake self-check found
    row,          \* this process's latest sleep_log row: "none", "open", "closed"
    published,    \* the asleep flag of the latest state frame on the bus
    identity,     \* the highest-version self-model in the database
    energy,       \* the Energy drive is over its threshold: "tired", else "rested"
    drivesOk      \* every persisted pressure lies in [0, 1]

memory == <<at, tickMod, asleep, fullAgency, sleepUrge, degraded, checkPassed>>
stored == <<row, published, identity, energy, drivesOk>>
vars == <<proc, memory, verdict, stored>>

Stages == {"consolidate", "decay", "self_model", "metacognition", "backup",
           "restore_energy", "self_check"}
Pipeline == {"open"} \cup Stages \cup {"close"}
Places == {"idle", "between", "wake", "alert"} \cup Pipeline

After == [s \in {"open"} \cup Stages |->
    CASE s = "open" -> "consolidate"
      [] s = "consolidate" -> "decay"
      [] s = "decay" -> "self_model"
      [] s = "self_model" -> "metacognition"
      [] s = "metacognition" -> "backup"
      [] s = "backup" -> "restore_energy"
      [] s = "restore_energy" -> "self_check"
      [] s = "self_check" -> "close"]

\* The row is written when the sleep begins and completed when it ends.
Rows == {"none", "open", "closed"}

\* "blank": an empty document; "renamed": a name that is not the anchor's;
\* "missing": no row at all, which every read repairs by seeding v1.
Identities == {"good", "blank", "renamed", "missing"}

TypeOK ==
    /\ proc \in {"down", "boot", "up"}
    /\ at \in Places
    /\ tickMod \in Nat
    /\ asleep \in BOOLEAN /\ fullAgency \in BOOLEAN /\ sleepUrge \in BOOLEAN
    /\ degraded \in 0..MaxDegraded
    /\ checkPassed \in BOOLEAN
    /\ verdict \in {"none", "ok", "failed"}
    /\ row \in Rows
    /\ published \in BOOLEAN
    /\ identity \in Identities
    /\ energy \in {"rested", "tired"}
    /\ drivesOk \in BOOLEAN

----------------------------------------------------------------------------
(* Start-up.  The self-model is seeded, then verified, and the verdict is  *)
(* applied before the run task exists.                                     *)

FreshMemory ==
    /\ at' = "idle" /\ tickMod' = 0
    /\ asleep' = FALSE /\ fullAgency' = TRUE /\ sleepUrge' = FALSE
    /\ degraded' = 0 /\ checkPassed' = FALSE
    /\ row' = "none"

Start ==
    /\ proc = "down"
    /\ proc' = "boot"
    /\ FreshMemory
    /\ verdict' = "none"
    /\ UNCHANGED <<published, identity, energy, drivesOk>>

\* IdentityStore.append: the next version, whatever document the model wrote.
Appended == {"good", "blank"}

\* WakeSelfCheck.verify: the document is there, the name is the anchor's and
\* the drives are in range.  Reading a missing self-model seeds it.
Seeded(doc) == IF doc = "missing" THEN "good" ELSE doc
Verified == Seeded(identity) = "good" /\ drivesOk

BootVerified_HeartbeatFirst ==
    /\ proc = "boot"
    /\ proc' = "up"
    /\ identity' = Seeded(identity)
    /\ UNCHANGED <<memory, verdict, row, published, energy, drivesOk>>

BootVerified ==
    /\ proc = "boot"
    /\ proc' = "up"
    /\ identity' = Seeded(identity)
    /\ fullAgency' = Verified
    /\ verdict' = IF Verified THEN "ok" ELSE "failed"
    /\ UNCHANGED <<at, tickMod, asleep, sleepUrge, degraded, checkPassed>>
    /\ UNCHANGED <<row, published, energy, drivesOk>>

Die ==
    /\ proc' = "down"
    /\ FreshMemory
    /\ verdict' = "none"
    /\ UNCHANGED <<published, identity, energy, drivesOk>>

\* Any start-up step raises, or the process is stopped or killed.
BootFails == proc = "boot" /\ Die
Shutdown == proc = "up" /\ Die

----------------------------------------------------------------------------
(* A tick: the drive step ages and clamps the drives and renews the urges; *)
(* when it fails both stay as they were.  Any failed stage makes the tick  *)
(* a degraded one.  The last stage publishes a frame that says "awake".    *)

Count(n) == IF n < MaxDegraded THEN n + 1 ELSE n

\* A state frame on the bus; of its fields, the asleep flag.
Frame(flag) == published' = flag

\* The tick's own frame is sent by the loop awake.
TickFrame(stateSent) == IF stateSent THEN Frame(FALSE) ELSE UNCHANGED published

Tick_RepeatsFrame(appraised, stateSent, stageFailed) ==
    /\ proc = "up" /\ at = "idle"
    /\ at' = "between"
    /\ tickMod' = IF EveryTicks = 0 THEN 0 ELSE (tickMod + 1) % EveryTicks
    /\ IF appraised
       THEN /\ energy' \in {energy, "tired"}
            /\ sleepUrge' = (energy' = "tired")
            /\ drivesOk' = TRUE
       ELSE UNCHANGED <<energy, sleepUrge, drivesOk>>
    /\ degraded' = IF appraised /\ stateSent /\ ~stageFailed
                   THEN degraded ELSE Count(degraded)
    /\ UNCHANGED <<proc, asleep, fullAgency, checkPassed, verdict, row, published, identity>>

Tick(appraised, stateSent, stageFailed) ==
    /\ proc = "up" /\ at = "idle"
    /\ at' = "between"
    /\ tickMod' = IF EveryTicks = 0 THEN 0 ELSE (tickMod + 1) % EveryTicks
    /\ IF appraised
       THEN /\ energy' \in {energy, "tired"}
            /\ sleepUrge' = (energy' = "tired")
            /\ drivesOk' = TRUE
       ELSE UNCHANGED <<energy, sleepUrge, drivesOk>>
    /\ TickFrame(stateSent)
    /\ degraded' = IF appraised /\ stateSent /\ ~stageFailed
                   THEN degraded ELSE Count(degraded)
    /\ UNCHANGED <<proc, asleep, fullAgency, checkPassed, verdict, row, identity>>

----------------------------------------------------------------------------
(* Between ticks: sleep_trigger, then the announcement, then the pipeline. *)

Triggered == ~asleep /\ (sleepUrge \/ (EveryTicks > 0 /\ tickMod = 0))

StayAwake ==
    /\ proc = "up" /\ at = "between" /\ ~Triggered
    /\ at' = "idle"
    /\ UNCHANGED <<proc, tickMod, asleep, fullAgency, sleepUrge, degraded, checkPassed>>
    /\ UNCHANGED <<verdict, stored>>

EnterSleep ==
    /\ proc = "up" /\ at = "between" /\ Triggered
    /\ Frame(TRUE)
    /\ asleep' = TRUE /\ checkPassed' = FALSE
    /\ at' = "open"
    /\ UNCHANGED <<proc, tickMod, fullAgency, sleepUrge, degraded, verdict>>
    /\ UNCHANGED <<row, identity, energy, drivesOk>>

\* The broadcast raises: the run loop backs off and ticks again.
EnterFails ==
    /\ proc = "up" /\ at = "between" /\ Triggered
    /\ at' = "idle"
    /\ UNCHANGED <<proc, tickMod, asleep, fullAgency, sleepUrge, degraded, checkPassed>>
    /\ UNCHANGED <<verdict, stored>>

OpenLog ==
    /\ proc = "up" /\ at = "open"
    /\ row' = "open"
    /\ at' = After[at]
    /\ UNCHANGED <<proc, tickMod, asleep, fullAgency, sleepUrge, degraded, checkPassed>>
    /\ UNCHANGED <<verdict, published, identity, energy, drivesOk>>

\* No row: the finally block only clears the flag, and the error goes up to
\* the run loop, so the waking is not announced.
OpenLogFails ==
    /\ proc = "up" /\ at = "open"
    /\ asleep' = FALSE
    /\ at' = "idle"
    /\ UNCHANGED <<proc, tickMod, fullAgency, sleepUrge, degraded, checkPassed>>
    /\ UNCHANGED <<verdict, stored>>

----------------------------------------------------------------------------
(* The pipeline's stages.                                                  *)

StageFrame == UNCHANGED <<proc, tickMod, asleep, fullAgency, sleepUrge, degraded,
                          row, published>>

\* _stage swallows the error; the default each result was given stays.
StageFails ==
    /\ proc = "up" /\ at \in Stages
    /\ at' = After[at]
    /\ verdict' = IF at = "self_check" THEN "failed" ELSE verdict
    /\ StageFrame
    /\ UNCHANGED <<checkPassed, identity, energy, drivesOk>>

\* Consolidation, decay, the review and the snapshot write nothing this
\* module reads.
MemoryStage ==
    /\ proc = "up" /\ at \in {"consolidate", "decay", "metacognition", "backup"}
    /\ at' = After[at]
    /\ StageFrame
    /\ UNCHANGED <<checkPassed, verdict, identity, energy, drivesOk>>

\* A tired model leaves the self-model alone; otherwise a new version takes
\* the anchor's name and whatever document the model wrote.
RefreshSelfModel ==
    /\ proc = "up" /\ at = "self_model"
    /\ at' = After[at]
    /\ identity' \in {Seeded(identity)} \cup Appended
    /\ StageFrame
    /\ UNCHANGED <<checkPassed, verdict, energy, drivesOk>>

RestoreEnergy_Forgotten ==
    /\ proc = "up" /\ at = "restore_energy"
    /\ at' = After[at]
    /\ drivesOk' = TRUE
    /\ StageFrame
    /\ UNCHANGED <<checkPassed, verdict, identity, energy>>

RestoreEnergy ==
    /\ proc = "up" /\ at = "restore_energy"
    /\ at' = After[at]
    /\ energy' = "rested" /\ drivesOk' = TRUE
    /\ StageFrame
    /\ UNCHANGED <<checkPassed, verdict, identity>>

SelfCheck ==
    /\ proc = "up" /\ at = "self_check"
    /\ at' = After[at]
    /\ identity' = Seeded(identity)
    /\ checkPassed' = Verified
    /\ verdict' = IF Verified THEN "ok" ELSE "failed"
    /\ StageFrame
    /\ UNCHANGED <<energy, drivesOk>>

----------------------------------------------------------------------------
(* Waking.                                                                 *)

ApplyReport ==
    /\ degraded' = 0
    /\ fullAgency' = checkPassed
    /\ at' = IF checkPassed THEN "wake" ELSE "alert"

CloseLog_FlagForgotten ==
    /\ proc = "up" /\ at = "close"
    /\ row' = "closed"
    /\ ApplyReport
    /\ UNCHANGED <<proc, tickMod, asleep, sleepUrge, checkPassed, verdict>>
    /\ UNCHANGED <<published, identity, energy, drivesOk>>

CloseLog ==
    /\ proc = "up" /\ at = "close"
    /\ row' = "closed"
    /\ asleep' = FALSE
    /\ ApplyReport
    /\ UNCHANGED <<proc, tickMod, sleepUrge, checkPassed, verdict>>
    /\ UNCHANGED <<published, identity, energy, drivesOk>>

\* The finally block raises before it clears the flag, and the report is lost.
CloseLogFails ==
    /\ proc = "up" /\ at = "close"
    /\ at' = "idle"
    /\ UNCHANGED <<proc, tickMod, asleep, fullAgency, sleepUrge, degraded, checkPassed>>
    /\ UNCHANGED <<verdict, stored>>

Alert ==
    /\ proc = "up" /\ at = "alert"
    /\ at' = "wake"
    /\ UNCHANGED <<proc, tickMod, asleep, fullAgency, sleepUrge, degraded, checkPassed>>
    /\ UNCHANGED <<verdict, stored>>

Wake ==
    /\ proc = "up" /\ at = "wake"
    /\ Frame(FALSE)
    /\ at' = "idle"
    /\ UNCHANGED <<proc, tickMod, asleep, fullAgency, sleepUrge, degraded, checkPassed>>
    /\ UNCHANGED <<verdict, row, identity, energy, drivesOk>>

\* Either broadcast raises: nothing more is announced.
WakeFails ==
    /\ proc = "up" /\ at \in {"alert", "wake"}
    /\ at' = "idle"
    /\ UNCHANGED <<proc, tickMod, asleep, fullAgency, sleepUrge, degraded, checkPassed>>
    /\ UNCHANGED <<verdict, stored>>

----------------------------------------------------------------------------
\* Somebody edits, truncates or restores the database behind the process.
Tamper ==
    /\ identity' \in Identities
    /\ drivesOk' \in BOOLEAN
    /\ UNCHANGED <<proc, memory, verdict, row, published, energy>>

Init ==
    /\ proc = "down" /\ at = "idle" /\ tickMod = 0
    /\ asleep = FALSE /\ fullAgency = TRUE /\ sleepUrge = FALSE
    /\ degraded = 0 /\ checkPassed = FALSE
    /\ verdict = "none" /\ row = "none" /\ published = FALSE
    /\ identity \in Identities
    /\ energy = "rested" /\ drivesOk = TRUE

Next ==
    \/ Start \/ BootVerified \/ BootFails \/ Shutdown \/ Tamper
    \/ \E a, s, f \in BOOLEAN : Tick(a, s, f)
    \/ StayAwake \/ EnterSleep \/ EnterFails \/ OpenLog \/ OpenLogFails
    \/ StageFails \/ MemoryStage \/ RefreshSelfModel \/ RestoreEnergy
    \/ SelfCheck \/ CloseLog \/ CloseLogFails \/ Alert \/ Wake \/ WakeFails

Spec == Init /\ [][Next]_vars

\* The loop goes on, and no collaborator fails for ever: a step that is tried
\* again and again succeeds at some point (strong fairness of its success).
LoopStep ==
    \/ \E a, s, f \in BOOLEAN : Tick(a, s, f)
    \/ StayAwake \/ EnterSleep \/ EnterFails \/ OpenLog \/ OpenLogFails
    \/ StageFails \/ MemoryStage \/ RefreshSelfModel \/ RestoreEnergy
    \/ SelfCheck \/ CloseLog \/ CloseLogFails \/ Alert \/ Wake \/ WakeFails

Fairness ==
    /\ WF_vars(LoopStep)
    /\ SF_vars(\E f \in BOOLEAN : Tick(TRUE, TRUE, f))
    /\ SF_vars(EnterSleep) /\ SF_vars(OpenLog) /\ SF_vars(RestoreEnergy)

FairSpec == Spec /\ Fairness

----------------------------------------------------------------------------
(* Properties.                                                             *)

(* Whenever a tick can run and the sleeper is not stuck asleep, agency is  *)
(* exactly what the latest completed wake self-check said: no failed open, *)
(* stage, alert or broadcast, restart or tampering in between separates    *)
(* the two (CognitiveCycle._maybe_sleep, apply_wake_check).                *)
AgencyFollowsVerdict ==
    proc = "up" /\ at \in {"idle", "between"} /\ ~asleep
        => (fullAgency <=> verdict = "ok")

(* Outside the pipeline the sleeper is asleep only when the sleep_log row  *)
(* of its last sleep could not be closed, and a closed row means it woke   *)
(* (SleepCycle.sleep's finally block).                                     *)
AsleepOnlyWithOpenRow ==
    /\ asleep /\ at \notin Pipeline => row = "open"
    /\ row = "open" => asleep

(* A tired Mind comes to rest, unless the process ends or the sleeper is   *)
(* stuck asleep: failures of ticks, announcements, log opens and stages    *)
(* delay the sleep and do not prevent it (sleep_trigger, _maybe_sleep).    *)
TiredComesToRest ==
    (proc = "up" /\ sleepUrge)
        ~> (energy = "rested" \/ proc # "up" \/ (asleep /\ at = "idle"))

(* A frame that says "asleep" is followed by one that says "awake", even   *)
(* when the sleep's own announcement of it is lost (_broadcast_state).     *)
AsleepFrameIsRetracted == (published /\ proc = "up") ~> (~published \/ proc # "up")

(* "A wedged sleep is impossible: the pipeline is per-stage isolated and   *)
(* always returns" (docstring of _maybe_sleep): asleep ends.               *)
NeverWedgedAsleep == asleep ~> ~asleep

=============================================================================
