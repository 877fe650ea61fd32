------------------------------ MODULE Autonomy ------------------------------
(***************************************************************************)
(* The autonomy loop: one goal is pursued at a time, an action is planned  *)
(* for it when the cadence allows, a tool action is vetted at CHECK and    *)
(* run, audited, announced and settled at ACT, and what was accomplished   *)
(* eases the drive at the next APPRAISE (brain/cycle.py, brain/agents/     *)
(* deliberation.py, brain/goals, brain/effectors/dispatch.py,              *)
(* brain/agents/conscience.py, core/audit.py).                             *)
(*                                                                         *)
(* Every call that reaches the database, Redis, a model or a tool may      *)
(* raise, which ends the stage and not the tick, and the process may die   *)
(* between any two of them.  Goals are known by the drive they serve: the  *)
(* text, the priorities and the plan's arguments are left out.             *)
(***************************************************************************)
EXTENDS Naturals, Sequences

CONSTANTS
    Drives,        \* the drives that can raise a goal (all but Energy)
    ToolDrives,    \* those DEFAULT_TOOL_ACTIONS maps to a tool
    CodeDrives,    \* those whose tool needs a snippet formulated first
    WebReadDrives, \* those whose tool is in WEB_READ_TOOLS
    RecallDrives,  \* those _DRIVE_ACTION maps to "recall"
    ReviewDrives,  \* those it maps to "consolidate"; the others reflect
    Cadence,       \* deliberation_min_interval_seconds, in units of time
    NoOne          \* the absence of a goal or of a vetted action

ASSUME AutonomyAssumption ==
    /\ ToolDrives \subseteq Drives
    /\ CodeDrives \subseteq ToolDrives /\ WebReadDrives \subseteq ToolDrives
    /\ CodeDrives \cap WebReadDrives = {}
    /\ RecallDrives \subseteq Drives /\ ReviewDrives \subseteq Drives \ RecallDrives
    /\ Cadence \in Nat \ {0}
    /\ NoOne \notin Drives

VARIABLES
    proc,        \* "down" or "up"
    at,          \* the next thing the tick does ("idle": between ticks)
    fullAgency,  \* CognitiveCycle._full_agency
    sinceActed,  \* time since Deliberation._last_acted, at most Cadence
    urges,       \* ctx.urges, without the sleep signal
    goal,        \* ctx.goal, or the goal about to be promoted
    kind,        \* ctx.action: "none", "tool" or "internal"
    vetted,      \* ctx.vetted: the goal it was given for and the verdict
    success,     \* did the tool succeed, and (web reads) was it remembered?
    pending,     \* _pending_events: the drives about to be eased
    active,      \* the goal rows with status "active", newest first
    dwelt,       \* the incumbent is older than goal_min_dwell_seconds
    ran,         \* observer: the tool ran in the current tick
    logged,      \* observer: the current tick's action has its audit row
    kept,        \* observer: what the current tick read was consolidated
    sinceRan     \* observer: time since a tool last ran, at most Cadence

context == <<urges, goal, kind, vetted, success, ran, logged, kept>>
vars == <<proc, at, fullAgency, sinceActed, context, pending, active, dwelt, sinceRan>>

NoVerdict == [for |-> NoOne, verdict |-> "none"]
Verdicts == [for : Drives, verdict : {"allow", "veto"}] \cup {NoVerdict}

Places == {"idle", "arbitrate", "promote", "plan",
           "check", "commit", "audit", "announce", "remember", "settle",
           "think", "ponder", "note", "resolve", "report"}

TypeOK ==
    /\ proc \in {"down", "up"}
    /\ at \in Places
    /\ fullAgency \in BOOLEAN
    /\ sinceActed \in 0..Cadence /\ sinceRan \in 0..Cadence
    /\ urges \subseteq Drives
    /\ goal \in Drives \cup {NoOne}
    /\ kind \in {"none", "tool", "internal"}
    /\ vetted \in Verdicts
    /\ success \in BOOLEAN
    /\ pending \subseteq Drives
    /\ active \in Seq(Drives)
    /\ dwelt \in BOOLEAN
    /\ ran \in BOOLEAN /\ logged \in BOOLEAN /\ kept \in BOOLEAN

At(place) == proc = "up" /\ at = place

\* The stage that was running raised: the tick's later stages have no goal,
\* no action or no verdict to work with, so nothing more happens in it.
EndTick == at' = "idle"

----------------------------------------------------------------------------
(* The start of a tick: a fresh context, then PERCEIVE and APPRAISE.       *)

FreshContext ==
    /\ goal' = NoOne /\ kind' = "none" /\ vetted' = NoVerdict
    /\ success' = FALSE /\ ran' = FALSE /\ logged' = FALSE /\ kept' = FALSE

Later(t, elapsed) == IF t + elapsed < Cadence THEN t + elapsed ELSE Cadence

Appraise_KeepsContext(elapsed) ==
    /\ At("idle")
    /\ sinceActed' = Later(sinceActed, elapsed)
    /\ sinceRan' = Later(sinceRan, elapsed)
    /\ dwelt' \in IF active # <<>> /\ elapsed > 0 THEN {dwelt, TRUE} ELSE {dwelt}
    /\ pending' = {}
    /\ urges' \in SUBSET Drives
    /\ at' = IF fullAgency THEN "arbitrate" ELSE "idle"
    /\ goal' = NoOne /\ kind' = "none" /\ success' = FALSE
    /\ ran' = FALSE /\ logged' = FALSE /\ kept' = FALSE
    /\ UNCHANGED <<proc, fullAgency, vetted, active>>

\* The queued outcomes are taken before the drive step that applies them is
\* awaited; when that step fails they are gone, and the tick has no urges
\* (urges' = {}).  Without full agency DELIBERATE, CHECK and ACT do nothing.
Appraise(elapsed) ==
    /\ At("idle")
    /\ sinceActed' = Later(sinceActed, elapsed)
    /\ sinceRan' = Later(sinceRan, elapsed)
    /\ dwelt' \in IF active # <<>> /\ elapsed > 0 THEN {dwelt, TRUE} ELSE {dwelt}
    /\ pending' = {}
    /\ urges' \in SUBSET Drives
    /\ FreshContext
    /\ at' = IF fullAgency THEN "arbitrate" ELSE "idle"
    /\ UNCHANGED <<proc, fullAgency, active>>

\* Between ticks a wake self-check withdraws agency or gives it back.
WakeCheck ==
    /\ At("idle")
    /\ fullAgency' \in BOOLEAN
    /\ UNCHANGED <<proc, at, sinceActed, context, pending, active, dwelt, sinceRan>>

----------------------------------------------------------------------------
(* DELIBERATE: GoalArbiter.arbitrate, then the cadence, then the plan.     *)

ArbiterFrame == UNCHANGED <<proc, fullAgency, sinceActed, urges, kind, vetted, success,
                            pending, ran, logged, kept, sinceRan>>

\* The rows are read newest first.
Incumbent == Head(active)

\* select() may keep the incumbent whatever the urges are: too fresh, still
\* the strongest, or not clearly beaten.
KeepGoal ==
    /\ At("arbitrate") /\ active # <<>>
    /\ goal' = Incumbent
    /\ at' = "plan"
    /\ ArbiterFrame /\ UNCHANGED <<active, dwelt>>

NothingToDo ==
    /\ At("arbitrate") /\ active = <<>> /\ urges = {}
    /\ EndTick
    /\ ArbiterFrame /\ UNCHANGED <<goal, active, dwelt>>

Select ==
    /\ At("arbitrate") /\ active = <<>>
    /\ goal' \in urges
    /\ at' = "promote"
    /\ ArbiterFrame /\ UNCHANGED <<active, dwelt>>

Displace_Keeps ==
    /\ At("arbitrate") /\ active # <<>> /\ dwelt
    /\ goal' \in urges \ {Incumbent}
    /\ at' = "promote"
    /\ ArbiterFrame /\ UNCHANGED <<active, dwelt>>

\* A different drive clearly beats an incumbent past its minimum dwell: the
\* incumbent is abandoned, in a transaction of its own.
Displace ==
    /\ At("arbitrate") /\ active # <<>> /\ dwelt
    /\ goal' \in urges \ {Incumbent}
    /\ active' = Tail(active) /\ dwelt' = FALSE
    /\ at' = "promote"
    /\ ArbiterFrame

Promote ==
    /\ At("promote")
    /\ active' = <<goal>> \o active /\ dwelt' = FALSE
    /\ at' = "plan"
    /\ ArbiterFrame /\ UNCHANGED goal

\* Reading the active goals, abandoning one or promoting one raises.
ArbitrationFails ==
    /\ proc = "up" /\ at \in {"arbitrate", "promote"}
    /\ EndTick
    /\ ArbiterFrame /\ UNCHANGED <<goal, active, dwelt>>

PlanFrame == UNCHANGED <<proc, fullAgency, sinceActed, urges, goal, vetted, success,
                         pending, active, dwelt, ran, logged, kept, sinceRan>>

Due == sinceActed = Cadence

NotDue == At("plan") /\ ~Due /\ EndTick /\ PlanFrame /\ UNCHANGED kind

PlanTool ==
    /\ At("plan") /\ Due /\ goal \in ToolDrives
    /\ kind' = "tool" /\ at' = "check"
    /\ PlanFrame

\* A drive with no tool, or a snippet no model would write.
PlanInternal ==
    /\ At("plan") /\ Due /\ (goal \notin ToolDrives \/ goal \in CodeDrives)
    /\ kind' = "internal" /\ at' = "think"
    /\ PlanFrame

\* Formulating the snippet raises something else than "unavailable".
PlanFails ==
    /\ At("plan") /\ Due /\ goal \in CodeDrives
    /\ EndTick
    /\ PlanFrame /\ UNCHANGED kind

----------------------------------------------------------------------------
(* CHECK and ACT for a tool action: EffectorDispatch.vet and commit, the   *)
(* web reader's consolidation, and Deliberation.settle_tool_action.        *)

ToolFrame == UNCHANGED <<proc, fullAgency, urges, goal, kind, dwelt>>
ToolMemory == UNCHANGED <<sinceActed, pending, active>>

\* A model that is not available is a veto: the Conscience fails closed.
Vet ==
    /\ At("check")
    /\ vetted' \in [for : {goal}, verdict : {"allow", "veto"}]
    /\ at' = "commit"
    /\ ToolFrame /\ ToolMemory
    /\ UNCHANGED <<success, ran, logged, kept, sinceRan>>

\* Unknown tool, arguments that do not fit its schema, a verdict that does
\* not parse: CHECK degrades and ACT finds no vetted action.
VetFails ==
    /\ At("check")
    /\ at' = IF vetted = NoVerdict THEN "idle" ELSE "commit"
    /\ ToolFrame /\ ToolMemory
    /\ UNCHANGED <<vetted, success, ran, logged, kept, sinceRan>>

\* The tool returns a result, good or bad, or raises.
RunTool ==
    /\ At("commit") /\ vetted.verdict = "allow"
    /\ \/ at' = "audit" /\ success' \in BOOLEAN
       \/ EndTick /\ UNCHANGED success
    /\ ran' = TRUE /\ sinceRan' = 0
    /\ ToolFrame /\ ToolMemory
    /\ UNCHANGED <<vetted, logged, kept>>

Veto ==
    /\ At("commit") /\ vetted.verdict = "veto"
    /\ at' = "audit"
    /\ ToolFrame /\ ToolMemory
    /\ UNCHANGED <<vetted, success, ran, logged, kept, sinceRan>>

Audit_Skipped ==
    /\ At("audit")
    /\ at' = "announce"
    /\ logged' \in {logged, TRUE}
    /\ ToolFrame /\ ToolMemory
    /\ UNCHANGED <<vetted, success, ran, kept, sinceRan>>

\* AuditWriter.record, a transaction of its own.
Audit ==
    /\ At("audit")
    /\ at' = "announce"
    /\ logged' = TRUE
    /\ ToolFrame /\ ToolMemory
    /\ UNCHANGED <<vetted, success, ran, kept, sinceRan>>

Announce ==
    /\ At("announce")
    /\ at' = IF ran /\ success /\ goal \in WebReadDrives THEN "remember" ELSE "settle"
    /\ ToolFrame /\ ToolMemory
    /\ UNCHANGED <<vetted, success, ran, logged, kept, sinceRan>>

\* The audit insert, or the broadcast of the outcome, raises out of commit.
CommitFails ==
    /\ proc = "up" /\ at \in {"audit", "announce"}
    /\ EndTick
    /\ ToolFrame /\ ToolMemory
    /\ UNCHANGED <<vetted, success, ran, logged, kept, sinceRan>>

\* What was read is consolidated into memory, or (an error, or nothing worth
\* remembering) the read counts for nothing.
RememberWebRead_Ignored ==
    /\ At("remember")
    /\ kept' \in BOOLEAN
    /\ at' = "settle"
    /\ ToolFrame /\ ToolMemory
    /\ UNCHANGED <<vetted, success, ran, logged, sinceRan>>

RememberWebRead ==
    /\ At("remember")
    /\ kept' \in BOOLEAN /\ success' = kept'
    /\ at' = "settle"
    /\ ToolFrame /\ ToolMemory
    /\ UNCHANGED <<vetted, ran, logged, sinceRan>>

\* GoalStore.resolve: a row that is gone is left alone.
Resolved == active' = IF active = <<>> THEN active ELSE Tail(active)

Settle_VetoKeepsGoal ==
    /\ At("settle")
    /\ sinceActed' = 0
    /\ IF vetted.verdict = "allow" THEN Resolved ELSE UNCHANGED active
    /\ pending' = IF success THEN pending \cup {goal} ELSE pending
    /\ EndTick
    /\ ToolFrame /\ UNCHANGED <<vetted, success, ran, logged, kept, sinceRan>>

Settle ==
    /\ At("settle")
    /\ sinceActed' = 0
    /\ Resolved
    /\ pending' = IF success THEN pending \cup {goal} ELSE pending
    /\ EndTick
    /\ ToolFrame /\ UNCHANGED <<vetted, success, ran, logged, kept, sinceRan>>

SettleFails_EasesAnyway ==
    /\ At("settle")
    /\ sinceActed' = 0
    /\ EndTick
    /\ pending' = IF success THEN pending \cup {goal} ELSE pending
    /\ ToolFrame /\ UNCHANGED <<active, vetted, success, ran, logged, kept, sinceRan>>

\* resolve() raises: the clock has moved, the goal stays and the events of a
\* success are lost with the exception.
SettleFails ==
    /\ At("settle")
    /\ sinceActed' = 0
    /\ EndTick
    /\ ToolFrame /\ UNCHANGED <<active, pending, vetted, success, ran, logged, kept, sinceRan>>

----------------------------------------------------------------------------
(* ACT for an internal action: Deliberation.act and _dispatch_action.      *)

InternalFrame == UNCHANGED <<proc, fullAgency, context, dwelt, sinceRan>>

\* The cadence clock moves before the action runs.  Recall reads memories and
\* calls no model.
Recall ==
    /\ At("think") /\ goal \in RecallDrives
    /\ sinceActed' = 0 /\ at' = "note"
    /\ InternalFrame /\ UNCHANGED <<pending, active>>

\* With nothing to review there is nothing to ask the model.
Consolidate ==
    /\ At("think") /\ goal \in ReviewDrives
    /\ sinceActed' = 0 /\ at' \in {"ponder", "note"}
    /\ InternalFrame /\ UNCHANGED <<pending, active>>

Reflect ==
    /\ At("think") /\ goal \notin RecallDrives \cup ReviewDrives
    /\ sinceActed' = 0 /\ at' = "ponder"
    /\ InternalFrame /\ UNCHANGED <<pending, active>>

\* One reflection; no router and no available model give the fallback's text.
Ponder ==
    /\ At("ponder")
    /\ at' = "note"
    /\ InternalFrame /\ UNCHANGED <<sinceActed, pending, active>>

\* The episode about what was done.
Note ==
    /\ At("note")
    /\ at' = "resolve"
    /\ InternalFrame /\ UNCHANGED <<sinceActed, pending, active>>

\* Reading memories, a router that cannot be used or writing the episode raises.
ThinkFails ==
    /\ proc = "up" /\ at \in {"think", "ponder", "note"}
    /\ sinceActed' = 0
    /\ EndTick
    /\ InternalFrame /\ UNCHANGED <<pending, active>>

Resolve ==
    /\ At("resolve")
    /\ Resolved
    /\ at' = "report"
    /\ InternalFrame /\ UNCHANGED <<sinceActed, pending>>

Report ==
    /\ At("report")
    /\ pending' = pending \cup {goal}
    /\ EndTick
    /\ InternalFrame /\ UNCHANGED <<sinceActed, active>>

\* resolve() or the broadcast raises: the drive is not eased.
ActFails ==
    /\ proc = "up" /\ at \in {"resolve", "report"}
    /\ EndTick
    /\ InternalFrame /\ UNCHANGED <<sinceActed, pending, active>>

----------------------------------------------------------------------------
(* The process.  The goal rows outlive it, the cadence clock does not.     *)

FreshMemory ==
    /\ at' = "idle" /\ sinceActed' = Cadence /\ pending' = {}
    /\ urges' = {} /\ FreshContext

Start ==
    /\ proc = "down"
    /\ proc' = "up"
    /\ fullAgency' \in BOOLEAN
    /\ dwelt' \in IF active # <<>> THEN {dwelt, TRUE} ELSE {dwelt}
    /\ sinceRan' \in sinceRan..Cadence
    /\ FreshMemory
    /\ UNCHANGED active

Die ==
    /\ proc = "up"
    /\ proc' = "down"
    /\ FreshMemory
    /\ UNCHANGED <<fullAgency, active, dwelt, sinceRan>>

Init ==
    /\ proc = "down" /\ at = "idle" /\ fullAgency = TRUE
    /\ sinceActed = Cadence /\ sinceRan = Cadence
    /\ urges = {} /\ goal = NoOne /\ kind = "none" /\ vetted = NoVerdict
    /\ success = FALSE /\ ran = FALSE /\ logged = FALSE /\ kept = FALSE
    /\ pending = {} /\ active = <<>> /\ dwelt = FALSE

Deliberate ==
    \/ KeepGoal \/ NothingToDo \/ Select \/ Displace \/ Promote \/ ArbitrationFails
    \/ NotDue \/ PlanTool \/ PlanInternal \/ PlanFails

ActOnTool ==
    \/ Vet \/ VetFails \/ RunTool \/ Veto \/ Audit \/ Announce \/ CommitFails
    \/ RememberWebRead \/ Settle \/ SettleFails

Execute == Recall \/ Consolidate \/ Reflect

ActInternally == Execute \/ Ponder \/ Note \/ ThinkFails \/ Resolve \/ Report \/ ActFails

Next ==
    \/ Start \/ Die \/ WakeCheck
    \/ \E elapsed \in 0..Cadence : Appraise(elapsed)
    \/ Deliberate \/ ActOnTool \/ ActInternally

Spec == Init /\ [][Next]_vars

(* The heartbeat goes on and time with it, and no collaborator fails for   *)
(* ever: of the steps that stand at the same stage of a tool action and of *)
(* an internal one, one goes through now and then.                         *)
Fairness ==
    /\ WF_vars(Appraise(Cadence) \/ Deliberate \/ ActOnTool \/ ActInternally)
    /\ SF_vars(Appraise(Cadence))
    /\ SF_vars(KeepGoal)
    /\ SF_vars(PlanTool \/ PlanInternal)
    /\ SF_vars(Vet \/ Execute)
    /\ SF_vars(Ponder \/ (RunTool /\ at' = "audit"))
    /\ SF_vars(Audit \/ Note)
    /\ SF_vars(Announce)
    /\ SF_vars(Settle \/ Resolve)

FairSpec == Spec /\ Fairness

----------------------------------------------------------------------------
(* Properties.                                                             *)

(* At most one goal row is active, whichever step of an abandon-then-      *)
(* promote switch fails and wherever the process dies in it                *)
(* (GoalArbiter.arbitrate: "a single active pursuit is maintained").       *)
OneActiveGoal == Len(active) <= 1

(* A drive that is about to be eased is not being pursued any more: its    *)
(* event is queued only once its goal row is closed, so the next           *)
(* arbitration cannot act on the same goal again (settle_tool_action, act, *)
(* _collect_events).                                                       *)
EasedIsNotPursued == pending # {} => active = <<>>

(* A tool runs only with agency, and only on an "allow" that the           *)
(* Conscience gave in this very tick for the goal now acted on: no verdict *)
(* of an earlier tick, and no failed vet, lets a tool run (the split of    *)
(* EffectorDispatch.vet and commit over CHECK and ACT).                    *)
RunsOnlyWithConsent ==
    [][~ran /\ ran' => fullAgency /\ vetted = [for |-> goal, verdict |-> "allow"]]_vars

(* What eases a drive was accomplished: the goal is one the tick pursued,  *)
(* its tool ran, succeeded and was audited, and a web read was moreover    *)
(* remembered (_dispatch_tool_action, _consolidate_web_read).              *)
EasedOnlyIfEarned ==
    [][pending' \ pending # {} /\ kind = "tool" =>
            /\ pending' = {goal}
            /\ ran /\ success /\ logged
            /\ goal \in WebReadDrives => kept]_vars

(* A goal that a tool action closed left a row in action_log before it was *)
(* closed, whether the tool ran or was vetoed (EffectorDispatch.commit).   *)
ClosedByToolIsLogged ==
    [][active' # active /\ kind = "tool" => logged]_vars

(* A pursuit ends: what is planned is settled (a veto too) or displaced,   *)
(* for as long as the process lives and agency is not suspended            *)
(* (Deliberation.settle_tool_action, "resolves the goal so it won't        *)
(* re-trigger").                                                           *)
PursuitEnds == active # <<>> ~> (active = <<>> \/ proc = "down" \/ ~fullAgency)

=============================================================================
