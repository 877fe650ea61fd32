------------------------------ MODULE Sandbox ------------------------------
(***************************************************************************)
(* code_exec: three processes and a clock.  The tool pipes a snippet to    *)
(* the launcher and waits (brain/effectors/code_exec.py); the launcher     *)
(* runs a container, waits for it and prints one verdict                   *)
(* (ops/sandbox/run-sandbox.sh); in the container a runner executes the    *)
(* snippet and reports (ops/sandbox/runner.py).  Each of the three has a   *)
(* limit of its own on the time the other may take.                        *)
(*                                                                         *)
(* The snippet shares a process with its runner: what the runner does for  *)
(* it the snippet can do too, undo or forestall, and its lines on the      *)
(* container's output look like the runner's.  Nothing is assumed of it    *)
(* but that it stays in its container.                                     *)
(*                                                                         *)
(* What docker does on the launcher's behalf takes any time and may fail.  *)
(* The limits are punctual: time stands still until a due one has fired.   *)
(***************************************************************************)
EXTENDS Integers, Sequences, SequencesExt, TLC

CONSTANTS
    Limit,     \* code_exec_timeout_seconds: the snippet's own time
    Grace,     \* SANDBOX_GRACE: what the launcher allows on top of it
    Buffer,    \* code_exec_outer_buffer_seconds: what the tool allows on top
    MaxFaults  \* bound: docker commands of one call that fail

ASSUME SandboxAssumption ==
    /\ Limit \in Nat \ {0} /\ Grace \in Nat /\ MaxFaults \in Nat
    /\ Buffer \in Nat /\ Buffer > Grace

VARIABLES
    answer,     \* of the tool: "idle", "waiting", then what it came to
    launcher,   \* where the script is; "off" before, "over" and "killed" after
    printed,    \* its standard output, once it is over
    container,  \* "none", "up", "exited" or "removed"
    code,       \* the exit code docker wait prints: 0, 137 (or 139), another, or none
    runner,     \* "off", "exec", "deaf" to the alarm, "report", "reported"
    out,        \* the lines on the container's standard output
    deed,       \* how the snippet ended, and what the runner makes of it
    clock,      \* since the launcher was started
    born,       \* when the container started
    since,      \* when the wait for it began
    spent,      \* history: time in docker commands other than the wait
    faults      \* history: docker commands that failed

script == <<launcher, printed>>
inside == <<container, code, runner, out, deed>>
time   == <<clock, born, since, spent>>
sandboxVars == <<answer, script, inside, time, faults>>

Answers == {"idle", "ok", "failed", "unavailable", "raised"}
ExitCodes == {"0", "137", "other"}

\* A line of the snippet's own: a verdict of either kind, or none at all.
OwnLines == {"claim", "denial", "text"}

SandboxTypeOK ==
    /\ answer \in Answers \cup {"waiting"}
    /\ container \in {"none", "up", "exited", "removed"}
    /\ clock \in 0..(Limit + Buffer) /\ spent \in 0..clock
    /\ code \in ExitCodes \cup {"none"} /\ faults \in 0..MaxFaults

----------------------------------------------------------------------------
(* The runner, in its container.                                           *)

Running == answer = "waiting"

Fresh ==
    /\ container' = "none" /\ code' = "none" /\ runner' = "off"
    /\ out' = <<>> /\ deed' = "none"

\* A docker client outlives a killed launcher, so the container may start then.
ContainerStarts ==
    /\ launcher \in {"starting", "killed"} /\ container = "none" /\ printed = <<>>
    /\ container' = "up" /\ runner' = "exec" /\ born' = clock
    /\ UNCHANGED <<answer, script, code, out, deed, clock, since, spent, faults>>

Ends(d) ==
    /\ runner' = "report" /\ deed' = d
    /\ UNCHANGED <<answer, script, container, code, out, time, faults>>

\* No clock is kept once the tool has stopped waiting.
Due == clock - born >= Limit \/ ~Running

\* A normal end and sys.exit(0) are ok; an exception and any other exit are not.
\* One that was deaf to the alarm may still end, long after it, or be reached by
\* SIGXCPU.
SnippetEnds ==
    /\ runner \in {"exec", "deaf"}
    /\ \E d \in {"ok", "failed", "timeout"} : Ends(d) /\ (d = "timeout" => runner = "deaf" /\ Due)

\* The snippet catches BaseException, resets the signal, or does not return to
\* the interpreter.
GoesDeaf ==
    /\ runner = "exec" /\ runner' = "deaf" /\ deed' = "deaf"
    /\ UNCHANGED <<answer, script, container, code, out, time, faults>>

\* The snippet writes on the container's output: through a copy of the
\* descriptor while it runs, from a thread or on exit once stdout is restored.
\* Bound: one line.
SnippetWrites(line) ==
    /\ runner \in {"exec", "deaf", "report", "reported"}
    /\ Range(out) \cap OwnLines = {}
    /\ out' = Append(out, line)
    /\ UNCHANGED <<answer, script, container, code, runner, deed, time, faults>>

\* SIGALRM, unless the snippet ended first.
Alarm == runner = "exec" /\ Due /\ Ends("timeout")

\* The result as one line, unless what the snippet wrote has left a line open.
Report ==
    /\ runner = "report" /\ runner' = "reported"
    /\ \E line \in {deed, "text"} : out' = Append(out, line)
    /\ UNCHANGED <<answer, script, container, code, deed, time, faults>>

\* The last resort at the bottom: the snippet has closed or used up what main()
\* needs, or SIGXCPU, which has no alarm(0), interrupts it before or after its
\* report.
LastResort ==
    /\ runner \in {"report", "reported"} /\ "runner_error" \notin Range(out)
    /\ runner' = "reported" /\ out' = Append(out, "runner_error")
    /\ UNCHANGED <<answer, script, container, code, deed, time, faults>>

Exits(c) ==
    /\ container' = "exited" /\ code' = c /\ runner' = "off"
    /\ UNCHANGED <<answer, script, time, faults>>

\* The interpreter ends: with its report, or without one where the descriptor is
\* gone.  A thread of the snippet may keep it from ending, or end it at once.
RunnerExits ==
    /\ runner \in {"report", "reported"} /\ UNCHANGED <<deed, out>>
    /\ \E c \in ExitCodes : Exits(c)

\* os._exit: no report, whatever the code.
BareExit ==
    /\ runner \in {"exec", "deaf"} /\ deed' = "bare" /\ UNCHANGED out
    /\ \E c \in ExitCodes : Exits(c)

\* The memory cap, the hard CPU limit, or a crash of the interpreter.
KernelKills ==
    /\ runner \in {"exec", "deaf", "report", "reported"}
    /\ Exits("137") /\ UNCHANGED <<deed, out>>

InContainer ==
    \/ SnippetEnds \/ GoesDeaf \/ \E line \in OwnLines : SnippetWrites(line)
    \/ Alarm \/ Report \/ LastResort
    \/ RunnerExits \/ BareExit \/ KernelKills

----------------------------------------------------------------------------
(* The launcher.                                                           *)

\* No docker, no image: before the trap is set.
Refuses ==
    /\ launcher = "starting" /\ container = "none"
    /\ printed' = <<"infra">> /\ launcher' = "over"
    /\ UNCHANGED <<answer, inside, time, faults>>

Faulty == faults < MaxFaults /\ faults' = faults + 1

StartFails ==
    /\ launcher = "starting" /\ Faulty
    /\ printed' = <<"infra">> /\ launcher' = "trap"
    /\ UNCHANGED <<answer, inside, time>>

RunReturns ==
    /\ launcher = "starting" /\ container # "none"
    /\ launcher' = "waiting" /\ since' = clock
    /\ UNCHANGED <<answer, printed, inside, clock, born, spent, faults>>

HardLimit_GraceTwice == Limit + 2 * Grace

\* HARD: what `timeout` allows docker wait.
HardLimit == Limit + Grace

Backstop == launcher = "waiting" /\ clock - since >= HardLimit

\* An empty $ec: the wait was killed at the backstop, or failed.
WaitComesToNothing ==
    /\ \/ Backstop /\ UNCHANGED faults
       \/ launcher = "waiting" /\ ~Backstop /\ Faulty
    /\ launcher' = "clearing"
    /\ UNCHANGED <<answer, printed, inside, time>>

WaitReturns ==
    /\ launcher = "waiting" /\ container = "exited" /\ ~Backstop
    /\ launcher' = "collecting"
    /\ UNCHANGED <<answer, printed, inside, time, faults>>

\* docker rm -f: it may fail, which the script ignores.
RemoveIt ==
    \/ container' = "removed" /\ runner' = "off" /\ UNCHANGED faults
    \/ UNCHANGED <<container, runner>> /\ Faulty

Clear ==
    /\ launcher = "clearing" /\ launcher' = "trap" /\ RemoveIt
    /\ printed' = <<"timeout">>
    /\ UNCHANGED <<answer, code, out, deed, time>>

Shown_ByExitCode(c, text) == IF c = "0" THEN <<"ok">> ELSE <<"killed">>

\* Which of its branches prints: the runner's own text before anything else,
\* except that a kill is a kill.
Shown(c, text) ==
    IF c = "137" THEN <<"killed">>
    ELSE IF text # <<>> THEN text
    ELSE <<"no verdict">>

\* What a failing docker logs has brought: the first lines, the last of them
\* perhaps cut short.
CutShort(lines) ==
    LET first == {SubSeq(lines, 1, n) : n \in 0..Len(lines)}
    IN  first \cup {Append(q, "text") : q \in first}

\* docker logs, and which of the printfs that leads to.
Collect ==
    /\ launcher = "collecting" /\ launcher' = "removing"
    /\ \/ printed' = Shown(code, out) /\ UNCHANGED faults
       \/ Faulty /\ \E lines \in CutShort(out) : printed' = Shown(code, lines)
    /\ UNCHANGED <<answer, inside, time>>

Discard ==
    /\ launcher = "removing" /\ launcher' = "trap" /\ RemoveIt
    /\ UNCHANGED <<answer, printed, code, out, deed, time>>

\* cleanup, on any end but a SIGKILL.
Trap ==
    /\ launcher = "trap" /\ launcher' = "over"
    /\ \/ container \in {"none", "removed"} /\ UNCHANGED <<container, runner, faults>>
       \/ container \in {"up", "exited"} /\ RemoveIt
    /\ UNCHANGED <<answer, printed, code, out, deed, time>>

InLauncher ==
    \/ Refuses \/ StartFails \/ RunReturns \/ WaitComesToNothing \/ WaitReturns
    \/ Clear \/ Collect \/ Discard \/ Trap

----------------------------------------------------------------------------
(* The tool.                                                               *)

\* Too large a snippet, or a launcher that cannot be executed.
CodeRefused ==
    /\ answer' \in {"failed", "unavailable"} /\ Fresh
    /\ launcher' = "off" /\ printed' = <<>>
    /\ clock' = 0 /\ born' = 0 /\ since' = 0 /\ spent' = 0 /\ UNCHANGED faults

Launch ==
    /\ answer' = "waiting" /\ Fresh
    /\ launcher' = "starting" /\ printed' = <<>>
    /\ clock' = 0 /\ born' = 0 /\ since' = 0 /\ spent' = 0 /\ UNCHANGED faults

\* parse_sandbox_verdict asks only whether the line is a verdict, and not whose:
\* one that is none is a ValidationError, which run() does not catch.
Projected(line) ==
    CASE line \in {"ok", "claim"} -> "ok"
      [] line = "text"            -> "raised"
      [] OTHER                    -> "failed"

\* _last_json_line: the launcher's last line.
Parse ==
    /\ Running /\ launcher = "over"
    /\ answer' = IF printed = <<>> THEN "unavailable" ELSE Projected(Last(printed))
    /\ UNCHANGED <<script, inside, time, faults>>

OuterLimit == Limit + Buffer

\* wait_for gives up: proc.kill() is a SIGKILL, which no trap sees.
OuterWait ==
    /\ Running /\ launcher # "over" /\ clock >= OuterLimit
    /\ answer' = "unavailable" /\ launcher' = "killed"
    /\ UNCHANGED <<printed, inside, time, faults>>

InTool == Parse \/ OuterWait

Tick ==
    /\ Running /\ clock < OuterLimit
    /\ ~Backstop /\ ~(runner = "exec" /\ Due)
    /\ clock' = clock + 1
    /\ spent' = IF launcher = "waiting" THEN spent ELSE spent + 1
    /\ UNCHANGED <<answer, script, inside, born, since, faults>>

SandboxInit ==
    /\ answer = "idle" /\ launcher = "off" /\ printed = <<>>
    /\ container = "none" /\ code = "none" /\ runner = "off"
    /\ out = <<>> /\ deed = "none"
    /\ clock = 0 /\ born = 0 /\ since = 0 /\ spent = 0 /\ faults = 0

SandboxNext == ContainerStarts \/ InContainer \/ InLauncher \/ InTool \/ Tick

----------------------------------------------------------------------------
(* Properties.                                                             *)

Said(line) == line \in Range(out)

(* A run that is reported as a success rests on a line that says so and    *)
(* that its own container wrote before it ended by itself: the runner's,   *)
(* and then the snippet did end well, or one the snippet wrote in its      *)
(* name, which nothing can tell apart.  Where docker did not fail it is    *)
(* the container's last word.  No line of the launcher's own, no exit      *)
(* code, no kill and no backstop is ever read as a success (main,          *)
(* run-sandbox.sh's branches, _last_json_line, parse_sandbox_verdict).     *)
SuccessIsVouched ==
    answer = "ok" =>
        /\ code \in {"0", "other"}
        /\ (deed = "ok" /\ Said("ok")) \/ Said("claim")
        /\ faults = 0 => Last(out) \in {"ok", "claim"}

(* "So the launcher always wins": the tool kills the launcher only when    *)
(* docker took, outside the wait, all that the buffer leaves over the      *)
(* grace (code_exec_outer_buffer_seconds, HARD).                           *)
OuterWaitIsLast ==
    launcher = "killed" /\ answer # "idle" => spent >= Buffer - Grace

Orphaned == container \in {"up", "exited"}

(* A container outlives its call only if the launcher was killed, or       *)
(* docker failed twice: once over the container, once in the trap's rm.    *)
OnlyKillsOrphan ==
    Orphaned /\ answer \in Answers => launcher = "killed" \/ faults >= 2

(* The outer wait is a last resort, and nothing else leaves a container.   *)
LauncherIsEnough == SandboxTypeOK /\ OuterWaitIsLast /\ OnlyKillsOrphan

=============================================================================
