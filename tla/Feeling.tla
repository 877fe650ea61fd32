------------------------------ MODULE Feeling ------------------------------
(***************************************************************************)
(* What the Mind needs and feels: the drives' pressures and the mood       *)
(* (brain/drives/engine.py, brain/drives/parameters.py,                    *)
(* brain/affect/agent.py, brain/affect/appraisal.py, APPRAISE of           *)
(* brain/cycle.py).                                                        *)
(*                                                                         *)
(* A pressure relaxes toward its equilibrium and a mood toward its         *)
(* baseline with the time since its timestamp; both laws are taken as      *)
(* linear, one unit in one unit of time, which keeps what the exponentials *)
(* promise: they never pass their target, and two waits add up to one.     *)
(* Appraisals and weights are exact, in hundredths.                        *)
(***************************************************************************)
EXTENDS Integers, FiniteSets, Sequences, SequencesExt

CONSTANTS
    Drives,       \* DRIVE_NAMES
    Energy,       \* the drive that asks for sleep
    Connection,   \* the drive that loneliness tracks
    Coherence,    \* the drive that takes certainty away
    Scale,        \* the greatest pressure
    Setpoint, Equilibrium, Threshold,   \* [Drives -> 0..Scale]
    Weight,       \* [event kinds -> [Drives -> Int]]: drives.toml's satisfaction
    Outcomes,     \* event kinds that other stages queue
    Opinions,     \* what a model may answer about a message
    Bright,       \* the greatest valence; the least is -Bright
    Calm, Wild,   \* the baseline's arousal, and the greatest
    MinChange,    \* mood_persist_min_change
    EmotionFloor, \* _EMOTION_FLOOR, in hundredths of hundredths
    Step,         \* hundredths of an appraisal that move a mood by one
    MaxAge,       \* ages are followed up to here, where all has relaxed
    MaxQueue      \* bound: outcomes queued for one tick

Kinds == DOMAIN Weight

\* load_drive_config takes nothing else: each drive, and no other.
ValidConfig ==
    /\ Setpoint \in [Drives -> 0..Scale]
    /\ Equilibrium \in [Drives -> 0..Scale]
    /\ Threshold \in [Drives -> 0..Scale]
    /\ Weight \in [Kinds -> [Drives -> Int]]

\* What derive_appraisal, or a model, says of a tick, in hundredths;
\* appraise_dimensions clamps what a model answers.
Appraisals == [congruence : -100..100, novelty : 0..100, agency : 0..100,
               certainty : 0..100, emotions : SUBSET STRING]

ASSUME FeelingAssumption ==
    /\ {Energy, Connection, Coherence} \subseteq Drives
    /\ Scale \in Nat /\ Bright \in Nat /\ Calm \in Nat /\ Wild \in Nat /\ Calm <= Wild
    /\ ValidConfig
    /\ Outcomes \subseteq Kinds /\ "interaction" \in Kinds
    /\ MinChange \in Nat \ {0} /\ Step \in Nat \ {0} /\ EmotionFloor \in Nat \ {0}
    /\ MaxAge \in Nat /\ MaxAge >= Scale /\ MaxAge >= 2 * Bright /\ MaxAge >= Wild
    /\ MaxQueue \in Nat
    /\ Opinions \subseteq Appraisals

VARIABLES
    value,    \* drive_state: per drive its pressure
    age,      \* per drive: the time since updated_at
    true,     \* history: the pressure if every moment were reckoned at once
    queue,    \* CognitiveCycle._pending_events
    at,       \* "idle", or what APPRAISE does next
    events,   \* ctx.events
    input,    \* whether a message was perceived
    row,      \* mood: its latest row
    mood,     \* Affect._current
    felt,     \* history: the mood's level if every moment were reckoned at once
    reader    \* a request that is loading the mood: what it read

drives == <<value, age, true>>
feelingVars == <<drives, queue, at, events, input, row, mood, felt, reader>>

MinOf(a, b) == IF a <= b THEN a ELSE b
MaxOf(a, b) == IF a >= b THEN a ELSE b
Clamp(x, lo, hi) == MinOf(hi, MaxOf(lo, x))

Level == [valence : (-Bright)..Bright, arousal : 0..Wild]
Resting == [valence |-> 0, arousal |-> Calm]

\* Those the rules derive, and whatever a model names.
Emotions == {"joy", "excitement", "contentment", "frustration", "anxiety", "loneliness"}
            \cup UNION {a.emotions : a \in Opinions}

None == [present |-> FALSE]

\* A row of drive_state, and one of mood.
DriveRow == [value : 0..Scale, age : 0..MaxAge]
MoodRow == [present : {TRUE}, level : Level, tags : SUBSET Emotions, age : 0..MaxAge]

FeelingTypeOK ==
    /\ \A d \in Drives : [value |-> value[d], age |-> age[d]] \in DriveRow
    /\ true \in [Drives -> 0..Scale]
    /\ row \in MoodRow \cup {None}
    /\ at \in {"idle", "drives", "affect", "steer"}
    /\ queue \in Seq(Outcomes) /\ input \in BOOLEAN
    /\ felt \in Level
    /\ mood.present => mood.level \in Level /\ mood.age \in 0..MaxAge

----------------------------------------------------------------------------
(* Drives.                                                                 *)

\* advance(): toward the target, never past it.
Toward(v, target, dt) ==
    IF v <= target THEN MinOf(v + dt, target) ELSE MaxOf(v - dt, target)

OverThreshold(d, v) == v >= Threshold[d]

\* urgency, in hundredths.
Urgency(d, v) ==
    IF v < Threshold[d] \/ Threshold[d] >= Scale THEN 0
    ELSE (100 * (v - Threshold[d])) \div (Scale - Threshold[d])

\* _aggregate_deltas
Delta(d, evs) ==
    LET sum[n \in 0..Len(evs)] == IF n = 0 THEN 0 ELSE sum[n - 1] + Weight[evs[n]][d]
    IN  sum[Len(evs)]

Stepped_IgnoresTime(d) == Clamp(value[d] + Delta(d, events), 0, Scale)

Stepped(d) == Clamp(Toward(value[d], Equilibrium[d], age[d]) + Delta(d, events), 0, Scale)

\* One transaction over all drives.
StepDrives ==
    /\ at = "drives"
    /\ value' = [d \in Drives |-> Stepped(d)]
    /\ true' = [d \in Drives |-> Clamp(true[d] + Delta(d, events), 0, Scale)]
    /\ age' = [d \in Drives |-> 0]
    /\ at' = "affect"
    /\ UNCHANGED <<queue, events, input, row, mood, felt, reader>>

\* Nothing after APPRAISE reads its events.
Finished == at' = "idle" /\ events' = <<>> /\ input' = FALSE

CollectEvents ==
    /\ at = "idle"
    /\ \E heard \in 0..1 :
         /\ events' = queue \o [i \in 1..heard |-> "interaction"]
         /\ input' = (heard > 0)
    /\ queue' = <<>>
    /\ at' = "drives"
    /\ UNCHANGED <<drives, row, mood, felt, reader>>

----------------------------------------------------------------------------
(* The appraisal of a tick.                                                *)

If(c, x) == IF c THEN x ELSE 0

Urges == {d \in Drives : OverThreshold(d, value[d])}

Unmet == Urges \ {Energy}

MaxUnmet == LET U == {Urgency(d, value[d]) : d \in Unmet} \cup {0}
            IN  CHOOSE u \in U : \A w \in U : w <= u

Happened(k) == k \in Range(events)

\* derive_appraisal, in hundredths.
Appraisal ==
    LET congruence ==
            If(Happened("success"), 60) - If(Happened("failure"), 60) + If(Happened("interaction"), 30)
            + If(Happened("learning"), 30) + If(Happened("persistence_confirmed"), 25)
            - If(Happened("shutdown_signal"), 70) - MaxUnmet \div 4
        doubt == If(OverThreshold(Coherence, value[Coherence]), Urgency(Coherence, value[Coherence]) \div 2)
        certainty == 70 - doubt
    IN  [congruence |-> Clamp(congruence, -100, 100),
         novelty |-> IF input THEN 80 ELSE IF Happened("learning") THEN 70 ELSE 10,
         agency |-> IF Happened("success") \/ Happened("failure") THEN 70 ELSE IF input THEN 35 ELSE 45,
         certainty |-> IF Happened("shutdown_signal") THEN MinOf(certainty, 20) ELSE certainty,
         emotions |-> {}]

\* appraise_dimensions and blend_mood's responsiveness.
Push(a) ==
    LET g == a.congruence
        stakes == IF g >= 0 THEN g ELSE -g
        arousal == (55 * a.novelty + 35 * (100 - a.certainty) + 30 * stakes) \div 100 - 45
    IN  [valence |-> Clamp(g, -100, 100) \div Step, arousal |-> Clamp(arousal, -100, 100) \div Step]

\* _derive_emotions and loneliness, unless the model names the emotions itself:
\* how strong each is, in hundredths of hundredths.
Strength(a, e) ==
    LET g == a.congruence IN
    CASE e = "loneliness" ->
             MaxOf(If(e \in a.emotions, 10000),
                   If(OverThreshold(Connection, value[Connection]),
                      100 * Urgency(Connection, value[Connection])))
      [] e # "loneliness" /\ a.emotions # {} -> If(e \in a.emotions, 10000)
      [] e = "excitement" /\ a.emotions = {} -> g * a.novelty
      [] e = "joy" /\ a.emotions = {} -> g * a.agency
      [] e = "contentment" /\ a.emotions = {} -> (g * (100 - a.novelty) * a.certainty) \div 100
      [] e = "frustration" /\ a.emotions = {} -> -g * a.agency
      [] e = "anxiety" /\ a.emotions = {} -> -g * (100 - a.certainty)
      [] OTHER -> 0

\* Halved by mood_responsiveness, it is felt whatever the running tags are.
Strong(a) == {e \in Emotions : Strength(a, e) >= 2 * EmotionFloor}

----------------------------------------------------------------------------
(* The mood.                                                               *)

Faded(l, dt) == [valence |-> Toward(l.valence, 0, dt), arousal |-> Toward(l.arousal, Calm, dt)]

Pushed(l, p) == [valence |-> Clamp(l.valence + p.valence, -Bright, Bright),
                 arousal |-> Clamp(l.arousal + p.arousal, 0, Wild)]

\* What _ensure_loaded finds: the last row, or the baseline, which has no id.
\* "tags" are the row's; "named" are those of the row its id names.
LoadedMood ==
    IF row.present THEN [present |-> TRUE, level |-> row.level, tags |-> row.tags,
                         age |-> row.age, recorded |-> TRUE, named |-> row.tags]
    ELSE [present |-> TRUE, level |-> Resting, tags |-> {}, age |-> 0,
          recorded |-> FALSE, named |-> {}]

Current == IF mood.present THEN mood ELSE LoadedMood

Distance(a, b) == If(a >= b, a - b) + If(b > a, b - a)

ShouldPersist_LevelsOnly(old, l, tags) ==
    \/ ~old.recorded
    \/ Distance(l.valence, old.level.valence) + Distance(l.arousal, old.level.arousal) >= MinChange

ShouldPersist(old, l, tags) ==
    \/ ~old.recorded
    \/ Distance(l.valence, old.level.valence) + Distance(l.arousal, old.level.arousal) >= MinChange
    \/ tags # old.tags

\* Not worth a row: the id stays, levels and clock advance.
KeptMood(old, l, tags) == [old EXCEPT !.level = l, !.tags = tags, !.age = 0]

\* A commit: blend, then a row or not.  The running tags fade by the time and
\* by the tick, so some of the old ones stay.
Feel(a) ==
    LET old == Current
        l == Pushed(Faded(old.level, old.age), Push(a))
    IN  \E stay \in SUBSET (old.tags \ Strong(a)) :
        LET tags == Strong(a) \cup stay IN
        /\ IF ShouldPersist(old, l, tags)
           THEN /\ row' = [present |-> TRUE, level |-> l, tags |-> tags, age |-> 0]
                /\ mood' = [present |-> TRUE, level |-> l, tags |-> tags, age |-> 0,
                            recorded |-> TRUE, named |-> tags]
           ELSE /\ row' = row
                /\ mood' = KeptMood(old, l, tags)
        /\ felt' = Pushed(IF mood.present THEN felt ELSE Faded(old.level, old.age), Push(a))

\* A message is put to the model; without one, or without an answer, the rules.
Affect ==
    /\ at = "affect"
    /\ \E a \in {Appraisal} \cup (IF input THEN Opinions ELSE {}) : Feel(a)
    /\ at' = "steer"
    /\ UNCHANGED <<drives, queue, events, input, reader>>

\* The mood is loaded, and the model or the insert raises.
AffectFails ==
    /\ at = "affect"
    /\ mood' = Current
    /\ felt' = IF mood.present THEN felt ELSE Faded(Current.level, Current.age)
    /\ Finished
    /\ UNCHANGED <<drives, queue, row, reader>>

----------------------------------------------------------------------------
\* The bias and the pace are set from what is felt; the stage is over.
Steer ==
    /\ at = "steer"
    /\ Finished
    /\ UNCHANGED <<drives, queue, row, mood, felt, reader>>

----------------------------------------------------------------------------
(* Around APPRAISE.                                                        *)

\* A transaction or a broadcast raises: the stage is over, its events gone.
StageFails ==
    /\ at \in {"drives", "steer"}
    /\ Finished
    /\ UNCHANGED <<drives, queue, row, mood, felt, reader>>

\* Other stages queue what came of the tick.
Outcome(e) ==
    /\ at = "idle" /\ Len(queue) < MaxQueue
    /\ queue' = Append(queue, e)
    /\ UNCHANGED <<drives, at, events, input, row, mood, felt, reader>>

\* GET state asks for the mood: read now, assigned when the session is closed.
ReaderLoads ==
    /\ ~mood.present /\ ~reader.present
    /\ reader' = LoadedMood
    /\ UNCHANGED <<drives, queue, at, events, input, row, mood, felt>>

ReaderAssigns ==
    /\ reader.present
    /\ mood' = reader
    /\ felt' = Faded(reader.level, reader.age)
    /\ reader' = None
    /\ UNCHANGED <<drives, queue, at, events, input, row>>

Older(n) == MinOf(n + 1, MaxAge)

TimePasses ==
    /\ age' = [d \in Drives |-> Older(age[d])]
    /\ true' = [d \in Drives |-> Toward(true[d], Equilibrium[d], 1)]
    /\ row' = IF row.present THEN [row EXCEPT !.age = Older(@)] ELSE row
    /\ mood' = IF mood.present THEN [mood EXCEPT !.age = Older(@)] ELSE mood
    /\ reader' = IF reader.present THEN [reader EXCEPT !.age = Older(@)] ELSE reader
    /\ felt' = Faded(felt, 1)
    /\ UNCHANGED <<value, queue, at, events, input>>

\* bootstrap(): a drive's pressure and its clock are left alone.
Bootstrapped(d) == <<value[d], age[d]>>

\* The process dies and comes back.
Restart ==
    /\ value' = [d \in Drives |-> Bootstrapped(d)[1]]
    /\ age' = [d \in Drives |-> Bootstrapped(d)[2]]
    /\ mood' = None /\ felt' = Resting /\ reader' = None
    /\ queue' = <<>> /\ Finished
    /\ UNCHANGED <<true, row>>

\* After the first bootstrap, which creates the rows.
FeelingInit ==
    /\ value = Setpoint /\ true = Setpoint /\ age = [d \in Drives |-> 0]
    /\ queue = <<>> /\ at = "idle" /\ events = <<>> /\ input = FALSE
    /\ row = None /\ mood = None /\ felt = Resting /\ reader = None

FeelingNext ==
    \/ CollectEvents \/ StepDrives \/ Affect \/ AffectFails \/ Steer \/ StageFails
    \/ \E e \in Outcomes : Outcome(e)
    \/ ReaderLoads \/ ReaderAssigns
    \/ TimePasses \/ Restart

FeelingSpec == FeelingInit /\ [][FeelingNext]_feelingVars

----------------------------------------------------------------------------
(* Properties.                                                             *)

(* However many ticks fail, run late or are lost to a restart, a drive's   *)
(* row and its clock together say what the pressure is now: no moment is   *)
(* lost and none is counted twice (step, bootstrap, updated_at).           *)
TimeCountsOnce ==
    \A d \in Drives : Toward(value[d], Equilibrium[d], age[d]) = true[d]

(* The same of the mood in memory, whether a tick wrote a row or not: a    *)
(* feeling fades by the time since it was last reckoned (_commit).         *)
MoodFadesOnce == mood.present => Faded(mood.level, mood.age) = felt

(* No clock is read twice or not at all, of the drives and of the mood.    *)
EveryMomentCountsOnce == FeelingTypeOK /\ TimeCountsOnce /\ MoodFadesOnce

(* However far the levels have drifted without a row, the emotions in mind *)
(* are those of the row whose id a thought is stamped with                 *)
(* (_should_persist, Narrator._persist).                                   *)
TagsAreOnRecord == mood.present /\ mood.recorded => mood.tags = mood.named

=============================================================================
