---------------------------- MODULE Parts_proofs ----------------------------
(***************************************************************************)
(* Four parts of the tick: the feelings (Feeling), what is attended to     *)
(* (Focus), the snapshots of the memory (Snapshot) and the tools (Tools,   *)
(* with Sandbox and Reading). None of them touches a variable of another,  *)
(* so each has its own invariant here, and no lemma of one is used by      *)
(* another but those about numbers and finite sets, which come first.      *)
(*                                                                         *)
(* What no theorem of the library gives without an operator as parameter,  *)
(* induction, is replaced by its least counterexample: Nat is well founded *)
(* under <, so a set of numbers that is not empty has a least element.     *)
(***************************************************************************)
EXTENDS Feeling, Focus, Snapshot, Tools, FunctionTheorems, FiniteSetTheorems,
        SequenceTheorems, WellFoundedInduction, TLAPS

----------------------------------------------------------------------------
(* Numbers, finite sets and sequences.                                     *)

LEMMA Least ==
  ASSUME NEW T, T \subseteq Nat, T # {}
  PROVE  \E m \in T : \A n \in T : m <= n
<1> DEFINE R == {r \in Nat \X Nat : r[1] < r[2]}
<1>1. IsWellFoundedOn(R, Nat)
  <2>1. R = OpToRel(<, Nat)
    BY DEF OpToRel
  <2> QED BY <2>1, NatLessThanWellFounded
<1>2. PICK m \in T : \A n \in T : ~ (<<n, m>> \in R)
  <2> HIDE DEF R
  <2> QED BY <1>1, WFMin
<1>3. ASSUME NEW n \in T PROVE m <= n
  <2>1. n \in Nat /\ m \in Nat /\ ~ (<<n, m>> \in R)
    BY <1>2
  <2>2. ~ (n < m)
    BY <2>1
  <2> QED BY <2>1, <2>2
<1> QED BY <1>3

LEMMA Greatest ==
  ASSUME NEW b \in Nat, NEW T, T \subseteq 0..b, T # {}
  PROVE  \E m \in T : \A n \in T : n <= m
<1> DEFINE D == {b - n : n \in T}
<1>1. D \subseteq Nat /\ D # {}
  <2>1. \A n \in T : n \in 0..b /\ b - n \in Nat
    OBVIOUS
  <2> QED BY <2>1
<1>2. PICK d \in D : \A n \in D : d <= n
  <2> HIDE DEF D
  <2> QED BY <1>1, Least
<1>3. PICK m \in T : d = b - m
  OBVIOUS
<1>4. ASSUME NEW n \in T PROVE n <= m
  <2>1. n \in 0..b /\ m \in 0..b /\ b - n \in D
    OBVIOUS
  <2>2. b - m <= b - n
    BY <1>2, <1>3, <2>1
  <2> QED BY <2>1, <2>2
<1> QED BY <1>4

\* Sums of integers exist, however many there are.
LEMMA SumExists ==
  ASSUME NEW n \in Nat, NEW w \in [1..n -> Int]
  PROVE  \E s \in [0..n -> Int] : s = [i \in 0..n |-> IF i = 0 THEN 0 ELSE s[i - 1] + w[i]]
<1> DEFINE Sums(k) == {s \in [0..k -> Int] : s[0] = 0 /\ \A i \in 1..k : s[i] = s[i - 1] + w[i]}
           Missing == {k \in 0..n : Sums(k) = {}}
<1>1. Missing = {}
  <2>1. SUFFICES ASSUME Missing # {} PROVE FALSE
    OBVIOUS
  <2>2. PICK k \in Missing : \A j \in Missing : k <= j
    <3>1. Missing \subseteq Nat
      OBVIOUS
    <3> HIDE DEF Missing
    <3> QED BY <2>1, <3>1, Least
  <2>3. k # 0
    <3>1. [i \in 0..0 |-> 0] \in Sums(0)
      OBVIOUS
    <3> QED BY <3>1
  <2>4. k \in 1..n /\ k - 1 \in 0..n /\ k - 1 \notin Missing
    <3>1. k \in 0..n /\ \A j \in Missing : k <= j
      BY <2>2
    <3>2. k \in 1..n /\ ~ (k <= k - 1)
      BY <2>3, <3>1
    <3>3. k - 1 \notin Missing
      <4> HIDE DEF Missing
      <4> QED BY <3>1, <3>2
    <3> QED BY <3>2, <3>3
  <2>5. PICK s : s \in Sums(k - 1)
    BY <2>4
  <2>6. [i \in 0..k |-> IF i = k THEN s[k - 1] + w[k] ELSE s[i]] \in Sums(k)
    BY <2>3, <2>4, <2>5
  <2> QED BY <2>2, <2>6
<1>2. PICK s : s \in Sums(n)
  <2>1. n \in 0..n
    OBVIOUS
  <2>2. n \notin Missing
    <3> HIDE DEF Missing
    <3> QED BY <1>1
  <2> QED BY <2>1, <2>2
<1>3. s = [i \in 0..n |-> IF i = 0 THEN 0 ELSE s[i - 1] + w[i]]
  BY <1>2
<1> QED BY <1>2, <1>3

\* What satisfies the recursion is an integer throughout.
LEMMA SumType ==
  ASSUME NEW n \in Nat, NEW w \in [1..n -> Int], NEW s,
         s = [i \in 0..n |-> IF i = 0 THEN 0 ELSE s[i - 1] + w[i]]
  PROVE  s[n] \in Int
<1> DEFINE Bad == {i \in 0..n : s[i] \notin Int}
<1>1. SUFFICES ASSUME s[n] \notin Int PROVE FALSE
  OBVIOUS
<1>2. PICK k \in Bad : \A j \in Bad : k <= j
  <2>1. Bad \subseteq Nat /\ Bad # {}
    <3>1. n \in Bad
      BY <1>1
    <3>2. Bad \subseteq Nat
      OBVIOUS
    <3> HIDE DEF Bad
    <3> QED BY <3>1, <3>2
  <2> HIDE DEF Bad
  <2> QED BY <2>1, Least
<1>3. k \in 0..n /\ s[k] \notin Int
  BY <1>2
<1>4. k # 0
  BY <1>3
<1>5. k - 1 \in 0..n /\ k - 1 \notin Bad
  <2>1. k - 1 \in 0..n /\ ~ (k <= k - 1)
    BY <1>3, <1>4
  <2> HIDE DEF Bad
  <2> QED BY <1>2, <2>1
<1>6. s[k] = s[k - 1] + w[k] /\ w[k] \in Int
  BY <1>3, <1>4
<1> QED BY <1>3, <1>5, <1>6

LEMMA UpTo ==
  ASSUME NEW n \in Nat
  PROVE  IsFiniteSet(1..n) /\ Cardinality(1..n) = n
<1>1. IsFiniteSet(1..n) /\ Cardinality(1..n) = IF 1 > n THEN 0 ELSE n - 1 + 1
  BY FS_Interval
<1>2. (IF 1 > n THEN 0 ELSE n - 1 + 1) = n
  OBVIOUS
<1> QED BY <1>1, <1>2

\* A function on 1..n is a sequence of length n.
LEMMA FunctionIsSeq ==
  ASSUME NEW n \in Nat, NEW T, NEW f \in [1..n -> T]
  PROVE  f \in Seq(T) /\ Len(f) = n /\ DOMAIN f = 1..n
<1>1. f \in Seq(T)
  BY SeqDef
<1>2. DOMAIN f = 1..n
  OBVIOUS
<1> QED BY <1>1, <1>2, LenProperties

LEMMA DeltaType ==
  ASSUME NEW d \in Drives, NEW evs \in Seq(Kinds)
  PROVE  Delta(d, evs) \in Int
<1> DEFINE n == Len(evs)
           w == [i \in 1..n |-> Weight[evs[i]][d]]
           Eq(s) == s = [i \in 0..n |-> IF i = 0 THEN 0 ELSE s[i - 1] + w[i]]
           Sum == CHOOSE s : s = [i \in 0..n |-> IF i = 0 THEN 0 ELSE s[i - 1] + Weight[evs[i]][d]]
<1>1. n \in Nat /\ w \in [1..n -> Int]
  <2>1. Weight \in [Kinds -> [Drives -> Int]]
    BY FeelingAssumption DEF ValidConfig
  <2> QED BY <2>1
<1>2. PICK s \in [0..n -> Int] : Eq(s)
  <2> HIDE DEF n, w
  <2> QED BY <1>1, SumExists
<1>3. \A t : Eq(t) <=> t = [i \in 0..n |-> IF i = 0 THEN 0 ELSE t[i - 1] + Weight[evs[i]][d]]
  <2>1. \A i \in 0..n : i # 0 => w[i] = Weight[evs[i]][d]
    OBVIOUS
  <2> HIDE DEF w, n
  <2> QED BY <2>1
<1>4. Eq(Sum)
  <2> HIDE DEF Eq
  <2> QED BY <1>2, <1>3
<1>5. Delta(d, evs) = Sum[n]
  BY DEF Delta
<1>6. Sum[n] \in Int
  <2> HIDE DEF n, w, Sum
  <2> QED BY <1>1, <1>4, SumType
<1> QED BY <1>5, <1>6

----------------------------------------------------------------------------
(* Feeling: time.                                                          *)

\* A clock that stops where all has relaxed is as good as one that goes on:
\* a step of it is a step toward the target.
LEMMA TowardOlder ==
  ASSUME NEW v \in Int, NEW t \in Int, NEW n \in 0..MaxAge,
         v - t <= MaxAge, t - v <= MaxAge
  PROVE  Toward(v, t, Older(n)) = Toward(Toward(v, t, n), t, 1)
<1>1. MaxAge \in Nat
  BY FeelingAssumption
<1> QED BY <1>1 DEF Toward, Older, MinOf, MaxOf

LEMMA TowardNow ==
  ASSUME NEW v \in Int, NEW t \in Int
  PROVE  Toward(v, t, 0) = v
BY DEF Toward, MinOf, MaxOf

LEMMA TowardStays ==
  ASSUME NEW lo \in Int, NEW hi \in Int, NEW v \in lo..hi, NEW t \in lo..hi, NEW n \in Nat
  PROVE  Toward(v, t, n) \in lo..hi
BY DEF Toward, MinOf, MaxOf

LEMMA ClampType ==
  ASSUME NEW lo \in Int, NEW hi \in Int, lo <= hi, NEW x \in Int
  PROVE  Clamp(x, lo, hi) \in lo..hi
BY DEF Clamp, MinOf, MaxOf

LEMMA OlderType ==
  ASSUME NEW n \in 0..MaxAge
  PROVE  Older(n) \in 0..MaxAge
BY FeelingAssumption DEF Older, MinOf

\* The same of the two levels of a mood at once.
LEMMA FadedOlder ==
  ASSUME NEW l \in Level, NEW n \in 0..MaxAge
  PROVE  /\ Faded(l, n) \in Level
         /\ Faded(l, Older(n)) = Faded(Faded(l, n), 1)
         /\ Faded(l, 0) = l
<1>1. /\ MaxAge \in Nat /\ Bright \in Nat /\ Calm \in 0..Wild /\ Wild \in Nat
      /\ MaxAge >= 2 * Bright /\ MaxAge >= Wild
  BY FeelingAssumption
<1>2. l.valence \in (-Bright)..Bright /\ l.arousal \in 0..Wild
      /\ l = [valence |-> l.valence, arousal |-> l.arousal]
  BY DEF Level
<1>3. /\ Toward(l.valence, 0, n) \in (-Bright)..Bright
      /\ Toward(l.arousal, Calm, n) \in 0..Wild
  <2>1. /\ -Bright \in Int /\ Bright \in Int /\ 0 \in (-Bright)..Bright
        /\ 0 \in Int /\ Wild \in Int /\ n \in Nat
    BY <1>1
  <2>2. Toward(l.valence, 0, n) \in (-Bright)..Bright
    BY <1>2, <2>1, TowardStays
  <2>3. Toward(l.arousal, Calm, n) \in 0..Wild
    BY <1>1, <1>2, <2>1, TowardStays
  <2> QED BY <2>2, <2>3
<1>4. /\ Toward(l.valence, 0, Older(n)) = Toward(Toward(l.valence, 0, n), 0, 1)
      /\ Toward(l.arousal, Calm, Older(n))
             = Toward(Toward(l.arousal, Calm, n), Calm, 1)
  BY <1>1, <1>2, TowardOlder
<1>5. Toward(l.valence, 0, 0) = l.valence /\ Toward(l.arousal, Calm, 0) = l.arousal
  BY <1>1, <1>2, TowardNow
<1> QED BY <1>2, <1>3, <1>4, <1>5 DEF Faded, Level

LEMMA PushedType ==
  ASSUME NEW l \in Level, NEW p \in [valence : Int, arousal : Int]
  PROVE  Pushed(l, p) \in Level
<1>1. Bright \in Nat /\ Wild \in Nat
  BY FeelingAssumption
<1>2. l.valence + p.valence \in Int /\ l.arousal + p.arousal \in Int
  BY <1>1 DEF Level
<1>3. /\ Clamp(l.valence + p.valence, -Bright, Bright) \in (-Bright)..Bright
      /\ Clamp(l.arousal + p.arousal, 0, Wild) \in 0..Wild
  <2>1. -Bright \in Int /\ Bright \in Int /\ -Bright <= Bright /\ 0 \in Int /\ Wild \in Int /\ 0 <= Wild
    BY <1>1
  <2>2. Clamp(l.valence + p.valence, -Bright, Bright) \in (-Bright)..Bright
    BY <1>2, <2>1, ClampType
  <2>3. Clamp(l.arousal + p.arousal, 0, Wild) \in 0..Wild
    BY <1>1, <1>2, <2>1, ClampType
  <2> QED BY <2>2, <2>3
<1> QED BY <1>3 DEF Pushed, Level

----------------------------------------------------------------------------
(* Feeling: what an appraisal can be.                                      *)

LEMMA UrgencyType ==
  ASSUME NEW d \in Drives, NEW v \in 0..Scale
  PROVE  Urgency(d, v) \in 0..100 * Scale
<1>1. Scale \in Nat /\ Threshold[d] \in 0..Scale
  BY FeelingAssumption DEF ValidConfig
<1> DEFINE x == 100 * (v - Threshold[d])
           y == Scale - Threshold[d]
<1>2. CASE v < Threshold[d] \/ Threshold[d] >= Scale
  BY <1>1, <1>2 DEF Urgency
<1>3. CASE ~ (v < Threshold[d] \/ Threshold[d] >= Scale)
  <2>1. x \in 0..100 * Scale /\ y \in Nat /\ y >= 1
    BY <1>1, <1>3
  <2>2. x \div y \in 0..x
    <3> DEFINE q == x \div y
    <3> HIDE DEF x, y
    <3>1. q \in Int /\ x = y * q + (x % y) /\ (x % y) \in 0..(y - 1)
      BY <2>1
    <3>2. q >= 0
      BY <2>1, <3>1
    <3>3. y * q >= q
      <4> HIDE DEF q
      <4> QED BY <2>1, <3>1, <3>2
    <3>4. q <= x
      <4> HIDE DEF q
      <4> QED BY <2>1, <3>1, <3>3
    <3> QED BY <2>1, <3>1, <3>2, <3>4
  <2>3. Urgency(d, v) = x \div y
    BY <1>3 DEF Urgency
  <2> HIDE DEF x, y
  <2> QED BY <1>1, <2>1, <2>2, <2>3
<1> QED BY <1>1, <1>2, <1>3

\* An appraisal as far as numbers go.
Numeric(a) ==
    /\ a.congruence \in Int /\ a.novelty \in Int
    /\ a.agency \in Int /\ a.certainty \in Int

LEMMA MaxUnmetType ==
  ASSUME \A d \in Drives : value[d] \in 0..Scale
  PROVE  MaxUnmet \in Int
<1> DEFINE U == {Urgency(d, value[d]) : d \in Unmet} \cup {0}
           b == 100 * Scale
<1>1. b \in Nat /\ U \subseteq 0..b /\ U # {}
  <2>1. Unmet \subseteq Drives /\ Scale \in Nat
    BY FeelingAssumption DEF Unmet, Urges
  <2>2. \A d \in Unmet : Urgency(d, value[d]) \in 0..b
    BY <2>1, UrgencyType
  <2> QED BY <2>1, <2>2
<1>2. \E m \in U : \A w \in U : w <= m
  <2> HIDE DEF U, b
  <2> QED BY <1>1, Greatest
<1>3. MaxUnmet \in U
  <2>1. MaxUnmet = CHOOSE x \in U : \A w \in U : w <= x
    BY DEF MaxUnmet
  <2> HIDE DEF U
  <2> QED BY <1>2, <2>1
<1> HIDE DEF U
<1> QED BY <1>1, <1>3

LEMMA AppraisalType ==
  ASSUME \A d \in Drives : value[d] \in 0..Scale, input \in BOOLEAN
  PROVE  Numeric(Appraisal)
<1>1. MaxUnmet \in Int
  BY MaxUnmetType
<1>2. Urgency(Coherence, value[Coherence]) \in Int
  <2>1. Coherence \in Drives /\ value[Coherence] \in 0..Scale /\ Scale \in Nat
    BY FeelingAssumption
  <2> QED BY <2>1, UrgencyType
<1> DEFINE unease == Urgency(Coherence, value[Coherence]) \div 2
           quarter == MaxUnmet \div 4
<1>3. unease \in Int /\ quarter \in Int
  BY <1>1, <1>2
<1>4. \A c, x : x \in Int => If(c, x) \in Int
  BY DEF If
<1>5. \A x \in Int : Clamp(x, -100, 100) \in Int /\ MinOf(x, 20) \in Int
  BY DEF Clamp, MinOf, MaxOf
<1> HIDE DEF unease, quarter
<1>6. Appraisal.congruence \in Int
  BY <1>3, <1>4, <1>5 DEF Appraisal, quarter
<1>7. Appraisal.certainty \in Int
  BY <1>3, <1>4, <1>5 DEF Appraisal, unease
<1>8. Appraisal.novelty \in Int /\ Appraisal.agency \in Int
  BY DEF Appraisal
<1> QED BY <1>6, <1>7, <1>8 DEF Numeric

LEMMA PushType ==
  ASSUME NEW a, Numeric(a)
  PROVE  Push(a) \in [valence : Int, arousal : Int]
<1>1. Step \in Nat \ {0}
  BY FeelingAssumption
<1> DEFINE g == a.congruence
           s == IF g >= 0 THEN g ELSE -g
           x == (55 * a.novelty + 35 * (100 - a.certainty) + 30 * s) \div 100 - 45
<1>2. g \in Int /\ s \in Int /\ x \in Int
  BY DEF Numeric
<1>3. /\ Clamp(g, -100, 100) \in Int
      /\ Clamp(x, -100, 100) \in Int
  <2> HIDE DEF g, s, x
  <2> QED BY <1>2 DEF Clamp, MinOf, MaxOf
<1>4. /\ Clamp(g, -100, 100) \div Step \in Int
      /\ Clamp(x, -100, 100) \div Step \in Int
  <2> HIDE DEF g, s, x
  <2> QED BY <1>1, <1>3
<1>5. Push(a) = [valence |-> Clamp(g, -100, 100) \div Step,
                      arousal |-> Clamp(x, -100, 100) \div Step]
  BY DEF Push
<1> HIDE DEF g, s, x
<1> QED BY <1>4, <1>5

----------------------------------------------------------------------------
(* Feeling: the invariant.                                                 *)

FullMood == [present : {TRUE}, level : Level, tags : SUBSET Emotions,
             age : 0..MaxAge, recorded : BOOLEAN, named : SUBSET Emotions]

DrivesInv ==
    /\ \A d \in Drives : value[d] \in 0..Scale /\ age[d] \in 0..MaxAge
    /\ true \in [Drives -> 0..Scale]
    /\ TimeCountsOnce

StageInv ==
    /\ at \in {"idle", "drives", "affect", "steer"}
    /\ queue \in Seq(Outcomes) /\ events \in Seq(Kinds) /\ input \in BOOLEAN

\* Whoever loads the mood, a tick or a reader, finds it so; and a mood with an id
\* has the tags of the row the id names.
Sound(m) ==
    \/ m = None
    \/ m \in FullMood /\ (m.recorded => m.tags = m.named)

MoodInv ==
    /\ row \in MoodRow \cup {None}
    /\ Sound(mood) /\ Sound(reader)
    /\ felt \in Level
    /\ MoodFadesOnce

FeelInv == DrivesInv /\ StageInv /\ MoodInv

LEMMA Presence ==
  ASSUME NEW m, Sound(m)
  PROVE  /\ m.present <=> m # None
         /\ m.present <=> m \in FullMood
         /\ m.present => m.recorded \in BOOLEAN /\ (m.recorded => m.tags = m.named)
<1>1. CASE m = None
  <2>1. m.present = FALSE
    BY <1>1 DEF None
  <2>2. m \notin FullMood
    BY <2>1 DEF FullMood
  <2> QED BY <1>1, <2>1, <2>2
<1>2. CASE m \in FullMood /\ (m.recorded => m.tags = m.named)
  <2>1. m.present = TRUE /\ m.recorded \in BOOLEAN
    BY <1>2 DEF FullMood
  <2>2. None.present = FALSE
    BY DEF None
  <2>3. m # None
    BY <2>1, <2>2
  <2> QED BY <1>2, <2>1, <2>3
<1> QED BY <1>1, <1>2 DEF Sound

LEMMA LoadedSound ==
  ASSUME row \in MoodRow \cup {None}
  PROVE  LoadedMood \in FullMood /\ LoadedMood.tags = LoadedMood.named
<1>1. CASE row = None
  <2>1. row.present = FALSE
    BY <1>1 DEF None
  <2>2. Resting \in Level /\ 0 \in 0..MaxAge
    BY FeelingAssumption DEF Resting, Level
  <2>3. LoadedMood = [present |-> TRUE, level |-> Resting, tags |-> {}, age |-> 0,
                       recorded |-> FALSE, named |-> {}]
    BY <2>1 DEF LoadedMood
  <2> QED BY <2>2, <2>3 DEF FullMood
<1>2. CASE row \in MoodRow
  <2>1. /\ row.present = TRUE /\ row.level \in Level
        /\ row.tags \in SUBSET Emotions /\ row.age \in 0..MaxAge
    BY <1>2 DEF MoodRow
  <2>2. LoadedMood = [present |-> TRUE, level |-> row.level, tags |-> row.tags,
                       age |-> row.age, recorded |-> TRUE, named |-> row.tags]
    BY <2>1 DEF LoadedMood
  <2> QED BY <2>1, <2>2 DEF FullMood
<1> QED BY <1>1, <1>2

LEMMA CurrentSound ==
  ASSUME MoodInv
  PROVE  /\ Current \in FullMood
         /\ Current.recorded => Current.tags = Current.named
<1>1. /\ LoadedMood \in FullMood /\ LoadedMood.tags = LoadedMood.named
  BY LoadedSound DEF MoodInv
<1>2. mood.present <=> mood \in FullMood
  BY Presence DEF MoodInv
<1>3. mood.present => (mood.recorded => mood.tags = mood.named)
  BY Presence DEF MoodInv
<1>4. CASE mood.present
  BY <1>2, <1>3, <1>4 DEF Current
<1>5. CASE ~ mood.present
  BY <1>1, <1>5 DEF Current
<1> QED BY <1>4, <1>5

LEMMA FinishedStage ==
  ASSUME Finished, queue' \in Seq(Outcomes)
  PROVE  StageInv'
<1>1. events' \in Seq(Kinds)
  <2>1. events' = <<>>
    BY DEF Finished
  <2> QED BY <2>1
<1>2. input' \in BOOLEAN /\ at' \in {"idle", "drives", "affect", "steer"}
  BY DEF Finished
<1> QED BY <1>1, <1>2 DEF StageInv

LEMMA InitFeelInv ==
  ASSUME FeelingInit
  PROVE  FeelInv
<1> USE DEF FeelingInit
<1>1. DrivesInv
  <2>1. Setpoint \in [Drives -> 0..Scale] /\ Equilibrium \in [Drives -> 0..Scale]
        /\ Scale \in Nat /\ MaxAge \in Nat
    BY FeelingAssumption DEF ValidConfig
  <2>2. \A d \in Drives : Toward(Setpoint[d], Equilibrium[d], 0) = Setpoint[d]
    BY <2>1, TowardNow
  <2> QED BY <2>1, <2>2 DEF DrivesInv, TimeCountsOnce
<1>2. StageInv
  <2>1. queue \in Seq(Outcomes) /\ events \in Seq(Kinds)
    <3>1. queue = <<>> /\ events = <<>>
      OBVIOUS
    <3> HIDE DEF FeelingInit
    <3> QED BY <3>1
  <2>2. input \in BOOLEAN
    OBVIOUS
  <2> QED BY <2>1, <2>2 DEF StageInv
<1>3. MoodInv
  <2>1. Resting \in Level
    BY FeelingAssumption DEF Resting, Level
  <2>2. ~ mood.present
    BY Presence DEF Sound
  <2> QED BY <2>1, <2>2 DEF MoodInv, Sound, MoodFadesOnce
<1> QED BY <1>1, <1>2, <1>3 DEF FeelInv

\* The time that a row's clock does not show yet is the only thing a step adds.
LEMMA StepDrivesKeeps ==
  ASSUME FeelInv, StepDrives
  PROVE  FeelInv'
<1>1. /\ Equilibrium \in [Drives -> 0..Scale] /\ Scale \in Nat /\ MaxAge \in Nat
  BY FeelingAssumption DEF ValidConfig
<1>2. ASSUME NEW d \in Drives
      PROVE  /\ Stepped(d) \in 0..Scale
             /\ Stepped(d) = Clamp(true[d] + Delta(d, events), 0, Scale)
  <2>1. Delta(d, events) \in Int
    BY DeltaType DEF FeelInv, StageInv
  <2>2. Toward(value[d], Equilibrium[d], age[d]) = true[d] /\ true[d] \in 0..Scale
    BY DEF FeelInv, DrivesInv, TimeCountsOnce
  <2>3. true[d] + Delta(d, events) \in Int /\ 0 \in Int /\ Scale \in Int /\ 0 <= Scale
    BY <1>1, <2>1, <2>2
  <2> QED BY <2>2, <2>3, ClampType DEF Stepped
<1>3. DrivesInv'
  <2>1. /\ value' = [d \in Drives |-> Stepped(d)]
        /\ true' = [d \in Drives |-> Clamp(true[d] + Delta(d, events), 0, Scale)]
        /\ age' = [d \in Drives |-> 0]
    BY DEF StepDrives
  <2>2. ASSUME NEW d \in Drives
        PROVE  /\ value'[d] \in 0..Scale /\ age'[d] = 0 /\ true'[d] = value'[d]
    BY <1>2, <2>1
  <2>3. \A d \in Drives : Toward(value'[d], Equilibrium[d], age'[d]) = true'[d]
    BY <1>1, <2>2, TowardNow
  <2>4. true' \in [Drives -> 0..Scale]
    BY <1>2, <2>1
  <2> QED BY <1>1, <2>2, <2>3, <2>4 DEF DrivesInv, TimeCountsOnce
<1>4. StageInv'
  BY DEF FeelInv, StageInv, StepDrives
<1>5. MoodInv'
  BY DEF FeelInv, MoodInv, StepDrives, MoodFadesOnce, Sound
<1> QED BY <1>3, <1>4, <1>5 DEF FeelInv

\* Whatever is felt, the mood is reckoned from its own clock, and loses a tag or
\* gets one only with a row.
LEMMA FeelKeeps ==
  ASSUME FeelInv, NEW a, Numeric(a), Feel(a), UNCHANGED reader
  PROVE  MoodInv'
<1> DEFINE old == Current
           l == Pushed(Faded(old.level, old.age), Push(a))
<1>1. old \in FullMood /\ (old.recorded => old.tags = old.named)
  BY CurrentSound DEF FeelInv
<1>2. old.level \in Level /\ old.age \in 0..MaxAge /\ old.recorded \in BOOLEAN
      /\ old.tags \in SUBSET Emotions
  <2> HIDE DEF old
  <2> QED BY <1>1 DEF FullMood
<1>3. Faded(old.level, old.age) \in Level
  <2> HIDE DEF old
  <2> QED BY <1>2, FadedOlder
<1>4. l \in Level /\ Faded(l, 0) = l
  <2>1. l \in Level
    <3> HIDE DEF old
    <3> QED BY <1>3, PushType, PushedType
  <2>2. 0 \in 0..MaxAge
    BY FeelingAssumption
  <2> HIDE DEF l
  <2> QED BY <2>1, <2>2, FadedOlder
<1>5. PICK stay \in SUBSET (old.tags \ Strong(a)) :
        LET tags == Strong(a) \cup stay IN
        /\ IF ShouldPersist(old, l, tags)
           THEN /\ row' = [present |-> TRUE, level |-> l, tags |-> tags, age |-> 0]
                /\ mood' = [present |-> TRUE, level |-> l, tags |-> tags, age |-> 0,
                            recorded |-> TRUE, named |-> tags]
           ELSE /\ row' = row
                /\ mood' = KeptMood(old, l, tags)
        /\ felt' = Pushed(IF mood.present THEN felt ELSE Faded(old.level, old.age),
                               Push(a))
  BY DEF Feel
<1> DEFINE tags == Strong(a) \cup stay
<1>6. tags \in SUBSET Emotions /\ 0 \in 0..MaxAge
  <2> HIDE DEF old
  <2> QED BY <1>2, <1>5, FeelingAssumption DEF Strong
<1>7. felt' = l
  <2>1. CASE mood.present
    <3>1. old = mood
      BY <2>1 DEF Current
    <3>2. Faded(mood.level, mood.age) = felt
      BY <2>1 DEF FeelInv, MoodInv, MoodFadesOnce
    <3> QED BY <1>5, <2>1, <3>1, <3>2
  <2>2. CASE ~ mood.present
    BY <1>5, <2>2
  <2> QED BY <2>1, <2>2
<1>8. CASE ShouldPersist(old, l, tags)
  <2>1. /\ row' = [present |-> TRUE, level |-> l, tags |-> tags, age |-> 0]
        /\ mood' = [present |-> TRUE, level |-> l, tags |-> tags, age |-> 0,
                    recorded |-> TRUE, named |-> tags]
    BY <1>5, <1>8
  <2> HIDE DEF old, l, tags
  <2>2. row' \in MoodRow /\ mood' \in FullMood
    BY <1>4, <1>6, <2>1 DEF MoodRow, FullMood
  <2>3. mood'.level = l /\ mood'.age = 0 /\ mood'.tags = mood'.named
    BY <2>1
  <2> QED BY <1>4, <1>7, <2>2, <2>3 DEF FeelInv, MoodInv, Sound, MoodFadesOnce
<1>9. CASE ~ ShouldPersist(old, l, tags)
  <2>1. row' = row /\ mood' = KeptMood(old, l, tags)
    BY <1>5, <1>9
  <2>2. old.recorded /\ tags = old.tags
    BY <1>9 DEF ShouldPersist
  <2> HIDE DEF old, l, tags
  <2>3. mood' = [old EXCEPT !.level = l, !.tags = tags, !.age = 0]
    BY <2>1 DEF KeptMood
  <2>4. mood' \in FullMood
    BY <1>1, <1>4, <1>6, <2>3 DEF FullMood
  <2>5. mood'.level = l /\ mood'.age = 0 /\ mood'.tags = mood'.named
    BY <1>1, <2>2, <2>3 DEF FullMood
  <2> QED BY <1>4, <1>7, <2>1, <2>4, <2>5 DEF FeelInv, MoodInv, Sound, MoodFadesOnce
<1> QED BY <1>8, <1>9

\* One more moment, for every clock at once.
LEMMA TimeKeeps ==
  ASSUME FeelInv, TimePasses
  PROVE  FeelInv'
<1> USE DEF TimePasses
<1>1. DrivesInv'
  <2>1. /\ Equilibrium \in [Drives -> 0..Scale] /\ Scale \in Nat /\ MaxAge \in Nat
        /\ MaxAge >= Scale
    BY FeelingAssumption DEF ValidConfig
  <2>2. /\ age' = [d \in Drives |-> Older(age[d])] /\ value' = value
        /\ true' = [d \in Drives |-> Toward(true[d], Equilibrium[d], 1)]
    OBVIOUS
  <2>3. ASSUME NEW d \in Drives
        PROVE  /\ Toward(value[d], Equilibrium[d], Older(age[d]))
                      = Toward(true[d], Equilibrium[d], 1)
               /\ Toward(true[d], Equilibrium[d], 1) \in 0..Scale
               /\ Older(age[d]) \in 0..MaxAge
    <3>1. /\ value[d] \in 0..Scale /\ age[d] \in 0..MaxAge /\ true[d] \in 0..Scale
          /\ Toward(value[d], Equilibrium[d], age[d]) = true[d]
      BY DEF FeelInv, DrivesInv, TimeCountsOnce
    <3>2. /\ value[d] \in Int /\ Equilibrium[d] \in Int /\ Equilibrium[d] \in 0..Scale
          /\ value[d] - Equilibrium[d] <= MaxAge /\ Equilibrium[d] - value[d] <= MaxAge
      BY <2>1, <3>1
    <3>3. Toward(value[d], Equilibrium[d], Older(age[d]))
              = Toward(Toward(value[d], Equilibrium[d], age[d]), Equilibrium[d], 1)
      BY <3>1, <3>2, TowardOlder
    <3>4. Toward(true[d], Equilibrium[d], 1) \in 0..Scale
      <4>1. 0 \in Int /\ Scale \in Int /\ 1 \in Nat
        BY <2>1
      <4> QED BY <3>1, <3>2, <4>1, TowardStays
    <3> QED BY <3>1, <3>3, <3>4, OlderType
  <2> QED BY <2>2, <2>3 DEF FeelInv, DrivesInv, TimeCountsOnce
<1>2. StageInv'
  BY DEF FeelInv, StageInv
<1>3. row' \in MoodRow \cup {None}
  <2>1. CASE row = None
    <3>1. ~ row.present
      BY <2>1 DEF None
    <3> QED BY <2>1, <3>1
  <2>2. CASE row \in MoodRow
    <3>1. row.age \in 0..MaxAge
      BY <2>2 DEF MoodRow
    <3>2. Older(row.age) \in 0..MaxAge
      BY <3>1, OlderType
    <3>3. [row EXCEPT !.age = Older(row.age)] \in MoodRow
      BY <2>2, <3>2 DEF MoodRow
    <3> QED BY <2>2, <3>3
  <2> QED BY <2>1, <2>2 DEF FeelInv, MoodInv
<1>4. ASSUME NEW m, Sound(m), NEW n,
             n = IF m.present THEN [m EXCEPT !.age = Older(@)] ELSE m
      PROVE  /\ Sound(n)
             /\ n.present => m.present /\ m \in FullMood /\ n.level = m.level
                               /\ n.age = Older(m.age)
  <2>1. CASE m = None
    <3>1. ~ m.present
      BY <2>1 DEF None
    <3> QED BY <1>4, <2>1, <3>1
  <2>2. CASE m \in FullMood /\ (m.recorded => m.tags = m.named)
    <3>1. m.present = TRUE /\ m.age \in 0..MaxAge
      BY <2>2 DEF FullMood
    <3>2. Older(m.age) \in 0..MaxAge
      BY <3>1, OlderType
    <3>3. n = [m EXCEPT !.age = Older(m.age)]
      BY <1>4, <3>1
    <3>4. n \in FullMood /\ n.level = m.level /\ n.age = Older(m.age)
          /\ n.recorded = m.recorded /\ n.tags = m.tags /\ n.named = m.named
      BY <2>2, <3>2, <3>3 DEF FullMood
    <3> QED BY <2>2, <3>1, <3>4 DEF Sound
  <2> QED BY <1>4, <2>1, <2>2 DEF Sound
<1>5. /\ Sound(mood') /\ Sound(reader')
      /\ mood'.present => mood.present /\ mood \in FullMood /\ mood'.level = mood.level
                            /\ mood'.age = Older(mood.age)
  <2>1. /\ mood' = IF mood.present THEN [mood EXCEPT !.age = Older(@)] ELSE mood
        /\ reader' = IF reader.present THEN [reader EXCEPT !.age = Older(@)] ELSE reader
        /\ Sound(mood) /\ Sound(reader)
    BY DEF FeelInv, MoodInv
  <2> HIDE DEF TimePasses
  <2>2. Sound(reader')
    BY <1>4, <2>1
  <2>3. /\ Sound(mood')
        /\ mood'.present => mood.present /\ mood \in FullMood /\ mood'.level = mood.level
                              /\ mood'.age = Older(mood.age)
    BY <1>4, <2>1
  <2> QED BY <2>2, <2>3
<1>6. felt' \in Level
  <2>1. felt \in Level /\ 1 \in Nat
    BY DEF FeelInv, MoodInv
  <2>2. /\ Bright \in Nat /\ Calm \in 0..Wild /\ Wild \in Nat
    BY FeelingAssumption
  <2>3. felt.valence \in (-Bright)..Bright /\ felt.arousal \in 0..Wild
    BY <2>1 DEF Level
  <2>4. -Bright \in Int /\ Bright \in Int /\ 0 \in (-Bright)..Bright /\ 0 \in Int /\ Wild \in Int
    BY <2>2
  <2>5. Toward(felt.valence, 0, 1) \in (-Bright)..Bright
    BY <2>1, <2>3, <2>4, TowardStays
  <2>6. Toward(felt.arousal, Calm, 1) \in 0..Wild
    BY <2>1, <2>2, <2>3, <2>4, TowardStays
  <2> QED BY <2>5, <2>6 DEF Faded, Level
<1>7. MoodFadesOnce'
  <2>1. SUFFICES ASSUME mood'.present PROVE Faded(mood'.level, mood'.age) = felt'
    BY DEF MoodFadesOnce
  <2>2. mood.level \in Level /\ mood.age \in 0..MaxAge
    BY <1>5, <2>1 DEF FullMood
  <2>3. Faded(mood.level, mood.age) = felt
    BY <1>5, <2>1 DEF FeelInv, MoodInv, MoodFadesOnce
  <2>4. Faded(mood.level, Older(mood.age)) = Faded(felt, 1)
    BY <2>2, <2>3, FadedOlder
  <2> QED BY <1>5, <2>1, <2>4
<1>8. MoodInv'
  BY <1>3, <1>5, <1>6, <1>7 DEF MoodInv
<1> QED BY <1>1, <1>2, <1>8 DEF FeelInv

LEMMA NextFeelInv ==
  ASSUME FeelInv, [FeelingNext]_(feelingVars)
  PROVE  FeelInv'
<1> USE DEF FeelInv
<1>1. CASE CollectEvents
  <2>1. PICK heard \in 0..1 :
          /\ events' = queue \o [i \in 1..heard |-> "interaction"]
          /\ input' = (heard > 0)
    BY <1>1 DEF CollectEvents
  <2>2. queue \in Seq(Kinds) /\ "interaction" \in Kinds
    <3>1. Outcomes \subseteq Kinds /\ "interaction" \in Kinds
      BY FeelingAssumption
    <3>2. queue \in [1..Len(queue) -> Outcomes] /\ Len(queue) \in Nat
      BY DEF StageInv
    <3>3. queue \in [1..Len(queue) -> Kinds]
      BY <3>1, <3>2
    <3> QED BY <3>1, <3>2, <3>3
  <2>3. [i \in 1..heard |-> "interaction"] \in Seq(Kinds)
    BY <2>2
  <2>4. events' \in Seq(Kinds)
    BY <2>1, <2>2, <2>3
  <2>5. input' \in BOOLEAN
    BY <2>1
  <2>6. StageInv'
    BY <1>1, <2>4, <2>5 DEF StageInv, CollectEvents
  <2> QED BY <1>1, <2>6 DEF CollectEvents, drives, DrivesInv, MoodInv, Sound,
          TimeCountsOnce, MoodFadesOnce
<1>2. CASE StepDrives
  BY <1>2, StepDrivesKeeps
<1>3. CASE Affect
  <2>1. PICK a \in {Appraisal} \cup Opinions : Feel(a)
    BY <1>3 DEF Affect
  <2>2. Numeric(a)
    <3>1. CASE a = Appraisal
      <4>1. \A d \in Drives : value[d] \in 0..Scale
        BY DEF DrivesInv
      <4>2. input \in BOOLEAN
        BY DEF StageInv
      <4> QED BY <3>1, <4>1, <4>2, AppraisalType
    <3>2. CASE a \in Opinions
      BY <3>2, FeelingAssumption DEF Appraisals, Numeric
    <3> QED BY <2>1, <3>1, <3>2
  <2>3. UNCHANGED <<value, age, true, queue, events, input, reader>> /\ at' = "steer"
    BY <1>3 DEF Affect, drives
  <2>4. MoodInv'
    BY <2>1, <2>2, <2>3, FeelKeeps
  <2> QED BY <2>3, <2>4 DEF DrivesInv, StageInv, TimeCountsOnce
<1>4. CASE AffectFails
  <2>1. /\ Current \in FullMood
        /\ Current.recorded => Current.tags = Current.named
    BY CurrentSound
  <2>2. /\ mood' = Current
        /\ felt' = IF mood.present THEN felt ELSE Faded(Current.level, Current.age)
    BY <1>4 DEF AffectFails
  <2>3. felt' = Faded(mood'.level, mood'.age) /\ felt' \in Level
    <3>1. CASE mood.present
      BY <2>2, <3>1 DEF MoodInv, MoodFadesOnce, Current
    <3>2. CASE ~ mood.present
      <4>1. Current.level \in Level /\ Current.age \in 0..MaxAge
        BY <2>1 DEF FullMood
      <4>2. Faded(Current.level, Current.age) \in Level
        BY <4>1, FadedOlder
      <4> QED BY <2>2, <3>2, <4>2
    <3> QED BY <3>1, <3>2
  <2>4. UNCHANGED <<value, age, true, queue, row, reader>> /\ Finished
    BY <1>4 DEF AffectFails, drives
  <2>5. MoodInv'
    BY <2>1, <2>2, <2>3, <2>4 DEF MoodInv, Sound, MoodFadesOnce
  <2>6. StageInv'
    BY <2>4, FinishedStage DEF StageInv
  <2> QED BY <2>4, <2>5, <2>6 DEF DrivesInv, TimeCountsOnce
<1>5. CASE Steer \/ StageFails
  <2>1. UNCHANGED <<value, age, true, queue, row, mood, felt, reader>> /\ Finished
    BY <1>5 DEF Steer, StageFails, drives
  <2>2. StageInv'
    BY <2>1, FinishedStage DEF StageInv
  <2> QED BY <2>1, <2>2 DEF DrivesInv, MoodInv, Sound, TimeCountsOnce, MoodFadesOnce
<1>6. ASSUME NEW e \in Outcomes, Outcome(e) PROVE FeelInv'
  <2>1. UNCHANGED <<value, age, true, at, events, input, row, mood, felt, reader>>
        /\ queue' = Append(queue, e)
    BY <1>6 DEF Outcome, drives
  <2>2. StageInv'
    BY <2>1 DEF StageInv
  <2> QED BY <2>1, <2>2 DEF DrivesInv, MoodInv, Sound, TimeCountsOnce, MoodFadesOnce
<1>7. CASE ReaderLoads
  <2>1. UNCHANGED <<value, age, true, queue, at, events, input, row, mood, felt>>
        /\ reader' = LoadedMood
    BY <1>7 DEF ReaderLoads, drives
  <2>2. Sound(reader')
    BY <2>1, LoadedSound DEF MoodInv, Sound
  <2> QED BY <2>1, <2>2 DEF DrivesInv, StageInv, MoodInv, Sound, TimeCountsOnce,
          MoodFadesOnce
<1>8. CASE ReaderAssigns
  <2>1. /\ reader.present /\ mood' = reader /\ reader' = None
        /\ felt' = Faded(reader.level, reader.age)
        /\ UNCHANGED <<value, age, true, queue, at, events, input, row>>
    BY <1>8 DEF ReaderAssigns, drives
  <2>2. reader.level \in Level /\ reader.age \in 0..MaxAge
    <3>1. reader \in FullMood
      BY <2>1, Presence DEF MoodInv
    <3> QED BY <3>1 DEF FullMood
  <2>3. felt' \in Level
    BY <2>1, <2>2, FadedOlder
  <2> QED BY <2>1, <2>3 DEF DrivesInv, StageInv, MoodInv, Sound, TimeCountsOnce,
          MoodFadesOnce
<1>9. CASE TimePasses
  BY <1>9, TimeKeeps
<1>10. CASE Restart
  <2>1. /\ value' = [d \in Drives |-> value[d]] /\ age' = [d \in Drives |-> age[d]]
        /\ mood' = None /\ felt' = Resting /\ reader' = None
        /\ queue' = <<>> /\ Finished /\ UNCHANGED <<true, row>>
    BY <1>10 DEF Restart, Bootstrapped
  <2>2. DrivesInv'
    BY <2>1 DEF DrivesInv, TimeCountsOnce
  <2>3. StageInv'
    <3>1. queue' \in Seq(Outcomes)
      <4>1. queue' = <<>>
        BY <2>1
      <4> QED BY <4>1
    <3> QED BY <2>1, <3>1, FinishedStage
  <2>4. Resting \in Level
    BY FeelingAssumption DEF Resting, Level
  <2>5. ~ mood'.present
    BY <2>1 DEF None
  <2>6. MoodInv'
    BY <2>1, <2>4, <2>5 DEF MoodInv, Sound, MoodFadesOnce
  <2> QED BY <2>2, <2>3, <2>6
<1>11. CASE UNCHANGED feelingVars
  BY <1>11 DEF feelingVars, drives, DrivesInv, StageInv, MoodInv, Sound,
     TimeCountsOnce, MoodFadesOnce
<1> QED BY <1>1, <1>2, <1>3, <1>4, <1>5, <1>6, <1>7, <1>8, <1>9, <1>10, <1>11 DEF FeelingNext

LEMMA FeelInvGives ==
  ASSUME FeelInv
  PROVE  EveryMomentCountsOnce /\ TagsAreOnRecord
<1>1. mood.present => mood \in FullMood /\ (mood.recorded => mood.tags = mood.named)
  BY Presence DEF FeelInv, MoodInv
<1>2. mood.present => mood.level \in Level /\ mood.age \in 0..MaxAge
  BY <1>1 DEF FullMood
<1>3. \A d \in Drives : [value |-> value[d], age |-> age[d]] \in DriveRow
  BY DEF FeelInv, DrivesInv, DriveRow
<1>4. FeelingTypeOK
  BY <1>2, <1>3 DEF FeelInv, DrivesInv, StageInv, MoodInv, FeelingTypeOK
<1> QED BY <1>1, <1>4 DEF FeelInv, DrivesInv, MoodInv, EveryMomentCountsOnce,
        TagsAreOnRecord

(* Whatever the setpoints, the reactions and the time that passes between  *)
(* two steps: no moment is lost and none counts twice, neither of the      *)
(* decay of a drive (DriveEngine's elapsed time and stamp) nor of that of  *)
(* the mood (Affect's, across a stage that fails and a restart).           *)
THEOREM MomentsCountOnce ==
  FeelingSpec => []EveryMomentCountsOnce
<1>1. FeelingInit => FeelInv
  BY InitFeelInv
<1>2. FeelInv /\ [FeelingNext]_(feelingVars) => FeelInv'
  BY NextFeelInv
<1>3. FeelInv => EveryMomentCountsOnce
  BY FeelInvGives
<1> QED BY <1>1, <1>2, <1>3, PTL DEF FeelingSpec

(* Whatever is felt and whichever writes fail: the emotions in mind are    *)
(* those that the row of mood says a thought is stamped with, since a mood *)
(* whose emotions changed is written before they are shown                 *)
(* (should_persist).                                                       *)
THEOREM TagsStayOnRecord ==
  FeelingSpec => []TagsAreOnRecord
<1>1. FeelingInit => FeelInv
  BY InitFeelInv
<1>2. FeelInv /\ [FeelingNext]_(feelingVars) => FeelInv'
  BY NextFeelInv
<1>3. FeelInv => TagsAreOnRecord
  BY FeelInvGives
<1> QED BY <1>1, <1>2, <1>3, PTL DEF FeelingSpec

----------------------------------------------------------------------------
(* Snapshot.                                                               *)

WM == "working_memory"

\* Tables: functions from ids to moments.
LEMMA TableIs ==
  ASSUME NEW T
  PROVE  T \in Table <=>
             /\ DOMAIN T \subseteq 1..MaxRow
             /\ T \in [DOMAIN T -> 0..MaxRow]
<1>1. T \in Table <=> \E ids \in SUBSET (1..MaxRow) : T \in [ids -> 0..MaxRow]
  BY DEF Table
<1> QED BY <1>1

LEMMA OverIs ==
  ASSUME NEW f, NEW g
  PROVE  /\ DOMAIN Over(f, g) = DOMAIN f \cup DOMAIN g
         /\ \A x \in DOMAIN f : Over(f, g)[x] = f[x]
         /\ \A x \in DOMAIN g \ DOMAIN f : Over(f, g)[x] = g[x]
BY DEF Over

LEMMA OverTable ==
  ASSUME NEW S \in Table, NEW T \in Table
  PROVE  Over(S, T) \in Table
<1>1. /\ DOMAIN S \subseteq 1..MaxRow /\ \A x \in DOMAIN S : S[x] \in 0..MaxRow
      /\ DOMAIN T \subseteq 1..MaxRow /\ \A x \in DOMAIN T : T[x] \in 0..MaxRow
  BY TableIs
<1>2. Over(S, T) \in [DOMAIN S \cup DOMAIN T -> 0..MaxRow]
  BY <1>1 DEF Over
<1>3. DOMAIN Over(S, T) = DOMAIN S \cup DOMAIN T
  BY OverIs
<1> QED BY <1>1, <1>2, <1>3, TableIs

LEMMA OnlyIs ==
  ASSUME NEW i, NEW m
  PROVE  DOMAIN Only(i, m) = {i} /\ Only(i, m)[i] = m
BY DEF Only

LEMMA OnlyTable ==
  ASSUME NEW i \in 1..MaxRow, NEW m \in 0..MaxRow
  PROVE  Only(i, m) \in Table
<1>1. Only(i, m) \in [{i} -> 0..MaxRow]
  BY DEF Only
<1> QED BY <1>1, TableIs

LEMMA NothingTable == Nothing \in Table /\ DOMAIN Nothing = {}
<1>1. Nothing \in [{} -> 0..MaxRow]
  BY DEF Nothing
<1> QED BY <1>1, TableIs

\* Nothing is neutral.
LEMMA OverNothing ==
  ASSUME NEW T \in Table
  PROVE  Over(T, Nothing) = T /\ Over(Nothing, T) = T
<1>1. T = [x \in DOMAIN T |-> T[x]]
  BY TableIs
<1> QED BY <1>1 DEF Over, Nothing

LEMMA RestrictTable ==
  ASSUME NEW T \in Table, NEW S \in SUBSET DOMAIN T
  PROVE  /\ Restrict(T, S) \in Table
         /\ DOMAIN Restrict(T, S) = S
<1>1. DOMAIN T \subseteq 1..MaxRow /\ \A x \in DOMAIN T : T[x] \in 0..MaxRow
  BY TableIs
<1>2. Restrict(T, S) \in [S -> 0..MaxRow]
  BY <1>1 DEF Restrict
<1> QED BY <1>1, <1>2, TableIs

\* A table read back from its file is the table that was written.
LEMMA BuiltLines ==
  ASSUME NEW T \in Table
  PROVE  Built(Lines(T)) = T
<1> DEFINE lines == {[id |-> i, made |-> T[i]] : i \in DOMAIN T}
<1>1. {l.id : l \in lines} = DOMAIN T
  <2>1. \A i \in DOMAIN T : [id |-> i, made |-> T[i]].id = i
    OBVIOUS
  <2> QED BY <2>1
<1>2. ASSUME NEW i \in DOMAIN T
      PROVE  (CHOOSE l \in lines : l.id = i).made = T[i]
  <2>1. [id |-> i, made |-> T[i]] \in lines
    OBVIOUS
  <2>2. \A l \in lines : l.id = i => l = [id |-> i, made |-> T[i]]
    OBVIOUS
  <2>3. (CHOOSE l \in lines : l.id = i) = [id |-> i, made |-> T[i]]
    <3> HIDE DEF lines
    <3> QED BY <2>1, <2>2
  <2> QED BY <2>3
<1>3. T = [i \in DOMAIN T |-> T[i]]
  BY TableIs
<1>4. Built(lines) = [i \in {l.id : l \in lines} |-> (CHOOSE l \in lines : l.id = i).made]
  BY DEF Built
<1>5. Lines(T) = lines
  BY DEF Lines
<1> HIDE DEF lines
<1> QED BY <1>1, <1>2, <1>3, <1>4, <1>5

\* A sequence resynchronised is ahead of every id.
LEMMA ResyncedType ==
  ASSUME NEW ids \in SUBSET (1..MaxRow)
  PROVE  /\ Resynced(ids) \in 1..(MaxRow + 1)
         /\ \A i \in ids : i < Resynced(ids)
<1>1. MaxRow \in Nat
  BY SnapshotAssumption
<1>2. CASE ids = {}
  BY <1>1, <1>2 DEF Resynced
<1>3. CASE ids # {}
  <2>1. PICK m \in ids : \A n \in ids : n <= m
    <3>1. ids \subseteq 0..MaxRow
      OBVIOUS
    <3> QED BY <1>1, <1>3, <3>1, Greatest
  <2>2. \A n \in ids : m >= n
    BY <1>1, <2>1
  <2>3. Max(ids) \in ids /\ \A n \in ids : Max(ids) >= n
    BY <2>2 DEF Max
  <2>4. Resynced(ids) = Max(ids) + 1
    BY <1>3 DEF Resynced
  <2> HIDE DEF Max
  <2>5. Max(ids) \in 1..MaxRow /\ \A n \in ids : n \in 1..MaxRow
    BY <2>3
  <2> QED BY <1>1, <2>3, <2>4, <2>5
<1> QED BY <1>2, <1>3
\* What the files of a directory and the stores they are made from may hold.
Content == (SUBSET [id : 1..MaxRow, made : 0..MaxRow]) \cup (SUBSET (0..MaxRow))
Directory == [version : 0..2, files : UNION {[F -> Content] : F \in SUBSET Files}]
Store == Table \cup (SUBSET (0..MaxRow))

MindInv ==
    /\ rows \in Contents /\ next \in [Serial -> 1..(MaxRow + 1)]
    /\ thoughts \in SUBSET [mood : 0..MaxRow, made : 0..MaxRow]
    /\ working \subseteq 0..MaxRow /\ moment \in 0..MaxRow

\* Every file says what its store held, and every version has its files.
Filed(d) ==
    /\ \A t \in Tables : saw[d][t] \in Table
    /\ saw[d][WM] \in SUBSET (0..MaxRow)
    /\ Whole(d)
    /\ dirs[d].version = 1 => DOMAIN dirs[d].files = MemoryTables \cup {WM}
    /\ dirs[d].version = 2 => DOMAIN dirs[d].files = Files

DirsInv ==
    /\ dirs \in Seq(Directory) /\ saw \in Seq([Files -> Store])
    /\ Len(dirs) \in 1..(MaxBackups + 1) /\ Len(saw) = Len(dirs)
    /\ \A d \in 1..Len(dirs) : Filed(d)
    /\ eased \subseteq {d \in 1..Len(dirs) : dirs[d].version = 2}

\* A backup under way: what it read is what was there when it began.
BackupInv ==
    /\ task \in {"idle", "files", "manifest", "backed up", "rows", "sequences",
                 "clear", "items", "restored"}
    /\ task \in {"files", "manifest"} => dirs[Len(dirs)].version = 0
    /\ task = "files" =>
           /\ todo \subseteq Files /\ WM \in todo
           /\ DOMAIN dirs[Len(dirs)].files = Files \ todo
           /\ \A t \in Tables : read[t] = saw[Len(dirs)][t]
           /\ working = saw[Len(dirs)][WM]
    /\ task = "manifest" => DOMAIN dirs[Len(dirs)].files = Files
    /\ task = "backed up" => dirs[Len(dirs)].version = 2

Restoring == task \in {"rows", "sequences", "clear", "items", "restored"}

\* A restore under way, place by place.
RestoreInv ==
    Restoring =>
        /\ read.dir \in 1..Len(dirs) /\ read.version \in 1..2
        /\ read.replace \in BOOLEAN
        /\ \A t \in Restored(read.version) : read.tables[t] = saw[read.dir][t]
        /\ before \in Contents
        /\ task \in {"rows", "sequences"} => rows = before
        /\ task \notin {"rows", "sequences"} => \A t \in Tables : rows[t] = Expected(t)
        /\ task \in {"rows", "sequences", "clear"} => todo = saw[read.dir][WM]
        /\ task = "items" =>
               /\ todo \subseteq saw[read.dir][WM]
               /\ saw[read.dir][WM] \subseteq working \cup todo
               /\ read.replace => working \subseteq saw[read.dir][WM]
        /\ task = "clear" => read.replace
        /\ task = "restored" =>
               /\ saw[read.dir][WM] \subseteq working
               /\ read.replace => working = saw[read.dir][WM]

\* No restore that would meet a key of its own goes past the rows.
ClashInv == task = "sequences" => ~Clash

\* A sequence is behind its table only where the property excepts it; that of
\* mood stays behind only if mood is being replaced.
Ahead(t) == \A i \in DOMAIN rows[t] : i < next[t]

IdsInv ==
    /\ \A t \in Serial \ {Mood} : Ahead(t)
    /\ ~shaken /\ ~(task = "sequences" /\ Cleared(Mood)) => Ahead(Mood)

\* A thought that names a mood names one that is there.
ThoughtInv ==
    \A th \in thoughts : th.mood # 0 => th.mood \in DOMAIN rows[Mood] /\ rows[Mood][th.mood] = th.made

BackupsInv == MindInv /\ DirsInv /\ BackupInv /\ RestoreInv /\ ClashInv /\ IdsInv /\ ThoughtInv

LEMMA SnapSets ==
  /\ MaxRow \in Nat /\ 1 \in 1..MaxRow /\ 0 \in 0..MaxRow /\ MaxBackups \in Nat
  /\ WM \notin Tables /\ Files = Tables \cup {WM}
  /\ Mood \in Serial /\ Serial \subseteq Tables /\ Keyed \subseteq Tables \ {Mood}
  /\ Keyed \cap Serial = {} /\ MemoryTables \subseteq Tables \ {Mood}
  /\ \A v : Restored(v) \subseteq Tables
BY SnapshotAssumption DEF Tables, Files, Serial, Restored, WM

LEMMA LinesContent ==
  ASSUME NEW T \in Table
  PROVE  Lines(T) \in Content
<1>1. DOMAIN T \subseteq 1..MaxRow /\ \A x \in DOMAIN T : T[x] \in 0..MaxRow
  BY TableIs
<1> QED BY <1>1 DEF Lines, Content

LEMMA WorkingContent ==
  ASSUME NEW w \in SUBSET (0..MaxRow)
  PROVE  w \in Content /\ w \in Store
BY DEF Content, Store

LEMMA DirectoryIs ==
  ASSUME NEW v \in 0..2, NEW F, DOMAIN F \subseteq Files, F \in [DOMAIN F -> Content]
  PROVE  [version |-> v, files |-> F] \in Directory
BY DEF Directory

\* While nothing is backed up or restored, only the Mind's own stores move.
LEMMA WhileIdle ==
  ASSUME BackupsInv, task' = "idle", MindInv', DirsInv', IdsInv', ThoughtInv'
  PROVE  BackupsInv'
BY DEF BackupsInv, BackupInv, RestoreInv, Restoring, ClashInv

LEMMA InitBackupsInv == SnapshotInit => BackupsInv
<1> SUFFICES ASSUME SnapshotInit PROVE BackupsInv
  OBVIOUS
<1> USE DEF SnapshotInit
<1> DEFINE one == Only(1, 0)
           tables == [f \in MemoryTables |-> Lines(one)]
           files == Over(tables, Only(WM, {0}))
           stores == Over(rows, Only(WM, {0}))
<1>1. one \in Table /\ DOMAIN one = {1} /\ one[1] = 0
  BY SnapSets, OnlyTable, OnlyIs
<1>2. /\ rows = [t \in Tables |-> one]
      /\ dirs = <<[version |-> 1, files |-> files]>> /\ saw = <<stores>>
  BY DEF WM
<1> HIDE DEF one
<1>3. /\ DOMAIN files = MemoryTables \cup {WM}
      /\ \A f \in MemoryTables : files[f] = Lines(one)
      /\ files[WM] = {0}
  <2>1. DOMAIN Only(WM, {0}) = {WM} /\ Only(WM, {0})[WM] = {0}
    BY OnlyIs
  <2>2. WM \notin MemoryTables
    BY SnapSets
  <2>3. DOMAIN tables = MemoryTables /\ \A f \in MemoryTables : tables[f] = Lines(one)
    OBVIOUS
  <2> HIDE DEF tables
  <2>4. /\ DOMAIN files = MemoryTables \cup {WM}
        /\ \A f \in MemoryTables : files[f] = tables[f]
        /\ files[WM] = {0}
    BY <2>1, <2>2, <2>3 DEF Over
  <2> QED BY <2>3, <2>4
<1>4. /\ DOMAIN stores = Files /\ stores[WM] = {0}
      /\ \A t \in Tables : stores[t] = one
      /\ stores \in [Files -> Store]
  <2>1. DOMAIN Only(WM, {0}) = {WM} /\ Only(WM, {0})[WM] = {0}
    BY OnlyIs
  <2>2. /\ DOMAIN stores = Files /\ stores[WM] = {0}
        /\ \A t \in Tables : stores[t] = one
    <3>1. DOMAIN rows = Tables /\ \A t \in Tables : rows[t] = one
      BY <1>2
    <3>2. /\ DOMAIN stores = DOMAIN rows \cup {WM}
          /\ \A t \in DOMAIN rows : stores[t] = rows[t]
          /\ WM \notin DOMAIN rows => stores[WM] = {0}
      BY <2>1 DEF Over
    <3> HIDE DEF stores
    <3> QED BY <3>1, <3>2, SnapSets
  <2>3. \A f \in Files : stores[f] \in Store
    BY <1>1, <2>2, SnapSets DEF Store
  <2>4. stores = [f \in Files |-> stores[f]]
    BY <2>2 DEF Over
  <2> HIDE DEF stores
  <2> QED BY <2>2, <2>3, <2>4
<1>5. [version |-> 1, files |-> files] \in Directory
  <2>1. \A f \in DOMAIN files : files[f] \in Content
    <3>1. Lines(one) \in Content
      BY <1>1, LinesContent
    <3>2. {0} \in Content
      <4>1. {0} \in SUBSET (0..MaxRow)
        BY SnapSets
      <4> QED BY <4>1, WorkingContent
    <3> HIDE DEF files
    <3> QED BY <1>3, <3>1, <3>2
  <2>2. files \in [DOMAIN files -> Content]
    <3>1. files = [f \in DOMAIN files |-> files[f]]
      BY DEF Over
    <3> HIDE DEF files
    <3> QED BY <2>1, <3>1
  <2>3. DOMAIN files \subseteq Files /\ 1 \in 0..2
    BY <1>3, SnapSets
  <2> HIDE DEF files
  <2> QED BY <2>2, <2>3, DirectoryIs
<1> HIDE DEF files, stores
<1>6. /\ dirs \in Seq(Directory) /\ Len(dirs) = 1 /\ dirs[1].version = 1 /\ dirs[1].files = files
      /\ saw \in Seq([Files -> Store]) /\ Len(saw) = 1 /\ saw[1] = stores
  BY <1>2, <1>4, <1>5
<1>7. Filed(1)
  <2>1. Whole(1)
    <3>1. ASSUME NEW f \in MemoryTables \cup {WM}
          PROVE  files[f] = IF f \in Tables THEN Lines(stores[f]) ELSE stores[f]
      BY <1>3, <1>4, SnapSets
    <3> QED BY <1>3, <1>6, <3>1 DEF Whole
  <2>2. stores[WM] \in SUBSET (0..MaxRow)
    BY <1>4, SnapSets
  <2> QED BY <1>1, <1>3, <1>4, <1>6, <2>1, <2>2 DEF Filed
<1>8. DirsInv
  <2>1. Len(dirs) \in 1..(MaxBackups + 1)
    BY <1>6, SnapSets
  <2> QED BY <1>6, <1>7, <2>1 DEF DirsInv
<1>9. MindInv
  <2>1. rows \in Contents
    BY <1>1, <1>2 DEF Contents
  <2>2. next \in [Serial -> 1..(MaxRow + 1)]
    BY SnapSets
  <2> QED BY <2>1, <2>2, SnapSets DEF MindInv
<1>10. IdsInv
  <2>1. \A t \in Serial : Ahead(t)
    BY <1>1, <1>2, SnapSets DEF Ahead
  <2> QED BY <2>1, SnapSets DEF IdsInv
<1>11. ThoughtInv
  BY DEF ThoughtInv
<1> QED BY <1>8, <1>9, <1>10, <1>11 DEF BackupsInv, BackupInv, RestoreInv, Restoring, ClashInv

\* One table changes.
LEMMA OneTable ==
  ASSUME rows \in Contents, NEW t \in Tables, NEW T \in Table, rows' = [rows EXCEPT ![t] = T]
  PROVE  /\ rows' \in Contents /\ rows'[t] = T
         /\ \A u \in Tables \ {t} : rows'[u] = rows[u]
BY DEF Contents

LEMMA InsertKeeps ==
  ASSUME BackupsInv, NEW t \in Serial, Insert(t)
  PROVE  BackupsInv'
<1> USE DEF Insert, Idle, Later
<1>1. /\ rows \in Contents /\ rows[t] \in Table /\ next \in [Serial -> 1..(MaxRow + 1)]
      /\ moment' \in 0..MaxRow /\ t \in Tables /\ next[t] \in 1..MaxRow
  <2>1. /\ rows \in Contents /\ next \in [Serial -> 1..(MaxRow + 1)] /\ moment \in 0..MaxRow
    BY DEF BackupsInv, MindInv
  <2>2. t \in Tables /\ MaxRow \in Nat
    BY SnapSets
  <2>3. rows[t] \in Table
    BY <2>1, <2>2 DEF Contents
  <2>4. next[t] \in 1..(MaxRow + 1)
    BY <2>1
  <2> QED BY <2>1, <2>2, <2>3, <2>4
<1> DEFINE T == IF next[t] \in DOMAIN rows[t] THEN rows[t]
                ELSE Over(rows[t], Only(next[t], moment'))
<1>2. /\ T \in Table /\ DOMAIN T = DOMAIN rows[t] \cup {next[t]}
      /\ \A i \in DOMAIN rows[t] : T[i] = rows[t][i]
  <2>1. CASE next[t] \in DOMAIN rows[t]
    BY <1>1, <2>1
  <2>2. CASE next[t] \notin DOMAIN rows[t]
    <3>1. Only(next[t], moment') \in Table /\ DOMAIN Only(next[t], moment') = {next[t]}
      BY <1>1, OnlyTable, OnlyIs
    <3> DEFINE new == Only(next[t], moment')
    <3>2. T = Over(rows[t], new)
      BY <2>2
    <3> HIDE DEF T, new
    <3>3. new \in Table /\ DOMAIN new = {next[t]}
      BY <3>1 DEF new
    <3>4. Over(rows[t], new) \in Table
      BY <1>1, <3>3, OverTable
    <3> QED BY <3>2, <3>3, <3>4 DEF Over
  <2> QED BY <2>1, <2>2
<1>3. rows' = [rows EXCEPT ![t] = T]
  <2>1. CASE next[t] \in DOMAIN rows[t]
    BY <1>1, <2>1 DEF Contents
  <2>2. CASE next[t] \notin DOMAIN rows[t]
    BY <2>2
  <2> QED BY <2>1, <2>2
<1> HIDE DEF T
<1>4. rows' \in Contents /\ rows'[t] = T /\ \A u \in Tables \ {t} : rows'[u] = rows[u]
  BY <1>1, <1>2, <1>3, OneTable
<1>5. /\ next' \in [Serial -> 1..(MaxRow + 1)] /\ next'[t] = next[t] + 1
      /\ \A u \in Serial \ {t} : next'[u] = next[u]
  <2>1. MaxRow \in Nat /\ next[t] + 1 \in 1..(MaxRow + 1)
    BY <1>1, SnapSets
  <2> QED BY <1>1, <2>1
<1>6. MindInv'
  BY <1>1, <1>4, <1>5 DEF BackupsInv, MindInv
<1>7. DirsInv'
  BY DEF BackupsInv, DirsInv, Filed, Whole
<1>8. ASSUME NEW u \in Serial, Ahead(u) PROVE Ahead(u)'
  <2>1. CASE u = t
    <3>1. DOMAIN rows[t] \subseteq Nat /\ next[t] \in Nat
      BY <1>1, TableIs
    <3> QED BY <1>2, <1>4, <1>5, <1>8, <2>1, <3>1 DEF Ahead
  <2>2. CASE u # t
    BY <1>4, <1>5, <1>8, <2>2, SnapSets DEF Ahead
  <2> QED BY <2>1, <2>2
<1>9. IdsInv'
  BY <1>8, SnapSets DEF BackupsInv, IdsInv
<1>10. ThoughtInv'
  BY <1>2, <1>4, SnapSets DEF BackupsInv, ThoughtInv
<1> QED BY <1>6, <1>7, <1>9, <1>10, WhileIdle

\* Other changes of one table that leave the sequences alone: mood keeps its
\* rows, and no serial table gets a new id.
LEMMA OverwriteKeeps ==
  ASSUME BackupsInv, NEW t \in Keyed, Overwrite(t)
  PROVE  BackupsInv'
<1> USE DEF Overwrite, Idle, Later
<1>1. rows \in Contents /\ rows[t] \in Table /\ t \in Tables \ {Mood} /\ t \notin Serial
  <2>1. rows \in Contents /\ t \in Tables
    BY SnapSets DEF BackupsInv, MindInv
  <2> QED BY <2>1, SnapSets DEF Contents
<1>2. moment' \in 0..MaxRow /\ 1 \in 1..MaxRow
  BY SnapSets DEF BackupsInv, MindInv
<1>3. Over(Only(1, moment'), rows[t]) \in Table
  BY <1>1, <1>2, OnlyTable, OverTable
<1>4. rows' \in Contents /\ \A u \in Tables \ {t} : rows'[u] = rows[u]
  BY <1>1, <1>3, OneTable
<1>5. MindInv'
  BY <1>2, <1>4 DEF BackupsInv, MindInv
<1>6. DirsInv'
  BY DEF BackupsInv, DirsInv, Filed, Whole
<1>7. \A u \in Serial : rows'[u] = rows[u] /\ next'[u] = next[u]
  BY <1>1, <1>4, SnapSets
<1>8. IdsInv' /\ ThoughtInv'
  BY <1>7, SnapSets DEF BackupsInv, IdsInv, ThoughtInv, Ahead
<1> QED BY <1>5, <1>6, <1>8, WhileIdle

LEMMA DeleteKeeps ==
  ASSUME BackupsInv, NEW t \in MemoryTables, Delete(t)
  PROVE  BackupsInv'
<1> USE DEF Delete, Idle
<1>1. rows \in Contents /\ rows[t] \in Table /\ t \in Tables \ {Mood}
  <2>1. rows \in Contents /\ t \in Tables
    BY SnapSets DEF BackupsInv, MindInv
  <2> QED BY <2>1, SnapSets DEF Contents
<1>2. PICK i \in DOMAIN rows[t] : rows' = [rows EXCEPT ![t] = Restrict(rows[t], DOMAIN rows[t] \ {i})]
  BY <1>1 DEF Contents
<1>3. /\ Restrict(rows[t], DOMAIN rows[t] \ {i}) \in Table
      /\ DOMAIN Restrict(rows[t], DOMAIN rows[t] \ {i}) = DOMAIN rows[t] \ {i}
  BY <1>1, RestrictTable
<1>4. /\ rows' \in Contents /\ DOMAIN rows'[t] \subseteq DOMAIN rows[t]
      /\ \A u \in Tables \ {t} : rows'[u] = rows[u]
  BY <1>1, <1>2, <1>3, OneTable
<1>5. MindInv'
  BY <1>4 DEF BackupsInv, MindInv
<1>6. DirsInv'
  BY DEF BackupsInv, DirsInv, Filed, Whole
<1>7. ASSUME NEW u \in Serial, Ahead(u) PROVE Ahead(u)'
  <2>1. CASE u = t
    BY <1>4, <1>7, <2>1 DEF Ahead
  <2>2. CASE u # t
    BY <1>4, <1>7, <2>2, SnapSets DEF Ahead
  <2> QED BY <2>1, <2>2
<1>8. IdsInv'
  BY <1>7, SnapSets DEF BackupsInv, IdsInv
<1>9. rows'[Mood] = rows[Mood]
  BY <1>1, <1>4, SnapSets
<1>10. ThoughtInv'
  BY <1>9 DEF BackupsInv, ThoughtInv
<1> QED BY <1>5, <1>6, <1>8, <1>10, WhileIdle

LEMMA ThinkKeeps ==
  ASSUME BackupsInv, Think
  PROVE  BackupsInv'
<1> USE DEF Think, Idle
<1>1. PICK i \in DOMAIN rows[Mood] :
          thoughts' = thoughts \cup {[mood |-> i, made |-> rows[Mood][i]]}
  OBVIOUS
<1>2. rows[Mood] \in Table
  BY SnapSets DEF BackupsInv, MindInv, Contents
<1>3. i \in 0..MaxRow /\ rows[Mood][i] \in 0..MaxRow
  <2>1. i \in 1..MaxRow /\ rows[Mood][i] \in 0..MaxRow
    BY <1>1, <1>2, TableIs
  <2> QED BY <2>1, SnapSets
<1>4. MindInv'
  BY <1>1, <1>3 DEF BackupsInv, MindInv
<1>5. DirsInv' /\ IdsInv'
  BY DEF BackupsInv, DirsInv, Filed, Whole, IdsInv, Ahead
<1>6. ThoughtInv'
  BY <1>1 DEF BackupsInv, ThoughtInv
<1> QED BY <1>4, <1>5, <1>6, WhileIdle

LEMMA AttendKeeps ==
  ASSUME BackupsInv, Attend
  PROVE  BackupsInv'
<1> USE DEF Attend, Idle, Later
<1>1. moment' \in 0..MaxRow
  BY SnapSets DEF BackupsInv, MindInv
<1>2. MindInv'
  BY <1>1 DEF BackupsInv, MindInv
<1>3. DirsInv' /\ IdsInv' /\ ThoughtInv'
  BY DEF BackupsInv, DirsInv, Filed, Whole, IdsInv, Ahead, ThoughtInv
<1> QED BY <1>2, <1>3, WhileIdle

LEMMA BeginSnapshotKeeps ==
  ASSUME BackupsInv, BeginSnapshot
  PROVE  BackupsInv'
<1> USE DEF BeginSnapshot, Idle
<1> DEFINE stores == Over(rows, Only(WM, working))
           empty == [version |-> 0, files |-> Nothing]
           n == Len(dirs)
<1>1. /\ dirs \in Seq(Directory) /\ saw \in Seq([Files -> Store]) /\ Len(saw) = n
      /\ n \in 1..(MaxBackups + 1) /\ n \in Nat /\ n <= MaxBackups
      /\ \A d \in 1..n : Filed(d)
      /\ eased \subseteq {d \in 1..n : dirs[d].version = 2}
  BY DEF BackupsInv, DirsInv
<1>2. rows \in Contents /\ working \in SUBSET (0..MaxRow)
  BY DEF BackupsInv, MindInv
<1>3. /\ stores \in [Files -> Store] /\ stores[WM] = working
      /\ \A t \in Tables : stores[t] = rows[t] /\ stores[t] \in Table
  <2>1. DOMAIN rows = Tables /\ \A t \in Tables : rows[t] \in Table
    BY <1>2 DEF Contents
  <2>2. DOMAIN Only(WM, working) = {WM} /\ Only(WM, working)[WM] = working
    BY OnlyIs
  <2>3. /\ DOMAIN stores = Files /\ stores[WM] = working
        /\ \A t \in Tables : stores[t] = rows[t] /\ stores[t] \in Table
    BY <2>1, <2>2, SnapSets DEF Over
  <2>4. \A f \in Files : stores[f] \in Store
    <3>1. working \in Store
      BY <1>2, WorkingContent
    <3> HIDE DEF stores
    <3> QED BY <2>3, <3>1, SnapSets DEF Store
  <2>5. stores = [f \in Files |-> stores[f]]
    BY <2>3 DEF Over
  <2> HIDE DEF stores
  <2> QED BY <2>3, <2>4, <2>5
<1>4. empty \in Directory
  <2>1. DOMAIN Nothing = {} /\ Nothing \in [{} -> Content]
    BY DEF Nothing
  <2>2. DOMAIN Nothing \subseteq Files /\ Nothing \in [DOMAIN Nothing -> Content] /\ 0 \in 0..2
    BY <2>1
  <2> QED BY <2>2, DirectoryIs
<1>5. dirs' = Append(dirs, empty) /\ saw' = Append(saw, stores)
  BY DEF WM
<1> HIDE DEF stores
<1>6. /\ dirs' \in Seq(Directory) /\ Len(dirs') = n + 1 /\ dirs'[n + 1] = empty
      /\ saw' \in Seq([Files -> Store]) /\ Len(saw') = n + 1 /\ saw'[n + 1] = stores
      /\ \A d \in 1..n : dirs'[d] = dirs[d] /\ saw'[d] = saw[d]
  BY <1>1, <1>3, <1>4, <1>5
<1>7. dirs'[n + 1].version = 0 /\ dirs'[n + 1].files = Nothing
  BY <1>6
<1> HIDE DEF empty
<1>8. ASSUME NEW d \in 1..(n + 1) PROVE Filed(d)'
  <2>1. CASE d \in 1..n
    BY <1>1, <1>6, <2>1 DEF Filed, Whole
  <2>2. CASE d = n + 1
    <3>1. Whole(d)'
      BY <1>7, <2>2, NothingTable DEF Whole
    <3>2. /\ \A t \in Tables : saw'[d][t] \in Table
          /\ saw'[d][WM] = working /\ dirs'[d].version = 0
      BY <1>3, <1>6, <1>7, <2>2
    <3>3. saw'[d][WM] \in SUBSET (0..MaxRow)
      BY <1>2, <3>2
    <3>4. dirs'[d].version # 1 /\ dirs'[d].version # 2
      BY <3>2
    <3> HIDE DEF BeginSnapshot
    <3> QED BY <3>1, <3>2, <3>3, <3>4 DEF Filed
  <2> QED BY <1>1, <2>1, <2>2
<1>9. DirsInv'
  <2>1. Len(dirs') \in 1..(MaxBackups + 1) /\ Len(saw') = Len(dirs')
    BY <1>1, <1>6, SnapSets
  <2>2. eased' \subseteq {d \in 1..Len(dirs') : dirs'[d].version = 2}
    BY <1>1, <1>6
  <2>3. \A d \in 1..Len(dirs') : Filed(d)'
    BY <1>6, <1>8
  <2> QED BY <1>6, <2>1, <2>2, <2>3 DEF DirsInv
<1>10. BackupInv'
  <2>1. /\ task' = "files" /\ todo' = Files /\ read' = rows /\ working' = working
    BY DEF mind
  <2>2. DOMAIN dirs'[Len(dirs')].files = Files \ todo'
    BY <1>6, <1>7, <2>1, NothingTable
  <2>3. /\ saw'[Len(dirs')][WM] = working
        /\ \A t \in Tables : read'[t] = saw'[Len(dirs')][t]
    BY <1>3, <1>6, <2>1
  <2> QED BY <1>6, <1>7, <2>1, <2>2, <2>3, SnapSets DEF BackupInv
<1>11. MindInv' /\ IdsInv' /\ ThoughtInv'
  BY DEF BackupsInv, MindInv, IdsInv, Ahead, ThoughtInv, mind
<1> QED BY <1>9, <1>10, <1>11 DEF BackupsInv, RestoreInv, Restoring, ClashInv

\* Writing a file that is not there yet, of what its store held.
LEMMA WrittenKeeps ==
  ASSUME DirsInv, NEW f \in Files, NEW content,
         dirs[Len(dirs)].version = 0, f \notin DOMAIN dirs[Len(dirs)].files,
         content = IF f \in Tables THEN Lines(saw[Len(dirs)][f]) ELSE saw[Len(dirs)][f],
         dirs' = Written(f, content), saw' = saw, eased' = eased
  PROVE  /\ DirsInv' /\ Len(dirs') = Len(dirs)
         /\ dirs'[Len(dirs)].version = 0
         /\ DOMAIN dirs'[Len(dirs)].files = DOMAIN dirs[Len(dirs)].files \cup {f}
<1> DEFINE n == Len(dirs)
           F == dirs[n].files
           G == Over(F, Only(f, content))
<1>1. /\ dirs \in Seq(Directory) /\ saw \in Seq([Files -> Store]) /\ Len(saw) = n
      /\ n \in 1..(MaxBackups + 1) /\ n \in Nat
      /\ \A d \in 1..n : Filed(d)
      /\ eased \subseteq {d \in 1..n : dirs[d].version = 2}
  BY DEF DirsInv
<1>2. dirs[n] \in Directory /\ n \in 1..n
  BY <1>1
<1>3. F \in [DOMAIN F -> Content] /\ DOMAIN F \subseteq Files
  <2>1. F \in UNION {[E -> Content] : E \in SUBSET Files}
    BY <1>2 DEF Directory
  <2> HIDE DEF F
  <2> QED BY <2>1
<1>4. content \in Content
  <2>1. CASE f \in Tables
    BY <1>1, <1>2, <2>1, LinesContent DEF Filed
  <2>2. CASE f \notin Tables
    <3>1. f = WM
      BY <2>2, SnapSets
    <3>2. saw[n][WM] \in SUBSET (0..MaxRow)
      BY <1>1, <1>2 DEF Filed
    <3> QED BY <2>2, <3>1, <3>2, WorkingContent
  <2> QED BY <2>1, <2>2
<1>5. /\ DOMAIN G = DOMAIN F \cup {f} /\ G[f] = content
      /\ \A e \in DOMAIN F : G[e] = F[e]
  <2> DEFINE new == Only(f, content)
  <2>1. DOMAIN new = {f} /\ new[f] = content
    BY OnlyIs
  <2> HIDE DEF new, F
  <2>2. f \notin DOMAIN F
    BY DEF F
  <2>3. /\ DOMAIN Over(F, new) = DOMAIN F \cup {f} /\ Over(F, new)[f] = content
        /\ \A e \in DOMAIN F : Over(F, new)[e] = F[e]
    BY <2>1, <2>2 DEF Over
  <2> QED BY <2>3 DEF new
<1>6. G \in [DOMAIN G -> Content] /\ DOMAIN G \subseteq Files
  <2>1. G = [e \in DOMAIN G |-> G[e]]
    BY DEF Over
  <2> HIDE DEF G, F
  <2>2. \A e \in DOMAIN G : G[e] \in Content
    BY <1>3, <1>4, <1>5
  <2> QED BY <1>3, <1>5, <2>1, <2>2
<1>7. [version |-> 0, files |-> G] \in Directory
  <2> HIDE DEF G
  <2> QED BY <1>6, DirectoryIs
<1>8. dirs' = [dirs EXCEPT ![n] = [version |-> 0, files |-> G]]
  <2>1. dirs' = [dirs EXCEPT ![n].files = G]
    BY DEF Written
  <2>2. [dirs[n] EXCEPT !.files = G] = [version |-> 0, files |-> G]
    <3> HIDE DEF G
    <3> QED BY <1>2 DEF Directory
  <2> HIDE DEF G
  <2> QED BY <1>1, <1>2, <2>1, <2>2
<1> HIDE DEF G
<1>9. /\ dirs' \in Seq(Directory) /\ Len(dirs') = n
      /\ dirs'[n].version = 0 /\ dirs'[n].files = G
      /\ \A d \in 1..n : d # n => dirs'[d] = dirs[d]
  <2> DEFINE new == [version |-> 0, files |-> G]
  <2>1. new.version = 0 /\ new.files = G
    OBVIOUS
  <2>2. new \in Directory /\ dirs' = [dirs EXCEPT ![n] = new]
    BY <1>7, <1>8
  <2> HIDE DEF new
  <2>3. dirs \in Seq(Directory) /\ n \in 1..Len(dirs) /\ n = Len(dirs)
    BY <1>1, <1>2
  <2> HIDE DEF n
  <2>4. dirs' \in Seq(Directory) /\ Len(dirs') = n /\ dirs'[n] = new
    BY <2>2, <2>3
  <2>5. \A d \in 1..n : d # n => dirs'[d] = dirs[d]
    BY <2>2, <2>3
  <2> QED BY <2>1, <2>4, <2>5
<1>10. ASSUME NEW d \in 1..n PROVE Filed(d)'
  <2>1. CASE d # n
    BY <1>1, <1>9, <2>1 DEF Filed, Whole
  <2>2. CASE d = n
    <3>1. Filed(n)
      BY <1>1, <1>2
    <3>2. \A e \in DOMAIN F : F[e] = IF e \in Tables THEN Lines(saw[n][e]) ELSE saw[n][e]
      BY <3>1 DEF Filed, Whole
    <3>3. \A e \in DOMAIN G : G[e] = IF e \in Tables THEN Lines(saw[n][e]) ELSE saw[n][e]
      <4> HIDE DEF F
      <4> QED BY <1>5, <3>2
    <3>4. Whole(n)'
      BY <1>9, <3>3 DEF Whole
    <3> QED BY <1>9, <2>2, <3>1, <3>4 DEF Filed
  <2> QED BY <2>1, <2>2
<1>11. DirsInv'
  <2>1. eased' \subseteq {d \in 1..n : dirs'[d].version = 2}
    BY <1>1, <1>9
  <2>2. saw' \in Seq([Files -> Store]) /\ Len(saw') = n /\ Len(dirs') = n
    BY <1>1, <1>9
  <2>3. \A d \in 1..Len(dirs') : Filed(d)'
    BY <1>9, <1>10
  <2> QED BY <1>1, <1>9, <2>1, <2>2, <2>3 DEF DirsInv
<1> QED BY <1>5, <1>9, <1>11

LEMMA WriteFileKeeps ==
  ASSUME BackupsInv, WriteFile
  PROVE  BackupsInv'
<1> DEFINE n == Len(dirs)
           tables == todo \ {WM}
           t == CHOOSE u \in tables : TRUE
<1>1. task = "files" /\ UNCHANGED <<mind, working, read, before, saw, eased, shaken>>
  BY DEF WriteFile
<1>2. /\ DirsInv /\ dirs[n].version = 0
      /\ todo \subseteq Files /\ WM \in todo /\ DOMAIN dirs[n].files = Files \ todo
      /\ \A u \in Tables : read[u] = saw[n][u]
      /\ working = saw[n][WM]
  BY <1>1 DEF BackupsInv, BackupInv
<1>3. \/ /\ tables # {} /\ dirs' = Written(t, Lines(read[t]))
         /\ todo' = todo \ {t} /\ task' = "files"
      \/ /\ tables = {} /\ dirs' = Written(WM, working) /\ todo' = {} /\ task' = "manifest"
  BY <1>1 DEF WriteFile, WM
<1>4. DirsInv' /\ BackupInv'
  <2>1. CASE tables # {}
    <3>1. t \in tables
      BY <2>1
    <3> HIDE DEF t
    <3>2. t \in Files /\ t \in Tables /\ t \in todo /\ t # WM
      BY <1>2, <3>1, SnapSets
    <3>3. dirs' = Written(t, Lines(read[t])) /\ todo' = todo \ {t} /\ task' = "files"
      BY <1>3, <2>1
    <3>4. Lines(read[t]) = IF t \in Tables THEN Lines(saw[n][t]) ELSE saw[n][t]
      BY <1>2, <3>2
    <3>5. /\ DirsInv' /\ Len(dirs') = n /\ dirs'[n].version = 0
          /\ DOMAIN dirs'[n].files = DOMAIN dirs[n].files \cup {t}
      BY <1>1, <1>2, <3>2, <3>3, <3>4, WrittenKeeps
    <3>6. DOMAIN dirs'[n].files = Files \ todo'
      BY <1>2, <3>2, <3>3, <3>5
    <3> QED BY <1>1, <1>2, <3>2, <3>3, <3>5, <3>6 DEF BackupInv
  <2>2. CASE tables = {}
    <3>1. dirs' = Written(WM, working) /\ todo' = {} /\ task' = "manifest"
      BY <1>3, <2>2
    <3>2. todo = {WM} /\ WM \in Files /\ WM \notin Tables
      BY <1>2, <2>2, SnapSets
    <3>3. working = IF WM \in Tables THEN Lines(saw[n][WM]) ELSE saw[n][WM]
      BY <1>2, <3>2
    <3>4. /\ DirsInv' /\ Len(dirs') = n /\ dirs'[n].version = 0
          /\ DOMAIN dirs'[n].files = DOMAIN dirs[n].files \cup {WM}
      BY <1>1, <1>2, <3>1, <3>2, <3>3, WrittenKeeps
    <3>5. DOMAIN dirs'[n].files = Files
      BY <1>2, <3>2, <3>4
    <3> QED BY <3>1, <3>4, <3>5 DEF BackupInv
  <2> QED BY <2>1, <2>2
<1>5. task' \in {"files", "manifest"}
  BY <1>3
<1>6. MindInv' /\ IdsInv' /\ ThoughtInv'
  BY <1>1, <1>5 DEF BackupsInv, MindInv, IdsInv, Ahead, ThoughtInv, mind
<1> QED BY <1>4, <1>5, <1>6 DEF BackupsInv, RestoreInv, Restoring, ClashInv

LEMMA WriteManifestKeeps ==
  ASSUME BackupsInv, WriteManifest
  PROVE  BackupsInv'
<1> DEFINE n == Len(dirs)
<1>1. /\ task = "manifest" /\ dirs' = [dirs EXCEPT ![n].version = 2] /\ task' = "backed up"
      /\ UNCHANGED <<rows, next, thoughts, moment, working, read, todo, before, saw, eased, shaken>>
  BY DEF WriteManifest, mind
<1>2. /\ dirs \in Seq(Directory) /\ saw \in Seq([Files -> Store]) /\ Len(saw) = n
      /\ n \in 1..(MaxBackups + 1) /\ n \in Nat /\ n \in 1..n
      /\ \A d \in 1..n : Filed(d)
      /\ eased \subseteq {d \in 1..n : dirs[d].version = 2}
      /\ dirs[n].version = 0 /\ DOMAIN dirs[n].files = Files
  <2>1. DirsInv /\ dirs[n].version = 0 /\ DOMAIN dirs[n].files = Files
    BY <1>1 DEF BackupsInv, BackupInv
  <2> QED BY <2>1 DEF DirsInv
<1> DEFINE new == [dirs[n] EXCEPT !.version = 2]
<1>3. new \in Directory /\ new.version = 2 /\ new.files = dirs[n].files
  <2>1. dirs[n] \in Directory
    BY <1>2
  <2> QED BY <2>1 DEF Directory
<1>4. dirs' = [dirs EXCEPT ![n] = new]
  BY <1>1
<1> HIDE DEF new
<1>5. /\ dirs' \in Seq(Directory) /\ Len(dirs') = n /\ dirs'[n] = new
      /\ \A d \in 1..n : d # n => dirs'[d] = dirs[d]
  BY <1>2, <1>3, <1>4
<1>6. \A d \in 1..n : dirs'[d].files = dirs[d].files /\ saw'[d] = saw[d]
  BY <1>1, <1>3, <1>5
<1>7. ASSUME NEW d \in 1..n PROVE Filed(d)'
  <2>1. Filed(d)
    BY <1>2
  <2>2. Whole(d)'
    BY <1>6, <2>1 DEF Filed, Whole
  <2>3. CASE d # n
    BY <1>5, <1>6, <2>1, <2>2, <2>3 DEF Filed
  <2>4. CASE d = n
    BY <1>2, <1>3, <1>5, <1>6, <2>1, <2>2, <2>4 DEF Filed
  <2> QED BY <2>3, <2>4
<1>8. DirsInv'
  <2>1. eased' \subseteq {d \in 1..Len(dirs') : dirs'[d].version = 2}
    <3>1. \A d \in 1..n : dirs[d].version = 2 => dirs'[d].version = 2
      BY <1>2, <1>5
    <3> QED BY <1>1, <1>2, <1>5, <3>1
  <2>2. \A d \in 1..Len(dirs') : Filed(d)'
    BY <1>5, <1>7
  <2>3. saw' \in Seq([Files -> Store]) /\ Len(saw') = Len(dirs')
    BY <1>1, <1>2, <1>5
  <2> QED BY <1>2, <1>5, <2>1, <2>2, <2>3 DEF DirsInv
<1>9. BackupInv'
  BY <1>1, <1>3, <1>5 DEF BackupInv
<1>10. MindInv' /\ IdsInv' /\ ThoughtInv'
  BY <1>1 DEF BackupsInv, MindInv, IdsInv, Ahead, ThoughtInv
<1> QED BY <1>1, <1>8, <1>9, <1>10 DEF BackupsInv, RestoreInv, Restoring, ClashInv

LEMMA BackupEndsKeeps ==
  ASSUME BackupsInv, Confirm \/ SnapshotFails
  PROVE  BackupsInv'
<1>1. /\ task' = "idle" /\ task # "sequences"
      /\ UNCHANGED <<rows, next, thoughts, moment, working, dirs, saw, shaken>>
      /\ eased' = eased \/ (task = "backed up" /\ eased' = eased \cup {Len(dirs)})
  BY DEF Confirm, SnapshotFails, mind
<1>2. DirsInv'
  <2>1. /\ Len(dirs) \in 1..Len(dirs)
        /\ eased \subseteq {d \in 1..Len(dirs) : dirs[d].version = 2}
        /\ task = "backed up" => dirs[Len(dirs)].version = 2
    <3>1. Len(dirs) \in 1..(MaxBackups + 1) /\ MaxBackups \in Nat
      BY SnapSets DEF BackupsInv, DirsInv
    <3>2. Len(dirs) \in 1..Len(dirs)
      BY <3>1
    <3> QED BY <3>2 DEF BackupsInv, DirsInv, BackupInv
  <2>2. eased' \subseteq {d \in 1..Len(dirs') : dirs'[d].version = 2}
    BY <1>1, <2>1
  <2> QED BY <1>1, <2>2 DEF BackupsInv, DirsInv, Filed, Whole
<1>3. MindInv' /\ IdsInv' /\ ThoughtInv'
  BY <1>1 DEF BackupsInv, MindInv, IdsInv, Ahead, ThoughtInv
<1> QED BY <1>1, <1>2, <1>3, WhileIdle

\* What a restore reads is what its backup was made from.
LEMMA BeginRestoreKeeps ==
  ASSUME BackupsInv, BeginRestore
  PROVE  BackupsInv'
<1>1. /\ task = "idle" /\ task' = "rows" /\ before' = rows
      /\ UNCHANGED <<rows, next, thoughts, moment, working, dirs, saw, eased, shaken>>
  BY DEF BeginRestore, Idle, mind
<1>2. PICK d \in DOMAIN dirs, replace \in BOOLEAN :
          /\ dirs[d].version # 0
          /\ read' = [dir |-> d, version |-> dirs[d].version, replace |-> replace,
                      tables |-> [t \in Tables |-> Built(File(d, t))]]
          /\ todo' = dirs[d].files[WM]
  BY DEF BeginRestore, WM
<1>3. /\ dirs \in Seq(Directory) /\ d \in 1..Len(dirs) /\ dirs[d] \in Directory /\ Filed(d)
  BY DEF BackupsInv, DirsInv
<1>4. dirs[d].version \in 1..2
  BY <1>2, <1>3 DEF Directory
<1>5. /\ read'.dir = d /\ read'.version = dirs[d].version /\ read'.replace = replace
      /\ read'.tables = [t \in Tables |-> Built(File(d, t))]
  BY <1>2
<1>6. WM \in DOMAIN dirs[d].files /\ todo' = saw[d][WM]
  <2>1. WM \in DOMAIN dirs[d].files
    BY <1>3, <1>4, SnapSets DEF Filed
  <2> QED BY <1>2, <1>3, <2>1, SnapSets DEF Filed, Whole
<1>7. ASSUME NEW t \in Restored(read'.version)
      PROVE  read'.tables[t] = saw'[d][t]
  <2>1. t \in Tables /\ t \in DOMAIN dirs[d].files
    BY <1>3, <1>4, <1>5, <1>7, SnapSets DEF Filed, Restored
  <2>2. dirs[d].files[t] = Lines(saw[d][t]) /\ saw[d][t] \in Table
    BY <1>3, <2>1 DEF Filed, Whole
  <2>3. File(d, t) = Lines(saw[d][t])
    BY <2>1, <2>2 DEF File
  <2>4. Built(File(d, t)) = saw[d][t]
    BY <2>2, <2>3, BuiltLines
  <2> QED BY <1>1, <1>5, <2>1, <2>4
<1>8. RestoreInv'
  <2>1. rows \in Contents
    BY DEF BackupsInv, MindInv
  <2> HIDE DEF WM
  <2> QED BY <1>1, <1>3, <1>4, <1>5, <1>6, <1>7, <2>1 DEF RestoreInv, Restoring
<1>9. MindInv' /\ DirsInv' /\ IdsInv' /\ ThoughtInv'
  BY <1>1 DEF BackupsInv, MindInv, DirsInv, Filed, Whole, IdsInv, Ahead, ThoughtInv
<1> QED BY <1>1, <1>8, <1>9 DEF BackupsInv, BackupInv, ClashInv

\* While a restore loads.
LEMMA LoadedIs ==
  ASSUME BackupsInv, task \in {"rows", "sequences"}
  PROVE  /\ Loaded \in Contents /\ rows \in Contents
         /\ \A t \in Tables :
                /\ t \in Restored(read.version) => read.tables[t] \in Table
                /\ ~ Cleared(t) => DOMAIN rows[t] \subseteq DOMAIN Loaded[t]
                /\ t \notin Restored(read.version) => Loaded[t] = rows[t]
                /\ DOMAIN Loaded[t] \in SUBSET (1..MaxRow)
                /\ t \in Restored(read.version) =>
                       Loaded[t] = Over(saw[read.dir][t], IF read.replace THEN Nothing ELSE before[t])
<1>1. /\ \A t \in Restored(read.version) :
             read.tables[t] = saw[read.dir][t] /\ saw[read.dir][t] \in Table
      /\ rows = before /\ rows \in Contents
  BY SnapSets DEF BackupsInv, RestoreInv, Restoring, MindInv, DirsInv, Filed
<1> DEFINE new(t) == IF t \in Restored(read.version) THEN read.tables[t] ELSE Nothing
           old(t) == IF Cleared(t) THEN Nothing ELSE rows[t]
<1>2. ASSUME NEW t \in Tables
      PROVE  new(t) \in Table /\ old(t) \in Table /\ rows[t] \in Table
  <2>1. rows[t] \in Table
    BY <1>1 DEF Contents
  <2> QED BY <1>1, <2>1, NothingTable
<1>3. Loaded = [t \in Tables |-> Over(new(t), old(t))]
  BY DEF Loaded
<1>4. ASSUME NEW t \in Tables
      PROVE  /\ Loaded[t] = Over(new(t), old(t)) /\ Loaded[t] \in Table
             /\ DOMAIN Loaded[t] = DOMAIN new(t) \cup DOMAIN old(t)
  <2>1. Loaded[t] = Over(new(t), old(t))
    BY <1>3
  <2> HIDE DEF new, old
  <2>2. Over(new(t), old(t)) \in Table
    BY <1>2, OverTable
  <2>3. DOMAIN Over(new(t), old(t)) = DOMAIN new(t) \cup DOMAIN old(t)
    BY DEF Over
  <2> QED BY <2>1, <2>2, <2>3
<1>5. Loaded \in Contents
  <2>1. Loaded = [t \in Tables |-> Loaded[t]]
    BY <1>3
  <2> QED BY <1>4, <2>1 DEF Contents
<1>6. ASSUME NEW t \in Tables
      PROVE  /\ t \in Restored(read.version) => read.tables[t] \in Table
             /\ ~ Cleared(t) => DOMAIN rows[t] \subseteq DOMAIN Loaded[t]
             /\ t \notin Restored(read.version) => Loaded[t] = rows[t]
             /\ DOMAIN Loaded[t] \in SUBSET (1..MaxRow)
             /\ t \in Restored(read.version) =>
                    Loaded[t] = Over(saw[read.dir][t], IF read.replace THEN Nothing ELSE before[t])
  <2>1. t \in Restored(read.version) => read.tables[t] \in Table
    BY <1>1
  <2>2. ~ Cleared(t) => DOMAIN rows[t] \subseteq DOMAIN Loaded[t]
    BY <1>4
  <2>3. t \notin Restored(read.version) => Loaded[t] = rows[t]
    <3>1. SUFFICES ASSUME t \notin Restored(read.version) PROVE Loaded[t] = rows[t]
      OBVIOUS
    <3>2. new(t) = Nothing /\ old(t) = rows[t]
      BY <3>1 DEF Cleared
    <3>3. Loaded[t] = Over(Nothing, rows[t])
      BY <1>4, <3>2
    <3> QED BY <1>2, <3>3, OverNothing
  <2>4. DOMAIN Loaded[t] \in SUBSET (1..MaxRow)
    <3>1. Loaded[t] \in Table
      BY <1>4
    <3> QED BY <3>1, TableIs
  <2>5. t \in Restored(read.version) =>
            Loaded[t] = Over(saw[read.dir][t], IF read.replace THEN Nothing ELSE before[t])
    <3>1. SUFFICES ASSUME t \in Restored(read.version)
                   PROVE  Loaded[t] = Over(saw[read.dir][t], IF read.replace THEN Nothing ELSE before[t])
      OBVIOUS
    <3>2. new(t) = saw[read.dir][t]
      BY <1>1, <3>1
    <3>3. old(t) = IF read.replace THEN Nothing ELSE before[t]
      BY <1>1, <3>1 DEF Cleared
    <3> QED BY <1>4, <3>2, <3>3
  <2> QED BY <2>1, <2>2, <2>3, <2>4, <2>5
<1> QED BY <1>1, <1>5, <1>6

\* Where a sequence is set, it is set ahead of the rows that come.
LEMMA SequencesAre ==
  ASSUME BackupsInv, task \in {"rows", "sequences"}, NEW ts \in SUBSET Serial
  PROVE  /\ Sequences(ts) \in [Serial -> 1..(MaxRow + 1)]
         /\ \A t \in ts \cap Restored(read.version) :
                \A i \in DOMAIN Loaded[t] : i < Sequences(ts)[t]
         /\ \A t \in Serial \ (ts \cap Restored(read.version)) : Sequences(ts)[t] = next[t]
<1>1. \A t \in Serial : DOMAIN Loaded[t] \in SUBSET (1..MaxRow)
  BY LoadedIs, SnapSets
<1>2. next \in [Serial -> 1..(MaxRow + 1)]
  BY DEF BackupsInv, MindInv
<1>3. \A t \in Serial :
          /\ Resynced(DOMAIN Loaded[t]) \in 1..(MaxRow + 1)
          /\ \A i \in DOMAIN Loaded[t] : i < Resynced(DOMAIN Loaded[t])
  BY <1>1, ResyncedType
<1> QED BY <1>2, <1>3 DEF Sequences

LEMMA LoadRowsKeeps ==
  ASSUME BackupsInv, LoadRows
  PROVE  BackupsInv'
<1>1. /\ task = "rows" /\ task' = "sequences" /\ ~ Clash /\ next' = Sequences(Loose)
      /\ UNCHANGED <<rows, thoughts, moment, working, dirs, read, todo, before, saw, eased, shaken>>
  BY DEF LoadRows
<1>2. Loose \in SUBSET Serial /\ Mood \in Loose
  BY SnapSets DEF Loose
<1>3. /\ next' \in [Serial -> 1..(MaxRow + 1)]
      /\ \A t \in Loose \cap Restored(read.version) : \A i \in DOMAIN Loaded[t] : i < next'[t]
      /\ \A t \in Serial \ (Loose \cap Restored(read.version)) : next'[t] = next[t]
  BY <1>1, <1>2, SequencesAre
<1>4. ASSUME NEW t \in Serial, t \in Loose \cap Restored(read.version) => ~ Cleared(t),
             t \notin Restored(read.version) \/ t \notin Loose => Ahead(t)
      PROVE  Ahead(t)'
  <2>1. CASE t \in Loose \cap Restored(read.version)
    <3>1. DOMAIN rows[t] \subseteq DOMAIN Loaded[t]
      BY <1>1, <1>4, <2>1, LoadedIs, SnapSets
    <3> QED BY <1>1, <1>3, <2>1, <3>1 DEF Ahead
  <2>2. CASE t \notin Loose \cap Restored(read.version)
    BY <1>1, <1>3, <1>4, <2>2 DEF Ahead
  <2> QED BY <2>1, <2>2
<1>5. ASSUME NEW t \in Serial \ {Mood} PROVE Ahead(t)'
  <2>1. Ahead(t)
    BY DEF BackupsInv, IdsInv
  <2>2. t \in Loose => ~ Cleared(t)
    BY DEF Loose, Cleared
  <2> QED BY <1>4, <2>1, <2>2
<1>6. ASSUME ~ shaken', ~ Cleared(Mood)' PROVE Ahead(Mood)'
  <2>1. Ahead(Mood) /\ ~ Cleared(Mood)
    BY <1>1, <1>6 DEF BackupsInv, IdsInv, Cleared
  <2> QED BY <1>4, <2>1, SnapSets
<1>7. IdsInv'
  BY <1>1, <1>5, <1>6 DEF IdsInv
<1>8. MindInv' /\ DirsInv' /\ ThoughtInv'
  BY <1>1, <1>3 DEF BackupsInv, MindInv, DirsInv, Filed, Whole, ThoughtInv
<1>9. RestoreInv' /\ ClashInv'
  BY <1>1 DEF BackupsInv, RestoreInv, Restoring, ClashInv, Clash, Cleared
<1> QED BY <1>1, <1>7, <1>8, <1>9 DEF BackupsInv, BackupInv

LEMMA CommitRowsKeeps ==
  ASSUME BackupsInv, CommitRows
  PROVE  BackupsInv'
<1>1. /\ task = "sequences" /\ rows' = Loaded /\ next' = Sequences(Serial) /\ thoughts' = Kept
      /\ task' = IF read.replace THEN "clear" ELSE "items"
      /\ shaken' = (shaken /\ read.version # 2)
      /\ UNCHANGED <<moment, working, dirs, read, todo, before, saw, eased>>
  BY DEF CommitRows
<1>2. /\ next' \in [Serial -> 1..(MaxRow + 1)]
      /\ \A t \in Serial \cap Restored(read.version) : \A i \in DOMAIN Loaded[t] : i < next'[t]
      /\ \A t \in Serial \ Restored(read.version) : next'[t] = next[t]
  BY <1>1, SequencesAre
<1>3. ~ Clash /\ read.version \in 1..2 /\ read.replace \in BOOLEAN
  BY <1>1 DEF BackupsInv, ClashInv, RestoreInv, Restoring
<1>4. IdsInv'
  <2>1. ASSUME NEW t \in Serial, t \notin Restored(read.version) => Ahead(t)
        PROVE  Ahead(t)'
    <3>1. CASE t \in Restored(read.version)
      BY <1>1, <1>2, <3>1 DEF Ahead
    <3>2. CASE t \notin Restored(read.version)
      <4>1. Loaded[t] = rows[t]
        BY <1>1, <3>2, LoadedIs, SnapSets
      <4> QED BY <1>1, <1>2, <2>1, <3>2, <4>1 DEF Ahead
    <3> QED BY <3>1, <3>2
  <2>2. \A t \in Serial \ {Mood} : Ahead(t)'
    BY <2>1 DEF BackupsInv, IdsInv
  <2>3. ASSUME ~ shaken', Mood \notin Restored(read.version) PROVE Ahead(Mood)
    <3>1. read.version # 2
      BY <2>3, SnapSets DEF Restored
    <3>2. ~ shaken /\ ~ Cleared(Mood)
      BY <1>1, <2>3, <3>1 DEF Cleared
    <3> QED BY <3>2 DEF BackupsInv, IdsInv
  <2>4. ~ shaken' => Ahead(Mood)'
    BY <2>1, <2>3, SnapSets
  <2> QED BY <2>2, <2>4 DEF IdsInv
<1>5. thoughts' \in SUBSET [mood : 0..MaxRow, made : 0..MaxRow]
  <2>1. \A th \in thoughts : [th EXCEPT !.mood = 0] \in [mood : 0..MaxRow, made : 0..MaxRow]
    BY SnapSets DEF BackupsInv, MindInv
  <2> QED BY <1>1, <2>1 DEF Kept, Unlinked, BackupsInv, MindInv
<1>6. MindInv'
  BY <1>1, <1>2, <1>5, LoadedIs DEF BackupsInv, MindInv
<1>7. ThoughtInv'
  <2>1. CASE Cleared(Mood)
    <3>1. \A th \in thoughts' : th.mood = 0
      BY <1>1, <2>1 DEF Kept, Unlinked, BackupsInv, MindInv
    <3> QED BY <3>1 DEF ThoughtInv
  <2>2. CASE ~ Cleared(Mood)
    <3>1. thoughts' = thoughts
      BY <1>1, <2>2 DEF Kept
    <3>2. ASSUME NEW i \in DOMAIN rows[Mood]
          PROVE  i \in DOMAIN Loaded[Mood] /\ Loaded[Mood][i] = rows[Mood][i]
      <4>1. i \in DOMAIN Loaded[Mood]
        BY <1>1, <2>2, <3>2, LoadedIs, SnapSets
      <4>2. CASE Mood \notin Restored(read.version)
        BY <1>1, <4>2, LoadedIs, SnapSets
      <4>3. CASE Mood \in Restored(read.version)
        <5>1. i \notin DOMAIN read.tables[Mood]
          BY <1>3, <2>2, <3>2, <4>3 DEF Clash
        <5>2. Loaded[Mood] = Over(read.tables[Mood], rows[Mood])
          BY <2>2, <4>3, SnapSets DEF Loaded
        <5> QED BY <3>2, <5>1, <5>2 DEF Over
      <4> QED BY <4>1, <4>2, <4>3
    <3> QED BY <1>1, <3>1, <3>2 DEF BackupsInv, ThoughtInv
  <2> QED BY <2>1, <2>2
<1>8. \A t \in Tables : rows'[t] = Expected(t)'
  <2>1. \A t \in Tables : rows[t] = before[t]
    BY <1>1 DEF BackupsInv, RestoreInv, Restoring
  <2>2. ASSUME NEW t \in Tables PROVE Loaded[t] = Expected(t)
    BY <1>1, <2>1, LoadedIs DEF Expected
  <2> QED BY <1>1, <2>2 DEF Expected
<1>9. RestoreInv'
  <2>1. /\ read'.dir \in 1..Len(dirs') /\ read'.version \in 1..2 /\ read'.replace \in BOOLEAN
        /\ \A t \in Restored(read'.version) : read'.tables[t] = saw'[read'.dir][t]
        /\ before' \in Contents /\ todo' = saw'[read'.dir][WM]
    BY <1>1 DEF BackupsInv, RestoreInv, Restoring
  <2>2. /\ task' \in {"clear", "items"} /\ (task' = "clear" => read'.replace)
        /\ (task' = "items" => ~ read'.replace)
    BY <1>1, <1>3
  <2> QED BY <1>8, <2>1, <2>2 DEF RestoreInv, Restoring
<1>10. DirsInv'
  BY <1>1 DEF BackupsInv, DirsInv, Filed, Whole
<1>11. task' \in {"clear", "items"}
  BY <1>1
<1> QED BY <1>4, <1>6, <1>7, <1>9, <1>10, <1>11 DEF BackupsInv, BackupInv, ClashInv

\* After the commit: the working set, item by item.
LEMMA ItemsKeep ==
  ASSUME BackupsInv, ClearWorking \/ ImportItem \/ EndRestore
  PROVE  BackupsInv'
<1>1. /\ task \in {"clear", "items"} /\ task' \in {"items", "restored"}
      /\ UNCHANGED <<rows, next, thoughts, moment, dirs, read, before, saw, eased, shaken>>
  BY DEF ClearWorking, ImportItem, EndRestore, mind
<1>2. /\ read.dir \in 1..Len(dirs) /\ read.version \in 1..2 /\ read.replace \in BOOLEAN
      /\ \A t \in Restored(read.version) : read.tables[t] = saw[read.dir][t]
      /\ before \in Contents /\ \A t \in Tables : rows[t] = Expected(t)
  BY <1>1 DEF BackupsInv, RestoreInv, Restoring
<1>3. saw[read.dir][WM] \in SUBSET (0..MaxRow)
  BY <1>2 DEF BackupsInv, DirsInv, Filed
<1> DEFINE kept == saw[read.dir][WM]
<1>4. /\ task' = "items" =>
             /\ todo' \subseteq kept /\ kept \subseteq working' \cup todo'
             /\ read.replace => working' \subseteq kept
      /\ task' = "restored" =>
             /\ kept \subseteq working'
             /\ read.replace => working' = kept
      /\ working' \subseteq 0..MaxRow
  <2>1. CASE ClearWorking
    BY <2>1 DEF ClearWorking, BackupsInv, RestoreInv, Restoring
  <2>2. CASE ImportItem
    <3>1. PICK i \in todo : working' = working \cup {i} /\ todo' = todo \ {i}
      BY <2>2 DEF ImportItem
    <3>2. /\ task = "items" /\ task' = "items" /\ todo \subseteq kept
          /\ kept \subseteq working \cup todo
          /\ read.replace => working \subseteq kept
      BY <2>2 DEF ImportItem, BackupsInv, RestoreInv, Restoring
    <3>3. working \subseteq 0..MaxRow
      BY DEF BackupsInv, MindInv
    <3> HIDE DEF kept
    <3>4. kept \subseteq 0..MaxRow
      BY <1>3 DEF kept
    <3> QED BY <3>1, <3>2, <3>3, <3>4
  <2>3. CASE EndRestore
    BY <2>3 DEF EndRestore, BackupsInv, RestoreInv, Restoring, MindInv
  <2> QED BY <2>1, <2>2, <2>3
<1>5. \A t \in Tables : rows'[t] = Expected(t)'
  BY <1>1, <1>2 DEF Expected
<1>6. RestoreInv'
  BY <1>1, <1>2, <1>4, <1>5 DEF RestoreInv, Restoring
<1>7. MindInv'
  BY <1>1, <1>4 DEF BackupsInv, MindInv
<1>8. DirsInv' /\ IdsInv' /\ ThoughtInv'
  BY <1>1 DEF BackupsInv, DirsInv, Filed, Whole, IdsInv, Ahead, ThoughtInv
<1> QED BY <1>1, <1>6, <1>7, <1>8 DEF BackupsInv, BackupInv, ClashInv

LEMMA RestoreEndsKeeps ==
  ASSUME BackupsInv, RestoreFails \/ Resume
  PROVE  BackupsInv'
<1>1. /\ task' = "idle" /\ UNCHANGED <<rows, next, thoughts, moment, working, dirs, saw, eased>>
      /\ ~ shaken' => ~ shaken /\ ~ (task = "sequences" /\ Cleared(Mood))
  <2>1. /\ task' = "idle"
        /\ UNCHANGED <<rows, next, thoughts, moment, working, dirs, saw, eased>>
    BY DEF RestoreFails, Resume, mind
  <2>2. CASE RestoreFails
    <3>1. shaken' = (shaken \/ (task = "sequences" /\ Cleared(Mood)))
      BY <2>2 DEF RestoreFails
    <3> QED BY <2>1, <3>1
  <2>3. CASE Resume
    BY <2>1, <2>3 DEF Resume
  <2> QED BY <2>2, <2>3
<1>2. MindInv' /\ DirsInv' /\ IdsInv' /\ ThoughtInv'
  BY <1>1 DEF BackupsInv, MindInv, DirsInv, Filed, Whole, IdsInv, Ahead, ThoughtInv
<1> QED BY <1>1, <1>2, WhileIdle

LEMMA NextBackupsInv ==
  ASSUME BackupsInv, [SnapshotNext]_snapshotVars
  PROVE  BackupsInv'
<1>1. CASE Mind
  BY <1>1, InsertKeeps, OverwriteKeeps, DeleteKeeps, ThinkKeeps, AttendKeeps DEF Mind
<1>2. CASE BeginSnapshot \/ WriteFile \/ WriteManifest
  BY <1>2, BeginSnapshotKeeps, WriteFileKeeps, WriteManifestKeeps
<1>3. CASE Confirm \/ SnapshotFails
  BY <1>3, BackupEndsKeeps
<1>4. CASE BeginRestore \/ LoadRows \/ CommitRows
  BY <1>4, BeginRestoreKeeps, LoadRowsKeeps, CommitRowsKeeps
<1>5. CASE ClearWorking \/ ImportItem \/ EndRestore
  BY <1>5, ItemsKeep
<1>6. CASE RestoreFails \/ Resume
  BY <1>6, RestoreEndsKeeps
<1>7. CASE UNCHANGED snapshotVars
  <2>1. UNCHANGED <<rows, next, thoughts, moment, working, dirs, task, read, todo, before,
                    saw, eased, shaken>>
    BY <1>7 DEF snapshotVars, mind
  <2>2. MindInv' /\ DirsInv' /\ BackupInv' /\ ThoughtInv'
    BY <2>1 DEF BackupsInv, MindInv, DirsInv, Filed, Whole, BackupInv, ThoughtInv
  <2>3. RestoreInv'
    BY <2>1 DEF BackupsInv, RestoreInv, Restoring, Expected
  <2>4. ClashInv' /\ IdsInv'
    BY <2>1 DEF BackupsInv, ClashInv, Clash, Cleared, IdsInv, Ahead
  <2> QED BY <2>2, <2>3, <2>4 DEF BackupsInv
<1> QED BY <1>1, <1>2, <1>3, <1>4, <1>5, <1>6, <1>7 DEF SnapshotNext

(* A restore gives back the stores as they were when the backup was made,  *)
(* touches no table that its format does not have, and Continuity is eased *)
(* only by a backup with every file (snapshot, restore, _restore_energy).  *)
THEOREM RestoresAreExact == SnapshotSpec => []RestoreIsExact
<1>1. BackupsInv => RestoreIsExact
  <2>1. SUFFICES ASSUME BackupsInv PROVE RestoreIsExact
    OBVIOUS
  <2>2. SnapshotTypeOK
    <3>1. Len(dirs) <= MaxBackups + 1 /\ Len(saw) = Len(dirs)
      BY <2>1, SnapSets DEF BackupsInv, DirsInv
    <3> QED BY <2>1, <3>1 DEF BackupsInv, MindInv, BackupInv, SnapshotTypeOK
  <2>3. ASSUME NEW d \in eased
        PROVE  dirs[d].version = 2 /\ DOMAIN dirs[d].files = Files /\ Whole(d)
    BY <2>1 DEF BackupsInv, DirsInv, Filed
  <2>4. task = "restored" =>
            /\ \A t \in Tables : rows[t] = Expected(t)
            /\ saw[read.dir][WM] \subseteq working
            /\ read.replace => working = saw[read.dir][WM]
    BY <2>1 DEF BackupsInv, RestoreInv, Restoring
  <2> QED BY <2>2, <2>3, <2>4 DEF RestoreIsExact, WM
<1> QED BY <1>1, InitBackupsInv, NextBackupsInv, PTL DEF SnapshotSpec

(* A sequence is ahead of every id of its table, but for that of mood      *)
(* between its setval and the commit and after a restore that failed there *)
(* (_clear, _resync_sequences).                                            *)
THEOREM IdsStayFresh == SnapshotSpec => []IdsNeverClash
<1>1. BackupsInv => IdsNeverClash
  BY DEF BackupsInv, IdsInv, Ahead, IdsNeverClash
<1> QED BY <1>1, InitBackupsInv, NextBackupsInv, PTL DEF SnapshotSpec

\* No step takes a thought away.
LEMMA ThoughtsStay ==
  ASSUME BackupsInv, [SnapshotNext]_snapshotVars
  PROVE  Had \subseteq Had'
<1>1. CASE UNCHANGED thoughts
  BY <1>1 DEF Had
<1>2. CASE Think
  BY <1>2 DEF Think, Had
<1>3. CASE CommitRows
  <2>1. \A th \in thoughts : [th EXCEPT !.mood = 0].made = th.made
    BY DEF BackupsInv, MindInv
  <2> QED BY <1>3, <2>1 DEF CommitRows, Kept, Unlinked, Had
<1> QED BY <1>1, <1>2, <1>3 DEF SnapshotNext, Mind, Insert, Overwrite, Delete, Attend,
        BeginSnapshot, WriteFile, WriteManifest, Confirm, SnapshotFails, BeginRestore,
        LoadRows, ClearWorking, ImportItem, EndRestore, RestoreFails, Resume, snapshotVars, mind

(* A restore never takes a thought away, and a thought that names a mood   *)
(* names the one it was had in, however the ids are used again (_clear).   *)
THEOREM ThoughtsSurvive == SnapshotSpec => ThoughtsOutlive
<1>1. BackupsInv /\ BackupsInv' /\ [SnapshotNext]_snapshotVars =>
          [/\ Had \subseteq Had'
           /\ \A th \in thoughts' : th.mood # 0 =>
                  th.mood \in DOMAIN rows[Mood]' /\ rows[Mood]'[th.mood] = th.made]_snapshotVars
  BY ThoughtsStay DEF BackupsInv, ThoughtInv
<1> QED BY <1>1, InitBackupsInv, NextBackupsInv, PTL DEF SnapshotSpec, ThoughtsOutlive

----------------------------------------------------------------------------
(* Tools.                                                                  *)

\* The three processes: where a container can be, and what is written when.
ProcessInv ==
    /\ answer \in Answers \cup {"waiting"}
    /\ launcher \in {"off", "starting", "waiting", "clearing", "collecting", "removing", "trap",
                    "over", "killed"}
    /\ container \in {"none", "up", "exited", "removed"}
    /\ answer # "waiting" => launcher \in {"off", "over", "killed"}
    /\ answer = "waiting" => launcher \notin {"off", "killed"}
    /\ launcher = "off" => container = "none"
    /\ launcher = "collecting" => container = "exited"
    /\ container = "exited" => code \in ExitCodes
    /\ runner # "off" => container = "up"

\* What the three may say.
Words == OwnLines \cup {"none", "ok", "failed", "timeout", "deaf", "bare", "runner_error",
                        "infra", "killed", "no verdict"}

\* The last line says that it went well.
GoesWell(lines) == lines # <<>> /\ Last(lines) \in {"ok", "claim"}

\* A launcher that says so repeats a line of a container that ended by itself; a
\* line of the runner's that says so is of a snippet that came to its end.
VerdictInv ==
    /\ out \in Seq(Words) /\ printed \in Seq(Words) /\ deed \in Words
    /\ code \in ExitCodes \cup {"none"}
    /\ container = "none" => out = <<>>
    /\ runner \in {"exec", "deaf", "report"} => ~ Said("ok")
    /\ Said("ok") => deed = "ok"
    /\ GoesWell(printed) =>
           /\ container \in {"exited", "removed"} /\ code \in {"0", "other"}
           /\ Said(Last(printed))
           /\ faults = 0 => GoesWell(out)
    /\ answer = "ok" => GoesWell(printed)

\* All time but that of the wait is spent in docker, and the wait is bounded.
TimeInv ==
    /\ clock \in 0..OuterLimit /\ spent \in 0..clock /\ since \in Nat
    /\ clock - spent <= HardLimit
    /\ launcher = "starting" => spent = clock
    /\ launcher = "waiting" => spent = since
    /\ launcher = "killed" /\ answer # "idle" => clock = OuterLimit

\* A container is left behind by faults, one for each rm that should take it.
FaultInv ==
    /\ faults \in 0..MaxFaults
    /\ launcher = "trap" /\ Orphaned => faults >= 1
    /\ launcher = "over" /\ Orphaned => faults >= 2

\* No step of a fetch but the one after vetting connects.
PeerInv ==
    /\ peers \cap Blocked = {} /\ records \in Seq(Addresses)
    /\ reply = "waiting" /\ step = "connect" => records # <<>> /\ Vetted(records)

BeltInv == call # "code_exec" => answer = "idle"

ToolsInv == ProcessInv /\ VerdictInv /\ TimeInv /\ FaultInv /\ PeerInv /\ BeltInv

LEMMA AppendSays ==
  ASSUME NEW s \in Seq(Words), NEW l \in Words
  PROVE  /\ Append(s, l) \in Seq(Words) /\ Append(s, l) # <<>> /\ Last(Append(s, l)) = l
         /\ Range(Append(s, l)) = Range(s) \cup {l}
<1>1. /\ Len(s) \in Nat /\ DOMAIN s = 1..Len(s)
      /\ Append(s, l) \in Seq(Words) /\ Len(Append(s, l)) = Len(s) + 1
      /\ \A i \in 1..Len(s) : Append(s, l)[i] = s[i]
      /\ Append(s, l)[Len(s) + 1] = l
  BY LenProperties, AppendProperties
<1>2. DOMAIN Append(s, l) = 1..(Len(s) + 1)
  BY <1>1, LenProperties
<1>3. 1..(Len(s) + 1) = (1..Len(s)) \cup {Len(s) + 1}
  BY <1>1
<1>4. Append(s, l) # <<>> /\ Last(Append(s, l)) = l
  <2>1. Len(<<>>) = 0 /\ Len(s) + 1 # 0
    BY <1>1, EmptySeq
  <2> QED BY <1>1, <2>1 DEF Last
<1>5. Range(Append(s, l)) = Range(s) \cup {l}
  BY <1>1, <1>2, <1>3 DEF Range
<1> QED BY <1>1, <1>4, <1>5

\* One line that is a failure.
LEMMA OneLine ==
  ASSUME NEW l \in Words, l \notin {"ok", "claim"}
  PROVE  <<l>> \in Seq(Words) /\ ~ GoesWell(<<l>>)
<1>1. <<l>> \in Seq(Words) /\ Len(<<l>>) = 1 /\ <<l>>[1] = l
  OBVIOUS
<1>2. Last(<<l>>) = l
  BY <1>1 DEF Last
<1> QED BY <1>1, <1>2 DEF GoesWell

LEMMA NoLine == <<>> \in Seq(Words) /\ ~ GoesWell(<<>>) /\ Range(<<>>) = {}
<1>1. <<>> \in Seq(Words) /\ DOMAIN <<>> = {}
  OBVIOUS
<1> QED BY <1>1 DEF GoesWell, Range

\* A container's last line is one of its lines.
LEMMA LastIsSaid ==
  ASSUME NEW s \in Seq(Words), s # <<>>
  PROVE  Last(s) \in Range(s)
<1>1. Len(s) \in DOMAIN s
  BY LenProperties, EmptySeq
<1> QED BY <1>1 DEF Last, Range

\* What a failing docker logs brings says nothing that the container did not.
LEMMA CutShortSays ==
  ASSUME NEW s \in Seq(Words), NEW q \in CutShort(s)
  PROVE  q \in Seq(Words) /\ (GoesWell(q) => Last(q) \in Range(s))
<1>1. Len(s) \in Nat /\ DOMAIN s = 1..Len(s) /\ \A i \in 1..Len(s) : s[i] \in Words
  BY LenProperties
<1>2. ASSUME NEW n \in 0..Len(s)
      PROVE  /\ SubSeq(s, 1, n) \in Seq(Words)
             /\ GoesWell(SubSeq(s, 1, n)) => Last(SubSeq(s, 1, n)) \in Range(s)
  <2> DEFINE c == SubSeq(s, 1, n)
  <2>1. n \in Nat /\ 1..n \subseteq 1..Len(s)
    BY <1>1
  <2>2. \A i \in 1..n : s[i] \in Words
    BY <1>1, <2>1
  <2>3. c \in Seq(Words) /\ \A i \in 1..n : c[i] = s[i]
    BY <1>1, <2>1, <2>2, SubSeqProperties
  <2>4. Len(c) = n
    BY <1>1, <2>1, <2>2, SubSeqProperties
  <2> HIDE DEF c
  <2>5. ASSUME c # <<>> PROVE Last(c) \in Range(s)
    <3>1. n # 0
      BY <2>4, <2>5, EmptySeq
    <3>2. n \in 1..n /\ n \in 1..Len(s)
      BY <1>1, <3>1
    <3>3. Last(c) = s[n]
      BY <2>3, <2>4, <3>2 DEF Last
    <3> QED BY <1>1, <3>2, <3>3 DEF Range
  <2>6. c \in Seq(Words) /\ (GoesWell(c) => Last(c) \in Range(s))
    BY <2>3, <2>5 DEF GoesWell
  <2> QED BY <2>6 DEF c
<1>3. CASE \E n \in 0..Len(s) : q = SubSeq(s, 1, n)
  BY <1>2, <1>3
<1>4. CASE \E n \in 0..Len(s) : q = Append(SubSeq(s, 1, n), "text")
  <2>1. PICK n \in 0..Len(s) : q = Append(SubSeq(s, 1, n), "text")
    BY <1>4
  <2>2. "text" \in Words
    BY DEF Words, OwnLines
  <2>3. q \in Seq(Words) /\ Last(q) = "text"
    BY <1>2, <2>1, <2>2, AppendSays
  <2> QED BY <2>3 DEF GoesWell
<1> QED BY <1>3, <1>4 DEF CutShort

LEMMA LimitsAre ==
  /\ Limit \in Nat /\ Grace \in Nat /\ Buffer \in Nat /\ MaxFaults \in Nat
  /\ HardLimit = Limit + Grace /\ OuterLimit = Limit + Buffer
  /\ HardLimit \in Nat /\ OuterLimit \in Nat
BY SandboxAssumption DEF HardLimit, OuterLimit

LEMMA InitToolsInv == ToolsInit => ToolsInv
<1> SUFFICES ASSUME ToolsInit PROVE ToolsInv
  OBVIOUS
<1> USE DEF ToolsInit, SandboxInit, ReadingInit
<1>1. ProcessInv
  BY DEF ProcessInv, Answers
<1>2. VerdictInv
  <2>1. /\ out = <<>> /\ printed = <<>> /\ deed = "none" /\ answer = "idle"
        /\ runner = "off" /\ code = "none"
    OBVIOUS
  <2>2. deed \in Words
    BY <2>1 DEF Words
  <2>3. out \in Seq(Words) /\ ~ GoesWell(out) /\ out = printed /\ ~ Said("ok")
    BY <2>1, NoLine DEF Said
  <2> HIDE DEF ToolsInit, SandboxInit
  <2> QED BY <2>1, <2>2, <2>3 DEF VerdictInv
<1>3. TimeInv
  BY LimitsAre DEF TimeInv
<1>4. FaultInv
  BY LimitsAre DEF FaultInv
<1>5. PeerInv
  <2>1. records = <<>> /\ <<>> \in Seq(Addresses)
    OBVIOUS
  <2> QED BY <2>1 DEF PeerInv
<1> QED BY <1>1, <1>2, <1>3, <1>4, <1>5 DEF ToolsInv, BeltInv

\* In the container: neither the clock nor the launcher moves.
LEMMA InContainerKeeps ==
  ASSUME ToolsInv, InContainer \/ ContainerStarts
  PROVE  ProcessInv' /\ VerdictInv' /\ TimeInv' /\ FaultInv' /\ answer' = answer
<1> USE DEF ToolsInv
<1>1. UNCHANGED <<answer, launcher, printed, clock, since, spent, faults>>
  BY DEF InContainer, ContainerStarts, SnippetEnds, Ends, GoesDeaf, SnippetWrites, Alarm, Report,
     LastResort, RunnerExits, BareExit, KernelKills, Exits, script, time
<1>2. TimeInv'
  BY <1>1 DEF TimeInv
<1>3. CASE ContainerStarts
  <2>1. /\ launcher \in {"starting", "killed"} /\ container = "none" /\ printed = <<>>
        /\ container' = "up" /\ runner' = "exec" /\ UNCHANGED <<code, out, deed>>
    BY <1>3 DEF ContainerStarts
  <2>2. ProcessInv'
    BY <1>1, <2>1 DEF ProcessInv
  <2>3. ~ Said("ok")
    BY <2>1, NoLine DEF VerdictInv, Said
  <2>4. VerdictInv'
    BY <1>1, <2>1, <2>3, NoLine DEF VerdictInv, Said
  <2>5. FaultInv'
    BY <1>1, <2>1 DEF FaultInv
  <2> QED BY <1>1, <1>2, <2>2, <2>4, <2>5
<1>4. CASE InContainer
  <2>1. \/ /\ runner \in {"exec", "deaf", "report", "reported"} /\ runner' # "off"
           /\ UNCHANGED <<container, code>>
        \/ /\ runner \in {"exec", "deaf", "report", "reported"} /\ runner' = "off"
           /\ container' = "exited" /\ code' \in ExitCodes
    BY <1>4 DEF InContainer, SnippetEnds, Ends, GoesDeaf, SnippetWrites, Alarm, Report, LastResort,
       RunnerExits, BareExit, KernelKills, Exits, ExitCodes
  <2>2. container = "up" /\ launcher # "off"
    BY <2>1 DEF ProcessInv
  <2>3. ProcessInv'
    BY <1>1, <2>1, <2>2 DEF ProcessInv
  <2>4. FaultInv'
    BY <1>1, <2>1, <2>2 DEF FaultInv, Orphaned
  <2>5. /\ ~ GoesWell(printed) /\ printed \in Seq(Words) /\ answer # "ok"
        /\ out \in Seq(Words) /\ deed \in Words
        /\ runner \in {"exec", "deaf", "report"} => ~ ("ok" \in Range(out))
        /\ "ok" \in Range(out) => deed = "ok"
    BY <2>2 DEF VerdictInv, Said
  <2>6. /\ out' \in Seq(Words) /\ deed' \in Words
        /\ runner' \in {"exec", "deaf", "report"} => ~ ("ok" \in Range(out'))
        /\ "ok" \in Range(out') => deed' = "ok"
    <3>1. /\ \A l \in OwnLines : l \in Words /\ l # "ok"
          /\ "runner_error" \in Words /\ "text" \in Words
          /\ {"ok", "failed", "timeout", "deaf", "bare"} \subseteq Words
      BY DEF Words, OwnLines
    <3>2. CASE SnippetEnds \/ GoesDeaf \/ Alarm \/ BareExit
      <4>1. runner \in {"exec", "deaf"} /\ out' = out /\ deed' \in Words
        BY <3>1, <3>2 DEF SnippetEnds, Ends, GoesDeaf, Alarm, BareExit, Exits
      <4> QED BY <2>5, <4>1
    <3>3. CASE \E line \in OwnLines : SnippetWrites(line)
      <4>1. PICK line \in OwnLines : SnippetWrites(line)
        BY <3>3
      <4>2. out' = Append(out, line) /\ runner' = runner /\ deed' = deed
        BY <4>1 DEF SnippetWrites
      <4>3. out' \in Seq(Words) /\ Range(out') = Range(out) \cup {line}
        BY <2>5, <3>1, <4>2, AppendSays
      <4> QED BY <2>5, <3>1, <4>2, <4>3
    <3>4. CASE Report
      <4>1. PICK line \in {deed, "text"} : out' = Append(out, line)
        BY <3>4 DEF Report
      <4>2. runner = "report" /\ runner' = "reported" /\ deed' = deed
        BY <3>4 DEF Report
      <4>3. out' \in Seq(Words) /\ Range(out') = Range(out) \cup {line}
        BY <2>5, <3>1, <4>1, AppendSays
      <4> QED BY <2>5, <4>1, <4>2, <4>3
    <3>5. CASE LastResort
      <4>1. /\ runner' = "reported" /\ deed' = deed /\ out' = Append(out, "runner_error")
        BY <3>5 DEF LastResort
      <4>2. out' \in Seq(Words) /\ Range(out') = Range(out) \cup {"runner_error"}
        BY <2>5, <3>1, <4>1, AppendSays
      <4> QED BY <2>5, <4>1, <4>2
    <3>6. CASE RunnerExits \/ KernelKills
      <4>1. runner' = "off" /\ deed' = deed /\ out' = out
        BY <3>6 DEF RunnerExits, KernelKills, Exits
      <4> QED BY <2>5, <4>1
    <3> QED BY <1>4, <3>2, <3>3, <3>4, <3>5, <3>6 DEF InContainer
  <2>7. container' # "none" /\ code' \in ExitCodes \cup {"none"}
    BY <2>1, <2>2 DEF VerdictInv
  <2>8. VerdictInv'
    BY <1>1, <2>5, <2>6, <2>7 DEF VerdictInv, Said
  <2> QED BY <1>1, <1>2, <2>3, <2>4, <2>8
<1> QED BY <1>3, <1>4

\* The launcher: its verdict is the container's last word only once that has
\* ended.
LEMMA InLauncherKeeps ==
  ASSUME ToolsInv, InLauncher
  PROVE  ProcessInv' /\ VerdictInv' /\ TimeInv' /\ FaultInv' /\ answer' = answer
<1> USE DEF ToolsInv
<1>1. /\ UNCHANGED <<answer, code, out, deed, clock, spent>>
      /\ launcher \notin {"off", "over", "killed"} /\ launcher' \notin {"off", "starting", "killed"}
  <2>1. CASE Refuses \/ StartFails \/ RunReturns
    BY <2>1 DEF Refuses, StartFails, RunReturns, inside, time
  <2>2. CASE WaitComesToNothing \/ WaitReturns
    BY <2>2 DEF WaitComesToNothing, WaitReturns, Backstop, inside, time
  <2>3. CASE Clear \/ Trap
    BY <2>3 DEF Clear, Trap, time
  <2>4. CASE Collect \/ Discard
    BY <2>4 DEF Collect, Discard, inside, time
  <2> QED BY <2>1, <2>2, <2>3, <2>4 DEF InLauncher
<1>2. answer = "waiting" /\ answer # "ok" /\ answer # "idle"
  BY <1>1 DEF ProcessInv
<1>3. /\ out \in Seq(Words) /\ deed \in Words /\ printed \in Seq(Words)
      /\ code \in ExitCodes \cup {"none"} /\ (container = "none" => out = <<>>)
      /\ runner \in {"exec", "deaf", "report"} => ~ Said("ok")
      /\ Said("ok") => deed = "ok"
      /\ GoesWell(printed) =>
             /\ container \in {"exited", "removed"} /\ code \in {"0", "other"}
             /\ Said(Last(printed))
             /\ faults = 0 => GoesWell(out)
      /\ faults \in 0..MaxFaults /\ MaxFaults \in Nat
  BY LimitsAre DEF VerdictInv, FaultInv
<1>4. /\ clock - spent <= HardLimit /\ clock \in Nat /\ HardLimit \in Nat
      /\ launcher = "starting" => spent = clock
  BY LimitsAre DEF TimeInv
<1> DEFINE Verdict == /\ printed' \in Seq(Words)
                      /\ GoesWell(printed') =>
                             /\ container' \in {"exited", "removed"} /\ code \in {"0", "other"}
                             /\ Last(printed') \in Range(out)
                             /\ faults' = 0 => GoesWell(out)
           ContainerMoves ==
               \/ UNCHANGED <<container, runner>>
               \/ container' = "removed" /\ runner' = "off" /\ container # "none"
               \/ container' = "removed" /\ runner' = "off" /\ launcher # "starting"
           Faults == faults' \in 0..MaxFaults /\ faults' >= faults
<1>5. ASSUME Verdict, ContainerMoves,
             launcher' = "collecting" => container' = "exited"
      PROVE  ProcessInv' /\ VerdictInv'
  <2>1. ProcessInv'
    BY <1>1, <1>2, <1>5 DEF ProcessInv, InLauncher, Refuses, StartFails, RunReturns,
       WaitComesToNothing, WaitReturns, Clear, Collect, Discard, Trap
  <2>2. container' = "none" => container = "none"
    BY <1>5
  <2>3. runner' # "off" => runner' = runner
    BY <1>5
  <2> HIDE DEF ContainerMoves
  <2>4. VerdictInv'
    BY <1>1, <1>2, <1>3, <1>5, <2>2, <2>3 DEF VerdictInv, Said
  <2> QED BY <2>1, <2>4
<1>6. ASSUME launcher' # "waiting" \/ since' = spent, since' \in Nat
      PROVE  TimeInv'
  BY <1>1, <1>4, <1>6 DEF TimeInv
<1>7. ASSUME Faulty PROVE faults' = faults + 1 /\ faults' \in 0..MaxFaults /\ faults' >= 1
  BY <1>3, <1>7 DEF Faulty
<1>8. ASSUME RemoveIt
      PROVE  /\ faults' \in 0..MaxFaults
             /\ \/ container' = "removed" /\ runner' = "off" /\ faults' = faults
                \/ UNCHANGED <<container, runner>> /\ faults' = faults + 1 /\ faults' >= 1
  BY <1>3, <1>7, <1>8 DEF RemoveIt
<1>9. since \in Nat
  BY DEF TimeInv
<1>10. ASSUME NEW l \in Words, l \notin {"ok", "claim"}, printed' = <<l>> PROVE Verdict
  BY <1>10, OneLine
<1>11. CASE Refuses
  <2>1. /\ launcher = "starting" /\ container = "none" /\ printed' = <<"infra">>
        /\ launcher' = "over" /\ UNCHANGED <<container, runner, faults, since>>
    BY <1>11 DEF Refuses, inside, time
  <2>2. Verdict
    BY <1>10, <2>1 DEF Words
  <2>3. FaultInv'
    BY <1>3, <2>1 DEF FaultInv, Orphaned
  <2> HIDE DEF Verdict
  <2> QED BY <1>1, <1>5, <1>6, <1>9, <2>1, <2>2, <2>3
<1>12. CASE StartFails
  <2>1. /\ launcher = "starting" /\ Faulty /\ printed' = <<"infra">>
        /\ launcher' = "trap" /\ UNCHANGED <<container, runner, since>>
    BY <1>12 DEF StartFails, inside, time
  <2>2. Verdict
    BY <1>10, <2>1 DEF Words
  <2>3. FaultInv'
    BY <1>7, <2>1 DEF FaultInv
  <2> HIDE DEF Verdict
  <2> QED BY <1>1, <1>5, <1>6, <1>9, <2>1, <2>2, <2>3
<1>13. CASE RunReturns
  <2>1. /\ launcher = "starting" /\ launcher' = "waiting" /\ since' = clock
        /\ UNCHANGED <<printed, container, runner, faults>>
    BY <1>13 DEF RunReturns, inside
  <2>2. Verdict
    BY <1>3, <2>1 DEF Said
  <2>3. FaultInv'
    BY <1>3, <2>1 DEF FaultInv
  <2>4. since' = spent /\ since' \in Nat
    BY <1>4, <2>1
  <2> HIDE DEF Verdict
  <2> QED BY <1>1, <1>5, <1>6, <2>1, <2>2, <2>3, <2>4
<1>14. CASE WaitComesToNothing
  <2>1. /\ launcher' = "clearing" /\ faults' \in 0..MaxFaults /\ (faults' = 0 => faults = 0)
        /\ UNCHANGED <<printed, container, runner, since>>
    BY <1>3, <1>7, <1>14 DEF WaitComesToNothing, inside, time
  <2>2. Verdict
    BY <1>3, <2>1 DEF Said
  <2>3. FaultInv'
    BY <2>1 DEF FaultInv
  <2> HIDE DEF Verdict
  <2> QED BY <1>1, <1>5, <1>6, <1>9, <2>1, <2>2, <2>3
<1>15. CASE WaitReturns
  <2>1. /\ launcher' = "collecting" /\ container = "exited"
        /\ UNCHANGED <<printed, container, runner, since, faults>>
    BY <1>15 DEF WaitReturns, inside, time
  <2>2. Verdict
    BY <1>3, <2>1 DEF Said
  <2>3. FaultInv'
    BY <1>3, <2>1 DEF FaultInv
  <2> HIDE DEF Verdict
  <2> QED BY <1>1, <1>5, <1>6, <1>9, <2>1, <2>2, <2>3
<1>16. CASE Clear
  <2>1. /\ launcher = "clearing" /\ launcher' = "trap" /\ RemoveIt /\ since' = since
        /\ printed' = <<"timeout">>
    BY <1>16 DEF Clear, time
  <2>2. Verdict
    BY <1>10, <2>1 DEF Words
  <2>3. FaultInv'
    BY <1>8, <2>1 DEF FaultInv, Orphaned
  <2> HIDE DEF Verdict
  <2> QED BY <1>1, <1>5, <1>6, <1>8, <1>9, <2>1, <2>2, <2>3
<1>17. CASE Collect
  <2>1. /\ launcher = "collecting" /\ launcher' = "removing"
        /\ UNCHANGED <<container, runner, since>>
        /\ \/ printed' = Shown(code, out) /\ faults' = faults
           \/ /\ faults' \in 0..MaxFaults /\ faults' >= 1
              /\ \E lines \in CutShort(out) : printed' = Shown(code, lines)
    BY <1>7, <1>17 DEF Collect, inside, time
  <2>2. container' = "exited" /\ code \in ExitCodes
    BY <2>1 DEF ProcessInv
  <2>3. PICK lines \in Seq(Words) :
            /\ printed' = Shown(code, lines)
            /\ GoesWell(lines) => Last(lines) \in Range(out) /\ (faults' = 0 => GoesWell(out))
    <3>1. CASE printed' = Shown(code, out) /\ faults' = faults
      <4>1. GoesWell(out) => Last(out) \in Range(out)
        BY <1>3, LastIsSaid DEF GoesWell
      <4> QED BY <1>3, <3>1, <4>1
    <3>2. CASE faults' >= 1 /\ \E lines \in CutShort(out) : printed' = Shown(code, lines)
      <4>1. PICK lines \in CutShort(out) : printed' = Shown(code, lines)
        BY <3>2
      <4>2. lines \in Seq(Words) /\ (GoesWell(lines) => Last(lines) \in Range(out))
        BY <1>3, CutShortSays
      <4>3. faults' # 0
        BY <2>1, <3>2
      <4> QED BY <4>1, <4>2, <4>3
    <3> QED BY <2>1, <3>1, <3>2
  <2>4. Verdict
    <3>1. CASE code = "137"
      BY <1>10, <2>3, <3>1 DEF Shown, Words
    <3>2. CASE code # "137" /\ lines # <<>>
      BY <2>2, <2>3, <3>2 DEF Shown, ExitCodes
    <3>3. CASE code # "137" /\ lines = <<>>
      BY <1>10, <2>3, <3>3 DEF Shown, Words
    <3> QED BY <3>1, <3>2, <3>3
  <2>5. FaultInv'
    BY <1>3, <2>1 DEF FaultInv
  <2> HIDE DEF Verdict
  <2> QED BY <1>1, <1>5, <1>6, <1>9, <2>1, <2>4, <2>5
<1>19. CASE Discard
  <2>1. /\ launcher = "removing" /\ launcher' = "trap" /\ RemoveIt /\ since' = since
        /\ printed' = printed
    BY <1>19 DEF Discard, time
  <2>2. Verdict
    <3>1. faults' = 0 => faults = 0
      BY <1>3, <1>8, <2>1
    <3>2. container \in {"exited", "removed"} => container' \in {"exited", "removed"}
      BY <1>8, <2>1
    <3> QED BY <1>3, <2>1, <3>1, <3>2 DEF Said
  <2>3. FaultInv'
    BY <1>8, <2>1 DEF FaultInv, Orphaned
  <2> HIDE DEF Verdict
  <2> QED BY <1>1, <1>5, <1>6, <1>8, <1>9, <2>1, <2>2, <2>3
<1>18. CASE Trap
  <2>1. /\ launcher = "trap" /\ launcher' = "over" /\ since' = since /\ printed' = printed
        /\ \/ container \in {"none", "removed"} /\ UNCHANGED <<container, runner, faults>>
           \/ container \in {"up", "exited"} /\ RemoveIt
    BY <1>18 DEF Trap, time
  <2>2. Verdict
    <3>1. faults' = 0 => faults = 0
      BY <1>3, <1>8, <2>1
    <3>2. container \in {"exited", "removed"} => container' \in {"exited", "removed"}
      BY <1>8, <2>1
    <3> QED BY <1>3, <2>1, <3>1, <3>2 DEF Said
  <2>3. FaultInv'
    <3>1. CASE container \in {"none", "removed"} /\ UNCHANGED <<container, runner, faults>>
      BY <1>3, <2>1, <3>1 DEF FaultInv, Orphaned
    <3>2. CASE container \in {"up", "exited"} /\ RemoveIt
      <4>1. faults >= 1
        BY <2>1, <3>2 DEF FaultInv, Orphaned
      <4> QED BY <1>3, <1>8, <2>1, <3>2, <4>1 DEF FaultInv, Orphaned
    <3> QED BY <2>1, <3>1, <3>2
  <2>4. ContainerMoves
    BY <1>8, <2>1
  <2> HIDE DEF Verdict, ContainerMoves
  <2> QED BY <1>1, <1>5, <1>6, <1>9, <2>1, <2>2, <2>3, <2>4
<1> QED BY <1>11, <1>12, <1>13, <1>14, <1>15, <1>16, <1>17, <1>18, <1>19 DEF InLauncher

LEMMA InToolKeeps ==
  ASSUME ToolsInv, InTool
  PROVE  /\ ProcessInv' /\ VerdictInv' /\ TimeInv' /\ FaultInv' /\ answer = "waiting"
<1> USE DEF ToolsInv
<1>1. /\ UNCHANGED <<printed, container, code, runner, out, deed, clock, since, spent, faults>>
      /\ answer = "waiting"
  BY DEF InTool, Parse, OuterWait, Running, script, inside, time
<1>2. CASE Parse
  <2>1. /\ launcher = "over" /\ launcher' = launcher
        /\ answer' = IF printed = <<>> THEN "unavailable" ELSE Projected(Last(printed))
    BY <1>2 DEF Parse, script
  <2>2. answer' \in {"ok", "failed", "unavailable", "raised"}
    BY <2>1 DEF Projected
  <2>3. answer' = "ok" => GoesWell(printed)
    BY <2>1 DEF Projected, GoesWell
  <2>5. ProcessInv' /\ FaultInv' /\ TimeInv'
    BY <1>1, <2>1, <2>2 DEF ProcessInv, FaultInv, Orphaned, TimeInv, Answers
  <2>6. VerdictInv'
    BY <1>1, <2>3 DEF VerdictInv, Said
  <2> QED BY <1>1, <2>5, <2>6
<1>3. CASE OuterWait
  <2>1. /\ launcher # "over" /\ clock >= OuterLimit
        /\ answer' = "unavailable" /\ launcher' = "killed"
    BY <1>3 DEF OuterWait
  <2>2. launcher # "off"
    BY <1>1 DEF ProcessInv
  <2>3. clock = OuterLimit
    BY <2>1, LimitsAre DEF TimeInv
  <2>4. ProcessInv' /\ FaultInv' /\ TimeInv'
    BY <1>1, <2>1, <2>2, <2>3 DEF ProcessInv, FaultInv, TimeInv, Answers
  <2>5. VerdictInv'
    BY <1>1, <2>1 DEF VerdictInv, Said
  <2> QED BY <1>1, <2>4, <2>5
<1> QED BY <1>2, <1>3 DEF InTool

LEMMA TickKeeps ==
  ASSUME ToolsInv, Tick
  PROVE  ProcessInv' /\ VerdictInv' /\ TimeInv' /\ FaultInv' /\ answer' = answer
<1> USE DEF ToolsInv
<1>1. /\ UNCHANGED <<answer, launcher, printed, container, code, runner, out, deed, since, faults>>
      /\ answer = "waiting" /\ clock < OuterLimit /\ clock' = clock + 1
      /\ ~ (launcher = "waiting" /\ clock - since >= HardLimit)
      /\ spent' = IF launcher = "waiting" THEN spent ELSE spent + 1
  BY DEF Tick, Running, Backstop, script, inside
<1>2. ProcessInv' /\ VerdictInv' /\ FaultInv'
  BY <1>1 DEF ProcessInv, VerdictInv, Said, FaultInv, Orphaned
<1>3. /\ clock \in 0..OuterLimit /\ spent \in 0..clock /\ since \in Nat
      /\ clock - spent <= HardLimit /\ OuterLimit \in Nat /\ HardLimit \in Nat
      /\ launcher = "starting" => spent = clock
      /\ launcher = "waiting" => spent = since
      /\ launcher # "killed"
  BY <1>1, LimitsAre DEF TimeInv, ProcessInv
<1>4. /\ clock' \in 0..OuterLimit /\ spent' \in 0..clock' /\ clock' - spent' <= HardLimit
      /\ launcher = "starting" => spent' = clock'
      /\ launcher = "waiting" => spent' = since
  <2>1. CASE launcher = "waiting"
    BY <1>1, <1>3, <2>1
  <2>2. CASE launcher # "waiting"
    BY <1>1, <1>3, <2>2
  <2> QED BY <2>1, <2>2
<1>5. TimeInv'
  BY <1>1, <1>3, <1>4 DEF TimeInv
<1> QED BY <1>1, <1>2, <1>5

\* A fetch connects where it has just looked, and only there.
LEMMA ReadingKeeps ==
  ASSUME PeerInv, ReadingNext
  PROVE  PeerInv'
<1> USE DEF PeerInv
<1>1. CASE Resolved
  <2>1. PICK q \in SeqOf(Addresses, 2) \ {<<>>} :
            /\ records' = q
            /\ (step' = "connect" /\ Vetted(q)) \/ reply' = "blocked"
    BY <1>1 DEF Resolved, Leave
  <2>2. q \in Seq(Addresses)
    <3>1. PICK m \in 0..2 : q \in [1..m -> Addresses]
      BY <2>1 DEF SeqOf
    <3> QED BY <3>1
  <2>3. peers' = peers
    BY <1>1 DEF Resolved
  <2> QED BY <2>1, <2>2, <2>3 DEF Vetted
<1>2. CASE Connect
  <2>1. PICK a \in Pinned(records) : peers' = peers \cup {a}
    BY <1>2 DEF Connect
  <2>2. records # <<>> /\ Vetted(records) /\ records \in Seq(Addresses)
    BY <1>2 DEF Connect, Going
  <2>3. a = records[1] /\ 1 \in DOMAIN records
    BY <2>1, <2>2 DEF Pinned
  <2>4. a \notin Blocked
    BY <2>2, <2>3 DEF Vetted
  <2>5. records' = records /\ ~ (reply' = "waiting" /\ step' = "connect")
    BY <1>2 DEF Connect, Going, Leave
  <2> QED BY <2>1, <2>2, <2>4, <2>5
<1>3. CASE Unresolved \/ TooManyRedirects \/ RequestInvalid \/ BodyFails \/ Read
  BY <1>3 DEF Unresolved, TooManyRedirects, RequestInvalid, BodyFails, Read, Leave
<1>4. CASE Redirect \/ Answered
  BY <1>4 DEF Redirect, Answered
<1>5. CASE Chunk
  BY <1>5 DEF Chunk, Going
<1> QED BY <1>1, <1>2, <1>3, <1>4, <1>5 DEF ReadingNext

LEMMA NothingSaid ==
  ASSUME out' = <<>>, printed' = <<>>, deed' = "none", code' = "none", runner' = "off",
         answer' # "ok"
  PROVE  VerdictInv'
<1>1. deed' \in Words
  BY DEF Words
<1>2. /\ out' \in Seq(Words) /\ printed' \in Seq(Words)
      /\ ~ GoesWell(printed') /\ ~ ("ok" \in Range(out'))
  BY NoLine
<1> QED BY <1>1, <1>2 DEF VerdictInv, Said

LEMMA NextToolsInv ==
  ASSUME ToolsInv, [ToolsNext]_toolsVars
  PROVE  ToolsInv'
<1> USE DEF ToolsInv
<1>1. CASE CallCode
  <2>1. /\ call' = "code_exec" /\ UNCHANGED <<reply, step, records, peers, faults>>
        /\ container' = "none" /\ runner' = "off" /\ out' = <<>> /\ deed' = "none"
        /\ code' = "none"
        /\ printed' = <<>> /\ clock' = 0 /\ since' = 0 /\ spent' = 0
        /\ \/ answer' \in {"failed", "unavailable"} /\ launcher' = "off"
           \/ answer' = "waiting" /\ launcher' = "starting"
    BY <1>1 DEF CallCode, CodeRefused, Launch, Fresh, readingVars
  <2>2. ProcessInv'
    BY <2>1 DEF ProcessInv, Answers
  <2>3. VerdictInv'
    BY <2>1, NothingSaid
  <2>4. TimeInv' /\ FaultInv'
    BY <2>1, LimitsAre DEF TimeInv, FaultInv, Orphaned
  <2> QED BY <2>1, <2>2, <2>3, <2>4 DEF PeerInv, BeltInv
<1>2. CASE CallFetch
  <2>1. /\ call = "none" /\ peers' = {} /\ records' = <<>> /\ step' = "validate"
        /\ UNCHANGED <<answer, launcher, printed, container, code, runner, out, deed,
                       clock, since, spent, faults>>
    BY <1>2 DEF CallFetch, Free, Fetch, sandboxVars, script, inside, time
  <2>2. PeerInv'
    <3>1. <<>> \in Seq(Addresses)
      OBVIOUS
    <3> QED BY <2>1, <3>1 DEF PeerInv
  <2> QED BY <2>1, <2>2 DEF ProcessInv, VerdictInv, Said, TimeInv, FaultInv, Orphaned, BeltInv
<1>3. CASE Browse \/ Search \/ SearchFails \/ UNCHANGED toolsVars
  <2>1. UNCHANGED <<reply, step, records, peers, call, answer, launcher, printed, container,
                    code, runner, out, deed, clock, since, spent, faults>>
    BY <1>3 DEF Browse, Search, SearchFails, toolsVars, beltVars, readingVars, sandboxVars,
       script, inside, time
  <2> QED BY <2>1 DEF ProcessInv, VerdictInv, Said, TimeInv, FaultInv, Orphaned, PeerInv, BeltInv
<1>4. CASE Commit
  <2>1. /\ answer' = "idle" /\ launcher' = "off" /\ printed' = <<>>
        /\ container' = "none" /\ runner' = "off" /\ out' = <<>> /\ deed' = "none"
        /\ code' = "none" /\ clock' = 0 /\ since' = 0 /\ spent' = 0 /\ faults' = 0
        /\ reply' = "idle" /\ peers' = {} /\ records' = <<>>
    BY <1>4 DEF Commit, Forgotten, Fresh
  <2>2. ProcessInv' /\ FaultInv' /\ TimeInv'
    BY <2>1, LimitsAre DEF ProcessInv, FaultInv, TimeInv, Orphaned, Answers
  <2>3. VerdictInv'
    BY <2>1, NothingSaid
  <2>4. PeerInv'
    <3>1. <<>> \in Seq(Addresses)
      OBVIOUS
    <3> QED BY <2>1, <3>1 DEF PeerInv
  <2> QED BY <2>1, <2>2, <2>3, <2>4 DEF BeltInv
<1>5. CASE Sandboxed
  <2>1. SandboxNext /\ UNCHANGED <<reply, step, records, peers, call>>
    BY <1>5 DEF Sandboxed, readingVars, beltVars
  <2>2. /\ ProcessInv' /\ VerdictInv' /\ TimeInv' /\ FaultInv'
        /\ answer' = answer \/ answer = "waiting"
    BY <2>1, InContainerKeeps, InLauncherKeeps, InToolKeeps, TickKeeps DEF SandboxNext
  <2> QED BY <2>1, <2>2 DEF PeerInv, BeltInv
<1>6. CASE Fetching
  <2>1. /\ ReadingNext
        /\ UNCHANGED <<call, answer, launcher, printed, container, code, runner, out, deed,
                       clock, since, spent, faults>>
    BY <1>6 DEF Fetching, sandboxVars, beltVars, script, inside, time
  <2>2. PeerInv'
    BY <2>1, ReadingKeeps
  <2> QED BY <2>1, <2>2 DEF ProcessInv, VerdictInv, Said, TimeInv, FaultInv, Orphaned, BeltInv
<1> QED BY <1>1, <1>2, <1>3, <1>4, <1>5, <1>6 DEF ToolsNext

(* A run that is reported as a success rests on a line that says so and    *)
(* that its own container wrote before it ended by itself: the runner's,   *)
(* of a snippet that did end well, or one the snippet wrote in its name;   *)
(* never on a line of the launcher's, an exit code, a kill or the backstop *)
(* (main, run-sandbox.sh's branches, _last_json_line,                      *)
(* parse_sandbox_verdict).                                                 *)
THEOREM SuccessIsReal == ToolsSpec => []SuccessIsVouched
<1>1. ToolsInv => SuccessIsVouched
  <2>1. SUFFICES ASSUME ToolsInv, answer = "ok"
                 PROVE  /\ code \in {"0", "other"}
                        /\ (deed = "ok" /\ Said("ok")) \/ Said("claim")
                        /\ faults = 0 => Last(out) \in {"ok", "claim"}
    BY DEF SuccessIsVouched
  <2> QED BY <2>1 DEF ToolsInv, VerdictInv, GoesWell
<1> QED BY <1>1, InitToolsInv, NextToolsInv, PTL DEF ToolsSpec

(* Whatever the limits are, if only the buffer exceeds the grace: the tool *)
(* kills the launcher only when docker took, outside the wait, all that    *)
(* the buffer leaves, and a container stays behind only after such a kill  *)
(* or after two failures of docker (the outer wait, HARD, the trap).       *)
THEOREM LauncherSuffices == ToolsSpec => []LauncherIsEnough
<1>1. ToolsInv => LauncherIsEnough
  <2>1. SUFFICES ASSUME ToolsInv PROVE LauncherIsEnough
    OBVIOUS
  <2>2. SandboxTypeOK
    BY <2>1, LimitsAre DEF ToolsInv, ProcessInv, VerdictInv, TimeInv, FaultInv, SandboxTypeOK
  <2>3. OuterWaitIsLast
    <3>1. SUFFICES ASSUME launcher = "killed", answer # "idle" PROVE spent >= Buffer - Grace
      BY DEF OuterWaitIsLast
    <3>2. clock = OuterLimit /\ clock - spent <= HardLimit /\ spent \in Int
      BY <2>1, <3>1, LimitsAre DEF ToolsInv, TimeInv
    <3> QED BY <3>2, LimitsAre
  <2>4. OnlyKillsOrphan
    <3>1. SUFFICES ASSUME Orphaned, answer \in Answers PROVE launcher = "killed" \/ faults >= 2
      BY DEF OnlyKillsOrphan
    <3>2. launcher \in {"over", "killed"}
      BY <2>1, <3>1 DEF ToolsInv, ProcessInv, Orphaned, Answers
    <3> QED BY <2>1, <3>1, <3>2 DEF ToolsInv, FaultInv
  <2> QED BY <2>2, <2>3, <2>4 DEF LauncherIsEnough
<1> QED BY <1>1, InitToolsInv, NextToolsInv, PTL DEF ToolsSpec

(* Whatever a name resolves to at each hop, no connection is made to an    *)
(* address that is refused (validate_target, _build_request).              *)
THEOREM PeersAreVetted == ToolsSpec => []OnlyVettedPeers
<1>1. ToolsInv => OnlyVettedPeers
  BY DEF ToolsInv, PeerInv, OnlyVettedPeers
<1> QED BY <1>1, InitToolsInv, NextToolsInv, PTL DEF ToolsSpec

----------------------------------------------------------------------------
(* Tools: what the extractor shows of a page.                              *)

\* A token more counts where it is.
LEMMA CountStep ==
  ASSUME NEW p, NEW t, NEW n \in Nat, NEW m \in 1..(n + 1)
  PROVE  /\ Count(p, m, n, t) \in Nat
         /\ Count(p, m, n + 1, t) = Count(p, m, n, t) + (IF p[n + 1] = t THEN 1 ELSE 0)
<1> DEFINE S == {k \in m..n : p[k] = t}
           T == {k \in m..(n + 1) : p[k] = t}
<1>1. IsFiniteSet(S) /\ Cardinality(S) \in Nat
  <2>1. IsFiniteSet(m..n)
    BY FS_Interval
  <2>2. S \subseteq m..n
    OBVIOUS
  <2>3. IsFiniteSet(S)
    BY <2>1, <2>2, FS_Subset
  <2> QED BY <2>3, FS_CardinalityType
<1>2. T = IF p[n + 1] = t THEN S \cup {n + 1} ELSE S
  <2>1. m..(n + 1) = (m..n) \cup {n + 1}
    OBVIOUS
  <2> QED BY <2>1
<1>3. n + 1 \notin S
  OBVIOUS
<1> HIDE DEF S, T
<1>4. Cardinality(T) = Cardinality(S) + (IF p[n + 1] = t THEN 1 ELSE 0)
  <2>1. Cardinality(S \cup {n + 1}) = Cardinality(S) + 1
    BY <1>1, <1>3, FS_AddElement
  <2> QED BY <1>1, <1>2, <2>1
<1>5. Count(p, m, n, t) = Cardinality(S) /\ Count(p, m, n + 1, t) = Cardinality(T)
  BY DEF Count, S, T
<1> QED BY <1>1, <1>4, <1>5

LEMMA CountNothing ==
  ASSUME NEW p, NEW t, NEW n \in Nat
  PROVE  Count(p, n + 1, n, t) = 0
<1>1. {k \in (n + 1)..n : p[k] = t} = {}
  OBVIOUS
<1> QED BY <1>1, FS_EmptySet DEF Count

\* What a stretch counts is what its two parts count.
LEMMA CountParts ==
  ASSUME NEW p, NEW t, NEW n \in Nat, NEW k \in 0..n, NEW m \in 1..(k + 1)
  PROVE  Count(p, m, n, t) = Count(p, m, k, t) + Count(p, k + 1, n, t)
<1> DEFINE S == {i \in m..k : p[i] = t}
           T == {i \in (k + 1)..n : p[i] = t}
           U == {i \in m..n : p[i] = t}
<1>1. IsFiniteSet(S) /\ IsFiniteSet(T)
  <2>1. IsFiniteSet(m..k) /\ IsFiniteSet((k + 1)..n)
    BY FS_Interval
  <2>2. S \subseteq m..k /\ T \subseteq (k + 1)..n
    OBVIOUS
  <2> QED BY <2>1, <2>2, FS_Subset
<1>2. U = S \cup T /\ S \cap T = {}
  <2>1. m..n = (m..k) \cup ((k + 1)..n) /\ (m..k) \cap ((k + 1)..n) = {}
    OBVIOUS
  <2> QED BY <2>1
<1> HIDE DEF S, T, U
<1>3. Cardinality(S \cup T) = Cardinality(S) + Cardinality(T) - Cardinality(S \cap T)
  BY <1>1, FS_Union
<1>4. Cardinality(S \cap T) = 0
  BY <1>2, FS_EmptySet
<1>5. Cardinality(S) \in Nat /\ Cardinality(T) \in Nat
  BY <1>1, FS_CardinalityType
<1>6. Cardinality(U) = Cardinality(S) + Cardinality(T)
  BY <1>2, <1>3, <1>4, <1>5
<1> QED BY <1>6 DEF Count, S, T, U

\* How much more a stretch opens than it closes, as the parser counts.
Opens(p, m, n) == Excess(p, m, n) + Count(p, m, n, "<lone>")

LEMMA OpensStep ==
  ASSUME NEW p, NEW n \in Nat, NEW m \in 1..(n + 1)
  PROVE  /\ Opens(p, m, n) \in Int
         /\ p[n + 1] \in {"<skip>", "<lone>"} => Opens(p, m, n + 1) = Opens(p, m, n) + 1
         /\ p[n + 1] = "</skip>" => Opens(p, m, n + 1) = Opens(p, m, n) - 1
         /\ p[n + 1] \notin {"<skip>", "<lone>", "</skip>"} => Opens(p, m, n + 1) = Opens(p, m, n)
<1> DEFINE a == Count(p, m, n, "<skip>")
           b == Count(p, m, n, "</skip>")
           e == Count(p, m, n, "<lone>")
           c == Count(p, m, n + 1, "<skip>")
           d == Count(p, m, n + 1, "</skip>")
           f == Count(p, m, n + 1, "<lone>")
<1>1. /\ a \in Nat /\ c = a + (IF p[n + 1] = "<skip>" THEN 1 ELSE 0)
      /\ b \in Nat /\ d = b + (IF p[n + 1] = "</skip>" THEN 1 ELSE 0)
      /\ e \in Nat /\ f = e + (IF p[n + 1] = "<lone>" THEN 1 ELSE 0)
  BY CountStep
<1>2. Opens(p, m, n) = a - b + e /\ Opens(p, m, n + 1) = c - d + f
  BY DEF Opens, Excess
<1> HIDE DEF a, b, c, d, e, f
<1> QED BY <1>1, <1>2

LEMMA OpensNothing ==
  ASSUME NEW p, NEW n \in Nat
  PROVE  Opens(p, n + 1, n) = 0
BY CountNothing DEF Opens, Excess

\* Where the parser is in a title, or skipping.
Hidden(p, n) ==
    \/ \E m \in 1..n : p[m] = "<title>" /\ \A k \in m..n : p[k] # "</title>"
    \/ \E m \in 1..n : Opens(p, m, n) > 0

Visible(p) == {n \in 1..Len(p) : p[n] \notin Tags /\ ~ Hidden(p, n)}

Carried == [depth : Nat, title : BOOLEAN, parts : Seq(STRING)]

\* Places up to n that show.
Up(p, n) == Visible(p) \cap 1..n

\* What the parser carries after n tokens says where it stands in the page.
DepthSays(x, p, n) ==
    /\ \A m \in 1..(n + 1) : Opens(p, m, n) <= x.depth
    /\ \E m \in 1..(n + 1) : Opens(p, m, n) = x.depth

TitleSays(x, p, n) ==
    x.title <=> \E m \in 1..n : p[m] = "<title>" /\ \A k \in m..n : p[k] # "</title>"

Says(x, p, n) ==
    /\ x \in Carried
    /\ DepthSays(x, p, n)
    /\ TitleSays(x, p, n)
    /\ TakenAt(x.parts, p, Up(p, n))

LEMMA FedIs ==
  ASSUME NEW x \in Carried, NEW t \in STRING
  PROVE  /\ Fed(x, t) \in Carried
         /\ Fed(x, t).depth = CASE t \in {"<skip>", "<lone>"} -> x.depth + 1
                                [] t = "</skip>" -> IF x.depth > 0 THEN x.depth - 1 ELSE 0
                                [] OTHER -> x.depth
         /\ Fed(x, t).title = CASE t = "<title>" -> TRUE
                                [] t = "</title>" -> FALSE
                                [] OTHER -> x.title
         /\ t \in Tags => Fed(x, t).parts = x.parts
         /\ t \notin Tags /\ (x.title \/ x.depth # 0) => Fed(x, t).parts = x.parts
<1>1. x.depth \in Nat /\ x.title \in BOOLEAN /\ x.parts \in Seq(STRING)
  BY DEF Carried
<1>2. CASE t \in {"<skip>", "<lone>"}
  <2>1. Fed(x, t) = [x EXCEPT !.depth = x.depth + 1]
    BY <1>2 DEF Fed
  <2>2. x.depth + 1 \in Nat /\ t \in Tags
        /\ t \notin {"</skip>", "<title>", "</title>"}
    BY <1>1, <1>2 DEF Tags
  <2>3. /\ Fed(x, t) \in Carried /\ Fed(x, t).depth = x.depth + 1
        /\ Fed(x, t).title = x.title /\ Fed(x, t).parts = x.parts
    BY <1>1, <2>1, <2>2 DEF Carried
  <2> QED BY <1>2, <2>2, <2>3
<1>3. CASE t = "</skip>"
  <2>1. Fed(x, t) = [x EXCEPT !.depth = IF x.depth > 0 THEN x.depth - 1 ELSE 0]
    BY <1>3 DEF Fed
  <2>2. (IF x.depth > 0 THEN x.depth - 1 ELSE 0) \in Nat
    BY <1>1
  <2> QED BY <1>1, <1>3, <2>1, <2>2 DEF Carried, Tags
<1>4. CASE t = "<title>"
  <2>1. Fed(x, t) = [x EXCEPT !.title = TRUE]
    BY <1>4 DEF Fed
  <2> QED BY <1>1, <1>4, <2>1 DEF Carried, Tags
<1>5. CASE t = "</title>"
  <2>1. Fed(x, t) = [x EXCEPT !.title = FALSE]
    BY <1>5 DEF Fed
  <2> QED BY <1>1, <1>5, <2>1 DEF Carried, Tags
<1>6. CASE t \notin Tags
  <2>1. Fed(x, t) = IF x.title \/ x.depth # 0 THEN x ELSE [x EXCEPT !.parts = Append(x.parts, t)]
    BY <1>6 DEF Fed, Tags
  <2>2. Append(x.parts, t) \in Seq(STRING)
    BY <1>1
  <2> QED BY <1>1, <1>6, <2>1, <2>2 DEF Carried, Tags
<1> QED BY <1>2, <1>3, <1>4, <1>5, <1>6 DEF Tags

LEMMA DepthStep ==
  ASSUME NEW p, NEW n \in Nat, NEW x \in Carried, p[n + 1] \in STRING, DepthSays(x, p, n)
  PROVE  DepthSays(Fed(x, p[n + 1]), p, n + 1)
<1> DEFINE t == p[n + 1]
           d == x.depth
           e == Fed(x, t).depth
<1>1. d \in Nat /\ e \in Nat
  BY FedIs DEF Carried
<1>2. e = CASE t \in {"<skip>", "<lone>"} -> d + 1
            [] t = "</skip>" -> IF d > 0 THEN d - 1 ELSE 0
            [] OTHER -> d
  BY FedIs
<1>3. \A m \in 1..(n + 1) :
        /\ Opens(p, m, n) \in Int /\ Opens(p, m, n) <= d
        /\ t \in {"<skip>", "<lone>"} => Opens(p, m, n + 1) = Opens(p, m, n) + 1
        /\ t = "</skip>" => Opens(p, m, n + 1) = Opens(p, m, n) - 1
        /\ t \notin {"<skip>", "<lone>", "</skip>"} => Opens(p, m, n + 1) = Opens(p, m, n)
  BY OpensStep DEF DepthSays
<1>4. PICK w \in 1..(n + 1) : Opens(p, w, n) = d
  BY DEF DepthSays
<1>5. Opens(p, n + 2, n + 1) = 0
  <2>1. n + 1 \in Nat /\ (n + 1) + 1 = n + 2
    OBVIOUS
  <2>2. Opens(p, (n + 1) + 1, n + 1) = 0
    BY <2>1, OpensNothing
  <2> QED BY <2>1, <2>2
<1> HIDE DEF t, d, e
<1>6. ASSUME NEW m \in 1..(n + 2) PROVE Opens(p, m, n + 1) <= e
  <2>1. CASE m = n + 2
    BY <1>1, <1>5, <2>1
  <2>2. CASE m # n + 2
    <3>1. m \in 1..(n + 1)
      BY <2>2
    <3> DEFINE o == Opens(p, m, n)
               q == Opens(p, m, n + 1)
    <3>2. /\ o \in Int /\ o <= d
          /\ t \in {"<skip>", "<lone>"} => q = o + 1
          /\ t = "</skip>" => q = o - 1
          /\ t \notin {"<skip>", "<lone>", "</skip>"} => q = o
      BY <1>3, <3>1
    <3> HIDE DEF o, q
    <3>3. q <= e
      BY <1>1, <1>2, <3>2
    <3> QED BY <3>3 DEF q
  <2> QED BY <2>1, <2>2
<1>7. \E m \in 1..(n + 2) : Opens(p, m, n + 1) = e
  <2>1. CASE t = "</skip>" /\ d = 0
    <3>1. e = 0
      BY <1>2, <2>1
    <3>2. n + 2 \in 1..(n + 2)
      OBVIOUS
    <3> QED BY <1>5, <3>1, <3>2
  <2>2. CASE ~ (t = "</skip>" /\ d = 0)
    <3> DEFINE q == Opens(p, w, n + 1)
    <3>1. /\ t \in {"<skip>", "<lone>"} => q = d + 1
          /\ t = "</skip>" => q = d - 1
          /\ t \notin {"<skip>", "<lone>", "</skip>"} => q = d
      BY <1>3, <1>4
    <3> HIDE DEF q
    <3>2. q = e
      BY <1>1, <1>2, <2>2, <3>1
    <3>3. w \in 1..(n + 2)
      OBVIOUS
    <3> QED BY <3>2, <3>3 DEF q
  <2> QED BY <2>1, <2>2
<1>8. (n + 1) + 1 = n + 2
  OBVIOUS
<1> QED BY <1>6, <1>7, <1>8 DEF DepthSays, e, t

LEMMA TitleStep ==
  ASSUME NEW p, NEW n \in Nat, NEW x \in Carried, p[n + 1] \in STRING, TitleSays(x, p, n)
  PROVE  TitleSays(Fed(x, p[n + 1]), p, n + 1)
<1> DEFINE t == p[n + 1]
           Open(m, i) == p[m] = "<title>" /\ \A k \in m..i : p[k] # "</title>"
<1>1. Fed(x, t).title = CASE t = "<title>" -> TRUE [] t = "</title>" -> FALSE [] OTHER -> x.title
  BY FedIs
<1>2. CASE t = "<title>"
  <2>1. Open(n + 1, n + 1) /\ n + 1 \in 1..(n + 1)
    BY <1>2
  <2> QED BY <1>1, <1>2, <2>1 DEF TitleSays
<1>3. CASE t = "</title>"
  <2>1. \A m \in 1..(n + 1) : n + 1 \in m..(n + 1)
    OBVIOUS
  <2>2. \A m \in 1..(n + 1) : ~ Open(m, n + 1)
    BY <1>3, <2>1
  <2> QED BY <1>1, <1>3, <2>2 DEF TitleSays
<1>4. CASE t \notin {"<title>", "</title>"}
  <2>1. Fed(x, t).title = x.title
    BY <1>1, <1>4
  <2>2. ASSUME NEW m \in 1..n PROVE Open(m, n) <=> Open(m, n + 1)
    <3>1. m..(n + 1) = (m..n) \cup {n + 1}
      OBVIOUS
    <3> QED BY <1>4, <3>1
  <2>3. ~ Open(n + 1, n + 1)
    BY <1>4
  <2>4. 1..(n + 1) = (1..n) \cup {n + 1}
    OBVIOUS
  <2>5. (\E m \in 1..(n + 1) : Open(m, n + 1)) <=> (\E m \in 1..n : Open(m, n))
    <3> HIDE DEF Open
    <3> QED BY <2>2, <2>3, <2>4
  <2> QED BY <2>1, <2>5 DEF TitleSays
<1> QED BY <1>2, <1>3, <1>4

\* A token shows where the parser is neither in a title nor skipping.
LEMMA HiddenIs ==
  ASSUME NEW p, NEW n \in Nat, NEW x \in Carried, DepthSays(x, p, n), TitleSays(x, p, n)
  PROVE  Hidden(p, n) <=> x.title \/ x.depth # 0
<1>1. x.depth \in Nat
  BY DEF Carried
<1>2. (\E m \in 1..n : p[m] = "<title>" /\ \A k \in m..n : p[k] # "</title>") <=> x.title
  BY DEF TitleSays
<1>4. (\E m \in 1..n : Opens(p, m, n) > 0) <=> x.depth # 0
  <2>1. ASSUME NEW m \in 1..n, Opens(p, m, n) > 0 PROVE x.depth # 0
    <3>1. m \in 1..(n + 1)
      OBVIOUS
    <3>2. Opens(p, m, n) <= x.depth /\ Opens(p, m, n) \in Int
      BY <3>1, OpensStep DEF DepthSays
    <3> QED BY <1>1, <2>1, <3>2
  <2>2. ASSUME x.depth # 0 PROVE \E m \in 1..n : Opens(p, m, n) > 0
    <3>1. PICK m \in 1..(n + 1) : Opens(p, m, n) = x.depth
      BY DEF DepthSays
    <3>2. m # n + 1
      BY <2>2, <3>1, OpensNothing
    <3>3. m \in 1..n
      BY <3>2
    <3>4. Opens(p, m, n) > 0
      BY <1>1, <2>2, <3>1
    <3> QED BY <3>3, <3>4
  <2> QED BY <2>1, <2>2
<1> QED BY <1>2, <1>4 DEF Hidden

\* A token that shows is appended, and any other is not.
LEMMA TakenStep ==
  ASSUME NEW p, NEW s \in Seq(STRING), NEW n \in Nat, NEW S, S \subseteq 1..n,
         p[n + 1] \in STRING, TakenAt(s, p, S)
  PROVE  TakenAt(Append(s, p[n + 1]), p, S \cup {n + 1})
<1> DEFINE t == p[n + 1]
           l == Len(s)
<1>1. PICK where \in [1..l -> S] :
        /\ \A i, j \in 1..l : i < j => where[i] < where[j]
        /\ \A i \in S : \E j \in 1..l : where[j] = i
        /\ \A i \in 1..l : s[i] = p[where[i]]
  BY DEF TakenAt
<1>2. /\ l \in Nat /\ Len(Append(s, t)) = l + 1 /\ Append(s, t)[l + 1] = t
      /\ \A i \in 1..l : Append(s, t)[i] = s[i]
  BY LenProperties, AppendProperties
<1> DEFINE to == [i \in 1..(l + 1) |-> IF i = l + 1 THEN n + 1 ELSE where[i]]
<1> HIDE DEF t, l
<1>3. 1..(l + 1) = (1..l) \cup {l + 1} /\ \A i \in 1..l : i # l + 1 /\ i < l + 1
  BY <1>2
<1>4. \A i \in 1..l : where[i] \in S /\ where[i] < n + 1 /\ to[i] = where[i]
  <2>1. \A i \in 1..l : where[i] \in S /\ to[i] = where[i]
    BY <1>3
  <2>2. \A i \in S : i < n + 1
    OBVIOUS
  <2> QED BY <2>1, <2>2
<1>5. to[l + 1] = n + 1
  BY <1>3
<1>6. to \in [1..(l + 1) -> S \cup {n + 1}]
  BY <1>3, <1>4
<1> HIDE DEF to
<1>7. \A i, j \in 1..(l + 1) : i < j => to[i] < to[j]
  <2> SUFFICES ASSUME NEW i \in 1..(l + 1), NEW j \in 1..(l + 1), i < j PROVE to[i] < to[j]
    OBVIOUS
  <2>1. i \in 1..l
    BY <1>2
  <2>2. CASE j = l + 1
    BY <1>4, <1>5, <2>1, <2>2
  <2>3. CASE j # l + 1
    BY <1>1, <1>3, <1>4, <2>1, <2>3
  <2> QED BY <2>2, <2>3
<1>8. \A i \in S \cup {n + 1} : \E j \in 1..(l + 1) : to[j] = i
  <2> SUFFICES ASSUME NEW i \in S \cup {n + 1} PROVE \E j \in 1..(l + 1) : to[j] = i
    OBVIOUS
  <2>1. CASE i = n + 1
    BY <1>3, <1>5, <2>1
  <2>2. CASE i \in S
    BY <1>1, <1>3, <1>4, <2>2
  <2> QED BY <2>1, <2>2
<1>9. \A i \in 1..(l + 1) : Append(s, t)[i] = p[to[i]]
  <2> SUFFICES ASSUME NEW i \in 1..(l + 1) PROVE Append(s, t)[i] = p[to[i]]
    OBVIOUS
  <2>1. CASE i = l + 1
    BY <1>2, <1>5, <2>1 DEF t
  <2>2. CASE i \in 1..l
    BY <1>1, <1>2, <1>4, <2>2
  <2> QED BY <1>3, <2>1, <2>2
<1>10. TakenAt(Append(s, t), p, S \cup {n + 1})
  BY <1>2, <1>6, <1>7, <1>8, <1>9 DEF TakenAt
<1> QED BY <1>10 DEF t

LEMMA SaysStep ==
  ASSUME NEW p \in Seq(STRING), NEW n \in Nat, n < Len(p), NEW x, Says(x, p, n)
  PROVE  Says(Fed(x, p[n + 1]), p, n + 1)
<1> DEFINE t == p[n + 1]
           y == Fed(x, t)
<1>1. Len(p) \in Nat /\ n + 1 \in 1..Len(p) /\ t \in STRING
  BY LenProperties
<1>2. x \in Carried /\ y \in Carried
  BY <1>1, FedIs DEF Says
<1>3. DepthSays(y, p, n + 1) /\ TitleSays(y, p, n + 1)
  BY <1>1, <1>2, DepthStep, TitleStep DEF Says
<1>4. Hidden(p, n + 1) <=> y.title \/ y.depth # 0
  <2>1. n + 1 \in Nat
    OBVIOUS
  <2> QED BY <1>2, <1>3, <2>1, HiddenIs
<1>5. t \notin Tags => y.title = x.title /\ y.depth = x.depth
  BY <1>1, <1>2, FedIs DEF Tags
<1>6. /\ t \in Tags \/ (x.title \/ x.depth # 0) => y.parts = x.parts
      /\ t \notin Tags /\ ~ (x.title \/ x.depth # 0) => y.parts = Append(x.parts, t)
  <2>1. t \in Tags \/ (x.title \/ x.depth # 0) => y.parts = x.parts
    BY <1>1, <1>2, FedIs
  <2>2. CASE t \notin Tags /\ ~ (x.title \/ x.depth # 0)
    <3>1. y = [x EXCEPT !.parts = Append(x.parts, t)]
      BY <2>2 DEF Fed, Tags
    <3> QED BY <1>2, <2>2, <3>1 DEF Carried
  <2> QED BY <2>1, <2>2
<1>7. TakenAt(x.parts, p, Up(p, n)) /\ x.parts \in Seq(STRING)
  BY DEF Says, Carried
<1>8. n + 1 \in Visible(p) <=> t \notin Tags /\ ~ (x.title \/ x.depth # 0)
  BY <1>1, <1>4, <1>5 DEF Visible
<1>9. 1..(n + 1) = (1..n) \cup {n + 1}
  OBVIOUS
<1> HIDE DEF t, y
<1>10. TakenAt(y.parts, p, Up(p, n + 1))
  <2>1. CASE n + 1 \in Visible(p)
    <3>1. Up(p, n + 1) = Up(p, n) \cup {n + 1} /\ Up(p, n) \subseteq 1..n
      BY <1>9, <2>1 DEF Up
    <3>2. y.parts = Append(x.parts, t)
      BY <1>6, <1>8, <2>1
    <3>3. TakenAt(Append(x.parts, p[n + 1]), p, Up(p, n) \cup {n + 1})
      <4>1. p[n + 1] \in STRING
        BY <1>1 DEF t
      <4> QED BY <1>7, <3>1, <4>1, TakenStep
    <3> QED BY <3>1, <3>2, <3>3 DEF t
  <2>2. CASE n + 1 \notin Visible(p)
    <3>1. Up(p, n + 1) = Up(p, n)
      BY <1>9, <2>2 DEF Up
    <3>2. y.parts = x.parts
      BY <1>6, <1>8, <2>2
    <3> QED BY <1>7, <3>1, <3>2
  <2> QED BY <2>1, <2>2
<1> QED BY <1>2, <1>3, <1>10 DEF Says, y, t

LEMMA OutsideSays ==
  ASSUME NEW p \in Seq(STRING)
  PROVE  Outside \in Carried /\ Says(Outside, p, 0)
<1>1. Outside \in Carried /\ Outside.depth = 0 /\ ~ Outside.title /\ Outside.parts = <<>>
  BY DEF Outside, Carried
<1>2. DepthSays(Outside, p, 0)
  <2>1. Opens(p, 0 + 1, 0) = 0
    BY OpensNothing
  <2>2. 1..(0 + 1) = {0 + 1}
    OBVIOUS
  <2> QED BY <1>1, <2>1, <2>2 DEF DepthSays
<1>3. TitleSays(Outside, p, 0)
  BY <1>1 DEF TitleSays
<1>4. TakenAt(Outside.parts, p, Up(p, 0))
  <2>1. Up(p, 0) = {} /\ 1..Len(<<>>) = {}
    BY DEF Up
  <2>2. [i \in 1..Len(<<>>) |-> i] \in [1..Len(<<>>) -> Up(p, 0)]
    BY <2>1
  <2> QED BY <1>1, <2>1, <2>2 DEF TakenAt
<1> QED BY <1>1, <1>2, <1>3, <1>4 DEF Says

\* A parser's run over a page exists, however long the page.
LEMMA RunExists ==
  ASSUME NEW p \in Seq(STRING)
  PROVE  /\ Parsed(p) \in [0..Len(p) -> Carried] /\ Parsed(p)[0] = Outside
         /\ \A i \in 1..Len(p) : Parsed(p)[i] = Fed(Parsed(p)[i - 1], p[i])
<1> DEFINE l == Len(p)
           Runs(k) == {x \in [0..k -> Carried] :
                         x[0] = Outside /\ \A i \in 1..k : x[i] = Fed(x[i - 1], p[i])}
           Missing == {k \in 0..l : Runs(k) = {}}
<1>1. l \in Nat /\ \A i \in 1..l : p[i] \in STRING
  BY LenProperties
<1> HIDE DEF l
<1>2. Missing = {}
  <2> SUFFICES ASSUME Missing # {} PROVE FALSE
    OBVIOUS
  <2>1. PICK k \in Missing : \A j \in Missing : k <= j
    <3>1. Missing \subseteq Nat
      BY <1>1
    <3> HIDE DEF Missing
    <3> QED BY <3>1, Least
  <2>2. k \in 0..l /\ Runs(k) = {}
    BY <2>1
  <2>3. k # 0
    <3>1. [i \in 0..0 |-> Outside] \in Runs(0)
      BY OutsideSays
    <3> QED BY <2>2, <3>1
  <2>4. k \in 1..l /\ k - 1 \in 0..l /\ k - 1 \notin Missing
    <3>1. k \in 1..l /\ k - 1 \in 0..l /\ ~ (k <= k - 1)
      BY <1>1, <2>2, <2>3
    <3> HIDE DEF Missing
    <3> QED BY <2>1, <3>1
  <2>5. PICK x \in Runs(k - 1) : TRUE
    BY <2>4
  <2> DEFINE y == [i \in 0..k |-> IF i = k THEN Fed(x[k - 1], p[k]) ELSE x[i]]
  <2>6. x \in [0..(k - 1) -> Carried] /\ x[0] = Outside
        /\ \A i \in 1..(k - 1) : x[i] = Fed(x[i - 1], p[i])
    BY <2>5
  <2>7. Fed(x[k - 1], p[k]) \in Carried
    <3>1. x[k - 1] \in Carried /\ p[k] \in STRING
      BY <1>1, <2>4, <2>6
    <3> QED BY <3>1, FedIs
  <2>8. /\ y \in [0..k -> Carried] /\ y[k] = Fed(x[k - 1], p[k])
        /\ \A i \in 0..(k - 1) : y[i] = x[i]
    <3>1. 0..k = (0..(k - 1)) \cup {k} /\ k \notin 0..(k - 1)
      BY <1>1, <2>4
    <3> QED BY <2>6, <2>7, <3>1
  <2> HIDE DEF y
  <2>9. y[0] = Outside
    <3>1. 0 \in 0..(k - 1)
      BY <1>1, <2>4
    <3> QED BY <2>6, <2>8, <3>1
  <2>10. \A i \in 1..k : y[i] = Fed(y[i - 1], p[i])
    <3> SUFFICES ASSUME NEW i \in 1..k PROVE y[i] = Fed(y[i - 1], p[i])
      OBVIOUS
    <3>1. i - 1 \in 0..(k - 1) /\ (i = k \/ i \in 1..(k - 1))
      BY <1>1, <2>4
    <3>2. y[i - 1] = x[i - 1]
      BY <2>8, <3>1
    <3>3. CASE i = k
      BY <2>8, <3>2, <3>3
    <3>4. CASE i \in 1..(k - 1)
      <4>1. i \in 0..(k - 1)
        BY <3>4
      <4> QED BY <2>6, <2>8, <3>2, <3>4, <4>1
    <3> QED BY <3>1, <3>3, <3>4
  <2>11. y \in Runs(k)
    BY <2>8, <2>9, <2>10
  <2> QED BY <2>2, <2>11
<1>3. PICK x \in Runs(l) : TRUE
  <2>1. l \in 0..l
    BY <1>1
  <2>2. l \notin Missing
    <3> HIDE DEF Missing
    <3> QED BY <1>2
  <2> QED BY <2>1, <2>2
<1>4. /\ x \in [0..l -> Carried] /\ x[0] = Outside
      /\ \A i \in 1..l : x[i] = Fed(x[i - 1], p[i])
  BY <1>3
<1> DEFINE Eq(f) == f = [i \in 0..l |-> IF i = 0 THEN Outside ELSE Fed(f[i - 1], p[i])]
<1>5. Eq(x)
  <2>1. \A i \in 0..l : x[i] = IF i = 0 THEN Outside ELSE Fed(x[i - 1], p[i])
    <3>1. \A i \in 0..l : i = 0 \/ i \in 1..l
      BY <1>1
    <3> QED BY <1>4, <3>1
  <2>2. x = [i \in 0..l |-> x[i]]
    BY <1>4
  <2> QED BY <2>1, <2>2
<1>6. Parsed(p) = CHOOSE f : Eq(f)
  BY DEF Parsed, l
<1>7. Eq(Parsed(p))
  <2> HIDE DEF Eq
  <2> QED BY <1>5, <1>6
<1> DEFINE f == Parsed(p)
<1> HIDE DEF f
<1>8. \A i \in 0..l : f[i] = IF i = 0 THEN Outside ELSE Fed(f[i - 1], p[i])
  <2>1. f = [i \in 0..l |-> IF i = 0 THEN Outside ELSE Fed(f[i - 1], p[i])]
    BY <1>7 DEF f
  <2> QED BY <2>1
<1>9. DOMAIN f = 0..l /\ f = [i \in 0..l |-> f[i]]
  <2>1. f = [i \in 0..l |-> IF i = 0 THEN Outside ELSE Fed(f[i - 1], p[i])]
    BY <1>7 DEF f
  <2> QED BY <1>8, <2>1
<1>10. f[0] = Outside /\ \A i \in 1..l : f[i] = Fed(f[i - 1], p[i])
  <2>1. 0 \in 0..l /\ \A i \in 1..l : i \in 0..l /\ i # 0
    BY <1>1
  <2> QED BY <1>8, <2>1
<1>11. \A i \in 0..l : f[i] \in Carried
  <2> DEFINE Bad == {i \in 0..l : f[i] \notin Carried}
  <2> SUFFICES ASSUME Bad # {} PROVE FALSE
    OBVIOUS
  <2>1. PICK k \in Bad : \A j \in Bad : k <= j
    <3>1. Bad \subseteq Nat
      BY <1>1
    <3> HIDE DEF Bad
    <3> QED BY <3>1, Least
  <2>2. k \in 0..l /\ f[k] \notin Carried
    BY <2>1
  <2>3. k # 0
    BY <1>10, <2>2, OutsideSays
  <2>4. k \in 1..l /\ k - 1 \in 0..l /\ k - 1 \notin Bad
    <3>1. k \in 1..l /\ k - 1 \in 0..l /\ ~ (k <= k - 1)
      BY <1>1, <2>2, <2>3
    <3> HIDE DEF Bad
    <3> QED BY <2>1, <3>1
  <2>5. f[k - 1] \in Carried /\ p[k] \in STRING
    BY <1>1, <2>4
  <2>6. Fed(f[k - 1], p[k]) \in Carried
    BY <2>5, FedIs
  <2> QED BY <1>10, <2>2, <2>4, <2>6
<1>12. f \in [0..l -> Carried]
  BY <1>9, <1>11
<1> QED BY <1>10, <1>12 DEF f, l

\* The text of a page is what shows of it, whatever nests, is left open or
\* closes what was never opened.
LEMMA ExtractedShows ==
  ASSUME NEW p \in Seq(STRING)
  PROVE  Extracted(p) \in Seq(STRING) /\ TakenAt(Extracted(p), p, Visible(p))
<1> DEFINE l == Len(p)
           f == Parsed(p)
           Bad == {i \in 0..l : ~ Says(f[i], p, i)}
<1>1. l \in Nat
  BY LenProperties
<1>2. f[0] = Outside /\ \A i \in 1..l : f[i] = Fed(f[i - 1], p[i])
  BY RunExists
<1> HIDE DEF f
<1>3. Bad = {}
  <2> SUFFICES ASSUME Bad # {} PROVE FALSE
    OBVIOUS
  <2>1. PICK k \in Bad : \A j \in Bad : k <= j
    <3>1. Bad \subseteq Nat
      OBVIOUS
    <3> HIDE DEF Bad
    <3> QED BY <3>1, Least
  <2>2. k \in 0..l /\ ~ Says(f[k], p, k)
    BY <2>1
  <2>3. k # 0
    BY <1>2, <2>2, OutsideSays
  <2>4. k \in 1..l /\ k - 1 \in 0..l /\ k - 1 \notin Bad
    <3>1. k \in 1..l /\ k - 1 \in 0..l /\ ~ (k <= k - 1)
      BY <1>1, <2>2, <2>3
    <3> HIDE DEF Bad
    <3> QED BY <2>1, <3>1
  <2>5. Says(f[k - 1], p, k - 1)
    BY <2>4
  <2>6. k - 1 \in Nat /\ k - 1 < Len(p) /\ (k - 1) + 1 = k
    BY <1>1, <2>4
  <2>7. Says(Fed(f[k - 1], p[(k - 1) + 1]), p, (k - 1) + 1)
    BY <2>5, <2>6, SaysStep
  <2> QED BY <1>2, <2>2, <2>4, <2>6, <2>7
<1>4. Says(f[l], p, l)
  <2>1. l \in 0..l
    BY <1>1
  <2>2. l \notin Bad
    <3> HIDE DEF Bad
    <3> QED BY <1>3
  <2> QED BY <2>1, <2>2
<1>5. Up(p, l) = Visible(p)
  BY DEF Up, Visible
<1>6. Extracted(p) = f[l].parts
  BY DEF Extracted, f
<1> HIDE DEF l
<1> QED BY <1>4, <1>5, <1>6 DEF Says, Carried

\* What stands in an element or a title is hidden from the reader.
LEMMA InsideIsHidden ==
  ASSUME NEW p, NEW n \in Nat, Len(p) \in Nat, Inside(p, n)
  PROVE  Hidden(p, n)
<1>1. PICK m \in 1..(n - 1), k \in (n + 1)..Len(p) : Element(p, m, k) \/ Title(p, m, k)
  BY DEF Inside
<1>2. m \in 1..n /\ m \in 1..(n + 1) /\ n \in m..(k - 1) /\ m..n \subseteq m..(k - 1)
  OBVIOUS
<1>3. CASE Element(p, m, k)
  <2>1. Excess(p, m, n) > 0
    BY <1>2, <1>3 DEF Element
  <2>2. Excess(p, m, n) \in Int /\ Count(p, m, n, "<lone>") \in Nat
    BY <1>2, CountStep DEF Excess
  <2>3. Opens(p, m, n) > 0
    BY <2>1, <2>2 DEF Opens
  <2> QED BY <1>2, <2>3 DEF Hidden
<1>4. CASE Title(p, m, k)
  BY <1>2, <1>4 DEF Title, Hidden
<1> QED BY <1>1, <1>3, <1>4

\* Where every element has its end tag, nothing else is hidden: the last start
\* tag that is still open at a token is that of an element around it.
LEMMA HiddenIsInside ==
  ASSUME NEW p \in Seq(STRING), WellFormed(p), "<lone>" \notin Range(p),
         NEW n \in 1..Len(p), p[n] \notin Tags, Hidden(p, n)
  PROVE  Inside(p, n)
<1>1. Len(p) \in Nat /\ DOMAIN p = 1..Len(p) /\ n \in Nat
  BY LenProperties
<1>2. ASSUME NEW m \in 1..n, NEW k \in 1..Len(p), m # n, k > n, Element(p, m, k) \/ Title(p, m, k)
      PROVE  Inside(p, n)
  <2>1. m \in 1..(n - 1) /\ k \in (n + 1)..Len(p)
    BY <1>1, <1>2
  <2> QED BY <1>2, <2>1 DEF Inside
<1>3. CASE \E m \in 1..n : p[m] = "<title>" /\ \A k \in m..n : p[k] # "</title>"
  <2>1. PICK m \in 1..n : p[m] = "<title>" /\ \A k \in m..n : p[k] # "</title>"
    BY <1>3
  <2>2. m \in 1..Len(p) /\ m # n
    BY <2>1 DEF Tags
  <2>3. PICK k \in m..Len(p) : Title(p, m, k)
    BY <2>1, <2>2 DEF WellFormed
  <2>4. ~ (k \in m..n)
    BY <2>1, <2>3 DEF Title
  <2>5. k \in 1..Len(p) /\ k > n
    BY <1>1, <2>4
  <2> QED BY <1>2, <2>2, <2>3, <2>5
<1>4. CASE \E m \in 1..n : Opens(p, m, n) > 0
  <2> DEFINE E(m, k) == Excess(p, m, k)
             T == {m \in 1..n : E(m, n) > 0}
  <2>1. \A m \in 1..n : Opens(p, m, n) = E(m, n)
    <3> SUFFICES ASSUME NEW m \in 1..n PROVE Opens(p, m, n) = Excess(p, m, n)
      OBVIOUS
    <3>1. \A i \in m..n : i \in DOMAIN p
      BY <1>1
    <3>2. \A i \in m..n : p[i] # "<lone>"
      BY <3>1 DEF Range
    <3>3. {i \in m..n : p[i] = "<lone>"} = {}
      BY <3>2
    <3>4. Count(p, m, n, "<lone>") = 0
      BY <3>3, FS_EmptySet DEF Count
    <3>5. m \in 1..(n + 1)
      BY <1>1
    <3>6. Excess(p, m, n) \in Int
      BY <1>1, <3>5, CountStep DEF Excess
    <3> QED BY <3>4, <3>6 DEF Opens
  <2>2. ASSUME NEW k \in 0..n, NEW m \in 1..(k + 1)
        PROVE  E(m, n) = E(m, k) + E(k + 1, n) /\ E(m, k) \in Int /\ E(k + 1, n) \in Int
    <3>1. /\ Count(p, m, n, "<skip>") = Count(p, m, k, "<skip>") + Count(p, k + 1, n, "<skip>")
          /\ Count(p, m, n, "</skip>") = Count(p, m, k, "</skip>") + Count(p, k + 1, n, "</skip>")
      BY <1>1, CountParts
    <3>2. k \in Nat /\ k + 1 \in 1..(n + 1)
      BY <1>1
    <3>3. /\ Count(p, m, k, "<skip>") \in Nat /\ Count(p, m, k, "</skip>") \in Nat
          /\ Count(p, k + 1, n, "<skip>") \in Nat /\ Count(p, k + 1, n, "</skip>") \in Nat
      BY <1>1, <3>2, CountStep
    <3> QED BY <3>1, <3>3 DEF Excess
  <2>3. ASSUME NEW m \in 1..n
        PROVE  E(m, m) \in Int /\ (E(m, m) > 0 => p[m] = "<skip>")
    <3>1. m - 1 \in Nat /\ (m - 1) + 1 = m /\ m \in 1..((m - 1) + 1)
      OBVIOUS
    <3>2. \A t : Count(p, m, m - 1, t) = 0
      BY <3>1, CountNothing
    <3>3. \A t : Count(p, m, m, t) = Count(p, m, m - 1, t) + (IF p[m] = t THEN 1 ELSE 0)
      <4> SUFFICES ASSUME NEW t
                   PROVE  Count(p, m, m, t) = Count(p, m, m - 1, t) + (IF p[m] = t THEN 1 ELSE 0)
        OBVIOUS
      <4>1. Count(p, m, (m - 1) + 1, t) = Count(p, m, m - 1, t) + (IF p[(m - 1) + 1] = t THEN 1 ELSE 0)
        BY <3>1, CountStep
      <4> QED BY <3>1, <4>1
    <3> QED BY <3>2, <3>3 DEF Excess
  <2>4. E(n + 1, n) = 0
    BY <1>1, CountNothing DEF Excess
  <2>5. T \subseteq 0..n /\ T # {}
    BY <1>4, <2>1
  <2> HIDE DEF T
  <2>6. PICK m \in T : \A i \in T : i <= m
    BY <1>1, <2>5, Greatest
  <2>7. m \in 1..n /\ E(m, n) > 0 /\ \A i \in 1..n : E(i, n) > 0 => i <= m
    BY <2>6 DEF T
  <2> HIDE DEF E
  <2>8. \A i \in (m + 1)..(n + 1) : ~ (E(i, n) > 0)
    <3> SUFFICES ASSUME NEW i \in (m + 1)..(n + 1) PROVE ~ (E(i, n) > 0)
      OBVIOUS
    <3>1. CASE i = n + 1
      BY <2>4, <3>1
    <3>2. CASE i # n + 1
      <4>1. i \in 1..n /\ ~ (i <= m)
        BY <1>1, <2>7, <3>2
      <4> QED BY <2>7, <4>1
    <3> QED BY <3>1, <3>2
  <2>9. p[m] = "<skip>"
    <3>1. m \in 0..n /\ m \in 1..(m + 1) /\ m + 1 \in (m + 1)..(n + 1)
      BY <1>1, <2>7
    <3>2. E(m, n) = E(m, m) + E(m + 1, n) /\ E(m + 1, n) \in Int
      BY <2>2, <3>1
    <3>3. ~ (E(m + 1, n) > 0) /\ E(m, m) \in Int
      BY <2>3, <2>7, <2>8, <3>1
    <3>4. E(m, m) > 0
      BY <2>7, <3>2, <3>3
    <3> QED BY <2>3, <2>7, <3>4
  <2>10. m \in 1..Len(p) /\ m # n
    BY <1>1, <2>7, <2>9 DEF Tags
  <2>11. PICK k \in m..Len(p) : Element(p, m, k)
    BY <2>9, <2>10 DEF WellFormed
  <2>12. k > n
    <3>1. SUFFICES ASSUME k <= n PROVE FALSE
      BY <1>1, <2>10
    <3>2. k \in 0..n /\ m \in 1..(k + 1) /\ k + 1 \in (m + 1)..(n + 1)
      BY <1>1, <2>7, <3>1
    <3>3. E(m, n) = E(m, k) + E(k + 1, n) /\ E(k + 1, n) \in Int
      BY <2>2, <3>2
    <3>4. E(m, k) = 0
      BY <2>11 DEF Element, E
    <3>5. ~ (E(k + 1, n) > 0)
      BY <2>8, <3>2
    <3> QED BY <2>7, <3>3, <3>4, <3>5
  <2> QED BY <1>1, <1>2, <2>7, <2>10, <2>11, <2>12
<1> QED BY <1>3, <1>4 DEF Hidden

\* What the parser lets through, by HTML's own reckoning.
LEMMA VisibleShows ==
  ASSUME NEW p \in Seq(STRING)
  PROVE  /\ Visible(p) \subseteq Showing(p)
         /\ WellFormed(p) /\ "<lone>" \notin Range(p) => Visible(p) = Showing(p)
<1>1. Len(p) \in Nat
  BY LenProperties
<1>2. Visible(p) \subseteq Showing(p)
  <2> SUFFICES ASSUME NEW n \in 1..Len(p), ~ Hidden(p, n) PROVE ~ Inside(p, n)
    BY DEF Visible, Showing
  <2>1. n \in Nat
    BY <1>1
  <2> QED BY <1>1, <2>1, InsideIsHidden
<1>3. ASSUME WellFormed(p), "<lone>" \notin Range(p) PROVE Showing(p) \subseteq Visible(p)
  <2> SUFFICES ASSUME NEW n \in 1..Len(p), p[n] \notin Tags, ~ Inside(p, n) PROVE ~ Hidden(p, n)
    BY DEF Visible, Showing
  <2> QED BY <1>3, HiddenIsInside
<1> QED BY <1>2, <1>3

\* A connection follows a hop that was within the cap; a page is read whole or
\* said to be cut.
PageInv ==
    /\ ReadingTypeOK
    /\ reply = "waiting" /\ step = "connect" => hop <= MaxRedirects
    /\ page \in Seq(STRING) /\ body \in Seq(STRING)
    /\ WholePage /\ plain => text = page
    /\ WholePage /\ ~ plain => TakenAt(text, page, Visible(page))

LEMMA CutIs ==
  ASSUME NEW s \in Seq(STRING), NEW n \in 0..Len(s)
  PROVE  SubSeq(s, 1, n) \in Seq(STRING) /\ Len(SubSeq(s, 1, n)) = n
<1>1. Len(s) \in Nat /\ \A i \in 1..Len(s) : s[i] \in STRING
  BY LenProperties
<1>2. \A i \in 1..n : s[i] \in STRING
  BY <1>1
<1>3. SubSeq(s, 1, n) \in Seq(STRING) /\ Len(SubSeq(s, 1, n)) = IF 1 <= n THEN n - 1 + 1 ELSE 0
  BY <1>1, <1>2, SubSeqProperties
<1> QED BY <1>1, <1>3

\* The last step of a fetch: the text is capped, and if it is not, it is whole.
LEMMA ReadKeeps ==
  ASSUME PageInv, Read
  PROVE  PageInv'
<1>1. /\ reply = "waiting" /\ UNCHANGED <<step, hop, records, peers, page, body>>
      /\ AtCap(body) \/ body = page
  BY DEF Read, Going
<1>2. CASE \E r \in {"http_status", "non_text", "raised"} :
             Leave(r) /\ UNCHANGED <<plain, text, truncated>>
  <2>1. reply' \in {"http_status", "non_text", "raised"} /\ UNCHANGED <<text, truncated>>
    BY <1>2 DEF Leave
  <2> QED BY <1>1, <2>1 DEF PageInv, ReadingTypeOK, Replies, WholePage
<1> DEFINE e == IF plain' THEN body ELSE Extracted(body)
<1>3. CASE /\ Leave("ok") /\ plain' \in BOOLEAN
           /\ text' = Capped(e) /\ truncated' = More(body, e)
  <2>1. /\ e \in Seq(STRING)
        /\ ~ plain' => TakenAt(e, body, Visible(body))
        /\ plain' => e = body
    BY ExtractedShows DEF PageInv
  <2> HIDE DEF e
  <2>2. Len(e) \in Nat /\ MaxText \in Nat
    BY <2>1, LenProperties, ReadingAssumption
  <2>3. Len(text') <= MaxText
    <3> DEFINE n == IF Len(e) > MaxText THEN MaxText ELSE Len(e)
    <3>1. n \in 0..Len(e) /\ n <= MaxText
      BY <2>2
    <3>2. text' = SubSeq(e, 1, n)
      BY <1>3 DEF Capped
    <3> HIDE DEF n
    <3> QED BY <2>1, <3>1, <3>2, CutIs
  <2>4. ASSUME ~ truncated' PROVE body = page /\ text' = e
    <3>1. ~ (AtCap(body) \/ Len(e) > MaxText)
      BY <1>3, <2>4 DEF More
    <3>2. body = page
      BY <1>1, <3>1
    <3>3. text' = SubSeq(e, 1, Len(e))
      BY <1>3, <3>1 DEF Capped
    <3>4. text' = e
      BY <2>1, <3>3, SubSeqFull
    <3> QED BY <3>2, <3>4
  <2>5. reply' = "ok"
    BY <1>3 DEF Leave
  <2>6. /\ WholePage' /\ plain' => text' = page'
        /\ WholePage' /\ ~ plain' => TakenAt(text', page', Visible(page'))
    BY <1>1, <2>1, <2>4 DEF WholePage
  <2> QED BY <1>1, <2>3, <2>5, <2>6 DEF PageInv, ReadingTypeOK, Replies
<1> QED BY <1>2, <1>3 DEF Read

LEMMA PagesKeep ==
  ASSUME PeerInv, PageInv, ReadingNext
  PROVE  PageInv'
<1> USE DEF PageInv, ReadingTypeOK, Replies, WholePage
<1>0. MaxRedirects \in Nat /\ MaxBytes \in Nat /\ hop \in Nat
  BY ReadingAssumption
<1>1. CASE Unresolved \/ TooManyRedirects \/ RequestInvalid \/ BodyFails
  <2>1. /\ reply' \in {"blocked", "raised", "timeout", "http_error"}
        /\ UNCHANGED <<hop, peers, page, body, text, truncated>>
    BY <1>1 DEF Unresolved, TooManyRedirects, RequestInvalid, BodyFails, Leave
  <2> QED BY <2>1
<1>2. CASE Resolved
  <2>1. /\ reply' = "blocked" \/ (reply' = "waiting" /\ hop <= MaxRedirects)
        /\ UNCHANGED <<hop, peers, page, body, text, truncated>>
    BY <1>2 DEF Resolved, Leave, Going
  <2> QED BY <2>1
<1>3. CASE Connect
  <2>1. PICK a \in Pinned(records) : peers' = peers \cup {a}
    BY <1>3 DEF Connect
  <2>2. /\ hop' = hop + 1 /\ hop <= MaxRedirects
        /\ UNCHANGED <<page, body, text, truncated>>
        /\ \/ reply' = "waiting" /\ step' = "respond"
           \/ reply' \in {"timeout", "http_error"}
    BY <1>3 DEF Connect, Going, Leave
  <2>3. a \in Addresses
    <3>1. records # <<>> /\ records \in Seq(Addresses)
      BY <1>3 DEF Connect, Going, PeerInv
    <3> QED BY <2>1, <3>1, HeadTailProperties DEF Pinned
  <2>4. peers' \subseteq Addresses
    BY <2>1, <2>3
  <2>5. hop' \in 0..(MaxRedirects + 1)
    BY <1>0, <2>2
  <2> QED BY <2>2, <2>4, <2>5
<1>4. CASE Redirect \/ Answered
  <2>1. /\ reply = "waiting" /\ reply' = "waiting" /\ step' \in {"validate", "body"}
        /\ page' = page \/ page' \in Pages
        /\ UNCHANGED <<hop, peers, body, text, truncated>>
    BY <1>4 DEF Redirect, Answered, Going
  <2>2. page' \in Seq(STRING)
    BY <2>1, ReadingAssumption
  <2> QED BY <2>1, <2>2
<1>5. CASE Chunk
  <2>1. PICK n \in (Len(body) + 1)..Len(page) :
            body' = SubSeq(page, 1, IF n > MaxBytes THEN MaxBytes ELSE n)
    BY <1>5 DEF Chunk
  <2>2. /\ reply = "waiting" /\ step = "body"
        /\ UNCHANGED <<reply, step, hop, peers, page, text, truncated>>
    BY <1>5 DEF Chunk, Going
  <2> DEFINE k == IF n > MaxBytes THEN MaxBytes ELSE n
  <2>3. k \in 0..Len(page) /\ k <= MaxBytes
    <3>1. Len(body) \in Nat /\ Len(page) \in Nat
      BY LenProperties
    <3> QED BY <1>0, <3>1
  <2>4. body' = SubSeq(page, 1, k)
    BY <2>1
  <2> HIDE DEF k
  <2>5. body' \in Seq(STRING) /\ Len(body') <= MaxBytes
    BY <2>3, <2>4, CutIs
  <2> QED BY <2>2, <2>5
<1>6. CASE Read
  BY <1>6, ReadKeeps
<1> QED BY <1>1, <1>2, <1>3, <1>4, <1>5, <1>6 DEF ReadingNext

\* What was browsed last is ranked.
ShownInv == ToolsTypeOK /\ NewestOfEachZone

\* r may stand where s is left out.
Keeps(r, s) ==
    /\ r.zone = "undated" => s.zone = "undated"
    /\ r.zone = s.zone /\ r.zone # "undated" => r.reads >= s.reads

LEMMA LaterKeeps ==
  ASSUME NEW r \in Rows, NEW s \in Rows, Fresher(r, s) \/ ~ Fresher(s, r)
  PROVE  Keeps(r, s)
<1>1. r.reads \in Nat /\ s.reads \in Nat
  BY DEF Rows
<1> QED BY <1>1 DEF Fresher, Keeps

LEMMA NewsIsRanked ==
  ASSUME NEW q \in Seq(Rows), NEW n \in Nat, NEW p \in News(q, n)
  PROVE  /\ Len(p) \in Nat /\ Len(p) <= n
         /\ \A i \in Range(p), j \in Usable(q) \ Range(p) : Keeps(q[i], q[j])
<1> DEFINE all == Cardinality(Usable(q))
           k == IF n < all THEN n ELSE all
<1>1. Len(q) \in Nat /\ DOMAIN q = 1..Len(q) /\ \A i \in DOMAIN q : q[i] \in Rows
  BY LenProperties
<1>2. all \in Nat
  <2>1. IsFiniteSet(1..Len(q))
    BY <1>1, UpTo
  <2>2. Usable(q) \subseteq 1..Len(q)
    BY <1>1 DEF Usable
  <2>3. IsFiniteSet(Usable(q))
    BY <2>1, <2>2, FS_Subset
  <2> QED BY <2>3, FS_CardinalityType
<1>3. k \in Nat /\ k <= n
  BY <1>2
<1>4. /\ p \in [1..k -> Usable(q)]
      /\ \A i \in Usable(q) \ Range(p) : \A j \in DOMAIN p : Before(q, p[j], i)
  BY DEF News, HowMany
<1> HIDE DEF k
<1>5. Len(p) = k
  BY <1>3, <1>4, FunctionIsSeq
<1>6. ASSUME NEW i \in Range(p), NEW j \in Usable(q) \ Range(p)
      PROVE  Keeps(q[i], q[j])
  <2>1. PICK m \in DOMAIN p : i = p[m]
    BY <1>6 DEF Range
  <2>2. Before(q, i, j) /\ i \in Usable(q) /\ j \in Usable(q)
    BY <1>4, <1>6, <2>1
  <2>3. q[i] \in Rows /\ q[j] \in Rows
    BY <1>1, <2>2 DEF Usable
  <2>4. Fresher(q[i], q[j]) \/ ~ Fresher(q[j], q[i])
    BY <2>2 DEF Before
  <2> QED BY <2>3, <2>4, LaterKeeps
<1> QED BY <1>3, <1>5, <1>6

LEMMA NothingShown ==
  ASSUME shown' = <<>>, found' = <<>>
  PROVE  NewestOfEachZone' /\ Len(shown') <= MaxResults
<1>1. Range(<<>>) = {}
  BY DEF Range
<1>2. Len(<<>>) = 0
  BY EmptySeq
<1> QED BY <1>1, <1>2, ToolsAssumption DEF NewestOfEachZone, LeftOut

LEMMA InitOpenly == ToolsInit => PageInv /\ ShownInv
<1> SUFFICES ASSUME ToolsInit PROVE PageInv /\ ShownInv
  OBVIOUS
<1>1. /\ reply = "idle" /\ step = "validate" /\ hop = 0 /\ peers = {}
      /\ page = <<>> /\ body = <<>> /\ text = <<>>
      /\ call = "none" /\ shown = <<>> /\ found = <<>> /\ calls = 0
  BY DEF ToolsInit, ReadingInit
<1>2. PageInv
  <2>1. <<>> \in Seq(STRING) /\ Len(<<>>) = 0
    OBVIOUS
  <2> QED BY <1>1, <2>1, ReadingAssumption DEF PageInv, ReadingTypeOK, WholePage
<1>3. ShownInv
  <2>1. Range(<<>>) = {} /\ Len(<<>>) = 0
    BY EmptySeq DEF Range
  <2> QED BY <1>1, <2>1, ToolsAssumption DEF ShownInv, ToolsTypeOK, NewestOfEachZone, LeftOut
<1> QED BY <1>2, <1>3

LEMMA NextOpenly ==
  ASSUME PeerInv, PageInv, ShownInv, [ToolsNext]_toolsVars
  PROVE  PageInv' /\ ShownInv'
<1>0. calls \in Nat /\ MaxCalls \in Nat /\ MaxResults \in Nat
  BY ToolsAssumption DEF ShownInv, ToolsTypeOK
<1>1. ASSUME UNCHANGED readingVars PROVE PageInv'
  BY <1>1 DEF readingVars, PageInv, ReadingTypeOK, WholePage
<1>2. ASSUME reply' \in {"idle", "waiting"}, step' = "validate", hop' = 0, peers' = {},
             page' = <<>>, body' = <<>>, text' = <<>>
      PROVE  PageInv'
  <2>1. <<>> \in Seq(STRING) /\ Len(<<>>) = 0
    OBVIOUS
  <2> QED BY <1>2, <2>1, ReadingAssumption DEF PageInv, ReadingTypeOK, WholePage
<1>3. ASSUME calls' = calls + 1, calls < MaxCalls, call' \in {"none", "code_exec", "web_fetch"},
             shown' = <<>>, found' = <<>>
      PROVE  ShownInv'
  <2>1. calls' \in 0..MaxCalls
    BY <1>0, <1>3
  <2> QED BY <1>3, <2>1, NothingShown DEF ShownInv, ToolsTypeOK
<1>4. ASSUME UNCHANGED <<shown, found, calls>>, call' \in {call, "none"} PROVE ShownInv'
  BY <1>4 DEF ShownInv, ToolsTypeOK, NewestOfEachZone, LeftOut
<1>5. CASE CallCode
  BY <1>1, <1>3, <1>5 DEF CallCode, Free
<1>6. CASE CallFetch
  BY <1>2, <1>3, <1>6 DEF CallFetch, Free, Fetch
<1>7. CASE Search \/ SearchFails
  BY <1>1, <1>3, <1>7 DEF Search, SearchFails, Free
<1>8. CASE Browse
  <2>1. PICK q \in Found, n \in Limits : found' = q /\ shown' \in News(q, n)
    BY <1>8 DEF Browse
  <2>2. /\ calls' = calls + 1 /\ calls < MaxCalls /\ call' = call /\ call = "none"
        /\ UNCHANGED readingVars
    BY <1>8 DEF Browse, Free
  <2>3. calls' \in 0..MaxCalls
    BY <1>0, <2>2
  <2>4. q \in Seq(Rows) /\ n \in Nat /\ n <= MaxResults
    BY <1>0, ToolsAssumption DEF Limits
  <2>5. /\ Len(shown') \in Nat /\ Len(shown') <= n
        /\ \A i \in Range(shown'), j \in Usable(q) \ Range(shown') : Keeps(q[i], q[j])
    BY <2>1, <2>4, NewsIsRanked
  <2>6. Len(shown') <= MaxResults
    BY <1>0, <2>4, <2>5
  <2>7. NewestOfEachZone'
    BY <2>1, <2>5 DEF NewestOfEachZone, LeftOut, Keeps
  <2> QED BY <1>1, <2>2, <2>3, <2>6, <2>7 DEF ShownInv, ToolsTypeOK
<1>9. CASE Commit
  <2>1. /\ reply' = "idle" /\ step' = "validate" /\ hop' = 0 /\ peers' = {}
        /\ page' = <<>> /\ body' = <<>> /\ text' = <<>>
        /\ call' = "none" /\ UNCHANGED <<shown, found, calls>>
    BY <1>9 DEF Commit, Forgotten
  <2> QED BY <1>2, <1>4, <2>1
<1>10. CASE Sandboxed
  BY <1>1, <1>4, <1>10 DEF Sandboxed, beltVars
<1>11. CASE Fetching
  <2>1. ReadingNext /\ UNCHANGED <<call, shown, found, calls>>
    BY <1>11 DEF Fetching, beltVars
  <2> QED BY <1>4, <2>1, PagesKeep
<1>12. CASE UNCHANGED toolsVars
  BY <1>1, <1>4, <1>12 DEF toolsVars, beltVars
<1> QED BY <1>5, <1>6, <1>7, <1>8, <1>9, <1>10, <1>11, <1>12 DEF ToolsNext

(* What a tool leaves out of what it read, it leaves out openly, whatever  *)
(* the page and the caps: a text that is not said to be cut is the page,   *)
(* or is taken from it in order without anything that stands in a skipped  *)
(* element or a title; and where no end tag is missing, with everything    *)
(* else. Of the news, none without a date is preferred to one with it, and *)
(* of one zone none to a newer (_ReadableTextExtractor, _read_capped,      *)
(* _cap, _recency_key, results_to_payload).                                *)
THEOREM OmissionsAreOpen == ToolsSpec => []LeavesOutOpenly
<1>1. PageInv /\ ShownInv => LeavesOutOpenly
  <2>1. SUFFICES ASSUME PageInv, ShownInv PROVE LeavesOutOpenly
    OBVIOUS
  <2>2. /\ Visible(page) \in SUBSET Showing(page)
        /\ WellFormed(page) /\ "<lone>" \notin Range(page) => Visible(page) = Showing(page)
    BY <2>1, VisibleShows DEF PageInv
  <2>3. NothingIsLostSilently
    BY <2>1, <2>2 DEF PageInv, NothingIsLostSilently
  <2> QED BY <2>1, <2>3 DEF ShownInv, LeavesOutOpenly
<1>2. ToolsInv => PeerInv
  BY DEF ToolsInv
<1> QED BY <1>1, <1>2, InitToolsInv, NextToolsInv, InitOpenly, NextOpenly, PTL DEF ToolsSpec

----------------------------------------------------------------------------
(* Working memory: finite sets and the sequences made of them.             *)

LEMMA FiniteRange ==
  ASSUME NEW T, NEW s \in Seq(T)
  PROVE  Range(s) \subseteq T /\ IsFiniteSet(Range(s)) /\ Cardinality(Range(s)) <= Len(s)
<1>1. s \in [1..Len(s) -> T] /\ Len(s) \in Nat
  BY LenProperties
<1>2. s \in Surjection(1..Len(s), Range(s)) /\ Range(s) \subseteq T
  BY <1>1, Fun_RangeProperties
<1>3. IsFiniteSet(1..Len(s)) /\ Cardinality(1..Len(s)) = Len(s)
  BY <1>1, UpTo
<1>4. IsFiniteSet(Range(s)) /\ Cardinality(Range(s)) <= Cardinality(1..Len(s))
  BY <1>2, <1>3, FS_Surjection
<1> QED BY <1>2, <1>3, <1>4

\* The order that SetToSeq gives a finite set leaves nothing out.
LEMMA SetInOrder ==
  ASSUME NEW S, IsFiniteSet(S)
  PROVE  /\ Cardinality(S) \in Nat
         /\ SetToSeq(S) \in [1..Cardinality(S) -> S]
         /\ SetToSeq(S) \in Seq(S)
         /\ \A x \in S : \E n \in 1..Cardinality(S) : SetToSeq(S)[n] = x
<1> DEFINE k == Cardinality(S)
           P(f) == f \in [1..k -> S] /\ IsInjective(f)
<1>1. k \in Nat /\ ExistsBijection(1..k, S)
  BY FS_CardinalityType
<1>2. PICK f : P(f)
  <2>1. PICK f : f \in Bijection(1..k, S)
    BY <1>1 DEF ExistsBijection
  <2>2. f \in [1..k -> S] /\ \A a, b \in 1..k : f[a] = f[b] => a = b
    BY <2>1, Fun_BijectionProperties
  <2>3. IsInjective(f)
    BY <2>2 DEF IsInjective
  <2> QED BY <2>2, <2>3
<1>3. SetToSeq(S) = CHOOSE q \in [1..k -> S] : IsInjective(q)
  BY DEF SetToSeq
<1>4. P(SetToSeq(S))
  BY <1>2, <1>3
<1> DEFINE q == SetToSeq(S)
<1> HIDE DEF q, k
<1>5. q \in [1..k -> S] /\ \A a, b \in 1..k : q[a] = q[b] => a = b
  BY <1>4 DEF IsInjective, q
<1>6. q \in Injection(1..k, S)
  BY <1>5, Fun_IsInj
<1>7. IsFiniteSet(1..k) /\ Cardinality(1..k) = k
  BY <1>1, UpTo
<1>8. q \in Surjection(1..k, S)
  BY <1>6, <1>7, FS_Injection DEF k
<1>9. \A x \in S : \E n \in 1..k : q[n] = x
  BY <1>8 DEF Surjection
<1>10. q \in Seq(S)
  BY <1>1, <1>5, SeqDef
<1> QED BY <1>1, <1>5, <1>9, <1>10 DEF k, q

LEMMA SlotNumbers ==
  Slots \subseteq Nat
<1>1. Cardinality(Slots) \in Nat
  BY FocusAssumption, FS_CardinalityType
<1>2. 1..Cardinality(Slots) \subseteq Nat
  BY <1>1
<1> QED BY <1>2, FocusAssumption

\* The evictions of a set of ids, one for each.
LEMMA EvictsAll ==
  ASSUME NEW S, S \subseteq Slots
  PROVE  /\ EvictAll(S) \in Seq([op : {"evict"}, id : Slots])
         /\ \A x \in S : \E n \in DOMAIN EvictAll(S) : EvictAll(S)[n].id = x
<1> DEFINE k == Cardinality(S)
           q == SetToSeq(S)
<1>1. IsFiniteSet(S)
  BY FocusAssumption, FS_Subset
<1>2. k \in Nat /\ q \in [1..k -> S] /\ \A x \in S : \E n \in 1..k : q[n] = x
  BY <1>1, SetInOrder
<1> HIDE DEF k
<1>3. EvictAll(S) = [n \in DOMAIN q |-> Evict(q[n])]
  BY DEF EvictAll
<1> HIDE DEF q
<1>4. EvictAll(S) \in [1..k -> [op : {"evict"}, id : Slots]]
  BY <1>2, <1>3 DEF Evict
<1>5. EvictAll(S) \in Seq([op : {"evict"}, id : Slots]) /\ DOMAIN EvictAll(S) = 1..k
  BY <1>2, <1>4, FunctionIsSeq
<1>6. \A n \in 1..k : EvictAll(S)[n].id = q[n]
  BY <1>2, <1>3 DEF Evict
<1> QED BY <1>2, <1>5, <1>6

----------------------------------------------------------------------------
(* Working memory: the invariant.                                          *)

\* The entry that is between its two commands.
Between == IF half THEN {jobs[1].id} ELSE {}

\* A job whose first command is done has left the hash as it wants it.
HalfInv ==
    half =>
        /\ jobs # <<>>
        /\ IF jobs[1].op = "persist"
           THEN jobs[1].id \in Ids(items) /\ items[jobs[1].id] = jobs[1].item
           ELSE jobs[1].id \notin Ids(items)

TornInv == Cardinality(Torn \ Between) <= failures

\* Ids that the jobs left will have in the hash, and all they are about.
ToWrite == {jobs[n].id : n \in {m \in DOMAIN jobs : jobs[m].op = "persist"}}
Doomed == {jobs[n].id : n \in DOMAIN jobs}

\* Between a put and the end of its trim there may be one item more.
Slack == IF stage = "trim" \/ (stage = "fold" /\ jobs # <<>>) THEN 1 ELSE 0

HeldInv == Cardinality(Ids(items) \cup ToWrite) <= Capacity + failures + Slack

\* What a trim has still to do makes the sorted set fit.
TrimInv ==
    stage = "fold" /\ jobs # <<>> =>
        /\ \A n \in DOMAIN jobs : jobs[n].op = "evict"
        /\ Cardinality(Ids(ranks) \ Doomed) <= Capacity

RestInv == stage \in {"idle", "recall", "end"} => jobs = <<>>

FocusInv == FocusTypeOK /\ HalfInv /\ TornInv /\ HeldInv /\ TrimInv /\ RestInv

----------------------------------------------------------------------------
(* Working memory: what the invariant gives.                               *)

LEMMA Typed ==
  ASSUME FocusTypeOK
  PROVE  /\ \A i \in Ids(items) : i \in Slots /\ items[i] \in Item
         /\ \A i \in Ids(ranks) : i \in Slots /\ ranks[i] \in 0..Top
         /\ \A n \in DOMAIN jobs : jobs[n] \in Jobs
         /\ DOMAIN jobs = 1..Len(jobs) /\ Len(jobs) \in Nat
         /\ failures \in Nat
<1>1. DOMAIN jobs = 1..Len(jobs) /\ Len(jobs) \in Nat /\ \A n \in DOMAIN jobs : jobs[n] \in Jobs
  BY LenProperties DEF FocusTypeOK
<1>2. failures \in Nat
  BY FocusAssumption DEF FocusTypeOK
<1>3. \A i \in Ids(items) : i \in Slots /\ items[i] \in Item
  BY DEF FocusTypeOK, Range, Ids
<1>4. \A i \in Ids(ranks) : i \in Slots /\ ranks[i] \in 0..Top
  BY DEF FocusTypeOK, Range, Ids
<1> QED BY <1>1, <1>2, <1>3, <1>4

LEMMA JobFields ==
  ASSUME NEW j \in Jobs
  PROVE  /\ j.id \in Slots /\ j.op \in {"evict", "persist"}
         /\ j.op = "persist" => j.item \in Item
BY DEF Jobs

\* Sets of ids are finite, and a smaller one is smaller.
LEMMA SlotSet ==
  ASSUME NEW S, S \subseteq Slots
  PROVE  /\ IsFiniteSet(S) /\ Cardinality(S) \in Nat
         /\ \A T \in SUBSET S : IsFiniteSet(T) /\ Cardinality(T) \in Nat
                                /\ Cardinality(T) <= Cardinality(S)
<1>1. IsFiniteSet(S)
  BY FocusAssumption, FS_Subset
<1>2. \A T \in SUBSET S : IsFiniteSet(T) /\ Cardinality(T) <= Cardinality(S)
  BY <1>1, FS_Subset
<1> QED BY <1>1, <1>2, FS_CardinalityType

LEMMA SlotSets ==
  ASSUME FocusTypeOK
  PROVE  /\ Ids(items) \subseteq Slots /\ Ids(ranks) \subseteq Slots /\ Torn \subseteq Slots
         /\ ToWrite \subseteq Slots /\ Doomed \subseteq Slots
<1>1. \A n \in DOMAIN jobs : jobs[n].id \in Slots
  BY Typed, JobFields
<1>2. ToWrite \subseteq Slots /\ Doomed \subseteq Slots
  BY <1>1 DEF ToWrite, Doomed
<1>3. Ids(items) \subseteq Slots /\ Ids(ranks) \subseteq Slots
  BY DEF FocusTypeOK
<1>4. Torn \subseteq Slots
  BY <1>3 DEF Torn
<1> QED BY <1>2, <1>3, <1>4

\* An item that the sorted set does not know is torn.
LEMMA HeldIsRankedOrTorn ==
  ASSUME NEW I, NEW R, NEW T, I \subseteq R \cup T, R \subseteq Slots, T \subseteq Slots
  PROVE  Cardinality(I) <= Cardinality(R) + Cardinality(T)
<1>1. IsFiniteSet(R) /\ IsFiniteSet(T) /\ Cardinality(R) \in Nat /\ Cardinality(T) \in Nat
  BY SlotSet
<1>2. /\ IsFiniteSet(R \cup T)
      /\ Cardinality(R \cup T) = Cardinality(R) + Cardinality(T) - Cardinality(R \cap T)
  BY <1>1, FS_Union
<1>3. Cardinality(R \cap T) \in Nat
  <2>1. R \cap T \subseteq Slots
    OBVIOUS
  <2> QED BY <2>1, SlotSet
<1>4. Cardinality(I) <= Cardinality(R \cup T) /\ Cardinality(I) \in Nat
  <2>1. R \cup T \subseteq Slots /\ I \in SUBSET (R \cup T)
    OBVIOUS
  <2> QED BY <2>1, SlotSet
<1> QED BY <1>1, <1>2, <1>3, <1>4

TablesInv == HalfInv /\ TornInv /\ HeldInv /\ TrimInv /\ RestInv

\* The first command of a job.
LEMMA HashKeeps ==
  ASSUME FocusInv, Run, ~half
  PROVE  FocusTypeOK' /\ TablesInv'
<1> DEFINE job == Head(jobs)
<1>1. /\ jobs # <<>> /\ InHash(job)
      /\ UNCHANGED <<recent, stage, percepts, toPut, contents, failures>>
  BY DEF Run
<1>2. job \in Jobs /\ job = jobs[1] /\ 1 \in DOMAIN jobs
  <2>1. jobs \in Seq(Jobs)
    BY DEF FocusInv, FocusTypeOK
  <2>2. Len(jobs) # 0
    BY <1>1, <2>1, EmptySeq
  <2> QED BY <1>1, <2>1, <2>2, HeadTailProperties
<1>3. job.id \in Slots /\ job.op \in {"evict", "persist"} /\ (job.op = "persist" => job.item \in Item)
  BY <1>2, JobFields
<1>4. UNCHANGED <<ranks, jobs>> /\ half' = TRUE
  BY <1>1 DEF InHash
<1>5. /\ job.op = "persist" =>
            Ids(items') = Ids(items) \cup {job.id} /\ items'[job.id] = job.item
      /\ job.op = "evict" => Ids(items') = Ids(items) \ {job.id}
      /\ \A i \in Ids(items') : i # job.id => i \in Ids(items) /\ items'[i] = items[i]
      /\ \A i \in Ids(items) : i # job.id => i \in Ids(items')
  BY <1>1, <1>3 DEF InHash, With, Without, Ids
<1> HIDE DEF job
<1>6. FocusTypeOK'
  <2>1. \A i \in Ids(items') : i \in Slots /\ items'[i] \in Item
    BY <1>3, <1>5, Typed DEF FocusInv
  <2>2. Ids(items') \subseteq Slots /\ Range(items') \subseteq Item
    BY <2>1 DEF Range, Ids
  <2> QED BY <1>1, <1>4, <2>2 DEF FocusInv, FocusTypeOK
<1>7. HalfInv'
  BY <1>1, <1>2, <1>3, <1>4, <1>5 DEF HalfInv
<1>8. TornInv'
  <2>1. Torn' \ {job.id} \subseteq Torn \ Between
    BY <1>4, <1>5 DEF Torn, Between
  <2>2. Torn \ Between \subseteq Slots
    BY SlotSets DEF FocusInv
  <2>3. Cardinality(Torn' \ {job.id}) <= Cardinality(Torn \ Between)
        /\ Cardinality(Torn' \ {job.id}) \in Nat /\ Cardinality(Torn \ Between) \in Nat
    BY <2>1, <2>2, SlotSet
  <2>4. Between' = {job.id}
    BY <1>2, <1>4 DEF Between
  <2>5. Cardinality(Torn \ Between) <= failures /\ failures \in Nat
    BY Typed DEF FocusInv, TornInv
  <2>6. Cardinality(Torn' \ {job.id}) <= failures
    BY <2>3, <2>5
  <2> QED BY <1>1, <2>4, <2>6 DEF TornInv
<1>9. HeldInv'
  <2>1. job.op = "persist" => job.id \in ToWrite
    BY <1>2 DEF ToWrite
  <2>2. ToWrite' = ToWrite
    BY <1>4 DEF ToWrite
  <2>3. (Ids(items) \cup ToWrite)' \subseteq Ids(items) \cup ToWrite
    BY <1>3, <1>5, <2>1, <2>2
  <2>4. Ids(items) \cup ToWrite \subseteq Slots
    BY SlotSets DEF FocusInv
  <2> DEFINE a == Cardinality((Ids(items) \cup ToWrite)')
             b == Cardinality(Ids(items) \cup ToWrite)
             c == Capacity + failures + Slack
  <2>5. a <= b /\ a \in Nat /\ b \in Nat
    BY <2>3, <2>4, SlotSet
  <2>6. b <= c /\ c \in Int
    BY Typed, FocusAssumption DEF FocusInv, HeldInv, Slack
  <2>7. c' = c
    BY <1>1, <1>4 DEF Slack
  <2> HIDE DEF a, b, c
  <2>8. a <= c
    BY <2>5, <2>6
  <2> QED BY <2>7, <2>8 DEF HeldInv, a, c
<1>10. TrimInv' /\ RestInv'
  BY <1>1, <1>4 DEF FocusInv, TrimInv, RestInv, Doomed
<1> QED BY <1>6, <1>7, <1>8, <1>9, <1>10 DEF TablesInv

\* The second command of a job ends it, and the trim with it if it was the last.
LEMMA RanksKeep ==
  ASSUME FocusInv, Run, half
  PROVE  FocusTypeOK' /\ TablesInv'
<1> DEFINE job == Head(jobs)
<1>1. /\ jobs # <<>> /\ InRanks(job)
      /\ UNCHANGED <<recent, stage, percepts, toPut, contents, failures>>
  BY DEF Run
<1>2. /\ job \in Jobs /\ job = jobs[1] /\ 1 \in DOMAIN jobs
      /\ Tail(jobs) \in Seq(Jobs) /\ Len(Tail(jobs)) = Len(jobs) - 1
      /\ DOMAIN Tail(jobs) = 1..Len(jobs) - 1 /\ Len(jobs) \in Nat /\ DOMAIN jobs = 1..Len(jobs)
      /\ \A n \in 1..Len(jobs) - 1 : Tail(jobs)[n] = jobs[n + 1]
  <2>1. jobs \in Seq(Jobs)
    BY DEF FocusInv, FocusTypeOK
  <2>2. Len(jobs) # 0
    BY <1>1, <2>1, EmptySeq
  <2>3. DOMAIN jobs = 1..Len(jobs) /\ Len(jobs) \in Nat
    BY <2>1, LenProperties
  <2>4. /\ Tail(jobs) \in Seq(Jobs) /\ Len(Tail(jobs)) = Len(jobs) - 1
        /\ \A n \in 1..Len(Tail(jobs)) : Tail(jobs)[n] = jobs[n + 1]
        /\ Head(jobs) \in Jobs
    BY <1>1, <2>1, HeadTailProperties
  <2>5. DOMAIN Tail(jobs) = 1..Len(jobs) - 1
    BY <2>4, LenProperties
  <2>6. Head(jobs) = jobs[1]
    BY <2>1, <2>2
  <2> QED BY <2>2, <2>3, <2>4, <2>5, <2>6
<1>3. job.id \in Slots /\ job.op \in {"evict", "persist"} /\ (job.op = "persist" => job.item \in Item)
  BY <1>2, JobFields
<1>4. UNCHANGED items /\ half' = FALSE /\ jobs' = Tail(jobs)
  BY <1>1 DEF InRanks
<1>5. /\ job.op = "persist" =>
            Ids(ranks') = Ids(ranks) \cup {job.id} /\ ranks'[job.id] = job.item.salience
      /\ job.op = "evict" => Ids(ranks') = Ids(ranks) \ {job.id}
      /\ \A i \in Ids(ranks') : i # job.id => i \in Ids(ranks) /\ ranks'[i] = ranks[i]
      /\ \A i \in Ids(ranks) : i # job.id => i \in Ids(ranks')
  BY <1>1, <1>3 DEF InRanks, With, Without, Ids
<1>6. /\ job.op = "persist" => job.id \in Ids(items) /\ items[job.id] = job.item
      /\ job.op = "evict" => job.id \notin Ids(items)
      /\ Between = {job.id}
  BY <1>2 DEF FocusInv, HalfInv, Between
<1> HIDE DEF job
<1>7. FocusTypeOK'
  <2>1. \A i \in Ids(ranks') : i \in Slots /\ ranks'[i] \in 0..Top
    BY <1>3, <1>5, Typed DEF FocusInv, Item
  <2>2. Ids(ranks') \subseteq Slots /\ Range(ranks') \subseteq 0..Top
    BY <2>1 DEF Range, Ids
  <2> QED BY <1>1, <1>2, <1>4, <2>2 DEF FocusInv, FocusTypeOK, Ids
<1>8. HalfInv'
  BY <1>4 DEF HalfInv
<1>9. Cardinality(Torn') <= failures /\ Torn' \subseteq Slots /\ Cardinality(Torn') \in Nat
  <2>1. Torn' \subseteq Torn \ {job.id}
    BY <1>3, <1>4, <1>5, <1>6 DEF Torn
  <2>2. Torn \ {job.id} \subseteq Slots
    BY SlotSets DEF FocusInv
  <2>3. /\ Cardinality(Torn') <= Cardinality(Torn \ {job.id})
        /\ Cardinality(Torn') \in Nat /\ Cardinality(Torn \ {job.id}) \in Nat
    BY <2>1, <2>2, SlotSet
  <2>4. Cardinality(Torn \ {job.id}) <= failures /\ failures \in Nat
    BY <1>6, Typed DEF FocusInv, TornInv
  <2> QED BY <2>1, <2>2, <2>3, <2>4
<1>10. TornInv'
  <2>1. Torn' \ Between' = Torn'
    BY <1>4 DEF Between
  <2> QED BY <1>1, <1>9, <2>1 DEF TornInv
<1>11. ToWrite' \subseteq ToWrite /\ Doomed \subseteq Doomed' \cup {job.id}
  <2>1. \A n \in DOMAIN jobs' : n + 1 \in DOMAIN jobs /\ jobs'[n] = jobs[n + 1]
    BY <1>2, <1>4
  <2>2. ToWrite' \subseteq ToWrite
    BY <2>1 DEF ToWrite
  <2>3. ASSUME NEW n \in DOMAIN jobs PROVE jobs[n].id \in Doomed' \cup {job.id}
    <3>1. CASE n = 1
      BY <1>2, <3>1
    <3>2. CASE n # 1
      <4>1. n - 1 \in DOMAIN jobs' /\ jobs'[n - 1] = jobs[n]
        BY <1>2, <1>4, <3>2
      <4> QED BY <4>1 DEF Doomed
    <3> QED BY <3>1, <3>2
  <2> QED BY <2>2, <2>3 DEF Doomed
<1>12. stage = "fold" =>
         /\ \A n \in DOMAIN jobs : jobs[n].op = "evict"
         /\ Cardinality(Ids(ranks') \ Doomed') <= Capacity
  <2> SUFFICES ASSUME stage = "fold"
               PROVE  /\ \A n \in DOMAIN jobs : jobs[n].op = "evict"
                      /\ Cardinality(Ids(ranks') \ Doomed') <= Capacity
    OBVIOUS
  <2>1. /\ \A n \in DOMAIN jobs : jobs[n].op = "evict"
        /\ Cardinality(Ids(ranks) \ Doomed) <= Capacity
    BY <1>1 DEF FocusInv, TrimInv
  <2>2. job.op = "evict"
    BY <1>2, <2>1
  <2>3. Ids(ranks') \ Doomed' \subseteq Ids(ranks) \ Doomed
    BY <1>5, <1>11, <2>2
  <2>4. Ids(ranks) \ Doomed \subseteq Slots
    BY SlotSets DEF FocusInv
  <2>5. /\ Cardinality(Ids(ranks') \ Doomed') <= Cardinality(Ids(ranks) \ Doomed)
        /\ Cardinality(Ids(ranks') \ Doomed') \in Nat /\ Cardinality(Ids(ranks) \ Doomed) \in Nat
    BY <2>3, <2>4, SlotSet
  <2>6. Capacity \in Nat
    BY FocusAssumption
  <2> QED BY <2>1, <2>5, <2>6
<1>13. TrimInv' /\ RestInv'
  <2>1. \A n \in DOMAIN jobs' : n + 1 \in DOMAIN jobs /\ jobs'[n] = jobs[n + 1]
    BY <1>2, <1>4
  <2>2. TrimInv'
    BY <1>1, <1>12, <2>1 DEF TrimInv
  <2>3. RestInv'
    BY <1>1 DEF FocusInv, RestInv
  <2> QED BY <2>2, <2>3
<1>14. HeldInv'
  <2>1. CASE stage = "fold" /\ jobs' = <<>>
    <3>1. DOMAIN jobs' = {}
      BY <2>1
    <3>2. ToWrite' = {} /\ Doomed' = {}
      BY <3>1 DEF ToWrite, Doomed
    <3>3. Ids(items) \subseteq Ids(ranks') \cup Torn'
      BY <1>4 DEF Torn
    <3>4. Ids(ranks') \subseteq Slots
      BY <1>7 DEF FocusTypeOK
    <3> DEFINE a == Cardinality(Ids(items))
               b == Cardinality(Ids(ranks'))
               c == Cardinality(Torn')
    <3>5. a <= b + c
      BY <1>9, <3>3, <3>4, HeldIsRankedOrTorn
    <3>6. b <= Capacity
      <4>1. Ids(ranks') \ Doomed' = Ids(ranks')
        BY <3>2
      <4> QED BY <1>12, <2>1, <4>1
    <3>7. a \in Nat /\ b \in Nat /\ c \in Nat /\ c <= failures
      BY <1>9, <3>4, SlotSet, SlotSets DEF FocusInv
    <3> HIDE DEF a, b, c
    <3>8. a <= Capacity + failures + 0
      BY <3>5, <3>6, <3>7, FocusAssumption, Typed DEF FocusInv
    <3>9. Slack' = 0 /\ (Ids(items) \cup ToWrite)' = Ids(items)
      BY <1>1, <1>4, <2>1, <3>2 DEF Slack, Ids
    <3> QED BY <1>1, <3>8, <3>9 DEF HeldInv, a
  <2>2. CASE ~(stage = "fold" /\ jobs' = <<>>)
    <3> DEFINE a == Cardinality((Ids(items) \cup ToWrite)')
               b == Cardinality(Ids(items) \cup ToWrite)
               c == Capacity + failures + Slack
    <3>1. (Ids(items) \cup ToWrite)' \subseteq Ids(items) \cup ToWrite
      BY <1>4, <1>11 DEF Ids
    <3>2. Ids(items) \cup ToWrite \subseteq Slots
      BY SlotSets DEF FocusInv
    <3>3. a <= b /\ a \in Nat /\ b \in Nat
      BY <3>1, <3>2, SlotSet
    <3>4. b <= c /\ c \in Int
      BY Typed, FocusAssumption DEF FocusInv, HeldInv, Slack
    <3>5. c' = c
      BY <1>1, <2>2 DEF Slack
    <3> HIDE DEF a, b, c
    <3>6. a <= c
      BY <3>3, <3>4
    <3> QED BY <3>5, <3>6 DEF HeldInv, a, c
  <2> QED BY <2>1, <2>2
<1> QED BY <1>7, <1>8, <1>10, <1>13, <1>14 DEF TablesInv

\* A stage that only plans leaves both structures, and what is torn, alone.
LEMMA Planned ==
  ASSUME FocusInv, jobs = <<>>, UNCHANGED <<items, ranks, half, failures>>
  PROVE  /\ half = FALSE /\ HalfInv' /\ TornInv'
         /\ Ids(items) \subseteq Slots /\ Cardinality(Ids(items)) \in Nat
         /\ Cardinality(Ids(items)) <= Capacity + failures + Slack
         /\ Capacity \in Nat /\ failures \in Nat
<1>1. half = FALSE
  BY DEF FocusInv, HalfInv, FocusTypeOK
<1>2. HalfInv'
  BY <1>1 DEF HalfInv
<1>3. TornInv'
  <2>1. Torn' = Torn /\ Between' = {} /\ Between = {}
    BY <1>1 DEF Torn, Between, Ids
  <2> QED BY <2>1 DEF TornInv, FocusInv
<1>4. Ids(items) \subseteq Slots /\ Cardinality(Ids(items)) \in Nat
  BY SlotSets, SlotSet DEF FocusInv
<1>5. Ids(items) \cup ToWrite = Ids(items)
  <2>1. DOMAIN jobs = {}
    OBVIOUS
  <2> QED BY <2>1 DEF ToWrite
<1>6. Cardinality(Ids(items)) <= Capacity + failures + Slack
  BY <1>5 DEF FocusInv, HeldInv
<1> QED BY <1>1, <1>2, <1>3, <1>4, <1>6, Typed, FocusAssumption DEF FocusInv

\* Evictions alone write nothing.
LEMMA OnlyEvicts ==
  ASSUME NEW S, S \subseteq Slots, jobs' = EvictAll(S)
  PROVE  jobs' \in Seq(Jobs) /\ ToWrite' = {} /\ Doomed' = S
         /\ \A n \in DOMAIN jobs' : jobs'[n].op = "evict"
<1>1. /\ EvictAll(S) \in Seq([op : {"evict"}, id : Slots])
      /\ \A x \in S : \E n \in DOMAIN EvictAll(S) : EvictAll(S)[n].id = x
  BY EvictsAll
<1>2. \A n \in DOMAIN EvictAll(S) : EvictAll(S)[n] \in [op : {"evict"}, id : Slots]
  BY <1>1, LenProperties
<1>3. EvictAll(S) \in Seq(Jobs)
  <2>1. [op : {"evict"}, id : Slots] \subseteq Jobs
    BY DEF Jobs
  <2> QED BY <1>1, <2>1, SeqMonotonic
<1>4. \A n \in DOMAIN EvictAll(S) : EvictAll(S)[n].op = "evict"
  BY <1>2
<1>5. \A n \in DOMAIN EvictAll(S) : EvictAll(S)[n].id \in S
  <2>1. IsFiniteSet(S)
    BY FocusAssumption, FS_Subset
  <2>2. SetToSeq(S) \in [1..Cardinality(S) -> S]
    BY <2>1, SetInOrder
  <2> QED BY <2>2 DEF EvictAll, Evict
<1>6. ToWrite' = {}
  BY <1>4 DEF ToWrite
<1>7. Doomed' = S
  BY <1>1, <1>5 DEF Doomed
<1> QED BY <1>3, <1>4, <1>6, <1>7

LEMMA Gone ==
  ASSUME FocusInv, NEW gone \in Expired
  PROVE  gone \subseteq Ids(items) /\ gone \subseteq Slots
BY SlotSets DEF Expired, FocusInv

\* put() writes one item, to a free id.
LEMMA PutKeeps ==
  ASSUME FocusInv, Put
  PROVE  FocusTypeOK' /\ TablesInv'
<1> DEFINE u == CHOOSE i \in Unused : \A j \in Unused : i <= j
<1>1. /\ stage = "fold" /\ jobs = <<>> /\ toPut # <<>> /\ Unused # {}
      /\ toPut' = Tail(toPut) /\ stage' = "trim"
      /\ UNCHANGED <<items, ranks, recent, half, percepts, contents, failures>>
  BY DEF Put
<1>2. PICK gone \in Expired : jobs' = Append(EvictAll(gone), Persist(u, Head(toPut)))
  BY DEF Put
<1>3. u \in Slots
  <2>1. Unused \subseteq Nat
    BY FocusAssumption, SlotNumbers DEF Unused
  <2>2. \E i \in Unused : \A j \in Unused : i <= j
    BY <1>1, <2>1, Least
  <2> QED BY <2>2 DEF Unused
<1> HIDE DEF u
<1>4. Head(toPut) \in Item /\ Tail(toPut) \in Seq(Item)
  <2>1. toPut \in Seq(Item)
    BY DEF FocusInv, FocusTypeOK
  <2> QED BY <1>1, <2>1, HeadTailProperties
<1>5. Persist(u, Head(toPut)) \in Jobs
  BY <1>3, <1>4 DEF Persist, Jobs
<1>6. /\ EvictAll(gone) \in Seq([op : {"evict"}, id : Slots])
      /\ EvictAll(gone) \in Seq(Jobs)
  <2>1. EvictAll(gone) \in Seq([op : {"evict"}, id : Slots])
    BY Gone, EvictsAll
  <2>2. [op : {"evict"}, id : Slots] \subseteq Jobs
    BY DEF Jobs
  <2> QED BY <2>1, <2>2, SeqMonotonic
<1> DEFINE q == EvictAll(gone)
<1>7. /\ jobs' \in Seq(Jobs) /\ DOMAIN jobs' = 1..Len(q) + 1 /\ Len(q) \in Nat
      /\ \A n \in 1..Len(q) : jobs'[n].op = "evict"
      /\ jobs'[Len(q) + 1] = Persist(u, Head(toPut))
  <2> DEFINE p == Persist(u, Head(toPut))
             E == [op : {"evict"}, id : Slots]
  <2> HIDE DEF q, p, E
  <2>1. q \in Seq(Jobs) /\ p \in Jobs /\ jobs' = Append(q, p) /\ q \in Seq(E)
    BY <1>2, <1>5, <1>6 DEF q, p, E
  <2>2. /\ Append(q, p) \in Seq(Jobs) /\ Len(Append(q, p)) = Len(q) + 1
        /\ \A n \in 1..Len(q) : Append(q, p)[n] = q[n]
        /\ Append(q, p)[Len(q) + 1] = p
    BY <2>1, AppendProperties
  <2>3. DOMAIN jobs' = 1..Len(jobs') /\ Len(q) \in Nat /\ \A n \in 1..Len(q) : q[n] \in E
    BY <2>1, <2>2, LenProperties
  <2>4. \A n \in 1..Len(q) : q[n].op = "evict"
    BY <2>3 DEF E
  <2> QED BY <2>1, <2>2, <2>3, <2>4 DEF p
<1> HIDE DEF q
<1>8. ToWrite' \subseteq {u}
  BY <1>7 DEF ToWrite, Persist
<1>9. FocusTypeOK'
  BY <1>1, <1>4, <1>7 DEF FocusInv, FocusTypeOK, Ids
<1>10. /\ half = FALSE /\ HalfInv' /\ TornInv'
       /\ Ids(items) \subseteq Slots /\ Cardinality(Ids(items)) \in Nat
       /\ Cardinality(Ids(items)) <= Capacity + failures + Slack
       /\ Capacity \in Nat /\ failures \in Nat
  BY <1>1, Planned
<1>11. HeldInv'
  <2>1. /\ IsFiniteSet(Ids(items) \cup {u})
        /\ Cardinality(Ids(items) \cup {u}) <= Cardinality(Ids(items)) + 1
        /\ Cardinality(Ids(items) \cup {u}) \in Nat
    <3>1. IsFiniteSet(Ids(items)) /\ Ids(items) \cup {u} \subseteq Slots
      BY <1>3, <1>10, SlotSet
    <3>2. /\ IsFiniteSet(Ids(items) \cup {u})
          /\ Cardinality(Ids(items) \cup {u}) =
                IF u \in Ids(items) THEN Cardinality(Ids(items)) ELSE Cardinality(Ids(items)) + 1
      BY <3>1, FS_AddElement
    <3> QED BY <1>10, <3>2
  <2>2. (Ids(items) \cup ToWrite)' \subseteq Ids(items) \cup {u}
    BY <1>1, <1>8 DEF Ids
  <2> DEFINE a == Cardinality((Ids(items) \cup ToWrite)')
             b == Cardinality(Ids(items) \cup {u})
             c == Cardinality(Ids(items))
  <2>3. a <= b /\ a \in Nat
    <3>1. Ids(items) \cup {u} \subseteq Slots
      BY <1>3, <1>10
    <3> QED BY <2>2, <3>1, SlotSet
  <2>4. Slack = 0 /\ Slack' = 1
    BY <1>1 DEF Slack
  <2>5. b <= c + 1 /\ b \in Nat /\ c \in Nat /\ c <= Capacity + failures + 0
    BY <1>10, <2>1, <2>4
  <2> HIDE DEF a, b, c
  <2>6. a <= Capacity + failures + 1
    BY <1>10, <2>3, <2>5
  <2> QED BY <1>1, <2>4, <2>6 DEF HeldInv, a
<1>12. TrimInv' /\ RestInv'
  BY <1>1 DEF TrimInv, RestInv
<1> QED BY <1>9, <1>10, <1>11, <1>12 DEF TablesInv

\* A trim dooms as many as are too many for the sorted set.
LEMMA TrimKeeps ==
  ASSUME FocusInv, Trim
  PROVE  FocusTypeOK' /\ TablesInv'
<1>1. /\ stage = "trim" /\ jobs = <<>> /\ stage' = "fold"
      /\ UNCHANGED <<items, ranks, recent, half, percepts, toPut, contents, failures>>
  BY DEF Trim
<1>2. PICK low \in Lowest(Overflow) : jobs' = EvictAll(low)
  BY DEF Trim
<1>3. low \subseteq Ids(ranks) /\ Cardinality(low) = Overflow
  BY DEF Lowest
<1>4. Ids(ranks) \subseteq Slots /\ low \subseteq Slots /\ Torn \subseteq Slots
  BY <1>3, SlotSets DEF FocusInv
<1>5. /\ jobs' \in Seq(Jobs) /\ ToWrite' = {} /\ Doomed' = low
      /\ \A n \in DOMAIN jobs' : jobs'[n].op = "evict"
  BY <1>2, <1>4, OnlyEvicts
<1>6. /\ half = FALSE /\ HalfInv' /\ TornInv'
      /\ Ids(items) \subseteq Slots /\ Cardinality(Ids(items)) \in Nat
      /\ Cardinality(Ids(items)) <= Capacity + failures + Slack
      /\ Capacity \in Nat /\ failures \in Nat
  BY <1>1, Planned
<1>7. FocusTypeOK'
  BY <1>1, <1>5 DEF FocusInv, FocusTypeOK, Ids
<1>8. TrimInv' /\ RestInv'
  <2>1. /\ IsFiniteSet(Ids(ranks)) /\ IsFiniteSet(low)
        /\ Cardinality(Ids(ranks)) \in Nat /\ Cardinality(low) \in Nat
    BY <1>4, SlotSet
  <2>2. Cardinality(Ids(ranks) \ low) = Cardinality(Ids(ranks)) - Cardinality(Ids(ranks) \cap low)
    BY <2>1, FS_Difference
  <2>3. Ids(ranks) \cap low = low
    BY <1>3
  <2>4. Cardinality(Ids(ranks) \ low) <= Capacity
    BY <1>3, <1>6, <2>1, <2>2, <2>3 DEF Overflow
  <2> QED BY <1>1, <1>5, <2>4 DEF TrimInv, RestInv, Ids
<1>9. HeldInv'
  <2>1. CASE jobs' # <<>>
    <3>1. Slack = 1 /\ Slack' = 1
      BY <1>1, <2>1 DEF Slack
    <3>2. (Ids(items) \cup ToWrite)' = Ids(items)
      BY <1>1, <1>5 DEF Ids
    <3> QED BY <1>1, <1>6, <3>1, <3>2 DEF HeldInv
  <2>2. CASE jobs' = <<>>
    <3>1. low = {}
      <4>1. DOMAIN jobs' = {}
        BY <2>2
      <4> QED BY <1>5, <4>1 DEF Doomed
    <3>2. Overflow = 0
      BY <1>3, <3>1, FS_EmptySet
    <3> DEFINE a == Cardinality(Ids(items))
               b == Cardinality(Ids(ranks))
               c == Cardinality(Torn)
    <3>3. b \in Nat /\ c \in Nat
      BY <1>4, SlotSet
    <3>4. b <= Capacity
      BY <1>6, <3>2, <3>3 DEF Overflow
    <3>5. c <= failures
      <4>1. Torn \ Between = Torn
        BY <1>6 DEF Between
      <4> QED BY <4>1 DEF FocusInv, TornInv
    <3>6. a <= b + c
      <4>1. Ids(items) \subseteq Ids(ranks) \cup Torn
        BY DEF Torn
      <4> QED BY <1>4, <4>1, HeldIsRankedOrTorn
    <3>7. a \in Nat
      BY <1>6
    <3> HIDE DEF a, b, c
    <3>8. a <= Capacity + failures + 0
      BY <1>6, <3>3, <3>4, <3>5, <3>6, <3>7
    <3>9. Slack' = 0 /\ (Ids(items) \cup ToWrite)' = Ids(items)
      BY <1>1, <1>5, <2>2 DEF Slack, Ids
    <3> QED BY <1>1, <3>8, <3>9 DEF HeldInv, a
  <2> QED BY <2>1, <2>2
<1> QED BY <1>6, <1>7, <1>8, <1>9 DEF TablesInv

\* An item's turn writes the id it has, faded, or nothing.
LEMMA AgedIsAJob ==
  ASSUME FocusInv, NEW i \in Ids(items)
  PROVE  Aged(i) \in Jobs /\ Aged(i).id = i
<1>1. i \in Slots /\ items[i] \in Item
  BY Typed DEF FocusInv
<1>2. items[i].salience \in 0..Top
  BY <1>1 DEF Item
<1>3. Fade[items[i].salience] \in 0..Top
  BY <1>2, FocusAssumption
<1>4. [items[i] EXCEPT !.salience = Fade[@]] \in Item
  BY <1>1, <1>3 DEF Item
<1> QED BY <1>1, <1>4 DEF Aged, Evict, Persist, Jobs

LEMMA DecayKeeps ==
  ASSUME FocusInv, Decay
  PROVE  FocusTypeOK' /\ TablesInv'
<1>1. /\ stage = "fold" /\ jobs = <<>> /\ stage' = "attend"
      /\ UNCHANGED <<items, ranks, recent, half, percepts, toPut, contents, failures>>
  BY DEF Decay
<1> DEFINE rest(g) == SetToSeq(Ids(items) \ g)
           turns(g) == [n \in DOMAIN rest(g) |-> Aged(rest(g)[n])]
<1>2. PICK gone \in Expired : jobs' = EvictAll(gone) \o turns(gone)
  BY DEF Decay
<1>3. /\ half = FALSE /\ HalfInv' /\ TornInv'
      /\ Ids(items) \subseteq Slots /\ Cardinality(Ids(items)) \in Nat
      /\ Cardinality(Ids(items)) <= Capacity + failures + Slack
  BY <1>1, Planned
<1> DEFINE p == EvictAll(gone)
           q == turns(gone)
           J == [op : {"evict"}, id : Slots]
<1>4. p \in Seq(J) /\ p \in Seq(Jobs)
  <2>1. p \in Seq(J)
    BY Gone, EvictsAll
  <2>2. J \subseteq Jobs
    BY DEF Jobs
  <2> QED BY <2>1, <2>2, SeqMonotonic
<1>5. q \in Seq(Jobs) /\ \A n \in DOMAIN q : q[n].id \in Ids(items)
  <2> DEFINE S == Ids(items) \ gone
             k == Cardinality(S)
  <2>1. IsFiniteSet(S)
    <3>1. S \subseteq Slots
      BY <1>3
    <3> QED BY <3>1, SlotSet
  <2>2. k \in Nat /\ SetToSeq(S) \in [1..k -> S]
    BY <2>1, SetInOrder
  <2> HIDE DEF k
  <2>3. q \in [1..k -> Jobs] /\ \A n \in 1..k : q[n].id \in Ids(items)
    <3>1. \A n \in 1..k : SetToSeq(S)[n] \in Ids(items)
      BY <2>2
    <3>2. DOMAIN q = 1..k /\ \A n \in 1..k : q[n] = Aged(SetToSeq(S)[n])
      BY <2>2
    <3>3. \A n \in 1..k : q[n] \in Jobs /\ q[n].id = SetToSeq(S)[n]
      BY <3>1, <3>2, AgedIsAJob
    <3>4. q = [n \in 1..k |-> q[n]]
      BY <2>2
    <3> HIDE DEF q, S
    <3> QED BY <3>1, <3>2, <3>3, <3>4
  <2> HIDE DEF q, S
  <2> QED BY <2>2, <2>3, FunctionIsSeq
<1> HIDE DEF p, q
<1>6. /\ jobs' \in Seq(Jobs) /\ DOMAIN jobs' = 1..Len(p) + Len(q)
      /\ Len(p) \in Nat /\ Len(q) \in Nat /\ DOMAIN q = 1..Len(q)
      /\ \A n \in 1..Len(p) : jobs'[n].op = "evict"
      /\ \A n \in Len(p) + 1..Len(p) + Len(q) : jobs'[n] = q[n - Len(p)]
  <2>1. jobs' = p \o q
    BY <1>2 DEF p, q
  <2>2. /\ p \o q \in Seq(Jobs) /\ Len(p \o q) = Len(p) + Len(q)
        /\ \A n \in 1..Len(p) + Len(q) :
               (p \o q)[n] = IF n <= Len(p) THEN p[n] ELSE q[n - Len(p)]
    BY <1>4, <1>5, ConcatProperties
  <2>3. Len(p) \in Nat /\ Len(q) \in Nat /\ DOMAIN q = 1..Len(q)
    BY <1>4, <1>5, LenProperties
  <2>4. \A n \in 1..Len(p) : p[n].op = "evict"
    <3>1. \A n \in 1..Len(p) : p[n] \in J
      BY <1>4, LenProperties
    <3> QED BY <3>1
  <2>5. DOMAIN jobs' = 1..Len(p) + Len(q)
    BY <2>1, <2>2, LenProperties
  <2> HIDE DEF J
  <2> QED BY <2>1, <2>2, <2>3, <2>4, <2>5
<1>7. ToWrite' \subseteq Ids(items)
  <2>1. ASSUME NEW n \in DOMAIN jobs', jobs'[n].op = "persist"
        PROVE  jobs'[n].id \in Ids(items)
    <3>1. n \in Len(p) + 1..Len(p) + Len(q)
      BY <1>6, <2>1
    <3>2. n - Len(p) \in DOMAIN q /\ jobs'[n] = q[n - Len(p)]
      BY <1>6, <3>1
    <3> QED BY <1>5, <3>2
  <2> QED BY <2>1 DEF ToWrite
<1>8. FocusTypeOK'
  BY <1>1, <1>6 DEF FocusInv, FocusTypeOK, Ids
<1>9. HeldInv'
  <2>1. (Ids(items) \cup ToWrite)' = Ids(items)
    BY <1>1, <1>7 DEF Ids
  <2>2. Slack = 0 /\ Slack' = 0
    BY <1>1 DEF Slack
  <2> QED BY <1>1, <1>3, <2>1, <2>2 DEF HeldInv
<1>10. TrimInv' /\ RestInv'
  BY <1>1 DEF TrimInv, RestInv
<1> QED BY <1>3, <1>8, <1>9, <1>10 DEF TablesInv

LEMMA PruneKeeps ==
  ASSUME FocusInv, Prune
  PROVE  FocusTypeOK' /\ TablesInv'
<1>1. /\ stage = "attend" /\ jobs = <<>> /\ stage' = "select"
      /\ UNCHANGED <<items, ranks, recent, half, percepts, toPut, contents, failures>>
  BY DEF Prune
<1>2. PICK gone \in Expired : jobs' = EvictAll(gone)
  BY DEF Prune
<1>3. jobs' \in Seq(Jobs) /\ ToWrite' = {}
  BY <1>2, Gone, OnlyEvicts
<1>4. /\ half = FALSE /\ HalfInv' /\ TornInv'
      /\ Ids(items) \subseteq Slots /\ Cardinality(Ids(items)) \in Nat
      /\ Cardinality(Ids(items)) <= Capacity + failures + Slack
  BY <1>1, Planned
<1>5. FocusTypeOK'
  BY <1>1, <1>3 DEF FocusInv, FocusTypeOK, Ids
<1>6. HeldInv'
  <2>1. (Ids(items) \cup ToWrite)' = Ids(items)
    BY <1>1, <1>3 DEF Ids
  <2>2. Slack = 0 /\ Slack' = 0
    BY <1>1 DEF Slack
  <2> QED BY <1>1, <1>4, <2>1, <2>2 DEF HeldInv
<1>7. TrimInv' /\ RestInv'
  BY <1>1 DEF TrimInv, RestInv
<1> QED BY <1>4, <1>5, <1>6, <1>7 DEF TablesInv

\* A stage that touches neither Redis nor its plans.
LEMMA AsideKeeps ==
  ASSUME FocusInv, jobs = <<>>, UNCHANGED <<items, ranks, jobs, half, failures>>,
         stage # "trim", stage' # "trim"
  PROVE  TablesInv'
<1>1. /\ HalfInv' /\ TornInv'
      /\ Cardinality(Ids(items)) <= Capacity + failures + Slack
  BY Planned
<1>2. TrimInv' /\ RestInv'
  BY DEF TrimInv, RestInv
<1>3. HeldInv'
  <2>1. DOMAIN jobs' = {}
    OBVIOUS
  <2>2. (Ids(items) \cup ToWrite)' = Ids(items)
    BY <2>1 DEF ToWrite, Ids
  <2>3. Slack = 0 /\ Slack' = 0
    BY DEF Slack
  <2> QED BY <1>1, <2>2, <2>3 DEF HeldInv
<1> QED BY <1>1, <1>2, <1>3 DEF TablesInv

\* A failure or a crash tears at most the entry between its two commands.
LEMMA FailureKeeps ==
  ASSUME FocusInv, UNCHANGED <<items, ranks>>, jobs' = <<>>, half' = FALSE,
         failures' = failures + 1, stage' \in {"idle", "recall", "end"}
  PROVE  TablesInv'
<1>1. HalfInv' /\ TrimInv' /\ RestInv'
  BY DEF HalfInv, TrimInv, RestInv
<1>2. failures \in Nat /\ Capacity \in Nat
  BY Typed, FocusAssumption DEF FocusInv
<1>3. TornInv'
  <2> DEFINE S == Torn \ Between
  <2>1. Torn' = Torn /\ Between' = {}
    BY DEF Torn, Between, Ids
  <2>2. S \subseteq Slots /\ Torn \subseteq Slots
    BY SlotSets DEF FocusInv
  <2>3. IsFiniteSet(S) /\ Cardinality(S) \in Nat /\ Cardinality(S) <= failures
    BY <2>2, SlotSet DEF FocusInv, TornInv
  <2> HIDE DEF S
  <2>4. IsFiniteSet(Torn) /\ Cardinality(Torn) \in Nat
    BY <2>2, SlotSet
  <2>5. Cardinality(Torn) <= Cardinality(S) + 1
    <3>1. CASE Between \cap Torn = {}
      <4>1. Torn = S
        BY <3>1 DEF S
      <4> QED BY <2>4, <4>1
    <3>2. CASE Between \cap Torn # {}
      <4>1. PICK i \in Torn : Between = {i}
        BY <3>2 DEF Between
      <4>2. Torn = S \cup {i} /\ i \notin S
        BY <4>1 DEF S
      <4>3. Cardinality(S \cup {i}) = Cardinality(S) + 1
        BY <2>3, <4>2, FS_AddElement
      <4> QED BY <2>3, <4>2, <4>3
    <3> QED BY <3>1, <3>2
  <2>6. Cardinality(Torn) <= failures + 1
    BY <1>2, <2>3, <2>4, <2>5
  <2> QED BY <2>1, <2>6 DEF TornInv
<1>4. HeldInv'
  <2>1. DOMAIN jobs' = {}
    OBVIOUS
  <2>2. (Ids(items) \cup ToWrite)' = Ids(items)
    BY <2>1 DEF ToWrite, Ids
  <2> DEFINE a == Cardinality(Ids(items))
             b == Cardinality(Ids(items) \cup ToWrite)
  <2>3. a <= b /\ a \in Nat /\ b \in Nat
    <3>1. Ids(items) \cup ToWrite \subseteq Slots /\ Ids(items) \subseteq Ids(items) \cup ToWrite
      BY SlotSets DEF FocusInv
    <3> QED BY <3>1, SlotSet
  <2>4. b <= Capacity + failures + Slack
    BY DEF FocusInv, HeldInv
  <2>5. Slack \in {0, 1} /\ Slack' = 0
    BY DEF Slack
  <2> HIDE DEF a, b
  <2>6. a <= Capacity + (failures + 1) + 0
    BY <1>2, <2>3, <2>4, <2>5
  <2> QED BY <2>2, <2>5, <2>6 DEF HeldInv, a
<1> QED BY <1>1, <1>3, <1>4 DEF TablesInv

----------------------------------------------------------------------------
(* What the stages put into contents.                                      *)

\* The orders of a finite set.
LEMMA Ordered ==
  ASSUME NEW S, IsFiniteSet(S), NEW q \in SetToSeqs(S)
  PROVE  q \in Seq(S) /\ Len(q) \in Nat /\ \A n \in 1..Len(q) : q[n] \in S
<1> DEFINE k == Cardinality(S)
<1>1. k \in Nat
  BY FS_CardinalityType
<1>2. q \in [1..k -> S]
  BY DEF SetToSeqs
<1> HIDE DEF k
<1>3. q \in Seq(S) /\ Len(q) = k
  BY <1>1, <1>2, FunctionIsSeq
<1> QED BY <1>1, <1>2, <1>3

LEMMA PerceiveKeeps ==
  ASSUME FocusInv, NEW q \in Batches, Perceive(q)
  PROVE  FocusTypeOK' /\ TablesInv'
<1>1. /\ stage = "idle" /\ percepts' = q /\ toPut' = q /\ contents' = <<>> /\ stage' = "fold"
      /\ UNCHANGED <<items, ranks, recent, jobs, half, failures>>
  BY DEF Perceive
<1>2. jobs = <<>>
  BY <1>1 DEF FocusInv, RestInv
<1>3. q \in Seq(Item)
  <2>1. PICK K \in SUBSET Percepts : q \in SetToSeqs(K)
    BY DEF Batches
  <2>2. IsFiniteSet(K) /\ K \subseteq Item
    BY FocusAssumption, FS_Subset
  <2>3. q \in Seq(K)
    BY <2>1, <2>2, Ordered
  <2> QED BY <2>2, <2>3, SeqMonotonic
<1>4. FocusTypeOK'
  <2>1. contents' \in Seq(Item) /\ Len(contents') <= Width
    BY <1>1, FocusAssumption
  <2> QED BY <1>1, <1>3, <2>1 DEF FocusInv, FocusTypeOK, Ids
<1>5. TablesInv'
  BY <1>1, <1>2, AsideKeeps
<1> QED BY <1>4, <1>5

LEMMA TickEndsKeeps ==
  ASSUME FocusInv, TickEnds
  PROVE  FocusTypeOK' /\ TablesInv'
<1>1. /\ stage = "end" /\ jobs = <<>> /\ stage' = "idle" /\ percepts' = <<>> /\ contents' = <<>>
      /\ UNCHANGED <<items, ranks, recent, jobs, half, toPut, failures>>
  BY DEF TickEnds
<1>2. contents' \in Seq(Item) /\ Len(contents') <= Width
  BY <1>1, FocusAssumption
<1>3. FocusTypeOK'
  BY <1>1, <1>2 DEF FocusInv, FocusTypeOK, Ids
<1> QED BY <1>1, <1>3, AsideKeeps

LEMMA NothingRecalledKeeps ==
  ASSUME FocusInv, NothingRecalled
  PROVE  FocusTypeOK' /\ TablesInv'
<1>1. /\ stage = "recall" /\ jobs = <<>> /\ stage' = "end"
      /\ UNCHANGED <<items, ranks, recent, jobs, half, percepts, toPut, contents, failures>>
  BY DEF NothingRecalled
<1>2. FocusTypeOK'
  BY <1>1 DEF FocusInv, FocusTypeOK, Ids
<1> QED BY <1>1, <1>2, AsideKeeps

LEMMA CommandFailsKeeps ==
  ASSUME FocusInv, CommandFails
  PROVE  FocusTypeOK' /\ TablesInv'
<1>1. /\ failures < MaxFailures /\ failures' = failures + 1
      /\ stage' \in {"recall", "end"} /\ jobs' = <<>> /\ half' = FALSE /\ toPut' = <<>>
      /\ UNCHANGED <<items, ranks, recent, percepts, contents>>
  BY DEF CommandFails
<1>2. failures' \in 0..MaxFailures
  BY <1>1, FocusAssumption DEF FocusInv, FocusTypeOK
<1>3. FocusTypeOK'
  <2>1. jobs' \in Seq(Jobs) /\ toPut' \in Seq(Item)
    BY <1>1
  <2> QED BY <1>1, <1>2, <2>1 DEF FocusInv, FocusTypeOK, Ids
<1>4. TablesInv'
  BY <1>1, FailureKeeps
<1> QED BY <1>3, <1>4

LEMMA CrashKeeps ==
  ASSUME FocusInv, Crash
  PROVE  FocusTypeOK' /\ TablesInv'
<1>1. /\ failures < MaxFailures /\ failures' = failures + 1
      /\ stage' = "idle" /\ jobs' = <<>> /\ half' = FALSE /\ toPut' = <<>>
      /\ percepts' = <<>> /\ contents' = <<>> /\ recent' = <<>>
      /\ UNCHANGED <<items, ranks>>
  BY DEF Crash
<1>2. failures' \in 0..MaxFailures
  BY <1>1, FocusAssumption DEF FocusInv, FocusTypeOK
<1>3. /\ contents' \in Seq(Item) /\ Len(contents') <= Width
      /\ recent' \in Seq(STRING) /\ Len(recent') <= Horizon
  BY <1>1, FocusAssumption
<1>4. FocusTypeOK'
  <2>1. jobs' \in Seq(Jobs) /\ toPut' \in Seq(Item) /\ percepts' \in Seq(Item)
    BY <1>1
  <2> QED BY <1>1, <1>2, <1>3, <2>1 DEF FocusInv, FocusTypeOK, Ids
<1>5. TablesInv'
  BY <1>1, FailureKeeps
<1> QED BY <1>4, <1>5

\* How often a content is remembered.
LEMMA Counted ==
  ASSUME FocusTypeOK, NEW c
  PROVE  Repeats(c) \in 0..Horizon
<1> DEFINE k == Len(recent)
<1>1. k \in Nat /\ k <= Horizon /\ Horizon \in Nat
  BY LenProperties, FocusAssumption DEF FocusTypeOK
<1> HIDE DEF k
<1>2. IsFiniteSet(1..k) /\ Cardinality(1..k) = k
  BY <1>1, UpTo
<1> DEFINE S == {n \in 1..k : recent[n] = c}
<1>3. IsFiniteSet(S) /\ Cardinality(S) <= k
  <2>1. S \subseteq 1..k
    OBVIOUS
  <2> QED BY <1>2, <2>1, FS_Subset
<1>4. Cardinality(S) \in Nat
  BY <1>3, FS_CardinalityType
<1>5. Repeats(c) = Cardinality(S)
  BY DEF Repeats, k
<1> HIDE DEF S
<1> QED BY <1>1, <1>3, <1>4, <1>5

LEMMA ScoreIsNat ==
  ASSUME FocusTypeOK, NEW x \in Item, NEW bias \in Bias
  PROVE  Score(x, bias) \in Nat
<1> DEFINE base == x.salience + Novelty[Repeats(x.content)] + (IF x.kind \in bias.pull THEN 1 ELSE 0)
           times == 200 * Top + bias.sharpen * (2 * x.salience - Top)
<1>1. x.salience \in Int /\ bias.sharpen \in Int /\ Top \in Int
  <2>1. x.salience \in Int /\ Top \in Int
    BY FocusAssumption DEF Item
  <2>2. bias.sharpen \in Int
    BY DEF Bias
  <2> QED BY <2>1, <2>2
<1>2. Novelty[Repeats(x.content)] \in Int
  BY Counted, FocusAssumption
<1>3. base \in Int
  BY <1>1, <1>2
<1>4. times \in Int
  BY <1>1
<1> HIDE DEF base, times
<1>5. base * times \in Int
  BY <1>3, <1>4
<1>6. Score(x, bias) = Larger(0, base * times)
  BY DEF Score, base, times
<1> QED BY <1>5, <1>6 DEF Larger

LEMMA ClampedType ==
  ASSUME NEW n \in Nat
  PROVE  Clamped(n) \in 0..Top
<1> DEFINE d == 200 * Top
           s == n \div d
<1>1. d \in Nat /\ d > 0 /\ Top \in Nat
  BY FocusAssumption
<1> HIDE DEF d
<1>2. s \in Nat
  BY <1>1
<1>3. Clamped(n) = IF s > Top THEN Top ELSE s
  BY DEF Clamped, d
<1> HIDE DEF s
<1> QED BY <1>1, <1>2, <1>3

LEMMA LiveIsFinite ==
  ASSUME FocusTypeOK
  PROVE  Live \subseteq Item /\ IsFiniteSet(Live)
<1> DEFINE f == [i \in Ids(items) |-> items[i]]
<1>1. Live \subseteq Item
  BY Typed DEF Live
<1>2. f \in Surjection(Ids(items), Live)
  BY DEF Surjection, Live
<1>3. IsFiniteSet(Ids(items))
  BY SlotSets, SlotSet
<1> QED BY <1>1, <1>2, <1>3, FS_Surjection

LEMMA SelectKeeps ==
  ASSUME FocusInv, Select
  PROVE  FocusTypeOK' /\ TablesInv'
<1>1. /\ stage = "select" /\ jobs = <<>> /\ stage' = "recall"
      /\ UNCHANGED <<items, ranks, jobs, half, percepts, toPut, failures>>
  BY DEF Select
<1> DEFINE C == Live \cup Range(percepts)
<1>0. PICK bias \in Biases, D \in Deduped(C) :
          \E q \in Best(D, bias) : contents' = Admitted(q, bias) /\ recent' = Remembered(q)
  BY DEF Select
<1>2. PICK q \in Best(D, bias) : contents' = Admitted(q, bias) /\ recent' = Remembered(q)
  BY <1>0
<1>3. C \subseteq Item /\ IsFiniteSet(C)
  <2>1. Range(percepts) \subseteq Item /\ IsFiniteSet(Range(percepts))
    BY FiniteRange DEF FocusInv, FocusTypeOK
  <2>2. Live \subseteq Item /\ IsFiniteSet(Live)
    BY LiveIsFinite DEF FocusInv
  <2> QED BY <2>1, <2>2, FS_Union
<1> DEFINE k == IF Cardinality(D) < Width THEN Cardinality(D) ELSE Width
<1>4. D \subseteq Item /\ k \in Nat /\ k <= Width
  <2>1. D \subseteq C
    BY DEF Deduped
  <2>2. Cardinality(D) \in Nat
    BY <1>3, <2>1, FS_Subset, FS_CardinalityType
  <2> QED BY <1>3, <2>1, <2>2, FocusAssumption
<1>5. q \in [1..k -> D]
  BY DEF Best
<1> HIDE DEF C, k
<1>6. Len(q) = k /\ \A n \in 1..k : q[n] \in Item
  BY <1>4, <1>5, FunctionIsSeq
<1>7. contents' \in Seq(Item) /\ Len(contents') <= Width
  <2> DEFINE s(n) == Score(q[n], bias)
             v(n) == Clamped(s(n))
             w(n) == [q[n] EXCEPT !.salience = v(n)]
  <2>1. contents' = [n \in 1..k |-> w(n)]
    BY <1>2, <1>6 DEF Admitted
  <2>2. \A n \in 1..k : s(n) \in Nat
    BY <1>6, ScoreIsNat, FocusAssumption DEF FocusInv
  <2> HIDE DEF s
  <2>3. \A n \in 1..k : v(n) \in 0..Top
    BY <2>2, ClampedType
  <2> HIDE DEF v
  <2>4. \A n \in 1..k : w(n) \in Item
    BY <1>6, <2>3 DEF Item
  <2> HIDE DEF w
  <2>5. contents' \in [1..k -> Item]
    BY <2>1, <2>4
  <2> QED BY <1>4, <2>5, FunctionIsSeq
<1>8. recent' \in Seq(STRING) /\ Len(recent') <= Horizon
  <2> DEFINE c == [n \in 1..k |-> q[n].content]
             all == recent \o c
             l == Len(all)
             m == Larger(1, l - Horizon + 1)
  <2>1. c \in Seq(STRING)
    <3>1. \A n \in 1..k : q[n].content \in STRING
      BY <1>6 DEF Item
    <3>2. c \in [1..k -> STRING]
      BY <3>1
    <3> HIDE DEF c
    <3> QED BY <1>4, <3>2, FunctionIsSeq
  <2>2. recent' = SubSeq(all, m, l)
    BY <1>2, <1>6 DEF Remembered
  <2> HIDE DEF c
  <2>3. all \in Seq(STRING)
    BY <2>1, ConcatProperties DEF FocusInv, FocusTypeOK
  <2> HIDE DEF all
  <2>4. l \in Nat /\ \A n \in 1..l : all[n] \in STRING
    BY <2>3, LenProperties
  <2> HIDE DEF l
  <2>5. m \in Int /\ m >= 1 /\ m >= l - Horizon + 1 /\ Horizon \in Nat
    BY <2>4, FocusAssumption DEF Larger
  <2> HIDE DEF m
  <2>6. \A n \in m..l : all[n] \in STRING
    BY <2>4, <2>5
  <2>7. SubSeq(all, m, l) \in Seq(STRING) /\ Len(SubSeq(all, m, l)) = IF m <= l THEN l - m + 1 ELSE 0
    BY <2>4, <2>5, <2>6, SubSeqProperties
  <2>8. (IF m <= l THEN l - m + 1 ELSE 0) <= Horizon
    BY <2>4, <2>5
  <2> QED BY <2>2, <2>7, <2>8
<1>9. FocusTypeOK'
  BY <1>1, <1>7, <1>8 DEF FocusInv, FocusTypeOK, Ids
<1>10. TablesInv'
  BY <1>1, AsideKeeps
<1> QED BY <1>9, <1>10

\* What is recalled of a kind are items.
LEMMA RecalledAreItems ==
  ASSUME NEW kind, NEW q \in TopK(kind), NEW V \in SUBSET [1..Len(q) -> 0..Top],
         NEW e \in Scaled(q, V)
  PROVE  e \in Seq(Item)
<1> DEFINE of == {m \in Memories : m.kind = kind}
<1>1. PICK K \in SUBSET of : q \in SetToSeqs(K)
  BY DEF TopK
<1>2. IsFiniteSet(K) /\ K \subseteq Memories
  BY FocusAssumption, FS_Subset
<1> DEFINE l == Len(q)
<1>3. l \in Nat /\ \A n \in 1..l : q[n] \in Memories
  BY <1>1, <1>2, Ordered
<1>4. PICK w \in V :
          e = [n \in 1..l |-> [content |-> q[n].content, kind |-> q[n].kind, salience |-> w[n]]]
  BY DEF Scaled
<1>5. w \in [1..l -> 0..Top]
  BY <1>4
<1> HIDE DEF l
<1>6. \A n \in 1..l : /\ q[n].content \in STRING /\ q[n].kind \in STRING
                      /\ w[n] \in 0..Top
  <2>1. \A m \in Memories : m.content \in STRING /\ m.kind \in STRING
    BY FocusAssumption
  <2> QED BY <1>3, <1>5, <2>1
<1>7. e \in [1..l -> Item]
  BY <1>4, <1>6 DEF Item
<1> QED BY <1>3, <1>7, FunctionIsSeq

\* Saliences of either kind are saliences.
LEMMA SalienceRange ==
  ASSUME NEW n
  PROVE  /\ Falling(n) \subseteq [1..n -> 0..Top]
         /\ Rising(n) \subseteq [1..n -> 0..Top]
<1>1. 0..Ceiling \subseteq 0..Top /\ Ceiling..Top \subseteq 0..Top
  BY FocusAssumption
<1> QED BY <1>1 DEF Falling, Rising

LEMMA RecallKeeps ==
  ASSUME FocusInv, Recall
  PROVE  FocusTypeOK' /\ TablesInv'
<1>1. /\ stage = "recall" /\ jobs = <<>> /\ stage' = "end"
      /\ UNCHANGED <<items, ranks, recent, jobs, half, percepts, toPut, failures>>
  BY DEF Recall
<1>2. PICK e \in Episodes, f \in Facts : contents' \in Merged(e \o f)
  BY DEF Recall
<1>3. e \in Seq(Item)
  <2>1. PICK q \in TopK("memory") :
            e \in Scaled(q, Rising(Len(q)) \cup
                            {v \in Falling(Len(q)) : \A n \in 1..Len(q) : v[1] \in {0, Ceiling}})
    BY DEF Episodes
  <2> QED BY <2>1, SalienceRange, RecalledAreItems
<1>33. f \in Seq(Item)
  <2>1. PICK q \in TopK("fact") : f \in Scaled(q, Falling(Len(q)))
    BY DEF Facts
  <2> QED BY <2>1, SalienceRange, RecalledAreItems
<1> DEFINE all == contents \o (e \o f)
           k == IF Len(all) < Width THEN Len(all) ELSE Width
<1>4. all \in Seq(Item)
  BY <1>3, <1>33, ConcatProperties DEF FocusInv, FocusTypeOK
<1>5. PICK p \in SalientFirst(all) : contents' = [n \in DOMAIN p |-> all[p[n]]]
  BY <1>2 DEF Merged
<1> HIDE DEF all
<1>6. /\ DOMAIN all = 1..Len(all) /\ k \in Nat /\ k <= Width
      /\ \A n \in DOMAIN all : all[n] \in Item
  <2>1. Len(all) \in Nat /\ DOMAIN all = 1..Len(all) /\ \A n \in 1..Len(all) : all[n] \in Item
    BY <1>4, LenProperties
  <2> QED BY <2>1, FocusAssumption
<1>7. p \in [1..k -> DOMAIN all]
  BY DEF SalientFirst
<1> HIDE DEF k
<1>8. contents' \in [1..k -> Item]
  BY <1>5, <1>6, <1>7
<1>9. contents' \in Seq(Item) /\ Len(contents') <= Width
  BY <1>6, <1>8, FunctionIsSeq
<1>10. FocusTypeOK'
  BY <1>1, <1>9 DEF FocusInv, FocusTypeOK, Ids
<1> QED BY <1>1, <1>10, AsideKeeps

----------------------------------------------------------------------------
(* Working memory is bounded, whatever fails.                              *)

LEMMA InitFocusInv ==
  ASSUME FocusInit
  PROVE  FocusInv
<1>1. /\ Ids(items) = {} /\ Ids(ranks) = {} /\ jobs = <<>> /\ half = FALSE /\ stage = "idle"
      /\ recent = <<>> /\ percepts = <<>> /\ toPut = <<>> /\ contents = <<>> /\ failures = 0
  BY DEF FocusInit, Empty, Ids
<1>2. FocusTypeOK
  <2>1. Range(items) = {} /\ Range(ranks) = {}
    BY <1>1 DEF Range, Ids
  <2>2. /\ recent \in Seq(STRING) /\ Len(recent) <= Horizon /\ jobs \in Seq(Jobs)
        /\ percepts \in Seq(Item) /\ toPut \in Seq(Item)
        /\ contents \in Seq(Item) /\ Len(contents) <= Width
        /\ failures \in 0..MaxFailures
    BY <1>1, FocusAssumption
  <2> QED BY <1>1, <2>1, <2>2 DEF FocusTypeOK
<1>3. TornInv /\ HeldInv
  <2>1. DOMAIN jobs = {}
    BY <1>1
  <2>2. Torn \ Between = {} /\ Ids(items) \cup ToWrite = {} /\ Slack = 0
    BY <1>1, <2>1 DEF Torn, Between, ToWrite, Slack
  <2>3. Cardinality(Torn \ Between) = 0 /\ Cardinality(Ids(items) \cup ToWrite) = 0
    BY <2>2, FS_EmptySet
  <2> QED BY <1>1, <2>2, <2>3, FocusAssumption DEF TornInv, HeldInv
<1> QED BY <1>1, <1>2, <1>3 DEF FocusInv, HalfInv, TrimInv, RestInv

LEMMA NextFocusInv ==
  ASSUME FocusInv, [FocusNext]_focusVars
  PROVE  FocusInv'
<1>1. FocusTypeOK' /\ TablesInv'
  <2>1. CASE \E q \in Batches : Perceive(q)
    BY <2>1, PerceiveKeeps
  <2>2. CASE Put
    BY <2>2, PutKeeps
  <2>3. CASE Trim
    BY <2>3, TrimKeeps
  <2>4. CASE Decay
    BY <2>4, DecayKeeps
  <2>5. CASE Prune
    BY <2>5, PruneKeeps
  <2>6. CASE Select
    BY <2>6, SelectKeeps
  <2>7. CASE NothingRecalled
    BY <2>7, NothingRecalledKeeps
  <2>8. CASE Recall
    BY <2>8, RecallKeeps
  <2>9. CASE Run /\ ~half
    BY <2>9, HashKeeps
  <2>10. CASE Run /\ half
    BY <2>10, RanksKeep
  <2>11. CASE TickEnds
    BY <2>11, TickEndsKeeps
  <2>12. CASE CommandFails
    BY <2>12, CommandFailsKeeps
  <2>13. CASE Crash
    BY <2>13, CrashKeeps
  <2>14. CASE UNCHANGED focusVars
    BY <2>14 DEF focusVars, FocusInv, FocusTypeOK, TablesInv, HalfInv, TornInv, HeldInv,
                 TrimInv, RestInv, Torn, Between, ToWrite, Doomed, Slack, Ids
  <2> QED BY <2>1, <2>2, <2>3, <2>4, <2>5, <2>6, <2>7, <2>8, <2>9, <2>10, <2>11, <2>12,
             <2>13, <2>14 DEF FocusNext, Progress
<1> QED BY <1>1 DEF FocusInv, TablesInv

(* However many percepts come, and whatever commands fail or crashes cut    *)
(* short, the hash and the sorted set disagree on no more ids than there    *)
(* were failures, and Attention is offered no more items than the capacity  *)
(* and the failures: put, _trim_to_capacity, decay, contents, _persist and  *)
(* _evict, one Redis command at a time.                                     *)
THEOREM WorkingSetIsBounded ==
  FocusSpec => []WorkingSetHolds
<1>1. FocusInit => FocusInv
  BY InitFocusInv
<1>2. FocusInv /\ [FocusNext]_focusVars => FocusInv'
  BY NextFocusInv
<1>3. FocusInv => WorkingSetHolds
  <2> SUFFICES ASSUME FocusInv PROVE WorkingSetHolds
    OBVIOUS
  <2>1. OneFailureTearsOne
    <3>1. jobs = <<>> => Torn \ Between = Torn
      BY DEF FocusInv, HalfInv, Between
    <3> QED BY <3>1 DEF OneFailureTearsOne, FocusInv, TornInv
  <2>2. WorkingSetBounded
    <3> SUFFICES ASSUME stage \in {"select", "recall"}, jobs = <<>>
                 PROVE  Cardinality(Ids(items)) <= Capacity + failures
      BY DEF WorkingSetBounded
    <3>1. DOMAIN jobs = {}
      OBVIOUS
    <3>2. Ids(items) \cup ToWrite = Ids(items) /\ Slack = 0
      BY <3>1 DEF ToWrite, Slack
    <3>3. Cardinality(Ids(items)) <= Capacity + failures + 0
      BY <3>2 DEF FocusInv, HeldInv
    <3> QED BY <3>3, Typed, FocusAssumption DEF FocusInv
  <2> QED BY <2>1, <2>2 DEF WorkingSetHolds, FocusInv
<1> QED BY <1>1, <1>2, <1>3, PTL DEF FocusSpec

=============================================================================
