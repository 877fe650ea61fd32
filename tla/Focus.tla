------------------------------- MODULE Focus -------------------------------
(***************************************************************************)
(* What the Mind attends to: working memory in Redis, the salience         *)
(* bottleneck over it, and what recall adds (brain/memory/working.py,      *)
(* brain/agents/attention.py, brain/agents/memory_stages.py, ATTEND and    *)
(* RECALL of brain/cycle.py).  The blackboard is a copy of contents that   *)
(* no stage reads.                                                         *)
(*                                                                         *)
(* One task uses working memory, one Redis command at a time; a command    *)
(* may fail, which ends the stage, and the process may die between two.    *)
(* Salience and scores are small numbers; an item may turn out expired     *)
(* whenever expiry is looked at.                                           *)
(***************************************************************************)
EXTENDS Integers, FiniteSets, Sequences, SequencesExt

CONSTANTS
    Percepts,     \* what may be perceived: [content, kind, salience]
    Memories,     \* what may be recalled: [content, kind], kind "memory" or "fact"
    RecallK,      \* memory_recall_episodes_k and memory_recall_facts_k
    Ceiling,      \* memory_recall_salience_ceiling
    Slots,        \* ids of items, 1..n; a new one takes the least free
    Top,          \* the greatest salience
    Fade,         \* [0..Top -> 0..Top]: times working_memory_decay_factor
    Floor,        \* working_memory_salience_floor
    Capacity,     \* working_memory_capacity
    Width,        \* workspace_capacity
    Novelty,      \* [0..Horizon -> Nat]: what a content scores by its repeats
    Horizon,      \* how many admitted contents Attention remembers
    Biases,       \* what APPRAISE may set
    MaxBatch,     \* bound: percepts of one tick
    MaxFailures   \* bound: failed commands and crashes

\* What is attended to, be it perceived, held or recalled.
Item == [content : STRING, kind : STRING, salience : 0..Top]

\* The kinds a drive pulls on, and how much arousal sharpens, in hundredths.
Bias == [pull : SUBSET STRING, sharpen : -100..100]

ASSUME FocusAssumption ==
    /\ Percepts \subseteq Item /\ Biases \subseteq Bias
    /\ Memories \subseteq [content : STRING, kind : STRING]
    /\ \A m \in Memories : m.kind \in {"memory", "fact"}
    /\ IsFiniteSet(Percepts) /\ IsFiniteSet(Memories) /\ IsFiniteSet(Slots)
    /\ Ceiling \in 0..Top /\ RecallK \in Nat
    /\ Top \in Nat /\ Floor \in 1..Top
    /\ Fade \in [0..Top -> 0..Top] /\ \A s \in 1..Top : Fade[s] < s
    /\ Capacity \in Nat \ {0} /\ Width \in Nat \ {0}
    /\ Horizon \in Nat /\ Novelty \in [0..Horizon -> Nat]
    /\ MaxBatch \in Nat /\ MaxFailures \in Nat
    /\ Slots = 1..Cardinality(Slots)

VARIABLES
    items,     \* the hash: id -> item
    ranks,     \* the sorted set: id -> salience
    recent,    \* Attention._recent
    stage,     \* "idle", or the next thing the tick does
    jobs,      \* the calls of _persist and _evict left of the operation under way
    half,      \* of the first of them, the first command is done
    percepts,  \* of this tick
    toPut,     \* those still to be folded into working memory
    contents,  \* CycleContext.contents
    failures   \* history: failed commands and crashes

focusVars == <<items, ranks, recent, stage, jobs, half, percepts, toPut, contents, failures>>

Ids(f) == DOMAIN f

Jobs == [op : {"evict"}, id : Slots] \cup [op : {"persist"}, id : Slots, item : Item]

FocusTypeOK ==
    /\ Ids(items) \subseteq Slots /\ Ids(ranks) \subseteq Slots
    /\ Range(items) \subseteq Item /\ Range(ranks) \subseteq 0..Top
    /\ recent \in Seq(STRING) /\ Len(recent) <= Horizon
    /\ stage \in {"idle", "fold", "trim", "decay", "attend", "select", "recall", "end"}
    /\ jobs \in Seq(Jobs) /\ half \in BOOLEAN
    /\ percepts \in Seq(Item) /\ toPut \in Seq(Item)
    /\ contents \in Seq(Item) /\ Len(contents) <= Width
    /\ failures \in 0..MaxFailures

----------------------------------------------------------------------------
(* Working memory: what each operation asks of Redis.                      *)

Evict(i) == [op |-> "evict", id |-> i]

Persist(i, x) == [op |-> "persist", id |-> i, item |-> x]

EvictAll(S) == LET q == SetToSeq(S) IN [n \in DOMAIN q |-> Evict(q[n])]

\* Which items have passed their expires_at is the clock's choice.  Bound: one
\* at a time.
Expired == {gone \in SUBSET Ids(items) : Cardinality(gone) <= 1}

Unused == Slots \ (Ids(items) \cup Ids(ranks))

\* put(): prune, write both structures; the trim reads what is there then.
Put ==
    /\ stage = "fold" /\ jobs = <<>> /\ toPut # <<>>
    /\ Unused # {}
    /\ \E gone \in Expired :
           jobs' = Append(EvictAll(gone),
                          Persist(CHOOSE i \in Unused : \A j \in Unused : i <= j, Head(toPut)))
    /\ toPut' = Tail(toPut)
    /\ stage' = "trim"
    /\ UNCHANGED <<items, ranks, recent, half, percepts, contents, failures>>

\* The lowest of the sorted set; equal ranks fall in any order.
Lowest(n) ==
    {low \in SUBSET Ids(ranks) :
        /\ Cardinality(low) = n
        /\ \A i \in low, j \in Ids(ranks) \ low : ranks[i] <= ranks[j]}

Overflow == IF Cardinality(Ids(ranks)) > Capacity THEN Cardinality(Ids(ranks)) - Capacity ELSE 0

Trim ==
    /\ stage = "trim" /\ jobs = <<>>
    /\ \E low \in Lowest(Overflow) : jobs' = EvictAll(low)
    /\ stage' = "fold"
    /\ UNCHANGED <<items, ranks, recent, half, percepts, toPut, contents, failures>>

Aged_SubFloorKept(i) == Persist(i, [items[i] EXCEPT !.salience = IF Fade[@] < Floor THEN @ ELSE Fade[@]])

\* One item's turn in the sweep.
Aged(i) ==
    IF Fade[items[i].salience] < Floor THEN Evict(i)
    ELSE Persist(i, [items[i] EXCEPT !.salience = Fade[@]])

\* decay(): prune, then the hash in its order.
Decay ==
    /\ stage = "fold" /\ jobs = <<>> /\ toPut = <<>>
    /\ \E gone \in Expired :
           LET q == SetToSeq(Ids(items) \ gone) IN
           jobs' = EvictAll(gone) \o [n \in DOMAIN q |-> Aged(q[n])]
    /\ stage' = "attend"
    /\ UNCHANGED <<items, ranks, recent, half, percepts, toPut, contents, failures>>

\* contents(): prune, then read the hash.
Prune ==
    /\ stage = "attend" /\ jobs = <<>>
    /\ \E gone \in Expired : jobs' = EvictAll(gone)
    /\ stage' = "select"
    /\ UNCHANGED <<items, ranks, recent, half, percepts, toPut, contents, failures>>

----------------------------------------------------------------------------
(* Attention.                                                              *)

Larger(a, b) == IF a >= b THEN a ELSE b

Repeats(c) == Cardinality({n \in 1..Len(recent) : recent[n] = c})

\* Salience and novelty and the drives' pull on a kind, times the sharpening by
\* arousal above or below mid-salience: 1 + sharpen * (salience - 1/2).
Score(x, bias) ==
    LET base == x.salience + Novelty[Repeats(x.content)] + (IF x.kind \in bias.pull THEN 1 ELSE 0)
    IN  Larger(0, base * (200 * Top + bias.sharpen * (2 * x.salience - Top)))

\* The same as a salience: clamped, and rounded down.
Clamped(score) == LET s == score \div (200 * Top) IN IF s > Top THEN Top ELSE s

Live == {items[i] : i \in Ids(items)}

\* One instance of each content, a most salient one.
Deduped(C) ==
    {D \in SUBSET C :
        /\ \A x \in C : \E y \in D : y.content = x.content /\ y.salience >= x.salience
        /\ \A x, y \in D : x.content = y.content => x = y}

\* As many as fit, best first, ties in any order.
Best(C, bias) ==
    {q \in [1..(IF Cardinality(C) < Width THEN Cardinality(C) ELSE Width) -> C] :
        /\ IsInjective(q)
        /\ \A n \in 1..Len(q) - 1 : Score(q[n], bias) >= Score(q[n + 1], bias)
        /\ \A x \in C \ Range(q) : \A n \in 1..Len(q) : Score(q[n], bias) >= Score(x, bias)}

\* An admitted item carries its score as its salience.
Admitted(q, bias) ==
    [n \in 1..Len(q) |-> [q[n] EXCEPT !.salience = Clamped(Score(q[n], bias))]]

Remembered(q) ==
    LET all == recent \o [n \in 1..Len(q) |-> q[n].content]
    IN  SubSeq(all, Larger(1, Len(all) - Horizon + 1), Len(all))

Select ==
    /\ stage = "select" /\ jobs = <<>>
    /\ \E bias \in Biases, D \in Deduped(Live \cup Range(percepts)) :
         \E q \in Best(D, bias) :
           /\ contents' = Admitted(q, bias)
           /\ recent' = Remembered(q)
    /\ stage' = "recall"
    /\ UNCHANGED <<items, ranks, jobs, half, percepts, toPut, failures>>

----------------------------------------------------------------------------
(* Recall.                                                                 *)

\* The best of a kind by a score that no one bounds: at most k of them, in
\* any order the scores may give.
TopK(kind) ==
    LET of == {m \in Memories : m.kind = kind} IN
    UNION {SetToSeqs(K) : K \in {L \in SUBSET of : Cardinality(L) <= RecallK}}

Falling(n) == {v \in [1..n -> 0..Ceiling] : \A i, j \in 1..n : i <= j => v[i] >= v[j]}
Rising(n) == {v \in [1..n -> Ceiling..Top] : \A i, j \in 1..n : i <= j => v[1] = Ceiling /\ v[i] <= v[j]}

Scaled(q, saliences) ==
    {[n \in 1..Len(q) |-> [content |-> q[n].content, kind |-> q[n].kind, salience |-> v[n]]] :
        v \in saliences}

\* Episodes are divided by the best score, so that the best of them gets the
\* ceiling, unless it scores nothing; where all scores are negative, the worse
\* of them gets the more.
Episodes ==
    UNION {Scaled(q, Rising(Len(q)) \cup
                     {v \in Falling(Len(q)) : \A n \in 1..Len(q) : v[1] \in {0, Ceiling}}) :
           q \in TopK("memory")}

\* A fact has what its similarity gives.
Facts == UNION {Scaled(q, Falling(Len(q))) : q \in TopK("fact")}

\* sorted() keeps the order of equals.
Outranks(s, m, n) ==
    s[m].salience > s[n].salience \/ (s[m].salience = s[n].salience /\ m < n)

\* The first of s when sorted, as many as the workspace takes.
SalientFirst(s) ==
    {p \in [1..(IF Len(s) < Width THEN Len(s) ELSE Width) -> DOMAIN s] :
        /\ \A m, n \in DOMAIN p : m < n => Outranks(s, p[m], p[n])
        /\ \A i \in DOMAIN s \ Range(p) : \A n \in DOMAIN p : Outranks(s, p[n], i)}

Merged(r) ==
    LET all == contents \o r
    IN  {[n \in DOMAIN p |-> all[p[n]]] : p \in SalientFirst(all)}

\* Without a focus there is no query; a query may find nothing.
NothingRecalled ==
    /\ stage = "recall" /\ jobs = <<>>
    /\ stage' = "end"
    /\ UNCHANGED <<items, ranks, recent, jobs, half, percepts, toPut, contents, failures>>

Recall ==
    /\ stage = "recall" /\ jobs = <<>> /\ contents # <<>>
    /\ \E e \in Episodes, f \in Facts : e \o f # <<>> /\ contents' \in Merged(e \o f)
    /\ stage' = "end"
    /\ UNCHANGED <<items, ranks, recent, jobs, half, percepts, toPut, failures>>

----------------------------------------------------------------------------
(* The tick around them.                                                   *)

Perceive(q) ==
    /\ stage = "idle"
    /\ percepts' = q /\ toPut' = q /\ contents' = <<>>
    /\ stage' = "fold"
    /\ UNCHANGED <<items, ranks, recent, jobs, half, failures>>

With(f, i, x) == [j \in Ids(f) \cup {i} |-> IF j = i THEN x ELSE f[j]]
Without(f, i) == [j \in Ids(f) \ {i} |-> f[j]]

\* HSET or HDEL comes first.
InHash(job) ==
    /\ items' = IF job.op = "persist" THEN With(items, job.id, job.item) ELSE Without(items, job.id)
    /\ half' = TRUE
    /\ UNCHANGED <<ranks, jobs>>

\* Mutant: what is evicted keeps its rank.
InRanks_NoZrem(job) ==
    /\ ranks' = IF job.op = "persist" THEN With(ranks, job.id, job.item.salience) ELSE ranks
    /\ half' = FALSE /\ jobs' = Tail(jobs)
    /\ UNCHANGED items

\* ZADD or ZREM follows.
InRanks(job) ==
    /\ ranks' = IF job.op = "persist" THEN With(ranks, job.id, job.item.salience)
                                      ELSE Without(ranks, job.id)
    /\ half' = FALSE /\ jobs' = Tail(jobs)
    /\ UNCHANGED items

\* Redis runs the next command.
Run ==
    /\ jobs # <<>>
    /\ IF half THEN InRanks(Head(jobs)) ELSE InHash(Head(jobs))
    /\ UNCHANGED <<recent, stage, percepts, toPut, contents, failures>>

\* A command or a read fails: the stage is over, the tick goes on.
CommandFails ==
    /\ stage # "idle" /\ failures < MaxFailures
    /\ stage' = IF stage = "end" \/ (stage = "recall" /\ jobs = <<>>) THEN "end" ELSE "recall"
    /\ jobs' = <<>> /\ half' = FALSE /\ toPut' = <<>>
    /\ failures' = failures + 1
    /\ UNCHANGED <<items, ranks, recent, percepts, contents>>

\* The rest of the tick reads contents.
TickEnds ==
    /\ stage = "end" /\ jobs = <<>>
    /\ stage' = "idle" /\ percepts' = <<>> /\ contents' = <<>>
    /\ UNCHANGED <<items, ranks, recent, jobs, half, toPut, failures>>

Crash ==
    /\ failures < MaxFailures
    /\ stage' = "idle" /\ jobs' = <<>> /\ half' = FALSE /\ toPut' = <<>>
    /\ percepts' = <<>> /\ contents' = <<>> /\ recent' = <<>>
    /\ failures' = failures + 1
    /\ UNCHANGED <<items, ranks>>

Empty == [i \in {} |-> 0]

FocusInit ==
    /\ items = Empty /\ ranks = Empty
    /\ recent = <<>> /\ stage = "idle" /\ jobs = <<>> /\ half = FALSE
    /\ percepts = <<>> /\ toPut = <<>> /\ contents = <<>>
    /\ failures = 0

Batches == UNION {SetToSeqs(K) : K \in {P \in SUBSET Percepts : Cardinality(P) <= MaxBatch}}

Progress ==
    \/ \E q \in Batches : Perceive(q)
    \/ Put \/ Trim \/ Decay \/ Prune \/ Select \/ NothingRecalled \/ Recall
    \/ Run \/ TickEnds

FocusNext == Progress \/ CommandFails \/ Crash

FocusSpec == FocusInit /\ [][FocusNext]_focusVars

\* The heartbeat goes on.
FairFocusSpec == FocusSpec /\ WF_focusVars(Progress)

----------------------------------------------------------------------------
(* Properties.                                                             *)

\* Ids on which the two structures disagree.
Torn == {i \in Ids(items) \cup Ids(ranks) :
            ~(i \in Ids(items) /\ i \in Ids(ranks) /\ items[i].salience = ranks[i])}

(* The hash and the sorted set disagree on no more ids than commands have  *)
(* failed: a failure tears one entry at most, and no later put, sweep or   *)
(* eviction makes it more (_persist, _evict).                              *)
OneFailureTearsOne == jobs = <<>> => Cardinality(Torn) <= failures

(* Attention is offered no more items than the capacity, and one for each  *)
(* failure that hid an item from a trim (put's bound, which only the       *)
(* sorted set enforces).                                                   *)
WorkingSetBounded ==
    stage \in {"select", "recall"} /\ jobs = <<>>
        => Cardinality(Ids(items)) <= Capacity + failures

(* Both, whatever commands fail and in whatever order.                     *)
WorkingSetHolds == FocusTypeOK /\ OneFailureTearsOne /\ WorkingSetBounded

(* Nothing is held in mind for good: an item fades below the floor,        *)
(* expires or is evicted, even one that a failed trim cannot see (decay).  *)
EverythingFades ==
    \A i \in Slots : i \in Ids(items) ~> i \notin Ids(items)

=============================================================================
