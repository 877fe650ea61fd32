------------------------------ MODULE Knowledge ------------------------------
(***************************************************************************)
(* Episodic and semantic memory (brain/memory/episodic.py, semantic.py)    *)
(* and the two offline passes that turn the first into the second: the     *)
(* Consolidator (consolidator.py), which clusters the recent episodes and  *)
(* writes one fact per cluster, and MemoryDecay (decay.py), which re-scores *)
(* the saliences and merges near-duplicate facts in one transaction.       *)
(*                                                                         *)
(* All writers are called by the one task that runs the heartbeat, so they *)
(* never overlap; what does interleave with them is a crash, and a failure *)
(* between the two transactions of a web read or the several of a pass.    *)
(*                                                                         *)
(* Abstractions.  An episode is when it was written (in half-lives of the  *)
(* salience), its salience (an integer, Full for 1.0) and the direction of *)
(* its embedding; ids are the positions in the append-only table, which    *)
(* the clock keeps in order of ts.  No caller passes emotion_tags, so an   *)
(* episode is charged exactly when a fact cites it.  A fact is its text    *)
(* (the triple, which fixes its key and its embedding) and the episodes it *)
(* came from; the confidence and the relation of an edge are left out.     *)
(* What the model writes about a cluster, or the fallback in its place, is *)
(* any text.                                                               *)
(***************************************************************************)
EXTENDS Integers, Sequences, FiniteSets

CONSTANTS
    Texts,          \* the subject-predicate-object triples a summary may be
    Keys,           \* the (subject, predicate) pairs, unique in semantic_fact
    KeyOf,          \* the key of a text
    Alike,          \* pairs of texts whose cosine reaches the merge threshold
    Vectors,        \* directions of episode embeddings, in two dimensions
    Window,         \* consolidation_recent_limit
    MaxClusters,    \* consolidation_max_clusters
    DecayLimit,     \* decay_episode_limit
    Floor, Full,    \* decay_salience_floor and 1.0
    Saliences,      \* what a caller gives a new episode
    ReadSalience,   \* what a web read gets
    \* Bounds of the model
    MaxEpisodes, MaxClock, MaxFactId, MaxEdges

ASSUME KnowledgeAssumption ==
    /\ KeyOf \in [Texts -> Keys]
    /\ Alike \subseteq Texts \X Texts
    /\ \A t \in Texts : <<t, t>> \in Alike
    /\ \A t, u \in Texts : <<t, u>> \in Alike => <<u, t>> \in Alike
    /\ Vectors \subseteq (Int \X Int) \ {<<0, 0>>}
    /\ {Window, MaxClusters, DecayLimit, MaxEpisodes, MaxFactId} \subseteq Nat \ {0}
    /\ {Floor, Full, MaxClock, MaxEdges, ReadSalience} \subseteq Nat
    /\ Saliences \subseteq 0 .. Full
    /\ Floor <= Full /\ ReadSalience <= Full

VARIABLES
    at,         \* where the task is: awake, or in which stage of a sleep
    clock,      \* time, in half-lives
    episodes,   \* the episode table
    facts,      \* the semantic_fact table, by id
    nextFact,   \* its sequence
    edges,      \* the semantic_edge table, as pairs of fact ids
    reading,    \* the episode of a web read whose fact is not yet written, or 0
    unplaced,   \* episodes of the window the clustering has still to place
    clusters    \* clusters built so far, or still to be summarised

vars == <<at, clock, episodes, facts, nextFact, edges, reading, unplaced, clusters>>

Episodes == DOMAIN episodes

Init ==
    /\ at = "awake" /\ clock = 0
    /\ episodes = <<>>
    /\ facts = [i \in {} |-> {}] /\ nextFact = 1 /\ edges = {}
    /\ reading = 0 /\ unplaced = <<>> /\ clusters = <<>>

-----------------------------------------------------------------------------
(* The tables *)

Insert(salience, vector) ==
    /\ Len(episodes) < MaxEpisodes
    /\ episodes' = Append(episodes,
                          [born |-> clock, salience |-> salience, vector |-> vector])

\* The row that holds the key of a text.
Holder(text) == {i \in DOMAIN facts : KeyOf[facts[i].text] = KeyOf[text]}

\* Mutant: a plain INSERT.
Upsert_NoConflict(text, sources) ==
    /\ nextFact < MaxFactId
    /\ nextFact' = nextFact + 1
    /\ facts' = [i \in DOMAIN facts \cup {nextFact} |->
                   IF i = nextFact THEN [text |-> text, sources |-> sources] ELSE facts[i]]

\* upsert_fact: a text whose key is already there overwrites that row, its
\* provenance included, under the same id.  INSERT ... ON CONFLICT draws an id
\* from the sequence in both cases.
Upsert(text, sources) ==
    LET row == [text |-> text, sources |-> sources]
        ids == IF Holder(text) = {} THEN {nextFact} ELSE Holder(text)
    IN  /\ nextFact < MaxFactId
        /\ nextFact' = nextFact + 1
        /\ facts' = [i \in DOMAIN facts \cup ids |-> IF i \in ids THEN row ELSE facts[i]]

-----------------------------------------------------------------------------
(* Awake *)

Awake == at = "awake" /\ reading = 0

\* EpisodicLearner.learn, memory_write, a reflection: one episode.
WriteEpisode ==
    /\ Awake
    /\ \E s \in Saliences, v \in Vectors : Insert(s, v)
    /\ UNCHANGED <<at, clock, facts, nextFact, edges, reading, unplaced, clusters>>

\* WebReadConsolidator.consolidate, first transaction: the episode.
ReadPage ==
    /\ Awake
    /\ \E v \in Vectors : Insert(ReadSalience, v)
    /\ reading' = Len(episodes) + 1
    /\ UNCHANGED <<at, clock, facts, nextFact, edges, unplaced, clusters>>

\* Second transaction: the fact, citing that episode.
RememberPage ==
    /\ reading # 0
    /\ \E t \in Texts : Upsert(t, {reading})
    /\ reading' = 0
    /\ UNCHANGED <<at, clock, episodes, edges, unplaced, clusters>>

\* The summary does not parse or the embedder is down: the episode stays.
ForgetPage ==
    /\ reading # 0
    /\ reading' = 0
    /\ UNCHANGED <<at, clock, episodes, facts, nextFact, edges, unplaced, clusters>>

\* SemanticMemory.link, ON CONFLICT DO NOTHING.  Nothing in the repository calls
\* it yet; the merge is written for the day something does.
Link ==
    /\ Awake /\ Cardinality(edges) < MaxEdges
    /\ \E i, j \in DOMAIN facts : edges' = edges \cup {<<i, j>>}
    /\ UNCHANGED <<at, clock, episodes, facts, nextFact, reading, unplaced, clusters>>

TimePasses ==
    /\ Awake /\ clock < MaxClock
    /\ clock' = clock + 1
    /\ UNCHANGED <<at, episodes, facts, nextFact, edges, reading, unplaced, clusters>>

-----------------------------------------------------------------------------
(* Consolidator.run *)

Lesser(a, b) == IF a < b THEN a ELSE b

\* EpisodeRepository.recent: newest first.
Recent == [i \in 1 .. Lesser(Window, Len(episodes)) |-> Len(episodes) + 1 - i]

\* With no episode at all the pass returns before it clusters.
FallAsleep ==
    /\ Awake
    /\ unplaced' = Recent
    /\ at' = IF Recent = <<>> THEN "decay" ELSE "cluster"
    /\ UNCHANGED <<clock, episodes, facts, nextFact, edges, reading, clusters>>

Dot(v, w) == v[1] * w[1] + v[2] * w[2]
Norm2(v) == Dot(v, v)

\* The cosine of v and a centroid, as |cos|cos * |v|^2: a fraction, so that
\* comparisons are exact.  A zero sum has no direction and cosine 0.
SignedSquare(v, sum) ==
    LET d == Dot(v, sum)
    IN  [num |-> IF d < 0 THEN -(d * d) ELSE d * d,
         den |-> IF Norm2(sum) = 0 THEN 1 ELSE Norm2(sum)]

Exceeds(a, b) == a.num * b.den > b.num * a.den

\* cosine >= 0.6, the default of consolidation_cluster_threshold
Similar(v, sum) ==
    Dot(v, sum) > 0 /\ 25 * Dot(v, sum) * Dot(v, sum) >= 9 * Norm2(v) * Norm2(sum)

\* _nearest_cluster starts from -1.0 and takes the first to exceed the best so
\* far: a centroid in the exactly opposite direction is never taken.
Opposite(v, sum) == Dot(v, sum) < 0 /\ Dot(v, sum) * Dot(v, sum) = Norm2(v) * Norm2(sum)

Nearest(v) ==
    {c \in DOMAIN clusters :
        /\ ~Opposite(v, clusters[c].sum)
        /\ \A d \in DOMAIN clusters :
             LET here == SignedSquare(v, clusters[c].sum)
                 there == SignedSquare(v, clusters[d].sum)
             IN  ~Exceeds(there, here) /\ (d < c => Exceeds(here, there))}

\* The cluster the next episode folds into: the nearest one, if it is similar
\* enough or if no further cluster may be opened.
Folds(v) ==
    {c \in Nearest(v) : Similar(v, clusters[c].sum) \/ Len(clusters) >= MaxClusters}

\* Mutant: past the cap an episode is dropped.
Place_DropsAtCap ==
    /\ at = "cluster" /\ unplaced # <<>>
    /\ clusters' =
         IF Len(clusters) < MaxClusters
         THEN Append(clusters, [members |-> {Head(unplaced)},
                                sum |-> episodes[Head(unplaced)].vector])
         ELSE clusters
    /\ unplaced' = Tail(unplaced)
    /\ UNCHANGED <<at, clock, episodes, facts, nextFact, edges, reading>>

\* One turn of the loop of cluster_episodes; nothing interleaves with the loop.
Place ==
    /\ at = "cluster" /\ unplaced # <<>>
    /\ LET id == Head(unplaced)
           v  == episodes[id].vector
       IN  clusters' =
             IF Folds(v) = {}
             THEN Append(clusters, [members |-> {id}, sum |-> v])
             ELSE [c \in DOMAIN clusters |->
                     IF c \in Folds(v)
                     THEN [members |-> clusters[c].members \cup {id},
                           sum |-> <<clusters[c].sum[1] + v[1], clusters[c].sum[2] + v[2]>>]
                     ELSE clusters[c]]
    /\ unplaced' = Tail(unplaced)
    /\ UNCHANGED <<at, clock, episodes, facts, nextFact, edges, reading>>

Clustered ==
    /\ at = "cluster" /\ unplaced = <<>>
    /\ at' = "summarise"
    /\ UNCHANGED <<clock, episodes, facts, nextFact, edges, reading, unplaced, clusters>>

\* One cluster distilled into one fact, in a transaction of its own.
Summarise ==
    /\ at = "summarise" /\ clusters # <<>>
    /\ \E t \in Texts : Upsert(t, Head(clusters).members)
    /\ clusters' = Tail(clusters)
    /\ UNCHANGED <<at, clock, episodes, edges, reading, unplaced>>

\* The pass ends, or SleepCycle._stage catches what it raised: the facts
\* already written stay, the clusters left are not tried again.
EndConsolidation ==
    /\ at \in {"cluster", "summarise"}
    /\ at' = "decay" /\ unplaced' = <<>> /\ clusters' = <<>>
    /\ UNCHANGED <<clock, episodes, facts, nextFact, edges, reading>>

-----------------------------------------------------------------------------
(* MemoryDecay.run *)

Cited == UNION {facts[i].sources : i \in DOMAIN facts}

\* Of the power operator the proofs know nothing, of this function they do.
PowerOfTwo[n \in 0 .. MaxClock] == IF n = 0 THEN 1 ELSE 2 * PowerOfTwo[n - 1]

\* Mutant: the salience itself is halved, not what is above the floor.
Faded_NoFloor(e) == e.salience \div PowerOfTwo[clock - e.born]

\* adjusted_salience: age is counted from ts, whatever earlier passes took off.
Faded(e) == Floor + ((e.salience - Floor) \div PowerOfTwo[clock - e.born])

\* A charged episode is then pulled a quarter of the way to 1.0.
Rescored(e, charged) ==
    IF charged THEN Faded(e) + ((Full - Faded(e)) \div 4) ELSE Faded(e)

\* Only the DecayLimit oldest rows are read.
DecayEpisodes ==
    episodes' = [i \in Episodes |->
                   IF i <= DecayLimit
                   THEN [episodes[i] EXCEPT !.salience = Rescored(episodes[i], i \in Cited)]
                   ELSE episodes[i]]

\* duplicate_fact_groups, in order of id: a fact joins the first group whose
\* first member it is like, and starts one if there is none.  g gives each fact
\* the first member of its group, and only one g fits.
Starts(g) == {i \in DOMAIN facts : g[i] = i}

\* Mutant: a fact is compared with the row before it only.
Grouping_PreviousOnly(g) ==
    \A i \in DOMAIN facts :
        LET open == {j \in Starts(g) : j = i - 1 /\ <<facts[j].text, facts[i].text>> \in Alike}
        IN  IF open = {} THEN g[i] = i ELSE g[i] \in open

Grouping(g) ==
    \A i \in DOMAIN facts :
        LET open == {j \in Starts(g) : j < i /\ <<facts[j].text, facts[i].text>> \in Alike}
        IN  IF open = {} THEN g[i] = i
                         ELSE g[i] \in open /\ \A j \in open : g[i] <= j

\* Mutant: the row that stays keeps its own provenance only.
MergeFacts_KeepsOwnSources(g) == facts' = [i \in Starts(g) |-> facts[i]]

\* The row that started a group gets the provenance of all of it; its text and
\* its embedding stay.  The other rows are deleted.
MergeFacts(g) ==
    facts' = [i \in Starts(g) |->
                [text |-> facts[i].text,
                 sources |-> UNION {facts[k].sources : k \in {k \in DOMAIN facts : g[k] = i}}]]

\* _repoint_edges: an edge that touches a row about to go is re-aimed at the one
\* that stays, and dropped if that makes it a loop or a copy.
RepointEdges(g) ==
    LET moved(e) == <<g[e[1]], g[e[2]]>>
    IN  edges' = {moved(e) : e \in {e \in edges : moved(e)[1] # moved(e)[2] \/ moved(e) = e}}

DecayAndMerge ==
    /\ at = "decay"
    /\ DecayEpisodes
    /\ \E g \in [DOMAIN facts -> DOMAIN facts] :
         Grouping(g) /\ MergeFacts(g) /\ RepointEdges(g)
    /\ at' = "merged"
    /\ UNCHANGED <<clock, nextFact, reading, unplaced, clusters>>

\* The transaction rolls back and the stage is degraded.
DecayFails ==
    /\ at = "decay"
    /\ at' = "rest"
    /\ UNCHANGED <<clock, episodes, facts, nextFact, edges, reading, unplaced, clusters>>

\* The later stages leave these tables alone.
Wake ==
    /\ at \in {"merged", "rest"}
    /\ at' = "awake"
    /\ UNCHANGED <<clock, episodes, facts, nextFact, edges, reading, unplaced, clusters>>

\* The process dies and starts again: only the tables are left.
Crash ==
    /\ ~Awake
    /\ at' = "awake" /\ reading' = 0 /\ unplaced' = <<>> /\ clusters' = <<>>
    /\ UNCHANGED <<clock, episodes, facts, nextFact, edges>>

Next ==
    \/ WriteEpisode \/ ReadPage \/ RememberPage \/ ForgetPage \/ Link \/ TimePasses
    \/ FallAsleep \/ Place \/ Clustered \/ Summarise \/ EndConsolidation
    \/ DecayAndMerge \/ DecayFails \/ Wake \/ Crash

Spec == Init /\ [][Next]_vars
-----------------------------------------------------------------------------
(* Properties *)

TypeOK ==
    /\ at \in {"awake", "cluster", "summarise", "decay", "merged", "rest"}
    /\ clock \in 0 .. MaxClock
    /\ episodes \in Seq([born : 0 .. MaxClock, salience : 0 .. Full, vector : Vectors])
    /\ nextFact \in 1 .. MaxFactId
    /\ DOMAIN facts \subseteq 1 .. nextFact - 1
    /\ facts \in [DOMAIN facts -> [text : Texts, sources : SUBSET Episodes]]
    /\ edges \subseteq (DOMAIN facts) \X (DOMAIN facts)
    /\ reading \in 0 .. Len(episodes)
    /\ unplaced \in Seq(Episodes)
    /\ clusters \in Seq([members : SUBSET Episodes, sum : Int \X Int])

\* Provenance stays sound through overwrites, merges, failures and crashes: no
\* fact is without a source episode that exists, no two facts hold the same
\* key, and no edge dangles (upsert_fact, _merge_facts, _repoint_edges).
ProvenanceSound ==
    /\ \A i \in DOMAIN facts : facts[i].sources # {} /\ facts[i].sources \subseteq Episodes
    /\ \A i, j \in DOMAIN facts : KeyOf[facts[i].text] = KeyOf[facts[j].text] => i = j
    /\ edges \subseteq (DOMAIN facts) \X (DOMAIN facts)

\* Clustering loses no episode of the window and puts none in two clusters, the
\* ones folded in at the cap included (cluster_episodes).
PlacedOnce ==
    /\ at = "cluster" =>
         UNION {clusters[c].members : c \in DOMAIN clusters}
             = {Recent[i] : i \in 1 .. Len(Recent) - Len(unplaced)}
    /\ \A c, d \in DOMAIN clusters :
         c # d => clusters[c].members \cap clusters[d].members = {}

\* A sleep summarises, and so pays for, at most MaxClusters clusters.  The one
\* way past the cap that the code leaves is an episode whose embedding points
\* exactly away from every centroid (_nearest_cluster starts at -1.0).
CapHolds ==
    Len(clusters') > Len(clusters) /\ Len(clusters) >= MaxClusters =>
        \A c \in DOMAIN clusters : Opposite(episodes[Head(unplaced)].vector, clusters[c].sum)

\* After every step the clusters hold the window, and no step opens one that is
\* not paid for.
ClusteringIsSound == [][PlacedOnce' /\ CapHolds]_vars

\* When the merge is done it is done: no two facts left are near-duplicates, so
\* a second pass over them would change nothing (_merge_facts).
NoneAlike ==
    at = "merged" =>
        \A i, j \in DOMAIN facts : <<facts[i].text, facts[j].text>> \in Alike => i = j

\* Merging forgets nothing.  For every fact there is one afterwards that says
\* nearly the same and cites all its sources; two facts that were linked are
\* linked still, unless they became one; and nothing new is cited.
Carries(i, j) ==
    /\ <<facts[i].text, facts'[j].text>> \in Alike
    /\ facts[i].sources \subseteq facts'[j].sources

MergeKeepsKnowledge ==
    [][at = "decay" /\ at' = "merged" =>
         /\ \A i \in DOMAIN facts : \E j \in DOMAIN facts' : Carries(i, j)
         /\ \A e \in edges : \E j, k \in DOMAIN facts' :
              Carries(e[1], j) /\ Carries(e[2], k) /\ (<<j, k>> \in edges' \/ j = k)
         /\ Cited' = Cited]_vars

\* The autobiography is append-only: whatever happens an episode stays the
\* episode it was, and forgetting it stops at the floor (decay is not deletion).
AutobiographySurvives ==
    [][\A i \in Episodes :
         /\ i \in Episodes'
         /\ episodes'[i].born = episodes[i].born /\ episodes'[i].vector = episodes[i].vector
         /\ episodes'[i].salience >= Lesser(Floor, episodes[i].salience)]_vars
=============================================================================
