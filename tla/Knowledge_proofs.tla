--------------------------- MODULE Knowledge_proofs ---------------------------
(***************************************************************************)
(* Provenance stays sound, a merge leaves no near-duplicates and forgets   *)
(* nothing, for every set of texts and every relation of likeness between  *)
(* them; the clusters hold the window and respect the cap, for embeddings  *)
(* in any directions; and the autobiography outlives every decay, whatever *)
(* the floor and the ages: any number of episodes, facts and sleeps.       *)
(***************************************************************************)
EXTENDS Knowledge, TLAPS, SequenceTheorems, WellFoundedInduction

(***************************************************************************)
(* Episodes and clusters are appended to and taken from the front; what    *)
(* their elements hold beyond the ids does not matter here.                *)
(***************************************************************************)
IsTable(s) == \E n \in Nat : s = [i \in 1 .. n |-> s[i]]

LEMMA FunctionIsTable ==
    ASSUME NEW n \in Nat, NEW T, NEW f \in [1 .. n -> T]
    PROVE  IsTable(f)
<1>1. f = [i \in 1 .. n |-> f[i]]
  OBVIOUS
<1>2. QED
  BY <1>1 DEF IsTable

\* A table is a sequence of its elements.
LEMMA TableIsSeq ==
    ASSUME NEW s, NEW n \in Nat, s = [i \in 1 .. n |-> s[i]]
    PROVE  /\ s \in Seq({s[i] : i \in 1 .. n})
           /\ Len(s) = n
           /\ DOMAIN s = 1 .. n
<1>1. s \in [1 .. n -> {s[i] : i \in 1 .. n}]
  OBVIOUS
<1>2. s \in Seq({s[i] : i \in 1 .. n})
  BY <1>1, SeqDef
<1>3. DOMAIN s = 1 .. n
  BY <1>1
<1>4. QED
  BY <1>2, <1>3, LenProperties

\* Appending a row keeps every earlier row in place.
LEMMA AppendTable ==
    ASSUME NEW s, IsTable(s), NEW e
    PROVE  /\ IsTable(Append(s, e))
           /\ Len(s) \in Nat
           /\ DOMAIN s = 1 .. Len(s)
           /\ DOMAIN Append(s, e) = 1 .. Len(s) + 1
           /\ \A i \in DOMAIN s : Append(s, e)[i] = s[i]
           /\ Append(s, e)[Len(s) + 1] = e
<1>1. PICK n \in Nat : s = [i \in 1 .. n |-> s[i]]
  BY DEF IsTable
<1>2. s \in Seq({s[i] : i \in 1 .. n}) /\ Len(s) = n /\ DOMAIN s = 1 .. n
  BY <1>1, TableIsSeq
<1> DEFINE T == {s[i] : i \in 1 .. n} \cup {e}
<1>3. s \in Seq(T)
  BY <1>1, <1>2, SeqDef
<1>4. e \in T
  OBVIOUS
<1> HIDE DEF T
<1>5. /\ Append(s, e) \in Seq(T)
      /\ Len(Append(s, e)) = n + 1
      /\ \A i \in 1 .. n : Append(s, e)[i] = s[i]
      /\ Append(s, e)[n + 1] = e
  BY <1>2, <1>3, <1>4, AppendProperties
<1>6. /\ DOMAIN Append(s, e) = 1 .. n + 1
      /\ Append(s, e) \in [1 .. n + 1 -> T]
  BY <1>5, LenProperties
<1>7. IsTable(Append(s, e))
  BY <1>6, FunctionIsTable, n + 1 \in Nat
<1>8. QED
  BY <1>2, <1>5, <1>6, <1>7

\* Taking the first row shifts the others down.
LEMMA TailTable ==
    ASSUME NEW s, IsTable(s), s # <<>>
    PROVE  /\ IsTable(Tail(s))
           /\ 1 \in DOMAIN s
           /\ Head(s) = s[1]
           /\ \A i \in DOMAIN Tail(s) : i + 1 \in DOMAIN s /\ Tail(s)[i] = s[i + 1]
<1>1. PICK n \in Nat : s = [i \in 1 .. n |-> s[i]]
  BY DEF IsTable
<1> DEFINE T == {s[i] : i \in 1 .. n}
<1>2. s \in Seq(T) /\ Len(s) = n /\ DOMAIN s = 1 .. n
  BY <1>1, TableIsSeq
<1> HIDE DEF T
<1>3. n # 0
  BY <1>2, EmptySeq
<1>4. /\ Tail(s) \in Seq(T) /\ Head(s) = s[1]
      /\ Len(Tail(s)) = n - 1
      /\ \A i \in 1 .. n - 1 : Tail(s)[i] = s[i + 1]
  BY <1>2, <1>3, HeadTailProperties
<1>5. DOMAIN Tail(s) = 1 .. n - 1 /\ Tail(s) \in [1 .. n - 1 -> T]
  BY <1>4, LenProperties
<1>6. IsTable(Tail(s))
  BY <1>3, <1>5, FunctionIsTable, n - 1 \in Nat
<1>7. QED
  BY <1>2, <1>3, <1>4, <1>5, <1>6

-----------------------------------------------------------------------------
(***************************************************************************)
(* The inductive invariant.  Provenance is sound because what is still to  *)
(* become provenance is: the page being read and the clusters in hand name *)
(* episodes of the table, and no cluster is empty.                         *)
(***************************************************************************)
FactsSound ==
    /\ nextFact \in Nat \ {0}
    /\ \A i \in DOMAIN facts : i \in Nat /\ i < nextFact /\ facts[i].text \in Texts
    /\ ProvenanceSound

WorkSound ==
    /\ IsTable(episodes) /\ IsTable(unplaced) /\ IsTable(clusters)
    /\ reading # 0 => at = "awake" /\ reading \in Episodes
    /\ \A i \in DOMAIN unplaced : unplaced[i] \in Episodes
    /\ \A c \in DOMAIN clusters : clusters[c].members # {} /\ clusters[c].members \subseteq Episodes

KnowledgeInv == FactsSound /\ WorkSound

LEMMA EmptyTable == IsTable(<<>>) /\ DOMAIN <<>> = {}
<1>1. <<>> = [i \in 1 .. 0 |-> <<>>[i]]
  OBVIOUS
<1>2. QED
  BY <1>1 DEF IsTable

LEMMA InitSound == Init => KnowledgeInv
BY EmptyTable DEF Init, KnowledgeInv, FactsSound, WorkSound, ProvenanceSound, Episodes

\* A new episode leaves every citation in place.
LEMMA InsertSound ==
    ASSUME KnowledgeInv, NEW salience, NEW v, Insert(salience, v)
    PROVE  /\ IsTable(episodes')
           /\ Episodes \subseteq Episodes'
           /\ Len(episodes) + 1 \in Episodes'
           /\ Len(episodes) + 1 # 0
<1> DEFINE row == [born |-> clock, salience |-> salience, vector |-> v]
<1>1. episodes' = Append(episodes, row)
  BY DEF Insert
<1> HIDE DEF row
<1>2. QED
  BY <1>1, AppendTable DEF KnowledgeInv, WorkSound, Episodes

\* Writing a fact about existing episodes keeps the facts sound, whether it is a
\* new row or takes over the one that holds its key.
LEMMA UpsertSound ==
    ASSUME FactsSound, NEW t \in Texts, NEW sources \in SUBSET Episodes, sources # {},
           Upsert(t, sources), UNCHANGED <<episodes, edges>>
    PROVE  FactsSound'
<1> DEFINE ids == IF Holder(t) = {} THEN {nextFact} ELSE Holder(t)
           row == [text |-> t, sources |-> sources]
<1>1. /\ nextFact' = nextFact + 1
      /\ facts' = [i \in DOMAIN facts \cup ids |-> IF i \in ids THEN row ELSE facts[i]]
  BY DEF Upsert
<1>2. \A i \in ids : i \in Nat /\ i <= nextFact
  BY DEF FactsSound, Holder
<1>3. \A i \in DOMAIN facts' : i \in Nat /\ i < nextFact' /\ facts'[i].text \in Texts
  <2> HIDE DEF ids
  <2>1. \A i \in ids : facts'[i] = row
    BY <1>1
  <2>2. \A i \in DOMAIN facts \ ids : facts'[i] = facts[i]
    BY <1>1
  <2>3. DOMAIN facts' = DOMAIN facts \cup ids
    BY <1>1
  <2>4. row.text = t
    OBVIOUS
  <2> HIDE DEF row
  <2>5. QED
    BY <1>1, <1>2, <2>1, <2>2, <2>3, <2>4 DEF FactsSound
<1>4. \A i \in DOMAIN facts' : facts'[i].sources # {} /\ facts'[i].sources \subseteq Episodes'
  BY <1>1 DEF FactsSound, ProvenanceSound, Episodes
<1>5. \A i, j \in DOMAIN facts' : KeyOf[facts'[i].text] = KeyOf[facts'[j].text] => i = j
  <2> SUFFICES ASSUME NEW i \in DOMAIN facts', NEW j \in DOMAIN facts',
                      KeyOf[facts'[i].text] = KeyOf[facts'[j].text]
               PROVE  i = j
    OBVIOUS
  <2>1. CASE Holder(t) = {}
    BY <1>1, <2>1 DEF FactsSound, ProvenanceSound, Holder
  <2>2. CASE Holder(t) # {}
    BY <1>1, <2>2 DEF FactsSound, ProvenanceSound, Holder
  <2>3. QED
    BY <2>1, <2>2
<1>6. edges' \subseteq (DOMAIN facts') \X (DOMAIN facts')
  <2>1. DOMAIN facts \subseteq DOMAIN facts'
    BY <1>1
  <2>2. edges' \subseteq (DOMAIN facts) \X (DOMAIN facts)
    BY DEF FactsSound, ProvenanceSound
  <2>3. QED
    BY <2>1, <2>2
<1>7. nextFact' \in Nat \ {0}
  BY <1>1 DEF FactsSound
<1> HIDE DEF ids, row
<1>8. ProvenanceSound'
  BY <1>4, <1>5, <1>6 DEF ProvenanceSound
<1>9. QED
  BY <1>3, <1>7, <1>8 DEF FactsSound

-----------------------------------------------------------------------------
(***************************************************************************)
(* The merge.                                                              *)
(***************************************************************************)

\* Every fact goes to a row that stays and that is like it.
LEMMA GroupStays ==
    ASSUME FactsSound, NEW g \in [DOMAIN facts -> DOMAIN facts], Grouping(g),
           NEW i \in DOMAIN facts
    PROVE  /\ g[i] \in Starts(g)
           /\ <<facts[i].text, facts[g[i]].text>> \in Alike
<1> DEFINE open == {j \in Starts(g) : j < i /\ <<facts[j].text, facts[i].text>> \in Alike}
<1>1. IF open = {} THEN g[i] = i ELSE g[i] \in open
  BY DEF Grouping
<1>2. facts[i].text \in Texts /\ facts[g[i]].text \in Texts
  BY DEF FactsSound
<1>3. CASE open = {}
  BY <1>1, <1>2, <1>3, KnowledgeAssumption DEF Starts
<1>4. CASE open # {}
  BY <1>1, <1>2, <1>4, KnowledgeAssumption DEF Starts
<1>5. QED
  BY <1>3, <1>4

\* What a merge leaves: the rows that started a group, each citing what its
\* group cited.
LEMMA MergedRows ==
    ASSUME NEW g \in [DOMAIN facts -> DOMAIN facts], MergeFacts(g)
    PROVE  /\ DOMAIN facts' = Starts(g)
           /\ Starts(g) \subseteq DOMAIN facts
           /\ \A i \in Starts(g) : facts'[i].text = facts[i].text
           /\ \A k \in DOMAIN facts : g[k] \in Starts(g) => facts[k].sources \subseteq facts'[g[k]].sources
           /\ \A i \in Starts(g) : \A e \in facts'[i].sources :
                \E k \in DOMAIN facts : g[k] = i /\ e \in facts[k].sources
<1> DEFINE groupOf(i) == {k \in DOMAIN facts : g[k] = i}
           row(i) == [text |-> facts[i].text, sources |-> UNION {facts[k].sources : k \in groupOf(i)}]
<1>1. facts' = [i \in Starts(g) |-> row(i)]
  BY DEF MergeFacts
<1>2. DOMAIN facts' = Starts(g) /\ \A i \in Starts(g) : facts'[i] = row(i)
  BY <1>1
<1>3. \A i \in Starts(g) :
        /\ facts'[i].text = facts[i].text
        /\ facts'[i].sources = UNION {facts[k].sources : k \in groupOf(i)}
  BY <1>2
<1>4. \A i \in Starts(g) : \A e \in facts'[i].sources :
        \E k \in DOMAIN facts : g[k] = i /\ e \in facts[k].sources
  BY <1>3
<1>5. \A k \in DOMAIN facts : g[k] \in Starts(g) => facts[k].sources \subseteq facts'[g[k]].sources
  BY <1>3
<1>6. QED
  BY <1>2, <1>3, <1>4, <1>5 DEF Starts

LEMMA MergeSound ==
    ASSUME FactsSound, NEW g \in [DOMAIN facts -> DOMAIN facts],
           Grouping(g), MergeFacts(g), RepointEdges(g),
           nextFact' = nextFact, Episodes' = Episodes
    PROVE  FactsSound'
<1>1. /\ DOMAIN facts' = Starts(g) /\ Starts(g) \subseteq DOMAIN facts
      /\ \A i \in Starts(g) : facts'[i].text = facts[i].text
  BY MergedRows
<1>2. \A i \in DOMAIN facts' : i \in Nat /\ i < nextFact' /\ facts'[i].text \in Texts
  BY <1>1 DEF FactsSound
<1>3. \A i \in DOMAIN facts' : facts'[i].sources # {} /\ facts'[i].sources \subseteq Episodes'
  <2> SUFFICES ASSUME NEW i \in Starts(g)
               PROVE  facts'[i].sources # {} /\ facts'[i].sources \subseteq Episodes
    BY <1>1
  <2>1. facts[i].sources # {} /\ facts[i].sources \subseteq facts'[i].sources
    BY <1>1, MergedRows DEF FactsSound, ProvenanceSound, Starts
  <2>2. facts'[i].sources \subseteq Episodes
    BY <1>1, MergedRows DEF FactsSound, ProvenanceSound
  <2>3. QED
    BY <2>1, <2>2
<1>4. \A i, j \in DOMAIN facts' : KeyOf[facts'[i].text] = KeyOf[facts'[j].text] => i = j
  BY <1>1 DEF FactsSound, ProvenanceSound
<1>5. edges' \subseteq (DOMAIN facts') \X (DOMAIN facts')
  <2> SUFFICES ASSUME NEW e \in edges
               PROVE  <<g[e[1]], g[e[2]]>> \in Starts(g) \X Starts(g)
    BY <1>1 DEF RepointEdges
  <2>1. e[1] \in DOMAIN facts /\ e[2] \in DOMAIN facts
    BY DEF FactsSound, ProvenanceSound
  <2>2. QED
    BY <2>1, GroupStays
<1>6. QED
  BY <1>2, <1>3, <1>4, <1>5 DEF FactsSound, ProvenanceSound
-----------------------------------------------------------------------------
(***************************************************************************)
(* Every step.                                                             *)
(***************************************************************************)

\* Taking the facts and the sequence along unchanged, more episodes do no harm.
LEMMA MoreEpisodes ==
    ASSUME FactsSound, UNCHANGED <<facts, nextFact>>, Episodes \subseteq Episodes',
           edges' \subseteq (DOMAIN facts) \X (DOMAIN facts)
    PROVE  FactsSound'
BY DEF FactsSound, ProvenanceSound

\* Dropping the work in hand, or none of it, does no harm either.
LEMMA LessWork ==
    ASSUME WorkSound, UNCHANGED episodes,
           \/ UNCHANGED reading /\ (reading # 0 => at' = "awake")
           \/ reading' = 0,
           UNCHANGED unplaced \/ unplaced' = <<>>,
           UNCHANGED clusters \/ clusters' = <<>>
    PROVE  WorkSound'
<1>1. IsTable(unplaced') /\ \A i \in DOMAIN unplaced' : unplaced'[i] \in Episodes'
  BY EmptyTable DEF WorkSound, Episodes
<1>2. /\ IsTable(clusters')
      /\ \A c \in DOMAIN clusters' :
           clusters'[c].members # {} /\ clusters'[c].members \subseteq Episodes'
  BY EmptyTable DEF WorkSound, Episodes
<1>3. IsTable(episodes') /\ (reading' # 0 => at' = "awake" /\ reading' \in Episodes')
  BY DEF WorkSound, Episodes
<1>4. QED
  BY <1>1, <1>2, <1>3 DEF WorkSound

LEMMA WriteSound ==
    ASSUME KnowledgeInv, WriteEpisode \/ ReadPage
    PROVE  KnowledgeInv'
<1>1. PICK salience, v : Insert(salience, v)
  BY DEF WriteEpisode, ReadPage
<1>2. /\ IsTable(episodes') /\ Episodes \subseteq Episodes'
      /\ Len(episodes) + 1 \in Episodes'
  BY <1>1, InsertSound
<1>3. UNCHANGED <<at, facts, nextFact, edges, unplaced, clusters>> /\ Awake
      /\ (reading' = reading \/ reading' = Len(episodes) + 1)
  BY DEF WriteEpisode, ReadPage
<1>4. FactsSound'
  BY <1>2, <1>3, MoreEpisodes DEF KnowledgeInv, FactsSound, ProvenanceSound
<1>5. WorkSound'
  BY <1>2, <1>3 DEF KnowledgeInv, WorkSound, Awake
<1>6. QED
  BY <1>4, <1>5 DEF KnowledgeInv

LEMMA RememberSound ==
    ASSUME KnowledgeInv, RememberPage
    PROVE  KnowledgeInv'
<1>1. PICK t \in Texts : Upsert(t, {reading})
  BY DEF RememberPage
<1>2. reading # 0 /\ reading' = 0 /\ UNCHANGED <<at, clock, episodes, edges, unplaced, clusters>>
  BY DEF RememberPage
<1>3. {reading} \in SUBSET Episodes
  BY <1>2 DEF KnowledgeInv, WorkSound
<1>4. FactsSound'
  BY <1>1, <1>2, <1>3, UpsertSound DEF KnowledgeInv
<1>5. WorkSound'
  BY <1>2, LessWork DEF KnowledgeInv
<1>6. QED
  BY <1>4, <1>5 DEF KnowledgeInv

LEMMA FallAsleepSound ==
    ASSUME KnowledgeInv, FallAsleep
    PROVE  KnowledgeInv'
<1>1. FactsSound'
  BY MoreEpisodes DEF KnowledgeInv, FactsSound, ProvenanceSound, FallAsleep, Episodes
<1>2. PICK n \in Nat : episodes = [i \in 1 .. n |-> episodes[i]]
  BY DEF KnowledgeInv, WorkSound, IsTable
<1>3. Len(episodes) = n /\ Episodes = 1 .. n
  BY <1>2, TableIsSeq DEF Episodes
<1> DEFINE m == Lesser(Window, n)
           recent == [i \in 1 .. m |-> n + 1 - i]
<1>4. m \in Nat /\ m <= n
  BY KnowledgeAssumption DEF Lesser
<1>5. unplaced' = recent
  BY <1>3 DEF FallAsleep, Recent
<1> HIDE DEF m
<1>6. recent \in [1 .. m -> 1 .. n]
  BY <1>4
<1>7. IsTable(unplaced')
  BY <1>4, <1>5, <1>6, FunctionIsTable
<1>8. \A i \in DOMAIN unplaced' : unplaced'[i] \in Episodes
  BY <1>3, <1>5, <1>6
<1>9. WorkSound'
  BY <1>7, <1>8 DEF KnowledgeInv, WorkSound, FallAsleep, Awake, Episodes
<1>10. QED
  BY <1>1, <1>9 DEF KnowledgeInv

LEMMA PlaceSound ==
    ASSUME KnowledgeInv, Place
    PROVE  KnowledgeInv'
<1> DEFINE id == Head(unplaced)
           v == episodes[id].vector
           folded(c) == [members |-> clusters[c].members \cup {id},
                         sum |-> <<clusters[c].sum[1] + v[1], clusters[c].sum[2] + v[2]>>]
<1>1. at = "cluster" /\ unplaced' = Tail(unplaced) /\ unplaced # <<>>
      /\ UNCHANGED <<at, clock, episodes, facts, nextFact, edges, reading>>
  BY DEF Place
<1>2. FactsSound'
  BY <1>1, MoreEpisodes DEF KnowledgeInv, FactsSound, ProvenanceSound, Episodes
<1>3. /\ IsTable(unplaced') /\ id \in Episodes
      /\ \A i \in DOMAIN unplaced' : unplaced'[i] \in Episodes
  BY <1>1, TailTable DEF KnowledgeInv, WorkSound
<1> HIDE DEF id, v
<1>4. /\ IsTable(clusters')
      /\ \A c \in DOMAIN clusters' :
           clusters'[c].members # {} /\ clusters'[c].members \subseteq Episodes
  <2>1. CASE Folds(v) = {}
    <3> DEFINE seed == [members |-> {id}, sum |-> v]
    <3>1. clusters' = Append(clusters, seed)
      BY <2>1 DEF Place, id, v
    <3>2. seed.members = {id}
      OBVIOUS
    <3> HIDE DEF seed
    <3>3. /\ IsTable(clusters') /\ Len(clusters) \in Nat
          /\ DOMAIN clusters = 1 .. Len(clusters)
          /\ DOMAIN clusters' = 1 .. Len(clusters) + 1
          /\ \A c \in DOMAIN clusters : clusters'[c] = clusters[c]
          /\ clusters'[Len(clusters) + 1] = seed
      BY <3>1, AppendTable DEF KnowledgeInv, WorkSound
    <3>4. ASSUME NEW c \in DOMAIN clusters'
          PROVE  clusters'[c].members # {} /\ clusters'[c].members \subseteq Episodes
      <4>1. CASE c \in DOMAIN clusters
        BY <3>3, <4>1 DEF KnowledgeInv, WorkSound
      <4>2. CASE c = Len(clusters) + 1
        BY <1>3, <3>2, <3>3, <4>2
      <4>3. QED
        BY <3>3, <4>1, <4>2
    <3>5. QED
      BY <3>3, <3>4
  <2>2. CASE Folds(v) # {}
    <3>1. clusters' = [c \in DOMAIN clusters |->
                         IF c \in Folds(v) THEN folded(c) ELSE clusters[c]]
      BY <2>2 DEF Place, id, v
    <3>2. \A c : folded(c).members = clusters[c].members \cup {id}
      OBVIOUS
    <3> HIDE DEF folded
    <3>3. PICK n \in Nat : DOMAIN clusters = 1 .. n
      BY DEF KnowledgeInv, WorkSound, IsTable
    <3> DEFINE T == {clusters'[c] : c \in 1 .. n}
    <3>4. clusters' \in [1 .. n -> T]
      BY <3>1, <3>3
    <3>5. IsTable(clusters')
      BY <3>4, FunctionIsTable
    <3>6. QED
      BY <1>3, <3>1, <3>2, <3>5 DEF KnowledgeInv, WorkSound
  <2>3. QED
    BY <2>1, <2>2
<1>5. WorkSound'
  BY <1>1, <1>3, <1>4 DEF KnowledgeInv, WorkSound, Episodes
<1>6. QED
  BY <1>2, <1>5 DEF KnowledgeInv

LEMMA SummariseSound ==
    ASSUME KnowledgeInv, Summarise
    PROVE  KnowledgeInv'
<1>1. PICK t \in Texts : Upsert(t, Head(clusters).members)
  BY DEF Summarise
<1>2. /\ at = "summarise" /\ clusters # <<>> /\ clusters' = Tail(clusters)
      /\ UNCHANGED <<at, clock, episodes, edges, reading, unplaced>>
  BY DEF Summarise
<1>3. /\ IsTable(clusters') /\ Head(clusters) = clusters[1] /\ 1 \in DOMAIN clusters
      /\ \A c \in DOMAIN clusters' : c + 1 \in DOMAIN clusters /\ clusters'[c] = clusters[c + 1]
  BY <1>2, TailTable DEF KnowledgeInv, WorkSound
<1>4. Head(clusters).members \in SUBSET Episodes /\ Head(clusters).members # {}
  BY <1>3 DEF KnowledgeInv, WorkSound
<1>5. FactsSound'
  BY <1>1, <1>2, <1>4, UpsertSound DEF KnowledgeInv
<1>6. WorkSound'
  BY <1>2, <1>3 DEF KnowledgeInv, WorkSound, Episodes
<1>7. QED
  BY <1>5, <1>6 DEF KnowledgeInv

LEMMA DecaySound ==
    ASSUME KnowledgeInv, DecayAndMerge
    PROVE  KnowledgeInv'
<1>1. PICK g \in [DOMAIN facts -> DOMAIN facts] :
        Grouping(g) /\ MergeFacts(g) /\ RepointEdges(g)
  BY DEF DecayAndMerge
<1>2. at = "decay" /\ DecayEpisodes /\ UNCHANGED <<clock, nextFact, reading, unplaced, clusters>>
  BY DEF DecayAndMerge
<1>3. IsTable(episodes') /\ Episodes' = Episodes
  <2>1. PICK n \in Nat : DOMAIN episodes = 1 .. n
    BY DEF KnowledgeInv, WorkSound, IsTable
  <2>2. DOMAIN episodes' = 1 .. n /\ episodes' = [i \in 1 .. n |-> episodes'[i]]
    BY <1>2, <2>1 DEF DecayEpisodes, Episodes
  <2>3. QED
    BY <2>1, <2>2 DEF IsTable, Episodes
<1>4. FactsSound'
  BY <1>1, <1>2, <1>3, MergeSound DEF KnowledgeInv
<1>5. WorkSound'
  BY <1>2, <1>3 DEF KnowledgeInv, WorkSound
<1>6. QED
  BY <1>4, <1>5 DEF KnowledgeInv

\* The steps that write no table.
LEMMA QuietSound ==
    ASSUME KnowledgeInv,
           \/ ForgetPage \/ Link \/ TimePasses \/ Clustered \/ EndConsolidation
           \/ DecayFails \/ Wake \/ Crash \/ UNCHANGED vars
    PROVE  KnowledgeInv'
<1>1. /\ UNCHANGED <<episodes, facts, nextFact>>
      /\ edges' \subseteq (DOMAIN facts) \X (DOMAIN facts)
  <2>1. CASE Link
    BY <2>1 DEF Link, KnowledgeInv, FactsSound, ProvenanceSound
  <2>2. CASE ~Link
    BY <2>2 DEF ForgetPage, TimePasses, Clustered, EndConsolidation, DecayFails, Wake,
         Crash, vars, KnowledgeInv, FactsSound, ProvenanceSound
  <2>3. QED
    BY <2>1, <2>2
<1>2. FactsSound'
  BY <1>1, MoreEpisodes DEF KnowledgeInv, Episodes
<1>3. /\ \/ UNCHANGED reading /\ (reading # 0 => at' = "awake")
         \/ reading' = 0
      /\ UNCHANGED unplaced \/ unplaced' = <<>>
      /\ UNCHANGED clusters \/ clusters' = <<>>
  BY DEF ForgetPage, Link, TimePasses, Clustered, EndConsolidation, DecayFails, Wake,
     Crash, vars, Awake, KnowledgeInv, WorkSound
<1>4. WorkSound'
  BY <1>1, <1>3, LessWork DEF KnowledgeInv
<1>5. QED
  BY <1>2, <1>4 DEF KnowledgeInv

LEMMA StepSound == KnowledgeInv /\ [Next]_vars => KnowledgeInv'
<1> SUFFICES ASSUME KnowledgeInv, [Next]_vars
             PROVE  KnowledgeInv'
  OBVIOUS
<1>1. CASE WriteEpisode \/ ReadPage
  BY <1>1, WriteSound
<1>2. CASE RememberPage
  BY <1>2, RememberSound
<1>3. CASE FallAsleep
  BY <1>3, FallAsleepSound
<1>4. CASE Place
  BY <1>4, PlaceSound
<1>5. CASE Summarise
  BY <1>5, SummariseSound
<1>6. CASE DecayAndMerge
  BY <1>6, DecaySound
<1>7. CASE \/ ForgetPage \/ Link \/ TimePasses \/ Clustered \/ EndConsolidation
           \/ DecayFails \/ Wake \/ Crash \/ UNCHANGED vars
  BY <1>7, QuietSound
<1>8. QED
  BY <1>1, <1>2, <1>3, <1>4, <1>5, <1>6, <1>7 DEF Next

LEMMA Invariance == Spec => []KnowledgeInv
<1>1. QED
  BY InitSound, StepSound, PTL DEF Spec

\* In every reachable state each fact cites existing episodes and at least one,
\* keys are unique and no edge dangles: upsert_fact, _merge_facts and
\* _repoint_edges keep it through failures and crashes.
THEOREM ProvenanceHolds == Spec => []ProvenanceSound
<1>1. KnowledgeInv => ProvenanceSound
  BY DEF KnowledgeInv, FactsSound
<1>2. QED
  BY <1>1, Invariance, PTL
-----------------------------------------------------------------------------
(***************************************************************************)
(* What a merge promises.                                                  *)
(***************************************************************************)

\* Two rows that each started a group are unlike: the later one met the earlier.
LEMMA MergedIsUnlike ==
    ASSUME FactsSound, DecayAndMerge
    PROVE  NoneAlike'
<1>1. PICK g \in [DOMAIN facts -> DOMAIN facts] : Grouping(g) /\ MergeFacts(g)
  BY DEF DecayAndMerge
<1>2. /\ DOMAIN facts' = Starts(g) /\ Starts(g) \subseteq DOMAIN facts
      /\ \A i \in Starts(g) : facts'[i].text = facts[i].text
  BY <1>1, MergedRows
<1>3. ASSUME NEW i \in Starts(g), NEW j \in Starts(g), i < j,
             <<facts[i].text, facts[j].text>> \in Alike
      PROVE  FALSE
  <2> DEFINE open == {k \in Starts(g) : k < j /\ <<facts[k].text, facts[j].text>> \in Alike}
  <2>1. i \in open
    BY <1>3
  <2>2. g[j] \in open
    BY <1>1, <1>2, <2>1 DEF Grouping
  <2>3. g[j] = j /\ j \in Nat
    BY <1>2 DEF Starts, FactsSound
  <2>4. QED
    BY <2>2, <2>3
<1>4. ASSUME NEW i \in Starts(g), NEW j \in Starts(g),
             <<facts[i].text, facts[j].text>> \in Alike
      PROVE  i = j
  <2>1. /\ i \in Nat /\ j \in Nat
        /\ <<facts[j].text, facts[i].text>> \in Alike
    BY <1>2, <1>4, KnowledgeAssumption DEF FactsSound
  <2>2. ~(i < j) /\ ~(j < i)
    BY <1>3, <1>4, <2>1
  <2>3. QED
    BY <2>1, <2>2
<1>5. QED
  BY <1>2, <1>4 DEF NoneAlike

\* After the merge and until the sleep ends no two facts are near-duplicates,
\* for any likeness that is symmetric (duplicate_fact_groups, _merge_facts).
THEOREM NoneAlikeHolds == Spec => []NoneAlike
<1>1. Init => NoneAlike
  BY DEF Init, NoneAlike
<1>2. KnowledgeInv /\ NoneAlike /\ [Next]_vars => NoneAlike'
  <2> SUFFICES ASSUME KnowledgeInv, NoneAlike, [Next]_vars
               PROVE  NoneAlike'
    OBVIOUS
  <2>1. CASE DecayAndMerge
    BY <2>1, MergedIsUnlike DEF KnowledgeInv
  <2>2. CASE UNCHANGED vars
    BY <2>2 DEF NoneAlike, vars
  <2>3. CASE Next /\ ~DecayAndMerge
    <3>1. at' # "merged"
      BY <2>3 DEF Next, WriteEpisode, ReadPage, RememberPage, ForgetPage, Link, TimePasses,
         FallAsleep, Place, Clustered, Summarise, EndConsolidation, DecayFails, Wake, Crash,
         Awake, KnowledgeInv, WorkSound
    <3>2. QED
      BY <3>1 DEF NoneAlike
  <2>4. QED
    BY <2>1, <2>2, <2>3
<1>3. QED
  BY <1>1, <1>2, Invariance, PTL DEF Spec

\* A row's group carries the row: what it says, nearly, and all it cites.
LEMMA GroupCarries ==
    ASSUME FactsSound, NEW g \in [DOMAIN facts -> DOMAIN facts],
           Grouping(g), MergeFacts(g), NEW i \in DOMAIN facts
    PROVE  g[i] \in DOMAIN facts' /\ Carries(i, g[i])
<1>1. g[i] \in Starts(g) /\ <<facts[i].text, facts[g[i]].text>> \in Alike
  BY GroupStays
<1>2. QED
  BY <1>1, MergedRows DEF Carries

LEMMA MergeForgetsNothing ==
    ASSUME FactsSound, NEW g \in [DOMAIN facts -> DOMAIN facts],
           Grouping(g), MergeFacts(g), RepointEdges(g)
    PROVE  /\ \A i \in DOMAIN facts : \E j \in DOMAIN facts' : Carries(i, j)
           /\ \A e \in edges : \E j, k \in DOMAIN facts' :
                Carries(e[1], j) /\ Carries(e[2], k) /\ (<<j, k>> \in edges' \/ j = k)
           /\ Cited' = Cited
<1>1. \A i \in DOMAIN facts : g[i] \in DOMAIN facts' /\ Carries(i, g[i])
  BY GroupCarries
<1>2. ASSUME NEW e \in edges
      PROVE  \E j, k \in DOMAIN facts' :
               Carries(e[1], j) /\ Carries(e[2], k) /\ (<<j, k>> \in edges' \/ j = k)
  <2>1. e[1] \in DOMAIN facts /\ e[2] \in DOMAIN facts
    BY DEF FactsSound, ProvenanceSound
  <2>2. <<g[e[1]], g[e[2]]>> \in edges' \/ g[e[1]] = g[e[2]]
    BY DEF RepointEdges
  <2>3. QED
    BY <1>1, <2>1, <2>2
<1>3. Cited \subseteq Cited'
  <2> SUFFICES ASSUME NEW i \in DOMAIN facts, NEW e \in facts[i].sources
               PROVE  \E j \in DOMAIN facts' : e \in facts'[j].sources
    BY DEF Cited
  <2>1. QED
    BY <1>1 DEF Carries
<1>4. Cited' \subseteq Cited
  <2> SUFFICES ASSUME NEW j \in DOMAIN facts', NEW e \in facts'[j].sources
               PROVE  \E i \in DOMAIN facts : e \in facts[i].sources
    BY DEF Cited
  <2>1. QED
    BY MergedRows
<1>5. QED
  BY <1>1, <1>2, <1>3, <1>4

\* A merge loses no fact's substance, no citation and no link, and invents none
\* (_merge_facts, _repoint_edges).
THEOREM MergeKeeps == Spec => MergeKeepsKnowledge
<1> DEFINE Kept ==
      /\ \A i \in DOMAIN facts : \E j \in DOMAIN facts' : Carries(i, j)
      /\ \A e \in edges : \E j, k \in DOMAIN facts' :
           Carries(e[1], j) /\ Carries(e[2], k) /\ (<<j, k>> \in edges' \/ j = k)
      /\ Cited' = Cited
<1>1. KnowledgeInv /\ [Next]_vars => [at = "decay" /\ at' = "merged" => Kept]_vars
  <2> SUFFICES ASSUME KnowledgeInv, Next, at = "decay", at' = "merged"
               PROVE  Kept
    OBVIOUS
  <2>1. DecayAndMerge
    BY DEF Next, WriteEpisode, ReadPage, RememberPage, ForgetPage, Link, TimePasses,
       FallAsleep, Place, Clustered, Summarise, EndConsolidation, DecayFails, Wake, Crash,
       Awake
  <2>2. PICK g \in [DOMAIN facts -> DOMAIN facts] :
          Grouping(g) /\ MergeFacts(g) /\ RepointEdges(g)
    BY <2>1 DEF DecayAndMerge
  <2>3. QED
    BY <2>2, MergeForgetsNothing DEF KnowledgeInv
<1>2. QED
  BY <1>1, Invariance, PTL DEF Spec, MergeKeepsKnowledge

-----------------------------------------------------------------------------
(***************************************************************************)
(* The nearest cluster.  Fractions are compared by cross-multiplying, so   *)
(* the arithmetic is stated once, for integers.                            *)
(***************************************************************************)
\* What stands in for induction: a non-empty set of numbers has a least one.
LEMMA Least ==
    ASSUME NEW T, T \subseteq Nat, T # {}
    PROVE  \E m \in T : \A n \in T : m <= n
<1> DEFINE R == {r \in Nat \X Nat : r[1] < r[2]}
<1>1. IsWellFoundedOn(R, Nat)
  <2>1. R = OpToRel(<, Nat)
    BY DEF OpToRel
  <2>2. QED
    BY <2>1, NatLessThanWellFounded
<1>2. PICK m \in T : \A n \in T : ~ (<<n, m>> \in R)
  <2> HIDE DEF R
  <2>1. QED
    BY <1>1, WFMin
<1>3. ASSUME NEW n \in T PROVE m <= n
  <2>1. n \in Nat /\ m \in Nat /\ ~ (<<n, m>> \in R)
    BY <1>2
  <2>2. ~ (n < m)
    BY <2>1
  <2>3. QED
    BY <2>1, <2>2
<1>4. QED
  BY <1>3

\* A comparison survives multiplying by a positive number.
LEMMA TimesPositive ==
    ASSUME NEW x \in Int, NEW y \in Int, NEW z \in Int, z > 0
    PROVE  (x > y <=> x * z > y * z) /\ (x >= y <=> x * z >= y * z)
OBVIOUS

\* |v.w| is at most |v||w| (Cauchy and Schwarz).
LEMMA DotBound ==
    ASSUME NEW a \in Int, NEW b \in Int, NEW c \in Int, NEW d \in Int
    PROVE  (a * c + b * d) * (a * c + b * d) <= (a * a + b * b) * (c * c + d * d)
<1>1. (a * a + b * b) * (c * c + d * d)
        = (a * c + b * d) * (a * c + b * d) + (a * d - b * c) * (a * d - b * c)
  OBVIOUS
<1> DEFINE x == a * d - b * c
<1>2. x \in Int
  OBVIOUS
<1> HIDE DEF x
<1>3. x * x >= 0
  BY <1>2
<1>4. QED
  BY <1>1, <1>3 DEF x

Fractions == [num : Int, den : Nat \ {0}]

\* Being greater, for fractions with positive denominators, is an order.
LEMMA ExceedsTransitive ==
    ASSUME NEW p \in Fractions, NEW q \in Fractions, NEW r \in Fractions,
           Exceeds(p, q), ~Exceeds(r, q)
    PROVE  Exceeds(p, r)
<1> DEFINE a == p.num
           b == p.den
           c == q.num
           d == q.den
           e == r.num
           f == r.den
<1>1. /\ a \in Int /\ c \in Int /\ e \in Int /\ b \in Int /\ d \in Int /\ f \in Int
      /\ b > 0 /\ d > 0 /\ f > 0 /\ a * d > c * b /\ c * f >= e * d
  BY DEF Fractions, Exceeds
<1> HIDE DEF a, b, c, d, e, f
<1>2. (a * d) * f > (c * b) * f
  <2>1. a * d \in Int /\ c * b \in Int
    BY <1>1
  <2>2. QED
    BY <1>1, <2>1, TimesPositive
<1>3. (c * f) * b >= (e * d) * b
  <2>1. c * f \in Int /\ e * d \in Int
    BY <1>1
  <2>2. QED
    BY <1>1, <2>1, TimesPositive
<1>4. (a * f) * d > (e * b) * d
  BY <1>1, <1>2, <1>3
<1>5. a * f > e * b
  <2>1. a * f \in Int /\ e * b \in Int
    BY <1>1
  <2>2. QED
    BY <1>1, <1>4, <2>1, TimesPositive
<1>6. QED
  BY <1>5 DEF Exceeds, a, b, e, f

LEMMA ExceedsIrreflexive ==
    ASSUME NEW p \in Fractions
    PROVE  ~Exceeds(p, p)
BY DEF Fractions, Exceeds

LEMMA ExceedsAsymmetric ==
    ASSUME NEW p \in Fractions, NEW q \in Fractions, Exceeds(p, q)
    PROVE  ~Exceeds(q, p)
<1>1. p.num * q.den \in Int /\ q.num * p.den \in Int
  BY DEF Fractions
<1>2. QED
  BY <1>1 DEF Exceeds

\* Among finitely many fractions one is greatest, and a first one is.
FirstGreatest(q, m, n) ==
    \A d \in 1 .. n : ~Exceeds(q[d], q[m]) /\ (d < m => Exceeds(q[m], q[d]))

\* So among finitely many of them there is a first of the greatest.
LEMMA GreatestExists ==
    ASSUME NEW n \in Nat \ {0}, NEW q \in [1 .. n -> Fractions]
    PROVE  \E m \in 1 .. n : FirstGreatest(q, m, n)
<1> DEFINE Bad == {k \in 1 .. n : ~ \E m \in 1 .. k : FirstGreatest(q, m, k)}
<1>1. SUFFICES ASSUME Bad # {} PROVE FALSE
  <2>1. n \in 1 .. n
    OBVIOUS
  <2>2. QED
    BY <2>1
<1>2. PICK k \in Bad : \A j \in Bad : k <= j
  <2>1. Bad \subseteq Nat
    OBVIOUS
  <2> HIDE DEF Bad
  <2>2. QED
    BY <1>1, <2>1, Least
<1>3. k \in 1 .. n /\ ~ \E m \in 1 .. k : FirstGreatest(q, m, k)
  OBVIOUS
<1>4. k # 1
  <2>1. ASSUME k = 1 PROVE FirstGreatest(q, 1, 1)
    <3>1. ~Exceeds(q[1], q[1])
      BY <1>3, <2>1, ExceedsIrreflexive
    <3>2. \A d \in 1 .. 1 : d = 1
      OBVIOUS
    <3>3. QED
      BY <3>1, <3>2 DEF FirstGreatest
  <2>2. QED
    BY <1>3, <2>1
<1>5. PICK m \in 1 .. k - 1 : FirstGreatest(q, m, k - 1)
  <2>1. k - 1 \in 1 .. n /\ ~ (k <= k - 1)
    BY <1>3, <1>4
  <2>2. k - 1 \notin Bad
    <3> HIDE DEF Bad
    <3>1. QED
      BY <1>2, <2>1
  <2>3. QED
    BY <2>1, <2>2
<1> HIDE DEF Bad
<1>6. /\ m \in 1 .. k /\ m < k /\ k \in 1 .. k
      /\ \A d \in 1 .. k : d # k => d \in 1 .. k - 1
      /\ \A d \in 1 .. k : q[d] \in Fractions
  BY <1>3, <1>5
<1>7. CASE ~Exceeds(q[k], q[m])
  <2>1. FirstGreatest(q, m, k)
    <3>1. ASSUME NEW d \in 1 .. k
          PROVE  ~Exceeds(q[d], q[m]) /\ (d < m => Exceeds(q[m], q[d]))
      <4>1. CASE d = k
        BY <1>3, <1>5, <1>7, <4>1
      <4>2. CASE d # k
        <5>1. d \in 1 .. k - 1
          BY <1>6, <4>2
        <5>2. QED
          BY <1>5, <5>1 DEF FirstGreatest
      <4>3. QED
        BY <4>1, <4>2
    <3>2. QED
      BY <3>1 DEF FirstGreatest
  <2>2. QED
    BY <1>3, <1>6, <2>1
<1>8. CASE Exceeds(q[k], q[m])
  <2>1. FirstGreatest(q, k, k)
    <3>1. ASSUME NEW d \in 1 .. k
          PROVE  ~Exceeds(q[d], q[k]) /\ (d < k => Exceeds(q[k], q[d]))
      <4>1. CASE d = k
        BY <1>6, <4>1, ExceedsIrreflexive
      <4>2. CASE d # k
        <5>1. d \in 1 .. k - 1
          BY <1>6, <4>2
        <5>2. ~Exceeds(q[d], q[m])
          BY <1>5, <5>1 DEF FirstGreatest
        <5>3. Exceeds(q[k], q[d])
          BY <1>6, <1>8, <5>2, ExceedsTransitive
        <5>4. ~Exceeds(q[d], q[k])
          BY <1>6, <5>3, ExceedsAsymmetric
        <5>5. QED
          BY <5>3, <5>4
      <4>3. QED
        BY <4>1, <4>2
    <3>2. QED
      BY <3>1 DEF FirstGreatest
  <2>2. QED
    BY <1>3, <1>6, <2>1
<1>9. QED
  BY <1>7, <1>8

Plane == Int \X Int

\* What the products of two directions are, in coordinates.
LEMMA DotIs ==
    ASSUME NEW v \in Plane, NEW s \in Plane
    PROVE  /\ Dot(v, s) \in Int /\ Norm2(v) \in Nat /\ Norm2(s) \in Nat
           /\ Dot(v, s) * Dot(v, s) <= Norm2(v) * Norm2(s)
           /\ Dot(v, s) * Dot(v, s) \in Nat
<1> DEFINE a == v[1]
           b == v[2]
           c == s[1]
           d == s[2]
<1>1. /\ a \in Int /\ b \in Int /\ c \in Int /\ d \in Int
      /\ Dot(v, s) = a * c + b * d /\ Norm2(v) = a * a + b * b /\ Norm2(s) = c * c + d * d
  BY DEF Plane, Dot, Norm2
<1> HIDE DEF a, b, c, d
<1>2. a * a >= 0 /\ b * b >= 0 /\ c * c >= 0 /\ d * d >= 0
  BY <1>1
<1> DEFINE x == a * c + b * d
<1>3. x \in Int
  BY <1>1
<1>4. x * x <= (a * a + b * b) * (c * c + d * d)
  BY <1>1, DotBound
<1> HIDE DEF x
<1>5. x * x >= 0
  BY <1>3
<1>6. QED
  BY <1>1, <1>2, <1>3, <1>4, <1>5 DEF x

\* The signed square of a cosine is a fraction with a positive denominator.
LEMMA SquareIsFraction ==
    ASSUME NEW v \in Plane, NEW s \in Plane
    PROVE  SignedSquare(v, s) \in Fractions
<1>1. Dot(v, s) * Dot(v, s) \in Nat /\ Norm2(s) \in Nat
  BY DotIs
<1> DEFINE sq == Dot(v, s) * Dot(v, s)
           num == IF Dot(v, s) < 0 THEN -sq ELSE sq
           den == IF Norm2(s) = 0 THEN 1 ELSE Norm2(s)
<1>2. SignedSquare(v, s) = [num |-> num, den |-> den]
  BY DEF SignedSquare
<1>3. num \in Int /\ den \in Nat \ {0}
  <2> HIDE DEF sq
  <2>1. sq \in Nat
    BY <1>1 DEF sq
  <2>2. QED
    BY <1>1, <2>1
<1> HIDE DEF num, den
<1>4. QED
  BY <1>2, <1>3 DEF Fractions

\* Of an opposite direction the signed square is least, and of no other.
LEMMA OppositeIsLeast ==
    ASSUME NEW v \in Plane, Norm2(v) # 0, NEW s \in Plane, NEW t \in Plane,
           Opposite(v, s), ~Exceeds(SignedSquare(v, t), SignedSquare(v, s))
    PROVE  Opposite(v, t)
<1> DEFINE n == Norm2(v)
           ds == Dot(v, s)
           ns == Norm2(s)
           dt == Dot(v, t)
           nt == Norm2(t)
<1>1. /\ n \in Nat /\ n > 0 /\ ns \in Nat /\ nt \in Nat /\ ds \in Int /\ dt \in Int
      /\ ds < 0 /\ ds * ds = n * ns /\ dt * dt <= n * nt /\ dt * dt \in Nat /\ ds * ds \in Nat
  BY DotIs DEF Opposite
<1>2. ns > 0
  <2>1. ds * ds > 0
    <3> HIDE DEF ds
    <3>1. QED
      BY <1>1
  <2> HIDE DEF n, ds, ns
  <2>2. QED
    BY <1>1, <2>1
<1>3. SignedSquare(v, s) = [num |-> -(ds * ds), den |-> ns]
  BY <1>1, <1>2 DEF SignedSquare
<1> DEFINE num == IF dt < 0 THEN -(dt * dt) ELSE dt * dt
           den == IF nt = 0 THEN 1 ELSE nt
<1>4. SignedSquare(v, t) = [num |-> num, den |-> den]
  BY DEF SignedSquare
<1> HIDE DEF n, ds, ns, dt, nt
<1>5. num \in Int /\ den \in Nat \ {0}
  <2> DEFINE sq == dt * dt
  <2>1. sq \in Nat
    BY <1>1
  <2> HIDE DEF sq
  <2>2. num = IF dt < 0 THEN -sq ELSE sq
    BY DEF sq
  <2> HIDE DEF num
  <2>3. QED
    BY <1>1, <2>1, <2>2
<1>6. num * ns <= (-(ds * ds)) * den
  <2> HIDE DEF num, den
  <2>1. ~ (num * ns > (-(ds * ds)) * den)
    BY <1>3, <1>4 DEF Exceeds
  <2>2. num * ns \in Int /\ (-(ds * ds)) * den \in Int
    BY <1>1, <1>5
  <2>3. QED
    BY <2>1, <2>2
<1>7. num <= -(n * den)
  <2> HIDE DEF num, den
  <2>1. (-(ds * ds)) * den = (-(n * den)) * ns
    <3>1. (-(ds * ds)) * den = (-(n * ns)) * den
      BY <1>1
    <3>2. (-(n * ns)) * den = (-(n * den)) * ns
      BY <1>1, <1>5
    <3>3. QED
      BY <3>1, <3>2
  <2>2. -(n * den) \in Int
    BY <1>1, <1>5
  <2>3. ~ (num > -(n * den))
    <3> DEFINE z == -(n * den)
    <3>1. z \in Int /\ num * ns <= z * ns
      BY <1>6, <2>1, <2>2
    <3> HIDE DEF z
    <3>2. ~ (num > z)
      <4>1. num * ns \in Int /\ z * ns \in Int
        BY <1>1, <1>5, <3>1
      <4>2. QED
        BY <1>1, <1>2, <1>5, <3>1, <4>1, TimesPositive
    <3>3. QED
      BY <3>2 DEF z
  <2>4. QED
    BY <1>5, <2>2, <2>3
<1>8. num < 0
  <2> HIDE DEF num, den
  <2>1. n * den > 0
    BY <1>1, <1>5
  <2>2. n * den \in Int
    BY <1>1, <1>5
  <2>3. QED
    BY <1>5, <1>7, <2>1, <2>2
<1>9. dt < 0 /\ num = -(dt * dt)
  <2> DEFINE sq == dt * dt
  <2>1. sq \in Nat /\ num = IF dt < 0 THEN -sq ELSE sq
    BY <1>1
  <2> HIDE DEF sq, num
  <2>2. dt < 0 /\ num = -sq
    BY <1>1, <1>8, <2>1
  <2>3. QED
    BY <2>2 DEF sq
<1>10. nt # 0
  <2>1. ASSUME nt = 0 PROVE FALSE
    <3>1. n * nt = 0
      BY <1>1, <2>1
    <3>2. dt * dt > 0
      BY <1>1, <1>9
    <3>3. QED
      BY <1>1, <3>1, <3>2
  <2>2. QED
    BY <2>1
<1>11. dt * dt >= n * nt
  <2>1. -(dt * dt) <= -(n * nt)
    BY <1>7, <1>9, <1>10
  <2> DEFINE x == dt * dt
             y == n * nt
  <2>2. x \in Int /\ y \in Int /\ -x <= -y
    BY <1>1, <2>1
  <2> HIDE DEF x, y
  <2>3. x >= y
    BY <2>2
  <2>4. QED
    BY <2>3 DEF x, y
<1>12. dt * dt = n * nt
  <2>1. n * nt \in Int
    BY <1>1
  <2>2. QED
    BY <1>1, <1>11, <2>1
<1>13. QED
  BY <1>9, <1>12 DEF Opposite, dt, n, nt

\* No cluster is near only if each points exactly away.
LEMMA NoneNearest ==
    ASSUME NEW v \in Plane, Norm2(v) # 0, NEW n \in Nat, DOMAIN clusters = 1 .. n,
           \A c \in 1 .. n : clusters[c].sum \in Plane,
           Nearest(v) = {}
    PROVE  \A c \in 1 .. n : Opposite(v, clusters[c].sum)
<1> DEFINE q == [c \in 1 .. n |-> SignedSquare(v, clusters[c].sum)]
<1>1. SUFFICES ASSUME n # 0 PROVE \A c \in 1 .. n : Opposite(v, clusters[c].sum)
  OBVIOUS
<1>2. q \in [1 .. n -> Fractions]
  BY SquareIsFraction
<1>3. PICK m \in 1 .. n : FirstGreatest(q, m, n)
  <2> HIDE DEF q
  <2>1. n \in Nat \ {0}
    BY <1>1
  <2>2. QED
    BY <1>2, <2>1, GreatestExists
<1>4. \A d \in 1 .. n :
        /\ ~Exceeds(SignedSquare(v, clusters[d].sum), SignedSquare(v, clusters[m].sum))
        /\ d < m => Exceeds(SignedSquare(v, clusters[m].sum), SignedSquare(v, clusters[d].sum))
  BY <1>3 DEF FirstGreatest
<1> HIDE DEF q
<1>5. Opposite(v, clusters[m].sum)
  BY <1>3, <1>4 DEF Nearest
<1>6. QED
  BY <1>3, <1>4, <1>5, OppositeIsLeast

\* Nearest is at most one cluster.
LEMMA NearestIsOne ==
    ASSUME NEW v, NEW n \in Nat, DOMAIN clusters = 1 .. n,
           NEW c \in Nearest(v), NEW d \in Nearest(v)
    PROVE  c = d
<1>1. c \in 1 .. n /\ d \in 1 .. n
  BY DEF Nearest
<1>2. ~ (d < c) /\ ~ (c < d)
  BY DEF Nearest
<1>3. QED
  BY <1>1, <1>2

-----------------------------------------------------------------------------
(***************************************************************************)
(* Clustering.  What is placed is the head of the window and what is not   *)
(* is the rest of it, in order; the rows and sums are typed, because which *)
(* cluster is nearest depends on them.                                     *)
(***************************************************************************)
EpisodeRows == [born : Nat, salience : 0 .. Full, vector : Vectors]

DataInv ==
    /\ clock \in 0 .. MaxClock
    /\ \A i \in Episodes : episodes[i] \in EpisodeRows /\ episodes[i].born <= clock
    /\ \A c \in DOMAIN clusters : clusters[c].sum \in Plane

WindowInv ==
    /\ at \notin {"cluster", "summarise"} => clusters = <<>>
    /\ at = "cluster" =>
         /\ Len(unplaced) <= Len(Recent)
         /\ \A i \in 1 .. Len(unplaced) :
              unplaced[i] = Recent[Len(Recent) - Len(unplaced) + i]
    /\ PlacedOnce

ClusterInv == KnowledgeInv /\ DataInv /\ WindowInv

\* The length of a table is that of its domain.
LEMMA TableLength ==
    ASSUME NEW s, IsTable(s)
    PROVE  Len(s) \in Nat /\ DOMAIN s = 1 .. Len(s) /\ (Len(s) = 0 <=> s = <<>>)
<1>1. PICK n \in Nat : s = [i \in 1 .. n |-> s[i]]
  BY DEF IsTable
<1>2. s \in Seq({s[i] : i \in 1 .. n}) /\ Len(s) = n /\ DOMAIN s = 1 .. n
  BY <1>1, TableIsSeq
<1> DEFINE T == {s[i] : i \in 1 .. n}
<1> HIDE DEF T
<1>3. s \in Seq(T)
  BY <1>2 DEF T
<1>4. QED
  BY <1>2, <1>3, EmptySeq

\* The window, newest first, holds an episode once.
LEMMA RecentIs ==
    ASSUME WorkSound
    PROVE  /\ Len(Recent) \in Nat /\ DOMAIN Recent = 1 .. Len(Recent)
           /\ \A i \in 1 .. Len(Recent) :
                Recent[i] \in Int /\ Recent[i] = Len(episodes) + 1 - i
           /\ IsTable(Recent)
<1>1. Len(episodes) \in Nat
  BY TableLength DEF WorkSound
<1> DEFINE m == Lesser(Window, Len(episodes))
<1>2. m \in Nat
  BY <1>1, KnowledgeAssumption DEF Lesser
<1>3. Recent = [i \in 1 .. m |-> Len(episodes) + 1 - i]
  BY DEF Recent
<1> HIDE DEF m
<1>4. Recent \in [1 .. m -> Int]
  BY <1>1, <1>2, <1>3
<1>5. IsTable(Recent)
  BY <1>2, <1>4, FunctionIsTable
<1>6. Len(Recent) = m
  <2>1. DOMAIN Recent = 1 .. m
    BY <1>4
  <2>2. Len(Recent) \in Nat /\ DOMAIN Recent = 1 .. Len(Recent)
    BY <1>5, TableLength
  <2>3. QED
    BY <1>2, <1>4, <2>1, <2>2, LenProperties, SeqDef
<1>7. QED
  BY <1>1, <1>2, <1>3, <1>4, <1>5, <1>6

\* The clustering sees the episodes only.
LEMMA SameWindow ==
    ASSUME UNCHANGED episodes
    PROVE  Recent' = Recent
BY DEF Recent, Lesser

\* An embedding has a direction.
LEMMA PlaneVectors ==
    ASSUME NEW v \in Vectors
    PROVE  v \in Plane /\ Norm2(v) # 0
<1>1. v \in Int \X Int /\ v # <<0, 0>>
  BY KnowledgeAssumption
<1> DEFINE a == v[1]
           b == v[2]
<1>2. a \in Int /\ b \in Int /\ v = <<a, b>> /\ Norm2(v) = a * a + b * b
  BY <1>1 DEF Norm2, Dot
<1> HIDE DEF a, b
<1>3. a # 0 \/ b # 0
  BY <1>1, <1>2
<1>4. a * a >= 0 /\ b * b >= 0 /\ (a # 0 => a * a > 0) /\ (b # 0 => b * b > 0)
  BY <1>2
<1>5. QED
  BY <1>1, <1>2, <1>3, <1>4 DEF Plane

\* An episode opens a cluster past the cap only if it points away from all.
LEMMA OpensAwayFromAll ==
    ASSUME ClusterInv, NEW v \in Vectors, Folds(v) = {}, Len(clusters) >= MaxClusters
    PROVE  \A c \in DOMAIN clusters : Opposite(v, clusters[c].sum)
<1>1. Nearest(v) = {}
  BY DEF Folds
<1>2. Len(clusters) \in Nat /\ DOMAIN clusters = 1 .. Len(clusters)
  BY TableLength DEF ClusterInv, KnowledgeInv, WorkSound
<1>3. \A c \in 1 .. Len(clusters) : clusters[c].sum \in Plane
  BY <1>2 DEF ClusterInv, DataInv
<1>4. QED
  BY <1>1, <1>2, <1>3, PlaneVectors, NoneNearest

\* A turn of the loop moves the head of what is left into one cluster.
LEMMA PlaceKeepsWindow ==
    ASSUME ClusterInv, Place
    PROVE  DataInv' /\ WindowInv' /\ CapHolds
<1> DEFINE id == Head(unplaced)
           v == episodes[id].vector
           N == Len(Recent)
           u == Len(unplaced)
           n == Len(clusters)
<1>1. /\ at = "cluster" /\ at' = "cluster" /\ unplaced # <<>> /\ unplaced' = Tail(unplaced)
      /\ UNCHANGED <<clock, episodes>>
  BY DEF Place
<1>2. /\ IsTable(unplaced) /\ IsTable(clusters) /\ u \in Nat /\ DOMAIN unplaced = 1 .. u
      /\ u # 0 /\ n \in Nat /\ DOMAIN clusters = 1 .. n
  BY <1>1, TableLength DEF ClusterInv, KnowledgeInv, WorkSound
<1>3. /\ N \in Nat /\ u <= N
      /\ \A i \in 1 .. u : unplaced[i] = Recent[N - u + i]
      /\ \A i \in 1 .. N : Recent[i] \in Int /\ Recent[i] = Len(episodes) + 1 - i
  BY <1>1, RecentIs DEF ClusterInv, WindowInv, KnowledgeInv
<1>4. Len(episodes) \in Nat
  BY TableLength DEF ClusterInv, KnowledgeInv, WorkSound
<1>5. /\ IsTable(unplaced') /\ id = unplaced[1] /\ 1 \in DOMAIN unplaced
      /\ \A i \in DOMAIN unplaced' : i + 1 \in DOMAIN unplaced /\ unplaced'[i] = unplaced[i + 1]
  BY <1>1, <1>2, TailTable
<1>6. Len(unplaced') = u - 1 /\ DOMAIN unplaced' = 1 .. u - 1
  <2>1. unplaced \in Seq({unplaced[i] : i \in 1 .. u})
    BY <1>2, TableIsSeq DEF IsTable
  <2> DEFINE T == {unplaced[i] : i \in 1 .. u}
  <2> HIDE DEF T
  <2>2. unplaced \in Seq(T)
    BY <2>1 DEF T
  <2>3. Len(Tail(unplaced)) = u - 1
    BY <1>1, <2>2, HeadTailProperties
  <2>4. QED
    BY <1>1, <1>5, <2>3, TableLength
<1>7. id \in Episodes /\ v \in Vectors
  <2>1. id \in Episodes
    BY <1>5 DEF ClusterInv, KnowledgeInv, WorkSound
  <2> HIDE DEF id
  <2>2. QED
    BY <2>1 DEF ClusterInv, DataInv, EpisodeRows
<1>8. id = Recent[N - u + 1]
  BY <1>2, <1>3, <1>5
<1> DEFINE placed == {Recent[i] : i \in 1 .. N - u}
<1>9. /\ UNION {clusters[c].members : c \in 1 .. n} = placed
      /\ \A c, d \in 1 .. n : c # d => clusters[c].members \cap clusters[d].members = {}
  BY <1>1, <1>2 DEF ClusterInv, WindowInv, PlacedOnce
<1>10. id \notin placed
  <2>1. N - u + 1 \in 1 .. N
    BY <1>2, <1>3
  <2>2. ASSUME NEW i \in 1 .. N - u PROVE Recent[i] # id
    <3>1. i \in 1 .. N /\ i # N - u + 1
      BY <1>2, <1>3
    <3>2. QED
      BY <1>3, <1>4, <1>8, <2>1, <3>1
  <2>3. QED
    BY <2>2
<1>11. {Recent[i] : i \in 1 .. N - (u - 1)} = placed \cup {id}
  <2>1. 1 .. N - (u - 1) = (1 .. N - u) \cup {N - u + 1}
    BY <1>2, <1>3
  <2>2. QED
    BY <1>8, <2>1
<1> HIDE DEF id, N, u, placed
<1>12. v \in Plane
  BY <1>7, PlaneVectors
<1>13. /\ \A c \in DOMAIN clusters' : clusters'[c].sum \in Plane
       /\ UNION {clusters'[c].members : c \in DOMAIN clusters'} = placed \cup {id}
       /\ \A c, d \in DOMAIN clusters' :
            c # d => clusters'[c].members \cap clusters'[d].members = {}
       /\ CapHolds
  <2>1. CASE Folds(v) = {}
    <3> DEFINE seed == [members |-> {id}, sum |-> v]
    <3>1. clusters' = Append(clusters, seed)
      BY <2>1 DEF Place, id
    <3>2. seed.members = {id} /\ seed.sum = v
      OBVIOUS
    <3> HIDE DEF seed
    <3>3. /\ DOMAIN clusters' = 1 .. n + 1
          /\ \A c \in 1 .. n : clusters'[c] = clusters[c]
          /\ clusters'[n + 1] = seed
      BY <1>2, <3>1, AppendTable
    <3>4. DOMAIN clusters' = (1 .. n) \cup {n + 1} /\ n + 1 \notin 1 .. n
      BY <1>2, <3>3
    <3> HIDE DEF n
    <3>5. \A c \in DOMAIN clusters' : clusters'[c].sum \in Plane
      BY <1>2, <1>12, <3>2, <3>3, <3>4 DEF ClusterInv, DataInv
    <3>6. UNION {clusters'[c].members : c \in DOMAIN clusters'} = placed \cup {id}
      <4>1. ASSUME NEW x, x \in UNION {clusters'[c].members : c \in DOMAIN clusters'}
            PROVE  x \in placed \cup {id}
        <5>1. PICK c \in DOMAIN clusters' : x \in clusters'[c].members
          BY <4>1
        <5>2. CASE c = n + 1
          BY <3>2, <3>3, <5>1, <5>2
        <5>3. CASE c \in 1 .. n
          BY <1>9, <3>3, <5>1, <5>3
        <5>4. QED
          BY <3>4, <5>2, <5>3
      <4>2. ASSUME NEW x \in placed \cup {id}
            PROVE  x \in UNION {clusters'[c].members : c \in DOMAIN clusters'}
        <5>1. CASE x = id
          BY <3>2, <3>3, <3>4, <5>1
        <5>2. CASE x \in placed
          <6>1. PICK c \in 1 .. n : x \in clusters[c].members
            BY <1>9, <5>2
          <6>2. QED
            BY <3>3, <3>4, <6>1
        <5>3. QED
          BY <5>1, <5>2
      <4>3. QED
        BY <4>1, <4>2
    <3>7. ASSUME NEW c \in DOMAIN clusters', NEW d \in DOMAIN clusters', c # d
          PROVE  clusters'[c].members \cap clusters'[d].members = {}
      <4>1. \A e \in 1 .. n : id \notin clusters[e].members
        BY <1>9, <1>10
      <4>2. CASE c \in 1 .. n /\ d \in 1 .. n
        BY <1>9, <3>3, <3>7, <4>2
      <4>3. CASE c = n + 1 /\ d \in 1 .. n
        BY <3>2, <3>3, <4>1, <4>3
      <4>4. CASE c \in 1 .. n /\ d = n + 1
        BY <3>2, <3>3, <4>1, <4>4
      <4>5. QED
        BY <3>4, <3>7, <4>2, <4>3, <4>4
    <3>8. CapHolds
      BY <1>7, <2>1, OpensAwayFromAll DEF CapHolds, id
    <3>9. QED
      BY <3>5, <3>6, <3>7, <3>8
  <2>2. CASE Folds(v) # {}
    <3> DEFINE folded(c) == [members |-> clusters[c].members \cup {id},
                             sum |-> <<clusters[c].sum[1] + v[1], clusters[c].sum[2] + v[2]>>]
    <3>1. clusters' = [c \in 1 .. n |-> IF c \in Folds(v) THEN folded(c) ELSE clusters[c]]
      BY <1>2, <2>2 DEF Place, id
    <3>2. PICK f \in 1 .. n : Folds(v) = {f}
      <4>1. PICK f \in Folds(v) : TRUE
        BY <2>2
      <4>2. Folds(v) \subseteq Nearest(v) /\ Nearest(v) \subseteq 1 .. n
        BY <1>2 DEF Folds, Nearest
      <4>3. \A d \in Folds(v) : d = f
        BY <1>2, <4>1, <4>2, NearestIsOne
      <4>4. QED
        BY <4>1, <4>2, <4>3
    <3>3. \A c : folded(c).members = clusters[c].members \cup {id}
      OBVIOUS
    <3>4. folded(f).sum \in Plane
      <4>1. clusters[f].sum \in Int \X Int /\ v \in Int \X Int
        BY <1>2, <1>12 DEF ClusterInv, DataInv, Plane
      <4>2. QED
        BY <4>1 DEF Plane
    <3> HIDE DEF folded
    <3>5. /\ DOMAIN clusters' = 1 .. n /\ clusters'[f] = folded(f)
          /\ \A c \in 1 .. n : c # f => clusters'[c] = clusters[c]
      BY <3>1, <3>2
    <3> HIDE DEF n
    <3>6. \A c \in DOMAIN clusters' : clusters'[c].sum \in Plane
      BY <1>2, <3>4, <3>5 DEF ClusterInv, DataInv
    <3>7. UNION {clusters'[c].members : c \in DOMAIN clusters'} = placed \cup {id}
      <4>1. ASSUME NEW x, x \in UNION {clusters'[c].members : c \in DOMAIN clusters'}
            PROVE  x \in placed \cup {id}
        <5>1. PICK c \in 1 .. n : x \in clusters'[c].members
          BY <3>5, <4>1
        <5>2. x \in clusters[c].members \cup {id}
          BY <3>3, <3>5, <5>1
        <5>3. QED
          BY <1>9, <5>2
      <4>2. ASSUME NEW x \in placed \cup {id}
            PROVE  x \in UNION {clusters'[c].members : c \in DOMAIN clusters'}
        <5>1. CASE x = id
          BY <3>2, <3>3, <3>5, <5>1
        <5>2. CASE x \in placed
          <6>1. PICK c \in 1 .. n : x \in clusters[c].members
            BY <1>9, <5>2
          <6>2. x \in clusters'[c].members
            BY <3>3, <3>5, <6>1
          <6>3. QED
            BY <3>5, <6>2
        <5>3. QED
          BY <5>1, <5>2
      <4>3. QED
        BY <4>1, <4>2
    <3>8. ASSUME NEW c \in DOMAIN clusters', NEW d \in DOMAIN clusters', c # d
          PROVE  clusters'[c].members \cap clusters'[d].members = {}
      <4>1. \A e \in 1 .. n : id \notin clusters[e].members
        BY <1>9, <1>10
      <4>2. /\ clusters[c].members \cap clusters[d].members = {}
            /\ id \notin clusters[c].members /\ id \notin clusters[d].members
            /\ c \in 1 .. n /\ d \in 1 .. n
        BY <1>9, <3>5, <3>8, <4>1
      <4>3. CASE c = f
        BY <3>3, <3>5, <3>8, <4>2, <4>3
      <4>4. CASE d = f
        BY <3>3, <3>5, <3>8, <4>2, <4>4
      <4>5. QED
        BY <3>5, <4>2, <4>3, <4>4
    <3>9. CapHolds
      <4>1. Len(clusters') = n
        <5>1. IsTable(clusters')
          BY PlaceSound DEF ClusterInv, KnowledgeInv, WorkSound
        <5>2. Len(clusters') \in Nat /\ 1 .. Len(clusters') = 1 .. n /\ n \in Nat
          BY <1>2, <3>5, <5>1, TableLength
        <5>3. QED
          BY <5>2
      <4>2. QED
        BY <1>2, <4>1 DEF CapHolds, n
    <3>10. QED
      BY <3>6, <3>7, <3>8, <3>9
  <2>3. QED
    BY <2>1, <2>2
<1>14. DataInv'
  BY <1>1, <1>13 DEF ClusterInv, DataInv, Episodes
<1>15. WindowInv'
  <2>1. Recent' = Recent
    BY <1>1, SameWindow
  <2>2. \A i \in 1 .. u - 1 : unplaced'[i] = Recent[N - (u - 1) + i]
    <3>1. ASSUME NEW i \in 1 .. u - 1 PROVE unplaced'[i] = Recent[N - (u - 1) + i]
      <4>1. i + 1 \in 1 .. u /\ N - u + (i + 1) = N - (u - 1) + i
        BY <1>2, <1>3
      <4>2. unplaced'[i] = unplaced[i + 1]
        BY <1>5, <1>6
      <4>3. QED
        BY <1>3, <4>1, <4>2
    <3>2. QED
      BY <3>1
  <2>3. u - 1 <= N
    BY <1>2, <1>3
  <2>4. PlacedOnce'
    BY <1>1, <1>6, <1>11, <1>13, <2>1 DEF PlacedOnce, N
  <2>5. QED
    BY <1>1, <1>6, <2>1, <2>2, <2>3, <2>4 DEF WindowInv, N
<1>16. QED
  BY <1>13, <1>14, <1>15

\* Every other step leaves the clusters or drops some.
LEMMA FallAsleepKeepsWindow ==
    ASSUME ClusterInv, FallAsleep
    PROVE  DataInv' /\ WindowInv'
<1>1. /\ at = "awake" /\ UNCHANGED <<clock, episodes, clusters>> /\ unplaced' = Recent
      /\ at' = IF Recent = <<>> THEN "decay" ELSE "cluster"
  BY DEF FallAsleep, Awake
<1>2. clusters = <<>> /\ DOMAIN clusters = {}
  BY <1>1, EmptyTable DEF ClusterInv, WindowInv
<1>3. Recent' = Recent
  BY <1>1, SameWindow
<1>4. Len(Recent) \in Nat
  BY RecentIs DEF ClusterInv, KnowledgeInv
<1>5. DataInv'
  BY <1>1 DEF ClusterInv, DataInv, Episodes
<1>6. PlacedOnce'
  <2> DEFINE N == Len(Recent)
  <2>1. UNION {clusters[c].members : c \in DOMAIN clusters} = {}
    BY <1>2
  <2>2. {Recent[i] : i \in 1 .. N - N} = {}
    <3> HIDE DEF N
    <3>1. 1 .. N - N = {}
      BY <1>4 DEF N
    <3>2. QED
      BY <3>1
  <2>3. QED
    BY <1>1, <1>2, <1>3, <2>1, <2>2 DEF PlacedOnce
<1>7. \A i \in 1 .. Len(Recent) : Len(Recent) - Len(Recent) + i = i
  BY <1>4
<1>8. QED
  BY <1>1, <1>2, <1>3, <1>4, <1>5, <1>6, <1>7 DEF WindowInv

LEMMA SummariseKeepsWindow ==
    ASSUME ClusterInv, Summarise
    PROVE  DataInv' /\ WindowInv'
<1>1. /\ at = "summarise" /\ at' = "summarise" /\ clusters # <<>> /\ clusters' = Tail(clusters)
      /\ UNCHANGED <<clock, episodes, unplaced>>
  BY DEF Summarise
<1>2. \A c \in DOMAIN clusters' : c + 1 \in DOMAIN clusters /\ clusters'[c] = clusters[c + 1]
  BY <1>1, TailTable DEF ClusterInv, KnowledgeInv, WorkSound
<1>3. DataInv'
  BY <1>1, <1>2 DEF ClusterInv, DataInv, Episodes
<1>4. \A c \in DOMAIN clusters' : c \in Int
  <2>1. IsTable(clusters')
    BY SummariseSound DEF ClusterInv, KnowledgeInv, WorkSound
  <2>2. QED
    BY <2>1, TableLength
<1>5. PlacedOnce'
  <2>1. ASSUME NEW c \in DOMAIN clusters', NEW d \in DOMAIN clusters', c # d
        PROVE  clusters'[c].members \cap clusters'[d].members = {}
    <3>1. c + 1 # d + 1
      BY <1>4, <2>1
    <3>2. QED
      BY <1>2, <3>1 DEF ClusterInv, WindowInv, PlacedOnce
  <2>2. QED
    BY <1>1, <2>1 DEF PlacedOnce
<1>6. QED
  BY <1>1, <1>3, <1>5 DEF WindowInv

LEMMA WriteKeepsWindow ==
    ASSUME ClusterInv, WriteEpisode \/ ReadPage
    PROVE  DataInv' /\ WindowInv'
<1>1. PICK s \in 0 .. Full, v \in Vectors : Insert(s, v)
  BY KnowledgeAssumption DEF WriteEpisode, ReadPage
<1>2. at = "awake" /\ UNCHANGED <<at, clock, clusters>>
  BY DEF WriteEpisode, ReadPage, Awake
<1>3. clusters = <<>> /\ DOMAIN clusters = {}
  BY <1>2, EmptyTable DEF ClusterInv, WindowInv
<1> DEFINE row == [born |-> clock, salience |-> s, vector |-> v]
<1>4. episodes' = Append(episodes, row)
  BY <1>1 DEF Insert
<1>5. clock \in 0 .. MaxClock /\ row \in EpisodeRows /\ row.born <= clock
  BY <1>1, KnowledgeAssumption DEF ClusterInv, DataInv, EpisodeRows
<1> HIDE DEF row
<1>6. /\ Len(episodes) \in Nat /\ Episodes = 1 .. Len(episodes)
      /\ Episodes' = 1 .. Len(episodes) + 1 /\ episodes'[Len(episodes) + 1] = row
      /\ \A i \in Episodes : episodes'[i] = episodes[i]
  BY <1>4, AppendTable DEF ClusterInv, KnowledgeInv, WorkSound, Episodes
<1>7. ASSUME NEW i \in Episodes'
      PROVE  episodes'[i] \in EpisodeRows /\ episodes'[i].born <= clock
  <2>1. CASE i = Len(episodes) + 1
    BY <1>5, <1>6, <2>1
  <2>2. CASE i # Len(episodes) + 1
    <3>1. i \in Episodes
      BY <1>6, <2>2
    <3>2. QED
      BY <1>6, <3>1 DEF ClusterInv, DataInv
  <2>3. QED
    BY <2>1, <2>2
<1>8. DataInv'
  BY <1>2, <1>3, <1>5, <1>7 DEF DataInv
<1>9. QED
  BY <1>2, <1>3, <1>8 DEF WindowInv, PlacedOnce

-----------------------------------------------------------------------------
(***************************************************************************)
(* Fading.                                                                 *)
(***************************************************************************)
\* A set that holds 0 and with every number the next is all of 0 .. n.
LEMMA UpToAll ==
    ASSUME NEW n \in Nat, NEW G, 0 \in G, \A k \in 1 .. n : k - 1 \in G => k \in G
    PROVE  \A k \in 0 .. n : k \in G
<1> DEFINE Bad == {k \in 0 .. n : k \notin G}
<1>1. SUFFICES ASSUME Bad # {} PROVE FALSE
  OBVIOUS
<1>2. PICK k \in Bad : \A j \in Bad : k <= j
  <2>1. Bad \subseteq Nat
    OBVIOUS
  <2> HIDE DEF Bad
  <2>2. QED
    BY <1>1, <2>1, Least
<1>3. k \in 1 .. n /\ k \notin G /\ k - 1 \in 0 .. n
  OBVIOUS
<1>4. k - 1 \notin Bad
  <2>1. ~ (k <= k - 1)
    BY <1>3
  <2> HIDE DEF Bad
  <2>2. QED
    BY <1>2, <2>1
<1>5. QED
  BY <1>3, <1>4

\* The recursion has a solution, and any solution is positive.
LEMMA PowerPositive ==
    ASSUME NEW n \in 0 .. MaxClock
    PROVE  PowerOfTwo[n] \in Nat \ {0}
<1> DEFINE Fs(k) == {f \in [0 .. k -> Nat \ {0}] : f[0] = 1 /\ \A i \in 1 .. k : f[i] = 2 * f[i - 1]}
           G == {k \in 0 .. MaxClock : Fs(k) # {}}
           Rec(f) == f = [i \in 0 .. MaxClock |-> IF i = 0 THEN 1 ELSE 2 * f[i - 1]]
           P == CHOOSE f : Rec(f)
<1>1. MaxClock \in Nat
  BY KnowledgeAssumption
<1>2. 0 \in G
  <2>1. [i \in 0 .. 0 |-> 1] \in Fs(0)
    OBVIOUS
  <2>2. 0 \in 0 .. MaxClock
    BY <1>1
  <2>3. QED
    BY <2>1, <2>2
<1>3. ASSUME NEW k \in 1 .. MaxClock, k - 1 \in G PROVE k \in G
  <2>1. PICK f : f \in Fs(k - 1)
    BY <1>3
  <2> DEFINE h == [i \in 0 .. k |-> IF i = k THEN 2 * f[k - 1] ELSE f[i]]
  <2>2. k \in Nat \ {0} /\ k - 1 \in 0 .. k - 1 /\ 0 \in 0 .. k - 1
    BY <1>1
  <2>3. /\ f \in [0 .. k - 1 -> Nat \ {0}] /\ f[0] = 1
        /\ \A i \in 1 .. k - 1 : f[i] = 2 * f[i - 1]
    BY <2>1
  <2>4. f[k - 1] \in Nat \ {0} /\ 2 * f[k - 1] \in Nat \ {0}
    BY <2>2, <2>3
  <2>5. h[k] = 2 * f[k - 1] /\ \A i \in 0 .. k - 1 : h[i] = f[i]
    BY <2>2
  <2>6. h \in [0 .. k -> Nat \ {0}]
    BY <2>2, <2>3, <2>4
  <2> HIDE DEF h
  <2>7. ASSUME NEW i \in 1 .. k PROVE h[i] = 2 * h[i - 1]
    <3>1. i - 1 \in 0 .. k - 1 /\ h[i - 1] = f[i - 1]
      BY <2>2, <2>5
    <3>2. CASE i = k
      BY <2>5, <3>1, <3>2
    <3>3. CASE i # k
      <4>1. i \in 1 .. k - 1 /\ i \in 0 .. k - 1
        BY <2>2, <3>3
      <4>2. QED
        BY <2>3, <2>5, <3>1, <4>1
    <3>4. QED
      BY <3>2, <3>3
  <2>8. h \in Fs(k)
    BY <2>2, <2>3, <2>5, <2>6, <2>7
  <2>9. k \in 0 .. MaxClock
    BY <1>1
  <2> HIDE DEF Fs
  <2>10. QED
    BY <2>8, <2>9
<1>4. MaxClock \in G
  <2>1. MaxClock \in 0 .. MaxClock
    BY <1>1
  <2> HIDE DEF G
  <2>2. QED
    BY <1>1, <1>2, <1>3, <2>1, UpToAll
<1>5. PICK f : f \in Fs(MaxClock)
  BY <1>4
<1>6. Rec(f)
  BY <1>1, <1>5
<1>7. Rec(P)
  <2> HIDE DEF Rec
  <2>1. QED
    BY <1>6
<1>8. PowerOfTwo = P
  BY DEF PowerOfTwo
<1> DEFINE H == {k \in 0 .. MaxClock : P[k] \in Nat \ {0}}
<1> HIDE DEF P
<1>9. P[0] = 1 /\ \A k \in 1 .. MaxClock : P[k] = 2 * P[k - 1]
  <2>1. 0 \in 0 .. MaxClock /\ \A k \in 1 .. MaxClock : k \in 0 .. MaxClock /\ k # 0
    BY <1>1
  <2>2. QED
    BY <1>7, <2>1
<1>10. 0 \in H
  BY <1>1, <1>9
<1>11. ASSUME NEW k \in 1 .. MaxClock, k - 1 \in H PROVE k \in H
  <2>1. P[k - 1] \in Nat \ {0} /\ k \in 0 .. MaxClock /\ P[k] = 2 * P[k - 1]
    BY <1>1, <1>9, <1>11
  <2>2. P[k] \in Nat \ {0}
    BY <2>1
  <2>3. QED
    BY <2>1, <2>2
<1>12. n \in H
  <2> HIDE DEF H
  <2>1. QED
    BY <1>1, <1>10, <1>11, UpToAll
<1>13. QED
  BY <1>8, <1>12

\* Halving keeps a number on its side of 0 and brings it no further from it.
LEMMA Halved ==
    ASSUME NEW x \in Int, NEW p \in Nat \ {0}
    PROVE  /\ x \div p \in Int
           /\ x >= 0 => x \div p >= 0 /\ x \div p <= x
           /\ x < 0 => x \div p >= x /\ x \div p < 0
OBVIOUS

\* Whatever the age: no salience fades below the floor, or below itself where it
\* started there, and none rises above 1.0.
LEMMA FadesToFloor ==
    ASSUME NEW e \in EpisodeRows, clock \in 0 .. MaxClock, e.born <= clock, NEW charged \in BOOLEAN
    PROVE  /\ Rescored(e, charged) \in 0 .. Full
           /\ Rescored(e, charged) >= Lesser(Floor, e.salience)
<1> DEFINE x == e.salience - Floor
           p == PowerOfTwo[clock - e.born]
           h == x \div p
           r == Full - (Floor + h)
<1>1. /\ Floor \in Nat /\ Full \in Nat /\ Floor <= Full
      /\ e.salience \in 0 .. Full /\ e.born \in Nat /\ clock \in Nat
  BY KnowledgeAssumption DEF EpisodeRows
<1>2. p \in Nat \ {0} /\ x \in Int
  <2>1. clock - e.born \in 0 .. MaxClock
    BY <1>1, KnowledgeAssumption
  <2>2. QED
    BY <1>1, <2>1, PowerPositive
<1> HIDE DEF p
<1>3. /\ h \in Int
      /\ x >= 0 => h >= 0 /\ h <= x
      /\ x < 0 => h >= x /\ h < 0
  <2> HIDE DEF x
  <2>1. QED
    BY <1>2, Halved
<1>4. Faded(e) = Floor + h
  BY DEF Faded, p
<1> HIDE DEF h
<1>5. Floor + h \in 0 .. Full /\ Floor + h >= Lesser(Floor, e.salience)
  BY <1>1, <1>3 DEF Lesser
<1>6. r \in Nat /\ r <= Full /\ r \div 4 \in Int /\ r \div 4 >= 0 /\ r \div 4 <= r
  BY <1>1, <1>3, <1>5
<1>7. Rescored(e, charged) = IF charged THEN (Floor + h) + (r \div 4) ELSE Floor + h
  BY <1>4 DEF Rescored
<1> DEFINE k == r \div 4
<1>8. k \in Int /\ k >= 0 /\ k <= Full - (Floor + h)
  BY <1>6
<1> HIDE DEF k
<1>9. (Floor + h) + k \in 0 .. Full /\ (Floor + h) + k >= Lesser(Floor, e.salience)
  BY <1>1, <1>3, <1>5, <1>8 DEF Lesser
<1>10. QED
  BY <1>5, <1>7, <1>9 DEF k

\* What the decay does to a row: its salience and nothing else.
LEMMA DecayedRow ==
    ASSUME ClusterInv, DecayEpisodes, NEW i \in Episodes
    PROVE  /\ i \in Episodes' /\ episodes'[i] \in EpisodeRows
           /\ episodes'[i].born = episodes[i].born /\ episodes'[i].vector = episodes[i].vector
           /\ episodes'[i].salience >= Lesser(Floor, episodes[i].salience)
<1> DEFINE e == episodes[i]
           s == Rescored(e, i \in Cited)
<1>1. e \in EpisodeRows /\ e.born <= clock /\ clock \in 0 .. MaxClock
  BY DEF ClusterInv, DataInv
<1>2. s \in 0 .. Full /\ s >= Lesser(Floor, e.salience)
  <2> HIDE DEF e
  <2>1. (i \in Cited) \in BOOLEAN
    OBVIOUS
  <2>2. QED
    BY <1>1, <2>1, FadesToFloor
<1>3. /\ Episodes' = Episodes
      /\ episodes'[i] = IF i <= DecayLimit THEN [e EXCEPT !.salience = s] ELSE e
  BY DEF DecayEpisodes, Episodes
<1> HIDE DEF e, s
<1>4. e.salience >= Lesser(Floor, e.salience)
  BY <1>1, KnowledgeAssumption DEF Lesser, EpisodeRows
<1>5. CASE i <= DecayLimit
  BY <1>1, <1>2, <1>3, <1>5 DEF EpisodeRows, e
<1>6. CASE ~ (i <= DecayLimit)
  BY <1>1, <1>3, <1>4, <1>6 DEF e
<1>7. QED
  BY <1>5, <1>6

LEMMA DecayKeepsWindow ==
    ASSUME ClusterInv, DecayAndMerge
    PROVE  DataInv' /\ WindowInv'
<1>1. at = "decay" /\ at' = "merged" /\ DecayEpisodes /\ UNCHANGED <<clock, unplaced, clusters>>
  BY DEF DecayAndMerge
<1>2. clusters = <<>> /\ DOMAIN clusters = {}
  BY <1>1, EmptyTable DEF ClusterInv, WindowInv
<1>3. Episodes' = Episodes
  BY <1>1 DEF DecayEpisodes, Episodes
<1>4. DataInv'
  BY <1>1, <1>2, <1>3, DecayedRow DEF ClusterInv, DataInv
<1>5. QED
  BY <1>1, <1>2, <1>4 DEF WindowInv, PlacedOnce

\* The steps that leave the episodes alone and the clusters too, or clear them.
LEMMA QuietKeepsWindow ==
    ASSUME ClusterInv,
           \/ RememberPage \/ ForgetPage \/ Link \/ TimePasses \/ Clustered \/ EndConsolidation
           \/ DecayFails \/ Wake \/ Crash \/ UNCHANGED vars
    PROVE  DataInv' /\ WindowInv'
<1>1. UNCHANGED episodes /\ Episodes' = Episodes /\ Recent' = Recent
  <2>1. UNCHANGED episodes
    BY DEF RememberPage, ForgetPage, Link, TimePasses, Clustered, EndConsolidation, DecayFails,
       Wake, Crash, vars
  <2>2. QED
    BY <2>1, SameWindow DEF Episodes
<1>2. clock' \in 0 .. MaxClock /\ clock \in Nat /\ clock <= clock'
  BY KnowledgeAssumption
     DEF RememberPage, ForgetPage, Link, TimePasses, Clustered, EndConsolidation, DecayFails,
         Wake, Crash, vars, ClusterInv, DataInv
<1>3. UNCHANGED clusters \/ clusters' = <<>>
  BY DEF RememberPage, ForgetPage, Link, TimePasses, Clustered, EndConsolidation, DecayFails,
     Wake, Crash, vars
<1>4. \A c \in DOMAIN clusters' : c \in DOMAIN clusters /\ clusters'[c] = clusters[c]
  BY <1>3, EmptyTable
<1>5. DataInv'
  <2>1. \A i \in Episodes' : episodes'[i] \in EpisodeRows /\ episodes'[i].born <= clock'
    BY <1>1, <1>2 DEF ClusterInv, DataInv, EpisodeRows
  <2>2. QED
    BY <1>2, <1>4, <2>1 DEF ClusterInv, DataInv
<1>6. \/ /\ at' = at \/ (at \notin {"cluster", "summarise"} /\ at' \notin {"cluster", "summarise"})
         /\ UNCHANGED <<unplaced, clusters>>
      \/ at' = "summarise" /\ at = "cluster" /\ UNCHANGED <<unplaced, clusters>>
      \/ at' \notin {"cluster", "summarise"} /\ clusters' = <<>>
  BY DEF RememberPage, ForgetPage, Link, TimePasses, Clustered, EndConsolidation, DecayFails,
     Wake, Crash, vars, Awake, ClusterInv, KnowledgeInv, WorkSound
<1>7. PlacedOnce'
  <2>1. \A c, d \in DOMAIN clusters' : c # d => clusters'[c].members \cap clusters'[d].members = {}
    BY <1>4 DEF ClusterInv, WindowInv, PlacedOnce
  <2>2. at' = "cluster" => at = "cluster" /\ UNCHANGED <<unplaced, clusters>>
    BY <1>6
  <2>3. at' = "cluster" =>
          UNION {clusters'[c].members : c \in DOMAIN clusters'}
             = {Recent'[i] : i \in 1 .. Len(Recent') - Len(unplaced')}
    BY <1>1, <2>2 DEF ClusterInv, WindowInv, PlacedOnce
  <2>4. QED
    BY <2>1, <2>3 DEF PlacedOnce
<1>8. QED
  BY <1>1, <1>5, <1>6, <1>7 DEF ClusterInv, WindowInv

LEMMA InitClusterInv == Init => ClusterInv
<1> SUFFICES ASSUME Init PROVE ClusterInv
  OBVIOUS
<1>1. DOMAIN clusters = {} /\ Episodes = {} /\ at = "awake" /\ clusters = <<>> /\ clock = 0
  BY EmptyTable DEF Init, Episodes
<1>2. DataInv
  BY <1>1, KnowledgeAssumption DEF DataInv
<1>3. WindowInv
  BY <1>1 DEF WindowInv, PlacedOnce
<1>4. QED
  BY <1>2, <1>3, InitSound DEF ClusterInv

\* Every step.
LEMMA NextClusterInv == ClusterInv /\ [Next]_vars => ClusterInv'
<1> SUFFICES ASSUME ClusterInv, [Next]_vars
             PROVE  ClusterInv'
  OBVIOUS
<1>1. KnowledgeInv'
  BY StepSound DEF ClusterInv
<1>2. CASE WriteEpisode \/ ReadPage
  BY <1>1, <1>2, WriteKeepsWindow DEF ClusterInv
<1>3. CASE FallAsleep
  BY <1>1, <1>3, FallAsleepKeepsWindow DEF ClusterInv
<1>4. CASE Place
  BY <1>1, <1>4, PlaceKeepsWindow DEF ClusterInv
<1>5. CASE Summarise
  BY <1>1, <1>5, SummariseKeepsWindow DEF ClusterInv
<1>6. CASE DecayAndMerge
  BY <1>1, <1>6, DecayKeepsWindow DEF ClusterInv
<1>7. CASE \/ RememberPage \/ ForgetPage \/ Link \/ TimePasses \/ Clustered \/ EndConsolidation
           \/ DecayFails \/ Wake \/ Crash \/ UNCHANGED vars
  BY <1>1, <1>7, QuietKeepsWindow DEF ClusterInv
<1>8. QED
  BY <1>2, <1>3, <1>4, <1>5, <1>6, <1>7 DEF Next

LEMMA ClusterInvariance == Spec => []ClusterInv
BY InitClusterInv, NextClusterInv, PTL DEF Spec

\* A step that is not a turn of the loop opens no cluster.
LEMMA OnlyPlaceOpens ==
    ASSUME ClusterInv, [Next]_vars
    PROVE  CapHolds
<1>1. CASE Place
  BY <1>1, PlaceKeepsWindow
<1>2. CASE ~Place
  <2>1. Len(clusters) \in Nat
    BY TableLength DEF ClusterInv, KnowledgeInv, WorkSound
  <2>2. Len(<<>>) = 0
    BY EmptyTable, TableLength
  <2>3. UNCHANGED clusters \/ clusters' = <<>> \/ (clusters # <<>> /\ clusters' = Tail(clusters))
    BY <1>2 DEF Next, WriteEpisode, ReadPage, RememberPage, ForgetPage, Link, TimePasses,
       FallAsleep, Clustered, Summarise, EndConsolidation, DecayAndMerge, DecayFails, Wake,
       Crash, vars
  <2>4. ASSUME clusters # <<>> PROVE Len(Tail(clusters)) = Len(clusters) - 1
    <3>1. PICK n \in Nat : clusters = [i \in 1 .. n |-> clusters[i]]
      BY DEF ClusterInv, KnowledgeInv, WorkSound, IsTable
    <3> DEFINE T == {clusters[i] : i \in 1 .. n}
    <3>2. clusters \in Seq(T)
      BY <3>1, TableIsSeq
    <3> HIDE DEF T
    <3>3. QED
      BY <2>4, <3>2, HeadTailProperties
  <2>5. Len(clusters') <= Len(clusters)
    BY <2>1, <2>2, <2>3, <2>4
  <2>6. ~ (Len(clusters') > Len(clusters))
    <3> DEFINE a == Len(clusters')
               b == Len(clusters)
    <3>1. a \in Int /\ b \in Int
      BY <2>1, <2>2, <2>3, <2>4
    <3>2. a <= b
      BY <2>5
    <3> HIDE DEF a, b
    <3>3. ~ (a > b)
      BY <3>1, <3>2
    <3>4. QED
      BY <3>3 DEF a, b
  <2>7. QED
    BY <2>6 DEF CapHolds
<1>3. QED
  BY <1>1, <1>2

\* Every episode of the window goes into exactly one cluster, and past the cap a
\* cluster is opened only for an episode that points exactly away from every
\* centroid there is: whatever the embeddings are, one centroid is always the
\* first of the greatest, and its cosine is -1 only if that of all the others is
\* (cluster_episodes, _nearest_cluster).
THEOREM ClustersHoldTheWindow == Spec => ClusteringIsSound
<1>1. ClusterInv' => PlacedOnce'
  BY DEF ClusterInv, WindowInv
<1>2. ClusterInv /\ [Next]_vars => CapHolds
  BY OnlyPlaceOpens
<1>3. ClusterInv /\ ClusterInv' /\ [Next]_vars => [PlacedOnce' /\ CapHolds]_vars
  BY <1>1, <1>2
<1>4. QED
  BY <1>3, ClusterInvariance, PTL DEF Spec, ClusteringIsSound

\* Whatever happens a row of the episode table keeps its time and its embedding,
\* and decay takes its salience no lower than the floor, or than it already was
\* (EpisodeRepository.save, adjusted_salience, MemoryDecay.run).
THEOREM AutobiographyHolds == Spec => AutobiographySurvives
<1> DEFINE Kept ==
      \A i \in Episodes :
         /\ i \in Episodes'
         /\ episodes'[i].born = episodes[i].born /\ episodes'[i].vector = episodes[i].vector
         /\ episodes'[i].salience >= Lesser(Floor, episodes[i].salience)
<1>1. ClusterInv /\ Next => Kept
  <2> SUFFICES ASSUME ClusterInv, Next
               PROVE  Kept
    OBVIOUS
  <2>1. \A i \in Episodes : episodes[i].salience >= Lesser(Floor, episodes[i].salience)
    BY KnowledgeAssumption DEF ClusterInv, DataInv, EpisodeRows, Lesser
  <2>2. CASE DecayAndMerge
    BY <2>2, DecayedRow DEF DecayAndMerge
  <2>3. CASE WriteEpisode \/ ReadPage
    <3>1. PICK s, v : Insert(s, v)
      BY <2>3 DEF WriteEpisode, ReadPage
    <3> DEFINE row == [born |-> clock, salience |-> s, vector |-> v]
    <3>2. episodes' = Append(episodes, row)
      BY <3>1 DEF Insert
    <3> HIDE DEF row
    <3>3. \A i \in Episodes : i \in Episodes' /\ episodes'[i] = episodes[i]
      <4>1. /\ Len(episodes) \in Nat /\ DOMAIN episodes = 1 .. Len(episodes)
            /\ DOMAIN episodes' = 1 .. Len(episodes) + 1
            /\ \A i \in DOMAIN episodes : episodes'[i] = episodes[i]
        BY <3>2, AppendTable DEF ClusterInv, KnowledgeInv, WorkSound
      <4>2. QED
        BY <4>1 DEF Episodes
    <3>4. QED
      BY <2>1, <3>3
  <2>4. CASE ~DecayAndMerge /\ ~WriteEpisode /\ ~ReadPage
    <3>1. UNCHANGED episodes
      BY <2>4 DEF Next, RememberPage, ForgetPage, Link, TimePasses, FallAsleep, Place,
         Clustered, Summarise, EndConsolidation, DecayFails, Wake, Crash
    <3>2. QED
      BY <2>1, <3>1 DEF Episodes
  <2>5. QED
    BY <2>2, <2>3, <2>4
<1>2. ClusterInv /\ [Next]_vars => [Kept]_vars
  BY <1>1
<1>3. QED
  BY <1>2, ClusterInvariance, PTL DEF Spec, AutobiographySurvives
=============================================================================
