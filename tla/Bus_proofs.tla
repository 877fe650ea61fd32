----------------------------- MODULE Bus_proofs -----------------------------
(***************************************************************************)
(* Proofs about the bus, for every set of agents, types and clients, every *)
(* subscription, emission and backfill, any cap on hops and any number of  *)
(* broadcasts: no reflex chain outgrows the cap, and no client is taken    *)
(* back in time.                                                           *)
(***************************************************************************)
EXTENDS Bus, SequenceTheorems, WellFoundedInduction, TLAPS

----------------------------------------------------------------------------
(* The operator Among.  In place of an induction over the length, the      *)
(* shortest prefix that would refute the claim.                            *)

LEMMA Least ==
  ASSUME NEW T, T \subseteq Nat, T # {}
  PROVE  \E m \in T : \A n \in T : m <= n
<1> DEFINE R == {r \in Nat \X Nat : r[1] < r[2]}
<1>1. IsWellFoundedOn(R, Nat)
  <2>1. R = OpToRel(<, Nat)
    BY DEF OpToRel
  <2> QED BY <2>1, NatLessThanWellFounded
<1>2. PICK m \in T : \A n \in T : ~ (<<n, m>> \in R)
  <2> HIDE DEF R
  <2> QED BY <1>1, WFMin
<1>3. ASSUME NEW n \in T PROVE m <= n
  <2>1. n \in Nat /\ m \in Nat /\ ~ (<<n, m>> \in R)
    BY <1>2
  <2>2. ~ (n < m)
    BY <2>1
  <2> QED BY <2>1, <2>2
<1> QED BY <1>3

LEMMA SeqWidens ==
  ASSUME NEW S, NEW T, S \subseteq T, NEW s \in Seq(S)
  PROVE  s \in Seq(T)
<1>1. s \in [1..Len(s) -> S] /\ Len(s) \in Nat
  OBVIOUS
<1>2. s \in [1..Len(s) -> T]
  BY <1>1
<1> QED BY <1>1, <1>2

\* A set that holds 0 and with every number the next is all of 0..n.
LEMMA UpToAll ==
  ASSUME NEW n \in Nat, NEW G, 0 \in G, \A k \in 1..n : k - 1 \in G => k \in G
  PROVE  \A k \in 0..n : k \in G
<1> DEFINE Bad == {k \in 0..n : k \notin G}
<1>1. SUFFICES ASSUME Bad # {} PROVE FALSE
  OBVIOUS
<1>2. PICK k \in Bad : \A j \in Bad : k <= j
  <2>1. Bad \subseteq Nat
    OBVIOUS
  <2> HIDE DEF Bad
  <2> QED BY <1>1, <2>1, Least
<1>3. k \in 1..n /\ k \notin G /\ k - 1 \in 0..n
  OBVIOUS
<1>4. k - 1 \notin Bad
  <2>1. ~ (k <= k - 1)
    BY <1>3
  <2> HIDE DEF Bad
  <2> QED BY <1>2, <2>1
<1> QED BY <1>3, <1>4

\* One prefix more of the recursion.
More(f, s, S, n) == IF s[n] \in S THEN Append(f[n - 1], s[n]) ELSE f[n - 1]

Unfolds(f, s, S, k) == f[0] = <<>> /\ \A n \in 1..k : f[n] = More(f, s, S, n)

LEMMA AmongUnfolds ==
  ASSUME NEW A, NEW S, NEW s \in Seq(A)
  PROVE  \E f \in [0..Len(s) -> Seq(A \cap S)] :
             Unfolds(f, s, S, Len(s)) /\ Among(s, S) = f[Len(s)]
<1> DEFINE N == Len(s)
           B == A \cap S
           Fs(k) == {f \in [0..k -> Seq(B)] : Unfolds(f, s, S, k)}
           G == {k \in 0..N : Fs(k) # {}}
<1>1. N \in Nat /\ \A n \in 1..N : s[n] \in A
  OBVIOUS
<1>2. 0 \in G
  <2>1. <<>> \in Seq(B)
    OBVIOUS
  <2>2. [n \in 0..0 |-> <<>>] \in [0..0 -> Seq(B)]
    BY <2>1
  <2>3. Unfolds([n \in 0..0 |-> <<>>], s, S, 0)
    BY DEF Unfolds
  <2>4. Fs(0) # {}
    BY <2>2, <2>3
  <2>5. 0 \in 0..N
    BY <1>1
  <2> HIDE DEF N, Fs
  <2> QED BY <2>4, <2>5
<1>3. ASSUME NEW k \in 1..N, k - 1 \in G PROVE k \in G
  <2> HIDE DEF N, B
  <2>1. PICK f \in [0..k - 1 -> Seq(B)] : Unfolds(f, s, S, k - 1)
    BY <1>3
  <2> DEFINE g == [n \in 0..k |-> IF n = k THEN More(f, s, S, k) ELSE f[n]]
  <2>2. k \in Nat /\ k - 1 \in 0..k - 1 /\ 0 \in 0..k - 1
    BY <1>1
  <2>3. f[k - 1] \in Seq(B) /\ (s[k] \in S => s[k] \in B)
    BY <1>1, <2>1, <2>2 DEF B
  <2>4. More(f, s, S, k) \in Seq(B)
    BY <2>3 DEF More
  <2>5. \A n \in 0..k : n # k => n \in 0..k - 1
    BY <2>2
  <2>6. g \in [0..k -> Seq(B)]
    BY <2>1, <2>4, <2>5
  <2>7. g[0] = <<>>
    BY <2>1, <2>2 DEF Unfolds
  <2>8. ASSUME NEW n \in 1..k PROVE g[n] = More(g, s, S, n)
    <3>1. n - 1 \in 0..k - 1 /\ n - 1 # k /\ n - 1 \in 0..k /\ n \in 0..k
      BY <2>2
    <3>2. g[n - 1] = f[n - 1]
      BY <3>1
    <3>3. g[n] = More(f, s, S, n)
      <4>1. CASE n = k
        BY <3>1, <4>1
      <4>2. CASE n # k
        <5>1. n \in 1..k - 1
          BY <2>2, <4>2
        <5> QED BY <2>1, <3>1, <4>2, <5>1 DEF Unfolds
      <4> QED BY <4>1, <4>2
    <3> HIDE DEF g
    <3> QED BY <3>2, <3>3 DEF More
  <2>9. Unfolds(g, s, S, k)
    <3> HIDE DEF g
    <3> QED BY <2>7, <2>8 DEF Unfolds
  <2>10. k \in 0..N
    BY <1>1
  <2> HIDE DEF g
  <2> QED BY <2>6, <2>9, <2>10
<1>4. N \in G
  <2> HIDE DEF N, G
  <2>1. N \in 0..N
    BY <1>1
  <2> QED BY <1>1, <1>2, <1>3, <2>1, UpToAll
<1>5. PICK f \in [0..N -> Seq(B)] : Unfolds(f, s, S, N)
  BY <1>4
<1> DEFINE Rec(h) == h = [n \in 0..Len(s) |-> IF n = 0 THEN <<>>
                             ELSE IF s[n] \in S THEN Append(h[n - 1], s[n]) ELSE h[n - 1]]
           U == CHOOSE h : Rec(h)
<1>6. Rec(f)
  <2>1. \A n \in 0..N : n # 0 => n \in 1..N
    BY <1>1
  <2> QED BY <1>5, <2>1 DEF Unfolds, More
<1>7. Rec(U)
  <2> HIDE DEF Rec
  <2> QED BY <1>6
<1>8. Among(s, S) = U[N]
  BY DEF Among
<1>9. U[0] = <<>> /\ \A n \in 1..N : U[n] = More(U, s, S, n)
  <2>1. 0 \in 0..N /\ 1..N \subseteq 0..N /\ \A n \in 1..N : n # 0
    BY <1>1
  <2> HIDE DEF U
  <2> QED BY <1>7, <2>1 DEF More
<1> DEFINE E == {i \in 0..N : U[i] = f[i]}
<1>10. \A n \in 0..N : n \in E
  <2> HIDE DEF U
  <2>1. 0 \in E
    BY <1>1, <1>5, <1>9 DEF Unfolds
  <2>2. ASSUME NEW k \in 1..N, k - 1 \in E PROVE k \in E
    <3>1. k \in 0..N /\ U[k - 1] = f[k - 1]
      BY <1>1, <2>2
    <3> QED BY <1>5, <1>9, <3>1 DEF Unfolds, More
  <2> HIDE DEF E, N
  <2> QED BY <1>1, <2>1, <2>2, UpToAll
<1>11. U[N] = f[N]
  <2>1. N \in 0..N
    BY <1>1
  <2> HIDE DEF U, N
  <2> QED BY <1>10, <2>1
<1> QED BY <1>5, <1>8, <1>11

LEMMA AmongType ==
  ASSUME NEW A, NEW S, NEW s \in Seq(A)
  PROVE  Among(s, S) \in Seq(A \cap S)
<1>1. Len(s) \in 0..Len(s)
  OBVIOUS
<1> QED BY <1>1, AmongUnfolds

\* From the newest row to the oldest, some are left out: newest first still.
Falls(s) == \A i, j \in DOMAIN s : i < j => s[i] > s[j]

LEMMA NewestFirst ==
  ASSUME NEW n \in Nat, NEW S
  PROVE  LET s == Among(Reverse([i \in 1..n |-> i]), S) IN s \in Seq((1..n) \cap S) /\ Falls(s)
<1> DEFINE r == Reverse([i \in 1..n |-> i])
           B == (1..n) \cap S
<1>1. r \in Seq(1..n) /\ Len(r) = n /\ \A i \in 1..n : r[i] = n - i + 1
  <2>1. r = [i \in 1..n |-> n - i + 1]
    BY DEF Reverse
  <2>2. [i \in 1..n |-> n - i + 1] \in [1..n -> 1..n]
    OBVIOUS
  <2> HIDE DEF r
  <2> QED BY <2>1, <2>2
<1>2. PICK f \in [0..n -> Seq(B)] : Unfolds(f, r, S, n) /\ Among(r, S) = f[n]
  <2> HIDE DEF r
  <2>1. \E f \in [0..Len(r) -> Seq((1..n) \cap S)] :
            Unfolds(f, r, S, Len(r)) /\ Among(r, S) = f[Len(r)]
    BY <1>1, AmongUnfolds
  <2> QED BY <1>1, <2>1
<1> HIDE DEF r
<1> DEFINE Sorted(k) == Falls(f[k]) /\ \A i \in DOMAIN f[k] : f[k][i] > n - k
           G == {k \in 0..n : Sorted(k)}
<1>3. 0 \in G
  <2>1. f[0] = <<>> /\ DOMAIN <<>> = {}
    BY <1>2 DEF Unfolds
  <2> QED BY <2>1 DEF Falls
<1>4. ASSUME NEW k \in 1..n, k - 1 \in G PROVE k \in G
  <2>1. /\ k \in 0..n /\ k - 1 \in 0..n /\ Sorted(k - 1) /\ f[k - 1] \in Seq(B)
        /\ r[k] = n - k + 1
    <3>1. k \in 0..n /\ k - 1 \in 0..n /\ r[k] = n - k + 1
      BY <1>1
    <3> QED BY <1>2, <1>4, <3>1
  <2>2. f[k] = IF r[k] \in S THEN Append(f[k - 1], r[k]) ELSE f[k - 1]
    BY <1>2 DEF Unfolds, More
  <2> DEFINE p == f[k - 1]
  <2>3. /\ p \in Seq(Int) /\ Len(p) \in Nat /\ DOMAIN p = 1..Len(p) /\ Falls(p)
        /\ \A i \in 1..Len(p) : p[i] \in Int /\ p[i] > n - k + 1
    <3>1. p \in [1..Len(p) -> B] /\ Len(p) \in Nat /\ B \subseteq Int
      BY <2>1
    <3>2. p \in [1..Len(p) -> Int]
      BY <3>1
    <3>3. \A i \in DOMAIN p : p[i] > n - k + 1
      <4>1. n - (k - 1) = n - k + 1
        OBVIOUS
      <4> QED BY <2>1, <4>1
    <3>4. Falls(p)
      BY <2>1
    <3>5. DOMAIN p = 1..Len(p) /\ p \in Seq(Int) /\ \A i \in 1..Len(p) : p[i] \in Int
      <4> HIDE DEF p, B
      <4>1. DOMAIN p = 1..Len(p) /\ \A i \in 1..Len(p) : p[i] \in Int
        BY <3>2
      <4>2. p \in Seq(Int)
        <5>1. B \subseteq Int /\ p \in Seq(B)
          BY <2>1, <3>1 DEF p
        <5> QED BY <5>1, SeqWidens
      <4> QED BY <4>1, <4>2
    <3> HIDE DEF p
    <3> QED BY <3>1, <3>3, <3>4, <3>5
  <2>4. CASE r[k] \notin S
    <3>1. f[k] = p
      BY <2>2, <2>4
    <3>2. \A i \in DOMAIN p : p[i] > n - k
      BY <2>3
    <3> HIDE DEF p
    <3> QED BY <2>1, <2>3, <3>1, <3>2
  <2>5. CASE r[k] \in S
    <3> DEFINE q == Append(p, n - k + 1)
    <3>1. f[k] = q
      BY <2>1, <2>2, <2>5
    <3>2. /\ DOMAIN q = 1..Len(p) + 1 /\ q[Len(p) + 1] = n - k + 1
          /\ \A i \in 1..Len(p) : q[i] = p[i]
      <4> HIDE DEF p
      <4> QED BY <2>3
    <3>3. \A i \in DOMAIN q : q[i] > n - k /\ (i # Len(p) + 1 => i \in 1..Len(p))
      <4> HIDE DEF p, q
      <4> QED BY <2>3, <3>2
    <3>4. Falls(q)
      <4>1. SUFFICES ASSUME NEW i \in DOMAIN q, NEW j \in DOMAIN q, i < j PROVE q[i] > q[j]
        BY DEF Falls
      <4> HIDE DEF p, q
      <4>2. i \in 1..Len(p)
        BY <2>3, <3>2, <4>1
      <4>3. CASE j = Len(p) + 1
        BY <2>3, <3>2, <4>2, <4>3
      <4>4. CASE j # Len(p) + 1
        <5>1. j \in 1..Len(p)
          BY <3>3, <4>4
        <5> QED BY <2>3, <3>2, <4>1, <4>2, <5>1 DEF Falls
      <4> QED BY <4>3, <4>4
    <3> HIDE DEF p, q
    <3> QED BY <2>1, <3>1, <3>3, <3>4
  <2> QED BY <2>4, <2>5
<1>5. n \in G
  <2> HIDE DEF G
  <2>1. n \in 0..n
    OBVIOUS
  <2> QED BY <1>3, <1>4, <2>1, UpToAll
<1>6. Among(r, S) \in Seq(B) /\ Falls(Among(r, S))
  <2>1. f[n] \in Seq(B)
    OBVIOUS
  <2> QED BY <1>2, <1>5, <2>1
<1> QED BY <1>6 DEF r

----------------------------------------------------------------------------
(* Hop chains.                                                             *)

\* Whatever waits anywhere on its way to dispatch names a logged row.
PlacesInv ==
    /\ log \in Seq(Rows)
    /\ flight \in [Publishers -> 0..Len(log)]
    /\ inbox \in Seq(1..Len(log))
    /\ event \in 0..Len(log)
    /\ emitted \in Seq(Types)

\* The message's counter tells the truth, and what a handler returned is kept
\* only below the cap.
ChainInv ==
    /\ ChainsAreShort
    /\ \A i \in 1..Len(log) : log[i].hops = log[i].depth
    /\ emitted # <<>> => event # 0 /\ log[event].hops < MaxHops

BusInv == PlacesInv /\ ChainInv

\* A step that leaves the log alone: what is left to show is about the places.
LEMMA SameLog ==
  ASSUME BusInv, UNCHANGED log,
         flight' = flight \/ \E p \in Publishers : flight' = [flight EXCEPT ![p] = 0],
         inbox' \in Seq(1..Len(log)), event' \in 0..Len(log), emitted' \in Seq(Types),
         emitted' # <<>> => event' # 0 /\ log[event'].hops < MaxHops
  PROVE  BusInv'
<1> USE DEF BusInv, PlacesInv
<1>1. Len(log) \in Nat /\ log' = log
  OBVIOUS
<1>2. flight' \in [Publishers -> 0..Len(log)]
  <2>1. CASE flight' = flight
    BY <1>1, <2>1
  <2>2. ASSUME NEW p \in Publishers, flight' = [flight EXCEPT ![p] = 0]
        PROVE  flight' \in [Publishers -> 0..Len(log)]
    <3>1. 0 \in 0..Len(log)
      BY <1>1
    <3> QED BY <2>2, <3>1
  <2> QED BY <2>1, <2>2
<1>3. PlacesInv'
  BY <1>1, <1>2
<1> QED BY <1>1, <1>3 DEF ChainInv, ChainsAreShort

LEMMA InitBusInv == Init => BusInv
<1> SUFFICES ASSUME Init PROVE BusInv
  OBVIOUS
<1>1. log = <<>> /\ Len(log) = 0 /\ inbox = <<>> /\ emitted = <<>> /\ event = 0
  BY DEF Init
<1>2. PlacesInv
  BY <1>1 DEF Init, PlacesInv
<1> QED BY <1>1, <1>2 DEF BusInv, ChainInv, ChainsAreShort

\* A log that grows keeps every id of the pipeline valid.
LEMMA PersistKeeps ==
  ASSUME BusInv, NEW p \in Publishers, NEW t \in Types, NEW h \in Nat,
         h <= MaxHops, Persist(p, t, h, h)
  PROVE  /\ log' \in Seq(Rows) /\ Len(log') = Len(log) + 1
         /\ flight' \in [Publishers -> 0..Len(log')]
         /\ inbox \in Seq(1..Len(log')) /\ event \in 0..Len(log')
         /\ \A i \in 1..Len(log) : log'[i] = log[i]
         /\ \A i \in 1..Len(log') :
               log'[i].hops = log'[i].depth /\ log'[i].depth <= MaxHops
<1> DEFINE row == [type |-> t, by |-> p, hops |-> h, depth |-> h]
<1> USE DEF BusInv, PlacesInv
<1>1. row \in Rows /\ row.hops = h /\ row.depth = h
  BY DEF Rows
<1>2. log' = Append(log, row)
  BY DEF Persist
<1>3. log' \in Seq(Rows) /\ Len(log') = Len(log) + 1 /\ log'[Len(log) + 1] = row
      /\ \A i \in 1..Len(log) : log'[i] = log[i]
  <2> HIDE DEF row
  <2> QED BY <1>1, <1>2
<1>4. flight' \in [Publishers -> 0..Len(log')]
  BY <1>3 DEF Persist
<1>5. inbox \in Seq(1..Len(log'))
  <2>1. Len(log) \in Nat /\ 1..Len(log) \subseteq 1..Len(log')
    BY <1>3
  <2> QED BY <2>1, SeqWidens
<1>6. ASSUME NEW i \in 1..Len(log')
      PROVE  log'[i].hops = log'[i].depth /\ log'[i].depth <= MaxHops
  <2>1. CASE i = Len(log) + 1
    BY <1>1, <1>3, <2>1
  <2>2. CASE i # Len(log) + 1
    <3>1. i \in 1..Len(log)
      BY <1>3, <2>2
    <3> QED BY <1>3, <3>1 DEF ChainInv, ChainsAreShort
  <2> QED BY <2>1, <2>2
<1> QED BY <1>3, <1>4, <1>5, <1>6

LEMMA NextBusInv == BusInv /\ [Next]_vars => BusInv'
<1> SUFFICES ASSUME BusInv, [Next]_vars PROVE BusInv'
  OBVIOUS
<1> USE DEF BusInv, PlacesInv
<1>1. ASSUME NEW t \in Types, MindBroadcasts(t) PROVE BusInv'
  <2>1. Persist("mind", t, 0, 0) /\ UNCHANGED <<inbox, event, emitted>>
    BY <1>1 DEF MindBroadcasts, listening
  <2>2. 0 <= MaxHops /\ "mind" \in Publishers
    BY BusAssumption DEF Publishers
  <2>3. /\ log' \in Seq(Rows) /\ flight' \in [Publishers -> 0..Len(log')]
        /\ inbox \in Seq(1..Len(log')) /\ event \in 0..Len(log')
        /\ \A i \in 1..Len(log) : log'[i] = log[i]
        /\ \A i \in 1..Len(log') :
              log'[i].hops = log'[i].depth /\ log'[i].depth <= MaxHops
    BY <2>1, <2>2, PersistKeeps
  <2>4. PlacesInv'
    BY <2>1, <2>3
  <2>5. emitted' # <<>> => event' # 0 /\ log'[event'].hops < MaxHops
    <3>1. UNCHANGED <<event, emitted>>
      BY <2>1
    <3>2. emitted # <<>> => event \in 1..Len(log) /\ log[event].hops < MaxHops
      BY DEF ChainInv
    <3> QED BY <2>3, <3>1, <3>2
  <2> QED BY <2>3, <2>4, <2>5 DEF ChainInv, ChainsAreShort
<1>2. ASSUME NEW p \in Publishers, Publish(p) PROVE BusInv'
  <2>1. flight[p] \in 1..Len(log) /\ UNCHANGED <<log, event, emitted>>
    BY <1>2 DEF Publish
  <2>2. inbox' = IF listener = "on" THEN Append(inbox, flight[p]) ELSE inbox
    BY <1>2 DEF Publish
  <2>3. inbox' \in Seq(1..Len(log))
    <3>1. Append(inbox, flight[p]) \in Seq(1..Len(log))
      BY <2>1
    <3> QED BY <2>2, <3>1
  <2>4. flight' = [flight EXCEPT ![p] = 0]
    BY <1>2 DEF Publish
  <2> QED BY <2>1, <2>3, <2>4, SameLog DEF ChainInv
<1>3. CASE MindPublishFails
  <2>1. "mind" \in Publishers /\ flight' = [flight EXCEPT !["mind"] = 0]
    BY <1>3 DEF MindPublishFails, Publishers
  <2> QED BY <1>3, <2>1, SameLog DEF MindPublishFails, listening, ChainInv
<1>4. ASSUME NEW a \in Agents, Register(a) \/ Unregister(a) PROVE BusInv'
  BY <1>4 DEF Register, Unregister, listening, ChainInv, ChainsAreShort
<1>5. CASE ListenerSubscribes
  BY <1>5 DEF ListenerSubscribes, ChainInv, ChainsAreShort
<1>6. CASE GetMessage
  <2>1. inbox # <<>> /\ event = 0 /\ emitted = <<>>
    BY <1>6 DEF GetMessage, ChainInv
  <2>2. event' \in 1..Len(log) /\ inbox' \in Seq(1..Len(log))
    BY <1>6, <2>1 DEF GetMessage
  <2> QED BY <1>6, <2>1, <2>2 DEF GetMessage, ChainInv, ChainsAreShort
<1>7. ASSUME NEW out \in Emissions, Handle(out) PROVE BusInv'
  <2>1. event \in 1..Len(log)
    BY <1>7 DEF Handle, Invoke, HandlersTurn
  <2>6. log[event] \in Rows
    BY <2>1
  <2>7. log[event].hops \in Nat
    BY <2>6 DEF Rows
  <2>2. emitted' \in Seq(Types) /\ (emitted' # <<>> => log[event].hops < MaxHops)
    BY <1>7, <2>7, BusAssumption DEF Handle
  <2> QED BY <1>7, <2>1, <2>2, SameLog DEF Handle, Invoke, ChainInv, ChainsAreShort
<1>8. CASE HandlerRaises \/ DispatchEnds
  BY <1>8 DEF HandlerRaises, DispatchEnds, Invoke, HandlersTurn, ChainInv, ChainsAreShort
<1>9. CASE BroadcastEmission
  <2> DEFINE h == log[event].hops + 1
  <2>1. emitted # <<>> /\ event \in 1..Len(log)
    BY <1>9 DEF BroadcastEmission, ChainInv
  <2>6. log[event] \in Rows
    BY <2>1
  <2>7. log[event].hops \in Nat /\ log[event].depth = log[event].hops
    BY <2>1, <2>6 DEF ChainInv, Rows
  <2>8. log[event].hops < MaxHops
    BY <2>1, <1>9 DEF BroadcastEmission, ChainInv
  <2>2. h \in Nat /\ h <= MaxHops /\ log[event].depth + 1 = h
    BY <2>7, <2>8, BusAssumption
  <2>3. Head(emitted) \in Types /\ emitted' \in Seq(Types)
    BY <1>9, <2>1 DEF BroadcastEmission
  <2>4. Persist("bus", Head(emitted), h, h) /\ UNCHANGED <<inbox, event>>
    BY <1>9, <2>2 DEF BroadcastEmission
  <2>5. log'[event] = log[event] /\ "bus" \in Publishers
    BY <2>1, <2>2, <2>3, <2>4, PersistKeeps DEF Publishers
  <2> HIDE DEF h
  <2> QED BY <1>9, <2>1, <2>2, <2>3, <2>4, <2>5, PersistKeeps
          DEF ChainInv, ChainsAreShort
<1>10. CASE ListenerDies
  <2>1. "bus" \in Publishers /\ flight' = [flight EXCEPT !["bus"] = 0]
    BY <1>10 DEF ListenerDies, Publishers
  <2>2. /\ inbox' \in Seq(1..Len(log)) /\ event' \in 0..Len(log)
        /\ emitted' = <<>> /\ emitted' \in Seq(Types)
    BY <1>10 DEF ListenerDies
  <2> QED BY <1>10, <2>1, <2>2, SameLog DEF ListenerDies
<1>11. ASSUME NEW c \in Clients,
              Connect(c) \/ Subscribe(c) \/ Receive(c) \/ Disconnect(c)
       PROVE  BusInv'
  BY <1>11 DEF Connect, Subscribe, Receive, Disconnect, listening, ChainInv, ChainsAreShort
<1>12. CASE Restart
  <2>1. <<>> \in Seq(1..Len(log)) /\ <<>> \in Seq(Types)
    OBVIOUS
  <2> QED BY <1>12, <2>1 DEF Restart, ChainInv, ChainsAreShort
<1>13. CASE UNCHANGED vars
  BY <1>13 DEF vars, listening, ChainInv, ChainsAreShort
<1> QED BY <1>1, <1>2, <1>3, <1>4, <1>5, <1>6, <1>7, <1>8, <1>9, <1>10, <1>11,
           <1>12, <1>13 DEF Next, ListenerStep, Publishers

(* The places of the bus stay typed and the counter truthful.              *)
THEOREM BusInvariant == Spec => []BusInv
<1>1. Init => BusInv
  BY InitBusInv
<1>2. BusInv /\ [Next]_vars => BusInv'
  BY NextBusInv
<1> QED BY <1>1, <1>2, PTL DEF Spec

(* No event is more than MaxHops re-broadcasts away from what the Mind     *)
(* said, whoever is registered and whatever is emitted (dispatch).         *)
THEOREM ChainsStayShort == Spec => []ChainsAreShort
<1>1. BusInv => ChainsAreShort
  BY DEF BusInv, ChainInv
<1> QED BY <1>1, BusInvariant, PTL

----------------------------------------------------------------------------
(* What a client sees.                                                     *)

\* Who is to be called, and in what order.
HandlersInv ==
    /\ listener \in {"off", "on", "dead"}
    /\ registry \in Seq(Agents) /\ todo \in Seq(Agents)
    /\ due \in Seq(Agents) /\ asked \in Seq(Agents) /\ outage \in BOOLEAN

\* Of the event's handlers, in their order, some have been invoked and the
\* others will be.
NobodySkipped == asked \o todo = due

LEMMA AmongAgents ==
  ASSUME HandlersInv, NEW S
  PROVE  Among(registry, S) \in Seq(Agents)
<1>1. Among(registry, S) \in Seq(Agents \cap S)
  BY AmongType DEF HandlersInv
<1> QED BY <1>1, SeqWidens

LEMMA NextHandlersInv == HandlersInv /\ [Next]_vars => HandlersInv'
<1> SUFFICES ASSUME HandlersInv, [Next]_vars PROVE HandlersInv'
  OBVIOUS
<1>1. ASSUME NEW a \in Agents, Register(a) PROVE HandlersInv'
  BY <1>1 DEF HandlersInv, Register, listening
<1>2. ASSUME NEW a \in Agents, Unregister(a) PROVE HandlersInv'
  <2>1. registry' \in Seq(Agents)
    BY <1>2, AmongAgents DEF Unregister
  <2> QED BY <1>2, <2>1 DEF HandlersInv, Unregister, listening
<1>3. CASE GetMessage
  <2>1. HandlersFor(log[Head(inbox)].type) \in Seq(Agents)
    <3>1. \A S : Among(registry, S) \in Seq(Agents)
      BY AmongAgents
    <3> QED BY <3>1 DEF HandlersFor
  <2>2. <<>> \in Seq(Agents)
    OBVIOUS
  <2> QED BY <1>3, <2>1, <2>2 DEF HandlersInv, GetMessage
<1>4. ASSUME NEW out, Handle(out) PROVE HandlersInv'
  BY <1>4 DEF HandlersInv, Handle, Invoke
<1>5. CASE HandlerRaises
  BY <1>5 DEF HandlersInv, HandlerRaises, Invoke
<1>6. CASE BroadcastEmission \/ DispatchEnds \/ ListenerSubscribes
  <2>1. <<>> \in Seq(Agents)
    OBVIOUS
  <2> QED BY <1>6, <2>1
          DEF HandlersInv, BroadcastEmission, DispatchEnds, ListenerSubscribes, dispatching
<1>7. CASE ListenerDies \/ Restart
  <2>1. <<>> \in Seq(Agents)
    OBVIOUS
  <2> QED BY <1>7, <2>1 DEF HandlersInv, ListenerDies, Restart
<1>8. ASSUME NEW p, Publish(p) PROVE HandlersInv'
  BY <1>8 DEF HandlersInv, Publish, dispatching
<1>9. CASE MindPublishFails \/ \E t \in Types : MindBroadcasts(t)
  BY <1>9 DEF HandlersInv, MindPublishFails, MindBroadcasts, listening
<1>10. ASSUME NEW c \in Clients, Connect(c) \/ Subscribe(c) \/ Receive(c) \/ Disconnect(c)
       PROVE  HandlersInv'
  BY <1>10 DEF HandlersInv, Connect, Subscribe, Receive, Disconnect, listening
<1>11. CASE UNCHANGED vars
  BY <1>11 DEF HandlersInv, vars, listening
<1> QED BY <1>1, <1>2, <1>3, <1>4, <1>5, <1>6, <1>7, <1>8, <1>9, <1>10, <1>11
        DEF Next, ListenerStep

\* The next handler moves from those to be invoked to those that were.
LEMMA InvokeSkipsNobody ==
  ASSUME HandlersInv, NobodySkipped, Invoke, todo' = Tail(todo)
  PROVE  NobodySkipped'
<1>1. /\ asked \in Seq(Agents) /\ todo \in Seq(Agents) /\ todo # <<>>
      /\ asked' = Append(asked, Head(todo)) /\ due' = due
  BY DEF HandlersInv, Invoke
<1>2. Append(asked, Head(todo)) \o Tail(todo) = asked \o todo
  BY <1>1
<1> QED BY <1>1, <1>2 DEF NobodySkipped

LEMMA NextSkipsNobody ==
  HandlersInv /\ HandlersInv' /\ NobodySkipped /\ [Next]_vars => NobodySkipped'
<1> SUFFICES ASSUME HandlersInv, HandlersInv', NobodySkipped, [Next]_vars PROVE NobodySkipped'
  OBVIOUS
<1>1. ASSUME UNCHANGED <<todo, asked, due>> PROVE NobodySkipped'
  BY <1>1 DEF NobodySkipped
<1>2. CASE GetMessage
  BY <1>2 DEF GetMessage, NobodySkipped, HandlersInv
<1>3. ASSUME NEW out \in Emissions, Handle(out) PROVE NobodySkipped'
  BY <1>3, InvokeSkipsNobody DEF Handle
<1>4. CASE HandlerRaises
  BY <1>4, InvokeSkipsNobody DEF HandlerRaises
<1>5. CASE DispatchEnds \/ ListenerDies \/ Restart
  <2>1. todo' = <<>> /\ asked' = <<>> /\ due' = <<>>
    BY <1>5 DEF DispatchEnds, HandlersTurn, ListenerDies, Restart
  <2> QED BY <2>1 DEF NobodySkipped
<1>6. CASE \/ \E t \in Types : MindBroadcasts(t)
           \/ \E p \in Publishers : Publish(p)
           \/ MindPublishFails \/ ListenerSubscribes \/ BroadcastEmission
           \/ \E a \in Agents : Register(a) \/ Unregister(a)
  BY <1>1, <1>6 DEF MindBroadcasts, Publish, MindPublishFails, ListenerSubscribes,
     BroadcastEmission, Register, Unregister, listening, dispatching
<1>7. CASE (\E c \in Clients : Connect(c) \/ Subscribe(c) \/ Receive(c) \/ Disconnect(c))
           \/ UNCHANGED vars
  BY <1>1, <1>7 DEF Connect, Subscribe, Receive, Disconnect, vars, listening
<1> QED BY <1>2, <1>3, <1>4, <1>5, <1>6, <1>7 DEF Next, ListenerStep, Publishers

(* Whichever handlers raise or emit, the handlers of an event are invoked  *)
(* in their order and none is left out: those invoked and those to come    *)
(* are all it was for (dispatch's try inside its loop).                    *)
THEOREM NoHandlerSkipped == Spec => []NobodySkipped
<1>1. Init => HandlersInv /\ NobodySkipped
  <2>1. <<>> \in Seq(Agents) /\ <<>> \o <<>> = <<>>
    OBVIOUS
  <2> QED BY <2>1 DEF Init, HandlersInv, NobodySkipped
<1> QED BY <1>1, NextHandlersInv, NextSkipsNobody, PTL DEF Spec

\* Of each publisher, no row of s comes after (or with) one of t.
NotAfter(s, t) == \A i \in DOMAIN s, j \in DOMAIN t : SameVoice(s[i], t[j]) => s[i] <= t[j]
Before(s, t) == \A i \in DOMAIN s, j \in DOMAIN t : SameVoice(s[i], t[j]) => s[i] < t[j]

\* What one client is sent: the backfill, then what it was sent, then what waits.
Stream(c) ==
    /\ shown[c] \in Seq(1..Len(log)) /\ seen[c] \in Seq(1..Len(log))
    /\ feed[c] \in Seq(1..Len(log))
    /\ client[c] # "live" => seen[c] = <<>> /\ feed[c] = <<>>
    /\ InOrder(shown[c]) /\ InOrder(seen[c]) /\ InOrder(feed[c])
    /\ NotAfter(shown[c], seen[c]) /\ NotAfter(shown[c], feed[c]) /\ Before(seen[c], feed[c])

\* A row on its way to Redis is its publisher's last, and nobody has it yet.
Below(s, p) == \A k \in DOMAIN s : log[s[k]].by = p => s[k] < flight[p]

FlightInv ==
    \A p \in Publishers :
        flight[p] # 0 =>
            /\ log[flight[p]].by = p
            /\ \A i \in 1..Len(log) : log[i].by = p => i <= flight[p]
            /\ \A c \in Clients : Below(seen[c], p) /\ Below(feed[c], p)

WatchInv ==
    /\ client \in [Clients -> {"away", "primed", "live"}]
    /\ shown = [c \in Clients |-> shown[c]] /\ seen = [c \in Clients |-> seen[c]]
    /\ feed = [c \in Clients |-> feed[c]]

StreamsInv == WatchInv /\ FlightInv /\ \A c \in Clients : Stream(c)

\* The log only grows.
Grows == Len(log) <= Len(log') /\ \A i \in 1..Len(log) : log'[i] = log[i]

LEMMA SameVoices ==
  ASSUME BusInv, BusInv', Grows
  PROVE  /\ \A i, j \in 1..Len(log) : SameVoice(i, j)' <=> SameVoice(i, j)
         /\ Seq(1..Len(log)) \subseteq Seq(1..Len(log'))
<1>1. Len(log) \in Nat /\ Len(log') \in Nat
  BY DEF BusInv, PlacesInv
<1>2. Seq(1..Len(log)) \subseteq Seq(1..Len(log'))
  <2>1. 1..Len(log) \subseteq 1..Len(log')
    BY <1>1 DEF Grows
  <2> QED BY <2>1, SeqWidens
<1> QED BY <1>2 DEF SameVoice, Grows

LEMMA StreamKept ==
  ASSUME BusInv, BusInv', Grows, NEW c \in Clients, Stream(c),
         client'[c] = client[c], shown'[c] = shown[c], seen'[c] = seen[c], feed'[c] = feed[c]
  PROVE  Stream(c)'
<1> USE DEF Stream
<1>1. /\ \A i \in DOMAIN shown[c] : shown[c][i] \in 1..Len(log)
      /\ \A i \in DOMAIN seen[c] : seen[c][i] \in 1..Len(log)
      /\ \A i \in DOMAIN feed[c] : feed[c][i] \in 1..Len(log)
  OBVIOUS
<1>2. InOrder(shown[c])' /\ InOrder(seen[c])' /\ InOrder(feed[c])'
  BY <1>1, SameVoices DEF InOrder
<1>3. NotAfter(shown[c], seen[c])' /\ NotAfter(shown[c], feed[c])' /\ Before(seen[c], feed[c])'
  BY <1>1, SameVoices DEF NotAfter, Before
<1>4. /\ shown'[c] \in Seq(1..Len(log')) /\ seen'[c] \in Seq(1..Len(log'))
      /\ feed'[c] \in Seq(1..Len(log'))
  BY SameVoices
<1> QED BY <1>2, <1>3, <1>4

LEMMA WatchersKept ==
  ASSUME BusInv, BusInv', Grows, StreamsInv, UNCHANGED watching
  PROVE  WatchInv' /\ \A c \in Clients : Stream(c)'
<1>1. UNCHANGED <<client, shown, feed, seen>>
  BY DEF watching
<1>2. WatchInv'
  BY <1>1 DEF StreamsInv, WatchInv
<1>3. ASSUME NEW c \in Clients PROVE Stream(c)'
  BY <1>1, StreamKept DEF StreamsInv
<1> QED BY <1>2, <1>3

\* Joining a row, and taking one off.
LEMMA JoinOrder ==
  ASSUME NEW s \in Seq(Int), NEW x \in Int, InOrder(s),
         \A k \in DOMAIN s : SameVoice(s[k], x) => s[k] < x
  PROVE  InOrder(Append(s, x))
<1> DEFINE t == Append(s, x)
<1>1. /\ Len(s) \in Nat /\ DOMAIN s = 1..Len(s) /\ DOMAIN t = 1..Len(s) + 1
      /\ t[Len(s) + 1] = x /\ \A k \in 1..Len(s) : t[k] = s[k]
  OBVIOUS
<1>2. SUFFICES ASSUME NEW i \in DOMAIN t, NEW j \in DOMAIN t, i < j, SameVoice(t[i], t[j])
               PROVE  t[i] < t[j]
  BY DEF InOrder
<1> HIDE DEF t
<1>3. i \in 1..Len(s)
  BY <1>1, <1>2
<1>4. CASE j = Len(s) + 1
  BY <1>1, <1>2, <1>3, <1>4
<1>5. CASE j # Len(s) + 1
  <2>1. j \in 1..Len(s)
    BY <1>1, <1>5
  <2> QED BY <1>1, <1>2, <1>3, <2>1 DEF InOrder
<1> QED BY <1>4, <1>5

LEMMA Joined ==
  ASSUME NEW s \in Seq(Int), NEW x \in Int, NEW k \in DOMAIN Append(s, x)
  PROVE  \/ Append(s, x)[k] = x
         \/ k \in DOMAIN s /\ Append(s, x)[k] = s[k]
<1>1. k \in 1..Len(s) + 1 /\ DOMAIN s = 1..Len(s) /\ Len(s) \in Nat
  OBVIOUS
<1>2. CASE k = Len(s) + 1
  BY <1>2
<1>3. CASE k # Len(s) + 1
  <2>1. k \in 1..Len(s)
    BY <1>1, <1>3
  <2> QED BY <1>1, <2>1
<1> QED BY <1>2, <1>3

LEMMA Shifted ==
  ASSUME NEW s \in Seq(Int), s # <<>>
  PROVE  /\ Tail(s) \in Seq(Int) /\ Head(s) = s[1] /\ 1 \in DOMAIN s
         /\ \A k \in DOMAIN Tail(s) : k + 1 \in DOMAIN s /\ Tail(s)[k] = s[k + 1] /\ k \in Nat \ {0}
<1>1. Len(s) \in Nat /\ Len(s) # 0 /\ DOMAIN s = 1..Len(s)
  OBVIOUS
<1>2. Len(Tail(s)) = Len(s) - 1 /\ DOMAIN Tail(s) = 1..Len(s) - 1
  BY <1>1
<1>3. ASSUME NEW k \in 1..Len(s) - 1
      PROVE  k + 1 \in DOMAIN s /\ Tail(s)[k] = s[k + 1] /\ k \in Nat \ {0}
  BY <1>1
<1> QED BY <1>1, <1>2, <1>3

LEMMA PublishKeepsStreams ==
  ASSUME BusInv, BusInv', StreamsInv, NEW p \in Publishers, Publish(p)
  PROVE  StreamsInv'
<1> USE DEF StreamsInv
<1> DEFINE x == flight[p]
<1>1. /\ x \in 1..Len(log) /\ x \in Int /\ log[x].by = p /\ flight' = [flight EXCEPT ![p] = 0]
      /\ UNCHANGED <<log, client, shown, seen>>
  BY DEF Publish, BusInv, PlacesInv, FlightInv
<1>2. feed' = [c \in Clients |-> IF client[c] = "live" THEN Append(feed[c], x) ELSE feed[c]]
  BY DEF Publish
<1>3. flight \in [Publishers -> 0..Len(log)] /\ Len(log) \in Nat /\ log \in Seq(Rows)
  BY DEF BusInv, PlacesInv
<1>4. WatchInv'
  <2>1. feed' = [c \in Clients |-> feed'[c]]
    BY <1>2
  <2> QED BY <1>1, <2>1 DEF WatchInv
<1>5. /\ \A i \in 1..Len(log) : log[i].by = p => i <= x
      /\ \A c \in Clients : Below(seen[c], p) /\ Below(feed[c], p)
  <2>1. flight[p] # 0
    BY DEF Publish
  <2> QED BY <2>1 DEF FlightInv
<1> HIDE DEF x
<1>6. ASSUME NEW c \in Clients PROVE Stream(c)'
  <2>1. CASE client[c] # "live"
    <3>1. feed'[c] = feed[c] /\ Grows
      BY <1>1, <1>2, <1>3, <2>1 DEF Grows
    <3> QED BY <1>1, <3>1, StreamKept
  <2>2. CASE client[c] = "live"
    <3>1. feed'[c] = Append(feed[c], x) /\ client'[c] = "live"
          /\ seen'[c] = seen[c] /\ shown'[c] = shown[c]
      BY <1>1, <1>2, <2>2
    <3>2. feed[c] \in Seq(1..Len(log)) /\ feed[c] \in Seq(Int)
      <4>1. feed[c] \in Seq(1..Len(log)) /\ 1..Len(log) \subseteq Int
        BY DEF Stream
      <4> QED BY <4>1, SeqWidens
    <3>3. feed'[c] \in Seq(1..Len(log'))
      BY <1>1, <3>1, <3>2
    <3>4. \A k \in DOMAIN feed[c] : SameVoice(feed[c][k], x) => feed[c][k] < x
      BY <1>1, <1>5 DEF Below, SameVoice, x
    <3>5. InOrder(feed'[c])
      BY <1>1, <3>1, <3>2, <3>4, JoinOrder DEF Stream
    <3>6. NotAfter(shown[c], feed'[c])
      <4>1. SUFFICES ASSUME NEW i \in DOMAIN shown[c], NEW k \in DOMAIN Append(feed[c], x),
                            SameVoice(shown[c][i], Append(feed[c], x)[k])
                     PROVE  shown[c][i] <= Append(feed[c], x)[k]
        BY <3>1 DEF NotAfter
      <4>2. shown[c][i] \in 1..Len(log)
        BY DEF Stream
      <4>3. CASE Append(feed[c], x)[k] = x
        BY <1>1, <1>5, <4>1, <4>2, <4>3 DEF SameVoice
      <4>4. CASE k \in DOMAIN feed[c] /\ Append(feed[c], x)[k] = feed[c][k]
        BY <4>1, <4>4 DEF Stream, NotAfter
      <4> QED BY <1>1, <3>2, <4>3, <4>4, Joined
    <3>7. Before(seen[c], feed'[c])
      <4>1. SUFFICES ASSUME NEW i \in DOMAIN seen[c], NEW k \in DOMAIN Append(feed[c], x),
                            SameVoice(seen[c][i], Append(feed[c], x)[k])
                     PROVE  seen[c][i] < Append(feed[c], x)[k]
        BY <3>1 DEF Before
      <4>3. CASE Append(feed[c], x)[k] = x
        BY <1>1, <1>5, <4>1, <4>3 DEF SameVoice, Below, x
      <4>4. CASE k \in DOMAIN feed[c] /\ Append(feed[c], x)[k] = feed[c][k]
        BY <4>1, <4>4 DEF Stream, Before
      <4> QED BY <1>1, <3>2, <4>3, <4>4, Joined
    <3>8. /\ InOrder(shown[c])' /\ InOrder(seen[c])' /\ InOrder(feed[c])'
          /\ NotAfter(shown[c], seen[c])' /\ NotAfter(shown[c], feed[c])'
          /\ Before(seen[c], feed[c])'
      BY <1>1, <3>1, <3>5, <3>6, <3>7 DEF Stream, InOrder, NotAfter, Before, SameVoice
    <3> QED BY <1>1, <3>1, <3>3, <3>8 DEF Stream
  <2> QED BY <2>1, <2>2
<1>7. FlightInv'
  <2>1. SUFFICES ASSUME NEW q \in Publishers, flight'[q] # 0
                 PROVE  /\ log[flight'[q]].by = q
                        /\ \A i \in 1..Len(log) : log[i].by = q => i <= flight'[q]
                        /\ \A c \in Clients : Below(seen[c], q)' /\ Below(feed[c], q)'
    BY <1>1 DEF FlightInv
  <2>2. q # p /\ flight'[q] = flight[q] /\ flight[q] # 0
    BY <1>1, <1>3, <2>1
  <2>3. /\ log[flight[q]].by = q /\ \A i \in 1..Len(log) : log[i].by = q => i <= flight[q]
        /\ \A c \in Clients : Below(seen[c], q) /\ Below(feed[c], q)
    BY <2>2 DEF FlightInv
  <2>4. ASSUME NEW c \in Clients PROVE Below(seen[c], q)' /\ Below(feed[c], q)'
    <3>1. Below(seen[c], q)'
      BY <1>1, <2>2, <2>3 DEF Below
    <3>2. CASE feed'[c] = feed[c]
      BY <1>1, <2>2, <2>3, <3>2 DEF Below
    <3>3. CASE feed'[c] = Append(feed[c], x)
      <4>1. feed[c] \in Seq(Int)
        <5>1. feed[c] \in Seq(1..Len(log)) /\ 1..Len(log) \subseteq Int
          BY DEF Stream
        <5> QED BY <5>1, SeqWidens
      <4>2. SUFFICES ASSUME NEW k \in DOMAIN Append(feed[c], x), log[Append(feed[c], x)[k]].by = q
                     PROVE  Append(feed[c], x)[k] < flight[q]
        BY <1>1, <2>2, <3>1, <3>3 DEF Below
      <4>3. Append(feed[c], x)[k] # x
        BY <1>1, <2>2, <4>2
      <4>4. k \in DOMAIN feed[c] /\ Append(feed[c], x)[k] = feed[c][k]
        BY <1>1, <4>1, <4>3, Joined
      <4> QED BY <2>3, <4>2, <4>4 DEF Below
    <3> QED BY <1>2, <3>1, <3>2, <3>3
  <2> QED BY <2>2, <2>3, <2>4
<1> QED BY <1>4, <1>6, <1>7

\* A row joins the log: its publisher had none on its way.
LEMMA PersistKeepsStreams ==
  ASSUME BusInv, BusInv', StreamsInv, NEW p \in Publishers, NEW t, NEW h, NEW d,
         Persist(p, t, h, d), UNCHANGED watching
  PROVE  StreamsInv'
<1> DEFINE n == Len(log) + 1
<1>1. /\ log \in Seq(Rows) /\ log' \in Seq(Rows) /\ Len(log) \in Nat
      /\ flight \in [Publishers -> 0..Len(log)]
  BY DEF BusInv, PlacesInv
<1>2. /\ Len(log') = n /\ log'[n].by = p /\ \A i \in 1..Len(log) : log'[i] = log[i]
      /\ flight' = [flight EXCEPT ![p] = n] /\ flight[p] = 0
  BY <1>1 DEF Persist
<1>3. Grows
  BY <1>1, <1>2 DEF Grows
<1>4. WatchInv' /\ \A c \in Clients : Stream(c)'
  BY <1>3, WatchersKept
<1>5. UNCHANGED <<seen, feed>>
  BY DEF watching
<1>6. ASSUME NEW c \in Clients
      PROVE  /\ \A k \in DOMAIN seen[c] : seen[c][k] \in 1..Len(log)
             /\ \A k \in DOMAIN feed[c] : feed[c][k] \in 1..Len(log)
  BY DEF StreamsInv, Stream
<1>7. ASSUME NEW q \in Publishers, flight'[q] # 0
      PROVE  /\ log'[flight'[q]].by = q
             /\ \A i \in 1..Len(log') : log'[i].by = q => i <= flight'[q]
             /\ \A c \in Clients : Below(seen[c], q)' /\ Below(feed[c], q)'
  <2>1. CASE q = p
    <3>1. flight'[q] = n
      BY <1>1, <1>2, <2>1
    <3>2. \A i \in 1..Len(log) : i < n
      BY <1>1
    <3> QED BY <1>1, <1>2, <1>5, <1>6, <2>1, <3>1, <3>2 DEF Below
  <2>2. CASE q # p
    <3>1. flight'[q] = flight[q] /\ flight[q] # 0 /\ flight[q] \in 1..Len(log)
      BY <1>1, <1>2, <1>7, <2>2
    <3>2. /\ log[flight[q]].by = q /\ \A i \in 1..Len(log) : log[i].by = q => i <= flight[q]
          /\ \A c \in Clients : Below(seen[c], q) /\ Below(feed[c], q)
      BY <3>1 DEF StreamsInv, FlightInv
    <3>3. ASSUME NEW i \in 1..Len(log'), log'[i].by = q PROVE i <= flight[q]
      <4>1. i # n
        BY <1>2, <2>2, <3>3
      <4>2. i \in 1..Len(log)
        BY <1>1, <1>2, <4>1
      <4> QED BY <1>2, <3>2, <3>3, <4>2
    <3>4. \A c \in Clients : Below(seen[c], q)' /\ Below(feed[c], q)'
      BY <1>2, <1>5, <1>6, <3>1, <3>2 DEF Below
    <3> QED BY <1>2, <3>1, <3>2, <3>3, <3>4
  <2> QED BY <2>1, <2>2
<1> HIDE DEF n
<1> QED BY <1>4, <1>7 DEF StreamsInv, FlightInv

\* A row that is given up, or nothing about rows at all.
LEMMA DropKeepsStreams ==
  ASSUME BusInv, BusInv', StreamsInv, UNCHANGED <<log, watching>>,
         flight' = flight \/ \E p \in Publishers : flight' = [flight EXCEPT ![p] = 0]
  PROVE  StreamsInv'
<1>1. Grows /\ flight \in [Publishers -> 0..Len(log)]
  BY DEF Grows, BusInv, PlacesInv
<1>2. WatchInv' /\ \A c \in Clients : Stream(c)'
  BY <1>1, WatchersKept
<1>3. UNCHANGED <<log, seen, feed>>
  BY DEF watching
<1>4. \A q \in Publishers : flight'[q] # 0 => flight'[q] = flight[q]
  BY <1>1
<1> QED BY <1>2, <1>3, <1>4 DEF StreamsInv, FlightInv, Below

LEMMA SeqIsFunction ==
  ASSUME NEW S, NEW s \in Seq(S)
  PROVE  s \in [1..Len(s) -> S]
OBVIOUS

\* The backfill: newest rows, turned round.
LEMMA BackfillInOrder ==
  ASSUME BusInv, NEW T, NEW n \in Nat
  PROVE  LET s == Reverse(Recent(T, n)) IN s \in Seq(1..Len(log)) /\ InOrder(s)
<1> DEFINE L == Len(log)
           newest == Among(Reverse([i \in 1..L |-> i]), {i \in 1..L : log[i].type \in T})
           m == IF Len(newest) < n THEN Len(newest) ELSE n
           s == Reverse(Recent(T, n))
<1>1. L \in Nat
  BY DEF BusInv, PlacesInv
<1>2. newest \in Seq((1..L) \cap {i \in 1..L : log[i].type \in T}) /\ Falls(newest)
  <2> HIDE DEF L
  <2> QED BY <1>1, NewestFirst
<1>3. newest \in Seq(1..L)
  <2> HIDE DEF newest, L
  <2> QED BY <1>2, SeqWidens
<1>4. Recent(T, n) = SubSeq(newest, 1, m)
  BY DEF Recent
<1> HIDE DEF newest, L
<1>5. m \in Nat /\ m <= Len(newest) /\ Len(newest) \in Nat
  BY <1>3
<1> HIDE DEF m
<1>6. Recent(T, n) = [i \in 1..m |-> newest[i]] /\ Len(Recent(T, n)) = m
  BY <1>3, <1>4, <1>5
<1>7. s = [i \in 1..m |-> newest[m - i + 1]]
  <2>1. \A i \in 1..m : m - i + 1 \in 1..m
    BY <1>5
  <2> QED BY <1>6, <2>1 DEF Reverse
<1>8. \A i \in 1..m : m - i + 1 \in DOMAIN newest /\ newest[m - i + 1] \in 1..L
  <2>1. \A k \in 1..m : k \in DOMAIN newest /\ newest[k] \in 1..L
    <3>1. /\ DOMAIN newest = 1..Len(newest)
          /\ \A k \in 1..Len(newest) : newest[k] \in 1..L
      <4>1. Len(newest) \in Nat /\ DOMAIN newest = 1..Len(newest)
        BY <1>3
      <4>2. \A k \in 1..Len(newest) : newest[k] \in 1..L
        <5>1. newest \in [1..Len(newest) -> 1..L]
          BY <1>3, SeqIsFunction
        <5> QED BY <5>1
      <4> QED BY <4>1, <4>2
    <3>2. \A k \in 1..m : k \in 1..Len(newest)
      BY <1>5
    <3> QED BY <3>1, <3>2
  <2>2. \A i \in 1..m : m - i + 1 \in 1..m
    BY <1>5
  <2> QED BY <2>1, <2>2
<1>9. s \in Seq(1..L) /\ DOMAIN s = 1..m
  BY <1>5, <1>7, <1>8
<1>10. ASSUME NEW i \in 1..m, NEW j \in 1..m, i < j PROVE s[i] < s[j]
  <2>1. m - j + 1 < m - i + 1
    BY <1>5, <1>10
  <2>2. newest[m - j + 1] > newest[m - i + 1]
    BY <1>2, <1>8, <2>1 DEF Falls
  <2>3. s[i] = newest[m - i + 1] /\ s[j] = newest[m - j + 1]
    BY <1>7
  <2>4. newest[m - j + 1] \in Int /\ newest[m - i + 1] \in Int
    BY <1>8
  <2> QED BY <2>2, <2>3, <2>4
<1> HIDE DEF s
<1>11. InOrder(s)
  BY <1>9, <1>10 DEF InOrder
<1> QED BY <1>9, <1>11 DEF s, L

\* One client's step: the streams of the others are as they were.
LEMMA OneClient ==
  ASSUME BusInv, BusInv', StreamsInv, NEW c \in Clients,
         UNCHANGED <<log, flight>>, WatchInv', Stream(c)',
         \A e \in Clients \ {c} : /\ client'[e] = client[e] /\ shown'[e] = shown[e]
                                  /\ seen'[e] = seen[e] /\ feed'[e] = feed[e],
         \A p \in Publishers : flight[p] # 0 => Below(seen'[c], p) /\ Below(feed'[c], p)
  PROVE  StreamsInv'
<1>1. Grows
  BY DEF Grows, BusInv, PlacesInv
<1>2. ASSUME NEW e \in Clients PROVE Stream(e)'
  <2>1. CASE e # c
    BY <1>1, <2>1, StreamKept DEF StreamsInv
  <2> QED BY <2>1
<1>3. FlightInv'
  <2>1. SUFFICES ASSUME NEW p \in Publishers, flight[p] # 0
                 PROVE  /\ log[flight[p]].by = p
                        /\ \A i \in 1..Len(log) : log[i].by = p => i <= flight[p]
                        /\ \A e \in Clients : Below(seen[e], p)' /\ Below(feed[e], p)'
    BY DEF FlightInv
  <2>2. /\ log[flight[p]].by = p /\ \A i \in 1..Len(log) : log[i].by = p => i <= flight[p]
        /\ \A e \in Clients : Below(seen[e], p) /\ Below(feed[e], p)
    BY <2>1 DEF StreamsInv, FlightInv
  <2>3. \A e \in Clients : Below(seen[e], p)' /\ Below(feed[e], p)'
    <3>1. ASSUME NEW e \in Clients PROVE Below(seen'[e], p) /\ Below(feed'[e], p)
      <4>1. CASE e # c
        BY <2>2, <4>1
      <4>2. CASE e = c
        BY <2>1, <4>2
      <4> QED BY <4>1, <4>2
    <3> QED BY <3>1 DEF Below
  <2> QED BY <2>2, <2>3
<1> QED BY <1>2, <1>3 DEF StreamsInv

LEMMA ConnectKeepsStreams ==
  ASSUME BusInv, BusInv', StreamsInv, NEW c \in Clients, Connect(c)
  PROVE  StreamsInv'
<1> DEFINE s == Reverse(Recent(Wanted[c], Limit[c]))
<1>1. s \in Seq(1..Len(log)) /\ InOrder(s)
  <2>1. Limit[c] \in Nat
    BY BusAssumption
  <2> QED BY <2>1, BackfillInOrder
<1>2. /\ client[c] = "away" /\ client' = [client EXCEPT ![c] = "primed"]
      /\ shown' = [shown EXCEPT ![c] = s] /\ UNCHANGED <<log, flight, seen, feed>>
  BY DEF Connect
<1> HIDE DEF s
<1>3. WatchInv'
  BY <1>2 DEF StreamsInv, WatchInv
<1>4. seen[c] = <<>> /\ feed[c] = <<>> /\ DOMAIN <<>> = {} /\ shown'[c] = s /\ client'[c] = "primed"
  BY <1>2 DEF StreamsInv, Stream, WatchInv
<1>5. Stream(c)'
  <2>1. InOrder(shown[c])' /\ InOrder(seen[c])' /\ InOrder(feed[c])'
    BY <1>1, <1>2, <1>4 DEF InOrder, SameVoice
  <2>2. NotAfter(shown[c], seen[c])' /\ NotAfter(shown[c], feed[c])' /\ Before(seen[c], feed[c])'
    BY <1>2, <1>4 DEF NotAfter, Before
  <2>3. seen[c] \in Seq(1..Len(log)) /\ feed[c] \in Seq(1..Len(log))
    BY DEF StreamsInv, Stream
  <2> QED BY <1>1, <1>2, <1>4, <2>1, <2>2, <2>3 DEF Stream
<1>6. \A p \in Publishers : flight[p] # 0 => Below(seen'[c], p) /\ Below(feed'[c], p)
  BY <1>2 DEF StreamsInv, FlightInv
<1>7. \A e \in Clients \ {c} : /\ client'[e] = client[e] /\ shown'[e] = shown[e]
                               /\ seen'[e] = seen[e] /\ feed'[e] = feed[e]
  BY <1>2 DEF StreamsInv, WatchInv
<1> QED BY <1>2, <1>3, <1>5, <1>6, <1>7, OneClient

LEMMA LeaveKeepsStreams ==
  ASSUME BusInv, BusInv', StreamsInv, NEW c \in Clients, Subscribe(c) \/ Disconnect(c)
  PROVE  StreamsInv'
<1>1. UNCHANGED <<log, flight>>
  BY DEF Subscribe, Disconnect
<1>2. WatchInv'
  BY DEF StreamsInv, WatchInv, Subscribe, Disconnect
<1>3. \A e \in Clients \ {c} : /\ client'[e] = client[e] /\ shown'[e] = shown[e]
                               /\ seen'[e] = seen[e] /\ feed'[e] = feed[e]
  BY DEF StreamsInv, WatchInv, Subscribe, Disconnect
<1>4. CASE Subscribe(c)
  <2>1. client'[c] = "live" /\ UNCHANGED <<shown, seen, feed>>
    BY <1>4 DEF Subscribe, StreamsInv, WatchInv
  <2>2. Stream(c)'
    <3>1. Stream(c)
      BY DEF StreamsInv
    <3>2. /\ InOrder(shown[c])' /\ InOrder(seen[c])' /\ InOrder(feed[c])'
          /\ NotAfter(shown[c], seen[c])' /\ NotAfter(shown[c], feed[c])'
          /\ Before(seen[c], feed[c])'
      BY <1>1, <2>1, <3>1 DEF Stream, InOrder, NotAfter, Before, SameVoice
    <3> QED BY <1>1, <2>1, <3>1, <3>2 DEF Stream
  <2>3. \A p \in Publishers : flight[p] # 0 => Below(seen'[c], p) /\ Below(feed'[c], p)
    BY <2>1 DEF StreamsInv, FlightInv
  <2> QED BY <1>1, <1>2, <1>3, <2>2, <2>3, OneClient
<1>5. CASE Disconnect(c)
  <2>1. /\ shown'[c] = <<>> /\ seen'[c] = <<>> /\ feed'[c] = <<>> /\ DOMAIN <<>> = {}
        /\ <<>> \in Seq(1..Len(log))
    BY <1>5 DEF Disconnect, StreamsInv, WatchInv
  <2>2. Stream(c)'
    BY <1>1, <2>1 DEF Stream, InOrder, NotAfter, Before
  <2>3. \A p \in Publishers : flight[p] # 0 => Below(seen'[c], p) /\ Below(feed'[c], p)
    BY <2>1 DEF Below
  <2> QED BY <1>1, <1>2, <1>3, <2>2, <2>3, OneClient
<1> QED BY <1>4, <1>5

LEMMA ReceiveKeepsStreams ==
  ASSUME BusInv, BusInv', StreamsInv, NEW c \in Clients, Receive(c)
  PROVE  StreamsInv'
<1> DEFINE f == feed[c]
           s == seen[c]
           x == Head(f)
<1>1. /\ f # <<>> /\ feed' = [feed EXCEPT ![c] = Tail(f)]
      /\ seen' = [seen EXCEPT ![c] = IF log[x].type \in Wanted[c] THEN Append(s, x) ELSE s]
      /\ UNCHANGED <<log, flight, client, shown>>
  BY DEF Receive
<1>2. Stream(c) /\ Len(log) \in Nat
  BY DEF StreamsInv, BusInv, PlacesInv
<1>3. /\ f \in Seq(1..Len(log)) /\ s \in Seq(1..Len(log)) /\ 1..Len(log) \subseteq Int
      /\ f \in Seq(Int) /\ s \in Seq(Int)
  <2>1. f \in Seq(1..Len(log)) /\ s \in Seq(1..Len(log)) /\ 1..Len(log) \subseteq Int
    BY <1>2 DEF Stream
  <2> HIDE DEF f, s
  <2> QED BY <2>1, SeqWidens
<1>4. feed'[c] = Tail(f) /\ (seen'[c] = s \/ seen'[c] = Append(s, x))
  BY <1>1 DEF StreamsInv, WatchInv
<1>5. InOrder(f) /\ InOrder(s) /\ NotAfter(shown[c], s) /\ NotAfter(shown[c], f) /\ Before(s, f)
  BY <1>2 DEF Stream
<1>6. client[c] = "live"
  BY <1>1, <1>2 DEF Stream
<1> HIDE DEF f, s
<1>7. /\ Tail(f) \in Seq(Int) /\ x = f[1] /\ 1 \in DOMAIN f /\ x \in 1..Len(log) /\ x \in Int
      /\ \A k \in DOMAIN Tail(f) : k + 1 \in DOMAIN f /\ Tail(f)[k] = f[k + 1] /\ k \in Nat \ {0}
  BY <1>1, <1>3, Shifted
<1>8. \A k \in DOMAIN Tail(f) : 1 < k + 1
  BY <1>7
<1> HIDE DEF x
\* What has been sent, with the head of what waits or without.
<1>9. /\ seen'[c] \in Seq(1..Len(log)) /\ seen'[c] \in Seq(Int)
      /\ InOrder(seen'[c])
      /\ \A k \in DOMAIN seen'[c] : \/ seen'[c][k] = x
                                    \/ k \in DOMAIN s /\ seen'[c][k] = s[k]
  <2>1. CASE seen'[c] = s
    BY <1>3, <1>5, <2>1
  <2>2. CASE seen'[c] = Append(s, x)
    <3>1. \A k \in DOMAIN s : SameVoice(s[k], x) => s[k] < x
      BY <1>5, <1>7 DEF Before
    <3>2. InOrder(Append(s, x))
      BY <1>3, <1>5, <1>7, <3>1, JoinOrder
    <3>3. Append(s, x) \in Seq(1..Len(log)) /\ Append(s, x) \in Seq(Int)
      BY <1>3, <1>7
    <3>4. \A k \in DOMAIN Append(s, x) : \/ Append(s, x)[k] = x
                                         \/ k \in DOMAIN s /\ Append(s, x)[k] = s[k]
      BY <1>3, <1>7, Joined
    <3> QED BY <2>2, <3>2, <3>3, <3>4
  <2> QED BY <1>4, <2>1, <2>2
<1>10. Tail(f) \in Seq(1..Len(log))
  BY <1>1, <1>3
<1>11. InOrder(Tail(f))
  <2>1. SUFFICES ASSUME NEW i \in DOMAIN Tail(f), NEW j \in DOMAIN Tail(f), i < j,
                        SameVoice(Tail(f)[i], Tail(f)[j])
                 PROVE  Tail(f)[i] < Tail(f)[j]
    BY DEF InOrder
  <2>2. i + 1 < j + 1
    BY <1>7, <2>1
  <2> QED BY <1>5, <1>7, <2>1, <2>2 DEF InOrder
<1>12. NotAfter(shown[c], seen'[c])
  <2>1. SUFFICES ASSUME NEW i \in DOMAIN shown[c], NEW k \in DOMAIN seen'[c],
                        SameVoice(shown[c][i], seen'[c][k])
                 PROVE  shown[c][i] <= seen'[c][k]
    BY DEF NotAfter
  <2>2. CASE seen'[c][k] = x
    BY <1>5, <1>7, <2>1, <2>2 DEF NotAfter
  <2>3. CASE k \in DOMAIN s /\ seen'[c][k] = s[k]
    BY <1>5, <2>1, <2>3 DEF NotAfter
  <2> QED BY <1>9, <2>2, <2>3
<1>13. NotAfter(shown[c], Tail(f))
  BY <1>5, <1>7 DEF NotAfter
<1>14. Before(seen'[c], Tail(f))
  <2>1. SUFFICES ASSUME NEW k \in DOMAIN seen'[c], NEW j \in DOMAIN Tail(f),
                        SameVoice(seen'[c][k], Tail(f)[j])
                 PROVE  seen'[c][k] < Tail(f)[j]
    BY DEF Before
  <2>2. CASE seen'[c][k] = x
    BY <1>5, <1>7, <1>8, <2>1, <2>2 DEF InOrder
  <2>3. CASE k \in DOMAIN s /\ seen'[c][k] = s[k]
    BY <1>5, <1>7, <2>1, <2>3 DEF Before
  <2> QED BY <1>9, <2>2, <2>3
<1>15. Stream(c)'
  <2>1. shown'[c] = shown[c] /\ client'[c] = "live" /\ UNCHANGED log
    BY <1>1, <1>6
  <2>2. shown[c] \in Seq(1..Len(log)) /\ InOrder(shown[c])
    BY <1>2 DEF Stream
  <2>3. /\ InOrder(shown[c])' /\ InOrder(seen[c])' /\ InOrder(feed[c])'
        /\ NotAfter(shown[c], seen[c])' /\ NotAfter(shown[c], feed[c])'
        /\ Before(seen[c], feed[c])'
    BY <1>4, <1>9, <1>11, <1>12, <1>13, <1>14, <2>1, <2>2
       DEF InOrder, NotAfter, Before, SameVoice
  <2> QED BY <1>4, <1>9, <1>10, <2>1, <2>2, <2>3 DEF Stream
<1>16. ASSUME NEW p \in Publishers, flight[p] # 0
       PROVE  Below(seen'[c], p) /\ Below(feed'[c], p)
  <2>1. Below(s, p) /\ Below(f, p)
    BY <1>16 DEF StreamsInv, FlightInv, s, f
  <2> QED BY <1>4, <1>7, <1>9, <2>1 DEF Below
<1>17. /\ WatchInv'
       /\ \A e \in Clients \ {c} : /\ client'[e] = client[e] /\ shown'[e] = shown[e]
                                   /\ seen'[e] = seen[e] /\ feed'[e] = feed[e]
  BY <1>1 DEF StreamsInv, WatchInv
<1> QED BY <1>1, <1>15, <1>16, <1>17, OneClient

LEMMA InitStreamsInv == Init => HandlersInv /\ StreamsInv
<1> SUFFICES ASSUME Init PROVE HandlersInv /\ StreamsInv
  OBVIOUS
<1>1. /\ listener = "off" /\ registry = <<>> /\ todo = <<>> /\ <<>> \in Seq(Agents)
      /\ due = <<>> /\ asked = <<>> /\ outage = FALSE
      /\ log = <<>> /\ <<>> \in Seq(1..Len(log)) /\ DOMAIN <<>> = {}
      /\ flight = [p \in Publishers |-> 0] /\ client = [c \in Clients |-> "away"]
      /\ shown = Away /\ feed = Away /\ seen = Away
  BY DEF Init
<1>2. HandlersInv
  BY <1>1 DEF HandlersInv
<1>3. WatchInv
  BY <1>1 DEF WatchInv, Away
<1>4. FlightInv
  BY <1>1 DEF FlightInv
<1>5. ASSUME NEW c \in Clients PROVE Stream(c)
  <2>1. shown[c] = <<>> /\ feed[c] = <<>> /\ seen[c] = <<>>
    BY <1>1 DEF Away
  <2> QED BY <1>1, <2>1 DEF Stream, InOrder, NotAfter, Before
<1> QED BY <1>2, <1>3, <1>4, <1>5 DEF StreamsInv

LEMMA NextStreamsInv == BusInv /\ BusInv' /\ StreamsInv /\ [Next]_vars => StreamsInv'
<1> SUFFICES ASSUME BusInv, BusInv', StreamsInv, [Next]_vars PROVE StreamsInv'
  OBVIOUS
<1>1. ASSUME NEW t \in Types, MindBroadcasts(t) PROVE StreamsInv'
  <2>1. Persist("mind", t, 0, 0) /\ UNCHANGED watching /\ "mind" \in Publishers
    BY <1>1 DEF MindBroadcasts, Publishers
  <2> QED BY <2>1, PersistKeepsStreams
<1>2. CASE BroadcastEmission
  <2>1. Persist("bus", Head(emitted), log[event].hops + 1, log[event].depth + 1)
        /\ UNCHANGED watching /\ "bus" \in Publishers
    BY <1>2 DEF BroadcastEmission, Publishers
  <2> QED BY <2>1, PersistKeepsStreams
<1>3. ASSUME NEW p \in Publishers, Publish(p) PROVE StreamsInv'
  BY <1>3, PublishKeepsStreams
<1>4. CASE MindPublishFails \/ ListenerDies
  <2>1. UNCHANGED <<log, watching>> /\ \E p \in Publishers : flight' = [flight EXCEPT ![p] = 0]
    BY <1>4 DEF MindPublishFails, ListenerDies, Publishers
  <2> QED BY <2>1, DropKeepsStreams
<1>5. CASE \/ \E a \in Agents : Register(a) \/ Unregister(a)
           \/ ListenerSubscribes \/ GetMessage \/ (\E out \in Emissions : Handle(out))
           \/ HandlerRaises \/ DispatchEnds
  <2>1. UNCHANGED <<log, watching, flight>>
    BY <1>5 DEF Register, Unregister, ListenerSubscribes, GetMessage, Handle, HandlerRaises,
       Invoke, DispatchEnds
  <2> QED BY <2>1, DropKeepsStreams
<1>6. ASSUME NEW c \in Clients, Connect(c) \/ Subscribe(c) \/ Receive(c) \/ Disconnect(c)
      PROVE  StreamsInv'
  BY <1>6, ConnectKeepsStreams, LeaveKeepsStreams, ReceiveKeepsStreams
<1>7. CASE Restart
  <2>1. /\ log' = log /\ <<>> \in Seq(1..Len(log)) /\ DOMAIN <<>> = {}
        /\ flight' = [p \in Publishers |-> 0] /\ client' = [c \in Clients |-> "away"]
        /\ shown' = Away /\ feed' = Away /\ seen' = Away
    BY <1>7 DEF Restart
  <2>2. WatchInv'
    BY <2>1 DEF WatchInv, Away
  <2>3. FlightInv'
    BY <2>1 DEF FlightInv
  <2>4. ASSUME NEW c \in Clients PROVE Stream(c)'
    <3>1. shown'[c] = <<>> /\ feed'[c] = <<>> /\ seen'[c] = <<>>
      BY <2>1 DEF Away
    <3> QED BY <2>1, <3>1 DEF Stream, InOrder, NotAfter, Before
  <2> QED BY <2>2, <2>3, <2>4 DEF StreamsInv
<1>8. CASE UNCHANGED vars
  <2>1. UNCHANGED <<log, watching, flight>>
    BY <1>8 DEF vars
  <2> QED BY <2>1, DropKeepsStreams
<1>9. "mind" \in Publishers /\ "bus" \in Publishers
  BY DEF Publishers
<1> QED BY <1>1, <1>2, <1>3, <1>4, <1>5, <1>6, <1>7, <1>8, <1>9 DEF Next, ListenerStep

\* Sent and waiting, put together.
LEMMA StreamGives ==
  ASSUME BusInv, NEW c \in Clients, Stream(c)
  PROVE  LET live == seen[c] \o feed[c]
         IN  InOrder(live) /\ NotAfter(shown[c], live)
<1> DEFINE s == seen[c]
           f == feed[c]
           live == s \o f
<1>1. /\ s \in Seq(1..Len(log)) /\ f \in Seq(1..Len(log)) /\ InOrder(s) /\ InOrder(f)
      /\ Before(s, f) /\ NotAfter(shown[c], s) /\ NotAfter(shown[c], f)
  BY DEF Stream
<1> HIDE DEF s, f
<1>2. /\ Len(s) \in Nat /\ Len(f) \in Nat /\ DOMAIN s = 1..Len(s) /\ DOMAIN f = 1..Len(f)
      /\ DOMAIN live = 1..Len(s) + Len(f)
      /\ \A k \in 1..Len(s) : live[k] = s[k]
      /\ \A k \in 1..Len(s) + Len(f) : k > Len(s) => live[k] = f[k - Len(s)]
  BY <1>1
<1> HIDE DEF live
<1>3. ASSUME NEW k \in DOMAIN live
      PROVE  \/ k \in DOMAIN s /\ live[k] = s[k]
             \/ k - Len(s) \in DOMAIN f /\ live[k] = f[k - Len(s)] /\ k > Len(s)
  <2>1. CASE k <= Len(s)
    BY <1>2, <2>1
  <2>2. CASE k > Len(s)
    BY <1>2, <2>2
  <2> QED BY <1>2, <2>1, <2>2
<1>4. ASSUME NEW i \in DOMAIN live, NEW j \in DOMAIN live, i < j, SameVoice(live[i], live[j])
      PROVE  live[i] < live[j]
  <2>1. CASE j \in DOMAIN s /\ live[j] = s[j]
    <3>1. i \in DOMAIN s /\ live[i] = s[i]
      BY <1>2, <1>4, <2>1
    <3> QED BY <1>1, <1>4, <2>1, <3>1 DEF InOrder
  <2>2. CASE j - Len(s) \in DOMAIN f /\ live[j] = f[j - Len(s)] /\ j > Len(s)
    <3>1. CASE i \in DOMAIN s /\ live[i] = s[i]
      BY <1>1, <1>4, <2>2, <3>1 DEF Before
    <3>2. CASE i - Len(s) \in DOMAIN f /\ live[i] = f[i - Len(s)]
      <4>1. i - Len(s) < j - Len(s)
        BY <1>2, <1>4
      <4> QED BY <1>1, <1>4, <2>2, <3>2, <4>1 DEF InOrder
    <3> QED BY <1>3, <3>1, <3>2
  <2> QED BY <1>3, <2>1, <2>2
<1>5. ASSUME NEW i \in DOMAIN shown[c], NEW j \in DOMAIN live, SameVoice(shown[c][i], live[j])
      PROVE  shown[c][i] <= live[j]
  <2>1. CASE j \in DOMAIN s /\ live[j] = s[j]
    BY <1>1, <1>5, <2>1 DEF NotAfter
  <2>2. CASE j - Len(s) \in DOMAIN f /\ live[j] = f[j - Len(s)]
    BY <1>1, <1>5, <2>2 DEF NotAfter
  <2> QED BY <1>3, <2>1, <2>2
<1>6. InOrder(live) /\ NotAfter(shown[c], live)
  BY <1>4, <1>5 DEF InOrder, NotAfter
<1> QED BY <1>6 DEF live, s, f

(* Whoever connects, leaves and comes back while the Mind and the bus      *)
(* listener log and publish: of each publisher a client gets backfill and  *)
(* live events in the order they were broadcast, and none twice but the    *)
(* last of the backfill (recent_events, stream, broadcast).                *)
THEOREM StreamsRunForward == Spec => []NeverBackwards
<1>1. HandlersInv /\ BusInv /\ StreamsInv => NeverBackwards
  <2> SUFFICES ASSUME HandlersInv, BusInv, StreamsInv PROVE NeverBackwards
    OBVIOUS
  <2>1. \A c \in Clients : Stream(c)
    BY DEF StreamsInv
  <2>2. TypeOK
    <3>1. /\ shown \in [Clients -> Seq(1..Len(log))] /\ seen \in [Clients -> Seq(1..Len(log))]
          /\ feed \in [Clients -> Seq(1..Len(log))]
      BY <2>1 DEF Stream, StreamsInv, WatchInv
    <3> QED BY <3>1 DEF TypeOK, HandlersInv, BusInv, PlacesInv, StreamsInv, WatchInv
  <2>3. ASSUME NEW c \in Clients
        PROVE  LET live == seen[c] \o feed[c]
               IN  InOrder(live) /\ NotAfter(shown[c], live)
    BY <2>1, StreamGives
  <2>4. \A c \in Clients : InOrder(shown[c])
    BY <2>1 DEF Stream
  <2> QED BY <2>2, <2>3, <2>4 DEF NeverBackwards, NotAfter
<1>2. Spec => [](HandlersInv /\ BusInv /\ StreamsInv)
  BY InitBusInv, InitStreamsInv, NextBusInv, NextHandlersInv, NextStreamsInv, PTL DEF Spec
<1> QED BY <1>1, <1>2, PTL

=============================================================================
