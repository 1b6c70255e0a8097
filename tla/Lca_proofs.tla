----------------------------- MODULE Lca_proofs -----------------------------
(***************************************************************************)
(* The lowest common ancestors, for every finite citation graph, every     *)
(* list of papers and every number of seeds: lca_improved.py computes what *)
(* lca.py does, which are the shortest distances and the lowest ancestors. *)
(***************************************************************************)
EXTENDS LcaImproved, FiniteSetTheorems, TLAPS

----------------------------------------------------------------------------
(* Least elements *)

LEMMA LeastNatural ==
  ASSUME NEW T \in SUBSET Nat, T # {}
  PROVE  \E m \in T : \A k \in T : m <= k
<1>. DEFINE R == {ss \in Nat \X Nat : ss[1] < ss[2]}
<1>1. IsWellFoundedOn(R, Nat)
  BY NatLessThanWellFounded DEF OpToRel
<1>. HIDE DEF R
<1>2. PICK m \in T : \A k \in T : <<k, m>> \notin R
  BY <1>1, WFMin
<1>3. \A k \in T : k \in Nat /\ m \in Nat /\ ~(k < m)
  BY <1>2 DEF R
<1>. QED  BY <1>3

LEMMA MinIs ==
  ASSUME NEW T \in SUBSET Nat, T # {}
  PROVE  Min(T) \in T /\ \A k \in T : Min(T) <= k
BY LeastNatural DEF Min

LEMMA MinFrom ==
  ASSUME NEW T \in SUBSET Nat, NEW m \in T, \A k \in T : m <= k
  PROVE  Min(T) = m
<1>1. PICK n \in T : n = Min(T) /\ n <= m
  BY MinIs
<1>2. n \in Int /\ m \in Int /\ m <= n
  BY <1>1
<1>. QED  BY <1>1, <1>2

LEMMA MaxIs ==
  ASSUME NEW a \in Int, NEW b \in Int
  PROVE  Max({a, b}) = IF a <= b THEN b ELSE a
<1>1. \E x \in {a, b} : \A y \in {a, b} : x >= y
  OBVIOUS
<1>2. Max({a, b}) \in {a, b} /\ Max({a, b}) >= a /\ Max({a, b}) >= b
  BY <1>1 DEF Max
<1>. QED  BY <1>2

----------------------------------------------------------------------------
(* Walks in the graph *)

EdgesOK == edges \subseteq Vertex \X Vertex

LEMMA WalkZero ==
  ASSUME NEW s \in Vertex, NEW v
  PROVE  Walk(s, v, 0) <=> v = s
<1>. DEFINE q == [i \in 0 .. 0 |-> s]
<1>1. q \in [0 .. 0 -> Vertex] /\ q[0] = s /\ \A i \in 1 .. 0 : FALSE
  OBVIOUS
<1>. HIDE DEF q
<1>2. v = s => Walk(s, v, 0)
  BY <1>1 DEF Walk
<1>3. Walk(s, v, 0) => v = s
  BY DEF Walk
<1>. QED  BY <1>2, <1>3

LEMMA WalkStep ==
  ASSUME EdgesOK, NEW s, NEW v, NEW k \in Nat
  PROVE  Walk(s, v, k + 1) <=> \E u \in Vertex : Walk(s, u, k) /\ <<u, v>> \in edges
<1>1. ASSUME Walk(s, v, k + 1)
      PROVE  \E u \in Vertex : Walk(s, u, k) /\ <<u, v>> \in edges
  <2>1. PICK path \in [0 .. k + 1 -> Vertex] :
          /\ path[0] = s /\ path[k + 1] = v
          /\ \A i \in 1 .. k + 1 : <<path[i - 1], path[i]>> \in edges
    BY <1>1 DEF Walk
  <2>. DEFINE q == [i \in 0 .. k |-> path[i]]
  <2>2. q \in [0 .. k -> Vertex] /\ q[0] = s /\ q[k] = path[k] /\ path[k] \in Vertex
    BY <2>1
  <2>3. \A i \in 1 .. k : <<q[i - 1], q[i]>> \in edges
    BY <2>1
  <2>4. <<path[k], v>> \in edges
    <3>1. k + 1 \in 1 .. k + 1 /\ (k + 1) - 1 = k
      OBVIOUS
    <3>. QED  BY <2>1, <3>1
  <2>5. Walk(s, path[k], k)
    <3>. HIDE DEF q
    <3>. QED  BY <2>2, <2>3 DEF Walk
  <2>. QED  BY <2>2, <2>4, <2>5
<1>2. ASSUME NEW u \in Vertex, Walk(s, u, k), <<u, v>> \in edges
      PROVE  Walk(s, v, k + 1)
  <2>1. PICK path \in [0 .. k -> Vertex] :
          /\ path[0] = s /\ path[k] = u
          /\ \A i \in 1 .. k : <<path[i - 1], path[i]>> \in edges
    BY <1>2 DEF Walk
  <2>. DEFINE q == [i \in 0 .. k + 1 |-> IF i = k + 1 THEN v ELSE path[i]]
  <2>2. q \in [0 .. k + 1 -> Vertex] /\ q[0] = s /\ q[k + 1] = v
    BY <1>2, <2>1 DEF EdgesOK
  <2>3. \A i \in 1 .. k + 1 : <<q[i - 1], q[i]>> \in edges
    BY <1>2, <2>1
  <2>. HIDE DEF q
  <2>. QED  BY <2>2, <2>3 DEF Walk
<1>. QED  BY <1>1, <1>2

\* The lengths of the walks to a vertex from a seed, the shortest, and the pairs
\* that k citations suffice for.
AllLengths(p) == {k \in Nat : Walk(p[2], p[1], k)}
Shortest(p) == Min(AllLengths(p))
Within(k) == {p \in Vertex \X Seed : \E j \in 0 .. k : Walk(p[2], p[1], j)}

LEMMA WithinIs ==
  ASSUME NEW k \in Nat, NEW p \in Vertex \X Seed
  PROVE  p \in Within(k) <=> AllLengths(p) # {} /\ Shortest(p) <= k
<1>1. AllLengths(p) \in SUBSET Nat
  BY DEF AllLengths
<1>2. ASSUME p \in Within(k) PROVE AllLengths(p) # {} /\ Shortest(p) <= k
  <2>1. PICK j \in 0 .. k : j \in AllLengths(p)
    BY <1>2 DEF Within, AllLengths
  <2>. QED  BY <1>1, <2>1, MinIs DEF Shortest
<1>3. ASSUME AllLengths(p) # {}, Shortest(p) <= k PROVE p \in Within(k)
  <2>1. Shortest(p) \in AllLengths(p) /\ Shortest(p) \in 0 .. k
    BY <1>1, <1>3, MinIs DEF Shortest
  <2>. QED  BY <2>1 DEF Within, AllLengths
<1>. QED  BY <1>2, <1>3

LEMMA ShortestIs ==
  ASSUME NEW p, AllLengths(p) # {}
  PROVE  /\ Shortest(p) \in Nat /\ Walk(p[2], p[1], Shortest(p))
         /\ \A k \in Nat : Walk(p[2], p[1], k) => Shortest(p) <= k
<1>1. AllLengths(p) \in SUBSET Nat
  BY DEF AllLengths
<1>. QED  BY <1>1, MinIs DEF AllLengths, Shortest

\* A vertex that is farther than its seed is cited by one that is nearer by one.
LEMMA Nearer ==
  ASSUME EdgesOK, NEW v \in Vertex, NEW s \in Seed, NEW k \in Nat,
         AllLengths(<<v, s>>) # {}, Shortest(<<v, s>>) = k + 1
  PROVE  \E u \in Vertex :
           /\ <<u, v>> \in edges /\ Walk(s, u, k)
           /\ AllLengths(<<u, s>>) # {} /\ Shortest(<<u, s>>) = k
<1>1. Walk(s, v, k + 1)
  BY ShortestIs
<1>2. PICK u \in Vertex : Walk(s, u, k) /\ <<u, v>> \in edges
  BY <1>1, WalkStep
<1>3. AllLengths(<<u, s>>) # {}
  BY <1>2 DEF AllLengths
<1>4. /\ Shortest(<<u, s>>) \in Nat /\ Shortest(<<u, s>>) <= k
      /\ Walk(s, u, Shortest(<<u, s>>))
  BY <1>2, <1>3, ShortestIs
<1>5. Walk(s, v, Shortest(<<u, s>>) + 1)
  BY <1>2, <1>4, WalkStep
<1>6. k + 1 <= Shortest(<<u, s>>) + 1
  BY <1>4, <1>5, ShortestIs
<1>. QED  BY <1>2, <1>3, <1>4, <1>6

----------------------------------------------------------------------------
(* One round *)

\* Reducing rows that are walks of at most k citations, with all the shortest ones
\* among them, leaves these.
LEMMA ReducedIs ==
  ASSUME NEW k \in Nat, NEW rows,
         \A r \in rows : /\ r[1] \in Vertex /\ r[2] \in Seed /\ r[3] \in 0 .. k
                         /\ Walk(r[2], r[1], r[3]),
         \A p \in Within(k) : <<p[1], p[2], Shortest(p)>> \in rows
  PROVE  ReducedByKey(rows) = [p \in Within(k) |-> Shortest(p)]
<1>1. {<<r[1], r[2]>> : r \in rows} = Within(k)
  <2>1. ASSUME NEW r \in rows PROVE <<r[1], r[2]>> \in Within(k)
    BY DEF Within
  <2>2. ASSUME NEW p \in Within(k) PROVE \E r \in rows : p = <<r[1], r[2]>>
    <3>1. p = <<p[1], p[2]>>
      BY DEF Within
    <3>. QED  BY <3>1
  <2>. QED  BY <2>1, <2>2
<1>2. ASSUME NEW p \in Within(k)
      PROVE  Min({r[3] : r \in {q \in rows : <<q[1], q[2]>> = p}}) = Shortest(p)
  <2>. DEFINE T == {r[3] : r \in {q \in rows : <<q[1], q[2]>> = p}}
  <2>1. p \in Vertex \X Seed /\ p = <<p[1], p[2]>>
    BY DEF Within
  <2>2. Shortest(p) \in T
    <3>. DEFINE r == <<p[1], p[2], Shortest(p)>>
    <3>1. r \in rows /\ <<r[1], r[2]>> = p /\ r[3] = Shortest(p)
      BY <2>1
    <3>. HIDE DEF r
    <3>. QED  BY <3>1
  <2>3. AllLengths(p) # {}
    BY <2>1, WithinIs
  <2>4. ASSUME NEW d \in T PROVE d \in Nat /\ Shortest(p) <= d
    <3>1. PICK r \in rows : r[3] = d /\ p[1] = r[1] /\ p[2] = r[2]
      BY <2>1
    <3>2. d \in Nat /\ Walk(p[2], p[1], d)
      BY <3>1
    <3>. QED  BY <2>3, <3>2, ShortestIs
  <2>. HIDE DEF T
  <2>5. T \in SUBSET Nat
    BY <2>4
  <2>6. Min(T) = Shortest(p)
    BY <2>2, <2>4, <2>5, MinFrom
  <2>. QED  BY <2>6 DEF T
<1>. QED  BY <1>1, <1>2 DEF ReducedByKey

\* The distances after k rounds, and the rows that the last of them has made.
After(k) ==
  /\ EdgesOK
  /\ distances = [p \in Within(k) |-> Shortest(p)]

LastStepIs(k) ==
  last_step = {r \in Vertex \X Seed \X {k} : Walk(r[2], r[1], k)}

LEMMA RowsAre ==
  ASSUME NEW k \in Nat, After(k)
  PROVE  /\ \A r \in Rows(distances) :
              /\ r[1] \in Vertex /\ r[2] \in Seed /\ r[3] \in 0 .. k
              /\ Walk(r[2], r[1], r[3])
         /\ \A p \in Within(k) : <<p[1], p[2], Shortest(p)>> \in Rows(distances)
<1>1. DOMAIN distances = Within(k) /\ \A p \in Within(k) : distances[p] = Shortest(p)
  BY DEF After
<1>2. ASSUME NEW p \in Within(k)
      PROVE  /\ p \in Vertex \X Seed /\ <<p[1], p[2]>> = p
             /\ Shortest(p) \in 0 .. k /\ Walk(p[2], p[1], Shortest(p))
  <2>1. p \in Vertex \X Seed /\ <<p[1], p[2]>> = p
    BY DEF Within
  <2>. QED  BY <2>1, WithinIs, ShortestIs
<1>. QED  BY <1>1, <1>2 DEF Rows

LEMMA SeedInVertex == Seed \subseteq Vertex
BY LcaAssumption DEF Seed

\* Both programs have the shortest distances of one more round: lca.py extends every
\* row, lca_improved.py only the rows of the last round.
LEMMA RoundIs ==
  ASSUME NEW k \in Nat, After(k), NEW rows,
         \A r \in rows : /\ r[1] \in Vertex /\ r[2] \in Seed /\ r[3] \in 0 .. k
                         /\ Walk(r[2], r[1], r[3]),
         \A v \in Vertex, s \in Seed :
           Walk(s, v, k) /\ Shortest(<<v, s>>) = k => <<v, s, k>> \in rows
  PROVE  ReducedByKey(Rows(distances) \cup JoinedWithEdges(rows))
           = [p \in Within(k + 1) |-> Shortest(p)]
<1>. DEFINE all == Rows(distances) \cup JoinedWithEdges(rows)
<1>1. ASSUME NEW r \in JoinedWithEdges(rows)
      PROVE  /\ r[1] \in Vertex /\ r[2] \in Seed /\ r[3] \in 0 .. k + 1
             /\ Walk(r[2], r[1], r[3])
  <2>1. PICK q \in rows, e \in edges : e[1] = q[1] /\ r = <<e[2], q[2], q[3] + 1>>
    BY DEF JoinedWithEdges
  <2>2. e \in Vertex \X Vertex /\ e = <<e[1], e[2]>>
    BY DEF After, EdgesOK
  <2>3. /\ q[1] \in Vertex /\ q[2] \in Seed /\ q[3] \in Nat /\ q[3] <= k
        /\ Walk(q[2], q[1], q[3])
    OBVIOUS
  <2>4. Walk(q[2], e[2], q[3] + 1)
    BY <2>1, <2>2, <2>3, WalkStep DEF After
  <2>. QED  BY <2>1, <2>2, <2>3, <2>4
<1>2. ASSUME NEW r \in all
      PROVE  /\ r[1] \in Vertex /\ r[2] \in Seed /\ r[3] \in 0 .. k + 1
             /\ Walk(r[2], r[1], r[3])
  <2>1. CASE r \in Rows(distances)
    BY <2>1, RowsAre
  <2>2. CASE r \in JoinedWithEdges(rows)
    BY <2>2, <1>1
  <2>. QED  BY <2>1, <2>2
<1>3. ASSUME NEW p \in Within(k + 1) PROVE <<p[1], p[2], Shortest(p)>> \in all
  <2>1. CASE p \in Within(k)
    BY <2>1, RowsAre
  <2>2. CASE p \notin Within(k)
    <3>1. PICK v \in Vertex, s \in Seed : p = <<v, s>>
      BY DEF Within
    <3>2. AllLengths(p) # {} /\ Shortest(p) <= k + 1 /\ ~(Shortest(p) <= k)
          /\ Shortest(p) \in Nat
      <4>1. AllLengths(p) # {} /\ Shortest(p) <= k + 1
        BY <3>1, WithinIs
      <4>2. ~(Shortest(p) <= k)
        BY <2>2, <3>1, <4>1, WithinIs
      <4>. QED  BY <4>1, <4>2, ShortestIs
    <3>3. Shortest(<<v, s>>) = k + 1
      BY <3>1, <3>2
    <3>4. PICK u \in Vertex : /\ <<u, v>> \in edges /\ Walk(s, u, k)
                              /\ Shortest(<<u, s>>) = k
      BY <3>1, <3>2, <3>3, Nearer DEF After
    <3>5. <<u, s, k>> \in rows
      BY <3>4
    <3>6. <<v, s, k + 1>> \in JoinedWithEdges(rows)
      <4>. DEFINE r == <<u, s, k>>
                  e == <<u, v>>
      <4>1. /\ r \in rows /\ e \in {x \in edges : x[1] = r[1]}
            /\ <<v, s, k + 1>> = <<e[2], r[2], r[3] + 1>>
        BY <3>4, <3>5
      <4>. HIDE DEF r, e
      <4>. QED  BY <4>1 DEF JoinedWithEdges
    <3>. QED  BY <3>1, <3>3, <3>6
  <2>. QED  BY <2>1, <2>2
<1>. HIDE DEF all
<1>4. ReducedByKey(all) = [p \in Within(k + 1) |-> Shortest(p)]
  BY <1>2, <1>3, ReducedIs
<1>. QED  BY <1>4 DEF all

----------------------------------------------------------------------------
(* The rounds *)

\* The count of the round before, of which there is none before the first.
CountsAre(k) ==
  /\ new_count = Cardinality(Within(k))
  /\ old_count = IF k = 0 THEN 0 ELSE Cardinality(Within(k - 1))

\* What has been computed when the program is done.
ResultIs ==
  finished =>
    /\ old_count = new_count
    /\ lca = [p \in {q \in SeedPairs : Accestors(q[1], q[2]) # {}} |->
                LET found == Accestors(p[1], p[2])
                    first == CHOOSE a \in found : TRUE
                IN FoldSet(CompareAccestors, first, found)]

PapersOK == DOMAIN papers \subseteq Vertex /\ papers \in [DOMAIN papers -> Int]

IInv ==
  /\ bfs_round \in Nat \ {0}
  /\ PapersOK
  /\ \A k \in Nat : bfs_round = k + 1 => After(k) /\ LastStepIs(k) /\ CountsAre(k)
  /\ ResultIs

LEMMA WithinFinite ==
  ASSUME NEW k \in Nat
  PROVE  IsFiniteSet(Within(k)) /\ Within(k) \subseteq Within(k + 1)
<1>1. IsFiniteSet(Vertex) /\ Seed \subseteq Vertex
  BY LcaAssumption DEF Seed
<1>2. IsFiniteSet(Vertex \X Seed)
  BY <1>1, FS_Subset, FS_Product
<1>3. Within(k) \subseteq Vertex \X Seed
  BY DEF Within
<1>4. \A j \in 0 .. k : j \in 0 .. k + 1
  OBVIOUS
<1>. QED  BY <1>2, <1>3, <1>4, FS_Subset DEF Within

\* Before the first round each seed has reached itself.
LEMMA InitRound ==
  ASSUME EdgesOK
  PROVE  /\ Within(0) = {<<s, s>> : s \in Seed}
         /\ \A p \in Within(0) : Shortest(p) = 0
         /\ Cardinality(Within(0)) = N
<1>1. \A s \in Seed, v \in Vertex : Walk(s, v, 0) <=> v = s
  BY WalkZero, SeedInVertex
<1>2. Within(0) = {<<s, s>> : s \in Seed}
  <2>1. 0 .. 0 = {0}
    OBVIOUS
  <2>2. ASSUME NEW p \in Within(0) PROVE \E s \in Seed : p = <<s, s>>
    BY <1>1, <2>1 DEF Within
  <2>3. ASSUME NEW s \in Seed PROVE <<s, s>> \in Within(0)
    BY <1>1, <2>1, SeedInVertex DEF Within
  <2>. QED  BY <2>2, <2>3
<1>3. ASSUME NEW p \in Within(0) PROVE Shortest(p) = 0
  <2>1. p \in Vertex \X Seed
    BY DEF Within
  <2>2. AllLengths(p) # {} /\ Shortest(p) <= 0
    BY <2>1, WithinIs
  <2>3. Shortest(p) \in Nat
    BY <2>2, ShortestIs
  <2>. QED  BY <2>2, <2>3
<1>4. Cardinality(Within(0)) = N
  <2>1. IsFiniteSet(Seed) /\ Cardinality(Seed) = N
    <3>1. N \in Nat /\ 0 \in Int /\ N - 1 \in Int
      BY LcaAssumption
    <3>2. (IF 0 > N - 1 THEN 0 ELSE (N - 1) - 0 + 1) = N
      BY <3>1
    <3>. QED  BY <3>1, <3>2, FS_Interval DEF Seed
  <2>. DEFINE f == [s \in Seed |-> <<s, s>>]
  <2>2. f \in Bijection(Seed, Within(0))
    BY <1>2 DEF Bijection, Injection, Surjection, IsInjective
  <2>3. ExistsBijection(Seed, Within(0))
    BY <2>2 DEF ExistsBijection
  <2>. QED  BY <2>1, <2>3, FS_Bijection
<1>. QED  BY <1>2, <1>3, <1>4

LEMMA IInvInit == ImprovedInit => IInv
<1>. SUFFICES ASSUME ImprovedInit PROVE IInv
  OBVIOUS
<1>1. EdgesOK /\ PapersOK
  BY LcaAssumption DEF ImprovedInit, Init, EdgesOK, PapersOK
<1>2. /\ bfs_round = 1 /\ 1 - 1 = 0 /\ finished = FALSE
      /\ new_count = N /\ old_count = 0
      /\ last_step = {<<s, s, 0>> : s \in Seed}
      /\ distances = [p \in {<<s, s>> : s \in Seed} |-> 0]
  BY DEF ImprovedInit, Init
<1>3. After(0)
  BY <1>1, <1>2, InitRound DEF After
<1>4. LastStepIs(0)
  <2>1. \A s \in Seed, v \in Vertex : Walk(s, v, 0) <=> v = s
    BY WalkZero, SeedInVertex
  <2>. QED  BY <1>2, <2>1, SeedInVertex DEF LastStepIs
<1>5. CountsAre(0)
  BY <1>1, <1>2, InitRound DEF CountsAre
<1>6. \A k \in Nat : bfs_round = k + 1 => k = 0
  BY <1>2
<1>. QED  BY <1>1, <1>2, <1>3, <1>4, <1>5, <1>6 DEF IInv, ResultIs

\* What does not change: the graph, and so the walks in it.
LEMMA SameWalks ==
  ASSUME UNCHANGED edges
  PROVE  /\ EdgesOK' <=> EdgesOK
         /\ \A s, v, k : Walk(s, v, k)' <=> Walk(s, v, k)
         /\ \A p : Shortest(p)' = Shortest(p)
         /\ \A k : Within(k)' = Within(k)
<1>1. \A s, v, k : Walk(s, v, k)' <=> Walk(s, v, k)
  BY DEF Walk
<1>2. \A p : AllLengths(p)' = AllLengths(p)
  BY <1>1 DEF AllLengths
<1>. QED  BY <1>1, <1>2 DEF EdgesOK, Shortest, Within

\* A round of lca_improved.py computes what a round of lca.py computes, the shortest
\* distances of one more round.
LEMMA ImprovedRoundIs ==
  ASSUME IInv, ImprovedRound
  PROVE  /\ distances' = [p \in Within(bfs_round) |-> Shortest(p)]
         /\ ReducedByKey(JoinedWithEdges(Rows(distances)) \cup Rows(distances))
              = [p \in Within(bfs_round) |-> Shortest(p)]
         /\ last_step' = {r \in Vertex \X Seed \X {bfs_round} : Walk(r[2], r[1], bfs_round)}
         /\ UNCHANGED <<data, lca, finished>>
         /\ old_count' = new_count /\ new_count' = Cardinality(DOMAIN distances')
         /\ bfs_round' = bfs_round + 1
<1>. DEFINE k == bfs_round - 1
<1>1. k \in Nat /\ k + 1 = bfs_round /\ After(k) /\ LastStepIs(k)
  BY DEF IInv
<1>. HIDE DEF k
<1>2. \A r \in last_step : /\ r[1] \in Vertex /\ r[2] \in Seed /\ r[3] = k
                           /\ Walk(r[2], r[1], r[3])
  BY <1>1 DEF LastStepIs
<1>3. \A v \in Vertex, s \in Seed : Walk(s, v, k) => <<v, s, k>> \in last_step
  BY <1>1 DEF LastStepIs
<1>4. ReducedByKey(Rows(distances) \cup JoinedWithEdges(last_step))
        = [p \in Within(bfs_round) |-> Shortest(p)]
  <2>1. \A r \in last_step : /\ r[1] \in Vertex /\ r[2] \in Seed /\ r[3] \in 0 .. k
                             /\ Walk(r[2], r[1], r[3])
    BY <1>1, <1>2
  <2>. QED  BY <1>1, <1>3, <2>1, RoundIs
<1>5. ReducedByKey(Rows(distances) \cup JoinedWithEdges(Rows(distances)))
        = [p \in Within(bfs_round) |-> Shortest(p)]
  <2>1. ASSUME NEW v \in Vertex, NEW s \in Seed, Walk(s, v, k), Shortest(<<v, s>>) = k
        PROVE  <<v, s, k>> \in Rows(distances)
    <3>1. <<v, s>> \in Within(k)
      BY <1>1, <2>1 DEF Within
    <3>. QED  BY <1>1, <2>1, <3>1, RowsAre
  <2>. QED  BY <1>1, <2>1, RowsAre, RoundIs
<1>6. /\ distances' = [p \in Within(bfs_round) |-> Shortest(p)]
      /\ last_step' = Filtered(JoinedWithEdges(last_step))
      /\ UNCHANGED <<data, lca, finished>>
      /\ old_count' = new_count /\ new_count' = Cardinality(DOMAIN distances')
      /\ bfs_round' = bfs_round + 1
  BY <1>4 DEF ImprovedRound, Counted
<1>7. last_step' = {r \in Vertex \X Seed \X {bfs_round} : Walk(r[2], r[1], bfs_round)}
  <2>1. ASSUME NEW r \in JoinedWithEdges(last_step)
        PROVE  /\ r \in Vertex \X Seed \X {bfs_round} /\ r[3] = bfs_round
               /\ Walk(r[2], r[1], bfs_round)
    <3>1. PICK q \in last_step, e \in edges :
            e[1] = q[1] /\ r = <<e[2], q[2], q[3] + 1>>
      BY DEF JoinedWithEdges
    <3>2. e \in Vertex \X Vertex /\ e = <<e[1], e[2]>>
      BY <1>1 DEF After, EdgesOK
    <3>3. q[1] \in Vertex /\ q[2] \in Seed /\ q[3] = k /\ Walk(q[2], q[1], k)
      BY <1>2
    <3>4. Walk(q[2], e[2], k + 1)
      BY <1>1, <3>1, <3>2, <3>3, WalkStep DEF After
    <3>. QED  BY <1>1, <3>1, <3>2, <3>3, <3>4
  <2>2. ASSUME NEW v \in Vertex, NEW s \in Seed, Walk(s, v, bfs_round)
        PROVE  <<v, s, bfs_round>> \in JoinedWithEdges(last_step)
    <3>1. PICK u \in Vertex : Walk(s, u, k) /\ <<u, v>> \in edges
      BY <1>1, <2>2, WalkStep DEF After
    <3>. DEFINE r == <<u, s, k>>
                e == <<u, v>>
    <3>2. /\ r \in last_step /\ e \in {x \in edges : x[1] = r[1]}
          /\ <<v, s, bfs_round>> = <<e[2], r[2], r[3] + 1>>
      BY <1>1, <1>3, <3>1
    <3>. HIDE DEF r, e
    <3>. QED  BY <3>2 DEF JoinedWithEdges
  <2>. QED  BY <1>6, <2>1, <2>2 DEF Filtered
<1>. QED  BY <1>4, <1>5, <1>6, <1>7

\* What ancestors there are is a matter of the distances and the papers.
LEMMA SameAccestors ==
  ASSUME UNCHANGED <<distances, papers>>
  PROVE  \A s1, s2 : Accestors(s1, s2)' = Accestors(s1, s2)
BY DEF Accestors, TransformAccestors

\* A step that computes no distances.
LEMMA IInvNoRound ==
  ASSUME IInv,
         UNCHANGED <<edges, papers, distances, old_count, new_count, last_step, bfs_round>>,
         ReduceAccestors \/ UNCHANGED <<lca, finished>>
  PROVE  IInv'
<1>1. bfs_round' \in Nat \ {0} /\ PapersOK'
  BY DEF IInv, PapersOK
<1>2. ASSUME NEW k \in Nat, bfs_round' = k + 1
      PROVE  After(k)' /\ LastStepIs(k)' /\ CountsAre(k)'
  <2>1. After(k) /\ LastStepIs(k) /\ CountsAre(k)
    BY <1>2 DEF IInv
  <2>2. After(k)'
    BY <2>1, SameWalks DEF After
  <2>3. LastStepIs(k)'
    BY <2>1, SameWalks DEF LastStepIs
  <2>4. CountsAre(k)'
    BY <2>1, SameWalks DEF CountsAre
  <2>. QED  BY <2>2, <2>3, <2>4
<1>3. ResultIs'
  <2>1. \A s1, s2 : Accestors(s1, s2)' = Accestors(s1, s2)
    BY SameAccestors
  <2>2. CASE ReduceAccestors
    BY <2>1, <2>2 DEF ResultIs, ReduceAccestors
  <2>3. CASE UNCHANGED <<lca, finished>>
    BY <2>1, <2>3 DEF ResultIs, IInv
  <2>. QED  BY <2>2, <2>3
<1>. QED  BY <1>1, <1>2, <1>3 DEF IInv

LEMMA IInvNext ==
  ASSUME IInv, [ImprovedNext \/ ImprovedDone]_improvedVars
  PROVE  IInv'
<1>1. CASE ImprovedRound
  <2>1. bfs_round \in Nat \ {0} /\ PapersOK /\ ~finished
    BY <1>1 DEF IInv, ImprovedRound
  <2>2. /\ distances' = [p \in Within(bfs_round) |-> Shortest(p)]
        /\ last_step' = {r \in Vertex \X Seed \X {bfs_round} : Walk(r[2], r[1], bfs_round)}
        /\ UNCHANGED <<edges, papers, finished>>
        /\ old_count' = new_count /\ new_count' = Cardinality(DOMAIN distances')
        /\ bfs_round' = bfs_round + 1
    BY <1>1, ImprovedRoundIs DEF data
  <2>3. EdgesOK'
    <3>1. EdgesOK
      <4>1. bfs_round - 1 \in Nat /\ bfs_round = (bfs_round - 1) + 1
        BY <2>1
      <4>. QED  BY <4>1 DEF IInv, After
    <3>. QED  BY <2>2, <3>1 DEF EdgesOK
  <2>4. ASSUME NEW k \in Nat, bfs_round' = k + 1
        PROVE  After(k)' /\ LastStepIs(k)' /\ CountsAre(k)'
    <3>1. k = bfs_round /\ k # 0 /\ k - 1 \in Nat /\ bfs_round = (k - 1) + 1
      BY <2>1, <2>2, <2>4
    <3>2. After(k)'
      BY <2>2, <2>3, <3>1, SameWalks DEF After
    <3>3. LastStepIs(k)'
      BY <2>2, <3>1, SameWalks DEF LastStepIs
    <3>4. new_count = Cardinality(Within(k - 1))
      BY <3>1 DEF IInv, CountsAre
    <3>5. CountsAre(k)'
      BY <2>2, <3>1, <3>4, SameWalks DEF CountsAre
    <3>. QED  BY <3>2, <3>3, <3>5
  <2>. QED  BY <2>1, <2>2, <2>4 DEF IInv, PapersOK, ResultIs
<1>2. CASE ImprovedReduce
  BY <1>2, IInvNoRound DEF ImprovedReduce, ReduceAccestors, data
<1>3. CASE UNCHANGED improvedVars
  BY <1>3, IInvNoRound DEF improvedVars, vars, data
<1>. QED  BY <1>1, <1>2, <1>3 DEF ImprovedNext, ImprovedDone

\* In every state the distances are the shortest that bfs_round - 1 citations allow.
THEOREM InvariantHolds == ImprovedSpec => []IInv
BY IInvInit, IInvNext, PTL DEF ImprovedSpec

\* A round of lca_improved.py is a round of lca.py: the rows it does not extend any
\* more would have given no distance that is shorter (lca_improved.py:59-71).
THEOREM ImplementsLcaHolds == ImprovedSpec => ImplementsLca
<1>1. ImprovedInit => Init
  BY DEF ImprovedInit
<1>2. ASSUME IInv, [ImprovedNext \/ ImprovedDone]_improvedVars
      PROVE  [Next \/ Done]_vars
  <2>1. CASE ImprovedRound
    <3>1. /\ ReducedByKey(JoinedWithEdges(Rows(distances)) \cup Rows(distances)) = distances'
          /\ ~finished /\ old_count # new_count
          /\ UNCHANGED <<data, lca, finished>>
          /\ old_count' = new_count /\ new_count' = Cardinality(DOMAIN distances')
      BY <1>2, <2>1, ImprovedRoundIs DEF ImprovedRound
    <3>. QED  BY <3>1 DEF Next, BfsRound, Counted
  <2>2. CASE ImprovedReduce
    BY <2>2 DEF ImprovedReduce, Next
  <2>3. CASE UNCHANGED improvedVars
    BY <2>3 DEF improvedVars
  <2>. QED  BY <1>2, <2>1, <2>2, <2>3 DEF ImprovedNext, ImprovedDone
<1>. QED  BY <1>1, <1>2, InvariantHolds, PTL DEF ImprovedSpec, ImplementsLca, Spec

----------------------------------------------------------------------------
(* The distances *)

\* A distance that a vertex has is one that vertices on the way have, down to 0.
LEMMA EveryDistanceIsOne ==
  ASSUME EdgesOK, NEW s \in Seed, NEW v \in Vertex, AllLengths(<<v, s>>) # {},
         NEW j \in 0 .. Shortest(<<v, s>>)
  PROVE  \E u \in Vertex : AllLengths(<<u, s>>) # {} /\ Shortest(<<u, s>>) = j
<1>. DEFINE m == Shortest(<<v, s>>)
            At(i) == \E u \in Vertex : AllLengths(<<u, s>>) # {} /\ Shortest(<<u, s>>) = i
            Missed == {i \in 0 .. m : ~At(m - i)}
<1>1. m \in Nat /\ j \in 0 .. m
  BY ShortestIs
<1>2. At(m)
  OBVIOUS
<1>. HIDE DEF m, At
<1>3. ASSUME NEW i \in Missed PROVE FALSE
  <2>1. Missed \in SUBSET Nat /\ Missed # {}
    <3>1. Missed # {}
      BY <1>3
    <3>2. 0 .. m \subseteq Nat
      BY <1>1
    <3>3. Missed \subseteq 0 .. m
      OBVIOUS
    <3>. QED  BY <3>1, <3>2, <3>3
  <2>2. PICK n \in Missed : \A h \in Missed : n <= h
    <3>. HIDE DEF Missed
    <3>. QED  BY <2>1, LeastNatural
  <2>3. n \in 0 .. m /\ ~At(m - n) /\ n # 0
    BY <1>1, <1>2, <2>2
  <2>4. n - 1 \in 0 .. m /\ ~(n <= n - 1) /\ m - (n - 1) = (m - n) + 1 /\ m - n \in Nat
    BY <1>1, <2>3
  <2>5. At((m - n) + 1)
    BY <2>2, <2>4
  <2>6. PICK u \in Vertex : AllLengths(<<u, s>>) # {} /\ Shortest(<<u, s>>) = (m - n) + 1
    BY <2>5 DEF At
  <2>7. At(m - n)
    BY <2>4, <2>6, Nearer DEF At
  <2>. QED  BY <2>3, <2>7
<1>4. m - j \in 0 .. m /\ m - (m - j) = j
  BY <1>1
<1>5. At(j)
  BY <1>3, <1>4
<1>. QED  BY <1>5 DEF At

\* A shortest path visits no vertex twice.
LEMMA ShortestIsShort ==
  ASSUME EdgesOK, NEW s \in Seed, NEW v \in Vertex, AllLengths(<<v, s>>) # {}
  PROVE  Shortest(<<v, s>>) \in 0 .. Cardinality(Vertex) - 1
<1>. DEFINE m == Shortest(<<v, s>>)
            f == [j \in 0 .. m |-> CHOOSE u \in Vertex : Shortest(<<u, s>>) = j]
<1>1. m \in Nat
  BY ShortestIs
<1>2. \A j \in 0 .. m : f[j] \in Vertex /\ Shortest(<<f[j], s>>) = j
  BY EveryDistanceIsOne
<1>3. f \in [0 .. m -> Vertex]
  BY <1>2
<1>. HIDE DEF f, m
<1>4. f \in Injection(0 .. m, Vertex)
  <2>1. ASSUME NEW i \in 0 .. m, NEW j \in 0 .. m, f[i] = f[j] PROVE i = j
    BY <1>2, <2>1
  <2>. QED  BY <1>3, <2>1 DEF Injection, IsInjective
<1>5. IsFiniteSet(Vertex)
  BY LcaAssumption
<1>6. Cardinality(0 .. m) <= Cardinality(Vertex) /\ Cardinality(Vertex) \in Nat
  BY <1>4, <1>5, FS_Injection, FS_CardinalityType
<1>7. Cardinality(0 .. m) = m + 1
  <2>1. 0 \in Int /\ m \in Int /\ ~(0 > m) /\ (m - 0) + 1 = m + 1
    BY <1>1
  <2>2. Cardinality(0 .. m) = IF 0 > m THEN 0 ELSE m - 0 + 1
    BY <2>1, FS_Interval
  <2>. QED  BY <2>1, <2>2
<1>. QED  BY <1>1, <1>6, <1>7 DEF m

\* So the paths that the properties look at are enough.
LEMMA LengthsAre ==
  ASSUME EdgesOK, NEW s \in Seed, NEW v \in Vertex
  PROVE  /\ Lengths(s, v) # {} <=> AllLengths(<<v, s>>) # {}
         /\ Lengths(s, v) # {} => Min(Lengths(s, v)) = Shortest(<<v, s>>)
<1>1. Cardinality(Vertex) \in Nat
  BY LcaAssumption, FS_CardinalityType
<1>2. Lengths(s, v) \subseteq AllLengths(<<v, s>>) /\ Lengths(s, v) \in SUBSET Nat
  BY <1>1 DEF Lengths, AllLengths
<1>3. ASSUME AllLengths(<<v, s>>) # {}
      PROVE  Shortest(<<v, s>>) \in Lengths(s, v)
    BY <1>3, ShortestIs, ShortestIsShort DEF Lengths
<1>4. ASSUME AllLengths(<<v, s>>) # {}
      PROVE  Min(Lengths(s, v)) = Shortest(<<v, s>>)
  <2>1. \A k \in Lengths(s, v) : Shortest(<<v, s>>) <= k
    BY <1>2, <1>4, ShortestIs DEF AllLengths
  <2>. QED  BY <1>2, <1>3, <1>4, <2>1, MinFrom
<1>. QED  BY <1>2, <1>3, <1>4

\* A round that has found no new pair was the last that could: what a seed reaches it
\* has reached.
LEMMA NothingNew ==
  ASSUME EdgesOK, NEW k \in Nat, CountsAre(k), old_count = new_count,
         NEW p \in Vertex \X Seed
  PROVE  p \in Within(k) <=> AllLengths(p) # {}
<1>1. CASE k = 0
  <2>1. N = 0
    BY <1>1, InitRound DEF CountsAre
  <2>. QED  BY <2>1 DEF Seed
<1>2. CASE k # 0
  <2>1. k - 1 \in Nat /\ (k - 1) + 1 = k
    BY <1>2
  <2>2. Cardinality(Within(k)) = Cardinality(Within(k - 1))
    BY <1>2 DEF CountsAre
  <2>3. Within(k) = Within(k - 1)
    <3>1. IsFiniteSet(Within(k)) /\ Within(k - 1) \in SUBSET Within(k)
      BY <2>1, WithinFinite
    <3>. QED  BY <2>2, <3>1, FS_Subset
  <2>. DEFINE Missed == {m \in Nat : \E q \in Vertex \X Seed :
                           AllLengths(q) # {} /\ q \notin Within(k) /\ Shortest(q) = m}
  <2>4. ASSUME AllLengths(p) # {}, p \notin Within(k) PROVE FALSE
    <3>1. Missed \in SUBSET Nat /\ Missed # {}
      BY <2>4, ShortestIs
    <3>2. PICK m \in Missed : \A n \in Missed : m <= n
      <4>. HIDE DEF Missed
      <4>. QED  BY <3>1, LeastNatural
    <3>3. PICK v \in Vertex, s \in Seed :
            /\ AllLengths(<<v, s>>) # {} /\ <<v, s>> \notin Within(k)
            /\ Shortest(<<v, s>>) = m
      BY <3>2
    <3>4. m \in Nat /\ ~(m <= k)
      BY <3>3, <3>2, WithinIs
    <3>5. m - 1 \in Nat /\ m = (m - 1) + 1 /\ ~(m <= m - 1) /\ ~(m - 1 <= k - 1)
      BY <3>4, <2>1
    <3>6. PICK u \in Vertex : AllLengths(<<u, s>>) # {} /\ Shortest(<<u, s>>) = m - 1
      <4>1. PICK n \in Nat : n = m - 1 /\ Shortest(<<v, s>>) = n + 1
        BY <3>3, <3>5
      <4>2. AllLengths(<<v, s>>) # {}
        BY <3>3
      <4>. HIDE DEF Missed
      <4>3. \E u \in Vertex : AllLengths(<<u, s>>) # {} /\ Shortest(<<u, s>>) = n
        BY <4>1, <4>2, Nearer, ZenonT(20)
      <4>. QED  BY <4>1, <4>3
    <3>7. <<u, s>> \in Within(k)
      BY <3>2, <3>5, <3>6
    <3>8. Shortest(<<u, s>>) <= k - 1
      BY <2>1, <2>3, <3>7, WithinIs
    <3>. QED  BY <3>5, <3>6, <3>8
  <2>. QED  BY <2>4, WithinIs
<1>. QED  BY <1>1, <1>2

LEMMA DistancesAre ==
  ASSUME IInv
  PROVE  /\ EdgesOK
         /\ \A p \in DOMAIN distances :
              p \in Vertex \X Seed /\ AllLengths(p) # {} /\ distances[p] = Shortest(p)
         /\ finished => DOMAIN distances = {p \in Vertex \X Seed : AllLengths(p) # {}}
<1>. DEFINE k == bfs_round - 1
<1>1. k \in Nat /\ bfs_round = k + 1
  BY DEF IInv
<1>. HIDE DEF k
<1>2. After(k) /\ CountsAre(k)
  BY <1>1 DEF IInv
<1>3. DOMAIN distances = Within(k) /\ Within(k) \subseteq Vertex \X Seed
  BY <1>2 DEF After, Within
<1>4. \A p \in DOMAIN distances :
        p \in Vertex \X Seed /\ AllLengths(p) # {} /\ distances[p] = Shortest(p)
  BY <1>1, <1>2, <1>3, WithinIs DEF After
<1>5. ASSUME finished
      PROVE  DOMAIN distances = {p \in Vertex \X Seed : AllLengths(p) # {}}
  <2>1. old_count = new_count
    BY <1>5 DEF IInv, ResultIs
  <2>2. \A p \in Vertex \X Seed : p \in Within(k) <=> AllLengths(p) # {}
    BY <1>1, <1>2, <2>1, NothingNew DEF After
  <2>. QED  BY <1>3, <2>2
<1>. QED  BY <1>2, <1>4, <1>5 DEF After

\* Every distance is the length of a shortest path, in every round, and when the counts
\* agree none is missing (lca.py:59-74).
THEOREM ShortestDistancesHolds == ImprovedSpec => []ShortestDistances
<1>1. ASSUME IInv PROVE ShortestDistances
  <2>. DEFINE lengths == [p \in Vertex \X Seed |-> Lengths(p[2], p[1])]
  <2>1. ASSUME NEW p \in Vertex \X Seed
        PROVE  /\ lengths[p] # {} <=> AllLengths(p) # {}
               /\ lengths[p] # {} => Min(lengths[p]) = Shortest(p)
    <3>1. p[1] \in Vertex /\ p[2] \in Seed /\ p = <<p[1], p[2]>>
      OBVIOUS
    <3>2. EdgesOK
      BY <1>1, DistancesAre
    <3>. QED  BY <3>1, <3>2, LengthsAre
  <2>2. DOMAIN lengths = Vertex \X Seed
    OBVIOUS
  <2>. HIDE DEF lengths
  <2>3. \A p \in DOMAIN distances : lengths[p] # {} /\ distances[p] = Min(lengths[p])
    BY <1>1, <2>1, DistancesAre
  <2>4. finished => DOMAIN distances = {p \in DOMAIN lengths : lengths[p] # {}}
    BY <1>1, <2>1, <2>2, DistancesAre
  <2>. QED  BY <2>3, <2>4 DEF ShortestDistances, lengths
<1>. QED  BY <1>1, InvariantHolds, PTL

----------------------------------------------------------------------------
(* The ancestors *)

Row == Int \X Int \X Int

\* The order that compare_accestors goes by: distance, year, number.
NoLater(a, b) ==
  \/ a[2] < b[2]
  \/ a[2] = b[2] /\ a[3] < b[3]
  \/ a[2] = b[2] /\ a[3] = b[3] /\ a[1] <= b[1]

\* compare_accestors takes the earlier of two rows, and the order is a total one.
LEMMA CompareIs ==
  ASSUME NEW a \in Row, NEW b \in Row
  PROVE  CompareAccestors(a, b) = IF NoLater(a, b) THEN a ELSE b
<1>1. /\ a = <<a[1], a[2], a[3]>> /\ a[1] \in Int /\ a[2] \in Int /\ a[3] \in Int
      /\ b = <<b[1], b[2], b[3]>> /\ b[1] \in Int /\ b[2] \in Int /\ b[3] \in Int
  BY DEF Row
<1>2. CASE a[2] = b[2] /\ a[3] = b[3] /\ a[1] = b[1]
  <2>1. a = b
    BY <1>1, <1>2
  <2>. QED  BY <2>1 DEF CompareAccestors
<1>3. CASE ~(a[2] = b[2] /\ a[3] = b[3] /\ a[1] = b[1])
  BY <1>1, <1>3 DEF CompareAccestors, NoLater
<1>. QED  BY <1>2, <1>3

LEMMA NoLaterOrder ==
  /\ \A a \in Row : NoLater(a, a)
  /\ \A a, b \in Row : NoLater(a, b) \/ NoLater(b, a)
  /\ \A a, b \in Row : NoLater(a, b) /\ NoLater(b, a) => a = b
  /\ \A a, b, c \in Row : NoLater(a, b) /\ NoLater(b, c) => NoLater(a, c)
<1>1. \A a \in Row : /\ a = <<a[1], a[2], a[3]>>
                     /\ a[1] \in Int /\ a[2] \in Int /\ a[3] \in Int
  BY DEF Row
<1>2. \A a, b \in Row : NoLater(a, b) /\ NoLater(b, a) => a = b
  <2>. SUFFICES ASSUME NEW a \in Row, NEW b \in Row, NoLater(a, b), NoLater(b, a)
                PROVE  a = b
    OBVIOUS
  <2>1. a[1] = b[1] /\ a[2] = b[2] /\ a[3] = b[3]
    BY <1>1 DEF NoLater
  <2>. QED  BY <1>1, <2>1
<1>3. ASSUME NEW a \in Row, NEW b \in Row, NEW c \in Row, NoLater(a, b), NoLater(b, c)
      PROVE  NoLater(a, c)
  BY <1>1, <1>3 DEF NoLater
<1>. QED  BY <1>1, <1>2, <1>3 DEF NoLater

\* The first row of a set.
IsFirst(a, rows) == a \in rows /\ \A b \in rows : NoLater(a, b)

LEMMA FirstOfTwo ==
  ASSUME NEW rows \in SUBSET Row, NEW x \in rows, NEW a, IsFirst(a, rows \ {x})
  PROVE  IsFirst(CompareAccestors(x, a), rows)
<1>1. a \in Row /\ x \in Row /\ a \in rows
  BY DEF IsFirst
<1>2. CompareAccestors(x, a) = IF NoLater(x, a) THEN x ELSE a
  BY <1>1, CompareIs
<1>3. CASE NoLater(x, a)
  BY <1>1, <1>2, <1>3, NoLaterOrder DEF IsFirst
<1>4. CASE ~NoLater(x, a)
  BY <1>1, <1>2, <1>4, NoLaterOrder DEF IsFirst
<1>. QED  BY <1>3, <1>4

LEMMA FirstUnique ==
  ASSUME NEW rows \in SUBSET Row, NEW a, NEW b, IsFirst(a, rows), IsFirst(b, rows)
  PROVE  a = b
BY NoLaterOrder DEF IsFirst

\* Every finite set that is not empty has one: the smallest that has none would have
\* one without any one of its rows.
LEMMA FirstExists ==
  ASSUME NEW rows \in SUBSET Row, IsFiniteSet(rows), rows # {}
  PROVE  \E a : IsFirst(a, rows)
<1>. DEFINE Bad == {s \in SUBSET rows : s # {} /\ ~\E a : IsFirst(a, s)}
            Sizes == {Cardinality(s) : s \in Bad}
<1>1. ASSUME rows \in Bad PROVE FALSE
  <2>1. Sizes \in SUBSET Nat /\ Sizes # {}
    <3>1. \A s \in SUBSET rows : Cardinality(s) \in Nat
      BY FS_Subset, FS_CardinalityType
    <3>. QED  BY <1>1, <3>1
  <2>2. PICK m \in Sizes : \A n \in Sizes : m <= n
    <3>. HIDE DEF Sizes
    <3>. QED  BY <2>1, LeastNatural
  <2>3. PICK s \in Bad : Cardinality(s) = m
    OBVIOUS
  <2>4. s \in SUBSET Row /\ s # {} /\ ~\E a : IsFirst(a, s)
    BY <2>3
  <2>5. PICK x \in s : TRUE
    BY <2>4
  <2>6. IsFiniteSet(s) /\ s \ {x} \in SUBSET rows
    BY <2>3, FS_Subset
  <2>7. Cardinality(s \ {x}) = m - 1 /\ m \in Nat
    BY <2>1, <2>3, <2>6, FS_RemoveElement
  <2>8. s \ {x} \notin Bad
    <3>. SUFFICES ASSUME s \ {x} \in Bad PROVE FALSE
      OBVIOUS
    <3>1. m - 1 \in Sizes
      BY <2>7
    <3>. HIDE DEF Sizes
    <3>. QED  BY <2>2, <2>7, <3>1
  <2>9. CASE s \ {x} = {}
    <3>1. s = {x} /\ x \in Row
      BY <2>4, <2>9
    <3>2. IsFirst(x, s)
      BY <3>1, NoLaterOrder DEF IsFirst
    <3>. QED  BY <2>4, <3>2
  <2>10. CASE s \ {x} # {}
    <3>1. PICK a : IsFirst(a, s \ {x})
      BY <2>6, <2>8, <2>10
    <3>2. IsFirst(CompareAccestors(x, a), s)
      BY <2>4, <3>1, FirstOfTwo
    <3>. QED  BY <2>4, <3>2
  <2>. QED  BY <2>9, <2>10
<1>. QED  BY <1>1

\* reduceByKey in any order leaves the first row: the recursion of the fold has one
\* solution.
LEMMA FoldIsFirst ==
  ASSUME NEW rows \in SUBSET Row, IsFiniteSet(rows), NEW first \in rows
  PROVE  IsFirst(FoldSet(CompareAccestors, first, rows), rows)
<1>. DEFINE Some(s) == CHOOSE x \in s : TRUE
            Unrolled(f, s) ==
              IF s = {} THEN first ELSE CompareAccestors(Some(s), f[s \ {Some(s)}])
            FirstOf(s) == CHOOSE a : IsFirst(a, s \cup {first})
            best == [s \in SUBSET rows |-> FirstOf(s)]
            iter == CHOOSE f : f = [s \in SUBSET rows |-> Unrolled(f, s)]
<1>1. FoldSet(CompareAccestors, first, rows) = iter[rows]
  BY DEF FoldSet, MapThenFoldSet
<1>2. ASSUME NEW s \in SUBSET rows
      PROVE  IsFiniteSet(s) /\ Cardinality(s) \in Nat /\ IsFirst(best[s], s \cup {first})
  <2>1. IsFiniteSet(s) /\ Cardinality(s) \in Nat
    BY FS_Subset, FS_CardinalityType
  <2>2. s \cup {first} \in SUBSET rows
    OBVIOUS
  <2>3. IsFiniteSet(s \cup {first}) /\ s \cup {first} \in SUBSET Row /\ s \cup {first} # {}
    BY <2>2, FS_Subset
  <2>4. \E a : IsFirst(a, s \cup {first})
    BY <2>3, FirstExists
  <2>. QED  BY <2>1, <2>4
<1>3. ASSUME NEW s \in SUBSET rows, s # {}
      PROVE  Some(s) \in s /\ s \ {Some(s)} \in SUBSET rows
  BY <1>3
<1>. HIDE DEF Some, FirstOf
<1>4. ASSUME NEW s \in SUBSET rows PROVE best[s] = Unrolled(best, s)
  <2>1. IsFirst(best[s], s \cup {first}) /\ s \cup {first} \in SUBSET Row
    BY <1>2
  <2>. HIDE DEF best
  <2>2. CASE s = {}
    <3>1. best[s] = first
      BY <2>1, <2>2 DEF IsFirst
    <3>. QED  BY <2>2, <3>1
  <2>3. CASE s # {}
    <3>. DEFINE x == Some(s)
                rest == s \ {x}
    <3>1. x \in s /\ rest \in SUBSET rows
      BY <1>3, <2>3
    <3>2. IsFirst(best[rest], rest \cup {first})
      BY <1>2, <3>1
    <3>3. IsFirst(CompareAccestors(x, best[rest]), s \cup {first})
      <4>. HIDE DEF x
      <4>1. CASE x = first
        <5>1. rest \cup {first} = s \cup {first} /\ x \in Row
          BY <3>1, <4>1
        <5>2. best[rest] \in Row /\ best[rest] \in s \cup {first} /\ NoLater(best[rest], x)
          BY <2>1, <3>2, <4>1, <5>1 DEF IsFirst
        <5>3. CompareAccestors(x, best[rest]) = best[rest]
          BY <5>1, <5>2, CompareIs, NoLaterOrder
        <5>. QED  BY <3>2, <5>1, <5>3
      <4>2. CASE x # first
        <5>1. (s \cup {first}) \ {x} = rest \cup {first} /\ x \in s \cup {first}
          BY <3>1, <4>2
        <5>. QED  BY <2>1, <3>2, <5>1, FirstOfTwo
      <4>. QED  BY <4>1, <4>2
    <3>4. best[s] = CompareAccestors(x, best[rest])
      <4>. HIDE DEF x, rest
      <4>. QED  BY <2>1, <3>3, FirstUnique
    <3>. QED  BY <2>3, <3>4
  <2>. QED  BY <2>2, <2>3
<1>5. best = [s \in SUBSET rows |-> Unrolled(best, s)]
  <2>1. best = [s \in SUBSET rows |-> best[s]]
    OBVIOUS
  <2>. HIDE DEF best, Unrolled
  <2>. QED  BY <1>4, <2>1
<1>6. iter = [s \in SUBSET rows |-> Unrolled(iter, s)]
  BY <1>5
<1>. HIDE DEF best, iter
<1>7. ASSUME NEW s \in SUBSET rows, iter[s] # best[s] PROVE FALSE
  <2>. DEFINE Differ == {u \in SUBSET rows : iter[u] # best[u]}
              Sizes == {Cardinality(u) : u \in Differ}
  <2>1. Sizes \in SUBSET Nat /\ Sizes # {}
    BY <1>2, <1>7
  <2>2. PICK m \in Sizes : \A n \in Sizes : m <= n
    <3>. HIDE DEF Sizes
    <3>. QED  BY <2>1, LeastNatural
  <2>3. PICK u \in SUBSET rows : iter[u] # best[u] /\ Cardinality(u) = m
    BY <2>2
  <2>4. iter[u] = Unrolled(iter, u) /\ best[u] = Unrolled(best, u)
    <3>. HIDE DEF Unrolled
    <3>. QED  BY <1>5, <1>6, <2>3
  <2>5. u # {}
    BY <2>3, <2>4
  <2>6. u \ {Some(u)} \in SUBSET rows /\ Cardinality(u \ {Some(u)}) = m - 1 /\ m \in Nat
    <3>1. IsFiniteSet(u) /\ m \in Nat
      BY <1>2, <2>3
    <3>2. Some(u) \in u /\ u \ {Some(u)} \in SUBSET rows
      BY <1>3, <2>3, <2>5
    <3>3. Cardinality(u \ {Some(u)}) = Cardinality(u) - 1
      BY <3>1, <3>2, FS_RemoveElement
    <3>. QED  BY <2>3, <3>1, <3>2, <3>3
  <2>7. u \ {Some(u)} \notin Differ
    <3>. SUFFICES ASSUME u \ {Some(u)} \in Differ PROVE FALSE
      OBVIOUS
    <3>1. m - 1 \in Sizes
      BY <2>6
    <3>. HIDE DEF Sizes
    <3>. QED  BY <2>2, <2>6, <3>1
  <2>8. iter[u \ {Some(u)}] = best[u \ {Some(u)}]
    BY <2>6, <2>7
  <2>. QED  BY <2>3, <2>4, <2>5, <2>8
<1>8. iter[rows] = best[rows] /\ IsFirst(best[rows], rows \cup {first})
  BY <1>2, <1>7
<1>9. rows \cup {first} = rows
  OBVIOUS
<1>. QED  BY <1>1, <1>8, <1>9

\* When the program is done, the rows that are reduced are those of the common
\* ancestors, each with its cost.
LEMMA AccestorsAre ==
  ASSUME IInv, finished, NEW s1 \in Seed, NEW s2 \in Seed
  PROVE  /\ \A v \in Common(s1, s2) :
              LET row == TransformAccestors(v, s1, s2)
              IN /\ v \in Int /\ row \in Row /\ row[1] = v
                 /\ <<row[2], row[3], v>> = Cost(v, s1, s2)
         /\ Accestors(s1, s2) = {TransformAccestors(v, s1, s2) : v \in Common(s1, s2)}
         /\ IsFiniteSet(Accestors(s1, s2))
<1>1. EdgesOK /\ PapersOK
  BY DistancesAre DEF IInv
<1>2. ASSUME NEW v \in Vertex, NEW s \in Seed
      PROVE  /\ <<v, s>> \in DOMAIN distances <=> Lengths(s, v) # {}
             /\ Lengths(s, v) # {} => /\ distances[<<v, s>>] = Min(Lengths(s, v))
                                     /\ distances[<<v, s>>] \in Nat
  <2>1. <<v, s>> \in DOMAIN distances <=> AllLengths(<<v, s>>) # {}
    BY DistancesAre
  <2>2. <<v, s>> \in DOMAIN distances => distances[<<v, s>>] = Shortest(<<v, s>>)
    BY DistancesAre
  <2>3. AllLengths(<<v, s>>) # {} => Shortest(<<v, s>>) \in Nat
    BY ShortestIs
  <2>. QED  BY <1>1, <2>1, <2>2, <2>3, LengthsAre
<1>3. {u \in DOMAIN papers : {<<u, s1>>, <<u, s2>>} \subseteq DOMAIN distances}
        = Common(s1, s2)
  BY <1>1, <1>2 DEF Common, PapersOK
<1>4. Accestors(s1, s2) = {TransformAccestors(v, s1, s2) : v \in Common(s1, s2)}
  BY <1>3 DEF Accestors
<1>5. ASSUME NEW v \in Common(s1, s2)
      PROVE  LET row == TransformAccestors(v, s1, s2)
             IN /\ v \in Int /\ row \in Row /\ row[1] = v
                /\ <<row[2], row[3], v>> = Cost(v, s1, s2)
  <2>1. v \in Vertex /\ v \in Int /\ papers[v] \in Int
    BY <1>1, LcaAssumption DEF Common, PapersOK
  <2>2. Lengths(s1, v) # {} /\ Lengths(s2, v) # {}
    BY DEF Common
  <2>. DEFINE a == distances[<<v, s1>>]
              b == distances[<<v, s2>>]
  <2>3. /\ a \in Int /\ a = Min(Lengths(s1, v))
        /\ b \in Int /\ b = Min(Lengths(s2, v))
    BY <1>2, <2>1, <2>2
  <2>. HIDE DEF a, b
  <2>4. Max({a, b}) \in Int
    BY <2>3, MaxIs
  <2>5. TransformAccestors(v, s1, s2) = <<v, Max({a, b}), papers[v]>>
    BY DEF TransformAccestors, a, b
  <2>6. Cost(v, s1, s2) = <<Max({a, b}), papers[v], v>>
    BY <2>3 DEF Cost
  <2>. QED  BY <2>1, <2>4, <2>5, <2>6 DEF Row
<1>6. IsFiniteSet(Accestors(s1, s2))
  <2>. DEFINE f == [v \in Common(s1, s2) |-> TransformAccestors(v, s1, s2)]
  <2>1. IsFiniteSet(Common(s1, s2))
    <3>1. Common(s1, s2) \in SUBSET Vertex
      BY <1>1 DEF Common, PapersOK
    <3>. QED  BY <3>1, LcaAssumption, FS_Subset
  <2>2. f \in Surjection(Common(s1, s2), Accestors(s1, s2))
    BY <1>4 DEF Surjection
  <2>. QED  BY <2>1, <2>2, FS_Surjection
<1>. QED  BY <1>4, <1>5, <1>6

\* An earlier row is one of a lower cost.
LEMMA EarlierIsLower ==
  ASSUME NEW a \in Row, NEW b \in Row, NoLater(a, b), a[1] # b[1]
  PROVE  Lower(<<a[2], a[3], a[1]>>, <<b[2], b[3], b[1]>>)
<1>. DEFINE c == <<a[2], a[3], a[1]>>
            d == <<b[2], b[3], b[1]>>
<1>1. /\ a[1] \in Int /\ a[2] \in Int /\ a[3] \in Int
      /\ b[1] \in Int /\ b[2] \in Int /\ b[3] \in Int
  BY DEF Row
<1>2. /\ c[1] = a[2] /\ c[2] = a[3] /\ c[3] = a[1]
      /\ d[1] = b[2] /\ d[2] = b[3] /\ d[3] = b[1]
  OBVIOUS
<1>. HIDE DEF c, d
<1>3. \E i \in 1 .. 3 : c[i] < d[i] /\ \A j \in 1 .. i - 1 : c[j] = d[j]
  <2>1. CASE a[2] < b[2]
    <3>1. 1 \in 1 .. 3 /\ c[1] < d[1] /\ 1 .. 1 - 1 = {}
      BY <1>2, <2>1
    <3>. QED  BY <3>1
  <2>2. CASE a[2] = b[2] /\ a[3] < b[3]
    <3>1. 2 \in 1 .. 3 /\ c[2] < d[2] /\ 1 .. 2 - 1 = {1} /\ c[1] = d[1]
      BY <1>2, <2>2
    <3>. QED  BY <3>1
  <2>3. CASE a[2] = b[2] /\ a[3] = b[3] /\ a[1] < b[1]
    <3>1. 3 \in 1 .. 3 /\ c[3] < d[3] /\ 1 .. 3 - 1 = {1, 2} /\ c[1] = d[1] /\ c[2] = d[2]
      BY <1>2, <2>3
    <3>. QED  BY <3>1
  <2>. QED  BY <1>1, <2>1, <2>2, <2>3 DEF NoLater
<1>. QED  BY <1>3 DEF Lower, c, d

\* The ancestor written for two seeds is the lowest that they have in common: the
\* nearest, of these the oldest, of these the one with the smallest number; two seeds
\* that have one have a row (lca.py:80-104).
THEOREM LowestAncestorsHolds == ImprovedSpec => []LowestAncestors
<1>1. ASSUME IInv, finished, NEW p \in SeedPairs
      PROVE  /\ p[1] \in Seed /\ p[2] \in Seed
             /\ Accestors(p[1], p[2]) # {} <=> Common(p[1], p[2]) # {}
  <2>1. p[1] \in Seed /\ p[2] \in Seed
    BY DEF SeedPairs
  <2>2. Accestors(p[1], p[2]) =
          {TransformAccestors(v, p[1], p[2]) : v \in Common(p[1], p[2])}
    BY <1>1, <2>1, AccestorsAre
  <2>. QED  BY <2>1, <2>2
<1>2. ASSUME IInv, finished
      PROVE  /\ DOMAIN lca = {p \in SeedPairs : Common(p[1], p[2]) # {}}
             /\ \A p \in DOMAIN lca :
                  IsFirst(lca[p], Accestors(p[1], p[2]))
  <2>. DEFINE found(p) == Accestors(p[1], p[2])
              first(p) == CHOOSE a \in found(p) : TRUE
              result(p) == FoldSet(CompareAccestors, first(p), found(p))
  <2>1. lca = [p \in {q \in SeedPairs : found(q) # {}} |-> result(p)]
    BY <1>2 DEF IInv, ResultIs
  <2>2. ASSUME NEW p \in SeedPairs, found(p) # {}
        PROVE  IsFirst(result(p), found(p))
    <3>1. first(p) \in found(p)
      BY <2>2
    <3>2. found(p) \in SUBSET Row /\ IsFiniteSet(found(p))
      <4>1. p[1] \in Seed /\ p[2] \in Seed
        BY <1>1, <1>2
      <4>. QED  BY <1>2, <4>1, AccestorsAre
    <3>. HIDE DEF found, first
    <3>. QED  BY <3>1, <3>2, FoldIsFirst
  <2>. HIDE DEF result
  <2>3. DOMAIN lca = {p \in SeedPairs : found(p) # {}}
    BY <2>1
  <2>4. \A p \in DOMAIN lca : lca[p] = result(p)
    BY <2>1
  <2>. QED  BY <1>1, <1>2, <2>2, <2>3, <2>4
<1>3. ASSUME IInv, finished, NEW p \in SeedPairs,
             NEW a, IsFirst(a, Accestors(p[1], p[2]))
      PROVE  /\ <<a[2], a[3], a[1]>> = Cost(a[1], p[1], p[2])
             /\ \A u \in Common(p[1], p[2]) \ {a[1]} :
                  Lower(Cost(a[1], p[1], p[2]), Cost(u, p[1], p[2]))
  <2>. DEFINE row(v) == TransformAccestors(v, p[1], p[2])
              cost(v) == Cost(v, p[1], p[2])
  <2>1. p[1] \in Seed /\ p[2] \in Seed
    BY <1>1, <1>3
  <2>2. /\ \A v \in Common(p[1], p[2]) :
             /\ v \in Int /\ row(v) \in Row /\ row(v)[1] = v
             /\ <<row(v)[2], row(v)[3], v>> = cost(v)
        /\ Accestors(p[1], p[2]) = {row(v) : v \in Common(p[1], p[2])}
    BY <1>3, <2>1, AccestorsAre
  <2>. HIDE DEF row, cost
  <2>3. PICK v \in Common(p[1], p[2]) : a = row(v)
    BY <1>3, <2>2 DEF IsFirst
  <2>4. a \in Row /\ a[1] = v /\ <<a[2], a[3], a[1]>> = cost(v)
    BY <2>2, <2>3
  <2>5. ASSUME NEW u \in Common(p[1], p[2]) \ {v} PROVE Lower(cost(v), cost(u))
    <3>1. row(u) \in Row /\ row(u)[1] = u /\ NoLater(a, row(u))
      BY <1>3, <2>2 DEF IsFirst
    <3>2. cost(u) = <<row(u)[2], row(u)[3], row(u)[1]>>
      BY <2>2, <3>1
    <3>. QED  BY <2>4, <3>1, <3>2, EarlierIsLower
  <2>. QED  BY <2>4, <2>5 DEF cost
<1>4. IInv => LowestAncestors
  <2>. SUFFICES ASSUME IInv, finished
                PROVE  /\ DOMAIN lca = {p \in SeedPairs : Common(p[1], p[2]) # {}}
                       /\ \A p \in DOMAIN lca :
                            /\ <<lca[p][2], lca[p][3], lca[p][1]>>
                                  = Cost(lca[p][1], p[1], p[2])
                            /\ \A u \in Common(p[1], p[2]) \ {lca[p][1]} :
                                 Lower(Cost(lca[p][1], p[1], p[2]), Cost(u, p[1], p[2]))
    BY DEF LowestAncestors
  <2>1. DOMAIN lca = {p \in SeedPairs : Common(p[1], p[2]) # {}}
    BY <1>2
  <2>2. ASSUME NEW p \in DOMAIN lca
        PROVE  /\ <<lca[p][2], lca[p][3], lca[p][1]>> = Cost(lca[p][1], p[1], p[2])
               /\ \A u \in Common(p[1], p[2]) \ {lca[p][1]} :
                    Lower(Cost(lca[p][1], p[1], p[2]), Cost(u, p[1], p[2]))
    <3>1. p \in SeedPairs /\ IsFirst(lca[p], Accestors(p[1], p[2]))
      BY <1>2, <2>1
    <3>. QED  BY <1>3, <3>1
  <2>. QED  BY <2>1, <2>2
<1>. QED  BY <1>4, InvariantHolds, PTL
=============================================================================
