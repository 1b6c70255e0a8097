-------------------------------- MODULE Lca ---------------------------------
(***************************************************************************)
(* The lowest common ancestors of problemset3 (lca.py): rounds that extend *)
(* the distances from the seeds by one citation, until a round finds no    *)
(* new pair of a vertex and a seed, and then the choice of one ancestor    *)
(* for every two seeds.  An RDD is the set of its rows: the order of the   *)
(* rows and how often one occurs make no difference to what is computed.   *)
(***************************************************************************)
EXTENDS Integers, FiniteSets, FiniteSetsExt

CONSTANTS
  Vertex,     \* the papers that are cited or cite
  N,          \* the seeds are 0 .. N - 1
  Cites,      \* the sets of citations that cites.csv may hold
  Papers      \* the functions from papers to years that papers.csv may hold

ASSUME LcaAssumption ==
  /\ N \in Nat /\ 0 .. N - 1 \subseteq Vertex
  /\ Vertex \subseteq Int /\ IsFiniteSet(Vertex)
  /\ \A c \in Cites : c \subseteq Vertex \X Vertex
  /\ \A p \in Papers : DOMAIN p \subseteq Vertex /\ p \in [DOMAIN p -> Int]

VARIABLES
  edges,        \* a set of <<v1, v2>>
  papers,       \* [a set of vertices -> year]
  distances,    \* [a set of <<vertex, seed>> -> distance]
  old_count,
  new_count,
  lca,          \* [a set of pairs of seeds -> <<ancestor, distance, year>>]
  finished

data == <<edges, papers>>
vars == <<data, distances, old_count, new_count, lca, finished>>

Seed == 0 .. N - 1

Init ==
  /\ edges \in Cites
  /\ papers \in Papers
  /\ distances = [p \in {<<s, s>> : s \in Seed} |-> 0]
  /\ old_count = 0
  /\ new_count = N
  /\ lca = <<>>
  /\ finished = FALSE

\* The rows <<vertex, seed, distance>> of a distances RDD, and the RDD made of
\* such rows.
Rows(dist) == {<<p[1], p[2], dist[p]>> : p \in DOMAIN dist}

\* Mutant: the larger distance stays.
ReducedLargest(rows) ==
  [p \in {<<r[1], r[2]>> : r \in rows} |->
     Max({r[3] : r \in {q \in rows : <<q[1], q[2]>> = p}})]

ReducedByKey(rows) ==
  [p \in {<<r[1], r[2]>> : r \in rows} |->
     Min({r[3] : r \in {q \in rows : <<q[1], q[2]>> = p}})]

\* rows.join(edges): every row extended by every edge that leaves its vertex.
JoinedWithEdges(rows) ==
  UNION {{<<e[2], r[2], r[3] + 1>> : e \in {x \in edges : x[1] = r[1]}} : r \in rows}

\* Mutant: the count before the round is not kept.
CountedOnce(next) ==
  /\ distances' = next
  /\ new_count' = Cardinality(DOMAIN next)
  /\ UNCHANGED <<data, old_count, lca, finished>>

\* What a round does besides computing the next distances.
Counted(next) ==
  /\ distances' = next
  /\ old_count' = new_count
  /\ new_count' = Cardinality(DOMAIN next)
  /\ UNCHANGED <<data, lca, finished>>

BfsRound ==
  /\ ~finished
  /\ old_count # new_count
  /\ Counted(ReducedByKey(JoinedWithEdges(Rows(distances)) \cup Rows(distances)))

\* transform_accestors: an ancestor of two seeds is as far as the farther one.
\* Both of its rows carry the year of v, and papers gives it only one, so the
\* assertion y1 == y2 holds by what is assumed of the file of papers.
TransformAccestors(v, s1, s2) ==
  <<v, Max({distances[<<v, s1>>], distances[<<v, s2>>]}), papers[v]>>

\* Mutant: the newer of two papers is preferred.
CompareNewest(v1, v2) ==
  IF v1[2] # v2[2] THEN IF v1[2] < v2[2] THEN v1 ELSE v2
  ELSE IF v1[3] # v2[3] THEN IF v1[3] > v2[3] THEN v1 ELSE v2
  ELSE IF v1[1] < v2[1] THEN v1 ELSE v2

\* compare_accestors: by distance, then by year, then by number.
CompareAccestors(v1, v2) ==
  IF v1[2] # v2[2] THEN IF v1[2] < v2[2] THEN v1 ELSE v2
  ELSE IF v1[3] # v2[3] THEN IF v1[3] < v2[3] THEN v1 ELSE v2
  ELSE IF v1[1] < v2[1] THEN v1 ELSE v2

\* The self-join of the distances of the vertices that have a paper.
Accestors(s1, s2) ==
  {TransformAccestors(v, s1, s2) :
     v \in {u \in DOMAIN papers : {<<u, s1>>, <<u, s2>>} \subseteq DOMAIN distances}}

SeedPairs == {p \in Seed \X Seed : p[1] < p[2]}

ReduceAccestors ==
  /\ ~finished
  /\ old_count = new_count
  /\ lca' = [p \in {q \in SeedPairs : Accestors(q[1], q[2]) # {}} |->
               LET found == Accestors(p[1], p[2])
                   first == CHOOSE a \in found : TRUE
               IN FoldSet(CompareAccestors, first, found)]
  /\ finished' = TRUE
  /\ UNCHANGED <<data, distances, old_count, new_count>>

Done == finished /\ UNCHANGED vars

Next == BfsRound \/ ReduceAccestors

Spec == Init /\ [][Next \/ Done]_vars
-----------------------------------------------------------------------------
(***************************************************************************)
(* What the paths of the citation graph say (write_up.tex:23-33).          *)
(***************************************************************************)
Walk(s, v, k) ==
  \E path \in [0 .. k -> Vertex] :
    path[0] = s /\ path[k] = v /\ \A i \in 1 .. k : <<path[i - 1], path[i]>> \in edges

\* No shortest path is longer.
Lengths(s, v) == {k \in 0 .. Cardinality(Vertex) - 1 : Walk(s, v, k)}

\* Cost of a common ancestor, weighed with ties broken by year and number: no
\* two vertices have the same.
Cost(v, s1, s2) ==
  <<Max({Min(Lengths(s1, v)), Min(Lengths(s2, v))}), papers[v], v>>

Lower(c1, c2) ==
  \E i \in 1 .. 3 : c1[i] < c2[i] /\ \A j \in 1 .. i - 1 : c1[j] = c2[j]

\* Common ancestors: what both seeds reach, and what papers.csv lists.
Common(s1, s2) ==
  {v \in DOMAIN papers : Lengths(s1, v) # {} /\ Lengths(s2, v) # {}}

\* Every distance is the length of a shortest path, even between two rounds,
\* although a round looks at one more citation only; and when a round found no
\* new pair, every vertex that some seed reaches has its distance
\* (lca.py:59-74).
ShortestDistances ==
  LET lengths == [p \in Vertex \X Seed |-> Lengths(p[2], p[1])]
  IN /\ \A p \in DOMAIN distances :
          lengths[p] # {} /\ distances[p] = Min(lengths[p])
     /\ finished => DOMAIN distances = {p \in DOMAIN lengths : lengths[p] # {}}

\* The ancestor written for two seeds has the least cost of all that they have
\* in common, and two seeds without one have no row (lca.py:80-104).
LowestAncestors ==
  finished =>
    /\ DOMAIN lca = {p \in SeedPairs : Common(p[1], p[2]) # {}}
    /\ \A p \in DOMAIN lca :
         LET cost(v) == Cost(v, p[1], p[2])
             v == lca[p][1]
         IN /\ <<lca[p][2], lca[p][3], v>> = cost(v)
            /\ \A u \in Common(p[1], p[2]) \ {v} : Lower(cost(v), cost(u))

\* The rounds come to an end, on graphs with cycles too, and the result is
\* written (lca.py:59, :103).
Terminates == <>finished
=============================================================================
