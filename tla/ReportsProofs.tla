--------------------------- MODULE ReportsProofs ---------------------------
(***************************************************************************)
(* Proofs about the views over a published world, for any number of        *)
(* artifacts, links, types and collections, and any caps.                  *)
(***************************************************************************)
EXTENDS Reports, FiniteSetTheorems, SequenceTheorems, WellFoundedInduction, TLAPS

-----------------------------------------------------------------------------
(***************************************************************************)
(* What can be reached.  Ball is a recursive function, so what it gives is *)
(* proved by induction over the number of steps: of the steps at which a   *)
(* claim failed there would be a least one.                                *)
(***************************************************************************)

LEMMA LeastOne == ASSUME NEW S \in SUBSET Nat, S # {} PROVE \E n \in S : \A m \in S : n <= m
PROOF
  <1> DEFINE R == {ss \in Nat \X Nat : ss[1] < ss[2]}
  <1>1. R = OpToRel(<, Nat)
    BY DEF OpToRel
  <1>2. IsWellFoundedOn(R, Nat)
    BY <1>1, NatLessThanWellFounded
  <1> HIDE DEF R
  <1>3. PICK n \in S : \A m \in S : <<m, n>> \notin R
    BY <1>2, WFMin, Zenon
  <1>4. \A m \in S : <<m, n>> \in Nat \X Nat /\ (m < n => <<m, n>> \in R)
    BY DEF R
  <1>5. \A m \in S : n <= m
    <2>1. \A m \in S : m \in Nat /\ n \in Nat /\ ~(m < n)
      BY <1>3, <1>4
    <2> QED
      BY <2>1
  <1> QED
    BY <1>5

\* Induction over the numbers, with the set of those it holds of in hand.
LEMMA ByInduction ==
    ASSUME NEW S \in SUBSET Nat, 0 \in S, \A k \in S : k + 1 \in S
    PROVE  S = Nat
PROOF
  <1> SUFFICES ASSUME S # Nat PROVE FALSE
    OBVIOUS
  <1> DEFINE out == Nat \ S
  <1>1. out \in SUBSET Nat /\ out # {}
    OBVIOUS
  <1>2. PICK n \in out : \A m \in out : n <= m
    <2> HIDE DEF out
    <2> QED
      BY <1>1, LeastOne
  <1>3. n \in Nat /\ n # 0 /\ n \notin S
    BY <1>2
  <1>4. n - 1 \in Nat /\ (n - 1) + 1 = n /\ ~(n <= n - 1)
    BY <1>3
  <1>5. n - 1 \in S
    BY <1>2, <1>4
  <1> QED
    BY <1>3, <1>4, <1>5

\* One step further over the relation.
Spread(R, N) == N \cup {r[2] : r \in {q \in R : q[1] \in N}}

IsBall(f, R, N, k) ==
    f = [i \in 0..k |-> IF i = 0 THEN N ELSE f[i - 1] \cup {r[2] : r \in {q \in R : q[1] \in f[i - 1]}}]

LEMMA BallAt ==
    ASSUME NEW f, NEW R, NEW N, NEW k \in Nat, IsBall(f, R, N, k)
    PROVE  /\ f[0] = N
           /\ \A i \in 0..k : i # 0 => f[i] = Spread(R, f[i - 1])
PROOF
  <1>1. f = [i \in 0..k |-> IF i = 0 THEN N ELSE f[i - 1] \cup {r[2] : r \in {q \in R : q[1] \in f[i - 1]}}]
    BY DEF IsBall
  <1> DEFINE g(i) == IF i = 0 THEN N ELSE f[i - 1] \cup {r[2] : r \in {q \in R : q[1] \in f[i - 1]}}
  <1>2. f = [i \in 0..k |-> g(i)]
    BY <1>1
  <1>3. g(0) = N /\ \A i \in 0..k : i # 0 => g(i) = Spread(R, f[i - 1])
    BY DEF Spread
  <1> HIDE DEF g
  <1>4. 0 \in 0..k
    OBVIOUS
  <1>5. \A i \in 0..k : f[i] = g(i)
    BY <1>2
  <1> QED
    BY <1>3, <1>4, <1>5

LEMMA BallIs ==
    ASSUME NEW R, NEW N, NEW k \in Nat, NEW f, IsBall(f, R, N, k)
    PROVE \E g : IsBall(g, R, N, k) /\ Ball(R, N, k) = g[k]
PROOF
  <1> DEFINE g == CHOOSE h : IsBall(h, R, N, k)
  <1>1. IsBall(g, R, N, k)
    OBVIOUS
  <1>2. Ball(R, N, k) = g[k]
    BY DEF Ball, IsBall
  <1> QED
    BY <1>1, <1>2

LEMMA BallExists ==
    ASSUME NEW R, NEW N
    PROVE  \A k \in Nat : \E f : IsBall(f, R, N, k)
PROOF
  <1> DEFINE S == {k \in Nat : \E f : IsBall(f, R, N, k)}
  <1>1. 0 \in S
    <2> DEFINE f == [i \in 0..0 |-> N]
    <2>1. \A i \in 0..0 : i = 0
      OBVIOUS
    <2>2. IsBall(f, R, N, 0)
      BY <2>1 DEF IsBall
    <2> QED
      BY <2>2
  <1>2. ASSUME NEW k \in S PROVE k + 1 \in S
    <2>1. PICK f : IsBall(f, R, N, k)
      BY <1>2
    <2> DEFINE g == [i \in 0..k + 1 |-> IF i <= k THEN f[i] ELSE Spread(R, f[k])]
               step(h, i) == IF i = 0 THEN N ELSE h[i - 1] \cup {r[2] : r \in {q \in R : q[1] \in h[i - 1]}}
    <2>2. f[0] = N /\ \A i \in 0..k : i # 0 => f[i] = Spread(R, f[i - 1])
      BY <2>1, BallAt
    <2>3. \A i \in 0..k : g[i] = f[i]
      OBVIOUS
    <2>4. g[k + 1] = Spread(R, f[k])
      OBVIOUS
    <2>5. ASSUME NEW i \in 0..k + 1, i # 0 PROVE g[i] = Spread(R, g[i - 1])
      <3>1. CASE i \in 0..k
        <4>1. i - 1 \in 0..k
          BY <2>5, <3>1
        <4> HIDE DEF g
        <4> QED
          BY <2>2, <2>3, <2>5, <3>1, <4>1
      <3>2. CASE i = k + 1
        <4>1. i - 1 = k /\ k \in 0..k
          BY <3>2
        <4> HIDE DEF g
        <4> QED
          BY <2>3, <2>4, <3>2, <4>1
      <3> QED
        BY <3>1, <3>2
    <2>6. g[0] = N /\ g = [i \in 0..k + 1 |-> g[i]]
      BY <2>2
    <2> HIDE DEF g
    <2>7. \A i \in 0..k + 1 : g[i] = step(g, i)
      BY <2>5, <2>6 DEF Spread
    <2>8. [i \in 0..k + 1 |-> g[i]] = [i \in 0..k + 1 |-> step(g, i)]
      <3> HIDE DEF step
      <3> QED
        BY <2>7
    <2>9. IsBall(g, R, N, k + 1)
      BY <2>6, <2>8 DEF IsBall
    <2> QED
      BY <2>9
  <1>3. S \in SUBSET Nat
    OBVIOUS
  <1> HIDE DEF S
  <1>4. S = Nat
    BY <1>1, <1>2, <1>3, ByInduction
  <1> QED
    BY <1>4 DEF S

LEMMA BallsAgree ==
    ASSUME NEW R, NEW N, NEW k \in Nat, NEW l \in Nat, NEW f, NEW g,
           IsBall(f, R, N, k), IsBall(g, R, N, l)
    PROVE  \A i \in Nat : i <= k /\ i <= l => f[i] = g[i]
PROOF
  <1> DEFINE S == {i \in Nat : i <= k /\ i <= l => f[i] = g[i]}
  <1>1. 0 \in S
    BY BallAt
  <1>2. ASSUME NEW i \in S PROVE i + 1 \in S
    <2> SUFFICES ASSUME i + 1 <= k, i + 1 <= l PROVE f[i + 1] = g[i + 1]
      BY <1>2
    <2>1. i + 1 \in 0..k /\ i + 1 \in 0..l /\ i + 1 # 0 /\ (i + 1) - 1 = i
      BY <1>2
    <2>2. f[i] = g[i]
      BY <1>2
    <2>3. f[i + 1] = Spread(R, f[i])
      BY <2>1, BallAt
    <2>4. g[i + 1] = Spread(R, g[i])
      BY <2>1, BallAt
    <2> QED
      BY <2>2, <2>3, <2>4
  <1>3. S \in SUBSET Nat
    OBVIOUS
  <1> HIDE DEF S
  <1>4. S = Nat
    BY <1>1, <1>2, <1>3, ByInduction
  <1> QED
    BY <1>4 DEF S

\* What Ball is: nothing is taken at first, and each step spreads.
LEMMA BallSteps ==
    ASSUME NEW R, NEW N
    PROVE  /\ Ball(R, N, 0) = N
           /\ \A k \in Nat : Ball(R, N, k + 1) = Spread(R, Ball(R, N, k))
PROOF
  <1>1. \A k \in Nat : \E g : IsBall(g, R, N, k) /\ Ball(R, N, k) = g[k]
    BY BallExists, BallIs
  <1>2. Ball(R, N, 0) = N
    <2>1. PICK g : IsBall(g, R, N, 0) /\ Ball(R, N, 0) = g[0]
      BY <1>1
    <2> QED
      BY <2>1, BallAt
  <1>3. ASSUME NEW k \in Nat PROVE Ball(R, N, k + 1) = Spread(R, Ball(R, N, k))
    <2>1. PICK f : IsBall(f, R, N, k) /\ Ball(R, N, k) = f[k]
      BY <1>1
    <2>2. k + 1 \in Nat /\ k <= k /\ k <= k + 1 /\ k + 1 \in 0..k + 1 /\ k + 1 # 0 /\ (k + 1) - 1 = k
      OBVIOUS
    <2>3. PICK g : IsBall(g, R, N, k + 1) /\ Ball(R, N, k + 1) = g[k + 1]
      BY <1>1, <2>2
    <2>4. f[k] = g[k]
      BY <2>1, <2>2, <2>3, BallsAgree
    <2>5. g[k + 1] = Spread(R, g[k])
      BY <2>2, <2>3, BallAt
    <2> QED
      BY <2>1, <2>3, <2>4, <2>5
  <1> QED
    BY <1>2, <1>3

\* A ball grows, and stays within whatever is closed.
LEMMA BallGrows ==
    ASSUME NEW R, NEW N
    PROVE  \A k, j \in Nat : Ball(R, N, k) \subseteq Ball(R, N, k + j)
PROOF
  <1> SUFFICES ASSUME NEW k \in Nat
               PROVE  \A j \in Nat : Ball(R, N, k) \subseteq Ball(R, N, k + j)
    OBVIOUS
  <1> DEFINE S == {j \in Nat : Ball(R, N, k) \subseteq Ball(R, N, k + j)}
  <1>1. 0 \in S
    <2>1. k + 0 = k
      OBVIOUS
    <2> QED
      BY <2>1
  <1>2. ASSUME NEW j \in S PROVE j + 1 \in S
    <2>1. k + j \in Nat /\ k + (j + 1) = (k + j) + 1
      OBVIOUS
    <2>2. Ball(R, N, k + (j + 1)) = Spread(R, Ball(R, N, k + j))
      BY <2>1, BallSteps
    <2>3. Ball(R, N, k + j) \subseteq Ball(R, N, k + (j + 1))
      BY <2>2 DEF Spread
    <2> QED
      BY <1>2, <2>3
  <1>3. S \in SUBSET Nat
    OBVIOUS
  <1> HIDE DEF S
  <1>4. S = Nat
    BY <1>1, <1>2, <1>3, ByInduction
  <1> QED
    BY <1>4 DEF S

Closed(R, C) == \A q \in R : q[1] \in C => q[2] \in C

LEMMA BallWithin ==
    ASSUME NEW R, NEW N, NEW C, N \subseteq C, Closed(R, C)
    PROVE  \A k \in Nat : Ball(R, N, k) \subseteq C
PROOF
  <1> DEFINE S == {k \in Nat : Ball(R, N, k) \subseteq C}
  <1>1. 0 \in S
    BY BallSteps
  <1>2. ASSUME NEW k \in S PROVE k + 1 \in S
    <2>1. Ball(R, N, k + 1) = Spread(R, Ball(R, N, k))
      BY BallSteps
    <2> QED
      BY <1>2, <2>1 DEF Spread, Closed
  <1>3. S \in SUBSET Nat
    OBVIOUS
  <1> HIDE DEF S
  <1>4. S = Nat
    BY <1>1, <1>2, <1>3, ByInduction
  <1> QED
    BY <1>4 DEF S

\* After as many steps as there are artifacts nothing is left to reach.
LEMMA BallCloses ==
    ASSUME NEW V, IsFiniteSet(V), NEW R, NEW N, N \subseteq V, \A q \in R : q[2] \in V
    PROVE  Closed(R, Ball(R, N, Cardinality(V)))
PROOF
  <1> DEFINE B(k) == Ball(R, N, k)
             S == {k \in Nat : k <= Cardinality(B(k)) \/ B(k + 1) = B(k)}
  <1>0. Cardinality(V) \in Nat
    BY FS_CardinalityType
  <1>1. \A k \in Nat : B(k) \subseteq V
    BY BallWithin DEF Closed
  <1>2. \A k \in Nat : IsFiniteSet(B(k))
    BY <1>1, FS_Subset
  <1>3. \A k \in Nat : Cardinality(B(k)) \in Nat
    <2> HIDE DEF B
    <2> QED
      BY <1>2, FS_CardinalityType
  <1>4. ASSUME NEW k \in Nat PROVE B(k + 1) = Spread(R, B(k)) /\ B(k) \subseteq B(k + 1)
    <2>1. B(k + 1) = Spread(R, B(k))
      BY BallSteps
    <2> HIDE DEF B
    <2> QED
      BY <2>1 DEF Spread
  <1> HIDE DEF B
  <1>5. 0 \in S
    BY <1>3
  <1>6. ASSUME NEW k \in S PROVE k + 1 \in S
    <2>0. k \in Nat /\ k + 1 \in Nat
      OBVIOUS
    <2>1. CASE B(k + 1) = B(k)
      <3>1. B((k + 1) + 1) = Spread(R, B(k + 1)) /\ B(k + 1) = Spread(R, B(k))
        BY <1>4, <2>0
      <3> QED
        BY <2>0, <2>1, <3>1
    <2>2. CASE B(k + 1) # B(k)
      <3>1. B(k) \in SUBSET B(k + 1) /\ IsFiniteSet(B(k + 1))
        BY <1>2, <1>4, <2>0
      <3>2. /\ Cardinality(B(k)) <= Cardinality(B(k + 1))
            /\ Cardinality(B(k)) = Cardinality(B(k + 1)) => B(k) = B(k + 1)
        BY <3>1, FS_Subset
      <3>3. k <= Cardinality(B(k))
        BY <1>6, <2>2
      <3>4. Cardinality(B(k)) \in Nat /\ Cardinality(B(k + 1)) \in Nat
        BY <1>3, <2>0
      <3>5. k + 1 <= Cardinality(B(k + 1))
        BY <2>0, <2>2, <3>2, <3>3, <3>4
      <3> QED
        BY <2>0, <3>5
    <2> QED
      BY <2>1, <2>2
  <1>7. S = Nat
    <2>1. S \in SUBSET Nat
      OBVIOUS
    <2> HIDE DEF S
    <2> QED
      BY <1>5, <1>6, <2>1, ByInduction
  <1> DEFINE n == Cardinality(V)
  <1>8. B(n + 1) = B(n)
    <2>1. n \in S
      BY <1>0, <1>7
    <2>2. CASE n <= Cardinality(B(n))
      <3>1. B(n) \in SUBSET V
        BY <1>0, <1>1
      <3>2. /\ Cardinality(B(n)) <= Cardinality(V)
            /\ Cardinality(B(n)) = Cardinality(V) => B(n) = V
        BY <3>1, FS_Subset
      <3>3. Cardinality(B(n)) \in Nat
        BY <1>0, <1>3
      <3>4. B(n) = V
        BY <1>0, <2>2, <3>2, <3>3
      <3>5. B(n) \subseteq B(n + 1) /\ B(n + 1) \subseteq V
        BY <1>0, <1>1, <1>4
      <3> QED
        BY <3>4, <3>5
    <2> QED
      BY <2>1, <2>2
  <1>9. Spread(R, B(n)) = B(n)
    BY <1>0, <1>4, <1>8
  <1> QED
    BY <1>9 DEF Spread, Closed, B

-----------------------------------------------------------------------------
(***************************************************************************)
(* What a query is asked of.                                               *)
(***************************************************************************)

Asked == links \in Worlds /\ shown \in Views /\ scope \in Scopes

LEMMA AskedStays == Asked /\ [ReportsNext]_reportsVars => Asked'
PROOF
  <1> SUFFICES ASSUME Asked, [ReportsNext]_reportsVars
               PROVE  links' = links /\ shown' = shown /\ scope' = scope
    BY DEF Asked, Scopes
  <1> QED
    BY DEF ReportsNext, Search, Root, Child, Leave, CyclesDone, Take, Arrive, ImpactDone,
           Reported, reportsVars

LEMMA LinksAre ==
    ASSUME Asked
    PROVE  /\ shown \subseteq Nodes /\ IsFiniteSet(shown)
           /\ \A l \in links : /\ l = <<l[1], l[2], l[3]>> /\ l[1] \in Nodes
                               /\ l[2] \in Nodes \cup {Gone} /\ l[3] \in Types
PROOF
  <1>1. shown \subseteq Nodes /\ links \subseteq Nodes \X (Nodes \cup {Gone}) \X Types
    BY ReportsAssumption DEF Asked
  <1>2. IsFiniteSet(shown)
    BY <1>1, FS_Subset, ReportsAssumption
  <1> QED
    BY <1>1, <1>2


-----------------------------------------------------------------------------
(***************************************************************************)
(* impact_analysis: the breadth-first search.                              *)
(***************************************************************************)


\* The first arrivals so far: some artifacts, each at its depth.
Depths == UNION {[S -> Nat] : S \in SUBSET Nodes}

LEMMA DepthsAre ==
    ASSUME NEW d
    PROVE  d \in Depths <=> DOMAIN d \in SUBSET Nodes /\ d \in [DOMAIN d -> Nat]
PROOF
  <1>1. ASSUME d \in Depths PROVE DOMAIN d \in SUBSET Nodes /\ d \in [DOMAIN d -> Nat]
    <2>1. PICK S \in SUBSET Nodes : d \in [S -> Nat]
      BY <1>1 DEF Depths
    <2> QED
      BY <2>1
  <1>2. ASSUME DOMAIN d \in SUBSET Nodes, d \in [DOMAIN d -> Nat] PROVE d \in Depths
    BY <1>2 DEF Depths
  <1> QED
    BY <1>1, <1>2

LEMMA DepthAdded ==
    \A d \in Depths, n \in Nodes, k \in Nat : n \notin DOMAIN d =>
           /\ Reached(d, n, k) \in Depths /\ DOMAIN Reached(d, n, k) = DOMAIN d \cup {n}
           /\ Reached(d, n, k)[n] = k
           /\ \A m \in DOMAIN d : Reached(d, n, k)[m] = d[m] /\ m # n
PROOF
  <1> TAKE d \in Depths, n \in Nodes, k \in Nat
  <1> HAVE n \notin DOMAIN d
  <1> DEFINE e == Reached(d, n, k)
  <1>0. DOMAIN d \in SUBSET Nodes /\ d \in [DOMAIN d -> Nat]
    BY DepthsAre
  <1>1. DOMAIN e = DOMAIN d \cup {n} /\ e = [m \in DOMAIN d \cup {n} |-> e[m]]
    BY DEF Reached
  <1>2. e[n] = k /\ \A m \in DOMAIN d : e[m] = d[m] /\ m # n
    BY DEF Reached
  <1> HIDE DEF e
  <1>3. \A m \in DOMAIN e : e[m] \in Nat
    BY <1>0, <1>1, <1>2
  <1>4. DOMAIN e \in SUBSET Nodes /\ e \in [DOMAIN e -> Nat]
    BY <1>0, <1>1, <1>3
  <1>5. e \in Depths
    BY <1>4, DepthsAre
  <1> QED
    BY <1>1, <1>2, <1>5 DEF e

\* The walk w over the edges E.
Arcs(E) == {<<e[1], e[2]>> : e \in E}
Near(w, E, k) == Ball(Arcs(E), {w.seed}, k)

ImpactTyped(w, E) ==
    /\ w \in [seed : Nodes, incoming : BOOLEAN, depth : Depths, via : [Nodes -> SUBSET Types],
              queue : Seq(Nodes), todo : SUBSET E, full : BOOLEAN]
    /\ w.seed \in DOMAIN w.depth

\* What has a depth is at that distance.
AtDistance(w, E) ==
    \A n \in DOMAIN w.depth :
        /\ n \in Near(w, E, w.depth[n])
        /\ w.depth[n] > 0 => n \notin Near(w, E, w.depth[n] - 1)

\* The search goes on at level l: what is nearer has been dealt with, the rest
\* of the level comes first in the queue, and what follows is one level further.
AtLevel(w, E, l) ==
    /\ \A e \in w.todo : e[1] \in DOMAIN w.depth /\ w.depth[e[1]] = l
    /\ \A i \in DOMAIN w.queue :
        w.queue[i] \in DOMAIN w.depth /\ w.depth[w.queue[i]] \in {l, l + 1}
    /\ \A i, j \in DOMAIN w.queue : i < j => w.depth[w.queue[i]] <= w.depth[w.queue[j]]
    /\ Near(w, E, l) \subseteq DOMAIN w.depth
    /\ \A n \in DOMAIN w.depth : w.depth[n] <= l + 1

Arrived(w, e) == e[2] \in DOMAIN w.depth /\ e[3] \in w.via[e[2]]
Waits(w, n) == \E i \in DOMAIN w.queue : w.queue[i] = n

\* From what is not in the queue any more every link has arrived, or is about to.
GoneOn(w, E) ==
    \A n \in DOMAIN w.depth : Waits(w, n) \/ \A e \in E : e[1] = n => e \in w.todo \/ Arrived(w, e)

\* A type is noted for a link that led there.
ViaLinks(w, E) ==
    \A n \in Nodes : \A t \in w.via[n] :
        \E e \in E : e[1] \in DOMAIN w.depth /\ e[2] = n /\ e[3] = t

\* The limit is met exactly.
Limited(w) ==
    /\ Cardinality(DOMAIN w.depth) <= MaxImpacted
    /\ w.full <=> Cardinality(DOMAIN w.depth) = MaxImpacted

ImpactWalk(w, E) ==
    /\ ImpactTyped(w, E) /\ AtDistance(w, E) /\ \E l \in Nat : AtLevel(w, E, l)
    /\ GoneOn(w, E) /\ ViaLinks(w, E) /\ Limited(w)

EdgesAmong(E) == E \subseteq Nodes \X Nodes \X Types

LEMMA EdgesAre == ASSUME Asked, NEW b \in BOOLEAN PROVE EdgesAmong(Edges(b))
PROOF
  <1>1. ASSUME NEW l \in links, l[1] \in shown, l[2] \in shown
        PROVE  l \in Nodes \X Nodes \X Types /\ <<l[2], l[1], l[3]>> \in Nodes \X Nodes \X Types
    BY <1>1, LinksAre
  <1> QED
    BY <1>1 DEF Edges, EdgesAmong

LEMMA EdgeIs ==
    ASSUME NEW E, EdgesAmong(E), NEW e \in E
    PROVE  e[1] \in Nodes /\ e[2] \in Nodes /\ e[3] \in Types /\ <<e[1], e[2]>> \in Arcs(E)
  BY DEF EdgesAmong, Arcs

\* The balls round the seed, level by level.
LEMMA NearIs ==
    ASSUME NEW w, NEW E, EdgesAmong(E), w.seed \in Nodes
    PROVE  /\ Near(w, E, 0) = {w.seed}
           /\ \A k \in Nat, e \in E : e[1] \in Near(w, E, k) => e[2] \in Near(w, E, k + 1)
           /\ \A k \in Nat : \A n \in Near(w, E, k + 1) :
                n \in Near(w, E, k) \/ \E e \in E : e[1] \in Near(w, E, k) /\ e[2] = n
           /\ \A k, j \in Nat : Near(w, E, k) \subseteq Near(w, E, k + j)
           /\ \A k \in Nat : Near(w, E, k) \subseteq Near(w, E, Cardinality(Nodes))
           /\ \A e \in E : e[1] \in Near(w, E, Cardinality(Nodes)) => e[2] \in Near(w, E, Cardinality(Nodes))
           /\ \A C : w.seed \in C /\ (\A e \in E : e[1] \in C => e[2] \in C)
                => Near(w, E, Cardinality(Nodes)) \subseteq C
PROOF
  <1> DEFINE R == Arcs(E)
             N == {w.seed}
             all == Ball(R, N, Cardinality(Nodes))
  <1>0. Cardinality(Nodes) \in Nat /\ IsFiniteSet(Nodes)
    BY ReportsAssumption, FS_CardinalityType
  <1>1. /\ \A q \in R : \E e \in E : q[1] = e[1] /\ q[2] = e[2]
        /\ \A e \in E : \E q \in R : q[1] = e[1] /\ q[2] = e[2]
    <2>1. /\ \A q \in R : \E e \in E : q = <<e[1], e[2]>>
          /\ \A e \in E : <<e[1], e[2]>> \in R
      BY DEF Arcs
    <2>2. \A e : <<e[1], e[2]>>[1] = e[1] /\ <<e[1], e[2]>>[2] = e[2]
      OBVIOUS
    <2> HIDE DEF R
    <2> QED
      BY <2>1, <2>2
  <1>2. \A q \in R : q[2] \in Nodes
    BY <1>1, EdgeIs
  <1>3. N \subseteq Nodes
    OBVIOUS
  <1> HIDE DEF R, N, all
  <1>4. ASSUME NEW C PROVE Closed(R, C) <=> \A e \in E : e[1] \in C => e[2] \in C
    BY <1>1 DEF Closed
  <1>5. Ball(R, N, 0) = N
    BY BallSteps
  <1>6. \A k \in Nat : Ball(R, N, k + 1) = Spread(R, Ball(R, N, k))
    BY BallSteps
  <1>7. \A k \in Nat, e \in E : e[1] \in Ball(R, N, k) => e[2] \in Ball(R, N, k + 1)
    BY <1>1, <1>6 DEF Spread
  <1>8. \A k \in Nat : \A n \in Ball(R, N, k + 1) :
            n \in Ball(R, N, k) \/ \E e \in E : e[1] \in Ball(R, N, k) /\ e[2] = n
    BY <1>1, <1>6 DEF Spread
  <1>9. \A k, j \in Nat : Ball(R, N, k) \subseteq Ball(R, N, k + j)
    BY BallGrows
  <1>10. Closed(R, all)
    BY <1>0, <1>2, <1>3, BallCloses DEF all
  <1>11. N \subseteq all
    <2>1. 0 + Cardinality(Nodes) = Cardinality(Nodes)
      BY <1>0
    <2> QED
      BY <1>0, <1>5, <1>9, <2>1 DEF all
  <1>12. \A k \in Nat : Ball(R, N, k) \subseteq all
    BY <1>10, <1>11, BallWithin
  <1>13. \A C : w.seed \in C /\ Closed(R, C) => all \subseteq C
    <2>1. ASSUME NEW C, w.seed \in C, Closed(R, C) PROVE all \subseteq C
      <3>1. N \subseteq C
        BY <2>1 DEF N
      <3> QED
        BY <1>0, <2>1, <3>1, BallWithin DEF all
    <2> QED
      BY <2>1
  <1> QED
    BY <1>4, <1>5, <1>7, <1>8, <1>9, <1>10, <1>12, <1>13 DEF Near, R, N, all

\* The seed is reached in no step.
LEMMA StartImpactWalk ==
    ASSUME Asked, NEW seed \in Nodes, NEW incoming \in BOOLEAN
    PROVE  ImpactWalk(StartImpact(seed, incoming), Edges(incoming))
PROOF
  <1> DEFINE w == StartImpact(seed, incoming)
             E == Edges(incoming)
  <1>1. /\ w = [seed |-> seed, incoming |-> incoming, depth |-> [n \in {seed} |-> 0],
                via |-> [n \in Nodes |-> {}], queue |-> <<seed>>, todo |-> {}, full |-> FALSE]
        /\ w.seed = seed /\ w.incoming = incoming /\ w.queue = <<seed>> /\ w.todo = {}
        /\ w.full = FALSE /\ w.via = [n \in Nodes |-> {}] /\ w.depth = [n \in {seed} |-> 0]
    BY DEF StartImpact
  <1> HIDE DEF w
  <1>2. DOMAIN w.depth = {seed} /\ w.depth[seed] = 0
    BY <1>1
  <1>3. [n \in {seed} |-> 0] \in Depths
    <2>1. [n \in {seed} |-> 0] \in [{seed} -> Nat] /\ {seed} \in SUBSET Nodes
      OBVIOUS
    <2> QED
      BY <2>1 DEF Depths
  <1>4. ImpactTyped(w, E)
    <2>1. <<seed>> \in Seq(Nodes) /\ [n \in Nodes |-> {}] \in [Nodes -> SUBSET Types]
      OBVIOUS
    <2> QED
      BY <1>1, <1>2, <1>3, <2>1 DEF ImpactTyped
  <1>5. EdgesAmong(E)
    BY EdgesAre
  <1>6. Near(w, E, 0) = {seed}
    BY <1>1, <1>5, NearIs
  <1>7. AtDistance(w, E)
    BY <1>2, <1>6 DEF AtDistance
  <1>8. AtLevel(w, E, 0)
    <2>1. \A i \in DOMAIN w.queue : w.queue[i] = seed
      <3>1. DOMAIN <<seed>> = 1..1 /\ <<seed>>[1] = seed
        OBVIOUS
      <3>2. \A i \in 1..1 : i = 1
        OBVIOUS
      <3> QED
        BY <1>1, <3>1, <3>2
    <2>2. \A i \in DOMAIN w.queue : w.queue[i] \in DOMAIN w.depth /\ w.depth[w.queue[i]] = 0
      BY <1>2, <2>1
    <2>3. \A i, j \in DOMAIN w.queue : w.depth[w.queue[i]] <= w.depth[w.queue[j]]
      BY <2>2
    <2>4. Near(w, E, 0) \subseteq DOMAIN w.depth /\ \A n \in DOMAIN w.depth : w.depth[n] <= 0 + 1
      BY <1>2, <1>6
    <2> QED
      BY ZenonT(30), <1>1, <2>2, <2>3, <2>4 DEF AtLevel
  <1>9. GoneOn(w, E)
    <2>1. 1 \in DOMAIN w.queue /\ w.queue[1] = seed
      BY <1>1
    <2> QED
      BY <1>2, <2>1 DEF GoneOn, Waits
  <1>10. ViaLinks(w, E)
    BY <1>1 DEF ViaLinks
  <1>11. Limited(w)
    <2>1. Cardinality(DOMAIN w.depth) = 1
      BY <1>2, FS_Singleton
    <2> QED
      BY <1>1, <2>1, ReportsAssumption DEF Limited
  <1> QED
    BY <1>4, <1>7, <1>8, <1>9, <1>10, <1>11 DEF ImpactWalk, w

\* What is in the first of the levels has been dealt with once all that waits
\* is of the second: then it is the second that is next.
LEMMA NextLevel ==
    ASSUME NEW w, NEW E, EdgesAmong(E), ImpactTyped(w, E), AtDistance(w, E), GoneOn(w, E),
           NEW l \in Nat, AtLevel(w, E, l), w.todo = {},
           \A i \in DOMAIN w.queue : w.depth[w.queue[i]] = l + 1
    PROVE  AtLevel(w, E, l + 1)
PROOF
  <1>0. w.seed \in Nodes /\ w.depth \in [DOMAIN w.depth -> Nat] /\ l + 1 \in Nat
    BY DepthsAre DEF ImpactTyped
  <1>1. ASSUME NEW n \in Near(w, E, l) PROVE n \in DOMAIN w.depth /\ w.depth[n] <= l
    <2>1. n \in DOMAIN w.depth /\ w.depth[n] \in Nat
      BY <1>0, <1>1 DEF AtLevel
    <2>2. ASSUME w.depth[n] > l PROVE FALSE
      <3>1. w.depth[n] = l + 1
        BY <2>1, <2>2 DEF AtLevel
      <3>2. w.depth[n] - 1 = l /\ w.depth[n] > 0
        BY <3>1
      <3> QED
        BY <1>1, <2>1, <3>2 DEF AtDistance
    <2> QED
      BY <2>1, <2>2
  <1>2. ASSUME NEW e \in E, e[1] \in Near(w, E, l) PROVE e[2] \in DOMAIN w.depth
    <2>1. e[1] \in DOMAIN w.depth /\ w.depth[e[1]] <= l /\ w.depth[e[1]] \in Nat
      BY <1>0, <1>1, <1>2
    <2>2. w.depth[e[1]] # l + 1
      BY <2>1
    <2>3. ~Waits(w, e[1])
      BY <2>2 DEF Waits
    <2> QED
      BY <2>1, <2>3 DEF GoneOn, Arrived
  <1>3. Near(w, E, l + 1) \subseteq DOMAIN w.depth
    BY <1>0, <1>1, <1>2, NearIs
  <1>4. \A n \in DOMAIN w.depth : w.depth[n] <= (l + 1) + 1
    BY <1>0 DEF AtLevel
  <1> QED
    BY <1>3, <1>4 DEF AtLevel

\* pop_front.
LEMMA TakeKeeps ==
    ASSUME NEW w, NEW E, EdgesAmong(E), ImpactWalk(w, E), w.todo = {}, w.queue # <<>>
    PROVE  ImpactWalk([w EXCEPT !.queue = Tail(@),
                                !.todo = {e \in E : e[1] = Head(w.queue)}], E)
PROOF
  <1> DEFINE v == [w EXCEPT !.queue = Tail(@), !.todo = {e \in E : e[1] = Head(w.queue)}]
             first == Head(w.queue)
  <1>1. /\ ImpactTyped(w, E) /\ AtDistance(w, E) /\ GoneOn(w, E) /\ ViaLinks(w, E) /\ Limited(w)
        /\ \E l \in Nat : AtLevel(w, E, l)
    BY DEF ImpactWalk
  <1>2. /\ v.seed = w.seed /\ v.depth = w.depth /\ v.via = w.via /\ v.full = w.full
        /\ v.queue = Tail(w.queue) /\ v.todo = {e \in E : e[1] = first}
        /\ w.queue \in Seq(Nodes) /\ Tail(w.queue) \in Seq(Nodes)
    BY <1>1 DEF ImpactTyped
  <1>3. ImpactTyped(v, E)
    BY <1>1, <1>2 DEF ImpactTyped
  <1> HIDE DEF v
  <1>4. /\ Len(w.queue) \in Nat /\ Len(w.queue) >= 1 /\ first = w.queue[1]
        /\ DOMAIN w.queue = 1..Len(w.queue) /\ DOMAIN v.queue = 1..Len(w.queue) - 1
        /\ \A i \in 1..Len(w.queue) - 1 : v.queue[i] = w.queue[i + 1] /\ i + 1 \in 1..Len(w.queue)
        /\ 1 \in DOMAIN w.queue
    BY <1>2
  <1>5. \A k : Near(v, E, k) = Near(w, E, k)
    BY <1>2 DEF Near
  <1>6. PICK l \in Nat : /\ AtLevel(w, E, l) /\ w.depth[first] = l
    <2>1. PICK k \in Nat : AtLevel(w, E, k)
      BY <1>1
    <2>2. w.depth \in [DOMAIN w.depth -> Nat]
      BY <1>1, DepthsAre DEF ImpactTyped
    <2>3. w.depth[first] \in {k, k + 1} /\ first \in DOMAIN w.depth
      BY <1>4, <2>1 DEF AtLevel
    <2>4. CASE w.depth[first] = k + 1
      <3>1. ASSUME NEW i \in DOMAIN w.queue PROVE w.depth[w.queue[i]] = k + 1
        <4>1. w.depth[w.queue[i]] \in {k, k + 1}
          BY <2>1 DEF AtLevel
        <4>2. CASE i = 1
          BY <1>4, <2>4, <4>2
        <4>3. CASE i # 1
          <5>1. 1 < i
            BY <1>4, <4>3
          <5>2. w.depth[w.queue[1]] <= w.depth[w.queue[i]]
            BY <1>4, <2>1, <5>1 DEF AtLevel
          <5> QED
            BY <1>4, <2>4, <4>1, <5>2
        <4> QED
          BY <4>2, <4>3
      <3>2. AtLevel(w, E, k + 1)
        BY <1>1, <2>1, <3>1, NextLevel
      <3> QED
        BY <2>4, <3>2
    <2> QED
      BY <2>1, <2>3, <2>4
  <1>7. AtDistance(v, E)
    BY <1>1, <1>2, <1>5 DEF AtDistance
  <1>8. AtLevel(v, E, l)
    <2>1. \A e \in v.todo : e[1] \in DOMAIN v.depth /\ v.depth[e[1]] = l
      BY <1>2, <1>4, <1>6 DEF AtLevel
    <2>2. \A i \in DOMAIN v.queue :
            v.queue[i] \in DOMAIN v.depth /\ v.depth[v.queue[i]] \in {l, l + 1}
      BY <1>2, <1>4, <1>6 DEF AtLevel
    <2>3. ASSUME NEW i \in DOMAIN v.queue, NEW j \in DOMAIN v.queue, i < j
          PROVE  v.depth[v.queue[i]] <= v.depth[v.queue[j]]
      <3>1. i + 1 < j + 1 /\ i + 1 \in DOMAIN w.queue /\ j + 1 \in DOMAIN w.queue
        BY <1>4, <2>3
      <3>2. w.depth[w.queue[i + 1]] <= w.depth[w.queue[j + 1]]
        BY <1>6, <3>1 DEF AtLevel
      <3> QED
        BY <1>2, <1>4, <3>2
    <2> QED
      BY <1>2, <1>5, <1>6, <2>1, <2>2, <2>3 DEF AtLevel
  <1>9. GoneOn(v, E)
    <2> SUFFICES ASSUME NEW n \in DOMAIN w.depth, ~Waits(v, n), NEW e \in E, e[1] = n
                 PROVE  e \in v.todo \/ Arrived(v, e)
      BY <1>2 DEF GoneOn
    <2>1. CASE n = first
      BY <1>2, <2>1
    <2>2. CASE n # first
      <3>1. ~Waits(w, n)
        <4> SUFFICES ASSUME NEW i \in DOMAIN w.queue, w.queue[i] = n PROVE FALSE
          BY DEF Waits
        <4>1. i - 1 \in DOMAIN v.queue /\ (i - 1) + 1 = i
          BY <1>4, <2>2
        <4> QED
          BY <1>4, <4>1 DEF Waits
      <3>2. Arrived(w, e)
        BY <1>1, <3>1 DEF GoneOn
      <3> QED
        BY <1>2, <3>2 DEF Arrived
    <2> QED
      BY <2>1, <2>2
  <1>10. ViaLinks(v, E) /\ Limited(v)
    BY <1>1, <1>2 DEF ViaLinks, Limited
  <1> QED
    BY <1>3, <1>7, <1>8, <1>9, <1>10 DEF ImpactWalk, v

\* A link that arrives where there is a depth already leaves its type there.
LEMMA ArriveAgainKeeps ==
    ASSUME NEW w, NEW E, EdgesAmong(E), ImpactWalk(w, E), NEW e \in w.todo,
           e[2] \in DOMAIN w.depth
    PROVE  ImpactWalk([w EXCEPT !.todo = @ \ {e}, !.via[e[2]] = @ \cup {e[3]}], E)
PROOF
  <1> DEFINE v == [w EXCEPT !.todo = @ \ {e}, !.via[e[2]] = @ \cup {e[3]}]
  <1>1. /\ ImpactTyped(w, E) /\ AtDistance(w, E) /\ GoneOn(w, E) /\ ViaLinks(w, E) /\ Limited(w)
        /\ \E l \in Nat : AtLevel(w, E, l)
    BY DEF ImpactWalk
  <1>2. e \in E /\ e[1] \in Nodes /\ e[2] \in Nodes /\ e[3] \in Types
    BY <1>1, EdgeIs DEF ImpactTyped
  <1>3. /\ v.seed = w.seed /\ v.depth = w.depth /\ v.queue = w.queue /\ v.full = w.full
        /\ v.todo = w.todo \ {e} /\ v.via = [w.via EXCEPT ![e[2]] = @ \cup {e[3]}]
    BY <1>1 DEF ImpactTyped
  <1>4. v.via \in [Nodes -> SUBSET Types]
    BY <1>1, <1>2, <1>3 DEF ImpactTyped
  <1>5. ImpactTyped(v, E)
    BY <1>1, <1>2 DEF ImpactTyped
  <1>6. /\ v.via[e[2]] = w.via[e[2]] \cup {e[3]}
        /\ \A n \in Nodes : n # e[2] => v.via[n] = w.via[n]
    BY <1>1, <1>2, <1>3 DEF ImpactTyped
  <1> HIDE DEF v
  <1>7. \A k : Near(v, E, k) = Near(w, E, k)
    BY <1>3 DEF Near
  <1>8. AtDistance(v, E) /\ Limited(v)
    BY <1>1, <1>3, <1>7 DEF AtDistance, Limited
  <1>9. \E l \in Nat : AtLevel(v, E, l)
    <2>1. PICK l \in Nat : AtLevel(w, E, l)
      BY <1>1
    <2> QED
      BY <1>3, <1>7, <2>1 DEF AtLevel
  <1>10. GoneOn(v, E)
    <2> SUFFICES ASSUME NEW n \in DOMAIN w.depth, ~Waits(v, n), NEW f \in E, f[1] = n
                 PROVE  f \in v.todo \/ Arrived(v, f)
      BY <1>3 DEF GoneOn
    <2>1. ~Waits(w, n)
      BY <1>3 DEF Waits
    <2>2. f \in w.todo \/ Arrived(w, f)
      BY <1>1, <2>1 DEF GoneOn
    <2>3. Arrived(w, f) => Arrived(v, f)
      <3>1. f[2] \in Nodes
        BY EdgeIs
      <3> QED
        BY <1>3, <1>6, <3>1 DEF Arrived
    <2>4. f = e => Arrived(v, f)
      BY <1>3, <1>6 DEF Arrived
    <2> QED
      BY <1>3, <2>2, <2>3, <2>4
  <1>11. ViaLinks(v, E)
    <2> SUFFICES ASSUME NEW n \in Nodes, NEW t \in v.via[n]
                 PROVE  \E f \in E : f[1] \in DOMAIN v.depth /\ f[2] = n /\ f[3] = t
      BY DEF ViaLinks
    <2>1. CASE t \in w.via[n]
      BY <1>1, <1>3, <2>1 DEF ViaLinks
    <2>2. CASE t \notin w.via[n]
      <3>1. n = e[2] /\ t = e[3]
        BY <1>6, <2>2
      <3>2. e[1] \in DOMAIN w.depth
        BY <1>1 DEF AtLevel
      <3> QED
        BY <1>2, <1>3, <3>1, <3>2
    <2> QED
      BY <2>1, <2>2
  <1> QED
    BY <1>5, <1>8, <1>9, <1>10, <1>11 DEF ImpactWalk, v

\* A first arrival is one level further than where the link came from.
LEMMA ArriveFirstKeeps ==
    ASSUME NEW w, NEW E, EdgesAmong(E), ImpactWalk(w, E), ~w.full, NEW e \in w.todo,
           e[2] \notin DOMAIN w.depth
    PROVE  LET depth == Reached(w.depth, e[2], w.depth[e[1]] + 1)
           IN  ImpactWalk([[w EXCEPT !.todo = @ \ {e}, !.via[e[2]] = @ \cup {e[3]}]
                    EXCEPT !.depth = depth, !.queue = Append(@, e[2]),
                           !.full = Cardinality(DOMAIN depth) >= MaxImpacted], E)
PROOF
  <1> DEFINE depth == Reached(w.depth, e[2], w.depth[e[1]] + 1)
             limit == Cardinality(DOMAIN depth) >= MaxImpacted
             v == [[w EXCEPT !.todo = @ \ {e}, !.via[e[2]] = @ \cup {e[3]}]
                    EXCEPT !.depth = depth, !.queue = Append(@, e[2]), !.full = limit]
             D == DOMAIN w.depth
  <1>1. /\ ImpactTyped(w, E) /\ AtDistance(w, E) /\ GoneOn(w, E) /\ ViaLinks(w, E) /\ Limited(w)
        /\ \E l \in Nat : AtLevel(w, E, l)
    BY DEF ImpactWalk
  <1>2. e \in E /\ e[1] \in Nodes /\ e[2] \in Nodes /\ e[3] \in Types
    BY <1>1, EdgeIs DEF ImpactTyped
  <1>3. PICK l \in Nat : AtLevel(w, E, l)
    BY <1>1
  <1>4. /\ w.depth \in Depths /\ D \in SUBSET Nodes /\ w.depth \in [D -> Nat]
        /\ e[1] \in D /\ w.depth[e[1]] = l /\ l + 1 \in Nat
    BY <1>1, <1>3, DepthsAre DEF ImpactTyped, AtLevel
  <1>5. /\ depth \in Depths /\ DOMAIN depth = D \cup {e[2]} /\ depth[e[2]] = l + 1
        /\ \A m \in D : depth[m] = w.depth[m] /\ m # e[2]
    <2>1. depth = Reached(w.depth, e[2], l + 1)
      BY <1>4
    <2>2. e[2] \notin DOMAIN w.depth
      OBVIOUS
    <2> DEFINE d == w.depth
    <2>3. d \in Depths
      BY <1>4
    <2> HIDE DEF d
    <2>4. \A n \in Nodes, k \in Nat : n \notin DOMAIN d =>
            /\ Reached(d, n, k) \in Depths /\ DOMAIN Reached(d, n, k) = DOMAIN d \cup {n}
            /\ Reached(d, n, k)[n] = k
            /\ \A m \in DOMAIN d : Reached(d, n, k)[m] = d[m] /\ m # n
      BY <2>3, DepthAdded
    <2> HIDE DEF depth
    <2> QED
      BY <1>2, <1>4, <2>1, <2>2, <2>4 DEF d
  <1>0. limit \in BOOLEAN
    OBVIOUS
  <1> HIDE DEF depth, limit
  <1>6. /\ v.seed = w.seed /\ v.depth = depth /\ v.queue = Append(w.queue, e[2])
        /\ v.full = limit
        /\ v.todo = w.todo \ {e} /\ v.via = [w.via EXCEPT ![e[2]] = @ \cup {e[3]}]
        /\ w.queue \in Seq(Nodes) /\ Append(w.queue, e[2]) \in Seq(Nodes)
    BY <1>1, <1>2 DEF ImpactTyped
  <1>7. ImpactTyped(v, E)
    <2>1. w.seed \in DOMAIN depth
      BY <1>1, <1>5 DEF ImpactTyped
    <2> DEFINE u == [w EXCEPT !.todo = @ \ {e}, !.via[e[2]] = @ \cup {e[3]}]
    <2>2. ImpactTyped(u, E) /\ u.queue = w.queue
      BY <1>1, <1>2 DEF ImpactTyped
    <2>3. v = [u EXCEPT !.depth = depth, !.queue = Append(w.queue, e[2]), !.full = limit]
      BY <2>2
    <2>4. v.seed = w.seed
      BY <1>6
    <2> HIDE DEF v, u
    <2> QED
      BY <1>0, <1>5, <1>6, <2>1, <2>2, <2>3, <2>4 DEF ImpactTyped
  <1>8. /\ v.via[e[2]] = w.via[e[2]] \cup {e[3]}
        /\ \A n \in Nodes : n # e[2] => v.via[n] = w.via[n]
    BY <1>1, <1>2, <1>6 DEF ImpactTyped
  <1> HIDE DEF v
  <1>9. \A k : Near(v, E, k) = Near(w, E, k)
    BY <1>6 DEF Near
  <1>10. w.seed \in Nodes
    BY <1>1 DEF ImpactTyped
  <1>11. AtDistance(v, E)
    <2>1. e[1] \in Near(w, E, l)
      BY <1>1, <1>4 DEF AtDistance
    <2>2. e[2] \in Near(w, E, l + 1)
      BY <1>2, <1>10, <2>1, NearIs
    <2>3. e[2] \notin Near(w, E, l) /\ (l + 1) - 1 = l
      BY <1>3 DEF AtLevel
    <2> QED
      BY <1>1, <1>5, <1>6, <1>9, <2>2, <2>3 DEF AtDistance
  <1>12. /\ Len(w.queue) \in Nat /\ DOMAIN w.queue = 1..Len(w.queue)
         /\ DOMAIN v.queue = 1..Len(w.queue) + 1
         /\ \A i \in 1..Len(w.queue) : v.queue[i] = w.queue[i]
         /\ v.queue[Len(w.queue) + 1] = e[2]
    BY <1>2, <1>6
  <1>13. AtLevel(v, E, l)
    <2>1. \A f \in v.todo : f[1] \in DOMAIN v.depth /\ v.depth[f[1]] = l
      BY <1>3, <1>5, <1>6 DEF AtLevel
    <2>2. ASSUME NEW i \in DOMAIN v.queue
          PROVE  /\ v.queue[i] \in DOMAIN v.depth /\ v.depth[v.queue[i]] \in {l, l + 1}
                 /\ i = Len(w.queue) + 1 => v.depth[v.queue[i]] = l + 1
                 /\ i # Len(w.queue) + 1 => i \in DOMAIN w.queue /\ v.queue[i] = w.queue[i] /\ w.queue[i] \in D
      <3>1. CASE i = Len(w.queue) + 1
        BY <1>5, <1>6, <1>12, <3>1
      <3>2. CASE i # Len(w.queue) + 1
        <4>1. i \in 1..Len(w.queue)
          BY <1>12, <3>2
        <4>2. w.queue[i] \in D /\ w.depth[w.queue[i]] \in {l, l + 1}
          BY <1>3, <1>12, <4>1 DEF AtLevel
        <4> QED
          BY <1>5, <1>6, <1>12, <3>2, <4>1, <4>2
      <3> QED
        BY <3>1, <3>2
    <2>3. ASSUME NEW i \in DOMAIN v.queue, NEW j \in DOMAIN v.queue, i < j
          PROVE  v.depth[v.queue[i]] <= v.depth[v.queue[j]]
      <3>1. i # Len(w.queue) + 1
        BY <1>12, <2>3
      <3>2. CASE j = Len(w.queue) + 1
        <4>1. v.depth[v.queue[j]] = l + 1 /\ v.depth[v.queue[i]] \in {l, l + 1}
          BY <2>2, <3>2
        <4> QED
          BY <4>1
      <3>3. CASE j # Len(w.queue) + 1
        <4>1. w.depth[w.queue[i]] <= w.depth[w.queue[j]]
          BY <1>3, <2>2, <2>3, <3>1, <3>3 DEF AtLevel
        <4> QED
          BY <1>5, <1>6, <2>2, <3>1, <3>3, <4>1
      <3> QED
        BY <3>2, <3>3
    <2>4. Near(w, E, l) \subseteq DOMAIN v.depth
      BY <1>3, <1>5, <1>6 DEF AtLevel
    <2>5. \A n \in DOMAIN v.depth : v.depth[n] <= l + 1
      BY <1>3, <1>4, <1>5, <1>6 DEF AtLevel
    <2> QED
      BY <1>9, <2>1, <2>2, <2>3, <2>4, <2>5 DEF AtLevel
  <1>14. GoneOn(v, E)
    <2> SUFFICES ASSUME NEW n \in DOMAIN v.depth, ~Waits(v, n), NEW f \in E, f[1] = n
                 PROVE  f \in v.todo \/ Arrived(v, f)
      BY DEF GoneOn
    <2>1. n # e[2]
      <3>1. Len(w.queue) + 1 \in DOMAIN v.queue
        BY <1>12
      <3> QED
        BY <1>12, <3>1 DEF Waits
    <2>2. n \in D /\ ~Waits(w, n)
      BY <1>5, <1>6, <1>12, <2>1 DEF Waits
    <2>3. f \in w.todo \/ Arrived(w, f)
      BY <1>1, <2>2 DEF GoneOn
    <2>4. Arrived(w, f) => Arrived(v, f)
      <3>1. f[2] \in Nodes
        BY EdgeIs
      <3> QED
        BY <1>5, <1>6, <1>8, <3>1 DEF Arrived
    <2>5. f = e => Arrived(v, f)
      BY <1>5, <1>6, <1>8 DEF Arrived
    <2> QED
      BY <1>6, <2>3, <2>4, <2>5
  <1>15. ViaLinks(v, E)
    <2> SUFFICES ASSUME NEW n \in Nodes, NEW t \in v.via[n]
                 PROVE  \E f \in E : f[1] \in DOMAIN v.depth /\ f[2] = n /\ f[3] = t
      BY DEF ViaLinks
    <2>1. CASE t \in w.via[n]
      <3>1. PICK f \in E : f[1] \in D /\ f[2] = n /\ f[3] = t
        BY <1>1, <2>1 DEF ViaLinks
      <3> QED
        BY <1>5, <1>6, <3>1
    <2>2. CASE t \notin w.via[n]
      <3>1. n = e[2] /\ t = e[3]
        BY <1>8, <2>2
      <3> QED
        BY <1>2, <1>4, <1>5, <1>6, <3>1
    <2> QED
      BY <2>1, <2>2
  <1>16. Limited(v)
    <2>1. IsFiniteSet(D) /\ Cardinality(D) \in Nat
      <3>1. IsFiniteSet(D)
        BY <1>4, ReportsAssumption, FS_Subset
      <3> QED
        BY <3>1, FS_CardinalityType
    <2>2. Cardinality(DOMAIN depth) = Cardinality(D) + 1
      BY <1>5, <2>1, FS_AddElement
    <2>3. Cardinality(D) < MaxImpacted /\ MaxImpacted \in Nat
      BY <1>1, <2>1, ReportsAssumption DEF Limited
    <2>4. /\ Cardinality(DOMAIN depth) <= MaxImpacted
          /\ Cardinality(DOMAIN depth) >= MaxImpacted <=> Cardinality(DOMAIN depth) = MaxImpacted
      BY <2>1, <2>2, <2>3
    <2> QED
      BY <1>6, <2>4 DEF Limited, limit
  <1> QED
    BY <1>7, <1>11, <1>13, <1>14, <1>15, <1>16 DEF ImpactWalk, v, depth, limit

\* When nothing waits any more, all that can be reached has been.
LEMMA ImpactEnds ==
    ASSUME NEW w, NEW E, EdgesAmong(E), ImpactWalk(w, E),
           w.full \/ (w.todo = {} /\ w.queue = <<>>)
    PROVE  LET all == Near(w, E, Cardinality(Nodes))
           IN  IF w.full THEN Cardinality(DOMAIN w.depth) = MaxImpacted
               ELSE /\ DOMAIN w.depth = all
                    /\ \A n \in all : w.via[n] =
                        {e[3] : e \in {f \in E : f[1] \in all /\ f[2] = n}}
PROOF
  <1> DEFINE all == Near(w, E, Cardinality(Nodes))
             D == DOMAIN w.depth
  <1>1. /\ ImpactTyped(w, E) /\ AtDistance(w, E) /\ GoneOn(w, E) /\ ViaLinks(w, E) /\ Limited(w)
    BY DEF ImpactWalk
  <1>2. CASE w.full
    BY <1>1, <1>2 DEF Limited
  <1>3. CASE ~w.full
    <2>0. w.seed \in Nodes /\ w.seed \in D /\ w.depth \in [D -> Nat] /\ D \in SUBSET Nodes
      BY <1>1, DepthsAre DEF ImpactTyped
    <2>1. \A n \in D : ~Waits(w, n)
      BY <1>3 DEF Waits
    <2>2. \A e \in E : e[1] \in D => Arrived(w, e)
      BY <1>1, <1>3, <2>1 DEF GoneOn
    <2>3. \A e \in E : e[1] \in D => e[2] \in D
      BY <2>2 DEF Arrived
    <2>4. all \subseteq D
      BY <2>0, <2>3, NearIs
    <2>5. D \subseteq all
      <3> SUFFICES ASSUME NEW n \in D PROVE n \in all
        OBVIOUS
      <3>1. n \in Near(w, E, w.depth[n]) /\ w.depth[n] \in Nat
        BY <1>1, <2>0 DEF AtDistance
      <3> QED
        BY <2>0, <3>1, NearIs
    <2>6. D = all
      BY <2>4, <2>5
    <2> HIDE DEF all, D
    <2>7. ASSUME NEW n \in all
          PROVE  w.via[n] = {e[3] : e \in {f \in E : f[1] \in all /\ f[2] = n}}
      <3>1. ASSUME NEW t \in w.via[n] PROVE \E e \in E : e[1] \in all /\ e[2] = n /\ e[3] = t
        BY <1>1, <2>0, <2>6, <3>1 DEF ViaLinks, D
      <3>2. ASSUME NEW e \in E, e[1] \in all, e[2] = n PROVE e[3] \in w.via[n]
        BY <2>2, <2>6, <3>2 DEF Arrived
      <3> QED
        BY <3>1, <3>2
    <2> QED
      BY <1>3, <2>6, <2>7 DEF all, D
  <1> QED
    BY <1>2, <1>3

-----------------------------------------------------------------------------
(***************************************************************************)
(* cycles: the three-colour search.                                        *)
(***************************************************************************)

Among(R) == R \subseteq Nodes \X Nodes

\* Where a relation leads from an artifact, in one step or more.
LEMMA ReachesIs ==
    ASSUME NEW R, Among(R)
    PROVE  /\ \A a, b : <<a, b>> \in R => Reaches(R, a, b)
           /\ \A a, b, c : Reaches(R, a, b) /\ <<b, c>> \in R => Reaches(R, a, c)
           /\ \A a, C : /\ \A b : <<a, b>> \in R => b \in C
                        /\ \A b, c : b \in C /\ <<b, c>> \in R => c \in C
                => \A b : Reaches(R, a, b) => b \in C
PROOF
  <1> DEFINE N(a) == {r[2] : r \in {q \in R : q[1] = a}}
             W(a) == Ball(R, N(a), Cardinality(Nodes))
  <1>0. Cardinality(Nodes) \in Nat /\ IsFiniteSet(Nodes)
    BY ReportsAssumption, FS_CardinalityType
  <1>1. \A q \in R : q = <<q[1], q[2]>> /\ q[1] \in Nodes /\ q[2] \in Nodes
    BY DEF Among
  <1>2. \A a, b : b \in N(a) <=> <<a, b>> \in R
    <2>1. ASSUME NEW a, NEW b, b \in N(a) PROVE <<a, b>> \in R
      <3>1. PICK q \in R : q[1] = a /\ q[2] = b
        BY <2>1
      <3> QED
        BY <1>1, <3>1
    <2>2. ASSUME NEW a, NEW b, <<a, b>> \in R PROVE b \in N(a)
      <3>1. <<a, b>>[1] = a /\ <<a, b>>[2] = b
        OBVIOUS
      <3> QED
        BY <2>2, <3>1
    <2> QED
      BY <2>1, <2>2
  <1>3. \A a, b : Reaches(R, a, b) <=> b \in W(a)
    BY DEF Reaches
  <1>4. \A a : N(a) \subseteq Nodes
    BY <1>1, <1>2
  <1> HIDE DEF N
  <1>5. \A C : (\A b, c : b \in C /\ <<b, c>> \in R => c \in C) <=> Closed(R, C)
    <2>1. ASSUME NEW C, Closed(R, C), NEW b \in C, NEW c, <<b, c>> \in R PROVE c \in C
      <3>1. <<b, c>>[1] = b /\ <<b, c>>[2] = c
        OBVIOUS
      <3> QED
        BY <2>1, <3>1 DEF Closed
    <2>2. ASSUME NEW C, \A b, c : b \in C /\ <<b, c>> \in R => c \in C PROVE Closed(R, C)
      BY <1>1, <2>2 DEF Closed
    <2> QED
      BY <2>1, <2>2
  <1>6. ASSUME NEW a PROVE N(a) \subseteq W(a) /\ Closed(R, W(a))
    <2>1. \A q \in R : q[2] \in Nodes
      BY <1>1
    <2>2. Closed(R, W(a))
      BY <1>0, <1>4, <2>1, BallCloses
    <2>3. Ball(R, N(a), 0) = N(a) /\ 0 + Cardinality(Nodes) = Cardinality(Nodes)
      BY <1>0, BallSteps
    <2>4. Ball(R, N(a), 0) \subseteq Ball(R, N(a), 0 + Cardinality(Nodes))
      BY <1>0, BallGrows
    <2> QED
      BY <2>2, <2>3, <2>4
  <1>7. ASSUME NEW a, NEW C, N(a) \subseteq C, Closed(R, C) PROVE W(a) \subseteq C
    BY <1>0, <1>7, BallWithin
  <1> HIDE DEF W
  <1>8. \A a, b, c : b \in W(a) /\ <<b, c>> \in R => c \in W(a)
    BY <1>5, <1>6
  <1>9. \A a, b : <<a, b>> \in R => b \in W(a)
    BY <1>2, <1>6
  <1>10. ASSUME NEW a, NEW C, \A b : <<a, b>> \in R => b \in C,
                \A b, c : b \in C /\ <<b, c>> \in R => c \in C
         PROVE  W(a) \subseteq C
    <2>1. N(a) \subseteq C
      BY <1>2, <1>10
    <2>2. Closed(R, C)
      BY <1>5, <1>10
    <2> QED
      BY <1>7, <2>1, <2>2
  <1> QED
    BY <1>3, <1>8, <1>9, <1>10

LEMMA ReachesOn ==
    ASSUME NEW R, Among(R)
    PROVE  \A a, b, c : Reaches(R, a, b) /\ Reaches(R, b, c) => Reaches(R, a, c)
PROOF
  <1> SUFFICES ASSUME NEW a, NEW b, Reaches(R, a, b)
               PROVE  \A c : Reaches(R, b, c) => Reaches(R, a, c)
    OBVIOUS
  <1> DEFINE C == {c \in Nodes : Reaches(R, a, c)}
  <1>0. \A x, y : <<x, y>> \in R => x \in Nodes /\ y \in Nodes
    BY DEF Among
  <1>1. \A c : <<b, c>> \in R => c \in C
    BY <1>0, ReachesIs
  <1>2. \A x, y : x \in C /\ <<x, y>> \in R => y \in C
    BY <1>0, ReachesIs
  <1> HIDE DEF C
  <1>3. \A c : Reaches(R, b, c) => c \in C
    BY <1>1, <1>2, ReachesIs
  <1> QED
    BY <1>3 DEF C

LEMMA ReachesFirst ==
    ASSUME NEW R, Among(R)
    PROVE  \A a, b : Reaches(R, a, b) =>
                \E m \in Nodes : <<a, m>> \in R /\ (m = b \/ Reaches(R, m, b))
PROOF
  <1> SUFFICES ASSUME NEW a
               PROVE  \A b : Reaches(R, a, b) =>
                        \E m \in Nodes : <<a, m>> \in R /\ (m = b \/ Reaches(R, m, b))
    OBVIOUS
  <1> DEFINE C == {b \in Nodes : \E m \in Nodes : <<a, m>> \in R /\ (m = b \/ Reaches(R, m, b))}
  <1>0. \A x, y : <<x, y>> \in R => x \in Nodes /\ y \in Nodes
    BY DEF Among
  <1>1. \A b : <<a, b>> \in R => b \in C
    BY <1>0
  <1>2. \A x, y : x \in C /\ <<x, y>> \in R => y \in C
    BY <1>0, ReachesIs
  <1> HIDE DEF C
  <1>3. \A b : Reaches(R, a, b) => b \in C
    BY <1>1, <1>2, ReachesIs
  <1> QED
    BY <1>3 DEF C

\* A closed walk over R that passes no artifact twice.
Walk(R, c) ==
    /\ c \in Seq(Nodes) /\ c # <<>>
    /\ \A i \in DOMAIN c : <<c[i], After(c, i)>> \in R
    /\ \A i, j \in DOMAIN c : c[i] = c[j] => i = j

\* As it is reported: from its least artifact on.
Loop(R, c) == Walk(R, c) /\ \A i \in DOMAIN c : c[1] <= c[i]

LEMMA Remainders ==
    /\ \A i, L \in Nat : i < L => i % L = i
    /\ \A i, L \in Nat : L <= i /\ i < L + L => i % L = i - L
  OBVIOUS

LEMMA AfterIs ==
    ASSUME NEW c \in Seq(Nodes), c # <<>>
    PROVE  /\ Len(c) \in Nat /\ Len(c) >= 1 /\ DOMAIN c = 1..Len(c)
           /\ \A i \in 1..Len(c) : After(c, i) = IF i = Len(c) THEN c[1] ELSE c[i + 1]
PROOF
  <1>1. Len(c) \in Nat /\ Len(c) >= 1 /\ DOMAIN c = 1..Len(c)
    OBVIOUS
  <1>2. ASSUME NEW i \in 1..Len(c)
        PROVE  After(c, i) = IF i = Len(c) THEN c[1] ELSE c[i + 1]
    <2>1. CASE i = Len(c)
      <3>1. i % Len(c) = 0
        BY <1>1, <2>1, Remainders
      <3> QED
        BY <2>1, <3>1 DEF After
    <2>2. CASE i # Len(c)
      <3>1. i < Len(c) /\ i \in Nat
        <4>1. \A L \in Nat : \A j \in 1..L : j # L => j < L /\ j \in Nat
          OBVIOUS
        <4> QED
          BY <1>1, <2>2, <4>1
      <3>2. i % Len(c) = i
        BY <1>1, <3>1, Remainders
      <3> QED
        BY <2>2, <3>2 DEF After
    <2> QED
      BY <2>1, <2>2
  <1> QED
    BY <1>1, <1>2

\* canonical_cycle_key: the same walk, from its least artifact on.
LEMMA KeyIsLoop ==
    ASSUME NEW R, NEW raw, Walk(R, raw)
    PROVE  /\ Loop(R, CanonicalKey(raw))
           /\ \E j \in DOMAIN raw : CanonicalKey(raw)[1] = raw[j]
PROOF
  <1> DEFINE L == Len(raw)
             least(j) == \A k \in DOMAIN raw : raw[j] <= raw[k]
             i == CHOOSE j \in DOMAIN raw : least(j)
             key == CanonicalKey(raw)
             first == SubSeq(raw, i, L)
             rest == SubSeq(raw, 1, i - 1)
  <1>1. /\ raw \in Seq(Nodes) /\ L \in Nat /\ L >= 1 /\ DOMAIN raw = 1..L
        /\ \A k \in 1..L : raw[k] \in Nodes /\ raw[k] \in Nat
    <2>1. raw \in Seq(Nodes) /\ raw # <<>>
      BY DEF Walk
    <2>2. L \in Nat /\ L >= 1 /\ DOMAIN raw = 1..L
      BY <2>1, AfterIs
    <2>3. \A k \in 1..L : raw[k] \in Nodes
      BY <2>1, <2>2
    <2> QED
      BY <2>1, <2>2, <2>3, ReportsAssumption
  <1>2. \E j \in DOMAIN raw : least(j)
    <2> DEFINE S == {raw[k] : k \in DOMAIN raw}
    <2>1. S \in SUBSET Nat /\ S # {}
      BY <1>1
    <2>2. PICK n \in S : \A m \in S : n <= m
      <3> HIDE DEF S
      <3> QED
        BY <2>1, LeastOne
    <2> QED
      BY <2>2
  <1>3. i \in 1..L /\ \A k \in 1..L : raw[i] <= raw[k]
    <2>1. i \in DOMAIN raw /\ least(i)
      BY <1>2
    <2> QED
      BY <1>1, <2>1
  <1>4. key = first \o rest
    BY DEF CanonicalKey
  <1> HIDE DEF i, key
  <1>5. /\ first \in Seq(Nodes) /\ Len(first) = L - i + 1
        /\ \A j \in 1..L - i + 1 : first[j] = raw[i + j - 1]
    BY <1>1, <1>3
  <1>6. /\ rest \in Seq(Nodes) /\ Len(rest) = i - 1
        /\ \A j \in 1..i - 1 : rest[j] = raw[j]
    BY <1>1, <1>3
  <1> HIDE DEF first, rest, L
  <1>7. key \in Seq(Nodes) /\ Len(key) = L /\ DOMAIN key = 1..L
    <2>1. /\ first \o rest \in Seq(Nodes)
          /\ Len(first \o rest) = Len(first) + Len(rest)
      BY <1>5, <1>6, ConcatProperties
    <2>2. key \in Seq(Nodes) /\ Len(key) = L
      BY <1>1, <1>3, <1>4, <1>5, <1>6, <2>1
    <2> QED
      BY <2>2, LenProperties
  <1> DEFINE at(j) == IF j <= L - i + 1 THEN i + j - 1 ELSE j - (L - i + 1)
  <1>8. \A j \in 1..L : at(j) \in 1..L /\ at(1) = i
    BY <1>1, <1>3
  <1>9. ASSUME NEW j \in 1..L PROVE key[j] = raw[at(j)]
    <2>1. key[j] = IF j <= Len(first) THEN first[j] ELSE rest[j - Len(first)]
      BY SMTT(20), <1>1, <1>3, <1>4, <1>5, <1>6
    <2>2. CASE j <= L - i + 1
      <3>1. j \in 1..L - i + 1
        BY <1>1, <1>3, <2>2
      <3> QED
        BY <1>5, <2>1, <2>2, <3>1
    <2>3. CASE ~(j <= L - i + 1)
      <3>1. j - (L - i + 1) \in 1..i - 1
        BY <1>1, <1>3, <2>3
      <3> QED
        BY <1>5, <1>6, <2>1, <2>3, <3>1
    <2> QED
      BY <2>2, <2>3
  <1>10. \A j, k \in 1..L : at(j) = at(k) => j = k
    BY <1>1, <1>3
  <1>11. \A j \in 1..L : IF j = L THEN (IF at(j) = L THEN at(1) = 1 ELSE at(1) = at(j) + 1)
                         ELSE (IF at(j) = L THEN at(j + 1) = 1 ELSE at(j + 1) = at(j) + 1)
    BY <1>1, <1>3
  <1> HIDE DEF at
  <1>12. key # <<>>
    BY <1>1, <1>7
  <1>13. ASSUME NEW j \in 1..L PROVE <<key[j], After(key, j)>> \in R
    <2>1. After(key, j) = IF j = L THEN key[1] ELSE key[j + 1]
      BY <1>7, <1>12, AfterIs
    <2>2. After(raw, at(j)) = IF at(j) = L THEN raw[1] ELSE raw[at(j) + 1]
      BY <1>1, <1>8, AfterIs DEF L, Walk
    <2>3. j # L => j + 1 \in 1..L
      BY <1>1
    <2>4. After(key, j) = After(raw, at(j))
      <3>1. CASE j = L
        <4>1. key[1] = raw[at(1)]
          BY <1>1, <1>9
        <4> QED
          BY <1>11, <2>1, <2>2, <3>1, <4>1
      <3>2. CASE j # L
        <4>1. key[j + 1] = raw[at(j + 1)]
          BY <1>9, <2>3, <3>2
        <4> QED
          BY <1>11, <2>1, <2>2, <3>2, <4>1
      <3> QED
        BY <3>1, <3>2
    <2>5. <<raw[at(j)], After(raw, at(j))>> \in R
      BY <1>1, <1>8 DEF Walk
    <2> QED
      BY <1>9, <2>4, <2>5
  <1>14. ASSUME NEW j \in 1..L, NEW k \in 1..L, key[j] = key[k] PROVE j = k
    <2>1. raw[at(j)] = raw[at(k)] /\ at(j) \in DOMAIN raw /\ at(k) \in DOMAIN raw
      BY <1>1, <1>8, <1>9, <1>14
    <2>2. at(j) = at(k)
      BY <2>1 DEF Walk
    <2> QED
      BY <1>10, <2>2
  <1>15. Walk(R, key)
    BY <1>7, <1>12, <1>13, <1>14 DEF Walk
  <1>16. key[1] = raw[i]
    BY <1>1, <1>8, <1>9
  <1>17. \A j \in 1..L : key[1] <= key[j]
    BY <1>3, <1>8, <1>9, <1>16
  <1> QED
    BY <1>1, <1>3, <1>7, <1>15, <1>16, <1>17 DEF Loop, key

\* Two reports of one cycle are one.
LEMMA LoopsDiffer ==
    ASSUME NEW R, NEW c, NEW d, Loop(R, c), Loop(R, d), Rotation(c, d)
    PROVE  c = d
PROOF
  <1> DEFINE L == Len(c)
  <1>1. /\ c \in Seq(Nodes) /\ d \in Seq(Nodes) /\ L \in Nat /\ L >= 1 /\ Len(d) = L
        /\ DOMAIN c = 1..L /\ DOMAIN d = 1..L
        /\ \A j \in 1..L : c[j] \in Nat /\ d[j] \in Nat
    <2>1. c \in Seq(Nodes) /\ c # <<>> /\ d \in Seq(Nodes) /\ d # <<>> /\ Len(d) = L
      BY DEF Loop, Walk, Rotation
    <2>2. L \in Nat /\ L >= 1 /\ DOMAIN c = 1..L /\ DOMAIN d = 1..L
      BY <2>1, AfterIs
    <2>3. \A j \in 1..L : c[j] \in Nodes /\ d[j] \in Nodes
      BY <2>1, <2>2
    <2> QED
      BY <2>1, <2>2, <2>3, ReportsAssumption
  <1>2. PICK k \in 1..L : \A i \in 1..L : d[i] = c[((i + k - 1) % L) + 1]
    BY DEF Rotation
  <1> HIDE DEF L
  <1>3. ASSUME k # L PROVE FALSE
    <2>1. k < L /\ k \in Nat /\ k >= 1
      BY <1>1, <1>3
    <2>2. (1 + k - 1) % L = k
      <3>1. 1 + k - 1 = k
        BY <2>1
      <3> QED
        BY <1>1, <2>1, <3>1, Remainders
    <2>3. d[1] = c[k + 1]
      BY <1>1, <1>2, <2>2
    <2>4. L - k + 1 \in 1..L /\ (L - k + 1) + k - 1 = L
      BY <1>1, <2>1
    <2>5. L % L = 0
      BY <1>1, Remainders
    <2>6. d[L - k + 1] = c[1]
      BY <1>2, <2>4, <2>5
    <2>7. d[1] <= c[1]
      BY <1>1, <2>4, <2>6 DEF Loop
    <2>8. k + 1 \in 1..L /\ k + 1 # 1 /\ 1 \in 1..L
      BY <1>1, <2>1
    <2>9. c[1] <= c[k + 1]
      BY <1>1, <2>8 DEF Loop
    <2>10. c[1] = c[k + 1]
      BY <1>1, <2>3, <2>7, <2>8, <2>9
    <2> QED
      BY <1>1, <2>8, <2>10 DEF Loop, Walk
  <1>4. \A i \in 1..L : d[i] = c[i]
    <2> TAKE i \in 1..L
    <2>1. L <= i + L - 1 /\ i + L - 1 < L + L /\ i + L - 1 \in Nat
      BY <1>1
    <2>2. (i + L - 1) % L = (i + L - 1) - L
      BY <1>1, <2>1, Remainders
    <2>3. ((i + L - 1) - L) + 1 = i
      BY <1>1
    <2> QED
      BY <1>2, <1>3, <2>2, <2>3
  <1> QED
    BY <1>1, <1>4

\* The search w over the relation R, asked of the scope s.  x is what has been
\* taken from the last frame and not been looked at yet.
Frames == [node : Nodes, todo : SUBSET Nodes]
Top(w) == Len(w.stack)
Node(w, i) == w.stack[i].node

CyclesTyped(w) ==
    w \in [type : Acyclic, colour : [Nodes -> 0..2], stack : Seq(Frames), roots : SUBSET Nodes,
           seen : SUBSET Seq(Nodes), found : SUBSET Seq(Nodes), truncated : BOOLEAN]

\* The stack is a path: of what is grey, each artifact once.
StackIsPath(w, R) ==
    /\ \A i \in DOMAIN w.stack : \A m \in w.stack[i].todo : <<Node(w, i), m>> \in R
    /\ \A i, j \in DOMAIN w.stack : Node(w, i) = Node(w, j) => i = j
    /\ \A i \in DOMAIN w.stack : i + 1 \in DOMAIN w.stack => <<Node(w, i), Node(w, i + 1)>> \in R
    /\ \A i, j \in DOMAIN w.stack : i < j => Reaches(R, Node(w, i), Node(w, j))
    /\ \A n \in Nodes : w.colour[n] = 1 <=> \E i \in DOMAIN w.stack : Node(w, i) = n

\* n lies on a cycle with a loop that was seen.
Met(w, R, n) == \E c \in w.seen : Reaches(R, n, c[1]) /\ Reaches(R, c[1], n)

\* Where a link leads from the path is finished, is on the path, or closed a loop.
Explored(w, R, x) ==
    \A i \in DOMAIN w.stack, m \in Nodes : <<Node(w, i), m>> \in R =>
        \/ m \in w.stack[i].todo \/ (i = Top(w) /\ m \in x)
        \/ w.colour[m] = 2
        \/ i + 1 \in DOMAIN w.stack /\ Node(w, i + 1) = m
        \/ Met(w, R, Node(w, i))

\* What is finished and on a cycle is so together with a loop that was seen.
FinishedMet(w, R) == \A n \in Nodes : w.colour[n] = 2 /\ Reaches(R, n, n) => Met(w, R, n)

\* What leads on is begun, or is still among the roots.
Begun(w, R) == \A n, m \in Nodes : <<n, m>> \in R => n \in w.roots \/ w.colour[n] # 0

FoundIsSeen(w, R, s) ==
    /\ \A c \in w.seen : Loop(R, c)
    /\ w.found \subseteq w.seen
    /\ \A c \in w.found : \E i \in DOMAIN c : InScope(c[i], s)
    /\ s = System => w.found = w.seen

CycleWalk(w, R, s, x) ==
    /\ CyclesTyped(w) /\ StackIsPath(w, R) /\ Explored(w, R, x)
    /\ FinishedMet(w, R) /\ Begun(w, R) /\ FoundIsSeen(w, R, s)

LEMMA StackIs ==
    ASSUME NEW w, CyclesTyped(w)
    PROVE  /\ Top(w) \in Nat /\ DOMAIN w.stack = 1..Top(w) /\ w.stack \in Seq(Frames)
           /\ \A i \in 1..Top(w) : /\ w.stack[i] \in Frames /\ Node(w, i) \in Nodes
                                   /\ w.stack[i].todo \subseteq Nodes
PROOF
  <1>1. w.stack \in Seq(Frames)
    BY DEF CyclesTyped
  <1>2. Top(w) \in Nat /\ DOMAIN w.stack = 1..Top(w)
    BY <1>1, LenProperties DEF Top
  <1>3. \A i \in 1..Top(w) : w.stack[i] \in Frames
    BY <1>1, <1>2, ElementOfSeq DEF Top
  <1> QED
    BY <1>1, <1>2, <1>3 DEF Frames, Node

\* A source that is finished is passed over.
LEMMA RootPassed ==
    ASSUME NEW w, NEW R, NEW s, CycleWalk(w, R, s, {}), NEW n \in w.roots, w.colour[n] = 2
    PROVE  CycleWalk([w EXCEPT !.roots = @ \ {n}], R, s, {})
PROOF
  <1> DEFINE v == [w EXCEPT !.roots = @ \ {n}]
  <1>1. /\ v.type = w.type /\ v.colour = w.colour /\ v.stack = w.stack /\ v.seen = w.seen
        /\ v.found = w.found /\ v.roots = w.roots \ {n} /\ CyclesTyped(v)
    BY DEF CycleWalk, CyclesTyped
  <1> HIDE DEF v
  <1>2. StackIsPath(v, R) /\ Explored(v, R, {}) /\ FinishedMet(v, R) /\ FoundIsSeen(v, R, s)
    BY <1>1 DEF CycleWalk, StackIsPath, Explored, FinishedMet, FoundIsSeen, Met, Node, Top
  <1>3. Begun(v, R)
    BY <1>1 DEF CycleWalk, Begun
  <1> QED
    BY <1>1, <1>2, <1>3 DEF CycleWalk, v

\* Another source is the first of a new path.
LEMMA RootPushed ==
    ASSUME NEW w, NEW R, Among(R), NEW s, CycleWalk(w, R, s, {}), w.stack = <<>>,
           NEW n \in w.roots, w.colour[n] # 2,
           NEW f \in Frames, f.node = n, \A m \in Nodes : m \in f.todo <=> <<n, m>> \in R
    PROVE  CycleWalk([w EXCEPT !.roots = @ \ {n}, !.colour[n] = 1, !.stack = <<f>>], R, s, {})
PROOF
  <1> DEFINE v == [w EXCEPT !.roots = @ \ {n}, !.colour[n] = 1, !.stack = <<f>>]
  <1>0. n \in Nodes /\ w.colour \in [Nodes -> 0..2] /\ <<f>> \in Seq(Frames)
    BY DEF CycleWalk, CyclesTyped
  <1>1. /\ v.type = w.type /\ v.colour = [w.colour EXCEPT ![n] = 1] /\ v.stack = <<f>>
        /\ v.seen = w.seen /\ v.found = w.found /\ v.roots = w.roots \ {n} /\ CyclesTyped(v)
    <2> DEFINE colour == [w.colour EXCEPT ![n] = 1]
    <2>1. colour \in [Nodes -> 0..2]
      BY <1>0
    <2>2. v = [w EXCEPT !.roots = @ \ {n}, !.colour = colour, !.stack = <<f>>]
      OBVIOUS
    <2> HIDE DEF colour, v
    <2> QED
      BY <1>0, <2>1, <2>2 DEF CycleWalk, CyclesTyped, colour
  <1> HIDE DEF v
  <1>2. v.colour[n] = 1 /\ \A m \in Nodes : m # n => v.colour[m] = w.colour[m]
    BY <1>0, <1>1
  <1>3. Top(v) = 1 /\ DOMAIN v.stack = 1..1 /\ v.stack[1] = f /\ Node(v, 1) = n
    BY <1>1 DEF Top, Node
  <1>4. \A i \in DOMAIN v.stack : i = 1
    BY <1>3
  <1>5. \A m \in Nodes : w.colour[m] # 1
    <2>1. DOMAIN w.stack = {}
      OBVIOUS
    <2> QED
      BY <2>1 DEF CycleWalk, StackIsPath
  <1>6. StackIsPath(v, R)
    <2>1. \A i \in DOMAIN v.stack : \A m \in v.stack[i].todo : <<Node(v, i), m>> \in R
      BY <1>3, <1>4 DEF Frames
    <2>2. \A m \in Nodes : v.colour[m] = 1 <=> \E i \in DOMAIN v.stack : Node(v, i) = m
      BY <1>2, <1>3, <1>4, <1>5
    <2>3. \A i, j \in DOMAIN v.stack : i = j /\ ~(i < j) /\ i + 1 \notin DOMAIN v.stack
      BY <1>3
    <2> QED
      BY <2>1, <2>2, <2>3 DEF StackIsPath
  <1>7. Explored(v, R, {})
    BY <1>3, <1>4 DEF Explored
  <1>8. \A m : Met(w, R, m) => Met(v, R, m)
    BY <1>1 DEF Met
  <1>9. FinishedMet(v, R)
    BY <1>2, <1>8 DEF CycleWalk, FinishedMet
  <1>10. Begun(v, R)
    <2> SUFFICES ASSUME NEW a \in Nodes, NEW b \in Nodes, <<a, b>> \in R
                 PROVE  a \in v.roots \/ v.colour[a] # 0
      BY DEF Begun
    <2>1. a \in w.roots \/ w.colour[a] # 0
      BY DEF CycleWalk, Begun
    <2> QED
      BY <1>1, <1>2, <2>1
  <1>11. FoundIsSeen(v, R, s)
    BY <1>1 DEF CycleWalk, FoundIsSeen
  <1> QED
    BY <1>1, <1>6, <1>7, <1>9, <1>10, <1>11 DEF CycleWalk, v

\* The next link of the last frame is taken.
LEMMA ChildTaken ==
    ASSUME NEW w, NEW R, NEW s, CycleWalk(w, R, s, {}), w.stack # <<>>,
           NEW n \in w.stack[Len(w.stack)].todo
    PROVE  LET v == [w EXCEPT !.stack[Len(w.stack)].todo = @ \ {n}]
           IN  /\ CycleWalk(v, R, s, {n}) /\ v.stack # <<>> /\ Top(v) = Len(w.stack)
               /\ n \in Nodes /\ <<Node(v, Top(v)), n>> \in R
PROOF
  <1> DEFINE t == Len(w.stack)
             v == [w EXCEPT !.stack[t].todo = @ \ {n}]
             rest == [w.stack[t] EXCEPT !.todo = @ \ {n}]
  <1>1. /\ CyclesTyped(w) /\ StackIsPath(w, R) /\ Explored(w, R, {})
        /\ FinishedMet(w, R) /\ Begun(w, R) /\ FoundIsSeen(w, R, s)
    BY DEF CycleWalk
  <1>2. /\ t \in Nat /\ DOMAIN w.stack = 1..t /\ w.stack \in Seq(Frames) /\ Top(w) = t
        /\ \A i \in 1..t : /\ w.stack[i] \in Frames /\ Node(w, i) \in Nodes
                           /\ w.stack[i].todo \subseteq Nodes
    BY <1>1, StackIs DEF Top
  <1>3. t \in 1..t /\ n \in Nodes
    <2>1. t # 0
      BY <1>2
    <2>2. t \in 1..t
      BY <1>2, <2>1
    <2> QED
      BY <1>2, <2>2
  <1>4. rest \in Frames /\ rest.node = Node(w, t) /\ rest.todo = w.stack[t].todo \ {n}
    BY <1>2, <1>3 DEF Frames, Node
  <1>5. /\ v.stack = [w.stack EXCEPT ![t] = rest]
        /\ v.type = w.type /\ v.colour = w.colour /\ v.roots = w.roots
        /\ v.seen = w.seen /\ v.found = w.found /\ v.truncated = w.truncated
    BY <1>1 DEF CyclesTyped
  <1> HIDE DEF t, rest
  <1>6. /\ v.stack \in Seq(Frames) /\ Len(v.stack) = t /\ DOMAIN v.stack = 1..t
        /\ v.stack[t] = rest /\ \A i \in 1..t : i # t => v.stack[i] = w.stack[i]
    <2> DEFINE new == [w.stack EXCEPT ![t] = rest]
    <2>1. new \in Seq(Frames) /\ Len(new) = t
      BY <1>2, <1>3, <1>4, ExceptSeq DEF t
    <2>2. DOMAIN new = 1..t
      BY <1>2
    <2>3. new[t] = rest /\ \A i \in 1..t : i # t => new[i] = w.stack[i]
      BY <1>2, <1>3
    <2> QED
      BY <1>5, <2>1, <2>2, <2>3
  <1>7. CyclesTyped(v)
    <2>1. v = [w EXCEPT !.stack = [w.stack EXCEPT ![t] = rest]]
      BY DEF rest
    <2>2. v = [w EXCEPT !.stack = v.stack]
      BY <1>5, <2>1
    <2> DEFINE stack == v.stack
    <2>3. v = [w EXCEPT !.stack = stack] /\ stack \in Seq(Frames)
      BY <1>6, <2>2
    <2> HIDE DEF v, stack
    <2> QED
      BY <1>1, <2>3 DEF CyclesTyped
  <1> HIDE DEF v
  <1>8. /\ Top(v) = t /\ \A i \in 1..t : Node(v, i) = Node(w, i)
        /\ \A i \in 1..t : v.stack[i].todo \subseteq w.stack[i].todo
        /\ \A i \in 1..t : \A m \in w.stack[i].todo : m \in v.stack[i].todo \/ (i = t /\ m = n)
    <2>1. Top(v) = t
      BY <1>6 DEF Top
    <2>2. \A i \in 1..t : Node(v, i) = Node(w, i)
      BY <1>4, <1>6 DEF Node
    <2> QED
      BY <1>4, <1>6, <2>1, <2>2
  <1>9. StackIsPath(v, R)
    <2>1. \A i \in 1..t : \A m \in v.stack[i].todo : <<Node(v, i), m>> \in R
      BY <1>1, <1>2, <1>8 DEF StackIsPath
    <2>2. \A i, j \in 1..t : Node(v, i) = Node(v, j) => i = j
      BY <1>1, <1>2, <1>8 DEF StackIsPath
    <2>3. \A i \in 1..t : i + 1 \in 1..t => <<Node(v, i), Node(v, i + 1)>> \in R
      BY <1>1, <1>2, <1>8 DEF StackIsPath
    <2>4. \A i, j \in 1..t : i < j => Reaches(R, Node(v, i), Node(v, j))
      BY <1>1, <1>2, <1>8 DEF StackIsPath
    <2>5. \A m \in Nodes : v.colour[m] = 1 <=> \E i \in 1..t : Node(v, i) = m
      BY <1>1, <1>2, <1>5, <1>8 DEF StackIsPath
    <2> QED
      BY <1>6, <2>1, <2>2, <2>3, <2>4, <2>5 DEF StackIsPath
  <1>10. \A m : Met(w, R, m) <=> Met(v, R, m)
    BY <1>5 DEF Met
  <1>11. Explored(v, R, {n})
    <2> SUFFICES ASSUME NEW i \in 1..t, NEW m \in Nodes, <<Node(v, i), m>> \in R
                 PROVE  \/ m \in v.stack[i].todo \/ (i = Top(v) /\ m \in {n})
                        \/ v.colour[m] = 2
                        \/ i + 1 \in DOMAIN v.stack /\ Node(v, i + 1) = m
                        \/ Met(v, R, Node(v, i))
      BY <1>6 DEF Explored
    <2>1. \/ m \in w.stack[i].todo \/ w.colour[m] = 2
          \/ i + 1 \in DOMAIN w.stack /\ Node(w, i + 1) = m
          \/ Met(w, R, Node(w, i))
      BY <1>1, <1>2, <1>8 DEF Explored
    <2> QED
      BY <1>2, <1>5, <1>6, <1>8, <1>10, <2>1
  <1>12. FinishedMet(v, R) /\ Begun(v, R) /\ FoundIsSeen(v, R, s)
    BY <1>1, <1>5, <1>10 DEF FinishedMet, Begun, FoundIsSeen
  <1>13. <<Node(v, t), n>> \in R
    BY <1>1, <1>2, <1>3, <1>8 DEF StackIsPath, t
  <1>14. v.stack # <<>>
    BY <1>3, <1>6
  <1> QED
    BY <1>3, <1>7, <1>8, <1>9, <1>11, <1>12, <1>13, <1>14 DEF CycleWalk, v, t

\* A link to what is finished leads nowhere new.
LEMMA ChildPassed ==
    ASSUME NEW w, NEW R, NEW s, NEW n, CycleWalk(w, R, s, {n}), w.colour[n] = 2
    PROVE  CycleWalk(w, R, s, {})
  BY DEF CycleWalk, Explored

\* A link to what is not begun makes the path longer.
LEMMA ChildPushed ==
    ASSUME NEW w, NEW R, Among(R), NEW s, NEW n \in Nodes, CycleWalk(w, R, s, {n}),
           w.stack # <<>>, <<Node(w, Top(w)), n>> \in R, w.colour[n] = 0,
           NEW f \in Frames, f.node = n, \A m \in Nodes : m \in f.todo <=> <<n, m>> \in R
    PROVE  CycleWalk([w EXCEPT !.colour[n] = 1, !.stack = Append(@, f)], R, s, {})
PROOF
  <1> DEFINE v == [w EXCEPT !.colour[n] = 1, !.stack = Append(@, f)]
             t == Top(w)
  <1>1. /\ CyclesTyped(w) /\ StackIsPath(w, R) /\ Explored(w, R, {n})
        /\ FinishedMet(w, R) /\ Begun(w, R) /\ FoundIsSeen(w, R, s)
    BY DEF CycleWalk
  <1>2. /\ t \in Nat /\ DOMAIN w.stack = 1..t /\ w.stack \in Seq(Frames)
        /\ \A i \in 1..t : Node(w, i) \in Nodes
    BY <1>1, StackIs
  <1>3. t \in 1..t
    <2>1. t # 0
      BY <1>2 DEF Top
    <2> QED
      BY <1>2, <2>1
  <1>4. /\ v.type = w.type /\ v.colour = [w.colour EXCEPT ![n] = 1]
        /\ v.stack = Append(w.stack, f) /\ v.roots = w.roots
        /\ v.seen = w.seen /\ v.found = w.found /\ CyclesTyped(v)
    <2> DEFINE colour == [w.colour EXCEPT ![n] = 1]
               stack == Append(w.stack, f)
    <2>1. colour \in [Nodes -> 0..2] /\ stack \in Seq(Frames)
      BY <1>1, <1>2 DEF CyclesTyped
    <2>2. v = [w EXCEPT !.colour = colour, !.stack = stack]
      OBVIOUS
    <2> HIDE DEF colour, stack, v
    <2> QED
      BY <1>1, <2>1, <2>2 DEF CyclesTyped, colour, stack
  <1> HIDE DEF v
  <1>5. v.colour[n] = 1 /\ \A m \in Nodes : m # n => v.colour[m] = w.colour[m]
    BY <1>1, <1>4 DEF CyclesTyped
  <1>6. /\ Top(v) = t + 1 /\ DOMAIN v.stack = 1..t + 1 /\ v.stack[t + 1] = f /\ Node(v, t + 1) = n
        /\ \A i \in 1..t : v.stack[i] = w.stack[i] /\ Node(v, i) = Node(w, i)
    <2>1. /\ Len(v.stack) = t + 1 /\ v.stack[t + 1] = f
          /\ \A i \in 1..t : v.stack[i] = w.stack[i]
      BY <1>2, <1>4 DEF Top
    <2>2. DOMAIN v.stack = 1..t + 1
      BY <1>2, <1>4 DEF Top
    <2> QED
      BY <2>1, <2>2 DEF Top, Node
  <1> HIDE DEF t
  <1>7. \A i \in 1..t + 1 : i = t + 1 \/ i \in 1..t
    BY <1>2
  <1>8. \A i \in 1..t : Node(w, i) # n /\ i # t + 1
    BY <1>1, <1>2 DEF StackIsPath
  <1>9. \A i \in 1..t : Reaches(R, Node(w, i), n)
    <2> TAKE i \in 1..t
    <2>1. Reaches(R, Node(w, t), n)
      BY ReachesIs DEF t
    <2>2. CASE i = t
      BY <2>1, <2>2
    <2>3. CASE i # t
      <3>1. i < t
        BY <1>2, <2>3
      <3>2. Reaches(R, Node(w, i), Node(w, t))
        BY <1>1, <1>2, <1>3, <3>1 DEF StackIsPath
      <3> QED
        BY <2>1, <3>2, ReachesOn
    <2> QED
      BY <2>2, <2>3
  <1>10. StackIsPath(v, R)
    <2>1. \A i \in DOMAIN v.stack : \A m \in v.stack[i].todo : <<Node(v, i), m>> \in R
      <3>1. f.todo \subseteq Nodes
        BY DEF Frames
      <3>2. \A i \in 1..t : \A m \in w.stack[i].todo : <<Node(w, i), m>> \in R
        BY <1>1, <1>2 DEF StackIsPath
      <3> QED
        BY <1>6, <1>7, <3>1, <3>2
    <2>2. \A i, j \in DOMAIN v.stack : Node(v, i) = Node(v, j) => i = j
      <3>1. \A i, j \in 1..t : Node(w, i) = Node(w, j) => i = j
        BY <1>1, <1>2 DEF StackIsPath
      <3> QED
        BY <1>6, <1>7, <1>8, <3>1
    <2>3. ASSUME NEW i \in DOMAIN v.stack, i + 1 \in DOMAIN v.stack
          PROVE  <<Node(v, i), Node(v, i + 1)>> \in R
      <3>1. i \in 1..t
        BY <1>2, <1>6, <2>3
      <3>2. CASE i = t
        BY <1>6, <3>1, <3>2 DEF t
      <3>3. CASE i # t
        <4>1. i + 1 \in 1..t
          BY <1>2, <3>1, <3>3
        <4>2. <<Node(w, i), Node(w, i + 1)>> \in R
          BY <1>1, <1>2, <3>1, <4>1 DEF StackIsPath
        <4> QED
          BY <1>6, <3>1, <4>1, <4>2
      <3> QED
        BY <3>2, <3>3
    <2>4. ASSUME NEW i \in DOMAIN v.stack, NEW j \in DOMAIN v.stack, i < j
          PROVE  Reaches(R, Node(v, i), Node(v, j))
      <3>1. i \in 1..t
        BY <1>2, <1>6, <2>4
      <3>2. CASE j = t + 1
        BY <1>6, <1>9, <3>1, <3>2
      <3>3. CASE j # t + 1
        <4>1. j \in 1..t
          BY <1>6, <1>7, <3>3
        <4>2. Reaches(R, Node(w, i), Node(w, j))
          BY <1>1, <1>2, <2>4, <3>1, <4>1 DEF StackIsPath
        <4> QED
          BY <1>6, <3>1, <4>1, <4>2
      <3> QED
        BY <3>2, <3>3
    <2>5. ASSUME NEW m \in Nodes PROVE v.colour[m] = 1 <=> \E i \in DOMAIN v.stack : Node(v, i) = m
      <3>1. CASE m = n
        <4>1. t + 1 \in DOMAIN v.stack
          BY <1>2, <1>6
        <4> QED
          BY <1>5, <1>6, <3>1, <4>1
      <3>2. CASE m # n
        <4>1. w.colour[m] = 1 <=> \E i \in 1..t : Node(w, i) = m
          BY <1>1, <1>2 DEF StackIsPath
        <4>2. 1..t \subseteq 1..t + 1
          BY <1>2
        <4> QED
          BY <1>5, <1>6, <1>7, <3>2, <4>1, <4>2
      <3> QED
        BY <3>1, <3>2
    <2> QED
      BY <2>1, <2>2, <2>3, <2>4, <2>5 DEF StackIsPath
  <1>11. \A m : Met(w, R, m) <=> Met(v, R, m)
    BY <1>4 DEF Met
  <1>12. Explored(v, R, {})
    <2> SUFFICES ASSUME NEW i \in 1..t + 1, NEW m \in Nodes, <<Node(v, i), m>> \in R
                 PROVE  \/ m \in v.stack[i].todo
                        \/ v.colour[m] = 2
                        \/ i + 1 \in 1..t + 1 /\ Node(v, i + 1) = m
                        \/ Met(v, R, Node(v, i))
      BY <1>6 DEF Explored
    <2>1. CASE i = t + 1
      BY <1>6, <2>1
    <2>2. CASE i \in 1..t
      <3>1. \/ m \in w.stack[i].todo \/ (i = t /\ m = n) \/ w.colour[m] = 2
            \/ i + 1 \in 1..t /\ Node(w, i + 1) = m
            \/ Met(w, R, Node(w, i))
        <4>1. Node(v, i) = Node(w, i)
          BY <1>6, <2>2
        <4> QED
          BY <1>1, <1>2, <2>2, <4>1 DEF Explored, t
      <3>2. i = t /\ m = n => i + 1 \in 1..t + 1 /\ Node(v, i + 1) = m
        BY <1>2, <1>6
      <3>3. w.colour[m] = 2 => v.colour[m] = 2
        BY <1>5
      <3>4. i + 1 \in 1..t => i + 1 \in 1..t + 1 /\ Node(v, i + 1) = Node(w, i + 1)
        BY <1>2, <1>6
      <3> QED
        BY <1>6, <1>11, <2>2, <3>1, <3>2, <3>3, <3>4
    <2> QED
      BY <1>7, <2>1, <2>2
  <1>13. FinishedMet(v, R)
    BY <1>1, <1>5, <1>11 DEF FinishedMet
  <1>14. Begun(v, R)
    <2> SUFFICES ASSUME NEW a \in Nodes, NEW b \in Nodes, <<a, b>> \in R
                 PROVE  a \in v.roots \/ v.colour[a] # 0
      BY DEF Begun
    <2>1. a \in w.roots \/ w.colour[a] # 0
      BY <1>1 DEF Begun
    <2> QED
      BY <1>4, <1>5, <2>1
  <1>15. FoundIsSeen(v, R, s)
    BY <1>1, <1>4 DEF FoundIsSeen
  <1> QED
    BY <1>4, <1>10, <1>12, <1>13, <1>14, <1>15 DEF CycleWalk, v

\* A link back to the path closes a loop, on which the last of the path lies.
LEMMA LoopClosed ==
    ASSUME NEW w, NEW R, Among(R), NEW s, NEW n \in Nodes, CycleWalk(w, R, s, {n}),
           w.stack # <<>>, <<Node(w, Top(w)), n>> \in R, w.colour[n] = 1
    PROVE  LET key == CanonicalKey(LoopAt(PathOf(w.stack), n))
           IN  /\ Loop(R, key)
               /\ Reaches(R, Node(w, Top(w)), key[1]) /\ Reaches(R, key[1], Node(w, Top(w)))
PROOF
  <1> DEFINE t == Top(w)
             path == PathOf(w.stack)
             p == CHOOSE i \in DOMAIN path : path[i] = n
             raw == LoopAt(path, n)
             key == CanonicalKey(raw)
             top == Node(w, t)
  <1>1. CyclesTyped(w) /\ StackIsPath(w, R)
    BY DEF CycleWalk
  <1>2. /\ t \in Nat /\ DOMAIN w.stack = 1..t /\ w.stack \in Seq(Frames)
        /\ \A i \in 1..t : Node(w, i) \in Nodes
    BY <1>1, StackIs
  <1>3. t \in 1..t
    <2>1. t # 0
      BY <1>2 DEF Top
    <2> QED
      BY <1>2, <2>1
  <1>4. DOMAIN path = 1..t /\ \A i \in 1..t : path[i] = Node(w, i)
    BY <1>2 DEF PathOf, Node
  <1>5. path \in Seq(Nodes) /\ Len(path) = t
    <2>1. path = [i \in 1..t |-> path[i]]
      BY <1>2 DEF PathOf
    <2>2. \A i \in 1..t : path[i] \in Nodes
      BY <1>2, <1>4
    <2>3. path \in [1..t -> Nodes]
      <3> HIDE DEF path
      <3> QED
        BY <2>1, <2>2
    <2>4. path \in Seq(Nodes)
      BY <1>2, <2>3, SeqDef
    <2> QED
      BY <1>2, <1>4, <2>4, LenProperties
  <1>6. p \in 1..t /\ path[p] = n
    <2>1. \E i \in 1..t : Node(w, i) = n
      BY <1>1, <1>2 DEF StackIsPath
    <2>2. \E i \in DOMAIN path : path[i] = n
      BY <1>4, <2>1
    <2>3. p \in DOMAIN path /\ path[p] = n
      BY <2>2
    <2> QED
      BY <1>4, <2>3
  <1>7. raw = SubSeq(path, p, t)
    BY <1>5 DEF LoopAt
  <1> HIDE DEF path, p, raw
  <1> DEFINE L == t - p + 1
  <1>8. /\ raw \in Seq(Nodes) /\ Len(raw) = L /\ DOMAIN raw = 1..L /\ L \in Nat /\ L >= 1
        /\ \A j \in 1..L : p + j - 1 \in 1..t /\ raw[j] = Node(w, p + j - 1)
    <2>0. L \in Nat /\ L >= 1 /\ p \in Nat /\ t \in Nat
      BY <1>2, <1>6
    <2>1. \A i \in p..t : path[i] \in Nodes
      BY <1>2, <1>4, <1>6
    <2>2. /\ raw \in Seq(Nodes) /\ Len(raw) = L
          /\ \A j \in 1..L : raw[j] = path[p + j - 1]
      BY <1>2, <1>6, <1>7, <2>0, <2>1, SubSeqProperties
    <2>3. DOMAIN raw = 1..L
      BY <2>2, LenProperties
    <2>4. \A j \in 1..L : p + j - 1 \in 1..t
      BY <1>2, <1>6
    <2> QED
      BY <1>4, <2>0, <2>2, <2>3, <2>4
  <1> HIDE DEF t
  <1>9. Walk(R, raw)
    <2>1. raw # <<>>
      BY <1>8
    <2>2. ASSUME NEW j \in 1..L PROVE <<raw[j], After(raw, j)>> \in R
      <3>1. After(raw, j) = IF j = L THEN raw[1] ELSE raw[j + 1]
        BY <1>8, <2>1, AfterIs
      <3>2. CASE j = L
        <4>1. p + j - 1 = t /\ 1 \in 1..L /\ p + 1 - 1 = p
          BY <1>2, <1>6, <1>8, <3>2
        <4>2. raw[j] = top /\ raw[1] = n
          BY <1>4, <1>6, <1>8, <4>1
        <4> QED
          BY <3>1, <3>2, <4>2 DEF t
      <3>3. CASE j # L
        <4>1. j + 1 \in 1..L /\ p + (j + 1) - 1 = (p + j - 1) + 1
          BY <1>6, <1>8, <3>3
        <4>2. /\ raw[j] = Node(w, p + j - 1) /\ p + j - 1 \in 1..t
              /\ raw[j + 1] = Node(w, (p + j - 1) + 1) /\ (p + j - 1) + 1 \in 1..t
          <5>1. /\ raw[j + 1] = Node(w, p + (j + 1) - 1) /\ p + (j + 1) - 1 \in 1..t
            BY <1>8, <4>1
          <5> QED
            BY <1>8, <4>1, <5>1
        <4>3. <<Node(w, p + j - 1), Node(w, (p + j - 1) + 1)>> \in R
          BY <1>1, <1>2, <4>2 DEF StackIsPath
        <4> QED
          BY <3>1, <3>3, <4>2, <4>3
      <3> QED
        BY <3>2, <3>3
    <2>3. ASSUME NEW j \in 1..L, NEW k \in 1..L, raw[j] = raw[k] PROVE j = k
      <3>1. p + j - 1 = p + k - 1
        BY <1>1, <1>2, <1>8, <2>3 DEF StackIsPath
      <3> QED
        BY <1>6, <1>8, <3>1
    <2> QED
      BY <1>8, <2>1, <2>2, <2>3 DEF Walk
  <1>10. Loop(R, key)
    BY <1>9, KeyIsLoop
  <1>11. PICK q \in 1..t : q >= p /\ key[1] = Node(w, q)
    <2>1. PICK j \in DOMAIN raw : key[1] = raw[j]
      BY <1>9, KeyIsLoop
    <2>2. p + j - 1 >= p
      BY <1>6, <1>8
    <2> QED
      BY <1>8, <2>1, <2>2
  <1>12. Node(w, p) = n
    BY <1>4, <1>6
  <1>13. Reaches(R, top, n)
    BY ReachesIs DEF t
  <1>14. Reaches(R, top, Node(w, q))
    <2>1. CASE q = p
      BY <1>12, <1>13, <2>1
    <2>2. CASE q # p
      <3>1. p < q
        BY <1>6, <1>11, <2>2
      <3>2. Reaches(R, Node(w, p), Node(w, q))
        BY <1>1, <1>2, <1>6, <3>1 DEF StackIsPath
      <3> QED
        BY <1>12, <1>13, <3>2, ReachesOn
    <2> QED
      BY <2>1, <2>2
  <1>15. Reaches(R, Node(w, q), top)
    <2>1. CASE q = t
      BY <1>14, <2>1
    <2>2. CASE q # t
      <3>1. q < t
        BY <1>2, <1>11, <2>2
      <3> QED
        BY <1>1, <1>2, <1>3, <3>1 DEF StackIsPath
    <2> QED
      BY <2>1, <2>2
  <1> QED
    BY <1>10, <1>11, <1>14, <1>15 DEF t, raw, path

\* What closes a loop has met it, reported or not.
LEMMA ChildCloses ==
    ASSUME NEW w, NEW R, NEW s, NEW n, CycleWalk(w, R, s, {n}), NEW key, Loop(R, key),
           Reaches(R, Node(w, Top(w)), key[1]), Reaches(R, key[1], Node(w, Top(w))),
           NEW found, NEW truncated \in BOOLEAN,
           LET reported == key \notin w.seen /\ \E i \in DOMAIN key : InScope(key[i], s)
           IN  found = IF reported THEN w.found \cup {key} ELSE w.found
    PROVE  CycleWalk([w EXCEPT !.seen = @ \cup {key}, !.found = found, !.truncated = truncated],
                     R, s, {})
PROOF
  <1> DEFINE v == [w EXCEPT !.seen = @ \cup {key}, !.found = found, !.truncated = truncated]
  <1>1. /\ CyclesTyped(w) /\ StackIsPath(w, R) /\ Explored(w, R, {n})
        /\ FinishedMet(w, R) /\ Begun(w, R) /\ FoundIsSeen(w, R, s)
    BY DEF CycleWalk
  <1>2. key \in Seq(Nodes) /\ key # <<>>
    BY DEF Loop, Walk
  <1>3. found \in SUBSET Seq(Nodes) /\ w.seen \cup {key} \in SUBSET Seq(Nodes)
    BY <1>1, <1>2 DEF CyclesTyped
  <1>4. /\ v.type = w.type /\ v.colour = w.colour /\ v.stack = w.stack /\ v.roots = w.roots
        /\ v.seen = w.seen \cup {key} /\ v.found = found /\ CyclesTyped(v)
    BY <1>1, <1>3 DEF CyclesTyped
  <1> HIDE DEF v
  <1>5. \A m : Met(w, R, m) => Met(v, R, m)
    BY <1>4 DEF Met
  <1>6. Met(v, R, Node(w, Top(w)))
    BY <1>4 DEF Met
  <1>7. StackIsPath(v, R) /\ Begun(v, R)
    BY <1>1, <1>4 DEF StackIsPath, Begun, Node
  <1>8. Explored(v, R, {})
    <2>1. /\ \A i : Node(v, i) = Node(w, i)
          /\ Top(v) = Top(w)
      BY <1>4 DEF Node, Top
    <2> QED
      BY <1>1, <1>4, <1>5, <1>6, <2>1 DEF Explored
  <1>9. FinishedMet(v, R)
    BY <1>1, <1>4, <1>5 DEF FinishedMet
  <1>10. FoundIsSeen(v, R, s)
    <2>1. \A c \in v.seen : Loop(R, c)
      BY <1>1, <1>4 DEF FoundIsSeen
    <2>2. v.found \subseteq v.seen /\ \A c \in v.found : \E i \in DOMAIN c : InScope(c[i], s)
      BY <1>1, <1>4 DEF FoundIsSeen
    <2>3. ASSUME s = System PROVE v.found = v.seen
      <3>1. 1 \in DOMAIN key
        BY <1>2, AfterIs
      <3>2. InScope(key[1], s)
        BY <2>3 DEF InScope
      <3> QED
        BY <1>1, <1>4, <2>3, <3>1, <3>2 DEF FoundIsSeen
    <2> QED
      BY <2>1, <2>2, <2>3 DEF FoundIsSeen
  <1> QED
    BY <1>4, <1>7, <1>8, <1>9, <1>10 DEF CycleWalk, v

\* What is left with nothing more to look at is finished: on a cycle it has met
\* a loop, or one of those it leads to has.
LEMMA LeaveKeeps ==
    ASSUME NEW w, NEW R, Among(R), NEW s, CycleWalk(w, R, s, {}), w.stack # <<>>,
           w.stack[Len(w.stack)].todo = {}
    PROVE  CycleWalk([w EXCEPT !.colour[w.stack[Len(w.stack)].node] = 2,
                               !.stack = SubSeq(@, 1, Len(@) - 1)], R, s, {})
PROOF
  <1> DEFINE t == Top(w)
             n == Node(w, t)
             v == [w EXCEPT !.colour[w.stack[Len(w.stack)].node] = 2,
                            !.stack = SubSeq(@, 1, Len(@) - 1)]
  <1>1. /\ CyclesTyped(w) /\ StackIsPath(w, R) /\ Explored(w, R, {})
        /\ FinishedMet(w, R) /\ Begun(w, R) /\ FoundIsSeen(w, R, s)
    BY DEF CycleWalk
  <1>2. /\ t \in Nat /\ DOMAIN w.stack = 1..t /\ w.stack \in Seq(Frames)
        /\ \A i \in 1..t : Node(w, i) \in Nodes
    BY <1>1, StackIs
  <1>3. t \in 1..t /\ t - 1 \in Nat /\ n \in Nodes
    <2>1. t # 0
      BY <1>2 DEF Top
    <2> QED
      BY <1>2, <2>1
  <1>4. v = [w EXCEPT !.colour = [w.colour EXCEPT ![n] = 2], !.stack = SubSeq(w.stack, 1, t - 1)]
    BY DEF Top, Node
  <1>5. /\ SubSeq(w.stack, 1, t - 1) \in Seq(Frames) /\ Len(SubSeq(w.stack, 1, t - 1)) = t - 1
        /\ \A i \in 1..t - 1 : SubSeq(w.stack, 1, t - 1)[i] = w.stack[i]
    BY <1>2, <1>3 DEF Top
  <1>6. [w.colour EXCEPT ![n] = 2] \in [Nodes -> 0..2]
    BY <1>1, <1>3 DEF CyclesTyped
  <1>7. /\ v.type = w.type /\ v.colour = [w.colour EXCEPT ![n] = 2]
        /\ v.stack = SubSeq(w.stack, 1, t - 1) /\ v.roots = w.roots
        /\ v.seen = w.seen /\ v.found = w.found /\ CyclesTyped(v)
    <2> DEFINE colour == [w.colour EXCEPT ![n] = 2]
               stack == SubSeq(w.stack, 1, t - 1)
    <2>1. v = [w EXCEPT !.colour = colour, !.stack = stack]
      BY <1>4
    <2>2. colour \in [Nodes -> 0..2] /\ stack \in Seq(Frames)
      BY <1>5, <1>6
    <2> HIDE DEF colour, stack, v
    <2> QED
      BY <1>1, <2>1, <2>2 DEF CyclesTyped, colour, stack
  <1> HIDE DEF v
  <1>8. v.colour[n] = 2 /\ \A m \in Nodes : m # n => v.colour[m] = w.colour[m]
    BY <1>1, <1>3, <1>7 DEF CyclesTyped
  <1>9. /\ Top(v) = t - 1 /\ DOMAIN v.stack = 1..t - 1
        /\ \A i \in 1..t - 1 : v.stack[i] = w.stack[i] /\ Node(v, i) = Node(w, i)
    BY <1>5, <1>7, LenProperties DEF Top, Node
  <1>10. w.colour[n] = 1 /\ w.stack[t].todo = {}
    <2>1. w.colour[n] = 1
      BY <1>1, <1>2, <1>3 DEF StackIsPath
    <2> QED
      BY <2>1 DEF Top
  <1>11. \A m : Met(w, R, m) <=> Met(v, R, m)
    BY <1>7 DEF Met
  <1> HIDE DEF t
  <1>12. \A i \in 1..t - 1 : i \in 1..t /\ Node(w, i) # n /\ (i + 1 \in 1..t - 1 => i + 1 \in 1..t)
    <2>1. \A i \in 1..t - 1 : i \in 1..t /\ i # t /\ (i + 1 \in 1..t - 1 => i + 1 \in 1..t)
      BY <1>2, <1>3
    <2> QED
      BY <1>1, <1>2, <1>3, <2>1 DEF StackIsPath
  <1>13. StackIsPath(v, R)
    <2>1. /\ \A i \in DOMAIN v.stack : \A m \in v.stack[i].todo : <<Node(v, i), m>> \in R
          /\ \A i, j \in DOMAIN v.stack : Node(v, i) = Node(v, j) => i = j
          /\ \A i, j \in DOMAIN v.stack : i < j => Reaches(R, Node(v, i), Node(v, j))
      BY <1>1, <1>2, <1>9, <1>12 DEF StackIsPath
    <2>2. ASSUME NEW i \in 1..t - 1, i + 1 \in 1..t - 1 PROVE <<Node(v, i), Node(v, i + 1)>> \in R
      <3>1. <<Node(w, i), Node(w, i + 1)>> \in R
        BY <1>1, <1>2, <1>12, <2>2 DEF StackIsPath
      <3> QED
        BY <1>9, <2>2, <3>1
    <2>3. ASSUME NEW m \in Nodes PROVE v.colour[m] = 1 <=> \E i \in 1..t - 1 : Node(v, i) = m
      <3>1. CASE m = n
        BY <1>8, <1>9, <1>12, <3>1
      <3>2. CASE m # n
        <4>1. w.colour[m] = 1 <=> \E i \in 1..t : Node(w, i) = m
          BY <1>1, <1>2 DEF StackIsPath
        <4>2. \A i \in 1..t : i = t \/ i \in 1..t - 1
          BY <1>2
        <4> QED
          BY <1>8, <1>9, <1>12, <3>2, <4>1, <4>2
      <3> QED
        BY <3>1, <3>2
    <2> QED
      BY <1>9, <2>1, <2>2, <2>3 DEF StackIsPath
  <1>14. Explored(v, R, {})
    <2> SUFFICES ASSUME NEW i \in 1..t - 1, NEW m \in Nodes, <<Node(v, i), m>> \in R
                 PROVE  \/ m \in v.stack[i].todo \/ v.colour[m] = 2
                        \/ i + 1 \in 1..t - 1 /\ Node(v, i + 1) = m
                        \/ Met(v, R, Node(v, i))
      BY <1>9 DEF Explored
    <2>1. \/ m \in w.stack[i].todo \/ w.colour[m] = 2
          \/ i + 1 \in 1..t /\ Node(w, i + 1) = m
          \/ Met(w, R, Node(w, i))
      BY <1>1, <1>2, <1>9, <1>12 DEF Explored
    <2>2. w.colour[m] = 2 => v.colour[m] = 2
      BY <1>8
    <2>3. ASSUME i + 1 \in 1..t, Node(w, i + 1) = m
          PROVE  v.colour[m] = 2 \/ (i + 1 \in 1..t - 1 /\ Node(v, i + 1) = m)
      <3>1. CASE i + 1 = t
        BY <1>8, <2>3, <3>1
      <3>2. CASE i + 1 # t
        <4>1. i + 1 \in 1..t - 1
          BY <1>2, <2>3, <3>2
        <4> QED
          BY <1>9, <2>3, <4>1
      <3> QED
        BY <3>1, <3>2
    <2> QED
      BY <1>9, <1>11, <2>1, <2>2, <2>3
  <1>15. Reaches(R, n, n) => Met(w, R, n)
    <2> SUFFICES ASSUME Reaches(R, n, n), ~Met(w, R, n) PROVE FALSE
      OBVIOUS
    <2>1. PICK m \in Nodes : <<n, m>> \in R /\ (m = n \/ Reaches(R, m, n))
      BY ReachesFirst
    <2>2. t + 1 \notin DOMAIN w.stack
      BY <1>2
    <2>3. w.colour[m] = 2
      BY <1>1, <1>2, <1>3, <1>10, <2>1, <2>2 DEF Explored
    <2>4. Reaches(R, m, n) /\ Reaches(R, n, m)
      BY <1>10, <2>1, <2>3, ReachesIs
    <2>5. Reaches(R, m, m)
      BY <2>4, ReachesOn
    <2>6. PICK c \in w.seen : Reaches(R, m, c[1]) /\ Reaches(R, c[1], m)
      BY <1>1, <2>3, <2>5 DEF FinishedMet, Met
    <2>7. Reaches(R, n, c[1]) /\ Reaches(R, c[1], n)
      BY <2>4, <2>6, ReachesOn
    <2> QED
      BY <2>7 DEF Met
  <1>16. FinishedMet(v, R)
    BY <1>1, <1>8, <1>11, <1>15 DEF FinishedMet
  <1>17. Begun(v, R)
    <2> SUFFICES ASSUME NEW a \in Nodes, NEW b \in Nodes, <<a, b>> \in R
                 PROVE  a \in v.roots \/ v.colour[a] # 0
      BY DEF Begun
    <2>1. a \in w.roots \/ w.colour[a] # 0
      BY <1>1 DEF Begun
    <2> QED
      BY <1>7, <1>8, <2>1
  <1>18. FoundIsSeen(v, R, s)
    BY <1>1, <1>7 DEF FoundIsSeen
  <1> QED
    BY <1>7, <1>13, <1>14, <1>16, <1>17, <1>18 DEF CycleWalk, v

\* What is reported of the artifacts N once the search is over.
CyclesTold(w, R, s, N) ==
    /\ \A c \in w.found :
        /\ c # <<>> /\ \A i \in DOMAIN c : <<c[i], After(c, i)>> \in R
        /\ \A i, j \in DOMAIN c : c[i] = c[j] => i = j
        /\ \E i \in DOMAIN c : InScope(c[i], s)
        /\ \A d \in w.found : Rotation(c, d) => c = d
    /\ s = System /\ ~w.truncated =>
        \A n \in N : Reaches(R, n, n) =>
            \E c \in w.found : Reaches(R, n, c[1]) /\ Reaches(R, c[1], n)

\* With no path and no root left every artifact on a cycle is accounted for.
LEMMA CyclesEnd ==
    ASSUME NEW w, NEW R, Among(R), NEW s, CycleWalk(w, R, s, {}), NEW N, N \subseteq Nodes,
           w.truncated \/ (w.stack = <<>> /\ w.roots = {})
    PROVE  CyclesTold(w, R, s, N)
PROOF
  <1>1. /\ CyclesTyped(w) /\ StackIsPath(w, R) /\ FinishedMet(w, R) /\ Begun(w, R)
        /\ FoundIsSeen(w, R, s)
    BY DEF CycleWalk
  <1>2. \A c \in w.found : Loop(R, c) /\ Walk(R, c) /\ \E i \in DOMAIN c : InScope(c[i], s)
    BY <1>1 DEF FoundIsSeen, Loop
  <1>3. \A c, d \in w.found : Rotation(c, d) => c = d
    BY <1>2, LoopsDiffer
  <1>4. ASSUME s = System, ~w.truncated, NEW n \in N, Reaches(R, n, n)
        PROVE  \E c \in w.found : Reaches(R, n, c[1]) /\ Reaches(R, c[1], n)
    <2>1. PICK m \in Nodes : <<n, m>> \in R
      BY <1>4, ReachesFirst
    <2>2. n \in Nodes /\ w.colour[n] # 0
      BY <1>1, <1>4, <2>1 DEF Begun
    <2>3. w.colour[n] # 1
      <3>1. DOMAIN w.stack = {}
        BY <1>4
      <3> QED
        BY <1>1, <2>2, <3>1 DEF StackIsPath
    <2>4. w.colour[n] = 2
      <3>1. w.colour[n] \in 0..2
        BY <1>1, <2>2 DEF CyclesTyped
      <3> QED
        BY <2>2, <2>3, <3>1
    <2> QED
      BY <1>1, <1>4, <2>2, <2>4 DEF FinishedMet, Met, FoundIsSeen
  <1> QED
    BY <1>2, <1>3, <1>4 DEF Walk, CyclesTold

-----------------------------------------------------------------------------
(***************************************************************************)
(* Both searches.                                                          *)
(***************************************************************************)

SearchInv ==
    /\ Asked
    /\ pc \in {"cycles", "cycles reported"} => CycleWalk(walk, Steps(walk.type), scope, {})
    /\ pc = "cycles reported" => walk.truncated \/ (walk.stack = <<>> /\ walk.roots = {})
    /\ pc \in {"impact", "impact reported"} =>
            walk.incoming \in BOOLEAN /\ ImpactWalk(walk, Edges(walk.incoming))
    /\ pc = "impact reported" => walk.full \/ (walk.todo = {} /\ walk.queue = <<>>)

LEMMA StepsAre ==
    ASSUME Asked, NEW type
    PROVE  /\ Among(Steps(type))
           /\ \A n \in Nodes : /\ Adjacent(type)[n] \subseteq Nodes
                               /\ \A m \in Nodes : m \in Adjacent(type)[n] <=> <<n, m>> \in Steps(type)
PROOF
  <1>1. shown \subseteq Nodes
    BY LinksAre
  <1>2. \A l \in links : l = <<l[1], l[2], l[3]>>
    BY LinksAre
  <1>3. \A n, m : <<n, m>> \in Steps(type) <=> n \in shown /\ m \in shown /\ <<n, m, type>> \in links
    <2>1. ASSUME NEW n, NEW m, <<n, m>> \in Steps(type)
          PROVE  n \in shown /\ m \in shown /\ <<n, m, type>> \in links
      <3>1. PICK l \in links : <<n, m>> = <<l[1], l[2]>> /\ l[3] = type /\ l[1] \in shown /\ l[2] \in shown
        BY <2>1 DEF Steps
      <3>2. l[1] = n /\ l[2] = m /\ l = <<l[1], l[2], l[3]>>
        BY <1>2, <3>1
      <3> QED
        BY <3>1, <3>2
    <2>2. ASSUME NEW n, NEW m, n \in shown, m \in shown, <<n, m, type>> \in links
          PROVE  <<n, m>> \in Steps(type)
      <3> DEFINE l == <<n, m, type>>
      <3>1. l \in links /\ l[1] = n /\ l[2] = m /\ l[3] = type
        BY <2>2
      <3> HIDE DEF l
      <3> QED
        BY <2>2, <3>1 DEF Steps
    <2> QED
      BY <2>1, <2>2
  <1>4. Among(Steps(type))
    <2>1. \A q \in Steps(type) : \E n \in shown, m \in shown : q = <<n, m>>
      BY DEF Steps
    <2> QED
      BY <1>1, <2>1 DEF Among
  <1>5. \A n \in Nodes : Adjacent(type)[n] = {m \in shown : n \in shown /\ <<n, m, type>> \in links}
    BY DEF Adjacent
  <1> QED
    BY <1>1, <1>3, <1>4, <1>5

LEMMA StartCycleWalk ==
    ASSUME Asked, NEW type \in Acyclic
    PROVE  CycleWalk(StartCycles(type), Steps(type), scope, {}) /\ StartCycles(type).type = type
PROOF
  <1> DEFINE w == StartCycles(type)
             R == Steps(type)
             roots == {n \in Nodes : Adjacent(type)[n] # {}}
             white == [n \in Nodes |-> 0]
  <1>1. /\ w = [type |-> type, colour |-> white, stack |-> <<>>, roots |-> roots,
                seen |-> {}, found |-> {}, truncated |-> FALSE]
    BY DEF StartCycles
  <1>2. /\ w.type = type /\ w.colour = white /\ w.stack = <<>> /\ w.roots = roots
        /\ w.seen = {} /\ w.found = {}
    BY <1>1
  <1>3. white \in [Nodes -> 0..2] /\ \A n \in Nodes : white[n] = 0
    OBVIOUS
  <1>4. CyclesTyped(w)
    <2>1. roots \in SUBSET Nodes /\ <<>> \in Seq(Frames)
      OBVIOUS
    <2> HIDE DEF w, roots, white
    <2> QED
      BY <1>1, <1>3, <2>1 DEF CyclesTyped
  <1> HIDE DEF w, white
  <1>5. DOMAIN w.stack = {}
    BY <1>2
  <1>6. StackIsPath(w, R) /\ Explored(w, R, {})
    BY <1>2, <1>3, <1>5 DEF StackIsPath, Explored
  <1>7. FinishedMet(w, R) /\ FoundIsSeen(w, R, scope)
    BY <1>2, <1>3 DEF FinishedMet, FoundIsSeen
  <1>8. Begun(w, R)
    BY <1>2, StepsAre DEF Begun
  <1> QED
    BY <1>2, <1>4, <1>6, <1>7, <1>8 DEF CycleWalk, w

\* Every step of the cycle search.
LEMMA CycleStep ==
    ASSUME SearchInv, Root \/ Child \/ Leave
    PROVE  CycleWalk(walk', Steps(walk.type), scope, {}) /\ walk'.type = walk.type
PROOF
  <1> DEFINE R == Steps(walk.type)
  <1>0. Asked /\ Among(R) /\ CycleWalk(walk, R, scope, {})
    BY StepsAre DEF SearchInv, Root, Child, Leave
  <1>1. CyclesTyped(walk)
    BY <1>0 DEF CycleWalk
  <1>2. ASSUME NEW n \in Nodes
        PROVE  /\ Frame(n) \in Frames /\ Frame(n).node = n
               /\ \A m \in Nodes : m \in Frame(n).todo <=> <<n, m>> \in R
    <2>1. Frame(n) = [node |-> n, todo |-> Adjacent(walk.type)[n]]
      BY DEF Frame
    <2>2. /\ Adjacent(walk.type)[n] \subseteq Nodes
          /\ \A m \in Nodes : m \in Adjacent(walk.type)[n] <=> <<n, m>> \in R
      BY <1>0, StepsAre
    <2> QED
      BY <2>1, <2>2 DEF Frames
  <1> HIDE DEF R
  <1>3. CASE Root
    <2>1. PICK n \in walk.roots :
            walk' = IF walk.colour[n] = 2 THEN [walk EXCEPT !.roots = @ \ {n}]
                    ELSE [walk EXCEPT !.roots = @ \ {n}, !.colour[n] = 1, !.stack = <<Frame(n)>>]
      BY <1>3 DEF Root
    <2>2. n \in Nodes /\ walk.stack = <<>>
      BY <1>1, <1>3 DEF CyclesTyped, Root
    <2>3. CASE walk.colour[n] = 2
      <3>1. walk' = [walk EXCEPT !.roots = @ \ {n}]
        BY <2>1, <2>3
      <3>2. walk'.type = walk.type
        BY <1>1, <3>1 DEF CyclesTyped
      <3>3. CycleWalk([walk EXCEPT !.roots = @ \ {n}], R, scope, {})
        BY <1>0, <2>3, RootPassed
      <3> QED
        BY <3>1, <3>2, <3>3 DEF R
    <2>4. CASE walk.colour[n] # 2
      <3>1. walk' = [walk EXCEPT !.roots = @ \ {n}, !.colour[n] = 1, !.stack = <<Frame(n)>>]
        BY <2>1, <2>4
      <3>2. walk'.type = walk.type
        BY <1>1, <3>1 DEF CyclesTyped
      <3> DEFINE f == Frame(n)
      <3>3. f \in Frames /\ f.node = n /\ \A m \in Nodes : m \in f.todo <=> <<n, m>> \in R
        BY <1>2, <2>2
      <3> HIDE DEF f
      <3>4. CycleWalk([walk EXCEPT !.roots = @ \ {n}, !.colour[n] = 1, !.stack = <<f>>], R, scope, {})
        BY <1>0, <2>2, <2>4, <3>3, RootPushed
      <3> QED
        BY <3>1, <3>2, <3>4 DEF R, f
    <2> QED
      BY <2>3, <2>4
  <1>4. CASE Child
    <2>1. PICK n \in walk.stack[Len(walk.stack)].todo :
            walk' = Visit([walk EXCEPT !.stack[Len(walk.stack)].todo = @ \ {n}], n)
      BY <1>4 DEF Child
    <2> DEFINE w == [walk EXCEPT !.stack[Len(walk.stack)].todo = @ \ {n}]
    <2>2. walk.stack # <<>>
      BY <1>4 DEF Child
    <2>3. /\ CycleWalk(w, R, scope, {n}) /\ w.stack # <<>>
          /\ n \in Nodes /\ <<Node(w, Top(w)), n>> \in R
      BY <1>0, <2>2, ChildTaken
    <2>4. w.type = walk.type
      BY <1>1 DEF CyclesTyped
    <2>5. walk' = Visit(w, n)
      BY <2>1
    <2> HIDE DEF w
    <2>6. CyclesTyped(w) /\ w.colour[n] \in 0..2
      BY <2>3 DEF CycleWalk, CyclesTyped
    <2>7. CASE w.colour[n] = 1
      <3> DEFINE key == CanonicalKey(LoopAt(PathOf(w.stack), n))
                 reported == key \notin w.seen /\ \E i \in DOMAIN key : InScope(key[i], scope)
                 found == IF reported THEN w.found \cup {key} ELSE w.found
                 truncated == reported /\ Cardinality(found) >= MaxCycles
      <3>1. walk' = Closes(w, n)
        BY <2>5, <2>7 DEF Visit
      <3>2. walk' = [w EXCEPT !.seen = @ \cup {key}, !.found = found, !.truncated = truncated]
        BY <3>1 DEF Closes
      <3>3. /\ Loop(R, key)
            /\ Reaches(R, Node(w, Top(w)), key[1]) /\ Reaches(R, key[1], Node(w, Top(w)))
        BY <1>0, <2>3, <2>7, LoopClosed
      <3>4. truncated \in BOOLEAN
        OBVIOUS
      <3> HIDE DEF key, truncated
      <3>5. CycleWalk([w EXCEPT !.seen = @ \cup {key}, !.found = found, !.truncated = truncated], R, scope, {})
        BY <2>3, <3>3, <3>4, ChildCloses
      <3>6. walk'.type = w.type
        BY <2>6, <3>2 DEF CyclesTyped
      <3> QED
        BY <2>4, <3>2, <3>5, <3>6 DEF R
    <2>8. CASE w.colour[n] = 2
      <3>1. walk' = w
        BY <2>5, <2>8 DEF Visit
      <3> QED
        BY <2>3, <2>4, <2>8, <3>1, ChildPassed DEF R
    <2>9. CASE w.colour[n] = 0
      <3>1. walk' = [w EXCEPT !.colour[n] = 1, !.stack = Append(@, Frame(n))]
        BY <2>5, <2>9 DEF Visit
      <3>2. walk'.type = w.type
        BY <2>6, <3>1 DEF CyclesTyped
      <3> DEFINE f == Frame(n)
      <3>3. f \in Frames /\ f.node = n /\ \A m \in Nodes : m \in f.todo <=> <<n, m>> \in R
        BY <1>2, <2>3
      <3> HIDE DEF f
      <3>4. CycleWalk([w EXCEPT !.colour[n] = 1, !.stack = Append(@, f)], R, scope, {})
        BY <1>0, <2>3, <2>9, <3>3, ChildPushed
      <3> QED
        BY <2>4, <3>1, <3>2, <3>4 DEF R, f
    <2> QED
      BY <2>6, <2>7, <2>8, <2>9
  <1>5. CASE Leave
    <2>1. /\ walk.stack # <<>> /\ walk.stack[Len(walk.stack)].todo = {}
          /\ walk' = [walk EXCEPT !.colour[walk.stack[Len(walk.stack)].node] = 2,
                                  !.stack = SubSeq(@, 1, Len(@) - 1)]
      BY <1>5 DEF Leave
    <2>2. walk'.type = walk.type
      BY <1>1, <2>1 DEF CyclesTyped
    <2>3. CycleWalk([walk EXCEPT !.colour[walk.stack[Len(walk.stack)].node] = 2,
                                 !.stack = SubSeq(@, 1, Len(@) - 1)], R, scope, {})
      BY <1>0, <2>1, LeaveKeeps
    <2> QED
      BY <2>1, <2>2, <2>3 DEF R
  <1> QED
    BY <1>3, <1>4, <1>5 DEF R

\* Every step of the impact search.
LEMMA ImpactStep ==
    ASSUME SearchInv, Take \/ Arrive
    PROVE  ImpactWalk(walk', Edges(walk.incoming)) /\ walk'.incoming = walk.incoming
PROOF
  <1> DEFINE E == Edges(walk.incoming)
  <1>0. Asked /\ walk.incoming \in BOOLEAN /\ EdgesAmong(E) /\ ImpactWalk(walk, E)
    BY EdgesAre DEF SearchInv, Take, Arrive
  <1>1. ImpactTyped(walk, E)
    BY <1>0 DEF ImpactWalk
  <1> HIDE DEF E
  <1>2. CASE Take
    <2>1. /\ walk.todo = {} /\ walk.queue # <<>>
          /\ walk' = [walk EXCEPT !.queue = Tail(@), !.todo = {e \in E : e[1] = Head(walk.queue)}]
      BY <1>2 DEF Take, E
    <2>2. walk'.incoming = walk.incoming
      BY <1>1, <2>1 DEF ImpactTyped
    <2>3. ImpactWalk([walk EXCEPT !.queue = Tail(@), !.todo = {e \in E : e[1] = Head(walk.queue)}], E)
      BY <1>0, <2>1, TakeKeeps
    <2> QED
      BY <2>1, <2>2, <2>3 DEF E
  <1>3. CASE Arrive
    <2>1. PICK e \in walk.todo :
            LET w == [walk EXCEPT !.todo = @ \ {e}, !.via[e[2]] = @ \cup {e[3]}]
                depth == Reached(walk.depth, e[2], walk.depth[e[1]] + 1)
            IN  walk' = IF e[2] \in DOMAIN walk.depth THEN w
                        ELSE [w EXCEPT !.depth = depth, !.queue = Append(@, e[2]),
                                       !.full = Cardinality(DOMAIN depth) >= MaxImpacted]
      BY <1>3 DEF Arrive
    <2> DEFINE w == [walk EXCEPT !.todo = @ \ {e}, !.via[e[2]] = @ \cup {e[3]}]
               depth == Reached(walk.depth, e[2], walk.depth[e[1]] + 1)
               v == [w EXCEPT !.depth = depth, !.queue = Append(@, e[2]),
                              !.full = Cardinality(DOMAIN depth) >= MaxImpacted]
    <2>2. ~walk.full
      BY <1>3 DEF Arrive
    <2>3. CASE e[2] \in DOMAIN walk.depth
      <3>1. walk' = w
        BY <2>1, <2>3
      <3>2. ImpactWalk(w, E)
        BY <1>0, <2>3, ArriveAgainKeeps
      <3>3. w.incoming = walk.incoming
        BY <1>1 DEF ImpactTyped
      <3> HIDE DEF w
      <3> QED
        BY <3>1, <3>2, <3>3 DEF E
    <2>4. CASE e[2] \notin DOMAIN walk.depth
      <3>1. walk' = v
        BY <2>1, <2>4
      <3>2. ImpactWalk(v, E)
        BY <1>0, <2>2, <2>4, ArriveFirstKeeps
      <3>3. v.incoming = walk.incoming
        BY <1>1 DEF ImpactTyped
      <3> HIDE DEF v
      <3> QED
        BY <3>1, <3>2, <3>3 DEF E
    <2> QED
      BY <2>3, <2>4
  <1> QED
    BY <1>2, <1>3 DEF E

LEMMA SearchStep == SearchInv /\ [ReportsNext]_reportsVars => SearchInv'
PROOF
  <1> SUFFICES ASSUME SearchInv, [ReportsNext]_reportsVars PROVE SearchInv'
    OBVIOUS
  <1>1. Asked /\ Asked'
    BY AskedStays DEF SearchInv
  <1>2. links' = links /\ shown' = shown /\ scope' = scope
    BY DEF ReportsNext, Search, Root, Child, Leave, CyclesDone, Take, Arrive, ImpactDone,
           Reported, reportsVars
  <1>3. \A t : Steps(t)' = Steps(t)
    BY <1>2 DEF Steps
  <1>4. \A b : Edges(b)' = Edges(b)
    BY <1>2 DEF Edges
  <1>5. ASSUME NEW type \in Acyclic, pc' = "cycles", walk' = StartCycles(type) PROVE SearchInv'
    <2>1. CycleWalk(walk', Steps(type), scope, {}) /\ walk'.type = type
      BY <1>1, <1>5, StartCycleWalk
    <2>2. CycleWalk(walk', Steps(walk'.type), scope, {})
      BY <2>1
    <2>3. CycleWalk(walk, Steps(walk.type), scope, {})'
      BY <1>2, <1>3, <2>2
    <2> QED
      BY <1>1, <1>5, <2>3 DEF SearchInv
  <1>6. ASSUME NEW seed \in Nodes, NEW incoming \in BOOLEAN,
               pc' = "impact", walk' = StartImpact(seed, incoming)
        PROVE  SearchInv'
    <2>1. ImpactWalk(walk', Edges(incoming))
      BY <1>1, <1>6, StartImpactWalk
    <2>2. walk'.incoming = incoming
      BY <1>6 DEF StartImpact
    <2>3. ImpactWalk(walk, Edges(walk.incoming))'
      BY <1>4, <2>1, <2>2
    <2> QED
      BY <1>1, <1>6, <2>2, <2>3 DEF SearchInv
  <1>7. CASE Search
    BY <1>5, <1>6, <1>7 DEF Search
  <1>8. CASE Root \/ Child \/ Leave
    <2>1. CycleWalk(walk', Steps(walk.type), scope, {}) /\ walk'.type = walk.type
      BY <1>8, CycleStep
    <2>2. CycleWalk(walk, Steps(walk.type), scope, {})'
      BY <1>2, <1>3, <2>1
    <2>3. pc' = "cycles"
      BY <1>8 DEF Root, Child, Leave
    <2> QED
      BY <1>1, <2>2, <2>3 DEF SearchInv
  <1>9. CASE Take \/ Arrive
    <2>1. ImpactWalk(walk', Edges(walk.incoming)) /\ walk'.incoming = walk.incoming
      BY <1>9, ImpactStep
    <2>2. walk.incoming \in BOOLEAN /\ pc' = "impact"
      BY <1>9 DEF Take, Arrive, SearchInv
    <2>3. ImpactWalk(walk, Edges(walk.incoming))'
      BY <1>4, <2>1
    <2> QED
      BY <1>1, <2>1, <2>2, <2>3 DEF SearchInv
  <1>10. ASSUME walk' = walk PROVE /\ CycleWalk(walk, Steps(walk.type), scope, {}) =>
                                        CycleWalk(walk, Steps(walk.type), scope, {})'
                                   /\ ImpactWalk(walk, Edges(walk.incoming)) =>
                                        ImpactWalk(walk, Edges(walk.incoming))'
    BY <1>2, <1>3, <1>4, <1>10
  <1>11. CASE CyclesDone
    BY <1>1, <1>10, <1>11 DEF CyclesDone, SearchInv
  <1>12. CASE ImpactDone
    BY <1>1, <1>10, <1>12 DEF ImpactDone, SearchInv
  <1>13. CASE UNCHANGED reportsVars
    BY <1>1, <1>10, <1>13 DEF reportsVars, SearchInv
  <1> QED
    BY <1>7, <1>8, <1>9, <1>11, <1>12, <1>13 DEF ReportsNext, Reported

\* The reports of the searches (cycles and impact_analysis in
\* reports/compute.rs) are right: SearchesAreRight.  Every cycle reported is one,
\* in scope and reported once; of the whole system none is left out; what
\* depends on an artifact is what can be reached from it, at its distance, with
\* the types that lead there; and a limit that is met leaves what was found true.
THEOREM TheSearchesAreRight == ReportsSpec => []SearchesAreRight
PROOF
  <1>1. ReportsInit => SearchInv
    BY DEF ReportsInit, SearchInv, Asked
  <1>2. SearchInv => SearchesAreRight
    <2> SUFFICES ASSUME SearchInv PROVE SearchesAreRight
      OBVIOUS
    <2>1. CyclesAreRight
      <3> SUFFICES ASSUME pc = "cycles reported" PROVE CyclesAreRight
        BY DEF CyclesAreRight
      <3>1. Among(Steps(walk.type)) /\ shown \subseteq Nodes
        BY StepsAre, LinksAre DEF SearchInv
      <3>2. /\ CycleWalk(walk, Steps(walk.type), scope, {})
            /\ walk.truncated \/ (walk.stack = <<>> /\ walk.roots = {})
        BY DEF SearchInv
      <3> DEFINE R == Steps(walk.type)
      <3>3. /\ Among(R) /\ CycleWalk(walk, R, scope, {}) /\ shown \subseteq Nodes
            /\ walk.truncated \/ (walk.stack = <<>> /\ walk.roots = {})
        BY <3>1, <3>2
      <3> HIDE DEF R
      <3>4. CyclesTold(walk, R, scope, shown)
        BY <3>3, CyclesEnd
      <3> QED
        BY <3>4 DEF CyclesAreRight, CyclesTold, R
    <2>2. ImpactIsReach
      <3> SUFFICES ASSUME pc = "impact reported" PROVE ImpactIsReach
        BY DEF ImpactIsReach
      <3> DEFINE E == Edges(walk.incoming)
      <3>1. /\ ImpactWalk(walk, E) /\ EdgesAmong(E)
            /\ walk.full \/ (walk.todo = {} /\ walk.queue = <<>>)
        BY EdgesAre DEF SearchInv
      <3>2. AtDistance(walk, E)
        BY <3>1 DEF ImpactWalk
      <3>3. LET all == Near(walk, E, Cardinality(Nodes))
            IN  IF walk.full THEN Cardinality(DOMAIN walk.depth) = MaxImpacted
                ELSE /\ DOMAIN walk.depth = all
                     /\ \A n \in all : walk.via[n] =
                        {e[3] : e \in {f \in E : f[1] \in all /\ f[2] = n}}
        BY <3>1, ImpactEnds
      <3> QED
        BY <3>2, <3>3 DEF ImpactIsReach, AtDistance, Near, Arcs
    <2> QED
      BY <2>1, <2>2 DEF SearchesAreRight
  <1> QED
    BY <1>1, <1>2, SearchStep, PTL DEF ReportsSpec

-----------------------------------------------------------------------------
(***************************************************************************)
(* The views that are folds.                                               *)
(***************************************************************************)

USE ReportsAssumption

\* Under the cap nothing is cut off.
LEMMA FirstOfFew ==
    ASSUME NEW N, N \subseteq Nodes, Cardinality(N) <= Cap
    PROVE  First(N) = N
PROOF
  <1>1. IsFiniteSet(N) /\ Cardinality(N) \in Nat
    BY FS_Subset, FS_CardinalityType
  <1>2. ASSUME NEW n \in N PROVE Cardinality({m \in N : m < n}) < Cap
    <2> DEFINE below == {m \in N : m < n}
    <2>1. below \subseteq N /\ n \notin below
      OBVIOUS
    <2>2. below # N
      BY <1>2, <2>1
    <2> HIDE DEF below
    <2>3. /\ IsFiniteSet(below) /\ Cardinality(below) <= Cardinality(N)
          /\ Cardinality(below) = Cardinality(N) => below = N
      BY <1>1, <2>1, FS_Subset
    <2>4. Cardinality(below) \in Nat
      BY <2>3, FS_CardinalityType
    <2>5. Cardinality(below) < Cap
      BY <1>1, <2>2, <2>3, <2>4
    <2> QED
      BY <2>5 DEF below
  <1> QED
    BY <1>2 DEF First

\* The graph, the link matrix, the orphans, the unresolved links, the conflicts
\* and the coverage, each computed on its own (graph/compute.rs,
\* matrix/compute.rs, reports/compute.rs), agree about what is linked: ViewsAgree.
THEOREM TheViewsAgree == ReportsSpec => []ViewsAgree
PROOF
  <1>1. ReportsInit => Asked
    BY DEF ReportsInit, Asked
  <1>2. Asked => ViewsAgree
    <2> SUFFICES ASSUME Asked, NEW s \in Scopes
                 PROVE
        LET orphans == LinkOrphans(s)
            drawn == GraphEdges(System, Types)
        IN  /\ Cardinality(InScopeArtifacts(s)) <= Cap =>
                \A t \in Types : MatrixEdges(s, s, t) =
                    {<<l[1], l[2]>> : l \in GraphEdges(s, {t})}
            /\ orphans = LinkOrphans(System) \cap InScopeArtifacts(s)
            /\ \A l \in drawn \cup UnresolvedLinks(System) :
                    l[1] \notin orphans /\ l[2] \notin orphans
            /\ \A c \in Conflicts(System) : c.pair \cap orphans = {}
            /\ \A n \in InScopeArtifacts(s) : CoverageMatrix(s)[n] = {} =>
                    ~\E l \in drawn : l[2] = n /\ l[3] \in Covering
            /\ \A n \in orphans : CoverageMatrix(s)[n] = {}
      BY DEF ViewsAgree
    <2> DEFINE orphans == LinkOrphans(s)
               drawn == GraphEdges(System, Types)
               N == InScopeArtifacts(s)
    <2>0. N \subseteq Nodes /\ N \subseteq shown
      BY LinksAre DEF InScopeArtifacts
    <2>1. ASSUME Cardinality(N) <= Cap, NEW t \in Types
          PROVE  MatrixEdges(s, s, t) = {<<l[1], l[2]>> : l \in GraphEdges(s, {t})}
      <3>1. First(N) = N
        BY <2>0, <2>1, FirstOfFew
      <3>2. GraphEdges(s, {t}) = {m \in links : m[3] = t /\ m[1] \in N /\ m[2] \in N}
        BY <3>1 DEF GraphEdges
      <3>3. ~(Cardinality(N) > Cap)
        <4>1. Cardinality(N) \in Nat
          BY <2>0, FS_Subset, FS_CardinalityType
        <4> QED
          BY <2>1, <4>1
      <3>4. MatrixEdges(s, s, t) =
                {<<l[1], l[2]>> : l \in {m \in links : m[3] = t /\ m[1] \in N /\ m[2] \in N}}
        BY <3>3 DEF MatrixEdges
      <3> QED
        BY <3>2, <3>4
    <2>2. orphans = LinkOrphans(System) \cap N
      BY DEF LinkOrphans, InScopeArtifacts, InScope, N, orphans
    <2>3. \A n \in orphans : n \in N /\ ~\E l \in links : l[1] = n \/ l[2] = n
      BY DEF LinkOrphans
    <2>4. drawn \cup UnresolvedLinks(System) \subseteq links
      BY DEF GraphEdges, UnresolvedLinks
    <2>5. \A c \in Conflicts(System) : \E l \in links : c.pair = {l[1], l[2]}
      <3> DEFINE directed == {l \in links : /\ l[3] = Conflict /\ l[1] # l[2]
                                            /\ l[1] \in shown /\ l[2] \in shown}
                 M == {m \in directed : InScope(m[1], System) \/ InScope(m[2], System)}
                 entry(l) == [pair |-> {l[1], l[2]}, both |-> <<l[2], l[1], Conflict>> \in directed]
      <3>1. Conflicts(System) = {entry(l) : l \in M}
        BY DEF Conflicts
      <3>2. M \subseteq links
        OBVIOUS
      <3> HIDE DEF M, entry
      <3>3. ASSUME NEW c \in Conflicts(System) PROVE \E l \in links : c = entry(l)
        BY <3>1, <3>2, <3>3
      <3>4. \A l : entry(l).pair = {l[1], l[2]}
        BY DEF entry
      <3> QED
        BY <3>3, <3>4
    <2>6. \A n \in N : CoverageMatrix(s)[n] = {l \in links : l[2] = n /\ l[3] \in Covering /\ l[1] \in shown}
      BY DEF CoverageMatrix
    <2>7. \A l \in drawn : l[1] \in shown /\ l \in links
      BY DEF GraphEdges, First, InScopeArtifacts
    <2> HIDE DEF orphans, drawn, N
    <2>8. \A n \in N : CoverageMatrix(s)[n] = {} => ~\E l \in drawn : l[2] = n /\ l[3] \in Covering
      BY <2>6, <2>7
    <2>9. \A n \in orphans : CoverageMatrix(s)[n] = {}
      BY <2>3, <2>6
    <2>10. \A c \in Conflicts(System) : c.pair \cap orphans = {}
      BY <2>3, <2>5
    <2>11. \A l \in drawn \cup UnresolvedLinks(System) : l[1] \notin orphans /\ l[2] \notin orphans
      BY <2>3, <2>4
    <2> QED
      BY <2>1, <2>2, <2>8, <2>9, <2>10, <2>11 DEF orphans, drawn, N
  <1> QED
    BY <1>1, <1>2, AskedStays, PTL DEF ReportsSpec
=============================================================================
