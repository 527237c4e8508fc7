--------------------------- MODULE ExplainProofs ----------------------------
(***************************************************************************)
(* What `bazel-diff explain` reports is exact, for any pair of hash files, *)
(* all dependency edges, targets, depth bounds and caps on the roots.      *)
(*                                                                         *)
(* The labels walk_upstream met form a tree of dependency edges (Tree),    *)
(* and its queue spans one hop (Pending), so the distances it gave are     *)
(* shortest ones when the queue is empty.  The paths of the roots and the  *)
(* graph follow from the tree, the order of the roots from the distances.  *)
(***************************************************************************)
EXTENDS Explain, FiniteSetTheorems, WellFoundedInduction, TLAPS

-----------------------------------------------------------------------------
(* Induction over the natural numbers for sets.                            *)

LEMMA LeastNumber ==
    ASSUME NEW T, T \subseteq Nat, T # {}
    PROVE  \E n \in T : \A m \in T : n <= m
<1> DEFINE R == OpToRel(<, Nat)
<1>1. IsWellFoundedOn(R, Nat)
  BY NatLessThanWellFounded, Zenon
<1>2. \A m, k \in Nat : m < k => <<m, k>> \in R
  BY DEF OpToRel
<1> HIDE DEF R
<1>3. PICK n \in T : \A m \in T : ~(<<m, n>> \in R)
  BY <1>1, WFMin, Zenon
<1>4. \A m \in T : ~(m < n)
  BY <1>2, <1>3, Zenon
<1> QED BY <1>4

LEMMA SetInduction ==
    ASSUME NEW S, 0 \in S, \A n \in Nat : n \in S => n + 1 \in S
    PROVE  \A n \in Nat : n \in S
<1> DEFINE T == {n \in Nat : n \notin S}
<1> SUFFICES ASSUME T # {} PROVE FALSE
  OBVIOUS
<1>1. PICK n \in T : \A m \in T : n <= m
  BY LeastNumber, Zenon
<1>2. n # 0 /\ n - 1 \in Nat /\ n - 1 \notin T
  BY <1>1
<1>3. n - 1 \in S
  BY <1>2
<1>4. (n - 1) + 1 \in S
  BY <1>2, <1>3
<1> QED BY <1>1, <1>4

\* The least number of a non-empty set.
LEMMA MinFacts ==
    ASSUME NEW T, T \subseteq Nat, T # {}
    PROVE  Min(T) \in T /\ \A m \in T : Min(T) <= m
  BY LeastNumber, Zenon DEF Min

-----------------------------------------------------------------------------
(* Sorted lists.  By a strict total order, a member's place is its own, so *)
(* every place is taken and Sorted lists each member once, in order.       *)

Orders(before, S) ==
    /\ \A x \in S : <<x, x>> \notin before
    /\ \A x, y \in S : x # y => <<x, y>> \in before \/ <<y, x>> \in before
    /\ \A x, y, z \in S : <<x, y>> \in before /\ <<y, z>> \in before => <<x, z>> \in before

LEMMA PlaceGrows ==
    ASSUME NEW S, IsFiniteSet(S), NEW before, Orders(before, S),
           NEW x \in S, NEW y \in S, <<x, y>> \in before
    PROVE  Place(x, S, before) < Place(y, S, before)
<1> DEFINE A == {z \in S : <<z, x>> \in before}
           B == {z \in S : <<z, y>> \in before}
<1>1. A \in SUBSET B /\ B \in SUBSET S
  BY DEF Orders
<1>2. x \in B /\ x \notin A
  BY DEF Orders
<1> HIDE DEF A, B
<1>3. IsFiniteSet(B)
  BY <1>1, FS_Subset
<1>4. IsFiniteSet(A) /\ Cardinality(A) <= Cardinality(B) /\ (Cardinality(B) = Cardinality(A) => B = A)
  BY <1>1, <1>3, FS_Subset
<1>5. Cardinality(A) \in Nat /\ Cardinality(B) \in Nat
  BY <1>3, <1>4, FS_CardinalityType
<1>6. Cardinality(A) < Cardinality(B)
  BY <1>2, <1>4, <1>5
<1> QED BY <1>6 DEF Place, A, B

LEMMA PlaceTypes ==
    ASSUME NEW S, IsFiniteSet(S), NEW before, Orders(before, S), NEW x \in S
    PROVE  Place(x, S, before) \in 0 .. Cardinality(S) - 1
<1> DEFINE A == {z \in S : <<z, x>> \in before}
<1>1. A \in SUBSET (S \ {x})
  BY DEF Orders
<1> HIDE DEF A
<1>2. IsFiniteSet(S \ {x}) /\ Cardinality(S \ {x}) = Cardinality(S) - 1
  BY FS_RemoveElement
<1>3. IsFiniteSet(A) /\ Cardinality(A) <= Cardinality(S) - 1
  BY <1>1, <1>2, FS_Subset
<1>4. Cardinality(A) \in Nat /\ Cardinality(S) \in Nat
  BY <1>3, FS_CardinalityType
<1>5. Cardinality(A) \in 0 .. Cardinality(S) - 1
  BY <1>3, <1>4
<1> QED BY <1>5 DEF Place, A

LEMMA PlacesTaken ==
    ASSUME NEW S, IsFiniteSet(S), NEW before, Orders(before, S),
           NEW i \in 1 .. Cardinality(S)
    PROVE  \E x \in S : Place(x, S, before) = i - 1
<1> DEFINE n == Cardinality(S)
           T == 0 .. n - 1
           f == [x \in S |-> Place(x, S, before)]
<1>1. n \in Nat
  BY FS_CardinalityType
<1>2. f \in [S -> T]
  BY PlaceTypes
<1>3. ASSUME NEW x \in S, NEW y \in S, f[x] = f[y] PROVE x = y
  <2> SUFFICES ASSUME x # y PROVE FALSE
    OBVIOUS
  <2>1. Place(x, S, before) = Place(y, S, before) /\ Place(x, S, before) \in T /\ Place(y, S, before) \in T
    BY <1>3, PlaceTypes
  <2>2. <<x, y>> \in before \/ <<y, x>> \in before
    BY DEF Orders
  <2>3. Place(x, S, before) < Place(y, S, before) \/ Place(y, S, before) < Place(x, S, before)
    BY <2>2, PlaceGrows
  <2> QED BY <1>1, <2>1, <2>3
<1> HIDE DEF f
<1>4. f \in Injection(S, T)
  BY <1>2, <1>3 DEF Injection, IsInjective
<1>5. IsFiniteSet(T) /\ Cardinality(T) = n
  <2>1. 0 \in Int /\ n - 1 \in Int
    BY <1>1
  <2>2. IsFiniteSet(T) /\ Cardinality(T) = IF 0 > n - 1 THEN 0 ELSE (n - 1) - 0 + 1
    BY <2>1, FS_Interval
  <2> HIDE DEF n
  <2> QED BY <1>1, <2>2
<1> HIDE DEF T
<1>6. f \in Surjection(S, T)
  BY <1>4, <1>5, FS_Injection
<1>7. i - 1 \in T
  BY <1>1 DEF T
<1>8. PICK x \in S : f[x] = i - 1
  BY <1>6, <1>7 DEF Surjection
<1> QED BY <1>8 DEF f

LEMMA SortedFacts ==
    ASSUME NEW S, IsFiniteSet(S), NEW before, Orders(before, S), NEW s, s = Sorted(S, before)
    PROVE  /\ Cardinality(S) \in Nat /\ s \in [1 .. Cardinality(S) -> S]
           /\ s \in Seq(S) /\ Len(s) = Cardinality(S) /\ DOMAIN s = 1 .. Len(s)
           /\ Members(s) = S
           /\ \A i, j \in DOMAIN s : i < j <=> <<s[i], s[j]>> \in before
           /\ \A i, j \in DOMAIN s : s[i] = s[j] => i = j
<1> DEFINE n == Cardinality(S)
<1>1. n \in Nat
  BY FS_CardinalityType
<1>2. s = [i \in 1 .. n |-> CHOOSE x \in S : Place(x, S, before) = i - 1]
  BY DEF Sorted
<1> HIDE DEF n
<1>3. ASSUME NEW i \in 1 .. n
      PROVE  s[i] \in S /\ Place(s[i], S, before) = i - 1
  <2>1. \E x \in S : Place(x, S, before) = i - 1
    BY PlacesTaken DEF n
  <2>2. s[i] = CHOOSE x \in S : Place(x, S, before) = i - 1
    BY <1>2
  <2> HIDE <1>2
  <2> QED BY <2>1, <2>2
<1>4. s \in [1 .. n -> S]
  BY <1>2, <1>3
<1>5. s \in Seq(S) /\ Len(s) = n /\ DOMAIN s = 1 .. n
  BY <1>1, <1>4
<1>6. ASSUME NEW x \in S PROVE \E i \in 1 .. n : s[i] = x
  <2> DEFINE i == Place(x, S, before) + 1
  <2>1. Place(x, S, before) \in 0 .. n - 1
    BY PlaceTypes DEF n
  <2>2. i \in 1 .. n /\ i - 1 = Place(x, S, before)
    BY <1>1, <2>1
  <2> HIDE DEF i
  <2>3. s[i] \in S /\ Place(s[i], S, before) = Place(x, S, before)
    BY <1>3, <2>2
  <2>4. ~(Place(s[i], S, before) < Place(x, S, before)) /\ ~(Place(x, S, before) < Place(s[i], S, before))
    BY <2>1, <2>3
  <2>5. s[i] = x
    BY <2>3, <2>4, PlaceGrows, Zenon DEF Orders
  <2> QED BY <2>2, <2>5
<1>7. Members(s) = S
  BY <1>3, <1>5, <1>6 DEF Members
<1>8. ASSUME NEW i \in 1 .. n, NEW j \in 1 .. n, s[i] = s[j] PROVE i = j
  <2>1. i - 1 = j - 1
    BY <1>3, <1>8
  <2> QED BY <1>1, <2>1
<1>9. ASSUME NEW i \in 1 .. n, NEW j \in 1 .. n PROVE i < j <=> <<s[i], s[j]>> \in before
  <2>1. /\ s[i] \in S /\ Place(s[i], S, before) = i - 1
        /\ s[j] \in S /\ Place(s[j], S, before) = j - 1
    BY <1>3
  <2>2. <<s[i], s[j]>> \in before => i - 1 < j - 1
    BY <2>1, PlaceGrows
  <2>3. <<s[j], s[i]>> \in before => j - 1 < i - 1
    BY <2>1, PlaceGrows
  <2>4. i < j => s[i] # s[j]
    BY <1>1, <1>8
  <2>5. s[i] # s[j] => <<s[i], s[j]>> \in before \/ <<s[j], s[i]>> \in before
    BY <2>1 DEF Orders
  <2> QED BY <1>1, <2>2, <2>3, <2>4, <2>5
<1> QED BY <1>1, <1>4, <1>5, <1>7, <1>8, <1>9 DEF n

-----------------------------------------------------------------------------
(* Explain.  The labels within k hops exist and grow with k.               *)

IsReach(R, types, edges, goal, n) ==
    /\ R[0] = {goal}
    /\ \A k \in 1 .. n : R[k] = Upstream(types, edges, R[k - 1])

LEMMA ReachExists ==
    ASSUME NEW types, NEW edges, NEW goal
    PROVE  \A n \in Nat : \E R : IsReach(R, types, edges, goal, n)
<1> DEFINE Is(R, n) == IsReach(R, types, edges, goal, n)
           S == {n \in Nat : \E R : Is(R, n)}
<1>1. 0 \in S
  <2> DEFINE R == [k \in 0 .. 0 |-> {goal}]
  <2>1. R[0] = {goal}
    OBVIOUS
  <2> HIDE DEF R
  <2>2. Is(R, 0)
    BY <2>1 DEF IsReach
  <2> QED BY <2>2
<1>2. ASSUME NEW n \in Nat, n \in S
      PROVE  n + 1 \in S
  <2>1. PICK R : Is(R, n)
    BY <1>2
  <2> DEFINE M == [k \in 0 .. n + 1 |->
                      IF k = n + 1 THEN Upstream(types, edges, R[n]) ELSE R[k]]
  <2>2. M[0] = R[0] /\ M[n + 1] = Upstream(types, edges, M[n])
    OBVIOUS
  <2>3. \A k \in 1 .. n : M[k] = R[k] /\ M[k - 1] = R[k - 1]
    OBVIOUS
  <2> HIDE DEF M
  <2>4. ASSUME NEW k \in 1 .. n + 1 PROVE M[k] = Upstream(types, edges, M[k - 1])
    <3>1. CASE k = n + 1
      <4>1. k - 1 = n
        BY <3>1
      <4> QED BY <2>2, <3>1, <4>1
    <3>2. CASE k # n + 1
      <4>1. k \in 1 .. n
        BY <3>2
      <4> QED BY <2>1, <2>3, <4>1 DEF IsReach
    <3> QED BY <3>1, <3>2
  <2>5. Is(M, n + 1)
    BY <2>1, <2>2, <2>4 DEF IsReach
  <2> QED BY <2>5
<1> HIDE DEF S
<1>3. \A n \in Nat : n \in S
  BY <1>1, <1>2, SetInduction
<1> QED BY <1>3 DEF S

\* What UpstreamDistance stands for: the first stage of the reach a label is in.
FirstMet(up, R, hops) ==
    /\ DOMAIN up = R[hops]
    /\ \A l \in R[hops] :
          /\ up[l] \in 0 .. hops /\ l \in R[up[l]]
          /\ \A k \in 0 .. hops : l \in R[k] => up[l] <= k

LEMMA DistancesAre ==
    ASSUME NEW types, NEW edges, NEW goal, IsFiniteSet(DOMAIN types),
           NEW hops, hops = Cardinality(DOMAIN types)
    PROVE  \E R : /\ IsReach(R, types, edges, goal, hops)
                  /\ FirstMet(Distances(types, edges, goal), R, hops)
<1> DEFINE F(g) == [k \in 0 .. hops |->
                       IF k = 0 THEN {goal} ELSE Upstream(types, edges, g[k - 1])]
           G == CHOOSE g : g = F(g)
<1>1. hops \in Nat
  BY FS_CardinalityType
<1>2. PICK R : IsReach(R, types, edges, goal, hops)
  BY <1>1, ReachExists
<1> DEFINE r == [k \in 0 .. hops |-> R[k]]
<1>3. \A k \in 0 .. hops : r[k] = R[k]
  OBVIOUS
<1>4. r = F(r)
  <2>1. ASSUME NEW k \in 0 .. hops
        PROVE  R[k] = IF k = 0 THEN {goal} ELSE Upstream(types, edges, r[k - 1])
    <3>1. CASE k = 0
      BY <1>2, <3>1 DEF IsReach
    <3>2. CASE k # 0
      <4>1. k \in 1 .. hops /\ k - 1 \in 0 .. hops
        BY <1>1, <3>2
      <4>2. R[k] = Upstream(types, edges, R[k - 1]) /\ r[k - 1] = R[k - 1]
        BY <1>2, <1>3, <4>1 DEF IsReach
      <4> QED BY <3>2, <4>2
    <3> QED BY <3>1, <3>2
  <2> QED BY <2>1, Zenon
<1>5. G = F(G)
  <2> HIDE DEF F, r
  <2> QED BY <1>4
<1>6. Distances(types, edges, goal) = [l \in G[hops] |-> Min({k \in 0 .. hops : l \in G[k]})]
  BY DEF Distances
<1> HIDE DEF G
<1>7. IsReach(G, types, edges, goal, hops)
  <2>1. \A k \in 0 .. hops : G[k] = IF k = 0 THEN {goal} ELSE Upstream(types, edges, G[k - 1])
    BY <1>5, Zenon
  <2>2. G[0] = {goal}
    BY <1>1, <2>1
  <2>3. ASSUME NEW k \in 1 .. hops PROVE G[k] = Upstream(types, edges, G[k - 1])
    <3>1. k \in 0 .. hops /\ k # 0
      BY <1>1
    <3> QED BY <2>1, <3>1
  <2> QED BY <2>2, <2>3 DEF IsReach
<1> DEFINE up == Distances(types, edges, goal)
<1> HIDE DEF up
<1>8. ASSUME NEW l \in G[hops]
      PROVE  up[l] \in 0 .. hops /\ l \in G[up[l]] /\ \A k \in 0 .. hops : l \in G[k] => up[l] <= k
  <2> DEFINE T == {k \in 0 .. hops : l \in G[k]}
  <2>1. T \subseteq Nat /\ hops \in T
    BY <1>1
  <2>2. up[l] = Min(T)
    BY <1>6 DEF up
  <2>3. Min(T) \in T /\ \A m \in T : Min(T) <= m
    <3> HIDE DEF T
    <3> QED BY <2>1, MinFacts, Zenon
  <2> QED BY <2>2, <2>3
<1>9. DOMAIN up = G[hops]
  BY <1>6 DEF up
<1>10. FirstMet(up, G, hops)
  BY <1>8, <1>9 DEF FirstMet
<1> QED BY <1>7, <1>10 DEF up

LEMMA ReachGrows ==
    ASSUME NEW types, NEW edges, NEW goal, NEW n \in Nat, NEW R,
           IsReach(R, types, edges, goal, n), NEW j \in 0 .. n
    PROVE  R[j] \subseteq R[n]
<1> DEFINE S == {m \in Nat : j + m <= n => R[j] \subseteq R[j + m]}
<1>1. 0 \in S
  OBVIOUS
<1>2. ASSUME NEW m \in Nat, m \in S PROVE m + 1 \in S
  <2> SUFFICES ASSUME j + (m + 1) <= n PROVE R[j] \subseteq R[j + (m + 1)]
    OBVIOUS
  <2>1. R[j] \subseteq R[j + m]
    BY <1>2
  <2>2. j + (m + 1) \in 1 .. n /\ (j + (m + 1)) - 1 = j + m
    OBVIOUS
  <2>3. R[j + (m + 1)] = Upstream(types, edges, R[j + m])
    BY <2>2 DEF IsReach
  <2> QED BY <2>1, <2>3 DEF Upstream
<1> HIDE DEF S
<1>3. \A m \in Nat : m \in S
  BY <1>1, <1>2, SetInduction
<1>4. n - j \in Nat /\ j + (n - j) = n
  OBVIOUS
<1>5. n - j \in S
  BY <1>3, <1>4
<1> QED BY <1>4, <1>5 DEF S

-----------------------------------------------------------------------------
(* The walk.                                                               *)

Visited == DOMAIN why.distances

DepsOf(l) == Members(Deps(why.edges, l))

\* The labels met form a tree of dependency edges rooted at the target, in which
\* a label's distance is that of its parent and one more.
Tree ==
    /\ why.target \in Visited /\ Visited \subseteq DOMAIN Types
    /\ why.distances \in [Visited -> Nat] /\ why.distances[why.target] = 0
    /\ DOMAIN why.parents = Visited \ {why.target}
    /\ \A l \in DOMAIN why.parents :
          /\ why.parents[l] \in Visited
          /\ why.distances[l] = why.distances[why.parents[l]] + 1
          /\ l \in DepsOf(why.parents[l])
    /\ why.maxDepth # Unbounded => \A l \in Visited : why.distances[l] <= why.maxDepth

Deepened(l) == why.maxDepth = Unbounded \/ why.distances[l] < why.maxDepth

\* The queue is in the order of distance and spans one hop, and what left it has
\* its impacted dependencies met, as far as the depth bound allows.
Pending ==
    /\ why.queue \in Seq(Visited)
    /\ \A i, j \in 1 .. Len(why.queue) :
          i <= j => why.distances[why.queue[i]] <= why.distances[why.queue[j]]
    /\ why.queue # <<>> =>
          \A l \in Visited : why.distances[l] <= why.distances[why.queue[1]] + 1
    /\ \A p \in Visited \ Members(why.queue), d \in DOMAIN Types :
          d \in DepsOf(p) =>
             /\ Deepened(p) => d \in Visited /\ why.distances[d] <= why.distances[p] + 1
             /\ ~why.cut => d \in Visited

WellAsked ==
    /\ IsFiniteSet(DOMAIN Types) /\ DOMAIN Types \subseteq Nat \X Nat
    /\ why.edges \in [DOMAIN why.edges -> Seq(Nat \X Nat)]
    /\ why.maxDepth \in Nat \cup {Unbounded}

\* Every distance up to that of a label met is the distance of one.
LEMMA DistancesTaken ==
    ASSUME Tree, NEW l \in Visited, NEW k \in 0 .. why.distances[l]
    PROVE  \E m \in Visited : why.distances[m] = k
<1> DEFINE D == why.distances
           S == {n \in Nat : n <= D[l] => \E m \in Visited : D[m] = D[l] - n}
<1>1. \A m \in Visited : D[m] \in Nat
  BY DEF Tree
<1>2. 0 \in S
  BY <1>1
<1>3. ASSUME NEW n \in Nat, n \in S PROVE n + 1 \in S
  <2> SUFFICES ASSUME n + 1 <= D[l] PROVE \E m \in Visited : D[m] = D[l] - (n + 1)
    OBVIOUS
  <2>1. PICK m \in Visited : D[m] = D[l] - n
    BY <1>1, <1>3
  <2>2. m # why.target
    BY <1>1, <2>1 DEF Tree
  <2>3. why.parents[m] \in Visited /\ D[m] = D[why.parents[m]] + 1
    BY <2>2 DEF Tree
  <2>4. D[why.parents[m]] = D[l] - (n + 1)
    BY <1>1, <2>1, <2>3
  <2> QED BY <2>3, <2>4
<1> HIDE DEF S
<1>4. \A n \in Nat : n \in S
  BY <1>2, <1>3, SetInduction
<1>5. D[l] - k \in Nat /\ D[l] - k <= D[l] /\ D[l] - (D[l] - k) = k
  BY <1>1
<1>6. D[l] - k \in S
  BY <1>4, <1>5
<1> QED BY <1>5, <1>6 DEF S

\* So a distance is less than the number of labels met.
LEMMA DistanceBound ==
    ASSUME Tree, IsFiniteSet(Visited), NEW l \in Visited
    PROVE  why.distances[l] \in Nat /\ why.distances[l] + 1 <= Cardinality(Visited)
<1> DEFINE D == why.distances
           I == 0 .. D[l]
           f == [k \in I |-> CHOOSE m \in Visited : D[m] = k]
<1>1. D[l] \in Nat
  BY DEF Tree
<1>2. \A k \in I : f[k] \in Visited /\ D[f[k]] = k
  <2> SUFFICES ASSUME NEW k \in I PROVE f[k] \in Visited /\ D[f[k]] = k
    BY Zenon
  <2>1. \E m \in Visited : D[m] = k
    BY DistancesTaken
  <2> QED BY <2>1
<1>3. f \in [I -> Visited]
  BY <1>2, Zenon
<1> HIDE DEF f
<1>4. f \in Injection(I, Visited)
  BY <1>2, <1>3 DEF Injection, IsInjective
<1>5. Cardinality(I) <= Cardinality(Visited)
  <2> HIDE DEF I
  <2> QED BY <1>4, FS_Injection
<1>6. Cardinality(I) = D[l] + 1
  <2>1. 0 \in Int /\ D[l] \in Int
    BY <1>1
  <2>2. Cardinality(I) = IF 0 > D[l] THEN 0 ELSE D[l] - 0 + 1
    <3> HIDE DEF D
    <3> QED BY <2>1, FS_Interval
  <2> QED BY <1>1, <2>2
<1> QED BY <1>1, <1>5, <1>6

\* The labels met are within the reach of their distances.
LEMMA WalkSound ==
    ASSUME Tree, WellAsked, NEW hops, hops = Cardinality(DOMAIN Types),
           NEW R, IsReach(R, Types, why.edges, why.target, hops), NEW l \in Visited
    PROVE  why.distances[l] \in 0 .. hops /\ l \in R[why.distances[l]]
<1> DEFINE D == why.distances
           S == {n \in Nat : n <= hops => \A m \in Visited : D[m] = n => m \in R[n]}
<1>1. \A m \in Visited : D[m] \in Nat
  BY DEF Tree
<1>2. IsFiniteSet(Visited) /\ Cardinality(Visited) <= hops
  BY FS_Subset DEF Tree, WellAsked
<1>3. hops \in Nat /\ Cardinality(Visited) \in Nat
  BY <1>2, FS_CardinalityType DEF WellAsked
<1>4. D[l] \in 0 .. hops
  BY <1>1, <1>2, <1>3, DistanceBound
<1>5. 0 \in S
  <2> SUFFICES ASSUME NEW m \in Visited, D[m] = 0 PROVE m \in R[0]
    OBVIOUS
  <2>1. m = why.target
    BY <1>1 DEF Tree
  <2> QED BY <2>1 DEF IsReach
<1>6. ASSUME NEW n \in Nat, n \in S PROVE n + 1 \in S
  <2> SUFFICES ASSUME n + 1 <= hops, NEW m \in Visited, D[m] = n + 1 PROVE m \in R[n + 1]
    OBVIOUS
  <2>1. m # why.target
    BY <1>1 DEF Tree
  <2>2. why.parents[m] \in Visited /\ D[m] = D[why.parents[m]] + 1 /\ m \in DepsOf(why.parents[m])
    BY <2>1 DEF Tree
  <2>3. D[why.parents[m]] = n
    BY <1>1, <2>2
  <2>4. why.parents[m] \in R[n]
    BY <1>3, <1>6, <2>2, <2>3
  <2>5. n + 1 \in 1 .. hops /\ (n + 1) - 1 = n
    BY <1>3
  <2>6. R[n + 1] = Upstream(Types, why.edges, R[n])
    BY <2>5 DEF IsReach
  <2>7. m \in DOMAIN Types
    BY DEF Tree
  <2> QED BY <2>2, <2>4, <2>6, <2>7 DEF Upstream, DepsOf
<1> HIDE DEF S
<1>7. \A n \in Nat : n \in S
  BY <1>5, <1>6, SetInduction
<1>8. D[l] \in S
  BY <1>1, <1>7
<1> QED BY <1>3, <1>4, <1>8 DEF S

Within(n) == why.maxDepth = Unbounded \/ n <= why.maxDepth

\* When the queue is empty the walk has met all there is within the depth bound,
\* and everything if nothing was cut.
LEMMA WalkComplete ==
    ASSUME Tree, Pending, WellAsked, why.queue = <<>>, NEW hops \in Nat,
           NEW R, IsReach(R, Types, why.edges, why.target, hops), NEW k \in 0 .. hops
    PROVE  \A l \in R[k] :
              /\ Within(k) => l \in Visited /\ why.distances[l] <= k
              /\ ~why.cut => l \in Visited
<1> DEFINE D == why.distances
           Met(l, n) == /\ Within(n) => l \in Visited /\ D[l] <= n
                        /\ ~why.cut => l \in Visited
           S == {n \in Nat : n <= hops => \A l \in R[n] : Met(l, n)}
<1>1. \A m \in Visited : D[m] \in Nat
  BY DEF Tree
<1>2. Members(why.queue) = {}
  BY DEF Members
<1>3. 0 \in S
  <2> SUFFICES ASSUME NEW l \in R[0] PROVE Met(l, 0)
    OBVIOUS
  <2>1. l = why.target
    BY DEF IsReach
  <2> QED BY <2>1 DEF Tree
<1>4. ASSUME NEW n \in Nat, n \in S PROVE n + 1 \in S
  <2> SUFFICES ASSUME n + 1 <= hops, NEW d \in R[n + 1] PROVE Met(d, n + 1)
    OBVIOUS
  <2>1. n + 1 \in 1 .. hops /\ (n + 1) - 1 = n /\ n <= hops
    OBVIOUS
  <2>2. R[n + 1] = Upstream(Types, why.edges, R[n])
    BY <2>1 DEF IsReach
  <2>3. \A l \in R[n] : Met(l, n)
    BY <1>4, <2>1
  <2>4. Within(n + 1) => Within(n) /\ (why.maxDepth = Unbounded \/ n < why.maxDepth)
    BY DEF Within, WellAsked
  <2>5. CASE d \in R[n]
    <3>1. Met(d, n)
      BY <2>3, <2>5
    <3> QED BY <1>1, <2>4, <3>1
  <2>6. CASE d \notin R[n]
    <3>1. PICK l \in R[n] : d \in DOMAIN Types /\ d \in DepsOf(l)
      BY <2>2, <2>6 DEF Upstream, DepsOf
    <3>2. Met(l, n)
      BY <2>3
    <3>3. ASSUME Within(n + 1) PROVE d \in Visited /\ D[d] <= n + 1
      <4>1. l \in Visited /\ D[l] <= n
        BY <2>4, <3>2, <3>3
      <4>2. Deepened(l)
        BY <1>1, <2>4, <3>3, <4>1 DEF Deepened, WellAsked
      <4>3. d \in Visited /\ D[d] <= D[l] + 1
        BY <1>2, <3>1, <4>1, <4>2 DEF Pending
      <4>4. D[d] \in Nat /\ D[l] \in Nat
        BY <1>1, <4>1, <4>3
      <4> QED BY <4>1, <4>3, <4>4
    <3>4. ASSUME ~why.cut PROVE d \in Visited
      BY <1>2, <3>1, <3>2, <3>4 DEF Pending
    <3> QED BY <3>3, <3>4
  <2> QED BY <2>5, <2>6
<1> HIDE DEF S
<1>5. \A n \in Nat : n \in S
  BY <1>3, <1>4, SetInduction
<1>6. k \in Nat /\ k <= hops /\ k \in S
  BY <1>5
<1> QED BY <1>6 DEF S

\* The walk's distances are the shortest ones, and it met exactly the labels
\* within the depth bound.
WalkDone ==
    \A up \in {UpstreamDistance} :
       /\ \A l \in Visited : l \in DOMAIN up /\ up[l] = why.distances[l]
       /\ \A l \in DOMAIN up : up[l] \in Nat /\ (Within(up[l]) <=> l \in Visited)
       /\ ~why.cut => DOMAIN up = Visited

LEMMA WalkExact ==
    ASSUME Tree, Pending, WellAsked, why.queue = <<>>
    PROVE  WalkDone
<1> DEFINE D == why.distances
           hops == Cardinality(DOMAIN Types)
           up == UpstreamDistance
<1>1. hops \in Nat
  BY FS_CardinalityType DEF WellAsked
<1>2. PICK R : IsReach(R, Types, why.edges, why.target, hops) /\ FirstMet(up, R, hops)
  <2>1. IsFiniteSet(DOMAIN Types)
    BY DEF WellAsked
  <2>2. hops = Cardinality(DOMAIN Types)
    OBVIOUS
  <2> HIDE DEF hops
  <2> QED BY <2>1, <2>2, DistancesAre, Zenon DEF UpstreamDistance
<1> HIDE DEF up, hops
<1>3. \A m \in Visited : D[m] \in Nat /\ Within(D[m])
  BY DEF Tree, Within, WellAsked
<1>4. \A l \in Visited : D[l] \in 0 .. hops /\ l \in R[D[l]]
  BY <1>2, WalkSound DEF hops
<1>5. \A k \in 0 .. hops : R[k] \subseteq R[hops]
  BY <1>1, <1>2, ReachGrows, Zenon
<1>6. \A k \in 0 .. hops : \A l \in R[k] :
         /\ Within(k) => l \in Visited /\ D[l] <= k
         /\ ~why.cut => l \in Visited
  BY <1>1, <1>2, WalkComplete
<1>7. DOMAIN up = R[hops]
  BY <1>2 DEF FirstMet
<1>8. ASSUME NEW l \in R[hops]
      PROVE  up[l] \in 0 .. hops /\ l \in R[up[l]] /\ \A k \in 0 .. hops : l \in R[k] => up[l] <= k
  BY <1>2 DEF FirstMet
<1>9. ASSUME NEW l \in Visited PROVE l \in DOMAIN up /\ up[l] = D[l]
  <2>1. l \in R[hops]
    BY <1>4, <1>5
  <2>2. up[l] <= D[l] /\ up[l] \in Nat
    BY <1>1, <1>4, <1>8, <2>1
  <2>3. Within(up[l])
    BY <1>3, <2>2 DEF Within, WellAsked
  <2>4. D[l] <= up[l]
    BY <1>6, <1>8, <2>1, <2>3
  <2> QED BY <1>3, <1>7, <2>1, <2>2, <2>4
<1>10. ASSUME NEW l \in DOMAIN up
       PROVE  up[l] \in Nat /\ (Within(up[l]) <=> l \in Visited)
  <2>1. up[l] \in Nat /\ (Within(up[l]) => l \in Visited)
    BY <1>1, <1>6, <1>7, <1>8
  <2>2. l \in Visited => Within(up[l])
    BY <1>3, <1>9
  <2> QED BY <2>1, <2>2
<1>11. ASSUME ~why.cut PROVE DOMAIN up = Visited
  <2>1. R[hops] \subseteq Visited
    BY <1>1, <1>6, <1>11
  <2> QED BY <1>7, <1>9, <2>1, Zenon
<1> QED BY <1>9, <1>10, <1>11 DEF WalkDone, up

-----------------------------------------------------------------------------
(* The steps of the walk.                                                  *)

\* The labels put on the queue are the impacted dependencies not met before.
LEMMA UnvisitedFacts ==
    ASSUME WellAsked
    PROVE  /\ Unvisited \in Seq(DOMAIN Types \ Visited)
           /\ Members(Unvisited) = DepsOf(AtHand) \cap (DOMAIN Types \ Visited)
<1> DEFINE deps == Deps(why.edges, AtHand)
           New == DOMAIN Types \ Visited
           places == {i \in DOMAIN deps : deps[i] \in New /\ \A j \in 1 .. i - 1 : deps[j] # deps[i]}
           before == {p \in places \X places : p[1] < p[2]}
           sorted == Sorted(places, before)
<1>1. deps \in Seq(Nat \X Nat)
  BY DEF Deps, WellAsked
<1> HIDE DEF deps
<1>2. DOMAIN deps = 1 .. Len(deps) /\ Len(deps) \in Nat
  BY <1>1
<1>3. IsFiniteSet(places) /\ places \subseteq Nat
  <2>1. IsFiniteSet(1 .. Len(deps))
    BY <1>2, FS_Interval
  <2>2. places \subseteq 1 .. Len(deps)
    BY <1>2
  <2> HIDE DEF places
  <2>3. IsFiniteSet(places)
    BY <2>1, <2>2, FS_Subset, Zenon
  <2> QED BY <1>2, <2>2, <2>3
<1>4. Orders(before, places)
  <2>1. \A x, y \in places : <<x, y>> \in before <=> x < y
    OBVIOUS
  <2> HIDE DEF before, places
  <2> QED BY <1>3, <2>1 DEF Orders
<1>5. /\ Cardinality(places) \in Nat /\ sorted \in [1 .. Cardinality(places) -> places]
      /\ Members(sorted) = places
  <2> HIDE DEF before, places
  <2>1. sorted = Sorted(places, before)
    OBVIOUS
  <2> QED BY <1>3, <1>4, <2>1, SortedFacts
<1>6. Unvisited = [n \in DOMAIN sorted |-> deps[sorted[n]]]
  BY SMTT(30) DEF Unvisited, deps, Visited
<1> HIDE DEF sorted
<1>7. DOMAIN Unvisited = 1 .. Cardinality(places)
      /\ \A n \in DOMAIN Unvisited : sorted[n] \in places /\ Unvisited[n] = deps[sorted[n]]
  BY <1>5, <1>6, Zenon
<1>8. Unvisited \in [1 .. Cardinality(places) -> New]
  BY <1>5, <1>6, <1>7
<1>9. Unvisited \in Seq(New)
  <2> HIDE DEF New, places
  <2> QED BY <1>5, <1>8
<1>10. ASSUME NEW d \in Members(Unvisited) PROVE d \in Members(deps) \cap New
  <2>1. PICK n \in DOMAIN Unvisited : d = Unvisited[n]
    BY DEF Members
  <2> QED BY <1>7, <2>1 DEF Members
<1>11. ASSUME NEW d \in Members(deps) \cap New PROVE d \in Members(Unvisited)
  <2> DEFINE T == {i \in DOMAIN deps : deps[i] = d}
  <2>1. T \subseteq Nat /\ T # {}
    BY <1>2 DEF Members
  <2>2. PICK i \in T : \A m \in T : i <= m
    BY <2>1, LeastNumber, Zenon
  <2>3. i \in places
    BY <1>2, <2>2
  <2>4. PICK n \in DOMAIN sorted : sorted[n] = i
    BY <1>5, <2>3 DEF Members
  <2>5. n \in DOMAIN Unvisited /\ Unvisited[n] = d
    BY <1>6, <2>2, <2>4
  <2> QED BY <2>5 DEF Members
<1> QED BY <1>9, <1>10, <1>11 DEF DepsOf, deps

\* Taking the head of a queue and putting some labels at its end.
QueueMoved(q, u, r) ==
    /\ Len(q) \in Nat /\ Len(u) \in Nat /\ Len(q) >= 1 /\ Head(q) = q[1]
    /\ Len(r) = Len(q) - 1 + Len(u)
    /\ \A i \in 1 .. Len(r) :
          \/ i + 1 \in 1 .. Len(q) /\ r[i] = q[i + 1]
          \/ /\ i >= Len(q) /\ i - Len(q) + 1 \in 1 .. Len(u)
             /\ r[i] = u[i - Len(q) + 1]
    /\ Members(u) \subseteq Members(r) /\ Members(q) \subseteq Members(r) \cup {q[1]}

LEMMA QueueFacts ==
    ASSUME NEW S, NEW q \in Seq(S), q # <<>>, NEW u \in Seq(S)
    PROVE  Tail(q) \o u \in Seq(S) /\ QueueMoved(q, u, Tail(q) \o u)
<1> DEFINE n == Len(q)
           m == Len(u)
           r == Tail(q) \o u
<1>1. n \in Nat /\ n >= 1 /\ m \in Nat /\ Head(q) = q[1] /\ q[1] \in S
  OBVIOUS
<1>2. /\ Tail(q) \in Seq(S) /\ Len(Tail(q)) = n - 1
      /\ \A i \in 1 .. n - 1 : Tail(q)[i] = q[i + 1]
  BY <1>1
<1>3. /\ r \in Seq(S) /\ Len(r) = n - 1 + m
      /\ \A i \in 1 .. n - 1 : r[i] = q[i + 1]
      /\ \A i \in n .. n - 1 + m : r[i] = u[i - n + 1]
  <2>1. r \in Seq(S) /\ Len(r) = Len(Tail(q)) + m
    BY <1>2
  <2>2. \A i \in 1 .. Len(r) : r[i] = IF i <= n - 1 THEN Tail(q)[i] ELSE u[i - (n - 1)]
    BY <1>1, <1>2
  <2>3. \A i \in n .. n - 1 + m : i \in 1 .. Len(r) /\ ~(i <= n - 1) /\ i - (n - 1) = i - n + 1
    BY <1>1, <1>2, <2>1
  <2>4. \A i \in 1 .. n - 1 : i \in 1 .. Len(r) /\ i <= n - 1
    BY <1>1, <1>2, <2>1
  <2> QED BY <1>2, <2>1, <2>2, <2>3, <2>4
<1>4. DOMAIN q = 1 .. n /\ DOMAIN u = 1 .. m /\ DOMAIN r = 1 .. n - 1 + m
  BY <1>3
<1>5. ASSUME NEW i \in 1 .. Len(r)
      PROVE  \/ i + 1 \in 1 .. Len(q) /\ r[i] = q[i + 1]
             \/ /\ i >= Len(q) /\ i - Len(q) + 1 \in 1 .. Len(u)
                /\ r[i] = u[i - Len(q) + 1]
  <2>1. CASE i <= n - 1
    BY <1>1, <1>3, <2>1
  <2>2. CASE ~(i <= n - 1)
    BY <1>1, <1>3, <2>2
  <2> QED BY <2>1, <2>2
<1>6. ASSUME NEW x \in Members(u) PROVE x \in Members(r)
  <2>1. PICK j \in 1 .. m : x = u[j]
    BY <1>4 DEF Members
  <2>2. n - 1 + j \in n .. n - 1 + m /\ (n - 1 + j) - n + 1 = j
    BY <1>1
  <2>3. n - 1 + j \in DOMAIN r /\ r[n - 1 + j] = x
    BY <1>1, <1>3, <1>4, <2>1, <2>2
  <2> QED BY <2>3, Zenon DEF Members
<1>7. ASSUME NEW x \in Members(q), x # q[1] PROVE x \in Members(r)
  <2>1. PICK j \in 1 .. n : x = q[j]
    BY <1>4 DEF Members
  <2>2. j - 1 \in 1 .. n - 1 /\ (j - 1) + 1 = j
    BY <1>1, <1>7, <2>1
  <2>3. j - 1 \in DOMAIN r /\ r[j - 1] = x
    BY <1>1, <1>3, <1>4, <2>1, <2>2
  <2> QED BY <2>3, Zenon DEF Members
<1> QED BY <1>1, <1>3, <1>5, <1>6, <1>7 DEF QueueMoved

WhyFields == {"from", "to", "mixed", "edges", "target", "maxDepth", "types", "stage",
              "distances", "parents", "queue", "cut", "maxRoots", "answer", "format", "shown"}

\* What the walk leaves alone.
SameQuestion ==
    /\ why'.edges = why.edges /\ why'.types = why.types /\ why'.target = why.target
    /\ why'.maxDepth = why.maxDepth

LEMMA FollowKeeps ==
    ASSUME DOMAIN why = WhyFields, WellAsked, Tree, Pending, Follow
    PROVE  Tree' /\ Pending'
<1> DEFINE D == why.distances
           q == why.queue
           h == AtHand
           U == Unvisited
           New == Members(U)
           E == why'.distances
           V == Visited
<1>1. /\ q # <<>> /\ ~AtLimit /\ SameQuestion /\ why'.cut = why.cut
      /\ why'.queue = Tail(q) \o U
      /\ E = Extended(D, New, D[h] + 1)
      /\ why'.parents = Extended(why.parents, New, h)
  BY DEF Follow, WhyFields, SameQuestion, Asking
<1>2. U \in Seq(DOMAIN Types \ V) /\ New = DepsOf(h) \cap (DOMAIN Types \ V)
  BY UnvisitedFacts
<1>3. q \in Seq(V) /\ h = Head(q)
  BY DEF Pending, AtHand
<1> HIDE DEF U, h
<1>4. U \in Seq(V \cup New) /\ q \in Seq(V \cup New) /\ DOMAIN U = 1 .. Len(U)
  <2>1. DOMAIN U = 1 .. Len(U) /\ Len(U) \in Nat
    BY <1>2
  <2>2. \A i \in 1 .. Len(U) : U[i] \in New
    BY <2>1 DEF Members
  <2> HIDE DEF New
  <2>3. U \in [1 .. Len(U) -> V \cup New]
    BY <1>2, <2>1, <2>2
  <2> QED BY <1>3, <2>1, <2>3
<1> DEFINE r == why'.queue
<1>5. /\ Len(q) \in Nat /\ Len(U) \in Nat /\ Len(q) >= 1 /\ Head(q) = q[1]
      /\ r \in Seq(V \cup New) /\ Len(r) = Len(q) - 1 + Len(U)
      /\ \A i \in 1 .. Len(r) :
            \/ i + 1 \in 1 .. Len(q) /\ r[i] = q[i + 1]
            \/ /\ i >= Len(q) /\ i - Len(q) + 1 \in 1 .. Len(U)
               /\ r[i] = U[i - Len(q) + 1]
      /\ New \subseteq Members(r) /\ Members(q) \subseteq Members(r) \cup {q[1]}
  <2> HIDE DEF New, V, q, r
  <2>1. r = Tail(q) \o U /\ q # <<>> /\ Members(U) = New
    BY <1>1 DEF r, q, New
  <2>2. r \in Seq(V \cup New) /\ QueueMoved(q, U, r)
    BY <1>4, <2>1, QueueFacts
  <2> QED BY <2>1, <2>2 DEF QueueMoved
<1>6. h \in V /\ h = q[1] /\ \A i \in 1 .. Len(q) : q[i] \in V
  BY <1>3, <1>5
<1>7. \A l \in V : D[l] \in Nat
  BY DEF Tree
<1>8. /\ Visited' = V \cup New /\ V \cap New = {}
      /\ \A l \in V : E[l] = D[l]
      /\ \A l \in New : E[l] = D[h] + 1
  BY <1>1, <1>2 DEF Extended, Visited
<1>9. D[h] \in Nat /\ D[h] + 1 \in Nat /\ \A l \in V : D[l] <= D[h] + 1
  BY <1>1, <1>6, <1>7 DEF Pending
<1>10. why.maxDepth # Unbounded => D[h] + 1 <= why.maxDepth
  BY <1>1, <1>6, <1>7 DEF AtLimit, WellAsked, h
<1>11. Types' = Types /\ (\A l : DepsOf(l)' = DepsOf(l))
  BY <1>1 DEF SameQuestion, Types, DepsOf
<1> HIDE DEF New
<1>12. Tree'
  <2>1. why'.target \in Visited' /\ Visited' \subseteq DOMAIN Types' /\ why'.target \in V
    BY <1>1, <1>2, <1>8, <1>11 DEF Tree, SameQuestion
  <2>2. E \in [Visited' -> Nat] /\ E[why'.target] = 0
    <3>1. E = [l \in Visited' |-> E[l]]
      BY <1>1, <1>8 DEF Extended, Visited
    <3>2. \A l \in Visited' : E[l] \in Nat
      BY <1>7, <1>8, <1>9
    <3>3. E[why'.target] = 0
      BY <1>1, <1>8, <2>1 DEF Tree, SameQuestion
    <3> QED BY <3>1, <3>2, <3>3
  <2>3. /\ DOMAIN why'.parents = DOMAIN why.parents \cup New
        /\ \A l \in DOMAIN why.parents : why'.parents[l] = why.parents[l]
        /\ \A l \in New \ DOMAIN why.parents : why'.parents[l] = h
    BY <1>1 DEF Extended
  <2>4. DOMAIN why.parents = V \ {why.target}
    BY DEF Tree
  <2>5. DOMAIN why'.parents = Visited' \ {why'.target}
    BY <1>1, <1>8, <2>1, <2>3, <2>4 DEF SameQuestion
  <2>6. ASSUME NEW l \in DOMAIN why'.parents
        PROVE  /\ why'.parents[l] \in Visited'
               /\ E[l] = E[why'.parents[l]] + 1
               /\ l \in DepsOf(why.parents[l])'
    <3>1. CASE l \in New
      <4>1. why'.parents[l] = h
        BY <1>8, <2>3, <2>4, <3>1
      <4> QED BY <1>2, <1>6, <1>8, <1>11, <3>1, <4>1 DEF New
    <3>2. CASE l \in DOMAIN why.parents
      <4>1. /\ why'.parents[l] = why.parents[l] /\ why.parents[l] \in V /\ l \in V
            /\ D[l] = D[why.parents[l]] + 1 /\ l \in DepsOf(why.parents[l])
        BY <2>3, <2>4, <3>2 DEF Tree
      <4> QED BY <1>8, <1>11, <4>1
    <3> QED BY <2>3, <3>1, <3>2
  <2>7. why'.maxDepth # Unbounded => \A l \in Visited' : E[l] <= why'.maxDepth
    BY <1>1, <1>8, <1>10 DEF Tree, SameQuestion
  <2> QED BY <2>1, <2>2, <2>5, <2>6, <2>7 DEF Tree
<1>13. r \in Seq(Visited')
  BY <1>5, <1>8
<1>14. ASSUME NEW i \in 1 .. Len(r)
       PROVE  /\ E[r[i]] \in Nat /\ E[r[i]] <= D[h] + 1 /\ E[r[i]] >= D[h]
              /\ \/ i + 1 \in 1 .. Len(q) /\ r[i] = q[i + 1] /\ E[r[i]] = D[q[i + 1]]
                 \/ i >= Len(q) /\ E[r[i]] = D[h] + 1
  <2>1. CASE i + 1 \in 1 .. Len(q) /\ r[i] = q[i + 1]
    <3>1. q[i + 1] \in V /\ D[q[i + 1]] \in Nat /\ E[r[i]] = D[q[i + 1]]
      BY <1>6, <1>7, <1>8, <2>1
    <3>2. 1 \in 1 .. Len(q) /\ 1 <= i + 1
      BY <1>5
    <3>3. D[q[1]] <= D[q[i + 1]]
      BY <2>1, <3>2 DEF Pending
    <3> QED BY <1>6, <1>9, <2>1, <3>1, <3>3
  <2>2. CASE i >= Len(q) /\ i - Len(q) + 1 \in 1 .. Len(U) /\ r[i] = U[i - Len(q) + 1]
    <3>1. r[i] \in New
      BY <1>4, <2>2, Zenon DEF New, Members
    <3>2. E[r[i]] = D[h] + 1
      BY <1>8, <3>1
    <3> QED BY <1>9, <2>2, <3>2, SMTT(30)
  <2> QED BY <1>5, <2>1, <2>2, Zenon
<1>15. ASSUME NEW i \in 1 .. Len(r), NEW j \in 1 .. Len(r), i <= j
       PROVE  E[r[i]] <= E[r[j]]
  <2>1. CASE j >= Len(q) /\ E[r[j]] = D[h] + 1
    BY <1>14, <2>1
  <2>2. CASE j + 1 \in 1 .. Len(q) /\ r[j] = q[j + 1] /\ E[r[j]] = D[q[j + 1]]
    <3>1. i + 1 \in 1 .. Len(q) /\ r[i] = q[i + 1] /\ E[r[i]] = D[q[i + 1]]
      BY <1>5, <1>14, <1>15, <2>2, SMTT(30)
    <3>2. i + 1 <= j + 1
      BY <1>5, <1>15
    <3>3. D[q[i + 1]] <= D[q[j + 1]]
      BY <2>2, <3>1, <3>2 DEF Pending
    <3> QED BY <2>2, <3>1, <3>3
  <2> QED BY <1>14, <2>1, <2>2, SMTT(30)
<1>16. ASSUME r # <<>> PROVE \A l \in Visited' : E[l] <= E[r[1]] + 1
  <2>1. 1 \in 1 .. Len(r)
    BY <1>5, <1>16
  <2>2. E[r[1]] \in Nat /\ E[r[1]] >= D[h]
    BY <1>14, <2>1
  <2>3. \A l \in Visited' : E[l] \in Nat /\ E[l] <= D[h] + 1
    BY <1>7, <1>8, <1>9
  <2> QED BY <1>9, <2>2, <2>3
<1>17. ASSUME NEW p \in Visited' \ Members(r), NEW d \in DOMAIN Types', d \in DepsOf(p)'
       PROVE  /\ Deepened(p)' => d \in Visited' /\ E[d] <= E[p] + 1
              /\ ~why'.cut => d \in Visited'
  <2>1. p \in V /\ E[p] = D[p] /\ D[p] \in Nat /\ d \in DOMAIN Types /\ d \in DepsOf(p)
    BY <1>5, <1>7, <1>8, <1>11, <1>17
  <2>2. CASE p = h
    <3>1. d \in V \/ d \in New
      BY <1>2, <2>1, <2>2 DEF New
    <3> QED BY <1>8, <1>9, <2>1, <2>2, <3>1
  <2>3. CASE p # h
    <3>1. p \notin Members(q)
      BY <1>5, <1>6, <2>3
    <3>2. /\ Deepened(p) => d \in V /\ D[d] <= D[p] + 1
          /\ ~why.cut => d \in V
      BY <2>1, <3>1 DEF Pending
    <3>3. Deepened(p)' <=> Deepened(p)
      BY <1>1, <2>1 DEF Deepened, SameQuestion
    <3> QED BY <1>1, <1>8, <2>1, <3>2, <3>3
  <2> QED BY <2>2, <2>3
<1>18. Pending'
  BY <1>13, <1>15, <1>16, <1>17 DEF Pending
<1> QED BY <1>12, <1>18

LEMMA CutKeeps ==
    ASSUME DOMAIN why = WhyFields, WellAsked, Tree, Pending, Cut
    PROVE  Tree' /\ Pending'
<1> DEFINE D == why.distances
           q == why.queue
           h == AtHand
           V == Visited
           r == why'.queue
<1>1. /\ q # <<>> /\ AtLimit /\ SameQuestion /\ r = Tail(q)
      /\ why'.cut = (why.cut \/ Unvisited # <<>>)
      /\ why'.distances = D /\ why'.parents = why.parents
  BY DEF Cut, WhyFields, SameQuestion, Asking
<1>2. q \in Seq(V) /\ h = Head(q)
  BY DEF Pending, AtHand
<1>3. /\ Len(q) \in Nat /\ Len(q) >= 1 /\ Head(q) = q[1] /\ q[1] \in V
      /\ r \in Seq(V) /\ Len(r) = Len(q) - 1
      /\ \A i \in 1 .. Len(r) : i + 1 \in 1 .. Len(q) /\ r[i] = q[i + 1]
  <2> HIDE DEF q, V, r
  <2> QED BY <1>1, <1>2 DEF r, q
<1>4. Members(q) \subseteq Members(r) \cup {q[1]}
  <2> SUFFICES ASSUME NEW x \in Members(q), x # q[1] PROVE x \in Members(r)
    OBVIOUS
  <2>1. PICK j \in 1 .. Len(q) : x = q[j]
    BY <1>2 DEF Members
  <2>2. j - 1 \in 1 .. Len(r) /\ (j - 1) + 1 = j
    BY <1>3, <2>1
  <2>3. j - 1 \in DOMAIN r /\ r[j - 1] = x
    BY <1>3, <2>1, <2>2
  <2> QED BY <2>3 DEF Members
<1>5. /\ Types' = Types /\ (\A l : DepsOf(l)' = DepsOf(l)) /\ Visited' = V
      /\ \A l : Deepened(l)' <=> Deepened(l)
  BY <1>1 DEF SameQuestion, Types, DepsOf, Visited, Deepened
<1>6. Tree'
  BY <1>1, <1>5 DEF Tree, SameQuestion
<1>7. \A l \in V : D[l] \in Nat
  BY DEF Tree
<1>8. ASSUME NEW i \in 1 .. Len(r), NEW j \in 1 .. Len(r), i <= j
      PROVE  D[r[i]] <= D[r[j]]
  <2>1. i + 1 \in 1 .. Len(q) /\ j + 1 \in 1 .. Len(q) /\ i + 1 <= j + 1
    BY <1>3, <1>8
  <2>2. D[q[i + 1]] <= D[q[j + 1]]
    BY <2>1 DEF Pending
  <2> QED BY <1>3, <2>2, Zenon
<1>9. ASSUME r # <<>> PROVE \A l \in V : D[l] <= D[r[1]] + 1
  <2>1. 1 \in 1 .. Len(r) /\ 1 \in 1 .. Len(q) /\ 2 \in 1 .. Len(q)
    BY <1>3, <1>9
  <2>2. r[1] = q[2] /\ r[1] \in V
    BY <1>3, <2>1
  <2>3. D[q[1]] <= D[q[2]]
    BY <2>1 DEF Pending
  <2>4. \A l \in V : D[l] <= D[q[1]] + 1
    BY <1>1 DEF Pending
  <2>5. D[q[1]] \in Nat /\ D[r[1]] \in Nat /\ D[q[1]] <= D[r[1]]
    BY <1>3, <1>7, <2>2, <2>3
  <2> QED BY <1>7, <2>4, <2>5
<1>10. ASSUME NEW p \in V \ Members(r), NEW d \in DOMAIN Types, d \in DepsOf(p)
       PROVE  /\ Deepened(p) => d \in V /\ D[d] <= D[p] + 1
              /\ ~why'.cut => d \in V
  <2>1. CASE p = h
    <3>1. ~Deepened(p)
      BY <1>1, <1>7, <2>1 DEF AtLimit, Deepened, WellAsked
    <3>2. ASSUME ~why'.cut PROVE d \in V
      <4>1. Unvisited = <<>>
        BY <1>1, <3>2, Zenon
      <4>2. Members(Unvisited) = {}
        BY <4>1 DEF Members
      <4> QED BY <1>10, <2>1, <4>2, UnvisitedFacts
    <3> QED BY <3>1, <3>2
  <2>2. CASE p # h
    <3>1. p \notin Members(q)
      BY <1>2, <1>3, <1>4, <2>2
    <3> QED BY <1>1, <1>10, <3>1, Zenon DEF Pending
  <2> QED BY <2>1, <2>2
<1>11. Pending'
  BY <1>1, <1>3, <1>5, <1>8, <1>9, <1>10, SMTT(30) DEF Pending
<1> QED BY <1>6, <1>11

-----------------------------------------------------------------------------
(* The path of a root.                                                     *)

Parent(parents, l) == IF l \in DOMAIN parents THEN parents[l] ELSE l

IsCursor(c, parents, root, n) ==
    c[0] = root /\ \A k \in 1 .. n : c[k] = Parent(parents, c[k - 1])

LEMMA CursorExists ==
    ASSUME NEW parents, NEW root
    PROVE  \A n \in Nat : \E c : IsCursor(c, parents, root, n)
<1> DEFINE Is(c, n) == IsCursor(c, parents, root, n)
           S == {n \in Nat : \E c : Is(c, n)}
<1>1. 0 \in S
  <2> DEFINE c == [k \in 0 .. 0 |-> root]
  <2>1. c[0] = root
    OBVIOUS
  <2> HIDE DEF c
  <2>2. Is(c, 0)
    BY <2>1 DEF IsCursor
  <2> QED BY <2>2
<1>2. ASSUME NEW n \in Nat, n \in S
      PROVE  n + 1 \in S
  <2>1. PICK c : Is(c, n)
    BY <1>2
  <2> DEFINE e == [k \in 0 .. n + 1 |-> IF k = n + 1 THEN Parent(parents, c[n]) ELSE c[k]]
  <2>2. e[0] = c[0] /\ e[n + 1] = Parent(parents, e[n])
    OBVIOUS
  <2>3. \A k \in 1 .. n : e[k] = c[k] /\ e[k - 1] = c[k - 1]
    OBVIOUS
  <2> HIDE DEF e
  <2>4. ASSUME NEW k \in 1 .. n + 1 PROVE e[k] = Parent(parents, e[k - 1])
    <3>1. CASE k = n + 1
      <4>1. k - 1 = n
        BY <3>1
      <4> QED BY <2>2, <3>1, <4>1
    <3>2. CASE k # n + 1
      <4>1. k \in 1 .. n
        BY <3>2
      <4> QED BY <2>1, <2>3, <4>1 DEF IsCursor
    <3> QED BY <3>1, <3>2
  <2>5. Is(e, n + 1)
    BY <2>1, <2>2, <2>4 DEF IsCursor
  <2> QED BY <2>5
<1> HIDE DEF S
<1>3. \A n \in Nat : n \in S
  BY <1>1, <1>2, SetInduction
<1> QED BY <1>3 DEF S

\* What PathFrom stands for: the cursor's labels up to the first without a parent.
EndsAt(way, c, parents, hops) ==
    /\ c[hops] \notin DOMAIN parents
    /\ \A k \in 0 .. hops - 1 : c[k] \in DOMAIN parents
    /\ way = [i \in 1 .. hops + 1 |-> c[i - 1]]

LEMMA PathIs ==
    ASSUME NEW parents, IsFiniteSet(DOMAIN parents), NEW root,
           NEW most, most = Cardinality(DOMAIN parents)
    PROVE  \E c : /\ IsCursor(c, parents, root, most)
                  /\ (\E n \in 0 .. most : c[n] \notin DOMAIN parents)
                       => \E hops \in 0 .. most : EndsAt(PathFrom(parents, root), c, parents, hops)
<1> DEFINE F(g) == [n \in 0 .. most |->
                      IF n = 0 THEN root
                      ELSE IF g[n - 1] \in DOMAIN parents THEN parents[g[n - 1]]
                      ELSE g[n - 1]]
           G == CHOOSE g : g = F(g)
           T == {n \in 0 .. most : G[n] \notin DOMAIN parents}
<1>1. most \in Nat
  BY FS_CardinalityType
<1>2. PICK c : IsCursor(c, parents, root, most)
  BY <1>1, CursorExists
<1> DEFINE r == [k \in 0 .. most |-> c[k]]
<1>3. \A k \in 0 .. most : r[k] = c[k]
  OBVIOUS
<1>4. r = F(r)
  <2>1. ASSUME NEW k \in 0 .. most
        PROVE  c[k] = IF k = 0 THEN root
                      ELSE IF r[k - 1] \in DOMAIN parents THEN parents[r[k - 1]]
                      ELSE r[k - 1]
    <3>1. CASE k = 0
      BY <1>2, <3>1 DEF IsCursor
    <3>2. CASE k # 0
      <4>1. k \in 1 .. most /\ k - 1 \in 0 .. most
        BY <1>1, <3>2
      <4>2. c[k] = Parent(parents, c[k - 1]) /\ r[k - 1] = c[k - 1]
        BY <1>2, <1>3, <4>1 DEF IsCursor
      <4> QED BY <3>2, <4>2 DEF Parent
    <3> QED BY <3>1, <3>2
  <2> QED BY <2>1
<1>5. G = F(G)
  <2> HIDE DEF F, r
  <2> QED BY <1>4
<1>6. PathFrom(parents, root) = [i \in 1 .. Min(T) + 1 |-> G[i - 1]]
  BY DEF PathFrom
<1> HIDE DEF G
<1>7. IsCursor(G, parents, root, most)
  <2>1. \A n \in 0 .. most : G[n] = IF n = 0 THEN root
                                    ELSE IF G[n - 1] \in DOMAIN parents THEN parents[G[n - 1]]
                                    ELSE G[n - 1]
    BY <1>5, Zenon
  <2>2. G[0] = root
    BY <1>1, <2>1
  <2>3. ASSUME NEW k \in 1 .. most PROVE G[k] = Parent(parents, G[k - 1])
    <3>1. k \in 0 .. most /\ k # 0
      BY <1>1
    <3> QED BY <2>1, <3>1 DEF Parent
  <2> QED BY <2>2, <2>3 DEF IsCursor
<1>8. ASSUME \E n \in 0 .. most : G[n] \notin DOMAIN parents
      PROVE  \E hops \in 0 .. most : EndsAt(PathFrom(parents, root), G, parents, hops)
  <2>1. T \subseteq Nat /\ T # {}
    BY <1>1, <1>8
  <2>2. Min(T) \in T /\ \A m \in T : Min(T) <= m
    <3> HIDE DEF T
    <3> QED BY <2>1, MinFacts, Zenon
  <2> DEFINE hops == Min(T)
  <2> HIDE DEF hops
  <2>3. hops \in 0 .. most /\ G[hops] \notin DOMAIN parents
    BY <2>2 DEF hops
  <2>4. ASSUME NEW k \in 0 .. hops - 1 PROVE G[k] \in DOMAIN parents
    <3>1. k \in 0 .. most /\ ~(hops <= k)
      BY <1>1, <2>3
    <3> QED BY <2>2, <3>1 DEF hops
  <2>5. EndsAt(PathFrom(parents, root), G, parents, hops)
    BY <1>6, <2>3, <2>4 DEF EndsAt, hops
  <2> QED BY <2>3, <2>5
<1> QED BY <1>7, <1>8

\* The path of a label is as long as its distance, over dependency edges, to the
\* target.
Leads(way, l) ==
    /\ way \in Seq(Visited) /\ Len(way) = why.distances[l] + 1
    /\ way[1] = l /\ way[Len(way)] = why.target
    /\ \A j \in 1 .. Len(way) - 1 : way[j] \in DepsOf(way[j + 1])

LEMMA PathLeads ==
    ASSUME Tree, WellAsked, NEW l \in Visited
    PROVE  Leads(PathFrom(why.parents, l), l)
<1> DEFINE D == why.distances
           P == why.parents
           way == PathFrom(P, l)
           most == Cardinality(DOMAIN P)
<1>1. \A m \in Visited : D[m] \in Nat
  BY DEF Tree
<1>2. IsFiniteSet(Visited) /\ IsFiniteSet(DOMAIN P)
  BY FS_Subset DEF Tree, WellAsked
<1>3. most \in Nat /\ D[l] <= most
  <2>1. DOMAIN P = Visited \ {why.target} /\ why.target \in Visited
    BY DEF Tree
  <2>2. most = Cardinality(Visited) - 1 /\ Cardinality(Visited) \in Nat
    BY <1>2, <2>1, FS_RemoveElement, FS_CardinalityType
  <2>3. D[l] + 1 <= Cardinality(Visited)
    BY <1>2, DistanceBound
  <2> QED BY <1>1, <1>2, <2>2, <2>3, FS_CardinalityType
<1>4. PICK c : /\ IsCursor(c, P, l, most)
               /\ (\E n \in 0 .. most : c[n] \notin DOMAIN P)
                    => \E hops \in 0 .. most : EndsAt(way, c, P, hops)
  <2>1. most = Cardinality(DOMAIN P)
    OBVIOUS
  <2> HIDE DEF most
  <2> QED BY <1>2, <2>1, PathIs, Zenon
<1> HIDE DEF most, way
<1> DEFINE S == {n \in Nat : n <= D[l] => c[n] \in Visited /\ D[c[n]] = D[l] - n}
<1>5. 0 \in S
  BY <1>1, <1>4 DEF IsCursor
<1>6. ASSUME NEW n \in Nat, n \in S PROVE n + 1 \in S
  <2> SUFFICES ASSUME n + 1 <= D[l] PROVE c[n + 1] \in Visited /\ D[c[n + 1]] = D[l] - (n + 1)
    OBVIOUS
  <2>1. c[n] \in Visited /\ D[c[n]] = D[l] - n
    BY <1>1, <1>6
  <2>2. c[n] # why.target
    BY <1>1, <2>1 DEF Tree
  <2>3. c[n] \in DOMAIN P /\ P[c[n]] \in Visited /\ D[c[n]] = D[P[c[n]]] + 1
    BY <2>1, <2>2 DEF Tree
  <2>4. n + 1 \in 1 .. most /\ (n + 1) - 1 = n
    BY <1>1, <1>3
  <2>5. c[n + 1] = P[c[n]]
    BY <1>4, <2>3, <2>4 DEF IsCursor, Parent
  <2>6. D[P[c[n]]] = D[l] - (n + 1)
    BY <1>1, <2>1, <2>3
  <2> QED BY <2>3, <2>5, <2>6
<1> HIDE DEF S
<1>7. \A n \in Nat : n \in S
  BY <1>5, <1>6, SetInduction
<1>8. \A n \in 0 .. D[l] : c[n] \in Visited /\ D[c[n]] = D[l] - n
  BY <1>1, <1>7 DEF S
<1>9. \A m \in Visited : m \in DOMAIN P <=> D[m] # 0
  BY <1>1 DEF Tree
<1>10. D[l] \in 0 .. most /\ D[l] \in 0 .. D[l]
  BY <1>1, <1>3
<1>11. c[D[l]] = why.target /\ c[D[l]] \notin DOMAIN P
  <2>1. c[D[l]] \in Visited /\ D[c[D[l]]] = 0
    BY <1>1, <1>8, <1>10
  <2> QED BY <1>9, <2>1 DEF Tree
<1>12. PICK hops \in 0 .. most : EndsAt(way, c, P, hops)
  BY <1>4, <1>10, <1>11
<1>13. hops = D[l]
  <2>1. CASE hops < D[l]
    <3>1. hops \in 0 .. D[l]
      BY <1>1, <2>1
    <3>2. c[hops] \in Visited /\ D[c[hops]] # 0
      BY <1>1, <1>8, <2>1, <3>1
    <3> QED BY <1>9, <1>12, <3>2 DEF EndsAt
  <2>2. CASE hops > D[l]
    <3>1. D[l] \in 0 .. hops - 1
      BY <1>1, <2>2
    <3> QED BY <1>11, <1>12, <3>1 DEF EndsAt
  <2> QED BY <1>1, <2>1, <2>2
<1>14. way = [i \in 1 .. D[l] + 1 |-> c[i - 1]]
  BY <1>12, <1>13 DEF EndsAt
<1>15. way \in [1 .. D[l] + 1 -> Visited]
  <2>1. \A i \in 1 .. D[l] + 1 : i - 1 \in 0 .. D[l]
    BY <1>1
  <2> QED BY <1>8, <1>14, <2>1
<1>16. way \in Seq(Visited) /\ Len(way) = D[l] + 1
  BY <1>1, <1>15
<1>17. way[1] = l /\ way[Len(way)] = why.target
  <2>1. 1 \in 1 .. D[l] + 1 /\ D[l] + 1 \in 1 .. D[l] + 1 /\ (D[l] + 1) - 1 = D[l] /\ 1 - 1 = 0
    BY <1>1
  <2>2. way[1] = c[0] /\ way[D[l] + 1] = c[D[l]]
    BY <1>14, <2>1
  <2> QED BY <1>4, <1>11, <1>16, <2>2 DEF IsCursor
<1>18. ASSUME NEW j \in 1 .. Len(way) - 1 PROVE way[j] \in DepsOf(way[j + 1])
  <2>1. /\ j \in 1 .. D[l] + 1 /\ j + 1 \in 1 .. D[l] + 1 /\ j - 1 \in 0 .. D[l]
        /\ (j + 1) - 1 = j /\ j \in 1 .. most /\ D[l] - (j - 1) # 0
    BY <1>1, <1>3, <1>16, SMTT(30)
  <2>2. way[j] = c[j - 1] /\ way[j + 1] = c[j]
    BY <1>14, <2>1
  <2>3. c[j - 1] \in DOMAIN P
    BY <1>8, <1>9, <2>1
  <2>4. c[j] = P[c[j - 1]]
    BY <1>4, <2>1, <2>3 DEF IsCursor, Parent
  <2>5. c[j - 1] \in DepsOf(P[c[j - 1]])
    BY <2>3 DEF Tree
  <2> QED BY <2>2, <2>4, <2>5
<1> QED BY <1>16, <1>17, <1>18 DEF Leads, way

-----------------------------------------------------------------------------
(* The roots.                                                              *)

LEMMA NearerOrders ==
    ASSUME Tree, WellAsked
    PROVE  /\ IsFiniteSet(DirectLabels) /\ DirectLabels \subseteq Visited
           /\ Orders({p \in DirectLabels \X DirectLabels : Nearer(p[1], p[2])}, DirectLabels)
<1> DEFINE L == DirectLabels
           D == why.distances
           before == {p \in L \X L : Nearer(p[1], p[2])}
<1>1. L \subseteq Visited /\ Visited \subseteq DOMAIN Types
  BY DEF DirectLabels, Visited, Tree
<1>2. IsFiniteSet(L)
  BY <1>1, FS_Subset DEF WellAsked
<1>3. ASSUME NEW l \in L
      PROVE  D[l] \in Nat /\ l[1] \in Nat /\ l[2] \in Nat /\ l = <<l[1], l[2]>>
  BY <1>1 DEF Tree, WellAsked
<1> HIDE DEF L
<1>4. \A x, y \in L : <<x, y>> \in before <=> Nearer(x, y)
  BY Zenon
<1>5. \A x, y \in L : x[1] = y[1] /\ x[2] = y[2] => x = y
  BY <1>3
<1>6. \A x \in L : ~Nearer(x, x)
  BY <1>3 DEF Nearer
<1>7. \A x, y \in L : x # y => Nearer(x, y) \/ Nearer(y, x)
  BY <1>3, <1>5 DEF Nearer
<1>8. \A x, y, z \in L : Nearer(x, y) /\ Nearer(y, z) => Nearer(x, z)
  BY <1>3 DEF Nearer
<1> HIDE DEF before
<1>9. Orders(before, L)
  BY <1>4, <1>6, <1>7, <1>8, Zenon DEF Orders
<1> QED BY <1>1, <1>2, <1>9 DEF L, before

\* The roots are those of the direct labels met, nearest first.
ListsRoots(s) ==
    /\ s \in Seq(DirectLabels) /\ Members(s) = DirectLabels
    /\ \A i, j \in 1 .. Len(s) : i < j => why.distances[s[i]] <= why.distances[s[j]]
    /\ Len(AllRoots) = Len(s) /\ DOMAIN AllRoots = 1 .. Len(s)
    /\ \A i \in 1 .. Len(s) : AllRoots[i] = RootCause(s[i])
    /\ Len(s) = Cardinality(DirectLabels)

LEMMA RootsListed ==
    ASSUME Tree, WellAsked
    PROVE  \E s : ListsRoots(s)
<1> DEFINE L == DirectLabels
           D == why.distances
           before == {p \in L \X L : Nearer(p[1], p[2])}
           s == Sorted(L, before)
<1>1. IsFiniteSet(L) /\ L \subseteq Visited /\ Orders(before, L)
  BY NearerOrders
<1>2. /\ s \in Seq(L) /\ Len(s) = Cardinality(L) /\ DOMAIN s = 1 .. Len(s)
      /\ Members(s) = L
      /\ \A i, j \in DOMAIN s : i < j <=> <<s[i], s[j]>> \in before
  <2> HIDE DEF L, before
  <2>1. s = Sorted(L, before)
    OBVIOUS
  <2> QED BY <1>1, <2>1, SortedFacts
<1>3. AllRoots = [i \in DOMAIN s |-> RootCause(s[i])]
  BY DEF AllRoots
<1> HIDE DEF s
<1>4. \A x, y \in L : <<x, y>> \in before => D[x] <= D[y]
  <2>1. \A x, y \in L : <<x, y>> \in before => Nearer(x, y)
    BY Zenon
  <2>2. \A x \in L : D[x] \in Nat
    BY <1>1 DEF Tree
  <2> QED BY <2>1, <2>2 DEF Nearer
<1> HIDE DEF L, before
<1>5. ASSUME NEW i \in 1 .. Len(s), NEW j \in 1 .. Len(s), i < j
      PROVE  D[s[i]] <= D[s[j]]
  <2>1. s[i] \in L /\ s[j] \in L
    BY <1>2
  <2>2. <<s[i], s[j]>> \in before
    BY <1>2, <1>5, Zenon
  <2> QED BY <1>4, <2>1, <2>2, Zenon
<1>6. DOMAIN AllRoots = 1 .. Len(s) /\ \A i \in 1 .. Len(s) : AllRoots[i] = RootCause(s[i])
  BY <1>2, <1>3
<1>7. Len(s) \in Nat
  BY <1>2
<1>8. Len(AllRoots) = Len(s)
  <2> DEFINE R == {RootCause(s[i]) : i \in 1 .. Len(s)}
  <2>1. AllRoots \in [1 .. Len(s) -> R]
    BY <1>2, <1>3
  <2> HIDE DEF R
  <2> QED BY <1>7, <2>1
<1> QED BY <1>2, <1>5, <1>6, <1>8 DEF ListsRoots, L

\* Cutting the list to a cap leaves a front of it, empty only when the list is.
IsFront(roots, s, n, cap) ==
    /\ roots \in Seq(Members(roots)) /\ Len(roots) = n /\ DOMAIN roots = 1 .. n
    /\ \A i \in 1 .. n : roots[i] = RootCause(s[i])
    /\ Len(s) > 0 => n > 0
    /\ cap = 0 => n = Len(s)

LEMMA KeptFacts ==
    ASSUME Tree, WellAsked, NEW s, ListsRoots(s), NEW cap \in Nat, NEW roots, roots = Kept(AllRoots, cap)
    PROVE  \E n \in 0 .. Len(s) : IsFront(roots, s, n, cap)
<1> DEFINE R == {RootCause(s[i]) : i \in 1 .. Len(s)}
<1>1. /\ Len(s) \in Nat /\ Len(AllRoots) = Len(s) /\ DOMAIN AllRoots = 1 .. Len(s)
      /\ \A i \in 1 .. Len(s) : AllRoots[i] = RootCause(s[i])
  BY SMTT(30) DEF ListsRoots
<1>2. AllRoots \in Seq(R)
  <2>1. AllRoots = [i \in 1 .. Len(s) |-> AllRoots[i]]
    BY <1>1, Zenon DEF AllRoots
  <2>2. \A i \in 1 .. Len(s) : AllRoots[i] \in R
    BY <1>1
  <2> HIDE DEF R
  <2>3. AllRoots \in [1 .. Len(s) -> R]
    BY <2>1, <2>2
  <2> QED BY <1>1, <2>3
<1> HIDE DEF R
<1>3. ASSUME NEW n \in 0 .. Len(s), roots \in Seq(R), Len(roots) = n,
             \A i \in 1 .. n : roots[i] = AllRoots[i]
      PROVE  /\ roots \in Seq(Members(roots)) /\ DOMAIN roots = 1 .. n
             /\ \A i \in 1 .. n : roots[i] = RootCause(s[i])
  <2>1. DOMAIN roots = 1 .. n
    BY <1>3
  <2>2. roots \in [1 .. n -> Members(roots)]
    BY <1>3, <2>1 DEF Members
  <2>3. roots \in Seq(Members(roots))
    BY <2>2
  <2>4. \A i \in 1 .. n : i \in 1 .. Len(s)
    BY <1>1
  <2> QED BY <1>1, <1>3, <2>1, <2>3, <2>4
<1>4. CASE cap > 0 /\ Len(AllRoots) > cap
  <2>1. roots = SubSeq(AllRoots, 1, cap)
    BY <1>4 DEF Kept
  <2>2. cap \in 0 .. Len(s) /\ cap > 0 /\ cap # 0
    BY <1>1, <1>4
  <2>3. roots \in Seq(R) /\ Len(roots) = cap /\ \A i \in 1 .. cap : roots[i] = AllRoots[i]
    BY <1>1, <1>2, <2>1, <2>2
  <2>4. IsFront(roots, s, cap, cap)
    BY <1>3, <2>2, <2>3 DEF IsFront
  <2> QED BY <2>2, <2>4
<1>5. CASE ~(cap > 0 /\ Len(AllRoots) > cap)
  <2>1. roots = AllRoots
    BY <1>5 DEF Kept
  <2>2. Len(s) \in 0 .. Len(s)
    BY <1>1
  <2>3. IsFront(roots, s, Len(s), cap)
    BY <1>1, <1>2, <1>3, <2>1, <2>2, Zenon DEF IsFront
  <2> QED BY <2>2, <2>3
<1> QED BY <1>4, <1>5

-----------------------------------------------------------------------------
(* The answer.                                                             *)

\* The reported roots are direct labels met, the nearest ones, with paths to the
\* target that the graph's edges contain; none is left out unless the list is
\* shorter than the count.
RootsRight ==
    LET A == why.answer
        D == why.distances
    IN  /\ A.roots \in Seq(Roots) /\ A.total = Cardinality(DirectLabels) /\ A.total \in Nat
        /\ Len(A.roots) <= A.total /\ (A.total > 0 => Len(A.roots) > 0)
        /\ \A r \in Roots :
              r.label \in DirectLabels /\ r.distance = D[r.label] /\ Leads(r.path, r.label)
        /\ Len(A.roots) = A.total \/ why.maxRoots = 0 => DirectLabels \subseteq RootLabels
        /\ \A l \in DirectLabels \ RootLabels, r \in Roots : r.distance <= D[l]
        /\ \A n \in A.nodes : n.label \in Visited /\ n.distance = D[n.label]
        /\ \A r \in Roots :
              \A j \in 1 .. Len(r.path) - 1 : <<r.path[j], r.path[j + 1]>> \in A.edges

\* Every edge of a reported path is between two labels of the graph.
LEMMA PathsIncluded ==
    ASSUME NEW roots, NEW i \in DOMAIN roots, Leads(roots[i].path, roots[i].label),
           NEW j \in 1 .. Len(roots[i].path) - 1
    PROVE  <<roots[i].path[j], roots[i].path[j + 1]>> \in EdgesWithin(Included(roots))
<1> DEFINE p == roots[i].path
           S == Included(roots)
<1>1. p \in Seq(Visited) /\ p[j] \in DepsOf(p[j + 1])
  BY DEF Leads
<1>2. Len(p) \in Nat /\ DOMAIN p = 1 .. Len(p)
  BY <1>1
<1>3. j \in DOMAIN p /\ j + 1 \in DOMAIN p
  BY <1>2
<1>4. Members(p) \subseteq S
  BY DEF Included
<1>5. p[j] \in S /\ p[j + 1] \in S
  BY <1>3, <1>4 DEF Members
<1> HIDE DEF S, p
<1>6. p[j] \in Members(Deps(why.edges, p[j + 1])) \cap S
  BY <1>1, <1>5 DEF DepsOf
<1>7. <<p[j], p[j + 1]>> \in EdgesWithin(S)
  <2> DEFINE y == p[j + 1]
             x == p[j]
  <2>1. x \in Members(Deps(why.edges, y)) \cap S /\ y \in S
    BY <1>5, <1>6
  <2> HIDE DEF x, y
  <2>2. <<x, y>> \in {<<d, y>> : d \in Members(Deps(why.edges, y)) \cap S}
    BY <2>1
  <2>3. <<x, y>> \in EdgesWithin(S)
    BY <2>1, <2>2, Zenon DEF EdgesWithin
  <2> QED BY <2>3 DEF x, y
<1> QED BY <1>7 DEF S, p

LEMMA AttributeRight ==
    ASSUME DOMAIN why = WhyFields, WellAsked, Tree, Pending, Attribute
    PROVE  /\ SameQuestion /\ why'.distances = why.distances /\ why'.parents = why.parents
           /\ why'.queue = <<>> /\ why.queue = <<>> /\ why'.cut = why.cut
           /\ why'.stage = "explained" /\ RootsRight'
<1> DEFINE D == why.distances
           A == why'.answer
<1>1. PICK cap \in RootCaps :
         why' = [why EXCEPT
                !.stage = "explained", !.maxRoots = cap,
                !.answer = [impacted |-> TRUE, removed |-> FALSE,
                            directly |-> Types[why.target] = "direct",
                            roots |-> Kept(AllRoots, cap), total |-> Len(AllRoots),
                            nodes |-> {Node(l, Kept(AllRoots, cap)) : l \in Included(Kept(AllRoots, cap))},
                            edges |-> EdgesWithin(Included(Kept(AllRoots, cap)))]]
  BY Zenon DEF Attribute
<1> DEFINE roots == Kept(AllRoots, cap)
<1>2. /\ SameQuestion /\ why'.distances = D /\ why'.parents = why.parents
      /\ why'.queue = <<>> /\ why.queue = <<>> /\ why'.cut = why.cut
      /\ why'.stage = "explained" /\ why'.maxRoots = cap
      /\ A.roots = roots /\ A.total = Len(AllRoots)
      /\ A.nodes = {Node(l, roots) : l \in Included(roots)}
      /\ A.edges = EdgesWithin(Included(roots))
  BY <1>1, Zenon DEF Attribute, WhyFields, SameQuestion
<1>3. cap \in Nat
  BY QuestionsAssumption
<1>4. PICK s : ListsRoots(s)
  BY RootsListed
<1>5. PICK n \in 0 .. Len(s) :
         /\ roots \in Seq(Members(roots)) /\ Len(roots) = n /\ DOMAIN roots = 1 .. n
         /\ \A i \in 1 .. n : roots[i] = RootCause(s[i])
         /\ Len(s) > 0 => n > 0
         /\ cap = 0 => n = Len(s)
  <2> HIDE DEF roots
  <2>1. roots = Kept(AllRoots, cap)
    BY DEF roots
  <2>2. PICK n \in 0 .. Len(s) : IsFront(roots, s, n, cap)
    BY <1>3, <1>4, <2>1, KeptFacts, Zenon
  <2> QED BY <2>2, Zenon DEF IsFront
<1> HIDE DEF roots, A
<1>6. /\ Len(s) \in Nat /\ \A i \in 1 .. Len(s) : s[i] \in DirectLabels
      /\ \A l \in DirectLabels : \E i \in 1 .. Len(s) : s[i] = l
      /\ \A i, j \in 1 .. Len(s) : i < j => D[s[i]] <= D[s[j]]
      /\ Len(AllRoots) = Len(s) /\ Len(s) = Cardinality(DirectLabels)
  BY <1>4 DEF ListsRoots, Members
<1>7. DirectLabels \subseteq Visited /\ \A l \in DirectLabels : D[l] \in Nat
  BY NearerOrders, SMTT(30) DEF Tree
<1>8. ASSUME NEW i \in 1 .. n
      PROVE  /\ i \in 1 .. Len(s) /\ s[i] \in DirectLabels
             /\ roots[i].label = s[i] /\ roots[i].distance = D[s[i]]
             /\ Leads(roots[i].path, s[i])
  <2>1. i \in 1 .. Len(s) /\ s[i] \in DirectLabels /\ s[i] \in Visited
    BY <1>6, <1>7
  <2>2. roots[i].label = s[i] /\ roots[i].distance = D[s[i]] /\ roots[i].path = PathFrom(why.parents, s[i])
    <3>1. roots[i] = RootCause(s[i])
      BY <1>5
    <3>2. /\ RootCause(s[i]).label = s[i] /\ RootCause(s[i]).distance = D[s[i]]
          /\ RootCause(s[i]).path = PathFrom(why.parents, s[i])
      BY SMTT(30) DEF RootCause
    <3> QED BY <3>1, <3>2
  <2> QED BY <2>1, <2>2, PathLeads
<1>9. DirectLabels' = DirectLabels /\ Visited' = Visited
  BY <1>2 DEF DirectLabels, Visited, Types, SameQuestion
<1>10. \A p, l : Leads(p, l) => Leads(p, l)'
  BY <1>2, <1>9, Zenon DEF Leads, DepsOf, SameQuestion
<1>11. Roots' = Members(roots) /\ \A r \in Roots' : \E i \in 1 .. n : r = roots[i]
  BY <1>2, <1>5 DEF Roots, Members, A
<1>12. RootLabels' = {s[i] : i \in 1 .. n}
  <2>1. RootLabels' = {r.label : r \in Roots'}
    BY DEF RootLabels
  <2>2. \A i \in 1 .. n : roots[i] \in Roots'
    BY <1>5, <1>11 DEF Members
  <2> QED BY <1>8, <1>11, <2>1, <2>2
<1>13. /\ A.roots \in Seq(Roots') /\ A.total = Cardinality(DirectLabels') /\ A.total \in Nat
       /\ Len(A.roots) <= A.total /\ (A.total > 0 => Len(A.roots) > 0)
  BY <1>2, <1>5, <1>6, <1>9, <1>11
<1>14. ASSUME NEW r \in Roots'
       PROVE  /\ r.label \in DirectLabels' /\ r.distance = why'.distances[r.label]
              /\ Leads(r.path, r.label)'
              /\ \A j \in 1 .. Len(r.path) - 1 : <<r.path[j], r.path[j + 1]>> \in A.edges
  <2>1. PICK i \in 1 .. n : r = roots[i]
    BY <1>11
  <2>2. /\ r.label \in DirectLabels' /\ r.distance = why'.distances[r.label]
        /\ Leads(r.path, r.label)
    BY <1>2, <1>8, <1>9, <2>1
  <2>3. i \in DOMAIN roots
    BY <1>5
  <2>4. \A j \in 1 .. Len(r.path) - 1 : <<r.path[j], r.path[j + 1]>> \in A.edges
    BY <1>2, <2>1, <2>2, <2>3, PathsIncluded, SMTT(30)
  <2> QED BY <1>10, <2>2, <2>4
<1>15. ASSUME Len(A.roots) = A.total \/ why'.maxRoots = 0 PROVE DirectLabels' \subseteq RootLabels'
  <2>1. n = Len(s)
    BY <1>2, <1>5, <1>6, <1>15
  <2> QED BY <1>6, <1>9, <1>12, <2>1
<1>16. ASSUME NEW l \in DirectLabels' \ RootLabels', NEW r \in Roots'
       PROVE  r.distance <= why'.distances[l]
  <2>1. PICK i \in 1 .. n : r = roots[i]
    BY <1>11
  <2>2. PICK j \in 1 .. Len(s) : s[j] = l
    BY <1>6, <1>9
  <2>3. ~(j \in 1 .. n)
    BY <1>12, <1>16, <2>2
  <2>4. i \in 1 .. Len(s) /\ i < j
    BY <1>6, <2>3
  <2>5. D[s[i]] <= D[s[j]]
    BY <1>6, <2>2, <2>4
  <2> QED BY <1>2, <1>8, <2>1, <2>2, <2>5
<1>17. ASSUME NEW m \in A.nodes
       PROVE  m.label \in Visited' /\ m.distance = why'.distances[m.label]
  <2>1. PICK l \in Included(roots) : m = Node(l, roots)
    BY <1>2
  <2>2. m.label = l /\ m.distance = D[l]
    BY <2>1 DEF Node
  <2>3. l \in Visited
    <3>1. CASE l = why.target
      BY <3>1 DEF Tree
    <3>2. CASE l # why.target
      <4>1. PICK i \in 1 .. n : l \in Members(roots[i].path)
        <5>1. l \in UNION {Members(roots[i].path) : i \in DOMAIN roots}
          BY <3>2 DEF Included
        <5>2. PICK i \in DOMAIN roots : l \in Members(roots[i].path)
          BY <5>1, Zenon
        <5> QED BY <1>5, <5>2
      <4>2. roots[i].path \in Seq(Visited)
        BY <1>8 DEF Leads
      <4> QED BY <4>1, <4>2 DEF Members
    <3> QED BY <3>1, <3>2
  <2> QED BY <1>2, <1>9, <2>2, <2>3
<1>18. RootsRight'
  BY <1>13, <1>14, <1>15, <1>16, <1>17, SMTT(30) DEF RootsRight, A
<1> QED BY <1>2, <1>18

-----------------------------------------------------------------------------
(* The command.                                                            *)

ShownRight ==
    LET A == why.answer
    IN  /\ why.format \in {"text", "graph"}
        /\ why.cut => "depth" \in why.shown
        /\ why.format = "text" /\ A.roots = <<>> => "unattributed" \in why.shown
        /\ why.format = "text" /\ Len(A.roots) \in 1 .. A.total - 1 => "more roots" \in why.shown

Attributed == Tree /\ Pending /\ why.queue = <<>> /\ RootsRight

ExplainInv ==
    why # Idle =>
      /\ DOMAIN why = WhyFields /\ WellAsked
      /\ why.stage = "start" => why.parents = <<>> /\ why.answer = NoAnswer
      /\ why.stage = "walk" => Tree /\ Pending
      /\ why.stage \in {"explained", "rendered"} /\ why.answer.impacted => Attributed
      /\ why.stage = "rendered" /\ why.answer.impacted => ShownRight

LEMMA ExplainStarts == ExplainInit => ExplainInv
<1> SUFFICES ASSUME NEW q \in Questions, why = Ask(q) PROVE ExplainInv
  BY DEF ExplainInit
<1>1. DOMAIN why = WhyFields
  BY SMTT(30) DEF Ask, WhyFields
<1>2. /\ why.types = ImpactTypes(q.from, q.to) /\ why.edges = q.edges /\ why.maxDepth = q.maxDepth
      /\ why.stage = "start" /\ why.parents = <<>> /\ why.answer = NoAnswer
  BY SMTT(30) DEF Ask
<1>3. /\ IsFiniteSet(DOMAIN q.to) /\ DOMAIN q.to \subseteq Nat \X Nat
      /\ q.edges \in [DOMAIN q.edges -> Seq(Nat \X Nat)] /\ q.maxDepth \in Nat \cup {Unbounded}
  BY QuestionsAssumption
<1>4. DOMAIN Types \subseteq DOMAIN q.to
  BY <1>2 DEF Types, ImpactTypes
<1>5. IsFiniteSet(DOMAIN Types) /\ DOMAIN Types \subseteq Nat \X Nat
  BY <1>3, <1>4, FS_Subset
<1>6. WellAsked
  BY <1>2, <1>3, <1>5, SMTT(30) DEF WellAsked
<1> QED BY <1>1, <1>2, <1>6 DEF ExplainInv

\* A question stays as it was asked.
LEMMA AskedKept == WellAsked /\ SameQuestion => WellAsked'
  BY DEF WellAsked, SameQuestion, Types

LEMMA StartWalkKeeps ==
    ASSUME ExplainInv, StartWalk
    PROVE  ExplainInv'
<1>1. /\ DOMAIN why = WhyFields /\ WellAsked /\ why.stage = "start"
      /\ why.parents = <<>> /\ why.answer = NoAnswer
  BY Zenon DEF ExplainInv, StartWalk, Asking
<1>2. CASE why' = [why EXCEPT !.stage = "mixed modes"] \/ why' = [why EXCEPT !.stage = "unknown target"]
  <2>1. DOMAIN why' = WhyFields /\ SameQuestion /\ why'.stage \in {"mixed modes", "unknown target"}
    BY <1>1, <1>2, Zenon DEF WhyFields, SameQuestion
  <2> QED BY <1>1, <2>1, AskedKept, Zenon DEF ExplainInv
<1>3. CASE why' = [why EXCEPT !.stage = "explained",
                              !.answer.removed = why.target \notin DOMAIN why.to]
  <2>1. /\ DOMAIN why' = WhyFields /\ SameQuestion /\ why'.stage = "explained"
        /\ why'.answer = [why.answer EXCEPT !.removed = why.target \notin DOMAIN why.to]
    BY <1>1, <1>3 DEF WhyFields, SameQuestion
  <2>2. ~why'.answer.impacted
    BY <1>1, <2>1 DEF NoAnswer
  <2> QED BY <1>1, <2>1, <2>2, AskedKept DEF ExplainInv
<1>4. CASE /\ why.target \in DOMAIN Types
           /\ why' = [why EXCEPT !.stage = "walk",
                                 !.distances = [l \in {why.target} |-> 0],
                                 !.queue = <<why.target>>]
  <2> DEFINE t == why.target
  <2>1. /\ DOMAIN why' = WhyFields /\ SameQuestion /\ why'.stage = "walk"
        /\ why'.distances = [l \in {t} |-> 0] /\ why'.queue = <<t>>
        /\ why'.parents = <<>> /\ why'.target = t
    BY <1>1, <1>4 DEF WhyFields, SameQuestion
  <2>2. Visited' = {t} /\ why'.distances[t] = 0 /\ Types' = Types
    BY <2>1 DEF Visited, Types, SameQuestion
  <2>3. DOMAIN why'.parents = {}
    BY <2>1
  <2>4. why'.maxDepth = why.maxDepth /\ (why.maxDepth # Unbounded => 0 <= why.maxDepth)
    BY <1>1, <2>1 DEF SameQuestion, WellAsked
  <2>5. Tree'
    BY <1>4, <2>1, <2>2, <2>3, <2>4 DEF Tree
  <2>6. /\ why'.queue \in Seq(Visited') /\ Len(why'.queue) = 1 /\ why'.queue[1] = t
        /\ Members(why'.queue) = {t}
    BY <2>1, <2>2 DEF Members
  <2>7. \A i, j \in 1 .. Len(why'.queue) : why'.queue[i] = t /\ why'.queue[j] = t
    BY <2>6
  <2>8. Pending'
    BY <2>2, <2>6, <2>7, SMTT(30) DEF Pending
  <2> QED BY <1>1, <2>1, <2>5, <2>8, AskedKept DEF ExplainInv
<1> QED BY <1>2, <1>3, <1>4, Zenon DEF StartWalk

LEMMA RenderKeeps ==
    ASSUME ExplainInv, Render
    PROVE  ExplainInv'
<1>1. DOMAIN why = WhyFields /\ WellAsked /\ why.stage = "explained"
  BY DEF ExplainInv, Render, Asking
<1>2. PICK format \in {"text", "graph"}, verbose \in BOOLEAN :
         why' = [why EXCEPT !.stage = "rendered", !.format = format,
                            !.shown = Rendered(format) \cup Diagnosed(verbose)]
  BY Zenon DEF Render
<1>3. /\ DOMAIN why' = WhyFields /\ SameQuestion /\ why'.stage = "rendered"
      /\ why'.format = format /\ why'.shown = Rendered(format) \cup Diagnosed(verbose)
      /\ why'.answer = why.answer /\ why'.cut = why.cut /\ why'.queue = why.queue
      /\ why'.distances = why.distances /\ why'.parents = why.parents
      /\ why'.maxRoots = why.maxRoots
  BY <1>1, <1>2 DEF WhyFields, SameQuestion
<1>4. ASSUME why'.answer.impacted PROVE Attributed' /\ ShownRight'
  <2>1. why.answer.impacted /\ Attributed
    BY <1>1, <1>3, <1>4 DEF ExplainInv, Render, Asking
  <2>2. /\ Types' = Types /\ (\A l : DepsOf(l)' = DepsOf(l)) /\ Visited' = Visited
        /\ (\A l : Deepened(l)' <=> Deepened(l)) /\ Roots' = Roots
    BY <1>3 DEF SameQuestion, Types, DepsOf, Visited, Deepened, Roots
  <2>3. Tree'
    BY <1>3, <2>1, <2>2, ZenonT(40) DEF Attributed, Tree, SameQuestion
  <2>4. Pending'
    BY <1>3, <2>1, <2>2, SMTT(30) DEF Attributed, Pending
  <2>5. DirectLabels' = DirectLabels /\ RootLabels' = RootLabels
    BY <1>3, <2>2, Zenon DEF DirectLabels, RootLabels
  <2>6. \A p, l : Leads(p, l) => Leads(p, l)'
    BY <1>3, <2>2 DEF Leads, SameQuestion
  <2>7. RootsRight'
    BY <1>3, <2>1, <2>2, <2>5, <2>6, Zenon DEF Attributed, RootsRight
  <2>8. ShownRight'
    BY <1>3, <2>1, Zenon DEF ShownRight, Rendered, Diagnosed
  <2> QED BY <1>3, <2>1, <2>3, <2>4, <2>7, <2>8 DEF Attributed
<1> QED BY <1>1, <1>3, <1>4, AskedKept, SMTT(30) DEF ExplainInv

LEMMA ExplainStep == ExplainInv /\ [ExplainNext]_why => ExplainInv'
<1> SUFFICES ASSUME ExplainInv, [ExplainNext]_why PROVE ExplainInv'
  OBVIOUS
<1>1. CASE StartWalk
  BY <1>1, StartWalkKeeps
<1>2. CASE Cut
  <2>1. DOMAIN why = WhyFields /\ WellAsked /\ Tree /\ Pending /\ why.stage = "walk"
    BY <1>2 DEF ExplainInv, Cut, Asking
  <2>2. DOMAIN why' = WhyFields /\ SameQuestion /\ why'.stage = "walk"
    BY <1>2, <2>1 DEF Cut, WhyFields, SameQuestion
  <2>3. Tree' /\ Pending'
    BY <1>2, <2>1, CutKeeps
  <2> QED BY <2>1, <2>2, <2>3, AskedKept DEF ExplainInv
<1>3. CASE Follow
  <2>1. DOMAIN why = WhyFields /\ WellAsked /\ Tree /\ Pending /\ why.stage = "walk"
    BY <1>3 DEF ExplainInv, Follow, Asking
  <2>2. DOMAIN why' = WhyFields /\ SameQuestion /\ why'.stage = "walk"
    BY <1>3, <2>1 DEF Follow, WhyFields, SameQuestion
  <2>3. Tree' /\ Pending'
    BY <1>3, <2>1, FollowKeeps
  <2> QED BY <2>1, <2>2, <2>3, AskedKept DEF ExplainInv
<1>4. CASE Attribute
  <2>1. DOMAIN why = WhyFields /\ WellAsked /\ Tree /\ Pending
    BY <1>4 DEF ExplainInv, Attribute, Asking
  <2>2. DOMAIN why' = WhyFields
    BY <1>4, <2>1 DEF Attribute, WhyFields
  <2>3. /\ SameQuestion /\ why'.distances = why.distances /\ why'.parents = why.parents
        /\ why'.queue = <<>> /\ why.queue = <<>> /\ why'.cut = why.cut
        /\ why'.stage = "explained" /\ RootsRight'
    BY <1>4, <2>1, AttributeRight
  <2>4. /\ Types' = Types /\ (\A l : DepsOf(l)' = DepsOf(l)) /\ Visited' = Visited
        /\ (\A l : Deepened(l)' <=> Deepened(l))
    BY <2>3 DEF SameQuestion, Types, DepsOf, Visited, Deepened
  <2>5. Tree'
    BY <2>1, <2>3, <2>4 DEF Tree, SameQuestion
  <2>6. Pending'
    BY <2>1, <2>3, <2>4, SMTT(30) DEF Pending
  <2> QED BY <2>1, <2>2, <2>3, <2>5, <2>6, AskedKept, SMTT(30) DEF ExplainInv, Attributed
<1>5. CASE Render
  BY <1>5, RenderKeeps
<1>6. CASE UNCHANGED why
  BY <1>6, ZenonT(40) DEF ExplainInv, WellAsked, Types, Tree, Pending, Visited, DepsOf, Deepened, Attributed,
              RootsRight, ShownRight, Roots, RootLabels, DirectLabels, Leads
<1> QED BY <1>1, <1>2, <1>3, <1>4, <1>5, <1>6 DEF ExplainNext

LEMMA ExplainInvariant == ExplainSpec => []ExplainInv
<1>1. ExplainInit => ExplainInv
  BY ExplainStarts
<1>2. ExplainInv /\ [ExplainNext]_why => ExplainInv'
  BY ExplainStep
<1> QED BY <1>1, <1>2, PTL DEF ExplainSpec

\* What a rendered answer rests on: the walk was complete, so the direct labels
\* within the bound are those it met.
LEMMA AnswerFacts ==
    ASSUME ExplainInv, Answered, NEW up, up = UpstreamDistance
    PROVE  /\ Tree /\ RootsRight /\ ShownRight
           /\ {l \in DirectIn(up) : why.maxDepth = Unbounded \/ up[l] <= why.maxDepth} = DirectLabels
           /\ \A l \in Visited : l \in DOMAIN up /\ up[l] = why.distances[l]
           /\ ~why.cut => DirectIn(up) = DirectLabels
<1>1. WellAsked /\ Attributed /\ ShownRight
  BY DEF ExplainInv, Answered, Asking
<1>2. WalkDone
  BY <1>1, WalkExact DEF Attributed
<1>3. /\ \A l \in Visited : l \in DOMAIN up /\ up[l] = why.distances[l]
      /\ \A l \in DOMAIN up : Within(up[l]) <=> l \in Visited
      /\ ~why.cut => DOMAIN up = Visited
  BY <1>2 DEF WalkDone
<1>4. DirectLabels = {l \in Visited : Types[l] = "direct"}
  BY DEF DirectLabels, Visited
<1>5. {l \in DirectIn(up) : why.maxDepth = Unbounded \/ up[l] <= why.maxDepth} = DirectLabels
  BY <1>3, <1>4 DEF DirectIn, Within
<1>6. ~why.cut => DirectIn(up) = DirectLabels
  BY <1>3, <1>4 DEF DirectIn
<1> QED BY <1>1, <1>3, <1>5, <1>6 DEF Attributed

\* What explain reports is right for every pair of hash files, dependency edges,
\* target, depth bound and root cap: the roots are the directly changed labels
\* within the bound, nearest first, with shortest paths over dependency edges,
\* and the graph holds those paths.
THEOREM ExplanationsExact == ExplainSpec => []ExplanationExact
<1>1. ExplainInv => ExplanationExact
  <2> SUFFICES ASSUME ExplainInv, Answered PROVE RootsExact /\ SubgraphConnects
    BY Zenon DEF ExplanationExact, RootsExact, SubgraphConnects
  <2> DEFINE up == UpstreamDistance
             A == why.answer
             D == why.distances
             due == {l \in DirectIn(up) : why.maxDepth = Unbounded \/ up[l] <= why.maxDepth}
  <2>1. /\ Tree /\ RootsRight /\ due = DirectLabels
        /\ \A l \in Visited : l \in DOMAIN up /\ up[l] = D[l]
    BY AnswerFacts
  <2> HIDE DEF up, due
  <2>2. DirectLabels \subseteq Visited
    BY DEF DirectLabels, Visited
  <2>3. /\ A.total = Cardinality(DirectLabels)
        /\ \A r \in Roots :
              r.label \in DirectLabels /\ r.distance = D[r.label] /\ Leads(r.path, r.label)
        /\ why.maxRoots = 0 => DirectLabels \subseteq RootLabels
        /\ \A l \in DirectLabels \ RootLabels, r \in Roots : r.distance <= D[l]
        /\ \A n \in A.nodes : n.label \in Visited /\ n.distance = D[n.label]
        /\ \A r \in Roots :
              \A j \in 1 .. Len(r.path) - 1 : <<r.path[j], r.path[j + 1]>> \in A.edges
    BY <2>1, Zenon DEF RootsRight
  <2>4. RootLabels \subseteq due /\ (why.maxRoots = 0 => RootLabels = due)
    BY <2>1, <2>3, SMTT(30) DEF RootLabels
  <2>5. ASSUME NEW l \in due \ RootLabels, NEW r \in Roots PROVE r.distance <= up[l]
    BY <2>1, <2>2, <2>3
  <2>6. ASSUME NEW r \in Roots
        PROVE  /\ r.distance = up[r.label] /\ Len(r.path) = r.distance + 1
               /\ r.path[1] = r.label /\ r.path[Len(r.path)] = why.target
               /\ \A j \in 1 .. Len(r.path) - 1 :
                     r.path[j] \in Members(Deps(why.edges, r.path[j + 1]))
    <3>1. r.label \in Visited /\ r.distance = D[r.label] /\ Leads(r.path, r.label)
      BY <2>2, <2>3
    <3>2. r.distance = up[r.label]
      BY <2>1, <3>1
    <3> QED BY <3>1, <3>2 DEF Leads, DepsOf
  <2>7. RootsExact
    BY <2>1, <2>3, <2>4, <2>5, <2>6, Zenon DEF RootsExact, due, up
  <2>8. SubgraphConnects
    BY <2>1, <2>3 DEF SubgraphConnects, up
  <2> QED BY <2>7, <2>8
<1> QED BY <1>1, ExplainInvariant, PTL

\* No root cause is ever left out silently: what the depth bound or the cap hid
\* is said, whatever the bound, the cap and the format.
THEOREM TruncationsSaid == ExplainSpec => []TruncationSaid
<1>1. ExplainInv => TruncationSaid
  <2> SUFFICES ASSUME ExplainInv, Answered
               PROVE  /\ DirectIn(UpstreamDistance) # RootLabels =>
                            \/ "more roots" \in why.shown \/ "depth" \in why.shown
                            \/ why.format = "graph" /\ Len(why.answer.roots) < why.answer.total
                      /\ Roots = {} /\ why.format = "text" => "unattributed" \in why.shown
    BY Zenon DEF TruncationSaid
  <2> DEFINE up == UpstreamDistance
             A == why.answer
  <2>1. RootsRight /\ ShownRight /\ (~why.cut => DirectIn(up) = DirectLabels)
    BY AnswerFacts
  <2>2. /\ A.roots \in Seq(Roots) /\ A.total \in Nat /\ Len(A.roots) <= A.total
        /\ A.total > 0 => Len(A.roots) > 0
        /\ RootLabels \subseteq DirectLabels
        /\ Len(A.roots) = A.total => DirectLabels \subseteq RootLabels
    BY <2>1, SMTT(30) DEF RootsRight, RootLabels
  <2>3. Len(A.roots) \in Nat
    BY <2>2
  <2>4. ASSUME DirectIn(up) # RootLabels, ~why.cut
        PROVE  \/ "more roots" \in why.shown
               \/ why.format = "graph" /\ Len(A.roots) < A.total
    <3>1. Len(A.roots) # A.total
      BY <2>1, <2>2, <2>4, Zenon
    <3>2. Len(A.roots) < A.total /\ Len(A.roots) \in 1 .. A.total - 1
      BY <2>2, <2>3, <3>1
    <3> QED BY <2>1, <3>2, Zenon DEF ShownRight
  <2>5. ASSUME Roots = {}, why.format = "text" PROVE "unattributed" \in why.shown
    <3>1. A.roots = <<>>
      BY <2>2, <2>5
    <3> QED BY <2>1, <2>5, <3>1 DEF ShownRight
  <2> QED BY <2>1, <2>4, <2>5, Zenon DEF ShownRight
<1> QED BY <1>1, ExplainInvariant, PTL
=============================================================================
