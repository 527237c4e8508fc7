--------------------------- MODULE AnswersProofs ----------------------------
(***************************************************************************)
(* The distances of calculate_distance, for every graph over any number of *)
(* rules, every choice of packages and every order of the labels: without  *)
(* cycles they are the lengths of shortest ways.                           *)
(*                                                                         *)
(* The traversal establishes an equation: the distance of a rule is the    *)
(* least over its dependencies, up to the value that stands for none.  A   *)
(* graph without cycles has only one solution of it, which is found by     *)
(* ranking: the k-th round of Relax is right about at least k rules.       *)
(*                                                                         *)
(* And the answer of the commands that compare two hash files, for any     *)
(* pair of files: which targets the changed modules impact, and that both  *)
(* commands agree on what they list and on the order.                      *)
(***************************************************************************)
EXTENDS ImpactedTargets, ModuleChanges, FiniteSetTheorems, WellFoundedInduction, TLAPS

-----------------------------------------------------------------------------
(* Lists.                                                                  *)

\* A list is a function on its places.
LEMMA ListPlaces ==
    ASSUME NEW A, NEW s \in Seq(A)
    PROVE  Len(s) \in Nat /\ DOMAIN s = 1 .. Len(s) /\ s \in [1 .. Len(s) -> A]
  OBVIOUS

\* Only the empty list has no place.
LEMMA EmptyList ==
    ASSUME NEW A
    PROVE  <<>> \in Seq(A) /\ Len(<<>>) = 0 /\ \A s \in Seq(A) : s # <<>> => Len(s) \in Nat \ {0}
  OBVIOUS

\* The first element and the others, one place earlier.
LEMMA ListFront ==
    ASSUME NEW A, NEW s \in Seq(A), s # <<>>
    PROVE  /\ Head(s) \in A /\ Tail(s) \in Seq(A) /\ Len(Tail(s)) = Len(s) - 1
           /\ \A i \in 1 .. Len(Tail(s)) : Tail(s)[i] = s[i + 1]
  OBVIOUS

\* One more element at the end.
LEMMA ListAppend ==
    ASSUME NEW A, NEW s \in Seq(A), NEW e \in A
    PROVE  /\ Append(s, e) \in Seq(A) /\ Append(s, e) # <<>> /\ Len(Append(s, e)) = Len(s) + 1
           /\ Append(s, e)[Len(s) + 1] = e /\ \A i \in 1 .. Len(s) : Append(s, e)[i] = s[i]
  OBVIOUS

\* The part of a list between two places.
LEMMA ListPart ==
    ASSUME NEW A, NEW s, NEW m \in Int, NEW n \in Int, \A i \in m .. n : s[i] \in A
    PROVE  /\ SubSeq(s, m, n) \in Seq(A)
           /\ Len(SubSeq(s, m, n)) = IF m <= n THEN (n - m) + 1 ELSE 0
           /\ \A i \in 1 .. (n - m) + 1 : SubSeq(s, m, n)[i] = s[(m + i) - 1]
  OBVIOUS

\* Another element at one place.
LEMMA ListReplaced ==
    ASSUME NEW A, NEW s \in Seq(A), NEW i \in 1 .. Len(s), NEW e \in A
    PROVE  /\ [s EXCEPT ![i] = e] \in Seq(A) /\ Len([s EXCEPT ![i] = e]) = Len(s)
           /\ \A j \in 1 .. Len(s) : [s EXCEPT ![i] = e][j] = IF j = i THEN e ELSE s[j]
  OBVIOUS

-----------------------------------------------------------------------------
(* Induction over the natural numbers for sets.                            *)

LEMMA LeastNumber ==
    ASSUME NEW T, T \subseteq Nat, T # {}
    PROVE  \E n \in T : \A m \in T : n <= m
<1> DEFINE R == OpToRel(<, Nat)
<1>1. IsWellFoundedOn(R, Nat)
  BY NatLessThanWellFounded, Zenon
<1>2. \A m, k \in Nat : m < k => <<m, k>> \in R
  BY DEF OpToRel
<1> HIDE DEF R
<1>3. PICK n \in T : \A m \in T : ~(<<m, n>> \in R)
  BY <1>1, WFMin, Zenon
<1>4. \A m \in T : ~(m < n)
  BY <1>2, <1>3, Zenon
<1> QED BY <1>4

LEMMA SetInduction ==
    ASSUME NEW S, 0 \in S, \A n \in Nat : n \in S => n + 1 \in S
    PROVE  \A n \in Nat : n \in S
<1> DEFINE T == {n \in Nat : n \notin S}
<1> SUFFICES ASSUME T # {} PROVE FALSE
  OBVIOUS
<1>1. PICK n \in T : \A m \in T : n <= m
  BY LeastNumber, Zenon
<1>2. n # 0 /\ n - 1 \in Nat /\ n - 1 \notin T
  BY <1>1
<1>3. n - 1 \in S
  BY <1>2
<1>4. (n - 1) + 1 \in S
  BY <1>2, <1>3
<1> QED BY <1>1, <1>4

\* The least number of a non-empty set.
LEMMA MinFacts ==
    ASSUME NEW T, T \subseteq Nat, T # {}
    PROVE  Min(T) \in T /\ \A m \in T : Min(T) <= m
  BY LeastNumber, Zenon DEF Min

-----------------------------------------------------------------------------
(* Shortest ways.  The rounds of Relax exist, and give Shortest.           *)

IsRounds(L, cost, n) ==
    /\ L[0] = AtStart
    /\ \A k \in 1 .. n : L[k] = Relax(cost, L[k - 1])

LEMMA RoundsExist ==
    ASSUME NEW cost
    PROVE  \A n \in Nat : \E L : IsRounds(L, cost, n)
<1> DEFINE S == {n \in Nat : \E L : IsRounds(L, cost, n)}
<1>1. 0 \in S
  <2> DEFINE L == [k \in {0} |-> AtStart]
  <2>1. L[0] = AtStart
    OBVIOUS
  <2> HIDE DEF L
  <2>2. IsRounds(L, cost, 0)
    BY <2>1 DEF IsRounds
  <2> QED BY <2>2
<1>2. ASSUME NEW n \in Nat, n \in S
      PROVE  n + 1 \in S
  <2>1. PICK L : IsRounds(L, cost, n)
    BY <1>2
  <2> DEFINE M == [k \in 0 .. n + 1 |-> IF k = n + 1 THEN Relax(cost, L[n]) ELSE L[k]]
  <2>2. M[0] = L[0] /\ M[n + 1] = Relax(cost, M[n])
    OBVIOUS
  <2>3. \A k \in 1 .. n : M[k] = L[k] /\ M[k - 1] = L[k - 1]
    OBVIOUS
  <2> HIDE DEF M
  <2>4. ASSUME NEW k \in 1 .. n + 1 PROVE M[k] = Relax(cost, M[k - 1])
    <3>1. CASE k = n + 1
      BY <2>2, <3>1
    <3>2. CASE k # n + 1
      <4>1. k \in 1 .. n
        BY <3>2
      <4> QED BY <2>1, <2>3, <4>1 DEF IsRounds
    <3> QED BY <3>1, <3>2
  <2>5. IsRounds(M, cost, n + 1)
    BY <2>1, <2>2, <2>4 DEF IsRounds
  <2> QED BY <2>5
<1> HIDE DEF S
<1>3. \A n \in Nat : n \in S
  BY <1>1, <1>2, SetInduction
<1> QED BY <1>3 DEF S

LEMMA ShortestIsLast ==
    ASSUME NEW cost
    PROVE  \E L : IsRounds(L, cost, N) /\ Shortest(cost) = L[N]
<1> DEFINE F(L) == [k \in 0 .. N |-> IF k = 0 THEN AtStart ELSE Relax(cost, L[k - 1])]
           G == CHOOSE L : L = F(L)
<1>0. N \in Nat
  BY HashGraphAssumption
<1>1. PICK L : IsRounds(L, cost, N)
  BY <1>0, RoundsExist
<1> DEFINE M == [k \in 0 .. N |-> L[k]]
<1>2. \A k \in 0 .. N : IF k = 0 THEN M[k] = AtStart ELSE M[k] = Relax(cost, M[k - 1])
  BY <1>0, <1>1 DEF IsRounds
<1>3. M = F(M)
  BY <1>2, Zenon
<1>4. G = F(G)
  BY <1>3, Zenon
<1>5. Shortest(cost) = G[N]
  BY DEF Shortest
<1> HIDE DEF G
<1>6. \A k \in 0 .. N : G[k] = IF k = 0 THEN AtStart ELSE Relax(cost, G[k - 1])
  BY <1>4, Zenon
<1>7. IsRounds(G, cost, N)
  BY <1>0, <1>6 DEF IsRounds
<1> QED BY <1>5, <1>7

\* What the traversal finds for a rule from its dependencies, up to Infinity.
LeastOf(v, r, distance, cost) ==
    /\ v <= Infinity
    /\ \A d \in ImpactedDeps(r) : v <= distance[d] + cost[r][d]
    /\ v = Infinity \/ \E d \in ImpactedDeps(r) : v = distance[d] + cost[r][d]

Solves(distance, cost) ==
    /\ distance \in [Impacted -> Nat]
    /\ \A r \in Impacted : AtZero(r) => distance[r] = 0
    /\ \A r \in Impacted : ~AtZero(r) => LeastOf(distance[r], r, distance, cost)

Costs == [Rules -> [Rules -> {0, 1}]]

\* The rules the rounds are right about from the k-th on.
Settled(L, distance, k) ==
    {r \in Impacted : distance[r] <= k /\ \A j \in k .. N : L[j][r] = distance[r]}

\* Where all dependencies of a rule are settled, the next round settles the rule.
LEMMA SettlesNext ==
    ASSUME NEW cost \in Costs, NEW distance, Solves(distance, cost), NEW L, IsRounds(L, cost, N),
           NEW k \in Nat, k < N, NEW r \in Impacted, ImpactedDeps(r) \subseteq Settled(L, distance, k)
    PROVE  r \in Settled(L, distance, k + 1)
<1>0. /\ N \in Nat /\ r \in Rules /\ Infinity = N + 1 /\ distance[r] \in Nat
      /\ ImpactedDeps(r) \subseteq Impacted
      /\ \A d \in ImpactedDeps(r) : d \in Rules /\ distance[d] \in Nat /\ cost[r][d] \in {0, 1}
  BY HashGraphAssumption DEF Impacted, ImpactedDeps, Infinity, Solves, Costs
<1>1. ASSUME NEW j \in k + 1 .. N
      PROVE  /\ j - 1 \in k .. N
             /\ L[j][r] = IF ~AtZero(r) THEN Min({L[j - 1][d] + cost[r][d] : d \in ImpactedDeps(r)})
                          ELSE 0
  <2>1. j \in 1 .. N /\ j - 1 \in k .. N
    BY <1>0
  <2>2. L[j] = Relax(cost, L[j - 1])
    BY <2>1 DEF IsRounds
  <2> QED BY <1>0, <2>1, <2>2 DEF Relax, AtStart
<1>2. CASE AtZero(r)
  BY <1>0, <1>1, <1>2 DEF Solves, Settled
<1>3. CASE ~AtZero(r)
  <2> DEFINE T == {distance[d] + cost[r][d] : d \in ImpactedDeps(r)}
  <2>1. T \subseteq Nat /\ T # {}
    BY <1>0, <1>3 DEF AtZero
  <2>2. Min(T) \in T /\ \A m \in T : Min(T) <= m
    BY <2>1, MinFacts, Zenon
  <2>3. \A d \in ImpactedDeps(r) : distance[d] + cost[r][d] <= k + 1
    BY <1>0 DEF Settled
  <2>4. Min(T) <= k + 1 /\ Min(T) \in Nat
    BY <2>1, <2>2, <2>3
  <2>5. LeastOf(distance[r], r, distance, cost)
    BY <1>3 DEF Solves
  <2>6. distance[r] <= Min(T)
    BY <2>2, <2>5 DEF LeastOf
  <2>7. distance[r] \in T
    BY <1>0, <2>4, <2>5, <2>6 DEF LeastOf
  <2>8. distance[r] = Min(T)
    <3> HIDE DEF T
    <3>1. Min(T) <= distance[r]
      BY <2>2, <2>7
    <3> QED BY <1>0, <2>4, <2>6, <3>1
  <2>9. ASSUME NEW j \in k + 1 .. N
        PROVE  L[j][r] = distance[r]
    <3>1. \A d \in ImpactedDeps(r) : L[j - 1][d] = distance[d]
      BY <1>1, <2>9, Zenon DEF Settled
    <3>2. {L[j - 1][d] + cost[r][d] : d \in ImpactedDeps(r)} = T
      BY <3>1
    <3> QED BY <1>1, <1>3, <2>8, <2>9, <3>2
  <2> QED BY <2>4, <2>8, <2>9 DEF Settled
<1> QED BY <1>2, <1>3

\* Each round settles a rule, as long as there is one left.
LEMMA SettlesMore ==
    ASSUME NEW cost \in Costs, NEW distance, Solves(distance, cost), NEW L, IsRounds(L, cost, N),
           Acyclic, NEW k \in Nat, k < N, Settled(L, distance, k) # Impacted
    PROVE  \E r \in Impacted \ Settled(L, distance, k) :
              Settled(L, distance, k) \cup {r} \subseteq Settled(L, distance, k + 1)
<1> DEFINE S == Impacted \ Settled(L, distance, k)
<1>1. S \in SUBSET Rules /\ S # {}
  BY DEF Settled, Impacted
<1>2. PICK r \in S : \A i \in S : ~Edge(r, i)
  BY <1>1, Zenon DEF Acyclic
<1>3. ImpactedDeps(r) \subseteq Settled(L, distance, k)
  BY <1>2 DEF ImpactedDeps, Edge
<1>4. r \in Settled(L, distance, k + 1)
  BY <1>2, <1>3, SettlesNext
<1>5. N \in Nat /\ \A q \in Impacted : distance[q] \in Nat
  BY HashGraphAssumption DEF Solves
<1>6. Settled(L, distance, k) \subseteq Settled(L, distance, k + 1)
  BY <1>5 DEF Settled
<1> QED BY <1>2, <1>4, <1>6

\* The rounds end with the one solution.
LEMMA SolutionIsShortest ==
    ASSUME NEW cost \in Costs, NEW distance, Solves(distance, cost), Acyclic
    PROVE  \A r \in Impacted : distance[r] = Shortest(cost)[r]
<1>0. N \in Nat /\ Impacted \subseteq Rules /\ IsFiniteSet(Rules) /\ Cardinality(Rules) = N
  BY HashGraphAssumption, FS_Interval DEF Rules, Impacted
<1>1. PICK L : IsRounds(L, cost, N) /\ Shortest(cost) = L[N]
  BY ShortestIsLast
<1> DEFINE At(k) == Settled(L, distance, k)
           K == {k \in Nat : k <= N => At(k) = Impacted \/ Cardinality(At(k)) >= k}
<1>2. \A k \in Nat : At(k) \subseteq Impacted /\ IsFiniteSet(At(k)) /\ Cardinality(At(k)) \in Nat
  <2>1. \A k \in Nat : At(k) \subseteq Impacted /\ At(k) \subseteq Rules
    BY <1>0 DEF Settled
  <2> QED BY <1>0, <2>1, FS_Subset, FS_CardinalityType
<1>3. 0 \in K
  BY <1>2
<1>4. ASSUME NEW k \in Nat, k \in K
      PROVE  k + 1 \in K
  <2> SUFFICES ASSUME k + 1 <= N, At(k + 1) # Impacted
               PROVE  Cardinality(At(k + 1)) >= k + 1
    OBVIOUS
  <2>1. k < N
    BY <1>0
  <2>2. \A q \in Impacted : distance[q] \in Nat
    BY DEF Solves
  <2>3. At(k) \subseteq At(k + 1)
    BY <1>0, <2>1, <2>2 DEF Settled
  <2>4. At(k) # Impacted
    BY <1>2, <2>3
  <2>5. PICK r \in Impacted \ At(k) : At(k) \cup {r} \subseteq At(k + 1)
    BY <1>1, <2>1, <2>4, SettlesMore
  <2>6. Cardinality(At(k)) >= k
    BY <1>0, <1>4, <2>1, <2>4
  <2>7. Cardinality(At(k) \cup {r}) = Cardinality(At(k)) + 1
    BY <1>2, <2>5, FS_AddElement, Zenon
  <2>8. Cardinality(At(k) \cup {r}) <= Cardinality(At(k + 1))
    BY <1>2, <2>5, FS_Subset
  <2> QED BY <1>2, <2>6, <2>7, <2>8
<1>5. \A k \in Nat : k \in K
  <2> HIDE DEF K
  <2> QED BY <1>3, <1>4, SetInduction
<1>6. At(N) = Impacted
  <2>1. At(N) = Impacted \/ Cardinality(At(N)) >= N
    BY <1>0, <1>5
  <2>2. ASSUME Cardinality(At(N)) >= N PROVE At(N) = Rules
    <3>1. At(N) \subseteq Rules
      BY <1>0, <1>2
    <3>2. Cardinality(At(N)) <= N /\ (Cardinality(At(N)) = N => At(N) = Rules)
      BY <1>0, <3>1, FS_Subset
    <3> QED BY <1>0, <1>2, <2>2, <3>2
  <2> QED BY <1>0, <1>2, <2>1, <2>2
<1>7. \A r \in Impacted : L[N][r] = distance[r]
  BY <1>0, <1>6 DEF Settled
<1> QED BY <1>1, <1>7

-----------------------------------------------------------------------------
(* The traversal.  Its state is passed as m, the distances found, and fs,  *)
(* the labels being visited.                                               *)

Pairs == (0 .. Infinity) \X (0 .. Infinity)

Frames == [rule : Rules, todo : Seq(Rules), best : Pairs]

\* b is the least over the dependencies of r that are not to be looked at again.
Folded(m, r, b, todo) ==
    /\ \A d \in ImpactedDeps(r) : ~Lists(todo, d) =>
          m[d] # NoDistance /\ b[1] <= m[d][1] + 1 /\ b[2] <= m[d][2] + Crossing(r, d)
    /\ b[1] = Infinity \/ \E d \in ImpactedDeps(r) : m[d] # NoDistance /\ b[1] = m[d][1] + 1
    /\ b[2] = Infinity \/ \E d \in ImpactedDeps(r) : m[d] # NoDistance /\ b[2] = m[d][2] + Crossing(r, d)

\* A distance that was found is final.
Found(m) ==
    /\ m \in [Rules -> Pairs \cup {NoDistance}]
    /\ \A r \in Rules : m[r] # NoDistance =>
          /\ r \in Impacted
          /\ AtZero(r) => m[r] = <<0, 0>>
          /\ ~AtZero(r) => Folded(m, r, m[r], <<>>)

FrameSound(m, f) ==
    /\ f.rule \in Impacted /\ ~AtZero(f.rule) /\ m[f.rule] = NoDistance
    /\ Folded(m, f.rule, f.best, f.todo)

\* f waits for the distance of r.
Awaits(f, r) == f.todo # <<>> /\ Head(f.todo) = r /\ r \in ImpactedDeps(f.rule)

Stacked(m, fs) ==
    /\ fs \in Seq(Frames)
    /\ \A i \in 1 .. Len(fs) : FrameSound(m, fs[i])
    /\ \A i, j \in 1 .. Len(fs) : fs[i].rule = fs[j].rule => i = j
    /\ \A i \in 1 .. Len(fs) - 1 : Awaits(fs[i], fs[i + 1].rule)

Measuring(m, fs) == Found(m) /\ Stacked(m, fs)

LEMMA PairFacts ==
    /\ N \in Nat /\ Infinity \in Nat /\ Infinity = N + 1
    /\ \A b \in Pairs : /\ b[1] \in Nat /\ b[2] \in Nat /\ b[1] <= Infinity /\ b[2] <= Infinity
                        /\ b = <<b[1], b[2]>> /\ b # NoDistance
    /\ \A r, d : Crossing(r, d) \in Nat
    /\ \A a, b \in Nat : Smaller(a, b) \in {a, b} /\ Smaller(a, b) <= a /\ Smaller(a, b) <= b
<1>1. N \in Nat /\ Infinity = N + 1
  BY HashGraphAssumption DEF Infinity
<1>2. \A b \in Pairs : b \in Nat \X Nat
  BY <1>1 DEF Pairs
<1>3. \A b \in Pairs : b # NoDistance
  BY <1>2, ImpactedTargetsAssumption
<1>4. \A b \in Pairs : /\ b[1] \in Nat /\ b[2] \in Nat /\ b[1] <= Infinity /\ b[2] <= Infinity
                       /\ b = <<b[1], b[2]>>
  BY <1>1 DEF Pairs
<1>5. \A r, d : Crossing(r, d) \in Nat
  BY DEF Crossing
<1>6. \A a, b \in Nat : Smaller(a, b) \in {a, b} /\ Smaller(a, b) <= a /\ Smaller(a, b) <= b
  BY DEF Smaller
<1> QED BY <1>1, <1>3, <1>4, <1>5, <1>6

LEMMA ListFacts ==
    ASSUME NEW todo \in Seq(Rules), todo # <<>>
    PROVE  /\ Head(todo) \in Rules /\ Tail(todo) \in Seq(Rules)
           /\ \A d : Lists(todo, d) => d = Head(todo) \/ Lists(Tail(todo), d)
<1>1. /\ Head(todo) \in Rules /\ Tail(todo) \in Seq(Rules) /\ Len(todo) \in Nat \ {0}
      /\ Len(Tail(todo)) = Len(todo) - 1
      /\ \A k \in 1 .. Len(todo) - 1 : Tail(todo)[k] = todo[k + 1]
      /\ Head(todo) = todo[1]
  BY ListFront, EmptyList, ListPlaces
<1>2. ASSUME NEW k \in 1 .. Len(todo), k # 1
      PROVE  Lists(Tail(todo), todo[k])
  <2>1. k - 1 \in 1 .. Len(Tail(todo)) /\ Tail(todo)[k - 1] = todo[k]
    BY <1>1, <1>2
  <2> QED BY <2>1 DEF Lists
<1>3. ASSUME NEW d, Lists(todo, d)
      PROVE  d = Head(todo) \/ Lists(Tail(todo), d)
  <2>1. PICK k \in 1 .. Len(todo) : todo[k] = d
    BY <1>3 DEF Lists
  <2> QED BY <1>1, <1>2, <2>1
<1> QED BY <1>1, <1>3

\* Distances that are found are not found again.
LEMMA FoldedGrows ==
    ASSUME NEW m, NEW n, \A d \in Impacted : m[d] # NoDistance => n[d] = m[d],
           NEW r, NEW b, NEW todo, Folded(m, r, b, todo)
    PROVE  Folded(n, r, b, todo)
<1>1. ImpactedDeps(r) \subseteq Impacted
  BY DEF ImpactedDeps
<1> QED BY <1>1 DEF Folded

\* The filter of calculate_distance leaves out nothing that counts.
LEMMA FoldedSkips ==
    ASSUME NEW m, NEW r, NEW b, NEW todo \in Seq(Rules), todo # <<>>,
           Head(todo) \notin ImpactedDeps(r), Folded(m, r, b, todo)
    PROVE  Folded(m, r, b, Tail(todo))
  BY ListFacts DEF Folded

\* target_distance.min(..), package_distance.min(..)
LEMMA FoldedTakes ==
    ASSUME NEW m, NEW r, NEW b \in Pairs, NEW todo \in Seq(Rules), todo # <<>>,
           Head(todo) \in ImpactedDeps(r), m[Head(todo)] \in Pairs, Folded(m, r, b, todo),
           \A d \in ImpactedDeps(r) : m[d] # NoDistance => m[d] \in Pairs,
           NEW best, best = <<Smaller(b[1], m[Head(todo)][1] + 1),
                              Smaller(b[2], m[Head(todo)][2] + Crossing(r, Head(todo)))>>
    PROVE  best \in Pairs /\ Folded(m, r, best, Tail(todo))
<1> DEFINE h == Head(todo)
           x == m[h][1] + 1
           y == m[h][2] + Crossing(r, h)
<1>a. \A d : Crossing(r, d) \in Nat
  BY PairFacts
<1>b. \A d \in ImpactedDeps(r) : m[d] # NoDistance => m[d][1] \in Nat /\ m[d][2] \in Nat
  BY PairFacts
<1>c. m[h] # NoDistance /\ m[h][1] \in Nat /\ m[h][2] \in Nat
  BY PairFacts
<1>1. /\ b[1] \in Nat /\ b[2] \in Nat /\ x \in Nat /\ y \in Nat
      /\ b[1] <= Infinity /\ b[2] <= Infinity /\ Infinity \in Nat /\ m[h] # NoDistance
  <2>1. /\ b[1] \in Nat /\ b[2] \in Nat /\ Infinity \in Nat
        /\ b[1] <= Infinity /\ b[2] <= Infinity
    BY PairFacts
  <2>2. Crossing(r, h) \in Nat
    BY <1>a
  <2>3. \A i, j \in Nat : i + 1 \in Nat /\ i + j \in Nat
    OBVIOUS
  <2>4. x \in Nat /\ y \in Nat
    BY <1>c, <2>2, <2>3, Zenon
  <2> HIDE DEF x, y
  <2> QED BY <1>c, <2>1, <2>4
<1>2. /\ best[1] = Smaller(b[1], x) /\ best[2] = Smaller(b[2], y)
      /\ best = <<best[1], best[2]>>
  OBVIOUS
<1> HIDE DEF x, y
<1>3. /\ best[1] \in {b[1], x} /\ best[1] <= b[1] /\ best[1] <= x
      /\ best[2] \in {b[2], y} /\ best[2] <= b[2] /\ best[2] <= y
  BY <1>1, <1>2, PairFacts
<1>4. best \in Pairs
  BY <1>1, <1>2, <1>3 DEF Pairs
<1>5. ASSUME NEW d \in ImpactedDeps(r), ~Lists(Tail(todo), d)
      PROVE  m[d] # NoDistance /\ best[1] <= m[d][1] + 1 /\ best[2] <= m[d][2] + Crossing(r, d)
  <2>1. CASE d = h
    BY <1>1, <1>3, <2>1 DEF x, y
  <2>2. CASE d # h
    <3>1. ~Lists(todo, d)
      BY <1>5, <2>2, ListFacts
    <3>2. m[d] # NoDistance /\ b[1] <= m[d][1] + 1 /\ b[2] <= m[d][2] + Crossing(r, d)
      BY <3>1 DEF Folded
    <3> DEFINE u == m[d][1] + 1
               v == m[d][2] + Crossing(r, d)
    <3>3. u \in Nat /\ v \in Nat
      <4>1. m[d][1] \in Nat /\ m[d][2] \in Nat /\ Crossing(r, d) \in Nat
        BY <1>a, <1>b, <3>2
      <4>2. \A i, j \in Nat : i + 1 \in Nat /\ i + j \in Nat
        OBVIOUS
      <4> QED BY <4>1, <4>2, Zenon
    <3>4. b[1] <= u /\ b[2] <= v
      BY <3>2
    <3>5. best[1] \in Nat /\ best[2] \in Nat
      BY <1>1, <1>3
    <3> HIDE DEF u, v
    <3>6. best[1] <= u /\ best[2] <= v
      BY <1>1, <1>3, <3>3, <3>4, <3>5
    <3> QED BY <3>2, <3>6 DEF u, v
  <2> QED BY <2>1, <2>2
<1>6. /\ b[1] = Infinity \/ \E d \in ImpactedDeps(r) : m[d] # NoDistance /\ b[1] = m[d][1] + 1
      /\ b[2] = Infinity \/ \E d \in ImpactedDeps(r) : m[d] # NoDistance /\ b[2] = m[d][2] + Crossing(r, d)
  BY DEF Folded
<1>7. best[1] = Infinity \/ \E d \in ImpactedDeps(r) : m[d] # NoDistance /\ best[1] = m[d][1] + 1
  BY <1>1, <1>3, <1>6 DEF x
<1>8. best[2] = Infinity \/ \E d \in ImpactedDeps(r) : m[d] # NoDistance /\ best[2] = m[d][2] + Crossing(r, d)
  BY <1>1, <1>3, <1>6 DEF y
<1> QED BY <1>4, <1>5, <1>7, <1>8 DEF Folded

\* Without cycles a label that is being visited does not come up again.
LEMMA NotVisited ==
    ASSUME NEW m, NEW fs, Stacked(m, fs), Acyclic, fs # <<>>,
           NEW d \in Rules, Awaits(fs[Len(fs)], d)
    PROVE  \A i \in 1 .. Len(fs) : fs[i].rule # d
<1> SUFFICES ASSUME NEW i \in 1 .. Len(fs), fs[i].rule = d PROVE FALSE
  OBVIOUS
<1> DEFINE n == Len(fs)
           S == {fs[j].rule : j \in i .. n}
<1>1. /\ n \in Nat \ {0} /\ i \in 1 .. n
      /\ \A j \in 1 .. n : fs[j].rule \in Rules
  <2>1. n \in Nat \ {0} /\ \A j \in 1 .. n : fs[j] \in Frames
    BY EmptyList, ListPlaces DEF Stacked
  <2> QED BY <2>1 DEF Frames
<1>2. S \in SUBSET Rules /\ S # {}
  BY <1>1
<1>3. ASSUME NEW f, NEW r, Awaits(f, r)
      PROVE  Edge(f.rule, r)
  <2>1. r \in ImpactedDeps(f.rule)
    BY <1>3 DEF Awaits
  <2> QED BY <2>1, Zenon DEF ImpactedDeps, Edge
<1>4. ASSUME NEW j \in i .. n
      PROVE  \E r \in S : Edge(fs[j].rule, r)
  <2>1. CASE j = n
    BY <1>1, <1>3, <2>1
  <2>2. CASE j # n
    <3>1. j + 1 \in i .. n /\ j \in 1 .. n - 1
      BY <1>1, <2>2
    <3>2. Awaits(fs[j], fs[j + 1].rule)
      BY <3>1 DEF Stacked
    <3> QED BY <1>3, <3>1, <3>2
  <2> QED BY <2>1, <2>2
<1> QED BY <1>2, <1>4, Zenon DEF Acyclic

\* The frame on top goes on to its next dependency.
LEMMA TopAdvances ==
    ASSUME NEW m, NEW fs, Stacked(m, fs), fs # <<>>,
           NEW todo \in Seq(Rules), NEW b \in Pairs, Folded(m, fs[Len(fs)].rule, b, todo),
           NEW gs, gs = [fs EXCEPT ![Len(fs)] = [rule |-> fs[Len(fs)].rule, todo |-> todo, best |-> b]]
    PROVE  Stacked(m, gs)
<1> DEFINE n == Len(fs)
           top == [rule |-> fs[n].rule, todo |-> todo, best |-> b]
<1>1. /\ n \in Nat \ {0} /\ n \in 1 .. n /\ fs \in Seq(Frames)
      /\ \A i \in 1 .. n : fs[i] \in Frames /\ FrameSound(m, fs[i])
  BY EmptyList, ListPlaces DEF Stacked
<1>2. top \in Frames
  BY <1>1, Zenon DEF Frames
<1>3. FrameSound(m, top)
  BY <1>1 DEF FrameSound
<1>4. top.rule = fs[n].rule
  OBVIOUS
<1> HIDE DEF top
<1>5. /\ gs \in Seq(Frames) /\ Len(gs) = n
      /\ \A i \in 1 .. n : gs[i] = IF i = n THEN top ELSE fs[i]
  BY <1>1, <1>2, ListReplaced DEF top
<1> HIDE DEF n
<1>6. \A i \in 1 .. n : FrameSound(m, gs[i]) /\ gs[i].rule = fs[i].rule
  BY <1>1, <1>3, <1>4, <1>5
<1>7. \A i, j \in 1 .. n : gs[i].rule = gs[j].rule => i = j
  BY <1>6 DEF Stacked, n
<1>8. \A i \in 1 .. n - 1 : Awaits(gs[i], gs[i + 1].rule)
  <2> SUFFICES ASSUME NEW i \in 1 .. n - 1 PROVE Awaits(gs[i], gs[i + 1].rule)
    OBVIOUS
  <2>1. i \in 1 .. n /\ i # n /\ i + 1 \in 1 .. n
    BY <1>1
  <2>2. gs[i] = fs[i] /\ gs[i + 1].rule = fs[i + 1].rule
    BY <1>5, <1>6, <2>1
  <2> QED BY <2>2 DEF Stacked, n
<1> QED BY <1>5, <1>6, <1>7, <1>8 DEF Stacked

\* A label is visited, the first or one another waits for.
LEMMA TopVisits ==
    ASSUME NEW m, NEW fs, Stacked(m, fs), inputs \in [Rules -> Seq(Rules)],
           NEW r \in Impacted, ~AtZero(r), m[r] = NoDistance,
           \A i \in 1 .. Len(fs) : fs[i].rule # r, fs # <<>> => Awaits(fs[Len(fs)], r),
           NEW gs, gs = Append(fs, [rule |-> r, todo |-> inputs[r], best |-> <<Infinity, Infinity>>])
    PROVE  Stacked(m, gs)
<1> DEFINE n == Len(fs)
           top == [rule |-> r, todo |-> inputs[r], best |-> <<Infinity, Infinity>>]
<1>1. /\ n \in Nat /\ fs \in Seq(Frames) /\ r \in Rules
      /\ (fs # <<>> <=> n # 0)
  BY EmptyList, ListPlaces DEF Stacked, Impacted
<1>2. <<Infinity, Infinity>> \in Pairs
  BY PairFacts DEF Pairs
<1>3. top \in Frames
  BY <1>1, <1>2 DEF Frames
<1>4. \A d \in ImpactedDeps(r) : Lists(inputs[r], d)
  BY DEF ImpactedDeps
<1>5. FrameSound(m, top)
  BY <1>4 DEF FrameSound, Folded
<1>6. top.rule = r
  OBVIOUS
<1> HIDE DEF top
<1>7. /\ gs \in Seq(Frames) /\ Len(gs) = n + 1
      /\ \A i \in 1 .. n : gs[i] = fs[i]
      /\ gs[n + 1] = top
  BY <1>1, <1>3, ListAppend DEF top
<1>8. \A i \in 1 .. n + 1 : FrameSound(m, gs[i])
  <2>1. \A i \in 1 .. n : FrameSound(m, fs[i])
    BY DEF Stacked
  <2>2. \A i \in 1 .. n + 1 : i \in 1 .. n \/ i = n + 1
    BY <1>1
  <2> QED BY <1>5, <1>7, <2>1, <2>2, Zenon
<1>9. \A i, j \in 1 .. n + 1 : gs[i].rule = gs[j].rule => i = j
  BY <1>1, <1>6, <1>7 DEF Stacked
<1>10. \A i \in 1 .. n : Awaits(gs[i], gs[i + 1].rule)
  <2> SUFFICES ASSUME NEW i \in 1 .. n PROVE Awaits(gs[i], gs[i + 1].rule)
    BY Zenon
  <2>1. CASE i = n
    BY <1>1, <1>6, <1>7, <2>1
  <2>2. CASE i # n
    <3>1. i \in 1 .. n - 1 /\ i + 1 \in 1 .. n
      BY <1>1, <2>2
    <3>2. Awaits(fs[i], fs[i + 1].rule)
      BY <3>1 DEF Stacked
    <3>3. gs[i] = fs[i] /\ gs[i + 1] = fs[i + 1]
      BY <1>7, <3>1
    <3> QED BY <3>2, <3>3
  <2> QED BY <2>1, <2>2
<1> HIDE DEF n
<1>11. Len(gs) - 1 = n
  <2>1. n \in Nat /\ Len(gs) = n + 1
    BY <1>1, <1>7
  <2> QED BY <2>1
<1>12. \A i \in 1 .. Len(gs) : FrameSound(m, gs[i])
  BY <1>7, <1>8, Zenon
<1>13. \A i, j \in 1 .. Len(gs) : gs[i].rule = gs[j].rule => i = j
  BY <1>7, <1>9
<1>14. \A i \in 1 .. Len(gs) - 1 : Awaits(gs[i], gs[i + 1].rule)
  BY <1>10, <1>11
<1> QED BY <1>7, <1>12, <1>13, <1>14, Zenon DEF Stacked

\* The distances n extend m, and are not those of the labels being visited.
Extends(n, m, fs) ==
    /\ \A d \in Impacted : m[d] # NoDistance => n[d] = m[d]
    /\ \A i \in 1 .. Len(fs) : n[fs[i].rule] = NoDistance

\* The frames do not mind that another distance is found.
LEMMA StackedGrows ==
    ASSUME NEW m, NEW n, NEW fs, Stacked(m, fs), Extends(n, m, fs)
    PROVE  Stacked(n, fs)
<1>1. ASSUME NEW i \in 1 .. Len(fs)
      PROVE  FrameSound(n, fs[i])
  <2>1. FrameSound(m, fs[i])
    BY DEF Stacked
  <2>2. Folded(n, fs[i].rule, fs[i].best, fs[i].todo)
    BY <2>1, FoldedGrows DEF FrameSound, Extends
  <2> QED BY <2>1, <2>2 DEF FrameSound, Extends
<1> QED BY <1>1 DEF Stacked

\* b is the distance of r, whose dependencies are done with.
Ready(m, r, b) ==
    /\ r \in Impacted /\ m[r] = NoDistance /\ b \in Pairs
    /\ AtZero(r) => b = <<0, 0>>
    /\ ~AtZero(r) => Folded(m, r, b, <<>>)

IsWith(n, m, r, b) == n = [m EXCEPT ![r] = b]

\* One more distance.
LEMMA FoundGrows ==
    ASSUME NEW m, NEW r, NEW b, Found(m), Ready(m, r, b), NEW n, IsWith(n, m, r, b)
    PROVE  /\ Found(n)
           /\ n[r] = b
           /\ \A d \in Rules : d # r => n[d] = m[d]
           /\ \A d \in Impacted : m[d] # NoDistance => n[d] = m[d]
<1> USE DEF Ready, IsWith
<1>1. r \in Rules /\ Impacted \subseteq Rules
  BY DEF Impacted
<1>2. /\ n \in [Rules -> Pairs \cup {NoDistance}]
      /\ n[r] = b
      /\ \A d \in Rules : d # r => n[d] = m[d]
  BY <1>1 DEF Found
<1>3. \A d \in Impacted : m[d] # NoDistance => n[d] = m[d]
  BY <1>1, <1>2
<1>4. ASSUME NEW q \in Rules, n[q] # NoDistance, ~AtZero(q)
      PROVE  Folded(n, q, n[q], <<>>)
  <2>1. CASE q = r
    <3>1. Folded(m, q, n[q], <<>>)
      BY <1>2, <1>4, <2>1
    <3> QED BY <1>3, <3>1, FoldedGrows, Zenon
  <2>2. CASE q # r
    <3>1. m[q] # NoDistance /\ n[q] = m[q]
      BY <1>2, <1>4, <2>2
    <3>2. Folded(m, q, n[q], <<>>)
      BY <1>4, <3>1 DEF Found
    <3> QED BY <1>3, <3>2, FoldedGrows, Zenon
  <2> QED BY <2>1, <2>2
<1>5. ASSUME NEW q \in Rules, n[q] # NoDistance
      PROVE  q \in Impacted /\ (AtZero(q) => n[q] = <<0, 0>>)
  BY <1>2, <1>5 DEF Found
<1> QED BY <1>2, <1>3, <1>4, <1>5, Zenon DEF Found

\* The label on top has its distance.
LEMMA TopFinishes ==
    ASSUME NEW m, NEW fs, Measuring(m, fs), fs # <<>>, fs[Len(fs)].todo = <<>>,
           NEW n, IsWith(n, m, fs[Len(fs)].rule, fs[Len(fs)].best),
           NEW gs, gs = Popped(fs)
    PROVE  Measuring(n, gs)
<1> DEFINE k == Len(fs)
           top == fs[k]
<1>1. /\ k \in Nat \ {0} /\ k \in 1 .. k /\ fs \in Seq(Frames)
      /\ \A i \in 1 .. k : fs[i] \in Frames
  BY EmptyList, ListPlaces DEF Measuring, Stacked
<1>2. top.best \in Pairs
  BY <1>1 DEF Frames
<1>3. /\ top.rule \in Impacted /\ ~AtZero(top.rule) /\ m[top.rule] = NoDistance
      /\ Folded(m, top.rule, top.best, <<>>)
  <2>1. FrameSound(m, top)
    BY <1>1 DEF Measuring, Stacked
  <2> QED BY <2>1 DEF FrameSound
<1>4. /\ Found(n)
      /\ \A d \in Rules : d # top.rule => n[d] = m[d]
      /\ \A d \in Impacted : m[d] # NoDistance => n[d] = m[d]
  <2>1. Found(m) /\ IsWith(n, m, top.rule, top.best)
    BY DEF Measuring
  <2>2. Ready(m, top.rule, top.best)
    BY <1>2, <1>3 DEF Ready
  <2> QED BY <2>1, <2>2, FoundGrows
<1> HIDE DEF top
<1>5. /\ gs \in Seq(Frames) /\ Len(gs) = k - 1
      /\ \A i \in 1 .. k - 1 : gs[i] = fs[i]
  <2> DEFINE j == k - 1
  <2>1. j \in Nat /\ j - 1 + 1 = j /\ \A i \in 1 .. j : fs[i] \in Frames /\ 1 + i - 1 = i
    BY <1>1
  <2>2. gs = SubSeq(fs, 1, j)
    BY DEF Popped
  <2> HIDE DEF j
  <2>3. gs \in Seq(Frames) /\ Len(gs) = j /\ \A i \in 1 .. j : gs[i] = fs[i]
    BY <2>1, <2>2, ListPart
  <2> QED BY <2>3 DEF j
<1>6. Stacked(m, gs)
  <2>1. \A i \in 1 .. Len(gs) : i \in 1 .. k /\ gs[i] = fs[i]
    BY <1>1, <1>5
  <2>2. \A i \in 1 .. Len(gs) - 1 : i \in 1 .. k - 1 /\ gs[i] = fs[i] /\ gs[i + 1] = fs[i + 1]
    BY <1>1, <1>5
  <2>3. \A i \in 1 .. Len(gs) : FrameSound(m, gs[i])
    BY <2>1 DEF Measuring, Stacked
  <2>4. \A i, j \in 1 .. Len(gs) : gs[i].rule = gs[j].rule => i = j
    BY <2>1 DEF Measuring, Stacked
  <2>5. \A i \in 1 .. Len(gs) - 1 : Awaits(gs[i], gs[i + 1].rule)
    BY <2>2 DEF Measuring, Stacked
  <2> QED BY <1>5, <2>3, <2>4, <2>5 DEF Stacked
<1>7. ASSUME NEW i \in 1 .. Len(gs)
      PROVE  n[gs[i].rule] = NoDistance
  <2>1. i \in 1 .. k /\ i # k /\ gs[i] = fs[i]
    BY <1>1, <1>5
  <2>2. fs[i].rule # top.rule
    BY <1>1, <2>1 DEF Measuring, Stacked, top
  <2>3. fs[i].rule \in Rules /\ m[fs[i].rule] = NoDistance
    BY <1>1, <2>1 DEF Measuring, Stacked, FrameSound, Impacted
  <2> QED BY <1>4, <2>1, <2>2, <2>3
<1>8. Stacked(n, gs)
  <2>1. Extends(n, m, gs)
    BY <1>4, <1>7 DEF Extends
  <2> QED BY <1>6, <2>1, StackedGrows
<1> QED BY <1>4, <1>8 DEF Measuring

-----------------------------------------------------------------------------
(* The steps.                                                              *)

Sound == Measuring(memo, frames)

DistanceInv ==
    /\ inputs \in [Rules -> Seq(Rules)] /\ target \in Nat
    /\ ~Done => frames = <<>> /\ memo = [r \in Rules |-> NoDistance]
    /\ Acyclic => Sound

LEMMA DistanceStarts == ImpactInit => DistanceInv
<1> SUFFICES ASSUME ImpactInit PROVE DistanceInv
  OBVIOUS
<1>1. inputs \in [Rules -> Seq(Rules)] /\ target \in Nat
  BY HashGraphAssumption DEF ImpactInit, Init, Rules
<1>2. frames = <<>> /\ memo = [r \in Rules |-> NoDistance]
  BY DEF ImpactInit
<1>3. Found(memo)
  BY <1>2 DEF Found
<1>4. Stacked(memo, frames)
  BY <1>2, EmptyList DEF Stacked
<1> QED BY <1>1, <1>2, <1>3, <1>4 DEF DistanceInv, Sound, Measuring

\* Hashing comes first.
LEMMA HashKeeps ==
    ASSUME DistanceInv, Hash
    PROVE  DistanceInv'
<1>1. ~Done
  <2>1. N \in Nat /\ target \in Nat
    BY HashGraphAssumption DEF DistanceInv
  <2>2. NextTarget => ~(target > N)
    BY <2>1 DEF NextTarget
  <2> QED BY <2>2 DEF Hash, Next, SelfInput, FinishedInput, BackEdge, Descend, Finish, NextRevision,
                     HasInput, Done
<1>2. frames' = <<>> /\ memo' = [r \in Rules |-> NoDistance]
  BY <1>1 DEF DistanceInv, Hash, distanceVars
<1>3. inputs' = inputs /\ target' \in Nat
  BY DEF DistanceInv, Hash, Next, NextTarget, SelfInput, FinishedInput, BackEdge, Descend, Finish,
         NextRevision
<1>4. Found(memo)'
  BY <1>2 DEF Found
<1>5. Stacked(memo, frames)'
  BY <1>2, EmptyList DEF Stacked
<1> QED BY <1>2, <1>3, <1>4, <1>5 DEF DistanceInv, Sound, Measuring

\* While distances are measured the graph and the digests stay as they are.
LEMMA SameGraph ==
    ASSUME UNCHANGED <<vars, lacking>>, Measuring(memo', frames')
    PROVE  Sound'
<1>1. Impacted' = Impacted
  BY DEF vars, Impacted
<1>2. \A r : ImpactedDeps(r)' = ImpactedDeps(r)
  BY <1>1 DEF vars, ImpactedDeps
<1>3. \A r : AtZero(r)' = AtZero(r)
  BY <1>2 DEF vars, AtZero, IsDirect, DirectlyImpacted
<1>4. \A r, b, todo : Folded(memo, r, b, todo)' = Folded(memo', r, b, todo)
  BY <1>2 DEF Folded
<1>5. Found(memo)'
  BY <1>1, <1>3, <1>4 DEF Measuring, Found
<1>6. Stacked(memo, frames)'
  <2>1. /\ frames' \in Seq(Frames)
        /\ \A i \in 1 .. Len(frames') : FrameSound(memo', frames'[i])
        /\ \A i, j \in 1 .. Len(frames') : frames'[i].rule = frames'[j].rule => i = j
        /\ \A i \in 1 .. Len(frames') - 1 : Awaits(frames'[i], frames'[i + 1].rule)
    BY DEF Measuring, Stacked
  <2>2. (\A i \in 1 .. Len(frames) : FrameSound(memo, frames[i]))'
    BY <1>1, <1>3, <1>4, <2>1 DEF FrameSound
  <2>3. (\A i \in 1 .. Len(frames) - 1 : Awaits(frames[i], frames[i + 1].rule))'
    BY <1>2, <2>1 DEF Awaits
  <2> QED BY <2>1, <2>2, <2>3 DEF Stacked
<1> QED BY <1>5, <1>6 DEF Sound, Measuring

\* The frame on top.
LEMMA TopFacts ==
    ASSUME Sound, frames # <<>>
    PROVE  /\ Current \in Frames /\ FrameSound(memo, Current)
           /\ Current.rule \in Rules /\ Current.todo \in Seq(Rules) /\ Current.best \in Pairs
<1>1. Len(frames) \in 1 .. Len(frames) /\ \A i \in 1 .. Len(frames) : frames[i] \in Frames
  BY EmptyList, ListPlaces DEF Sound, Measuring, Stacked
<1>2. Current \in Frames /\ FrameSound(memo, Current)
  BY <1>1 DEF Current, Sound, Measuring, Stacked
<1>3. \A f \in Frames : f.rule \in Rules /\ f.todo \in Seq(Rules) /\ f.best \in Pairs
  BY DEF Frames
<1> HIDE DEF Current
<1> QED BY <1>2, <1>3

LEMMA LabelSound ==
    ASSUME DistanceInv, Acyclic, NEW r \in Rules, Label(r)
    PROVE  Measuring(memo', frames')
<1>1. frames = <<>> /\ r \in Impacted /\ memo[r] = NoDistance /\ Found(memo) /\ Stacked(memo, frames)
  BY DEF Label, DistanceInv, Sound, Measuring
<1>2. CASE AtZero(r) /\ memo' = [memo EXCEPT ![r] = <<0, 0>>] /\ UNCHANGED frames
  <2>1. <<0, 0>> \in Pairs
    BY PairFacts DEF Pairs
  <2>2. Ready(memo, r, <<0, 0>>) /\ IsWith(memo', memo, r, <<0, 0>>)
    BY <1>1, <1>2, <2>1 DEF Ready, IsWith
  <2>3. Found(memo')
    BY <1>1, <2>2, FoundGrows
  <2>4. Stacked(memo', frames')
    BY <1>1, <1>2, EmptyList DEF Stacked
  <2> QED BY <2>3, <2>4 DEF Measuring
<1>3. CASE ~AtZero(r) /\ Visit(r) /\ UNCHANGED memo
  <2>1. \A i \in 1 .. Len(frames) : frames[i].rule # r
    BY <1>1, EmptyList
  <2>2. inputs \in [Rules -> Seq(Rules)]
    BY DEF DistanceInv
  <2>3. frames' = Append(frames, [rule |-> r, todo |-> inputs[r], best |-> <<Infinity, Infinity>>])
    BY <1>3 DEF Visit
  <2>4. Stacked(memo, frames')
    BY <1>1, <1>3, <2>1, <2>2, <2>3, TopVisits, Zenon
  <2> QED BY <1>1, <1>3, <2>4 DEF Measuring
<1> QED BY <1>2, <1>3 DEF Label

\* The dependency at hand has the distances found.
Taken(d, found) ==
    [rule |-> Current.rule, todo |-> Tail(Current.todo),
     best |-> <<Smaller(Current.best[1], found[1] + 1),
                Smaller(Current.best[2], found[2] + Crossing(Current.rule, d))>>]

LEMMA TakeSound ==
    ASSUME Sound, frames # <<>>, Current.todo # <<>>, Head(Current.todo) \in ImpactedDeps(Current.rule),
           NEW n, Found(n), Stacked(n, frames), n[Head(Current.todo)] \in Pairs,
           NEW gs, gs = [frames EXCEPT ![Len(frames)] = Taken(Head(Current.todo), n[Head(Current.todo)])]
    PROVE  Stacked(n, gs)
<1> DEFINE d == Head(Current.todo)
           best == <<Smaller(Current.best[1], n[d][1] + 1),
                     Smaller(Current.best[2], n[d][2] + Crossing(Current.rule, d))>>
<1>1. /\ Current.todo \in Seq(Rules) /\ Current.best \in Pairs /\ Current.rule \in Rules
      /\ Current = frames[Len(frames)]
  BY TopFacts DEF Current
<1>2. Folded(n, Current.rule, Current.best, Current.todo)
  <2>1. Len(frames) \in 1 .. Len(frames)
    BY EmptyList, ListPlaces DEF Stacked
  <2> QED BY <1>1, <2>1 DEF Stacked, FrameSound
<1>3. \A e \in ImpactedDeps(Current.rule) : n[e] # NoDistance => n[e] \in Pairs
  <2>1. ImpactedDeps(Current.rule) \subseteq Rules
    BY DEF ImpactedDeps, Impacted
  <2> QED BY <2>1 DEF Found
<1>4. best \in Pairs /\ Folded(n, Current.rule, best, Tail(Current.todo))
  BY <1>1, <1>2, <1>3, FoldedTakes
<1>5. gs = [frames EXCEPT ![Len(frames)] = [rule |-> Current.rule, todo |-> Tail(Current.todo), best |-> best]]
  BY DEF Taken
<1>6. Tail(Current.todo) \in Seq(Rules)
  BY <1>1, ListFacts
<1> HIDE DEF best
<1> QED BY <1>1, <1>4, <1>5, <1>6, TopAdvances, Zenon

LEMMA UnimpactedSound ==
    ASSUME Sound, Unimpacted
    PROVE  Measuring(memo', frames')
<1>1. /\ frames # <<>> /\ Current.todo # <<>> /\ memo' = memo
      /\ Head(Current.todo) \notin ImpactedDeps(Current.rule)
      /\ frames' = [frames EXCEPT ![Len(frames)] =
                      [rule |-> Current.rule, todo |-> Tail(Current.todo), best |-> Current.best]]
  BY DEF Unimpacted, GoOn
<1>2. /\ Current.todo \in Seq(Rules) /\ Current.best \in Pairs /\ FrameSound(memo, Current)
      /\ Current = frames[Len(frames)]
  BY <1>1, TopFacts DEF Current
<1>3. Folded(memo, Current.rule, Current.best, Tail(Current.todo))
  BY <1>1, <1>2, FoldedSkips DEF FrameSound
<1>4. Tail(Current.todo) \in Seq(Rules)
  BY <1>1, <1>2, ListFacts
<1>5. Found(memo) /\ Stacked(memo, frames)
  BY DEF Sound, Measuring
<1>6. Stacked(memo, frames')
  BY <1>1, <1>2, <1>3, <1>4, <1>5, TopAdvances, Zenon
<1> QED BY <1>1, <1>5, <1>6 DEF Measuring

LEMMA DependencySound ==
    ASSUME DistanceInv, Acyclic, Dependency
    PROVE  Measuring(memo', frames')
<1> DEFINE d == Head(Current.todo)
<1>1. /\ frames # <<>> /\ Current.todo # <<>> /\ d \in ImpactedDeps(Current.rule)
      /\ Sound /\ inputs \in [Rules -> Seq(Rules)]
  BY DEF Dependency, DistanceInv
<1>2. Found(memo) /\ Stacked(memo, frames)
  BY <1>1 DEF Sound, Measuring
<1>3. d \in Impacted /\ d \in Rules
  BY <1>1 DEF ImpactedDeps, Impacted
<1>4. Awaits(frames[Len(frames)], d)
  BY <1>1 DEF Awaits, Current
<1>5. \A i \in 1 .. Len(frames) : frames[i].rule # d
  BY <1>1, <1>2, <1>3, <1>4, NotVisited
<1>6. memo[d] # NoDistance => memo[d] \in Pairs
  BY <1>2, <1>3 DEF Found
<1> HIDE DEF d
<1>7. CASE memo[d] # NoDistance /\ Take(d, memo[d]) /\ UNCHANGED memo
  <2>1. frames' = [frames EXCEPT ![Len(frames)] = Taken(Head(Current.todo), memo[Head(Current.todo)])]
    BY <1>7 DEF Take, GoOn, Taken, d
  <2>2. memo[Head(Current.todo)] \in Pairs /\ Head(Current.todo) \in ImpactedDeps(Current.rule)
    BY <1>1, <1>6, <1>7 DEF d
  <2>3. Stacked(memo, frames')
    BY <1>1, <1>2, <2>1, <2>2, TakeSound, Zenon
  <2> QED BY <1>2, <1>7, <2>3 DEF Measuring
<1>8. CASE memo[d] = NoDistance /\ AtZero(d) /\ memo' = [memo EXCEPT ![d] = <<0, 0>>] /\ Take(d, <<0, 0>>)
  <2>1. <<0, 0>> \in Pairs
    BY PairFacts DEF Pairs
  <2>2. Ready(memo, d, <<0, 0>>) /\ IsWith(memo', memo, d, <<0, 0>>)
    BY <1>3, <1>8, <2>1 DEF Ready, IsWith
  <2>3. /\ Found(memo') /\ memo'[d] = <<0, 0>>
        /\ \A e \in Rules : e # d => memo'[e] = memo[e]
        /\ \A e \in Impacted : memo[e] # NoDistance => memo'[e] = memo[e]
    BY <1>2, <2>2, FoundGrows
  <2>4. Extends(memo', memo, frames)
    <3>1. \A i \in 1 .. Len(frames) : frames[i].rule \in Rules /\ memo[frames[i].rule] = NoDistance
      BY <1>2 DEF Stacked, FrameSound, Impacted
    <3> QED BY <1>5, <2>3, <3>1 DEF Extends
  <2>5. Stacked(memo', frames)
    BY <1>2, <2>4, StackedGrows
  <2>6. frames' = [frames EXCEPT ![Len(frames)] = Taken(Head(Current.todo), memo'[Head(Current.todo)])]
    BY <1>8, <2>3, Zenon DEF Take, GoOn, Taken, d
  <2>7. memo'[Head(Current.todo)] \in Pairs /\ Head(Current.todo) \in ImpactedDeps(Current.rule)
    BY <1>1, <2>1, <2>3 DEF d
  <2>8. Stacked(memo', frames')
    BY <1>1, <2>3, <2>5, <2>6, <2>7, TakeSound, Zenon
  <2> QED BY <2>3, <2>8 DEF Measuring
<1>9. CASE Visiting(d)
  <2>1. DOMAIN frames = 1 .. Len(frames)
    BY <1>2, ListPlaces DEF Stacked
  <2> QED BY <1>5, <1>9, <2>1 DEF Visiting
<1>10. CASE memo[d] = NoDistance /\ ~AtZero(d) /\ Visit(d) /\ UNCHANGED memo
  <2>1. frames' = Append(frames, [rule |-> d, todo |-> inputs[d], best |-> <<Infinity, Infinity>>])
    BY <1>10 DEF Visit
  <2>2. Stacked(memo, frames')
    BY <1>1, <1>2, <1>3, <1>4, <1>5, <1>10, <2>1, TopVisits, Zenon
  <2> QED BY <1>2, <1>10, <2>2 DEF Measuring
<1> QED BY <1>7, <1>8, <1>9, <1>10 DEF Dependency, d

LEMMA RememberSound ==
    ASSUME Sound, Remember
    PROVE  Measuring(memo', frames')
<1>1. /\ frames # <<>> /\ frames[Len(frames)].todo = <<>> /\ frames' = Popped(frames)
      /\ IsWith(memo', memo, frames[Len(frames)].rule, frames[Len(frames)].best)
  BY DEF Remember, Current, IsWith
<1>2. Measuring(memo, frames)
  BY DEF Sound
<1> QED BY <1>1, <1>2, TopFinishes

LEMMA DistanceStep ==
    ASSUME DistanceInv, [ImpactNext]_allVars
    PROVE  DistanceInv'
<1>1. ASSUME Done, UNCHANGED <<vars, lacking>>, Acyclic => Measuring(memo', frames')
      PROVE  DistanceInv'
  <2>1. Done' /\ inputs' = inputs /\ target' = target /\ Acyclic' = Acyclic
    BY <1>1 DEF vars, Done, Acyclic, Edge
  <2>2. Acyclic => Sound'
    BY <1>1, SameGraph
  <2> QED BY <2>1, <2>2 DEF DistanceInv
<1>2. CASE Hash
  BY <1>2, HashKeeps
<1>3. ASSUME NEW r \in Rules, Label(r)
      PROVE  DistanceInv'
  BY <1>1, <1>3, LabelSound DEF Label
<1>4. CASE Unimpacted
  <2>1. Done /\ UNCHANGED <<vars, lacking>>
    BY <1>4 DEF Unimpacted, DistanceInv
  <2> QED BY <1>1, <1>4, <2>1, UnimpactedSound DEF DistanceInv
<1>5. CASE Dependency
  <2>1. Done /\ UNCHANGED <<vars, lacking>>
    BY <1>5 DEF Dependency, DistanceInv
  <2> QED BY <1>1, <1>5, <2>1, DependencySound
<1>6. CASE Remember
  <2>1. Done /\ UNCHANGED <<vars, lacking>>
    BY <1>6 DEF Remember, DistanceInv
  <2> QED BY <1>1, <1>6, <2>1, RememberSound DEF DistanceInv
<1>7. CASE UNCHANGED allVars
  <2>1. UNCHANGED <<vars, lacking>> /\ memo' = memo /\ frames' = frames
    BY <1>7, Zenon DEF allVars, distanceVars
  <2>2. CASE Done
    BY <1>1, <2>1, <2>2 DEF DistanceInv, Sound
  <2>3. CASE ~Done
    <3>1. ~Done' /\ inputs' = inputs /\ target' = target /\ Acyclic' = Acyclic
      BY <2>1, <2>3 DEF vars, Done, Acyclic, Edge
    <3>2. Acyclic => Sound'
      BY <2>1, SameGraph DEF DistanceInv, Sound
    <3> QED BY <2>1, <2>3, <3>1, <3>2 DEF DistanceInv
  <2> QED BY <2>2, <2>3
<1> QED BY <1>2, <1>3, <1>4, <1>5, <1>6, <1>7, Zenon DEF ImpactNext

-----------------------------------------------------------------------------
(* The answer.                                                             *)

\* The distances at the end are the least over the dependencies, of both kinds.
LEMMA MemoSolves ==
    ASSUME Sound, \A r \in Impacted : memo[r] # NoDistance
    PROVE  /\ Solves([r \in Impacted |-> memo[r][1]], PerHop)
           /\ Solves([r \in Impacted |-> memo[r][2]], PerCrossing)
<1>1. /\ Impacted \subseteq Rules
      /\ \A r \in Impacted : ImpactedDeps(r) \subseteq Impacted
      /\ \A r, d \in Rules : PerHop[r][d] = 1 /\ PerCrossing[r][d] = Crossing(r, d)
  BY DEF Impacted, ImpactedDeps, PerHop, PerCrossing
<1>2. \A r \in Impacted : /\ memo[r] \in Pairs
                          /\ AtZero(r) => memo[r] = <<0, 0>>
                          /\ ~AtZero(r) => Folded(memo, r, memo[r], <<>>)
  BY <1>1 DEF Sound, Measuring, Found
<1>3. \A r \in Impacted : /\ memo[r][1] \in Nat /\ memo[r][2] \in Nat
                          /\ memo[r][1] <= Infinity /\ memo[r][2] <= Infinity
  BY <1>2, PairFacts
<1>4. \A d : ~Lists(<<>>, d)
  BY DEF Lists
<1>5. ASSUME NEW r \in Impacted, ~AtZero(r)
      PROVE  /\ \A d \in ImpactedDeps(r) :
                   memo[r][1] <= memo[d][1] + 1 /\ memo[r][2] <= memo[d][2] + Crossing(r, d)
             /\ memo[r][1] = Infinity \/ \E d \in ImpactedDeps(r) : memo[r][1] = memo[d][1] + 1
             /\ memo[r][2] = Infinity \/ \E d \in ImpactedDeps(r) : memo[r][2] = memo[d][2] + Crossing(r, d)
  BY <1>2, <1>4, <1>5 DEF Folded
<1>6. Solves([r \in Impacted |-> memo[r][1]], PerHop)
  <2> DEFINE distance == [r \in Impacted |-> memo[r][1]]
  <2>1. distance \in [Impacted -> Nat] /\ \A r \in Impacted : distance[r] = memo[r][1]
    BY <1>3
  <2> HIDE DEF distance
  <2>2. \A r \in Impacted : AtZero(r) => distance[r] = 0
    BY <1>2, <2>1
  <2>3. ASSUME NEW r \in Impacted, ~AtZero(r)
        PROVE  LeastOf(distance[r], r, distance, PerHop)
    <3>1. \A d \in ImpactedDeps(r) : distance[d] = memo[d][1] /\ PerHop[r][d] = 1
      BY <1>1, <2>1
    <3>2. distance[r] = memo[r][1] /\ memo[r][1] <= Infinity
      BY <1>3, <2>1
    <3> QED BY <1>5, <2>3, <3>1, <3>2 DEF LeastOf
  <2> QED BY <2>1, <2>2, <2>3 DEF Solves, distance
<1>7. Solves([r \in Impacted |-> memo[r][2]], PerCrossing)
  <2> DEFINE distance == [r \in Impacted |-> memo[r][2]]
  <2>1. distance \in [Impacted -> Nat] /\ \A r \in Impacted : distance[r] = memo[r][2]
    BY <1>3
  <2> HIDE DEF distance
  <2>2. \A r \in Impacted : AtZero(r) => distance[r] = 0
    BY <1>2, <2>1
  <2>3. ASSUME NEW r \in Impacted, ~AtZero(r)
        PROVE  LeastOf(distance[r], r, distance, PerCrossing)
    <3>1. \A d \in ImpactedDeps(r) : distance[d] = memo[d][2] /\ PerCrossing[r][d] = Crossing(r, d)
      BY <1>1, <2>1
    <3>2. distance[r] = memo[r][2] /\ memo[r][2] <= Infinity
      BY <1>3, <2>1
    <3> QED BY <1>5, <2>3, <3>1, <3>2 DEF LeastOf
  <2> QED BY <2>1, <2>2, <2>3 DEF Solves, distance
<1> QED BY <1>6, <1>7

LEMMA DistancesFollow == DistanceInv => DistancesExact
<1> SUFFICES ASSUME DistanceInv, Finished, Acyclic, NEW r \in Impacted
             PROVE  memo[r] = <<Shortest(PerHop)[r], Shortest(PerCrossing)[r]>>
  BY DEF DistancesExact
<1>1. Sound /\ \A q \in Impacted : memo[q] # NoDistance
  BY DEF DistanceInv, Finished
<1>2. PerHop \in Costs /\ PerCrossing \in Costs
  BY DEF PerHop, PerCrossing, Costs, Crossing
<1>3. /\ Solves([q \in Impacted |-> memo[q][1]], PerHop)
      /\ Solves([q \in Impacted |-> memo[q][2]], PerCrossing)
  BY <1>1, MemoSolves
<1>4. memo[r][1] = Shortest(PerHop)[r]
  BY <1>2, <1>3, SolutionIsShortest
<1>5. memo[r][2] = Shortest(PerCrossing)[r]
  BY <1>2, <1>3, SolutionIsShortest
<1>6. memo[r] \in Pairs
  BY <1>1 DEF Sound, Measuring, Found, Impacted
<1>7. memo[r] = <<memo[r][1], memo[r][2]>>
  BY <1>6, PairFacts
<1> QED BY <1>4, <1>5, <1>7, Zenon

\* calculate_distance: for every graph without cycles, whatever edges the
\* dep-edges file lacks and whatever order the labels are taken in, every
\* impacted target gets the least number of hops, and of package crossings, to
\* a target at distance 0, although the distances found for one label are
\* reused for the next.
THEOREM DistancesCorrect == ImpactSpec => []DistancesExact
<1>1. DistanceInv /\ [ImpactNext]_allVars => DistanceInv'
  BY DistanceStep
<1> QED BY DistanceStarts, <1>1, DistancesFollow, PTL DEF ImpactSpec

-----------------------------------------------------------------------------
(* Sorted lists.  By a strict total order, a member's place is its own, so *)
(* every place is taken and Sorted lists each member once, in order.       *)

Orders(before, S) ==
    /\ \A x \in S : <<x, x>> \notin before
    /\ \A x, y \in S : x # y => <<x, y>> \in before \/ <<y, x>> \in before
    /\ \A x, y, z \in S : <<x, y>> \in before /\ <<y, z>> \in before => <<x, z>> \in before

LEMMA PlaceGrows ==
    ASSUME NEW S, IsFiniteSet(S), NEW before, Orders(before, S),
           NEW x \in S, NEW y \in S, <<x, y>> \in before
    PROVE  Place(x, S, before) < Place(y, S, before)
<1> DEFINE A == {z \in S : <<z, x>> \in before}
           B == {z \in S : <<z, y>> \in before}
<1>1. A \in SUBSET B /\ B \in SUBSET S
  BY DEF Orders
<1>2. x \in B /\ x \notin A
  BY DEF Orders
<1> HIDE DEF A, B
<1>3. IsFiniteSet(B)
  BY <1>1, FS_Subset
<1>4. IsFiniteSet(A) /\ Cardinality(A) <= Cardinality(B) /\ (Cardinality(B) = Cardinality(A) => B = A)
  BY <1>1, <1>3, FS_Subset
<1>5. Cardinality(A) \in Nat /\ Cardinality(B) \in Nat
  BY <1>3, <1>4, FS_CardinalityType
<1>6. Cardinality(A) < Cardinality(B)
  BY <1>2, <1>4, <1>5
<1> QED BY <1>6 DEF Place, A, B

LEMMA PlaceTypes ==
    ASSUME NEW S, IsFiniteSet(S), NEW before, Orders(before, S), NEW x \in S
    PROVE  Place(x, S, before) \in 0 .. Cardinality(S) - 1
<1> DEFINE A == {z \in S : <<z, x>> \in before}
<1>1. A \in SUBSET (S \ {x})
  BY DEF Orders
<1> HIDE DEF A
<1>2. IsFiniteSet(S \ {x}) /\ Cardinality(S \ {x}) = Cardinality(S) - 1
  BY FS_RemoveElement
<1>3. IsFiniteSet(A) /\ Cardinality(A) <= Cardinality(S) - 1
  BY <1>1, <1>2, FS_Subset
<1>4. Cardinality(A) \in Nat /\ Cardinality(S) \in Nat
  BY <1>3, FS_CardinalityType
<1>5. Cardinality(A) \in 0 .. Cardinality(S) - 1
  BY <1>3, <1>4
<1> QED BY <1>5 DEF Place, A

LEMMA PlacesTaken ==
    ASSUME NEW S, IsFiniteSet(S), NEW before, Orders(before, S),
           NEW i \in 1 .. Cardinality(S)
    PROVE  \E x \in S : Place(x, S, before) = i - 1
<1> DEFINE n == Cardinality(S)
           T == 0 .. n - 1
           f == [x \in S |-> Place(x, S, before)]
<1>1. n \in Nat
  BY FS_CardinalityType
<1>2. f \in [S -> T]
  BY PlaceTypes
<1>3. ASSUME NEW x \in S, NEW y \in S, f[x] = f[y] PROVE x = y
  <2> SUFFICES ASSUME x # y PROVE FALSE
    OBVIOUS
  <2>1. Place(x, S, before) = Place(y, S, before) /\ Place(x, S, before) \in T /\ Place(y, S, before) \in T
    BY <1>3, PlaceTypes
  <2>2. <<x, y>> \in before \/ <<y, x>> \in before
    BY DEF Orders
  <2>3. Place(x, S, before) < Place(y, S, before) \/ Place(y, S, before) < Place(x, S, before)
    BY <2>2, PlaceGrows
  <2> QED BY <1>1, <2>1, <2>3
<1> HIDE DEF f
<1>4. f \in Injection(S, T)
  BY <1>2, <1>3 DEF Injection, IsInjective
<1>5. IsFiniteSet(T) /\ Cardinality(T) = n
  <2>1. 0 \in Int /\ n - 1 \in Int
    BY <1>1
  <2>2. IsFiniteSet(T) /\ Cardinality(T) = IF 0 > n - 1 THEN 0 ELSE (n - 1) - 0 + 1
    BY <2>1, FS_Interval
  <2> HIDE DEF n
  <2> QED BY <1>1, <2>2
<1> HIDE DEF T
<1>6. f \in Surjection(S, T)
  BY <1>4, <1>5, FS_Injection
<1>7. i - 1 \in T
  BY <1>1 DEF T
<1>8. PICK x \in S : f[x] = i - 1
  BY <1>6, <1>7 DEF Surjection
<1> QED BY <1>8 DEF f

LEMMA SortedFacts ==
    ASSUME NEW S, IsFiniteSet(S), NEW before, Orders(before, S), NEW s, s = Sorted(S, before)
    PROVE  /\ Cardinality(S) \in Nat /\ s \in [1 .. Cardinality(S) -> S]
           /\ s \in Seq(S) /\ Len(s) = Cardinality(S) /\ DOMAIN s = 1 .. Len(s)
           /\ Members(s) = S
           /\ \A i, j \in DOMAIN s : i < j <=> <<s[i], s[j]>> \in before
           /\ \A i, j \in DOMAIN s : s[i] = s[j] => i = j
<1> DEFINE n == Cardinality(S)
<1>1. n \in Nat
  BY FS_CardinalityType
<1>2. s = [i \in 1 .. n |-> CHOOSE x \in S : Place(x, S, before) = i - 1]
  BY DEF Sorted
<1> HIDE DEF n
<1>3. ASSUME NEW i \in 1 .. n
      PROVE  s[i] \in S /\ Place(s[i], S, before) = i - 1
  <2>1. \E x \in S : Place(x, S, before) = i - 1
    BY PlacesTaken DEF n
  <2>2. s[i] = CHOOSE x \in S : Place(x, S, before) = i - 1
    BY <1>2
  <2> HIDE <1>2
  <2> QED BY <2>1, <2>2
<1>4. s \in [1 .. n -> S]
  BY <1>2, <1>3
<1>5. s \in Seq(S) /\ Len(s) = n /\ DOMAIN s = 1 .. n
  BY <1>1, <1>4
<1>6. ASSUME NEW x \in S PROVE \E i \in 1 .. n : s[i] = x
  <2> DEFINE i == Place(x, S, before) + 1
  <2>1. Place(x, S, before) \in 0 .. n - 1
    BY PlaceTypes DEF n
  <2>2. i \in 1 .. n /\ i - 1 = Place(x, S, before)
    BY <1>1, <2>1
  <2> HIDE DEF i
  <2>3. s[i] \in S /\ Place(s[i], S, before) = Place(x, S, before)
    BY <1>3, <2>2
  <2>4. ~(Place(s[i], S, before) < Place(x, S, before)) /\ ~(Place(x, S, before) < Place(s[i], S, before))
    BY <2>1, <2>3
  <2>5. s[i] = x
    BY <2>3, <2>4, PlaceGrows, Zenon DEF Orders
  <2> QED BY <2>2, <2>5
<1>7. Members(s) = S
  BY <1>3, <1>5, <1>6 DEF Members
<1>8. ASSUME NEW i \in 1 .. n, NEW j \in 1 .. n, s[i] = s[j] PROVE i = j
  <2>1. i - 1 = j - 1
    BY <1>3, <1>8
  <2> QED BY <1>1, <2>1
<1>9. ASSUME NEW i \in 1 .. n, NEW j \in 1 .. n PROVE i < j <=> <<s[i], s[j]>> \in before
  <2>1. /\ s[i] \in S /\ Place(s[i], S, before) = i - 1
        /\ s[j] \in S /\ Place(s[j], S, before) = j - 1
    BY <1>3
  <2>2. <<s[i], s[j]>> \in before => i - 1 < j - 1
    BY <2>1, PlaceGrows
  <2>3. <<s[j], s[i]>> \in before => j - 1 < i - 1
    BY <2>1, PlaceGrows
  <2>4. i < j => s[i] # s[j]
    BY <1>1, <1>8
  <2>5. s[i] # s[j] => <<s[i], s[j]>> \in before \/ <<s[j], s[i]>> \in before
    BY <2>1 DEF Orders
  <2> QED BY <1>1, <2>2, <2>3, <2>4, <2>5
<1> QED BY <1>1, <1>4, <1>5, <1>7, <1>8, <1>9 DEF n

-----------------------------------------------------------------------------
(* ModuleChanges                                                           *)

Fields == {"from", "to", "dependsOn", "types", "excludeExternal", "stage", "repos", "impacted",
           "failed", "labels", "measured"}

AllLabels == DOMAIN diff.from.hashes \cup DOMAIN diff.to.hashes \cup DOMAIN diff.dependsOn

LabelsKnown ==
    /\ IsFiniteSet(AllLabels)
    /\ \A l \in AllLabels : l.name \in Nat
    /\ \A l, m \in AllLabels : l.name = m.name => l = m

\* Every hash that moved, the dependents of every changed repository, and
\* nothing else when no repository changed.
Widened ==
    /\ HashImpacted \subseteq diff.impacted
    /\ ChangedRepos = {} => diff.repos = {} /\ diff.impacted = HashImpacted
    /\ diff.repos # {} =>
          \A l \in Rdeps(diff.dependsOn, diff.repos) :
              InMain(l) /\ l \in DOMAIN diff.to.hashes => l \in diff.impacted

InOrder ==
    \A i, j \in DOMAIN diff.measured, m, n \in DOMAIN diff.labels :
        diff.measured[i] = diff.labels[m] /\ diff.measured[j] = diff.labels[n] => (i < j <=> m < n)

\* The lists once they are answered.
Listed ==
    /\ "distances" \notin diff.failed
    /\ Members(diff.labels) = {l \in Candidates(diff.impacted) : Wanted(l)}
    /\ Members(diff.measured) = Members(diff.labels) \cap DOMAIN diff.to.hashes
    /\ InOrder

CompareInv ==
    Comparing =>
        /\ DOMAIN diff = Fields /\ LabelsKnown
        /\ diff.stage \in {"read", "error", "query", "filter", "answered"}
        /\ diff.impacted \subseteq AllLabels
        /\ diff.stage = "query" => diff.impacted = HashImpacted /\ ChangedRepos # {}
        /\ diff.stage \in {"filter", "answered"} => Widened
        /\ diff.stage = "answered" /\ "labels" \notin diff.failed => Listed

SameFiles ==
    /\ diff'.from = diff.from /\ diff'.to = diff.to /\ diff'.dependsOn = diff.dependsOn
    /\ diff'.types = diff.types /\ diff'.excludeExternal = diff.excludeExternal

LEMMA SameFilesFacts ==
    ASSUME SameFiles
    PROVE  /\ AllLabels' = AllLabels /\ HashImpacted' = HashImpacted /\ ChangedRepos' = ChangedRepos
           /\ LabelsKnown => LabelsKnown'
<1>1. AllLabels' = AllLabels
  BY DEF AllLabels, SameFiles
<1>2. HashImpacted' = HashImpacted
  BY DEF HashImpacted, Moved, SameFiles
<1>3. HashedRepos' = HashedRepos
  BY DEF HashedRepos, HasCanonical, SameFiles
<1>4. ChangedModules' = ChangedModules
  BY DEF ChangedModules, Modules, SameFiles
<1>5. ChangedRepos' = ChangedRepos
  BY <1>3, <1>4 DEF ChangedRepos, IsBaseFor
<1>6. LabelsKnown => LabelsKnown'
  BY <1>1 DEF LabelsKnown
<1> QED BY <1>1, <1>2, <1>5, <1>6

LEMMA CompareStarts == CompareInit => CompareInv
<1> SUFFICES ASSUME CompareInit PROVE CompareInv
  OBVIOUS
<1>1. PICK c \in Comparisons : diff = Compare(c)
  BY DEF CompareInit
<1>2. /\ DOMAIN diff = Fields /\ diff.stage = "read" /\ diff.impacted = {}
      /\ diff.from = Read(c.from) /\ diff.to = Read(c.to) /\ diff.dependsOn = c.dependsOn
  BY <1>1 DEF Compare, Fields
<1>3. DOMAIN Read(c.from).hashes = DOMAIN c.from.hashes /\ DOMAIN Read(c.to).hashes = DOMAIN c.to.hashes
  BY DEF Read
<1>4. AllLabels = LabelsOf(c)
  BY <1>2, <1>3 DEF AllLabels, LabelsOf
<1>5. LabelsKnown
  BY <1>4, ComparisonsAssumption DEF LabelsKnown
<1> QED BY <1>2, <1>5 DEF CompareInv

LEMMA HashDiffSound ==
    ASSUME CompareInv, HashDiff
    PROVE  CompareInv'
<1>1. DOMAIN diff = Fields /\ LabelsKnown /\ diff.impacted \subseteq AllLabels
  BY DEF CompareInv, HashDiff
<1>2. HashImpacted \subseteq AllLabels
  BY DEF HashImpacted, Moved, AllLabels
<1>3. CASE diff' = [diff EXCEPT !.stage = "error"]
  <2>1. DOMAIN diff' = Fields /\ SameFiles /\ diff'.stage = "error" /\ diff'.impacted = diff.impacted
    BY <1>1, <1>3 DEF Fields, SameFiles
  <2> QED BY <1>1, <2>1, SameFilesFacts DEF CompareInv
<1> DEFINE unchanged == \/ diff.from.graph = diff.to.graph
                        \/ NoGraph \in {diff.from.graph, diff.to.graph}
                        \/ ChangedRepos = {}
<1>4. CASE diff' = [diff EXCEPT !.impacted = HashImpacted,
                                !.repos = IF unchanged THEN {} ELSE ChangedRepos,
                                !.stage = IF unchanged THEN "filter" ELSE "query"]
  <2> HIDE DEF unchanged
  <2>1. /\ DOMAIN diff' = Fields /\ SameFiles /\ diff'.impacted = HashImpacted
        /\ diff'.repos = (IF unchanged THEN {} ELSE ChangedRepos)
        /\ diff'.stage = (IF unchanged THEN "filter" ELSE "query")
    BY <1>1, <1>4 DEF Fields, SameFiles
  <2>2. /\ AllLabels' = AllLabels /\ HashImpacted' = HashImpacted /\ ChangedRepos' = ChangedRepos
        /\ LabelsKnown'
    BY <1>1, <2>1, SameFilesFacts
  <2>3. CASE unchanged
    <3>1. diff'.stage = "filter" /\ diff'.repos = {}
      BY <2>1, <2>3
    <3>2. Widened'
      BY <2>1, <2>2, <3>1 DEF Widened
    <3> QED BY <1>2, <2>1, <2>2, <3>1, <3>2 DEF CompareInv
  <2>4. CASE ~unchanged
    <3>1. diff'.stage = "query" /\ ChangedRepos # {}
      BY <2>1, <2>4 DEF unchanged
    <3> QED BY <1>2, <2>1, <2>2, <3>1 DEF CompareInv
  <2> QED BY <2>3, <2>4
<1> QED BY <1>3, <1>4 DEF HashDiff

LEMMA QuerySound ==
    ASSUME CompareInv, QueryDependents
    PROVE  CompareInv'
<1>1. /\ DOMAIN diff = Fields /\ LabelsKnown /\ diff.impacted = HashImpacted /\ ChangedRepos # {}
      /\ diff.impacted \subseteq AllLabels
  BY DEF CompareInv, QueryDependents
<1>2. ModuleUsers \subseteq AllLabels
  BY DEF ModuleUsers, Rdeps, AllLabels
<1>3. Conservative \subseteq AllLabels
  BY DEF Conservative, WorkspaceTargets, AllLabels
<1>4. ASSUME NEW more, diff' = [diff EXCEPT !.stage = "filter", !.impacted = @ \cup more],
             more \subseteq AllLabels,
             \A l \in Rdeps(diff.dependsOn, diff.repos) :
                 InMain(l) /\ l \in DOMAIN diff.to.hashes => l \in more
      PROVE  CompareInv'
  <2>1. /\ DOMAIN diff' = Fields /\ SameFiles /\ diff'.stage = "filter"
        /\ diff'.impacted = diff.impacted \cup more /\ diff'.repos = diff.repos
    BY <1>1, <1>4 DEF Fields, SameFiles
  <2>2. /\ AllLabels' = AllLabels /\ HashImpacted' = HashImpacted /\ ChangedRepos' = ChangedRepos
        /\ LabelsKnown'
    BY <1>1, <2>1, SameFilesFacts
  <2>3. Rdeps(diff.dependsOn, diff.repos)' = Rdeps(diff.dependsOn, diff.repos)
    BY <2>1 DEF SameFiles
  <2>4. Widened'
    BY <1>1, <1>4, <2>1, <2>2, <2>3 DEF Widened, SameFiles
  <2> QED BY <1>1, <1>4, <2>1, <2>2, <2>4 DEF CompareInv
<1>5. \A l \in Rdeps(diff.dependsOn, diff.repos) : InMain(l) => l \in ModuleUsers
  BY DEF ModuleUsers, InMain, HasCanonical
<1>6. \A l : InMain(l) /\ l \in DOMAIN diff.to.hashes => l \in Conservative
  BY DEF Conservative, WorkspaceTargets
<1>7. CASE diff' = [diff EXCEPT !.stage = "filter", !.impacted = @ \cup ModuleUsers]
  BY <1>2, <1>4, <1>5, <1>7, Zenon
<1>8. CASE diff' = [diff EXCEPT !.stage = "filter", !.impacted = @ \cup Conservative]
  BY <1>3, <1>4, <1>6, <1>8, Zenon
<1> QED BY <1>7, <1>8 DEF QueryDependents

\* kind_rank and the label order the labels totally.
RankOrder(S) == {p \in S \X S : Before(p[1], p[2])}

LEMMA RanksOrder ==
    ASSUME LabelsKnown, NEW S, S \subseteq AllLabels
    PROVE  IsFiniteSet(S) /\ Orders(RankOrder(S), S)
<1>1. IsFiniteSet(S)
  BY FS_Subset DEF LabelsKnown
<1>2. \A l : Rank(l) \in Nat
  BY DEF Rank
<1>3. \A l \in S : l.name \in Nat
  BY DEF LabelsKnown
<1>4. \A l, m \in S : l.name = m.name => l = m
  BY DEF LabelsKnown
<1>5. \A x, y \in S : <<x, y>> \in RankOrder(S) <=> Before(x, y)
  BY DEF RankOrder
<1>6. \A x \in S : ~Before(x, x)
  BY <1>2, <1>3 DEF Before
<1>7. ASSUME NEW x \in S, NEW y \in S, x # y PROVE Before(x, y) \/ Before(y, x)
  <2>1. x.name # y.name /\ x.name \in Nat /\ y.name \in Nat
    BY <1>3, <1>4, <1>7
  <2>2. Rank(x) \in Nat /\ Rank(y) \in Nat
    BY <1>2
  <2> QED BY <2>1, <2>2 DEF Before
<1>8. ASSUME NEW x \in S, NEW y \in S, NEW z \in S, Before(x, y), Before(y, z) PROVE Before(x, z)
  <2>1. x.name \in Nat /\ y.name \in Nat /\ z.name \in Nat
    BY <1>3
  <2>2. Rank(x) \in Nat /\ Rank(y) \in Nat /\ Rank(z) \in Nat
    BY <1>2
  <2> QED BY <1>8, <2>1, <2>2 DEF Before
<1>9. Orders(RankOrder(S), S)
  BY <1>5, <1>6, <1>7, <1>8 DEF Orders
<1> QED BY <1>1, <1>9

LEMMA RankedFacts ==
    ASSUME LabelsKnown, NEW S, S \subseteq AllLabels
    PROVE  /\ Members(Ranked(S)) = {l \in S : Wanted(l)}
           /\ \A i, j \in DOMAIN Ranked(S) : i < j <=> Before(Ranked(S)[i], Ranked(S)[j])
<1> DEFINE W == {l \in S : Wanted(l)}
           s == Ranked(S)
<1>1. W \subseteq AllLabels
  OBVIOUS
<1>2. s = Sorted(W, RankOrder(W))
  BY DEF Ranked, RankOrder
<1> HIDE DEF W, s
<1>3. IsFiniteSet(W) /\ Orders(RankOrder(W), W)
  BY <1>1, RanksOrder
<1>4. /\ Members(s) = W /\ DOMAIN s = 1 .. Len(s)
      /\ \A i, j \in DOMAIN s : i < j <=> <<s[i], s[j]>> \in RankOrder(W)
  BY <1>2, <1>3, SortedFacts
<1>5. \A i \in DOMAIN s : s[i] \in W
  BY <1>4 DEF Members
<1>6. \A x, y \in W : <<x, y>> \in RankOrder(W) <=> Before(x, y)
  BY DEF RankOrder
<1>7. \A i, j \in DOMAIN s : i < j <=> Before(s[i], s[j])
  BY <1>4, <1>5, <1>6, Zenon
<1> QED BY <1>4, <1>7 DEF W, s

LEMMA AnswerSound ==
    ASSUME CompareInv, Answer
    PROVE  CompareInv'
<1> DEFINE labels == Candidates(diff.impacted)
           measured == Candidates(Moved(DistanceFrom, diff.to.hashes))
<1>1. /\ DOMAIN diff = Fields /\ LabelsKnown /\ diff.impacted \subseteq AllLabels /\ Widened
  BY DEF CompareInv, Answer
<1>2. diff' = [diff EXCEPT
              !.stage = "answered",
              !.failed = {c \in {"labels", "distances"} :
                             Failing(IF c = "labels" THEN labels ELSE measured)},
              !.labels = IF Failing(labels) THEN <<>> ELSE Ranked(labels),
              !.measured = IF Failing(measured) THEN <<>> ELSE Ranked(measured)]
  BY DEF Answer
<1>3. Moved(DistanceFrom, diff.to.hashes) = diff.impacted \cap DOMAIN diff.to.hashes
  <2>1. HashImpacted \subseteq diff.impacted
    BY <1>1 DEF Widened
  <2>2. \A l : l \in HashImpacted <=>
           l \in DOMAIN diff.to.hashes
             /\ (l \notin DOMAIN diff.from.hashes \/ diff.from.hashes[l] # diff.to.hashes[l])
    BY DEF HashImpacted, Moved
  <2>3. DOMAIN DistanceFrom = DOMAIN diff.from.hashes \ (diff.impacted \ HashImpacted)
        /\ \A l \in DOMAIN DistanceFrom : DistanceFrom[l] = diff.from.hashes[l]
    BY DEF DistanceFrom
  <2> QED BY <2>1, <2>2, <2>3 DEF Moved
<1>4. measured = labels \cap DOMAIN diff.to.hashes
  BY <1>3 DEF Candidates
<1>5. labels \subseteq AllLabels /\ measured \subseteq labels /\ measured \subseteq AllLabels
  BY <1>1, <1>4 DEF Candidates
<1> HIDE DEF labels, measured
<1>6. Failing(measured) => Failing(labels)
  BY <1>5 DEF Failing
<1>7. /\ DOMAIN diff' = Fields /\ SameFiles /\ diff'.stage = "answered"
      /\ diff'.impacted = diff.impacted /\ diff'.repos = diff.repos
      /\ diff'.failed = {c \in {"labels", "distances"} :
                             Failing(IF c = "labels" THEN labels ELSE measured)}
      /\ diff'.labels = (IF Failing(labels) THEN <<>> ELSE Ranked(labels))
      /\ diff'.measured = (IF Failing(measured) THEN <<>> ELSE Ranked(measured))
  BY <1>1, <1>2 DEF Fields, SameFiles
<1>8. /\ AllLabels' = AllLabels /\ HashImpacted' = HashImpacted /\ ChangedRepos' = ChangedRepos
      /\ LabelsKnown'
  BY <1>1, <1>7, SameFilesFacts
<1>9. Widened'
  BY <1>1, <1>7, <1>8 DEF Widened, SameFiles
<1>10. ASSUME "labels" \notin diff'.failed PROVE Listed'
  <2>1. ~Failing(labels) /\ ~Failing(measured)
    BY <1>6, <1>7, <1>10
  <2>2. "distances" \notin diff'.failed /\ diff'.labels = Ranked(labels) /\ diff'.measured = Ranked(measured)
    BY <1>7, <2>1
  <2>3. /\ Members(Ranked(labels)) = {l \in labels : Wanted(l)}
        /\ \A i, j \in DOMAIN Ranked(labels) : i < j <=> Before(Ranked(labels)[i], Ranked(labels)[j])
        /\ Members(Ranked(measured)) = {l \in measured : Wanted(l)}
        /\ \A i, j \in DOMAIN Ranked(measured) :
              i < j <=> Before(Ranked(measured)[i], Ranked(measured)[j])
    BY <1>1, <1>5, RankedFacts
  <2>4. Candidates(diff.impacted)' = labels
    BY <1>7 DEF labels, Candidates, SameFiles
  <2>5. \A l : Wanted(l)' <=> Wanted(l)
    BY <1>7 DEF Wanted, SameFiles
  <2>6. Members(diff.labels)' = {l \in Candidates(diff.impacted) : Wanted(l)}'
    BY <2>2, <2>3, <2>4, <2>5
  <2>7. (Members(diff.measured) = Members(diff.labels) \cap DOMAIN diff.to.hashes)'
    BY <1>4, <1>7, <2>2, <2>3, Zenon DEF SameFiles
  <2>8. InOrder'
    <3> DEFINE s == Ranked(labels)
               t == Ranked(measured)
    <3>1. \A i, j \in DOMAIN t, m, n \in DOMAIN s : t[i] = s[m] /\ t[j] = s[n] => (i < j <=> m < n)
      <4> SUFFICES ASSUME NEW i \in DOMAIN t, NEW j \in DOMAIN t, NEW m \in DOMAIN s,
                          NEW n \in DOMAIN s, t[i] = s[m], t[j] = s[n]
                   PROVE  i < j <=> m < n
        OBVIOUS
      <4>1. i < j <=> Before(t[i], t[j])
        BY <2>3
      <4>2. m < n <=> Before(s[m], s[n])
        BY <2>3
      <4> HIDE DEF s, t
      <4> QED BY <4>1, <4>2
    <3> QED BY <2>2, <3>1 DEF InOrder
  <2> QED BY <2>2, <2>6, <2>7, <2>8 DEF Listed
<1> QED BY <1>1, <1>7, <1>8, <1>9, <1>10 DEF CompareInv

LEMMA CompareStepSound == CompareInv /\ [CompareNext]_diff => CompareInv'
<1> SUFFICES ASSUME CompareInv, [CompareNext]_diff PROVE CompareInv'
  OBVIOUS
<1>1. CASE HashDiff
  BY <1>1, HashDiffSound
<1>2. CASE QueryDependents
  BY <1>2, QuerySound
<1>3. CASE Answer
  BY <1>3, AnswerSound
<1>4. CASE UNCHANGED diff
  <2>1. SameFiles
    BY <1>4 DEF SameFiles
  <2>2. /\ AllLabels' = AllLabels /\ HashImpacted' = HashImpacted /\ ChangedRepos' = ChangedRepos
        /\ LabelsKnown => LabelsKnown'
    BY <2>1, SameFilesFacts
  <2>3. Widened => Widened'
    BY <1>4, <2>2 DEF Widened
  <2>4. Listed => Listed'
    BY <1>4 DEF Listed, InOrder, Candidates, Wanted
  <2> QED BY <1>4, <2>2, <2>3, <2>4 DEF CompareInv, Comparing
<1> QED BY <1>1, <1>2, <1>3, <1>4 DEF CompareNext

\* impacted_with_module_query, for any two hash files, module graphs and
\* dependencies: whichever way the query ends, no target whose hash moved is
\* lost, every workspace target that depends on a repository of a changed
\* module is reported, and nothing else when no module changed.
THEOREM ModuleImpactCorrect == CompareSpec => []ModuleImpactExact
<1>1. CompareInv => ModuleImpactExact
  <2> SUFFICES ASSUME CompareInv, GotAnswer PROVE ModuleImpactExact
    BY DEF ModuleImpactExact, ModuleBumpReachesDependents, HashDiffKept
  <2>1. Widened /\ Listed
    BY DEF CompareInv, GotAnswer
  <2>2. \A l : l \in diff.impacted /\ Asked(l) => l \in Members(diff.labels)
    BY <2>1 DEF Listed, Asked, Candidates
  <2>3. Members(diff.labels) \subseteq diff.impacted
    BY <2>1 DEF Listed, Candidates
  <2>4. ModuleBumpReachesDependents
    BY <2>1, <2>2 DEF ModuleBumpReachesDependents, Widened
  <2>5. HashDiffKept
    BY <2>1, <2>2, <2>3 DEF HashDiffKept, Widened
  <2> QED BY <2>4, <2>5 DEF ModuleImpactExact
<1> QED BY <1>1, CompareStarts, CompareStepSound, PTL DEF CompareSpec

\* filter_and_sort_labels and impacted_targets_with_distances list the same
\* targets of the final hash file, in the same order, for any hash files,
\* module graphs and filters.
THEOREM CommandsAgree == CompareSpec => []AnswersAgree
<1>1. CompareInv => AnswersAgree
  BY DEF CompareInv, GotAnswer, Listed, InOrder, AnswersAgree
<1> QED BY <1>1, CompareStarts, CompareStepSound, PTL DEF CompareSpec
=============================================================================
