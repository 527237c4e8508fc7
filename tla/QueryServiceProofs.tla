------------------------- MODULE QueryServiceProofs -------------------------
(***************************************************************************)
(* The server, for any number of queries, keys and sizes.  Its memory      *)
(* tier: the bytes it counts are those of the entries it holds, which are  *)
(* the last used ones.  And the life of a query: the workspace is          *)
(* exclusive, the count of active queries is exact, and the service        *)
(* implements QueryPromise.                                                *)
(***************************************************************************)
EXTENDS QueryService, MemoryCache, FiniteSetTheorems, TLAPS

-----------------------------------------------------------------------------
(* Induction over the natural numbers for sets.                            *)

LEMMA LeastNumber ==
    ASSUME NEW T, T \subseteq Nat, T # {}
    PROVE  \E n \in T : \A m \in T : n <= m
<1> DEFINE R == OpToRel(<, Nat)
<1>1. IsWellFoundedOn(R, Nat)
  BY NatLessThanWellFounded, Zenon
<1>2. \A m, k \in Nat : m < k => <<m, k>> \in R
  BY DEF OpToRel
<1> HIDE DEF R
<1>3. PICK n \in T : \A m \in T : ~(<<m, n>> \in R)
  BY <1>1, WFMin, Zenon
<1>4. \A m \in T : ~(m < n)
  BY <1>2, <1>3, Zenon
<1> QED BY <1>4

LEMMA SetInduction ==
    ASSUME NEW S, 0 \in S, \A n \in Nat : n \in S => n + 1 \in S
    PROVE  \A n \in Nat : n \in S
<1> DEFINE T == {n \in Nat : n \notin S}
<1> SUFFICES ASSUME T # {} PROVE FALSE
  OBVIOUS
<1>1. PICK n \in T : \A m \in T : n <= m
  BY LeastNumber, Zenon
<1>2. n # 0 /\ n - 1 \in Nat /\ n - 1 \notin T
  BY <1>1
<1>3. n - 1 \in S
  BY <1>2
<1>4. (n - 1) + 1 \in S
  BY <1>2, <1>3
<1> QED BY <1>1, <1>4

-----------------------------------------------------------------------------
(* MemoryCache.  The bytes of a list are a recursive function of its       *)
(* length, so what removing, appending and popping do to them is shown by  *)
(* induction; the list of entries is a suffix of the entries by last use.  *)

Lists == Seq(MemoryKeys \X Sizes)

\* The least number of a non-empty set.
LEMMA MinFacts ==
    ASSUME NEW T, T \subseteq Nat, T # {}
    PROVE  Min(T) \in T /\ \A m \in T : Min(T) <= m
  BY LeastNumber, Zenon DEF Min

IsSum(f, s, n) ==
    /\ f \in [0 .. n -> Nat]
    /\ f[0] = 0
    /\ \A k \in 1 .. n : f[k] = f[k - 1] + s[k][2]

LEMMA ListFacts ==
    ASSUME NEW s \in Lists
    PROVE  /\ Len(s) \in Nat /\ DOMAIN s = 1 .. Len(s)
           /\ \A i \in 1 .. Len(s) : s[i] \in MemoryKeys \X Sizes /\ s[i][2] \in Nat
<1>1. Len(s) \in Nat /\ DOMAIN s = 1 .. Len(s)
  BY DEF Lists
<1>2. ASSUME NEW i \in 1 .. Len(s) PROVE s[i] \in MemoryKeys \X Sizes
  BY DEF Lists
<1>3. ASSUME NEW i \in 1 .. Len(s) PROVE s[i][2] \in Nat
  BY <1>2, MemoryAssumption, Zenon
<1> QED BY <1>1, <1>2, <1>3

\* The sums of the sizes exist.
LEMMA ByteSumExists ==
    ASSUME NEW s \in Lists
    PROVE  \E f : IsSum(f, s, Len(s))
<1> DEFINE S == {n \in Nat : n <= Len(s) => \E f : IsSum(f, s, n)}
<1>1. 0 \in S
  <2> DEFINE f == [k \in 0 .. 0 |-> 0]
  <2>1. f \in [0 .. 0 -> Nat] /\ f[0] = 0
    OBVIOUS
  <2> HIDE DEF f
  <2>2. IsSum(f, s, 0)
    BY <2>1 DEF IsSum
  <2> QED BY <2>2
<1>2. ASSUME NEW n \in Nat, n \in S
      PROVE  n + 1 \in S
  <2> SUFFICES ASSUME n + 1 <= Len(s) PROVE \E f : IsSum(f, s, n + 1)
    OBVIOUS
  <2>1. PICK f : IsSum(f, s, n)
    BY <1>2, ListFacts
  <2>2. f[n] \in Nat /\ s[n + 1][2] \in Nat
    BY <2>1, ListFacts DEF IsSum
  <2> DEFINE g == [k \in 0 .. n + 1 |-> IF k = n + 1 THEN f[n] + s[n + 1][2] ELSE f[k]]
  <2>3. g \in [0 .. n + 1 -> Nat]
    BY <2>1, <2>2 DEF IsSum
  <2>4. g[n + 1] = f[n] + s[n + 1][2] /\ \A k \in 0 .. n : g[k] = f[k]
    OBVIOUS
  <2> HIDE DEF g
  <2>5. ASSUME NEW k \in 1 .. n + 1 PROVE g[k] = g[k - 1] + s[k][2]
    <3>1. CASE k = n + 1
      BY <2>4, <3>1
    <3>2. CASE k # n + 1
      <4>1. k \in 1 .. n /\ k \in 0 .. n /\ k - 1 \in 0 .. n
        BY <3>2
      <4>2. f[k] = f[k - 1] + s[k][2]
        BY <2>1, <4>1 DEF IsSum
      <4> QED BY <2>4, <4>1, <4>2
    <3> QED BY <3>1, <3>2
  <2>6. g[0] = 0
    BY <2>1, <2>4 DEF IsSum
  <2>7. IsSum(g, s, n + 1)
    BY <2>3, <2>5, <2>6, SMTT(30) DEF IsSum
  <2> QED BY <2>7
<1> HIDE DEF S
<1>3. \A n \in Nat : n \in S
  BY <1>1, <1>2, SetInduction
<1>4. Len(s) \in S
  BY <1>3, ListFacts
<1> QED BY <1>4, ListFacts DEF S

LEMMA BytesAreSums ==
    ASSUME NEW s \in Lists
    PROVE  IsSum(BytesUpTo(s), s, Len(s))
<1> DEFINE F(g) == [n \in 0 .. Len(s) |-> IF n = 0 THEN 0 ELSE g[n - 1] + s[n][2]]
<1>1. PICK f : IsSum(f, s, Len(s))
  BY ByteSumExists
<1>2. f = F(f)
  <2>1. ASSUME NEW n \in 0 .. Len(s)
        PROVE  f[n] = IF n = 0 THEN 0 ELSE f[n - 1] + s[n][2]
    BY <1>1, ListFacts DEF IsSum
  <2>2. f \in [0 .. Len(s) -> Nat]
    BY <1>1 DEF IsSum
  <2> QED BY <2>1, <2>2
<1>3. BytesUpTo(s) = CHOOSE g : g = F(g)
  BY DEF BytesUpTo
<1>4. BytesUpTo(s) = F(BytesUpTo(s))
  <2> HIDE DEF F
  <2> QED BY <1>2, <1>3
<1> DEFINE g == BytesUpTo(s)
<1>5. \A n \in 0 .. Len(s) : g[n] = IF n = 0 THEN 0 ELSE g[n - 1] + s[n][2]
  <2> HIDE DEF g
  <2>1. g = F(g)
    BY <1>4 DEF g
  <2> QED BY <2>1
<1>6. g[0] = 0
  BY <1>5, ListFacts
<1>7. \A n \in 1 .. Len(s) : g[n] = g[n - 1] + s[n][2]
  BY <1>5, ListFacts
<1>8. DOMAIN g = 0 .. Len(s) /\ g = [n \in 0 .. Len(s) |-> g[n]]
  <2> HIDE DEF g
  <2>1. g = F(g)
    BY <1>4 DEF g
  <2> QED BY <2>1
<1> HIDE DEF g
<1>9. \A n \in Nat : n \in {m \in Nat : m <= Len(s) => g[m] \in Nat}
  <2> DEFINE S == {m \in Nat : m <= Len(s) => g[m] \in Nat}
  <2>1. 0 \in S
    BY <1>6
  <2>2. ASSUME NEW n \in Nat, n \in S PROVE n + 1 \in S
    <3> SUFFICES ASSUME n + 1 <= Len(s) PROVE g[n + 1] \in Nat
      OBVIOUS
    <3>1. g[n] \in Nat /\ n + 1 \in 1 .. Len(s) /\ (n + 1) - 1 = n
      BY <2>2, ListFacts
    <3>2. g[n + 1] = g[n] + s[n + 1][2]
      BY <1>7, <3>1
    <3> QED BY <3>1, <3>2, ListFacts
  <2> HIDE DEF S
  <2>3. \A n \in Nat : n \in S
    BY <2>1, <2>2, SetInduction
  <2> QED BY <2>3 DEF S
<1>10. g \in [0 .. Len(s) -> Nat]
  BY <1>8, <1>9
<1> QED BY <1>6, <1>7, <1>10 DEF IsSum, g

\* Stretches of two lists with the same entries have the same bytes.
SameRun(s, a, t, b, m) ==
    /\ a + m <= Len(s) /\ b + m <= Len(t)
    /\ \A k \in 1 .. m : s[a + k] = t[b + k]

Between(s, i, j) == BytesUpTo(s)[j] - BytesUpTo(s)[i]

LEMMA SameStretch ==
    ASSUME NEW s \in Lists, NEW t \in Lists, NEW a \in Nat, NEW b \in Nat, NEW m \in Nat,
           SameRun(s, a, t, b, m)
    PROVE  Between(s, a, a + m) = Between(t, b, b + m)
<1> DEFINE f == BytesUpTo(s)
           g == BytesUpTo(t)
           S == {n \in Nat : n <= m => f[a + n] - f[a] = g[b + n] - g[b]}
<1>1. IsSum(f, s, Len(s)) /\ IsSum(g, t, Len(t))
  BY BytesAreSums
<1>2. Len(s) \in Nat /\ Len(t) \in Nat
  BY ListFacts
<1> HIDE DEF f, g
<1>3. /\ \A k \in 0 .. Len(s) : f[k] \in Nat
      /\ \A k \in 0 .. Len(t) : g[k] \in Nat
  BY <1>1, Zenon DEF IsSum
<1>4. f[a] \in Nat /\ g[b] \in Nat
  BY <1>2, <1>3 DEF SameRun
<1>5. 0 \in S
  BY <1>4
<1>6. ASSUME NEW n \in Nat, n \in S PROVE n + 1 \in S
  <2> SUFFICES ASSUME n + 1 <= m
               PROVE  f[a + (n + 1)] - f[a] = g[b + (n + 1)] - g[b]
    OBVIOUS
  <2>1. f[a + n] - f[a] = g[b + n] - g[b]
    BY <1>6
  <2>2. s[a + (n + 1)] = t[b + (n + 1)]
    <3>1. n + 1 \in 1 .. m
      OBVIOUS
    <3> QED BY <3>1, Zenon DEF SameRun
  <2>3. a + (n + 1) \in 1 .. Len(s) /\ b + (n + 1) \in 1 .. Len(t)
    BY <1>2 DEF SameRun
  <2>4. (a + (n + 1)) - 1 = a + n /\ (b + (n + 1)) - 1 = b + n
    OBVIOUS
  <2>5. /\ f[a + (n + 1)] = f[a + n] + s[a + (n + 1)][2]
        /\ g[b + (n + 1)] = g[b + n] + s[a + (n + 1)][2]
    BY <1>1, <2>2, <2>3, <2>4, SMTT(30) DEF IsSum
  <2>6. f[a + n] \in Nat /\ g[b + n] \in Nat
    BY <1>2, <1>3 DEF SameRun
  <2>7. s[a + (n + 1)][2] \in Nat
    BY <2>3, ListFacts
  <2>8. PICK x \in Nat : x = s[a + (n + 1)][2]
    BY <2>7
  <2>9. f[a + (n + 1)] = f[a + n] + x /\ g[b + (n + 1)] = g[b + n] + x
    BY <2>5, <2>8, Zenon
  <2> QED BY <1>4, <2>1, <2>6, <2>9
<1> HIDE DEF S
<1>7. \A n \in Nat : n \in S
  BY <1>5, <1>6, SetInduction
<1> QED BY <1>7 DEF S, f, g, Between

LEMMA ListIs ==
    ASSUME NEW n \in Nat, NEW t \in [1 .. n -> MemoryKeys \X Sizes]
    PROVE  t \in Lists /\ Len(t) = n
  BY DEF Lists

LEMMA BytesFacts ==
    ASSUME NEW s \in Lists
    PROVE  /\ BytesUpTo(s)[0] = 0 /\ Bytes(s) \in Nat /\ Bytes(s) = BytesUpTo(s)[Len(s)]
           /\ \A n \in 0 .. Len(s) : BytesUpTo(s)[n] \in Nat
           /\ \A n \in 1 .. Len(s) : BytesUpTo(s)[n] = BytesUpTo(s)[n - 1] + s[n][2]
  BY BytesAreSums, ListFacts DEF IsSum, Bytes

LEMMA AppendFacts ==
    ASSUME NEW s \in Lists, NEW e \in MemoryKeys \X Sizes
    PROVE  /\ Append(s, e) \in Lists /\ Len(Append(s, e)) = Len(s) + 1
           /\ \A i \in 1 .. Len(s) : Append(s, e)[i] = s[i]
           /\ Append(s, e)[Len(s) + 1] = e
           /\ Bytes(Append(s, e)) = Bytes(s) + e[2]
<1> DEFINE t == Append(s, e)
<1>1. t \in Lists /\ Len(t) = Len(s) + 1 /\ t[Len(s) + 1] = e /\ \A i \in 1 .. Len(s) : t[i] = s[i]
  BY DEF Lists
<1> HIDE DEF t
<1>2. Len(s) \in Nat
  BY ListFacts
<1>3. BytesUpTo(t)[Len(s)] - BytesUpTo(t)[0] = BytesUpTo(s)[Len(s)] - BytesUpTo(s)[0]
  <2>1. SameRun(t, 0, s, 0, Len(s))
    BY <1>1, <1>2 DEF SameRun
  <2>2. Between(t, 0, 0 + Len(s)) = Between(s, 0, 0 + Len(s))
    BY <1>1, <1>2, <2>1, SameStretch
  <2>3. 0 + Len(s) = Len(s)
    BY <1>2
  <2> QED BY <2>2, <2>3 DEF Between
<1>4. BytesUpTo(t)[Len(s)] = BytesUpTo(s)[Len(s)]
  <2>1. Len(s) \in 0 .. Len(t)
    BY <1>1, <1>2
  <2>2. BytesUpTo(t)[Len(s)] \in Nat /\ BytesUpTo(s)[Len(s)] \in Nat
    BY <1>1, <1>2, <2>1, BytesFacts
  <2> QED BY <1>1, <1>2, <1>3, <2>2, BytesFacts
<1>5. BytesUpTo(t)[Len(s) + 1] = BytesUpTo(t)[Len(s)] + e[2]
  <2>1. Len(s) + 1 \in 1 .. Len(t) /\ (Len(s) + 1) - 1 = Len(s)
    BY <1>1, <1>2
  <2> QED BY <1>1, <2>1, BytesFacts
<1>6. Bytes(t) = Bytes(s) + e[2]
  BY <1>1, <1>4, <1>5 DEF Bytes
<1> QED BY <1>1, <1>6 DEF t

LEMMA RemovedFacts ==
    ASSUME NEW s \in Lists, NEW p \in 1 .. Len(s)
    PROVE  /\ Removed(s, p) \in Lists /\ Len(Removed(s, p)) = Len(s) - 1
           /\ \A j \in 1 .. Len(s) - 1 : Removed(s, p)[j] = IF j < p THEN s[j] ELSE s[j + 1]
           /\ Bytes(Removed(s, p)) = Bytes(s) - s[p][2]
<1> DEFINE t == Removed(s, p)
<1>1. Len(s) \in Nat /\ Len(s) - 1 \in Nat
  BY ListFacts
<1>2. ASSUME NEW j \in 1 .. Len(s) - 1
      PROVE  t[j] = (IF j < p THEN s[j] ELSE s[j + 1]) /\ t[j] \in MemoryKeys \X Sizes
  <2>1. j \in 1 .. Len(s) /\ j + 1 \in 1 .. Len(s)
    BY <1>1
  <2> QED BY <2>1, ListFacts DEF Removed
<1>3. t \in [1 .. Len(s) - 1 -> MemoryKeys \X Sizes]
  <2>1. t = [j \in 1 .. Len(s) - 1 |-> IF j < p THEN s[j] ELSE s[j + 1]]
    BY DEF Removed
  <2> HIDE DEF t
  <2> QED BY <1>2, <2>1
<1> HIDE DEF t
<1>4. t \in Lists /\ Len(t) = Len(s) - 1
  BY <1>1, <1>3, ListIs
<1> DEFINE f == BytesUpTo(s)
           g == BytesUpTo(t)
           m == Len(s) - p
<1>5. m \in Nat /\ p - 1 \in Nat /\ p \in Nat
  BY <1>1
<1>6. f[p - 1] - f[0] = g[p - 1] - g[0]
  <2>1. SameRun(s, 0, t, 0, p - 1)
    BY <1>1, <1>2, <1>4, <1>5, SMTT(30) DEF SameRun
  <2>2. Between(s, 0, 0 + (p - 1)) = Between(t, 0, 0 + (p - 1))
    BY <1>4, <1>5, <2>1, SameStretch
  <2>3. 0 + (p - 1) = p - 1
    OBVIOUS
  <2> QED BY <2>2, <2>3 DEF Between
<1>7. f[Len(s)] - f[p] = g[Len(s) - 1] - g[p - 1]
  <2>1. ASSUME NEW k \in 1 .. m PROVE s[p + k] = t[(p - 1) + k]
    <3>1. (p - 1) + k \in 1 .. Len(s) - 1 /\ ~((p - 1) + k < p) /\ ((p - 1) + k) + 1 = p + k
      BY <1>1
    <3> QED BY <1>2, <3>1
  <2>2. SameRun(s, p, t, p - 1, m)
    BY <1>1, <1>4, <1>5, <2>1 DEF SameRun
  <2>3. p + m = Len(s) /\ (p - 1) + m = Len(s) - 1
    BY <1>1
  <2> HIDE DEF m
  <2>4. Between(s, p, p + m) = Between(t, p - 1, (p - 1) + m)
    BY <1>4, <1>5, <2>2, SameStretch
  <2> QED BY <2>3, <2>4 DEF Between
<1>8. f[0] = 0 /\ g[0] = 0 /\ f[p] = f[p - 1] + s[p][2]
  BY <1>4, BytesFacts, Zenon
<1>9. /\ f[p - 1] \in Nat /\ f[p] \in Nat /\ f[Len(s)] \in Nat /\ s[p][2] \in Nat
      /\ g[p - 1] \in Nat /\ g[Len(s) - 1] \in Nat
  <2>1. /\ p - 1 \in 0 .. Len(s) /\ p \in 0 .. Len(s) /\ Len(s) \in 0 .. Len(s)
        /\ p - 1 \in 0 .. Len(t) /\ Len(s) - 1 \in 0 .. Len(t)
    BY <1>1, <1>4
  <2> QED BY <1>4, <2>1, BytesFacts, ListFacts
<1>10. g[Len(s) - 1] = f[Len(s)] - s[p][2]
  <2> HIDE DEF f, g
  <2>1. PICK x \in Nat : x = s[p][2]
    BY <1>9
  <2>2. f[0] = 0 /\ g[0] = 0 /\ f[p] = f[p - 1] + x
    BY <1>8, <2>1, Zenon
  <2>3. /\ f[p - 1] \in Nat /\ f[p] \in Nat /\ f[Len(s)] \in Nat
        /\ g[p - 1] \in Nat /\ g[Len(s) - 1] \in Nat
    BY <1>9, Zenon
  <2>4. f[p - 1] = g[p - 1]
    BY <1>6, <2>2, <2>3
  <2>5. g[Len(s) - 1] = f[Len(s)] - x
    <3>1. PICK last \in Nat, rest \in Nat : last = f[Len(s)] /\ rest = g[Len(s) - 1]
      BY <2>3
    <3>2. last - f[p] = rest - g[p - 1]
      BY <1>7, <3>1, Zenon
    <3>3. rest = last - x
      BY <2>2, <2>3, <2>4, <3>2
    <3> QED BY <3>1, <3>3, Zenon
  <2> QED BY <2>1, <2>5, Zenon
<1>11. Bytes(t) = Bytes(s) - s[p][2]
  BY <1>4, <1>10 DEF Bytes
<1> QED BY <1>2, <1>4, <1>11 DEF t

LEMMA TailFacts ==
    ASSUME NEW s \in Lists, NEW n \in 0 .. Len(s)
    PROVE  /\ SubSeq(s, n + 1, Len(s)) \in Lists
           /\ Len(SubSeq(s, n + 1, Len(s))) = Len(s) - n
           /\ \A i \in 1 .. Len(s) - n : SubSeq(s, n + 1, Len(s))[i] = s[n + i]
           /\ Bytes(SubSeq(s, n + 1, Len(s))) = Bytes(s) - BytesUpTo(s)[n]
<1> DEFINE t == SubSeq(s, n + 1, Len(s))
<1>1. Len(s) \in Nat /\ n \in Nat /\ n + 1 \in Int /\ Len(s) \in Int
  BY ListFacts
<1>2. \A i \in n + 1 .. Len(s) : s[i] \in MemoryKeys \X Sizes
  BY <1>1, ListFacts
<1>3. /\ t \in Seq(MemoryKeys \X Sizes)
      /\ Len(t) = IF n + 1 <= Len(s) THEN Len(s) - (n + 1) + 1 ELSE 0
      /\ \A i \in 1 .. Len(s) - (n + 1) + 1 : t[i] = s[(n + 1) + i - 1]
  BY <1>1, <1>2
<1> HIDE DEF t
<1>4. t \in Lists /\ Len(t) = Len(s) - n
  BY <1>1, <1>3 DEF Lists
<1>5. ASSUME NEW i \in 1 .. Len(s) - n PROVE t[i] = s[n + i]
  <2>1. i \in 1 .. Len(s) - (n + 1) + 1 /\ (n + 1) + i - 1 = n + i
    BY <1>1
  <2> QED BY <1>3, <2>1
<1> DEFINE m == Len(s) - n
<1>6. m \in Nat /\ n + m = Len(s) /\ 0 + m = Len(t)
  BY <1>1, <1>4
<1>7. SameRun(t, 0, s, n, m)
  BY <1>4, <1>5, <1>6 DEF SameRun
<1>8. Between(t, 0, 0 + m) = Between(s, n, n + m)
  <2> HIDE DEF m
  <2> QED BY <1>1, <1>4, <1>6, <1>7, SameStretch
<1>9. BytesUpTo(t)[Len(t)] - BytesUpTo(t)[0] = BytesUpTo(s)[Len(s)] - BytesUpTo(s)[n]
  <2> HIDE DEF m
  <2> QED BY <1>6, <1>8 DEF Between
<1>10. Bytes(t) = Bytes(s) - BytesUpTo(s)[n]
  <2>1. /\ BytesUpTo(t)[0] = 0 /\ Bytes(t) = BytesUpTo(t)[Len(t)] /\ Bytes(t) \in Nat
        /\ Bytes(s) = BytesUpTo(s)[Len(s)] /\ Bytes(s) \in Nat /\ BytesUpTo(s)[n] \in Nat
    BY <1>1, <1>4, BytesFacts, Zenon
  <2> QED BY <1>9, <2>1
<1> QED BY <1>4, <1>5, <1>10 DEF t

Distinct(s) == \A i, j \in 1 .. Len(s) : s[i][1] = s[j][1] => i = j

IsSuffix(t, s) ==
    /\ Len(t) <= Len(s)
    /\ \A i \in 1 .. Len(t) : t[i] = s[(Len(s) - Len(t)) + i]

\* position finds the one entry of its key.
LEMMA PositionFacts ==
    ASSUME NEW s \in Lists, NEW k, Holds(s, k)
    PROVE  Position(s, k) \in 1 .. Len(s) /\ s[Position(s, k)][1] = k
<1> DEFINE T == {i \in DOMAIN s : s[i][1] = k}
<1>1. T \subseteq Nat /\ T # {}
  BY ListFacts DEF Holds
<1> HIDE DEF T
<1>2. Min(T) \in T
  BY <1>1, MinFacts, Zenon
<1> QED BY <1>2, ListFacts DEF T, Position

LEMMA PositionIs ==
    ASSUME NEW s \in Lists, Distinct(s), NEW p \in 1 .. Len(s)
    PROVE  Holds(s, s[p][1]) /\ Position(s, s[p][1]) = p
<1>1. Holds(s, s[p][1])
  BY ListFacts DEF Holds
<1> QED BY <1>1, PositionFacts DEF Distinct

LEMMA SuffixDistinct ==
    ASSUME NEW s \in Lists, NEW t \in Lists, Distinct(s), IsSuffix(t, s)
    PROVE  Distinct(t)
<1>1. Len(s) \in Nat /\ Len(t) \in Nat
  BY ListFacts
<1> DEFINE d == Len(s) - Len(t)
<1> SUFFICES ASSUME NEW i \in 1 .. Len(t), NEW j \in 1 .. Len(t), t[i][1] = t[j][1]
             PROVE  i = j
  BY DEF Distinct
<1>2. t[i] = s[d + i] /\ t[j] = s[d + j]
  BY DEF IsSuffix
<1>3. d \in Nat /\ d + i \in 1 .. Len(s) /\ d + j \in 1 .. Len(s)
  BY <1>1 DEF IsSuffix
<1> HIDE DEF d
<1>4. d + i = d + j
  BY <1>2, <1>3 DEF Distinct
<1> QED BY <1>3, <1>4

\* remove leaves the other entries, in their order.
LEMMA WithoutFacts ==
    ASSUME NEW s \in Lists, NEW k, Distinct(s)
    PROVE  /\ Without(s, k) \in Lists /\ Distinct(Without(s, k)) /\ ~Holds(Without(s, k), k)
<1>1. CASE ~Holds(s, k)
  BY <1>1 DEF Without
<1>2. CASE Holds(s, k)
  <2> DEFINE p == Position(s, k)
             t == Removed(s, p)
  <2>1. Without(s, k) = t
    BY <1>2 DEF Without
  <2>2. p \in 1 .. Len(s) /\ s[p][1] = k
    BY <1>2, PositionFacts
  <2> HIDE DEF p
  <2>3. /\ t \in Lists /\ Len(t) = Len(s) - 1
        /\ \A j \in 1 .. Len(s) - 1 : t[j] = IF j < p THEN s[j] ELSE s[j + 1]
    BY <2>2, RemovedFacts
  <2>4. Len(s) \in Nat
    BY ListFacts
  <2> HIDE DEF t
  <2> DEFINE at(j) == IF j < p THEN j ELSE j + 1
  <2>5. ASSUME NEW j \in 1 .. Len(t)
        PROVE  at(j) \in 1 .. Len(s) /\ at(j) # p /\ t[j] = s[at(j)]
    BY <2>2, <2>3, <2>4
  <2>6. ASSUME NEW i \in 1 .. Len(t), NEW j \in 1 .. Len(t), at(i) = at(j) PROVE i = j
    BY <2>2, <2>3, <2>4, <2>6
  <2> HIDE DEF at
  <2>7. Distinct(t)
    <3> SUFFICES ASSUME NEW i \in 1 .. Len(t), NEW j \in 1 .. Len(t), t[i][1] = t[j][1]
                 PROVE  i = j
      BY DEF Distinct
    <3>1. at(i) = at(j)
      BY <2>5 DEF Distinct
    <3> QED BY <2>6, <3>1
  <2>8. ~Holds(t, k)
    <3> SUFFICES ASSUME NEW j \in 1 .. Len(t), t[j][1] = k PROVE FALSE
      BY <2>3, ListFacts DEF Holds
    <3>1. at(j) = p
      BY <2>2, <2>5 DEF Distinct
    <3> QED BY <2>5, <3>1
  <2> QED BY <2>1, <2>3, <2>7, <2>8
<1> QED BY <1>1, <1>2

\* Without the same key, a suffix is still a suffix.
LEMMA WithoutSuffix ==
    ASSUME NEW s \in Lists, NEW t \in Lists, NEW k, Distinct(s), IsSuffix(t, s)
    PROVE  IsSuffix(Without(t, k), Without(s, k))
<1> DEFINE d == Len(s) - Len(t)
<1>1. Len(s) \in Nat /\ Len(t) \in Nat /\ d \in Nat
  BY ListFacts DEF IsSuffix
<1>2. \A i \in 1 .. Len(t) : t[i] = s[d + i]
  BY DEF IsSuffix
<1>3. CASE Holds(t, k)
  <2> DEFINE p == Position(t, k)
  <2>1. p \in 1 .. Len(t) /\ t[p][1] = k
    BY <1>3, PositionFacts
  <2> HIDE DEF p
  <2>2. d + p \in 1 .. Len(s) /\ s[d + p][1] = k
    BY <1>1, <1>2, <2>1
  <2>3. Holds(s, k) /\ Position(s, k) = d + p
    BY <2>2, PositionIs
  <2> DEFINE u == Removed(t, p)
             v == Removed(s, d + p)
  <2>4. Without(t, k) = u /\ Without(s, k) = v
    BY <1>3, <2>3 DEF Without, p
  <2>5. /\ Len(u) = Len(t) - 1
        /\ \A j \in 1 .. Len(t) - 1 : u[j] = IF j < p THEN t[j] ELSE t[j + 1]
    BY <2>1, RemovedFacts
  <2>6. /\ Len(v) = Len(s) - 1
        /\ \A j \in 1 .. Len(s) - 1 : v[j] = IF j < d + p THEN s[j] ELSE s[j + 1]
    BY <2>2, RemovedFacts, Zenon
  <2> HIDE DEF u, v
  <2>7. Len(u) <= Len(v) /\ Len(v) - Len(u) = d
    BY <1>1, <2>5, <2>6
  <2>8. ASSUME NEW j \in 1 .. Len(u) PROVE u[j] = v[d + j]
    <3>1. j \in 1 .. Len(t) - 1 /\ d + j \in 1 .. Len(s) - 1
      BY <1>1, <2>5
    <3>2. CASE j < p
      <4>1. d + j < d + p /\ j \in 1 .. Len(t)
        BY <1>1, <2>1, <3>1, <3>2
      <4>2. u[j] = t[j] /\ v[d + j] = s[d + j]
        BY <2>5, <2>6, <3>1, <3>2, <4>1
      <4> QED BY <1>2, <4>1, <4>2
    <3>3. CASE ~(j < p)
      <4>1. ~(d + j < d + p) /\ j + 1 \in 1 .. Len(t) /\ (d + j) + 1 = d + (j + 1)
        BY <1>1, <2>1, <3>1, <3>3
      <4>2. u[j] = t[j + 1] /\ v[d + j] = s[(d + j) + 1]
        BY <2>5, <2>6, <3>1, <3>3, <4>1, SMTT(30)
      <4> QED BY <1>2, <4>1, <4>2
    <3> QED BY <3>2, <3>3
  <2> QED BY <2>4, <2>7, <2>8 DEF IsSuffix
<1>4. CASE ~Holds(t, k) /\ Holds(s, k)
  <2> DEFINE q == Position(s, k)
             v == Removed(s, q)
  <2>1. q \in 1 .. Len(s) /\ s[q][1] = k
    BY <1>4, PositionFacts
  <2>2. Without(t, k) = t /\ Without(s, k) = v
    BY <1>4 DEF Without
  <2> HIDE DEF q
  <2>3. q <= d
    <3> SUFFICES ASSUME ~(q <= d) PROVE FALSE
      OBVIOUS
    <3>1. q - d \in 1 .. Len(t) /\ d + (q - d) = q
      BY <1>1, <2>1
    <3>2. t[q - d] = s[q]
      BY <1>2, <3>1
    <3> QED BY <1>4, <2>1, <3>1, <3>2, ListFacts DEF Holds
  <2>4. /\ Len(v) = Len(s) - 1
        /\ \A j \in 1 .. Len(s) - 1 : v[j] = IF j < q THEN s[j] ELSE s[j + 1]
    BY <2>1, RemovedFacts
  <2> HIDE DEF v
  <2>5. Len(t) <= Len(v) /\ Len(v) - Len(t) = d - 1
    BY <1>1, <2>1, <2>3, <2>4
  <2>6. ASSUME NEW j \in 1 .. Len(t) PROVE t[j] = v[(d - 1) + j]
    <3>1. (d - 1) + j \in 1 .. Len(s) - 1 /\ ~((d - 1) + j < q) /\ ((d - 1) + j) + 1 = d + j
      BY <1>1, <2>1, <2>3
    <3>2. v[(d - 1) + j] = s[d + j]
      BY <2>4, <3>1
    <3> QED BY <1>2, <3>2
  <2> QED BY <2>2, <2>5, <2>6 DEF IsSuffix
<1>5. CASE ~Holds(t, k) /\ ~Holds(s, k)
  BY <1>5 DEF Without
<1> QED BY <1>3, <1>4, <1>5

LEMMA TailSuffix ==
    ASSUME NEW s \in Lists, NEW t \in Lists, NEW n \in 0 .. Len(t), IsSuffix(t, s)
    PROVE  IsSuffix(SubSeq(t, n + 1, Len(t)), s)
<1> DEFINE d == Len(s) - Len(t)
           u == SubSeq(t, n + 1, Len(t))
<1>1. Len(s) \in Nat /\ Len(t) \in Nat /\ d \in Nat /\ n \in Nat
  BY ListFacts DEF IsSuffix
<1>2. \A i \in 1 .. Len(t) : t[i] = s[d + i]
  BY DEF IsSuffix
<1>3. Len(u) = Len(t) - n /\ \A i \in 1 .. Len(t) - n : u[i] = t[n + i]
  BY TailFacts
<1> HIDE DEF u
<1>4. Len(u) <= Len(s) /\ Len(s) - Len(u) = d + n
  BY <1>1, <1>3
<1>5. ASSUME NEW i \in 1 .. Len(u) PROVE u[i] = s[(d + n) + i]
  <2>1. n + i \in 1 .. Len(t) /\ d + (n + i) = (d + n) + i
    BY <1>1, <1>3
  <2> QED BY <1>2, <1>3, <2>1, Zenon
<1>6. IsSuffix(u, s)
  BY <1>4, <1>5 DEF IsSuffix
<1> QED BY <1>6 DEF u

LEMMA AppendSuffix ==
    ASSUME NEW s \in Lists, NEW t \in Lists, NEW e \in MemoryKeys \X Sizes, IsSuffix(t, s)
    PROVE  IsSuffix(Append(t, e), Append(s, e))
<1> DEFINE d == Len(s) - Len(t)
           u == Append(t, e)
           v == Append(s, e)
<1>1. Len(s) \in Nat /\ Len(t) \in Nat /\ d \in Nat
  BY ListFacts DEF IsSuffix
<1>2. \A i \in 1 .. Len(t) : t[i] = s[d + i]
  BY DEF IsSuffix
<1>3. /\ Len(u) = Len(t) + 1 /\ u[Len(t) + 1] = e /\ \A i \in 1 .. Len(t) : u[i] = t[i]
      /\ Len(v) = Len(s) + 1 /\ v[Len(s) + 1] = e /\ \A i \in 1 .. Len(s) : v[i] = s[i]
  BY AppendFacts
<1> HIDE DEF u, v
<1>4. Len(u) <= Len(v) /\ Len(v) - Len(u) = d
  BY <1>1, <1>3
<1>5. ASSUME NEW i \in 1 .. Len(u) PROVE u[i] = v[d + i]
  <2>1. CASE i = Len(t) + 1
    <3>1. d + i = Len(s) + 1
      BY <1>1, <2>1
    <3> QED BY <1>3, <2>1, <3>1
  <2>2. CASE i # Len(t) + 1
    <3>1. i \in 1 .. Len(t) /\ d + i \in 1 .. Len(s)
      BY <1>1, <1>3, <2>2
    <3> QED BY <1>2, <1>3, <3>1, Zenon
  <2> QED BY <2>1, <2>2
<1>6. IsSuffix(u, v)
  BY <1>4, <1>5 DEF IsSuffix
<1> QED BY <1>6 DEF u, v

LEMMA AppendDistinct ==
    ASSUME NEW s \in Lists, NEW e \in MemoryKeys \X Sizes, Distinct(s), ~Holds(s, e[1])
    PROVE  Distinct(Append(s, e))
<1> DEFINE u == Append(s, e)
<1>1. Len(s) \in Nat /\ \A i \in 1 .. Len(s) : s[i][1] # e[1]
  BY ListFacts DEF Holds
<1>2. Len(u) = Len(s) + 1 /\ u[Len(s) + 1] = e /\ \A i \in 1 .. Len(s) : u[i] = s[i]
  BY AppendFacts
<1> HIDE DEF u
<1>3. ASSUME NEW i \in 1 .. Len(u), NEW j \in 1 .. Len(u), u[i][1] = u[j][1] PROVE i = j
  <2>1. \A n \in 1 .. Len(u) : n = Len(s) + 1 \/ n \in 1 .. Len(s)
    BY <1>1, <1>2
  <2>2. CASE i \in 1 .. Len(s) /\ j \in 1 .. Len(s)
    BY <1>2, <1>3, <2>2 DEF Distinct
  <2>3. CASE i = Len(s) + 1 /\ j = Len(s) + 1
    BY <2>3
  <2>4. CASE i = Len(s) + 1 /\ j \in 1 .. Len(s)
    BY <1>1, <1>2, <1>3, <2>4
  <2>5. CASE j = Len(s) + 1 /\ i \in 1 .. Len(s)
    BY <1>1, <1>2, <1>3, <2>5
  <2> QED BY <2>1, <2>2, <2>3, <2>4, <2>5
<1>4. Distinct(u)
  BY <1>3 DEF Distinct
<1> QED BY <1>4 DEF u

LEMMA SuffixIs ==
    ASSUME NEW s \in Lists, NEW t \in Lists, IsSuffix(t, s)
    PROVE  t = SubSeq(s, Len(s) - Len(t) + 1, Len(s))
<1> DEFINE d == Len(s) - Len(t)
           u == SubSeq(s, d + 1, Len(s))
<1>1. Len(s) \in Nat /\ Len(t) \in Nat /\ d \in 0 .. Len(s) /\ Len(s) - d = Len(t)
  BY ListFacts DEF IsSuffix
<1>2. \A i \in 1 .. Len(t) : t[i] = s[d + i]
  BY DEF IsSuffix
<1>3. u \in Lists /\ Len(u) = Len(s) - d /\ \A i \in 1 .. Len(s) - d : u[i] = s[d + i]
  <2> HIDE DEF d
  <2> QED BY <1>1, TailFacts
<1> HIDE DEF u
<1>4. Len(t) = Len(u) /\ \A i \in 1 .. Len(t) : t[i] = u[i]
  BY <1>1, <1>2, <1>3
<1>5. t = u
  BY <1>3, <1>4 DEF Lists
<1> QED BY <1>5 DEF u

\* The loop of insert stops at the first entry that leaves enough room.
LEMMA EvictedFacts ==
    ASSUME NEW rest \in Lists, NEW bytes \in Nat, bytes <= Budget,
           NEW n, n = Evicted(rest, Bytes(rest), bytes)
    PROVE  /\ n \in 0 .. Len(rest)
           /\ Bytes(rest) - BytesUpTo(rest)[n] + bytes <= Budget
           /\ \A m \in 0 .. Len(rest) :
                 m < n => Bytes(rest) - BytesUpTo(rest)[m] + bytes > Budget
<1> DEFINE Fits(m) == Bytes(rest) - BytesUpTo(rest)[m] + bytes <= Budget
           T == {m \in 0 .. Len(rest) : m = Len(rest) \/ Fits(m)}
<1>1. Len(rest) \in Nat /\ Budget \in Nat
  BY ListFacts, MemoryAssumption
<1>2. /\ Bytes(rest) \in Nat /\ Bytes(rest) = BytesUpTo(rest)[Len(rest)]
      /\ \A m \in 0 .. Len(rest) : BytesUpTo(rest)[m] \in Nat
  BY BytesFacts
<1>3. Fits(Len(rest))
  BY <1>1, <1>2
<1>4. n = Min(T)
  BY DEF Evicted
<1> HIDE DEF Fits
<1>5. T \subseteq Nat /\ Len(rest) \in T
  BY <1>1
<1>6. n \in T /\ \A m \in T : n <= m
  <2> HIDE DEF T
  <2> QED BY <1>4, <1>5, MinFacts, Zenon
<1>7. n \in 0 .. Len(rest) /\ Fits(n)
  BY <1>3, <1>6
<1>8. \A m \in 0 .. Len(rest) : m < n => ~Fits(m)
  BY <1>1, <1>6, <1>7
<1>9. ASSUME NEW m \in 0 .. Len(rest), m < n
      PROVE  Bytes(rest) - BytesUpTo(rest)[m] + bytes > Budget
  <2>1. ~(Bytes(rest) - BytesUpTo(rest)[m] + bytes <= Budget)
    BY <1>8, <1>9 DEF Fits
  <2> QED BY <1>1, <1>2, <2>1
<1> QED BY <1>7, <1>9 DEF Fits

\* The entries are the end of the list of all entries by their last use, no
\* key is in that list twice, and the counter is the bytes of the entries.
MemoryInv ==
    /\ entries \in Lists /\ recency \in Lists
    /\ Distinct(recency) /\ IsSuffix(entries, recency)
    /\ used = Bytes(entries) /\ used <= Budget

LEMMA MemoryStarts == MemoryInit => MemoryInv
<1> SUFFICES ASSUME MemoryInit PROVE MemoryInv
  OBVIOUS
<1>1. entries \in Lists /\ recency \in Lists /\ Len(entries) = 0 /\ Len(recency) = 0
  BY DEF MemoryInit, Lists
<1>2. Distinct(recency) /\ IsSuffix(entries, recency)
  BY <1>1 DEF Distinct, IsSuffix
<1>3. Bytes(entries) = 0
  BY <1>1, BytesFacts
<1> QED BY <1>1, <1>2, <1>3, MemoryAssumption DEF MemoryInv, MemoryInit

\* What replacing an entry leaves, and the counter at that point.
LEMMA FreedFacts ==
    ASSUME MemoryInv, NEW k
    PROVE  /\ Without(entries, k) \in Lists /\ Without(recency, k) \in Lists
           /\ Distinct(Without(recency, k)) /\ ~Holds(Without(recency, k), k)
           /\ Distinct(entries) /\ ~Holds(Without(entries, k), k)
           /\ IsSuffix(Without(entries, k), Without(recency, k))
           /\ Bytes(Without(entries, k)) =
                 IF Holds(entries, k) THEN used - entries[Position(entries, k)][2] ELSE used
<1>1. Distinct(entries)
  BY SuffixDistinct DEF MemoryInv
<1>2. /\ Without(entries, k) \in Lists /\ ~Holds(Without(entries, k), k)
      /\ Without(recency, k) \in Lists /\ Distinct(Without(recency, k))
      /\ ~Holds(Without(recency, k), k)
  BY <1>1, WithoutFacts DEF MemoryInv
<1>3. IsSuffix(Without(entries, k), Without(recency, k))
  BY WithoutSuffix DEF MemoryInv
<1>4. CASE Holds(entries, k)
  <2>1. Position(entries, k) \in 1 .. Len(entries)
    BY <1>4, PositionFacts DEF MemoryInv
  <2>2. Bytes(Without(entries, k)) = Bytes(entries) - entries[Position(entries, k)][2]
    BY <1>4, <2>1, RemovedFacts DEF MemoryInv, Without
  <2> QED BY <1>1, <1>2, <1>3, <1>4, <2>2, SMTT(30) DEF MemoryInv
<1>5. CASE ~Holds(entries, k)
  BY <1>1, <1>2, <1>3, <1>5, Zenon DEF Without, MemoryInv
<1> QED BY <1>4, <1>5, SMTT(30)

\* A hit.
LEMMA GetSound ==
    ASSUME MemoryInv, NEW k \in MemoryKeys, Get(k)
    PROVE  MemoryInv'
<1> DEFINE e == entries[Position(entries, k)]
<1>1. Holds(entries, k) /\ entries' = Append(Without(entries, k), e)
      /\ recency' = Append(Without(recency, e[1]), e) /\ used' = used
  BY DEF Get, UsedNow
<1>2. Position(entries, k) \in 1 .. Len(entries) /\ e[1] = k
  BY <1>1, PositionFacts DEF MemoryInv
<1>3. e \in MemoryKeys \X Sizes /\ e[2] \in Nat
  BY <1>2, ListFacts DEF MemoryInv
<1>4. Bytes(Without(entries, k)) = used - e[2]
  BY <1>1, FreedFacts
<1> HIDE DEF e
<1>5. entries' \in Lists /\ recency' \in Lists /\ Bytes(entries') = Bytes(Without(entries, k)) + e[2]
  BY <1>1, <1>2, <1>3, FreedFacts, AppendFacts
<1>6. Distinct(recency') /\ IsSuffix(entries', recency')
  BY <1>1, <1>2, <1>3, FreedFacts, AppendDistinct, AppendSuffix
<1>7. used \in Nat
  BY BytesFacts DEF MemoryInv
<1>8. Bytes(entries') = used
  <2>1. PICK x \in Nat : x = e[2]
    BY <1>3
  <2>2. Bytes(entries') = (used - x) + x
    BY <1>4, <1>5, <2>1, Zenon
  <2> QED BY <1>7, <2>2
<1> QED BY <1>1, <1>5, <1>6, <1>8 DEF MemoryInv

\* An insertion.
LEMMA InsertSound ==
    ASSUME MemoryInv, NEW k \in MemoryKeys, NEW bytes \in Sizes, MemoryInsert(k, bytes)
    PROVE  MemoryInv'
<1> DEFINE rest == Without(entries, k)
           n == Evicted(rest, Bytes(rest), bytes)
           kept == SubSeq(rest, n + 1, Len(rest))
           e == <<k, bytes>>
<1>1. bytes <= Budget /\ bytes \in Nat /\ Budget \in Nat
  BY MemoryAssumption, Zenon DEF MemoryInsert
<1>2. Bytes(rest) = IF Holds(entries, k) THEN used - entries[Position(entries, k)][2] ELSE used
  BY FreedFacts, SMTT(30)
<1>3. /\ entries' = Append(kept, e) /\ used' = Bytes(rest) - BytesUpTo(rest)[n] + bytes
      /\ recency' = Append(Without(recency, k), e)
  BY <1>2, Zenon DEF MemoryInsert, UsedNow
<1>4. rest \in Lists /\ IsSuffix(rest, Without(recency, k))
  BY FreedFacts
<1> HIDE DEF rest
<1>5. n \in 0 .. Len(rest) /\ Bytes(rest) - BytesUpTo(rest)[n] + bytes <= Budget
  BY <1>1, <1>4, EvictedFacts
<1> HIDE DEF n
<1>6. kept \in Lists /\ Bytes(kept) = Bytes(rest) - BytesUpTo(rest)[n]
  BY <1>4, <1>5, TailFacts
<1>7. IsSuffix(kept, Without(recency, k))
  BY <1>4, <1>5, FreedFacts, TailSuffix, Zenon
<1> HIDE DEF kept
<1>8. e \in MemoryKeys \X Sizes /\ e[1] = k /\ e[2] = bytes
  OBVIOUS
<1> HIDE DEF e
<1>9. entries' \in Lists /\ recency' \in Lists /\ Bytes(entries') = Bytes(kept) + bytes
  BY <1>3, <1>6, <1>8, FreedFacts, AppendFacts, Zenon
<1>10. Distinct(recency') /\ IsSuffix(entries', recency')
  BY <1>3, <1>6, <1>7, <1>8, FreedFacts, AppendDistinct, AppendSuffix, Zenon
<1>11. used' = Bytes(entries') /\ used' <= Budget
  BY <1>3, <1>5, <1>6, <1>9
<1> QED BY <1>9, <1>10, <1>11 DEF MemoryInv

LEMMA MemoryStepSound == MemoryInv /\ [MemoryNext]_memoryVars => MemoryInv'
<1> SUFFICES ASSUME MemoryInv, [MemoryNext]_memoryVars PROVE MemoryInv'
  OBVIOUS
<1>1. ASSUME NEW k \in MemoryKeys, Get(k) PROVE MemoryInv'
  BY <1>1, GetSound
<1>2. ASSUME NEW k \in MemoryKeys, NEW bytes \in Sizes, MemoryInsert(k, bytes) PROVE MemoryInv'
  BY <1>2, InsertSound
<1>3. CASE UNCHANGED memoryVars
  BY <1>3 DEF MemoryInv, memoryVars
<1> QED BY <1>1, <1>2, <1>3 DEF MemoryNext

\* However entries are used, replaced and evicted, for any keys, sizes and
\* budget: MemoryCache holds the most recently used entries, each key once, and
\* its counter of bytes is exact and within the budget.
THEOREM MemoryTierCorrect == MemorySpec => []MemoryTierExact
<1>1. MemoryInv => MemoryTierExact
  <2> SUFFICES ASSUME MemoryInv PROVE MemoryTierExact
    OBVIOUS
  <2>1. Distinct(entries)
    BY FreedFacts
  <2>2. DOMAIN entries = 1 .. Len(entries) /\ Bytes(entries) \in Nat
    BY ListFacts, BytesFacts DEF MemoryInv
  <2>3. AccountingExact
    BY <2>1, <2>2, MemoryAssumption DEF AccountingExact, Distinct, MemoryInv
  <2>4. HoldsMostRecent
    BY SuffixIs DEF HoldsMostRecent, MemoryInv
  <2> QED BY <2>3, <2>4 DEF MemoryTierExact
<1> QED BY <1>1, MemoryStarts, MemoryStepSound, PTL DEF MemorySpec

\* A list from one of its other entries on, without a key, is the rest of the
\* list without the key.
LEMMA LaterWithout ==
    ASSUME NEW s \in Lists, NEW k, Distinct(s), NEW i \in 1 .. Len(s), s[i][1] # k
    PROVE  \E j \in 1 .. Len(Without(s, k)) :
              /\ Without(s, k)[j] = s[i]
              /\ Without(SubSeq(s, i, Len(s)), k)
                    = SubSeq(Without(s, k), j, Len(Without(s, k)))
<1> DEFINE t == SubSeq(s, (i - 1) + 1, Len(s))
           r == Without(s, k)
<1>1. Len(s) \in Nat /\ i - 1 \in 0 .. Len(s) /\ (i - 1) + 1 = i
  BY ListFacts
<1>2. t \in Lists /\ Len(t) = Len(s) - (i - 1) /\ \A m \in 1 .. Len(s) - (i - 1) : t[m] = s[(i - 1) + m]
  BY <1>1, TailFacts, Zenon
<1>3. t = SubSeq(s, i, Len(s))
  BY <1>1, Zenon
<1> HIDE DEF t
<1>4. IsSuffix(t, s)
  BY <1>1, <1>2 DEF IsSuffix
<1>5. r \in Lists /\ IsSuffix(Without(t, k), r) /\ Without(t, k) \in Lists
  BY <1>2, <1>4, WithoutFacts, WithoutSuffix, SuffixDistinct
<1> DEFINE u == Without(t, k)
           j == Len(r) - Len(u) + 1
<1>6. u = SubSeq(r, j, Len(r))
  BY <1>5, SuffixIs
<1>7. Len(u) >= 1 /\ u[1] = s[i]
  <2>0. t[1] = s[i] /\ Len(t) \in Nat /\ Len(t) >= 1
    BY <1>1, <1>2
  <2>1. CASE ~Holds(t, k)
    BY <2>0, <2>1 DEF Without
  <2>2. CASE Holds(t, k)
    <3> DEFINE p == Position(t, k)
    <3>1. p \in 1 .. Len(t) /\ t[p][1] = k
      BY <1>2, <2>2, PositionFacts
    <3> HIDE DEF p
    <3>2. p # 1 /\ 1 < p /\ 1 \in 1 .. Len(t) - 1
      BY <2>0, <3>1
    <3>3. /\ Len(Removed(t, p)) = Len(t) - 1
          /\ \A m \in 1 .. Len(t) - 1 : Removed(t, p)[m] = IF m < p THEN t[m] ELSE t[m + 1]
      BY <1>2, <3>1, RemovedFacts, Zenon
    <3>4. u = Removed(t, p)
      BY <2>2 DEF Without, p
    <3> HIDE DEF u
    <3> QED BY <2>0, <3>2, <3>3, <3>4
  <2> QED BY <2>1, <2>2
<1>8. Len(r) \in Nat /\ Len(u) \in Nat /\ Len(u) <= Len(r) /\ u[1] = r[(Len(r) - Len(u)) + 1]
  BY <1>5, <1>7, ListFacts DEF IsSuffix
<1> HIDE DEF u, r
<1>9. j \in 1 .. Len(r) /\ r[j] = s[i]
  BY <1>7, <1>8
<1>10. u = Without(SubSeq(s, i, Len(s)), k)
  BY <1>3 DEF u
<1> HIDE DEF j
<1> QED BY <1>6, <1>9, <1>10, Zenon DEF r

\* The last entry is the new one, and what is not kept had no room beside it
\* and the later ones.
LEMMA InsertEvicts ==
    ASSUME MemoryInv, NEW k \in MemoryKeys, NEW bytes \in Sizes, MemoryInsert(k, bytes),
           NEW i \in 1 .. Len(entries), ~Holds(entries', entries[i][1])
    PROVE  /\ entries'[Len(entries')] = <<k, bytes>>
           /\ Bytes(Without(SubSeq(entries, i, Len(entries)), k)) + bytes > Budget
<1> DEFINE rest == Without(entries, k)
           n == Evicted(rest, Bytes(rest), bytes)
           kept == SubSeq(rest, n + 1, Len(rest))
           e == <<k, bytes>>
<1>1. bytes <= Budget /\ bytes \in Nat /\ Budget \in Nat
  BY MemoryAssumption, Zenon DEF MemoryInsert
<1>2. Bytes(rest) = IF Holds(entries, k) THEN used - entries[Position(entries, k)][2] ELSE used
  BY FreedFacts, SMTT(30)
<1>3. entries' = Append(kept, e)
  BY <1>2, Zenon DEF MemoryInsert
<1>4. rest \in Lists /\ Distinct(entries) /\ entries \in Lists
  BY FreedFacts, SMTT(30) DEF MemoryInv
<1>5. /\ n \in 0 .. Len(rest)
      /\ \A m \in 0 .. Len(rest) :
            m < n => Bytes(rest) - BytesUpTo(rest)[m] + bytes > Budget
  <2> HIDE DEF rest
  <2> QED BY <1>1, <1>4, EvictedFacts, Zenon
<1>6. /\ kept \in Lists /\ Len(kept) = Len(rest) - n
      /\ \A m \in 1 .. Len(rest) - n : kept[m] = rest[n + m]
  <2> HIDE DEF rest, n
  <2> QED BY <1>4, <1>5, TailFacts
<1>7. e \in MemoryKeys \X Sizes /\ e[1] = k /\ e[2] = bytes
  OBVIOUS
<1> HIDE DEF kept, n, e
<1>8. /\ entries' \in Lists /\ Len(entries') = Len(kept) + 1 /\ entries'[Len(kept) + 1] = e
      /\ \A m \in 1 .. Len(kept) : entries'[m] = kept[m]
  BY <1>3, <1>6, <1>7, AppendFacts
<1>9. Len(kept) \in Nat /\ Len(rest) \in Nat /\ DOMAIN entries' = 1 .. Len(entries')
  BY <1>4, <1>6, <1>8, ListFacts
<1>10. \A m \in 1 .. Len(entries') : entries'[m][1] # entries[i][1]
  BY <1>9 DEF Holds
<1>11. entries[i][1] # k
  <2>1. Len(kept) + 1 \in 1 .. Len(entries')
    BY <1>8, <1>9, SMTT(30)
  <2> QED BY <1>7, <1>8, <1>10, <2>1
<1>12. PICK j \in 1 .. Len(rest) :
          /\ rest[j] = entries[i]
          /\ Without(SubSeq(entries, i, Len(entries)), k) = SubSeq(rest, j, Len(rest))
  BY <1>4, <1>11, LaterWithout
<1> HIDE DEF rest
<1>13. j <= n
  <2> SUFFICES ASSUME ~(j <= n) PROVE FALSE
    OBVIOUS
  <2>1. j - n \in 1 .. Len(rest) - n /\ n + (j - n) = j
    BY <1>5, <1>9
  <2>2. kept[j - n] = entries[i]
    BY <1>6, <1>12, <2>1
  <2>3. j - n \in 1 .. Len(kept) /\ j - n \in 1 .. Len(entries')
    BY <1>6, <1>8, <1>9, <2>1
  <2> QED BY <1>8, <1>10, <2>2, <2>3
<1>14. j - 1 \in 0 .. Len(rest) /\ j - 1 < n /\ (j - 1) + 1 = j
  BY <1>5, <1>9, <1>13
<1>15. Bytes(SubSeq(rest, (j - 1) + 1, Len(rest))) = Bytes(rest) - BytesUpTo(rest)[j - 1]
  BY <1>4, <1>14, TailFacts
<1>16. Bytes(Without(SubSeq(entries, i, Len(entries)), k)) = Bytes(rest) - BytesUpTo(rest)[j - 1]
  BY <1>12, <1>14, <1>15
<1>17. Bytes(rest) - BytesUpTo(rest)[j - 1] + bytes > Budget
  BY <1>5, <1>14
<1>18. entries'[Len(entries')] = e
  BY <1>8
<1> QED BY <1>16, <1>17, <1>18 DEF e

\* A hit drops no entry.
LEMMA GetKeeps ==
    ASSUME MemoryInv, NEW k \in MemoryKeys, Get(k), NEW i \in 1 .. Len(entries)
    PROVE  Holds(entries', entries[i][1])
<1> DEFINE e == entries[Position(entries, k)]
           rest == Without(entries, k)
<1>1. Holds(entries, k) /\ entries' = Append(rest, e)
  BY DEF Get
<1>2. Position(entries, k) \in 1 .. Len(entries) /\ e[1] = k
  BY <1>1, PositionFacts DEF MemoryInv
<1>3. e \in MemoryKeys \X Sizes /\ entries \in Lists
  BY <1>2, ListFacts DEF MemoryInv
<1>4. rest \in Lists /\ Distinct(entries)
  BY FreedFacts
<1> HIDE DEF e
<1>5. /\ entries' \in Lists /\ Len(entries') = Len(rest) + 1 /\ entries'[Len(rest) + 1] = e
      /\ \A m \in 1 .. Len(rest) : entries'[m] = rest[m]
  BY <1>1, <1>3, <1>4, AppendFacts
<1>6. Len(rest) \in Nat /\ DOMAIN entries' = 1 .. Len(entries')
  BY <1>4, <1>5, ListFacts
<1>7. \E m \in 1 .. Len(entries') : entries'[m][1] = entries[i][1]
  <2>1. CASE entries[i][1] = k
    <3>1. Len(rest) + 1 \in 1 .. Len(entries')
      BY <1>5, <1>6
    <3> QED BY <1>2, <1>5, <2>1, <3>1, SMTT(30)
  <2>2. CASE entries[i][1] # k
    <3>1. PICK j \in 1 .. Len(rest) : rest[j] = entries[i]
      BY <1>3, <1>4, <2>2, LaterWithout
    <3>2. j \in 1 .. Len(entries')
      BY <1>5, <1>6
    <3> QED BY <1>5, <3>1, <3>2
  <2> QED BY <2>1, <2>2
<1> QED BY <1>6, <1>7 DEF Holds

\* MemoryCache::insert evicts an entry only when the new one does not fit beside
\* it and everything used after it, for any keys, sizes and budget.
THEOREM EvictionsNeeded == MemorySpec => EvictsOnlyForRoom
<1> DEFINE Last == entries'[Len(entries')]
           Spared(i) ==
              \/ Holds(entries', entries[i][1])
              \/ Bytes(Without(SubSeq(entries, i, Len(entries)), Last[1])) + Last[2] > Budget
<1>1. ASSUME MemoryInv, MemoryNext PROVE \A i \in DOMAIN entries : Spared(i)
  <2> SUFFICES ASSUME NEW i \in DOMAIN entries PROVE Spared(i)
    OBVIOUS
  <2>1. i \in 1 .. Len(entries)
    BY <1>1, ListFacts DEF MemoryInv
  <2>2. ASSUME NEW k \in MemoryKeys, Get(k) PROVE Spared(i)
    BY <1>1, <2>1, <2>2, GetKeeps
  <2>3. ASSUME NEW k \in MemoryKeys, NEW bytes \in Sizes, MemoryInsert(k, bytes) PROVE Spared(i)
    <3>1. CASE Holds(entries', entries[i][1])
      BY <3>1
    <3>2. CASE ~Holds(entries', entries[i][1])
      <4>1. /\ Last = <<k, bytes>>
            /\ Bytes(Without(SubSeq(entries, i, Len(entries)), k)) + bytes > Budget
        BY <1>1, <2>1, <2>3, <3>2, InsertEvicts
      <4>2. Last[1] = k /\ Last[2] = bytes
        BY <4>1
      <4> HIDE DEF Last
      <4> QED BY <4>1, <4>2
    <3> QED BY <3>1, <3>2
  <2> QED BY <1>1, <2>2, <2>3 DEF MemoryNext
<1>2. MemoryInv /\ [MemoryNext]_memoryVars => [\A i \in DOMAIN entries : Spared(i)]_memoryVars
  BY <1>1
<1> QED BY <1>2, MemoryStarts, MemoryStepSound, PTL DEF MemorySpec, EvictsOnlyForRoom

-----------------------------------------------------------------------------
(* How the request thread, the worker thread and the channel between them  *)
(* are tied together.                                                      *)

\* The types of TypeOK, with the counters left to the parts below.
Types ==
    /\ timed \in BOOLEAN
    /\ boot \in {"fetching", "listening"}
    /\ ready \in BOOLEAN
    /\ holder \in Queries \cup {NoQuery}
    /\ active \in Int
    /\ request \in [Queries -> {"none", "waiting", "cancelling", "done"}]
    /\ answer \in [Queries -> {"none", "refused", "200", "400", "dropped",
                               "504_cancelled", "504_running"}]
    /\ token \in [Queries -> BOOLEAN]
    /\ worker \in [Queries -> WorkerSteps]
    /\ target \in [Queries -> {"none", "edges", "from", "to"}]
    /\ result \in [Queries -> {"none", "ok", "err", "panic"}]
    /\ channel \in [Queries -> {"empty", "ok", "err", "panic"}]
    /\ written \in [Queries -> Nat]

\* A query without a worker has made no request or had it refused.
WorkerFollowsRequest ==
    \A q \in Queries :
        /\ request[q] = "none" => worker[q] = "none"
        /\ request[q] \in {"waiting", "cancelling"} => worker[q] # "none"

\* Only a request thread that is done has sent an answer.
AnswerFollowsRequest ==
    \A q \in Queries : answer[q] = "none" <=> request[q] # "done"

\* The channel carries a result once the worker is gone.
ChannelFollowsWorker ==
    \A q \in Queries :
        /\ channel[q] # "empty" => worker[q] = "gone"
        /\ worker[q] \in {"released", "uncounted"} => result[q] # "none"

\* How many entries a query can have written at each step.
WritesBounded ==
    \A q \in Queries :
        /\ worker[q] \in {"none", "queued", "resolve"} => written[q] = 0
        /\ worker[q] \in {"tree", "tiers", "generate", "check", "write"} =>
              /\ target[q] # "none"
              /\ target[q] \in {"edges", "from"} => written[q] = 0
              /\ target[q] = "to" => written[q] <= 1
        /\ written[q] <= MaxWrites

Inv ==
    /\ Types
    /\ ExclusiveWorkspace
    /\ WorkerFollowsRequest
    /\ AnswerFollowsRequest
    /\ ChannelFollowsWorker
    /\ WritesBounded


\* The initial state satisfies the inductive invariant.
LEMMA InitInv == Init => Inv
<1> SUFFICES ASSUME Init PROVE Inv
  OBVIOUS
<1> USE DEF Init, WorkerSteps, Counted, Holding
<1>1. Types
  <2>1. active \in Int
    OBVIOUS
  <2>2. written \in [Queries -> Nat]
    OBVIOUS
  <2> QED
    BY <2>1, <2>2, Zenon DEF Types
<1>2. ExclusiveWorkspace
  BY QueriesAssumption DEF ExclusiveWorkspace
<1>3. WorkerFollowsRequest /\ AnswerFollowsRequest /\ ChannelFollowsWorker
  BY DEF WorkerFollowsRequest, AnswerFollowsRequest, ChannelFollowsWorker
<1>4. WritesBounded
  BY DEF WritesBounded, MaxWrites
<1> QED
  BY <1>1, <1>2, <1>3, <1>4 DEF Inv

\* Every step of the startup, of a request thread and of a worker thread
\* preserves the inductive invariant.
LEMMA NextInv == Inv /\ [Next]_vars => Inv'
<1> SUFFICES ASSUME Inv, [Next]_vars PROVE Inv'
  OBVIOUS
<1> USE QueriesAssumption DEF Inv, Types, ExclusiveWorkspace, WorkerFollowsRequest,
        AnswerFollowsRequest, ChannelFollowsWorker, WritesBounded,
        WorkerSteps, Counted, Holding, MaxWrites, requestVars, workerVars
<1>1. CASE UNCHANGED vars
  BY <1>1 DEF vars
<1>2. CASE PerformInitialFetch
  BY <1>2 DEF PerformInitialFetch
<1>3. ASSUME NEW q \in Queries, Refuse(q) PROVE Inv'
  BY <1>3 DEF Refuse, Respond
<1>4. ASSUME NEW q \in Queries, Accept(q) PROVE Inv'
  BY <1>4 DEF Accept
<1>5. ASSUME NEW q \in Queries, Receive(q) PROVE Inv'
  BY <1>5 DEF Receive, Respond
<1>6. ASSUME NEW q \in Queries, Timeout(q) PROVE Inv'
  BY <1>6 DEF Timeout
<1>7. ASSUME NEW q \in Queries, WorkerStopped(q) PROVE Inv'
  BY <1>7 DEF WorkerStopped, Respond
<1>8. ASSUME NEW q \in Queries, GraceExpires(q) PROVE Inv'
  BY <1>8 DEF GraceExpires, Respond
<1>9. ASSUME NEW q \in Queries, Acquire(q) PROVE Inv'
  BY <1>9 DEF Acquire, Goto
<1>10. ASSUME NEW q \in Queries, GiveUp(q) PROVE Inv'
  BY <1>10 DEF GiveUp, Return, Goto
<1>11. ASSUME NEW q \in Queries, ResolveBoth(q) PROVE Inv'
  BY <1>11 DEF ResolveBoth, Advance, Goto
<1>12. ASSUME NEW q \in Queries, ResolveTree(q) PROVE Inv'
  BY <1>12 DEF ResolveTree, Advance, Goto
<1>13. ASSUME NEW q \in Queries, TierHit(q) PROVE Inv'
  BY <1>13 DEF TierHit, Retrieved, Wrote, Advance, Goto
<1>14. ASSUME NEW q \in Queries, TierMiss(q) PROVE Inv'
  BY <1>14 DEF TierMiss, Advance, Goto
<1>15. ASSUME NEW q \in Queries, Generate(q) PROVE Inv'
  BY <1>15 DEF Generate, Advance, Goto
<1>16. ASSUME NEW q \in Queries, CheckCancelled(q) PROVE Inv'
  BY <1>16 DEF CheckCancelled, Advance, Return, Goto
<1>17. ASSUME NEW q \in Queries, WriteEntry(q) PROVE Inv'
  BY <1>17 DEF WriteEntry, Retrieved, Wrote, Advance, Goto
<1>18. ASSUME NEW q \in Queries, Checkout(q) PROVE Inv'
  BY <1>18 DEF Checkout, Advance, Goto
<1>19. ASSUME NEW q \in Queries, ProbeAndDiff(q) PROVE Inv'
  BY <1>19 DEF ProbeAndDiff, Advance, Goto
<1>20. ASSUME NEW q \in Queries, PruneAndReturn(q) PROVE Inv'
  BY <1>20 DEF PruneAndReturn, Return, Goto
<1>21. ASSUME NEW q \in Queries, Fail(q) PROVE Inv'
  BY <1>21 DEF Fail, Return, Goto
<1>22. ASSUME NEW q \in Queries, Panic(q) PROVE Inv'
  BY <1>22 DEF Panic, Return, Goto
<1>23. ASSUME NEW q \in Queries, DropActive(q) PROVE Inv'
  BY <1>23 DEF DropActive, Goto
<1>24. ASSUME NEW q \in Queries, Send(q) PROVE Inv'
  BY <1>24 DEF Send, Goto
<1> QED
  BY <1>1, <1>2, <1>3, <1>4, <1>5, <1>6, <1>7, <1>8, <1>9, <1>10, <1>11, <1>12, <1>13, <1>14, <1>15, <1>16, <1>17, <1>18, <1>19, <1>20, <1>21, <1>22, <1>23, <1>24, Zenon
     DEF Next, RequestStep, SubprocessStep, LocalStep

\* The inductive invariant holds of every behaviour.
THEOREM Invariance == Spec => []Inv
BY InitInv, NextInv, PTL DEF Spec

\* At most one query is inside the guarded part of compute_query, and it is
\* the one Workspace.holder names, for any number of queries.
THEOREM WorkspaceIsExclusive == Spec => []ExclusiveWorkspace
<1>1. Inv => ExclusiveWorkspace
  BY DEF Inv
<1> QED
  BY <1>1, Invariance, PTL

-----------------------------------------------------------------------------
(* The count of active queries.                                            *)

CountedQueries == {q \in Queries : worker[q] \in Counted}

\* No step but Accept and DropActive changes which queries are counted or
\* the counter; Accept adds one to both and DropActive takes one from both.
LEMMA CountedStep ==
    ASSUME Inv, [Next]_vars
    PROVE  \/ active' = active /\ CountedQueries' = CountedQueries
           \/ \E q \in Queries : /\ q \notin CountedQueries
                                 /\ CountedQueries' = CountedQueries \cup {q}
                                 /\ active' = active + 1
           \/ \E q \in CountedQueries : /\ CountedQueries' = CountedQueries \ {q}
                                        /\ active' = active - 1
<1> USE DEF Inv, Types, CountedQueries, Counted, Holding, WorkerSteps,
            requestVars, workerVars
<1>1. CASE UNCHANGED vars \/ PerformInitialFetch
  BY <1>1 DEF vars, PerformInitialFetch
<1>2. ASSUME NEW q \in Queries, Refuse(q) \/ RequestStep(q)
      PROVE  active' = active /\ CountedQueries' = CountedQueries
  BY <1>2 DEF Refuse, RequestStep, Receive, Timeout, WorkerStopped, GraceExpires
<1>3. ASSUME NEW q \in Queries, Accept(q)
      PROVE  /\ q \notin CountedQueries
             /\ CountedQueries' = CountedQueries \cup {q}
             /\ active' = active + 1
  BY <1>3 DEF Accept, WorkerFollowsRequest
<1>4. ASSUME NEW q \in Queries, Acquire(q) \/ GiveUp(q)
      PROVE  active' = active /\ CountedQueries' = CountedQueries
  BY <1>4 DEF Acquire, GiveUp, Return, Goto
<1>5. ASSUME NEW q \in Queries, SubprocessStep(q)
      PROVE  active' = active /\ CountedQueries' = CountedQueries
  <2>1. ASSUME NEW s \in Holding, NEW t \in Holding, Advance(q, s, t)
        PROVE  active' = active /\ CountedQueries' = CountedQueries
    BY <2>1 DEF Advance, Goto
  <2>2. CASE Fail(q)
    BY <2>2 DEF Fail, Return, Goto
  <2> QED
    BY <1>5, <2>1, <2>2
       DEF SubprocessStep, ResolveBoth, ResolveTree, TierHit, Retrieved, TierMiss,
           Generate, Checkout, ProbeAndDiff
<1>6. ASSUME NEW q \in Queries,
             CheckCancelled(q) \/ WriteEntry(q) \/ PruneAndReturn(q) \/ Send(q) \/ Panic(q)
      PROVE  active' = active /\ CountedQueries' = CountedQueries
  <2>1. CASE CheckCancelled(q)
    BY <2>1 DEF CheckCancelled, Advance, Return, Goto
  <2>2. CASE WriteEntry(q)
    BY <2>2 DEF WriteEntry, Retrieved, Advance, Goto
  <2>3. CASE PruneAndReturn(q) \/ Panic(q)
    BY <2>3 DEF PruneAndReturn, Panic, Return, Goto
  <2>4. CASE Send(q)
    BY <2>4 DEF Send, Goto
  <2> QED
    BY <1>6, <2>1, <2>2, <2>3, <2>4
<1>7. ASSUME NEW q \in Queries, DropActive(q)
      PROVE  /\ q \in CountedQueries
             /\ CountedQueries' = CountedQueries \ {q}
             /\ active' = active - 1
  BY <1>7 DEF DropActive, Goto
<1> HIDE DEF Inv, CountedQueries
<1> QED
  BY <1>1, <1>2, <1>3, <1>4, <1>5, <1>6, <1>7 DEF Next, LocalStep

\* activeQueries always equals the number of queries accepted and not yet
\* finished, including those whose worker panicked.
THEOREM ActiveQueriesCorrect == Spec => []ActiveQueriesExact
<1>1. ActiveQueriesExact <=> active = Cardinality(CountedQueries)
  BY DEF ActiveQueriesExact, CountedQueries
<1>2. IsFiniteSet(CountedQueries) /\ IsFiniteSet(CountedQueries')
  <2>1. CountedQueries \subseteq Queries /\ CountedQueries' \subseteq Queries
    BY DEF CountedQueries
  <2> QED
    BY <2>1, QueriesAssumption, FS_Subset
<1>3. Init => ActiveQueriesExact
  <2> SUFFICES ASSUME Init PROVE active = Cardinality(CountedQueries)
    BY <1>1
  <2>1. CountedQueries = {}
    BY DEF Init, CountedQueries, Counted, Holding
  <2> QED
    BY <2>1, FS_EmptySet DEF Init
<1>4. Inv /\ ActiveQueriesExact /\ [Next]_vars => ActiveQueriesExact'
  <2> SUFFICES ASSUME Inv, active = Cardinality(CountedQueries), [Next]_vars
               PROVE  active' = Cardinality(CountedQueries')
    BY <1>1 DEF ActiveQueriesExact, CountedQueries
  <2>1. CASE active' = active /\ CountedQueries' = CountedQueries
    BY <2>1
  <2>2. ASSUME NEW q \in Queries, q \notin CountedQueries,
               CountedQueries' = CountedQueries \cup {q}, active' = active + 1
        PROVE  active' = Cardinality(CountedQueries')
    BY <2>2, <1>2, FS_AddElement
  <2>3. ASSUME NEW q \in CountedQueries,
               CountedQueries' = CountedQueries \ {q}, active' = active - 1
        PROVE  active' = Cardinality(CountedQueries')
    BY <2>3, <1>2, FS_RemoveElement
  <2> QED
    BY <2>1, <2>2, <2>3, CountedStep
<1> QED
  BY <1>3, <1>4, Invariance, PTL DEF Spec

\* The state of the service is always well typed: no more queries are counted
\* than were made and no query writes more than two entries.
THEOREM TypeCorrect == Spec => []TypeOK
<1>1. Inv /\ ActiveQueriesExact => TypeOK
  <2> SUFFICES ASSUME Inv, ActiveQueriesExact PROVE TypeOK
    OBVIOUS
  <2>1. active \in 0 .. Cardinality(Queries)
    <3>1. CountedQueries \subseteq Queries
      BY DEF CountedQueries
    <3>2. /\ Cardinality(CountedQueries) \in Nat
          /\ Cardinality(Queries) \in Nat
          /\ Cardinality(CountedQueries) <= Cardinality(Queries)
      BY <3>1, QueriesAssumption, FS_Subset, FS_CardinalityType
    <3> QED
      BY <3>2 DEF ActiveQueriesExact, CountedQueries
  <2>2. written \in [Queries -> 0 .. MaxWrites]
    BY DEF Inv, Types, WritesBounded, MaxWrites
  <2> QED
    BY <2>1, <2>2 DEF Inv, Types, TypeOK
<1> QED
  BY <1>1, Invariance, ActiveQueriesCorrect, PTL

-----------------------------------------------------------------------------
(* The service implements QueryPromise.                                    *)

phases == [q \in Queries |-> Phase(q)]

\* What a worker step means for the promise's view of the query.
LEMMA PhaseStep ==
    ASSUME Inv, NEW q \in Queries, NEW step \in WorkerSteps, Goto(q, step)
    PROVE  /\ phases' = [phases EXCEPT ![q] = IF step = "none" THEN "idle"
                                             ELSE IF step \in Counted THEN "running"
                                             ELSE "over"]
           /\ worker[q] \in Counted /\ step \in Counted => phases' = phases
           /\ worker[q] \in WorkerSteps \ (Counted \cup {"none"})
                 /\ step \in {"uncounted", "gone"} => phases' = phases
<1> USE DEF Inv, Types, Goto, WorkerSteps, Counted, Holding, phases, Phase
<1>1. worker' = [worker EXCEPT ![q] = step] /\ worker \in [Queries -> WorkerSteps]
  OBVIOUS
<1>2. \A r \in Queries : worker'[r] = IF r = q THEN step ELSE worker[r]
  BY <1>1
<1>3. phases' = [phases EXCEPT ![q] = IF step = "none" THEN "idle"
                                      ELSE IF step \in Counted THEN "running"
                                      ELSE "over"]
  BY <1>2, Zenon
<1>4. worker[q] \in Counted /\ step \in Counted => phases' = phases
  BY <1>2
<1>5. worker[q] \in WorkerSteps \ (Counted \cup {"none"})
         /\ step \in {"uncounted", "gone"} => phases' = phases
  BY <1>2
<1> QED
  BY <1>3, <1>4, <1>5

\* Every step of the service is a step of the promise or leaves it alone.
LEMMA PromiseStep ==
    Inv /\ [Next]_vars => [Promise!Next]_(Promise!promiseVars)
<1> SUFFICES ASSUME Inv, [Next]_vars
             PROVE  [Promise!Next]_(Promise!promiseVars)
  OBVIOUS
<1> DEFINE Same == UNCHANGED <<holder, phases, written, answer>>
<1>a. Same => [Promise!Next]_(Promise!promiseVars)
  BY DEF Promise!promiseVars, phases
<1>b. ASSUME worker' = worker PROVE phases' = phases
  BY <1>b DEF phases, Phase
<1>c. \A q \in Queries : phases[q] = Phase(q)
  BY DEF phases
<1> USE QueriesAssumption DEF Inv, Types, requestVars, workerVars
<1>1. CASE UNCHANGED vars \/ PerformInitialFetch
  BY <1>1, <1>a, <1>b DEF vars, PerformInitialFetch
<1>2. ASSUME NEW q \in Queries, Refuse(q) PROVE Promise!Refuse(q)
  <2>1. phases' = phases /\ phases[q] = "idle" /\ answer[q] = "none"
    BY <1>2, <1>b, <1>c DEF Refuse, Phase, WorkerFollowsRequest, AnswerFollowsRequest
  <2> QED
    BY <1>2, <2>1 DEF Refuse, Respond, Promise!Refuse, phases
<1>3. ASSUME NEW q \in Queries, Accept(q) PROVE Promise!Begin(q)
  <2>1. Goto(q, "queued") /\ worker[q] = "none" /\ answer[q] = "none"
    BY <1>3 DEF Accept, Goto, WorkerFollowsRequest, AnswerFollowsRequest
  <2>2. phases' = [phases EXCEPT ![q] = "running"]
    BY <2>1, PhaseStep DEF WorkerSteps, Counted
  <2>3. phases[q] = "idle"
    BY <2>1, <1>c DEF Phase
  <2> QED
    BY <1>3, <2>1, <2>2, <2>3 DEF Accept, Promise!Begin, phases
<1>4. ASSUME NEW q \in Queries, Receive(q) \/ WorkerStopped(q) \/ GraceExpires(q)
      PROVE  Promise!Answer(q)
  <2>1. /\ UNCHANGED <<holder, phases, written>>
        /\ answer[q] = "none" /\ phases[q] # "idle"
    BY <1>4, <1>b, <1>c DEF Receive, WorkerStopped, GraceExpires, Phase,
       WorkerFollowsRequest, AnswerFollowsRequest
  <2>2. CASE Receive(q) \/ WorkerStopped(q)
    <3>1. phases[q] = "over"
      BY <2>2, <1>c DEF Receive, WorkerStopped, ChannelFollowsWorker, Phase,
         Counted, Holding
    <3>2. \E a \in Promise!Outcomes : answer' = [answer EXCEPT ![q] = a]
      BY <2>2 DEF Receive, WorkerStopped, Respond, Promise!Outcomes
    <3> QED
      BY <2>1, <3>1, <3>2, Zenon DEF Promise!Answer, phases
  <2>3. CASE GraceExpires(q)
    BY <2>1, <2>3 DEF GraceExpires, Respond, Promise!Answer, phases
  <2> QED
    BY <1>4, <2>2, <2>3
<1>5. ASSUME NEW q \in Queries, Timeout(q) PROVE Same
  BY <1>5, <1>b DEF Timeout
<1>6. ASSUME NEW q \in Queries, Acquire(q) PROVE Promise!Take(q)
  <2>1. phases' = phases /\ phases[q] = "running"
    BY <1>6, PhaseStep, <1>c DEF Acquire, WorkerSteps, Counted, Holding, Phase
  <2> QED
    BY <1>6, <2>1 DEF Acquire, Promise!Take, phases
<1>7. ASSUME NEW q \in Queries, NEW r \in {"ok", "err", "panic"},
             worker[q] \in Counted, Return(q, r)
      PROVE  Same \/ Promise!Leave(q)
  <2>1. phases' = phases
    BY <1>7, PhaseStep DEF Return, WorkerSteps, Counted
  <2> QED
    BY <1>7, <2>1 DEF Return, Promise!Leave, phases
<1>8. ASSUME NEW q \in Queries, NEW s \in Holding, NEW t \in Holding,
             Advance(q, s, t)
      PROVE  UNCHANGED <<holder, phases, answer>> /\ holder = q
  <2>1. phases' = phases
    BY <1>8, PhaseStep DEF Advance, WorkerSteps, Counted
  <2> QED
    BY <1>8, <2>1 DEF Advance, ExclusiveWorkspace
<1>9. ASSUME NEW q \in Queries,
             \/ ResolveBoth(q) \/ ResolveTree(q) \/ TierMiss(q) \/ Generate(q)
             \/ Checkout(q) \/ ProbeAndDiff(q)
      PROVE  Same
  BY <1>9, <1>8 DEF ResolveBoth, ResolveTree, TierMiss, Generate, Checkout,
     ProbeAndDiff, Holding
<1>10. ASSUME NEW q \in Queries, TierHit(q) \/ WriteEntry(q)
       PROVE  Same \/ Promise!Write(q)
  <2>1. UNCHANGED <<holder, phases, answer>> /\ holder = q
    BY <1>10, <1>8 DEF TierHit, WriteEntry, Retrieved, Holding
  <2>2. UNCHANGED written \/ (Wrote(q) /\ written[q] < MaxWrites)
    BY <1>10 DEF TierHit, WriteEntry, Retrieved, Advance, WritesBounded, MaxWrites
  <2> QED
    BY <2>1, <2>2 DEF Wrote, Promise!Write, phases
<1>11. ASSUME NEW q \in Queries,
              \/ GiveUp(q) \/ Fail(q) \/ Panic(q) \/ PruneAndReturn(q)
       PROVE  Same \/ Promise!Leave(q)
  BY <1>11, <1>7 DEF GiveUp, Fail, Panic, PruneAndReturn, Counted, Holding
<1>12. ASSUME NEW q \in Queries, CheckCancelled(q)
       PROVE  Same \/ Promise!Leave(q)
  BY <1>12, <1>7, <1>8 DEF CheckCancelled, Counted, Holding
<1>13. ASSUME NEW q \in Queries, DropActive(q) PROVE Promise!End(q)
  <2>1. phases' = [phases EXCEPT ![q] = "over"]
    BY <1>13, PhaseStep DEF DropActive, WorkerSteps, Counted, Holding
  <2>2. phases[q] = "running" /\ holder # q
    BY <1>13, <1>c DEF DropActive, ExclusiveWorkspace, Holding, Counted, Phase
  <2> QED
    BY <1>13, <2>1, <2>2 DEF DropActive, Promise!End, phases
<1>14. ASSUME NEW q \in Queries, Send(q) PROVE Same
  <2>1. phases' = phases
    BY <1>14, PhaseStep DEF Send, WorkerSteps, Counted, Holding
  <2> QED
    BY <1>14, <2>1 DEF Send
<1> HIDE DEF Same, Inv
<1> QED
  BY <1>a, <1>1, <1>2, <1>3, <1>4, <1>5, <1>6, <1>9, <1>10, <1>11, <1>12, <1>13, <1>14
     DEF Next, RequestStep, SubprocessStep, LocalStep, Promise!Next

\* The service keeps its promise for any number of queries, with or without
\* a request timeout: an outcome is reported only for a query that is over,
\* and a query that is over never takes the workspace or writes again.
THEOREM ServiceKeepsPromise == Spec => KeepsPromise
<1>1. Init => Promise!Init
  <2> SUFFICES ASSUME Init PROVE Promise!Init
    OBVIOUS
  <2>1. \A q \in Queries : Phase(q) = "idle"
    BY DEF Init, Phase
  <2> QED
    BY <2>1 DEF Init, Promise!Init
<1> QED
  BY <1>1, PromiseStep, Invariance, PTL DEF Spec, KeepsPromise, Promise!Spec
=============================================================================
