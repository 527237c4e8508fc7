-------------------------- MODULE HashGraphProofs ---------------------------
(***************************************************************************)
(* The impacted rules of HashGraph for every graph over any number of      *)
(* rules and every change: without cycles they are exactly the dependents  *)
(* of the change, and with cycles they are dependents of it.               *)
(*                                                                         *)
(* The second revision is compared with the first step by step: the two    *)
(* traversals take the same turns, since no guard looks at what a digest   *)
(* holds.  The argument keeps the first traversal as a history.            *)
(***************************************************************************)
EXTENDS ImpactedTargets, Integers, TLAPS

-----------------------------------------------------------------------------
(* Lists.                                                                  *)

\* A list over a set is one over any larger set.
LEMMA ListWidens ==
    ASSUME NEW A, NEW B, A \subseteq B, NEW s \in Seq(A)
    PROVE  s \in Seq(B)
  OBVIOUS

\* A list is a function on its places.
LEMMA ListPlaces ==
    ASSUME NEW A, NEW s \in Seq(A)
    PROVE  Len(s) \in Nat /\ DOMAIN s = 1 .. Len(s) /\ s \in [1 .. Len(s) -> A]
  OBVIOUS

\* Only the empty list has no place.
LEMMA EmptyList ==
    ASSUME NEW A
    PROVE  <<>> \in Seq(A) /\ Len(<<>>) = 0 /\ \A s \in Seq(A) : s # <<>> => Len(s) \in Nat \ {0}
  OBVIOUS

\* The first element and the others, one place earlier.
LEMMA ListFront ==
    ASSUME NEW A, NEW s \in Seq(A), s # <<>>
    PROVE  /\ Head(s) \in A /\ Tail(s) \in Seq(A) /\ Len(Tail(s)) = Len(s) - 1
           /\ \A i \in 1 .. Len(Tail(s)) : Tail(s)[i] = s[i + 1]
  OBVIOUS

\* One more element at the end.
LEMMA ListAppend ==
    ASSUME NEW A, NEW s \in Seq(A), NEW e \in A
    PROVE  /\ Append(s, e) \in Seq(A) /\ Append(s, e) # <<>> /\ Len(Append(s, e)) = Len(s) + 1
           /\ Append(s, e)[Len(s) + 1] = e /\ \A i \in 1 .. Len(s) : Append(s, e)[i] = s[i]
  OBVIOUS

LEMMA ListAppendEqual ==
    ASSUME NEW A, NEW s \in Seq(A), NEW t \in Seq(A), NEW d \in A, NEW e \in A,
           Append(s, d) = Append(t, e)
    PROVE  s = t /\ d = e
<1>1. Len(s) = Len(t) /\ Len(s) \in Nat
  BY ListAppend
<1>2. d = e /\ \A i \in 1 .. Len(s) : s[i] = t[i]
  BY <1>1, ListAppend
<1> QED BY <1>1, <1>2

\* The part of a list between two places.
LEMMA ListPart ==
    ASSUME NEW A, NEW s, NEW m \in Int, NEW n \in Int, \A i \in m .. n : s[i] \in A
    PROVE  /\ SubSeq(s, m, n) \in Seq(A)
           /\ Len(SubSeq(s, m, n)) = IF m <= n THEN (n - m) + 1 ELSE 0
           /\ \A i \in 1 .. (n - m) + 1 : SubSeq(s, m, n)[i] = s[(m + i) - 1]
  OBVIOUS

\* Another element at one place.
LEMMA ListReplaced ==
    ASSUME NEW A, NEW s \in Seq(A), NEW i \in 1 .. Len(s), NEW e \in A
    PROVE  /\ [s EXCEPT ![i] = e] \in Seq(A) /\ Len([s EXCEPT ![i] = e]) = Len(s)
           /\ \A j \in 1 .. Len(s) : [s EXCEPT ![i] = e][j] = IF j = i THEN e ELSE s[j]
  OBVIOUS

-----------------------------------------------------------------------------
(* Sequences of values that belong to no set fixed in advance: a digest    *)
(* nests the digests of the inputs.                                        *)

IsSeq(s) == \E S : s \in Seq(S)

LEMMA SeqFacts ==
    ASSUME NEW s, IsSeq(s)
    PROVE  /\ Len(s) \in Nat
           /\ DOMAIN s = 1 .. Len(s)
           /\ s = <<>> <=> Len(s) = 0
<1>1. PICK S : s \in Seq(S)
  BY DEF IsSeq
<1> QED BY <1>1, ListPlaces, EmptyList

LEMMA EmptyIsSeq ==
    IsSeq(<<>>)
  BY EmptyList DEF IsSeq

LEMMA AppendFacts ==
    ASSUME NEW s, IsSeq(s), NEW e
    PROVE  /\ IsSeq(Append(s, e))
           /\ Len(Append(s, e)) = Len(s) + 1
           /\ \A i \in 1 .. Len(s) : Append(s, e)[i] = s[i]
           /\ Append(s, e)[Len(s) + 1] = e
<1>1. PICK S : s \in Seq(S)
  BY DEF IsSeq
<1>2. s \in Seq(S \cup {e}) /\ e \in S \cup {e}
  BY <1>1, ListWidens
<1> QED BY <1>2, ListAppend DEF IsSeq

LEMMA AppendOneToOne ==
    ASSUME NEW s, IsSeq(s), NEW t, IsSeq(t), NEW d, NEW e, Append(s, d) = Append(t, e)
    PROVE  s = t /\ d = e
<1>1. PICK S : s \in Seq(S)
  BY DEF IsSeq
<1>2. PICK T : t \in Seq(T)
  BY DEF IsSeq
<1> DEFINE U == S \cup T \cup {d, e}
<1>3. s \in Seq(U) /\ t \in Seq(U) /\ d \in U /\ e \in U
  BY <1>1, <1>2, ListWidens
<1> HIDE DEF U
<1> QED BY <1>3, ListAppendEqual

LEMMA FrontFacts ==
    ASSUME NEW s, IsSeq(s), s # <<>>
    PROVE  /\ IsSeq(Popped(s))
           /\ Len(Popped(s)) = Len(s) - 1
           /\ \A i \in 1 .. Len(s) - 1 : Popped(s)[i] = s[i]
<1>1. PICK S : s \in Seq(S)
  BY DEF IsSeq
<1>2. Len(s) \in Nat \ {0} /\ \A i \in 1 .. Len(s) - 1 : s[i] \in S
  BY <1>1, EmptyList, ListPlaces
<1> DEFINE n == Len(s) - 1
<1>3. n \in Nat /\ n - 1 + 1 = n /\ \A i \in 1 .. n : s[i] \in S /\ 1 + i - 1 = i
  BY <1>2
<1> HIDE DEF n
<1>4. /\ SubSeq(s, 1, n) \in Seq(S)
      /\ Len(SubSeq(s, 1, n)) = n
      /\ \A i \in 1 .. n : SubSeq(s, 1, n)[i] = s[i]
  BY <1>3, ListPart
<1> QED BY <1>4, Zenon DEF Popped, IsSeq, n

ReplaceTop(s, e) == [s EXCEPT ![Len(s)] = e]

LEMMA ReplaceFacts ==
    ASSUME NEW s, IsSeq(s), s # <<>>, NEW e
    PROVE  /\ IsSeq(ReplaceTop(s, e))
           /\ Len(ReplaceTop(s, e)) = Len(s)
           /\ \A i \in 1 .. Len(s) : ReplaceTop(s, e)[i] = IF i = Len(s) THEN e ELSE s[i]
<1>1. PICK S : s \in Seq(S)
  BY DEF IsSeq
<1>2. s \in Seq(S \cup {e}) /\ e \in S \cup {e}
  BY <1>1, ListWidens
<1> DEFINE n == Len(s)
<1>3. n \in 1 .. Len(s)
  BY SeqFacts
<1> HIDE DEF n
<1>4. /\ [s EXCEPT ![n] = e] \in Seq(S \cup {e}) /\ Len([s EXCEPT ![n] = e]) = Len(s)
      /\ \A i \in 1 .. Len(s) : [s EXCEPT ![n] = e][i] = IF i = n THEN e ELSE s[i]
  BY <1>2, <1>3, ListReplaced
<1> QED BY <1>4 DEF IsSeq, ReplaceTop, n

-----------------------------------------------------------------------------
(* One revision's traversal as a function from state to state.             *)

Now == [inputs |-> inputs, changed |-> changed, revision |-> revision, target |-> target,
        path |-> path, digest |-> digest]

VersionAt(s, kind, r) ==
    IF s.revision = "to" /\ s.changed[1] = kind /\ r \in s.changed[2] THEN 2 ELSE 1

DefinitionAt(s, r) == <<"definition", r, VersionAt(s, "definition", r)>>

DirectAt(s, r) == <<DefinitionAt(s, r), VersionAt(s, "source", r), s.inputs[r]>>

TopOf(s) == s.path[Len(s.path)]

WithPath(s, p, d) ==
    [inputs |-> s.inputs, changed |-> s.changed, revision |-> s.revision, target |-> s.target,
     path |-> p, digest |-> d]

Push(s, r) ==
    WithPath(s, Append(s.path, [rule |-> r, todo |-> s.inputs[r], overall |-> <<>>]), s.digest)

Advance(s, overall) ==
    WithPath(s, ReplaceTop(s.path, [rule |-> TopOf(s).rule, todo |-> Tail(TopOf(s).todo),
                                    overall |-> overall]), s.digest)

Pop(s) ==
    WithPath(s, Popped(s.path),
             [s.digest EXCEPT ![TopOf(s).rule] =
                 [overall |-> TopOf(s).overall, direct |-> DirectAt(s, TopOf(s).rule)]])

Skip(s) ==
    [inputs |-> s.inputs, changed |-> s.changed, revision |-> s.revision, target |-> s.target + 1,
     path |-> s.path, digest |-> s.digest]

Visited(s, r) == \E i \in 1 .. Len(s.path) : s.path[i].rule = r

Step(s) ==
    IF s.path = <<>>
    THEN IF s.digest[s.target] # NoDigest THEN Skip(s) ELSE Push(s, s.target)
    ELSE IF TopOf(s).todo = <<>> THEN Pop(s)
    ELSE LET next == Head(TopOf(s).todo)
             sofar == TopOf(s).overall
         IN  IF next = TopOf(s).rule THEN Advance(s, sofar)
             ELSE IF s.digest[next] # NoDigest THEN Advance(s, Append(sofar, s.digest[next]))
             ELSE IF Visited(s, next) THEN Advance(s, Append(sofar, <<"cycle", DefinitionAt(s, next)>>))
             ELSE Push(s, next)

Final(s) == s.path = <<>> /\ s.target > N

\* A frame is at a suffix of its rule's inputs, and the rule has no digest yet.
FrameSane(f, s) ==
    /\ f = [rule |-> f.rule, todo |-> f.todo, overall |-> f.overall]
    /\ f.rule \in Rules /\ f.todo \in Seq(Rules) /\ IsSeq(f.overall)
    /\ s.digest[f.rule] = NoDigest
    /\ \A k \in 1 .. Len(f.todo) : Lists(s.inputs[f.rule], f.todo[k])

\* Each rule on the path waits for the next one, no rule is on it twice, and
\* every target before the current one is finished.
PathSane(s) ==
    /\ IsSeq(s.path)
    /\ \A i \in 1 .. Len(s.path) : FrameSane(s.path[i], s)
    /\ \A i, j \in 1 .. Len(s.path) : s.path[i].rule = s.path[j].rule => i = j
    /\ \A i \in 1 .. Len(s.path) - 1 :
          /\ s.path[i].todo # <<>> /\ Head(s.path[i].todo) = s.path[i + 1].rule
          /\ s.path[i].rule # s.path[i + 1].rule

DigestsSane(s) ==
    /\ s.digest = [r \in Rules |-> s.digest[r]]
    /\ \A r \in Rules : r < s.target => s.digest[r] # NoDigest
    /\ \A r \in Rules : s.digest[r] # NoDigest =>
          s.digest[r] = [overall |-> s.digest[r].overall, direct |-> DirectAt(s, r)]

Sane(s) ==
    /\ s = [inputs |-> s.inputs, changed |-> s.changed, revision |-> s.revision, target |-> s.target,
            path |-> s.path, digest |-> s.digest]
    /\ s.inputs \in [Rules -> Seq(Rules)]
    /\ s.target \in 1 .. N + 1
    /\ PathSane(s) /\ DigestsSane(s)

LEMMA TopSane ==
    ASSUME NEW s, Sane(s), s.path # <<>>
    PROVE  Len(s.path) \in Nat \ {0} /\ Len(s.path) \in 1 .. Len(s.path) /\ FrameSane(TopOf(s), s)
<1>1. Len(s.path) \in Nat \ {0}
  BY SeqFacts DEF Sane, PathSane
<1> QED BY <1>1 DEF Sane, PathSane, TopOf

\* Entering a rule that is not on the path and has no digest.
LEMMA PushSane ==
    ASSUME NEW s, Sane(s), NEW r \in Rules, s.digest[r] = NoDigest, ~Visited(s, r),
           s.path # <<>> => TopOf(s).todo # <<>> /\ Head(TopOf(s).todo) = r
    PROVE  Sane(Push(s, r))
<1> DEFINE f == [rule |-> r, todo |-> s.inputs[r], overall |-> <<>>]
           p == Append(s.path, f)
           t == Push(s, r)
           n == Len(s.path)
<1>1. IsSeq(s.path) /\ n \in Nat /\ s.inputs[r] \in Seq(Rules)
  BY SeqFacts DEF Sane, PathSane
<1>2. IsSeq(p) /\ Len(p) = n + 1 /\ (\A i \in 1 .. n : p[i] = s.path[i]) /\ p[n + 1] = f
  BY <1>1, AppendFacts
<1>3. /\ t.inputs = s.inputs /\ t.changed = s.changed /\ t.revision = s.revision
      /\ t.target = s.target /\ t.path = p /\ t.digest = s.digest
      /\ t = [inputs |-> t.inputs, changed |-> t.changed, revision |-> t.revision,
              target |-> t.target, path |-> t.path, digest |-> t.digest]
  BY DEF Push, WithPath
<1>4. FrameSane(f, t)
  <2>1. \A k \in 1 .. Len(s.inputs[r]) : Lists(s.inputs[r], s.inputs[r][k])
    BY DEF Lists
  <2> QED BY <1>1, <1>3, <2>1, EmptyIsSeq DEF FrameSane
<1> HIDE DEF f, p, t
<1>5. \A i \in 1 .. n + 1 : FrameSane(p[i], t)
  <2>1. \A i \in 1 .. n : FrameSane(s.path[i], t)
    BY <1>3 DEF Sane, PathSane, FrameSane
  <2>2. \A i \in 1 .. n + 1 : i \in 1 .. n \/ i = n + 1
    BY <1>1
  <2> QED BY <1>2, <1>4, <2>1, <2>2
<1>6. \A i, j \in 1 .. n + 1 : p[i].rule = p[j].rule => i = j
  <2>1. f.rule = r
    BY DEF f
  <2>2. \A i \in 1 .. n : s.path[i].rule # r
    BY DEF Visited
  <2>3. \A i, j \in 1 .. n : s.path[i].rule = s.path[j].rule => i = j
    BY DEF Sane, PathSane
  <2>4. \A i \in 1 .. n + 1 : i \in 1 .. n \/ i = n + 1
    BY <1>1
  <2> QED BY <1>2, <2>1, <2>2, <2>3, <2>4
<1>7. \A i \in 1 .. n : p[i].todo # <<>> /\ Head(p[i].todo) = p[i + 1].rule /\ p[i].rule # p[i + 1].rule
  <2>1. \A i \in 1 .. n : (i \in 1 .. n - 1 /\ i + 1 \in 1 .. n) \/ i = n
    BY <1>1
  <2>2. ASSUME NEW i \in 1 .. n - 1, i + 1 \in 1 .. n
        PROVE  p[i].todo # <<>> /\ Head(p[i].todo) = p[i + 1].rule /\ p[i].rule # p[i + 1].rule
    <3>1. i \in 1 .. n
      BY <1>1
    <3> QED BY <1>2, <2>2, <3>1 DEF Sane, PathSane
  <2>3. ASSUME n \in 1 .. n
        PROVE  p[n].todo # <<>> /\ Head(p[n].todo) = p[n + 1].rule /\ p[n].rule # p[n + 1].rule
    <3>1. s.path # <<>>
      BY <1>1, <2>3, SeqFacts
    <3>2. p[n] = TopOf(s) /\ p[n + 1] = f /\ f.rule = r /\ p[n].rule # r
      BY <1>2, <2>3 DEF TopOf, f, Visited
    <3> QED BY <3>1, <3>2
  <2> QED BY <2>1, <2>2, <2>3
<1>8. PathSane(t)
  <2>1. \A i \in 1 .. Len(p) - 1 : i \in 1 .. n
    BY <1>1, <1>2
  <2> QED BY <1>2, <1>3, <1>5, <1>6, <1>7, <2>1 DEF PathSane
<1>9. DigestsSane(t)
  BY <1>3 DEF Sane, DigestsSane, DirectAt, DefinitionAt, VersionAt
<1> QED BY <1>3, <1>8, <1>9 DEF Sane, t

\* Going on to the next input of the rule on top.
LEMMA AdvanceSane ==
    ASSUME NEW s, Sane(s), s.path # <<>>, TopOf(s).todo # <<>>, NEW overall, IsSeq(overall)
    PROVE  Sane(Advance(s, overall))
<1> DEFINE n == Len(s.path)
           f == [rule |-> TopOf(s).rule, todo |-> Tail(TopOf(s).todo), overall |-> overall]
           p == ReplaceTop(s.path, f)
           t == Advance(s, overall)
<1>1. n \in Nat \ {0} /\ n \in 1 .. n /\ FrameSane(TopOf(s), s) /\ IsSeq(s.path)
  BY TopSane DEF Sane, PathSane
<1>2. IsSeq(p) /\ Len(p) = n /\ \A i \in 1 .. n : p[i] = IF i = n THEN f ELSE s.path[i]
  BY <1>1, ReplaceFacts
<1>3. /\ t.inputs = s.inputs /\ t.changed = s.changed /\ t.revision = s.revision
      /\ t.target = s.target /\ t.path = p /\ t.digest = s.digest
      /\ t = [inputs |-> t.inputs, changed |-> t.changed, revision |-> t.revision,
              target |-> t.target, path |-> t.path, digest |-> t.digest]
  BY DEF Advance, WithPath
<1>4. FrameSane(f, t) /\ f.rule = TopOf(s).rule
  <2> DEFINE todo == TopOf(s).todo
  <2>1. todo \in Seq(Rules) /\ Len(todo) \in Nat
    BY <1>1, ListPlaces DEF FrameSane
  <2>2. /\ Tail(todo) \in Seq(Rules) /\ Len(Tail(todo)) = Len(todo) - 1
        /\ \A k \in 1 .. Len(Tail(todo)) : Tail(todo)[k] = todo[k + 1]
    BY <2>1, ListFront
  <2>3. \A k \in 1 .. Len(Tail(todo)) : k + 1 \in 1 .. Len(todo)
    BY <2>1, <2>2
  <2>4. \A k \in 1 .. Len(todo) : Lists(s.inputs[TopOf(s).rule], todo[k])
    BY <1>1 DEF FrameSane
  <2>5. \A k \in 1 .. Len(Tail(todo)) : Lists(s.inputs[TopOf(s).rule], Tail(todo)[k])
    BY <2>2, <2>3, <2>4
  <2> QED BY <1>1, <1>3, <2>2, <2>5 DEF FrameSane
<1> HIDE DEF f, p, t
<1>5. \A i \in 1 .. n : p[i].rule = s.path[i].rule /\ FrameSane(p[i], t)
  <2>1. \A i \in 1 .. n : FrameSane(s.path[i], t)
    BY <1>3 DEF Sane, PathSane, FrameSane
  <2> QED BY <1>2, <1>4, <2>1 DEF TopOf
<1>6. \A i, j \in 1 .. n : p[i].rule = p[j].rule => i = j
  BY <1>5 DEF Sane, PathSane
<1>7. \A i \in 1 .. n - 1 : p[i].todo # <<>> /\ Head(p[i].todo) = p[i + 1].rule /\ p[i].rule # p[i + 1].rule
  <2> TAKE i \in 1 .. n - 1
  <2>1. i \in 1 .. n /\ i + 1 \in 1 .. n /\ i # n
    BY <1>1
  <2> QED BY <1>2, <1>5, <2>1 DEF Sane, PathSane
<1>8. PathSane(t)
  BY <1>2, <1>3, <1>5, <1>6, <1>7 DEF PathSane
<1>9. DigestsSane(t)
  BY <1>3 DEF Sane, DigestsSane, DirectAt, DefinitionAt, VersionAt
<1> QED BY <1>3, <1>8, <1>9 DEF Sane, t

\* Leaving the rule on top with its digest.
LEMMA PopSane ==
    ASSUME NEW s, Sane(s), s.path # <<>>
    PROVE  Sane(Pop(s))
<1> DEFINE n == Len(s.path)
           r == TopOf(s).rule
           v == [overall |-> TopOf(s).overall, direct |-> DirectAt(s, r)]
           d == [s.digest EXCEPT ![r] = v]
           p == Popped(s.path)
           t == Pop(s)
<1>1. n \in Nat \ {0} /\ n \in 1 .. n /\ FrameSane(TopOf(s), s) /\ IsSeq(s.path) /\ r \in Rules
  BY TopSane DEF Sane, PathSane, FrameSane
<1>2. IsSeq(p) /\ Len(p) = n - 1 /\ \A i \in 1 .. n - 1 : p[i] = s.path[i]
  BY <1>1, FrontFacts
<1>3. /\ t.inputs = s.inputs /\ t.changed = s.changed /\ t.revision = s.revision
      /\ t.target = s.target /\ t.path = p /\ t.digest = d
      /\ t = [inputs |-> t.inputs, changed |-> t.changed, revision |-> t.revision,
              target |-> t.target, path |-> t.path, digest |-> t.digest]
  BY DEF Pop, WithPath
<1>4. v # NoDigest /\ v = [overall |-> v.overall, direct |-> DirectAt(s, r)]
  BY DEF NoDigest
<1>5. /\ d = [q \in Rules |-> d[q]]
      /\ \A q \in Rules : d[q] = IF q = r THEN v ELSE s.digest[q]
  <2>1. s.digest = [q \in Rules |-> s.digest[q]]
    BY DEF Sane, DigestsSane
  <2> HIDE DEF v, r
  <2> QED BY <2>1, <1>1
<1>6. \A q \in Rules : DirectAt(t, q) = DirectAt(s, q)
  BY <1>3 DEF DirectAt, DefinitionAt, VersionAt
<1> HIDE DEF p, t, v, d
<1>7. DigestsSane(t)
  <2>1. \A q \in Rules : q < t.target => t.digest[q] # NoDigest
    BY <1>3, <1>4, <1>5 DEF Sane, DigestsSane
  <2>2. \A q \in Rules : t.digest[q] # NoDigest =>
           t.digest[q] = [overall |-> t.digest[q].overall, direct |-> DirectAt(t, q)]
    <3> TAKE q \in Rules
    <3>1. CASE q = r
      BY <1>3, <1>4, <1>5, <1>6, <3>1
    <3>2. CASE q # r
      <4>1. t.digest[q] = s.digest[q] /\ DirectAt(t, q) = DirectAt(s, q)
        BY <1>3, <1>5, <1>6, <3>2
      <4> QED BY <4>1 DEF Sane, DigestsSane
    <3> QED BY <3>1, <3>2
  <2> QED BY <1>3, <1>5, <2>1, <2>2 DEF DigestsSane
<1>8. ASSUME NEW i \in 1 .. n - 1
      PROVE  FrameSane(p[i], t)
  <2>1. i \in 1 .. n /\ i # n
    BY <1>1
  <2>2. FrameSane(s.path[i], s) /\ s.path[i].rule # r
    BY <1>1, <2>1 DEF Sane, PathSane, TopOf
  <2>3. FrameSane(s.path[i], t)
    BY <1>3, <1>5, <2>2 DEF FrameSane
  <2> QED BY <1>2, <2>3
<1>9. PathSane(t)
  <2>1. \A i \in 1 .. n - 1 : i \in 1 .. n
    BY <1>1
  <2>2. \A i \in 1 .. n - 1 - 1 : i \in 1 .. n - 1 /\ i + 1 \in 1 .. n - 1
    BY <1>1
  <2>3. \A i, j \in 1 .. n - 1 : p[i].rule = p[j].rule => i = j
    BY <1>2, <2>1, Zenon DEF Sane, PathSane
  <2>4. \A i \in 1 .. n - 1 - 1 : p[i].todo # <<>> /\ Head(p[i].todo) = p[i + 1].rule /\ p[i].rule # p[i + 1].rule
    BY <1>2, <2>2, Zenon DEF Sane, PathSane
  <2> QED BY <1>2, <1>3, <1>8, <2>3, <2>4 DEF PathSane
<1> QED BY <1>3, <1>7, <1>9 DEF Sane, t

\* Leaving a target that has its digest.
LEMMA SkipSane ==
    ASSUME NEW s, Sane(s), s.target <= N, s.digest[s.target] # NoDigest
    PROVE  Sane(Skip(s))
<1> DEFINE t == Skip(s)
<1>1. /\ t.inputs = s.inputs /\ t.changed = s.changed /\ t.revision = s.revision
      /\ t.target = s.target + 1 /\ t.path = s.path /\ t.digest = s.digest
      /\ t = [inputs |-> t.inputs, changed |-> t.changed, revision |-> t.revision,
              target |-> t.target, path |-> t.path, digest |-> t.digest]
  BY DEF Skip
<1> HIDE DEF t
<1>2. t.target \in 1 .. N + 1 /\ \A r \in Rules : r < t.target => r < s.target \/ r = s.target
  BY <1>1, HashGraphAssumption DEF Sane, Rules
<1>3. PathSane(t)
  BY <1>1 DEF Sane, PathSane, FrameSane
<1>4. DigestsSane(t)
  BY <1>1, <1>2 DEF Sane, DigestsSane, DirectAt, DefinitionAt, VersionAt
<1> QED BY <1>1, <1>2, <1>3, <1>4 DEF Sane, t

\* The input a rule on top looks at is a rule.
LEMMA NextIsRule ==
    ASSUME NEW s, Sane(s), s.path # <<>>, TopOf(s).todo # <<>>
    PROVE  /\ Head(TopOf(s).todo) \in Rules
           /\ Lists(s.inputs[TopOf(s).rule], Head(TopOf(s).todo))
<1>1. FrameSane(TopOf(s), s)
  BY TopSane
<1>2. TopOf(s).todo \in Seq(Rules) /\ Len(TopOf(s).todo) \in Nat \ {0}
  BY <1>1, EmptyList DEF FrameSane
<1>3. Head(TopOf(s).todo) = TopOf(s).todo[1] /\ 1 \in 1 .. Len(TopOf(s).todo)
  BY <1>2
<1> QED BY <1>1, <1>2, <1>3, ListFront DEF FrameSane

\* Every turn of the traversal keeps the path and the digests sane.
LEMMA StepSane ==
    ASSUME NEW s, Sane(s), ~Final(s)
    PROVE  Sane(Step(s))
<1>1. CASE s.path = <<>>
  <2>1. s.target \in Rules /\ s.target <= N /\ ~Visited(s, s.target)
    BY <1>1, HashGraphAssumption, SeqFacts, EmptyIsSeq DEF Final, Sane, Rules, Visited
  <2> QED BY <1>1, <2>1, SkipSane, PushSane DEF Step
<1>2. CASE s.path # <<>> /\ TopOf(s).todo = <<>>
  BY <1>2, PopSane DEF Step
<1>3. CASE s.path # <<>> /\ TopOf(s).todo # <<>>
  <2> DEFINE next == Head(TopOf(s).todo)
             sofar == TopOf(s).overall
  <2>1. next \in Rules /\ IsSeq(sofar)
    BY <1>3, NextIsRule, TopSane DEF FrameSane
  <2>2. CASE next = TopOf(s).rule
    BY <1>3, <2>1, <2>2, AdvanceSane DEF Step
  <2>3. CASE next # TopOf(s).rule /\ s.digest[next] # NoDigest
    <3>1. IsSeq(Append(sofar, s.digest[next]))
      BY <2>1, AppendFacts
    <3> QED BY <1>3, <2>3, <3>1, AdvanceSane DEF Step
  <2>4. CASE next # TopOf(s).rule /\ s.digest[next] = NoDigest /\ Visited(s, next)
    <3>1. IsSeq(Append(sofar, <<"cycle", DefinitionAt(s, next)>>))
      BY <2>1, AppendFacts
    <3> QED BY <1>3, <2>4, <3>1, AdvanceSane DEF Step
  <2>5. CASE next # TopOf(s).rule /\ s.digest[next] = NoDigest /\ ~Visited(s, next)
    BY <1>3, <2>1, <2>5, PushSane DEF Step
  <2> QED BY <2>2, <2>3, <2>4, <2>5
<1> QED BY <1>1, <1>2, <1>3

LEMMA NowFacts ==
    /\ Now.inputs = inputs /\ Now.changed = changed /\ Now.revision = revision
    /\ Now.target = target /\ Now.path = path /\ Now.digest = digest
    /\ TopOf(Now) = Top
    /\ \A r \in Rules : DefinitionAt(Now, r) = Definition(r) /\ DirectAt(Now, r) = Direct(r)
  BY DEF Now, TopOf, Top, DefinitionAt, DirectAt, VersionAt, Definition, Direct, Version

WithTodo(f, x) == [f EXCEPT !.todo = x]

WithOverall(f, x) == [f EXCEPT !.overall = x]

LEMMA FrameUpdates ==
    ASSUME NEW f, f = [rule |-> f.rule, todo |-> f.todo, overall |-> f.overall], NEW x
    PROVE  /\ WithTodo(f, x) = [rule |-> f.rule, todo |-> x, overall |-> f.overall]
           /\ WithOverall(f, x) = [rule |-> f.rule, todo |-> f.todo, overall |-> x]
  BY DEF WithTodo, WithOverall

\* What the two updates of the frame on top do to it.
LEMMA TopUpdates ==
    ASSUME Sane(Now), HasInput
    PROVE  /\ [path EXCEPT ![Len(path)].todo = Tail(@)] =
                 ReplaceTop(path, [rule |-> Top.rule, todo |-> Tail(Top.todo), overall |-> Top.overall])
           /\ \A d : Fold(d) =
                 ReplaceTop(path, [rule |-> Top.rule, todo |-> Tail(Top.todo),
                                   overall |-> Append(Top.overall, d)])
<1>1. path # <<>> /\ IsSeq(path)
  BY NowFacts DEF HasInput, Sane, PathSane
<1>2. Len(path) \in Nat \ {0} /\ DOMAIN path = 1 .. Len(path) /\ Len(path) \in DOMAIN path
  BY <1>1, SeqFacts
<1>3. Top = path[Len(path)] /\ Top = [rule |-> Top.rule, todo |-> Top.todo, overall |-> Top.overall]
  BY <1>1, NowFacts, TopSane DEF FrameSane, Top
<1> DEFINE n == Len(path)
           todo == Tail(Top.todo)
<1> HIDE DEF n
<1>4. [path EXCEPT ![n].todo = Tail(@)] = [path EXCEPT ![n] = [rule |-> Top.rule, todo |-> todo, overall |-> Top.overall]]
  <2>1. [path[n] EXCEPT !.todo = Tail(path[n].todo)] = [rule |-> Top.rule, todo |-> todo, overall |-> Top.overall]
    <3>1. WithTodo(Top, todo) = [rule |-> Top.rule, todo |-> todo, overall |-> Top.overall]
      BY <1>3, FrameUpdates, Zenon
    <3>2. path[n] = Top
      BY <1>3 DEF n
    <3> QED BY <3>1, <3>2 DEF WithTodo
  <2> QED BY <1>2, <2>1, Zenon
<1>5. ASSUME NEW d
      PROVE  Fold(d) = [path EXCEPT ![n] = [rule |-> Top.rule, todo |-> todo, overall |-> Append(Top.overall, d)]]
  <2> DEFINE mid == [path EXCEPT ![n] = [rule |-> Top.rule, todo |-> todo, overall |-> Top.overall]]
  <2>1. Fold(d) = [[path EXCEPT ![n].todo = Tail(@)] EXCEPT ![n].overall = Append(@, d)]
    BY DEF Fold, n
  <2>2. mid[n] = [rule |-> Top.rule, todo |-> todo, overall |-> Top.overall]
    BY <1>2 DEF n
  <2>3. Fold(d) = [mid EXCEPT ![n] = [rule |-> Top.rule, todo |-> todo, overall |-> Append(Top.overall, d)]]
    <3>1. [mid[n] EXCEPT !.overall = Append(mid[n].overall, d)] =
             [rule |-> Top.rule, todo |-> todo, overall |-> Append(Top.overall, d)]
      <4> HIDE DEF mid, todo
      <4>1. PICK f : f = mid[n]
        OBVIOUS
      <4>2. f.rule = Top.rule /\ f.todo = todo /\ f.overall = Top.overall
        BY <2>2, <4>1
      <4>3. f = [rule |-> f.rule, todo |-> f.todo, overall |-> f.overall]
        BY <2>2, <4>1, <4>2
      <4>4. WithOverall(f, Append(Top.overall, d)) =
               [rule |-> f.rule, todo |-> f.todo, overall |-> Append(Top.overall, d)]
        BY <4>3, FrameUpdates, Zenon
      <4> QED BY <4>1, <4>2, <4>4 DEF WithOverall
    <3>2. [mid EXCEPT ![n].overall = Append(@, d)] = [mid EXCEPT ![n] = [mid[n] EXCEPT !.overall = Append(mid[n].overall, d)]]
      OBVIOUS
    <3> HIDE DEF mid
    <3> QED BY <1>4, <2>1, <3>1, <3>2, Zenon DEF mid
  <2> QED BY <2>3, Zenon
<1> QED BY <1>4, <1>5 DEF ReplaceTop, n

\* The turns of the traversal of one revision.
Turn == NextTarget \/ SelfInput \/ FinishedInput \/ BackEdge \/ Descend \/ Finish

LEMMA TurnIsStep ==
    ASSUME Sane(Now), Turn
    PROVE  ~Final(Now) /\ Now' = Step(Now)
<1> USE NowFacts
<1>1. ASSUME NEW p, NEW d, path' = p, digest' = d, UNCHANGED <<inputs, changed, revision, target>>
      PROVE  Now' = WithPath(Now, p, d)
  BY <1>1 DEF Now, WithPath
<1>2. Final(Now) <=> path = <<>> /\ target > N
  BY DEF Final
<1>3. CASE NextTarget
  <2>1. path = <<>> /\ target <= N
    BY <1>3 DEF NextTarget
  <2>2. ~Final(Now)
    BY <1>2, <2>1, HashGraphAssumption DEF Sane
  <2>3. CASE digest[target] # NoDigest
    <3>1. Now' = Skip(Now)
      BY <1>3, <2>3 DEF NextTarget, Skip, Now
    <3> QED BY <2>1, <2>2, <2>3, <3>1 DEF Step
  <2>4. CASE digest[target] = NoDigest
    <3>1. path' = Append(path, [rule |-> target, todo |-> inputs[target], overall |-> <<>>])
          /\ digest' = digest /\ UNCHANGED <<inputs, changed, revision, target>>
      BY <1>3, <2>4 DEF NextTarget, Enter, Frame
    <3>2. Now' = Push(Now, target)
      BY <1>1, <3>1, Zenon DEF Push
    <3> QED BY <2>1, <2>2, <2>4, <3>2 DEF Step
  <2> QED BY <2>3, <2>4
<1>4. ASSUME HasInput
      PROVE  /\ ~Final(Now) /\ Now.path # <<>> /\ TopOf(Now).todo # <<>>
             /\ NextInput = Head(TopOf(Now).todo) /\ digest[Top.rule] = NoDigest
             /\ NextInput \in Rules
             /\ OnPath(NextInput) <=> Visited(Now, NextInput)
  <2>1. path # <<>> /\ Top.todo # <<>>
    BY <1>4 DEF HasInput
  <2>2. digest[Top.rule] = NoDigest /\ NextInput = Head(Top.todo) /\ NextInput \in Rules
    BY <2>1, TopSane, NextIsRule DEF FrameSane, NextInput
  <2>3. DOMAIN path = 1 .. Len(path)
    BY SeqFacts DEF Sane, PathSane
  <2> QED BY <1>2, <2>1, <2>2, <2>3 DEF OnPath, Visited
<1>5. ASSUME HasInput, UNCHANGED <<inputs, changed, revision, target, digest>>, NEW d,
             path' = ReplaceTop(path, [rule |-> Top.rule, todo |-> Tail(Top.todo), overall |-> d])
      PROVE  Now' = Advance(Now, d)
  BY <1>1, <1>5, Zenon DEF Advance
<1>6. CASE SelfInput
  <2>1. HasInput /\ NextInput = Top.rule /\ UNCHANGED <<inputs, changed, revision, target, digest>>
    BY <1>6 DEF SelfInput
  <2>2. Now' = Advance(Now, Top.overall)
    BY <1>5, <1>6, <2>1, TopUpdates DEF SelfInput
  <2> QED BY <1>4, <2>1, <2>2 DEF Step
<1>7. CASE FinishedInput
  <2>1. HasInput /\ digest[NextInput] # NoDigest /\ UNCHANGED <<inputs, changed, revision, target, digest>>
    BY <1>7 DEF FinishedInput
  <2>2. Now' = Advance(Now, Append(Top.overall, digest[NextInput]))
    BY <1>5, <1>7, <2>1, TopUpdates, Zenon DEF FinishedInput
  <2>3. NextInput # Top.rule
    BY <1>4, <2>1
  <2> QED BY <1>4, <2>1, <2>2, <2>3 DEF Step
<1>8. CASE BackEdge
  <2>1. /\ HasInput /\ NextInput # Top.rule /\ digest[NextInput] = NoDigest /\ OnPath(NextInput)
        /\ UNCHANGED <<inputs, changed, revision, target, digest>>
    BY <1>8 DEF BackEdge
  <2>2. Now' = Advance(Now, Append(Top.overall, <<"cycle", Definition(NextInput)>>))
    BY <1>5, <1>8, <2>1, TopUpdates, Zenon DEF BackEdge
  <2>3. Definition(NextInput) = DefinitionAt(Now, NextInput)
    BY <1>4, <2>1
  <2> QED BY <1>4, <2>1, <2>2, <2>3 DEF Step
<1>9. CASE Descend
  <2>1. /\ HasInput /\ digest[NextInput] = NoDigest /\ ~OnPath(NextInput)
        /\ UNCHANGED <<inputs, changed, revision, target, digest>>
        /\ path' = Append(path, [rule |-> NextInput, todo |-> inputs[NextInput], overall |-> <<>>])
    BY <1>9 DEF Descend, Enter, Frame
  <2>2. Now' = Push(Now, NextInput)
    BY <1>1, <2>1, Zenon DEF Push
  <2>3. NextInput # Top.rule
    <3>1. Len(path) \in DOMAIN path
      BY <2>1, SeqFacts DEF HasInput, Sane, PathSane
    <3> QED BY <2>1, <3>1 DEF OnPath, Top
  <2> QED BY <1>4, <2>1, <2>2, <2>3 DEF Step
<1>10. CASE Finish
  <2>1. path # <<>> /\ Top.todo = <<>> /\ UNCHANGED <<inputs, changed, revision, target>>
    BY <1>10 DEF Finish
  <2>2. Top.rule \in Rules
    BY <2>1, TopSane DEF FrameSane
  <2>3. Now' = Pop(Now)
    BY <1>1, <1>10, <2>1, <2>2, Zenon DEF Finish, Pop
  <2> QED BY <1>2, <2>1, <2>3 DEF Step
<1> QED BY <1>3, <1>6, <1>7, <1>8, <1>9, <1>10 DEF Turn

-----------------------------------------------------------------------------
(* The two revisions side by side.                                         *)

\* The two traversals are at the same place.
Match(s, c) ==
    /\ s.inputs = c.inputs /\ s.changed = c.changed /\ s.target = c.target
    /\ s.revision = "from" /\ c.revision = "to"
    /\ Len(s.path) = Len(c.path)
    /\ \A i \in 1 .. Len(c.path) : s.path[i].rule = c.path[i].rule /\ s.path[i].todo = c.path[i].todo
    /\ \A r \in Rules : s.digest[r] = NoDigest <=> c.digest[r] = NoDigest

\* What differs belongs to D ...
OnlyIn(s, c, D) ==
    /\ \A r \in Rules : s.digest[r] # c.digest[r] => r \in D
    /\ \A i \in 1 .. Len(c.path) : s.path[i].overall # c.path[i].overall => c.path[i].rule \in D

\* ... and what belongs to D differs, or will by an input still to be folded in.
AllOf(s, c, D) ==
    /\ \A r \in Rules \cap D : c.digest[r] # NoDigest => s.digest[r] # c.digest[r]
    /\ \A i \in 1 .. Len(c.path) : c.path[i].rule \in D \ c.changed[2] =>
          \/ s.path[i].overall # c.path[i].overall
          \/ \E k \in 1 .. Len(c.path[i].todo) :
                c.path[i].todo[k] # c.path[i].rule /\ c.path[i].todo[k] \in D

\* D is the changed rules and the rules with another one of D among their inputs.
DependentsIn(D, c) ==
    /\ D \subseteq Rules /\ c.changed[2] \subseteq D
    /\ c.changed[1] \in {"definition", "source"}
    /\ \A r, i \in Rules : r # i /\ Lists(c.inputs[r], i) /\ i \in D => r \in D
    /\ \A r \in D \ c.changed[2] : \E i \in D : r # i /\ Lists(c.inputs[r], i)

Together(s, c, D) ==
    Sane(s) /\ Sane(c) /\ Match(s, c) /\ DependentsIn(D, c) /\ OnlyIn(s, c, D)

Follows(s, c, t, d, D) ==
    Match(t, d) /\ OnlyIn(t, d, D) /\ (AllOf(s, c, D) => AllOf(t, d, D))

LEMMA SkipTogether ==
    ASSUME NEW s, NEW c, NEW D, Together(s, c, D)
    PROVE  Follows(s, c, Skip(s), Skip(c), D)
  BY DEF Together, Follows, Match, OnlyIn, AllOf, Skip

LEMMA PushedPath ==
    ASSUME NEW s, Sane(s), NEW r
    PROVE  LET t == Push(s, r)
           IN  /\ t.inputs = s.inputs /\ t.changed = s.changed /\ t.revision = s.revision
               /\ t.target = s.target /\ t.digest = s.digest
               /\ Len(s.path) \in Nat /\ Len(t.path) = Len(s.path) + 1
               /\ \A i \in 1 .. Len(s.path) : t.path[i] = s.path[i]
               /\ t.path[Len(s.path) + 1] = [rule |-> r, todo |-> s.inputs[r], overall |-> <<>>]
<1>1. IsSeq(s.path)
  BY DEF Sane, PathSane
<1> DEFINE e == [rule |-> r, todo |-> s.inputs[r], overall |-> <<>>]
           p == Append(s.path, e)
<1>2. Push(s, r) = WithPath(s, p, s.digest)
  BY DEF Push
<1> HIDE DEF e
<1>3. /\ Len(p) = Len(s.path) + 1 /\ p[Len(s.path) + 1] = e
      /\ \A i \in 1 .. Len(s.path) : p[i] = s.path[i]
  BY <1>1, AppendFacts
<1>4. Len(s.path) \in Nat
  BY <1>1, SeqFacts
<1> HIDE DEF p
<1>5. LET t == WithPath(s, p, s.digest)
      IN  /\ t.inputs = s.inputs /\ t.changed = s.changed /\ t.revision = s.revision
          /\ t.target = s.target /\ t.digest = s.digest /\ t.path = p
  BY DEF WithPath
<1> QED BY <1>2, <1>3, <1>4, <1>5 DEF e

LEMMA PushTogether ==
    ASSUME NEW s, NEW c, NEW D, Together(s, c, D), NEW r \in Rules
    PROVE  Follows(s, c, Push(s, r), Push(c, r), D)
<1> DEFINE t == Push(s, r)
           d == Push(c, r)
           n == Len(c.path)
<1>1. Sane(s) /\ Sane(c) /\ Match(s, c) /\ DependentsIn(D, c) /\ OnlyIn(s, c, D)
  BY DEF Together
<1>2. /\ t.inputs = s.inputs /\ t.changed = s.changed /\ t.revision = s.revision
      /\ t.target = s.target /\ t.digest = s.digest
      /\ Len(t.path) = n + 1
      /\ \A i \in 1 .. n : t.path[i] = s.path[i]
      /\ t.path[n + 1] = [rule |-> r, todo |-> c.inputs[r], overall |-> <<>>]
  BY <1>1, PushedPath DEF Match
<1>3. /\ d.inputs = c.inputs /\ d.changed = c.changed /\ d.revision = c.revision
      /\ d.target = c.target /\ d.digest = c.digest
      /\ n \in Nat /\ Len(d.path) = n + 1
      /\ \A i \in 1 .. n : d.path[i] = c.path[i]
      /\ d.path[n + 1] = [rule |-> r, todo |-> c.inputs[r], overall |-> <<>>]
  BY <1>1, PushedPath
<1> HIDE DEF t, d
<1>4. \A i \in 1 .. n + 1 : i \in 1 .. n \/ i = n + 1
  BY <1>3
<1>5. Match(t, d)
  <2>1. \A i \in 1 .. n + 1 : t.path[i].rule = d.path[i].rule /\ t.path[i].todo = d.path[i].todo
    <3> TAKE i \in 1 .. n + 1
    <3>1. CASE i = n + 1
      BY <1>2, <1>3, <3>1
    <3>2. CASE i \in 1 .. n
      <4>1. t.path[i] = s.path[i] /\ d.path[i] = c.path[i]
        BY <1>2, <1>3, <3>2
      <4> QED BY <1>1, <3>2, <4>1 DEF Match
    <3> QED BY <1>4, <3>1, <3>2
  <2> QED BY <1>1, <1>2, <1>3, <2>1 DEF Match
<1>6. OnlyIn(t, d, D)
  <2>1. \A i \in 1 .. n + 1 : t.path[i].overall # d.path[i].overall => d.path[i].rule \in D
    <3> TAKE i \in 1 .. n + 1
    <3>1. CASE i = n + 1
      BY <1>2, <1>3, <3>1
    <3>2. CASE i \in 1 .. n
      <4>1. t.path[i] = s.path[i] /\ d.path[i] = c.path[i]
        BY <1>2, <1>3, <3>2
      <4> QED BY <1>1, <3>2, <4>1 DEF OnlyIn
    <3> QED BY <1>4, <3>1, <3>2
  <2> QED BY <1>1, <1>2, <1>3, <2>1 DEF OnlyIn
<1>7. ASSUME AllOf(s, c, D)
      PROVE  AllOf(t, d, D)
  <2>1. ASSUME r \in D \ c.changed[2]
        PROVE  \E k \in 1 .. Len(c.inputs[r]) : c.inputs[r][k] # r /\ c.inputs[r][k] \in D
    BY <1>1, <2>1 DEF DependentsIn, Lists
  <2>2. ASSUME NEW i \in 1 .. n + 1, d.path[i].rule \in D \ d.changed[2]
        PROVE  \/ t.path[i].overall # d.path[i].overall
               \/ \E k \in 1 .. Len(d.path[i].todo) :
                     d.path[i].todo[k] # d.path[i].rule /\ d.path[i].todo[k] \in D
    <3>1. CASE i = n + 1
      <4>1. d.path[i].rule = r /\ d.path[i].todo = c.inputs[r]
        BY <1>3, <3>1
      <4> QED BY <1>3, <2>1, <2>2, <4>1
    <3>2. CASE i \in 1 .. n
      <4>1. d.path[i] = c.path[i] /\ t.path[i] = s.path[i] /\ d.changed = c.changed
        BY <1>2, <1>3, <3>2
      <4> QED BY <1>7, <2>2, <3>2, <4>1 DEF AllOf
    <3> QED BY <1>4, <3>1, <3>2
  <2>3. \A q \in Rules \cap D : d.digest[q] # NoDigest => t.digest[q] # d.digest[q]
    BY <1>2, <1>3, <1>7 DEF AllOf
  <2> QED BY <1>3, <2>2, <2>3 DEF AllOf
<1> QED BY <1>5, <1>6, <1>7 DEF Follows, t, d

LEMMA AdvancedPath ==
    ASSUME NEW s, Sane(s), s.path # <<>>, NEW overall
    PROVE  LET t == Advance(s, overall)
           IN  /\ t.inputs = s.inputs /\ t.changed = s.changed /\ t.revision = s.revision
               /\ t.target = s.target /\ t.digest = s.digest
               /\ Len(t.path) = Len(s.path)
               /\ \A i \in 1 .. Len(s.path) : i # Len(s.path) => t.path[i] = s.path[i]
               /\ t.path[Len(s.path)] =
                     [rule |-> TopOf(s).rule, todo |-> Tail(TopOf(s).todo), overall |-> overall]
<1>1. IsSeq(s.path) /\ Len(s.path) \in 1 .. Len(s.path)
  BY TopSane DEF Sane, PathSane
<1> DEFINE e == [rule |-> TopOf(s).rule, todo |-> Tail(TopOf(s).todo), overall |-> overall]
           p == ReplaceTop(s.path, e)
<1>2. Advance(s, overall) = WithPath(s, p, s.digest)
  BY DEF Advance
<1> HIDE DEF e
<1>3. /\ Len(p) = Len(s.path) /\ p[Len(s.path)] = e
      /\ \A i \in 1 .. Len(s.path) : i # Len(s.path) => p[i] = s.path[i]
  BY <1>1, ReplaceFacts
<1> HIDE DEF p
<1>4. LET t == WithPath(s, p, s.digest)
      IN  /\ t.inputs = s.inputs /\ t.changed = s.changed /\ t.revision = s.revision
          /\ t.target = s.target /\ t.digest = s.digest /\ t.path = p
  BY DEF WithPath
<1> QED BY <1>2, <1>3, <1>4 DEF e

\* The input at hand is folded into both, or into neither.
LEMMA AdvanceTogether ==
    ASSUME NEW s, NEW c, NEW D, Together(s, c, D), c.path # <<>>, TopOf(c).todo # <<>>, NEW o, NEW u,
           o # u => TopOf(c).rule \in D,
           TopOf(s).overall # TopOf(c).overall => o # u
    PROVE  /\ Match(Advance(s, o), Advance(c, u)) /\ OnlyIn(Advance(s, o), Advance(c, u), D)
           /\ /\ AllOf(s, c, D)
              /\ Head(TopOf(c).todo) # TopOf(c).rule /\ Head(TopOf(c).todo) \in D => o # u
              => AllOf(Advance(s, o), Advance(c, u), D)
<1> DEFINE t == Advance(s, o)
           d == Advance(c, u)
           n == Len(c.path)
           todo == TopOf(c).todo
<1>1. /\ Sane(s) /\ Sane(c) /\ Match(s, c) /\ DependentsIn(D, c) /\ OnlyIn(s, c, D)
      /\ n \in 1 .. n /\ FrameSane(TopOf(c), c)
  BY TopSane DEF Together
<1>2. s.path # <<>> /\ Len(s.path) = n /\ TopOf(s).rule = TopOf(c).rule /\ TopOf(s).todo = todo
  <2>1. IsSeq(s.path) /\ Len(s.path) = n /\ n # 0
    BY <1>1 DEF Sane, PathSane, Match
  <2> QED BY <1>1, <2>1, SeqFacts DEF TopOf, Match
<1>3. /\ t.inputs = s.inputs /\ t.changed = s.changed /\ t.revision = s.revision
      /\ t.target = s.target /\ t.digest = s.digest /\ Len(t.path) = n
      /\ \A i \in 1 .. n : i # n => t.path[i] = s.path[i]
      /\ t.path[n] = [rule |-> TopOf(c).rule, todo |-> Tail(todo), overall |-> o]
  BY <1>1, <1>2, AdvancedPath
<1>4. /\ d.inputs = c.inputs /\ d.changed = c.changed /\ d.revision = c.revision
      /\ d.target = c.target /\ d.digest = c.digest /\ Len(d.path) = n
      /\ \A i \in 1 .. n : i # n => d.path[i] = c.path[i]
      /\ d.path[n] = [rule |-> TopOf(c).rule, todo |-> Tail(todo), overall |-> u]
  BY <1>1, AdvancedPath
<1> HIDE DEF t, d
<1>5. /\ t.path[n].rule = TopOf(c).rule /\ t.path[n].todo = Tail(todo) /\ t.path[n].overall = o
      /\ d.path[n].rule = TopOf(c).rule /\ d.path[n].todo = Tail(todo) /\ d.path[n].overall = u
  <2> HIDE DEF todo
  <2>1. t.path[n].rule = TopOf(c).rule /\ t.path[n].todo = Tail(todo) /\ t.path[n].overall = o
    BY <1>3
  <2>2. d.path[n].rule = TopOf(c).rule /\ d.path[n].todo = Tail(todo) /\ d.path[n].overall = u
    BY <1>4
  <2> QED BY <2>1, <2>2
<1>6. Match(t, d)
  <2>1. \A i \in 1 .. n : t.path[i].rule = d.path[i].rule /\ t.path[i].todo = d.path[i].todo
    <3> TAKE i \in 1 .. n
    <3>1. CASE i = n
      BY <1>5, <3>1
    <3>2. CASE i # n
      <4>1. t.path[i] = s.path[i] /\ d.path[i] = c.path[i]
        BY <1>3, <1>4, <3>2
      <4> QED BY <1>1, <4>1 DEF Match
    <3> QED BY <3>1, <3>2
  <2> QED BY <1>1, <1>3, <1>4, <2>1 DEF Match
<1>7. OnlyIn(t, d, D)
  <2>1. \A i \in 1 .. n : t.path[i].overall # d.path[i].overall => d.path[i].rule \in D
    <3> TAKE i \in 1 .. n
    <3>1. CASE i = n
      BY <1>5, <3>1
    <3>2. CASE i # n
      <4>1. t.path[i] = s.path[i] /\ d.path[i] = c.path[i]
        BY <1>3, <1>4, <3>2
      <4> QED BY <1>1, <4>1 DEF OnlyIn
    <3> QED BY <3>1, <3>2
  <2> QED BY <1>1, <1>3, <1>4, <2>1 DEF OnlyIn
<1>8. ASSUME AllOf(s, c, D), Head(todo) # TopOf(c).rule /\ Head(todo) \in D => o # u
      PROVE  AllOf(t, d, D)
  <2>1. /\ todo \in Seq(Rules) /\ Len(todo) \in Nat \ {0} /\ Head(todo) = todo[1]
        /\ Len(Tail(todo)) = Len(todo) - 1
        /\ \A k \in 1 .. Len(Tail(todo)) : Tail(todo)[k] = todo[k + 1]
    BY <1>1, EmptyList, ListFront DEF FrameSane
  <2>2. ASSUME TopOf(c).rule \in D \ c.changed[2], o = u
        PROVE  \E k \in 1 .. Len(Tail(todo)) : Tail(todo)[k] # TopOf(c).rule /\ Tail(todo)[k] \in D
    <3>1. PICK k \in 1 .. Len(todo) : todo[k] # TopOf(c).rule /\ todo[k] \in D
      BY <1>1, <1>8, <2>2 DEF AllOf, TopOf, Match
    <3>2. k # 1
      BY <1>8, <2>1, <2>2, <3>1
    <3>3. k - 1 \in 1 .. Len(Tail(todo)) /\ k - 1 + 1 = k
      BY <2>1, <3>2
    <3> QED BY <2>1, <3>1, <3>3, Zenon
  <2>3. ASSUME NEW i \in 1 .. n, d.path[i].rule \in D \ d.changed[2]
        PROVE  \/ t.path[i].overall # d.path[i].overall
               \/ \E k \in 1 .. Len(d.path[i].todo) :
                     d.path[i].todo[k] # d.path[i].rule /\ d.path[i].todo[k] \in D
    <3>1. CASE i = n
      <4>1. d.path[i].rule = TopOf(c).rule /\ d.path[i].todo = Tail(todo) /\ d.changed = c.changed
            /\ t.path[i].overall = o /\ d.path[i].overall = u
        BY <1>4, <1>5, <3>1, Zenon
      <4> QED BY <2>2, <2>3, <4>1
    <3>2. CASE i # n
      <4>1. d.path[i] = c.path[i] /\ t.path[i] = s.path[i] /\ d.changed = c.changed
        BY <1>3, <1>4, <3>2
      <4> QED BY <1>8, <2>3, <4>1, Zenon DEF AllOf
    <3> QED BY <3>1, <3>2
  <2>4. \A q \in Rules \cap D : d.digest[q] # NoDigest => t.digest[q] # d.digest[q]
    BY <1>3, <1>4, <1>8 DEF AllOf
  <2> QED BY <1>4, <2>3, <2>4 DEF AllOf
<1> QED BY <1>6, <1>7, <1>8 DEF t, d

\* A rule's own digest input moves exactly when its definition or source does.
LEMMA DirectMoves ==
    ASSUME NEW s, NEW c, NEW D, Match(s, c), DependentsIn(D, c), NEW r \in Rules
    PROVE  /\ DirectAt(s, r) # DirectAt(c, r) <=> r \in c.changed[2]
           /\ DefinitionAt(s, r) # DefinitionAt(c, r) => r \in c.changed[2]
<1>1. /\ VersionAt(s, "definition", r) = 1 /\ VersionAt(s, "source", r) = 1
      /\ s.inputs[r] = c.inputs[r]
  BY DEF VersionAt, Match
<1>2. /\ r \notin c.changed[2] => VersionAt(c, "definition", r) = 1 /\ VersionAt(c, "source", r) = 1
      /\ r \in c.changed[2] => VersionAt(c, "definition", r) = 2 \/ VersionAt(c, "source", r) = 2
  BY DEF VersionAt, Match, DependentsIn
<1> QED BY <1>1, <1>2 DEF DirectAt, DefinitionAt

LEMMA PoppedPath ==
    ASSUME NEW s, Sane(s), s.path # <<>>
    PROVE  LET t == Pop(s)
               v == [overall |-> TopOf(s).overall, direct |-> DirectAt(s, TopOf(s).rule)]
           IN  /\ t.inputs = s.inputs /\ t.changed = s.changed /\ t.revision = s.revision
               /\ t.target = s.target /\ v # NoDigest
               /\ Len(t.path) = Len(s.path) - 1
               /\ \A i \in 1 .. Len(s.path) - 1 : t.path[i] = s.path[i]
               /\ \A q \in Rules : t.digest[q] = IF q = TopOf(s).rule THEN v ELSE s.digest[q]
<1> DEFINE v == [overall |-> TopOf(s).overall, direct |-> DirectAt(s, TopOf(s).rule)]
           d == [s.digest EXCEPT ![TopOf(s).rule] = v]
<1>1. IsSeq(s.path) /\ s.digest = [q \in Rules |-> s.digest[q]] /\ v # NoDigest
  BY Zenon DEF Sane, PathSane, DigestsSane, NoDigest
<1>2. \A q \in Rules : d[q] = IF q = TopOf(s).rule THEN v ELSE s.digest[q]
  <2> HIDE DEF v
  <2> QED BY <1>1
<1> HIDE DEF d, v
<1>3. Pop(s) = WithPath(s, Popped(s.path), d)
  BY DEF Pop, d, v
<1> QED BY <1>1, <1>2, <1>3, FrontFacts DEF WithPath, v

\* The rule on top is finished in both.
LEMMA PopTogether ==
    ASSUME NEW s, NEW c, NEW D, Together(s, c, D), c.path # <<>>, TopOf(c).todo = <<>>
    PROVE  Follows(s, c, Pop(s), Pop(c), D)
<1> DEFINE t == Pop(s)
           d == Pop(c)
           n == Len(c.path)
           r == TopOf(c).rule
           v == [overall |-> TopOf(s).overall, direct |-> DirectAt(s, r)]
           w == [overall |-> TopOf(c).overall, direct |-> DirectAt(c, r)]
<1>1. /\ Sane(s) /\ Sane(c) /\ Match(s, c) /\ DependentsIn(D, c) /\ OnlyIn(s, c, D)
      /\ n \in 1 .. n /\ FrameSane(TopOf(c), c) /\ n \in Nat /\ r \in Rules
  BY TopSane DEF Together, FrameSane
<1>2. s.path # <<>> /\ Len(s.path) = n /\ TopOf(s).rule = r
  <2>1. IsSeq(s.path) /\ Len(s.path) = n /\ n # 0
    BY <1>1 DEF Sane, PathSane, Match
  <2> QED BY <1>1, <2>1, SeqFacts DEF TopOf, Match
<1>3. /\ t.inputs = s.inputs /\ t.changed = s.changed /\ t.revision = s.revision
      /\ t.target = s.target /\ v # NoDigest /\ Len(t.path) = n - 1
      /\ \A i \in 1 .. n - 1 : t.path[i] = s.path[i]
      /\ \A q \in Rules : t.digest[q] = IF q = r THEN v ELSE s.digest[q]
  <2> DEFINE x == [overall |-> TopOf(s).overall, direct |-> DirectAt(s, TopOf(s).rule)]
  <2>1. /\ t.inputs = s.inputs /\ t.changed = s.changed /\ t.revision = s.revision
        /\ t.target = s.target /\ x # NoDigest
        /\ Len(t.path) = Len(s.path) - 1
        /\ \A i \in 1 .. Len(s.path) - 1 : t.path[i] = s.path[i]
        /\ \A q \in Rules : t.digest[q] = IF q = TopOf(s).rule THEN x ELSE s.digest[q]
    BY <1>1, <1>2, PoppedPath, Zenon
  <2>2. x = v
    BY <1>2
  <2> HIDE DEF x, v, t
  <2> QED BY <1>2, <2>1, <2>2
<1>4. /\ d.inputs = c.inputs /\ d.changed = c.changed /\ d.revision = c.revision
      /\ d.target = c.target /\ w # NoDigest /\ Len(d.path) = n - 1
      /\ \A i \in 1 .. n - 1 : d.path[i] = c.path[i]
      /\ \A q \in Rules : d.digest[q] = IF q = r THEN w ELSE c.digest[q]
  BY <1>1, PoppedPath
<1>5. v # w <=> TopOf(s).overall # TopOf(c).overall \/ DirectAt(s, r) # DirectAt(c, r)
  OBVIOUS
<1>6. v # w => r \in D
  <2>1. TopOf(s).overall # TopOf(c).overall => r \in D
    BY <1>1, <1>2 DEF OnlyIn, TopOf
  <2>2. DirectAt(s, r) # DirectAt(c, r) => r \in D
    BY <1>1, DirectMoves DEF DependentsIn
  <2> QED BY <1>5, <2>1, <2>2
<1>7. AllOf(s, c, D) /\ r \in D => v # w
  <2>1. r \in c.changed[2] => DirectAt(s, r) # DirectAt(c, r)
    BY <1>1, DirectMoves
  <2>2. AllOf(s, c, D) /\ r \in D \ c.changed[2] => TopOf(s).overall # TopOf(c).overall
    <3>1. Len(TopOf(c).todo) = 0
      BY EmptyList
    <3> QED BY <1>1, <1>2, <3>1 DEF AllOf, TopOf
  <2> QED BY <1>5, <2>1, <2>2
<1>8. \A i \in 1 .. n - 1 : i \in 1 .. n
  BY <1>1
<1> HIDE DEF t, d, v, w
<1>9. Match(t, d)
  <2>1. \A i \in 1 .. n - 1 : t.path[i].rule = d.path[i].rule /\ t.path[i].todo = d.path[i].todo
    <3> TAKE i \in 1 .. n - 1
    <3>1. d.path[i] = c.path[i] /\ t.path[i] = s.path[i]
      BY <1>3, <1>4
    <3> QED BY <1>1, <1>8, <3>1 DEF Match
  <2>2. \A q \in Rules : t.digest[q] = NoDigest <=> d.digest[q] = NoDigest
    BY <1>1, <1>3, <1>4 DEF Match
  <2> QED BY <1>1, <1>3, <1>4, <2>1, <2>2 DEF Match
<1>10. OnlyIn(t, d, D)
  <2>1. \A q \in Rules : t.digest[q] # d.digest[q] => q \in D
    BY <1>1, <1>3, <1>4, <1>6 DEF OnlyIn
  <2>2. \A i \in 1 .. n - 1 : t.path[i].overall # d.path[i].overall => d.path[i].rule \in D
    <3> TAKE i \in 1 .. n - 1
    <3>1. d.path[i] = c.path[i] /\ t.path[i] = s.path[i]
      BY <1>3, <1>4
    <3> QED BY <1>1, <1>8, <3>1 DEF OnlyIn
  <2> QED BY <1>4, <2>1, <2>2 DEF OnlyIn
<1>11. ASSUME AllOf(s, c, D)
       PROVE  AllOf(t, d, D)
  <2>1. ASSUME NEW q \in Rules \cap D, d.digest[q] # NoDigest
        PROVE  t.digest[q] # d.digest[q]
    <3>1. t.digest[q] = (IF q = r THEN v ELSE s.digest[q]) /\ d.digest[q] = (IF q = r THEN w ELSE c.digest[q])
      BY <1>3, <1>4
    <3>2. CASE q = r
      BY <1>7, <1>11, <3>1, <3>2
    <3>3. CASE q # r
      BY <1>11, <2>1, <3>1, <3>3 DEF AllOf
    <3> QED BY <3>2, <3>3
  <2>2. ASSUME NEW i \in 1 .. n - 1, d.path[i].rule \in D \ d.changed[2]
        PROVE  \/ t.path[i].overall # d.path[i].overall
               \/ \E k \in 1 .. Len(d.path[i].todo) :
                     d.path[i].todo[k] # d.path[i].rule /\ d.path[i].todo[k] \in D
    <3>1. d.path[i] = c.path[i] /\ t.path[i] = s.path[i] /\ d.changed = c.changed
      BY <1>3, <1>4
    <3> QED BY <1>8, <1>11, <2>2, <3>1 DEF AllOf
  <2> QED BY <1>4, <2>1, <2>2 DEF AllOf
<1> QED BY <1>9, <1>10, <1>11 DEF Follows, t, d

\* No set of rules in which each has another among its inputs.
NoCycle(g) ==
    \A S \in SUBSET Rules : S # {} => \E r \in S : \A i \in S : ~(r # i /\ Lists(g[r], i))

\* Without cycles the traversal never meets a rule it is still hashing.
LEMMA NoBackEdge ==
    ASSUME NEW c, Sane(c), c.path # <<>>, TopOf(c).todo # <<>>, NoCycle(c.inputs),
           Head(TopOf(c).todo) # TopOf(c).rule
    PROVE  ~Visited(c, Head(TopOf(c).todo))
<1> DEFINE n == Len(c.path)
           next == Head(TopOf(c).todo)
<1> SUFFICES ASSUME NEW i \in 1 .. n, c.path[i].rule = next
             PROVE  FALSE
  BY DEF Visited
<1> DEFINE S == {c.path[j].rule : j \in i .. n}
<1>1. n \in Nat \ {0} /\ \A j \in 1 .. n : FrameSane(c.path[j], c)
  BY TopSane DEF Sane, PathSane
<1>2. \A j \in i .. n : j \in 1 .. n
  BY <1>1
<1>3. S \in SUBSET Rules /\ S # {}
  <2>1. i \in i .. n
    BY <1>1
  <2> QED BY <1>1, <1>2, <2>1, Zenon DEF FrameSane
<1>4. ASSUME NEW j \in i .. n
      PROVE  \E q \in S : c.path[j].rule # q /\ Lists(c.inputs[c.path[j].rule], q)
  <2>1. CASE j = n
    <3>1. next \in S
      <4>1. i \in i .. n
        BY <1>1
      <4> QED BY <4>1
    <3>2. c.path[j] = TopOf(c)
      BY <2>1 DEF TopOf
    <3>3. Lists(c.inputs[TopOf(c).rule], next)
      BY NextIsRule
    <3> HIDE DEF S
    <3> QED BY <3>1, <3>2, <3>3
  <2>2. CASE j # n
    <3>1. j \in 1 .. n - 1 /\ j + 1 \in i .. n /\ j \in 1 .. n
      BY <1>1, <2>2
    <3>2. c.path[j].todo # <<>> /\ Head(c.path[j].todo) = c.path[j + 1].rule
          /\ c.path[j].rule # c.path[j + 1].rule
      BY <3>1 DEF Sane, PathSane
    <3>3. Lists(c.inputs[c.path[j].rule], Head(c.path[j].todo))
      <4>1. FrameSane(c.path[j], c)
        BY <1>1, <3>1
      <4>2. Len(c.path[j].todo) \in Nat \ {0} /\ Head(c.path[j].todo) = c.path[j].todo[1]
        BY <3>2, <4>1, EmptyList DEF FrameSane
      <4> QED BY <4>1, <4>2 DEF FrameSane
    <3>4. c.path[j + 1].rule \in S
      BY <3>1
    <3> HIDE DEF S
    <3> QED BY <3>2, <3>3, <3>4
  <2> QED BY <2>1, <2>2
<1>5. \A r \in S : \E q \in S : r # q /\ Lists(c.inputs[r], q)
  <2> SUFFICES ASSUME NEW r \in S PROVE \E q \in S : r # q /\ Lists(c.inputs[r], q)
    BY Zenon
  <2>1. PICK j \in i .. n : r = c.path[j].rule
    OBVIOUS
  <2> HIDE DEF S
  <2> QED BY <1>4, <2>1
<1> HIDE DEF S
<1> QED BY <1>3, <1>5 DEF NoCycle

\* The two traversals take the same turn; what they fold in differs only for a
\* dependent, and without cycles for every dependent.
LEMMA StepTogether ==
    ASSUME NEW s, NEW c, NEW D, Together(s, c, D), ~Final(c)
    PROVE  /\ ~Final(s)
           /\ Match(Step(s), Step(c)) /\ OnlyIn(Step(s), Step(c), D)
           /\ NoCycle(c.inputs) /\ AllOf(s, c, D) => AllOf(Step(s), Step(c), D)
<1>1. /\ Sane(s) /\ Sane(c) /\ Match(s, c) /\ DependentsIn(D, c) /\ OnlyIn(s, c, D)
  BY DEF Together
<1>2. s.path = <<>> <=> c.path = <<>>
  BY <1>1, SeqFacts DEF Sane, PathSane, Match
<1>3. ~Final(s)
  BY <1>1, <1>2 DEF Final, Match
<1>4. CASE c.path = <<>>
  <2>1. c.target \in Rules /\ s.target = c.target
    BY <1>1, <1>4, HashGraphAssumption DEF Final, Sane, Rules, Match
  <2>2. s.digest[s.target] = NoDigest <=> c.digest[c.target] = NoDigest
    BY <1>1, <2>1 DEF Match
  <2>3. CASE c.digest[c.target] = NoDigest
    <3>1. Step(s) = Push(s, c.target) /\ Step(c) = Push(c, c.target)
      BY <1>2, <1>4, <2>1, <2>2, <2>3 DEF Step
    <3> QED BY <1>3, <2>1, <3>1, PushTogether DEF Follows
  <2>4. CASE c.digest[c.target] # NoDigest
    <3>1. Step(s) = Skip(s) /\ Step(c) = Skip(c)
      BY <1>2, <1>4, <2>2, <2>4 DEF Step
    <3> QED BY <1>3, <3>1, SkipTogether DEF Follows
  <2> QED BY <2>3, <2>4
<1>5. ASSUME c.path # <<>>
      PROVE  /\ TopOf(s).rule = TopOf(c).rule /\ TopOf(s).todo = TopOf(c).todo
             /\ TopOf(s).overall # TopOf(c).overall => TopOf(c).rule \in D
             /\ IsSeq(TopOf(s).overall) /\ IsSeq(TopOf(c).overall) /\ TopOf(c).rule \in Rules
  <2>1. FrameSane(TopOf(s), s) /\ FrameSane(TopOf(c), c) /\ Len(c.path) \in 1 .. Len(c.path)
    BY <1>1, <1>2, <1>5, TopSane, Zenon
  <2> QED BY <1>1, <2>1, Zenon DEF Match, OnlyIn, TopOf, FrameSane
<1>6. CASE c.path # <<>> /\ TopOf(c).todo = <<>>
  <2>1. Step(s) = Pop(s) /\ Step(c) = Pop(c)
    BY <1>2, <1>5, <1>6 DEF Step
  <2> QED BY <1>3, <1>6, <2>1, PopTogether DEF Follows
<1>7. CASE c.path # <<>> /\ TopOf(c).todo # <<>>
  <2> DEFINE next == Head(TopOf(c).todo)
             r == TopOf(c).rule
             o == TopOf(s).overall
             u == TopOf(c).overall
  <2>1. next \in Rules /\ Lists(c.inputs[r], next)
    BY <1>1, <1>7, NextIsRule
  <2>2. /\ s.digest[next] = NoDigest <=> c.digest[next] = NoDigest
        /\ Visited(s, next) <=> Visited(c, next)
    BY <1>1, <2>1 DEF Match, Visited
  <2>3. next # r /\ next \in D => r \in D
    BY <1>1, <1>5, <1>7, <2>1 DEF DependentsIn
  <2>4. CASE next = r
    <3>1. Step(s) = Advance(s, o) /\ Step(c) = Advance(c, u)
      BY <1>2, <1>5, <1>7, <2>4 DEF Step
    <3> QED BY <1>3, <1>5, <1>7, <2>4, <3>1, AdvanceTogether, Zenon
  <2>5. CASE next # r /\ c.digest[next] # NoDigest
    <3> DEFINE x == s.digest[next]
               y == c.digest[next]
    <3>1. Step(s) = Advance(s, Append(o, x)) /\ Step(c) = Advance(c, Append(u, y))
      BY <1>2, <1>5, <1>7, <2>2, <2>5, Zenon DEF Step
    <3>2. Append(o, x) # Append(u, y) <=> o # u \/ x # y
      BY <1>5, <1>7, AppendOneToOne
    <3>3. x # y => next \in D
      BY <1>1, <2>1 DEF OnlyIn
    <3>4. AllOf(s, c, D) /\ next \in D => x # y
      BY <2>1, <2>5 DEF AllOf
    <3> HIDE DEF x, y
    <3>5. Append(o, x) # Append(u, y) => r \in D
      BY <1>5, <1>7, <2>3, <2>5, <3>2, <3>3
    <3> QED BY <1>3, <1>7, <3>1, <3>2, <3>4, <3>5, AdvanceTogether, Zenon
  <2>6. CASE next # r /\ c.digest[next] = NoDigest /\ Visited(c, next)
    <3> DEFINE x == <<"cycle", DefinitionAt(s, next)>>
               y == <<"cycle", DefinitionAt(c, next)>>
    <3>1. Step(s) = Advance(s, Append(o, x)) /\ Step(c) = Advance(c, Append(u, y))
      BY <1>2, <1>5, <1>7, <2>2, <2>6, Zenon DEF Step
    <3>2. Append(o, x) # Append(u, y) <=> o # u \/ x # y
      BY <1>5, <1>7, AppendOneToOne, SMTT(40)
    <3>3. x # y => next \in D
      BY <1>1, <2>1, DirectMoves, Zenon DEF DependentsIn
    <3>4. ~NoCycle(c.inputs)
      BY <1>1, <1>7, <2>6, NoBackEdge
    <3> HIDE DEF x, y
    <3>5. Append(o, x) # Append(u, y) => r \in D
      BY <1>5, <1>7, <2>3, <2>6, <3>2, <3>3
    <3> QED BY <1>3, <1>7, <3>1, <3>2, <3>4, <3>5, AdvanceTogether, Zenon
  <2>7. CASE next # r /\ c.digest[next] = NoDigest /\ ~Visited(c, next)
    <3>1. Step(s) = Push(s, next) /\ Step(c) = Push(c, next)
      BY <1>2, <1>5, <1>7, <2>2, <2>7, Zenon DEF Step
    <3> QED BY <1>3, <2>1, <3>1, PushTogether DEF Follows
  <2> QED BY <2>4, <2>5, <2>6, <2>7
<1> QED BY <1>4, <1>6, <1>7

-----------------------------------------------------------------------------
(* The invariant: the first traversal as a history f of n turns, and in    *)
(* the second revision the turn k of it that the traversal is at.          *)

Started(g, ch, rev) ==
    [inputs |-> g, changed |-> ch, revision |-> rev, target |-> 1, path |-> <<>>, digest |-> Empty]

History(f, n, g, ch) ==
    /\ n \in Nat /\ f[0] = Started(g, ch, "from")
    /\ \A i \in 0 .. n : Sane(f[i])
    /\ \A i \in 0 .. n - 1 : ~Final(f[i]) /\ f[i + 1] = Step(f[i])

Typed ==
    /\ inputs \in [Rules -> Seq(Rules)]
    /\ changed[1] \in {"definition", "source"} /\ changed[2] \subseteq Rules
    /\ revision \in {"from", "to"}

FirstPass == \E f : \E n \in Nat : History(f, n, inputs, changed) /\ f[n] = Now

SecondPass ==
    \E f : \E n \in Nat : \E k \in 0 .. n :
        /\ History(f, n, inputs, changed) /\ Final(f[n]) /\ f[n].digest = first
        /\ Match(f[k], Now) /\ OnlyIn(f[k], Now, Dependents)
        /\ Acyclic => AllOf(f[k], Now, Dependents)

HashInv ==
    /\ Typed /\ Sane(Now)
    /\ revision = "from" => FirstPass
    /\ revision = "to" => SecondPass

\* The least closed set is one that every member is in for a reason.
LEMMA DependentsClosed ==
    ASSUME Typed
    PROVE  DependentsIn(Dependents, Now)
<1> DEFINE D == Dependents
           Closed(S) == changed[2] \subseteq S /\ \A d \in Rules : (\E i \in S : Edge(d, i)) => d \in S
           T == changed[2] \cup {r \in Rules : \E i \in D : Edge(r, i)}
<1>1. D = {r \in Rules : \A S \in SUBSET Rules : Closed(S) => r \in S}
  BY DEF Dependents
<1> HIDE DEF D
<1>2. D \subseteq Rules /\ changed[2] \subseteq D
  BY <1>1 DEF Typed
<1>3. ASSUME NEW r \in Rules, NEW i \in D, Edge(r, i)
      PROVE  r \in D
  <2> SUFFICES ASSUME NEW S \in SUBSET Rules, Closed(S) PROVE r \in S
    BY <1>1
  <2>1. i \in S
    BY <1>1
  <2> QED BY <1>3, <2>1
<1>4. T \in SUBSET Rules /\ T \subseteq D
  BY <1>2, <1>3 DEF Typed
<1>5. Closed(T)
  BY <1>4
<1>6. D \subseteq T
  BY <1>1, <1>4, <1>5, Zenon
<1>7. \A r \in D \ changed[2] : \E i \in D : r # i /\ Lists(inputs[r], i)
  BY <1>6 DEF Edge
<1>8. \A r, i \in Rules : r # i /\ Lists(inputs[r], i) /\ i \in D => r \in D
  BY <1>3 DEF Edge
<1> QED BY <1>2, <1>7, <1>8, NowFacts DEF DependentsIn, Typed, D

LEMMA StartSane ==
    ASSUME NEW g \in [Rules -> Seq(Rules)], NEW ch, NEW rev
    PROVE  Sane(Started(g, ch, rev))
<1> DEFINE s == Started(g, ch, rev)
<1>1. /\ s.inputs = g /\ s.target = 1 /\ s.path = <<>> /\ s.digest = Empty
      /\ s = [inputs |-> s.inputs, changed |-> s.changed, revision |-> s.revision,
              target |-> s.target, path |-> s.path, digest |-> s.digest]
  BY DEF Started
<1> HIDE DEF s
<1>2. PathSane(s)
  <2>1. Len(s.path) = 0 /\ IsSeq(s.path)
    BY <1>1, EmptyList, EmptyIsSeq
  <2>2. 1 .. 0 = {} /\ 1 .. 0 - 1 = {}
    OBVIOUS
  <2> QED BY <2>1, <2>2 DEF PathSane
<1>3. DigestsSane(s)
  BY <1>1, HashGraphAssumption DEF DigestsSane, Empty, Rules
<1> QED BY <1>1, <1>2, <1>3, HashGraphAssumption DEF Sane, s

LEMMA HashStarts ==
    Init => HashInv
<1> SUFFICES ASSUME Init PROVE HashInv
  OBVIOUS
<1>1. Typed /\ revision = "from"
  BY HashGraphAssumption DEF Init, Typed, Rules
<1>2. Now = Started(inputs, changed, "from")
  BY DEF Init, Now, Started
<1>3. Sane(Now)
  BY <1>1, <1>2, StartSane DEF Typed
<1>4. FirstPass
  <2> DEFINE f == [i \in {0} |-> Now]
  <2>1. f[0] = Now /\ \A i \in 0 .. 0 : f[i] = Now
    OBVIOUS
  <2> HIDE DEF f
  <2>2. \A i \in 0 .. 0 - 1 : FALSE
    OBVIOUS
  <2>3. History(f, 0, inputs, changed)
    BY <1>2, <1>3, <2>1, <2>2 DEF History
  <2> QED BY <2>1, <2>3 DEF FirstPass
<1> QED BY <1>1, <1>3, <1>4 DEF HashInv

\* What a turn leaves alone.
LEMMA TurnKeeps ==
    ASSUME Turn
    PROVE  /\ UNCHANGED <<inputs, changed, revision, first>>
           /\ Typed => Typed'
           /\ Dependents' = Dependents /\ (Acyclic' <=> Acyclic)
<1>1. UNCHANGED <<inputs, changed, revision, first>>
  BY DEF Turn, NextTarget, SelfInput, FinishedInput, BackEdge, Descend, Finish
<1>2. Dependents' = Dependents
  BY <1>1 DEF Dependents, Edge
<1>3. Acyclic' <=> Acyclic
  BY <1>1 DEF Acyclic, Edge
<1> QED BY <1>1, <1>2, <1>3 DEF Typed

LEMMA FirstPassGrows ==
    ASSUME HashInv, Turn, revision = "from"
    PROVE  FirstPass'
<1>1. PICK f : \E n \in Nat : History(f, n, inputs, changed) /\ f[n] = Now
  BY DEF HashInv, FirstPass
<1>2. PICK n \in Nat : History(f, n, inputs, changed) /\ f[n] = Now
  BY <1>1
<1>3. ~Final(Now) /\ Now' = Step(Now) /\ Sane(Now') /\ UNCHANGED <<inputs, changed>>
  BY TurnIsStep, StepSane, TurnKeeps DEF HashInv
<1> DEFINE new == Now'
           g == [i \in 0 .. n + 1 |-> IF i \in 0 .. n THEN f[i] ELSE new]
<1>4. (\A i \in 0 .. n : g[i] = f[i]) /\ g[n + 1] = new
  OBVIOUS
<1>5. new = Step(Now) /\ Sane(new)
  BY <1>3
<1> HIDE DEF g, new
<1>6. \A i \in 0 .. n + 1 : Sane(g[i])
  <2>1. \A i \in 0 .. n + 1 : i \in 0 .. n \/ i = n + 1
    OBVIOUS
  <2> QED BY <1>2, <1>4, <1>5, <2>1 DEF History
<1>7. ASSUME NEW i \in 0 .. n + 1 - 1
      PROVE  ~Final(g[i]) /\ g[i + 1] = Step(g[i])
  <2>1. CASE i = n
    <3>1. g[i] = Now /\ g[i + 1] = new
      BY <1>2, <1>4, <2>1
    <3> QED BY <1>3, <1>5, <3>1
  <2>2. CASE i # n
    <3>1. i \in 0 .. n - 1 /\ i \in 0 .. n /\ i + 1 \in 0 .. n
      BY <2>2
    <3>2. ~Final(f[i]) /\ f[i + 1] = Step(f[i])
      BY <1>2, <3>1 DEF History
    <3> QED BY <1>4, <3>1, <3>2
  <2> QED BY <2>1, <2>2
<1>8. g[0] = f[0] /\ n + 1 \in Nat
  BY <1>4
<1>9. History(g, n + 1, inputs, changed)
  BY <1>2, <1>6, <1>7, <1>8 DEF History
<1>10. History(g, n + 1, inputs', changed') /\ g[n + 1] = Now'
  BY <1>3, <1>4, <1>9 DEF new
<1> QED BY <1>8, <1>10 DEF FirstPass

LEMMA SecondPassFollows ==
    ASSUME HashInv, Turn, revision = "to"
    PROVE  SecondPass'
<1> DEFINE D == Dependents
           new == Now'
<1>1. PICK f : \E n \in Nat : \E k \in 0 .. n :
         /\ History(f, n, inputs, changed) /\ Final(f[n]) /\ f[n].digest = first
         /\ Match(f[k], Now) /\ OnlyIn(f[k], Now, D) /\ (Acyclic => AllOf(f[k], Now, D))
  BY DEF HashInv, SecondPass
<1>2. PICK n \in Nat : \E k \in 0 .. n :
         /\ History(f, n, inputs, changed) /\ Final(f[n]) /\ f[n].digest = first
         /\ Match(f[k], Now) /\ OnlyIn(f[k], Now, D) /\ (Acyclic => AllOf(f[k], Now, D))
  BY <1>1
<1>3. PICK k \in 0 .. n :
         /\ History(f, n, inputs, changed) /\ Final(f[n]) /\ f[n].digest = first
         /\ Match(f[k], Now) /\ OnlyIn(f[k], Now, D) /\ (Acyclic => AllOf(f[k], Now, D))
  BY <1>2
<1>4. ~Final(Now) /\ new = Step(Now)
  BY TurnIsStep DEF HashInv
<1>5. Together(f[k], Now, D)
  BY <1>3, DependentsClosed DEF Together, History, HashInv
<1>6. Acyclic => NoCycle(Now.inputs)
  BY NowFacts DEF Acyclic, NoCycle, Edge
<1>7. /\ ~Final(f[k])
      /\ Match(Step(f[k]), new) /\ OnlyIn(Step(f[k]), new, D)
      /\ Acyclic => AllOf(Step(f[k]), new, D)
  BY <1>3, <1>4, <1>5, <1>6, StepTogether
<1>8. k \in 0 .. n - 1 /\ k + 1 \in 0 .. n
  BY <1>3, <1>7
<1>9. f[k + 1] = Step(f[k])
  BY <1>3, <1>8 DEF History
<1> HIDE DEF D
<1>10. Match(f[k + 1], Now') /\ OnlyIn(f[k + 1], Now', D) /\ (Acyclic => AllOf(f[k + 1], Now', D))
  BY <1>7, <1>9
<1>11. /\ inputs' = inputs /\ changed' = changed /\ first' = first
       /\ Dependents' = D /\ (Acyclic' <=> Acyclic)
  BY TurnKeeps DEF D
<1>12. /\ History(f, n, inputs', changed') /\ Final(f[n]) /\ f[n].digest = first'
       /\ Match(f[k + 1], Now') /\ OnlyIn(f[k + 1], Now', Dependents')
       /\ Acyclic' => AllOf(f[k + 1], Now', Dependents')
  BY <1>3, <1>10, <1>11
<1> QED BY <1>8, <1>12 DEF SecondPass

\* The second revision starts where the first one did.
LEMMA SecondPassStarts ==
    ASSUME HashInv, NextRevision
    PROVE  HashInv'
<1>1. /\ revision = "from" /\ revision' = "to" /\ inputs' = inputs /\ changed' = changed
      /\ path = <<>> /\ target > N /\ first' = digest /\ path' = <<>> /\ target' = 1 /\ digest' = Empty
  BY DEF NextRevision
<1>2. PICK f : \E n \in Nat : History(f, n, inputs, changed) /\ f[n] = Now
  BY <1>1 DEF HashInv, FirstPass
<1>3. PICK n \in Nat : History(f, n, inputs, changed) /\ f[n] = Now
  BY <1>2
<1>4. Final(f[n]) /\ f[n].digest = first'
  BY <1>1, <1>3, NowFacts DEF Final
<1> DEFINE s == Started(inputs, changed, "from")
           c == Started(inputs, changed, "to")
           D == Dependents'
<1>5. Now' = c
  BY <1>1 DEF Now, Started
<1>6. Typed' /\ Typed
  BY <1>1 DEF HashInv, Typed
<1>7. Sane(c)
  BY <1>6, StartSane DEF Typed
<1>8. /\ s.inputs = c.inputs /\ s.changed = c.changed /\ s.target = c.target
      /\ s.revision = "from" /\ c.revision = "to" /\ s.path = <<>> /\ c.path = <<>>
      /\ s.digest = Empty /\ c.digest = Empty
  BY DEF Started
<1> HIDE DEF s, c, D
<1>9. Match(s, c) /\ OnlyIn(s, c, D) /\ AllOf(s, c, D)
  <2>1. Len(s.path) = 0 /\ Len(c.path) = 0 /\ 1 .. 0 = {}
    BY <1>8, EmptyList
  <2>2. \A r \in Rules : s.digest[r] = NoDigest /\ c.digest[r] = NoDigest
    BY <1>8 DEF Empty
  <2>3. Match(s, c)
    BY <1>8, <2>1, <2>2 DEF Match
  <2>4. OnlyIn(s, c, D)
    BY <2>1, <2>2 DEF OnlyIn
  <2>5. AllOf(s, c, D)
    BY <2>1, <2>2 DEF AllOf
  <2> QED BY <2>3, <2>4, <2>5
<1>10. f[0] = s /\ 0 \in 0 .. n
  BY <1>3 DEF History, s
<1>11. /\ History(f, n, inputs', changed') /\ Final(f[n]) /\ f[n].digest = first'
       /\ Match(f[0], Now') /\ OnlyIn(f[0], Now', Dependents')
       /\ Acyclic' => AllOf(f[0], Now', Dependents')
  BY <1>1, <1>3, <1>4, <1>5, <1>9, <1>10 DEF D
<1>12. SecondPass'
  BY <1>10, <1>11 DEF SecondPass
<1>13. Sane(Now')
  BY <1>5, <1>7
<1> QED BY <1>1, <1>6, <1>12, <1>13 DEF HashInv

LEMMA HashStepSound ==
    HashInv /\ [Next]_vars => HashInv'
<1> SUFFICES ASSUME HashInv, [Next]_vars PROVE HashInv'
  OBVIOUS
<1>1. CASE UNCHANGED vars
  <2>1. Now' = Now /\ Dependents' = Dependents /\ (Acyclic' <=> Acyclic) /\ Typed'
        /\ UNCHANGED <<inputs, changed, revision, first>>
    <3>1. UNCHANGED <<inputs, changed, revision, target, path, digest, first>>
      BY <1>1 DEF vars
    <3>2. Dependents' = Dependents
      BY <3>1 DEF Dependents, Edge
    <3>3. Acyclic' <=> Acyclic
      BY <3>1 DEF Acyclic, Edge
    <3> QED BY <3>1, <3>2, <3>3 DEF Now, HashInv, Typed
  <2>2. FirstPass => FirstPass'
    BY <2>1 DEF FirstPass
  <2>3. SecondPass => SecondPass'
    BY <2>1 DEF SecondPass
  <2> QED BY <2>1, <2>2, <2>3 DEF HashInv
<1>2. CASE Turn
  <2>1. Typed' /\ revision' = revision
    BY <1>2, TurnKeeps DEF HashInv
  <2>2. Sane(Now')
    BY <1>2, TurnIsStep, StepSane DEF HashInv
  <2> QED BY <1>2, <2>1, <2>2, FirstPassGrows, SecondPassFollows DEF HashInv
<1>3. CASE NextRevision
  BY <1>3, SecondPassStarts
<1> QED BY <1>1, <1>2, <1>3 DEF Next, Turn

\* At the end the second traversal is at the end of the first.
LEMMA EndsTogether ==
    ASSUME HashInv, Done
    PROVE  ImpactedAreDependents
<1> DEFINE D == Dependents
<1>1. revision = "to" /\ Final(Now) /\ Sane(Now) /\ Typed
  BY NowFacts DEF Done, Final, HashInv
<1>2. PICK f : \E n \in Nat : \E k \in 0 .. n :
         /\ History(f, n, inputs, changed) /\ Final(f[n]) /\ f[n].digest = first
         /\ Match(f[k], Now) /\ OnlyIn(f[k], Now, D) /\ (Acyclic => AllOf(f[k], Now, D))
  BY <1>1 DEF HashInv, SecondPass
<1>3. PICK n \in Nat : \E k \in 0 .. n :
         /\ History(f, n, inputs, changed) /\ Final(f[n]) /\ f[n].digest = first
         /\ Match(f[k], Now) /\ OnlyIn(f[k], Now, D) /\ (Acyclic => AllOf(f[k], Now, D))
  BY <1>2
<1>4. PICK k \in 0 .. n :
         /\ History(f, n, inputs, changed) /\ Final(f[n]) /\ f[n].digest = first
         /\ Match(f[k], Now) /\ OnlyIn(f[k], Now, D) /\ (Acyclic => AllOf(f[k], Now, D))
  BY <1>3
<1> DEFINE s == f[k]
<1>5. Sane(s) /\ DependentsIn(D, Now)
  BY <1>1, <1>4, DependentsClosed DEF History
<1> HIDE DEF D, s
<1>6. s.path = <<>>
  <2>1. IsSeq(s.path) /\ Len(s.path) = Len(Now.path) /\ Now.path = <<>>
    BY <1>1, <1>4, <1>5 DEF Final, Sane, PathSane, Match, s
  <2> QED BY <2>1, SeqFacts, EmptyList
<1>7. Final(s)
  BY <1>1, <1>4, <1>6, Zenon DEF Final, Match, s
<1>8. k = n
  <2>1. k \in 0 .. n - 1 => ~Final(s)
    BY <1>4 DEF History, s
  <2> QED BY <1>7, <2>1
<1>9. s.digest = first
  BY <1>4, <1>8 DEF s
<1>10. \A r \in Rules : digest[r] # NoDigest /\ first[r] # NoDigest
  <2>1. \A r \in Rules : r < target
    BY <1>1, HashGraphAssumption, NowFacts DEF Final, Rules, Sane
  <2>2. \A r \in Rules : digest[r] # NoDigest
    BY <1>1, <2>1, NowFacts DEF Sane, DigestsSane
  <2> QED BY <1>4, <1>9, <2>2, NowFacts, Zenon DEF Match, s
<1>11. Impacted \subseteq D
  BY <1>4, <1>9, NowFacts DEF Impacted, OnlyIn, s
<1>12. Acyclic => D \subseteq Impacted
  <2>1. D \subseteq Rules
    BY <1>5 DEF DependentsIn
  <2> QED BY <1>4, <1>9, <1>10, <2>1, NowFacts, Zenon DEF Impacted, AllOf, s
<1>13. DirectlyImpacted = changed[2]
  <2>1. \A r \in Rules : first[r].direct = DirectAt(s, r) /\ digest[r].direct = DirectAt(Now, r)
    <3>1. \A z : Sane(z) => \A r \in Rules : z.digest[r] # NoDigest => z.digest[r].direct = DirectAt(z, r)
      <4> TAKE z
      <4> SUFFICES ASSUME Sane(z), NEW r \in Rules, z.digest[r] # NoDigest
                   PROVE  z.digest[r].direct = DirectAt(z, r)
        OBVIOUS
      <4>1. z.digest[r] = [overall |-> z.digest[r].overall, direct |-> DirectAt(z, r)]
        BY Zenon DEF Sane, DigestsSane
      <4>2. \A o, d : [overall |-> o, direct |-> d].direct = d
        OBVIOUS
      <4> DEFINE o == z.digest[r].overall
      <4>3. z.digest[r] = [overall |-> o, direct |-> DirectAt(z, r)]
        BY <4>1
      <4> HIDE DEF o
      <4> QED BY <4>2, <4>3
    <3>2. \A r \in Rules : s.digest[r] # NoDigest => s.digest[r].direct = DirectAt(s, r)
      BY <1>5, <3>1
    <3>3. \A r \in Rules : Now.digest[r] # NoDigest => Now.digest[r].direct = DirectAt(Now, r)
      BY <1>1, <3>1
    <3> QED BY <1>9, <1>10, <3>2, <3>3, NowFacts
  <2>2. \A r \in Rules : DirectAt(s, r) # DirectAt(Now, r) <=> r \in changed[2]
    BY <1>4, <1>5, DirectMoves, NowFacts, Zenon DEF s
  <2> QED BY <1>1, <2>1, <2>2 DEF DirectlyImpacted, Typed
<1> QED BY <1>11, <1>12, <1>13 DEF ImpactedAreDependents, ExactWithoutCycles, NothingElseImpacted, D

\* hash_targets_with_environment at two revisions, for every graph over any
\* number of rules and every change of definitions or sources: without cycles
\* the impacted rules are exactly the dependents of the change and the directly
\* impacted ones the changed rules; with cycles only dependents are impacted.
THEOREM HashesAreExact == HashSpec => []ImpactedAreDependents
<1>1. HashInv => ImpactedAreDependents
  BY EndsTogether DEF ImpactedAreDependents, ExactWithoutCycles, NothingElseImpacted
<1> QED BY <1>1, HashStarts, HashStepSound, PTL DEF HashSpec

\* The measuring of distances runs on the finished digests and leaves them
\* alone: what calculate_distance is given are exactly the dependents, also
\* while labels are measured.
THEOREM DiffsAreExact == ImpactSpec => []ImpactedAreDependents
<1>1. ImpactInit => Init
  BY DEF ImpactInit
<1>2. [ImpactNext]_allVars => [Next]_vars
  <2>1. Hash => Next
    BY DEF Hash
  <2>2. \A r \in Rules : Label(r) => UNCHANGED vars
    BY DEF Label
  <2>3. Unimpacted \/ Dependency \/ Remember \/ UNCHANGED allVars => UNCHANGED vars
    BY Zenon DEF Unimpacted, Dependency, Remember, allVars
  <2> QED BY <2>1, <2>2, <2>3 DEF ImpactNext
<1>3. HashInv => ImpactedAreDependents
  BY EndsTogether DEF ImpactedAreDependents, ExactWithoutCycles, NothingElseImpacted
<1> QED BY <1>1, <1>2, <1>3, HashStarts, HashStepSound, PTL DEF ImpactSpec
=============================================================================
