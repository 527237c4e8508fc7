---------------------------- MODULE BazelProofs -----------------------------
(***************************************************************************)
(* The calls of Bazel and git, and the target graph they return.           *)
(* Cancellation: no thread is left waiting for an unkilled child, for any  *)
(* number of calls.  TargetQuery: what an accepted graph holds, for any    *)
(* workspace, command line and sequence of answers.                        *)
(***************************************************************************)
EXTENDS Cancellation, TargetQuery, FiniteSetTheorems, TLAPS

-----------------------------------------------------------------------------
(* The registry holds exactly the calls between register and the drop of    *)
(* the guard, and a child that still runs under a waiting thread is one     *)
(* the canceller has yet to reach.                                          *)
RegistryExact ==
    children = {c \in Calls : pc[c] \in {"registered", "waiting", "reaped"}}

FlagFollowsCanceller == cancelled <=> canceller # "idle"

UnkilledIsPending ==
    \A c \in Calls :
        pc[c] = "waiting" /\ child[c] = "running" =>
            \/ canceller \in {"idle", "stored"}
            \/ canceller = "killing" /\ c \in toKill

IInv == TypeOK /\ RegistryExact /\ FlagFollowsCanceller /\ UnkilledIsPending

SpawnedHasChild ==
    \A c \in Calls :
        pc[c] \in {"spawned", "registered", "waiting", "reaped"} => child[c] # "none"

Inv == IInv /\ SpawnedHasChild

\* The initial state satisfies the inductive invariant.
LEMMA InitInv == Init => Inv
BY Zenon DEF Init, Inv, IInv, TypeOK, RegistryExact, FlagFollowsCanceller,
       UnkilledIsPending, SpawnedHasChild, CallSteps

\* Every step of a calling thread, of the canceller and of a subprocess
\* preserves the inductive invariant.
LEMMA NextInv == Inv /\ [Next]_vars => Inv'
<1> SUFFICES ASSUME Inv, [Next]_vars PROVE Inv'
  OBVIOUS
<1> USE DEF Inv, IInv, TypeOK, RegistryExact, FlagFollowsCanceller,
            UnkilledIsPending, SpawnedHasChild, CallSteps
<1>1. CASE UNCHANGED vars
  BY <1>1 DEF vars
<1>2. ASSUME NEW c \in Calls, Check(c) PROVE Inv'
  BY <1>2 DEF Check, Goto
<1>3. ASSUME NEW c \in Calls, Spawn(c) PROVE Inv'
  BY <1>3 DEF Spawn, Goto
<1>4. ASSUME NEW c \in Calls, Register(c) PROVE Inv'
  BY <1>4 DEF Register, Goto
<1>5. ASSUME NEW c \in Calls, Recheck(c) PROVE Inv'
  <2>1. CASE cancelled /\ Kill(c)
    BY <1>5, <2>1 DEF Recheck, Goto, Kill
  <2>2. CASE ~cancelled /\ UNCHANGED <<child, held>>
    BY <1>5, <2>2 DEF Recheck, Goto
  <2> QED
    BY <1>5, <2>1, <2>2 DEF Recheck
<1>6. ASSUME NEW c \in Calls, WaitForExit(c) PROVE Inv'
  BY <1>6 DEF WaitForExit, Goto
<1>7. ASSUME NEW c \in Calls, WaitFails(c) PROVE Inv'
  BY <1>7 DEF WaitFails, Goto
<1>8. ASSUME NEW c \in Calls, Unregister(c) PROVE Inv'
  BY <1>8 DEF Unregister, Goto
<1>9. ASSUME NEW c \in Calls, FinalCheck(c) PROVE Inv'
  BY <1>9 DEF FinalCheck, Goto
<1>10. ASSUME NEW c \in Calls, JoinReaders(c) PROVE Inv'
  BY <1>10 DEF JoinReaders, Goto, Ended
<1>11. CASE StoreFlag
  BY <1>11 DEF StoreFlag
<1>12. CASE CopyRegistry
  BY <1>12 DEF CopyRegistry
<1>13. ASSUME NEW c \in Calls, KillOne(c) PROVE Inv'
  BY <1>13 DEF KillOne, Kill
<1>14. CASE CancelReturns
  BY <1>14 DEF CancelReturns
<1>15. ASSUME NEW c \in Calls, ChildExits(c) PROVE Inv'
  BY <1>15 DEF ChildExits
<1>16. ASSUME NEW c \in Calls, GrandchildExits(c) PROVE Inv'
  BY <1>16 DEF GrandchildExits
<1> QED
  BY <1>1, <1>2, <1>3, <1>4, <1>5, <1>6, <1>7, <1>8, <1>9, <1>10, <1>11,
     <1>12, <1>13, <1>14, <1>15, <1>16 DEF Next, CallStep, CancelStep

\* The inductive invariant holds of every behaviour, for any set of calls.
THEOREM Invariance == Spec => []Inv
BY InitInv, NextInv, PTL DEF Spec

\* The state of the token and of its calls is always well typed.
THEOREM TypeCorrect == Spec => []TypeOK
<1>1. Inv => TypeOK
  BY DEF Inv, IInv
<1> QED
  BY <1>1, Invariance, PTL

\* Once cancel has returned, no call waits for a child that still runs.
THEOREM CancelReachesEveryChild == Spec => []NoChildOutlivesCancel
<1>1. Inv => NoChildOutlivesCancel
  BY DEF Inv, IInv, UnkilledIsPending, NoChildOutlivesCancel
<1> QED
  BY <1>1, Invariance, PTL

\* A call cancelled before its child was waited for never returns output.
THEOREM CancelledCallsFail == Spec => NoOutputAfterCancel
<1> SUFFICES ASSUME NEW c \in Calls
             PROVE Spec => [](cancelled /\ pc[c] \notin {"joining", "ok"}
                              => [](pc[c] # "ok"))
  BY DEF NoOutputAfterCancel
<1> DEFINE Doomed == cancelled /\ pc[c] \notin {"joining", "ok"}
<1>1. Inv /\ Doomed /\ [Next]_vars => Doomed'
  <2> SUFFICES ASSUME Inv, Doomed, [Next]_vars PROVE Doomed'
    OBVIOUS
  <2> USE DEF Inv, IInv, TypeOK, Goto
  <2>1. CASE UNCHANGED vars
    BY <2>1 DEF vars
  <2>2. ASSUME NEW d \in Calls, Check(d) \/ Spawn(d) \/ Register(d)
        PROVE Doomed'
    BY <2>2, Zenon DEF Check, Spawn, Register
  <2>3. ASSUME NEW d \in Calls, Recheck(d) PROVE Doomed'
    BY <2>3 DEF Recheck
  <2>4. ASSUME NEW d \in Calls, WaitForExit(d) \/ WaitFails(d) \/ Unregister(d)
        PROVE Doomed'
    BY <2>4, Zenon DEF WaitForExit, WaitFails, Unregister
  <2>5. ASSUME NEW d \in Calls, FinalCheck(d) PROVE Doomed'
    BY <2>5 DEF FinalCheck
  <2>6. ASSUME NEW d \in Calls, JoinReaders(d) PROVE Doomed'
    BY <2>6 DEF JoinReaders
  <2>7. CASE StoreFlag \/ CopyRegistry \/ CancelReturns
    BY <2>7, Zenon DEF StoreFlag, CopyRegistry, CancelReturns
  <2>8. ASSUME NEW d \in Calls, KillOne(d) \/ ChildExits(d) \/ GrandchildExits(d)
        PROVE Doomed'
    BY <2>8, Zenon DEF KillOne, ChildExits, GrandchildExits
  <2> QED
    BY <2>1, <2>2, <2>3, <2>4, <2>5, <2>6, <2>7, <2>8
       DEF Next, CallStep, CancelStep
<1>2. Doomed => pc[c] # "ok"
  OBVIOUS
<1> HIDE DEF Doomed
<1>3. Spec => [](Doomed => [](pc[c] # "ok"))
  BY <1>1, <1>2, Invariance, PTL DEF Spec
<1> QED
  BY <1>3 DEF Doomed

-----------------------------------------------------------------------------
(* TargetQuery.  The invariant says of each stage what the graph found so  *)
(* far is: which answers it was made of, and, once the readers of an       *)
(* isolated usage are connected, what they read.                           *)

HubOf(w) == w.mapping[w.anchor]

\* resolve_isolated_root accepts a scope whose members are the repositories of
\* the usage, the hub among them, each with one row of the catalog.
LEMMA ScopeFacts ==
    ASSUME NEW w \in Requests, ResolvesIsolatedRoot(w)
    PROVE  /\ HubOf(w) \in MembersOf(w) /\ HubOf(w) \in w.imported /\ MainRepo \notin MembersOf(w)
           /\ MembersOf(w) = {w.catalog[i].repo : i \in RowsOf(w, Group(w))}
           /\ \A repo \in w.imported : repo.prefix = Group(w) => repo = HubOf(w)
           /\ \A i, j \in RowsOf(w, Group(w)) : w.catalog[i].repo = w.catalog[j].repo => i = j
<1> DEFINE hub == HubOf(w)
           rows == RowsOf(w, hub.prefix)
           seen == {w.catalog[i].repo : i \in rows}
           f == [i \in rows |-> w.catalog[i].repo]
<1>1. /\ RootExport(hub.prefix) # "" /\ hub \in w.imported /\ Cardinality(rows) = Cardinality(seen)
      /\ hub \in seen /\ {repo \in w.generated : repo.prefix = hub.prefix} = seen
  BY Zenon DEF ResolvesIsolatedRoot, EffectiveRootGroup, HubOf
<1>2. Group(w) = hub.prefix
  BY DEF Group, HubOf
<1>3. MembersOf(w) = seen
  BY <1>1, <1>2, Zenon DEF MembersOf
<1>4. MainRepo \notin MembersOf(w)
  <2>1. MainRepo.prefix = <<>>
    BY DEF MainRepo
  <2>2. hub.prefix # <<>>
    BY <1>1, Zenon DEF RootExport
  <2> QED BY <1>2, <2>1, <2>2 DEF MembersOf
<1>5. \A repo \in w.imported : repo.prefix = Group(w) => repo = hub
  BY DEF ResolvesIsolatedRoot, HubOf
<1>6. f \in Surjection(rows, seen)
  BY DEF Surjection
<1>7. IsFiniteSet(rows)
  <2>1. rows \in SUBSET DOMAIN w.catalog
    BY DEF RowsOf
  <2> QED BY <2>1, TargetQueryAssumption, FS_Subset
<1>8. f \in Injection(rows, seen)
  BY <1>1, <1>6, <1>7, FS_Surjection, Zenon
<1>9. \A i, j \in rows : w.catalog[i].repo = w.catalog[j].repo => i = j
  <2>1. \A i, j \in rows : f[i] = f[j] => i = j
    BY <1>8, Zenon DEF Injection, IsInjective
  <2> QED BY <2>1
<1> QED BY <1>1, <1>2, <1>3, <1>4, <1>5, <1>9, Zenon

NamesMember(w, scope, l) ==
    \/ l.form = "canonical" /\ l.repo \in scope.members
    \/ l.form = "apparent" /\ l.repo \in DOMAIN w.mapping /\ w.mapping[l.repo] \in scope.members

\* IsolatedRepoScope::canonical gives the label of a member another spelling,
\* and nothing for any other label.
LEMMA ScopedFacts ==
    ASSUME NEW w, NEW scope, MainRepo \notin scope.members, NEW l, IsLabel(l),
           NEW x \in ScopedLabel(w, scope, l)
    PROVE  /\ ScopedLabel(w, scope, l) = {x} /\ ScopedLabel(w, scope, x) = {x} /\ IsLabel(x)
           /\ Denoted(w, x) = Denoted(w, l)
           /\ NamesMember(w, scope, l)
<1> DEFINE repo == IF l.form = "canonical" THEN l.repo
                   ELSE IF l.form = "apparent" /\ l.repo \in DOMAIN w.mapping
                        THEN w.mapping[l.repo]
                   ELSE MainRepo
<1>1. ScopedLabel(w, scope, l) =
         IF repo \in scope.members THEN {[l EXCEPT !.form = "canonical", !.repo = repo]} ELSE {}
  BY DEF ScopedLabel
<1>2. repo \in scope.members /\ x = [l EXCEPT !.form = "canonical", !.repo = repo]
  BY <1>1
<1>3. \/ l.form = "canonical" /\ l.repo \in scope.members /\ repo = l.repo
      \/ l.form = "apparent" /\ l.repo \in DOMAIN w.mapping /\ w.mapping[l.repo] \in scope.members
         /\ repo = w.mapping[l.repo]
  BY <1>2
<1> HIDE DEF repo
<1>4. x = [form |-> "canonical", repo |-> repo, package |-> l.package, target |-> l.target]
  BY <1>2, Zenon DEF IsLabel
<1>5. x.form = "canonical" /\ x.repo = repo /\ x.package = l.package /\ x.target = l.target
  BY <1>4
<1>6. IsLabel(x)
  BY <1>4, <1>5 DEF IsLabel
<1>7. ScopedLabel(w, scope, x) = {x}
  <2>1. \A y : IsLabel(y) /\ y.form = "canonical" /\ y.repo = repo
               => [y EXCEPT !.form = "canonical", !.repo = repo] = y
    BY Zenon DEF IsLabel
  <2>2. [x EXCEPT !.form = "canonical", !.repo = repo] = x
    BY <1>5, <1>6, <2>1, Zenon
  <2> QED BY <1>2, <1>5, <2>2 DEF ScopedLabel
<1>8. Denoted(w, x) = <<repo, l.package, l.target>>
  BY <1>5 DEF Denoted
<1>9. Denoted(w, l) = <<repo, l.package, l.target>>
  BY <1>3 DEF Denoted
<1> QED BY <1>1, <1>2, <1>3, <1>6, <1>7, <1>8, <1>9 DEF NamesMember

LEMMA ScopedMembers ==
    ASSUME NEW w, NEW scope, NEW L, NEW x
    PROVE  x \in ScopedLabels(w, scope, L) <=> \E l \in L : x \in ScopedLabel(w, scope, l)
  BY DEF ScopedLabels

LabelsOf(targets) == {t.label : t \in targets}

BuildsOf(w, t) ==
    {b \in Filtered(w, w.graph) : b.label.target = "BUILD" /\ PackageOf(w, b.label) = PackageOf(w, t.label)}

LoadedBy(w, scope, t) == ScopedLabels(w, scope, UNION {b.loads : b \in BuildsOf(w, t)})

Rules(targets) == {t \in targets : t.kind = "rule" /\ t.label.form # "external"}

\* ScopedChangesReachReaders of a graph.
ReadersReached(w, scope, targets) ==
    \A t \in Rules(targets) :
        /\ ScopedLabels(w, scope, t.inputs) \subseteq ScopedLabels(w, scope, LabelsOf(targets))
        /\ \A label \in LoadedBy(w, scope, t) :
              Denoted(w, label) \in {Denoted(w, s.label) : s \in FoldedIntoHub(w, scope, targets)}
        /\ ~InScope(w, scope, t.label) =>
              (ScopedLabels(w, scope, t.inputs) \cup LoadedBy(w, scope, t) # {} => HubLabel(scope) \in t.inputs)

\* connect_external_readers keeps every target, and adds at most the hub to
\* the inputs of one.
ConnectedTo(t, u, scope) ==
    /\ t.label = u.label /\ t.kind = u.kind
    /\ t.inputs \in {u.inputs, u.inputs \cup {HubLabel(scope)}}

LEMMA HubIsLabel ==
    ASSUME NEW scope
    PROVE  IsLabel(HubLabel(scope)) /\ HubLabel(scope).form = "external"
  BY DEF HubLabel, IsLabel

Readers(w, scope, loads) == {PackageOf(w, pair[1]) : pair \in {p \in loads : InScope(w, scope, p[2])}}

OwnLoads(loads, t) == {pair[2] : pair \in {p \in loads : p[1] = t.label}}

ReadsUsage(w, scope, loads, coverage, t) ==
    /\ t.kind = "rule" /\ t.label.form # "external" /\ ~InScope(w, scope, t.label)
    /\ t \in coverage.direct \/ PackageOf(w, t.label) \in Readers(w, scope, loads)

Connection(w, scope, loads, coverage, t) ==
    CASE t.kind = "source" /\ InScope(w, scope, t.label) /\ OwnLoads(loads, t) # {} ->
           [t EXCEPT !.loads = OwnLoads(loads, t)]
      [] ReadsUsage(w, scope, loads, coverage, t) -> [t EXCEPT !.inputs = @ \cup {HubLabel(scope)}]
      [] OTHER -> t

LEMMA ConnectEach ==
    ASSUME NEW w, NEW scope, NEW loads, NEW coverage, NEW T
    PROVE  Connect(w, scope, loads, coverage, T) = {Connection(w, scope, loads, coverage, t) : t \in T}
  BY DEF Connect, Connection, ReadsUsage, Readers, OwnLoads

LEMMA ConnectionFacts ==
    ASSUME NEW w, NEW scope, NEW loads, NEW coverage, NEW t, IsTarget(t)
    PROVE  LET c == Connection(w, scope, loads, coverage, t)
           IN  ConnectedTo(c, t, scope)
               /\ (ReadsUsage(w, scope, loads, coverage, t) => HubLabel(scope) \in c.inputs)
<1> DEFINE c == Connection(w, scope, loads, coverage, t)
           own == OwnLoads(loads, t)
           hub == HubLabel(scope)
<1>1. t = [kind |-> t.kind, label |-> t.label, inputs |-> t.inputs, loads |-> t.loads]
  BY DEF IsTarget
<1>2. CASE t.kind = "source" /\ InScope(w, scope, t.label) /\ own # {}
  <2>1. c = [t EXCEPT !.loads = own] /\ ~ReadsUsage(w, scope, loads, coverage, t)
    BY <1>2 DEF Connection, ReadsUsage
  <2>2. c.label = t.label /\ c.kind = t.kind /\ c.inputs = t.inputs
    BY <1>1, <2>1
  <2> QED BY <2>1, <2>2 DEF ConnectedTo
<1>3. CASE ReadsUsage(w, scope, loads, coverage, t)
  <2>1. c = [t EXCEPT !.inputs = t.inputs \cup {hub}]
    BY <1>3 DEF Connection, ReadsUsage
  <2>2. c.label = t.label /\ c.kind = t.kind /\ c.inputs = t.inputs \cup {hub}
    BY <1>1, <2>1
  <2> QED BY <2>1, <2>2 DEF ConnectedTo
<1>4. CASE ~(t.kind = "source" /\ InScope(w, scope, t.label) /\ own # {}) /\ ~ReadsUsage(w, scope, loads, coverage, t)
  <2>1. c = t
    BY <1>4 DEF Connection
  <2> QED BY <1>4, <2>1 DEF ConnectedTo
<1> QED BY <1>2, <1>3, <1>4

\* BuildLoads has every load of a BUILD file of the batch that is in the scope.
LEMMA LoadsCounted ==
    ASSUME NEW w, NEW scope, MainRepo \notin scope.members, NEW B, NEW b \in B, IsTarget(b),
           b.kind = "source", b.label.target = "BUILD", NEW l \in b.loads,
           NEW x \in ScopedLabel(w, scope, l)
    PROVE  \E pair \in BuildLoads(w, scope, B) :
              pair[1] = b.label /\ x \in ScopedLabel(w, scope, pair[2]) /\ InScope(w, scope, pair[2])
<1>1. IsLabel(l)
  BY DEF IsTarget
<1>2. ScopedLabel(w, scope, x) = {x}
  BY <1>1, ScopedFacts
<1> DEFINE raw == IF InScope(w, scope, b.label) THEN b.loads ELSE ScopedLabels(w, scope, b.loads)
<1>3. \A load \in raw : <<b.label, load>> \in BuildLoads(w, scope, B)
  BY DEF BuildLoads
<1>4. x \in ScopedLabels(w, scope, b.loads)
  BY DEF ScopedLabels
<1>5. CASE InScope(w, scope, b.label)
  BY <1>3, <1>5, Zenon DEF InScope
<1>6. CASE ~InScope(w, scope, b.label)
  BY <1>2, <1>3, <1>4, <1>6, Zenon DEF InScope
<1> QED BY <1>5, <1>6

\* A whole coverage: what the targets T name in the scope is among them, what
\* the BUILD files of the batch B load is among their files, and the rules of
\* T that name something are known.
Covered(w, scope, T, B, loads, coverage) ==
    /\ \A t \in T \cup B : IsTarget(t)
    /\ BuildLoads(w, scope, B) \subseteq loads
    /\ \A t \in Rules(T) : \A b \in BuildsOf(w, t) : b \in B /\ b.kind = "source"
    /\ \A t \in T : ScopedLabels(w, scope, t.inputs) \subseteq ScopedLabels(w, scope, LabelsOf(T))
    /\ ScopedLabels(w, scope, {pair[2] : pair \in loads}) \subseteq coverage.files
    /\ coverage.files \subseteq ScopedLabels(w, scope, LabelsOf({t \in T : t.kind = "source"}))
    /\ \A t \in T : ScopedLabels(w, scope, t.inputs) # {} => t \in coverage.direct

LEMMA ConnectReaches ==
    ASSUME NEW w, NEW scope, MainRepo \notin scope.members, NEW T, NEW B, NEW loads, NEW coverage,
           Covered(w, scope, T, B, loads, coverage)
    PROVE  /\ ReadersReached(w, scope, Connect(w, scope, loads, coverage, T))
           /\ LabelsOf(Connect(w, scope, loads, coverage, T)) = LabelsOf(T)
<1> DEFINE C(u) == Connection(w, scope, loads, coverage, u)
           R == Connect(w, scope, loads, coverage, T)
<1>1. R = {C(u) : u \in T}
  BY ConnectEach
<1>2. \A u \in T : ConnectedTo(C(u), u, scope)
                   /\ (ReadsUsage(w, scope, loads, coverage, u) => HubLabel(scope) \in C(u).inputs)
  BY ConnectionFacts DEF Covered
<1> HIDE DEF C, R
<1>3. LabelsOf(R) = LabelsOf(T)
  BY <1>1, <1>2 DEF LabelsOf, ConnectedTo
<1>4. ScopedLabel(w, scope, HubLabel(scope)) = {}
  <2> SUFFICES ASSUME NEW x \in ScopedLabel(w, scope, HubLabel(scope)) PROVE FALSE
    OBVIOUS
  <2> QED BY HubIsLabel, ScopedFacts, Zenon DEF NamesMember
<1>5. \A u \in T : ScopedLabels(w, scope, C(u).inputs) = ScopedLabels(w, scope, u.inputs)
  BY <1>2, <1>4 DEF ConnectedTo, ScopedLabels
<1>6. ASSUME NEW t \in Rules(R)
      PROVE  /\ ScopedLabels(w, scope, t.inputs) \subseteq ScopedLabels(w, scope, LabelsOf(R))
             /\ \A label \in LoadedBy(w, scope, t) :
                   Denoted(w, label) \in {Denoted(w, s.label) : s \in FoldedIntoHub(w, scope, R)}
             /\ ~InScope(w, scope, t.label) =>
                   (ScopedLabels(w, scope, t.inputs) \cup LoadedBy(w, scope, t) # {} => HubLabel(scope) \in t.inputs)
  <2>1. PICK u \in T : t = C(u)
    BY <1>1 DEF Rules
  <2>2. u \in Rules(T) /\ t.label = u.label /\ t.kind = u.kind
    BY <1>2, <2>1 DEF ConnectedTo, Rules
  <2>3. BuildsOf(w, t) = BuildsOf(w, u)
    BY <2>2 DEF BuildsOf
  <2>4. ScopedLabels(w, scope, t.inputs) \subseteq ScopedLabels(w, scope, LabelsOf(R))
    BY <1>3, <1>5, <2>1 DEF Covered
  <2>5. ASSUME NEW x \in LoadedBy(w, scope, t)
        PROVE  /\ \E pair \in loads : /\ PackageOf(w, pair[1]) = PackageOf(w, t.label)
                                      /\ x \in ScopedLabel(w, scope, pair[2]) /\ InScope(w, scope, pair[2])
               /\ Denoted(w, x) \in {Denoted(w, s.label) : s \in FoldedIntoHub(w, scope, R)}
    <3>1. PICK l \in UNION {b.loads : b \in BuildsOf(w, t)} : x \in ScopedLabel(w, scope, l)
      BY ScopedMembers DEF LoadedBy
    <3>2. PICK b \in BuildsOf(w, t) : l \in b.loads
      BY <3>1
    <3>3. b \in B /\ IsTarget(b) /\ b.kind = "source"
      BY <2>2, <2>3, <3>2 DEF Covered
    <3>4. b.label.target = "BUILD" /\ PackageOf(w, b.label) = PackageOf(w, t.label)
      BY <3>2 DEF BuildsOf
    <3>5. PICK pair \in BuildLoads(w, scope, B) :
             pair[1] = b.label /\ x \in ScopedLabel(w, scope, pair[2]) /\ InScope(w, scope, pair[2])
      BY <3>1, <3>2, <3>3, <3>4, LoadsCounted
    <3>6. pair \in loads /\ PackageOf(w, pair[1]) = PackageOf(w, t.label)
      BY <3>4, <3>5 DEF Covered
    <3>7. x \in coverage.files
      BY <3>5, <3>6 DEF Covered, ScopedLabels
    <3>8. PICK s \in T : s.kind = "source" /\ x \in ScopedLabel(w, scope, s.label)
      BY <3>7 DEF Covered, ScopedLabels, LabelsOf
    <3>9. IsLabel(s.label)
      BY DEF Covered, IsTarget
    <3>10. Denoted(w, x) = Denoted(w, s.label) /\ NamesMember(w, scope, s.label)
      BY <3>8, <3>9, ScopedFacts
    <3>11. C(s) \in R /\ C(s).label = s.label /\ C(s).kind = "source"
      BY <1>1, <1>2, <3>8 DEF ConnectedTo
    <3>12. C(s) \in FoldedIntoHub(w, scope, R)
      BY <3>10, <3>11 DEF FoldedIntoHub, NamesMember
    <3>13. Denoted(w, C(s).label) = Denoted(w, x)
      BY <3>10, <3>11
    <3> QED BY <3>5, <3>6, <3>12, <3>13
  <2>6. ASSUME ~InScope(w, scope, t.label), ScopedLabels(w, scope, t.inputs) \cup LoadedBy(w, scope, t) # {}
        PROVE  HubLabel(scope) \in t.inputs
    <3>1. u.kind = "rule" /\ u.label.form # "external" /\ ~InScope(w, scope, u.label)
      BY <2>2, <2>6 DEF Rules
    <3>2. CASE ScopedLabels(w, scope, t.inputs) # {}
      <4>1. u \in coverage.direct
        BY <1>5, <2>1, <3>2 DEF Covered
      <4> QED BY <1>2, <2>1, <3>1, <4>1 DEF ReadsUsage
    <3>3. CASE LoadedBy(w, scope, t) # {}
      <4>1. PICK x \in LoadedBy(w, scope, t) : TRUE
        BY <3>3
      <4>2. PackageOf(w, u.label) \in Readers(w, scope, loads)
        BY <2>2, <2>5, <4>1 DEF Readers
      <4> QED BY <1>2, <2>1, <3>1, <4>2 DEF ReadsUsage
    <3> QED BY <2>6, <3>2, <3>3
  <2> QED BY <2>4, <2>5, <2>6
<1> QED BY <1>3, <1>6 DEF ReadersReached, R

\* ScopedCoverage after the batches T.
CoverageOf(w, scope, T, coverage) ==
    /\ coverage.names = ScopedLabels(w, scope, LabelsOf(T))
    /\ coverage.files = ScopedLabels(w, scope, LabelsOf({t \in T : t.kind = "source"}))
    /\ \A t \in T : ScopedLabels(w, scope, t.inputs) \subseteq coverage.names \cup coverage.missing
    /\ coverage.direct = {t \in T : ScopedLabels(w, scope, t.inputs) # {}}

LEMMA CoverageStarts ==
    ASSUME NEW w, NEW scope
    PROVE  CoverageOf(w, scope, {}, NoCoverage)
  BY DEF CoverageOf, NoCoverage, ScopedLabels, LabelsOf

LEMMA CoverageGrows ==
    ASSUME NEW w, NEW scope, NEW T, NEW cov, CoverageOf(w, scope, T, cov), NEW E
    PROVE  CoverageOf(w, scope, T \cup E, CoverageRecord(w, scope, cov, E))
<1> DEFINE S(L) == ScopedLabels(w, scope, L)
           next == CoverageRecord(w, scope, cov, E)
<1>1. /\ next.names = cov.names \cup S(LabelsOf(E))
      /\ next.files = cov.files \cup S(LabelsOf({t \in E : t.kind = "source"}))
      /\ next.missing = (cov.missing \cup UNION {S(t.inputs) : t \in E}) \ next.names
      /\ next.direct = cov.direct \cup {t \in E : S(t.inputs) # {}}
  BY DEF CoverageRecord, LabelsOf
<1>2. \A L, M : S(L \cup M) = S(L) \cup S(M)
  BY DEF ScopedLabels
<1> HIDE DEF S, next
<1>3. \A A, B : LabelsOf(A \cup B) = LabelsOf(A) \cup LabelsOf(B)
  BY DEF LabelsOf
<1>4. {t \in T \cup E : t.kind = "source"} = {t \in T : t.kind = "source"} \cup {t \in E : t.kind = "source"}
  OBVIOUS
<1>5. cov.names = S(LabelsOf(T)) /\ cov.files = S(LabelsOf({t \in T : t.kind = "source"}))
      /\ cov.direct = {t \in T : S(t.inputs) # {}}
      /\ \A t \in T : S(t.inputs) \subseteq cov.names \cup cov.missing
  BY DEF CoverageOf, S
<1>6. next.names = S(LabelsOf(T \cup E))
  BY <1>1, <1>2, <1>3, <1>5
<1>7. next.files = S(LabelsOf({t \in T \cup E : t.kind = "source"}))
  BY <1>1, <1>2, <1>3, <1>4, <1>5
<1>8. next.direct = {t \in T \cup E : S(t.inputs) # {}}
  BY <1>1, <1>5
<1>9. ASSUME NEW t \in T \cup E PROVE S(t.inputs) \subseteq next.names \cup next.missing
  <2>1. CASE t \in T
    BY <1>1, <1>5, <2>1
  <2>2. CASE t \in E
    BY <1>1, <2>2
  <2> QED BY <2>1, <2>2
<1> QED BY <1>6, <1>7, <1>8, <1>9, Zenon DEF CoverageOf, S, next

LEMMA WholeIsCovered ==
    ASSUME NEW w, NEW scope, NEW T, NEW B, NEW loads, NEW cov, CoverageOf(w, scope, T, cov),
           cov.missing = {}, UnansweredLoads(w, scope, loads, cov) = {},
           \A t \in T \cup B : IsTarget(t), BuildLoads(w, scope, B) \subseteq loads,
           \A t \in Rules(T) : \A b \in BuildsOf(w, t) : b \in B /\ b.kind = "source"
    PROVE  Covered(w, scope, T, B, loads, cov)
<1>1. ScopedLabels(w, scope, {pair[2] : pair \in loads}) \subseteq cov.files
  BY DEF UnansweredLoads
<1> QED BY <1>1 DEF Covered, CoverageOf

\* What Bazel answers with is of the workspace, and has the BUILD files of the
\* packages it was asked about.
LEMMA BazelFacts ==
    ASSUME NEW w \in Requests
    PROVE  /\ \A L : BazelDeps(w, L) \subseteq w.graph
           /\ BazelOrdinary(w) \subseteq w.graph /\ BazelMembers(w) \subseteq w.graph
           /\ \A X : BazelBuildFiles(w, X) \subseteq {t \in w.graph : t.kind = "source"}
           /\ \A X : \A t \in X : BuildsOf(w, t) \subseteq Filtered(w, BazelBuildFiles(w, X))
           /\ \A t : \A b \in BuildsOf(w, t) : b \in w.graph /\ b.kind = "source"
<1>1. \A L : BazelDeps(w, L) \subseteq w.graph
  BY DEF BazelDeps
<1>2. \A X : BazelBuildFiles(w, X) \subseteq {t \in w.graph : t.kind = "source"}
  <2> SUFFICES ASSUME NEW X, NEW t \in BazelBuildFiles(w, X) PROVE t \in w.graph /\ t.kind = "source"
    OBVIOUS
  <2> DEFINE builds == {b \in w.graph : b.label.target = "BUILD"
                                        /\ PackageOf(w, b.label) \in {PackageOf(w, s.label) : s \in X}}
             loaded == {Denoted(w, label) : label \in UNION {b.loads : b \in builds}}
  <2>1. t \in builds \/ t \in {s \in w.graph : Denoted(w, s.label) \in loaded}
    BY DEF BazelBuildFiles
  <2>2. CASE t \in builds
    BY <2>2, TargetQueryAssumption
  <2>3. CASE t \in w.graph /\ Denoted(w, t.label) \in loaded
    <3>1. PICK b \in builds : \E label \in b.loads : Denoted(w, t.label) = Denoted(w, label)
      BY <2>3
    <3> QED BY <2>3, <3>1, TargetQueryAssumption
  <2> QED BY <2>1, <2>2, <2>3
<1>3. \A X : \A t \in X : BuildsOf(w, t) \subseteq Filtered(w, BazelBuildFiles(w, X))
  BY DEF BuildsOf, Filtered, BazelBuildFiles
<1>4. \A t : \A b \in BuildsOf(w, t) : b \in w.graph /\ b.kind = "source"
  BY TargetQueryAssumption DEF BuildsOf, Filtered
<1>5. BazelOrdinary(w) \subseteq w.graph
  BY DEF BazelOrdinary
<1>6. BazelMembers(w) \subseteq w.graph
  BY <1>1, <1>2 DEF BazelMembers
<1> QED BY <1>1, <1>2, <1>3, <1>4, <1>5, <1>6

\* The main query under an isolated root: //... and the fine-grained
\* repositories, the members with their build files, and perhaps //external.
FoundBy(w, P) ==
    \E ext \in {{}, w.legacy} : P = Filtered(w, BazelOrdinary(w) \cup ext \cup BazelMembers(w))

\* It returns the BUILD file of every rule it returns.
LEMMA FoundBuilds ==
    ASSUME NEW w \in Requests, NEW P, FoundBy(w, P), NEW K, K \subseteq P \cup w.nodes
    PROVE  /\ \A t \in K \cup P : IsTarget(t)
           /\ \A t \in Rules(K) : BuildsOf(w, t) \subseteq P
<1>1. PICK ext \in {{}, w.legacy} : P = Filtered(w, BazelOrdinary(w) \cup ext \cup BazelMembers(w))
  BY DEF FoundBy
<1>2. P \subseteq w.graph \cup w.legacy
  BY <1>1, BazelFacts DEF Filtered
<1>3. \A t \in K \cup P : IsTarget(t)
  BY <1>2, TargetQueryAssumption
<1>4. ASSUME NEW t \in Rules(K) PROVE BuildsOf(w, t) \subseteq P
  <2>1. t \in P /\ t \notin w.legacy /\ t.kind = "rule"
    BY TargetQueryAssumption DEF Rules
  <2>2. t \in BazelOrdinary(w) \/ t \in BazelMembers(w)
    BY <1>1, <2>1 DEF Filtered
  <2>3. CASE t \in BazelOrdinary(w)
    <3>1. \A b \in BuildsOf(w, t) : b \in BazelOrdinary(w)
      BY <2>3 DEF BuildsOf, BazelOrdinary, Filtered
    <3> QED BY <1>1, <3>1 DEF BuildsOf, Filtered
  <2>4. CASE t \in BazelMembers(w)
    <3> DEFINE M == BazelDeps(w, {s.label : s \in {s \in w.graph : PackageOf(w, s.label)[1] = w.mapping[w.anchor]}})
    <3>1. BazelMembers(w) = M \cup BazelBuildFiles(w, M)
      BY DEF BazelMembers
    <3> HIDE DEF M
    <3>2. t \in M
      <4>1. BazelBuildFiles(w, M) \subseteq {s \in w.graph : s.kind = "source"}
        BY BazelFacts
      <4> QED BY <2>1, <2>4, <3>1, <4>1
    <3>3. BuildsOf(w, t) \subseteq Filtered(w, BazelBuildFiles(w, M))
      BY <3>2, BazelFacts
    <3> QED BY <1>1, <3>1, <3>3 DEF Filtered
  <2> QED BY <2>2, <2>3, <2>4
<1> QED BY <1>3, <1>4

\* What the supplement asks for.
Supplement(w, missing, readers) ==
    Filtered(w, BazelDeps(w, missing) \cup BazelBuildFiles(w, BazelDeps(w, missing))
                \cup BazelBuildFiles(w, {t \in w.graph : t.label \in readers}))

LEMMA SupplementBuilds ==
    ASSUME NEW w \in Requests, NEW missing, NEW readers
    PROVE  /\ \A t \in Supplement(w, missing, readers) : IsTarget(t)
           /\ \A t \in Rules(Supplement(w, missing, readers)) :
                 BuildsOf(w, t) \subseteq Supplement(w, missing, readers)
<1> DEFINE direct == BazelDeps(w, missing)
           other == BazelBuildFiles(w, {t \in w.graph : t.label \in readers})
           A == Supplement(w, missing, readers)
<1>1. A = Filtered(w, direct \cup BazelBuildFiles(w, direct) \cup other)
  BY DEF Supplement
<1>2. direct \subseteq w.graph
  BY BazelFacts
<1>3. BazelBuildFiles(w, direct) \subseteq {t \in w.graph : t.kind = "source"}
  BY BazelFacts
<1>4. other \subseteq {t \in w.graph : t.kind = "source"}
  BY BazelFacts
<1> HIDE DEF direct, other, A
<1>5. \A t \in A : IsTarget(t)
  BY <1>1, <1>2, <1>3, <1>4, TargetQueryAssumption DEF Filtered
<1>6. ASSUME NEW t \in Rules(A) PROVE BuildsOf(w, t) \subseteq A
  <2>1. t \in direct
    BY <1>1, <1>3, <1>4 DEF Filtered, Rules
  <2>2. BuildsOf(w, t) \subseteq Filtered(w, BazelBuildFiles(w, direct))
    BY <2>1, BazelFacts
  <2> QED BY <1>1, <2>2 DEF Filtered
<1> QED BY <1>5, <1>6 DEF A

LEMMA LoadsTogether ==
    ASSUME NEW w, NEW scope, NEW A, NEW B
    PROVE  BuildLoads(w, scope, A \cup B) = BuildLoads(w, scope, A) \cup BuildLoads(w, scope, B)
<1> DEFINE L(t) == {<<t.label, load>> : load \in IF InScope(w, scope, t.label) THEN t.loads
                                                 ELSE ScopedLabels(w, scope, t.loads)}
           Build(s) == s.kind = "source" /\ s.label.target = "BUILD"
<1>1. \A X : BuildLoads(w, scope, X) = UNION {L(t) : t \in {s \in X : Build(s)}}
  BY DEF BuildLoads
<1> HIDE DEF L, Build
<1> QED BY <1>1

\* The loads, the coverage and the targets after the supplement: those of the
\* first query, or with what the supplement adds to them.
Supplemented(w, scope, P, K, loads, cov, T) ==
    LET first == CoverageRecord(w, scope, NoCoverage, K)
    IN  \/ loads = BuildLoads(w, scope, P) /\ cov = first /\ T = K
        \/ \E readers : \E extra \in SUBSET Supplement(w, first.missing, readers) :
              /\ loads = BuildLoads(w, scope, P) \cup BuildLoads(w, scope, Supplement(w, first.missing, readers))
              /\ cov = CoverageRecord(w, scope, first, extra) /\ T = K \cup extra

\* A supplement that is whole gives a graph whose readers are reached, with the
\* names of the first query in it.
LEMMA SupplementReaches ==
    ASSUME NEW w \in Requests, NEW scope, MainRepo \notin scope.members,
           NEW P, FoundBy(w, P), NEW K, K \subseteq P \cup w.nodes,
           NEW loads, NEW cov, NEW T, Supplemented(w, scope, P, K, loads, cov, T),
           cov.missing = {}, UnansweredLoads(w, scope, loads, cov) = {}
    PROVE  /\ ReadersReached(w, scope, Connect(w, scope, loads, cov, T))
           /\ LabelsOf(K) \subseteq LabelsOf(Connect(w, scope, loads, cov, T))
<1> DEFINE first == CoverageRecord(w, scope, NoCoverage, K)
           quiet == loads = BuildLoads(w, scope, P) /\ cov = first /\ T = K
<1>0. PICK asked, extra :
         /\ \E readers : asked = Supplement(w, first.missing, readers)
         /\ extra \subseteq asked
         /\ ~quiet => /\ loads = BuildLoads(w, scope, P) \cup BuildLoads(w, scope, asked)
                      /\ cov = CoverageRecord(w, scope, first, extra) /\ T = K \cup extra
  <2>1. CASE quiet
    <3> DEFINE asked == Supplement(w, first.missing, {})
    <3> HIDE DEF quiet
    <3>1. \E readers : asked = Supplement(w, first.missing, readers)
      OBVIOUS
    <3> HIDE DEF asked
    <3> QED BY <2>1, <3>1
  <2>2. CASE ~quiet
    BY <2>2 DEF Supplemented
  <2> QED BY <2>1, <2>2
<1> DEFINE B == IF quiet THEN P ELSE P \cup asked
<1> HIDE DEF first
<1>1. CoverageOf(w, scope, K, first)
  <2>1. CoverageOf(w, scope, {} \cup K, first)
    BY CoverageStarts, CoverageGrows DEF first
  <2>2. {} \cup K = K
    OBVIOUS
  <2> QED BY <2>1, <2>2
<1>2. CoverageOf(w, scope, T, cov)
  BY <1>0, <1>1, CoverageGrows
<1>3. /\ \A t \in K \cup P : IsTarget(t)
      /\ \A t \in Rules(K) : BuildsOf(w, t) \subseteq P
  BY FoundBuilds
<1>4. /\ \A t \in asked : IsTarget(t)
      /\ \A t \in Rules(asked) : BuildsOf(w, t) \subseteq asked
  BY <1>0, SupplementBuilds
<1>5. \A t \in T \cup B : IsTarget(t)
  BY <1>0, <1>3, <1>4
<1>6. BuildLoads(w, scope, B) \subseteq loads
  BY <1>0, LoadsTogether
<1>7. ASSUME NEW t \in Rules(T), NEW b \in BuildsOf(w, t) PROVE b \in B /\ b.kind = "source"
  <2>1. b.kind = "source"
    BY BazelFacts
  <2>2. t \in Rules(K) \/ (~quiet /\ t \in Rules(asked))
    BY <1>0 DEF Rules
  <2> QED BY <1>3, <1>4, <2>1, <2>2
<1> HIDE DEF B
<1>8. Covered(w, scope, T, B, loads, cov)
  BY <1>2, <1>5, <1>6, <1>7, WholeIsCovered
<1>9. LabelsOf(K) \subseteq LabelsOf(T)
  BY <1>0 DEF LabelsOf
<1> QED BY <1>8, <1>9, ConnectReaches

\* --keep_going is off, or an isolated root turns it off.
Strict(w) == ~w.keepGoing \/ w.isolated

\* The targets AcceptedGraphIsWhole asks for.
Due(w) ==
    {t \in Filtered(w, BazelOrdinary(w) \cup (IF w.excludeExternal THEN {} ELSE ExternalTargets(w))) :
        w.useCquery => Denoted(w, t.label) \notin w.incompatible}

\* Bazel can list the repositories and --keep_going is off.
MustList(q) == Supported(q.world.version) /\ "unusable" \notin q.asked /\ ~q.world.keepGoing

RootScoped(q) == q.scope = IsolatedScope(q.world) /\ q.world.isolated /\ ResolvesIsolatedRoot(q.world)

LateStages == {"primary", "fallback", "external", "supplement", "references", "done"}

QueryFields == {"world", "pc", "version", "enabled", "nodes", "failures", "scope", "loads", "targets", "lost", "asked"}

\* What is known at every stage.
StageFacts(q) ==
    /\ DOMAIN q = QueryFields
    /\ q.world \in Requests
    /\ q.scope = NoScope \/ RootScoped(q)
    /\ q.pc \in {"probe", "repositories"} => q.scope = NoScope
    /\ q.pc \in LateStages /\ q.world.isolated => RootScoped(q)
    /\ q.pc \in LateStages \cup {"repositories"} /\ q.world.isolated => ~q.world.useCquery
    /\ q.nodes \subseteq q.world.nodes
    /\ q.pc \in LateStages /\ MustList(q) => q.nodes = q.world.nodes
    /\ q.pc = "fallback" => ~q.world.external

\* What is known of the graph found so far.
GraphFacts(q) ==
    /\ q.pc = "external" =>
          /\ q.world.useCquery
          /\ Strict(q.world) => q.lost = {} /\ q.targets = {t \in Filtered(q.world, BazelOrdinary(q.world)) :
                                                 Denoted(q.world, t.label) \notin q.world.incompatible}
    /\ q.pc \in {"supplement", "references", "done"} =>
          /\ LabelsOf(q.nodes) \subseteq LabelsOf(q.targets)
          /\ Strict(q.world) => LabelsOf(Due(q.world)) \subseteq LabelsOf(q.targets)
    /\ q.pc = "supplement" =>
          /\ RootScoped(q)
          /\ \E P : /\ FoundBy(q.world, P) /\ q.targets \subseteq P \cup q.world.nodes
                    /\ q.loads = BuildLoads(q.world, q.scope, P)
    /\ q.pc \in {"references", "done"} /\ q.scope.members # {} => ReadersReached(q.world, q.scope, q.targets)

QueryInv == query # Idle => StageFacts(query) /\ GraphFacts(query)

LEMMA QueryStarts == QueryInit => QueryInv
<1> SUFFICES ASSUME QueryInit PROVE StageFacts(query) /\ GraphFacts(query)
  BY DEF QueryInv
<1>1. PICK w \in Requests :
         query = [world |-> w, pc |-> "probe", version |-> "unknown", enabled |-> FALSE,
                  nodes |-> {}, failures |-> FALSE, scope |-> NoScope, loads |-> {},
                  targets |-> {}, lost |-> {}, asked |-> {}]
  BY Zenon DEF QueryInit
<1>2. query.world = w /\ query.pc = "probe" /\ query.nodes = {} /\ query.scope = NoScope
  BY <1>1
<1>3. DOMAIN query = QueryFields
  BY <1>1 DEF QueryFields
<1>4. query.pc \notin LateStages \cup {"repositories"}
  BY <1>2 DEF LateStages
<1>5. StageFacts(query)
  BY <1>2, <1>3, <1>4 DEF StageFacts
<1> QED BY <1>2, <1>5 DEF GraphFacts

LEMMA KeptNames ==
    ASSUME NEW X, NEW kept \in Deduplicated(X)
    PROVE  kept \subseteq X /\ LabelsOf(kept) = LabelsOf(X)
<1> DEFINE repeated == {t \in X : \E s \in X : s # t /\ s.label = t.label}
<1>1. PICK l \in SUBSET repeated : kept = X \ l /\ \A t \in repeated : \E s \in repeated \ l : s.label = t.label
  BY Zenon DEF Deduplicated
<1>2. \A t \in X : \E s \in kept : s.label = t.label
  BY <1>1
<1> QED BY <1>1, <1>2 DEF LabelsOf

\* The hub is a member: the strict copy of the configuration is in force.
LEMMA ScopeHasMembers ==
    ASSUME NEW q, StageFacts(q)
    PROVE  /\ RootScoped(q) <=> q.scope.members # {}
           /\ q.scope.members # {} => MainRepo \notin q.scope.members
<1>1. ASSUME RootScoped(q) PROVE HubOf(q.world) \in q.scope.members /\ MainRepo \notin q.scope.members
  <2>1. q.world \in Requests /\ ResolvesIsolatedRoot(q.world)
    BY <1>1 DEF RootScoped, StageFacts
  <2>2. q.scope.members = MembersOf(q.world)
    BY <1>1 DEF RootScoped, IsolatedScope
  <2>3. HubOf(q.world) \in MembersOf(q.world) /\ MainRepo \notin MembersOf(q.world)
    BY <2>1, ScopeFacts
  <2> QED BY <2>2, <2>3
<1>2. NoScope.members = {}
  BY DEF NoScope
<1> QED BY <1>1, <1>2 DEF StageFacts

LEMMA FailingSound ==
    ASSUME StageFacts(query), QueryFails
    PROVE  StageFacts(query') /\ GraphFacts(query')
<1>1. /\ DOMAIN query' = DOMAIN query /\ query'.world = query.world /\ query'.scope = query.scope
      /\ query'.nodes = query.nodes /\ query'.pc = "failed"
  BY DEF QueryFails, StageFacts, QueryFields
<1>2. RootScoped(query') = RootScoped(query)
  BY <1>1 DEF RootScoped
<1> QED BY <1>1, <1>2 DEF StageFacts, GraphFacts, LateStages

\* What collect_all_targets ends with, from a complete answer where one is due.
LEMMA CollectedSound ==
    ASSUME StageFacts(query), query.pc \in {"primary", "fallback", "external"},
           NEW found, NEW lost, Collected(query.world, found, lost),
           Strict(query.world) => lost = {} /\ Due(query.world) \subseteq found,
           HasScope => FoundBy(query.world, found \ lost)
    PROVE  StageFacts(query') /\ GraphFacts(query')
<1> DEFINE w == query.world
           X == found \ lost
<1>1. PICK kept \in Returned(X) :
         query' = [query EXCEPT !.targets = kept,
                     !.loads = IF HasScope THEN BuildLoads(w, query.scope, X) ELSE {},
                     !.lost = lost,
                     !.pc = IF HasScope THEN "supplement" ELSE "references"]
  BY Zenon DEF Collected
<1>2. /\ DOMAIN query' = DOMAIN query /\ query'.world = w /\ query'.scope = query.scope
      /\ query'.nodes = query.nodes /\ query'.asked = query.asked /\ query'.targets = kept
      /\ query'.loads = IF HasScope THEN BuildLoads(w, query.scope, X) ELSE {}
      /\ query'.pc = IF HasScope THEN "supplement" ELSE "references"
  BY <1>1 DEF StageFacts, QueryFields
<1>3. RootScoped(query') = RootScoped(query) /\ MustList(query') = MustList(query)
  BY <1>2, Zenon DEF RootScoped, MustList
<1>4. StageFacts(query')
  BY <1>2, <1>3, Zenon DEF StageFacts, LateStages
<1>5. PICK some \in Deduplicated(X) : kept = some \cup {n \in query.nodes : \A t \in some : t.label # n.label}
  BY Zenon DEF Returned
<1>6. some \subseteq X /\ LabelsOf(some) = LabelsOf(X)
  BY <1>5, KeptNames
<1>7. kept \subseteq X \cup w.nodes
  BY <1>5, <1>6 DEF StageFacts
<1>8. LabelsOf(query.nodes) \subseteq LabelsOf(kept) /\ LabelsOf(X) \subseteq LabelsOf(kept)
  BY <1>5, <1>6 DEF LabelsOf
<1>9. Strict(w) => LabelsOf(Due(w)) \subseteq LabelsOf(kept)
  <2>1. Strict(w) => Due(w) \subseteq X
    OBVIOUS
  <2> QED BY <1>8, <2>1 DEF LabelsOf
<1>10. HasScope => RootScoped(query)
  BY ScopeHasMembers DEF HasScope
<1> HIDE DEF X
<1>11. query'.pc = "supplement" =>
          /\ RootScoped(query')
          /\ \E P : /\ FoundBy(query'.world, P) /\ query'.targets \subseteq P \cup query'.world.nodes
                    /\ query'.loads = BuildLoads(query'.world, query'.scope, P)
  BY <1>2, <1>3, <1>7, <1>10 DEF X
<1>12. query'.pc = "references" => query'.scope.members = {}
  BY <1>2 DEF HasScope
<1>13. query'.pc \in {"supplement", "references"}
  BY <1>2
<1> QED BY <1>2, <1>4, <1>8, <1>9, <1>11, <1>12, <1>13, Zenon DEF GraphFacts

\* Where a partial answer is not accepted Bazel is not asked to keep going.
LEMMA StrictIsStrict ==
    ASSUME StageFacts(query), query.pc \in LateStages, Strict(query.world) \/ HasScope
    PROVE  ~QueryKeepsGoing
  BY ScopeHasMembers DEF StageFacts, Strict, QueryKeepsGoing, HasScope

LEMMA PrimarySound ==
    ASSUME StageFacts(query), query # Idle, QueryPrimary
    PROVE  StageFacts(query') /\ GraphFacts(query')
<1> DEFINE w == query.world
           external == ~w.excludeExternal /\ query.pc = "primary"
           found == PrimaryTargets(w, external)
<1>1. query.pc \in {"primary", "fallback"} /\ query.pc \in LateStages /\ ~w.useCquery
  BY Zenon DEF QueryPrimary, LateStages
<1>2. found = Filtered(w, BazelOrdinary(w) \cup (IF external THEN ExternalTargets(w) ELSE {})
                          \cup (IF HasScope THEN BazelMembers(w) ELSE {}))
  BY <1>1 DEF PrimaryTargets
<1>3. HasScope => FoundBy(w, found)
  <2> SUFFICES ASSUME HasScope PROVE FoundBy(w, found)
    OBVIOUS
  <2> DEFINE ext == IF external THEN ExternalTargets(w) ELSE {}
  <2>1. ext \in {{}, w.legacy}
    BY DEF ExternalTargets
  <2>2. found = Filtered(w, BazelOrdinary(w) \cup ext \cup BazelMembers(w))
    BY <1>2
  <2> HIDE DEF ext, found
  <2> QED BY <2>1, <2>2 DEF FoundBy
<1>4. Due(w) \subseteq found
  <2>1. query.pc = "fallback" => ExternalTargets(w) = {}
    BY DEF StageFacts, ExternalTargets
  <2> QED BY <1>1, <1>2, <2>1 DEF Due, Filtered
<1>5. PICK answer \in BazelAnswers(external) :
         \/ answer = "all" /\ Collected(w, found, {})
         \/ answer = "some" /\ \E t \in found : Collected(w, found, {t})
         \/ Fallback(answer) /\ external /\ query' = [query EXCEPT !.pc = "fallback"]
         \/ QueryFails
  BY Zenon DEF QueryPrimary
<1> HIDE DEF found
<1>6. CASE answer = "all" /\ Collected(w, found, {})
  <2>1. Collected(w, found, {})
    BY <1>6
  <2>2. found \ {} = found
    OBVIOUS
  <2> QED BY <1>1, <1>3, <1>4, <2>1, <2>2, CollectedSound
<1>7. CASE answer = "some" /\ \E t \in found : Collected(w, found, {t})
  <2>1. PICK t \in found : Collected(w, found, {t})
    BY <1>7
  <2>2. QueryKeepsGoing
    BY <1>7 DEF BazelAnswers
  <2>3. ~Strict(w) /\ ~HasScope
    BY <1>1, <2>2, StrictIsStrict
  <2> QED BY <1>1, <2>1, <2>3, CollectedSound, Zenon
<1>8. CASE Fallback(answer) /\ external /\ query' = [query EXCEPT !.pc = "fallback"]
  <2>1. ~w.external
    BY <1>8, Zenon DEF BazelAnswers, Fallback
  <2>2. query' = [query EXCEPT !.pc = "fallback"]
    BY <1>8
  <2>3. /\ DOMAIN query' = DOMAIN query /\ query'.world = w /\ query'.scope = query.scope
        /\ query'.nodes = query.nodes /\ query'.asked = query.asked /\ query'.pc = "fallback"
    BY <2>2 DEF StageFacts, QueryFields
  <2>4. RootScoped(query') = RootScoped(query) /\ MustList(query') = MustList(query)
    BY <2>3 DEF RootScoped, MustList
  <2> QED BY <1>1, <2>1, <2>3, <2>4, Zenon DEF StageFacts, GraphFacts, LateStages
<1>9. CASE QueryFails
  BY <1>9, FailingSound
<1> QED BY <1>5, <1>6, <1>7, <1>8, <1>9, Zenon

LEMMA ConfiguredSound ==
    ASSUME StageFacts(query), query # Idle, QueryConfigured
    PROVE  StageFacts(query') /\ GraphFacts(query')
<1> DEFINE w == query.world
           found == PrimaryTargets(w, FALSE)
<1>1. query.pc = "primary" /\ query.pc \in LateStages /\ w.useCquery
  BY Zenon DEF QueryConfigured, LateStages
<1>2. ~HasScope /\ ~w.isolated
  BY <1>1, ScopeHasMembers DEF StageFacts, RootScoped, HasScope
<1>3. found = {t \in Filtered(w, BazelOrdinary(w)) : Denoted(w, t.label) \notin w.incompatible}
  BY <1>1, <1>2 DEF PrimaryTargets, Filtered
<1>4. PICK answer \in BazelAnswers(FALSE) :
         \/ QueryFails
         \/ \E lost \in IF answer = "all" THEN {{}} ELSE {{t} : t \in found} :
               /\ query' = [query EXCEPT !.targets = found \ lost, !.lost = lost, !.pc = "external"]
               /\ answer # "error"
  BY Zenon DEF QueryConfigured
<1> HIDE DEF found
<1>5. CASE QueryFails
  BY <1>5, FailingSound
<1>6. ASSUME NEW lost \in IF answer = "all" THEN {{}} ELSE {{t} : t \in found}, answer # "error",
             query' = [query EXCEPT !.targets = found \ lost, !.lost = lost, !.pc = "external"]
      PROVE  StageFacts(query') /\ GraphFacts(query')
  <2>1. /\ DOMAIN query' = DOMAIN query /\ query'.world = w /\ query'.scope = query.scope
        /\ query'.nodes = query.nodes /\ query'.asked = query.asked /\ query'.pc = "external"
        /\ query'.targets = found \ lost /\ query'.lost = lost
    BY <1>6 DEF StageFacts, QueryFields
  <2>2. RootScoped(query') = RootScoped(query) /\ MustList(query') = MustList(query)
    BY <2>1 DEF RootScoped, MustList
  <2>3. Strict(w) => ~QueryKeepsGoing
    BY <1>1, StrictIsStrict
  <2>4. Strict(w) => answer = "all"
    BY <1>6, <2>3 DEF BazelAnswers
  <2>5. Strict(w) => lost = {} /\ found \ lost = found
    BY <1>6, <2>4
  <2>6. StageFacts(query')
    BY <1>1, <2>1, <2>2 DEF StageFacts, LateStages
  <2> QED BY <1>1, <1>3, <2>1, <2>5, <2>6 DEF GraphFacts
<1> QED BY <1>4, <1>5, <1>6, Zenon

LEMMA ExternalSound ==
    ASSUME StageFacts(query), GraphFacts(query), query # Idle, QueryExternal
    PROVE  StageFacts(query') /\ GraphFacts(query')
<1> DEFINE w == query.world
           T == query.targets
           E == ExternalTargets(w)
<1>1. query.pc = "external" /\ query.pc \in LateStages /\ w.useCquery
  BY Zenon DEF QueryExternal, LateStages, GraphFacts
<1>2. ~HasScope /\ ~w.isolated
  BY <1>1, ScopeHasMembers DEF StageFacts, RootScoped, HasScope
<1>3. Strict(w) => /\ query.lost = {}
                   /\ T = {t \in Filtered(w, BazelOrdinary(w)) : Denoted(w, t.label) \notin w.incompatible}
  BY <1>1 DEF GraphFacts
<1>4. Strict(w) => Due(w) \subseteq T \cup (IF w.excludeExternal THEN {} ELSE E)
  BY <1>1, <1>3 DEF Due, Filtered
<1>5. \/ w.excludeExternal /\ Collected(w, T, query.lost)
      \/ "all" \in BazelAnswers(TRUE) /\ Collected(w, T \cup E, query.lost)
      \/ "some" \in BazelAnswers(TRUE) /\ Collected(w, T \cup E, query.lost \cup E)
      \/ "no external" \in BazelAnswers(TRUE) /\ Collected(w, T, query.lost)
      \/ QueryFails
  BY Zenon DEF QueryExternal
<1>6. CASE w.excludeExternal /\ Collected(w, T, query.lost)
  <2>1. Strict(w) => query.lost = {} /\ Due(w) \subseteq T
    BY <1>3, <1>4, <1>6
  <2> QED BY <1>1, <1>2, <1>6, <2>1, CollectedSound, Zenon
<1>7. CASE Collected(w, T \cup E, query.lost)
  <2>1. Strict(w) => query.lost = {} /\ Due(w) \subseteq T \cup E
    BY <1>3, <1>4
  <2> QED BY <1>1, <1>2, <1>7, <2>1, CollectedSound, Zenon
<1>8. CASE "some" \in BazelAnswers(TRUE) /\ Collected(w, T \cup E, query.lost \cup E)
  <2>1. QueryKeepsGoing
    BY <1>8 DEF BazelAnswers
  <2>2. ~Strict(w)
    BY <1>1, <2>1, StrictIsStrict
  <2> QED BY <1>1, <1>2, <1>8, <2>2, CollectedSound, Zenon
<1>9. CASE "no external" \in BazelAnswers(TRUE) /\ Collected(w, T, query.lost)
  <2>1. E = {}
    BY <1>9 DEF BazelAnswers, ExternalTargets
  <2>2. Strict(w) => query.lost = {} /\ Due(w) \subseteq T
    BY <1>3, <1>4, <2>1
  <2> QED BY <1>1, <1>2, <1>9, <2>2, CollectedSound, Zenon
<1>10. CASE QueryFails
  BY <1>10, FailingSound
<1> QED BY <1>5, <1>6, <1>7, <1>8, <1>9, <1>10, Zenon

LEMMA SupplementSound ==
    ASSUME StageFacts(query), GraphFacts(query), query # Idle, QuerySupplement
    PROVE  StageFacts(query') /\ GraphFacts(query')
<1> DEFINE w == query.world
           scope == query.scope
           K == query.targets
           first == CoverageRecord(w, scope, NoCoverage, K)
           readers == {pair[1] : pair \in {p \in query.loads :
                          ~(ScopedLabel(w, scope, p[2]) \subseteq first.files)}}
           asked == Supplement(w, first.missing, readers)
           extra == {t \in asked : \A s \in K : s.label # t.label}
           quiet == first.missing = {} /\ readers = {}
           loads == IF quiet THEN query.loads ELSE query.loads \cup BuildLoads(w, scope, asked)
           cov == IF quiet THEN first ELSE CoverageRecord(w, scope, first, extra)
           T == IF quiet THEN K ELSE K \cup extra
           R == Connect(w, scope, loads, cov, T)
<1>1. query.pc = "supplement" /\ RootScoped(query) /\ w \in Requests
  BY Zenon DEF QuerySupplement, GraphFacts, StageFacts
<1>2. PICK P : FoundBy(w, P) /\ K \subseteq P \cup w.nodes /\ query.loads = BuildLoads(w, scope, P)
  BY <1>1 DEF GraphFacts
<1>3. MainRepo \notin scope.members
  BY <1>1, ScopeHasMembers
<1>4. \/ /\ cov.missing = {} /\ UnansweredLoads(w, scope, loads, cov) = {}
         /\ query' = [query EXCEPT !.pc = "references", !.loads = loads, !.targets = R]
      \/ QueryFails
  BY Zenon DEF QuerySupplement, Supplement
<1>5. extra \in SUBSET asked
  OBVIOUS
<1>6. \/ loads = query.loads /\ cov = first /\ T = K
      \/ /\ loads = query.loads \cup BuildLoads(w, scope, asked)
         /\ cov = CoverageRecord(w, scope, first, extra) /\ T = K \cup extra
  BY Zenon
<1> HIDE DEF readers, extra, quiet, loads, cov, T
<1>7. Supplemented(w, scope, P, K, loads, cov, T)
  BY <1>2, <1>5, <1>6, Zenon DEF Supplemented
<1> HIDE DEF first, asked
<1>8. cov.missing = {} /\ UnansweredLoads(w, scope, loads, cov) = {} =>
         ReadersReached(w, scope, R) /\ LabelsOf(K) \subseteq LabelsOf(R)
  BY <1>1, <1>2, <1>3, <1>7, SupplementReaches, Zenon
<1>9. CASE QueryFails
  BY <1>9, FailingSound
<1> HIDE DEF R
<1>10. CASE /\ cov.missing = {} /\ UnansweredLoads(w, scope, loads, cov) = {}
            /\ query' = [query EXCEPT !.pc = "references", !.loads = loads, !.targets = R]
  <2>1. /\ DOMAIN query' = DOMAIN query /\ query'.world = w /\ query'.scope = scope
        /\ query'.nodes = query.nodes /\ query'.asked = query.asked /\ query'.pc = "references"
        /\ query'.targets = R
    BY <1>10 DEF StageFacts, QueryFields
  <2>2. RootScoped(query') = RootScoped(query) /\ MustList(query') = MustList(query)
    BY <2>1 DEF RootScoped, MustList
  <2>3. StageFacts(query')
    BY <1>1, <2>1, <2>2 DEF StageFacts, LateStages
  <2>4. LabelsOf(query.nodes) \subseteq LabelsOf(K) /\ (Strict(w) => LabelsOf(Due(w)) \subseteq LabelsOf(K))
    BY <1>1 DEF GraphFacts
  <2> QED BY <1>8, <1>10, <2>1, <2>3, <2>4 DEF GraphFacts
<1> QED BY <1>4, <1>9, <1>10

LEMMA ProbeSound ==
    ASSUME StageFacts(query), query # Idle, Probe
    PROVE  StageFacts(query') /\ GraphFacts(query')
<1> DEFINE w == query.world
<1>1. query.pc = "probe" /\ query.scope = NoScope /\ w \in Requests
  BY Zenon DEF Probe, StageFacts
<1>2. CASE QueryFails
  BY <1>2, FailingSound
<1>3. CASE ~QueryFails
  <2>1. ~(w.isolated /\ w.useCquery)
    BY <1>3, Zenon DEF Probe
  <2>2. PICK version \in {w.version, "failed"}, probe \in ProbeBzlmod :
           LET enabled == probe[2]
               refused == \/ version = "failed" /\ (w.isolated \/ (enabled /\ ~w.keepGoing))
                          \/ w.isolated /\ ~(Supported(version) /\ enabled)
           IN  query' = [query EXCEPT
                  !.version = version, !.enabled = enabled, !.asked = {probe[1]},
                  !.pc = CASE refused -> "failed"
                           [] ~refused /\ enabled /\ Supported(version) -> "repositories"
                           [] OTHER -> "primary"]
    BY <1>3, Zenon DEF Probe
  <2> DEFINE enabled == probe[2]
             refused == \/ version = "failed" /\ (w.isolated \/ (enabled /\ ~w.keepGoing))
                        \/ w.isolated /\ ~(Supported(version) /\ enabled)
             next == CASE refused -> "failed"
                       [] ~refused /\ enabled /\ Supported(version) -> "repositories"
                       [] OTHER -> "primary"
  <2>3. enabled \in BOOLEAN /\ (~enabled => probe[1] = "unusable")
    <3>1. \A a, b : <<a, b>>[1] = a /\ <<a, b>>[2] = b
      OBVIOUS
    <3>2. probe \in {<<"ok", TRUE>>, <<"answered", TRUE>>, <<"unusable", FALSE>>}
      BY Zenon DEF ProbeBzlmod
    <3>3. CASE probe \in {<<"ok", TRUE>>, <<"answered", TRUE>>}
      <4>1. probe[2] = TRUE
        BY <3>1, <3>3, Zenon
      <4> QED BY <4>1, Zenon
    <3>4. CASE probe = <<"unusable", FALSE>>
      <4>1. probe[2] = FALSE /\ probe[1] = "unusable"
        BY <3>1, <3>4, Zenon
      <4> QED BY <4>1, Zenon
    <3> QED BY <3>2, <3>3, <3>4, Zenon
  <2>4. query' = [query EXCEPT !.version = version, !.enabled = enabled, !.asked = {probe[1]}, !.pc = next]
    BY <2>2
  <2> HIDE DEF enabled
  <2>5. /\ next \in {"failed", "repositories", "primary"}
        /\ next = "primary" => ~refused /\ ~(enabled /\ Supported(version))
    BY <2>3 DEF Supported
  <2>6. next = "primary" => ~w.isolated
    BY <2>5
  <2>7. next = "primary" => (~enabled \/ ~Supported(w.version) \/ w.keepGoing)
    BY <2>5 DEF Supported
  <2> HIDE DEF next
  <2>8. /\ DOMAIN query' = DOMAIN query /\ query'.world = w /\ query'.scope = query.scope
        /\ query'.nodes = query.nodes /\ query'.asked = {probe[1]} /\ query'.pc = next
    BY <2>4 DEF StageFacts, QueryFields
  <2>9. next = "primary" => ~MustList(query')
    BY <2>3, <2>7, <2>8 DEF MustList
  <2> QED BY <1>1, <2>1, <2>5, <2>6, <2>8, <2>9, Zenon DEF StageFacts, GraphFacts, LateStages
<1> QED BY <1>2, <1>3

LEMMA RepositoriesSound ==
    ASSUME StageFacts(query), query # Idle, QueryBzlmodRepos
    PROVE  StageFacts(query') /\ GraphFacts(query')
<1> DEFINE w == query.world
<1>1. query.pc = "repositories" /\ query.scope = NoScope /\ w \in Requests /\ (w.isolated => ~w.useCquery)
  BY Zenon DEF QueryBzlmodRepos, StageFacts
<1>2. \/ QueryFails
      \/ /\ w.isolated /\ ResolvesIsolatedRoot(w)
         /\ query' = [query EXCEPT !.nodes = w.nodes, !.scope = IsolatedScope(w), !.pc = "primary"]
      \/ ~w.isolated /\ \E nodes \in {{}, w.nodes} : \E failures :
            /\ w.keepGoing \/ nodes = w.nodes
            /\ query' = [query EXCEPT !.nodes = nodes, !.failures = failures, !.pc = "primary"]
  <2>1. PICK answer \in {"complete", "extension failed", "without edges", "error"} :
          IF w.isolated
          THEN IF answer = "complete" /\ ResolvesIsolatedRoot(w)
               THEN query' = [query EXCEPT !.nodes = w.nodes, !.scope = IsolatedScope(w), !.pc = "primary"]
               ELSE QueryFails
          ELSE IF ~w.keepGoing /\ answer \in {"without edges", "error"}
               THEN QueryFails
               ELSE query' = [query EXCEPT
                       !.nodes = IF answer = "error" THEN {} ELSE w.nodes,
                       !.failures = answer = "extension failed",
                       !.pc = "primary"]
    BY Zenon DEF QueryBzlmodRepos
  <2>2. CASE w.isolated
    BY <2>1, <2>2, Zenon
  <2>3. CASE ~w.isolated /\ ~(~w.keepGoing /\ answer \in {"without edges", "error"})
    <3> DEFINE nodes == IF answer = "error" THEN {} ELSE w.nodes
               failures == answer = "extension failed"
    <3>1. nodes \in {{}, w.nodes} /\ (w.keepGoing \/ nodes = w.nodes)
      BY <2>3, Zenon
    <3>2. query' = [query EXCEPT !.nodes = nodes, !.failures = failures, !.pc = "primary"]
      BY <2>1, <2>3, Zenon
    <3> HIDE DEF nodes, failures
    <3> QED BY <2>3, <3>1, <3>2, Zenon
  <2>4. CASE ~w.isolated /\ ~w.keepGoing /\ answer \in {"without edges", "error"}
    BY <2>1, <2>4, Zenon
  <2> QED BY <2>2, <2>3, <2>4, Zenon
<1>3. CASE QueryFails
  BY <1>3, FailingSound
<1>4. CASE /\ w.isolated /\ ResolvesIsolatedRoot(w)
           /\ query' = [query EXCEPT !.nodes = w.nodes, !.scope = IsolatedScope(w), !.pc = "primary"]
  <2>1. /\ DOMAIN query' = DOMAIN query /\ query'.world = w /\ query'.scope = IsolatedScope(w)
        /\ query'.nodes = w.nodes /\ query'.pc = "primary"
    BY <1>4 DEF StageFacts, QueryFields
  <2>2. RootScoped(query')
    BY <1>4, <2>1 DEF RootScoped
  <2> QED BY <1>1, <2>1, <2>2, Zenon DEF StageFacts, GraphFacts
<1>5. ASSUME ~w.isolated, NEW nodes \in {{}, w.nodes}, NEW failures, w.keepGoing \/ nodes = w.nodes,
             query' = [query EXCEPT !.nodes = nodes, !.failures = failures, !.pc = "primary"]
      PROVE  StageFacts(query') /\ GraphFacts(query')
  <2>1. /\ DOMAIN query' = DOMAIN query /\ query'.world = w /\ query'.scope = query.scope
        /\ query'.nodes = nodes /\ query'.pc = "primary"
    BY <1>5 DEF StageFacts, QueryFields
  <2>2. MustList(query') => nodes = w.nodes
    BY <1>5, <2>1 DEF MustList
  <2> QED BY <1>1, <1>5, <2>1, <2>2 DEF StageFacts, GraphFacts
<1> QED BY <1>2, <1>3, <1>4, <1>5, Zenon

LEMMA ReferencesSound ==
    ASSUME StageFacts(query), GraphFacts(query), query # Idle, CheckFailedReferences
    PROVE  StageFacts(query') /\ GraphFacts(query')
<1>1. CASE QueryFails
  BY <1>1, FailingSound
<1>2. CASE query' = [query EXCEPT !.pc = "done"]
  <2>1. /\ DOMAIN query' = DOMAIN query /\ query'.world = query.world /\ query'.scope = query.scope
        /\ query'.nodes = query.nodes /\ query'.asked = query.asked /\ query'.pc = "done"
        /\ query'.targets = query.targets
    BY <1>2 DEF StageFacts, QueryFields
  <2>2. RootScoped(query') = RootScoped(query) /\ MustList(query') = MustList(query)
    BY <2>1, Zenon DEF RootScoped, MustList
  <2>3. query.pc = "references"
    BY DEF CheckFailedReferences
  <2> QED BY <2>1, <2>2, <2>3, Zenon DEF StageFacts, GraphFacts, LateStages
<1> QED BY <1>1, <1>2 DEF CheckFailedReferences

LEMMA QueryStep == QueryInv /\ [QueryNext]_query => QueryInv'
<1> SUFFICES ASSUME QueryInv, [QueryNext]_query PROVE QueryInv'
  OBVIOUS
<1>1. CASE UNCHANGED query
  BY <1>1 DEF QueryInv
<1>2. CASE QueryNext
  <2>1. query # Idle
    BY <1>2, Zenon DEF QueryNext, Probe, QueryBzlmodRepos, QueryPrimary, QueryConfigured, QueryExternal,
                QuerySupplement, CheckFailedReferences
  <2>2. StageFacts(query) /\ GraphFacts(query)
    BY <2>1 DEF QueryInv
  <2>3. StageFacts(query') /\ GraphFacts(query')
    BY <1>2, <2>1, <2>2, ProbeSound, RepositoriesSound, PrimarySound, ConfiguredSound, ExternalSound,
       SupplementSound, ReferencesSound DEF QueryNext
  <2> QED BY <2>3 DEF QueryInv
<1> QED BY <1>1, <1>2

\* query_all_targets_with: at every stage the facts its later stages rely on hold.
THEOREM QueryInvariant == QuerySpec => []QueryInv
<1>1. QueryInv /\ [QueryNext]_query => QueryInv'
  BY QueryStep
<1> QED BY QueryStarts, <1>1, PTL DEF QuerySpec

\* query_all_targets_with: for any workspace, command line and sequence of
\* answers of Bazel, a graph accepted without --keep_going, or under an
\* isolated root, has every target asked for; and the repository nodes are left
\* out only where Bazel cannot list them or --keep_going accepts it.
THEOREM GraphsAreWhole == QuerySpec => []NothingDropped
<1>1. QueryInv => NothingDropped
  <2> SUFFICES ASSUME QueryInv PROVE AcceptedGraphIsWhole /\ RepositoriesNotDropped
    BY DEF NothingDropped
  <2>1. AcceptedGraphIsWhole
    <3> SUFFICES ASSUME Done, Strict(query.world),
                        NEW t \in Due(query.world)
                 PROVE  t.label \in {s.label : s \in query.targets}
      BY DEF AcceptedGraphIsWhole, Strict, Due
    <3> QED BY DEF Done, QueryInv, GraphFacts, LabelsOf
  <2>2. RepositoriesNotDropped
    <3> SUFFICES ASSUME Done, MustList(query), NEW n \in query.world.nodes
                 PROVE  \E t \in query.targets : t.label = n.label
      BY DEF RepositoriesNotDropped, MustList
    <3>1. query.nodes = query.world.nodes /\ LabelsOf(query.nodes) \subseteq LabelsOf(query.targets)
      BY Zenon DEF Done, QueryInv, StageFacts, GraphFacts, LateStages
    <3> QED BY <3>1, Zenon DEF LabelsOf
  <2> QED BY <2>1, <2>2
<1> QED BY <1>1, QueryInvariant, PTL

\* --isolatedDependencyRoot, for any workspace: the scope that
\* resolve_isolated_root accepts is closed, and in a graph accepted under it
\* every rule that reads the usage, by an input or through what its BUILD file
\* loads, has the edge to the hub that what it reads is folded into
\* (ScopedCoverage, connect_external_readers).
THEOREM ScopesAreSound == QuerySpec => []ScopeIsSound
<1>1. QueryInv => ScopeIsSound
  <2> SUFFICES ASSUME QueryInv PROVE ScopeIsClosed /\ ScopedChangesReachReaders
    BY DEF ScopeIsSound
  <2> DEFINE w == query.world
  <2>1. ScopedChangesReachReaders
    <3> SUFFICES ASSUME Done, HasScope PROVE ScopedChangesReachReaders
      BY DEF ScopedChangesReachReaders
    <3>1. ReadersReached(w, query.scope, query.targets)
      BY Zenon DEF Done, HasScope, QueryInv, GraphFacts
    <3> QED BY <3>1 DEF ScopedChangesReachReaders, ReadersReached, Rules, LoadedBy, BuildsOf, LabelsOf
  <2>2. ScopeIsClosed
    <3> SUFFICES ASSUME query # Idle, HasScope PROVE ScopeIsClosed
      BY DEF ScopeIsClosed
    <3> DEFINE members == MembersOf(w)
               rows(repo) == {i \in DOMAIN w.catalog : w.catalog[i].repo = repo}
    <3>1. query.scope = IsolatedScope(w) /\ ResolvesIsolatedRoot(w) /\ w \in Requests
      BY ScopeHasMembers DEF QueryInv, HasScope, RootScoped, StageFacts
    <3>2. query.scope.members = members
          /\ query.scope.inputs = UNION {w.catalog[i].labels : i \in {j \in DOMAIN w.catalog : w.catalog[j].repo \in members}}
      BY <3>1 DEF IsolatedScope
    <3>3. /\ HubOf(w) \in members /\ HubOf(w) \in w.imported
          /\ members = {w.catalog[i].repo : i \in RowsOf(w, Group(w))}
          /\ \A repo \in w.imported : repo.prefix = Group(w) => repo = HubOf(w)
          /\ \A i, j \in RowsOf(w, Group(w)) : w.catalog[i].repo = w.catalog[j].repo => i = j
      BY <3>1, ScopeFacts
    <3>4. \A repo \in members : repo.prefix = Group(w)
      BY DEF MembersOf
    <3>5. \A repo \in w.generated \cup w.imported : repo.prefix = Group(w) => repo \in members
      BY <3>3 DEF MembersOf
    <3>6. members \cap w.imported = {w.mapping[w.anchor]}
      BY <3>3, <3>4 DEF HubOf
    <3>7. ASSUME NEW repo \in members
          PROVE  /\ Cardinality(rows(repo)) = 1
                 /\ \A i \in rows(repo) : w.catalog[i].labels \subseteq query.scope.inputs
      <4>1. PICK i \in RowsOf(w, Group(w)) : w.catalog[i].repo = repo
        BY <3>3
      <4>2. \A j \in rows(repo) : j \in RowsOf(w, Group(w))
        BY <3>4 DEF RowsOf
      <4>3. rows(repo) = {i}
        BY <3>3, <4>1, <4>2 DEF RowsOf
      <4>4. Cardinality({i}) = 1
        BY FS_Singleton, Zenon
      <4> QED BY <3>2, <4>3, <4>4, Zenon
    <3>8. \A i \in DOMAIN w.catalog : w.catalog[i].repo \notin members =>
             \A label \in w.catalog[i].labels : AttributeRepo(label) \notin members
      BY <3>1 DEF ResolvesIsolatedRoot
    <3> QED BY <3>2, <3>5, <3>6, <3>7, <3>8, Zenon DEF ScopeIsClosed
  <2> QED BY <2>1, <2>2
<1> QED BY <1>1, QueryInvariant, PTL
=============================================================================
