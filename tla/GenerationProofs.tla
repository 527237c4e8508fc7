-------------------------- MODULE GenerationProofs --------------------------
(***************************************************************************)
(* Three stages of a generation.  ExternalResolver: for any number of      *)
(* threads, any repositories and mapping, and any interleaving with        *)
(* cancellations and with other Bazel commands.  SourceDigests: for any    *)
(* workspace and any edits of its files.  Checkout: for any commits and    *)
(* any files, whatever kills or fails git.                                 *)
(***************************************************************************)
EXTENDS ExternalResolver, SourceDigests, Checkout, TLAPS

Mappings == {w.mapping : w \in Lookups} \cup {<<>>}

RootMaps == UNION {[names -> Names] : names \in SUBSET Names}

Counts == UNION {[names -> Nat] : names \in SUBSET Names}

RootStates ==
    [w : Lookups, stage : {"hashing", "stored", "failed"}, cancelled : BOOLEAN, dirs : SUBSET Names,
     mapping : Mappings, filling : Threads \cup {"unset", "set"}, holder : Threads \cup {Nobody},
     resolved : RootMaps,
     pc : [Threads -> {"start", "match", "lock", "held", "query", "end", "failed"}],
     root : [Threads -> Names], modCalls : Nat, queryCalls : Counts]

Reported(r) == r.w.captured \/ r.w.modWorks

\* The mapping is fetched once, and is the whole one unless the query was
\* cancelled meanwhile.
MappingOnce(r) ==
    /\ r.filling = "unset" => r.modCalls = 0
    /\ r.modCalls <= 1
    /\ r.filling \in Threads => ~r.w.captured
    /\ r.filling = "set" /\ ~r.cancelled /\ Reported(r) => r.mapping = r.w.mapping

\* The lock is held from the lookup to the answer of Bazel.
LockHeld(r) ==
    \A t \in Threads : r.holder = t <=> r.pc[t] \in {"held", "query"}

\* Bazel was asked for a repository that is resolved by now, or is being
\* resolved by the thread with the lock, or the query was cancelled.
QueriedOnce(r) ==
    /\ \A t \in Threads : r.pc[t] = "query" => r.filling = "set"
    /\ \A name \in DOMAIN r.queryCalls :
          /\ r.queryCalls[name] = 1
          /\ \/ r.cancelled \/ name \in DOMAIN r.resolved
             \/ \E t \in Threads : r.pc[t] = "query" /\ r.w.repo[t] = name

\* Until a cancellation every root found, and every root remembered for the
\* other threads, is the mapped one.
RootsMapped(r) ==
    ~r.cancelled /\ Reported(r) =>
        /\ \A name \in DOMAIN r.resolved \cap DOMAIN r.w.mapping :
              r.resolved[name] = r.w.mapping[name]
        /\ \A t \in Threads : r.root[t] # <<>> /\ r.w.repo[t] \in DOMAIN r.w.mapping
              => r.root[t] = r.w.mapping[r.w.repo[t]]

SoundRoots(r) ==
    /\ r \in RootStates
    /\ MappingOnce(r) /\ LockHeld(r) /\ QueriedOnce(r) /\ RootsMapped(r)
    /\ r.stage = "stored" => ~r.cancelled

ResolverInv == roots # Idle => SoundRoots(roots)

\* A resolver with an empty mapping and free threads starts sound.
LEMMA ResolverStarts == ResolverInit => ResolverInv
<1> SUFFICES ASSUME ResolverInit PROVE SoundRoots(roots)
  BY DEF ResolverInv
<1>1. PICK w \in Lookups :
        roots = [w |-> w, stage |-> "hashing", cancelled |-> FALSE, dirs |-> w.dirs,
                 mapping |-> <<>>, filling |-> "unset", holder |-> Nobody, resolved |-> <<>>,
                 pc |-> [t \in Threads |-> "start"], root |-> [t \in Threads |-> <<>>],
                 modCalls |-> 0, queryCalls |-> <<>>]
  BY Zenon DEF ResolverInit
<1>2. <<>> \in RootMaps /\ <<>> \in Counts /\ <<>> \in Names /\ DOMAIN <<>> = {}
  <2>1. <<>> \in [{} -> Names] /\ <<>> \in [{} -> Nat] /\ DOMAIN <<>> = {}
    OBVIOUS
  <2>2. {} \in SUBSET Names
    OBVIOUS
  <2>3. <<>> \in RootMaps /\ <<>> \in Counts
    BY <2>1, <2>2, Zenon DEF RootMaps, Counts
  <2> QED BY <2>1, <2>3 DEF Names
<1>3. roots \in RootStates
  BY <1>1, <1>2, ResolverAssumption DEF RootStates, Mappings
<1>4. MappingOnce(roots) /\ QueriedOnce(roots) /\ RootsMapped(roots) /\ LockHeld(roots)
  BY <1>1, <1>2, ResolverAssumption DEF MappingOnce, QueriedOnce, RootsMapped, LockHeld
<1> QED BY <1>1, <1>3, <1>4 DEF SoundRoots

\* What a state of the resolver consists of.
LEMMA RootFields ==
    ASSUME NEW r \in RootStates
    PROVE  /\ r.w \in Lookups /\ r.w.repo \in [Threads -> Names]
           /\ r.mapping \in Mappings /\ r.cancelled \in BOOLEAN
           /\ \A name \in DOMAIN r.mapping : name \in Names /\ r.mapping[name] \in Names
  BY ResolverAssumption DEF RootStates, Mappings

\* A step of a thread that only moves it on, without the lock.
LEMMA ThreadMoves ==
    ASSUME Hashing, SoundRoots(roots), NEW t \in Threads,
           roots.pc[t] \in {"start", "match", "lock"},
           NEW next \in {"match", "lock", "end"},
           roots' = [roots EXCEPT !.pc[t] = next]
    PROVE  SoundRoots(roots')
<1> USE DEF SoundRoots
<1>1. /\ roots' \in RootStates
      /\ \A u \in Threads : roots'.pc[u] = IF u = t THEN next ELSE roots.pc[u]
      /\ UNCHANGED <<roots.w, roots.stage, roots.cancelled, roots.mapping, roots.filling,
                     roots.holder, roots.resolved, roots.root, roots.modCalls, roots.queryCalls>>
  BY DEF RootStates
<1>2. MappingOnce(roots') /\ RootsMapped(roots')
  BY <1>1 DEF MappingOnce, RootsMapped, Reported
<1>3. LockHeld(roots') /\ QueriedOnce(roots')
  BY <1>1 DEF LockHeld, QueriedOnce
<1> QED BY <1>1, <1>2, <1>3

\* A thread that leaves the lock with the mapped root, or with any root when
\* the query was cancelled or Bazel reports no mapping, keeps the state sound.
LEMMA ResolvedSound ==
    ASSUME Hashing, SoundRoots(roots), NEW t \in Threads,
           roots.pc[t] \in {"held", "query"}, NEW root \in Names,
           ~roots.cancelled /\ Reported(roots) /\ roots.w.repo[t] \in DOMAIN roots.w.mapping
              => root = roots.w.mapping[roots.w.repo[t]],
           roots' = Resolved(t, root)
    PROVE  SoundRoots(roots')
<1> USE DEF SoundRoots
<1> DEFINE repo == roots.w.repo[t]
           known == [r \in DOMAIN roots.resolved \cup {repo} |->
                       IF r \in DOMAIN roots.resolved THEN roots.resolved[r] ELSE root]
<1>1. repo \in Names /\ known \in RootMaps
  <2>1. repo \in Names
    BY RootFields
  <2>2. DOMAIN roots.resolved \subseteq Names /\ \A r \in DOMAIN roots.resolved : roots.resolved[r] \in Names
    BY DEF RootStates, RootMaps
  <2>3. known \in [DOMAIN roots.resolved \cup {repo} -> Names]
    BY <2>1, <2>2
  <2>4. DOMAIN roots.resolved \cup {repo} \in SUBSET Names
    BY <2>1, <2>2
  <2> HIDE DEF known
  <2> QED BY <2>1, <2>3, <2>4 DEF RootMaps
<1>2. roots' = [roots EXCEPT !.pc[t] = "end", !.holder = Nobody, !.root[t] = root, !.resolved = known]
  BY DEF Resolved
<1>d. DOMAIN known = DOMAIN roots.resolved \cup {repo}
  OBVIOUS
<1>e. \A r \in DOMAIN known :
         known[r] = IF r \in DOMAIN roots.resolved THEN roots.resolved[r] ELSE root
  OBVIOUS
<1> HIDE DEF known
<1>3. /\ roots' \in RootStates
      /\ \A u \in Threads : /\ roots'.pc[u] = IF u = t THEN "end" ELSE roots.pc[u]
                            /\ roots'.root[u] = IF u = t THEN root ELSE roots.root[u]
      /\ roots'.holder = Nobody /\ roots'.resolved = known
      /\ UNCHANGED <<roots.w, roots.stage, roots.cancelled, roots.mapping, roots.filling,
                     roots.modCalls, roots.queryCalls>>
  <2> DEFINE steps == [roots.pc EXCEPT ![t] = "end"]
             found == [roots.root EXCEPT ![t] = root]
  <2>1. /\ steps \in [Threads -> {"start", "match", "lock", "held", "query", "end", "failed"}]
        /\ found \in [Threads -> Names]
        /\ \A u \in Threads : /\ steps[u] = IF u = t THEN "end" ELSE roots.pc[u]
                              /\ found[u] = IF u = t THEN root ELSE roots.root[u]
    BY DEF RootStates
  <2>2. roots' = [roots EXCEPT !.pc = steps, !.holder = Nobody, !.root = found, !.resolved = known]
    BY <1>2 DEF RootStates
  <2> HIDE DEF steps, found
  <2>3. /\ roots'.pc = steps /\ roots'.root = found
        /\ roots'.holder = Nobody /\ roots'.resolved = known
        /\ UNCHANGED <<roots.w, roots.stage, roots.cancelled, roots.mapping, roots.filling,
                       roots.modCalls, roots.queryCalls>>
    BY <2>2 DEF RootStates
  <2>4. roots' \in RootStates
    BY <1>1, <2>1, <2>2, Zenon DEF RootStates
  <2> QED BY <2>1, <2>3, <2>4
<1>4. MappingOnce(roots')
  BY <1>3 DEF MappingOnce, Reported
<1>5. LockHeld(roots')
  BY <1>3, ResolverAssumption DEF LockHeld
<1>6. QueriedOnce(roots')
  <2>1. \A u \in Threads : roots.pc[u] = "query" => u = t
    BY DEF LockHeld
  <2> QED BY <1>3, <1>d, <2>1 DEF QueriedOnce
<1>7. RootsMapped(roots')
  BY <1>3, <1>d, <1>e DEF RootsMapped, Reported
<1> QED BY <1>3, <1>4, <1>5, <1>6, <1>7

\* A thread whose query was cancelled leaves the lock with an error.
LEMMA FailedSound ==
    ASSUME Hashing, SoundRoots(roots), NEW t \in Threads, roots.cancelled,
           roots.pc[t] \in {"held", "query"},
           roots' = [roots EXCEPT !.pc[t] = "failed", !.holder = Nobody]
    PROVE  SoundRoots(roots')
<1> USE DEF SoundRoots
<1>1. /\ roots' \in RootStates
      /\ \A u \in Threads : roots'.pc[u] = IF u = t THEN "failed" ELSE roots.pc[u]
      /\ roots'.holder = Nobody
      /\ UNCHANGED <<roots.w, roots.stage, roots.cancelled, roots.mapping, roots.filling,
                     roots.resolved, roots.root, roots.modCalls, roots.queryCalls>>
  BY Zenon DEF RootStates
<1>2. MappingOnce(roots') /\ RootsMapped(roots') /\ QueriedOnce(roots')
  BY <1>1 DEF MappingOnce, RootsMapped, Reported, QueriedOnce
<1>3. LockHeld(roots')
  BY <1>1, ResolverAssumption DEF LockHeld
<1> QED BY <1>1, <1>2, <1>3

\* The module directory of a name is a name.
LEMMA ModuleDirectory ==
    ASSUME NEW name \in Names
    PROVE  Append(name, "") \in Names
<1>1. "" \in Parts
  BY DEF Parts
<1>2. ASSUME NEW part \in Parts PROVE Append(name, part) \in Names
  BY SMT DEF Names
<1> QED BY <1>1, <1>2, Zenon

\* The directory tried for a mapped repository is the mapped one.
LEMMA CandidatesMapped ==
    ASSUME SoundRoots(roots), MappingReady, NEW repo \in Names
    PROVE  /\ DOMAIN Candidates(repo) \in {1 .. 1, 1 .. 2}
           /\ \A i \in DOMAIN Candidates(repo) :
                 /\ Candidates(repo)[i] \in Names
                 /\ ~roots.cancelled /\ Reported(roots) /\ repo \in DOMAIN roots.w.mapping
                       => Candidates(repo)[i] = roots.w.mapping[repo]
<1>1. CASE repo \in DOMAIN roots.mapping
  <2>1. Candidates(repo) = <<roots.mapping[repo]>>
    BY <1>1 DEF Candidates
  <2>2. roots.mapping[repo] \in Names
    BY <1>1, RootFields DEF SoundRoots
  <2> QED BY <2>1, <2>2 DEF SoundRoots, MappingReady, MappingOnce
<1>2. CASE repo \notin DOMAIN roots.mapping
  <2> DEFINE module == Append(repo, "")
  <2>1. Candidates(repo) = <<repo, module>>
    BY <1>2, Zenon DEF Candidates
  <2>2. module \in Names
    BY ModuleDirectory, Zenon
  <2> HIDE DEF module
  <2>3. DOMAIN Candidates(repo) = 1 .. 2
    BY <2>1
  <2>4. \A i \in 1 .. 2 : Candidates(repo)[i] \in Names
    BY <2>1, <2>2
  <2>5. ~(~roots.cancelled /\ Reported(roots) /\ repo \in DOMAIN roots.w.mapping)
    BY <1>2 DEF SoundRoots, MappingReady, MappingOnce
  <2> QED BY <2>3, <2>4, <2>5
<1> QED BY <1>1, <1>2

\* Every step of a thread keeps the resolver sound.
LEMMA ThreadStepSound ==
    ASSUME SoundRoots(roots), Hashing, NEW t \in Threads, ThreadStep(t)
    PROVE  SoundRoots(roots')
<1> DEFINE repo == roots.w.repo[t]
<1>a. repo \in Names
  BY RootFields DEF SoundRoots
<1>1. CASE Begin(t)
  <2>1. PICK next \in {"match", "lock", "end"} : roots' = [roots EXCEPT !.pc[t] = next]
    BY <1>1 DEF Begin
  <2> QED BY <1>1, <2>1, ThreadMoves, Zenon DEF Begin, At
<1>2. CASE BeginMapping(t)
  <2> USE DEF SoundRoots
  <2>1. roots.filling = "unset" /\ roots.modCalls = 0
    BY <1>2 DEF BeginMapping, MappingOnce
  <2>2. /\ roots' \in RootStates
        /\ \/ roots'.filling = "set" /\ roots'.modCalls = 0
              /\ (roots.cancelled \/ roots'.mapping = roots.w.mapping)
           \/ roots'.filling = t /\ ~roots.w.captured /\ roots'.modCalls = 1
        /\ UNCHANGED <<roots.w, roots.stage, roots.cancelled, roots.holder, roots.resolved,
                       roots.pc, roots.root, roots.queryCalls>>
    <3>1. roots.w.mapping \in Mappings
      BY DEF RootStates, Mappings
    <3>2. CASE roots.cancelled
      BY <1>2, <2>1, <3>2, Zenon DEF BeginMapping, RootStates
    <3>3. CASE ~roots.cancelled /\ roots.w.captured
      BY <1>2, <2>1, <3>1, <3>3, Zenon DEF BeginMapping, RootStates
    <3>4. CASE ~roots.cancelled /\ ~roots.w.captured
      <4>1. roots' = [roots EXCEPT !.filling = t, !.modCalls = 1]
        BY <1>2, <2>1, <3>4 DEF BeginMapping
      <4> QED BY <3>4, <4>1, Zenon DEF RootStates
    <3> QED BY <3>2, <3>3, <3>4
  <2>3. MappingOnce(roots')
    BY <2>2, ResolverAssumption DEF MappingOnce, Reported
  <2>4. LockHeld(roots') /\ RootsMapped(roots')
    BY <2>2 DEF LockHeld, RootsMapped, Reported
  <2>5. QueriedOnce(roots')
    BY <2>1, <2>2 DEF QueriedOnce
  <2> QED BY <2>2, <2>3, <2>4, <2>5
<1>3. CASE EndMapping(t)
  <2> USE DEF SoundRoots
  <2>1. roots.filling = t /\ ~roots.w.captured
    BY <1>3 DEF EndMapping, MappingOnce
  <2>2. /\ roots' \in RootStates
        /\ roots'.filling = "set"
        /\ ~roots.cancelled /\ roots.w.modWorks => roots'.mapping = roots.w.mapping
        /\ UNCHANGED <<roots.w, roots.stage, roots.cancelled, roots.holder, roots.resolved,
                       roots.pc, roots.root, roots.modCalls, roots.queryCalls>>
    <3>1. roots.w.mapping \in Mappings /\ <<>> \in Mappings
      BY DEF RootStates, Mappings
    <3> QED BY <1>3, <3>1, Zenon DEF EndMapping, RootStates
  <2>3. MappingOnce(roots')
    BY <2>1, <2>2, ResolverAssumption DEF MappingOnce, Reported
  <2>4. LockHeld(roots') /\ RootsMapped(roots') /\ QueriedOnce(roots')
    BY <2>2 DEF LockHeld, RootsMapped, Reported, QueriedOnce
  <2> QED BY <2>2, <2>3, <2>4
<1>4. CASE Match(t)
  <2>1. PICK next \in {"match", "lock", "end"} : roots' = [roots EXCEPT !.pc[t] = next]
    BY <1>4 DEF Match
  <2> QED BY <1>4, <2>1, ThreadMoves, Zenon DEF Match, At
<1>5. CASE Acquire(t)
  <2> USE DEF SoundRoots
  <2>1. /\ roots' \in RootStates
        /\ \A u \in Threads : roots'.pc[u] = IF u = t THEN "held" ELSE roots.pc[u]
        /\ roots'.holder = t
        /\ UNCHANGED <<roots.w, roots.stage, roots.cancelled, roots.mapping, roots.filling,
                       roots.resolved, roots.root, roots.modCalls, roots.queryCalls>>
    BY <1>5, Zenon DEF Acquire, RootStates
  <2>2. roots.pc[t] = "lock" /\ \A u \in Threads : roots.pc[u] \notin {"held", "query"}
    BY <1>5, ResolverAssumption DEF Acquire, At, LockHeld
  <2>3. LockHeld(roots')
    BY <2>1, <2>2 DEF LockHeld
  <2>4. MappingOnce(roots') /\ RootsMapped(roots') /\ QueriedOnce(roots')
    BY <2>1, <2>2 DEF MappingOnce, RootsMapped, Reported, QueriedOnce
  <2> QED BY <2>1, <2>3, <2>4
<1>6. CASE Remembered(t)
  <2>1. /\ repo \in DOMAIN roots.resolved /\ roots.pc[t] = "held"
        /\ roots' = Resolved(t, roots.resolved[repo])
    BY <1>6 DEF Remembered, At
  <2>2. roots.resolved[repo] \in Names
    BY <2>1 DEF SoundRoots, RootStates, RootMaps
  <2>3. ~roots.cancelled /\ Reported(roots) /\ repo \in DOMAIN roots.w.mapping
           => roots.resolved[repo] = roots.w.mapping[repo]
    BY <2>1 DEF SoundRoots, RootsMapped
  <2> QED BY <2>1, <2>2, <2>3, ResolvedSound
<1>7. CASE TryDirectories(t)
  <2>1. roots.pc[t] = "held" /\ repo \notin DOMAIN roots.resolved /\ MappingReady
    BY <1>7 DEF TryDirectories, At
  <2>2. CASE Found(repo) # {}
    <3> DEFINE first == CHOOSE i \in Found(repo) : \A j \in Found(repo) : i <= j
    <3>1. Found(repo) \subseteq DOMAIN Candidates(repo)
      BY DEF Found
    <3>2. Found(repo) \subseteq 1 .. 2
      BY <1>a, <2>1, <3>1, CandidatesMapped
    <3>3. \E i \in Found(repo) : \A j \in Found(repo) : i <= j
      BY <2>2, <3>2
    <3>4. first \in Found(repo)
      BY <3>3
    <3> HIDE DEF first
    <3>5. roots' = Resolved(t, Candidates(repo)[first])
      BY <1>7, <2>2 DEF TryDirectories, first
    <3>6. /\ Candidates(repo)[first] \in Names
          /\ ~roots.cancelled /\ Reported(roots) /\ repo \in DOMAIN roots.w.mapping
                => Candidates(repo)[first] = roots.w.mapping[repo]
      BY <1>a, <2>1, <3>1, <3>4, CandidatesMapped
    <3> QED BY <2>1, <3>5, <3>6, ResolvedSound
  <2>3. CASE Found(repo) = {} /\ roots.cancelled
    <3>1. roots' = [roots EXCEPT !.pc[t] = "failed", !.holder = Nobody]
      BY <1>7, <2>3 DEF TryDirectories
    <3> QED BY <2>1, <2>3, <3>1, FailedSound, Zenon
  <2>4. CASE Found(repo) = {} /\ ~roots.cancelled
    <3> USE DEF SoundRoots
    <3> DEFINE asked == [r \in DOMAIN roots.queryCalls \cup {repo} |->
                           (IF r \in DOMAIN roots.queryCalls THEN roots.queryCalls[r] ELSE 0)
                               + (IF r = repo THEN 1 ELSE 0)]
    <3>1. repo \notin DOMAIN roots.queryCalls
      BY <2>1, <2>4 DEF QueriedOnce, LockHeld
    <3>2. /\ DOMAIN asked = DOMAIN roots.queryCalls \cup {repo}
          /\ \A r \in DOMAIN asked : asked[r] = 1
      BY <3>1 DEF QueriedOnce
    <3>3. asked \in Counts
      <4>1. DOMAIN roots.queryCalls \cup {repo} \in SUBSET Names
        BY <1>a DEF RootStates, Counts
      <4>2. asked = [r \in DOMAIN asked |-> asked[r]]
        OBVIOUS
      <4> HIDE DEF asked
      <4>3. asked \in [DOMAIN roots.queryCalls \cup {repo} -> Nat]
        BY <3>2, <4>2
      <4> QED BY <4>1, <4>3 DEF Counts
    <3>4. roots' = [roots EXCEPT !.pc[t] = "query", !.queryCalls = asked]
      BY <1>7, <2>4 DEF TryDirectories
    <3> HIDE DEF asked
    <3>5. /\ roots' \in RootStates
          /\ \A u \in Threads : roots'.pc[u] = IF u = t THEN "query" ELSE roots.pc[u]
          /\ roots'.queryCalls = asked
          /\ UNCHANGED <<roots.w, roots.stage, roots.cancelled, roots.mapping, roots.filling,
                         roots.holder, roots.resolved, roots.root, roots.modCalls>>
      BY <3>3, <3>4, Zenon DEF RootStates
    <3>6. MappingOnce(roots') /\ RootsMapped(roots')
      BY <3>5 DEF MappingOnce, RootsMapped, Reported
    <3>7. LockHeld(roots')
      BY <2>1, <3>5 DEF LockHeld
    <3>8. QueriedOnce(roots')
      BY <2>1, <3>2, <3>5 DEF QueriedOnce, MappingReady
    <3> QED BY <3>5, <3>6, <3>7, <3>8
  <2> QED BY <2>2, <2>3, <2>4 DEF SoundRoots, RootStates
<1>8. CASE EndQuery(t)
  <2>1. roots.pc[t] = "query" /\ MappingReady
    BY <1>8 DEF EndQuery, At, SoundRoots, QueriedOnce, MappingReady
  <2>2. CASE roots.cancelled
    <3>1. roots' = [roots EXCEPT !.pc[t] = "failed", !.holder = Nobody]
      BY <1>8, <2>2 DEF EndQuery
    <3> QED BY <2>1, <2>2, <3>1, FailedSound, Zenon
  <2>3. CASE ~roots.cancelled
    <3> DEFINE root == IF repo \in DOMAIN roots.w.where THEN roots.w.where[repo]
                       ELSE Candidates(repo)[1]
    <3>1. roots' = Resolved(t, root)
      BY <1>8, <2>3 DEF EndQuery
    <3>2. /\ root \in Names
          /\ Reported(roots) /\ repo \in DOMAIN roots.w.mapping => root = roots.w.mapping[repo]
      <4>1. CASE repo \in DOMAIN roots.w.where
        BY <4>1, RootFields, ResolverAssumption DEF SoundRoots
      <4>2. CASE repo \notin DOMAIN roots.w.where
        BY <1>a, <2>1, <2>3, <4>2, CandidatesMapped
      <4> QED BY <4>1, <4>2
    <3> HIDE DEF root
    <3> QED BY <2>1, <3>1, <3>2, ResolvedSound
  <2> QED BY <2>2, <2>3
<1> QED BY <1>1, <1>2, <1>3, <1>4, <1>5, <1>6, <1>7, <1>8 DEF ThreadStep

\* Every step of the threads, a cancellation, another command's fetch and the
\* end of the generation keep the resolver sound.
LEMMA ResolverStepSound == ResolverInv /\ [ResolverNext]_roots => ResolverInv'
<1> SUFFICES ASSUME ResolverInv, ResolverNext, roots' # Idle PROVE SoundRoots(roots')
  BY DEF ResolverInv
<1>1. ASSUME NEW t \in Threads, ThreadStep(t) PROVE SoundRoots(roots')
  <2>1. Hashing
    BY <1>1 DEF ThreadStep, Begin, BeginMapping, NeedsMapping, EndMapping, Match, Acquire,
                Remembered, TryDirectories, EndQuery, At
  <2> QED BY <1>1, <2>1, ThreadStepSound DEF ResolverInv, Hashing
<1>2. ASSUME Store \/ Cancel \/ Materialize PROVE SoundRoots(roots')
  <2> USE DEF SoundRoots
  <2>1. SoundRoots(roots)
    BY <1>2 DEF ResolverInv, Hashing, Store, Cancel, Materialize
  <2>2. /\ roots' \in RootStates
        /\ roots'.stage = "stored" => ~roots'.cancelled
        /\ ~roots'.cancelled => ~roots.cancelled
        /\ roots.cancelled => roots'.cancelled
        /\ UNCHANGED <<roots.w, roots.mapping, roots.filling, roots.holder, roots.resolved,
                       roots.pc, roots.root, roots.modCalls, roots.queryCalls>>
    <3>1. CASE Store
      BY <2>1, <3>1 DEF Store, RootStates
    <3>2. CASE Cancel
      BY <2>1, <3>2, Zenon DEF Cancel, Hashing, RootStates
    <3>3. CASE Materialize
      <4>1. PICK d \in roots.w.materializes : roots' = [roots EXCEPT !.dirs = @ \cup {d}]
        BY <3>3, Zenon DEF Materialize
      <4>2. roots.dirs \cup {d} \in SUBSET Names
        BY <2>1, <4>1, ResolverAssumption DEF RootStates
      <4> QED BY <2>1, <4>1, <4>2 DEF RootStates
    <3> QED BY <1>2, <3>1, <3>2, <3>3
  <2> QED BY <2>1, <2>2 DEF MappingOnce, LockHeld, QueriedOnce, RootsMapped, Reported
<1> QED BY <1>1, <1>2 DEF ResolverNext

\* For any threads, repositories, mapping and interleaving: a generation that is
\* cached read every mapped repository from its mapped directory, and Bazel was
\* asked at most once for the mapping and once for each repository.
THEOREM ResolverCorrect == ResolverSpec => []ResolutionRight
<1>1. ResolverInv => ResolutionRight
  <2> SUFFICES ASSUME ResolverInv, roots # Idle PROVE ResolutionRight
    BY DEF ResolutionRight, CachedRootsRight, BazelAskedOnce
  <2>1. SoundRoots(roots)
    BY DEF ResolverInv
  <2>2. CachedRootsRight
    BY <2>1 DEF SoundRoots, RootsMapped, Reported, CachedRootsRight
  <2>3. BazelAskedOnce
    BY <2>1 DEF SoundRoots, MappingOnce, QueriedOnce, BazelAskedOnce
  <2> QED BY <2>2, <2>3 DEF ResolutionRight
<1> QED BY <1>1, ResolverStarts, ResolverStepSound, PTL DEF ResolverSpec

-----------------------------------------------------------------------------
(* SourceDigests.  What a way of reading tells of two revisions is shown   *)
(* source by source: a digest differs exactly when the file, or the tree,  *)
(* behind it does.                                                         *)

SameFile(f, g, p) == (p \in DOMAIN f <=> p \in DOMAIN g) /\ (p \in DOMAIN f => f[p] = g[p])

\* The paths in which two revisions differ are among the modified ones, or the
\* paths are not restricted.
Covers(how, f, g) == how.modified = {} \/ \A p : SameFile(f, g, p) \/ p \in how.modified

SoundFiles(l, f) == l.seeds \subseteq DOMAIN f /\ \A p \in DOMAIN f : WorkspacePath(p) /\ IsFile(f[p])

ContentAt(f, path) == IF path \in DOMAIN f THEN {<<path, f[path]>>} ELSE DirectoryTree(f, path)

\* A file keeps its content and its executable bit, or it is another one.
LEMMA FilesAgree ==
    ASSUME NEW l, NEW f, NEW g, NEW how, NEW s, NEW r, SoundFiles(l, f), SoundFiles(l, g),
           Covers(how, f, g), s.read, r.read, s.path = r.path,
           DigestSource(l, f, how, s) = DigestSource(l, g, how, r)
    PROVE  ContentAt(f, s.path) = ContentAt(g, s.path)
<1> DEFINE p == s.path
<1> DEFINE tracked == how.mode = "blobs" /\ p \notin l.untracked
<1> DEFINE whole == how.modified = {} \/ p \in how.modified
<1> DEFINE below == how.modified = {} \/ \E m \in how.modified : IsAncestor(p, m)
<1>1. p \in DOMAIN f => DigestSource(l, f, how, s) =
         <<"file", s.seed, f[p].executable, IF tracked \/ whole THEN {f[p].content} ELSE {}>>
  BY Zenon DEF DigestSource
<1>2. p \in DOMAIN g => DigestSource(l, g, how, r) =
         <<"file", r.seed, g[p].executable, IF tracked \/ whole THEN {g[p].content} ELSE {}>>
  BY DEF DigestSource
<1>3. p \notin DOMAIN f => DigestSource(l, f, how, s) =
         IF IsDirectory(f, p) THEN <<"directory", s.seed, IF below THEN DirectoryTree(f, p) ELSE {}>>
         ELSE <<"missing", s.seed>>
  BY DEF DigestSource
<1>4. p \notin DOMAIN g => DigestSource(l, g, how, r) =
         IF IsDirectory(g, p) THEN <<"directory", r.seed, IF below THEN DirectoryTree(g, p) ELSE {}>>
         ELSE <<"missing", r.seed>>
  BY DEF DigestSource
<1>5. CASE p \in DOMAIN f /\ p \in DOMAIN g
  <2>1. f[p].executable = g[p].executable /\ (tracked \/ whole => f[p].content = g[p].content)
    BY <1>1, <1>2, <1>5
  <2>2. ~whole => f[p] = g[p]
    BY <1>5 DEF Covers, SameFile
  <2>3. f[p] = g[p]
    BY <1>5, <2>1, <2>2 DEF SoundFiles, IsFile
  <2> QED BY <1>5, <2>3 DEF ContentAt
<1>6. CASE p \notin DOMAIN f /\ p \notin DOMAIN g
  <2>1. ~IsDirectory(f, p) => DirectoryTree(f, p) = {}
    BY DEF IsDirectory, DirectoryTree
  <2>2. ~IsDirectory(g, p) => DirectoryTree(g, p) = {}
    BY DEF IsDirectory, DirectoryTree
  <2>3. IsDirectory(f, p) <=> IsDirectory(g, p)
    BY <1>3, <1>4, <1>6
  <2>4. ~below => DirectoryTree(f, p) = DirectoryTree(g, p)
    BY DEF Covers, SameFile, DirectoryTree
  <2>5. IsDirectory(f, p) /\ below => DirectoryTree(f, p) = DirectoryTree(g, p)
    BY <1>3, <1>4, <1>6, <2>3
  <2> QED BY <1>6, <2>1, <2>2, <2>3, <2>4, <2>5 DEF ContentAt
<1>7. ~(p \in DOMAIN f /\ p \notin DOMAIN g) /\ ~(p \notin DOMAIN f /\ p \in DOMAIN g)
  BY <1>1, <1>2, <1>3, <1>4
<1> QED BY <1>5, <1>6, <1>7

\* Nothing else than the file or the tree counts.
LEMMA DigestsAgree ==
    ASSUME NEW l, NEW f, NEW g, NEW how, NEW s, ContentAt(f, s.path) = ContentAt(g, s.path)
    PROVE  DigestSource(l, f, how, s) = DigestSource(l, g, how, s)
<1> DEFINE p == s.path
<1>1. p \in DOMAIN f => <<p, f[p]>> \in ContentAt(f, p)
  BY DEF ContentAt
<1>2. p \in DOMAIN g => <<p, g[p]>> \in ContentAt(g, p)
  BY DEF ContentAt
<1>3. \A h, v : p \notin DOMAIN h => <<p, v>> \notin ContentAt(h, p)
  BY DEF ContentAt, DirectoryTree
<1>4. p \in DOMAIN f <=> p \in DOMAIN g
  BY <1>1, <1>2, <1>3
<1>5. CASE p \in DOMAIN f
  <2>1. <<p, f[p]>> \in {<<p, g[p]>>}
    BY <1>1, <1>4, <1>5, Zenon DEF ContentAt
  <2>2. f[p] = g[p]
    BY <2>1
  <2> QED BY <1>4, <1>5, <2>2 DEF DigestSource
<1>6. CASE p \notin DOMAIN f
  <2>1. DirectoryTree(f, p) = DirectoryTree(g, p)
    BY <1>4, <1>6 DEF ContentAt
  <2>2. \A h : IsDirectory(h, p) <=> DirectoryTree(h, p) # {}
    BY Zenon DEF IsDirectory, DirectoryTree
  <2> QED BY <1>4, <1>6, <2>1, <2>2 DEF DigestSource
<1> QED BY <1>5, <1>6

LEMMA SoftAgree ==
    ASSUME NEW l, NEW f, NEW g, NEW how, NEW p, SoundFiles(l, f), SoundFiles(l, g), Covers(how, f, g)
    PROVE  SoftDigest(l, f, how, p) = SoftDigest(l, g, how, p) <=> SameFile(f, g, p)
<1> DEFINE s == [path |-> p, read |-> TRUE, seed |-> {}]
<1>1. s.path = p /\ s.read
  OBVIOUS
<1>2. \A h : SoftDigest(l, h, how, p) = IF p \in DOMAIN h THEN {DigestSource(l, h, how, s)} ELSE {}
  BY DEF SoftDigest
<1> HIDE DEF s
<1>3. ASSUME p \in DOMAIN f, p \in DOMAIN g, DigestSource(l, f, how, s) = DigestSource(l, g, how, s)
      PROVE  f[p] = g[p]
  <2>1. ContentAt(f, p) = ContentAt(g, p)
    <3>1. ContentAt(f, s.path) = ContentAt(g, s.path)
      BY <1>1, <1>3, FilesAgree
    <3> QED BY <1>1, <3>1
  <2>2. <<p, f[p]>> \in {<<p, g[p]>>}
    BY <1>3, <2>1, Zenon DEF ContentAt
  <2> QED BY <2>2
<1>4. ASSUME p \in DOMAIN f, p \in DOMAIN g, f[p] = g[p]
      PROVE  DigestSource(l, f, how, s) = DigestSource(l, g, how, s)
  <2>1. ContentAt(f, s.path) = ContentAt(g, s.path)
    BY <1>1, <1>4 DEF ContentAt
  <2> QED BY <2>1, DigestsAgree
<1> QED BY <1>2, <1>3, <1>4 DEF SameFile

\* The sources of the rule, as the digest and as the reader see them.
LEMMA InputsAgree ==
    ASSUME NEW l, NEW f, NEW g, NEW how, SoundFiles(l, f), SoundFiles(l, g), Covers(how, f, g)
    PROVE  {<<s.path, DigestSource(l, f, how, s)>> : s \in l.sources}
               = {<<s.path, DigestSource(l, g, how, s)>> : s \in l.sources}
           <=> {<<s.path, ContentAt(f, s.path)>> : s \in {o \in l.sources : o.read}}
               = {<<s.path, ContentAt(g, s.path)>> : s \in {o \in l.sources : o.read}}
<1> DEFINE D(h) == {<<s.path, DigestSource(l, h, how, s)>> : s \in l.sources}
           C(h) == {<<s.path, ContentAt(h, s.path)>> : s \in {o \in l.sources : o.read}}
<1>1. ASSUME D(f) = D(g) PROVE C(f) = C(g)
  <2>1. ASSUME NEW s \in l.sources, s.read PROVE ContentAt(f, s.path) = ContentAt(g, s.path)
    <3>1. <<s.path, DigestSource(l, f, how, s)>> \in D(g)
      BY <1>1, Zenon
    <3>2. PICK r \in l.sources : <<s.path, DigestSource(l, f, how, s)>> = <<r.path, DigestSource(l, g, how, r)>>
      BY <3>1
    <3>3. s.path = r.path /\ DigestSource(l, f, how, s) = DigestSource(l, g, how, r)
      BY <3>2
    <3>4. r.read
      <4>1. ~r.read => DigestSource(l, g, how, r) = <<"unread">>
        BY DEF DigestSource
      <4>2. DigestSource(l, f, how, s) # <<"unread">>
        BY <2>1 DEF DigestSource
      <4> QED BY <3>3, <4>1, <4>2
    <3> QED BY <2>1, <3>3, <3>4, FilesAgree
  <2> QED BY <2>1
<1>2. ASSUME C(f) = C(g) PROVE D(f) = D(g)
  <2>1. ASSUME NEW s \in l.sources, s.read PROVE ContentAt(f, s.path) = ContentAt(g, s.path)
    <3>1. <<s.path, ContentAt(f, s.path)>> \in C(g)
      BY <1>2, <2>1, Zenon
    <3>2. PICK r \in {o \in l.sources : o.read} : <<s.path, ContentAt(f, s.path)>> = <<r.path, ContentAt(g, r.path)>>
      BY <3>1
    <3> QED BY <3>2
  <2>2. ASSUME NEW s \in l.sources PROVE DigestSource(l, f, how, s) = DigestSource(l, g, how, s)
    <3>1. CASE s.read
      BY <2>1, <3>1, DigestsAgree
    <3>2. CASE ~s.read
      BY <3>2 DEF DigestSource
    <3> QED BY <3>1, <3>2
  <2> QED BY <2>2
<1> QED BY <1>1, <1>2

\* Pairs of a path and what stands there agree when each path does.
LEMMA PairsAgree ==
    ASSUME NEW X, NEW f, NEW g
    PROVE  {<<p, f[p]>> : p \in DOMAIN f \cap X} = {<<p, g[p]>> : p \in DOMAIN g \cap X}
           <=> \A p \in X : SameFile(f, g, p)
<1> DEFINE P(h) == {<<p, h[p]>> : p \in DOMAIN h \cap X}
<1>1. \A h, p, v : <<p, v>> \in P(h) <=> p \in DOMAIN h \cap X /\ v = h[p]
  OBVIOUS
<1>2. ASSUME P(f) = P(g), NEW p \in X PROVE SameFile(f, g, p)
  <2>1. p \in DOMAIN f => <<p, f[p]>> \in P(g)
    BY <1>2, Zenon
  <2>2. p \in DOMAIN g => <<p, g[p]>> \in P(f)
    BY <1>2, Zenon
  <2> HIDE DEF P
  <2> QED BY <1>1, <2>1, <2>2 DEF SameFile
<1>3. ASSUME \A p \in X : SameFile(f, g, p) PROVE P(f) = P(g)
  BY <1>3 DEF SameFile
<1> QED BY <1>2, <1>3

BzlFiles(l) ==
    IF l.stacks THEN {q \in l.rule.stack : q[1] # "external"}
    ELSE UNION {s.seed : s \in {o \in l.sources : o.package = l.rule.package}}

LEMMA BzlAgree ==
    ASSUME NEW l, NEW f, NEW g, NEW how, SoundFiles(l, f), SoundFiles(l, g), Covers(how, f, g)
    PROVE  BzlSeed(l, f, how) = BzlSeed(l, g, how) <=> \A p \in BzlFiles(l) : SameFile(f, g, p)
<1> DEFINE S(h, p) == SoftDigest(l, h, how, p)
           listed == {p \in l.rule.stack : p[1] \notin {"external", "..", "/"}}
           loaded == UNION {s.seed : s \in {o \in l.sources : o.package = l.rule.package}}
<1>1. \A p : S(f, p) = S(g, p) <=> SameFile(f, g, p)
  BY SoftAgree
<1>2. CASE l.stacks
  <2>1. \A h : BzlSeed(l, h, how) = {<<p, S(h, p)>> : p \in listed}
    BY <1>2 DEF BzlSeed
  <2> HIDE DEF S, listed
  <2>2. BzlSeed(l, f, how) = BzlSeed(l, g, how) <=> \A p \in listed : S(f, p) = S(g, p)
    <3>1. ASSUME BzlSeed(l, f, how) = BzlSeed(l, g, how), NEW p \in listed PROVE S(f, p) = S(g, p)
      <4>1. <<p, S(f, p)>> \in {<<q, S(g, q)>> : q \in listed}
        BY <2>1, <3>1, Zenon
      <4> QED BY <4>1
    <3>2. ASSUME \A p \in listed : S(f, p) = S(g, p) PROVE BzlSeed(l, f, how) = BzlSeed(l, g, how)
      BY <2>1, <3>2
    <3> QED BY <3>1, <3>2
  <2>3. \A p \in BzlFiles(l) \ listed : SameFile(f, g, p)
    BY <1>2 DEF BzlFiles, listed, SameFile, SoundFiles, WorkspacePath
  <2>4. listed \subseteq BzlFiles(l)
    BY <1>2 DEF BzlFiles, listed
  <2> QED BY <1>1, <2>2, <2>3, <2>4
<1>3. CASE ~l.stacks
  <2>1. \A h : BzlSeed(l, h, how) = {<<p, S(h, p)>> : p \in {q \in loaded : S(h, q) # {}}}
    BY <1>3 DEF BzlSeed
  <2>2. BzlFiles(l) = loaded
    BY <1>3 DEF BzlFiles
  <2> HIDE DEF S, loaded
  <2>3. ASSUME BzlSeed(l, f, how) = BzlSeed(l, g, how), NEW p \in loaded PROVE S(f, p) = S(g, p)
    <3>1. S(f, p) # {} => <<p, S(f, p)>> \in {<<q, S(g, q)>> : q \in {r \in loaded : S(g, r) # {}}}
      BY <2>1, <2>3, Zenon
    <3>2. S(g, p) # {} => <<p, S(g, p)>> \in {<<q, S(f, q)>> : q \in {r \in loaded : S(f, r) # {}}}
      BY <2>1, <2>3, Zenon
    <3>3. S(f, p) # {} => S(f, p) = S(g, p)
      BY <3>1
    <3>4. S(g, p) # {} => S(f, p) = S(g, p)
      BY <3>2
    <3> QED BY <3>3, <3>4
  <2>4. ASSUME \A p \in loaded : S(f, p) = S(g, p) PROVE BzlSeed(l, f, how) = BzlSeed(l, g, how)
    BY <2>1, <2>4, Zenon
  <2> QED BY <1>1, <2>2, <2>3, <2>4
<1> QED BY <1>2, <1>3

LEMMA SeedsAgree ==
    ASSUME NEW l, NEW f, NEW g
    PROVE  SeedFilesHash(l, f) = SeedFilesHash(l, g)
           <=> {<<p, f[p].content>> : p \in l.seeds} = {<<p, g[p].content>> : p \in l.seeds}
<1>1. ASSUME SeedFilesHash(l, f) = SeedFilesHash(l, g), NEW p \in l.seeds PROVE f[p].content = g[p].content
  BY <1>1 DEF SeedFilesHash
<1>2. ASSUME {<<p, f[p].content>> : p \in l.seeds} = {<<p, g[p].content>> : p \in l.seeds}, NEW p \in l.seeds
      PROVE  f[p].content = g[p].content
  <2>1. <<p, f[p].content>> \in {<<q, g[q].content>> : q \in l.seeds}
    BY <1>2, Zenon
  <2> QED BY <2>1
<1>3. ASSUME \A p \in l.seeds : f[p].content = g[p].content
      PROVE  /\ SeedFilesHash(l, f) = SeedFilesHash(l, g)
             /\ {<<p, f[p].content>> : p \in l.seeds} = {<<p, g[p].content>> : p \in l.seeds}
  BY <1>3 DEF SeedFilesHash
<1> QED BY <1>1, <1>2, <1>3

\* A way of reading that covers what changed sees exactly the changes.
LEMMA ReadingSees ==
    ASSUME NEW f, NEW g, NEW how, SoundFiles(srcs.layout, f), SoundFiles(srcs.layout, g), Covers(how, f, g)
    PROVE  RuleDigest(srcs.layout, f, how) = RuleDigest(srcs.layout, g, how)
           <=> SourceContents(f) = SourceContents(g)
<1> DEFINE l == srcs.layout
           Soft(h) == {<<p, SoftDigest(l, h, how, p)>> : p \in l.rule.soft}
           Inputs(h) == {<<s.path, DigestSource(l, h, how, s)>> : s \in l.sources}
           Sources(h) == {<<s.path, ContentAt(h, s.path)>> : s \in {o \in l.sources : o.read}}
           Others(h) == {<<p, h[p]>> : p \in DOMAIN h \cap (l.rule.soft \cup BzlFiles(l))}
           Seeds(h) == {<<p, h[p].content>> : p \in l.seeds}
<1>1. \A h : RuleDigest(l, h, how) = [seeds |-> SeedFilesHash(l, h), bzl |-> BzlSeed(l, h, how),
                                      inputs |-> Inputs(h), soft |-> Soft(h)]
  BY DEF RuleDigest
<1>2. \A h : SourceContents(h) = [sources |-> Sources(h), others |-> Others(h), seeds |-> Seeds(h)]
  BY DEF SourceContents, ContentAt, BzlFiles
<1>3. Soft(f) = Soft(g) <=> \A p \in l.rule.soft : SameFile(f, g, p)
  <2>1. ASSUME Soft(f) = Soft(g), NEW p \in l.rule.soft PROVE SameFile(f, g, p)
    <3>1. <<p, SoftDigest(l, f, how, p)>> \in Soft(g)
      BY <2>1, Zenon
    <3>2. SoftDigest(l, f, how, p) = SoftDigest(l, g, how, p)
      BY <3>1
    <3> QED BY <3>2, SoftAgree
  <2>2. ASSUME \A p \in l.rule.soft : SameFile(f, g, p) PROVE Soft(f) = Soft(g)
    <3>1. \A p \in l.rule.soft : SoftDigest(l, f, how, p) = SoftDigest(l, g, how, p)
      BY <2>2, SoftAgree
    <3> QED BY <3>1
  <2> QED BY <2>1, <2>2
<1>4. Inputs(f) = Inputs(g) <=> Sources(f) = Sources(g)
  BY InputsAgree
<1>5. Others(f) = Others(g) <=> \A p \in l.rule.soft \cup BzlFiles(l) : SameFile(f, g, p)
  BY PairsAgree
<1>6. BzlSeed(l, f, how) = BzlSeed(l, g, how) <=> \A p \in BzlFiles(l) : SameFile(f, g, p)
  BY BzlAgree
<1>7. SeedFilesHash(l, f) = SeedFilesHash(l, g) <=> Seeds(f) = Seeds(g)
  BY SeedsAgree
<1> HIDE DEF Soft, Inputs, Sources, Others, Seeds, l
<1>8. RuleDigest(l, f, how) = RuleDigest(l, g, how)
      <=> /\ SeedFilesHash(l, f) = SeedFilesHash(l, g) /\ BzlSeed(l, f, how) = BzlSeed(l, g, how)
          /\ Inputs(f) = Inputs(g) /\ Soft(f) = Soft(g)
  BY <1>1
<1>9. SourceContents(f) = SourceContents(g)
      <=> Sources(f) = Sources(g) /\ Others(f) = Others(g) /\ Seeds(f) = Seeds(g)
  BY <1>2
<1>10. RuleDigest(l, f, how) = RuleDigest(l, g, how) <=> SourceContents(f) = SourceContents(g)
  BY <1>3, <1>4, <1>5, <1>6, <1>7, <1>8, <1>9, Zenon
<1> QED BY <1>10 DEF l

SourcesInv ==
    srcs # Idle =>
        /\ srcs = [layout |-> srcs.layout, first |-> srcs.first, files |-> srcs.files, edits |-> srcs.edits]
        /\ SoundFiles(srcs.layout, srcs.first) /\ SoundFiles(srcs.layout, srcs.files)

LEMMA SourcesStart == SourcesInit => SourcesInv
  BY SourcesAssumption DEF SourcesInit, SourcesInv, SoundFiles

LEMMA EditSound ==
    ASSUME NEW s, s = [layout |-> s.layout, first |-> s.first, files |-> s.files, edits |-> s.edits],
           SoundFiles(s.layout, s.first), NEW h, NEW e, SoundFiles(s.layout, h),
           srcs' = [s EXCEPT !.files = h, !.edits = e]
    PROVE  SourcesInv'
<1>1. srcs' = [layout |-> s.layout, first |-> s.first, files |-> h, edits |-> e]
  BY Zenon
<1>2. srcs'.layout = s.layout /\ srcs'.first = s.first /\ srcs'.files = h /\ srcs'.edits = e
  BY <1>1
<1> QED BY <1>1, <1>2, Zenon DEF SourcesInv

LEMMA SourcesStep == SourcesInv /\ [SourcesNext]_srcs => SourcesInv'
<1> SUFFICES ASSUME SourcesInv, [SourcesNext]_srcs PROVE SourcesInv'
  OBVIOUS
<1> DEFINE s == srcs
<1>1. CASE UNCHANGED srcs
  BY <1>1 DEF SourcesInv
<1>2. CASE EditSource
  <2>1. PICK p \in DOMAIN s.files, f \in FileStates : srcs' = [s EXCEPT !.files[p] = f, !.edits = @ + 1]
    BY <1>2, Zenon DEF EditSource
  <2> DEFINE h == [s.files EXCEPT ![p] = f]
  <2>2. SoundFiles(s.layout, h)
    BY <1>2, <2>1, SourcesAssumption DEF EditSource, SourcesEditable, SourcesInv, SoundFiles
  <2>3. srcs' = [s EXCEPT !.files = h, !.edits = s.edits + 1]
    BY <2>1
  <2> QED BY <1>2, <2>2, <2>3, EditSound, Zenon DEF EditSource, SourcesEditable, SourcesInv
<1>3. CASE RemoveSource
  <2>1. PICK p \in DOMAIN s.files \ s.layout.seeds :
           srcs' = [s EXCEPT !.files = [q \in DOMAIN @ \ {p} |-> @[q]], !.edits = @ + 1]
    BY <1>3, Zenon DEF RemoveSource
  <2> DEFINE h == [q \in DOMAIN s.files \ {p} |-> s.files[q]]
  <2>2. SoundFiles(s.layout, h)
    BY <1>3, <2>1 DEF RemoveSource, SourcesEditable, SourcesInv, SoundFiles
  <2>3. srcs' = [s EXCEPT !.files = h, !.edits = s.edits + 1]
    BY <2>1
  <2> QED BY <1>3, <2>2, <2>3, EditSound, Zenon DEF RemoveSource, SourcesEditable, SourcesInv
<1>4. CASE ReplaceByDirectory
  <2>1. PICK p \in DOMAIN s.files \ s.layout.seeds, f \in FileStates :
           srcs' = [s EXCEPT
              !.files = [q \in (DOMAIN @ \ {p}) \cup {Append(p, "x")} |->
                            IF q \in DOMAIN @ \ {p} THEN @[q] ELSE f],
              !.edits = @ + 1]
    BY <1>4, Zenon DEF ReplaceByDirectory
  <2> DEFINE h == [q \in (DOMAIN s.files \ {p}) \cup {Append(p, "x")} |->
                       IF q \in DOMAIN s.files \ {p} THEN s.files[q] ELSE f]
  <2>2. s # Idle /\ SoundFiles(s.layout, s.files)
    BY <1>4 DEF ReplaceByDirectory, SourcesEditable, SourcesInv
  <2>3. WorkspacePath(Append(p, "x"))
    <3>1. p \in Seq({"x"} \cup STRING) /\ p # <<>> /\ p[1] \notin {"..", "/"}
      BY <2>1, <2>2 DEF SoundFiles, WorkspacePath
    <3>2. Append(p, "x") \in Seq({"x"} \cup STRING) /\ Append(p, "x") # <<>> /\ Append(p, "x")[1] = p[1]
      <4>1. Len(p) \in Nat \ {0} /\ 1 \in 1 .. Len(p)
        BY <3>1
      <4> QED BY <3>1, <4>1
    <3> QED BY <3>1, <3>2 DEF WorkspacePath
  <2>4. SoundFiles(s.layout, h)
    BY <2>1, <2>2, <2>3, SourcesAssumption, Zenon DEF SoundFiles
  <2>5. srcs' = [s EXCEPT !.files = h, !.edits = s.edits + 1]
    BY <2>1
  <2> QED BY <2>2, <2>4, <2>5, EditSound, Zenon DEF SourcesInv
<1> QED BY <1>1, <1>2, <1>3, <1>4 DEF SourcesNext

\* SourceHasher, rule_bzl_seed and hash_seed_files on two revisions of any
\* workspace, after any edits: from disk, from Git's blob hashes, or with
\* --modified-filepaths, the same rules are impacted, those whose sources, .bzl
\* files or seed files differ.
THEOREM ModesAgree == SourcesSpec => []EveryModeSeesTheChange
<1>1. SourcesInv => EveryModeSeesTheChange
  <2> SUFFICES ASSUME SourcesInv, srcs # Idle PROVE EveryModeSeesTheChange
    BY DEF EveryModeSeesTheChange
  <2> DEFINE f == srcs.first
             g == srcs.files
             changed == SourceContents(f) # SourceContents(g)
  <2>1. SoundFiles(srcs.layout, f) /\ SoundFiles(srcs.layout, g)
    BY DEF SourcesInv
  <2>2. \A how : Covers(how, f, g) => (Impacted(how) <=> changed)
    BY <2>1, ReadingSees DEF Impacted
  <2>3. Covers(Disk, f, g) /\ Covers(Blobs, f, g)
    BY DEF Covers, Disk, Blobs
  <2>4. \A p : SameFile(f, g, p) \/ p \in ModifiedFilepaths
    BY DEF SameFile, ModifiedFilepaths
  <2>5. \A m : ModifiedFilepaths \subseteq m => Covers(Scoped(m), f, g)
    BY <2>4 DEF Covers, Scoped
  <2>6. \A x : ModifiedFilepaths \subseteq ModifiedFilepaths \cup {x}
    OBVIOUS
  <2>7. \A x : Covers(Scoped(ModifiedFilepaths), f, g) /\ Covers(Scoped(ModifiedFilepaths \cup {x}), f, g)
    BY <2>5, <2>6
  <2>8. /\ Impacted(Disk) <=> changed
        /\ Impacted(Blobs) <=> changed
        /\ Impacted(Scoped(ModifiedFilepaths)) <=> changed
        /\ \A x : Impacted(Scoped(ModifiedFilepaths \cup {x})) <=> changed
    BY <2>2, <2>3, <2>7, Zenon
  <2> QED BY <2>8, Zenon DEF EveryModeSeesTheChange, Impacted
<1> QED BY <1>1, SourcesStart, SourcesStep, PTL DEF SourcesSpec

-----------------------------------------------------------------------------
(* The checkout that comes first.                                           *)

\* Why a checkout may fail, and what git has done at each of its steps: a lock
\* is gone before the retry, and the files are those of the commit once git
\* has replaced the index.
CheckoutInv ==
    /\ TypeOK
    /\ pc = "clear" => indexLock \/ cancelled \/ gitFailed
    /\ pc = "retry" => ~indexLock
    /\ StaleLockNeverFatal
    /\ git = "indexed" => worktree = FilesOf(want)
    /\ ForcedCheckoutRepairs

\* A clone at rest at some commit satisfies the invariant.
LEMMA InitHolds ==
    Init => CheckoutInv
BY Zenon DEF Init, CheckoutInv, TypeOK, StaleLockNeverFatal, ForcedCheckoutRepairs, FilesOf, Running

\* The steps of the query keep the invariant.
LEMMA QueryHolds ==
    ASSUME CheckoutInv, QueryStep \/ \E r \in Revs : Start(r) \/ Evict(r)
    PROVE  CheckoutInv'
<1> USE DEF CheckoutInv, TypeOK, StaleLockNeverFatal, ForcedCheckoutRepairs, FilesOf, Running
<1>1. ASSUME NEW r \in Revs, Start(r) PROVE CheckoutInv'
  BY <1>1, Zenon DEF Start
<1>2. ASSUME NEW r \in Revs, Evict(r) PROVE CheckoutInv'
  BY <1>2 DEF Evict, query
<1>3. CASE CompareHead
  BY <1>3, Zenon DEF CompareHead
<1>4. CASE FirstAttempt
  BY <1>4, Zenon DEF FirstAttempt, RunGit, query
<1>5. CASE RetryCheckout
  BY <1>5, Zenon DEF RetryCheckout, RunGit, query
<1>6. CASE ClearStaleLock
  BY <1>6, Zenon DEF ClearStaleLock, query
<1>7. CASE Generate
  BY <1>7 DEF Generate, query
<1>8. CASE ReportFailure
  BY <1>8 DEF ReportFailure, query
<1> QED
  BY <1>1, <1>2, <1>3, <1>4, <1>5, <1>6, <1>7, <1>8, Zenon DEF QueryStep

\* The steps of git keep the invariant: it writes files only while it runs.
LEMMA GitHolds ==
    ASSUME CheckoutInv, GitStep
    PROVE  CheckoutInv'
<1> USE DEF CheckoutInv, TypeOK, StaleLockNeverFatal, ForcedCheckoutRepairs, FilesOf, Running
<1>1. ASSUME NEW p \in Paths, GitWritesFile(p) PROVE CheckoutInv'
  BY <1>1 DEF GitWritesFile, query
<1>2. CASE GitReplacesIndex
  BY <1>2, Zenon DEF GitReplacesIndex, query
<1>3. CASE GitMovesHead
  BY <1>3 DEF GitMovesHead, AfterFailure, query
<1>4. CASE GitFails
  BY <1>4, Zenon DEF GitFails, AfterFailure
<1> QED
  BY <1>1, <1>2, <1>3, <1>4 DEF GitStep

\* A cancellation or the end of the server, which kill git at any point, keep
\* the invariant.
LEMMA InterruptionHolds ==
    ASSUME CheckoutInv, CancelQuery \/ Crash
    PROVE  CheckoutInv'
<1> USE DEF CheckoutInv, TypeOK, StaleLockNeverFatal, ForcedCheckoutRepairs, FilesOf, Running
<1>1. CASE CancelQuery
  BY <1>1 DEF CancelQuery, AfterFailure
<1>2. CASE Crash
  BY <1>2 DEF Crash, query
<1> QED
  BY <1>1, <1>2

\* CheckoutInv holds in every state of the clone and its queries.
THEOREM CheckoutInvariant ==
    Spec => []CheckoutInv
<1>1. CheckoutInv /\ [Next]_vars => CheckoutInv'
  <2>1. CheckoutInv /\ UNCHANGED vars => CheckoutInv'
    BY DEF CheckoutInv, TypeOK, StaleLockNeverFatal, ForcedCheckoutRepairs, FilesOf, Running, vars, query
  <2> QED
    BY <2>1, QueryHolds, GitHolds, InterruptionHolds DEF Next
<1> QED
  BY <1>1, InitHolds, PTL DEF Spec

\* For any commits and files: the state of the clone is well formed, and a git
\* process only exists under a query that waits for it.
THEOREM TypeCorrect ==
    Spec => []TypeOK
<1>1. CheckoutInv => TypeOK
  BY DEF CheckoutInv
<1> QED
  BY <1>1, CheckoutInvariant, PTL

\* For any commits, files and interruptions: a checkout fails only when its
\* own query was cancelled or its own git failed, never for a lock an earlier
\* git left behind (clear_stale_lock).
THEOREM StaleLocksAreHarmless ==
    Spec => []StaleLockNeverFatal
<1>1. CheckoutInv => StaleLockNeverFatal
  BY DEF CheckoutInv
<1> QED
  BY <1>1, CheckoutInvariant, PTL

\* For any commits and files, whatever tree a killed git left: what a query
\* reads after `git checkout --force` is the commit it asked for.
THEOREM ForceRepairs ==
    Spec => []ForcedCheckoutRepairs
<1>1. CheckoutInv => ForcedCheckoutRepairs
  BY DEF CheckoutInv
<1> QED
  BY <1>1, CheckoutInvariant, PTL
=============================================================================
