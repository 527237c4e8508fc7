--------------------------- MODULE ExternalResolver --------------------------
(***************************************************************************)
(* The hashing threads looking up the directories of external repositories *)
(* (ExternalRepoResolver and SourceHasher::resolve of src/src/hash.rs):    *)
(* one lock held across a resolution, one mapping fetched at most once,    *)
(* Bazel commands that a cancellation of the query interrupts, and         *)
(* directories that other commands materialize meanwhile.  Names are       *)
(* sequences of parts, as in RepositoryGraph: <<"dep", "">> is "dep+".     *)
(***************************************************************************)
EXTENDS Stage, Naturals, Sequences, FiniteSets, Functions

CONSTANTS
    Threads,      \* threads of the hash pool, each with one source to digest
    Lookups       \* [repo, mapping, captured, modWorks, dirs, materializes, fine, where]

VARIABLE roots    \* one generation's resolver and its threads

Nobody == "nobody"

Parts == {""} \cup STRING

Names == Seq(Parts)

\* Bazel's two reports of where a repository is, the mapping and the location
\* of a query, agree on the repositories both of them know.
ASSUME ResolverAssumption ==
    /\ Threads \cap {Nobody, "unset", "set"} = {}
    /\ \A w \in Lookups :
          /\ w.repo \in [Threads -> Names] /\ {w.captured, w.modWorks} \subseteq BOOLEAN
          /\ w.dirs \cup w.materializes \subseteq Names
          /\ DOMAIN w.mapping \cup DOMAIN w.where \subseteq Names
          /\ \A name \in DOMAIN w.mapping : w.mapping[name] \in Names
          /\ \A name \in DOMAIN w.where : w.where[name] \in Names
          /\ \A name \in DOMAIN w.mapping \cap DOMAIN w.where : w.where[name] = w.mapping[name]

ResolverInit ==
    \E w \in Lookups :
        roots = [w |-> w, stage |-> "hashing", cancelled |-> FALSE, dirs |-> w.dirs,
                 mapping |-> <<>>, filling |-> "unset", holder |-> Nobody, resolved |-> <<>>,
                 pc |-> [t \in Threads |-> "start"], root |-> [t \in Threads |-> <<>>],
                 modCalls |-> 0, queryCalls |-> <<>>]

Hashing == roots # Idle /\ roots.stage = "hashing"

At(t, pc) == Hashing /\ roots.pc[t] = pc

\* Whether thread t can read the mapping; the first to need it fetches it.
MappingReady == roots.filling = "set"

\* A repository the user named as the label spells it needs no mapping; with
\* no fine-grained repositories at all, the source is not read.
Begin(t) ==
    /\ At(t, "start")
    /\ roots' = [roots EXCEPT !.pc[t] =
                    IF roots.w.repo[t] \in roots.w.fine THEN "lock"
                    ELSE IF roots.w.fine = {} THEN "end" ELSE "match"]

\* Threads that need the mapping: to match a name, or holding the lock.
NeedsMapping(t) ==
    \/ At(t, "match")
    \/ At(t, "held") /\ roots.w.repo[t] \notin DOMAIN roots.resolved

\* repo_mapping: a cancelled query gets an empty mapping without a command, a
\* captured mapping is parsed, otherwise `bazel mod` is asked.
BeginMapping(t) ==
    /\ NeedsMapping(t) /\ roots.filling = "unset"
    /\ roots' = IF roots.cancelled THEN [roots EXCEPT !.filling = "set"]
                ELSE IF roots.w.captured
                THEN [roots EXCEPT !.filling = "set", !.mapping = roots.w.mapping]
                ELSE [roots EXCEPT !.filling = t, !.modCalls = @ + 1]

EndMapping(t) ==
    /\ Hashing /\ roots.filling = t
    /\ roots' = [roots EXCEPT
           !.filling = "set",
           !.mapping = IF roots.cancelled \/ ~roots.w.modWorks THEN <<>> ELSE roots.w.mapping]

\* names_fine_grained_repo: by the other of the repository's names.
Match(t) ==
    /\ At(t, "match") /\ MappingReady
    /\ LET repo == roots.w.repo[t]
           names == {repo} \cup {roots.mapping[a] : a \in {repo} \cap DOMAIN roots.mapping}
                           \cup {a \in DOMAIN roots.mapping : roots.mapping[a] = repo}
       IN  roots' = [roots EXCEPT !.pc[t] = IF names \cap roots.w.fine # {} THEN "lock" ELSE "end"]

Acquire(t) ==
    /\ At(t, "lock") /\ roots.holder = Nobody
    /\ roots' = [roots EXCEPT !.pc[t] = "held", !.holder = t]

\* Leaving the lock with a root, remembered for the other threads.
Resolved(t, root) ==
    [roots EXCEPT !.pc[t] = "end", !.holder = Nobody, !.root[t] = root,
                  !.resolved = [r \in DOMAIN @ \cup {roots.w.repo[t]} |->
                                   IF r \in DOMAIN @ THEN @[r] ELSE root]]

Remembered(t) ==
    /\ At(t, "held") /\ roots.w.repo[t] \in DOMAIN roots.resolved
    /\ roots' = Resolved(t, roots.resolved[roots.w.repo[t]])

\* The directories tried: the mapped one, or without a mapping the name
\* itself and the module directory it would have.
Candidates(repo) ==
    IF repo \in DOMAIN roots.mapping THEN <<roots.mapping[repo]>> ELSE <<repo, Append(repo, "")>>

Found(repo) ==
    LET tried == Candidates(repo) IN {i \in DOMAIN tried : tried[i] \in roots.dirs}

\* resolve_uncached, with the lock held and the mapping read.
TryDirectories(t) ==
    LET repo == roots.w.repo[t]
    IN  /\ At(t, "held") /\ repo \notin DOMAIN roots.resolved /\ MappingReady
        /\ roots' = IF Found(repo) # {}
                    THEN Resolved(t, Candidates(repo)[CHOOSE i \in Found(repo) :
                                                         \A j \in Found(repo) : i <= j])
                    ELSE IF roots.cancelled
                    THEN [roots EXCEPT !.pc[t] = "failed", !.holder = Nobody]
                    ELSE [roots EXCEPT
                            !.pc[t] = "query",
                            !.queryCalls = [r \in DOMAIN @ \cup {repo} |->
                                               (IF r \in DOMAIN @ THEN @[r] ELSE 0)
                                                   + (IF r = repo THEN 1 ELSE 0)]]

MutantEndQuery(t) ==
    LET repo == roots.w.repo[t]
    IN  /\ At(t, "query")
        /\ roots' = IF roots.cancelled
                    THEN [roots EXCEPT !.pc[t] = "failed"]
                    ELSE Resolved(t, IF repo \in DOMAIN roots.w.where THEN roots.w.where[repo]
                                     ELSE Candidates(repo)[1])

\* `bazel query --output location`: where Bazel has the repository, or the
\* directory it would have.
EndQuery(t) ==
    LET repo == roots.w.repo[t]
    IN  /\ At(t, "query")
        /\ roots' = IF roots.cancelled
                    THEN [roots EXCEPT !.pc[t] = "failed", !.holder = Nobody]
                    ELSE Resolved(t, IF repo \in DOMAIN roots.w.where THEN roots.w.where[repo]
                                     ELSE Candidates(repo)[1])

\* The client stops waiting, at any time.
Cancel ==
    /\ Hashing /\ ~roots.cancelled
    /\ roots' = [roots EXCEPT !.cancelled = TRUE]

\* Another Bazel command fetches a repository.
Materialize ==
    /\ Hashing
    /\ \E d \in roots.w.materializes \ roots.dirs : roots' = [roots EXCEPT !.dirs = @ \cup {d}]

MutantStore ==
    /\ Hashing /\ \A t \in Threads : roots.pc[t] \in {"end", "failed"}
    /\ roots' = [roots EXCEPT !.stage =
                    IF \E t \in Threads : roots.pc[t] = "failed" THEN "failed" ELSE "stored"]

\* A thread's error fails the generation; a finished one is only cached when
\* its query was not cancelled (get_hashes_locked).
Store ==
    /\ Hashing /\ \A t \in Threads : roots.pc[t] \in {"end", "failed"}
    /\ roots' = [roots EXCEPT !.stage =
                    IF roots.cancelled \/ \E t \in Threads : roots.pc[t] = "failed"
                    THEN "failed" ELSE "stored"]

ThreadStep(t) ==
    \/ Begin(t) \/ BeginMapping(t) \/ EndMapping(t) \/ Match(t) \/ Acquire(t)
    \/ Remembered(t) \/ TryDirectories(t) \/ EndQuery(t)

ResolverNext == (\E t \in Threads : ThreadStep(t)) \/ Store \/ Cancel \/ Materialize

ResolverSpec == ResolverInit /\ [][ResolverNext]_roots

\* Threads are scheduled and Bazel commands end.
ResolverFairness == (\A t \in Threads : WF_roots(ThreadStep(t))) /\ WF_roots(Store)

-----------------------------------------------------------------------------
(* Properties                                                              *)

\* A cached generation read every fine-grained source from the directory of
\* the repository the root module maps its name to, never from a module that
\* happens to have that name (#535), whatever was materialized or cancelled
\* while the threads ran.  Where Bazel cannot report the mapping, the name is
\* all there is.
CachedRootsRight ==
    roots # Idle /\ roots.stage = "stored" /\ (roots.w.captured \/ roots.w.modWorks) =>
        \A t \in Threads :
            LET repo == roots.w.repo[t]
            IN  roots.root[t] # <<>> /\ repo \in DOMAIN roots.w.mapping
                  => roots.root[t] = roots.w.mapping[repo]

\* "Concurrent hashing threads missing the same repository do not each shell
\* out to Bazel": one mapping command and one query per repository at most.
BazelAskedOnce ==
    roots # Idle =>
        /\ roots.modCalls <= 1
        /\ \A repo \in DOMAIN roots.queryCalls : roots.queryCalls[repo] <= 1

\* Holding the lock while another thread fetches the mapping, or while Bazel
\* runs, never leaves a thread waiting forever: every generation is stored or
\* fails.
ResolutionEnds == roots # Idle ~> (roots # Idle /\ roots.stage # "hashing")

\* ExternalRepoResolver: however its threads interleave, they agree on the
\* right directory of a repository and ask Bazel for it once.
ResolutionRight == CachedRootsRight /\ BazelAskedOnce
=============================================================================
