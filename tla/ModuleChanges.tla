--------------------------- MODULE ModuleChanges ----------------------------
(***************************************************************************)
(* The answer to "what is impacted": run_get_impacted of src/src/main.rs   *)
(* and the second half of compute_query of src/src/server.rs.  The diff of *)
(* two hash files (src/src/model.rs) is widened by the dependents of the   *)
(* Bzlmod modules whose version moved (src/src/module_graph.rs), filtered, *)
(* ranked and, for distances, measured (module ImpactedTargets).           *)
(***************************************************************************)
EXTENDS Naturals, FiniteSets, Sequences, Sorting, Stage

CONSTANTS
    Comparisons,  \* [from, to, dependsOn, types, excludeExternal]: two hash files,
                  \* the dependencies at the final revision, the two filters
    NoGraph,      \* a hash file without a module graph
    AnyType       \* no --targetType

\* Hash files and query answers are finite maps by label, and no two labels
\* are the same string.
LabelsOf(c) == DOMAIN c.from.hashes \cup DOMAIN c.to.hashes \cup DOMAIN c.dependsOn

ASSUME ComparisonsAssumption ==
    \A c \in Comparisons :
        /\ IsFiniteSet(LabelsOf(c))
        /\ \A l \in LabelsOf(c) : l.name \in Nat
        /\ \A l, m \in LabelsOf(c) : l.name = m.name => l = m

VARIABLE
    diff          \* a record: the comparison and the locals of the command

\* A label is [at, repo, name]: at 0 in the main repository, 1 below //external:,
\* 2 in a repository with a canonical name, [module, extension]; name is its
\* place in the order of strings.
InMain(l) == l.at = 0
InExternal(l) == l.at = 1
HasCanonical(l) == l.at = 2

Untyped == ""

\* An entry "kind#hash~direct" of a hash file, or "hash~direct" without types.
Serialized(entry, typed) ==
    IF typed THEN <<entry.kind, entry.hash, entry.direct>> ELSE <<entry.hash, entry.direct>>

Parsed(value) ==
    IF Len(value) = 3 THEN [kind |-> value[1], hash |-> value[2], direct |-> value[3]]
    ELSE [kind |-> Untyped, hash |-> value[1], direct |-> value[2]]

\* A bare object of entries, or entries and metadata when there are any.
Written(data, typed) ==
    LET entries == [l \in DOMAIN data.hashes |-> Serialized(data.hashes[l], typed)]
    IN  IF data.graph = NoGraph /\ ~data.partial THEN [hashes |-> entries]
        ELSE [hashes |-> entries, metadata |-> [graph |-> data.graph, partial |-> data.partial]]

\* HashFileData::read of either shape.
Read(file) ==
    [hashes |-> [l \in DOMAIN file.hashes |-> Parsed(file.hashes[l])],
     graph |-> IF "metadata" \in DOMAIN file THEN file.metadata.graph ELSE NoGraph,
     partial |-> "metadata" \in DOMAIN file /\ file.metadata.partial]

Compare(c) ==
    [from |-> Read(c.from), to |-> Read(c.to), dependsOn |-> c.dependsOn, types |-> c.types,
     excludeExternal |-> c.excludeExternal,
     stage |-> "read", repos |-> {}, impacted |-> {}, failed |-> {},
     labels |-> <<>>, measured |-> <<>>]

CompareInit == diff \in {Compare(c) : c \in Comparisons}

Comparing == diff # Idle

Moved(from, to) == {l \in DOMAIN to : l \notin DOMAIN from \/ from[l] # to[l]}

HashImpacted == Moved(diff.from.hashes, diff.to.hashes)

\* parse_modules: by module key, name and version.  The command's output may
\* not be JSON, which reads as no module at all.
Modules(file) == IF file.graph = NoGraph THEN <<>> ELSE file.graph

\* changed_modules: modules at another version, added or removed; none when
\* only one of the graphs could be parsed.
ChangedModules ==
    LET from == Modules(diff.from)
        to == Modules(diff.to)
        keys == DOMAIN from \cup DOMAIN to
        same == {k \in DOMAIN from \cap DOMAIN to : from[k].version = to[k].version}
    IN  IF (DOMAIN from = {}) # (DOMAIN to = {}) THEN {}
        ELSE {IF k \in DOMAIN to THEN to[k].name ELSE from[k].name : k \in keys \ same}

\* canonical_is_base_for_module: not a repository of one of its extensions.
IsBaseFor(repo, module) == repo.module = module /\ repo.extension = ""

HashedRepos == {l.repo : l \in {l \in DOMAIN diff.from.hashes \cup DOMAIN diff.to.hashes : HasCanonical(l)}}

ChangedRepos == {r \in HashedRepos : \E m \in ChangedModules : IsBaseFor(r, m)}

\* ensure_same_mode: hashes of the two modes follow different formulas.
SameMode == diff.from.partial = diff.to.partial

\* The mode check and the early returns of impacted_with_module_query.
HashDiff ==
    /\ Comparing /\ diff.stage = "read"
    /\ \/ /\ ~SameMode
          /\ diff' = [diff EXCEPT !.stage = "error"]
       \/ /\ SameMode
          /\ LET unchanged == \/ diff.from.graph = diff.to.graph
                              \/ NoGraph \in {diff.from.graph, diff.to.graph}
                              \/ ChangedRepos = {}
             IN  diff' = [diff EXCEPT
                    !.impacted = HashImpacted,
                    !.repos = IF unchanged THEN {} ELSE ChangedRepos,
                    !.stage = IF unchanged THEN "filter" ELSE "query"]

\* `bazel query rdeps(//..., @@repo//... + ...)` in the workspace of the final
\* revision: a repository that is gone there fails it, and so may anything else.
Known(repo) == \E l \in DOMAIN diff.dependsOn : HasCanonical(l) /\ l.repo = repo

WithUsers(dependsOn, labels) ==
    labels \cup {l \in DOMAIN dependsOn : dependsOn[l] \cap labels # {}}

Rdeps(dependsOn, repos) ==
    LET universe == DOMAIN dependsOn
        rdeps[n \in 0 .. Cardinality(universe)] ==
          IF n = 0 THEN {l \in universe : HasCanonical(l) /\ l.repo \in repos}
          ELSE WithUsers(dependsOn, rdeps[n - 1])
    IN  {l \in universe : l \in rdeps[Cardinality(universe)]}

WorkspaceTargets == {l \in DOMAIN diff.to.hashes : InMain(l)}

ModuleUsers == {l \in Rdeps(diff.dependsOn, diff.repos) : ~HasCanonical(l)}

MutantConservative == {}

\* What a failed query stands for.
Conservative == IF WorkspaceTargets = {} THEN DOMAIN diff.to.hashes ELSE WorkspaceTargets

QueryDependents ==
    /\ Comparing /\ diff.stage = "query"
    /\ \/ /\ \A r \in diff.repos : Known(r)
          /\ diff' = [diff EXCEPT !.stage = "filter",
                                  !.impacted = @ \cup ModuleUsers]
       \/ diff' = [diff EXCEPT !.stage = "filter", !.impacted = @ \cup Conservative]

\* accepts: a type filter needs the label's final hash and its type.
Judged(l) ==
    diff.types = AnyType \/ (l \in DOMAIN diff.to.hashes /\ diff.to.hashes[l].kind # Untyped)

Wanted(l) == diff.types = AnyType \/ diff.to.hashes[l].kind \in diff.types

Candidates(labels) == {l \in labels : ~(diff.excludeExternal /\ InExternal(l))}

\* kind_rank
Rank(l) ==
    LET entry == IF l \in DOMAIN diff.to.hashes THEN diff.to.hashes[l].kind
                 ELSE IF l \in DOMAIN diff.from.hashes THEN diff.from.hashes[l].kind ELSE Untyped
    IN  CASE entry = "SourceFile" -> 0 [] entry = "GeneratedFile" -> 1
          [] entry = "Rule" -> 2 [] entry = Untyped -> 4 [] OTHER -> 3

Before(a, b) ==
    \/ Rank(a) < Rank(b)
    \/ Rank(a) = Rank(b) /\ a.name < b.name

Ranked(labels) ==
    LET wanted == {l \in labels : Wanted(l)}
    IN  Sorted(wanted, {p \in wanted \X wanted : Before(p[1], p[2])})

MutantDistanceFrom == diff.from.hashes

\* Labels only the module query found are measured as new targets.
DistanceFrom ==
    [l \in DOMAIN diff.from.hashes \ (diff.impacted \ HashImpacted) |-> diff.from.hashes[l]]

Failing(labels) == \E l \in labels : ~Judged(l)

\* The two commands on the same files: filter_and_sort_labels for the labels;
\* impacted_types and the same filter and order for the targets with distances.
\* A label that cannot be judged fails the command it comes up in.
Answer ==
    /\ Comparing /\ diff.stage = "filter"
    /\ LET labels == Candidates(diff.impacted)
           measured == Candidates(Moved(DistanceFrom, diff.to.hashes))
       IN  diff' = [diff EXCEPT
              !.stage = "answered",
              !.failed = {c \in {"labels", "distances"} :
                             Failing(IF c = "labels" THEN labels ELSE measured)},
              !.labels = IF Failing(labels) THEN <<>> ELSE Ranked(labels),
              !.measured = IF Failing(measured) THEN <<>> ELSE Ranked(measured)]

CompareNext == HashDiff \/ QueryDependents \/ Answer

CompareSpec == CompareInit /\ [][CompareNext]_diff

-----------------------------------------------------------------------------
(* Properties                                                              *)

GotAnswer == Comparing /\ diff.stage = "answered" /\ "labels" \notin diff.failed

Asked(l) == Wanted(l) /\ ~(diff.excludeExternal /\ InExternal(l))

\* When the version of a module moved and a repository of it was hashed, every
\* workspace target that depends on the repository is reported, although its
\* own hash may not have moved: also when the old repository is gone from the
\* final revision or the query fails.
ModuleBumpReachesDependents ==
    GotAnswer /\ diff.repos # {} =>
        \A l \in Rdeps(diff.dependsOn, diff.repos) :
            InMain(l) /\ l \in DOMAIN diff.to.hashes /\ Asked(l) => l \in Members(diff.labels)

\* No target whose hash moved is lost to the module graph, whichever way the
\* query ended, and without a change of modules nothing else is reported.
HashDiffKept ==
    GotAnswer =>
        /\ \A l \in HashImpacted : Asked(l) => l \in Members(diff.labels)
        /\ ChangedRepos = {} => Members(diff.labels) \subseteq HashImpacted

\* The two kinds of answer list the same targets in the same order, those of
\* the module query included, as far as the final hash file knows them;
\* and where the labels can be listed, the distances can.
AnswersAgree ==
    GotAnswer =>
        /\ "distances" \notin diff.failed
        /\ Members(diff.measured) = Members(diff.labels) \cap DOMAIN diff.to.hashes
        /\ \A i, j \in DOMAIN diff.measured, m, n \in DOMAIN diff.labels :
              diff.measured[i] = diff.labels[m] /\ diff.measured[j] = diff.labels[n] =>
                  (i < j <=> m < n)

\* impacted_with_module_changes adds the dependents of changed modules to the
\* hash diff, and takes nothing from it, whichever way the query ends.
ModuleImpactExact == ModuleBumpReachesDependents /\ HashDiffKept
=============================================================================
