----------------------------- MODULE TargetQuery -----------------------------
(***************************************************************************)
(* Asking Bazel for the target graph (query_all_targets_with and           *)
(* collect_all_targets in src/src/bazel.rs): the probe for Bzlmod, the     *)
(* repository read and what --keep_going forgives of it, the query with    *)
(* its fallback without //external, and under --isolatedDependencyRoot the *)
(* checks that bind the root to one extension usage, the second query for  *)
(* the scoped inputs the first one missed, and the edges that connect the  *)
(* readers of the usage to the one node its files are folded into.         *)
(*                                                                         *)
(* A repository is a record of its usage prefix (owner, symbol, export,    *)
(* <<>> for one no extension generates) and its own name; a label is a     *)
(* record of the spelling of its repository, the repository or its         *)
(* apparent name, the package and the target's name.                       *)
(***************************************************************************)
EXTENDS Stage, Naturals, Sequences, FiniteSets, Functions

CONSTANTS
    Requests      \* the workspaces and command lines considered

VARIABLE query

MainRepo == [prefix |-> <<>>, name |-> ""]

NoScope == [anchor |-> "", members |-> {}, inputs |-> {}]

------------------------------------------------------------------------------
(* The scope of --isolatedDependencyRoot                                   *)

\* root_export: the name a root-isolated usage is exported under, if it is one.
RootExport(prefix) == IF prefix = <<>> THEN "" ELSE prefix[3]

Group(w) == w.mapping[w.anchor].prefix

RowsOf(w, group) == {i \in DOMAIN w.catalog : w.catalog[i].repo.prefix = group}

\* effective_root_group: whether the inventory and the catalog agree on the usage.
EffectiveRootGroup(w) ==
    LET hub == w.mapping[w.anchor]
        rows == RowsOf(w, hub.prefix)
        seen == {w.catalog[i].repo : i \in rows}
    IN  /\ RootExport(hub.prefix) # ""
        /\ hub \in w.imported
        /\ \A other \in w.imported :
              other.prefix # hub.prefix => RootExport(other.prefix) # RootExport(hub.prefix)
        /\ \A i \in rows : w.catalog[i].original = w.catalog[i].repo.name
        /\ Cardinality(rows) = Cardinality(seen)
        /\ hub \in seen
        /\ {repo \in w.generated : repo.prefix = hub.prefix} = seen

\* The repository a label of a repository rule's attribute names.
AttributeRepo(label) == IF label.form = "main" THEN MainRepo ELSE label.repo

MembersOf(w) == {repo \in w.generated : repo.prefix = Group(w)}

\* resolve_isolated_root: the scope is accepted only where nothing but the hub is imported
\* and no repository outside reads a member.
ResolvesIsolatedRoot(w) ==
    /\ w.anchor \in DOMAIN w.mapping
    /\ EffectiveRootGroup(w)
    /\ \A other \in w.imported :
          other.prefix = Group(w) => other = w.mapping[w.anchor]
    /\ \A i \in DOMAIN w.catalog :
          LET row == w.catalog[i]
          IN  /\ row.typed
              /\ \A label \in row.labels :
                    /\ label.form # "apparent"
                    /\ row.repo \notin MembersOf(w) => AttributeRepo(label) \notin MembersOf(w)

IsolatedScope(w) ==
    [anchor  |-> w.anchor,
     members |-> MembersOf(w),
     inputs  |-> UNION {w.catalog[i].labels : i \in {j \in DOMAIN w.catalog :
                                                    w.catalog[j].repo \in MembersOf(w)}}]

\* IsolatedRepoScope::canonical: the canonical label, {} for one of no member.
ScopedLabel(w, scope, label) ==
    LET repo == IF label.form = "canonical" THEN label.repo
                ELSE IF label.form = "apparent" /\ label.repo \in DOMAIN w.mapping
                     THEN w.mapping[label.repo]
                ELSE MainRepo
    IN  IF repo \in scope.members THEN {[label EXCEPT !.form = "canonical", !.repo = repo]} ELSE {}

InScope(w, scope, label) == ScopedLabel(w, scope, label) # {}

ScopedLabels(w, scope, labels) == UNION {ScopedLabel(w, scope, label) : label \in labels}

\* IsolatedRepoScope::package: the package of a label, canonical where the root can tell.
PackageOf(w, label) ==
    CASE label.form = "main" -> <<MainRepo, label.package>>
      [] label.form = "canonical" -> <<label.repo, label.package>>
      [] label.form = "apparent" -> <<w.mapping[label.repo], label.package>>
      [] label.form = "external" -> <<MainRepo, "external">>

\* record_build_loads: the loads of the BUILD files of a batch, every record of one counted.
BuildLoads(w, scope, batch) ==
    UNION {LET loads == IF InScope(w, scope, t.label) THEN t.loads
                        ELSE ScopedLabels(w, scope, t.loads)
           IN  {<<t.label, load>> : load \in loads} :
           t \in {s \in batch : s.kind = "source" /\ s.label.target = "BUILD"}}

NoCoverage == [names |-> {}, files |-> {}, missing |-> {}, direct |-> {}]

\* ScopedCoverage::record: what a batch returns, and which scoped inputs it only names.
CoverageRecord(w, scope, coverage, batch) ==
    LET names == coverage.names \cup ScopedLabels(w, scope, {t.label : t \in batch})
        read(t) == ScopedLabels(w, scope, t.inputs)
    IN  [names   |-> names,
         files   |-> coverage.files \cup
                     ScopedLabels(w, scope, {t.label : t \in {s \in batch : s.kind = "source"}}),
         missing |-> (coverage.missing \cup UNION {read(t) : t \in batch}) \ names,
         direct  |-> coverage.direct \cup {t \in batch : read(t) # {}}]

HubLabel(scope) == [form |-> "external", repo |-> scope.anchor, package |-> "", target |-> ""]

\* connect_external_readers: the loads that no returned file answers, and the targets with the
\* edge to the hub that the readers of the usage get.
UnansweredLoads(w, scope, loads, coverage) ==
    ScopedLabels(w, scope, {pair[2] : pair \in loads}) \ coverage.files

MutantConnect(w, scope, loads, coverage, targets) ==
    {IF t.kind = "rule" /\ t.label.form # "external" /\ ~InScope(w, scope, t.label)
          /\ t \in coverage.direct
     THEN [t EXCEPT !.inputs = @ \cup {HubLabel(scope)}]
     ELSE t : t \in targets}

Connect(w, scope, loads, coverage, targets) ==
    LET readers == {PackageOf(w, pair[1]) : pair \in {p \in loads : InScope(w, scope, p[2])}}
        own(t) == {pair[2] : pair \in {p \in loads : p[1] = t.label}}
    IN  {CASE t.kind = "source" /\ InScope(w, scope, t.label) /\ own(t) # {} ->
                [t EXCEPT !.loads = own(t)]
           [] /\ t.kind = "rule"
              /\ t.label.form # "external"
              /\ ~InScope(w, scope, t.label)
              /\ t \in coverage.direct \/ PackageOf(w, t.label) \in readers ->
                [t EXCEPT !.inputs = @ \cup {HubLabel(scope)}]
           [] OTHER -> t : t \in targets}

\* The fold of hash.rs: the source records whose repository is a member, by either name, end up
\* in the hub's definition digest, next to what the members' repository rules read.
FoldedIntoHub(w, scope, targets) ==
    {t \in targets : /\ t.kind = "source"
                     /\ \/ t.label.form = "canonical" /\ t.label.repo \in scope.members
                        \/ /\ t.label.form = "apparent"
                           /\ t.label.repo \in DOMAIN w.mapping
                           /\ w.mapping[t.label.repo] \in scope.members}

------------------------------------------------------------------------------
(* What Bazel answers                                                      *)

Denoted(w, label) ==
    CASE label.form = "main" -> <<MainRepo, label.package, label.target>>
      [] label.form = "apparent" -> <<w.mapping[label.repo], label.package, label.target>>
      [] label.form = "canonical" -> <<label.repo, label.package, label.target>>
      [] label.form = "external" -> <<MainRepo, "external", label.target>>

\* The targets a set of labels names, and everything they read.
BazelDeps(w, labels) ==
    LET named(ls) == {t \in w.graph : \E label \in ls : Denoted(w, label) = Denoted(w, t.label)}
        more(ts) == ts \cup named(UNION {t.inputs : t \in ts})
    IN  more(more(more(named(labels))))

\* buildfiles(): the BUILD files of the targets' packages, and the files those load.
BazelBuildFiles(w, targets) ==
    LET packages == {PackageOf(w, t.label) : t \in targets}
        builds == {t \in w.graph : t.label.target = "BUILD" /\ PackageOf(w, t.label) \in packages}
        loaded == {Denoted(w, label) : label \in UNION {t.loads : t \in builds}}
    IN  builds \cup {t \in w.graph : Denoted(w, t.label) \in loaded}

\* //...:all-targets and the fine-grained repositories.
BazelOrdinary(w) == {t \in w.graph : PackageOf(w, t.label)[1] \in {MainRepo} \cup w.fine}

\* deps('@root//...:all-targets') and its build files.
BazelMembers(w) ==
    LET members == BazelDeps(w, {t.label : t \in {s \in w.graph :
                       PackageOf(w, s.label)[1] = w.mapping[w.anchor]}})
    IN  members \cup BazelBuildFiles(w, members)

Filtered(w, targets) == {t \in targets : Denoted(w, t.label) \notin w.excluded}

\* deduplicate_targets: one record of each name, in whatever order the query wrote them.
Deduplicated(targets) ==
    LET repeated == {t \in targets : \E s \in targets : s # t /\ s.label = t.label}
    IN  {targets \ lost : lost \in {l \in SUBSET repeated :
            /\ \A t \in repeated : \E s \in repeated \ l : s.label = t.label
            /\ \A s, t \in repeated \ l : s.label = t.label => s = t}}

IsLabel(l) == l = [form |-> l.form, repo |-> l.repo, package |-> l.package, target |-> l.target]

IsTarget(t) ==
    /\ t = [kind |-> t.kind, label |-> t.label, inputs |-> t.inputs, loads |-> t.loads]
    /\ \A l \in {t.label} \cup t.inputs \cup t.loads : IsLabel(l)

\* Bazel's records: //external holds its own labels, BUILD files and what they load are files.
ASSUME TargetQueryAssumption ==
    \A w \in Requests :
        /\ IsFiniteSet(DOMAIN w.catalog)
        /\ \A t \in w.graph \cup w.legacy \cup w.nodes : IsTarget(t)
        /\ \A t \in w.legacy \cup w.nodes : t.label.form = "external"
        /\ \A b \in w.graph : b.label.target = "BUILD" =>
              /\ b.kind = "source"
              /\ \A t \in w.graph : \A l \in b.loads :
                    Denoted(w, l) = Denoted(w, t.label) => t.kind = "source"

------------------------------------------------------------------------------
(* The steps                                                               *)

\* Supports Bzlmod repository discovery: 8.6.0 or later, and not 9.0.0.
Supported(version) == version = "supported"

QueryInit ==
    \E w \in Requests :
        query = [world |-> w, pc |-> "probe", version |-> "unknown", enabled |-> FALSE,
                 nodes |-> {}, failures |-> FALSE, scope |-> NoScope, loads |-> {},
                 targets |-> {}, lost |-> {}, asked |-> {}]

QueryFails == query' = [query EXCEPT !.pc = "failed"]

\* probe_bzlmod for a module workspace: dump_repo_mapping, or else `mod graph`, whose partial
\* answer over a broken extension counts too. Neither answers while Bazel cannot be run.
ProbeBzlmod == {<<"ok", TRUE>>, <<"answered", TRUE>>, <<"unusable", FALSE>>}

\* The version and the probe, before anything is read.
Probe ==
    /\ query # Idle
    /\ query.pc = "probe"
    /\ LET w == query.world
       IN  IF w.isolated /\ w.useCquery
           THEN QueryFails
           ELSE \E version \in {w.version, "failed"}, probe \in ProbeBzlmod :
                  LET enabled == probe[2]
                      refused == \/ version = "failed" /\ (w.isolated \/ (enabled /\ ~w.keepGoing))
                                 \/ w.isolated /\ ~(Supported(version) /\ enabled)
                  IN  query' = [query EXCEPT
                         !.version = version, !.enabled = enabled, !.asked = {probe[1]},
                         !.pc = CASE refused -> "failed"
                                  [] ~refused /\ enabled /\ Supported(version) -> "repositories"
                                  [] OTHER -> "primary"]

\* query_bzlmod_repos: read whole, read around failed extensions or with the graph or a mapping
\* missing, or not read at all. --keep_going forgives every failure but those of an isolated
\* root, which needs every answer complete.
QueryBzlmodRepos ==
    /\ query # Idle
    /\ query.pc = "repositories"
    /\ LET w == query.world
       IN  \E answer \in {"complete", "extension failed", "without edges", "error"} :
             IF w.isolated
             THEN IF answer = "complete" /\ ResolvesIsolatedRoot(w)
                  THEN query' = [query EXCEPT !.nodes = w.nodes, !.scope = IsolatedScope(w),
                                              !.pc = "primary"]
                  ELSE QueryFails
             ELSE IF ~w.keepGoing /\ answer \in {"without edges", "error"}
                  THEN QueryFails
                  ELSE query' = [query EXCEPT
                          !.nodes = IF answer = "error" THEN {} ELSE w.nodes,
                          !.failures = answer = "extension failed",
                          !.pc = "primary"]

HasScope == query.scope.members # {}

MutantQueryKeepsGoing == query.world.keepGoing

\* The strict copy of the configuration that an isolated root is queried with.
QueryKeepsGoing == query.world.keepGoing /\ ~HasScope

\* The outcomes of one Bazel query (query_with): everything, all but some targets with exit code
\* 3 under --keep_going, the error of a Bazel without //external, any other error. A version that
\* was not known is asked for again first.
BazelAnswers(external) ==
    {"all", "error"}
    \cup (IF QueryKeepsGoing THEN {"some"} ELSE {})
    \cup (IF external /\ ~query.world.external THEN {"no external"} ELSE {})

ExternalTargets(w) == IF w.external THEN w.legacy ELSE {}

\* The targets of the main query, cquery's without the incompatible ones.
PrimaryTargets(w, external) ==
    LET whole == BazelOrdinary(w)
                 \cup (IF external THEN ExternalTargets(w) ELSE {})
                 \cup (IF HasScope THEN BazelMembers(w) ELSE {})
    IN  {t \in Filtered(w, whole) : w.useCquery => Denoted(w, t.label) \notin w.incompatible}

\* The repository nodes are appended, and the first record of a name is kept.
Returned(found) ==
    {kept \cup {n \in query.nodes : \A t \in kept : t.label # n.label} :
        kept \in Deduplicated(found)}

Collected(w, found, lost) ==
    \E kept \in Returned(found \ lost) :
        query' = [query EXCEPT !.targets = kept,
                     !.loads = IF HasScope THEN BuildLoads(w, query.scope, found \ lost) ELSE {},
                     !.lost = lost,
                     !.pc = IF HasScope THEN "supplement" ELSE "references"]

\* is_external_package_error
Fallback(answer) == answer = "no external"

\* collect_all_targets without cquery: the fallback drops only //external.
QueryPrimary ==
    /\ query # Idle
    /\ query.pc \in {"primary", "fallback"}
    /\ ~query.world.useCquery
    /\ LET w == query.world
           external == ~w.excludeExternal /\ query.pc = "primary"
       IN  \E answer \in BazelAnswers(external) :
             \/ /\ answer = "all"
                /\ Collected(w, PrimaryTargets(w, external), {})
             \/ /\ answer = "some"
                /\ \E t \in PrimaryTargets(w, external) : Collected(w, PrimaryTargets(w, external), {t})
             \/ /\ answer \in {"no external", "error"} /\ Fallback(answer) /\ external
                /\ query' = [query EXCEPT !.pc = "fallback"]
             \/ /\ answer \in {"no external", "error"} /\ ~(Fallback(answer) /\ external)
                /\ QueryFails

\* collect_all_targets with cquery: //external is asked for by a query of its own.
QueryConfigured ==
    /\ query # Idle
    /\ query.pc = "primary"
    /\ query.world.useCquery
    /\ LET w == query.world
       IN  \E answer \in BazelAnswers(FALSE) :
             IF answer = "error"
             THEN QueryFails
             ELSE \E lost \in IF answer = "all" THEN {{}} ELSE {{t} : t \in PrimaryTargets(w, FALSE)} :
                    query' = [query EXCEPT !.targets = PrimaryTargets(w, FALSE) \ lost,
                                           !.lost = lost, !.pc = "external"]

QueryExternal ==
    /\ query # Idle
    /\ query.pc = "external"
    /\ LET w == query.world
       IN  IF w.excludeExternal
           THEN Collected(w, query.targets, query.lost)
           ELSE \E answer \in BazelAnswers(TRUE) :
                  \/ /\ answer \in {"all", "some"}
                     /\ Collected(w, query.targets \cup ExternalTargets(w),
                                  IF answer = "all" THEN query.lost
                                  ELSE query.lost \cup ExternalTargets(w))
                  \/ /\ answer = "no external"
                     /\ Collected(w, query.targets, query.lost)
                  \/ /\ answer = "error"
                     /\ QueryFails

\* The supplement: what the first query named and did not return, and the build files of the
\* readers whose loads it did not return. The first query's record of a name is kept.
QuerySupplement ==
    /\ query # Idle
    /\ query.pc = "supplement"
    /\ LET w == query.world
           scope == query.scope
           first == CoverageRecord(w, scope, NoCoverage, query.targets)
           readers == {pair[1] : pair \in {p \in query.loads :
                          ~(ScopedLabel(w, scope, p[2]) \subseteq first.files)}}
           direct == BazelDeps(w, first.missing)
           asked == Filtered(w, direct \cup BazelBuildFiles(w, direct)
                       \cup BazelBuildFiles(w, {t \in w.graph : t.label \in readers}))
           extra == {t \in asked : \A s \in query.targets : s.label # t.label}
           quiet == first.missing = {} /\ readers = {}
           loads == IF quiet THEN query.loads ELSE query.loads \cup BuildLoads(w, scope, asked)
           coverage == IF quiet THEN first ELSE CoverageRecord(w, scope, first, extra)
           targets == IF quiet THEN query.targets ELSE query.targets \cup extra
           whole == coverage.missing = {} /\ UnansweredLoads(w, scope, loads, coverage) = {}
       IN  \/ /\ whole
              /\ query' = [query EXCEPT !.pc = "references", !.loads = loads,
                              !.targets = Connect(w, scope, loads, coverage, targets)]
           \/ /\ ~quiet \/ ~whole
              /\ QueryFails

\* check_failed_extension_references: a target that needs an unavailable repository is an error
\* without --keep_going.
CheckFailedReferences ==
    /\ query # Idle
    /\ query.pc = "references"
    /\ \/ query' = [query EXCEPT !.pc = "done"]
       \/ query.failures /\ ~query.world.keepGoing /\ QueryFails

QueryNext ==
    \/ Probe
    \/ QueryBzlmodRepos
    \/ QueryPrimary
    \/ QueryConfigured
    \/ QueryExternal
    \/ QuerySupplement
    \/ CheckFailedReferences

QuerySpec == QueryInit /\ [][QueryNext]_query

------------------------------------------------------------------------------

Done == query # Idle /\ query.pc = "done"

\* A graph accepted under --isolatedDependencyRoot sends every change inside the usage to every
\* rule that reads it: a rule of another repository that names a member's target, or whose BUILD
\* file loads a member's file, has the edge to the hub; every member's file that a returned
\* target names or a returned BUILD file loads is folded into the hub; and nothing a rule names
\* in the usage is missing from the graph, whichever of the two queries returned it
\* (ScopedCoverage, connect_external_readers).
ScopedChangesReachReaders ==
    (Done /\ HasScope) =>
        LET w == query.world
            scope == query.scope
            folded == {Denoted(w, t.label) : t \in FoldedIntoHub(w, scope, query.targets)}
            builds(t) == {b \in Filtered(w, w.graph) :
                            /\ b.label.target = "BUILD"
                            /\ PackageOf(w, b.label) = PackageOf(w, t.label)}
            loaded(t) == ScopedLabels(w, scope, UNION {b.loads : b \in builds(t)})
        IN  \A t \in {r \in query.targets : r.kind = "rule" /\ r.label.form # "external"} :
               /\ ScopedLabels(w, scope, t.inputs) \subseteq
                    ScopedLabels(w, scope, {s.label : s \in query.targets})
               /\ \A label \in loaded(t) : Denoted(w, label) \in folded
               /\ ~InScope(w, scope, t.label) =>
                    (ScopedLabels(w, scope, t.inputs) \cup loaded(t) # {}
                        => HubLabel(scope) \in t.inputs)

\* An accepted scope is closed: its members are all the repositories the usage generated, each
\* with the definition whose labels are folded into the hub, the hub is the only one that is
\* imported, and no repository rule outside reads a member, which would make a file of the usage
\* an input that no target edge shows (resolve_isolated_root, effective_root_group).
ScopeIsClosed ==
    (query # Idle /\ HasScope) =>
        LET w == query.world
            rows(repo) == {i \in DOMAIN w.catalog : w.catalog[i].repo = repo}
        IN  /\ \A repo \in w.generated \cup w.imported :
                  repo.prefix = Group(w) => repo \in query.scope.members
            /\ query.scope.members \cap w.imported = {w.mapping[w.anchor]}
            /\ \A repo \in query.scope.members :
                  /\ Cardinality(rows(repo)) = 1
                  /\ \A i \in rows(repo) : w.catalog[i].labels \subseteq query.scope.inputs
            /\ \A i \in DOMAIN w.catalog :
                  w.catalog[i].repo \notin query.scope.members =>
                     \A label \in w.catalog[i].labels :
                        AttributeRepo(label) \notin query.scope.members

\* Without --keep_going, and always under an isolated root, an accepted graph is whole: every
\* target of the patterns asked for that the filters leave, //external only where Bazel has it.
\* A partial answer, or an error of another kind, never passes for the fallback without //external.
AcceptedGraphIsWhole ==
    (Done /\ (~query.world.keepGoing \/ query.world.isolated)) =>
        LET w == query.world
            names == {t.label : t \in query.targets}
            external == IF w.excludeExternal THEN {} ELSE ExternalTargets(w)
        IN  \A t \in Filtered(w, BazelOrdinary(w) \cup external) :
               (w.useCquery => Denoted(w, t.label) \notin w.incompatible) => t.label \in names

\* The repository nodes of a module workspace are left out of the graph only where Bazel cannot
\* list them (its version, or a probe that Bazel did not answer at all) or where --keep_going
\* accepts it: a module extension that cannot be evaluated never reads as "Bzlmod disabled"
\* (probe_bzlmod, the comment on is_bzlmod_enabled).
RepositoriesNotDropped ==
    (Done /\ Supported(query.world.version) /\ "unusable" \notin query.asked) =>
        query.world.keepGoing \/ \A n \in query.world.nodes : \E t \in query.targets : t.label = n.label

\* --isolatedDependencyRoot: an accepted scope is closed, and every change inside it reaches
\* every rule that reads it.
ScopeIsSound == ScopeIsClosed /\ ScopedChangesReachReaders

\* query_all_targets_with: neither a target nor a repository node of the workspace is left out of
\* an accepted graph because Bazel answered in part or not at all, unless --keep_going accepts it.
NothingDropped == AcceptedGraphIsWhole /\ RepositoriesNotDropped
==============================================================================
