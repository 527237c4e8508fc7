---------------------------- MODULE PartialGraph ----------------------------
(***************************************************************************)
(* generate-hashes --partialGraph: src/src/partial.rs, with the run that   *)
(* drives it (partial_graph_hashes of src/src/main.rs), the working tree   *)
(* snapshot and the revision diff (src/src/git.rs) and the recording of    *)
(* recipes (src/src/hash.rs).                                              *)
(*                                                                         *)
(* A user edits the workspace and runs the command again and again, each   *)
(* run on top of the hash file of the last.  A run reuses the file, derives*)
(* a new one from its recipes, or has Bazel load the graph anew.  Edits may*)
(* fall into a run.  Digests are nested values, equal only when all they   *)
(* digest is.                                                              *)
(*                                                                         *)
(* A path is a sequence of names, a label a record [pkg, name], a tree a   *)
(* function from paths to entries [object, kind].                          *)
(***************************************************************************)
EXTENDS Naturals, Sequences, SequencesExt, FiniteSetsExt, Functions, TLC

CONSTANTS
    Load(_),        \* what bazel query finds in a workspace
    Literals(_, _), \* the main-repository labels a module file of some content names
    LoadingNames,   \* the file names is_graph_defining_path knows
    Seeds,          \* --seed-filepaths
    Patterns,       \* the paths --partialGraphRebuildPattern matches
    OwnFile,        \* the hash file, inside the workspace
    Base,           \* the workspace at the start
    Entries,        \* what an edit can put at a path
    MaxEdits,
    None

VARIABLES
    work,           \* the working tree
    file,           \* the hash file, or None
    snap,           \* the run in progress: its tree and when it was taken, or None
    wants,          \* the run has --depEdgesFile
    edits

vars == <<work, file, snap, wants, edits>>

-----------------------------------------------------------------------------
(* Digests of sources                                                      *)

PathOf(label) == label.pkg \o label.name

IsMain(label) == ~label.external

Under(tree, dir) == {p \in DOMAIN tree : IsStrictPrefix(dir, p)}

SourceDigest(tree, label, seed) ==
    IF ~IsMain(label) THEN <<"nothing">>
    ELSE LET path == PathOf(label)
             content == IF path \in DOMAIN tree THEN <<"entry", tree[path]>>
                        ELSE <<"directory", Restrict(tree, Under(tree, path))>>
         IN  <<content, seed, label>>

SoftDigest(tree, label) ==
    IF IsMain(label) /\ PathOf(label) \in DOMAIN tree /\ tree[PathOf(label)].kind # "submodule"
    THEN SourceDigest(tree, label, None)
    ELSE None

-----------------------------------------------------------------------------
(* Recipes                                                                 *)

Sources(targets) == {l \in DOMAIN targets : targets[l] = "SourceFile"}

\* PartialRecipes::subincludes: the list of the source, or of its package
Subincludes(recipes, label) ==
    IF label \in DOMAIN recipes.sourceSubincludes THEN recipes.sourceSubincludes[label]
    ELSE IF label.pkg \in DOMAIN recipes.packageSubincludes
         THEN recipes.packageSubincludes[label.pkg]
         ELSE <<>>

\* RecipeRecorder::finish: the list of the package's first source
DefaultList(query, pkg) ==
    query.subincludes[CHOOSE l \in DOMAIN query.subincludes :
        /\ l.pkg = pkg
        /\ \A other \in DOMAIN query.subincludes : other.pkg = pkg => l.rank <= other.rank]

Packages(query) == {l.pkg : l \in DOMAIN query.subincludes}

Overrides(query) ==
    Restrict(query.subincludes, {l \in DOMAIN query.subincludes :
        query.subincludes[l] # DefaultList(query, l.pkg)})

\* The digest of the .bzl files the sources of a package load
PackageSeed(tree, labels) ==
    LET tracked == {l \in labels : SoftDigest(tree, l) # None} IN
    IF tracked = {} THEN None ELSE [l \in tracked |-> SoftDigest(tree, l)]

\* package_bzl_seeds, or the files on the rule's own instantiation stack
BzlSeed(query, tree, rule) ==
    IF query.rules[rule].stack # {} THEN PackageSeed(tree, query.rules[rule].stack)
    ELSE IF \E r \in DOMAIN query.rules : query.rules[r].stack # {} THEN None
    ELSE PackageSeed(tree, UNION {Range(query.subincludes[l]) :
                                     l \in {s \in DOMAIN query.subincludes : s.pkg = rule.pkg}})

MutantIsSource(query, tree, input) ==
    input \in DOMAIN query.targets /\ query.targets[input] = "SourceFile"

\* An input is a source, or a rule (under the name of a file it generates
\* too), or a tracked file the query did not list, or nothing that is hashed.
IsSource(query, tree, input) ==
    \/ input \in DOMAIN query.targets /\ query.targets[input] = "SourceFile"
    \/ input \notin DOMAIN query.targets /\ SoftDigest(tree, input) # None

RuleOf(query, label) ==
    IF label \in DOMAIN query.generated THEN query.generated[label] ELSE label

IsDependency(query, rule, input) ==
    RuleOf(query, input) \in DOMAIN query.rules /\ RuleOf(query, input) # rule

\* normalize_workspace_path; None for a path that leaves the workspace
Normalize(path) ==
    LET parts[i \in 0 .. Len(path)] ==
            IF i = 0 THEN <<>>
            ELSE LET before == parts[i - 1] IN
                 CASE before = None \/ path[i] = "." -> before
                   [] path[i] = ".." /\ before = <<>> -> None
                   [] path[i] = ".." /\ before # <<>> -> Front(before)
                   [] OTHER -> Append(before, path[i])
    IN  parts[Len(path)]

\* What repository rules read from the workspace: the root of a local
\* repository, the files their attributes name, and those in marker files
LoadingInputs(query) ==
    ({Normalize(r.path) : r \in {q \in query.repositories : q.local}} \ {None})
    \cup ({PathOf(l) : l \in UNION {r.labels : r \in query.repositories}} \ {<<>>})
    \cup {PathOf(l) : l \in {m \in query.markers : IsMain(m) /\ PathOf(m) # <<>>}}

\* node_digest with a recorder: all but the sources and the dependencies
Recipe(query, tree, seeds, rule) ==
    LET inputs == query.rules[rule].inputs IN
    [static |-> <<rule, query.rules[rule].definition, seeds, BzlSeed(query, tree, rule), inputs>>,
     sources |-> SelectSeq(inputs, LAMBDA i : IsSource(query, tree, i)),
     deps |-> LET names == SelectSeq(inputs, LAMBDA i : IsDependency(query, rule, i))
              IN  [i \in DOMAIN names |-> RuleOf(query, names[i])]]

Record(query, tree, seeds) ==
    [seeds |-> seeds,
     packageSeeds |-> \A r \in DOMAIN query.rules : query.rules[r].stack = {},
     packageSubincludes |->
        [pkg \in {k \in Packages(query) : DefaultList(query, k) # <<>>} |-> DefaultList(query, pkg)],
     sourceSubincludes |-> Overrides(query),
     rules |-> [r \in DOMAIN query.rules |-> Recipe(query, tree, seeds, r)],
     generated |-> query.generated,
     loadInputs |-> LoadingInputs(query)]

-----------------------------------------------------------------------------
(* Evaluation                                                              *)

EvaluateSource(recipes, tree, label) == SourceDigest(tree, label, Subincludes(recipes, label))

\* Evaluator::rule's look-up of a source input; None makes evaluate fail
InputDigest(recipes, targets, tree, label) ==
    IF label \in Sources(targets) THEN EvaluateSource(recipes, tree, label)
    ELSE SoftDigest(tree, label)

\* What evaluate works on
Evaluator(recipes, targets, tree) == [recipes |-> recipes, targets |-> targets, tree |-> tree]

DirectDigest(e, key) ==
    LET recipe == e.recipes.rules[key] IN
    <<recipe.static, [i \in DOMAIN recipe.sources |->
                         InputDigest(e.recipes, e.targets, e.tree, recipe.sources[i])]>>

\* Evaluator::rule: the digest of a rule and the cache it leaves behind.  A
\* rule that is on the path already stands in with its static digest.
RECURSIVE VisitRule(_, _, _, _)
VisitRule(e, key, path, cache) ==
    LET deps == e.recipes.rules[key].deps
        direct == DirectDigest(e, key)
        placeholder == <<"cycle", e.recipes.rules[key].static>>
        folded[i \in 0 .. Len(deps)] ==
            IF i = 0 THEN [overall |-> <<>>, cache |-> cache]
            ELSE LET before == folded[i - 1]
                     found == VisitRule(e, deps[i], path \cup {key}, before.cache)
                 IN  [overall |-> Append(before.overall, found.digest.overall),
                      cache |-> found.cache]
    IN  IF key \in DOMAIN cache THEN [digest |-> cache[key], cache |-> cache]
        ELSE IF key \in path
        THEN [digest |-> [overall |-> placeholder, direct |-> placeholder], cache |-> cache]
        ELSE LET all == folded[Len(deps)]
                 digest == [overall |-> <<all.overall, direct>>, direct |-> direct]
             IN  [digest |-> digest, cache |-> (key :> digest) @@ all.cache]

\* The rules are visited in the order of the labels that ask for them.
RuleDigests(e) ==
    LET asking == SetToSortSeq({l \in DOMAIN e.targets : e.targets[l] # "SourceFile"},
                               LAMBDA a, b : a.rank < b.rank)
        Key(l) == IF e.targets[l] = "Rule" THEN l ELSE e.recipes.generated[l]
        after[i \in 0 .. Len(asking)] ==
            IF i = 0 THEN <<>> ELSE VisitRule(e, Key(asking[i]), {}, after[i - 1]).cache
    IN  after[Len(asking)]

\* package_seeds, from the lists of the sources that are targets
EvaluatePackageSeed(recipes, targets, tree, pkg) ==
    IF ~recipes.packageSeeds THEN None
    ELSE PackageSeed(tree, UNION {Range(Subincludes(recipes, l)) :
                                     l \in {s \in Sources(targets) : s.pkg = pkg}})

Evaluate(recipes, targets, tree) ==
    LET digests == RuleDigests(Evaluator(recipes, targets, tree)) IN
    [l \in DOMAIN targets |->
        CASE targets[l] = "Rule" -> digests[l]
          [] targets[l] = "GeneratedFile" -> digests[recipes.generated[l]]
          [] targets[l] = "SourceFile" ->
                <<EvaluateSource(recipes, tree, l), recipes.seeds,
                  EvaluatePackageSeed(recipes, targets, tree, l.pkg)>>]

Evaluates(recipes, targets, tree) ==
    \A r \in DOMAIN recipes.rules : \A s \in Range(recipes.rules[r].sources) :
        InputDigest(recipes, targets, tree, s) # None

\* A full generation: Bazel and the seed files are read from the disk, the
\* sources from the tree.
Full(disk, tree) ==
    LET query == Load(disk)
        recipes == Record(query, tree, Restrict(disk, Seeds \cap DOMAIN disk))
    IN  [hashes |-> Evaluate(recipes, query.targets, tree),
         targets |-> query.targets, recipes |-> recipes, tree |-> tree,
         edges |-> [r \in DOMAIN recipes.rules |-> recipes.rules[r].deps]]

Derive(base, tree) ==
    [base EXCEPT !.hashes = Evaluate(base.recipes, base.targets, tree), !.tree = tree]

-----------------------------------------------------------------------------
(* When a derivation is allowed                                            *)

Regular == {"file", "executable"}

\* git diff --raw --no-renames: the paths that differ, and the status letter
Changed(old, new) ==
    {p \in DOMAIN old \cup DOMAIN new :
        ~(p \in DOMAIN old /\ p \in DOMAIN new /\ old[p] = new[p])}

Modified(old, new, p) ==
    /\ p \in DOMAIN old /\ p \in DOMAIN new
    /\ old[p].kind \in Regular /\ new[p].kind \in Regular

IsGraphDefining(p) == Last(p) \in LoadingNames \/ p = <<"tools", "bazel">>

ModuleFiles == {<<"MODULE.bazel">>, <<"WORKSPACE">>, <<"WORKSPACE.bazel">>, <<"WORKSPACE.bzlmod">>}

\* referenced_main_repo_paths: `//pkg` is short for `//pkg:pkg`
LiteralPath(literal) ==
    IF literal.name # <<>> THEN literal.pkg \o literal.name
    ELSE IF literal.pkg = <<>> THEN <<>> ELSE Append(literal.pkg, Last(literal.pkg))

ModuleReferenced(tree) ==
    UNION {{LiteralPath(l) : l \in Literals(f, tree[f].object)} :
              f \in ModuleFiles \cap DOMAIN tree} \ {<<>>}

\* path == input, or path starts with "input/"
UnderInput(input, p) == input # <<>> /\ IsPrefix(input, p)

MutantForcesRebuild(recipes, old, new, p) ==
    \/ ~Modified(old, new, p)
    \/ IsGraphDefining(p)
    \/ p \in ModuleReferenced(new) \cup Seeds \cup Patterns
    \/ p \in recipes.loadInputs

ForcesRebuild(recipes, old, new, p) ==
    \/ ~Modified(old, new, p)
    \/ IsGraphDefining(p)
    \/ p \in ModuleReferenced(new) \cup Seeds \cup Patterns
    \/ \E input \in recipes.loadInputs : UnderInput(input, p)

SymlinkedGraphFile(tree) ==
    \E p \in DOMAIN tree : tree[p].kind = "symlink" /\ IsGraphDefining(p)

Derivable(base, tree) ==
    /\ ~SymlinkedGraphFile(tree)
    /\ \A p \in Changed(base.tree, tree) : ~ForcesRebuild(base.recipes, base.tree, tree, p)

\* source_labels_for_path: the source targets that are the path or contain it
ChangedSources(base, tree) ==
    {l \in Sources(base.targets) : /\ IsMain(l)
        /\ \E p \in Changed(base.tree, tree) : IsPrefix(PathOf(l), p)}

-----------------------------------------------------------------------------
(* Runs                                                                    *)

\* a file of the default mode, or none
Plain == [hashes |-> <<>>, targets |-> <<>>, recipes |-> None, tree |-> None, edges |-> <<>>,
          mixed |-> FALSE, at |-> 0]

Init ==
    /\ work = Base
    /\ file \in {None, Plain}
    /\ snap = None
    /\ wants = FALSE
    /\ edits = 0

\* The user changes, adds or removes a file, during a run or between runs.
Edit(p) ==
    /\ edits < MaxEdits
    /\ \E e \in Entries[p] :
        /\ work' = IF e = None THEN Restrict(work, DOMAIN work \ {p}) ELSE (p :> e) @@ work
        /\ work' # work
    /\ edits' = edits + 1
    /\ UNCHANGED <<file, snap, wants>>

MutantSnapshot == work

\* snapshot_working_tree: all but the run's own files
Snapshot == Restrict(work, DOMAIN work \ {OwnFile})

Start ==
    /\ snap = None
    /\ snap' = [tree |-> Snapshot, at |-> edits]
    /\ wants' \in BOOLEAN
    /\ UNCHANGED <<work, file, edits>>

\* run_generate_with: the file is written, with the edges if they are wanted
Write(data, mixed) ==
    /\ file' = [hashes |-> data.hashes, targets |-> data.targets, recipes |-> data.recipes,
                tree |-> data.tree, edges |-> IF wants THEN data.edges ELSE <<>>,
                mixed |-> mixed, at |-> snap.at]
    /\ work' = (OwnFile :> [object |-> data.tree, kind |-> "file"]) @@ work
    /\ snap' = None
    /\ wants' = FALSE
    /\ UNCHANGED edits

\* The base carries recipes, and the edges the run wants.
Usable ==
    /\ file # None /\ file.recipes # None
    /\ wants => file.edges # <<>>

Reuse == snap # None /\ Usable /\ file.tree = snap.tree /\ Write(file, file.mixed)

CanDerive ==
    /\ Usable /\ file.tree # snap.tree
    /\ Derivable(file, snap.tree)
    /\ Evaluates(file.recipes, file.targets, snap.tree)

Derived == snap # None /\ CanDerive /\ Write(Derive(file, snap.tree), file.mixed)

\* Bazel loads whatever is on disk by now.
Generate ==
    /\ snap # None
    /\ ~CanDerive /\ (Usable => file.tree # snap.tree)
    /\ Write(Full(Snapshot, snap.tree), Snapshot # snap.tree)

\* git diff fails: the clone no longer has the tree of the base
BaseTreeMissing ==
    /\ snap # None /\ Usable /\ file.tree # snap.tree
    /\ Write(Full(Snapshot, snap.tree), Snapshot # snap.tree)

\* git or Bazel fails; nothing is written.
Fail ==
    /\ snap # None
    /\ snap' = None
    /\ wants' = FALSE
    /\ UNCHANGED <<work, file, edits>>

Next ==
    \/ \E p \in DOMAIN Entries : Edit(p)
    \/ Start \/ Reuse \/ Derived \/ Generate \/ BaseTreeMissing \/ Fail

Spec == Init /\ [][Next]_vars

-----------------------------------------------------------------------------
(* Properties                                                              *)

\* Between runs, with a file that no edit raced with.
Settled == snap = None /\ file # None /\ file.recipes # None /\ ~file.mixed

Carried(data) == [hashes |-> data.hashes, targets |-> data.targets, recipes |-> data.recipes]

\* "A full generation in this mode and a derivation from a base entry produce
\* identical entries": however long the chain of derivations behind it, the
\* file equals what a full generation of its tree writes, edges included,
\* unless an edit fell between a snapshot and Bazel reading the disk.
DerivedIsFull ==
    Settled =>
        LET full == Full(file.tree, file.tree) IN
        /\ Carried(file) = Carried(full)
        /\ file.edges \in {<<>>, full.edges}

\* The entries a rule's hash stands for, read off Bazel's graph.
Reaching(query) ==
    LET Deps(r) == {RuleOf(query, i) : i \in {j \in Range(query.rules[r].inputs) :
                                                 IsDependency(query, r, j)}}
        reach[k \in 0 .. Cardinality(DOMAIN query.rules)] ==
            [r \in DOMAIN query.rules |->
                IF k = 0 THEN {r} ELSE {r} \cup UNION {reach[k - 1][d] : d \in Deps(r)}]
    IN  reach[Cardinality(DOMAIN query.rules)]

AcyclicGraph(query) ==
    LET reach == Reaching(query) IN
    \A r, d \in DOMAIN query.rules : r # d => ~(d \in reach[r] /\ r \in reach[d])

\* What the hash of a target must depend on: the definitions it reaches and
\* the content of every source those name.
Reads(query, tree, label) ==
    IF label \in DOMAIN query.rules
    THEN [r \in Reaching(query)[label] |->
            <<query.rules[r], BzlSeed(query, tree, r), Restrict(tree, Seeds \cap DOMAIN tree),
              {<<i, SourceDigest(tree, i, query.subincludes[i])>> :
                  i \in Range(query.rules[r].inputs) \cap DOMAIN query.subincludes},
              {<<i, SoftDigest(tree, i)>> :
                  i \in Range(query.rules[r].inputs) \ DOMAIN query.targets}>>]
    ELSE <<>>

\* Between the workspace at the start and the file's tree exactly the rules
\* that read something different change their hash, files that no query
\* lists (soft inputs) and directories included.
ImpactExact ==
    Settled =>
        LET before == Load(Base)
            after == Load(file.tree)
            hashes == Full(Base, Base).hashes
        IN  AcyclicGraph(before) /\ AcyclicGraph(after) =>
            \A r \in DOMAIN before.rules \cap DOMAIN after.rules :
                (hashes[r] = file.hashes[r]) <=>
                    (Reads(before, Base, r) = Reads(after, file.tree, r))

\* The recipes keep the .bzl list of every source file, although most are
\* stored once per package (RecipeRecorder::finish).
SubincludesKept ==
    Settled =>
        LET query == Load(file.tree) IN
        \A l \in DOMAIN query.subincludes :
            Subincludes(file.recipes, l) = query.subincludes[l]

\* What the chain of runs leaves is what a full generation would: the hashes
\* and edges, and the recipes the next derivation starts from.
DerivationExact == DerivedIsFull /\ SubincludesKept

\* The source targets a derivation changes are those classify announced: the
\* changed path under any split into package and name, and every directory
\* above it that is a source (source_labels_for_path, evaluate).
ChangesAnnounced ==
    Derived => {l \in Sources(file.targets) : file'.hashes[l] # file.hashes[l]}
                 = ChangedSources(file, snap.tree)

\* Without an edit since the base's snapshot a run neither derives nor
\* generates, although each run leaves its output in the workspace: bazel-diff's
\* own files are not part of the revision.
QuietRunsReuse ==
    file # None /\ file.recipes # None /\ file' # file /\ (wants => file.edges # <<>>)
        => file'.tree = file.tree \/ edits > file.at

\* partial_graph_hashes does no more than the edits call for: a run on an
\* unedited tree reuses the file, and a derivation changes the source targets
\* it announces and no others.
RunsExact == [][ChangesAnnounced /\ QuietRunsReuse]_vars
=============================================================================
