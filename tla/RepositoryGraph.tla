--------------------------- MODULE RepositoryGraph ---------------------------
(***************************************************************************)
(* How a change to an external repository reaches a target when the query  *)
(* does not load that repository: the repositories a module graph implies  *)
(* (query_bzlmod_repos, extension_repositories), the //external nodes they *)
(* are lowered to (lower_repositories of src/src/bazel.rs), and the inputs *)
(* of rules that are rewritten to those nodes (rule_inputs,                *)
(* apply_repository_inputs of src/src/hash.rs).                            *)
(*                                                                         *)
(* A canonical name is the sequence of its parts between the '+' signs:    *)
(* "rules_rs+" is <<"rules_rs", "">>, "rules_rs++crate+hub" is             *)
(* <<"rules_rs", "", "crate", "hub">>; an apparent name is <<"hub">>.      *)
(***************************************************************************)
EXTENDS Stage, Naturals, Sequences, SequencesExt, FiniteSets, FiniteSetsExt, Functions, TLC

CONSTANTS
    Worlds,       \* the workspaces: modules, edges, mapping, imports, derived,
                  \* unavailable, extensionRepos, useCquery, labelOnly, exempt,
                  \* fine, rules, order
    WellKnown,    \* WELL_KNOWN_MODULES
    Numbered      \* <<name, name with a numeric suffix>>, of extensions

VARIABLE graph    \* the stage of one generation and what it computed

\* A set as a sequence in one fixed order, standing for the order of labels.
RECURSIVE InOrder(_)
InOrder(S) ==
    IF S = {} THEN <<>>
    ELSE LET first == CHOOSE x \in S : TRUE IN <<first>> \o InOrder(S \ {first})

-----------------------------------------------------------------------------
(* Names                                                                   *)

IsExtensionRepo(c) == Len(c) >= 3

UsagePrefix(c) == Front(c)

\* The first prefix at a separator that names an emitted module.
RepoOwner(prefix, modules) ==
    LET ends == {i \in 1 .. Len(prefix) - 1 : SubSeq(prefix, 1, i) \in modules}
    IN  IF ends = {} THEN <<>> ELSE SubSeq(prefix, 1, Min(ends))

\* The canonical names of the root's repository mapping.
Mapped(w) == Range(w.mapping)

\* A repository the root cannot see is named by its canonical name.
NodeNames(w, c) ==
    IF c \in Mapped(w) THEN {<<a>> : a \in {n \in DOMAIN w.mapping : w.mapping[n] = c}} ELSE {c}

\* The smallest of a repository's apparent names: one fixed choice.
RepoNode(w, c) == <<CHOOSE a \in DOMAIN w.mapping : w.mapping[a] = c>>

-----------------------------------------------------------------------------
(* The repositories of a workspace                                         *)

VisibleModules(w) == {c[1] : c \in {m \in Mapped(w) : Len(m) <= 2}}

\* Bazel names a module's repository name+, or name+version beside another
\* version of it; the modules it ships keep their bare name.
ModuleRepo(w, key) ==
    IF key[1] \in WellKnown THEN <<key[1]>>
    ELSE IF \E other \in w.modules : other # key /\ other[1] = key[1] THEN key
    ELSE <<key[1], "">>

\* Modules of the graph the root does not map, asked for by their key.
HiddenModules(w) ==
    {ModuleRepo(w, key) : key \in {m \in w.modules : m[1] \notin VisibleModules(w)}}

\* The modules whose mappings are read; when Bazel disagrees with a derived
\* name, those the root sees.
MappingModules(w) ==
    {c \in Mapped(w) : ~IsExtensionRepo(c)} \cup (IF w.derived THEN HiddenModules(w) ELSE {})

\* The extension repositories some module imports.
Imported(w) ==
    {c \in Mapped(w) \cup UNION {w.imports[m] : m \in MappingModules(w) \cap DOMAIN w.imports} :
        IsExtensionRepo(c)} \ w.unavailable

\* A repository of an extension sees its siblings, so one imported repository
\* of each extension names them all.
Generated(w) ==
    {c \in w.extensionRepos \ w.unavailable :
        \E i \in Imported(w) : UsagePrefix(i) = UsagePrefix(c)}

Described(w) == {c \in Mapped(w) : Len(c) >= 2} \cup HiddenModules(w) \cup Generated(w)

\* The repositories whose definition an extension repository can fold in.
ModuleDefinitions(w) == {c \in Described(w) : ~IsExtensionRepo(c)}

PrefixesInUse(w) == {UsagePrefix(c) : c \in Generated(w)}

\* An entry is ignored when it matches no generated repository, or when its
\* prefix could be another extension of the same name.
LabelOnlyPrefixes(w) ==
    {p \in {Append(IF id.at = 2 \/ id.repo[1] \notin DOMAIN w.mapping THEN id.repo
                   ELSE w.mapping[id.repo[1]], id.name) : id \in w.labelOnly} :
        /\ p \in PrefixesInUse(w)
        /\ ~\E other \in PrefixesInUse(w) :
              Front(other) = Front(p) /\ <<Last(p), Last(other)>> \in Numbered}

-----------------------------------------------------------------------------
(* Module dependency edges                                                 *)

\* The edges of the module graph, by module name.
DependencyEdges(w) ==
    [n \in {key[1] : key \in w.modules} |->
        {e[2][1] : e \in {d \in w.edges : d[1][1] = n}}]

RECURSIVE VisitModule(_, _, _, _)
VisitModule(n, edges, path, result) ==
    IF n \in DOMAIN result THEN result
    ELSE LET on   == path \cup {n}
             kept == edges[n] \ on
             deps == InOrder(kept)
             walked[i \in 0 .. Len(deps)] ==
                 IF i = 0 THEN result ELSE VisitModule(deps[i], edges, on, walked[i - 1])
         IN  walked[Len(deps)] @@ (n :> kept)

\* The edges without those that close a cycle on the path of the walk.
BreakModuleCycles(edges) ==
    LET roots == InOrder(DOMAIN edges)
        walked[i \in 0 .. Len(roots)] ==
            IF i = 0 THEN <<>> ELSE VisitModule(roots[i], edges, {}, walked[i - 1])
    IN  walked[Len(roots)]

-----------------------------------------------------------------------------
(* lower_repositories                                                      *)

\* Keys of nodes (at 0) and labels: @repo (1), @@repo (2), main repository (3).
NodeKey(name, view) == [at |-> 0, repo |-> name, view |-> view, target |-> ""]

\* The nodes of an extension's repositories, which stand in for it at the
\* module that owns it: in query mode, unless exempted.
OwnedRepos(w, module, extension) ==
    UNION {NodeNames(w, c) :
              c \in {r \in Described(w) \ w.exempt :
                        /\ ~w.useCquery /\ IsExtensionRepo(r) /\ UsagePrefix(r) = extension
                        /\ module # <<"">>
                        /\ RepoOwner(extension, ModuleDefinitions(w)) = module}}

\* The nodes of the repositories of an extension nobody imports.
Spokes(w, extension) ==
    UNION {NodeNames(w, c) :
              c \in {r \in Described(w) \ Imported(w) :
                        ~w.useCquery /\ IsExtensionRepo(r) /\ UsagePrefix(r) = extension}}

\* A module name stands for the last repository described under it; the
\* modules Bazel ships have no such name.
ModuleToCanonical(w) ==
    LET named(n) == {m \in Described(w) : Len(m) = 2 /\ m[1] = n}
    IN  [n \in {m[1] : m \in {d \in Described(w) : Len(d) = 2}} |-> CHOOSE m \in named(n) : TRUE]

ModuleEdges(w, edges, c) ==
    LET names == ModuleToCanonical(w)
    IN  IF Len(c) = 2
        THEN UNION {NodeNames(w, names[n]) : n \in edges[c[1]] \cap DOMAIN names}
        ELSE {}

SpokesOf(w, c) ==
    IF IsExtensionRepo(c) /\ c \in Imported(w) THEN Spokes(w, UsagePrefix(c)) ELSE {}

\* The dependencies of one repository's nodes.
Dependencies(w, edges, c) ==
    ModuleEdges(w, edges, c)
        \cup UNION {OwnedRepos(w, c, extension) : extension \in PrefixesInUse(w)}

\* A node folds in its definition and that of the module whose extension made
\* it; hubs without other dependencies share the group of their extension.
RepositoryTarget(w, c, name, view, inputs, group) ==
    [key    |-> NodeKey(name, view),
     own    |-> <<c, IF IsExtensionRepo(c) THEN RepoOwner(UsagePrefix(c), ModuleDefinitions(w))
                     ELSE <<>> >>,
     inputs |-> {NodeKey(d, <<>>) : d \in inputs \ {name}},
     group  |-> group]

LowerOne(w, edges, c) ==
    LET deps   == Dependencies(w, edges, c)
        spokes == SpokesOf(w, c)
        shared(name) == deps = {} /\ spokes # {} /\ name \notin spokes
        views  == {x \in LabelOnlyPrefixes(w) : OwnedRepos(w, c, x) # {}}
    IN  {RepositoryTarget(w, c, name, <<>>, IF shared(name) THEN {} ELSE deps \cup spokes,
                          IF shared(name) THEN UsagePrefix(c) ELSE <<>>) : name \in NodeNames(w, c)}
        \cup {RepositoryTarget(w, c, name, x, deps \ OwnedRepos(w, c, x), <<>>) :
                 name \in NodeNames(w, c), x \in views}

LowerRepositories(w) ==
    LET edges == BreakModuleCycles(DependencyEdges(w))
    IN  UNION {LowerOne(w, edges, c) : c \in Described(w)}

-----------------------------------------------------------------------------
(* The inputs of rules                                                     *)

IsExternal(l) == l.at \in {1, 2}

\* The canonical names are only translated when a rule prints one, or a
\* fine-grained repository is given by one.
NeedsRepoNodes(w, inputs) == \E l \in inputs \cup w.fine : l.at = 2

InputNode(w, l, known) == IF l.at = 2 /\ known /\ l.repo \in Mapped(w) THEN RepoNode(w, l.repo)
                          ELSE l.repo

\* Whether the user named the label's repository, by either of its names.
NamesFineGrained(w, l, known) ==
    LET node == InputNode(w, l, known)
    IN  \E f \in w.fine :
           \/ f.repo \in {l.repo, node}
           \/ known /\ f.repo \in Mapped(w) /\ RepoNode(w, f.repo) = node

MutantTransformExternalInput(w, l, known) ==
    IF ~IsExternal(l) \/ NamesFineGrained(w, l, known) THEN l ELSE NodeKey(l.repo, <<>>)

TransformExternalInput(w, l, known) ==
    IF ~IsExternal(l) \/ NamesFineGrained(w, l, known) THEN l
    ELSE NodeKey(InputNode(w, l, known), <<>>)

\* The labels a rule prints, and the nodes of those in external repositories.
RuleInputs(w, inputs) ==
    LET known == NeedsRepoNodes(w, inputs)
    IN  inputs \cup {TransformExternalInput(w, l, known) : l \in inputs}

\* The extension that generated the repository a rule is in.
RuleExtension(w, l) ==
    LET c == IF l.at = 1 /\ l.repo[1] \in DOMAIN w.mapping THEN w.mapping[l.repo[1]] ELSE l.repo
    IN  IF IsExternal(l) /\ IsExtensionRepo(c) THEN UsagePrefix(c) ELSE <<>>

\* A target of a label-only extension reaches the extension's owner through
\* the view without the extension's repositories, when there is one.
ThroughView(w, keys, rule, input) ==
    LET view == NodeKey(input.repo, RuleExtension(w, rule))
    IN  IF ~w.useCquery /\ w.labelOnly # {} /\ input.at = 0 /\ view \in keys THEN view ELSE input

\* Every rule the traversal hashes: the nodes, and the queried rules with the
\* inputs they have after the rewriting.
HashedRules(w, nodes) ==
    LET keys == {n.key : n \in nodes}
    IN  nodes \cup
        {[key |-> r.key, own |-> <<>>, group |-> <<>>,
          inputs |-> {ThroughView(w, keys, r.key, i) : i \in RuleInputs(w, r.inputs)}] :
            r \in w.rules}

-----------------------------------------------------------------------------
(* The traversal: digests are terms; one group of hub inputs is digested   *)
(* once and reused by every hub of its extension.                          *)

Term(rule, labels, children) == [own |-> rule.own, labels |-> labels, children |-> children]

GroupLabels(w, extension) == InOrder({NodeKey(n, <<>>) : n \in Spokes(w, extension)})

MutantSharedPrefix(w, rule, st) ==
    IF rule.group = <<>> THEN <<>>
    ELSE IF rule.group \in DOMAIN st.groups THEN <<st.groups[rule.group]>>
    ELSE LET labels == SelectSeq(GroupLabels(w, rule.group), LAMBDA l : l \in DOMAIN st.done)
         IN  <<[labels |-> labels, digests |-> [i \in DOMAIN labels |-> st.done[labels[i]]]]>>

\* The group's digest, when it is known or all its members are hashed by now;
\* otherwise the hub is hashed like any rule.
SharedPrefix(w, rule, st) ==
    IF rule.group = <<>> THEN <<>>
    ELSE IF rule.group \in DOMAIN st.groups THEN <<st.groups[rule.group]>>
    ELSE LET labels == GroupLabels(w, rule.group)
         IN  IF \A i \in DOMAIN labels : labels[i] \in DOMAIN st.done
             THEN <<[labels |-> labels, digests |-> [i \in DOMAIN labels |-> st.done[labels[i]]]]>>
             ELSE <<>>

RECURSIVE VisitNode(_, _, _, _, _)
VisitNode(w, rules, key, path, st) ==
    IF key \in DOMAIN st.done \cup path \/ ~\E r \in rules : r.key = key THEN st
    ELSE LET rule   == CHOOSE r \in rules : r.key = key
             shared == SharedPrefix(w, rule, st)
             labels == IF rule.group = <<>> THEN InOrder(rule.inputs)
                       ELSE GroupLabels(w, rule.group)
             walked[i \in 0 .. Len(labels)] ==
                 IF i = 0 THEN st ELSE VisitNode(w, rules, labels[i], path \cup {key}, walked[i - 1])
             after  == walked[Len(labels)]
             found  == SelectSeq(labels, LAMBDA l : l \in DOMAIN after.done)
         IN  IF shared # <<>>
             THEN [done   |-> st.done @@ (key :> Term(rule, shared[1].labels, shared[1].digests)),
                   groups |-> st.groups @@ (rule.group :> shared[1])]
             ELSE [after EXCEPT !.done =
                      @ @@ (key :> Term(rule, labels,
                                        [i \in DOMAIN found |-> after.done[found[i]]]))]

\* Targets in label order, here either of two orders of nodes and rules.
HashTargets(w, rules) ==
    LET hubs  == {r.key : r \in {n \in rules : n.group # <<>>}}
        other == {r.key : r \in rules} \ hubs
        keys  == IF w.order = "hubs" THEN InOrder(hubs) \o InOrder(other)
                 ELSE InOrder(other) \o InOrder(hubs)
        walked[i \in 0 .. Len(keys)] ==
            IF i = 0 THEN [done |-> <<>>, groups |-> <<>>]
            ELSE VisitNode(w, rules, keys[i], {}, walked[i - 1])
    IN  walked[Len(keys)].done

-----------------------------------------------------------------------------
(* One generation                                                          *)

GraphInit == \E w \in Worlds : graph = [stage |-> "lower", world |-> w]

\* The lowering as a relation between keys.
Edges(rules) == UNION {{<<r.key, i>> : i \in r.inputs} : r \in rules}

GroupEdges(w, rules) ==
    UNION {{<<r.key, NodeKey(n, <<>>)>> : n \in Spokes(w, r.group)} :
              r \in {g \in rules : g.group # <<>>}}

\* Whether a relation has a cycle: what is left when nodes without
\* successors are taken away over and over.
RECURSIVE Core(_)
Core(relation) ==
    LET kept == {e \in relation : \E f \in relation : f[1] = e[2]}
    IN  IF kept = relation THEN relation ELSE Core(kept)

Lower ==
    /\ graph # Idle /\ graph.stage = "lower"
    /\ graph' = [stage |-> "hash", world |-> graph.world,
                 rules |-> HashedRules(graph.world, LowerRepositories(graph.world))]

LoweredEdges == Edges(graph.rules) \cup GroupEdges(graph.world, graph.rules)

Hash ==
    /\ graph # Idle /\ graph.stage = "hash"
    /\ graph' = [stage |-> "done", world |-> graph.world, rules |-> graph.rules,
                 digests |-> HashTargets(graph.world, graph.rules)]

GraphNext == Lower \/ Hash

-----------------------------------------------------------------------------
(* Properties                                                              *)

\* The repositories whose definition matters to a use of c: itself, what its
\* module depends on, and in query mode what its extension generates.
Successors(w, c) ==
    (IF Len(c) = 2
     THEN {m \in Described(w) :
             Len(m) = 2 /\ \E e \in w.edges : e[1][1] = c[1] /\ e[2][1] = m[1]}
     ELSE {})
    \cup (IF w.useCquery THEN {}
          ELSE {r \in Described(w) :
                  /\ IsExtensionRepo(r)
                  /\ \/ SubSeq(r, 1, Len(r) - 2) = c /\ r \notin w.exempt
                     \/ /\ c \in Imported(w) /\ r \notin Imported(w)
                        /\ UsagePrefix(c) = UsagePrefix(r)})

RECURSIVE UsedBy(_, _)
UsedBy(w, S) ==
    LET next == S \cup UNION {Successors(w, c) : c \in S}
    IN  IF next = S THEN S ELSE UsedBy(w, next)

\* The definitions behind a use: each repository's, and that of the module
\* whose extension generated it.
Definitions(S, w) ==
    S \cup ({SubSeq(c, 1, Len(c) - 2) : c \in {r \in S : IsExtensionRepo(r)}} \cap Described(w))

Repository(w, l) == IF l.at = 2 THEN l.repo ELSE w.mapping[l.repo[1]]

FineRepositories(w) == {Repository(w, f) : f \in w.fine}

\* What a use of c in a rule reaches: from a target of a label-only extension
\* the owner stands for everything but that extension's repositories.
Used(w, rule, c) ==
    LET x == RuleExtension(w, rule)
    IN  IF ~w.useCquery /\ x \in LabelOnlyPrefixes(w) /\ Front(x) = c
        THEN {c} \cup UsedBy(w, {r \in Successors(w, c) :
                                   ~IsExtensionRepo(r) \/ UsagePrefix(r) # x})
        ELSE UsedBy(w, {c})

RECURSIVE Matters(_, _)
Matters(w, r) ==
    LET external == {l \in r.inputs : IsExternal(l) /\ Repository(w, l) \notin FineRepositories(w)}
    IN  UNION ({Definitions(Used(w, r.key, Repository(w, l)), w) : l \in external}
               \cup {Matters(w, d) : d \in {o \in w.rules : o.key \in r.inputs}})

RECURSIVE Reads(_)
Reads(term) ==
    ({term.own[i] : i \in DOMAIN term.own} \ {<<>>})
        \cup UNION {Reads(term.children[i]) : i \in DOMAIN term.children}

GraphDone == graph # Idle /\ graph.stage = "done"

\* Every rule's hash folds in the definition of exactly the repositories that
\* matter to it, however the query prints its labels (transform_external_input
\* of hash.rs, lower_repositories of bazel.rs): a change to a spoke, an
\* extension's owner or a module the root cannot see is not lost, and nothing
\* else is impacted.  Where modules depend on each other in a cycle, or a
\* module is present in two versions, edges are dropped, and the hash covers a
\* part of what matters: at least the repositories the rule names.
RepositoryChangesReach ==
    GraphDone =>
        LET w == graph.world
        IN  \A r \in w.rules :
              LET reads == Reads(graph.digests[r.key])
              IN  IF Core(w.edges) = {} /\ \A k, m \in w.modules : k[1] = m[1] => k = m
                  THEN reads = Matters(w, r)
                  ELSE /\ reads \subseteq Matters(w, r)
                       /\ {Repository(w, l) : l \in {i \in r.inputs : IsExternal(i)}}
                              \subseteq reads \cup FineRepositories(w)

\* "Spokes themselves stay leaves, so no cycle forms": the nodes of any module
\* graph, views and shared groups included, depend on each other acyclically,
\* so the traversal never stands in for a node with a placeholder.
LoweringAcyclic == graph # Idle /\ graph.stage = "hash" => Core(LoweredEdges) = {}

\* Digesting a group of hub inputs once (apply_repository_inputs) gives every
\* hub the digest the ordinary traversal would give it: each digest lists
\* exactly its inputs, in order, with the digests those have.
SharedPrefixTransparent ==
    GraphDone =>
        \A r \in graph.rules :
            LET d      == graph.digests[r.key]
                labels == IF r.group = <<>> THEN InOrder(r.inputs)
                          ELSE GroupLabels(graph.world, r.group)
                found  == SelectSeq(labels, LAMBDA l : l \in DOMAIN graph.digests)
            IN  /\ d.labels = labels
                /\ d.children = [i \in DOMAIN found |-> graph.digests[found[i]]]

\* A repository fine-grained under one of its names is fine-grained under the
\* other: whether an input is hashed target by target does not depend on
\* whether Bazel printed its apparent or its canonical label.
FineGrainedByEitherName ==
    graph # Idle =>
        LET w == graph.world
        IN  \A a \in DOMAIN w.mapping :
              LET c         == w.mapping[a]
                  apparent  == [at |-> 1, repo |-> <<a>>, view |-> <<>>, target |-> "t"]
                  canonical == [at |-> 2, repo |-> c, view |-> <<>>, target |-> "t"]
                  kept(l)   == NamesFineGrained(w, l, NeedsRepoNodes(w, {l}))
              IN  NodeNames(w, c) = {<<a>>} => kept(apparent) = kept(canonical)

\* A change to a repository reaches exactly the rules it matters to, over an
\* acyclic graph, whichever of its names Bazel prints.
RepositoriesReach == RepositoryChangesReach /\ LoweringAcyclic /\ FineGrainedByEitherName
=============================================================================
