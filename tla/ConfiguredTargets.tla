-------------------------- MODULE ConfiguredTargets --------------------------
(***************************************************************************)
(* A configured graph: the stream `bazel cquery` prints, decoded into      *)
(* targets named by label and configuration (CqueryDecoder of              *)
(* src/src/bazel.rs), the edges between those targets (resolve_input of    *)
(* src/src/hash.rs) and the one hash per label they are folded into        *)
(* (aggregate_by_label).  A key is [label, checksum]; "" is the null       *)
(* configuration, in which a key is a bare label.                          *)
(***************************************************************************)
EXTENDS Stage, Naturals, Sequences, SequencesExt, FiniteSets, Functions, TLC

CONSTANTS
    ConfiguredGraphs    \* [results, table]: what one cquery prints

VARIABLE conf           \* [stage, graph, left, tables, targets, pending, hashes]

Key(label, checksum) == [label |-> label, checksum |-> checksum]

\* A set of keys in one fixed order, standing for the order of the key strings.
RECURSIVE KeyOrder(_)
KeyOrder(S) ==
    IF S = {} THEN <<>> ELSE LET first == CHOOSE k \in S : TRUE
                             IN  <<first>> \o KeyOrder(S \ {first})

-----------------------------------------------------------------------------
(* Decoding                                                                *)

\* Rules and generated files are named by their configuration; sources and
\* package groups, which have none, keep their label.
ConfigureTarget(r, checksum) ==
    [key |-> IF r.kind \in {"rule", "generated"} THEN Key(r.label, checksum) ELSE Key(r.label, ""),
     kind |-> r.kind, inputs |-> r.inputs, groups |-> r.groups,
     generating |-> Key(r.generating, checksum)]

\* A package group is lowered to a rule, an environment group is dropped, and
\* the first target of a name is kept.
Accept(targets, r, checksum) ==
    LET t == ConfigureTarget(r, checksum)
    IN  IF r.kind = "environment_group" \/ \E o \in targets : o.key = t.key THEN targets
        ELSE targets \cup {t}

ConfInit ==
    \E g \in ConfiguredGraphs :
        conf = [stage |-> "stream", graph |-> g, left |-> g.results, tables |-> {},
                targets |-> {}, pending |-> {}, hashes |-> <<>>]

Streaming == conf # Idle /\ conf.stage = "stream"

\* The configurations an id is known for by now.
KnownIds == {id \in conf.tables : conf.graph.table[id] # "null"}

PushConfiguration ==
    /\ Streaming
    /\ \E id \in DOMAIN conf.graph.table \ conf.tables : conf' = [conf EXCEPT !.tables = @ \cup {id}]

\* A result is named by its inline checksum or by the table read so far; one
\* whose id the table has not named yet waits for the end of the stream.
PushResult ==
    /\ Streaming
    /\ \E r \in conf.left :
         LET known == r.inline \notin {"", "null"} \/ r.id \in KnownIds
             checksum == IF r.inline \notin {"", "null"} THEN r.inline ELSE conf.graph.table[r.id]
         IN  conf' = [conf EXCEPT
                 !.left = @ \ {r},
                 !.targets = IF known THEN Accept(@, r, checksum)
                             ELSE IF r.id = 0 THEN Accept(@, r, "") ELSE @,
                 !.pending = IF ~known /\ r.id # 0 THEN @ \cup {r} ELSE @]

\* A length prefix or a message cut short is an error, not a smaller graph.
CutShort ==
    /\ Streaming
    /\ conf.left # {} \/ conf.tables # DOMAIN conf.graph.table
    /\ conf' = [conf EXCEPT !.stage = "failed", !.targets = {}, !.pending = {}]

-----------------------------------------------------------------------------
(* The traversal                                                           *)

\* A generated file's key stands for its generating rule: the configured one,
\* or the first configured instance of its label.
Instances(targets, label) ==
    {t.key : t \in {o \in targets : o.key.label = label /\ o.key.checksum # ""
                                     /\ o.kind # "source"}}

TargetAt(targets, key) == CHOOSE t \in targets : t.key = key

IsHashed(targets, key) == \E t \in targets : t.key = key

GeneratingRule(targets, t) ==
    IF IsHashed(targets, t.generating) THEN t.generating
    ELSE KeyOrder(Instances(targets, t.generating.label))[1]

\* The rule a key stands for.
RuleKey(targets, key) ==
    LET t == TargetAt(targets, key)
    IN  IF t.kind = "generated" THEN GeneratingRule(targets, t) ELSE key

MutantResolveInput(targets, input, path) ==
    IF IsHashed(targets, Key(input.label, "")) THEN {Key(input.label, "")}
    ELSE IF Instances(targets, input.label) = {} THEN {}
    ELSE {KeyOrder(Instances(targets, input.label))[1]} \ path

\* A source by its label, the exact instance, the bare label, or the first
\* instance there is unless it is being hashed.
ResolveInput(targets, input, path) ==
    LET bare  == Key(input.label, "")
        first == KeyOrder(Instances(targets, input.label))
    IN  IF IsHashed(targets, bare) /\ TargetAt(targets, bare).kind = "source" THEN {bare}
        ELSE IF IsHashed(targets, input) THEN {RuleKey(targets, input)}
        ELSE IF IsHashed(targets, bare) THEN {RuleKey(targets, bare)}
        ELSE IF first = <<>> THEN {}
        ELSE {RuleKey(targets, k) : k \in {first[1]} \ path}

\* The package groups a rule's visibility names are inputs too, when the query
\* returned them.
Groups(targets, t) ==
    {Key(g, "") : g \in {n \in t.groups :
        IsHashed(targets, Key(n, "")) /\ TargetAt(targets, Key(n, "")).kind = "package_group"}}

RECURSIVE VisitKey(_, _, _, _)
VisitKey(targets, key, path, done) ==
    IF key \in DOMAIN done \cup path THEN done
    ELSE LET t     == TargetAt(targets, key)
             on    == path \cup {key}
             next  == (UNION {ResolveInput(targets, i, on) : i \in t.inputs}) \cup Groups(targets, t)
             deps  == KeyOrder(next \ {key})
             walked[i \in 0 .. Len(deps)] ==
                 IF i = 0 THEN done ELSE VisitKey(targets, deps[i], on, walked[i - 1])
             after == walked[Len(deps)]
         IN  after @@ (key :> [own |-> key, deps |-> deps,
                               children |-> [i \in DOMAIN deps |->
                                   IF deps[i] \in DOMAIN after THEN after[deps[i]]
                                   ELSE [own |-> deps[i], deps |-> <<>>, children |-> <<>>]]])

HashKeys(targets) ==
    LET keys == KeyOrder({RuleKey(targets, t.key) : t \in targets})
        walked[i \in 0 .. Len(keys)] ==
            IF i = 0 THEN <<>> ELSE VisitKey(targets, keys[i], {}, walked[i - 1])
    IN  walked[Len(keys)]

\* All the instances of a label, in key order.
AggregateByLabel(targets, digests) ==
    [l \in {t.key.label : t \in targets} |->
        LET keys == KeyOrder({t.key : t \in {o \in targets : o.key.label = l}})
        IN  [i \in DOMAIN keys |-> digests[RuleKey(targets, keys[i])]]]

\* At the end of the stream the results that waited are named, and the graph
\* is hashed.
Finish ==
    /\ Streaming
    /\ conf.left = {} /\ conf.tables = DOMAIN conf.graph.table
    /\ LET named(r) == IF r.id \in KnownIds THEN conf.graph.table[r.id] ELSE ""
           late     == SetToSeq(conf.pending)
           targets  == FoldLeft(LAMBDA ts, r : Accept(ts, r, named(r)), conf.targets, late)
       IN  conf' = [conf EXCEPT !.stage = "done", !.pending = {}, !.targets = targets,
                       !.hashes = AggregateByLabel(targets, HashKeys(targets))]

ConfNext == PushConfiguration \/ PushResult \/ CutShort \/ Finish

-----------------------------------------------------------------------------
(* Properties                                                              *)

ConfDone == conf # Idle /\ conf.stage = "done"

\* The configuration Bazel analyzed a result in.
Analyzed(g, r) ==
    IF r.kind \notin {"rule", "generated"} THEN ""
    ELSE IF r.inline \notin {"", "null"} THEN r.inline
    ELSE IF r.id \in DOMAIN g.table /\ g.table[r.id] # "null" THEN g.table[r.id] ELSE ""

\* Every result is named by the configuration it was analyzed in, however late
\* the table that names it arrives in the stream, and none is lost.
EveryInstanceNamed ==
    ConfDone => {t.key : t \in conf.targets}
                  = {Key(r.label, Analyzed(conf.graph, r)) :
                        r \in {o \in conf.graph.results : o.kind # "environment_group"}}

\* The instances an analyzed instance depends on, as Bazel reports them.
DependsOn(g, key) ==
    UNION {IF r.kind = "generated" THEN {Key(r.generating, Analyzed(g, r))}
           ELSE r.inputs \cup {Key(n, "") : n \in r.groups} :
              r \in {o \in g.results : Key(o.label, Analyzed(g, o)) = key}}

RECURSIVE ReachableFrom(_, _)
ReachableFrom(g, S) ==
    LET next == S \cup UNION {DependsOn(g, k) : k \in S}
    IN  IF next = S THEN S ELSE ReachableFrom(g, next)

RECURSIVE Folded(_)
Folded(digest) ==
    {digest.own} \cup UNION {Folded(digest.children[i]) : i \in DOMAIN digest.children}

Printed(g) == {Key(r.label, Analyzed(g, r)) : r \in g.results}

GeneratedBy(g) == {Key(r.label, Analyzed(g, r)) : r \in {o \in g.results : o.kind = "generated"}}

\* "A change reaching any instance changes the label": the hash of a label
\* folds in exactly the rules and sources its instances depend on in the
\* configured graph, so instances of one label in two configurations are
\* neither confused nor dropped.  Where an edge leads to an instance cquery
\* did not print, the hash stays within the labels the graph has.
LabelFoldsItsInstances ==
    ConfDone =>
        LET g == conf.graph
        IN  \A l \in DOMAIN conf.hashes :
              LET own   == {k \in Printed(g) : k.label = l}
                  reach == ReachableFrom(g, own)
                  reads == UNION {Folded(conf.hashes[l][i]) : i \in DOMAIN conf.hashes[l]}
              IN  IF reach \subseteq Printed(g)
                  THEN reads = reach \ GeneratedBy(g)
                  ELSE /\ reads \subseteq Printed(g)
                       /\ own \ GeneratedBy(g) \subseteq reads

\* CqueryDecoder to aggregate_by_label: no configured instance is lost, merged
\* with another or filed under the wrong label between the stream and the hash.
InstancesKept == EveryInstanceNamed /\ LabelFoldsItsInstances
=============================================================================
