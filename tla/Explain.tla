------------------------------ MODULE Explain -------------------------------
(***************************************************************************)
(* `bazel-diff explain` (src/src/explain.rs): why a target is impacted.    *)
(* From two hash files and the dependency edges, walk_upstream goes        *)
(* breadth first from the queried target to its impacted dependencies; the *)
(* directly changed ones it meets are the root causes.                     *)
(***************************************************************************)
EXTENDS Naturals, Sequences, FiniteSetsExt, Sorting, Stage

CONSTANTS
    Questions,    \* the command's inputs: [from, to, mixed, edges, target, maxDepth]
    Unbounded,    \* --maxDepth below zero
    RootCaps      \* values of --maxRootCauses

\* A label is <<package, name>>, each by its place in the order of strings.
ASSUME QuestionsAssumption ==
    /\ RootCaps \subseteq Nat
    /\ \A q \in Questions :
          /\ IsFiniteSet(DOMAIN q.to) /\ DOMAIN q.to \subseteq Nat \X Nat
          /\ q.edges \in [DOMAIN q.edges -> Seq(Nat \X Nat)]
          /\ q.maxDepth \in Nat \cup {Unbounded}

VARIABLE
    why           \* a record: the question and the locals of the command

\* impacted_types: by label, how its hash moved.  A deleted target is never
\* impacted.
ImpactTypes(from, to) ==
    [l \in {l \in DOMAIN to : l \notin DOMAIN from \/ from[l] # to[l]} |->
        IF l \notin DOMAIN from \/ from[l].direct # to[l].direct
        THEN "direct" ELSE "indirect"]

NoAnswer == [impacted |-> FALSE, removed |-> FALSE, directly |-> FALSE,
             roots |-> <<>>, total |-> 0, nodes |-> {}, edges |-> {}]

Ask(q) ==
    [from |-> q.from, to |-> q.to, mixed |-> q.mixed, edges |-> q.edges, target |-> q.target,
     maxDepth |-> q.maxDepth, types |-> ImpactTypes(q.from, q.to), stage |-> "start",
     distances |-> <<>>, parents |-> <<>>, queue |-> <<>>, cut |-> FALSE,
     maxRoots |-> 0, answer |-> NoAnswer, format |-> "text", shown |-> {}]

ExplainInit == why \in {Ask(q) : q \in Questions}

Asking == why # Idle

Types == why.types

Deps(edges, l) == IF l \in DOMAIN edges THEN edges[l] ELSE <<>>

\* The files are from different modes; or the target is in neither file, or its
\* hash did not move, or the walk starts.
StartWalk ==
    /\ Asking /\ why.stage = "start"
    /\ \/ why.mixed /\ why' = [why EXCEPT !.stage = "mixed modes"]
       \/ /\ ~why.mixed /\ why.target \notin DOMAIN why.from \cup DOMAIN why.to
          /\ why' = [why EXCEPT !.stage = "unknown target"]
       \/ /\ ~why.mixed /\ why.target \in (DOMAIN why.from \cup DOMAIN why.to) \ DOMAIN Types
          /\ why' = [why EXCEPT !.stage = "explained",
                                !.answer.removed = why.target \notin DOMAIN why.to]
       \/ /\ ~why.mixed /\ why.target \in DOMAIN Types
          /\ why' = [why EXCEPT !.stage = "walk",
                                !.distances = [l \in {why.target} |-> 0],
                                !.queue = <<why.target>>]

AtHand == Head(why.queue)

AtLimit == why.maxDepth # Unbounded /\ why.distances[AtHand] >= why.maxDepth

\* The impacted dependencies of the label at hand that were not met before, each
\* where it is first listed.
Unvisited ==
    LET deps == Deps(why.edges, AtHand)
        places == {i \in DOMAIN deps :
                      /\ deps[i] \in DOMAIN Types \ DOMAIN why.distances
                      /\ \A j \in 1 .. i - 1 : deps[j] # deps[i]}
        sorted == Sorted(places, {p \in places \X places : p[1] < p[2]})
    IN  [n \in DOMAIN sorted |-> deps[sorted[n]]]

\* The map with the same value for some new labels.
Extended(map, labels, value) ==
    [l \in DOMAIN map \cup labels |-> IF l \in DOMAIN map THEN map[l] ELSE value]

MutantCut ==
    /\ Asking /\ why.stage = "walk" /\ why.queue # <<>> /\ AtLimit
    /\ why' = [why EXCEPT !.queue = Tail(@)]

\* At the depth bound nothing more is followed; what stays hidden is a warning.
Cut ==
    /\ Asking /\ why.stage = "walk" /\ why.queue # <<>> /\ AtLimit
    /\ why' = [why EXCEPT !.queue = Tail(@), !.cut = @ \/ Unvisited # <<>>]

MutantFollow ==
    /\ Asking /\ why.stage = "walk" /\ why.queue # <<>> /\ ~AtLimit
    /\ LET dependencies == IF Types[AtHand] = "direct" THEN <<>> ELSE Unvisited
           new == Members(dependencies)
       IN  why' = [why EXCEPT
              !.queue = Tail(@) \o dependencies,
              !.distances = Extended(@, new, why.distances[AtHand] + 1),
              !.parents = Extended(@, new, AtHand)]

\* The walk goes on through a directly changed label.
Follow ==
    /\ Asking /\ why.stage = "walk" /\ why.queue # <<>> /\ ~AtLimit
    /\ why' = [why EXCEPT
          !.queue = Tail(@) \o Unvisited,
          !.distances = Extended(@, Members(Unvisited), why.distances[AtHand] + 1),
          !.parents = Extended(@, Members(Unvisited), AtHand)]

\* path_to_target: from a root down to the queried target.
PathFrom(parents, root) ==
    LET most == Cardinality(DOMAIN parents)
        cursor[n \in 0 .. most] ==
          IF n = 0 THEN root
          ELSE IF cursor[n - 1] \in DOMAIN parents THEN parents[cursor[n - 1]]
          ELSE cursor[n - 1]
        hops == Min({n \in 0 .. most : cursor[n] \notin DOMAIN parents})
    IN  [i \in 1 .. hops + 1 |-> cursor[i - 1]]

PackageOf(l) == l[1]

Crossings(path) == Cardinality({i \in 1 .. Len(path) - 1 : PackageOf(path[i]) # PackageOf(path[i + 1])})

RootCause(l) ==
    [label |-> l, kind |-> IF l \in DOMAIN why.from THEN "self changed" ELSE "new target",
     distance |-> why.distances[l], path |-> PathFrom(why.parents, l),
     packageHops |-> Crossings(PathFrom(why.parents, l))]

Nearer(a, b) ==
    \/ why.distances[a] < why.distances[b]
    \/ /\ why.distances[a] = why.distances[b]
       /\ a[1] < b[1] \/ (a[1] = b[1] /\ a[2] < b[2])

DirectLabels == {l \in DOMAIN why.distances : Types[l] = "direct"}

AllRoots ==
    LET sorted == Sorted(DirectLabels, {p \in DirectLabels \X DirectLabels : Nearer(p[1], p[2])})
    IN  [i \in DOMAIN sorted |-> RootCause(sorted[i])]

Kept(roots, maxRoots) ==
    IF maxRoots > 0 /\ Len(roots) > maxRoots THEN SubSeq(roots, 1, maxRoots) ELSE roots

\* build_subgraph: the labels on the reported paths and every edge between two.
Included(roots) == (UNION {Members(roots[i].path) : i \in DOMAIN roots}) \cup {why.target}

Node(l, roots) ==
    [label |-> l, impact |-> Types[l], distance |-> why.distances[l],
     isRoot |-> \E i \in DOMAIN roots : roots[i].label = l, isTarget |-> l = why.target]

EdgesWithin(labels) == UNION {{<<d, l>> : d \in Members(Deps(why.edges, l)) \cap labels} : l \in labels}

\* The walk is over: the roots, nearest first, cut to --maxRootCauses.
Attribute ==
    /\ Asking /\ why.stage = "walk" /\ why.queue = <<>>
    /\ \E maxRoots \in RootCaps :
          LET roots == Kept(AllRoots, maxRoots)
          IN  why' = [why EXCEPT
                !.stage = "explained", !.maxRoots = maxRoots,
                !.answer = [impacted |-> TRUE, removed |-> FALSE,
                            directly |-> Types[why.target] = "direct",
                            roots |-> roots, total |-> Len(AllRoots),
                            nodes |-> {Node(l, roots) : l \in Included(roots)},
                            edges |-> EdgesWithin(Included(roots))]]

\* What the output tells beside the listed roots: render_text and the fields
\* of the JSON.  The DOT and Mermaid graphs have nodes and edges only.
Rendered(format) ==
    LET e == why.answer
    IN  {m \in {"not impacted", "removed", "unattributed", "more roots"} :
           /\ format = "text"
           /\ \/ m = "not impacted" /\ ~e.impacted /\ ~e.removed
              \/ m = "removed" /\ ~e.impacted /\ e.removed
              \/ m = "unattributed" /\ e.impacted /\ e.roots = <<>>
              \/ m = "more roots" /\ e.impacted /\ Len(e.roots) \in 1 .. e.total - 1}

\* run_explain: warnings always go to standard error, notes with --verbose.
Diagnosed(verbose) ==
    {m \in {"depth", "more roots"} :
        \/ m = "depth" /\ why.cut
        \/ m = "more roots" /\ verbose /\ Len(why.answer.roots) < why.answer.total}

Render ==
    /\ Asking /\ why.stage = "explained"
    /\ \E format \in {"text", "graph"}, verbose \in BOOLEAN :
          why' = [why EXCEPT !.stage = "rendered", !.format = format,
                             !.shown = Rendered(format) \cup Diagnosed(verbose)]

ExplainNext == StartWalk \/ Cut \/ Follow \/ Attribute \/ Render

ExplainSpec == ExplainInit /\ [][ExplainNext]_why

-----------------------------------------------------------------------------
(* Properties                                                              *)

Answered == Asking /\ why.stage = "rendered" /\ why.answer.impacted

Upstream(types, edges, labels) ==
    labels \cup {d \in DOMAIN types : \E l \in labels : d \in Members(Deps(edges, l))}

\* The shortest way from the target up to every impacted label it reaches over
\* impacted labels.
Distances(types, edges, target) ==
    LET hops == Cardinality(DOMAIN types)
        reach[k \in 0 .. hops] ==
          IF k = 0 THEN {target} ELSE Upstream(types, edges, reach[k - 1])
    IN  [l \in reach[hops] |-> Min({k \in 0 .. hops : l \in reach[k]})]

UpstreamDistance == Distances(Types, why.edges, why.target)

DirectIn(up) == {l \in DOMAIN up : Types[l] = "direct"}

Roots == Members(why.answer.roots)

RootLabels == {r.label : r \in Roots}

\* "Every DIRECT label it reaches is a root cause", also one behind another
\* direct label or on a cycle, and nothing else is: the count is that of the
\* direct labels within the depth bound, the reported ones are the nearest,
\* each with "a shortest such path" whose every hop is a dependency edge.
RootsExact ==
    Answered =>
      \A up \in {UpstreamDistance} :
        LET due == {l \in DirectIn(up) : why.maxDepth = Unbounded \/ up[l] <= why.maxDepth}
        IN  /\ why.answer.total = Cardinality(due)
            /\ RootLabels \subseteq due
            /\ why.maxRoots = 0 => RootLabels = due
            /\ \A l \in due \ RootLabels, r \in Roots : r.distance <= up[l]
            /\ \A r \in Roots :
                  /\ r.distance = up[r.label]
                  /\ Len(r.path) = r.distance + 1
                  /\ r.path[1] = r.label /\ r.path[Len(r.path)] = why.target
                  /\ \A j \in 1 .. Len(r.path) - 1 :
                        r.path[j] \in Members(Deps(why.edges, r.path[j + 1]))

\* "Neither ever truncates silently": when a root cause of the target is not
\* listed in the text or JSON output, the reader is told that the depth bound
\* or the cap hid some, and a target none could be attributed to says so; the
\* depth bound is never silent in a graph either.
TruncationSaid ==
    Answered =>
        /\ DirectIn(UpstreamDistance) # RootLabels =>
              \/ "more roots" \in why.shown \/ "depth" \in why.shown
              \/ why.format = "graph" /\ Len(why.answer.roots) < why.answer.total
        /\ Roots = {} /\ why.format = "text" => "unattributed" \in why.shown

\* The rendered graph leads from every reported root to the queried target over
\* its own edges, and each of its nodes is impacted, at the distance the node
\* is labelled with.
SubgraphConnects ==
    Answered =>
        /\ \A r \in Roots :
              \A j \in 1 .. Len(r.path) - 1 : <<r.path[j], r.path[j + 1]>> \in why.answer.edges
        /\ \A up \in {UpstreamDistance}, n \in why.answer.nodes :
              n.label \in DOMAIN up /\ n.distance = up[n.label]

\* An explanation is exact: the root causes, their paths, and the rendered
\* graph that connects them to the target.
ExplanationExact == RootsExact /\ SubgraphConnects
=============================================================================
