-------------------------- MODULE ImpactedTargets ---------------------------
(***************************************************************************)
(* From hashes to the answer: impacted_types and calculate_distance of     *)
(* src/src/model.rs, run on the digests module HashGraph computes.  The    *)
(* dependency edges come from a file of their own, which may lack those of *)
(* a rule; the labels are taken in the arbitrary order of a HashMap.       *)
(***************************************************************************)
EXTENDS HashGraph, FiniteSetsExt

CONSTANTS
    Package,      \* the package of every rule
    NoDistance

ASSUME ImpactedTargetsAssumption == NoDistance \notin Nat \X Nat

VARIABLES
    lacking,      \* the rules whose edges the dep-edges file lacks
    memo,         \* distances found: <<target distance, package distance>>
    frames        \* calculate_distance: [rule, todo, best]

distanceVars == <<lacking, memo, frames>>
allVars == <<vars, distanceVars>>

Infinity == N + 1    \* usize::MAX: longer than any path

ImpactInit ==
    /\ Init
    /\ lacking \in {{}} \cup {{r} : r \in Rules}
    /\ memo = [r \in Rules |-> NoDistance]
    /\ frames = <<>>

Hash == Next /\ UNCHANGED distanceVars

IsDirect(r) == r \in DirectlyImpacted

\* The impacted dependencies of a rule; a rule never lists itself.
ImpactedDeps(r) ==
    IF r \in lacking THEN {} ELSE {d \in Impacted : d # r /\ Lists(inputs[r], d)}

Visiting(r) == \E i \in DOMAIN frames : frames[i].rule = r

\* Distance 0 by definition, or for want of an edge to follow.
AtZero(r) == IsDirect(r) \/ ImpactedDeps(r) = {}

Visit(r) ==
    frames' = Append(frames, [rule |-> r, todo |-> inputs[r], best |-> <<Infinity, Infinity>>])

\* impacted_targets_with_distances takes the next label.
Label(r) ==
    /\ Done /\ frames = <<>>
    /\ r \in Impacted /\ memo[r] = NoDistance
    /\ \/ AtZero(r) /\ memo' = [memo EXCEPT ![r] = <<0, 0>>] /\ UNCHANGED frames
       \/ ~AtZero(r) /\ Visit(r) /\ UNCHANGED memo
    /\ UNCHANGED <<vars, lacking>>

Current == frames[Len(frames)]

Crossing(r, d) == IF Package[r] = Package[d] THEN 0 ELSE 1

Smaller(a, b) == IF a < b THEN a ELSE b

\* The loop over the dependencies goes on to the next one.
GoOn(best) ==
    frames' = [frames EXCEPT ![Len(frames)] =
        [rule |-> Current.rule, todo |-> Tail(Current.todo), best |-> best]]

MutantFirstDependency(d, found) ==
    GoOn(IF Current.best[1] < Infinity THEN Current.best
         ELSE <<found[1] + 1, found[2] + Crossing(Current.rule, d)>>)

\* The distances of one dependency are folded into the smallest so far.
Take(d, found) ==
    GoOn(<<Smaller(Current.best[1], found[1] + 1),
           Smaller(Current.best[2], found[2] + Crossing(Current.rule, d))>>)

\* What the filter leaves out of the loop.
Unimpacted ==
    /\ frames # <<>> /\ Current.todo # <<>>
    /\ Head(Current.todo) \notin ImpactedDeps(Current.rule)
    /\ GoOn(Current.best)
    /\ UNCHANGED <<vars, lacking, memo>>

Dependency ==
    /\ frames # <<>> /\ Current.todo # <<>>
    /\ LET d == Head(Current.todo) IN
        /\ d \in ImpactedDeps(Current.rule)
        /\ \/ memo[d] # NoDistance /\ Take(d, memo[d]) /\ UNCHANGED memo
           \/ /\ memo[d] = NoDistance /\ AtZero(d)
              /\ memo' = [memo EXCEPT ![d] = <<0, 0>>]
              /\ Take(d, <<0, 0>>)
           \* a label that is still being visited counts as distance 0
           \/ memo[d] = NoDistance /\ Visiting(d) /\ Take(d, <<0, 0>>) /\ UNCHANGED memo
           \/ memo[d] = NoDistance /\ ~AtZero(d) /\ ~Visiting(d) /\ Visit(d) /\ UNCHANGED memo
    /\ UNCHANGED <<vars, lacking>>

\* The caller finds the distance in memo when it looks again.
Remember ==
    /\ frames # <<>> /\ Current.todo = <<>>
    /\ memo' = [memo EXCEPT ![Current.rule] = Current.best]
    /\ frames' = Popped(frames)
    /\ UNCHANGED <<vars, lacking>>

Finished == Done /\ frames = <<>> /\ \A r \in Impacted : memo[r] # NoDistance

ImpactNext ==
    \/ Hash
    \/ \E r \in Rules : Label(r)
    \/ Unimpacted \/ Dependency \/ Remember
    \/ Finished /\ UNCHANGED allVars

ImpactSpec == ImpactInit /\ [][ImpactNext]_allVars /\ WF_allVars(ImpactNext)

-----------------------------------------------------------------------------
(* Properties                                                              *)

AtStart == [r \in Rules |-> IF r \in Impacted /\ AtZero(r) THEN 0 ELSE Infinity]

\* The distances over one more hop, where a hop from r to d costs cost[r][d].
Relax(cost, distance) ==
    [r \in Rules |-> IF r \in Impacted /\ ~AtZero(r)
                    THEN Min({distance[d] + cost[r][d] : d \in ImpactedDeps(r)}) ELSE AtStart[r]]

\* The length of the shortest way to a rule at distance 0 in at most N hops.
Shortest(cost) ==
    LET least[k \in 0 .. N] == IF k = 0 THEN AtStart ELSE Relax(cost, least[k - 1])
    IN  least[N]

PerHop == [r \in Rules |-> [d \in Rules |-> 1]]

PerCrossing == [r \in Rules |-> [d \in Rules |-> Crossing(r, d)]]

\* Without cycles every impacted target has "the number of dependency hops to
\* the nearest directly-changed target" and the fewest package crossings,
\* whatever order the labels were taken in and although distances found for
\* one label are reused for the next.
DistancesExact ==
    Finished /\ Acyclic =>
        \A r \in Impacted : memo[r] = <<Shortest(PerHop)[r], Shortest(PerCrossing)[r]>>

\* Hashing that has begun ends, on graphs with cycles too, and every impacted
\* target gets a distance.
EveryImpactedMeasured == path # <<>> ~> Finished
=============================================================================
