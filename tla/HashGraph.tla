----------------------------- MODULE HashGraph ------------------------------
(***************************************************************************)
(* The target hashing of src/src/hash.rs: hash_targets_with_environment    *)
(* visits the rules in label order and node_digest descends depth first    *)
(* into their inputs, with a digest per finished rule and a stand-in for a *)
(* rule that is still being hashed (the query graph can hold cycles).      *)
(*                                                                         *)
(* The same graph is hashed at two revisions between which definitions or  *)
(* source files of some rules changed; the impacted rules are those whose  *)
(* digest moved.  Digests are nested records, equal only when all they     *)
(* digest is.  Module ImpactedTargets goes on from here.                   *)
(***************************************************************************)
EXTENDS Naturals, Sequences

CONSTANTS
    N,            \* rules 1 .. N, numbered in label order
    Graphs        \* the rule_input lists: functions [1 .. N -> Seq(1 .. N)]

ASSUME HashGraphAssumption ==
    /\ N \in Nat
    /\ \A g \in Graphs : g \in [1 .. N -> Seq(1 .. N)]

Rules == 1 .. N

Lists(labels, label) == \E k \in 1 .. Len(labels) : labels[k] = label

\* What pop leaves.
Popped(stack) == SubSeq(stack, 1, Len(stack) - 1)

VARIABLES
    inputs,       \* the graph
    changed,      \* what differs at the second revision: <<kind, rules>>
    revision,     \* the revision being hashed
    target,       \* the rule the traversal is at
    path,         \* node_digest's path: [rule, todo, overall]
    digest,       \* RuleNode.digest
    first         \* the digests of the first revision

vars == <<inputs, changed, revision, target, path, digest, first>>

\* RuleNode.digest of a rule that is not finished.
NoDigest == [finished |-> FALSE]

Empty == [r \in Rules |-> NoDigest]

Init ==
    /\ inputs \in Graphs
    /\ changed \in {"definition", "source"} \X (SUBSET Rules \ {{}})
    /\ revision = "from"
    /\ target = 1
    /\ path = <<>>
    /\ digest = Empty
    /\ first = Empty

Version(kind, r) == IF revision = "to" /\ changed[1] = kind /\ r \in changed[2] THEN 2 ELSE 1

Definition(r) == <<"definition", r, Version("definition", r)>>

\* definition digest, the digest of the rule's source input, input labels
Direct(r) == <<Definition(r), Version("source", r), inputs[r]>>

Top == path[Len(path)]

Frame(r) == [rule |-> r, todo |-> inputs[r], overall |-> <<>>]

Enter(r) == Append(path, Frame(r))

-----------------------------------------------------------------------------

\* The next target in label order; one that a dependent has hashed already
\* keeps its digest.
NextTarget ==
    /\ path = <<>> /\ target <= N
    /\ IF digest[target] # NoDigest THEN target' = target + 1 /\ UNCHANGED path
       ELSE path' = Enter(target) /\ UNCHANGED target
    /\ UNCHANGED <<inputs, changed, revision, digest, first>>

\* The next input of the rule on top of the path, unless it names itself.
NextInput == Head(Top.todo)

Fold(d) == [path EXCEPT ![Len(path)].todo = Tail(@),
                        ![Len(path)].overall = Append(@, d)]

OnPath(r) == \E i \in DOMAIN path : path[i].rule = r

HasInput == path # <<>> /\ Top.todo # <<>>

SelfInput ==
    /\ HasInput /\ NextInput = Top.rule
    /\ path' = [path EXCEPT ![Len(path)].todo = Tail(@)]
    /\ UNCHANGED <<inputs, changed, revision, target, digest, first>>

FinishedInput ==
    /\ HasInput /\ digest[NextInput] # NoDigest
    /\ path' = Fold(digest[NextInput])
    /\ UNCHANGED <<inputs, changed, revision, target, digest, first>>

\* Without the path check the recursion enters the rule again and again; the
\* frames between the two entries are dropped to keep the state finite.
MutantNoBackEdge ==
    /\ HasInput /\ NextInput # Top.rule
    /\ digest[NextInput] = NoDigest
    /\ \E i \in DOMAIN path :
          /\ path[i].rule = NextInput
          /\ path' = Append(SubSeq(path, 1, i - 1), Frame(NextInput))
    /\ UNCHANGED <<inputs, changed, revision, target, digest, first>>

\* A back edge: a digest of the rule's own definition stands in.
BackEdge ==
    /\ HasInput /\ NextInput # Top.rule
    /\ digest[NextInput] = NoDigest /\ OnPath(NextInput)
    /\ path' = Fold(<<"cycle", Definition(NextInput)>>)
    /\ UNCHANGED <<inputs, changed, revision, target, digest, first>>

Descend ==
    /\ HasInput
    /\ digest[NextInput] = NoDigest /\ ~OnPath(NextInput)
    /\ path' = Enter(NextInput)
    /\ UNCHANGED <<inputs, changed, revision, target, digest, first>>

MutantDropLastInput ==
    /\ path # <<>> /\ Top.todo = <<>>
    /\ digest' = [digest EXCEPT ![Top.rule] =
                     [overall |-> IF Top.overall = <<>> THEN <<>> ELSE Popped(Top.overall),
                      direct |-> Direct(Top.rule)]]
    /\ path' = Popped(path)
    /\ UNCHANGED <<inputs, changed, revision, target, first>>

\* TargetDigestBuilder::finish; the parent folds the digest in when it looks
\* at the same input again.
Finish ==
    /\ path # <<>> /\ Top.todo = <<>>
    /\ digest' = [digest EXCEPT ![Top.rule] =
                     [overall |-> Top.overall, direct |-> Direct(Top.rule)]]
    /\ path' = Popped(path)
    /\ UNCHANGED <<inputs, changed, revision, target, first>>

\* The second revision is hashed from nothing.
NextRevision ==
    /\ path = <<>> /\ target > N /\ revision = "from"
    /\ revision' = "to"
    /\ target' = 1
    /\ first' = digest
    /\ digest' = Empty
    /\ UNCHANGED <<inputs, changed, path>>

Done == path = <<>> /\ target > N /\ revision = "to"

Next ==
    \/ NextTarget \/ SelfInput \/ FinishedInput \/ BackEdge \/ Descend \/ Finish
    \/ NextRevision

HashSpec == Init /\ [][Next]_vars

-----------------------------------------------------------------------------
(* Properties                                                              *)

Edge(r, i) == r # i /\ Lists(inputs[r], i)

\* The changed rules and everything that depends on one, however indirectly:
\* the least set that holds the former and the dependents of its members.
Dependents ==
    {r \in Rules : \A S \in SUBSET Rules :
        changed[2] \subseteq S /\ (\A d \in Rules : (\E i \in S : Edge(d, i)) => d \in S) => r \in S}

\* Every set of rules has a member that depends on none of the others.
Acyclic == \A S \in SUBSET Rules : S # {} => \E r \in S : \A i \in S : ~Edge(r, i)

Impacted == {r \in Rules : first[r] # digest[r]}

DirectlyImpacted == {r \in Rules : first[r].direct # digest[r].direct}

\* Without cycles exactly the dependents of a change are impacted, and only
\* the changed rules are directly impacted (impacted_targets, impacted_types),
\* although every digest is computed once and shared by all its dependents.
ExactWithoutCycles ==
    Done /\ Acyclic => Impacted = Dependents /\ DirectlyImpacted = changed[2]

\* With cycles too, a rule that does not depend on the change keeps its hash:
\* which member of a cycle is entered first does not leak into other rules.
NothingElseImpacted == Done => Impacted \subseteq Dependents

\* "A change to either member reaches both members and everything
\* downstream" of a dependency cycle.
ChangesReachDependents == Done => Dependents \subseteq Impacted

\* Exactly the dependents of a change are impacted without cycles, and none
\* but dependents with them.
ImpactedAreDependents == ExactWithoutCycles /\ NothingElseImpacted
=============================================================================
