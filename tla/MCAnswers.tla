----------------------------- MODULE MCAnswers ------------------------------
(* What the commands make of two hash files, on one instance each: the      *)
(* distances of the impacted targets (MCImpactedTargets), the explanation of *)
(* one of them, and the list widened by the dependents of changed modules.  *)
EXTENDS MCImpactedTargets, Explain, ModuleChanges

\* The hashes come from files.
NotHashing ==
    /\ inputs = [r \in Rules |-> <<>>] /\ changed = <<"definition", {}>>
    /\ revision = "from" /\ target = 1 /\ path = <<>>
    /\ digest = Empty /\ first = Empty
    /\ lacking = {} /\ memo = [r \in Rules |-> NoDistance] /\ frames = <<>>

AnswersInit ==
    \/ ImpactInit /\ why = Idle /\ diff = Idle
    \/ NotHashing /\ ExplainInit /\ diff = Idle
    \/ NotHashing /\ CompareInit /\ why = Idle

CommandOver ==
    \/ Asking /\ why.stage \in {"mixed modes", "unknown target", "rendered"}
    \/ Comparing /\ diff.stage \in {"error", "answered"}

Measure == ~Asking /\ ~Comparing /\ ImpactNext /\ UNCHANGED <<why, diff>>

AnswersNext ==
    \/ Measure
    \/ ExplainNext /\ UNCHANGED <<allVars, diff>>
    \/ CompareNext /\ UNCHANGED <<allVars, why>>
    \/ CommandOver /\ UNCHANGED <<allVars, why, diff>>

AnswersSpec ==
    /\ AnswersInit /\ [][AnswersNext]_<<allVars, why, diff>>
    /\ WF_<<allVars, why, diff>>(Measure)

-----------------------------------------------------------------------------
(* Explanations: a target and three labels in two packages, which may have  *)
(* moved in every way, over edges with chains, diamonds and cycles.         *)

eT == <<1, 1>>
eA == <<1, 2>>
eB == <<2, 1>>
eC == <<2, 2>>

OldHashes(m) ==
    [l \in {l \in DOMAIN m : m[l] \notin {"new", "unknown"}} |-> [overall |-> 1, direct |-> 1]]

NewHashes(m) ==
    [l \in {l \in DOMAIN m : m[l] \notin {"removed", "unknown"}} |->
        [overall |-> IF m[l] = "same" THEN 1 ELSE 2, direct |-> IF m[l] = "direct" THEN 2 ELSE 1]]

eMoves ==
    {t @@ u : t \in [{eT} -> {"unknown", "removed", "same", "direct", "indirect"}],
              u \in [{eA, eB, eC} -> {"same", "direct", "indirect"}]}
    \cup {t @@ u : t \in [{eT} -> {"new"}], u \in [{eA, eB, eC} -> {"new", "indirect"}]}

eEdges ==
    {(eT :> t) @@ (eA :> a) @@ (eB :> b) @@ (eC :> c) :
        t \in {<<>>, <<eA>>, <<eB, eA>>}, a \in {<<>>, <<eB>>, <<eC>>, <<eC, eB>>},
        b \in {<<>>, <<eA, eT>>, <<eC>>}, c \in {<<>>, <<eB>>}}

MCQuestions ==
    {[from |-> OldHashes(m), to |-> NewHashes(m), mixed |-> FALSE, edges |-> e, target |-> eT, maxDepth |-> d] :
        m \in eMoves, e \in eEdges, d \in {1, 2, Unbounded}}
    \cup {[from |-> OldHashes(m), to |-> NewHashes(m), mixed |-> TRUE, edges |-> eT :> <<>>,
           target |-> eT, maxDepth |-> Unbounded] : m \in eMoves}

-----------------------------------------------------------------------------
(* Comparisons: workspace targets of both ranks, one of them in the old file *)
(* only, a module and the repository of an extension of it, and a label      *)
(* below //external:, with every pair of module graphs; the final file with  *)
(* and without target types, and from partial-graph mode.                    *)

mLabel(where, module, extension, n) ==
    [at |-> where, repo |-> [module |-> module, extension |-> extension], name |-> n]

mApp == mLabel(0, "", "", 1)
mLib == mLabel(0, "", "", 2)
mGone == mLabel(0, "", "", 3)
mDep == mLabel(2, "dep", "", 5)
mHub == mLabel(2, "dep", "ext", 6)
mWell == mLabel(1, "", "", 4)

mData(listed, moved, graph, partial) ==
    [hashes |-> [l \in listed |-> [kind |-> IF l = mLib THEN "SourceFile" ELSE "Rule",
                                   hash |-> IF l \in moved THEN 2 ELSE 1, direct |-> 1]],
     graph |-> graph, partial |-> partial]

mOther == "other" :> [name |-> "other", version |-> 1]

mGraphs == {NoGraph, <<>>, mOther} \cup {("dep" :> [name |-> "dep", version |-> v]) @@ mOther : v \in {1, 2}}

mEdges ==
    {[l \in {mApp, mLib, mGone, mDep, mHub} |->
        CASE l = mApp -> a [] l = mLib -> b [] l = mGone -> {mDep} [] OTHER -> {}] :
        a \in {{mLib}, {mDep}, {mHub}}, b \in {{}, {mDep}, {mApp}}}
    \cup {[l \in {mApp, mLib} |-> IF l = mApp THEN {mLib} ELSE {}]}

MCComparisons ==
    {[from |-> Written(mData({mApp, mLib, mGone, mDep, mHub, mWell}, {}, g[1], FALSE), TRUE),
      to |-> Written(mData(listed, moved, g[2], mode[2]), mode[1]),
      dependsOn |-> e, types |-> t, excludeExternal |-> TRUE] :
        g \in mGraphs \X mGraphs, e \in mEdges, t \in {AnyType, {"Rule"}},
        moved \in {{}, {mLib}, {mApp, mWell}, {mDep}},
        mode \in {<<TRUE, FALSE>>, <<FALSE, FALSE>>, <<TRUE, TRUE>>},
        listed \in {{mApp, mLib, mDep, mHub, mWell}, {mApp, mLib, mWell}, {mDep, mHub}}}
=============================================================================
