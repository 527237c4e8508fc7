------------------------- MODULE MCImpactedTargets --------------------------
(* Every graph over N rules, with and without cycles and with a rule that   *)
(* names itself, inputs in label order and in the reverse.                  *)
EXTENDS ImpactedTargets, SequencesExt

InputSets == {g \in [1 .. N -> SUBSET (1 .. N)] : \A r \in 2 .. N : r \notin g[r]}

MCGraphs == UNION {{[r \in 1 .. N |-> SetToSortSeq(g[r], <)],
                    [r \in 1 .. N |-> SetToSortSeq(g[r], >)]} : g \in InputSets}

MCPackage == [r \in 1 .. N |-> r % 2]
=============================================================================
