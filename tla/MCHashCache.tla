---------------------------- MODULE MCHashCache -----------------------------
(* Two revisions with the same module files, each derivable from the other. *)
EXTENDS HashCache, TLC

CONSTANTS r1, r2

MCModuleFiles == [r \in Revs |-> "same"]

MCDerivable == {<<r1, r2>>, <<r2, r1>>}

\* r1 and r2 differ in nothing the model looks at.
MCSymmetry == Permutations({r1, r2})
=============================================================================
