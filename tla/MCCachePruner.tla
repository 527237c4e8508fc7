--------------------------- MODULE MCCachePruner ----------------------------
(* Three entries of different sizes.                                        *)
EXTENDS CachePruner

CONSTANTS k1, k2, k3

MCSize == [k \in Keys |-> CASE k = k1 -> 1 [] k = k2 -> 2 [] OTHER -> 3]
=============================================================================
