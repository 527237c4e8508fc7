------------------------------ MODULE Sorting -------------------------------
(* Sorted lists of the members of a finite set, by a strict total order     *)
(* given as a set of pairs.                                                 *)
EXTENDS Naturals, Sequences, FiniteSets

Members(s) == {s[i] : i \in DOMAIN s}

\* How many members come before x.
Place(x, S, before) == Cardinality({y \in S : <<y, x>> \in before})

Sorted(S, before) ==
    [i \in 1 .. Cardinality(S) |-> CHOOSE x \in S : Place(x, S, before) = i - 1]
=============================================================================
