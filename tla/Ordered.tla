-------------------------------- MODULE Ordered --------------------------------
(* A set in order, cut to its first members: a list that is sorted and     *)
(* sliced.  `before` is the order, a set of pairs.                         *)
EXTENDS Integers, Sequences, FiniteSets, FiniteSetsExt

(* How many members of S come before x.                                    *)
CountBefore(x, S, before) == Cardinality({y \in S : <<y, x>> \in before})

(* The first n members of S, or all of them.                               *)
FirstOf(S, n, before) ==
    [i \in 1..Min({n, Cardinality(S)}) |-> CHOOSE x \in S : CountBefore(x, S, before) = i - 1]
=============================================================================
