------------------------------- MODULE Order -------------------------------
(* Sorting, by counting what comes before. *)
EXTENDS Integers, FiniteSets

\* The elements of DOMAIN ahead in order; ahead[x] is the set of those that come before x.
Sorted(ahead) ==
    [k \in 1..Cardinality(DOMAIN ahead) |->
        CHOOSE x \in DOMAIN ahead : Cardinality(ahead[x]) = k - 1]
=============================================================================
