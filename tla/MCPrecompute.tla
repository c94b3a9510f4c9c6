---------------------------- MODULE MCPrecompute ----------------------------
(* Small instances of Precompute for TLC: contents are interchangeable. *)
EXTENDS Precompute, TLC

Symmetry == Permutations(Datasets) \cup Permutations(Jds) \cup Permutations(Backends)
=============================================================================
