----------------------------- MODULE MCServing -----------------------------
(* Three precomputes: the second of a larger candidates file. *)
EXTENDS Serving, TLC

MCSizeOf == <<2, 3, 2>>

MCSymmetry == Permutations(Admins)
=============================================================================
