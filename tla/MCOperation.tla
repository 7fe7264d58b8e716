----------------------------- MODULE MCOperation -----------------------------
(* Instances of Operation for TLC. *)
EXTENDS Operation, TLC

CallSymmetry == Permutations(Pushes)
=============================================================================
