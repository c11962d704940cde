------------------------------ MODULE MCDramas ------------------------------
(* Small instances of Dramas for TLC. *)
EXTENDS Dramas, TLC

Symmetry == Permutations(Slots) \cup Permutations(Contracts)
=============================================================================
