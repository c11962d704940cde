---------------------------- MODULE MCAdUnlocks ----------------------------
(* Small instances of AdUnlocks for TLC. *)
EXTENDS AdUnlocks, TLC

Symmetry == Permutations(Tickets) \cup Permutations(Trans) \cup Permutations(Reports)
            \cup Permutations(Calls)

=============================================================================
