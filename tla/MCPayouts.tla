------------------------------ MODULE MCPayouts ------------------------------
(* Small instances of Payouts for TLC. *)
EXTENDS Payouts, TLC

(* A report is read in; a row is corrected or taken out. *)
MCChanges == {4, -2}

(* Two days of one half month. *)
MCCycleOf == [d \in Days |-> CHOOSE k \in Cycles : TRUE]

Symmetry == Permutations(Days) \cup Permutations(Settlements) \cup
    Permutations(Invoices) \cup Permutations(Withdrawals) \cup Permutations(Runs)

=============================================================================
