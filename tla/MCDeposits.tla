----------------------------- MODULE MCDeposits -----------------------------
(***************************************************************************)
(* Small instances for TLC of the deposit accounts and, beside them, of    *)
(* the recharges that feed them and of the import of income: the three     *)
(* share no variable (a recharge that arrives is Credit, and so is the     *)
(* deposit of a sheet), so a behaviour is one of one part, and TLC         *)
(* explores the sum of their states, not the product.                      *)
(***************************************************************************)
EXTENDS Deposits, Recharges, Income

CONSTANTS Parts,    (* the parts that a run checks                         *)
          Minutes,  (* ready minutes of every drama                        *)
          ch1, ch2  (* two names of one place                              *)

VARIABLE part

MCBase == [dr \in Dramas |-> depositBaseCents([s \in EpisodeStatuses |->
                                IF s = "ready" THEN Minutes ELSE 0])]

MCPlaceOf == [c \in {ch1, ch2} |-> CHOOSE p \in Places : TRUE]

(* A sheet with a deposit, and one that corrects a line of it. *)
MCLines ==
    LET Sold(c, n) == [channel |-> c, income |-> n]
        Paid       == [channel |-> NoOne, income |-> 0]
    IN  (1 :> <<Sold(ch1, 2), Paid>>) @@ (2 :> <<Sold(ch2, 1), Sold(ch1, 1)>>)

MCCorrections == {-1, 1}

MCInit ==
    /\ part \in Parts
    /\ Init
    /\ RechargeInit
    /\ IncomeInit
    /\ part # "deposits" =>
         \A c \in Legacy : claims[c] = LegacyClaim(claims[c].by, CHOOSE dr \in Dramas : TRUE,
                                                   Platforms)
    /\ part # "recharges" => ~devMode
    /\ part # "income" => batches = {} /\ owner = CHOOSE x \in Creators : TRUE

MCNext ==
    \/ part = "deposits" /\ Next /\ UNCHANGED <<part, rechargeVars, incomeVars>>
    \/ part = "recharges" /\ RechargeNext /\ UNCHANGED <<part, vars, incomeVars>>
    \/ part = "income" /\ IncomeNext /\ UNCHANGED <<part, vars, rechargeVars>>

MCSpec == MCInit /\ [][MCNext]_<<part, vars, rechargeVars, incomeVars>>

Symmetry == Permutations(ClaimIds \ Legacy) \cup Permutations(GrantIds)
       \cup Permutations(AbandonIds) \cup Permutations(Platforms)
       \cup Permutations(Distributors)
       \cup (IF "recharges" \in Parts THEN Permutations(RechargeIds) ELSE {})

=============================================================================
