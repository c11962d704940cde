-------------------------------- MODULE Purse --------------------------------
(***************************************************************************)
(* What the withdrawals promise a creator, without invoices, settlements,  *)
(* reviewers or crashes: income moves what is free; a claim reserves its   *)
(* amount out of it, once, and the amount never changes; a reserved claim  *)
(* is spent or given back, once and for all.                               *)
(***************************************************************************)
EXTENDS Integers

CONSTANT Claims

VARIABLES free,       (* what the creator may still claim                  *)
          reserved,   (* what the claims under way hold                    *)
          phase,      (* the life of each claim                            *)
          amount      (* what it is for                                    *)

purseVars == <<free, reserved, phase, amount>>

PurseInit ==
    /\ free = 0 /\ reserved = 0
    /\ phase = [c \in Claims |-> "none"]
    /\ amount = [c \in Claims |-> 0]

(* Sales, refunds and corrections touch nothing that is claimed. *)
IncomeMoves ==
    /\ free' \in Int
    /\ UNCHANGED <<reserved, phase, amount>>

(* For any amount that is free. *)
Reserve(c) ==
    LET n == amount'[c]
    IN  /\ phase[c] = "none" /\ n > 0 /\ n <= free
        /\ phase' = [phase EXCEPT ![c] = "reserved"]
        /\ amount' = [amount EXCEPT ![c] = n]
        /\ free' = free - n /\ reserved' = reserved + n

Spend(c) ==
    /\ phase[c] = "reserved"
    /\ phase' = [phase EXCEPT ![c] = "spent"]
    /\ reserved' = reserved - amount[c]
    /\ UNCHANGED <<free, amount>>

GiveBack(c) ==
    /\ phase[c] = "reserved"
    /\ phase' = [phase EXCEPT ![c] = "returned"]
    /\ free' = free + amount[c] /\ reserved' = reserved - amount[c]
    /\ UNCHANGED amount

PurseNext ==
    \/ IncomeMoves
    \/ \E c \in Claims : Reserve(c) \/ Spend(c) \/ GiveBack(c)

PurseSpec == PurseInit /\ [][PurseNext]_purseVars
=============================================================================
