------------------------------ MODULE OrderBook ------------------------------
(***************************************************************************)
(* What the order service promises a buyer, without channels, clocks,      *)
(* transactions or amounts: an order claims some rights when it is placed; *)
(* settling it grants them all in the same step; a void order never grants *)
(* anything; a reversal takes the money back and leaves the access.        *)
(***************************************************************************)
EXTENDS FiniteSets

CONSTANTS OrderNos, Rights

VARIABLES phase,    (* the life of each order                              *)
          claim,    (* the rights it is for                                *)
          access    (* the rights granted so far                           *)

bookVars == <<phase, claim, access>>

Phases == {"none", "due", "settled", "void", "reversed"}

BookTypeOK ==
    /\ phase \in [OrderNos -> Phases]
    /\ claim \in [OrderNos -> SUBSET Rights]
    /\ access \subseteq Rights

BookInit ==
    /\ phase = [o \in OrderNos |-> "none"]
    /\ claim = [o \in OrderNos |-> {}]
    /\ access = {}

Due == {o \in OrderNos : phase[o] = "due"}

(* A new order replaces older ones that are still due. *)
Place(o, rights, replaced) ==
    /\ phase[o] = "none" /\ rights # {}
    /\ phase' = [x \in OrderNos |-> IF x = o THEN "due"
                                    ELSE IF x \in replaced THEN "void" ELSE phase[x]]
    /\ claim' = [claim EXCEPT ![o] = rights]
    /\ UNCHANGED access

Settle(o) ==
    /\ phase[o] = "due"
    /\ phase' = [phase EXCEPT ![o] = "settled"]
    /\ access' = access \cup claim[o]
    /\ UNCHANGED claim

Reverse(o) ==
    /\ phase[o] = "settled"
    /\ phase' = [phase EXCEPT ![o] = "reversed"]
    /\ UNCHANGED <<claim, access>>

VoidDue(orders) ==
    /\ phase' = [x \in OrderNos |-> IF x \in orders THEN "void" ELSE phase[x]]
    /\ UNCHANGED <<claim, access>>

BookNext ==
    \/ \E o \in OrderNos :
         \/ \E rights \in SUBSET Rights, replaced \in SUBSET Due : Place(o, rights, replaced)
         \/ Settle(o)
         \/ Reverse(o)
    \/ \E S \in SUBSET Due : VoidDue(S)

BookSpec == BookInit /\ [][BookNext]_bookVars
=============================================================================
