------------------------------ MODULE Vouchers ------------------------------
(***************************************************************************)
(* What the ad unlocks promise, without locks, polls, retries or crashes.  *)
(* A voucher is worth one right, fixed when it is issued.  It ends once:   *)
(* redeemed with a receipt nobody used before, which opens its right in    *)
(* the same step, or void.  A receipt earns income once, and only in the   *)
(* step that redeems a voucher with it.  Rights are bought as well, and    *)
(* all of them end when the shop closes.                                   *)
(***************************************************************************)
EXTENDS Naturals

CONSTANTS Slips, Rights, Receipts, None, Nothing

VARIABLES life,     (* of each voucher                                     *)
          worth,    (* the right it is for                                 *)
          receipt,  (* the receipt it ended with                           *)
          open,     (* the rights that were opened                         *)
          earned,   (* how often each receipt earned                       *)
          closed

voucherVars == <<life, worth, receipt, open, earned, closed>>

VouchersInit ==
    /\ life = [v \in Slips |-> "none"]
    /\ worth = [v \in Slips |-> Nothing]
    /\ receipt = [v \in Slips |-> None]
    /\ open = {}
    /\ earned = [x \in Receipts |-> 0]
    /\ ~closed

Fresh(x) == \A v \in Slips : receipt[v] # x

(* Nobody is given a voucher for what is open. *)
Issue(v) ==
    /\ life[v] = "none" /\ ~closed
    /\ worth'[v] \in Rights \ open
    /\ life' = [life EXCEPT ![v] = "pending"]
    /\ worth' = [worth EXCEPT ![v] = worth'[v]]
    /\ UNCHANGED <<receipt, open, earned, closed>>

Redeem(v, x) ==
    /\ life[v] = "pending" /\ Fresh(x)
    /\ life' = [life EXCEPT ![v] = "rewarded"]
    /\ receipt' = [receipt EXCEPT ![v] = x]
    /\ open' = open \cup {worth[v]}
    /\ \/ earned' = earned
       \/ ~closed /\ earned[x] = 0 /\ earned' = [earned EXCEPT ![x] = 1]
    /\ UNCHANGED <<worth, closed>>

(* Without a receipt, or with one that is then worth nothing more. *)
Void(v) ==
    /\ life[v] = "pending"
    /\ life' = [life EXCEPT ![v] = "expired"]
    /\ receipt' \in {receipt} \cup {[receipt EXCEPT ![v] = x] : x \in {y \in Receipts : Fresh(y)}}
    /\ UNCHANGED <<worth, open, earned, closed>>

Buy(right) ==
    /\ ~closed /\ right \notin open
    /\ open' = open \cup {right}
    /\ UNCHANGED <<life, worth, receipt, earned, closed>>

Close ==
    /\ ~closed /\ closed'
    /\ open' = {}
    /\ UNCHANGED <<life, worth, receipt, earned>>

VouchersNext ==
    \/ Close
    \/ \E right \in Rights : Buy(right)
    \/ \E v \in Slips :
         \/ Issue(v) \/ Void(v)
         \/ \E x \in Receipts : Redeem(v, x)

VouchersSpec == VouchersInit /\ [][VouchersNext]_voucherVars
=============================================================================
