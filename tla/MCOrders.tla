------------------------------ MODULE MCOrders ------------------------------
(***************************************************************************)
(* Small instances for TLC of the orders and, beside them, of the          *)
(* middleware that a request for an order passes first.  The two share no  *)
(* variable (a request that passes is a request of Orders), so a behaviour *)
(* is one of one part, and TLC explores the sum of their states.           *)
(***************************************************************************)
EXTENDS Orders, Idempotency, TLC

CONSTANTS Parts,    (* the parts that a run checks                         *)
          DayLen    (* ticks in a day                                      *)

VARIABLE part

MCDays == 0 .. (MaxTime \div DayLen)

MCDate == [t \in 0 .. MaxTime |-> t \div DayLen]

MCInit == part \in Parts /\ Init /\ IdemInit

MCNext ==
    \/ part = "orders" /\ Next /\ UNCHANGED <<part, idemVars>>
    \/ part = "requests" /\ IdemNext /\ UNCHANGED <<part, vars>>

MCSpec == MCInit /\ [][MCNext]_<<part, vars, idemVars>>

MCFairSpec == MCSpec /\ Fairness

Symmetry ==
    Permutations(OrderNos) \cup Permutations(RefundNos) \cup Permutations(Requests) \cup Permutations(Bodies)

=============================================================================
