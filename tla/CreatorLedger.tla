--------------------------- MODULE CreatorLedger ---------------------------
(***************************************************************************)
(* The rows that a sale moves, for one drama and the creator it is bound   *)
(* to: creators.total_income_cents and balance_cents, the rows of          *)
(* creator_stats_daily and the in-app rows of channel_income_daily, one    *)
(* per day.  A row that does not exist yet is a row of zeros: the code     *)
(* upserts on payment, and its UPDATE on a refund matches nothing.         *)
(*                                                                         *)
(* The operators are pure; Orders applies them inside the transactions     *)
(* that the code runs.                                                     *)
(***************************************************************************)
EXTENDS Integers, FiniteSetsExt

CONSTANTS Days,      (* the stat_date values                               *)
          ShareBP    (* the creator's share in basis points; 0 stands for  *)
                     (* a drama without a creator                          *)

ASSUME ShareAssumption == ShareBP \in Nat /\ IsFiniteSet(Days)

BPFull == 10000

(* greatest(x, 0) of the refund's UPDATE statements *)
Greatest0(x) == IF x > 0 THEN x ELSE 0

IncomeFromGrossBP(gross) ==
    LET bp == IF ShareBP > BPFull THEN BPFull ELSE ShareBP
    IN  IF gross <= 0 THEN 0 ELSE (gross * bp) \div BPFull

Ledger == [total: Nat, balance: Nat, stats: [Days -> Nat],
           chanGross: [Days -> Nat], chanIncome: [Days -> Nat]]

EmptyLedger ==
    LET zero == [d \in Days |-> 0]
    IN  [total |-> 0, balance |-> 0, stats |-> zero,
         chanGross |-> zero, chanIncome |-> zero]

(* A payment of gross cents booked on day d. *)
Credit(l, d, gross) ==
    LET share == IncomeFromGrossBP(gross)
    IN  [total      |-> l.total + share,
         balance    |-> l.balance + share,
         stats      |-> [l.stats EXCEPT ![d] = @ + share],
         chanGross  |-> [l.chanGross EXCEPT ![d] = @ + gross],
         chanIncome |-> [l.chanIncome EXCEPT ![d] = @ + share]]

(* Mutant: the refund leaves the accumulated income alone. *)
ClawbackKeepsTotal(l, d, gross) ==
    LET share == IncomeFromGrossBP(gross)
    IN  [l EXCEPT !.balance = Greatest0(@ - share),
                  !.stats[d] = Greatest0(@ - share),
                  !.chanGross[d] = Greatest0(@ - gross),
                  !.chanIncome[d] = Greatest0(@ - share)]

(* A refund of gross cents booked on day d: every column is floored at 0. *)
Clawback(l, d, gross) ==
    LET share == IncomeFromGrossBP(gross)
    IN  [total      |-> Greatest0(l.total - share),
         balance    |-> Greatest0(l.balance - share),
         stats      |-> [l.stats EXCEPT ![d] = Greatest0(@ - share)],
         chanGross  |-> [l.chanGross EXCEPT ![d] = Greatest0(@ - gross)],
         chanIncome |-> [l.chanIncome EXCEPT ![d] = Greatest0(@ - share)]]

SumOverDays(f) == SumFunctionOnSet(f, Days)
=============================================================================
