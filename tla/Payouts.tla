------------------------------- MODULE Payouts -------------------------------
(***************************************************************************)
(* From a creator's daily income to the bank transfer: the income rows and *)
(* the account they feed, half-month settlements, invoices and             *)
(* withdrawals, for one creator.                                           *)
(*                                                                         *)
(* A transaction that locks the rows it decides on is one step.  What is   *)
(* read before a transaction, or written after its commit, is a step of    *)
(* its own: the aggregates of a settlement run, the status an invoice      *)
(* upload pushes, the settlement a payment completes.                      *)
(***************************************************************************)
EXTENDS Integers, FiniteSetsExt

CONSTANTS Days, Cycles,
          CycleOf,          (* the half month a day belongs to             *)
          Settlements, Invoices, Withdrawals, Runs,
          None,             (* sentinel: no invoice, cycle or settlement   *)
          Amounts,          (* a creator's share of one sale or ad view    *)
          Changes,          (* differences an import or a correction books *)
          MaxIncome,        (* bound on what is ever booked                *)
          MaxContracts,     (* bound on the contracts of the creator       *)
          MinWithdrawal,    (* MinWithdrawalCents                          *)
          InvoiceRequired   (* the creator is an organization              *)

ASSUME PayoutsAssumption ==
    /\ IsFiniteSet(Days) /\ IsFiniteSet(Withdrawals)
    /\ CycleOf \in [Days -> Cycles]
    /\ Amounts \subseteq Nat \ {0} /\ Changes \subseteq Int \ {0}
    /\ MaxIncome \in Nat /\ MaxContracts \in Nat \ {0}
    /\ MinWithdrawal \in Nat \ {0} /\ InvoiceRequired \in BOOLEAN
    /\ None \notin Invoices

VARIABLES income,       (* creator_stats_daily                             *)
          channel,      (* channel_income_daily: the app's row, imported   *)
          sold,         (* sales booked and not refunded yet               *)
          booked,       (* sum of the income ever booked: bounds the model *)
          account,      (* the creator's row: total, balance, frozen       *)
          contracts,    (* how many contracts there are; the last counts   *)
          settlements, invoices, withdrawals,
          runs          (* settlement runs in progress                     *)

earnings == <<income, channel, sold, booked>>
vars == <<earnings, account, contracts, settlements, invoices, withdrawals, runs>>

Sources == {"app", "imported"}

SettlementStatuses == {"none", "open", "invoiced", "paid", "void"}

Settlement == [status: SettlementStatuses, cycle: Cycles \cup {None}, contract: Nat, net: Int]

(* push: the upload read its settlement open and has yet to write invoiced *)
Invoice == [status: {"none", "pending", "approved", "rejected", "deleted"},
            settlement: Settlements \cup {None}, push: BOOLEAN]

(* tail: what adminMarkWithdrawalPaid still does after its commit *)
Withdrawal == [status: {"none", "pending", "approved", "rejected", "paid"},
               settlement: Settlements \cup {None}, invoice: Invoices \cup {None},
               amount: Nat, tail: {"no", "read", "write"}]

Run == [stage: {"idle", "read", "counted"}, cycle: Cycles \cup {None}, contract: Nat, net: Int]

Account(total, balance, frozen) == [total |-> total, balance |-> balance, frozen |-> frozen]

NoSettlement == [status |-> "none", cycle |-> None, contract |-> 0, net |-> 0]
NoRun == [stage |-> "idle", cycle |-> None, contract |-> 0, net |-> 0]
NoInvoice == [status |-> "none", settlement |-> None, push |-> FALSE]
NoWithdrawal == [status |-> "none", settlement |-> None, invoice |-> None,
                 amount |-> 0, tail |-> "no"]

TypeOK ==
    /\ income \in [Days -> Int]
    /\ channel \in [Days -> [Sources -> Nat]]
    /\ sold \in Nat /\ booked \in Nat
    /\ account \in [total: Int, balance: Int, frozen: Nat]
    /\ contracts \in Nat
    /\ settlements \in [Settlements -> Settlement]
    /\ invoices \in [Invoices -> Invoice]
    /\ withdrawals \in [Withdrawals -> Withdrawal]
    /\ runs \in [Runs -> Run]

Init ==
    /\ income = [d \in Days |-> 0]
    /\ channel = [d \in Days |-> [c \in Sources |-> 0]]
    /\ sold = 0 /\ booked = 0
    /\ account = Account(0, 0, 0)
    /\ contracts = 0
    /\ settlements = [s \in Settlements |-> NoSettlement]
    /\ runs = [r \in Runs |-> NoRun]
    /\ invoices = [i \in Invoices |-> NoInvoice]
    /\ withdrawals = [w \in Withdrawals |-> NoWithdrawal]

-----------------------------------------------------------------------------
(* Income *)

Income == SumFunction(income)

CycleIncome(k) == SumFunctionOnSet(income, {d \in Days : CycleOf[d] = k})

Book(delta) == Account(account.total + delta, account.balance + delta, account.frozen)

Greatest0(x) == IF x > 0 THEN x ELSE 0

(* Bound: MaxIncome. *)
Count(amount) ==
    /\ booked' = booked + Greatest0(amount)
    /\ booked' <= MaxIncome

(* The creator's share of a paid order; of an ad view, if never refunded.  *)
Earn(d, amount) ==
    /\ Count(amount)
    /\ income' = [income EXCEPT ![d] = @ + amount]
    /\ channel' = [channel EXCEPT ![d]["app"] = @ + amount]
    /\ sold' = sold + amount
    /\ account' = Book(amount)
    /\ UNCHANGED <<contracts, settlements, invoices, withdrawals, runs>>

(* The refund of a sale, taken from the rows of the day of the refund;     *)
(* every column stops at zero.                                             *)
RefundSale(d, amount) ==
    /\ amount <= sold
    /\ sold' = sold - amount
    /\ income' = [income EXCEPT ![d] = Greatest0(@ - amount)]
    /\ channel' = [channel EXCEPT ![d]["app"] = Greatest0(@ - amount)]
    /\ account' = Account(Greatest0(account.total - amount),
                           Greatest0(account.balance - amount), account.frozen)
    /\ UNCHANGED <<booked, contracts, settlements, invoices, withdrawals, runs>>

(* The rows themselves are never negative. *)
BookChannel(d, source, delta) ==
    /\ channel[d][source] + delta >= 0 /\ Count(delta)
    /\ channel' = [channel EXCEPT ![d][source] = @ + delta]
    /\ income' = [income EXCEPT ![d] = @ + delta]
    /\ account' = Book(delta)
    /\ UNCHANGED sold

recalcOpenSettlementsForDateRange(k) ==
    settlements' = [s \in Settlements |->
        IF settlements[s].cycle = k /\ settlements[s].status = "open"
        THEN [settlements[s] EXCEPT !.net = CycleIncome(k)'] ELSE settlements[s]]

(* The import of a report recalculates the open settlements it touches ... *)
adminImportDailyIncome(d, delta) ==
    /\ BookChannel(d, "imported", delta)
    /\ recalcOpenSettlementsForDateRange(CycleOf[d])
    /\ UNCHANGED <<contracts, invoices, withdrawals, runs>>

(* ... the correction or the deletion of a row does not. *)
adminUpdateChannelIncome(d, source, delta) ==
    /\ BookChannel(d, source, delta)
    /\ UNCHANGED <<contracts, settlements, invoices, withdrawals, runs>>

-----------------------------------------------------------------------------
(* Settlements *)

(* A drama submitted for review brings a contract of its own. *)
NewContract ==
    /\ contracts < MaxContracts
    /\ contracts' = contracts + 1
    /\ UNCHANGED <<earnings, account, settlements, invoices, withdrawals, runs>>

(* adminGenerateSettlements: the aggregates and the newest contract, which *)
(* the run creates if there is none ...                                    *)
ReadAggregates(r, k) ==
    /\ runs[r].stage = "idle"
    /\ contracts' = IF contracts = 0 THEN 1 ELSE contracts
    /\ runs' = [runs EXCEPT ![r] = [stage |-> "read", cycle |-> k,
                                    contract |-> contracts', net |-> CycleIncome(k)]]
    /\ UNCHANGED <<earnings, account, settlements, invoices, withdrawals>>

Exists(r) ==
    \E s \in Settlements : /\ settlements[s].status # "none"
                           /\ settlements[s].cycle = runs[r].cycle
                           /\ settlements[s].contract = runs[r].contract

(* ... then, in a transaction without a lock, a count ... *)
CountExisting(r) ==
    /\ runs[r].stage = "read"
    /\ runs' = [runs EXCEPT ![r] = IF Exists(r) THEN NoRun ELSE [@ EXCEPT !.stage = "counted"]]
    /\ UNCHANGED <<earnings, account, contracts, settlements, invoices, withdrawals>>

(* ... and the insert. *)
runSettlementForCycle(r, s) ==
    /\ runs[r].stage = "counted" /\ settlements[s].status = "none"
    /\ settlements' = [settlements EXCEPT ![s] =
         [status |-> "open", cycle |-> runs[r].cycle,
          contract |-> runs[r].contract, net |-> runs[r].net]]
    /\ runs' = [runs EXCEPT ![r] = NoRun]
    /\ UNCHANGED <<earnings, account, contracts, invoices, withdrawals>>

(* Withdrawals under way for a settlement, found through their invoices.   *)
ActiveByInvoice(s) ==
    {w \in Withdrawals : /\ withdrawals[w].status \in {"pending", "approved"}
                         /\ withdrawals[w].invoice # None
                         /\ invoices[withdrawals[w].invoice].status # "deleted"
                         /\ invoices[withdrawals[w].invoice].settlement = s}

adminCloseSettlement(s, status) ==
    /\ settlements[s].status \in {"open", "invoiced"}
    /\ status = "void" /\ settlements[s].status = "invoiced" => ActiveByInvoice(s) = {}
    /\ settlements' = [settlements EXCEPT ![s].status = status]
    /\ UNCHANGED <<earnings, account, contracts, invoices, withdrawals, runs>>

-----------------------------------------------------------------------------
(* Invoices *)

creatorCreateInvoice(i, s) ==
    /\ invoices[i].status = "none"
    /\ settlements[s].status \in {"open", "invoiced"}
    /\ invoices' = [invoices EXCEPT ![i] =
         [status |-> "pending", settlement |-> s, push |-> settlements[s].status = "open"]]
    /\ UNCHANGED <<earnings, account, contracts, settlements, withdrawals, runs>>

(* The upload writes the status it decided on, or stops before it does.    *)
PushInvoiced(i) ==
    /\ invoices[i].push
    /\ invoices' = [invoices EXCEPT ![i].push = FALSE]
    /\ \/ settlements' = [settlements EXCEPT ![invoices[i].settlement].status = "invoiced"]
       \/ UNCHANGED settlements
    /\ UNCHANGED <<earnings, account, contracts, withdrawals, runs>>

(* The row is read pending and deleted by key later, so a review may come  *)
(* between the two: every invoice was pending once.                        *)
creatorCancelInvoice(i) ==
    /\ invoices[i].status \in {"pending", "approved", "rejected"} /\ ~invoices[i].push
    /\ invoices' = [invoices EXCEPT ![i].status = "deleted"]
    /\ UNCHANGED <<earnings, account, contracts, settlements, withdrawals, runs>>

-----------------------------------------------------------------------------
(* Withdrawals *)

Open == {"pending", "approved"}
Paid == {"paid"}

AmountOf(statuses) ==
    SumFunction([w \in Withdrawals |->
        IF withdrawals[w].status \in statuses THEN withdrawals[w].amount ELSE 0])

(* Mutant: the withdrawals already paid are not counted. *)
WithdrawableLessOpen ==
    LET avail == Greatest0(Income - AmountOf(Open))
    IN  IF avail > account.balance THEN account.balance ELSE avail

dramaWithdrawableCents ==
    LET avail == Greatest0(Income - AmountOf(Open \cup Paid))
    IN  IF avail > account.balance THEN account.balance ELSE avail

(* The invoice is a new row; an individual may do without. *)
InvoiceChoice == {i \in Invoices : invoices[i].status = "none"}
            \cup (IF InvoiceRequired THEN {} ELSE {None})

FreezeBalance(amount) ==
    Account(account.total, account.balance - amount, account.frozen + amount)

creatorCreateWithdrawal(w, s) ==
    LET amount == settlements[s].net
    IN  /\ withdrawals[w].status = "none"
        /\ settlements[s].status \in {"open", "invoiced"} /\ ActiveByInvoice(s) = {}
        /\ amount >= MinWithdrawal
        /\ amount <= account.balance /\ amount <= dramaWithdrawableCents
        /\ \E i \in InvoiceChoice :
             /\ withdrawals' = [withdrawals EXCEPT ![w] =
                  [status |-> "pending", settlement |-> s, invoice |-> i,
                   amount |-> amount, tail |-> "no"]]
             /\ invoices' = [x \in Invoices |->
                  IF x = i THEN [status |-> "pending", settlement |-> s, push |-> FALSE]
                  ELSE invoices[x]]
        /\ settlements' = [settlements EXCEPT ![s].status = "invoiced"]
        /\ account' = FreezeBalance(amount)
        /\ UNCHANGED <<earnings, contracts, runs>>

(* Mutant: an approved withdrawal leaves its invoice for a second review. *)
InvoiceFollowsRejection(w, status) ==
    invoices' = [i \in Invoices |->
        IF i = withdrawals[w].invoice /\ invoices[i].status = "pending" /\ status = "rejected"
        THEN [invoices[i] EXCEPT !.status = status] ELSE invoices[i]]

(* The invoice of a withdrawal follows its review while it is pending.     *)
InvoiceFollows(w, status) ==
    invoices' = [i \in Invoices |->
        IF i = withdrawals[w].invoice /\ invoices[i].status = "pending"
        THEN [invoices[i] EXCEPT !.status = status] ELSE invoices[i]]

Decide(w, status, tail) ==
    withdrawals' = [withdrawals EXCEPT ![w].status = status, ![w].tail = tail]

(* Mutant: the amount paid stays frozen. *)
KeepFrozen(amount) == account

ReleaseFrozen(amount) ==
    Account(account.total, account.balance, account.frozen - amount)

markWithdrawalPaidTx(w, tail) ==
    /\ account.frozen >= withdrawals[w].amount
    /\ account' = ReleaseFrozen(withdrawals[w].amount)
    /\ Decide(w, "paid", tail)
    /\ InvoiceFollows(w, "approved")
    /\ UNCHANGED <<earnings, contracts, settlements, runs>>

(* With a transaction number the approval is the payment. *)
adminApproveWithdrawal(w) ==
    /\ withdrawals[w].status = "pending"
    /\ \/ markWithdrawalPaidTx(w, "no")
       \/ /\ Decide(w, "approved", "no")
          /\ InvoiceFollows(w, "approved")
          /\ UNCHANGED <<earnings, account, contracts, settlements, runs>>

ReturnFrozen(amount) ==
    Account(account.total, account.balance + amount, account.frozen - amount)

adminRejectWithdrawal(w) ==
    /\ withdrawals[w].status = "pending"
    /\ account.frozen >= withdrawals[w].amount
    /\ account' = ReturnFrozen(withdrawals[w].amount)
    /\ Decide(w, "rejected", "no")
    /\ InvoiceFollows(w, "rejected")
    /\ UNCHANGED <<earnings, contracts, settlements, runs>>

(* The combined review needs the invoice to be there still.                *)
adminReviewWithdrawal(w) ==
    LET i == withdrawals[w].invoice
    IN  /\ i # None => invoices[i].status # "deleted"
        /\ \/ adminRejectWithdrawal(w)
           \/ /\ i # None => invoices[i].status # "rejected"
              /\ adminApproveWithdrawal(w)

(* Mutant: a withdrawal that is paid already is paid again. *)
MarkPaidAgain(w) ==
    /\ withdrawals[w].status \in {"pending", "approved", "paid"}
    /\ markWithdrawalPaidTx(w, "read")

adminMarkWithdrawalPaid(w) ==
    /\ withdrawals[w].status \in {"pending", "approved"}
    /\ markWithdrawalPaidTx(w, "read")

(* After its commit the settlement is read, and completed if it is still   *)
(* unpaid; the process may stop before either.                             *)
ReadSettlement(w) ==
    /\ withdrawals[w].tail = "read"
    /\ Decide(w, "paid", IF settlements[withdrawals[w].settlement].status \in {"paid", "void"}
                         THEN "no" ELSE "write")
    /\ UNCHANGED <<earnings, account, contracts, settlements, invoices, runs>>

CompleteSettlement(w) ==
    /\ withdrawals[w].tail = "write"
    /\ settlements' = [settlements EXCEPT ![withdrawals[w].settlement].status = "paid"]
    /\ Decide(w, "paid", "no")
    /\ UNCHANGED <<earnings, account, contracts, invoices, runs>>

(* A restart loses every request between two of its steps. *)
Crash ==
    /\ runs' = [r \in Runs |-> NoRun]
    /\ invoices' = [i \in Invoices |-> [invoices[i] EXCEPT !.push = FALSE]]
    /\ withdrawals' = [w \in Withdrawals |-> [withdrawals[w] EXCEPT !.tail = "no"]]
    /\ <<runs, invoices, withdrawals>> # <<runs', invoices', withdrawals'>>
    /\ UNCHANGED <<earnings, account, contracts, settlements>>

IncomeStep(d) ==
    \/ \E a \in Amounts : Earn(d, a) \/ RefundSale(d, a)
    \/ \E x \in Changes :
         \/ adminImportDailyIncome(d, x)
         \/ \E source \in Sources : adminUpdateChannelIncome(d, source, x)

RunStep(r) ==
    \/ \E k \in Cycles : ReadAggregates(r, k)
    \/ CountExisting(r)
    \/ \E s \in Settlements : runSettlementForCycle(r, s)

SettlementStep(s) ==
    \/ \E status \in {"paid", "void"} : adminCloseSettlement(s, status)
    \/ \E i \in Invoices : creatorCreateInvoice(i, s)
    \/ \E w \in Withdrawals : creatorCreateWithdrawal(w, s)

WithdrawalStep(w) ==
    \/ adminApproveWithdrawal(w) \/ adminRejectWithdrawal(w) \/ adminReviewWithdrawal(w)
    \/ adminMarkWithdrawalPaid(w) \/ ReadSettlement(w) \/ CompleteSettlement(w)

Next ==
    \/ \E d \in Days : IncomeStep(d)
    \/ NewContract
    \/ \E r \in Runs : RunStep(r)
    \/ \E s \in Settlements : SettlementStep(s)
    \/ \E i \in Invoices : PushInvoiced(i) \/ creatorCancelInvoice(i)
    \/ \E w \in Withdrawals : WithdrawalStep(w)
    \/ Crash

Spec == Init /\ [][Next]_vars

-----------------------------------------------------------------------------
(* The frozen balance is exactly what the withdrawals under way ask for    *)
(* (what internal/reconcile compares): the five handlers that create,      *)
(* approve, reject and pay withdrawals never leave money frozen behind nor *)
(* release more than they froze.                                           *)
FrozenIsOpen == account.frozen = AmountOf(Open)

(* No income is lost on its way: what is in the account or was paid out    *)
(* covers the creator's total income, whatever is refunded, corrected,     *)
(* rejected or frozen in between.                                          *)
IncomeNotLost == account.balance + account.frozen + AmountOf(Paid) >= account.total

(* The creator's account, whose columns a dozen handlers move by           *)
(* differences, says what the income and withdrawal rows say               *)
(* (admin_finance.go, creator_withdraw.go).                                *)
MoneyAccounted == FrozenIsOpen /\ IncomeNotLost

Withdrawn == AmountOf(Open \cup Paid)

(* What was withdrawn comes out of income: the withdrawals under way and   *)
(* paid exceed the income rows only if they did before the step, or if the *)
(* step takes income back (corrections and refunds).                       *)
WithdrawnWithinIncome ==
    [][Withdrawn' > Income' => Withdrawn > Income \/ Income' < Income]_vars

(* Invoice and withdrawal are reviewed as one: however the approving,      *)
(* reviewing, rejecting and paying handlers take turns with the creator's  *)
(* own deletions, an invoice that is still there has the outcome of its    *)
(* withdrawal.                                                             *)
OutcomeOf(status) == CASE status = "pending"  -> "pending"
                       [] status = "rejected" -> "rejected"
                       [] OTHER               -> "approved"

InvoiceAgrees ==
    \A w \in Withdrawals : withdrawals[w].invoice # None =>
        invoices[withdrawals[w].invoice].status
            \in {OutcomeOf(withdrawals[w].status), "deleted"}

-----------------------------------------------------------------------------
(* Payouts implements the creator's purse. *)

PhaseOf(status) ==
    CASE status = "none"     -> "none"
      [] status = "paid"     -> "spent"
      [] status = "rejected" -> "returned"
      [] OTHER               -> "reserved"

Purse == INSTANCE Purse WITH
             Claims   <- Withdrawals,
             free     <- account.balance,
             reserved <- account.frozen,
             phase    <- [w \in Withdrawals |-> PhaseOf(withdrawals[w].status)],
             amount   <- [w \in Withdrawals |-> withdrawals[w].amount]

(* No withdrawal is paid or refused twice, paid after it was refused, or   *)
(* for another amount than was frozen for it: every step of the income,    *)
(* settlement, invoice and review handlers is a step of the purse, or      *)
(* leaves it alone.                                                        *)
ImplementsPurse == Purse!PurseSpec

=============================================================================
