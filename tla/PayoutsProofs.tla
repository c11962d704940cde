---------------------------- MODULE PayoutsProofs ----------------------------
(***************************************************************************)
(* Invoices and withdrawals are decided together, and the creator's        *)
(* account adds up, for every number of days, settlements, invoices,       *)
(* withdrawals and runs.                                                   *)
(*                                                                         *)
(* First what relates the rows of the two tables (Inv), which needs no     *)
(* amounts; then the types; then the sums: each step moves the amount of   *)
(* one withdrawal from one status to another, and the account's columns    *)
(* by the same.                                                            *)
(***************************************************************************)
EXTENDS Payouts, Sums

Columns == {"status", "settlement", "invoice", "amount", "tail"}

Rows ==
    /\ invoices \in [Invoices -> Invoice]
    /\ DOMAIN withdrawals = Withdrawals
    /\ \A w \in Withdrawals :
         /\ DOMAIN withdrawals[w] = Columns
         /\ withdrawals[w].status \in {"none", "pending", "approved", "rejected", "paid"}
         /\ withdrawals[w].invoice \in Invoices \cup {None}

(* An invoice belongs to one withdrawal, one that exists. *)
Owned ==
    /\ \A w \in Withdrawals : withdrawals[w].status = "none" => withdrawals[w].invoice = None
    /\ \A v, w \in Withdrawals :
         v # w /\ withdrawals[v].invoice # None => withdrawals[v].invoice # withdrawals[w].invoice

(* Only a payment leaves something to be done after its commit. *)
TailPaid == \A w \in Withdrawals : withdrawals[w].tail # "no" => withdrawals[w].status = "paid"

Inv == Rows /\ Owned /\ TailPaid /\ InvoiceAgrees

LEMMA InitInv == Init => Inv
  BY PayoutsAssumption
  DEF Init, Inv, Rows, Columns, Owned, TailPaid, InvoiceAgrees, OutcomeOf, NoInvoice,
      NoWithdrawal, Invoice

(* Withdrawals stay as they are and invoices only appear or disappear.     *)
LEMMA InvoicesComeAndGo ==
  ASSUME Inv, UNCHANGED withdrawals, invoices' \in [Invoices -> Invoice],
         \A i \in Invoices : \/ invoices'[i].status = invoices[i].status
                             \/ invoices[i].status = "none"
                             \/ invoices'[i].status = "deleted"
  PROVE  Inv'
<1>1. Rows' /\ Owned' /\ TailPaid'
  BY DEF Inv, Rows, Owned, TailPaid
<1>2. ASSUME NEW w \in Withdrawals, withdrawals[w].invoice # None
      PROVE  invoices'[withdrawals[w].invoice].status
                 \in {OutcomeOf(withdrawals[w].status), "deleted"}
  <2>1. invoices[withdrawals[w].invoice].status \in {OutcomeOf(withdrawals[w].status), "deleted"}
    BY <1>2 DEF Inv, InvoiceAgrees
  <2>2. OutcomeOf(withdrawals[w].status) # "none"
    BY DEF OutcomeOf, Inv, Rows
  <2>3. withdrawals[w].invoice \in Invoices
    BY <1>2 DEF Inv, Rows
  <2>. QED BY <2>1, <2>2, <2>3
<1>3. InvoiceAgrees'
  BY <1>2 DEF InvoiceAgrees
<1>. QED BY <1>1, <1>3 DEF Inv

(* What Decide writes, row by row. *)
LEMMA DecideRows ==
  ASSUME Rows, NEW w \in Withdrawals, NEW status, NEW tail, Decide(w, status, tail)
  PROVE  /\ DOMAIN withdrawals' = Withdrawals
         /\ \A x \in Withdrawals : DOMAIN withdrawals'[x] = Columns
         /\ withdrawals'[w].status = status /\ withdrawals'[w].tail = tail
         /\ withdrawals'[w].invoice = withdrawals[w].invoice
         /\ \A x \in Withdrawals \ {w} : withdrawals'[x] = withdrawals[x]
<1> DEFINE row == [withdrawals[w] EXCEPT !.status = status, !.tail = tail]
<1>1. withdrawals' = [withdrawals EXCEPT ![w] = row]
  BY DEF Decide, Rows
<1>2. /\ DOMAIN row = Columns
      /\ row.status = status /\ row.tail = tail /\ row.invoice = withdrawals[w].invoice
  BY DEF Rows, Columns
<1>. HIDE DEF row
<1>. QED BY <1>1, <1>2 DEF Rows

(* A decision that leaves the withdrawal's own invoice with its outcome,   *)
(* and every other invoice alone.                                          *)
LEMMA DecisionKeeps ==
  ASSUME Inv, NEW w \in Withdrawals, NEW status \in {"approved", "rejected", "paid"},
         NEW tail, Decide(w, status, tail), tail # "no" => status = "paid",
         withdrawals[w].status # "none",
         invoices' \in [Invoices -> Invoice],
         \A i \in Invoices :
            IF i = withdrawals[w].invoice
            THEN invoices'[i].status \in {OutcomeOf(status), "deleted"}
            ELSE invoices'[i] = invoices[i]
  PROVE  Inv'
<1>1. /\ DOMAIN withdrawals' = Withdrawals
      /\ \A x \in Withdrawals : DOMAIN withdrawals'[x] = Columns
      /\ withdrawals'[w].status = status /\ withdrawals'[w].tail = tail
      /\ withdrawals'[w].invoice = withdrawals[w].invoice
      /\ \A x \in Withdrawals \ {w} : withdrawals'[x] = withdrawals[x]
  BY DecideRows DEF Inv
<1>2. Rows'
  BY <1>1 DEF Inv, Rows
<1>3. Owned'
  BY <1>1 DEF Inv, Owned
<1>4. TailPaid'
  BY <1>1 DEF Inv, TailPaid
<1>5. ASSUME NEW x \in Withdrawals, withdrawals'[x].invoice # None
      PROVE  invoices'[withdrawals'[x].invoice].status
                 \in {OutcomeOf(withdrawals'[x].status), "deleted"}
  <2>1. CASE x = w
    BY <1>1, <1>5, <2>1 DEF Inv, Rows
  <2>2. CASE x # w
    <3>1. withdrawals'[x] = withdrawals[x]
      BY <1>1, <2>2
    <3>2. /\ withdrawals[x].invoice \in Invoices
          /\ withdrawals[x].invoice # withdrawals[w].invoice
      BY <1>5, <2>2, <3>1 DEF Inv, Rows, Owned
    <3>3. invoices[withdrawals[x].invoice].status \in {OutcomeOf(withdrawals[x].status), "deleted"}
      BY <1>5, <3>1 DEF Inv, InvoiceAgrees
    <3>. QED BY <3>1, <3>2, <3>3
  <2>. QED BY <2>1, <2>2
<1>6. InvoiceAgrees'
  BY <1>5 DEF InvoiceAgrees
<1>. QED BY <1>2, <1>3, <1>4, <1>6 DEF Inv

(* The reviewing and paying handlers: the invoice follows while pending.   *)
LEMMA ReviewKeeps ==
  ASSUME Inv, NEW w \in Withdrawals, NEW status \in {"approved", "rejected", "paid"},
         NEW tail, Decide(w, status, tail), tail # "no" => status = "paid",
         InvoiceFollows(w, OutcomeOf(status)),
         \/ withdrawals[w].status = "pending"
         \/ withdrawals[w].status = "approved" /\ status = "paid"
  PROVE  Inv'
<1>1. OutcomeOf(status) \in {"approved", "rejected"}
  BY DEF OutcomeOf
<1>2. /\ invoices' \in [Invoices -> Invoice]
      /\ \A i \in Invoices :
            IF i = withdrawals[w].invoice /\ invoices[i].status = "pending"
            THEN invoices'[i].status = OutcomeOf(status) ELSE invoices'[i] = invoices[i]
  BY <1>1 DEF Inv, Rows, InvoiceFollows, Invoice
<1>3. ASSUME withdrawals[w].invoice # None
      PROVE  invoices[withdrawals[w].invoice].status
                 \in {OutcomeOf(withdrawals[w].status), "deleted"}
  BY <1>3 DEF Inv, InvoiceAgrees
<1>4. withdrawals[w].status = "pending" => OutcomeOf(withdrawals[w].status) = "pending"
  BY DEF OutcomeOf
<1>5. withdrawals[w].status = "approved" /\ status = "paid"
        => OutcomeOf(withdrawals[w].status) = OutcomeOf(status)
  BY DEF OutcomeOf
<1>6. \A i \in Invoices :
         IF i = withdrawals[w].invoice
         THEN invoices'[i].status \in {OutcomeOf(status), "deleted"}
         ELSE invoices'[i] = invoices[i]
  BY PayoutsAssumption, <1>2, <1>3, <1>4, <1>5
<1>. QED BY <1>2, <1>6, DecisionKeeps

(* What follows the commit of a payment: the withdrawal stays paid.        *)
LEMMA TailKeeps ==
  ASSUME Inv, NEW w \in Withdrawals, NEW tail, Decide(w, "paid", tail),
         withdrawals[w].tail # "no", UNCHANGED invoices
  PROVE  Inv'
<1>1. withdrawals[w].status = "paid"
  BY DEF Inv, TailPaid
<1>2. \A i \in Invoices :
         IF i = withdrawals[w].invoice
         THEN invoices'[i].status \in {OutcomeOf("paid"), "deleted"}
         ELSE invoices'[i] = invoices[i]
  BY PayoutsAssumption, <1>1 DEF Inv, InvoiceAgrees
<1>3. invoices' \in [Invoices -> Invoice]
  BY DEF Inv, Rows
<1>. QED BY <1>1, <1>2, <1>3, DecisionKeeps

(* A new withdrawal takes an invoice that no other one has, or none.       *)
LEMMA CreateKeeps ==
  ASSUME Inv, NEW w \in Withdrawals, NEW s \in Settlements, creatorCreateWithdrawal(w, s)
  PROVE  Inv'
<1>1. PICK i \in InvoiceChoice :
        /\ withdrawals' = [withdrawals EXCEPT ![w] =
             [status |-> "pending", settlement |-> s, invoice |-> i,
              amount |-> settlements[s].net, tail |-> "no"]]
        /\ invoices' = [x \in Invoices |->
             IF x = i THEN [status |-> "pending", settlement |-> s, push |-> FALSE]
             ELSE invoices[x]]
  BY DEF creatorCreateWithdrawal
<1> DEFINE row == [status |-> "pending", settlement |-> s, invoice |-> i,
                   amount |-> settlements[s].net, tail |-> "no"]
<1>2. /\ DOMAIN row = Columns
      /\ row.status = "pending" /\ row.invoice = i /\ row.tail = "no"
  BY DEF Columns
<1>3. withdrawals' = [withdrawals EXCEPT ![w] = row]
  BY <1>1
<1>. HIDE DEF row
<1>4. /\ DOMAIN withdrawals' = Withdrawals
      /\ withdrawals'[w] = row
      /\ \A x \in Withdrawals \ {w} : withdrawals'[x] = withdrawals[x]
  BY <1>3 DEF Inv, Rows
<1>5. /\ invoices' \in [Invoices -> Invoice]
      /\ i \in Invoices => invoices'[i].status = "pending"
      /\ \A x \in Invoices : x # i => invoices'[x] = invoices[x]
  BY <1>1 DEF Inv, Rows, Invoice
<1>6. i \in Invoices \cup {None} /\ (i # None => invoices[i].status = "none")
  BY DEF InvoiceChoice
<1>7. \A x \in Withdrawals : withdrawals[x].invoice # None => withdrawals[x].invoice # i
  <2>1. SUFFICES ASSUME NEW x \in Withdrawals, withdrawals[x].invoice # None,
                        withdrawals[x].invoice = i
                 PROVE  FALSE
    OBVIOUS
  <2>2. invoices[i].status \in {OutcomeOf(withdrawals[x].status), "deleted"}
    BY <2>1 DEF Inv, InvoiceAgrees
  <2>3. OutcomeOf(withdrawals[x].status) # "none"
    BY DEF OutcomeOf
  <2>. QED BY <1>6, <2>1, <2>2, <2>3
<1>8. Rows'
  BY <1>2, <1>4, <1>5, <1>6 DEF Inv, Rows
<1>9. Owned'
  BY <1>2, <1>4, <1>6, <1>7 DEF Inv, Owned
<1>10. TailPaid'
  BY <1>2, <1>4 DEF Inv, TailPaid
<1>11. ASSUME NEW x \in Withdrawals, withdrawals'[x].invoice # None
       PROVE  invoices'[withdrawals'[x].invoice].status
                  \in {OutcomeOf(withdrawals'[x].status), "deleted"}
  <2>1. CASE x = w
    <3>1. OutcomeOf("pending") = "pending"
      BY DEF OutcomeOf
    <3>. QED BY <1>2, <1>4, <1>5, <1>6, <1>11, <2>1, <3>1
  <2>2. CASE x # w
    <3>1. withdrawals'[x] = withdrawals[x]
      BY <1>4, <2>2
    <3>2. withdrawals[x].invoice \in Invoices /\ withdrawals[x].invoice # i
      BY <1>7, <1>11, <3>1 DEF Inv, Rows
    <3>3. invoices[withdrawals[x].invoice].status \in {OutcomeOf(withdrawals[x].status), "deleted"}
      BY <1>11, <3>1 DEF Inv, InvoiceAgrees
    <3>. QED BY <1>5, <3>1, <3>2, <3>3
  <2>. QED BY <2>1, <2>2
<1>12. InvoiceAgrees'
  BY <1>11 DEF InvoiceAgrees
<1>. QED BY <1>8, <1>9, <1>10, <1>12 DEF Inv

LEMMA CrashKeeps ==
  ASSUME Inv, Crash
  PROVE  Inv'
<1>1. /\ invoices' \in [Invoices -> Invoice]
      /\ \A i \in Invoices : invoices'[i].status = invoices[i].status
  BY DEF Crash, Inv, Rows, Invoice
<1>2. /\ DOMAIN withdrawals' = Withdrawals
      /\ \A w \in Withdrawals :
           /\ DOMAIN withdrawals'[w] = Columns
           /\ withdrawals'[w].status = withdrawals[w].status
           /\ withdrawals'[w].invoice = withdrawals[w].invoice
           /\ withdrawals'[w].tail = "no"
  <2>1. withdrawals' = [w \in Withdrawals |-> [withdrawals[w] EXCEPT !.tail = "no"]]
    BY DEF Crash
  <2>. QED BY <2>1 DEF Inv, Rows, Columns
<1>3. Rows' /\ Owned' /\ TailPaid'
  BY <1>1, <1>2 DEF Inv, Rows, Owned, TailPaid
<1>4. ASSUME NEW w \in Withdrawals, withdrawals[w].invoice # None
      PROVE  invoices'[withdrawals[w].invoice].status
                 \in {OutcomeOf(withdrawals[w].status), "deleted"}
  <2>1. withdrawals[w].invoice \in Invoices
    BY <1>4 DEF Inv, Rows
  <2>. QED BY <1>1, <1>4, <2>1 DEF Inv, InvoiceAgrees
<1>5. InvoiceAgrees'
  BY <1>2, <1>4 DEF InvoiceAgrees
<1>. QED BY <1>3, <1>5 DEF Inv

-----------------------------------------------------------------------------
LEMMA WithdrawalStepKeeps ==
  ASSUME Inv, NEW w \in Withdrawals, WithdrawalStep(w)
  PROVE  Inv'
<1>1. CASE adminApproveWithdrawal(w)
  <2>1. PICK status \in {"paid", "approved"} :
          /\ withdrawals[w].status = "pending"
          /\ Decide(w, status, "no") /\ InvoiceFollows(w, "approved")
    BY <1>1 DEF adminApproveWithdrawal, markWithdrawalPaidTx
  <2>2. OutcomeOf(status) = "approved"
    BY DEF OutcomeOf
  <2>. QED BY <2>1, <2>2, ReviewKeeps
<1>2. CASE adminRejectWithdrawal(w)
  <2>1. OutcomeOf("rejected") = "rejected"
    BY DEF OutcomeOf
  <2>. QED BY <1>2, <2>1, ReviewKeeps DEF adminRejectWithdrawal
<1>3. CASE adminReviewWithdrawal(w)
  BY <1>1, <1>2, <1>3 DEF adminReviewWithdrawal
<1>4. CASE adminMarkWithdrawalPaid(w)
  <2>1. OutcomeOf("paid") = "approved"
    BY DEF OutcomeOf
  <2>. QED BY <1>4, <2>1, ReviewKeeps DEF adminMarkWithdrawalPaid, markWithdrawalPaidTx
<1>5. CASE ReadSettlement(w)
  BY <1>5, TailKeeps DEF ReadSettlement
<1>6. CASE CompleteSettlement(w)
  BY <1>6, TailKeeps DEF CompleteSettlement
<1>. QED BY <1>1, <1>2, <1>3, <1>4, <1>5, <1>6 DEF WithdrawalStep

(* Steps that leave withdrawals and invoices alone. *)
LEMMA OthersKeep ==
  ASSUME Inv, UNCHANGED <<withdrawals, invoices>>
  PROVE  Inv'
BY DEF Inv, Rows, Owned, TailPaid, InvoiceAgrees

LEMMA NextInv == Inv /\ [Next]_vars => Inv'
<1>. SUFFICES ASSUME Inv, [Next]_vars PROVE Inv'
  OBVIOUS
<1>1. ASSUME NEW d \in Days, IncomeStep(d) PROVE Inv'
  BY <1>1, OthersKeep DEF IncomeStep, Earn, RefundSale, adminImportDailyIncome,
     adminUpdateChannelIncome
<1>2. CASE NewContract
  BY <1>2, OthersKeep DEF NewContract
<1>3. ASSUME NEW r \in Runs, RunStep(r) PROVE Inv'
  BY <1>3, OthersKeep DEF RunStep, ReadAggregates, CountExisting, runSettlementForCycle
<1>4. ASSUME NEW s \in Settlements, SettlementStep(s) PROVE Inv'
  <2>1. ASSUME NEW status \in {"paid", "void"}, adminCloseSettlement(s, status) PROVE Inv'
    BY <2>1, OthersKeep DEF adminCloseSettlement
  <2>2. ASSUME NEW i \in Invoices, creatorCreateInvoice(i, s) PROVE Inv'
    <3>1. /\ invoices' \in [Invoices -> Invoice]
          /\ \A x \in Invoices : invoices'[x].status = invoices[x].status
                                \/ invoices[x].status = "none"
      BY <2>2 DEF creatorCreateInvoice, Inv, Rows, Invoice
    <3>. QED BY <2>2, <3>1, InvoicesComeAndGo DEF creatorCreateInvoice
  <2>3. ASSUME NEW w \in Withdrawals, creatorCreateWithdrawal(w, s) PROVE Inv'
    BY <2>3, CreateKeeps
  <2>. QED BY <1>4, <2>1, <2>2, <2>3 DEF SettlementStep
<1>5. ASSUME NEW i \in Invoices, PushInvoiced(i) \/ creatorCancelInvoice(i) PROVE Inv'
  <2>1. CASE PushInvoiced(i)
    <3>1. /\ invoices' \in [Invoices -> Invoice]
          /\ \A x \in Invoices : invoices'[x].status = invoices[x].status
      BY <2>1 DEF PushInvoiced, Inv, Rows, Invoice
    <3>. QED BY <2>1, <3>1, InvoicesComeAndGo DEF PushInvoiced
  <2>2. CASE creatorCancelInvoice(i)
    <3>1. /\ invoices' \in [Invoices -> Invoice]
          /\ \A x \in Invoices : invoices'[x].status = invoices[x].status
                                \/ invoices'[x].status = "deleted"
      BY <2>2 DEF creatorCancelInvoice, Inv, Rows, Invoice
    <3>. QED BY <2>2, <3>1, InvoicesComeAndGo DEF creatorCancelInvoice
  <2>. QED BY <1>5, <2>1, <2>2
<1>6. ASSUME NEW w \in Withdrawals, WithdrawalStep(w) PROVE Inv'
  BY <1>6, WithdrawalStepKeeps
<1>7. CASE Crash
  BY <1>7, CrashKeeps
<1>8. CASE UNCHANGED vars
  BY <1>8, OthersKeep DEF vars
<1>. QED BY <1>1, <1>2, <1>3, <1>4, <1>5, <1>6, <1>7, <1>8 DEF Next

(* An invoice that is still there has the outcome of its withdrawal,       *)
(* whichever of the reviewing, rejecting and paying handlers decided it,   *)
(* and whatever the creator deletes or the process loses in between.       *)
THEOREM InvoicesFollow == Spec => []InvoiceAgrees
<1>1. Inv => InvoiceAgrees
  BY DEF Inv
<1>. QED BY InitInv, NextInv, <1>1, PTL DEF Spec

-----------------------------------------------------------------------------
(* Types. *)

LEMMA CycleIncomeIsInt == TypeOK => \A k \in Cycles : CycleIncome(k) \in Int
<1> SUFFICES ASSUME TypeOK, NEW k \in Cycles PROVE CycleIncome(k) \in Int
  OBVIOUS
<1>1. IsFiniteSet({d \in Days : CycleOf[d] = k})
  BY PayoutsAssumption, FS_Subset
<1>2. \A d \in {e \in Days : CycleOf[e] = k} : income[d] \in Int
  BY DEF earnings, TypeOK
<1>. QED BY <1>1, <1>2, SumIsInt DEF CycleIncome

LEMMA TypeInit == Init => TypeOK
BY PayoutsAssumption
DEF Init, Account, TypeOK, Settlement, SettlementStatuses, Invoice, Withdrawal, Run, NoSettlement, NoRun,
    NoInvoice, NoWithdrawal, Sources

LEMMA AccountType ==
    ASSUME TypeOK
    PROVE  /\ account.total \in Int /\ account.balance \in Int /\ account.frozen \in Nat
           /\ \A t, b \in Int, f \in Nat : Account(t, b, f) \in [total: Int, balance: Int, frozen: Nat]
           /\ \A x \in Int : Book(x) \in [total: Int, balance: Int, frozen: Nat]
           /\ \A x \in Nat : FreezeBalance(x) \in [total: Int, balance: Int, frozen: Nat]
           /\ \A x \in Nat : account.frozen >= x =>
                 /\ ReleaseFrozen(x) \in [total: Int, balance: Int, frozen: Nat]
                 /\ ReturnFrozen(x) \in [total: Int, balance: Int, frozen: Nat]
<1>1. account.total \in Int /\ account.balance \in Int /\ account.frozen \in Nat
  BY DEF TypeOK
<1>2. \A t, b \in Int, f \in Nat : Account(t, b, f) \in [total: Int, balance: Int, frozen: Nat]
  BY DEF Account
<1>3. \A x \in Int : Book(x) \in [total: Int, balance: Int, frozen: Nat]
  BY <1>1 DEF Book, Account
<1>4. \A x \in Nat : FreezeBalance(x) \in [total: Int, balance: Int, frozen: Nat]
  BY <1>1 DEF FreezeBalance, Account
<1>5. ASSUME NEW x \in Nat, account.frozen >= x
      PROVE  /\ ReleaseFrozen(x) \in [total: Int, balance: Int, frozen: Nat]
             /\ ReturnFrozen(x) \in [total: Int, balance: Int, frozen: Nat]
  <2>1. account.frozen - x \in Nat /\ account.balance + x \in Int
    BY <1>1, <1>5
  <2>. QED BY <1>1, <2>1 DEF ReleaseFrozen, ReturnFrozen, Account
<1>. QED BY <1>1, <1>2, <1>3, <1>4, <1>5

(* A row of the channel's table takes a value for one source. *)
LEMMA ChannelRows ==
    ASSUME TypeOK, NEW d \in Days, NEW source \in Sources, NEW n \in Nat
    PROVE  [channel EXCEPT ![d][source] = n] \in [Days -> [Sources -> Nat]]
BY DEF TypeOK

LEMMA TypeIncome ==
    ASSUME TypeOK, NEW d \in Days, IncomeStep(d)
    PROVE  TypeOK'
<1>1. \A x \in Int : Greatest0(x) \in Nat /\ (x >= 0 => Greatest0(x) = x)
  BY DEF Greatest0
<1>2. ASSUME NEW a \in Amounts, Earn(d, a) PROVE TypeOK'
  <2>1. a \in Nat /\ a \in Int
    BY PayoutsAssumption
  <2>2. account' \in [total: Int, balance: Int, frozen: Nat]
    BY <1>2, <2>1, AccountType DEF Earn
  <2>3. channel' \in [Days -> [Sources -> Nat]]
    <3>1. channel[d]["app"] + a \in Nat
      BY <2>1 DEF TypeOK, Sources
    <3>2. channel' = [channel EXCEPT ![d]["app"] = channel[d]["app"] + a]
      BY <1>2 DEF Earn, TypeOK, Sources
    <3>. QED BY <3>1, <3>2, ChannelRows DEF Sources
  <2>4. income' \in [Days -> Int] /\ sold' \in Nat /\ booked' \in Nat
    BY <1>1, <1>2, <2>1 DEF Earn, Count, TypeOK
  <2>. QED BY <1>2, <2>2, <2>3, <2>4 DEF Earn, TypeOK
<1>3. ASSUME NEW a \in Amounts, RefundSale(d, a) PROVE TypeOK'
  <2>1. /\ sold' \in Nat /\ booked' \in Nat
        /\ income' \in [Days -> Int]
    BY <1>1, <1>3, PayoutsAssumption DEF RefundSale, TypeOK
  <2>2. channel' \in [Days -> [Sources -> Nat]]
    BY <1>1, <1>3, PayoutsAssumption DEF RefundSale, TypeOK, Sources
  <2>3. account' \in [total: Int, balance: Int, frozen: Nat]
    <3>1. a \in Int
      BY PayoutsAssumption
    <3>. QED BY <1>1, <1>3, <3>1, AccountType DEF RefundSale
  <2>. QED BY <1>3, <2>1, <2>2, <2>3 DEF earnings, RefundSale, TypeOK
<1>4. ASSUME NEW x \in Changes, NEW source \in Sources, BookChannel(d, source, x)
      PROVE  /\ income' \in [Days -> Int] /\ channel' \in [Days -> [Sources -> Nat]]
             /\ sold' \in Nat /\ booked' \in Nat
             /\ account' \in [total: Int, balance: Int, frozen: Nat]
  <2>1. x \in Int
    BY PayoutsAssumption
  <2>2. account' \in [total: Int, balance: Int, frozen: Nat]
    BY <1>4, <2>1, AccountType DEF BookChannel
  <2>3. channel' \in [Days -> [Sources -> Nat]]
    <3>1. channel[d][source] + x \in Nat
      BY <1>4, <2>1 DEF BookChannel, TypeOK
    <3>2. channel' = [channel EXCEPT ![d][source] = channel[d][source] + x]
      BY <1>4 DEF BookChannel, TypeOK
    <3>. QED BY <3>1, <3>2, ChannelRows
  <2>4. income' \in [Days -> Int] /\ sold' \in Nat /\ booked' \in Nat
    BY <1>1, <1>4, <2>1 DEF BookChannel, Count, TypeOK
  <2>. QED BY <2>2, <2>3, <2>4
<1>5. ASSUME NEW x \in Changes, adminImportDailyIncome(d, x) PROVE TypeOK'
  <2>1. /\ income' \in [Days -> Int] /\ channel' \in [Days -> [Sources -> Nat]]
        /\ sold' \in Nat /\ booked' \in Nat
        /\ account' \in [total: Int, balance: Int, frozen: Nat]
    BY <1>4, <1>5 DEF adminImportDailyIncome, Sources
  <2>2. CycleIncome(CycleOf[d])' \in Int
    <3>1. IsFiniteSet({e \in Days : CycleOf[e] = CycleOf[d]})
      BY PayoutsAssumption, FS_Subset
    <3>2. \A e \in {f \in Days : CycleOf[f] = CycleOf[d]} : income'[e] \in Int
      BY <2>1
    <3>. QED BY <3>1, <3>2, SumIsInt DEF CycleIncome
  <2>3. settlements' \in [Settlements -> Settlement]
    BY <1>5, <2>2 DEF earnings, adminImportDailyIncome, recalcOpenSettlementsForDateRange, TypeOK,
       Settlement
  <2>. QED BY <1>5, <2>1, <2>3 DEF earnings, adminImportDailyIncome, TypeOK
<1>6. ASSUME NEW x \in Changes, NEW source \in Sources, adminUpdateChannelIncome(d, source, x)
      PROVE  TypeOK'
  BY <1>4, <1>6 DEF earnings, adminUpdateChannelIncome, TypeOK
<1>. QED BY <1>2, <1>3, <1>5, <1>6 DEF IncomeStep

LEMMA TypeRun ==
    ASSUME TypeOK, NEW r \in Runs, RunStep(r)
    PROVE  TypeOK'
<1>1. ASSUME NEW k \in Cycles, ReadAggregates(r, k) PROVE TypeOK'
  BY <1>1, CycleIncomeIsInt DEF earnings, ReadAggregates, TypeOK, Run
<1>2. CASE CountExisting(r)
  <2>1. runs' \in [Runs -> Run]
    <3>1. runs[r] \in Run /\ [runs[r] EXCEPT !.stage = "counted"] \in Run /\ NoRun \in Run
      BY DEF TypeOK, Run, NoRun
    <3>. QED BY <1>2, <3>1 DEF CountExisting, TypeOK
  <2>. QED BY <1>2, <2>1 DEF earnings, CountExisting, TypeOK
<1>3. ASSUME NEW s \in Settlements, runSettlementForCycle(r, s) PROVE TypeOK'
  BY <1>3 DEF earnings, runSettlementForCycle, TypeOK, Run, NoRun, Settlement, SettlementStatuses
<1>. QED BY <1>1, <1>2, <1>3 DEF RunStep

LEMMA TypeSettlement ==
    ASSUME TypeOK, NEW s \in Settlements, SettlementStep(s)
    PROVE  TypeOK'
<1>1. ASSUME NEW status \in {"paid", "void"}, adminCloseSettlement(s, status) PROVE TypeOK'
  BY <1>1 DEF earnings, adminCloseSettlement, TypeOK, Settlement, SettlementStatuses
<1>2. ASSUME NEW i \in Invoices, creatorCreateInvoice(i, s) PROVE TypeOK'
  BY <1>2 DEF earnings, creatorCreateInvoice, TypeOK, Invoice
<1>3. ASSUME NEW w \in Withdrawals, creatorCreateWithdrawal(w, s) PROVE TypeOK'
  <2>1. settlements[s].net \in Nat
    BY <1>3, PayoutsAssumption DEF earnings, creatorCreateWithdrawal, TypeOK, Settlement
  <2>2. account' \in [total: Int, balance: Int, frozen: Nat]
    BY <1>3, <2>1, AccountType DEF creatorCreateWithdrawal
  <2>3. settlements' \in [Settlements -> Settlement]
    BY <1>3 DEF earnings, creatorCreateWithdrawal, TypeOK, Settlement, SettlementStatuses
  <2>4. PICK i \in InvoiceChoice :
           /\ withdrawals' = [withdrawals EXCEPT ![w] =
                [status |-> "pending", settlement |-> s, invoice |-> i,
                 amount |-> settlements[s].net, tail |-> "no"]]
           /\ invoices' = [x \in Invoices |->
                IF x = i THEN [status |-> "pending", settlement |-> s, push |-> FALSE]
                ELSE invoices[x]]
    BY <1>3 DEF creatorCreateWithdrawal
  <2>5. i \in Invoices \cup {None}
    BY DEF InvoiceChoice
  <2>6. withdrawals' \in [Withdrawals -> Withdrawal]
    BY <2>1, <2>4, <2>5 DEF earnings, TypeOK, Withdrawal
  <2>7. invoices' \in [Invoices -> Invoice]
    BY <2>4 DEF earnings, TypeOK, Invoice
  <2>. QED BY <1>3, <2>2, <2>3, <2>6, <2>7 DEF earnings, creatorCreateWithdrawal, TypeOK
<1>. QED BY <1>1, <1>2, <1>3 DEF SettlementStep

LEMMA DecideType ==
    ASSUME TypeOK, NEW w \in Withdrawals, NEW tail \in {"no", "read", "write"},
           NEW status \in {"approved", "rejected", "paid"}, Decide(w, status, tail)
    PROVE  withdrawals' \in [Withdrawals -> Withdrawal]
<1> DEFINE row == [withdrawals[w] EXCEPT !.status = status, !.tail = tail]
<1>1. row \in Withdrawal
  BY DEF TypeOK, Withdrawal
<1>2. withdrawals' = [withdrawals EXCEPT ![w] = row]
  BY DEF Decide, TypeOK
<1>. HIDE DEF row
<1>. QED BY <1>1, <1>2 DEF TypeOK

LEMMA FollowsType ==
    ASSUME TypeOK, NEW w \in Withdrawals, NEW status \in {"approved", "rejected"}, InvoiceFollows(w, status)
    PROVE  invoices' \in [Invoices -> Invoice]
BY DEF earnings, InvoiceFollows, TypeOK, Invoice

LEMMA TypeWithdrawal ==
    ASSUME TypeOK, NEW w \in Withdrawals, WithdrawalStep(w)
    PROVE  TypeOK'
<1>1. ASSUME NEW tail \in {"no", "read"}, markWithdrawalPaidTx(w, tail) PROVE TypeOK'
  <2>1. account' \in [total: Int, balance: Int, frozen: Nat]
    <3>1. withdrawals[w].amount \in Nat
      BY DEF TypeOK, Withdrawal
    <3>. QED BY <1>1, <3>1, AccountType DEF markWithdrawalPaidTx
  <2>2. withdrawals' \in [Withdrawals -> Withdrawal] /\ invoices' \in [Invoices -> Invoice]
    BY <1>1, DecideType, FollowsType DEF markWithdrawalPaidTx
  <2>. QED BY <1>1, <2>1, <2>2 DEF earnings, markWithdrawalPaidTx, TypeOK
<1>2. CASE adminApproveWithdrawal(w)
  <2>1. CASE markWithdrawalPaidTx(w, "no")
    BY <1>1, <2>1
  <2>2. CASE ~markWithdrawalPaidTx(w, "no")
    <3>1. withdrawals' \in [Withdrawals -> Withdrawal] /\ invoices' \in [Invoices -> Invoice]
      BY <1>2, <2>2, DecideType, FollowsType DEF adminApproveWithdrawal
    <3>. QED BY <1>2, <2>2, <3>1 DEF earnings, adminApproveWithdrawal, TypeOK
  <2>. QED BY <2>1, <2>2
<1>3. CASE adminRejectWithdrawal(w)
  <2>1. account' \in [total: Int, balance: Int, frozen: Nat]
    <3>1. withdrawals[w].amount \in Nat
      BY DEF TypeOK, Withdrawal
    <3>. QED BY <1>3, <3>1, AccountType DEF adminRejectWithdrawal
  <2>2. withdrawals' \in [Withdrawals -> Withdrawal] /\ invoices' \in [Invoices -> Invoice]
    BY <1>3, DecideType, FollowsType DEF adminRejectWithdrawal
  <2>. QED BY <1>3, <2>1, <2>2 DEF earnings, adminRejectWithdrawal, TypeOK
<1>4. CASE adminReviewWithdrawal(w)
  BY <1>2, <1>3, <1>4 DEF adminReviewWithdrawal
<1>5. CASE adminMarkWithdrawalPaid(w)
  BY <1>1, <1>5 DEF adminMarkWithdrawalPaid
<1>6. CASE ReadSettlement(w)
  <2>1. withdrawals' \in [Withdrawals -> Withdrawal]
    BY <1>6, DecideType DEF ReadSettlement
  <2>. QED BY <1>6, <2>1 DEF earnings, ReadSettlement, TypeOK
<1>7. CASE CompleteSettlement(w)
  <2>1. withdrawals' \in [Withdrawals -> Withdrawal]
    BY <1>7, DecideType DEF CompleteSettlement
  <2>2. settlements' \in [Settlements -> Settlement]
    BY <1>7 DEF earnings, CompleteSettlement, TypeOK, Settlement, SettlementStatuses
  <2>. QED BY <1>7, <2>1, <2>2 DEF earnings, CompleteSettlement, TypeOK
<1>. QED BY <1>2, <1>3, <1>4, <1>5, <1>6, <1>7 DEF WithdrawalStep

LEMMA TypeStep == TypeOK /\ [Next]_vars => TypeOK'
<1>. SUFFICES ASSUME TypeOK, [Next]_vars PROVE TypeOK'
  OBVIOUS
<1>1. ASSUME NEW d \in Days, IncomeStep(d) PROVE TypeOK'
  BY <1>1, TypeIncome
<1>2. CASE NewContract
  BY <1>2 DEF earnings, NewContract, TypeOK
<1>3. ASSUME NEW r \in Runs, RunStep(r) PROVE TypeOK'
  BY <1>3, TypeRun
<1>4. ASSUME NEW s \in Settlements, SettlementStep(s) PROVE TypeOK'
  BY <1>4, TypeSettlement
<1>5. ASSUME NEW i \in Invoices, PushInvoiced(i) \/ creatorCancelInvoice(i) PROVE TypeOK'
  <2>1. CASE PushInvoiced(i)
    <3>1. invoices' \in [Invoices -> Invoice]
      BY <2>1 DEF PushInvoiced, TypeOK, Invoice
    <3>2. settlements' \in [Settlements -> Settlement]
      <4>1. \A x \in Settlements : [settlements[x] EXCEPT !.status = "invoiced"] \in Settlement
        BY DEF TypeOK, Settlement, SettlementStatuses
      <4>2. CASE settlements' = [settlements EXCEPT ![invoices[i].settlement].status = "invoiced"]
        BY <4>1, <4>2 DEF TypeOK
      <4>. QED BY <2>1, <4>2 DEF PushInvoiced, TypeOK
    <3>. QED BY <2>1, <3>1, <3>2 DEF PushInvoiced, earnings, TypeOK
  <2>2. CASE creatorCancelInvoice(i)
    BY <2>2 DEF earnings, creatorCancelInvoice, TypeOK, Invoice
  <2>. QED BY <1>5, <2>1, <2>2
<1>6. ASSUME NEW w \in Withdrawals, WithdrawalStep(w) PROVE TypeOK'
  BY <1>6, TypeWithdrawal
<1>7. CASE Crash
  <2>1. invoices' \in [Invoices -> Invoice]
    BY <1>7 DEF Crash, TypeOK, Invoice
  <2>2. withdrawals' \in [Withdrawals -> Withdrawal]
    <3>1. \A w \in Withdrawals : [withdrawals[w] EXCEPT !.tail = "no"] \in Withdrawal
      BY DEF TypeOK, Withdrawal
    <3>. QED BY <1>7, <3>1 DEF Crash
  <2>3. runs' \in [Runs -> Run]
    BY <1>7 DEF Crash, Run, NoRun
  <2>. QED BY <1>7, <2>1, <2>2, <2>3 DEF Crash, earnings, TypeOK
<1>8. CASE UNCHANGED vars
  BY <1>8 DEF vars, earnings, TypeOK
<1>. QED BY <1>1, <1>2, <1>3, <1>4, <1>5, <1>6, <1>7, <1>8 DEF Next

(* Every reachable state is well typed, whatever the days, amounts and     *)
(* requests in flight: no refund or payment takes the frozen balance or a  *)
(* channel's row below zero (creator_withdraw.go, admin_finance.go).       *)
THEOREM PayoutsTypeCorrect == Spec => []TypeOK
BY TypeInit, TypeStep, PTL DEF Spec

-----------------------------------------------------------------------------
(* What the withdrawals of some statuses add up to. *)

Amount(w, statuses) == IF withdrawals[w].status \in statuses THEN withdrawals[w].amount ELSE 0

LEMMA AmountsAreNat ==
    ASSUME NEW ws \in [Withdrawals -> Withdrawal], NEW statuses
    PROVE  SumFunction([w \in Withdrawals |->
               IF ws[w].status \in statuses THEN ws[w].amount ELSE 0]) \in Nat
<1>1. [w \in Withdrawals |-> IF ws[w].status \in statuses THEN ws[w].amount ELSE 0] \in [Withdrawals -> Nat]
  BY DEF Withdrawal
<1>. QED BY <1>1, TotalIsNat, PayoutsAssumption

LEMMA AmountIsNat ==
    ASSUME NEW statuses
    PROVE  /\ TypeOK => AmountOf(statuses) \in Nat
           /\ TypeOK' => AmountOf(statuses)' \in Nat
BY AmountsAreNat DEF AmountOf, TypeOK

LEMMA AmountMoves ==
    ASSUME TypeOK, TypeOK', NEW w \in Withdrawals, NEW statuses,
           \A x \in Withdrawals : x # w => withdrawals'[x] = withdrawals[x]
    PROVE  /\ AmountOf(statuses)' = AmountOf(statuses) + (Amount(w, statuses)' - Amount(w, statuses))
           /\ AmountOf(statuses) \in Nat /\ AmountOf(statuses)' \in Nat
           /\ Amount(w, statuses) \in Nat /\ Amount(w, statuses)' \in Nat
<1> DEFINE f == [x \in Withdrawals |-> Amount(x, statuses)]
           g == [x \in Withdrawals |-> Amount(x, statuses)']
<1>1. f \in [Withdrawals -> Nat] /\ g \in [Withdrawals -> Nat]
  BY DEF Amount, TypeOK, Withdrawal
<1>2. \A x \in Withdrawals : x # w => g[x] = f[x]
  BY DEF Amount
<1>3. SumFunction(f) = AmountOf(statuses) /\ SumFunction(g) = AmountOf(statuses)'
  BY DEF AmountOf, Amount
<1>4. f[w] = Amount(w, statuses) /\ g[w] = Amount(w, statuses)'
  OBVIOUS
<1>5. f \in [Withdrawals -> Int] /\ g \in [Withdrawals -> Int]
  BY <1>1
<1>. HIDE DEF f, g
<1>6. SumFunction(g) = SumFunction(f) + (g[w] - f[w])
  BY <1>2, <1>5, TotalChange, PayoutsAssumption
<1>7. SumFunction(f) \in Nat /\ SumFunction(g) \in Nat
  BY <1>1, TotalIsNat, PayoutsAssumption
<1>. QED BY <1>1, <1>3, <1>4, <1>6, <1>7

LEMMA AmountStays ==
    ASSUME NEW statuses, \A w \in Withdrawals : /\ withdrawals'[w].status = withdrawals[w].status
                                                /\ withdrawals'[w].amount = withdrawals[w].amount
    PROVE  AmountOf(statuses)' = AmountOf(statuses)
<1>1. [w \in Withdrawals |-> IF withdrawals[w].status \in statuses THEN withdrawals[w].amount ELSE 0]
      = [w \in Withdrawals |-> IF withdrawals'[w].status \in statuses THEN withdrawals'[w].amount ELSE 0]
  OBVIOUS
<1>. QED BY <1>1 DEF AmountOf

(* A decision moves the amount of its withdrawal between the statuses.     *)
LEMMA DecisionMoves ==
    ASSUME TypeOK, TypeOK', NEW w \in Withdrawals, NEW status, NEW tail, NEW statuses, Decide(w, status, tail)
    PROVE  /\ AmountOf(statuses)' = AmountOf(statuses)
                  + ((IF status \in statuses THEN withdrawals[w].amount ELSE 0) - Amount(w, statuses))
           /\ AmountOf(statuses) \in Nat
<1>1. /\ withdrawals'[w].status = status /\ withdrawals'[w].amount = withdrawals[w].amount
      /\ \A x \in Withdrawals : x # w => withdrawals'[x] = withdrawals[x]
  BY DEF Decide, TypeOK, Withdrawal
<1>2. Amount(w, statuses)' = IF status \in statuses THEN withdrawals[w].amount ELSE 0
  BY <1>1 DEF Amount
<1>. QED BY <1>1, <1>2, AmountMoves

-----------------------------------------------------------------------------
(* The account. *)

LEMMA AccountValues ==
    ASSUME NEW t, NEW b, NEW f
    PROVE  Account(t, b, f).total = t /\ Account(t, b, f).balance = b /\ Account(t, b, f).frozen = f
BY DEF Account

LEMMA MoneyInit == Init => MoneyAccounted
<1> SUFFICES ASSUME Init PROVE MoneyAccounted
  OBVIOUS
<1>1. ASSUME NEW statuses, "none" \notin statuses PROVE AmountOf(statuses) = 0
  <2> DEFINE f == [w \in Withdrawals |-> Amount(w, statuses)]
  <2>1. f \in [Withdrawals -> Int] /\ \A w \in Withdrawals : f[w] = 0
    BY <1>1 DEF Init, NoWithdrawal, Amount
  <2>2. AmountOf(statuses) = SumFunction(f)
    BY DEF AmountOf, Amount
  <2>. HIDE DEF f
  <2>. QED BY <2>1, <2>2, TotalIsZero, PayoutsAssumption
<1>2. AmountOf(Open) = 0 /\ AmountOf(Paid) = 0
  BY <1>1 DEF Open, Paid
<1>. QED BY <1>2, AccountValues DEF Init, MoneyAccounted, FrozenIsOpen, IncomeNotLost

(* Income is booked or taken back: no withdrawal is touched. *)
LEMMA IncomeKeepsMoney ==
    ASSUME TypeOK, MoneyAccounted, NEW d \in Days, IncomeStep(d)
    PROVE  MoneyAccounted'
<1>1. AmountOf(Open)' = AmountOf(Open) /\ AmountOf(Paid)' = AmountOf(Paid)
  <2>1. withdrawals' = withdrawals
    BY DEF IncomeStep, Earn, RefundSale, adminImportDailyIncome, adminUpdateChannelIncome
  <2>. QED BY <2>1, AmountStays
<1>2. /\ AmountOf(Open) \in Nat /\ AmountOf(Paid) \in Nat /\ account.frozen = AmountOf(Open)
      /\ account.total \in Int /\ account.balance \in Int
      /\ account.balance + account.frozen + AmountOf(Paid) >= account.total
  BY AmountIsNat, AccountType DEF MoneyAccounted, FrozenIsOpen, IncomeNotLost
<1>3. ASSUME NEW x \in Int, account' = Book(x) PROVE MoneyAccounted'
  <2>1. /\ account'.total = account.total + x /\ account'.balance = account.balance + x
        /\ account'.frozen = account.frozen
    BY <1>3, AccountValues DEF Book
  <2>. QED BY <1>1, <1>2, <2>1 DEF MoneyAccounted, FrozenIsOpen, IncomeNotLost
<1>4. ASSUME NEW a \in Amounts, RefundSale(d, a) PROVE MoneyAccounted'
  <2>1. a \in Nat
    BY PayoutsAssumption
  <2>2. /\ account'.total = Greatest0(account.total - a)
        /\ account'.balance = Greatest0(account.balance - a)
        /\ account'.frozen = account.frozen
    BY <1>4, AccountValues DEF RefundSale
  <2>3. account'.balance + account'.frozen + AmountOf(Paid) >= account'.total
    BY <1>2, <2>1, <2>2 DEF Greatest0
  <2>. QED BY <1>1, <1>2, <2>2, <2>3 DEF MoneyAccounted, FrozenIsOpen, IncomeNotLost
<1>5. ASSUME NEW a \in Amounts, Earn(d, a) PROVE MoneyAccounted'
  BY <1>3, <1>5, PayoutsAssumption DEF Earn
<1>6. ASSUME NEW x \in Changes, NEW source \in Sources, BookChannel(d, source, x) PROVE MoneyAccounted'
  BY <1>3, <1>6, PayoutsAssumption DEF BookChannel
<1>. QED BY <1>4, <1>5, <1>6 DEF IncomeStep, adminImportDailyIncome, adminUpdateChannelIncome,
            Sources

LEMMA WithdrawalKeepsMoney ==
    ASSUME TypeOK, TypeOK', MoneyAccounted, NEW w \in Withdrawals, WithdrawalStep(w), TailPaid
    PROVE  MoneyAccounted'
<1>1. /\ AmountOf(Open) \in Nat /\ AmountOf(Paid) \in Nat /\ account.frozen = AmountOf(Open)
      /\ account.total \in Int /\ account.balance \in Int /\ withdrawals[w].amount \in Nat
      /\ account.balance + account.frozen + AmountOf(Paid) >= account.total
  BY AmountIsNat, AccountType DEF MoneyAccounted, FrozenIsOpen, IncomeNotLost, TypeOK, Withdrawal
<1>2. ASSUME withdrawals[w].status \in Open
      PROVE  Amount(w, Open) = withdrawals[w].amount /\ Amount(w, Paid) = 0
  BY <1>2 DEF Amount, Open, Paid
<1>3. ASSUME NEW tail, markWithdrawalPaidTx(w, tail), withdrawals[w].status \in Open PROVE MoneyAccounted'
  <2>1. /\ AmountOf(Open)' = AmountOf(Open) - withdrawals[w].amount
        /\ AmountOf(Paid)' = AmountOf(Paid) + withdrawals[w].amount
    <3>1. Decide(w, "paid", tail) /\ "paid" \notin Open /\ "paid" \in Paid
      BY <1>3 DEF markWithdrawalPaidTx, Open, Paid
    <3>2. /\ AmountOf(Open)' = AmountOf(Open) + (0 - Amount(w, Open))
          /\ AmountOf(Paid)' = AmountOf(Paid) + (withdrawals[w].amount - Amount(w, Paid))
      BY <3>1, DecisionMoves
    <3>. QED BY <1>1, <1>2, <1>3, <3>2
  <2>2. /\ account'.total = account.total /\ account'.balance = account.balance
        /\ account'.frozen = account.frozen - withdrawals[w].amount
    BY <1>3, AccountValues DEF markWithdrawalPaidTx, ReleaseFrozen
  <2>. QED BY <1>1, <2>1, <2>2 DEF MoneyAccounted, FrozenIsOpen, IncomeNotLost
<1>4. ASSUME adminRejectWithdrawal(w) PROVE MoneyAccounted'
  <2>1. /\ AmountOf(Open)' = AmountOf(Open) - withdrawals[w].amount
        /\ AmountOf(Paid)' = AmountOf(Paid)
    <3>1. Decide(w, "rejected", "no") /\ "rejected" \notin Open /\ "rejected" \notin Paid /\ withdrawals[w].status \in Open
      BY <1>4 DEF adminRejectWithdrawal, Open, Paid
    <3>2. /\ AmountOf(Open)' = AmountOf(Open) + (0 - Amount(w, Open))
          /\ AmountOf(Paid)' = AmountOf(Paid) + (0 - Amount(w, Paid))
      BY <3>1, DecisionMoves
    <3>. QED BY <1>1, <1>2, <3>1, <3>2
  <2>2. /\ account'.total = account.total /\ account'.balance = account.balance + withdrawals[w].amount
        /\ account'.frozen = account.frozen - withdrawals[w].amount
    BY <1>4, AccountValues DEF adminRejectWithdrawal, ReturnFrozen
  <2>. QED BY <1>1, <2>1, <2>2 DEF MoneyAccounted, FrozenIsOpen, IncomeNotLost
<1>5. ASSUME NEW status, NEW tail, Decide(w, status, tail), UNCHANGED account,
             (status \in Open) = (withdrawals[w].status \in Open),
             (status \in Paid) = (withdrawals[w].status \in Paid)
      PROVE  MoneyAccounted'
  <2>1. AmountOf(Open)' = AmountOf(Open) /\ AmountOf(Paid)' = AmountOf(Paid)
    <3>1. /\ AmountOf(Open)' = AmountOf(Open) + (Amount(w, Open) - Amount(w, Open))
          /\ AmountOf(Paid)' = AmountOf(Paid) + (Amount(w, Paid) - Amount(w, Paid))
      BY <1>5, DecisionMoves DEF Amount
    <3>2. Amount(w, Open) \in Nat /\ Amount(w, Paid) \in Nat
      BY <1>1 DEF Amount
    <3>. QED BY <1>1, <3>1, <3>2
  <2>. QED BY <1>1, <1>5, <2>1 DEF MoneyAccounted, FrozenIsOpen, IncomeNotLost
<1>6. ASSUME adminApproveWithdrawal(w) PROVE MoneyAccounted'
  <2>1. CASE markWithdrawalPaidTx(w, "no")
    BY <1>3, <1>6, <2>1 DEF adminApproveWithdrawal, Open
  <2>2. CASE Decide(w, "approved", "no") /\ UNCHANGED account
    BY <1>5, <1>6, <2>2 DEF adminApproveWithdrawal, Open, Paid
  <2>. QED BY <1>6, <2>1, <2>2 DEF adminApproveWithdrawal
<1>7. CASE adminReviewWithdrawal(w)
  BY <1>4, <1>6, <1>7 DEF adminReviewWithdrawal
<1>8. CASE adminMarkWithdrawalPaid(w)
  BY <1>3, <1>8 DEF adminMarkWithdrawalPaid, Open
<1>9. CASE ReadSettlement(w) \/ CompleteSettlement(w)
  <2>1. PICK tail : Decide(w, "paid", tail) /\ UNCHANGED account /\ withdrawals[w].tail # "no"
    BY <1>9 DEF ReadSettlement, CompleteSettlement
  <2>2. withdrawals[w].status = "paid"
    BY <2>1 DEF TailPaid
  <2>. QED BY <1>5, <2>1, <2>2
<1>. QED BY <1>4, <1>6, <1>7, <1>8, <1>9 DEF WithdrawalStep

(* A withdrawal is created: what leaves the balance is frozen.             *)
LEMMA CreateMoves ==
    ASSUME TypeOK, TypeOK', NEW w \in Withdrawals, NEW s \in Settlements, creatorCreateWithdrawal(w, s),
           NEW statuses, "none" \notin statuses
    PROVE  /\ settlements[s].net \in Nat
           /\ AmountOf(statuses) \in Nat
           /\ AmountOf(statuses)' = AmountOf(statuses)
                 + (IF "pending" \in statuses THEN settlements[s].net ELSE 0)
<1>1. settlements[s].net \in Nat
  BY PayoutsAssumption DEF creatorCreateWithdrawal, TypeOK, Settlement
<1>2. /\ \A x \in Withdrawals : x # w => withdrawals'[x] = withdrawals[x]
      /\ withdrawals'[w].status = "pending" /\ withdrawals'[w].amount = settlements[s].net
      /\ withdrawals[w].status = "none"
  BY DEF creatorCreateWithdrawal, TypeOK, Withdrawal
<1>3. /\ Amount(w, statuses) = 0
      /\ Amount(w, statuses)' = IF "pending" \in statuses THEN settlements[s].net ELSE 0
  BY <1>2 DEF Amount
<1>4. AmountOf(statuses)' = AmountOf(statuses) + (Amount(w, statuses)' - Amount(w, statuses))
  BY <1>2, AmountMoves
<1>5. AmountOf(statuses) \in Nat
  BY AmountIsNat
<1>. QED BY <1>1, <1>3, <1>4, <1>5

LEMMA CreateKeepsMoney ==
    ASSUME TypeOK, TypeOK', MoneyAccounted,
           NEW w \in Withdrawals, NEW s \in Settlements, creatorCreateWithdrawal(w, s)
    PROVE  MoneyAccounted'
<1>1. /\ AmountOf(Open) \in Nat /\ AmountOf(Paid) \in Nat /\ settlements[s].net \in Nat
      /\ AmountOf(Open)' = AmountOf(Open) + settlements[s].net
      /\ AmountOf(Paid)' = AmountOf(Paid)
  <2>1. /\ settlements[s].net \in Nat /\ AmountOf(Open) \in Nat
        /\ AmountOf(Open)' = AmountOf(Open) + settlements[s].net
    BY CreateMoves DEF Open
  <2>2. AmountOf(Paid) \in Nat /\ AmountOf(Paid)' = AmountOf(Paid) + 0
    BY CreateMoves DEF Paid
  <2>. QED BY <2>1, <2>2
<1>2. /\ account.total \in Int /\ account.balance \in Int /\ account.frozen = AmountOf(Open)
      /\ account.balance + account.frozen + AmountOf(Paid) >= account.total
  BY AccountType DEF MoneyAccounted, FrozenIsOpen, IncomeNotLost
<1>3. /\ account'.total = account.total /\ account'.balance = account.balance - settlements[s].net
      /\ account'.frozen = account.frozen + settlements[s].net
  BY AccountValues DEF creatorCreateWithdrawal, FreezeBalance
<1>. QED BY <1>1, <1>2, <1>3 DEF MoneyAccounted, FrozenIsOpen, IncomeNotLost

(* Every other step leaves the account and the withdrawals' amounts alone. *)
QuietStep ==
    \/ NewContract
    \/ \E r \in Runs : RunStep(r)
    \/ \E s \in Settlements :
         \/ \E status \in {"paid", "void"} : adminCloseSettlement(s, status)
         \/ \E i \in Invoices : creatorCreateInvoice(i, s)
    \/ \E i \in Invoices : PushInvoiced(i) \/ creatorCancelInvoice(i)
    \/ Crash
    \/ UNCHANGED vars

LEMMA QuietStays ==
    ASSUME TypeOK, QuietStep
    PROVE  UNCHANGED <<account, income>> /\ \A statuses : AmountOf(statuses)' = AmountOf(statuses)
<1>1. CASE Crash
  <2>1. \A w \in Withdrawals : /\ withdrawals'[w].status = withdrawals[w].status
                              /\ withdrawals'[w].amount = withdrawals[w].amount
    BY <1>1 DEF Crash, TypeOK, Withdrawal
  <2>. QED BY <1>1, <2>1, AmountStays DEF Crash, earnings
<1>2. CASE ~Crash
  <2>1. UNCHANGED <<withdrawals, account, income>>
    BY <1>2 DEF QuietStep, NewContract, RunStep, ReadAggregates, CountExisting,
       runSettlementForCycle,
        adminCloseSettlement, creatorCreateInvoice, PushInvoiced, creatorCancelInvoice, vars, earnings
  <2>. QED BY <2>1, AmountStays
<1>. QED BY <1>1, <1>2

LEMMA StepsOfMoney ==
    ASSUME [Next]_vars
    PROVE  \/ \E d \in Days : IncomeStep(d)
           \/ \E w \in Withdrawals, s \in Settlements : creatorCreateWithdrawal(w, s)
           \/ \E w \in Withdrawals : WithdrawalStep(w)
           \/ QuietStep
BY DEF Next, SettlementStep, QuietStep

LEMMA MoneyStep ==
    ASSUME TypeOK, TypeOK', TailPaid, MoneyAccounted, [Next]_vars
    PROVE  MoneyAccounted'
<1>1. ASSUME QuietStep PROVE MoneyAccounted'
  BY <1>1, QuietStays DEF MoneyAccounted, FrozenIsOpen, IncomeNotLost
<1>. QED BY <1>1, IncomeKeepsMoney, WithdrawalKeepsMoney, CreateKeepsMoney, StepsOfMoney

(* The frozen balance is what the withdrawals under way ask for, and what  *)
(* is in the account or was paid out covers the income, however refunds,   *)
(* corrections, reviews and payments interleave, for any number of them    *)
(* (creator_withdraw.go, admin_finance.go).                                *)
THEOREM MoneyAddsUp == Spec => []MoneyAccounted
<1>1. Inv => TailPaid
  BY DEF Inv
<1>2. TypeOK /\ TypeOK' /\ TailPaid /\ MoneyAccounted /\ [Next]_vars => MoneyAccounted'
  BY MoneyStep
<1>. QED BY InitInv, NextInv, <1>1, MoneyInit, <1>2, TypeInit, TypeStep, PTL DEF Spec

-----------------------------------------------------------------------------
(* What was withdrawn, beside the income rows. *)

LEMMA IncomeIsInt == (TypeOK => Income \in Int) /\ (TypeOK' => Income' \in Int)
BY TotalIsInt, PayoutsAssumption DEF TypeOK, Income

LEMMA WithdrawnGrows ==
    ASSUME TypeOK, TypeOK', TailPaid, [Next]_vars
    PROVE  \/ Withdrawn' <= Withdrawn
           \/ Income' = Income /\ Withdrawn' <= Income
<1>1. Withdrawn \in Nat /\ Withdrawn' \in Nat
  BY AmountIsNat DEF Withdrawn
<1>2. ASSUME NEW d \in Days, IncomeStep(d) PROVE Withdrawn' = Withdrawn
  <2>1. withdrawals' = withdrawals
    BY <1>2 DEF IncomeStep, Earn, RefundSale, adminImportDailyIncome, adminUpdateChannelIncome
  <2>. QED BY <2>1, AmountStays DEF Withdrawn
<1>3. ASSUME QuietStep PROVE Withdrawn' = Withdrawn
  BY <1>3, QuietStays DEF Withdrawn
<1>4. ASSUME NEW w \in Withdrawals, NEW s \in Settlements, creatorCreateWithdrawal(w, s)
      PROVE  Income' = Income /\ Withdrawn' <= Income
  <2>1. Income' = Income
    BY <1>4 DEF creatorCreateWithdrawal, earnings, Income
  <2>2. settlements[s].net \in Nat /\ Withdrawn' = Withdrawn + settlements[s].net
    BY <1>4, CreateMoves DEF Withdrawn, Open, Paid
  <2>3. settlements[s].net <= dramaWithdrawableCents /\ settlements[s].net > 0
    BY <1>4, <2>2, PayoutsAssumption DEF creatorCreateWithdrawal
  <2> DEFINE room == Income - Withdrawn
             avail == Greatest0(room)
  <2>4. room \in Int /\ account.balance \in Int
    BY <1>1, IncomeIsInt, AccountType
  <2>5. settlements[s].net <= IF avail > account.balance THEN account.balance ELSE avail
    BY <2>3 DEF dramaWithdrawableCents, Withdrawn
  <2>. HIDE DEF room
  <2>6. settlements[s].net <= room
    BY <2>2, <2>3, <2>4, <2>5 DEF Greatest0
  <2>. QED BY <1>1, <2>1, <2>2, <2>6, IncomeIsInt DEF room
<1>5. ASSUME NEW w \in Withdrawals, WithdrawalStep(w) PROVE Withdrawn' <= Withdrawn
  <2>1. withdrawals[w].amount \in Nat
    BY DEF TypeOK, Withdrawal
  <2>2. ASSUME NEW status, NEW tail, Decide(w, status, tail), withdrawals[w].status \in Open \cup Paid
        PROVE  Withdrawn' <= Withdrawn
    <3>1. Withdrawn' = Withdrawn
              + ((IF status \in Open \cup Paid THEN withdrawals[w].amount ELSE 0) - withdrawals[w].amount)
      BY <2>2, DecisionMoves DEF Withdrawn, Amount
    <3>. QED BY <1>1, <2>1, <3>1
  <2>3. \E status, tail : Decide(w, status, tail) /\ withdrawals[w].status \in Open \cup Paid
    <3>1. ASSUME withdrawals[w].tail # "no" PROVE withdrawals[w].status \in Open \cup Paid
      BY <3>1 DEF TailPaid, Paid
    <3>. QED BY <1>5, <3>1 DEF WithdrawalStep, adminApproveWithdrawal, adminRejectWithdrawal,
               adminReviewWithdrawal, adminMarkWithdrawalPaid, markWithdrawalPaidTx, ReadSettlement,
               CompleteSettlement, Open
  <2>. QED BY <2>2, <2>3
<1>. QED BY <1>1, <1>2, <1>3, <1>4, <1>5, StepsOfMoney

(* As long as no income is taken back, withdrawals never outgrow it.       *)
THEOREM WithdrawalsComeFromIncome == Spec => WithdrawnWithinIncome
<1>1. Inv => TailPaid
  BY DEF Inv
<1>2. TypeOK /\ TypeOK' /\ TailPaid /\ [Next]_vars
        => [Withdrawn' > Income' => Withdrawn > Income \/ Income' < Income]_vars
  <2> SUFFICES ASSUME TypeOK, TypeOK', TailPaid, [Next]_vars, Withdrawn' > Income'
               PROVE  Withdrawn > Income \/ Income' < Income
    OBVIOUS
  <2>1. /\ Income \in Int /\ Income' \in Int
        /\ Withdrawn \in Nat /\ Withdrawn' \in Nat
    BY IncomeIsInt, AmountIsNat DEF Withdrawn
  <2>. QED BY <2>1, WithdrawnGrows
<1>. QED BY InitInv, NextInv, <1>1, <1>2, TypeInit, TypeStep, PTL DEF Spec, WithdrawnWithinIncome

-----------------------------------------------------------------------------
(* The purse: each step moves one claim, and the two columns by its amount. *)

PhaseMap == [w \in Withdrawals |-> PhaseOf(withdrawals[w].status)]
AmountMap == [w \in Withdrawals |-> withdrawals[w].amount]

LEMMA PurseForm ==
    /\ Purse!PurseNext <=>
         \/ Purse!IncomeMoves
         \/ \E w \in Withdrawals :
               Purse!Reserve(w) \/ Purse!Spend(w) \/ Purse!GiveBack(w)
    /\ Purse!IncomeMoves <=>
         account'.balance \in Int /\ UNCHANGED <<account.frozen, PhaseMap, AmountMap>>
BY DEF Purse!PurseNext, Purse!IncomeMoves, PhaseMap, AmountMap

LEMMA PurseActions ==
    ASSUME NEW w
    PROVE  /\ Purse!Reserve(w) <=>
                /\ PhaseMap[w] = "none" /\ AmountMap'[w] > 0 /\ AmountMap'[w] <= account.balance
                /\ PhaseMap' = [PhaseMap EXCEPT ![w] = "reserved"]
                /\ AmountMap' = [AmountMap EXCEPT ![w] = AmountMap'[w]]
                /\ account'.balance = account.balance - AmountMap'[w]
                /\ account'.frozen = account.frozen + AmountMap'[w]
           /\ Purse!Spend(w) <=>
                /\ PhaseMap[w] = "reserved"
                /\ PhaseMap' = [PhaseMap EXCEPT ![w] = "spent"]
                /\ account'.frozen = account.frozen - AmountMap[w]
                /\ UNCHANGED <<account.balance, AmountMap>>
           /\ Purse!GiveBack(w) <=>
                /\ PhaseMap[w] = "reserved"
                /\ PhaseMap' = [PhaseMap EXCEPT ![w] = "returned"]
                /\ account'.balance = account.balance + AmountMap[w]
                /\ account'.frozen = account.frozen - AmountMap[w]
                /\ UNCHANGED AmountMap
BY DEF Purse!Reserve, Purse!Spend, Purse!GiveBack, PhaseMap, AmountMap

(* No withdrawal moves: at most income does. *)
LEMMA PurseStays ==
    ASSUME TypeOK', account'.frozen = account.frozen,
           \A w \in Withdrawals : /\ PhaseOf(withdrawals'[w].status) = PhaseOf(withdrawals[w].status)
                                  /\ withdrawals'[w].amount = withdrawals[w].amount
    PROVE  Purse!PurseNext
<1>1. PhaseMap' = PhaseMap /\ AmountMap' = AmountMap
  BY DEF PhaseMap, AmountMap
<1>2. account'.balance \in Int
  BY DEF TypeOK
<1>. QED BY <1>1, <1>2, PurseForm

(* What a decision does to the two maps. *)
LEMMA DecisionMaps ==
    ASSUME TypeOK, NEW w \in Withdrawals, NEW status, NEW tail, Decide(w, status, tail)
    PROVE  /\ PhaseMap' = [PhaseMap EXCEPT ![w] = PhaseOf(status)]
           /\ AmountMap' = AmountMap
           /\ \A x \in Withdrawals : /\ withdrawals'[x].amount = withdrawals[x].amount
                                     /\ x # w => withdrawals'[x] = withdrawals[x]
           /\ withdrawals'[w].status = status
<1>1. /\ withdrawals'[w].status = status /\ withdrawals'[w].amount = withdrawals[w].amount
      /\ \A x \in Withdrawals : x # w => withdrawals'[x] = withdrawals[x]
  BY DEF Decide, TypeOK, Withdrawal
<1>. QED BY <1>1 DEF PhaseMap, AmountMap

LEMMA PurseWithdrawal ==
    ASSUME TypeOK, TypeOK', TailPaid, NEW w \in Withdrawals, WithdrawalStep(w)
    PROVE  Purse!PurseNext
<1>1. AmountMap[w] = withdrawals[w].amount /\ PhaseMap[w] = PhaseOf(withdrawals[w].status)
  BY DEF AmountMap, PhaseMap
<1>2. withdrawals[w].status \in Open => PhaseOf(withdrawals[w].status) = "reserved"
  BY DEF Open, PhaseOf
<1>3. ASSUME NEW tail, markWithdrawalPaidTx(w, tail), withdrawals[w].status \in Open
      PROVE  Purse!PurseNext
  <2>1. /\ account'.balance = account.balance
        /\ account'.frozen = account.frozen - withdrawals[w].amount
    BY <1>3, AccountValues DEF markWithdrawalPaidTx, ReleaseFrozen
  <2>2. PhaseMap' = [PhaseMap EXCEPT ![w] = "spent"] /\ AmountMap' = AmountMap
    BY <1>3, DecisionMaps DEF markWithdrawalPaidTx, PhaseOf
  <2>3. Purse!Spend(w)
    BY <1>1, <1>2, <1>3, <2>1, <2>2, PurseActions
  <2>. QED BY <2>3, PurseForm
<1>4. ASSUME adminRejectWithdrawal(w) PROVE Purse!PurseNext
  <2>1. /\ account'.balance = account.balance + withdrawals[w].amount
        /\ account'.frozen = account.frozen - withdrawals[w].amount
    BY <1>4, AccountValues DEF adminRejectWithdrawal, ReturnFrozen
  <2>2. PhaseMap' = [PhaseMap EXCEPT ![w] = "returned"] /\ AmountMap' = AmountMap
    BY <1>4, DecisionMaps DEF adminRejectWithdrawal, PhaseOf
  <2>3. withdrawals[w].status \in Open
    BY <1>4 DEF adminRejectWithdrawal, Open
  <2>4. Purse!GiveBack(w)
    BY <1>1, <1>2, <2>1, <2>2, <2>3, PurseActions
  <2>. QED BY <2>4, PurseForm
<1>5. ASSUME NEW status, NEW tail, Decide(w, status, tail), UNCHANGED account,
             PhaseOf(status) = PhaseOf(withdrawals[w].status)
      PROVE  Purse!PurseNext
  BY <1>5, DecisionMaps, PurseStays
<1>6. ASSUME adminApproveWithdrawal(w) PROVE Purse!PurseNext
  <2>1. CASE markWithdrawalPaidTx(w, "no")
    BY <1>3, <1>6, <2>1 DEF adminApproveWithdrawal, Open
  <2>2. CASE Decide(w, "approved", "no") /\ UNCHANGED account
    BY <1>5, <1>6, <2>2 DEF adminApproveWithdrawal, PhaseOf
  <2>. QED BY <1>6, <2>1, <2>2 DEF adminApproveWithdrawal
<1>7. CASE adminReviewWithdrawal(w)
  BY <1>4, <1>6, <1>7 DEF adminReviewWithdrawal
<1>8. CASE adminMarkWithdrawalPaid(w)
  BY <1>3, <1>8 DEF adminMarkWithdrawalPaid, Open
<1>9. CASE ReadSettlement(w) \/ CompleteSettlement(w)
  <2>1. PICK tail : Decide(w, "paid", tail) /\ UNCHANGED account /\ withdrawals[w].tail # "no"
    BY <1>9 DEF ReadSettlement, CompleteSettlement
  <2>2. withdrawals[w].status = "paid"
    BY <2>1 DEF TailPaid
  <2>. QED BY <1>5, <2>1, <2>2
<1>. QED BY <1>4, <1>6, <1>7, <1>8, <1>9 DEF WithdrawalStep

LEMMA PurseCreate ==
    ASSUME TypeOK, TypeOK', NEW w \in Withdrawals, NEW s \in Settlements,
           creatorCreateWithdrawal(w, s)
    PROVE  Purse!PurseNext
<1> DEFINE n == settlements[s].net
<1>1. n \in Int /\ n > 0 /\ n <= account.balance
  <2>1. n >= MinWithdrawal /\ n <= account.balance
    BY DEF creatorCreateWithdrawal
  <2>2. n \in Int /\ MinWithdrawal \in Nat \ {0}
    BY PayoutsAssumption DEF TypeOK, Settlement
  <2>. QED BY <2>1, <2>2
<1>2. account'.balance = account.balance - n /\ account'.frozen = account.frozen + n
  BY AccountValues DEF creatorCreateWithdrawal, FreezeBalance
<1>3. /\ \A x \in Withdrawals : x # w => withdrawals'[x] = withdrawals[x]
      /\ withdrawals'[w].status = "pending" /\ withdrawals'[w].amount = n
      /\ withdrawals[w].status = "none"
  BY DEF creatorCreateWithdrawal, TypeOK, Withdrawal
<1>. HIDE DEF n
<1>4. /\ PhaseMap[w] = "none" /\ PhaseMap' = [PhaseMap EXCEPT ![w] = "reserved"]
      /\ AmountMap' = [AmountMap EXCEPT ![w] = n] /\ AmountMap'[w] = n
  BY <1>3 DEF PhaseMap, AmountMap, PhaseOf
<1>5. Purse!Reserve(w)
  BY <1>1, <1>2, <1>4, PurseActions
<1>. QED BY <1>5, PurseForm

LEMMA PurseStep ==
    ASSUME TypeOK, TypeOK', TailPaid, [Next]_vars
    PROVE  Purse!PurseNext
<1>1. ASSUME NEW d \in Days, IncomeStep(d) PROVE Purse!PurseNext
  <2>1. withdrawals' = withdrawals /\ account'.frozen = account.frozen
    BY <1>1, AccountValues DEF IncomeStep, Earn, RefundSale, adminImportDailyIncome,
       adminUpdateChannelIncome, BookChannel, Book
  <2>. QED BY <2>1, PurseStays
<1>2. CASE QuietStep
  <2>1. account' = account
    BY <1>2, QuietStays
  <2>2. \A w \in Withdrawals : /\ withdrawals'[w].status = withdrawals[w].status
                               /\ withdrawals'[w].amount = withdrawals[w].amount
    <3>1. CASE Crash
      BY <3>1 DEF Crash, TypeOK, Withdrawal
    <3>2. CASE ~Crash
      BY <1>2, <3>2 DEF QuietStep, NewContract, RunStep, ReadAggregates, CountExisting,
         runSettlementForCycle, adminCloseSettlement, creatorCreateInvoice, PushInvoiced,
         creatorCancelInvoice, vars
    <3>. QED BY <3>1, <3>2
  <2>. QED BY <2>1, <2>2, PurseStays
<1>. QED BY <1>1, <1>2, PurseWithdrawal, PurseCreate, StepsOfMoney

(* However invoices, reviews, payments, corrections and crashes take       *)
(* turns, a creator sees a purse: a withdrawal takes its amount out of the *)
(* balance once, and is then paid once or given back once, for the amount  *)
(* it was made for (creator_withdraw.go, admin_finance.go).                *)
THEOREM PayoutsImplementPurse == Spec => ImplementsPurse
<1>1. Init => Purse!PurseInit
  BY AccountValues DEF Init, Purse!PurseInit, PhaseOf, NoWithdrawal
<1>2. Inv => TailPaid
  BY DEF Inv
<1>3. TypeOK /\ TypeOK' /\ TailPaid /\ [Next]_vars => [Purse!PurseNext]_(Purse!purseVars)
  BY PurseStep
<1>. QED BY <1>1, <1>2, <1>3, InitInv, NextInv, TypeInit, TypeStep, PTL
         DEF Spec, ImplementsPurse, Purse!PurseSpec
=============================================================================
