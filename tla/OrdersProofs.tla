---------------------------- MODULE OrdersProofs ----------------------------
(***************************************************************************)
(* Safety of the purchase of episodes, for every set of users, episodes    *)
(* and order numbers, every price, share and clock.                        *)
(***************************************************************************)
EXTENDS Orders, Idempotency, Sums

-----------------------------------------------------------------------------
(* The ledger keeps its columns natural numbers. *)

LEMMA ShareIsNat ==
    ASSUME NEW g \in Nat PROVE IncomeFromGrossBP(g) \in Nat
<1> DEFINE bp == IF ShareBP > BPFull THEN BPFull ELSE ShareBP
<1>1. bp \in Nat
  BY ShareAssumption DEF BPFull
<1>2. g * bp \in Nat
  BY <1>1
<1>3. ASSUME NEW n \in Nat PROVE n \div 10000 \in Nat
  BY <1>3
<1>4. (g * bp) \div 10000 \in Nat
  BY <1>2, <1>3
<1>5. QED
  BY <1>4 DEF IncomeFromGrossBP, BPFull

LEMMA CreditType ==
    ASSUME NEW l \in Ledger, NEW d \in Days, NEW g \in Nat
    PROVE  Credit(l, d, g) \in Ledger
<1> DEFINE share == IncomeFromGrossBP(g)
<1>1. share \in Nat
  BY ShareIsNat
<1> HIDE DEF share
<1>2. QED
  BY <1>1 DEF Credit, Ledger, share

LEMMA ClawbackType ==
    ASSUME NEW l \in Ledger, NEW d \in Days, NEW g \in Nat
    PROVE  Clawback(l, d, g) \in Ledger
<1> DEFINE share == IncomeFromGrossBP(g)
<1>1. share \in Nat
  BY ShareIsNat
<1> HIDE DEF share
<1>2. \A x \in Nat, y \in Nat : Greatest0(x - y) \in Nat
  BY DEF Greatest0
<1>3. QED
  BY <1>1, <1>2 DEF Clawback, Ledger, share

-----------------------------------------------------------------------------
(* Types. *)

Inv == TypeOK /\ WellFormed

LEMMA InitInv == Init => Inv
<1> SUFFICES ASSUME Init PROVE Inv
  OBVIOUS
<1>1. EmptyLedger \in Ledger
  BY DEF EmptyLedger, Ledger
<1>2. 0 \in 0 .. MaxTime
  BY TimeAssumption
<1>3. NoOrder \in Order /\ NoTrade \in Trade
  BY <1>2 DEF NoOrder, Order, NoTrade, Trade, Statuses
<1>4. QED
  BY <1>1, <1>2, <1>3 DEF Init, Inv, TypeOK, WellFormed, NoOrder

(* The three tables that MarkOrderPaid writes. *)
LEMMA MarkOrderPaidInv ==
    ASSUME Inv, NEW o \in OrderNos, NEW t \in 0 .. MaxTime, MarkOrderPaid(o, t)
    PROVE  /\ orders' \in [OrderNos -> Order]
           /\ unlocks' \subseteq Users \X Episodes
           /\ ledger' \in Ledger
           /\ \A x \in OrderNos : orders'[x].status # "none" =>
                 orders'[x].user \in Users /\ orders'[x].eps # {} /\ orders'[x].amount > 0
<1> USE DEF Inv, TypeOK, WellFormed
<1>1. CASE ~Markable(o, t)
  BY <1>1 DEF MarkOrderPaid
<1>2. CASE Markable(o, t)
  <2>1. orders[o].status # "none" /\ orders[o] \in Order
    BY <1>2 DEF Markable
  <2>2. Grants(o) \subseteq Users \X Episodes
    BY <2>1 DEF Grants, Order
  <2>3. orders[o].amount \in Nat /\ Date[t] \in Days
    BY <2>1, TimeAssumption DEF Order
  <2>4. Credit(ledger, Date[t], orders[o].amount) \in Ledger
    BY <2>3, CreditType
  <2>5. orders' = [orders EXCEPT ![o].status = "paid"]
        /\ unlocks' = unlocks \cup Grants(o)
        /\ ledger' = Credit(ledger, Date[t], orders[o].amount)
    BY <1>2 DEF MarkOrderPaid
  <2>6. orders' \in [OrderNos -> Order]
    BY <2>5, <2>1 DEF Order, Statuses
  <2>7. QED
    BY <2>1, <2>2, <2>4, <2>5, <2>6
<1>3. QED
  BY <1>1, <1>2

LEMMA FinishType ==
    ASSUME jobs \subseteq Job, NEW j \in jobs, NEW k \in Job, Finish(j, k)
    PROVE  jobs' \subseteq Job
BY DEF Finish

LEMMA BeginInv ==
    ASSUME Inv, NEW u \in Users, NEW b \in BOOLEAN, NEW S \in SUBSET Episodes, S # {},
           NEW s \in Started, Begin(NewTx(u, b, S, s))
    PROVE  Inv'
<1> DEFINE t == [NewTx(u, b, S, s) EXCEPT !.olds = PendingOf(NewTx(u, b, S, s))]
<1>1. t \in Tx /\ t.eps # {}
  BY DEF Inv, TypeOK, NewTx, Tx, PendingOf, Started
<1>2. txs' = txs \cup {t}
  BY DEF Begin
<1> HIDE DEF t
<1>3. QED
  BY <1>1, <1>2 DEF Inv, TypeOK, WellFormed, Begin

LEMMA CommitInv ==
    ASSUME Inv, NEW t \in txs, NEW o \in OrderNos, NEW p \in Prices, Commit(t, o, p)
    PROVE  Inv'
<1> DEFINE closed == IF t.olds = {} THEN {} ELSE PendingOf(t)
           new == [status |-> "pending", user |-> t.user, batch |-> t.batch,
                   eps |-> t.eps, amount |-> p * Cardinality(t.eps),
                   expiredAt |-> t.start + TTL, refunded |-> 0, refundNo |-> None]
<1>1. t \in Tx /\ t.eps # {}
  BY DEF Inv, TypeOK, WellFormed
<1>2. Cardinality(t.eps) \in Nat /\ Cardinality(t.eps) > 0
  <2>1. IsFiniteSet(t.eps)
    BY <1>1, FS_Subset, DataAssumption DEF Tx
  <2>2. QED
    BY <2>1, <1>1, FS_CardinalityType, FS_EmptySet
<1>3. p \in Nat /\ p > 0
  BY DataAssumption
<1>4. p * Cardinality(t.eps) \in Nat /\ p * Cardinality(t.eps) > 0
  BY <1>2, <1>3
<1>5. new \in Order /\ new.user \in Users /\ new.eps # {} /\ new.amount > 0
  BY <1>1, <1>4, TimeAssumption DEF Tx, Order, Statuses
<1>6. closed \subseteq OrderNos /\ \A x \in closed : orders[x].status # "none"
  BY DEF PendingOf
<1>7. /\ orders' = [x \in OrderNos |->
                      IF x = o THEN new
                      ELSE IF x \in closed THEN [orders[x] EXCEPT !.status = "closed"]
                      ELSE orders[x]]
      /\ jobs' = jobs \cup {[close |-> t.olds, prepay |-> o]}
      /\ txs' = txs \ {t}
      /\ UNCHANGED <<now, unlocks, ledger, channel, syncing>>
  BY DEF Commit
<1> HIDE DEF closed, new
<1>8. \A x \in OrderNos : orders'[x] \in Order
  BY <1>5, <1>6, <1>7 DEF Inv, TypeOK, Order, Statuses
<1>9. [close |-> t.olds, prepay |-> o] \in Job
  BY <1>1 DEF Tx, Job
<1>10. TypeOK'
  BY <1>7, <1>8, <1>9 DEF Inv, TypeOK
<1>11. WellFormed'
  <2>1. ASSUME NEW x \in OrderNos, orders'[x].status # "none"
        PROVE  orders'[x].user \in Users /\ orders'[x].eps # {} /\ orders'[x].amount > 0
    <3>1. CASE x = o
      BY <3>1, <1>5, <1>7
    <3>2. CASE x # o /\ x \in closed
      BY <3>2, <1>6, <1>7 DEF Inv, TypeOK, WellFormed, Order
    <3>3. CASE x # o /\ x \notin closed
      BY <3>3, <2>1, <1>7 DEF Inv, WellFormed
    <3>4. QED
      BY <3>1, <3>2, <3>3
  <2>2. QED
    BY <2>1, <1>7 DEF Inv, WellFormed
<1>12. QED
  BY <1>10, <1>11 DEF Inv

LEMMA CloseChannelOrderInv ==
    ASSUME Inv, NEW j \in jobs, NEW o \in OrderNos, CloseChannelOrder(j, o)
    PROVE  Inv'
<1>1. j \in Job
  BY DEF Inv, TypeOK
<1>2. [j EXCEPT !.close = @ \ {o}] \in Job
  BY <1>1 DEF Job
<1>3. jobs' \subseteq Job
  BY <1>2, FinishType DEF CloseChannelOrder, Inv, TypeOK
<1>4. channel' \in [OrderNos -> Trade]
  BY DEF CloseChannelOrder, CloseTrade, Inv, TypeOK, Trade
<1>5. QED
  BY <1>3, <1>4 DEF CloseChannelOrder, Inv, TypeOK, WellFormed

LEMMA AttachPayParamsInv ==
    ASSUME Inv, NEW j \in jobs, AttachPayParams(j)
    PROVE  Inv'
<1>1. j \in Job /\ j.prepay \in OrderNos
  BY DEF Inv, TypeOK, Job, AttachPayParams
<1>2. [j EXCEPT !.prepay = None] \in Job
  BY <1>1 DEF Job
<1>3. jobs' \subseteq Job
  BY <1>2, FinishType DEF AttachPayParams, Inv, TypeOK
<1>4. now + PayExpire \in Nat
  BY TimeAssumption DEF Inv, TypeOK
<1>5. channel' \in [OrderNos -> Trade]
  <2>1. ASSUME NEW s \in {"link", "open"}
        PROVE  [channel[j.prepay] EXCEPT !.state = s, !.payBy = now + PayExpire] \in Trade
    BY <1>1, <1>4 DEF Inv, TypeOK, Trade
  <2>2. \/ UNCHANGED channel
        \/ \E s \in {"link", "open"} :
             channel' = [channel EXCEPT ![j.prepay] =
                           [@ EXCEPT !.state = s, !.payBy = now + PayExpire]]
    BY DEF AttachPayParams
  <2>3. QED
    BY <2>1, <2>2, <1>1 DEF Inv, TypeOK
<1>6. QED
  BY <1>3, <1>5 DEF AttachPayParams, Inv, TypeOK, WellFormed

(* Status changes that keep the rest of the order. *)
LEMMA StatusInv ==
    ASSUME Inv, NEW C \in SUBSET OrderNos, \A x \in C : orders[x].status # "none",
           orders' = [x \in OrderNos |->
                        IF x \in C THEN [orders[x] EXCEPT !.status = "closed"] ELSE orders[x]]
    PROVE  /\ orders' \in [OrderNos -> Order]
           /\ \A x \in OrderNos : orders'[x].status # "none" =>
                 orders'[x].user \in Users /\ orders'[x].eps # {} /\ orders'[x].amount > 0
BY DEF Inv, TypeOK, WellFormed, Order, Statuses

LEMMA SyncOrderStatusInv ==
    ASSUME Inv, NEW o \in OrderNos, SyncOrderStatus(o)
    PROVE  Inv'
<1>1. CASE SyncPaid(o)
  <2>1. PICK t \in {channel[o].at, now} : MarkOrderPaid(o, t)
    BY <1>1 DEF SyncPaid
  <2>2. t \in 0 .. MaxTime
    BY DEF Inv, TypeOK, Trade
  <2>3. QED
    BY <2>1, <2>2, MarkOrderPaidInv DEF SyncOrderStatus, Inv, TypeOK, WellFormed
<1>2. CASE SyncClosed(o)
  <2> DEFINE C == IF orders[o].status = "pending" THEN {o} ELSE {}
  <2>1. orders' = [x \in OrderNos |->
                     IF x \in C THEN [orders[x] EXCEPT !.status = "closed"] ELSE orders[x]]
    BY <1>2 DEF SyncClosed, Inv, TypeOK
  <2>2. C \in SUBSET OrderNos /\ \A x \in C : orders[x].status # "none"
    OBVIOUS
  <2> HIDE DEF C
  <2>3. QED
    BY <1>2, <2>1, <2>2, StatusInv DEF SyncOrderStatus, SyncClosed, Inv, TypeOK, WellFormed
<1>3. CASE SyncOther(o)
  BY <1>3 DEF SyncOrderStatus, SyncOther, Inv, TypeOK, WellFormed
<1>4. QED
  BY <1>1, <1>2, <1>3 DEF SyncOrderStatus

LEMMA CloseExpiredOrdersInv == Inv /\ CloseExpiredOrders => Inv'
<1> SUFFICES ASSUME Inv, CloseExpiredOrders PROVE Inv'
  OBVIOUS
<1> DEFINE late == {o \in OrderNos : Expired(o)}
<1>1. /\ orders' = [o \in OrderNos |->
                      IF o \in late THEN [orders[o] EXCEPT !.status = "closed"] ELSE orders[o]]
      /\ jobs' = jobs \cup {[close |-> late, prepay |-> None]}
      /\ UNCHANGED <<now, unlocks, ledger, channel, txs, syncing>>
  BY DEF CloseExpiredOrders
<1>2. late \in SUBSET OrderNos /\ \A x \in late : orders[x].status # "none"
  BY DEF Expired
<1> HIDE DEF late
<1>3. [close |-> late, prepay |-> None] \in Job
  BY <1>2 DEF Job
<1>4. QED
  BY <1>1, <1>2, <1>3, StatusInv DEF Inv, TypeOK, WellFormed

LEMMA BookRefundInv ==
    ASSUME Inv, NEW o \in OrderNos, NEW rn \in RefundNos, NEW amt \in RefundAmounts(o),
           Refundable(o, rn, amt), BookRefund(o, rn, amt)
    PROVE  /\ orders' \in [OrderNos -> Order]
           /\ ledger' \in Ledger
           /\ \A x \in OrderNos : orders'[x].status # "none" =>
                 orders'[x].user \in Users /\ orders'[x].eps # {} /\ orders'[x].amount > 0
<1>1. amt \in Nat /\ orders[o] \in Order /\ orders[o].status # "none"
  BY DEF RefundAmounts, Refundable, Inv, TypeOK, Order
<1>2. orders[o].refunded + amt \in Nat
  BY <1>1 DEF Order
<1>3. ledger' \in Ledger
  BY <1>1, ClawbackType, TimeAssumption DEF BookRefund, Inv, TypeOK
<1>4. QED
  BY <1>1, <1>2, <1>3 DEF BookRefund, Inv, TypeOK, WellFormed, Order, Statuses

LEMMA RefundOrderInv ==
    ASSUME Inv, NEW o \in OrderNos, NEW rn \in RefundNos, NEW amt \in RefundAmounts(o),
           RefundOrder(o, rn, amt) \/ DevRefundOrder(o, rn, amt)
    PROVE  Inv'
<1>1. Refundable(o, rn, amt) /\ UNCHANGED <<now, unlocks, txs, jobs, syncing>>
  BY DEF RefundOrder, DevRefundOrder
<1>2. channel' \in [OrderNos -> Trade]
  <2>1. amt \in Nat /\ channel[o] \in Trade
    BY DEF RefundAmounts, Inv, TypeOK
  <2> DEFINE moved == channel[o].moved + amt
             seen == channel[o].seen \cup {rn}
  <2>5. moved \in Nat /\ seen \in SUBSET RefundNos
    BY <2>1 DEF Trade
  <2>2. [channel[o] EXCEPT !.moved = moved, !.seen = seen] \in Trade
    BY <2>1, <2>5 DEF Trade
  <2>3. \/ UNCHANGED channel
        \/ channel' = [channel EXCEPT ![o] =
                          [channel[o] EXCEPT !.moved = moved, !.seen = seen]]
    <3>1. CASE DevRefundOrder(o, rn, amt)
      BY <3>1 DEF DevRefundOrder
    <3>2. CASE ChannelRefund(o, rn, amt)
      BY <3>2 DEF ChannelRefund
    <3>3. QED
      BY <3>1, <3>2 DEF RefundOrder
  <2> HIDE DEF moved, seen
  <2>4. QED
    BY <2>2, <2>3 DEF Inv, TypeOK
<1>3. CASE BookRefund(o, rn, amt)
  BY <1>1, <1>2, <1>3, BookRefundInv DEF Inv, TypeOK, WellFormed
<1>4. CASE UNCHANGED <<orders, ledger>>
  BY <1>1, <1>2, <1>4 DEF Inv, TypeOK, WellFormed
<1>5. QED
  BY <1>3, <1>4 DEF RefundOrder, DevRefundOrder

LEMMA EnsureOrderUnlockedInv ==
    ASSUME Inv, NEW o \in OrderNos, EnsureOrderUnlocked(o)
    PROVE  Inv'
<1>1. Grants(o) \subseteq Users \X Episodes
  BY DEF EnsureOrderUnlocked, Grants, Inv, TypeOK, WellFormed, Order
<1>2. QED
  BY <1>1 DEF EnsureOrderUnlocked, Inv, TypeOK, WellFormed

LEMMA PayWebhookInv ==
    ASSUME Inv, NEW o \in OrderNos, PayWebhook(o) \/ DevMockPayOrder(o)
    PROVE  Inv'
<1>1. MarkOrderPaid(o, now) /\ UNCHANGED <<now, channel, txs, jobs, syncing>>
  BY DEF PayWebhook, DevMockPayOrder
<1>2. now \in 0 .. MaxTime
  BY DEF Inv, TypeOK
<1>3. QED
  BY <1>1, <1>2, MarkOrderPaidInv DEF Inv, TypeOK, WellFormed

LEMMA ChannelStepInv ==
    ASSUME Inv, NEW o \in OrderNos, ReachCashier(o) \/ Capture(o) \/ ExpireTrade(o)
    PROVE  Inv'
<1>1. now \in 0 .. MaxTime /\ channel[o] \in Trade
  BY DEF Inv, TypeOK
<1>2. ASSUME NEW s \in {"open", "closed", "captured"}
      PROVE  /\ [channel[o] EXCEPT !.state = s] \in Trade
             /\ [channel[o] EXCEPT !.state = s, !.at = now] \in Trade
  BY <1>1 DEF Trade
<1>4. \E s \in {"open", "closed", "captured"} :
        \/ channel' = [channel EXCEPT ![o] = [channel[o] EXCEPT !.state = s]]
        \/ channel' = [channel EXCEPT ![o] = [channel[o] EXCEPT !.state = s, !.at = now]]
  BY DEF ReachCashier, Capture, ExpireTrade, Inv, TypeOK
<1>5. channel' \in [OrderNos -> Trade]
  BY <1>2, <1>4 DEF Inv, TypeOK
<1>3. QED
  BY <1>5 DEF ReachCashier, Capture, ExpireTrade, Inv, TypeOK, WellFormed

LEMMA NextInv == Inv /\ [Next]_vars => Inv'
<1> SUFFICES ASSUME Inv, [Next]_vars PROVE Inv'
  OBVIOUS
<1>1. CASE Tick
  BY <1>1, TimeAssumption DEF Tick, Inv, TypeOK, WellFormed
<1>2. ASSUME NEW u \in Users, BeginOrder(u) PROVE Inv'
  <2>1. ASSUME NEW e \in Episodes, CreateOrder(u, e) PROVE Inv'
    BY <2>1, BeginInv DEF CreateOrder
  <2>2. ASSUME NEW S \in SUBSET Episodes, CreateBatchOrder(u, S) PROVE Inv'
    <3>1. Buyable(u, S) \in SUBSET Episodes /\ Buyable(u, S) # {}
      BY <2>2 DEF CreateBatchOrder, Buyable
    <3>2. QED
      BY <2>2, <3>1, BeginInv DEF CreateBatchOrder
  <2>3. QED
    BY <1>2, <2>1, <2>2 DEF BeginOrder
<1>3. CASE CommitOrder
  BY <1>3, CommitInv DEF CommitOrder
<1>4. ASSUME NEW j \in jobs, RunJob(j) PROVE Inv'
  BY <1>4, CloseChannelOrderInv, AttachPayParamsInv DEF RunJob
<1>5. ASSUME NEW o \in OrderNos, ReachCashier(o) \/ Capture(o) \/ ExpireTrade(o) PROVE Inv'
  BY <1>5, ChannelStepInv
<1>6. ASSUME NEW o \in OrderNos, PayWebhook(o) \/ DevMockPayOrder(o) PROVE Inv'
  BY <1>6, PayWebhookInv
<1>7. ASSUME NEW o \in OrderNos, SyncRead(o) PROVE Inv'
  BY <1>7 DEF SyncRead, Inv, TypeOK, WellFormed
<1>8. ASSUME NEW o \in OrderNos, SyncOrderStatus(o) PROVE Inv'
  BY <1>8, SyncOrderStatusInv
<1>9. ASSUME NEW o \in OrderNos, EnsureOrderUnlocked(o) PROVE Inv'
  BY <1>9, EnsureOrderUnlockedInv
<1>10. ASSUME NEW o \in OrderNos, NEW rn \in RefundNos, NEW amt \in RefundAmounts(o),
              RefundOrder(o, rn, amt) \/ DevRefundOrder(o, rn, amt)
       PROVE  Inv'
  BY <1>10, RefundOrderInv
<1>11. CASE CloseExpiredOrders
  BY <1>11, CloseExpiredOrdersInv
<1>12. CASE Crash
  BY <1>12 DEF Crash, Inv, TypeOK, WellFormed
<1>13. CASE UNCHANGED vars
  BY <1>13 DEF vars, Inv, TypeOK, WellFormed
<1>14. QED
  BY <1>1, <1>2, <1>3, <1>4, <1>5, <1>6, <1>7, <1>8, <1>9, <1>10, <1>11, <1>12, <1>13 DEF Next

LEMMA SpecInv == Spec => []Inv
BY InitInv, NextInv, PTL DEF Spec

(* Every reachable state of the order service is well typed: no order is   *)
(* stored without its buyer's types, no ledger column goes negative.       *)
THEOREM TypeCorrect == Spec => []TypeOK
<1>1. Inv => TypeOK
  BY DEF Inv
<1>2. QED
  BY <1>1, SpecInv, PTL

-----------------------------------------------------------------------------
(* What a step can do to one order. *)

Opened(x) == /\ orders[x].status = "none"
             /\ orders'[x].status = "pending" /\ orders'[x].refunded = 0

Voided(x) == /\ orders[x].status = "pending"
             /\ orders'[x] = [orders[x] EXCEPT !.status = "closed"]

MarkedPaid(x) == /\ orders[x].status \in {"pending", "partial_refunded"}
                 /\ orders'[x] = [orders[x] EXCEPT !.status = "paid"]

Refunded(x) ==
    /\ orders[x].status \in {"paid", "partial_refunded"}
    /\ \E amt \in RefundAmounts(x), rn \in RefundNos :
         /\ orders[x].refunded + amt <= orders[x].amount
         /\ orders'[x] = [orders[x] EXCEPT
                !.status = IF orders[x].refunded + amt >= orders[x].amount
                           THEN "refunded" ELSE "partial_refunded",
                !.refunded = orders[x].refunded + amt, !.refundNo = rn]

Kept(x) == orders'[x] = orders[x]

OrderStep == \A x \in OrderNos :
    Kept(x) \/ Opened(x) \/ Voided(x) \/ MarkedPaid(x) \/ Refunded(x)

LEMMA MarkOrderPaidStep ==
    ASSUME Inv, NEW o \in OrderNos, NEW t \in 0 .. MaxTime, MarkOrderPaid(o, t)
    PROVE  OrderStep
<1>1. CASE ~Markable(o, t)
  BY <1>1 DEF MarkOrderPaid, OrderStep, Kept
<1>2. CASE Markable(o, t)
  <2>1. orders[o].status \in {"pending", "partial_refunded"}
    BY <1>2 DEF Markable, Inv, TypeOK, Order, Statuses
  <2>2. orders' = [orders EXCEPT ![o] = [orders[o] EXCEPT !.status = "paid"]]
    BY <1>2 DEF MarkOrderPaid
  <2>3. QED
    BY <2>1, <2>2 DEF OrderStep, Kept, MarkedPaid, Inv, TypeOK
<1>3. QED
  BY <1>1, <1>2

LEMMA CommitOpensOrVoids ==
    ASSUME Inv, NEW t \in txs, NEW o \in OrderNos, NEW p \in Prices, Commit(t, o, p)
    PROVE  \A x \in OrderNos : Kept(x) \/ Opened(x) \/ Voided(x)
<1> DEFINE closed == IF t.olds = {} THEN {} ELSE PendingOf(t)
           new == [status |-> "pending", user |-> t.user, batch |-> t.batch,
                   eps |-> t.eps, amount |-> p * Cardinality(t.eps),
                   expiredAt |-> t.start + TTL, refunded |-> 0, refundNo |-> None]
<1>1. new.status = "pending" /\ new.refunded = 0
  OBVIOUS
<1>2. \A x \in closed : orders[x].status = "pending"
  BY DEF PendingOf
<1>3. /\ orders[o].status = "none"
      /\ orders' = [x \in OrderNos |->
                      IF x = o THEN new
                      ELSE IF x \in closed THEN [orders[x] EXCEPT !.status = "closed"]
                      ELSE orders[x]]
  BY DEF Commit
<1> HIDE DEF closed, new
<1>4. QED
  BY <1>1, <1>2, <1>3 DEF Kept, Opened, Voided

LEMMA RefundStep ==
    ASSUME Inv, NEW o \in OrderNos, NEW rn \in RefundNos, NEW amt \in RefundAmounts(o),
           Refundable(o, rn, amt), BookRefund(o, rn, amt)
    PROVE  OrderStep
<1> DEFINE done == [orders[o] EXCEPT
                !.status = IF orders[o].refunded + amt >= orders[o].amount
                           THEN "refunded" ELSE "partial_refunded",
                !.refunded = orders[o].refunded + amt, !.refundNo = rn]
<1>1. orders' = [orders EXCEPT ![o] = done]
  BY DEF BookRefund
<1>2. orders[o].status \in {"paid", "partial_refunded"}
      /\ orders[o].refunded + amt <= orders[o].amount
  BY DEF Refundable
<1>3. ASSUME orders'[o] = done PROVE Refunded(o)
  BY <1>2, <1>3 DEF Refunded
<1> HIDE DEF done
<1>4. QED
  BY <1>1, <1>3 DEF OrderStep, Kept, Inv, TypeOK

LEMMA NextStep == Inv /\ [Next]_vars => OrderStep
<1> SUFFICES ASSUME Inv, [Next]_vars PROVE OrderStep
  OBVIOUS
<1>1. CASE UNCHANGED orders
  BY <1>1 DEF OrderStep, Kept
<1>2. CASE CommitOrder
  BY <1>2, CommitOpensOrVoids DEF CommitOrder, OrderStep
<1>3. ASSUME NEW o \in OrderNos, PayWebhook(o) \/ DevMockPayOrder(o) PROVE OrderStep
  BY <1>3, MarkOrderPaidStep DEF PayWebhook, DevMockPayOrder, Inv, TypeOK
<1>4. ASSUME NEW o \in OrderNos, SyncOrderStatus(o) PROVE OrderStep
  <2>1. CASE SyncPaid(o)
    BY <2>1, MarkOrderPaidStep DEF SyncPaid, Inv, TypeOK, Trade
  <2>2. CASE SyncClosed(o)
    <3>1. \/ UNCHANGED orders
          \/ /\ orders[o].status = "pending"
             /\ orders' = [orders EXCEPT ![o] = [orders[o] EXCEPT !.status = "closed"]]
      BY <2>2 DEF SyncClosed
    <3>2. QED
      BY <3>1 DEF OrderStep, Kept, Voided, Inv, TypeOK
  <2>3. CASE SyncOther(o)
    BY <2>3 DEF SyncOther, OrderStep, Kept
  <2>4. QED
    BY <1>4, <2>1, <2>2, <2>3 DEF SyncOrderStatus
<1>5. ASSUME NEW o \in OrderNos, NEW rn \in RefundNos, NEW amt \in RefundAmounts(o),
             RefundOrder(o, rn, amt) \/ DevRefundOrder(o, rn, amt)
      PROVE  OrderStep
  BY <1>5, RefundStep DEF RefundOrder, DevRefundOrder, OrderStep, Kept
<1>6. CASE CloseExpiredOrders
  BY <1>6 DEF CloseExpiredOrders, Expired, OrderStep, Kept, Voided
<1>7. ASSUME NEW u \in Users, BeginOrder(u) PROVE UNCHANGED orders
  BY <1>7 DEF BeginOrder, CreateOrder, CreateBatchOrder, Begin
<1>8. ASSUME NEW j \in jobs, RunJob(j) PROVE UNCHANGED orders
  BY <1>8 DEF RunJob, AttachPayParams, CloseChannelOrder
<1>9. ASSUME NEW o \in OrderNos,
             ReachCashier(o) \/ Capture(o) \/ ExpireTrade(o) \/ SyncRead(o)
             \/ EnsureOrderUnlocked(o)
      PROVE  UNCHANGED orders
  BY <1>9 DEF ReachCashier, Capture, ExpireTrade, SyncRead, EnsureOrderUnlocked
<1>10. CASE Tick \/ Crash \/ UNCHANGED vars
  BY <1>1, <1>10 DEF Tick, Crash, vars
<1>11. QED
  BY <1>1, <1>2, <1>3, <1>4, <1>5, <1>6, <1>7, <1>8, <1>9, <1>10 DEF Next

-----------------------------------------------------------------------------
(* Refunds add up. *)

LEMMA RefundAccountedInit == Init => RefundAccounted
BY DEF Init, RefundAccounted, NoOrder, Settled

LEMMA RefundAccountedStep == Inv /\ Inv' /\ OrderStep /\ RefundAccounted => RefundAccounted'
<1> SUFFICES ASSUME Inv, Inv', OrderStep, RefundAccounted, NEW o \in OrderNos
             PROVE  /\ orders'[o].refunded <= orders'[o].amount
                    /\ orders'[o].status \notin Settled => orders'[o].refunded = 0
                    /\ orders'[o].status = "partial_refunded" => orders'[o].refunded > 0
                    /\ orders'[o].status \in Settled =>
                          (orders'[o].status = "refunded" <=> orders'[o].refunded = orders'[o].amount)
  BY DEF RefundAccounted, Settled
<1>1. /\ orders[o] \in Order /\ orders'[o] \in Order
      /\ orders[o].status # "none" => orders[o].amount > 0
      /\ orders[o].refunded <= orders[o].amount
      /\ orders[o].status \notin Settled => orders[o].refunded = 0
      /\ orders[o].status = "partial_refunded" => orders[o].refunded > 0
      /\ orders[o].status \in Settled =>
            (orders[o].status = "refunded" <=> orders[o].refunded = orders[o].amount)
  BY DEF Inv, TypeOK, WellFormed, RefundAccounted
<1>2. CASE Kept(o)
  BY <1>1, <1>2 DEF Kept
<1>3. CASE Opened(o)
  BY <1>1, <1>3 DEF Opened, Settled, Order
<1>4. CASE Voided(o)
  BY <1>1, <1>4 DEF Voided, Settled, Order
<1>5. CASE MarkedPaid(o)
  BY <1>1, <1>5 DEF MarkedPaid, Settled, Order
<1>6. CASE Refunded(o)
  <2>1. PICK amt \in RefundAmounts(o), rn \in RefundNos :
            /\ orders[o].refunded + amt <= orders[o].amount
            /\ orders'[o] = [orders[o] EXCEPT
                   !.status = IF orders[o].refunded + amt >= orders[o].amount
                              THEN "refunded" ELSE "partial_refunded",
                   !.refunded = orders[o].refunded + amt, !.refundNo = rn]
    BY <1>6 DEF Refunded
  <2>2. amt \in Nat /\ amt > 0
    BY DEF RefundAmounts, Inv, TypeOK, Order
  <2>3. /\ orders'[o].refunded = orders[o].refunded + amt
        /\ orders'[o].amount = orders[o].amount
        /\ orders'[o].status = IF orders[o].refunded + amt >= orders[o].amount
                               THEN "refunded" ELSE "partial_refunded"
    BY <2>1, <1>1 DEF Order
  <2>4. QED
    BY <1>1, <2>1, <2>2, <2>3 DEF Settled, Order
<1>7. QED
  BY <1>2, <1>3, <1>4, <1>5, <1>6 DEF OrderStep

(* RefundOrder, DevRefundOrder and MarkOrderPaid together never refund     *)
(* more than an order's amount, and "refunded" means all of it, also when  *)
(* a repeated callback turns a partially refunded order back into a paid   *)
(* one.                                                                    *)
THEOREM RefundsAddUp == Spec => []RefundAccounted
<1>1. Inv /\ RefundAccounted /\ [Next]_vars => RefundAccounted'
  BY NextInv, NextStep, RefundAccountedStep
<1>2. QED
  BY <1>1, RefundAccountedInit, SpecInv, PTL DEF Spec

(* No step takes an order back: a paid order never becomes pending or      *)
(* closed, a closed or refunded one keeps its status, and refunds only     *)
(* grow, whatever an interleaved sync or expiry had read before.           *)
THEOREM OrdersOnlyAdvance == Spec => StatusOnlyAdvances
<1>1. ASSUME Inv, RefundAccounted, OrderStep, NEW o \in OrderNos
      PROVE  /\ orders[o].status \in Settled => orders'[o].status \in Settled
             /\ orders[o].status \in {"closed", "refunded"} => orders'[o].status = orders[o].status
             /\ orders'[o].refunded >= orders[o].refunded
  <2>1. orders[o] \in Order
    BY <1>1 DEF Inv, TypeOK
  <2>2. CASE Kept(o) \/ Voided(o) \/ MarkedPaid(o)
    BY <2>1, <2>2 DEF Kept, Voided, MarkedPaid, Settled, Order
  <2>3. CASE Refunded(o)
    BY <2>1, <2>3 DEF Refunded, Settled, Order, RefundAmounts
  <2>4. CASE Opened(o)
    BY <1>1, <2>1, <2>4 DEF Opened, Settled, Order, RefundAccounted
  <2>5. QED
    BY <1>1, <2>2, <2>3, <2>4 DEF OrderStep
<1>2. Inv /\ RefundAccounted /\ [Next]_vars =>
        [\A o \in OrderNos :
            /\ orders[o].status \in Settled => orders'[o].status \in Settled
            /\ orders[o].status \in {"closed", "refunded"} => orders'[o].status = orders[o].status
            /\ orders'[o].refunded >= orders[o].refunded]_vars
  BY <1>1, NextStep
<1>3. QED
  BY <1>2, SpecInv, RefundsAddUp, PTL DEF Spec, StatusOnlyAdvances

-----------------------------------------------------------------------------
(* Access is what was paid for. *)

SettledOrders == {x \in OrderNos : orders[x].status \in Settled}

(* Either nobody's access changes and no order is settled or unsettled, or *)
(* one order is settled and its episodes are granted in the same step.     *)
AccessStep ==
    \/ /\ unlocks' = unlocks
       /\ \A x \in OrderNos : orders[x].status \in Settled <=> orders'[x].status \in Settled
    \/ \E o \in OrderNos :
         /\ unlocks' = unlocks \cup Grants(o)
         /\ orders[o].status # "none" /\ orders'[o].status \in Settled
         /\ \A x \in OrderNos \ {o} :
              orders[x].status \in Settled <=> orders'[x].status \in Settled

LEMMA OnlyMarkedSettles ==
    ASSUME Inv, NEW x \in OrderNos, Kept(x) \/ Opened(x) \/ Voided(x) \/ Refunded(x)
    PROVE  orders[x].status \in Settled <=> orders'[x].status \in Settled
<1>1. orders[x] \in Order
  BY DEF Inv, TypeOK
<1>2. CASE Kept(x) \/ Opened(x) \/ Voided(x)
  BY <1>1, <1>2 DEF Kept, Opened, Voided, Settled, Order
<1>3. CASE Refunded(x)
  BY <1>1, <1>3 DEF Refunded, Settled, Order
<1>4. QED
  BY <1>2, <1>3

LEMMA MarkOrderPaidAccess ==
    ASSUME Inv, NEW o \in OrderNos, NEW t \in 0 .. MaxTime, MarkOrderPaid(o, t)
    PROVE  AccessStep
<1>1. CASE ~Markable(o, t)
  BY <1>1 DEF MarkOrderPaid, AccessStep
<1>2. CASE Markable(o, t)
  <2>1. /\ orders' = [orders EXCEPT ![o] = [orders[o] EXCEPT !.status = "paid"]]
        /\ unlocks' = unlocks \cup Grants(o)
        /\ orders[o].status # "none"
    BY <1>2 DEF MarkOrderPaid, Markable
  <2>2. orders'[o].status \in Settled
        /\ \A x \in OrderNos \ {o} : orders'[x] = orders[x]
    BY <2>1 DEF Inv, TypeOK, Order, Settled
  <2>3. QED
    BY <2>1, <2>2 DEF AccessStep
<1>3. QED
  BY <1>1, <1>2

LEMMA NextAccess == Inv /\ [Next]_vars => AccessStep
<1> SUFFICES ASSUME Inv, [Next]_vars PROVE AccessStep
  OBVIOUS
<1>1. OrderStep
  BY NextStep
<1>2. ASSUME unlocks' = unlocks, \A x \in OrderNos : ~MarkedPaid(x) PROVE AccessStep
  BY <1>1, <1>2, OnlyMarkedSettles DEF OrderStep, AccessStep
<1>3. CASE UNCHANGED <<orders, unlocks>>
  BY <1>3 DEF AccessStep
<1>4. CASE CommitOrder
  <2>1. PICK t \in txs, o \in OrderNos, p \in Prices : Commit(t, o, p)
    BY <1>4 DEF CommitOrder
  <2>2. unlocks' = unlocks
    BY <2>1 DEF Commit
  <2> DEFINE closed == IF t.olds = {} THEN {} ELSE PendingOf(t)
             new == [status |-> "pending", user |-> t.user, batch |-> t.batch,
                   eps |-> t.eps, amount |-> p * Cardinality(t.eps),
                   expiredAt |-> t.start + TTL, refunded |-> 0, refundNo |-> None]
  <2>3. new.status = "pending"
    OBVIOUS
  <2>4. orders' = [x \in OrderNos |->
                      IF x = o THEN new
                      ELSE IF x \in closed THEN [orders[x] EXCEPT !.status = "closed"]
                      ELSE orders[x]]
    BY <2>1 DEF Commit
  <2> HIDE DEF closed, new
  <2>5. ASSUME NEW x \in OrderNos PROVE ~MarkedPaid(x)
    BY <2>3, <2>4 DEF MarkedPaid, Inv, TypeOK, Order
  <2>6. QED
    BY <2>2, <2>5, <1>2
<1>5. ASSUME NEW o \in OrderNos, PayWebhook(o) \/ DevMockPayOrder(o) PROVE AccessStep
  BY <1>5, MarkOrderPaidAccess DEF PayWebhook, DevMockPayOrder, Inv, TypeOK
<1>6. ASSUME NEW o \in OrderNos, SyncOrderStatus(o) PROVE AccessStep
  <2>1. CASE SyncPaid(o)
    BY <2>1, MarkOrderPaidAccess DEF SyncPaid, Inv, TypeOK, Trade
  <2>2. CASE SyncClosed(o)
    <3>1. \/ UNCHANGED orders
          \/ /\ orders[o].status = "pending"
             /\ orders' = [orders EXCEPT ![o] = [orders[o] EXCEPT !.status = "closed"]]
      BY <2>2 DEF SyncClosed
    <3>2. ASSUME NEW x \in OrderNos PROVE ~MarkedPaid(x)
      BY <3>1 DEF MarkedPaid, Inv, TypeOK, Order
    <3>3. QED
      BY <2>2, <3>2, <1>2 DEF SyncClosed
  <2>3. CASE SyncOther(o)
    BY <2>3, <1>3 DEF SyncOther
  <2>4. QED
    BY <1>6, <2>1, <2>2, <2>3 DEF SyncOrderStatus
<1>7. ASSUME NEW o \in OrderNos, NEW rn \in RefundNos, NEW amt \in RefundAmounts(o),
             RefundOrder(o, rn, amt) \/ DevRefundOrder(o, rn, amt)
      PROVE  AccessStep
  <2>1. unlocks' = unlocks
    BY <1>7 DEF RefundOrder, DevRefundOrder
  <2>2. CASE UNCHANGED orders
    BY <2>1, <2>2, <1>3
  <2>3. CASE BookRefund(o, rn, amt)
    <3>1. ASSUME NEW x \in OrderNos PROVE ~MarkedPaid(x)
      BY <2>3 DEF BookRefund, MarkedPaid, Inv, TypeOK, Order
    <3>2. QED
      BY <2>1, <3>1, <1>2
  <2>4. QED
    BY <1>7, <2>2, <2>3 DEF RefundOrder, DevRefundOrder
<1>8. CASE CloseExpiredOrders
  <2>1. ASSUME NEW x \in OrderNos PROVE ~MarkedPaid(x)
    BY <1>8 DEF CloseExpiredOrders, MarkedPaid, Inv, TypeOK, Order
  <2>2. QED
    BY <1>8, <2>1, <1>2 DEF CloseExpiredOrders
<1>9. ASSUME NEW o \in OrderNos, EnsureOrderUnlocked(o) PROVE AccessStep
  BY <1>9 DEF EnsureOrderUnlocked, AccessStep, Settled
<1>10. ASSUME NEW u \in Users, BeginOrder(u) PROVE UNCHANGED <<orders, unlocks>>
  BY <1>10 DEF BeginOrder, CreateOrder, CreateBatchOrder, Begin
<1>11. ASSUME NEW j \in jobs, RunJob(j) PROVE UNCHANGED <<orders, unlocks>>
  BY <1>11 DEF RunJob, AttachPayParams, CloseChannelOrder
<1>12. ASSUME NEW o \in OrderNos, ReachCashier(o) \/ Capture(o) \/ ExpireTrade(o) \/ SyncRead(o)
       PROVE  UNCHANGED <<orders, unlocks>>
  BY <1>12 DEF ReachCashier, Capture, ExpireTrade, SyncRead
<1>13. CASE Tick \/ Crash \/ UNCHANGED vars
  BY <1>3, <1>13 DEF Tick, Crash, vars
<1>14. QED
  BY <1>3, <1>4, <1>5, <1>6, <1>7, <1>8, <1>9, <1>10, <1>11, <1>12, <1>13 DEF Next

(* An order that was placed keeps its buyer and its episodes. *)
LEMMA ClaimsKept ==
    ASSUME Inv, OrderStep, NEW x \in OrderNos, orders[x].status # "none"
    PROVE  orders'[x].user = orders[x].user /\ orders'[x].eps = orders[x].eps
<1>1. orders[x] \in Order
  BY DEF Inv, TypeOK
<1>2. CASE Kept(x) \/ Voided(x) \/ MarkedPaid(x)
  BY <1>1, <1>2 DEF Kept, Voided, MarkedPaid, Order
<1>3. CASE Refunded(x)
  BY <1>1, <1>3 DEF Refunded, Order
<1>4. QED
  BY <1>2, <1>3 DEF OrderStep, Opened

(* Whatever the interleaving of callbacks, syncs, expiry, refunds and the  *)
(* client's own unlock request, a buyer has access to exactly the episodes *)
(* of the orders that count as paid.                                       *)
THEOREM AccessIsPaidFor == Spec => []AccessMatchesPayment
<1>1. Init => AccessMatchesPayment
  BY DEF Init, AccessMatchesPayment, NoOrder, Settled
<1>2. ASSUME Inv, AccessMatchesPayment, [Next]_vars PROVE AccessMatchesPayment'
  <2>1. OrderStep /\ AccessStep
    BY <1>2, NextStep, NextAccess
  <2> DEFINE G(x) == {<<orders[x].user, e>> : e \in orders[x].eps}
             H(x) == {<<orders'[x].user, e>> : e \in orders'[x].eps}
             S == {x \in OrderNos : orders[x].status \in Settled}
             T == {x \in OrderNos : orders'[x].status \in Settled}
  <2>2. ASSUME NEW x \in OrderNos, orders[x].status # "none" PROVE H(x) = G(x)
    BY <1>2, <2>1, <2>2, ClaimsKept
  <2>3. unlocks = UNION {G(x) : x \in S}
    BY <1>2 DEF AccessMatchesPayment, Grants
  <2>4. \A x \in S : orders[x].status # "none"
    BY DEF Settled
  <2> SUFFICES unlocks' = UNION {H(x) : x \in T}
    BY DEF AccessMatchesPayment, Grants, Settled
  <2>5. CASE unlocks' = unlocks /\ S = T
    <3>1. {H(x) : x \in T} = {G(x) : x \in S}
      <4> HIDE DEF G, H
      <4> QED
        BY <2>2, <2>4, <2>5
    <3>2. QED
      BY <2>3, <2>5, <3>1
  <2>6. ASSUME NEW o \in OrderNos, unlocks' = unlocks \cup Grants(o),
               orders[o].status # "none", T = S \cup {o}
        PROVE  unlocks' = UNION {H(x) : x \in T}
    <3>1. Grants(o) = G(o)
      BY DEF Grants
    <3>2. \A x \in T : H(x) = G(x)
      BY <2>2, <2>4, <2>6
    <3> HIDE DEF G, H, S, T
    <3>3. QED
      BY <3>1, <3>2, <2>3, <2>6
  <2>7. CASE \E o \in OrderNos :
               /\ unlocks' = unlocks \cup Grants(o)
               /\ orders[o].status # "none" /\ orders'[o].status \in Settled
               /\ \A x \in OrderNos \ {o} :
                    orders[x].status \in Settled <=> orders'[x].status \in Settled
    <3>1. PICK o \in OrderNos :
               /\ unlocks' = unlocks \cup Grants(o)
               /\ orders[o].status # "none" /\ orders'[o].status \in Settled
               /\ \A x \in OrderNos \ {o} :
                    orders[x].status \in Settled <=> orders'[x].status \in Settled
      BY <2>7
    <3>2. T = S \cup {o}
      BY <1>2, <2>1, <3>1 DEF OrderStep, Kept, Opened, Voided, MarkedPaid, Refunded, Settled,
         Inv, TypeOK, Order
    <3>3. QED
      BY <2>6, <3>1, <3>2
  <2>8. QED
    BY <2>1, <2>5, <2>7 DEF AccessStep
<1>3. QED
  BY <1>1, <1>2, SpecInv, PTL DEF Spec

-----------------------------------------------------------------------------
(* Every step of the service is a step of the order book, or none.         *)

Claim(x) == {<<orders[x].user, e>> : e \in orders[x].eps}
PhaseMap == [o \in OrderNos |-> PhaseOf(orders[o].status)]
ClaimMap == [o \in OrderNos |-> Claim(o)]

SameClaims == \A x \in OrderNos : orders[x].status # "none" => Claim(x)' = Claim(x)

LEMMA NextClaims == Inv /\ [Next]_vars => SameClaims
<1> SUFFICES ASSUME Inv, [Next]_vars, NEW x \in OrderNos, orders[x].status # "none"
             PROVE  Claim(x)' = Claim(x)
  BY DEF SameClaims
<1>1. QED
  BY NextStep, ClaimsKept DEF Claim

(* An order without a buyer has no episodes: it claims nothing before and  *)
(* after any step that does not place it.                                  *)
EmptyUntilPlaced == \A x \in OrderNos : orders[x].status = "none" => orders[x] = NoOrder

LEMMA EmptyUntilPlacedInv == Spec => []EmptyUntilPlaced
<1>1. Init => EmptyUntilPlaced
  BY DEF Init, EmptyUntilPlaced
<1>2. ASSUME Inv, EmptyUntilPlaced, OrderStep PROVE EmptyUntilPlaced'
  <2>1. ASSUME NEW x \in OrderNos, orders'[x].status = "none" PROVE orders'[x] = NoOrder
    <3>1. orders[x] \in Order
      BY <1>2 DEF Inv, TypeOK
    <3>2. CASE Kept(x)
      BY <1>2, <2>1, <3>2 DEF Kept, EmptyUntilPlaced
    <3>3. ~(Opened(x) \/ Voided(x) \/ MarkedPaid(x))
      BY <2>1, <3>1 DEF Opened, Voided, MarkedPaid, Order
    <3>4. ~Refunded(x)
      BY <2>1, <3>1 DEF Refunded, Order
    <3>5. QED
      BY <1>2, <3>2, <3>3, <3>4 DEF OrderStep
  <2>2. QED
    BY <2>1 DEF EmptyUntilPlaced
<1>3. QED
  BY <1>1, <1>2, SpecInv, NextStep, PTL DEF Spec

LEMMA BookStutter ==
    ASSUME \A x \in OrderNos : PhaseOf(orders'[x].status) = PhaseOf(orders[x].status),
           \A x \in OrderNos : Claim(x)' = Claim(x),
           unlocks' = unlocks
    PROVE  UNCHANGED Book!bookVars
<1>1. \A x \in OrderNos : Grants(x)' = Grants(x)
  BY DEF Claim, Grants
<1>2. QED
  BY <1>1 DEF Book!bookVars

(* The vocabulary of the book, in terms of the service. *)
LEMMA BookMap ==
    /\ Book!BookNext <=>
         \/ \E o \in OrderNos :
              \/ \E rights \in SUBSET (Users \X Episodes), replaced \in SUBSET Book!Due :
                    Book!Place(o, rights, replaced)
              \/ Book!Settle(o)
              \/ Book!Reverse(o)
         \/ \E S \in SUBSET Book!Due : Book!VoidDue(S)
    /\ Book!bookVars = <<PhaseMap, ClaimMap, unlocks>>
    /\ Book!Due = {o \in OrderNos : PhaseMap[o] = "due"}
BY DEF Book!BookNext, Book!bookVars, Book!Due, PhaseMap, ClaimMap, Claim, Grants

LEMMA BookActions ==
    ASSUME NEW o \in OrderNos, NEW rights, NEW replaced
    PROVE  /\ Book!Place(o, rights, replaced) <=>
                /\ PhaseMap[o] = "none" /\ rights # {}
                /\ PhaseMap' = [x \in OrderNos |-> IF x = o THEN "due"
                                  ELSE IF x \in replaced THEN "void" ELSE PhaseMap[x]]
                /\ ClaimMap' = [ClaimMap EXCEPT ![o] = rights]
                /\ UNCHANGED unlocks
           /\ Book!Settle(o) <=>
                /\ PhaseMap[o] = "due"
                /\ PhaseMap' = [PhaseMap EXCEPT ![o] = "settled"]
                /\ unlocks' = unlocks \cup ClaimMap[o]
                /\ UNCHANGED ClaimMap
           /\ Book!Reverse(o) <=>
                /\ PhaseMap[o] = "settled"
                /\ PhaseMap' = [PhaseMap EXCEPT ![o] = "reversed"]
                /\ UNCHANGED <<ClaimMap, unlocks>>
           /\ Book!VoidDue(replaced) <=>
                /\ PhaseMap' = [x \in OrderNos |-> IF x \in replaced THEN "void" ELSE PhaseMap[x]]
                /\ UNCHANGED <<ClaimMap, unlocks>>
BY DEF Book!Place, Book!Settle, Book!Reverse, Book!VoidDue, PhaseMap, ClaimMap, Claim, Grants

LEMMA NoClaimChange ==
    ASSUME OrderStep, SameClaims, \A x \in OrderNos : ~Opened(x)
    PROVE  \A x \in OrderNos : Claim(x)' = Claim(x)
<1> SUFFICES ASSUME NEW x \in OrderNos PROVE Claim(x)' = Claim(x)
  OBVIOUS
<1>1. CASE Kept(x)
  BY <1>1 DEF Kept, Claim
<1>2. CASE ~Kept(x)
  BY <1>2 DEF OrderStep, Voided, MarkedPaid, Refunded, SameClaims
<1>3. QED
  BY <1>1, <1>2

LEMMA BookCommit ==
    ASSUME Inv, SameClaims, EmptyUntilPlaced,
           NEW t \in txs, NEW o \in OrderNos, NEW p \in Prices, Commit(t, o, p)
    PROVE  Book!BookNext
<1> DEFINE closed == IF t.olds = {} THEN {} ELSE PendingOf(t) \ {o}
           rights == {<<t.user, e>> : e \in t.eps}
           new == [status |-> "pending", user |-> t.user, batch |-> t.batch,
                   eps |-> t.eps, amount |-> p * Cardinality(t.eps),
                   expiredAt |-> t.start + TTL, refunded |-> 0, refundNo |-> None]
<1>1. /\ orders[o].status = "none"
      /\ orders' = [x \in OrderNos |->
                      IF x = o THEN new
                      ELSE IF x \in closed THEN [orders[x] EXCEPT !.status = "closed"]
                      ELSE orders[x]]
      /\ UNCHANGED unlocks
  BY DEF Commit
<1>2. closed \subseteq {x \in OrderNos : orders[x].status = "pending"}
  BY DEF PendingOf
<1>3. new.status = "pending" /\ new.user = t.user /\ new.eps = t.eps
  OBVIOUS
<1>4. rights \in SUBSET (Users \X Episodes) /\ rights # {}
  <2>1. t \in Tx /\ t.eps # {}
    BY DEF Inv, TypeOK, WellFormed
  <2>2. t.user \in Users /\ t.eps \subseteq Episodes
    BY <2>1 DEF Tx
  <2>3. PICK e \in t.eps : TRUE
    BY <2>1
  <2>4. <<t.user, e>> \in rights
    OBVIOUS
  <2>5. rights \subseteq Users \X Episodes
    BY <2>2
  <2>6. QED
    BY <2>4, <2>5
<1> HIDE DEF closed, new
<1>5. /\ PhaseMap[o] = "none"
      /\ PhaseMap' = [x \in OrderNos |-> IF x = o THEN "due"
                        ELSE IF x \in closed THEN "void" ELSE PhaseMap[x]]
  BY <1>1, <1>2, <1>3 DEF PhaseMap, PhaseOf, Inv, TypeOK, Order
<1>6. closed \in SUBSET Book!Due
  BY <1>2, BookMap DEF PhaseMap, PhaseOf
<1>7. ClaimMap' = [ClaimMap EXCEPT ![o] = rights]
  <2>1. Claim(o)' = rights
    BY <1>1, <1>3 DEF Claim
  <2>2. ASSUME NEW x \in OrderNos, x # o PROVE Claim(x)' = Claim(x)
    <3>1. CASE x \in closed
      BY <3>1, <1>2 DEF SameClaims
    <3>2. CASE x \notin closed
      BY <1>1, <2>2, <3>2 DEF Claim
    <3>3. QED
      BY <3>1, <3>2
  <2> HIDE DEF rights
  <2>3. QED
    BY <2>1, <2>2 DEF ClaimMap
<1>8. Book!Place(o, rights, closed)
  BY <1>1, <1>4, <1>5, <1>7, BookActions
<1>9. QED
  BY <1>4, <1>6, <1>8, BookMap

LEMMA BookVoid ==
    ASSUME Inv, OrderStep, SameClaims, NEW C \in SUBSET OrderNos,
           \A x \in C : orders[x].status = "pending",
           orders' = [x \in OrderNos |->
                        IF x \in C THEN [orders[x] EXCEPT !.status = "closed"] ELSE orders[x]],
           unlocks' = unlocks
    PROVE  Book!BookNext
<1>1. \A x \in OrderNos : ~Opened(x)
  BY DEF Opened, Inv, TypeOK, Order
<1>2. ClaimMap' = ClaimMap
  BY <1>1, NoClaimChange DEF ClaimMap
<1>3. PhaseMap' = [x \in OrderNos |-> IF x \in C THEN "void" ELSE PhaseMap[x]]
  BY DEF PhaseMap, PhaseOf, Inv, TypeOK, Order
<1>4. C \in SUBSET Book!Due
  BY BookMap DEF PhaseMap, PhaseOf
<1>5. PICK o : o \in OrderNos \/ OrderNos = {}
  OBVIOUS
<1>6. Book!VoidDue(C)
  BY <1>2, <1>3 DEF Book!VoidDue, PhaseMap, ClaimMap, Claim, Grants
<1>7. QED
  BY <1>4, <1>6, BookMap

LEMMA BookPaid ==
    ASSUME Inv, OrderStep, SameClaims, AccessMatchesPayment,
           NEW o \in OrderNos, NEW t \in 0 .. MaxTime, MarkOrderPaid(o, t)
    PROVE  Book!BookNext \/ UNCHANGED Book!bookVars
<1>1. CASE ~Markable(o, t)
  BY <1>1, BookStutter DEF MarkOrderPaid, Claim
<1>2. CASE Markable(o, t)
  <2>1. /\ orders' = [orders EXCEPT ![o] = [orders[o] EXCEPT !.status = "paid"]]
        /\ unlocks' = unlocks \cup Grants(o)
        /\ orders[o].status \in {"pending", "partial_refunded"}
    BY <1>2 DEF MarkOrderPaid, Markable, Inv, TypeOK, Order, Statuses
  <2>2. \A x \in OrderNos : ~Opened(x)
    BY <2>1 DEF Opened, Inv, TypeOK, Order
  <2>3. \A x \in OrderNos : Claim(x)' = Claim(x)
    BY <2>2, NoClaimChange
  <2>4. CASE orders[o].status = "pending"
    <3>1. PhaseMap[o] = "due" /\ PhaseMap' = [PhaseMap EXCEPT ![o] = "settled"]
      BY <2>1, <2>4 DEF PhaseMap, PhaseOf, Inv, TypeOK, Order
    <3>2. unlocks' = unlocks \cup ClaimMap[o] /\ UNCHANGED ClaimMap
      BY <2>1, <2>3 DEF ClaimMap, Claim, Grants
    <3>3. Book!Settle(o)
      BY <3>1, <3>2, BookActions
    <3>4. QED
      BY <3>3, BookMap
  <2>5. CASE orders[o].status = "partial_refunded"
    <3>1. Grants(o) \subseteq unlocks
      BY <2>5 DEF AccessMatchesPayment, Settled
    <3>2. \A x \in OrderNos : PhaseOf(orders'[x].status) = PhaseOf(orders[x].status)
      BY <2>1, <2>5 DEF PhaseOf, Inv, TypeOK, Order
    <3>3. QED
      BY <2>1, <2>3, <3>1, <3>2, BookStutter
  <2>6. QED
    BY <2>1, <2>4, <2>5
<1>3. QED
  BY <1>1, <1>2

LEMMA BookRefunded ==
    ASSUME Inv, OrderStep, SameClaims, unlocks' = unlocks,
           NEW o \in OrderNos, NEW rn \in RefundNos, NEW amt \in RefundAmounts(o),
           Refundable(o, rn, amt), BookRefund(o, rn, amt)
    PROVE  Book!BookNext \/ UNCHANGED Book!bookVars
<1> DEFINE s == IF orders[o].refunded + amt >= orders[o].amount
                THEN "refunded" ELSE "partial_refunded"
<1>1. /\ orders[o].status \in {"paid", "partial_refunded"}
      /\ orders'[o].status = s
      /\ \A x \in OrderNos \ {o} : orders'[x] = orders[x]
  BY DEF BookRefund, Refundable, Inv, TypeOK, Order
<1>2. \A x \in OrderNos : ~Opened(x)
  BY <1>1 DEF Opened
<1>3. \A x \in OrderNos : Claim(x)' = Claim(x)
  BY <1>2, NoClaimChange
<1>4. CASE s = "refunded"
  <2>1. PhaseMap[o] = "settled" /\ PhaseMap' = [PhaseMap EXCEPT ![o] = "reversed"]
    BY <1>1, <1>4 DEF PhaseMap, PhaseOf
  <2>2. Book!Reverse(o)
    BY <2>1, <1>3, BookActions DEF ClaimMap
  <2>3. QED
    BY <2>2, BookMap
<1>5. CASE s = "partial_refunded"
  <2>1. \A x \in OrderNos : PhaseOf(orders'[x].status) = PhaseOf(orders[x].status)
    BY <1>1, <1>5 DEF PhaseOf
  <2>2. QED
    BY <2>1, <1>3, BookStutter
<1>6. QED
  BY <1>4, <1>5

LEMMA BookStep ==
    ASSUME Inv, EmptyUntilPlaced, AccessMatchesPayment, [Next]_vars
    PROVE  Book!BookNext \/ UNCHANGED Book!bookVars
<1>1. OrderStep /\ SameClaims
  BY NextStep, NextClaims
<1>2. ASSUME UNCHANGED <<orders, unlocks>> PROVE UNCHANGED Book!bookVars
  BY <1>2, BookStutter DEF Claim
<1>3. CASE CommitOrder
  BY <1>1, <1>3, BookCommit DEF CommitOrder
<1>4. ASSUME NEW o \in OrderNos, PayWebhook(o) \/ DevMockPayOrder(o)
      PROVE  Book!BookNext \/ UNCHANGED Book!bookVars
  BY <1>1, <1>4, BookPaid DEF PayWebhook, DevMockPayOrder, Inv, TypeOK
<1>5. ASSUME NEW o \in OrderNos, SyncOrderStatus(o)
      PROVE  Book!BookNext \/ UNCHANGED Book!bookVars
  <2>1. CASE SyncPaid(o)
    BY <1>1, <2>1, BookPaid DEF SyncPaid, Inv, TypeOK, Trade
  <2>2. CASE SyncClosed(o)
    <3> DEFINE C == IF orders[o].status = "pending" THEN {o} ELSE {}
    <3>1. orders' = [x \in OrderNos |->
                      IF x \in C THEN [orders[x] EXCEPT !.status = "closed"] ELSE orders[x]]
      BY <2>2 DEF SyncClosed, Inv, TypeOK
    <3>2. C \in SUBSET OrderNos /\ \A x \in C : orders[x].status = "pending"
      OBVIOUS
    <3> HIDE DEF C
    <3>3. QED
      BY <1>1, <2>2, <3>1, <3>2, BookVoid DEF SyncClosed
  <2>3. CASE SyncOther(o)
    BY <1>2, <2>3 DEF SyncOther
  <2>4. QED
    BY <1>5, <2>1, <2>2, <2>3 DEF SyncOrderStatus
<1>6. ASSUME NEW o \in OrderNos, NEW rn \in RefundNos, NEW amt \in RefundAmounts(o),
             RefundOrder(o, rn, amt) \/ DevRefundOrder(o, rn, amt)
      PROVE  Book!BookNext \/ UNCHANGED Book!bookVars
  BY <1>1, <1>2, <1>6, BookRefunded DEF RefundOrder, DevRefundOrder
<1>7. CASE CloseExpiredOrders
  <2> DEFINE late == {o \in OrderNos : Expired(o)}
  <2>1. /\ orders' = [o \in OrderNos |->
                      IF o \in late THEN [orders[o] EXCEPT !.status = "closed"] ELSE orders[o]]
        /\ unlocks' = unlocks
    BY <1>7 DEF CloseExpiredOrders
  <2>2. late \in SUBSET OrderNos /\ \A x \in late : orders[x].status = "pending"
    BY DEF Expired
  <2> HIDE DEF late
  <2>3. QED
    BY <1>1, <2>1, <2>2, BookVoid
<1>8. ASSUME NEW o \in OrderNos, EnsureOrderUnlocked(o) PROVE UNCHANGED Book!bookVars
  BY <1>2, <1>8 DEF EnsureOrderUnlocked, AccessMatchesPayment, Settled
<1>9. ASSUME NEW u \in Users, BeginOrder(u) PROVE UNCHANGED <<orders, unlocks>>
  BY <1>9 DEF BeginOrder, CreateOrder, CreateBatchOrder, Begin
<1>10. ASSUME NEW j \in jobs, RunJob(j) PROVE UNCHANGED <<orders, unlocks>>
  BY <1>10 DEF RunJob, AttachPayParams, CloseChannelOrder
<1>11. ASSUME NEW o \in OrderNos, ReachCashier(o) \/ Capture(o) \/ ExpireTrade(o) \/ SyncRead(o)
       PROVE  UNCHANGED <<orders, unlocks>>
  BY <1>11 DEF ReachCashier, Capture, ExpireTrade, SyncRead
<1>12. CASE Tick \/ Crash \/ UNCHANGED vars
  BY <1>2, <1>12 DEF Tick, Crash, vars
<1>13. QED
  BY <1>2, <1>3, <1>4, <1>5, <1>6, <1>7, <1>8, <1>9, <1>10, <1>11, <1>12 DEF Next

(* The order service implements the order book: whatever happens inside,   *)
(* a buyer sees orders that are placed, settled with all their rights at   *)
(* once, voided without granting any, or reversed.                         *)
THEOREM OrdersImplementBook == Spec => ImplementsBook
<1>1. Init => Book!BookInit
  BY DEF Init, Book!BookInit, PhaseOf, NoOrder, Grants
<1>2. Inv /\ EmptyUntilPlaced /\ AccessMatchesPayment /\ [Next]_vars
        => [Book!BookNext]_(Book!bookVars)
  BY BookStep
<1>3. QED
  BY <1>1, <1>2, SpecInv, EmptyUntilPlacedInv, AccessIsPaidFor, PTL
     DEF Spec, ImplementsBook, Book!BookSpec

-----------------------------------------------------------------------------
(* One pending order for each key: the advisory lock.                      *)

LockIsExclusive == \A t, u \in txs : SameKey(t, u) => t = u

(* A batch that found no pending order will find none when it commits. *)
ReadHolds == \A t \in txs : t.batch /\ t.olds = {} => PendingOf(t) = {}

LockInv == LockIsExclusive /\ ReadHolds /\ SinglePending

(* Only a commit places an order. *)
LEMMA OnlyCommitOpens ==
    ASSUME Inv, [Next]_vars, ~CommitOrder, NEW x \in OrderNos, orders[x].status = "none"
    PROVE  orders'[x] = orders[x]
<1>1. OrderStep
  BY NextStep
<1>2. ASSUME Opened(x) PROVE FALSE
  <2>1. ASSUME NEW o \in OrderNos, NEW t, MarkOrderPaid(o, t) PROVE FALSE
    BY <1>2, <2>1 DEF Opened, MarkOrderPaid, Markable, Inv, TypeOK
  <2>2. ASSUME NEW o \in OrderNos, NEW rn, NEW amt, Refundable(o, rn, amt), BookRefund(o, rn, amt)
        PROVE  FALSE
    BY <1>2, <2>2 DEF Opened, Refundable, BookRefund, Inv, TypeOK
  <2>3. ASSUME NEW o \in OrderNos, SyncClosed(o) PROVE FALSE
    BY <1>2, <2>3 DEF Opened, SyncClosed, Inv, TypeOK
  <2>4. orders' # orders
    BY <1>2 DEF Opened
  <2>5. QED
    BY <1>2, <2>1, <2>2, <2>3, <2>4
       DEF Next, Opened, Tick, BeginOrder, CreateOrder, CreateBatchOrder, Begin, RunJob,
           AttachPayParams, CloseChannelOrder, ReachCashier, Capture, ExpireTrade, PayWebhook,
           DevMockPayOrder, SyncRead, SyncOrderStatus, SyncPaid, SyncOther, EnsureOrderUnlocked,
           RefundOrder, DevRefundOrder, CloseExpiredOrders, Expired, Crash, vars
<1>3. QED
  BY <1>1, <1>2 DEF OrderStep, Kept, Voided, MarkedPaid, Refunded

(* Only the beginning of a request opens a transaction. *)
LEMMA OnlyBeginOpens ==
    ASSUME [Next]_vars, \A u \in Users : ~BeginOrder(u)
    PROVE  txs' \subseteq txs
BY DEF Next, Tick, CommitOrder, Commit, RunJob,
       AttachPayParams, CloseChannelOrder, ReachCashier, Capture, ExpireTrade, PayWebhook,
       DevMockPayOrder, SyncRead, SyncOrderStatus, EnsureOrderUnlocked,
       RefundOrder, DevRefundOrder, CloseExpiredOrders, Crash, vars

LEMMA BeginLock ==
    ASSUME Inv, LockInv, NEW u \in Users, NEW b \in BOOLEAN, NEW S \in SUBSET Episodes,
           NEW s \in Started, Begin(NewTx(u, b, S, s))
    PROVE  LockInv'
<1> DEFINE n == NewTx(u, b, S, s)
           t == [n EXCEPT !.olds = PendingOf(n)]
<1>1. t.user = n.user /\ t.batch = n.batch /\ t.eps = n.eps /\ t.olds = PendingOf(n)
  BY DEF NewTx
<1>2. txs' = txs \cup {t} /\ orders' = orders /\ LockFree(n)
  BY DEF Begin
<1> HIDE DEF t, n
<1>3. PendingOf(t) = PendingOf(n) /\ \A v \in txs : ~SameKey(v, t) /\ ~SameKey(t, v)
  BY <1>1, <1>2 DEF PendingOf, SameKey, LockFree
<1>4. LockIsExclusive'
  BY <1>2, <1>3 DEF LockInv, LockIsExclusive, SameKey
<1>5. \A v : PendingOf(v)' = PendingOf(v)
  BY <1>2 DEF PendingOf, SameKey
<1>6. ReadHolds'
  BY <1>1, <1>2, <1>3, <1>5 DEF LockInv, ReadHolds
<1>7. SinglePending'
  BY <1>2 DEF LockInv, SinglePending, SameKey
<1>8. QED
  BY <1>4, <1>6, <1>7 DEF LockInv

LEMMA CommitLock ==
    ASSUME Inv, LockInv, NEW t \in txs, NEW o \in OrderNos, NEW p \in Prices, Commit(t, o, p)
    PROVE  LockInv'
<1> DEFINE closed == IF t.olds = {} THEN {} ELSE PendingOf(t)
           new == [status |-> "pending", user |-> t.user, batch |-> t.batch,
                   eps |-> t.eps, amount |-> p * Cardinality(t.eps),
                   expiredAt |-> t.start + TTL, refunded |-> 0, refundNo |-> None]
<1>1. /\ orders[o].status = "none"
      /\ IndexAllows(t, closed)
      /\ orders' = [x \in OrderNos |->
                      IF x = o THEN new
                      ELSE IF x \in closed THEN [orders[x] EXCEPT !.status = "closed"]
                      ELSE orders[x]]
      /\ txs' = txs \ {t}
  BY DEF Commit
<1>2. PendingOf(t) \subseteq closed
  BY <1>1 DEF IndexAllows, LockInv, ReadHolds
<1>3. new.user = t.user /\ new.batch = t.batch /\ new.eps = t.eps
  OBVIOUS
<1>4. closed \subseteq PendingOf(t)
  OBVIOUS
<1> HIDE DEF closed, new
<1>5. ASSUME NEW x \in OrderNos, x # o, orders'[x].status = "pending"
      PROVE  orders'[x] = orders[x] /\ orders[x].status = "pending" /\ ~SameKey(orders[x], t)
  BY <1>1, <1>2, <1>5 DEF PendingOf, Inv, TypeOK, Order
<1>6. orders'[o] = new
  BY <1>1
<1>7. LockIsExclusive'
  BY <1>1 DEF LockInv, LockIsExclusive, SameKey
<1>8. SinglePending'
  <2>1. \A x, y : SameKey(orders[x], new) \/ SameKey(new, orders[x]) => SameKey(orders[x], t)
    BY <1>3 DEF SameKey
  <2>2. QED
    BY <1>5, <1>6, <2>1 DEF LockInv, SinglePending, SameKey
<1>9. ReadHolds'
  <2>1. SUFFICES ASSUME NEW v \in txs, v # t, v.batch, v.olds = {}, NEW x \in OrderNos,
                        orders'[x].status = "pending", SameKey(orders'[x], v)
                 PROVE  FALSE
    BY <1>1 DEF ReadHolds, PendingOf, SameKey
  <2>2. CASE x = o
    <3>1. SameKey(t, v)
      BY <1>3, <1>6, <2>1, <2>2 DEF SameKey
    <3>2. QED
      BY <2>1, <3>1 DEF LockInv, LockIsExclusive
  <2>3. CASE x # o
    BY <1>5, <2>1, <2>3 DEF LockInv, ReadHolds, PendingOf
  <2>4. QED
    BY <2>2, <2>3
<1>10. QED
  BY <1>7, <1>8, <1>9 DEF LockInv

LEMMA LockNext == Inv /\ LockInv /\ [Next]_vars => LockInv'
<1> SUFFICES ASSUME Inv, LockInv, [Next]_vars PROVE LockInv'
  OBVIOUS
<1>1. CASE CommitOrder
  BY <1>1, CommitLock DEF CommitOrder
<1>2. ASSUME NEW u \in Users, BeginOrder(u) PROVE LockInv'
  <2>1. ASSUME NEW e \in Episodes, CreateOrder(u, e) PROVE LockInv'
    BY <2>1, BeginLock DEF CreateOrder
  <2>2. ASSUME NEW S \in SUBSET Episodes, CreateBatchOrder(u, S) PROVE LockInv'
    <3>1. Buyable(u, S) \in SUBSET Episodes
      BY DEF Buyable
    <3>2. QED
      BY <2>2, <3>1, BeginLock DEF CreateBatchOrder
  <2>3. QED
    BY <1>2, <2>1, <2>2 DEF BeginOrder
<1>3. CASE ~CommitOrder /\ \A u \in Users : ~BeginOrder(u)
  <2>1. txs' \subseteq txs
    BY <1>3, OnlyBeginOpens
  <2>2. ASSUME NEW x \in OrderNos, orders'[x].status = "pending"
        PROVE  orders[x] = orders'[x]
    BY <1>3, <2>2, NextStep, OnlyCommitOpens
       DEF OrderStep, Kept, Opened, Voided, MarkedPaid, Refunded, Inv, TypeOK, Order
  <2>3. QED
    BY <2>1, <2>2 DEF LockInv, LockIsExclusive, ReadHolds, SinglePending, PendingOf, SameKey
<1>4. QED
  BY <1>1, <1>2, <1>3

(* However the transactions of creations interleave, a viewer has one      *)
(* pending order for an episode and one pending batch for the drama        *)
(* (CreateOrder, CreateBatchOrder and their advisory locks).               *)
THEOREM OnePending == Spec => []SinglePending
<1>1. Init => LockInv
  BY DEF Init, LockInv, LockIsExclusive, ReadHolds, SinglePending, NoOrder
<1>2. LockInv => SinglePending
  BY DEF LockInv
<1>3. QED
  BY <1>1, <1>2, LockNext, SpecInv, PTL DEF Spec

-----------------------------------------------------------------------------
(* The table, the channel and the clock.                                   *)

InTime == \A t \in txs : now <= t.start + RequestTime

(* The call that prepays an order comes in time and before its trade. *)
JobsFit == \A j \in jobs : j.prepay # None =>
    /\ orders[j.prepay].status # "none"
    /\ channel[j.prepay].state = "none"
    /\ now <= StartOf(j.prepay) + RequestTime

OwnPrepay == \A j, k \in jobs : j.prepay # None /\ j.prepay = k.prepay => j = k

TradeFits(o) ==
    /\ orders[o].status = "none" => channel[o].state = "none"
    /\ channel[o].state \in {"link", "open"} => channel[o].payBy <= orders[o].expiredAt
    /\ channel[o].state = "captured" => channel[o].at <= orders[o].expiredAt
    /\ ~DevMode /\ orders[o].status \in Settled => channel[o].state = "captured"

ChannelInv == InTime /\ JobsFit /\ OwnPrepay /\ \A o \in OrderNos : TradeFits(o)

LEMMA InTimeNext == Inv /\ InTime /\ [Next]_vars => InTime'
<1> SUFFICES ASSUME Inv, InTime, [Next]_vars PROVE InTime'
  OBVIOUS
<1>1. CASE Tick
  BY <1>1, TimeAssumption DEF Tick, InTime, Inv, TypeOK, Tx
<1>2. ASSUME NEW u \in Users, BeginOrder(u) PROVE InTime'
  <2>1. ASSUME NEW b, NEW S, NEW s \in Started, Begin(NewTx(u, b, S, s)) PROVE InTime'
    BY <2>1 DEF Begin, NewTx, Started, InTime
  <2>2. QED
    BY <1>2, <2>1 DEF BeginOrder, CreateOrder, CreateBatchOrder
<1>3. CASE ~Tick /\ \A u \in Users : ~BeginOrder(u)
  <2>1. txs' \subseteq txs
    BY <1>3, OnlyBeginOpens
  <2>2. now' = now
    BY <1>3 DEF Next, CommitOrder, Commit, RunJob,
       AttachPayParams, CloseChannelOrder, ReachCashier, Capture, ExpireTrade, PayWebhook,
       DevMockPayOrder, SyncRead, SyncOrderStatus, EnsureOrderUnlocked,
       RefundOrder, DevRefundOrder, CloseExpiredOrders, Crash, vars
  <2>3. QED
    BY <2>1, <2>2 DEF InTime
<1>4. QED
  BY <1>1, <1>2, <1>3

(* A step that moves no trade, starts no prepay and settles an order only  *)
(* for captured money keeps the rest.                                      *)
Quiet(o) ==
    /\ orders'[o].expiredAt = orders[o].expiredAt
    /\ orders'[o].status = "none" <=> orders[o].status = "none"
    /\ channel'[o].state = channel[o].state
    /\ channel'[o].payBy = channel[o].payBy
    /\ channel'[o].at = channel[o].at
    /\ \/ orders'[o].status \in Settled => orders[o].status \in Settled
       \/ channel[o].state = "captured" \/ DevMode

LEMMA QuietStep ==
    ASSUME Inv, ChannelInv, now' = now, \A o \in OrderNos : Quiet(o),
           \A k \in jobs' : k.prepay = None \/ k \in jobs
    PROVE  (JobsFit /\ OwnPrepay /\ \A o \in OrderNos : TradeFits(o))'
<1>1. ASSUME NEW k \in jobs', k.prepay # None PROVE k \in jobs /\ k.prepay \in OrderNos
  BY <1>1 DEF Inv, TypeOK, Job
<1>2. JobsFit'
  BY <1>1 DEF ChannelInv, JobsFit, Quiet, StartOf
<1>3. OwnPrepay'
  BY <1>1 DEF ChannelInv, OwnPrepay
<1>4. \A o \in OrderNos : TradeFits(o)'
  BY DEF ChannelInv, TradeFits, Quiet
<1>5. QED
  BY <1>2, <1>3, <1>4

LEMMA MarkOrderPaidQuiet ==
    ASSUME Inv, NEW o \in OrderNos, NEW t, MarkOrderPaid(o, t),
           channel[o].state = "captured" \/ DevMode, channel' = channel
    PROVE  \A x \in OrderNos : Quiet(x)
BY DEF MarkOrderPaid, Markable, Quiet, Inv, TypeOK, Order

(* A refund moves money, not the trade. *)
LEMMA RefundKeepsTrade ==
    ASSUME Inv, NEW o \in OrderNos, NEW rn, NEW amt,
           channel' = channel \/ ChannelRefund(o, rn, amt)
    PROVE  \A x \in OrderNos : /\ channel'[x].state = channel[x].state
                              /\ channel'[x].payBy = channel[x].payBy
                              /\ channel'[x].at = channel[x].at
<1>1. CASE channel' = channel
  BY <1>1
<1>2. CASE channel' # channel
  <2> DEFINE moved == channel[o].moved + amt
             seen == channel[o].seen \cup {rn}
  <2>1. channel' = [channel EXCEPT ![o] = [channel[o] EXCEPT !.moved = moved, !.seen = seen]]
    BY <1>2 DEF ChannelRefund
  <2> HIDE DEF moved, seen
  <2>2. QED
    BY <2>1 DEF Inv, TypeOK, Trade
<1>3. QED
  BY <1>1, <1>2

LEMMA BookRefundQuiet ==
    ASSUME Inv, NEW o \in OrderNos, NEW rn, NEW amt, Refundable(o, rn, amt), BookRefund(o, rn, amt),
           channel' = channel \/ ChannelRefund(o, rn, amt)
    PROVE  \A x \in OrderNos : Quiet(x)
<1>1. /\ \A x \in OrderNos : orders'[x].expiredAt = orders[x].expiredAt
      /\ \A x \in OrderNos : orders'[x].status = orders[x].status \/ x = o
      /\ orders'[o].status \in Settled /\ orders[o].status \in Settled
  BY DEF Refundable, BookRefund, Settled, Inv, TypeOK, Order
<1>2. \A x \in OrderNos : /\ channel'[x].state = channel[x].state
                          /\ channel'[x].payBy = channel[x].payBy
                          /\ channel'[x].at = channel[x].at
  BY RefundKeepsTrade
<1>3. QED
  BY <1>1, <1>2 DEF Quiet, Settled

LEMMA CommitChannel ==
    ASSUME Inv, ChannelInv, NEW t \in txs, NEW o \in OrderNos, NEW p \in Prices, Commit(t, o, p)
    PROVE  (JobsFit /\ OwnPrepay /\ \A x \in OrderNos : TradeFits(x))'
<1> DEFINE job == [close |-> t.olds, prepay |-> o]
<1>1. /\ orders[o].status = "none" /\ channel[o].state = "none"
      /\ orders'[o].status = "pending" /\ orders'[o].expiredAt = t.start + TTL
      /\ jobs' = jobs \cup {job}
      /\ UNCHANGED <<now, channel>>
  BY DEF Commit, ChannelInv, TradeFits
<1>2. \A x \in OrderNos : x # o => Quiet(x)
  BY <1>1 DEF Commit, PendingOf, Quiet, Settled, Inv, TypeOK, Order
<1>3. /\ t.start \in Nat /\ TTL \in Nat /\ now <= t.start + RequestTime
      /\ now \in Nat /\ RequestTime \in Nat
  BY TimeAssumption DEF ChannelInv, InTime, Inv, TypeOK, Tx
<1>4. now' <= StartOf(o)' + RequestTime
  BY <1>1, <1>3 DEF StartOf
<1>5. \A k \in jobs : k.prepay # None => k.prepay # o /\ k.prepay \in OrderNos
  BY <1>1 DEF ChannelInv, JobsFit, Inv, TypeOK, Job
<1>6. JobsFit'
  <2>1. ASSUME NEW k \in jobs, k.prepay # None
        PROVE  /\ orders'[k.prepay].status # "none"
               /\ channel'[k.prepay].state = "none"
               /\ now' <= StartOf(k.prepay)' + RequestTime
    BY <1>1, <1>2, <1>5, <2>1 DEF ChannelInv, JobsFit, Quiet, StartOf
  <2>2. QED
    BY <1>1, <1>4, <2>1 DEF JobsFit
<1>7. OwnPrepay'
  BY <1>1, <1>5 DEF ChannelInv, OwnPrepay
<1>8. \A x \in OrderNos : TradeFits(x)'
  <2>1. TradeFits(o)'
    BY <1>1 DEF TradeFits, Settled
  <2>2. QED
    BY <1>2, <2>1 DEF ChannelInv, TradeFits, Quiet
<1>9. QED
  BY <1>6, <1>7, <1>8

LEMMA AttachChannel ==
    ASSUME Inv, ChannelInv, NEW j \in jobs, AttachPayParams(j)
    PROVE  (JobsFit /\ OwnPrepay /\ \A x \in OrderNos : TradeFits(x))'
<1> DEFINE o == j.prepay
<1>1. /\ o \in OrderNos /\ o # None
      /\ UNCHANGED <<now, orders>>
      /\ jobs' \subseteq (jobs \ {j}) \cup {[j EXCEPT !.prepay = None]}
  BY DEF AttachPayParams, Finish, Inv, TypeOK, Job
<1>2. \A k \in jobs' : k.prepay # None => k \in jobs /\ k.prepay # o
  BY <1>1 DEF ChannelInv, OwnPrepay, Inv, TypeOK, Job
<1>3. /\ orders[o].status # "none" /\ channel[o].state = "none"
      /\ now <= StartOf(o) + RequestTime
  BY <1>1 DEF ChannelInv, JobsFit
<1>4. now + PayExpire <= orders[o].expiredAt
  <2>1. now \in Nat /\ orders[o].expiredAt \in Nat
    BY <1>1 DEF Inv, TypeOK, Order
  <2>2. QED
    BY <1>3, <2>1, TimeAssumption DEF StartOf
<1>5. /\ \A x \in OrderNos : x # o => channel'[x] = channel[x]
      /\ \/ channel'[o] = channel[o]
         \/ /\ channel'[o].state \in {"link", "open"}
            /\ channel'[o].payBy = now + PayExpire
  <2>1. ASSUME NEW s \in {"link", "open"},
               channel' = [channel EXCEPT ![o] =
                             [channel[o] EXCEPT !.state = s, !.payBy = now + PayExpire]]
        PROVE  /\ \A x \in OrderNos : x # o => channel'[x] = channel[x]
               /\ channel'[o].state = s /\ channel'[o].payBy = now + PayExpire
    <3> DEFINE by == now + PayExpire
    <3> HIDE DEF by
    <3>1. channel' = [channel EXCEPT ![o] = [channel[o] EXCEPT !.state = s, !.payBy = by]]
      BY <2>1 DEF by
    <3>2. channel'[o].payBy = by /\ channel'[o].state = s
      BY <1>1, <3>1 DEF Inv, TypeOK, Trade
    <3>3. QED
      BY <1>1, <3>1, <3>2 DEF by, Inv, TypeOK
  <2>2. \/ channel' = channel
        \/ \E s \in {"link", "open"} :
             channel' = [channel EXCEPT ![o] =
                             [channel[o] EXCEPT !.state = s, !.payBy = now + PayExpire]]
    BY DEF AttachPayParams
  <2>3. QED
    BY <2>1, <2>2
<1>6. JobsFit'
  BY <1>1, <1>2, <1>5 DEF ChannelInv, JobsFit, StartOf, Inv, TypeOK, Job
<1>7. OwnPrepay'
  BY <1>2 DEF ChannelInv, OwnPrepay
<1>8. ASSUME NEW x \in OrderNos PROVE TradeFits(x)'
  <2>1. CASE x = o
    BY <1>1, <1>3, <1>4, <1>5, <2>1 DEF ChannelInv, TradeFits
  <2>2. CASE x # o
    BY <1>1, <1>5, <2>2 DEF ChannelInv, TradeFits
  <2>3. QED
    BY <2>1, <2>2
<1>9. QED
  BY <1>6, <1>7, <1>8

(* What the buyer, the channel or a close does to one trade. *)
LEMMA TradeMove ==
    ASSUME Inv, ChannelInv, NEW o \in OrderNos, UNCHANGED <<now, orders>>,
           \A x \in OrderNos : x # o => channel'[x] = channel[x],
           \/ channel'[o] = channel[o]
           \/ /\ channel[o].state \in {"link", "open"} /\ channel'[o].payBy = channel[o].payBy
              /\ \/ channel'[o].state \in {"open", "closed"}
                 \/ /\ channel'[o].state = "captured" /\ channel'[o].at = now
                    /\ now <= channel[o].payBy,
           \A k \in jobs' : k.prepay # None => \E j \in jobs : j.prepay = k.prepay,
           OwnPrepay'
    PROVE  (JobsFit /\ OwnPrepay /\ \A x \in OrderNos : TradeFits(x))'
<1>1. JobsFit'
  <2>1. ASSUME NEW j \in jobs, j.prepay # None
        PROVE  j.prepay \in OrderNos /\ channel'[j.prepay].state = "none"
    BY <2>1 DEF ChannelInv, JobsFit, Inv, TypeOK, Job
  <2>2. QED
    BY <2>1 DEF ChannelInv, JobsFit, StartOf
<1>2. ASSUME NEW x \in OrderNos PROVE TradeFits(x)'
  <2>1. now \in Nat /\ channel[o].payBy \in Nat /\ orders[o].expiredAt \in Nat
    BY DEF Inv, TypeOK, Trade, Order
  <2>2. TradeFits(o) /\ TradeFits(x)
    BY DEF ChannelInv
  <2>3. CASE channel'[x] = channel[x]
    BY <2>2, <2>3 DEF TradeFits
  <2>4. CASE channel'[o] # channel[o] /\ x = o
    BY <2>1, <2>2, <2>4 DEF TradeFits
  <2>5. QED
    BY <2>3, <2>4
<1>3. QED
  BY <1>1, <1>2

LEMMA ChannelNext == Inv /\ ChannelInv /\ [Next]_vars => ChannelInv'
<1> SUFFICES ASSUME Inv, ChannelInv, [Next]_vars PROVE ChannelInv'
  OBVIOUS
<1>0. InTime'
  BY InTimeNext DEF ChannelInv
<1> DEFINE Rest == JobsFit /\ OwnPrepay /\ \A o \in OrderNos : TradeFits(o)
<1> SUFFICES Rest'
  BY <1>0 DEF ChannelInv
<1>1. CASE Tick
  <2>1. UNCHANGED <<orders, channel, jobs>>
    BY <1>1 DEF Tick
  <2>2. ASSUME NEW j \in jobs, j.prepay # None PROVE now' <= StartOf(j.prepay) + RequestTime
    <3>1. j.prepay \in OrderNos /\ now \in Nat /\ now' = now + 1
      BY <1>1, <2>2 DEF Tick, Inv, TypeOK, Job
    <3>2. StartOf(j.prepay) \in Int /\ RequestTime \in Nat
      BY <3>1, TimeAssumption DEF StartOf, Inv, TypeOK, Order
    <3>3. now < StartOf(j.prepay) + RequestTime
      BY <1>1, <2>2 DEF Tick
    <3>4. QED
      BY <3>1, <3>2, <3>3
  <2>3. JobsFit'
    BY <2>1, <2>2 DEF ChannelInv, JobsFit, StartOf
  <2>4. OwnPrepay' /\ \A o \in OrderNos : TradeFits(o)'
    BY <2>1 DEF ChannelInv, OwnPrepay, TradeFits
  <2>5. QED
    BY <2>3, <2>4
<1>2. ASSUME UNCHANGED <<now, orders, channel>>, \A k \in jobs' : k.prepay = None \/ k \in jobs
      PROVE  Rest'
  BY <1>2, QuietStep DEF Quiet
<1>3. CASE CommitOrder
  BY <1>3, CommitChannel DEF CommitOrder
<1>4. ASSUME NEW j \in jobs, RunJob(j) PROVE Rest'
  <2>1. CASE AttachPayParams(j)
    BY <2>1, AttachChannel
  <2>2. ASSUME NEW o \in OrderNos, CloseChannelOrder(j, o) PROVE Rest'
    <3> DEFINE left == [j EXCEPT !.close = @ \ {o}]
    <3>1. /\ jobs' \subseteq (jobs \ {j}) \cup {left}
          /\ left.prepay = j.prepay
          /\ UNCHANGED <<now, orders>>
      BY <2>2 DEF CloseChannelOrder, Finish, Inv, TypeOK, Job
    <3>2. /\ \A x \in OrderNos : x # o => channel'[x] = channel[x]
          /\ \/ channel'[o] = channel[o]
             \/ /\ channel[o].state = "open" /\ channel'[o].state = "closed"
                /\ channel'[o].payBy = channel[o].payBy
      BY <2>2 DEF CloseChannelOrder, CloseTrade, Inv, TypeOK, Trade
    <3> HIDE DEF left
    <3>3. OwnPrepay'
      BY <3>1 DEF ChannelInv, OwnPrepay
    <3>4. QED
      BY <3>1, <3>2, <3>3, TradeMove
  <2>3. QED
    BY <1>4, <2>1, <2>2 DEF RunJob
<1>5. ASSUME NEW o \in OrderNos, ReachCashier(o) \/ Capture(o) \/ ExpireTrade(o) PROVE Rest'
  <2>1. UNCHANGED <<now, orders, jobs>>
    BY <1>5 DEF ReachCashier, Capture, ExpireTrade
  <2>2. /\ \A x \in OrderNos : x # o => channel'[x] = channel[x]
        /\ channel[o].state \in {"link", "open"} /\ channel'[o].payBy = channel[o].payBy
        /\ \/ channel'[o].state \in {"open", "closed"}
           \/ /\ channel'[o].state = "captured" /\ channel'[o].at = now
              /\ now <= channel[o].payBy
    <3>1. CASE ReachCashier(o)
      BY <3>1 DEF ReachCashier, Payable, Inv, TypeOK, Trade
    <3>2. CASE Capture(o)
      BY <3>2 DEF Capture, Payable, Inv, TypeOK, Trade
    <3>3. CASE ExpireTrade(o)
      BY <3>3 DEF ExpireTrade, Payable, Inv, TypeOK, Trade
    <3>4. QED
      BY <1>5, <3>1, <3>2, <3>3
  <2>3. OwnPrepay'
    BY <2>1 DEF ChannelInv, OwnPrepay
  <2>4. QED
    BY <2>1, <2>2, <2>3, TradeMove
<1>6. ASSUME NEW o \in OrderNos, PayWebhook(o) \/ DevMockPayOrder(o) PROVE Rest'
  BY <1>6, MarkOrderPaidQuiet, QuietStep DEF PayWebhook, DevMockPayOrder
<1>7. ASSUME NEW o \in OrderNos, SyncOrderStatus(o) PROVE Rest'
  <2>1. UNCHANGED <<now, channel, jobs>>
    BY <1>7 DEF SyncOrderStatus
  <2>2. CASE SyncPaid(o)
    BY <2>1, <2>2, MarkOrderPaidQuiet, QuietStep DEF SyncPaid
  <2>3. CASE SyncClosed(o)
    <3>1. \A x \in OrderNos : Quiet(x)
      BY <2>1, <2>3 DEF SyncClosed, Quiet, Settled, Inv, TypeOK, Order
    <3>2. QED
      BY <2>1, <3>1, QuietStep
  <2>4. CASE SyncOther(o)
    BY <1>2, <2>1, <2>4 DEF SyncOther
  <2>5. QED
    BY <1>7, <2>2, <2>3, <2>4 DEF SyncOrderStatus
<1>8. ASSUME NEW o \in OrderNos, NEW rn \in RefundNos, NEW amt \in RefundAmounts(o),
             RefundOrder(o, rn, amt) \/ DevRefundOrder(o, rn, amt)
      PROVE  Rest'
  <2>1. /\ Refundable(o, rn, amt) /\ UNCHANGED <<now, jobs>>
        /\ channel' = channel \/ ChannelRefund(o, rn, amt)
    BY <1>8 DEF RefundOrder, DevRefundOrder
  <2>2. CASE BookRefund(o, rn, amt)
    BY <2>1, <2>2, BookRefundQuiet, QuietStep
  <2>3. CASE UNCHANGED orders
    <3>1. \A x \in OrderNos : /\ channel'[x].state = channel[x].state
                              /\ channel'[x].payBy = channel[x].payBy
                              /\ channel'[x].at = channel[x].at
      BY <2>1, RefundKeepsTrade
    <3>2. QED
      BY <2>1, <2>3, <3>1, QuietStep DEF Quiet
  <2>4. QED
    BY <1>8, <2>2, <2>3 DEF RefundOrder, DevRefundOrder
<1>9. CASE CloseExpiredOrders
  <2>1. /\ UNCHANGED <<now, channel>>
        /\ \A k \in jobs' : k.prepay = None \/ k \in jobs
    BY <1>9 DEF CloseExpiredOrders
  <2>2. \A x \in OrderNos : Quiet(x)
    BY <1>9, <2>1 DEF CloseExpiredOrders, Expired, Quiet, Settled, Inv, TypeOK, Order
  <2>3. QED
    BY <2>1, <2>2, QuietStep
<1>10. CASE Crash
  BY <1>2, <1>10 DEF Crash
<1>11. ASSUME NEW u \in Users, BeginOrder(u) PROVE Rest'
  BY <1>2, <1>11 DEF BeginOrder, CreateOrder, CreateBatchOrder, Begin
<1>12. ASSUME NEW o \in OrderNos, SyncRead(o) \/ EnsureOrderUnlocked(o) PROVE Rest'
  BY <1>2, <1>12 DEF SyncRead, EnsureOrderUnlocked
<1>13. CASE UNCHANGED vars
  BY <1>2, <1>13 DEF vars
<1>14. QED
  BY <1>1, <1>3, <1>4, <1>5, <1>6, <1>7, <1>8, <1>9, <1>10, <1>11, <1>12, <1>13 DEF Next

(* Whatever callbacks, syncs, closes, lost requests and refunds do, no     *)
(* order is paid without captured money, and none can be paid once its     *)
(* time is over (PaymentExpire and the delay of a request fit in           *)
(* OrderPendingTTL).                                                       *)
THEOREM TableAndChannelAgree == Spec => []ChannelAgrees
<1>1. Init => ChannelInv
  BY DEF Init, ChannelInv, InTime, JobsFit, OwnPrepay, TradeFits, NoOrder, NoTrade, Settled
<1>2. Inv /\ ChannelInv => ChannelAgrees
  <2> SUFFICES ASSUME Inv, ChannelInv PROVE ChannelAgrees
    OBVIOUS
  <2>1. MoneyBehindPaid
    BY DEF MoneyBehindPaid, ChannelInv, TradeFits
  <2>2. ASSUME NEW o \in OrderNos, orders[o].expiredAt < now, Payable(o) PROVE FALSE
    <3>1. now \in Nat /\ orders[o].expiredAt \in Nat /\ channel[o].payBy \in Nat
      BY DEF Inv, TypeOK, Order, Trade
    <3>2. channel[o].payBy <= orders[o].expiredAt /\ now <= channel[o].payBy
      BY <2>2 DEF Payable, ChannelInv, TradeFits
    <3>3. QED
      BY <2>2, <3>1, <3>2
  <2>3. QED
    BY <2>1, <2>2 DEF ChannelAgrees, NotPayablePastExpiry
<1>3. QED
  BY <1>1, <1>2, ChannelNext, SpecInv, PTL DEF Spec

-----------------------------------------------------------------------------
(* The creator's ledger covers what is due to the creator.                 *)

LEMMA SharesAddUp ==
    ASSUME NEW a \in Nat, NEW b \in Nat
    PROVE  IncomeFromGrossBP(a) + IncomeFromGrossBP(b) <= IncomeFromGrossBP(a + b)
<1> DEFINE bp == IF ShareBP > BPFull THEN BPFull ELSE ShareBP
<1>1. bp \in Nat
  BY ShareAssumption DEF BPFull
<1>2. \A g \in Nat : IncomeFromGrossBP(g) = (g * bp) \div 10000
  <2>1. 0 * bp = 0 /\ 0 \div 10000 = 0
    BY <1>1
  <2> QED BY <2>1 DEF IncomeFromGrossBP, BPFull
<1> HIDE DEF bp
<1>3. a * bp \in Nat /\ b * bp \in Nat /\ (a + b) * bp = a * bp + b * bp
  BY <1>1
<1>4. \A x, y \in Nat : (x \div 10000) + (y \div 10000) <= (x + y) \div 10000
  OBVIOUS
<1>5. (a * bp) \div 10000 + (b * bp) \div 10000 <= (a * bp + b * bp) \div 10000
  BY <1>3, <1>4
<1> QED BY <1>2, <1>3, <1>5

(* One day's row gains the share of a payment. *)
LEMMA DayGains ==
    ASSUME NEW f \in [Days -> Nat], NEW d \in Days, NEW s \in Nat
    PROVE  SumOverDays([f EXCEPT ![d] = @ + s]) = SumOverDays(f) + s
<1> DEFINE g == [f EXCEPT ![d] = @ + s]
<1>1. g \in [Days -> Nat] /\ \A x \in Days : x # d => g[x] = f[x]
  OBVIOUS
<1>2. g[d] - f[d] = s
  OBVIOUS
<1> HIDE DEF g
<1>3. SumFunctionOnSet(g, Days) = SumFunctionOnSet(f, Days) + (g[d] - f[d])
  <2>1. \A x \in Days : f[x] \in Int /\ g[x] \in Int
    BY <1>1
  <2> QED BY <1>1, <2>1, ShareAssumption, SumChange
<1> QED BY <1>2, <1>3 DEF SumOverDays, g

(* A refund takes its share from one day and from a total that the days    *)
(* cover; both stop at zero, and the days still cover the total.           *)
LEMMA DayCovers ==
    ASSUME NEW f \in [Days -> Nat], NEW d \in Days, NEW s \in Nat, NEW t \in Nat,
           SumOverDays(f) >= t
    PROVE  SumOverDays([f EXCEPT ![d] = Greatest0(@ - s)]) >= Greatest0(t - s)
<1> DEFINE g == [f EXCEPT ![d] = Greatest0(@ - s)]
<1>0. \A x \in Nat : Greatest0(x - s) \in Nat /\ Greatest0(x - s) - x >= 0 - s
  BY DEF Greatest0
<1>1. g \in [Days -> Nat] /\ \A x \in Days : x # d => g[x] = f[x]
  BY <1>0
<1>2. g[d] - f[d] >= 0 - s /\ g[d] \in Nat /\ f[d] \in Nat
  BY <1>0
<1> HIDE DEF g
<1>3. SumFunctionOnSet(g, Days) = SumFunctionOnSet(f, Days) + (g[d] - f[d])
  <2>1. \A x \in Days : f[x] \in Int /\ g[x] \in Int
    BY <1>1
  <2> QED BY <1>1, <2>1, ShareAssumption, SumChange
<1>4. SumFunctionOnSet(f, Days) \in Int /\ SumFunctionOnSet(g, Days) \in Nat
  BY <1>1, ShareAssumption, SumIsInt, SumIsNat
<1>5. SumFunctionOnSet(f, Days) >= t
  BY DEF SumOverDays
<1>6. SumFunctionOnSet(g, Days) >= t - s
  BY <1>2, <1>3, <1>4, <1>5
<1>7. SumFunctionOnSet(g, Days) >= Greatest0(t - s)
  BY <1>4, <1>6 DEF Greatest0
<1> QED BY <1>7 DEF SumOverDays, g

DaysCover(l) == SumOverDays(l.stats) >= l.total /\ SumOverDays(l.chanIncome) >= l.total

LEMMA CreditCovers ==
    ASSUME NEW l \in Ledger, NEW d \in Days, NEW g \in Nat, DaysCover(l)
    PROVE  /\ DaysCover(Credit(l, d, g))
           /\ Credit(l, d, g).total = l.total + IncomeFromGrossBP(g)
<1> DEFINE share == IncomeFromGrossBP(g)
<1>1. share \in Nat
  BY ShareIsNat
<1>2. /\ Credit(l, d, g).total = l.total + share
      /\ Credit(l, d, g).stats = [l.stats EXCEPT ![d] = @ + share]
      /\ Credit(l, d, g).chanIncome = [l.chanIncome EXCEPT ![d] = @ + share]
  BY DEF Credit
<1> HIDE DEF share
<1>3. l.stats \in [Days -> Nat] /\ l.chanIncome \in [Days -> Nat] /\ l.total \in Nat
  BY DEF Ledger
<1>4. /\ SumOverDays(Credit(l, d, g).stats) = SumOverDays(l.stats) + share
      /\ SumOverDays(Credit(l, d, g).chanIncome) = SumOverDays(l.chanIncome) + share
  BY <1>1, <1>2, <1>3, DayGains
<1>5. SumOverDays(l.stats) \in Int /\ SumOverDays(l.chanIncome) \in Int
  BY <1>3, ShareAssumption, SumIsInt DEF SumOverDays
<1>6. \A a, b, c \in Int : a >= b => a + c >= b + c
  OBVIOUS
<1> QED BY <1>1, <1>2, <1>3, <1>4, <1>5, <1>6 DEF DaysCover, share

LEMMA ClawbackCovers ==
    ASSUME NEW l \in Ledger, NEW d \in Days, NEW g \in Nat, DaysCover(l)
    PROVE  /\ DaysCover(Clawback(l, d, g))
           /\ Clawback(l, d, g).total >= l.total - IncomeFromGrossBP(g)
<1> DEFINE share == IncomeFromGrossBP(g)
<1>1. share \in Nat
  BY ShareIsNat
<1>2. /\ Clawback(l, d, g).total = Greatest0(l.total - share)
      /\ Clawback(l, d, g).stats = [l.stats EXCEPT ![d] = Greatest0(@ - share)]
      /\ Clawback(l, d, g).chanIncome = [l.chanIncome EXCEPT ![d] = Greatest0(@ - share)]
  BY DEF Clawback
<1> HIDE DEF share
<1>3. l.stats \in [Days -> Nat] /\ l.chanIncome \in [Days -> Nat] /\ l.total \in Nat
  BY DEF Ledger
<1>4. DaysCover(Clawback(l, d, g))
  <2>1. \A f \in [Days -> Nat] : SumOverDays(f) >= l.total =>
          SumOverDays([f EXCEPT ![d] = Greatest0(@ - share)]) >= Greatest0(l.total - share)
    BY <1>1, <1>3, DayCovers
  <2> QED BY <1>2, <1>3, <2>1 DEF DaysCover
<1>5. Greatest0(l.total - share) >= l.total - share
  BY <1>1, <1>3 DEF Greatest0
<1> QED BY <1>2, <1>4, <1>5 DEF share

(* What a step does to orders and ledger. *)
Untouched == /\ ledger' = ledger
             /\ \A x \in OrderNos :
                  \/ orders'[x] = orders[x]
                  \/ orders[x].status \notin Settled /\ orders'[x].status \notin Settled

LEMMA MoneyStep ==
    ASSUME Inv, [Next]_vars
    PROVE  \/ Untouched
           \/ \E o \in OrderNos, t \in 0 .. MaxTime : Markable(o, t) /\ MarkOrderPaid(o, t)
           \/ \E o \in OrderNos, rn \in RefundNos : \E amt \in RefundAmounts(o) :
                 Refundable(o, rn, amt) /\ BookRefund(o, rn, amt)
<1>1. ASSUME NEW o \in OrderNos, NEW t \in 0 .. MaxTime, MarkOrderPaid(o, t)
      PROVE  Untouched \/ Markable(o, t)
  BY <1>1 DEF MarkOrderPaid, Untouched
<1>2. CASE CommitOrder
  <2>1. PICK t \in txs, o \in OrderNos, p \in Prices : Commit(t, o, p)
    BY <1>2 DEF CommitOrder
  <2>2. \A x \in OrderNos : Kept(x) \/ Opened(x) \/ Voided(x)
    BY <2>1, CommitOpensOrVoids
  <2>3. QED
    BY <2>1, <2>2 DEF Untouched, Commit, Kept, Opened, Voided, Settled, Inv, TypeOK, Order
<1>3. ASSUME NEW o \in OrderNos, PayWebhook(o) \/ DevMockPayOrder(o)
      PROVE  Untouched \/ (Markable(o, now) /\ MarkOrderPaid(o, now))
  BY <1>1, <1>3 DEF PayWebhook, DevMockPayOrder, Inv, TypeOK
<1>4. ASSUME NEW o \in OrderNos, SyncOrderStatus(o)
      PROVE  \/ Untouched
             \/ \E t \in 0 .. MaxTime : Markable(o, t) /\ MarkOrderPaid(o, t)
  <2>1. CASE SyncPaid(o)
    BY <1>1, <2>1 DEF SyncPaid, Inv, TypeOK, Trade
  <2>2. CASE SyncClosed(o)
    BY <2>2 DEF SyncClosed, Untouched, Settled, Inv, TypeOK, Order
  <2>3. CASE SyncOther(o)
    BY <2>3 DEF SyncOther, Untouched
  <2>4. QED
    BY <1>4, <2>1, <2>2, <2>3 DEF SyncOrderStatus
<1>5. ASSUME NEW o \in OrderNos, NEW rn \in RefundNos, NEW amt \in RefundAmounts(o),
             RefundOrder(o, rn, amt) \/ DevRefundOrder(o, rn, amt)
      PROVE  Untouched \/ (Refundable(o, rn, amt) /\ BookRefund(o, rn, amt))
  <2>1. /\ Refundable(o, rn, amt)
        /\ BookRefund(o, rn, amt) \/ UNCHANGED <<orders, ledger>>
    BY <1>5 DEF RefundOrder, DevRefundOrder
  <2>2. QED
    BY <2>1 DEF Untouched
<1>6. CASE CloseExpiredOrders
  BY <1>6 DEF CloseExpiredOrders, Expired, Untouched, Settled, Inv, TypeOK, Order
<1>7. ASSUME UNCHANGED <<orders, ledger>> PROVE Untouched
  BY <1>7 DEF Untouched
<1>8. ASSUME NEW u \in Users, BeginOrder(u) PROVE Untouched
  BY <1>7, <1>8 DEF BeginOrder, CreateOrder, CreateBatchOrder, Begin
<1>9. ASSUME NEW j \in jobs, RunJob(j) PROVE Untouched
  BY <1>7, <1>9 DEF RunJob, AttachPayParams, CloseChannelOrder
<1>10. ASSUME NEW o \in OrderNos,
              ReachCashier(o) \/ Capture(o) \/ ExpireTrade(o) \/ SyncRead(o)
              \/ EnsureOrderUnlocked(o)
       PROVE  Untouched
  BY <1>7, <1>10 DEF ReachCashier, Capture, ExpireTrade, SyncRead, EnsureOrderUnlocked
<1>11. CASE Tick \/ Crash \/ UNCHANGED vars
  BY <1>7, <1>11 DEF Tick, Crash, vars
<1>12. QED
  BY <1>2, <1>3, <1>4, <1>5, <1>6, <1>8, <1>9, <1>10, <1>11 DEF Next, Inv, TypeOK

LEMMA KeptShareType == Inv /\ RefundAccounted => KeptShare \in [OrderNos -> Nat]
<1> SUFFICES ASSUME Inv, RefundAccounted, NEW o \in OrderNos, orders[o].status \in Settled
             PROVE  IncomeFromGrossBP(orders[o].amount - orders[o].refunded) \in Nat
  BY DEF KeptShare
<1>1. orders[o].amount - orders[o].refunded \in Nat
  BY DEF RefundAccounted, Inv, TypeOK, Order
<1> QED BY <1>1, ShareIsNat

LEMMA KeptSumType == Inv /\ RefundAccounted => SumFunction(KeptShare) \in Nat
<1> SUFFICES ASSUME Inv, RefundAccounted PROVE SumFunction(KeptShare) \in Nat
  OBVIOUS
<1>1. KeptShare \in [OrderNos -> Nat]
  BY KeptShareType
<1>2. DOMAIN KeptShare = OrderNos
  BY DEF KeptShare
<1>3. \A x \in OrderNos : KeptShare[x] \in Nat
  BY <1>1
<1> QED BY <1>2, <1>3, DataAssumption, SumIsNat DEF SumFunction

(* What the kept shares sum to when one order's changes. *)
LEMMA KeptShareChange ==
    ASSUME Inv, RefundAccounted, Inv', RefundAccounted', NEW o \in OrderNos,
           \A x \in OrderNos : x # o => orders'[x] = orders[x]
    PROVE  SumFunction(KeptShare)' = SumFunction(KeptShare) + (KeptShare'[o] - KeptShare[o])
<1>1. KeptShare \in [OrderNos -> Nat] /\ KeptShare' \in [OrderNos -> Nat]
  <2>1. (Inv /\ RefundAccounted => KeptShare \in [OrderNos -> Nat])'
    BY KeptShareType, PTL
  <2>2. KeptShare \in [OrderNos -> Nat]
    BY KeptShareType
  <2> QED BY <2>1, <2>2
<1>2. \A x \in OrderNos : x # o => KeptShare'[x] = KeptShare[x]
  BY DEF KeptShare
<1>3. DOMAIN KeptShare = OrderNos /\ DOMAIN KeptShare' = OrderNos
  BY DEF KeptShare
<1>4. SumFunctionOnSet(KeptShare', OrderNos)
        = SumFunctionOnSet(KeptShare, OrderNos) + (KeptShare'[o] - KeptShare[o])
  BY <1>1, <1>2, DataAssumption, SumChange
<1> QED BY <1>3, <1>4 DEF SumFunction

LEMMA PaymentCovers ==
    ASSUME Inv, RefundAccounted, Inv', RefundAccounted', LedgerCovers,
           NEW o \in OrderNos, NEW t \in 0 .. MaxTime, Markable(o, t), MarkOrderPaid(o, t)
    PROVE  LedgerCovers'
<1> DEFINE share == IncomeFromGrossBP(orders[o].amount)
           kept == IncomeFromGrossBP(orders[o].amount - orders[o].refunded)
<1>1. /\ orders[o].status \in {"pending", "partial_refunded"}
      /\ orders' = [orders EXCEPT ![o].status = "paid"]
      /\ ledger' = Credit(ledger, Date[t], orders[o].amount)
  BY DEF Markable, MarkOrderPaid, Inv, TypeOK, Order, Statuses
<1>2. ledger \in Ledger /\ Date[t] \in Days /\ orders[o].amount \in Nat
  BY TimeAssumption DEF Inv, TypeOK, Order
<1>3. DaysCover(ledger') /\ ledger'.total = ledger.total + share
  BY <1>1, <1>2, CreditCovers DEF DaysCover, LedgerCovers, DailyRowsCoverTotal
<1>4. /\ orders'[o].status = "paid" /\ orders'[o].amount = orders[o].amount
      /\ orders'[o].refunded = orders[o].refunded
      /\ \A x \in OrderNos : x # o => orders'[x] = orders[x]
  BY <1>1 DEF Inv, TypeOK, Order
<1>5. orders[o].status = "pending" => orders[o].refunded = 0
  BY DEF RefundAccounted, Settled
<1>6. KeptShare'[o] = kept
  BY <1>4 DEF KeptShare, Settled
<1>7. KeptShare[o] = IF orders[o].status = "pending" THEN 0 ELSE kept
  BY <1>1 DEF KeptShare, Settled
<1>8. orders[o].status = "pending" => kept = share
  BY <1>2, <1>5
<1>9. share \in Nat /\ kept \in Nat
  BY <1>2, ShareIsNat DEF RefundAccounted, Inv, TypeOK, Order
<1> HIDE DEF share, kept
<1>10. KeptShare'[o] - KeptShare[o] <= share /\ KeptShare'[o] - KeptShare[o] \in Int
  BY <1>6, <1>7, <1>8, <1>9
<1>11. SumFunction(KeptShare)' = SumFunction(KeptShare) + (KeptShare'[o] - KeptShare[o])
  BY <1>4, KeptShareChange
<1>12. SumFunction(KeptShare) \in Nat
  BY KeptSumType
<1>13. ledger.total \in Nat /\ ledger.total >= SumFunction(KeptShare)
  BY <1>2 DEF Ledger, LedgerCovers, CreatorNeverShort
<1>14. ledger'.total >= SumFunction(KeptShare)'
  BY <1>3, <1>9, <1>10, <1>11, <1>12, <1>13
<1>15. QED
  BY <1>3, <1>14 DEF LedgerCovers, CreatorNeverShort, DailyRowsCoverTotal, DaysCover

LEMMA RefundCovers ==
    ASSUME Inv, RefundAccounted, Inv', RefundAccounted', LedgerCovers,
           NEW o \in OrderNos, NEW rn \in RefundNos, NEW amt \in RefundAmounts(o),
           Refundable(o, rn, amt), BookRefund(o, rn, amt)
    PROVE  LedgerCovers'
<1> DEFINE rest == orders[o].amount - orders[o].refunded
           taken == IncomeFromGrossBP(amt)
<1>1. /\ orders[o].status \in Settled
      /\ orders'[o].status \in Settled /\ orders'[o].amount = orders[o].amount
      /\ orders'[o].refunded = orders[o].refunded + amt
      /\ \A x \in OrderNos : x # o => orders'[x] = orders[x]
      /\ ledger' = Clawback(ledger, Date[now], amt)
  BY DEF Refundable, BookRefund, Settled, Inv, TypeOK, Order
<1>2. /\ ledger \in Ledger /\ Date[now] \in Days /\ amt \in Nat
      /\ rest \in Nat /\ rest - amt \in Nat
      /\ orders'[o].amount - orders'[o].refunded = rest - amt
  BY <1>1, TimeAssumption DEF RefundAmounts, Refundable, Inv, TypeOK, Order
<1>3. DaysCover(ledger') /\ ledger'.total >= ledger.total - taken
  BY <1>1, <1>2, ClawbackCovers DEF DaysCover, LedgerCovers, DailyRowsCoverTotal
<1>4. KeptShare[o] = IncomeFromGrossBP(rest) /\ KeptShare'[o] = IncomeFromGrossBP(rest - amt)
  BY <1>1, <1>2 DEF KeptShare
<1>5. IncomeFromGrossBP(rest - amt) + taken <= IncomeFromGrossBP(rest)
  <2> HIDE DEF rest
  <2>1. (rest - amt) + amt = rest
    BY <1>2
  <2> QED BY <1>2, <2>1, SharesAddUp
<1>6. IncomeFromGrossBP(rest - amt) \in Nat /\ IncomeFromGrossBP(rest) \in Nat /\ taken \in Nat
  BY <1>2, ShareIsNat
<1> HIDE DEF rest, taken
<1>7. KeptShare'[o] - KeptShare[o] <= 0 - taken /\ KeptShare'[o] - KeptShare[o] \in Int
  BY <1>4, <1>5, <1>6
<1>8. SumFunction(KeptShare)' = SumFunction(KeptShare) + (KeptShare'[o] - KeptShare[o])
  BY <1>1, KeptShareChange
<1>9. SumFunction(KeptShare) \in Nat
  BY KeptSumType
<1>10. ledger.total \in Nat /\ ledger.total >= SumFunction(KeptShare) /\ ledger'.total \in Nat
  BY <1>2 DEF Ledger, LedgerCovers, CreatorNeverShort, Inv, TypeOK
<1>11. ledger'.total >= SumFunction(KeptShare)'
  BY <1>3, <1>6, <1>7, <1>8, <1>9, <1>10
<1>12. QED
  BY <1>3, <1>11 DEF LedgerCovers, CreatorNeverShort, DailyRowsCoverTotal, DaysCover

(* Whatever is paid, refunded in parts, paid again by a repeated callback  *)
(* or booked on another day: the creator's total covers the share of what  *)
(* buyers did not get back, and the daily rows cover the total             *)
(* (MarkOrderPaid, RefundOrder and the ledger they write).                 *)
THEOREM CreatorIsCovered == Spec => []LedgerCovers
<1>1. Init => LedgerCovers
  <2> SUFFICES ASSUME Init PROVE LedgerCovers
    OBVIOUS
  <2>1. \A o \in OrderNos : KeptShare[o] = 0
    BY DEF Init, KeptShare, NoOrder, Settled
  <2>2. DOMAIN KeptShare = OrderNos
    BY DEF KeptShare
  <2>3. SumFunctionOnSet(KeptShare, OrderNos) = 0
    BY <2>1, DataAssumption, SumZero
  <2> DEFINE zero == [d \in Days |-> 0]
  <2>4. SumFunctionOnSet(zero, Days) = 0
    <3>1. \A d \in Days : zero[d] = 0
      OBVIOUS
    <3> HIDE DEF zero
    <3> QED BY <3>1, ShareAssumption, SumZero
  <2>5. ledger.total = 0 /\ ledger.stats = zero /\ ledger.chanIncome = zero
    BY DEF Init, EmptyLedger
  <2> QED BY <2>2, <2>3, <2>4, <2>5
          DEF LedgerCovers, CreatorNeverShort, DailyRowsCoverTotal, SumFunction, SumOverDays
<1>2. Inv /\ RefundAccounted /\ Inv' /\ RefundAccounted' /\ LedgerCovers /\ [Next]_vars
        => LedgerCovers'
  <2> SUFFICES ASSUME Inv, RefundAccounted, Inv', RefundAccounted', LedgerCovers, [Next]_vars
               PROVE  LedgerCovers'
    OBVIOUS
  <2>1. CASE Untouched
    <3>1. KeptShare' = KeptShare
      BY <2>1 DEF Untouched, KeptShare
    <3> QED BY <2>1, <3>1
            DEF Untouched, LedgerCovers, CreatorNeverShort, DailyRowsCoverTotal
  <2> QED BY <2>1, MoneyStep, PaymentCovers, RefundCovers
<1>3. QED
  BY <1>1, <1>2, SpecInv, RefundsAddUp, PTL DEF Spec

-----------------------------------------------------------------------------
(***************************************************************************)
(* What an Idempotency-Key is worth, for any number of requests, bodies    *)
(* and runs of the handler.                                                *)
(*                                                                         *)
(* As long as no lock runs out, whoever is inside holds the lock.  As long *)
(* as nothing at all goes wrong, the first run of the handler is the only  *)
(* one: while it is on its way it holds the lock, and once it is over its  *)
(* answer is in the cache and nobody is left who looked before it was.     *)
(***************************************************************************)

InsideHoldsLock ==
    lapsed \/ /\ \A q \in Requests : Inside(q) => lock # Nobody
              /\ \A p, q \in Requests : Inside(p) /\ Inside(q) => p = q

AnswerIsHonest ==
    cache # NoAnswer =>
        served[cache.run].body = cache.body /\ served[cache.run].outcome \in {"ok", "refused"}

(* A request carries its body to the handler, and knows its run. *)
RunIsOwn ==
    /\ \A q \in Requests : Inside(q) =>
         /\ reqs[q].run \in 1..lastServed
         /\ served[reqs[q].run].body = reqs[q].body
         /\ reqs[q].at = "running" => served[reqs[q].run].outcome = "none"
         /\ reqs[q].at # "running" => served[reqs[q].run].outcome # "none"
    /\ \A p, q \in Requests : Inside(p) /\ Inside(q) /\ reqs[p].run = reqs[q].run => p = q
    /\ \A n \in ServedIds : n > lastServed => served[n] = NotServed
    /\ cache # NoAnswer => cache.run <= lastServed
    /\ \A x \in replays : x[2] <= lastServed

FailureIsExcused ==
    \A n \in ServedIds : served[n].outcome = "error" => excused

(* Nothing failed or lapsed, and nobody crossed. *)
Smooth == ~excused /\ ~crossed

FirstIsLast ==
    Smooth =>
        /\ ~lapsed
        /\ lastServed <= 1
        /\ lastServed = 1 =>
             \/ \E q \in Requests : reqs[q].at \in {"running", "handled"}
             \/ /\ cache # NoAnswer
                /\ \/ \E q \in Requests : reqs[q].at = "leaving"
                   \/ \A q \in Requests : reqs[q].at # "missed"

IInv ==
    /\ IdemTypeOK
    /\ InsideHoldsLock
    /\ RunIsOwn
    /\ AnswerIsHonest
    /\ RepeatsAreHonest
    /\ FailureIsExcused
    /\ FirstIsLast

-----------------------------------------------------------------------------

LEMMA InitIInv == IdemInit => IInv
<1>. SUFFICES ASSUME IdemInit PROVE IInv
  OBVIOUS
<1>1. IdemTypeOK
  <2>1. /\ cache = NoAnswer /\ lock = Nobody /\ replays = {} /\ lastServed = 0
        /\ crossed \in BOOLEAN /\ lapsed \in BOOLEAN /\ excused \in BOOLEAN
    BY DEF IdemInit
  <2>2. reqs \in [Requests -> {NoRequest}] /\ served \in [ServedIds -> {NotServed}]
    BY DEF IdemInit
  <2>3. 0 \in 0..MaxServed
    BY IdempotencyAssumption
  <2>. QED BY <2>1, <2>2, <2>3 DEF IdemTypeOK
<1>2. \A q \in Requests : reqs[q].at = "idle"
  BY DEF IdemInit, NoRequest
<1>3. InsideHoldsLock /\ FirstIsLast
  BY <1>2 DEF IdemInit, InsideHoldsLock, FirstIsLast, Inside
<1>4. RunIsOwn
  BY <1>2 DEF IdemInit, RunIsOwn, Inside
<1>5. AnswerIsHonest /\ RepeatsAreHonest
  BY DEF IdemInit, AnswerIsHonest, RepeatsAreHonest
<1>6. FailureIsExcused
  BY DEF IdemInit, FailureIsExcused, NotServed
<1>. QED BY <1>1, <1>3, <1>4, <1>5, <1>6 DEF IInv

(* The parts of a request. *)
LEMMA RequestParts ==
  ASSUME IdemTypeOK, NEW q \in Requests
  PROVE  /\ reqs[q].at \in {"idle", "missed", "running", "handled", "leaving"}
         /\ reqs[q].at # "idle" => reqs[q].body \in Bodies /\ reqs[q].run \in 0..MaxServed
         /\ reqs[q] = NoRequest <=> reqs[q].at = "idle"
  BY IdempotencyAssumption DEF IdemTypeOK, NoRequest

LEMMA LoadStep ==
  ASSUME IInv, NEW q \in Requests, NEW b \in Bodies, loadCached(q, b)
  PROVE  IInv'
<1>. DEFINE r == [at |-> "missed", body |-> b, run |-> 0]
<1>. USE IdempotencyAssumption
<1>1. IdemTypeOK
  BY DEF IInv
<1>2. /\ r.at = "missed"
      /\ r \in [at: {"missed", "running", "handled", "leaving"}, body: Bodies, run: 0..MaxServed]
  OBVIOUS
<1>3. \/ /\ cache = NoAnswer /\ replays' = replays
         /\ reqs'[q] = r /\ \A p \in Requests \ {q} : reqs'[p] = reqs[p]
      \/ cache # NoAnswer /\ reqs' = reqs /\ replays' = replays
      \/ cache # NoAnswer /\ reqs' = reqs /\ cache.body = b /\ replays' = replays \cup {<<b, cache.run>>}
  BY <1>1 DEF loadCached, SameRequest, IdemTypeOK
<1>4. reqs' \in [Requests -> [at: {"missed", "running", "handled", "leaving"}, body: Bodies, run: 0..MaxServed]
                            \cup {NoRequest}]
  BY <1>1, <1>2 DEF loadCached, IdemTypeOK
<1>. HIDE DEF r
<1>5. UNCHANGED <<cache, lock, served, lastServed, crossed, lapsed, excused>>
  BY DEF loadCached
<1>6. reqs[q].at = "idle"
  BY <1>1, RequestParts DEF loadCached
<1>7. \A p \in Requests : Inside(p)' <=> Inside(p)
  BY <1>2, <1>3, <1>6 DEF Inside
<1>8. \A p \in Requests : Inside(p) => reqs'[p] = reqs[p]
  BY <1>3, <1>6 DEF Inside
<1>9. cache # NoAnswer => cache.run \in ServedIds /\ cache.body \in Bodies
  BY <1>1 DEF IdemTypeOK
<1>10. IdemTypeOK'
  BY <1>1, <1>3, <1>4, <1>5, <1>9 DEF IdemTypeOK
<1>11. InsideHoldsLock' /\ AnswerIsHonest'
  BY <1>5, <1>7 DEF IInv, InsideHoldsLock, AnswerIsHonest
<1>12. RunIsOwn'
  BY <1>3, <1>5, <1>7, <1>8 DEF IInv, RunIsOwn
<1>13. RepeatsAreHonest'
  BY <1>3, <1>5 DEF IInv, RepeatsAreHonest, AnswerIsHonest
<1>14. FirstIsLast'
  <2>1. CASE cache # NoAnswer
    BY <1>3, <1>5, <2>1 DEF IInv, FirstIsLast, Smooth
  <2>2. CASE cache = NoAnswer
    BY <1>3, <1>5, <1>6, <2>2 DEF IInv, FirstIsLast, Smooth
  <2>. QED BY <2>1, <2>2
<1>15. FailureIsExcused'
  BY <1>5 DEF IInv, FailureIsExcused
<1>. QED BY <1>10, <1>11, <1>12, <1>13, <1>14, <1>15 DEF IInv

LEMMA SetNXStep ==
  ASSUME IInv, NEW q \in Requests, SetNX(q)
  PROVE  IInv'
<1>. DEFINE b == reqs[q].body
            n == lastServed + 1
            r == [at |-> "running", body |-> b, run |-> n]
            v == [body |-> b, outcome |-> "none"]
<1>1. IdemTypeOK
  BY DEF IInv
<1>2. reqs[q].at = "missed" /\ b \in Bodies /\ lastServed \in Nat
  BY <1>1, RequestParts, IdempotencyAssumption DEF SetNX, IdemTypeOK
<1>3. UNCHANGED <<cache, replays, crossed, lapsed, excused>>
  BY DEF SetNX
<1>4. CASE LockHeld
  <2>1. /\ reqs'[q] = NoRequest /\ \A p \in Requests \ {q} : reqs'[p] = reqs[p]
        /\ UNCHANGED <<lock, served, lastServed>>
    BY <1>1, <1>4 DEF SetNX, IdemTypeOK
  <2>2. IdemTypeOK'
    BY <1>1, <1>3, <1>4, <2>1 DEF SetNX, IdemTypeOK
  <2>3. \A p \in Requests : (Inside(p)' <=> Inside(p)) /\ (Inside(p) => reqs'[p] = reqs[p])
    BY <1>2, <2>1 DEF Inside, NoRequest
  <2>4. InsideHoldsLock' /\ AnswerIsHonest' /\ RepeatsAreHonest' /\ RunIsOwn' /\ FailureIsExcused'
    BY <1>3, <2>1, <2>3
    DEF IInv, InsideHoldsLock, AnswerIsHonest, RepeatsAreHonest, RunIsOwn, FailureIsExcused
  <2>5. FirstIsLast'
    BY <1>2, <1>3, <2>1 DEF IInv, FirstIsLast, Smooth, NoRequest
  <2>. QED BY <2>2, <2>4, <2>5 DEF IInv
<1>5. CASE ~LockHeld
  <2>1. /\ reqs' = [reqs EXCEPT ![q] = r]
        /\ served' = [served EXCEPT ![n] = v]
        /\ lock = Nobody /\ lock' = b /\ lastServed' = n /\ n \in ServedIds
    <3>1. lastServed' = n /\ lastServed < MaxServed
      BY <1>2, <1>5 DEF SetNX
    <3>2. n \in ServedIds
      BY <1>2, <3>1, IdempotencyAssumption DEF ServedIds
    <3>3. reqs' = [reqs EXCEPT ![q] = r] /\ served' = [served EXCEPT ![n] = v]
      BY <1>2, <1>5, <3>1 DEF SetNX
    <3>4. lock = Nobody /\ lock' = b
      BY <1>2, <1>5 DEF SetNX, LockHeld
    <3>. QED BY <3>1, <3>2, <3>3, <3>4
  <2>2. /\ r.at = "running" /\ r.body = b /\ r.run = n
        /\ v.body = b /\ v.outcome = "none"
        /\ r \in [at: {"missed", "running", "handled", "leaving"}, body: Bodies, run: 0..MaxServed]
        /\ v \in [body: Bodies, outcome: Outcomes \cup {"none"}]
    BY <1>2, <2>1 DEF ServedIds
  <2>. HIDE DEF r, v
  <2>3. /\ reqs'[q] = r /\ \A p \in Requests \ {q} : reqs'[p] = reqs[p]
        /\ served'[n] = v /\ \A m \in ServedIds \ {n} : served'[m] = served[m]
    BY <1>1, <2>1 DEF IdemTypeOK
  <2>4. IdemTypeOK'
    BY <1>1, <1>2, <1>3, <2>1, <2>2 DEF IdemTypeOK, ServedIds
  <2>5. \A p \in Requests : p # q => (Inside(p)' <=> Inside(p))
    BY <2>3 DEF Inside
  <2>6. \A p \in Requests : p # q /\ Inside(p) => reqs[p].run \in ServedIds /\ reqs[p].run # n
    BY <1>2, <2>1, IdempotencyAssumption DEF IInv, RunIsOwn, ServedIds
  <2>7. InsideHoldsLock'
    BY <1>2, <1>3, <2>1, <2>5, IdempotencyAssumption DEF IInv, InsideHoldsLock
  <2>8. AnswerIsHonest'
    BY <1>1, <1>2, <1>3, <2>1, <2>3 DEF IInv, AnswerIsHonest, RunIsOwn, IdemTypeOK, ServedIds
  <2>9. RepeatsAreHonest'
    BY <1>1, <1>2, <1>3, <2>1, <2>3 DEF IInv, RepeatsAreHonest, RunIsOwn, IdemTypeOK, ServedIds
  <2>10. RunIsOwn'
    <3>1. ASSUME NEW p \in Requests, Inside(p)'
          PROVE  /\ reqs'[p].run \in 1..lastServed'
                 /\ served'[reqs'[p].run].body = reqs'[p].body
                 /\ reqs'[p].at = "running" => served'[reqs'[p].run].outcome = "none"
                 /\ reqs'[p].at # "running" => served'[reqs'[p].run].outcome # "none"
      <4>1. CASE p = q
        BY <1>2, <2>1, <2>2, <2>3, <4>1
      <4>2. CASE p # q
        BY <1>2, <2>1, <2>3, <2>5, <2>6, <3>1, <4>2 DEF IInv, RunIsOwn
      <4>. QED BY <4>1, <4>2
    <3>2. \A p, o \in Requests : Inside(p)' /\ Inside(o)' /\ reqs'[p].run = reqs'[o].run => p = o
      BY <2>2, <2>3, <2>5, <2>6 DEF IInv, RunIsOwn
    <3>3. \A m \in ServedIds : m > lastServed' => served'[m] = NotServed
      BY <1>2, <2>1, <2>3 DEF IInv, RunIsOwn, ServedIds
    <3>4. /\ cache' # NoAnswer => cache'.run <= lastServed'
          /\ \A x \in replays' : x[2] <= lastServed'
      BY <1>1, <1>2, <1>3, <2>1 DEF IInv, RunIsOwn, IdemTypeOK, ServedIds
    <3>. QED BY <3>1, <3>2, <3>3, <3>4 DEF RunIsOwn
  <2>11. FirstIsLast'
    <3>1. Smooth => lastServed # 1
      BY <1>2, <2>1 DEF IInv, FirstIsLast, Smooth, InsideHoldsLock, Inside
    <3>2. Smooth' => Smooth /\ ~lapsed' /\ lastServed' = 1
      BY <1>2, <1>3, <2>1, <3>1 DEF IInv, FirstIsLast, Smooth
    <3>. QED BY <2>2, <2>3, <3>2 DEF FirstIsLast
  <2>12. FailureIsExcused'
    BY <1>3, <2>2, <2>3 DEF IInv, FailureIsExcused
  <2>. QED BY <2>4, <2>7, <2>8, <2>9, <2>10, <2>11, <2>12 DEF IInv
<1>. QED BY <1>4, <1>5

LEMMA HandleStep ==
  ASSUME IInv, NEW q \in Requests, NEW outcome \in Outcomes, Handle(q, outcome)
  PROVE  IInv'
<1>. DEFINE n == reqs[q].run
            r == [reqs[q] EXCEPT !.at = "handled"]
            v == [served[n] EXCEPT !.outcome = outcome]
<1>. USE IdempotencyAssumption
<1>1. IdemTypeOK
  BY DEF IInv
<1>2. /\ reqs[q].at = "running" /\ reqs[q].body \in Bodies
      /\ n \in ServedIds /\ n <= lastServed /\ lastServed \in Nat
      /\ served[n].body = reqs[q].body /\ served[n].outcome = "none"
  BY <1>1, RequestParts DEF Handle, IdemTypeOK, IInv, RunIsOwn, Inside, ServedIds
<1>3. /\ reqs[q] \in [at: {"missed", "running", "handled", "leaving"}, body: Bodies, run: 0..MaxServed]
      /\ served[n] \in [body: Bodies, outcome: Outcomes \cup {"none"}]
  BY <1>1, <1>2 DEF IdemTypeOK, NoRequest, NotServed
<1>4. /\ r \in [at: {"missed", "running", "handled", "leaving"}, body: Bodies, run: 0..MaxServed]
      /\ r.at = "handled" /\ r.body = reqs[q].body /\ r.run = n
      /\ v \in [body: Bodies, outcome: Outcomes \cup {"none"}]
      /\ v.body = served[n].body /\ v.outcome = outcome
  BY <1>3
<1>5. reqs' = [reqs EXCEPT ![q] = r] /\ served' = [served EXCEPT ![n] = v]
  BY DEF Handle
<1>6. UNCHANGED <<cache, lock, lastServed, replays, crossed, lapsed>> /\ excused' \in BOOLEAN
      /\ (excused => excused')
  BY DEF Handle
<1>7. outcome # "none"
  BY DEF Outcomes
<1>. HIDE DEF n, r, v
<1>8. /\ reqs'[q] = r /\ \A p \in Requests \ {q} : reqs'[p] = reqs[p]
      /\ served'[n] = v /\ \A m \in ServedIds \ {n} : served'[m] = served[m]
  BY <1>1, <1>2, <1>5 DEF IdemTypeOK
<1>9. IdemTypeOK'
  BY <1>1, <1>4, <1>5, <1>6 DEF IdemTypeOK
<1>10. \A p \in Requests : Inside(p)' <=> Inside(p)
  BY <1>2, <1>4, <1>8 DEF Inside
<1>11. InsideHoldsLock'
  BY <1>6, <1>10 DEF IInv, InsideHoldsLock
<1>12. AnswerIsHonest'
  BY <1>1, <1>2, <1>6, <1>8 DEF IInv, AnswerIsHonest, IdemTypeOK
<1>13. RepeatsAreHonest'
  BY <1>1, <1>2, <1>6, <1>8 DEF IInv, RepeatsAreHonest, IdemTypeOK
<1>14. RunIsOwn'
  <2>1. ASSUME NEW p \in Requests, Inside(p)'
        PROVE  /\ reqs'[p].run \in 1..lastServed'
               /\ served'[reqs'[p].run].body = reqs'[p].body
               /\ reqs'[p].at = "running" => served'[reqs'[p].run].outcome = "none"
               /\ reqs'[p].at # "running" => served'[reqs'[p].run].outcome # "none"
    <3>1. CASE p = q
      BY <1>2, <1>4, <1>6, <1>7, <1>8, <3>1 DEF ServedIds
    <3>2. CASE p # q
      <4>1. Inside(p) /\ Inside(q) /\ reqs'[p] = reqs[p]
        BY <1>2, <1>8, <1>10, <2>1, <3>2 DEF Inside
      <4>2. reqs[p].run # n
        BY <3>2, <4>1 DEF IInv, RunIsOwn, n
      <4>3. reqs[p].run \in 1..lastServed /\ reqs[p].run \in ServedIds
        BY <1>1, <4>1 DEF IInv, RunIsOwn, ServedIds, IdemTypeOK
      <4>. QED BY <1>6, <1>8, <4>1, <4>2, <4>3 DEF IInv, RunIsOwn
    <3>. QED BY <3>1, <3>2
  <2>2. \A p, o \in Requests : Inside(p)' /\ Inside(o)' /\ reqs'[p].run = reqs'[o].run => p = o
    <3>1. \A p \in Requests : reqs'[p].run = reqs[p].run
      BY <1>4, <1>8 DEF n
    <3>. QED BY <1>10, <3>1 DEF IInv, RunIsOwn
  <2>3. \A m \in ServedIds : m > lastServed' => served'[m] = NotServed
    BY <1>2, <1>6, <1>8 DEF IInv, RunIsOwn, ServedIds
  <2>4. /\ cache' # NoAnswer => cache'.run <= lastServed'
        /\ \A x \in replays' : x[2] <= lastServed'
    BY <1>6 DEF IInv, RunIsOwn
  <2>. QED BY <2>1, <2>2, <2>3, <2>4 DEF RunIsOwn
<1>15. FirstIsLast'
  <2>1. Smooth' => Smooth
    BY <1>6 DEF Smooth
  <2>. QED BY <1>4, <1>6, <1>8, <2>1 DEF IInv, FirstIsLast
<1>16. FailureIsExcused'
  <2>1. outcome = "error" => excused'
    BY DEF Handle
  <2>. QED BY <1>4, <1>6, <1>8, <2>1 DEF IInv, FailureIsExcused
<1>. QED BY <1>9, <1>11, <1>12, <1>13, <1>14, <1>15, <1>16 DEF IInv

LEMMA SaveStep ==
  ASSUME IInv, NEW q \in Requests, saveCached(q)
  PROVE  IInv'
<1>. DEFINE n == reqs[q].run
            r == [reqs[q] EXCEPT !.at = "leaving"]
            c == [body |-> reqs[q].body, run |-> n]
<1>. USE IdempotencyAssumption
<1>1. IdemTypeOK
  BY DEF IInv
<1>2. /\ reqs[q].at = "handled" /\ reqs[q].body \in Bodies
      /\ n \in ServedIds /\ n <= lastServed /\ lastServed \in Nat
      /\ served[n].body = reqs[q].body /\ served[n].outcome # "none"
  BY <1>1, RequestParts DEF saveCached, IdemTypeOK, IInv, RunIsOwn, Inside, ServedIds
<1>3. served[n].outcome \in Outcomes
  BY <1>1, <1>2 DEF IdemTypeOK, NotServed
<1>4. reqs[q] \in [at: {"missed", "running", "handled", "leaving"}, body: Bodies, run: 0..MaxServed]
  BY <1>1, <1>2 DEF IdemTypeOK, NoRequest
<1>5. /\ r \in [at: {"missed", "running", "handled", "leaving"}, body: Bodies, run: 0..MaxServed]
      /\ r.at = "leaving" /\ r.body = reqs[q].body /\ r.run = n
      /\ c \in [body: Bodies, run: ServedIds] /\ c.body = reqs[q].body /\ c.run = n
      /\ c # NoAnswer
  BY <1>2, <1>4 DEF NoAnswer
<1>6. reqs' = [reqs EXCEPT ![q] = r] /\ UNCHANGED <<lock, served, lastServed, replays, crossed, lapsed>>
  BY DEF saveCached
<1>7. \/ cache' = c /\ served[n].outcome # "error" /\ excused' = excused
      \/ cache' = cache /\ served[n].outcome = "error" /\ excused' = excused
      \/ cache' = cache /\ excused' = TRUE
  BY DEF saveCached, Keeps, Answer
<1>. HIDE DEF n, r, c
<1>8. reqs'[q] = r /\ \A p \in Requests \ {q} : reqs'[p] = reqs[p]
  BY <1>1, <1>6 DEF IdemTypeOK
<1>9. IdemTypeOK'
  BY <1>1, <1>5, <1>6, <1>7 DEF IdemTypeOK
<1>10. \A p \in Requests : Inside(p)' <=> Inside(p)
  BY <1>2, <1>5, <1>8 DEF Inside
<1>11. InsideHoldsLock' /\ RepeatsAreHonest'
  BY <1>6, <1>10 DEF IInv, InsideHoldsLock, RepeatsAreHonest
<1>12. AnswerIsHonest'
  BY <1>2, <1>3, <1>5, <1>6, <1>7 DEF IInv, AnswerIsHonest, Outcomes
<1>13. RunIsOwn'
  <2>1. ASSUME NEW p \in Requests, Inside(p)'
        PROVE  /\ reqs'[p].run \in 1..lastServed'
               /\ served'[reqs'[p].run].body = reqs'[p].body
               /\ reqs'[p].at = "running" => served'[reqs'[p].run].outcome = "none"
               /\ reqs'[p].at # "running" => served'[reqs'[p].run].outcome # "none"
    <3>1. CASE p = q
      BY <1>2, <1>5, <1>6, <1>8, <3>1 DEF ServedIds
    <3>2. CASE p # q
      BY <1>6, <1>8, <1>10, <2>1, <3>2 DEF IInv, RunIsOwn
    <3>. QED BY <3>1, <3>2
  <2>2. \A p, o \in Requests : Inside(p)' /\ Inside(o)' /\ reqs'[p].run = reqs'[o].run => p = o
    <3>1. \A p \in Requests : reqs'[p].run = reqs[p].run
      BY <1>5, <1>8 DEF n
    <3>. QED BY <1>10, <3>1 DEF IInv, RunIsOwn
  <2>3. /\ \A m \in ServedIds : m > lastServed' => served'[m] = NotServed
        /\ \A x \in replays' : x[2] <= lastServed'
    BY <1>6 DEF IInv, RunIsOwn
  <2>4. cache' # NoAnswer => cache'.run <= lastServed'
    BY <1>2, <1>5, <1>6, <1>7 DEF IInv, RunIsOwn
  <2>. QED BY <2>1, <2>2, <2>3, <2>4 DEF RunIsOwn
<1>14. FailureIsExcused'
  BY <1>6, <1>7 DEF IInv, FailureIsExcused
<1>15. FirstIsLast'
  <2>1. Smooth' => Smooth /\ cache' = c
    BY <1>2, <1>6, <1>7 DEF IInv, FailureIsExcused, Smooth
  <2>2. reqs'[q].at = "leaving" /\ c # NoAnswer
    BY <1>5, <1>8
  <2>. QED BY <1>6, <2>1, <2>2 DEF IInv, FirstIsLast
<1>. QED BY <1>9, <1>11, <1>12, <1>13, <1>14, <1>15 DEF IInv

LEMMA DelStep ==
  ASSUME IInv, NEW q \in Requests, Del(q)
  PROVE  IInv'
<1>1. IdemTypeOK
  BY DEF IInv
<1>2. /\ reqs[q].at = "leaving" /\ lock' = Nobody
      /\ reqs' = [reqs EXCEPT ![q] = NoRequest]
      /\ UNCHANGED <<cache, served, lastServed, replays, lapsed, excused>>
      /\ crossed' = (crossed \/ \E p \in Requests : reqs[p].at = "missed")
  BY DEF Del
<1>3. reqs'[q] = NoRequest /\ \A p \in Requests \ {q} : reqs'[p] = reqs[p]
  BY <1>1, <1>2 DEF IdemTypeOK
<1>4. IdemTypeOK'
  BY <1>1, <1>2 DEF IdemTypeOK
<1>5. Inside(q) /\ ~Inside(q)'
  BY <1>2, <1>3 DEF Inside, NoRequest
<1>6. \A p \in Requests : Inside(p)' => p # q /\ Inside(p) /\ reqs'[p] = reqs[p]
  BY <1>3, <1>5 DEF Inside
<1>7. InsideHoldsLock'
  BY <1>2, <1>5, <1>6 DEF IInv, InsideHoldsLock
<1>8. AnswerIsHonest' /\ RepeatsAreHonest' /\ FailureIsExcused'
  BY <1>2 DEF IInv, AnswerIsHonest, RepeatsAreHonest, FailureIsExcused
<1>9. RunIsOwn'
  BY <1>2, <1>6 DEF IInv, RunIsOwn
<1>10. FirstIsLast'
  <2>. SUFFICES ASSUME Smooth' PROVE FirstIsLast'
    BY DEF FirstIsLast
  <2>1. Smooth /\ \A p \in Requests : reqs[p].at # "missed"
    BY <1>2 DEF Smooth
  <2>2. ~lapsed' /\ lastServed' <= 1
    BY <1>2, <2>1 DEF IInv, FirstIsLast
  <2>3. \A p \in Requests : reqs[p].at \notin {"running", "handled"}
    BY <1>2, <1>5, <2>2 DEF IInv, InsideHoldsLock, Inside
  <2>4. lastServed' = 1 => cache' # NoAnswer
    BY <1>2, <2>1, <2>3 DEF IInv, FirstIsLast
  <2>5. \A p \in Requests : reqs'[p].at # "missed"
    BY <1>3, <2>1 DEF NoRequest
  <2>. QED BY <2>2, <2>4, <2>5 DEF FirstIsLast
<1>. QED BY <1>4, <1>7, <1>8, <1>9, <1>10 DEF IInv

LEMMA FailureStep ==
  ASSUME IInv, LockRunsOut \/ AnswerRunsOut \/ ProcessStops
  PROVE  IInv'
<1>1. IdemTypeOK
  BY DEF IInv
<1>2. CASE LockRunsOut
  <2>1. /\ lock' = Nobody /\ lapsed' = TRUE /\ excused' = TRUE
        /\ UNCHANGED <<cache, reqs, served, lastServed, replays, crossed>>
    BY <1>2 DEF LockRunsOut
  <2>2. IdemTypeOK'
    BY <1>1, <2>1 DEF IdemTypeOK
  <2>3. \A p \in Requests : Inside(p)' <=> Inside(p)
    BY <2>1 DEF Inside
  <2>. QED BY <2>1, <2>2, <2>3 DEF IInv, InsideHoldsLock, RunIsOwn, AnswerIsHonest,
              RepeatsAreHonest,
                                   FailureIsExcused, FirstIsLast, Smooth
<1>3. CASE AnswerRunsOut
  <2>1. /\ cache' = NoAnswer /\ excused' = TRUE
        /\ UNCHANGED <<lock, reqs, served, lastServed, replays, crossed, lapsed>>
    BY <1>3 DEF AnswerRunsOut
  <2>2. IdemTypeOK'
    BY <1>1, <2>1 DEF IdemTypeOK
  <2>3. \A p \in Requests : Inside(p)' <=> Inside(p)
    BY <2>1 DEF Inside
  <2>. QED BY <2>1, <2>2, <2>3 DEF IInv, InsideHoldsLock, RunIsOwn, AnswerIsHonest,
              RepeatsAreHonest,
                                   FailureIsExcused, FirstIsLast, Smooth
<1>4. CASE ProcessStops
  <2>1. /\ \A p \in Requests : reqs'[p] = NoRequest
        /\ reqs' \in [Requests -> {NoRequest}]
        /\ excused' = TRUE
        /\ UNCHANGED <<cache, lock, served, lastServed, replays, crossed, lapsed>>
    BY <1>4 DEF ProcessStops
  <2>2. IdemTypeOK'
    BY <1>1, <2>1 DEF IdemTypeOK
  <2>3. \A p \in Requests : ~Inside(p)'
    BY <2>1 DEF Inside, NoRequest
  <2>. QED BY <2>1, <2>2, <2>3 DEF IInv, InsideHoldsLock, RunIsOwn, AnswerIsHonest,
              RepeatsAreHonest,
                                   FailureIsExcused, FirstIsLast, Smooth
<1>. QED BY <1>2, <1>3, <1>4

LEMMA StutterStep ==
  ASSUME IInv, UNCHANGED idemVars
  PROVE  IInv'
<1>1. UNCHANGED <<cache, lock, reqs, served, lastServed, replays, crossed, lapsed, excused>>
  BY DEF idemVars
<1>2. \A p \in Requests : Inside(p)' <=> Inside(p)
  BY <1>1 DEF Inside
<1>3. IdemTypeOK'
  BY <1>1 DEF IInv, IdemTypeOK
<1>. QED BY <1>1, <1>2, <1>3 DEF IInv, InsideHoldsLock, RunIsOwn, AnswerIsHonest, RepeatsAreHonest,
                                 FailureIsExcused, FirstIsLast, Smooth

LEMMA StepIInv == IInv /\ [IdemNext]_idemVars => IInv'
<1>. SUFFICES ASSUME IInv, [IdemNext]_idemVars PROVE IInv'
  OBVIOUS
<1>1. ASSUME NEW q \in Requests, NEW b \in Bodies, loadCached(q, b) PROVE IInv'
  BY <1>1, LoadStep
<1>2. ASSUME NEW q \in Requests, SetNX(q) PROVE IInv'
  BY <1>2, SetNXStep
<1>3. ASSUME NEW q \in Requests, NEW outcome \in Outcomes, Handle(q, outcome) PROVE IInv'
  BY <1>3, HandleStep
<1>4. ASSUME NEW q \in Requests, saveCached(q) PROVE IInv'
  BY <1>4, SaveStep
<1>5. ASSUME NEW q \in Requests, Del(q) PROVE IInv'
  BY <1>5, DelStep
<1>6. CASE LockRunsOut \/ AnswerRunsOut \/ ProcessStops
  BY <1>6, FailureStep
<1>7. CASE UNCHANGED idemVars
  BY <1>7, StutterStep
<1>. QED BY <1>1, <1>2, <1>3, <1>4, <1>5, <1>6, <1>7 DEF IdemNext

-----------------------------------------------------------------------------
(* Theorems.                                                               *)

LEMMA Invariance == IdemSpec => []IInv
  BY InitIInv, StepIInv, PTL DEF IdemSpec

(* The rows in Redis and the requests in flight stay what they are meant   *)
(* to be (idempotency.go:41-155).                                          *)
THEOREM IdemTypes == IdemSpec => []IdemTypeOK
<1>1. IInv => IdemTypeOK
  BY DEF IInv
<1>. QED BY <1>1, Invariance, PTL

(* One request at a time is in the handler until a lock runs out           *)
(* (idempotency.go:79-101).                                                *)
THEOREM Exclusion == IdemSpec => []OneAtATime
<1>1. IInv => OneAtATime
  BY DEF IInv, InsideHoldsLock, OneAtATime
<1>. QED BY <1>1, Invariance, PTL

(* What is repeated was answered, to the same request, whatever failed or  *)
(* lapsed in between (idempotency.go:107-110, 129-132).                    *)
THEOREM Honesty == IdemSpec => []RepeatsAreHonest
<1>1. IInv => RepeatsAreHonest
  BY DEF IInv
<1>. QED BY <1>1, Invariance, PTL

(* Without failures, lapses and the crossing of a freed lock, the key is   *)
(* handled once (idempotency.go:65-101).                                   *)
THEOREM Once == IdemSpec => []HandledOnce
<1>1. IInv => HandledOnce
  <2>. SUFFICES ASSUME IInv, ~excused, ~crossed PROVE HandledOnce
    BY DEF HandledOnce
  <2>1. lastServed \in Nat /\ lastServed <= 1
    BY IdempotencyAssumption DEF IInv, FirstIsLast, Smooth, IdemTypeOK
  <2>2. \A n \in ServedIds : n > lastServed => served[n].outcome = "none"
    BY DEF IInv, RunIsOwn, NotServed
  <2>3. \A n \in ServedIds : served[n].outcome = "ok" => n = 1
    BY <2>1, <2>2, IdempotencyAssumption DEF ServedIds
  <2>. QED BY <2>3 DEF HandledOnce
<1>. QED BY <1>1, Invariance, PTL

(* The three together: what a client that repeats a request with its key   *)
(* is promised (idempotency.go).                                           *)
THEOREM KeyKeepsItsPromise == IdemSpec => []KeyPromise
<1>1. OneAtATime /\ RepeatsAreHonest /\ HandledOnce => KeyPromise
  BY DEF KeyPromise
<1>. QED BY <1>1, Exclusion, Honesty, Once, PTL
=============================================================================
