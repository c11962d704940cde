------------------------------- MODULE Orders -------------------------------
(***************************************************************************)
(* The purchase of episodes of one drama (internal/billing): orders for    *)
(* one episode and for several, the payment channel that captures the      *)
(* money, the callbacks and the manual sync that report it, expiry, and    *)
(* refunds, with the unlocks and the creator's ledger they write.          *)
(*                                                                         *)
(* A database transaction is one step where its row locks make it one.     *)
(* What the code does outside a transaction, or what a transaction read    *)
(* without a lock and uses later, is a step of its own: the two halves of  *)
(* an order creation, each call to the channel, the local read of a sync.  *)
(***************************************************************************)
EXTENDS CreatorLedger

CONSTANTS Users, Episodes, OrderNos, RefundNos,
          Free,           (* episodes below pricing.free_episodes          *)
          Prices,         (* unit prices in force over time, in cents      *)
          None,           (* sentinel: no user, no order, no refund_no     *)
          TTL,            (* OrderPendingTTL, in ticks                     *)
          PayExpire,      (* PaymentExpire, in ticks                       *)
          RequestTime,    (* a request reaches Prepay within this delay    *)
          Date,           (* the stat_date of each tick                    *)
          MaxTime,        (* bound on the clock                            *)
          DevMode,        (* PAYMENT_DEV_MODE: the mock endpoints exist    *)
          MayFail         (* crashes, failed channel calls and commits     *)

ASSUME TimeAssumption ==
    /\ TTL \in Nat /\ PayExpire \in Nat /\ RequestTime \in Nat
    /\ MaxTime \in Nat /\ Date \in [0 .. MaxTime -> Days]
    /\ RequestTime + PayExpire <= TTL

ASSUME DataAssumption ==
    /\ None \notin Users \cup OrderNos \cup RefundNos
    /\ Free \subseteq Episodes
    /\ IsFiniteSet(Episodes) /\ IsFiniteSet(OrderNos)
    /\ Prices \subseteq Nat \ {0}
    /\ DevMode \in BOOLEAN /\ MayFail \in BOOLEAN

VARIABLES now,        (* the clock                                         *)
          orders,     (* the orders table                                  *)
          unlocks,    (* episode_unlocks: pairs <<user, episode>>          *)
          ledger,     (* the creator's rows, see CreatorLedger             *)
          channel,    (* what WeChat or Alipay holds for an order number   *)
          txs,        (* open CreateOrder / CreateBatchOrder transactions  *)
          jobs,       (* channel calls that follow a commit                *)
          syncing     (* syncs whose local read found the order pending    *)

vars == <<now, orders, unlocks, ledger, channel, txs, jobs, syncing>>

Statuses == {"none", "pending", "paid", "closed", "partial_refunded", "refunded"}

(* An order with episode_id = 0 is a batch: its episodes are episode_ids.  *)
Order == [status: Statuses, user: Users \cup {None}, batch: BOOLEAN,
          eps: SUBSET Episodes, amount: Nat, expiredAt: Nat,
          refunded: Nat, refundNo: RefundNos \cup {None}]

NoOrder == [status |-> "none", user |-> None, batch |-> FALSE, eps |-> {},
            amount |-> 0, expiredAt |-> 0, refunded |-> 0, refundNo |-> None]

(* A link is a signed payment link whose trade the channel has not seen;   *)
(* the trade is open once the buyer reached the cashier.                   *)
Trade == [state: {"none", "link", "open", "closed", "captured"},
          payBy: Nat, at: 0 .. MaxTime, moved: Nat, seen: SUBSET RefundNos]

NoTrade == [state |-> "none", payBy |-> 0, at |-> 0, moved |-> 0, seen |-> {}]

(* olds: the pending orders the transaction read, to be closed at commit.  *)
Tx == [user: Users, batch: BOOLEAN, eps: SUBSET Episodes, start: Nat,
       olds: SUBSET OrderNos]

Job == [close: SUBSET OrderNos, prepay: OrderNos \cup {None}]

Grants(o) == {<<orders[o].user, e>> : e \in orders[o].eps}

(* Orders whose money the code considers taken. *)
Settled == {"paid", "partial_refunded", "refunded"}

TypeOK ==
    /\ now \in 0 .. MaxTime
    /\ orders \in [OrderNos -> Order]
    /\ unlocks \subseteq Users \X Episodes
    /\ ledger \in Ledger
    /\ channel \in [OrderNos -> Trade]
    /\ txs \subseteq Tx
    /\ jobs \subseteq Job
    /\ syncing \subseteq OrderNos

Init ==
    /\ now = 0
    /\ orders = [o \in OrderNos |-> NoOrder]
    /\ unlocks = {}
    /\ ledger = EmptyLedger
    /\ channel = [o \in OrderNos |-> NoTrade]
    /\ txs = {}
    /\ jobs = {}
    /\ syncing = {}

-----------------------------------------------------------------------------
(* Time.  RequestTime bounds how long a request may take from reading the  *)
(* clock to the Prepay call, so the clock waits for it.                    *)

StartOf(o) == orders[o].expiredAt - TTL

Tick ==
    /\ now < MaxTime
    /\ \A t \in txs : now < t.start + RequestTime
    /\ \A j \in jobs : j.prepay # None => now < StartOf(j.prepay) + RequestTime
    /\ now' = now + 1
    /\ UNCHANGED <<orders, unlocks, ledger, channel, txs, jobs, syncing>>

-----------------------------------------------------------------------------
(* Creating an order.  The advisory lock is on (user, episode) for a       *)
(* single order and on (user, drama) for a batch: the two do not exclude   *)
(* each other, and neither excludes MarkOrderPaid.                         *)

SameKey(a, b) == /\ a.user = b.user
                 /\ a.batch = b.batch
                 /\ (~a.batch => a.eps = b.eps)

(* Mutant: no advisory lock. *)
LockNotTaken(t) == TRUE

LockFree(t) == \A u \in txs : ~SameKey(u, t)

PendingOf(t) == {o \in OrderNos : orders[o].status = "pending" /\ SameKey(orders[o], t)}

(* The new transaction's reads: unlocks, then the pending orders. *)
Begin(t) ==
    /\ LockFree(t)
    /\ txs' = txs \cup {[t EXCEPT !.olds = PendingOf(t)]}
    /\ UNCHANGED <<now, orders, unlocks, ledger, channel, jobs, syncing>>

(* The request reads its clock before it waits for the lock. *)
Started == {s \in 0 .. now : now <= s + RequestTime}

NewTx(u, b, S, s) == [user |-> u, batch |-> b, eps |-> S, start |-> s, olds |-> {}]

Unlocked(u) == {e \in Episodes : <<u, e>> \in unlocks}

CreateOrder(u, e) ==
    /\ e \notin Free \cup Unlocked(u)
    /\ \E s \in Started : Begin(NewTx(u, FALSE, {e}, s))

(* quoteBatch drops free and unlocked episodes. *)
Buyable(u, S) == S \ (Free \cup Unlocked(u))

CreateBatchOrder(u, S) ==
    /\ Buyable(u, S) # {}
    /\ \E s \in Started : Begin(NewTx(u, TRUE, Buyable(u, S), s))

(* idx_orders_user_episode_pending covers single orders only. *)
IndexAllows(t, closed) == t.batch \/ PendingOf(t) \subseteq closed

(* The writes, one commit: close the old pending orders if the read found  *)
(* any, insert the new one.  The calls to the channel are left as a job.   *)
Commit(t, o, p) ==
    LET closed == IF t.olds = {} THEN {} ELSE PendingOf(t)
        new == [status |-> "pending", user |-> t.user, batch |-> t.batch,
                eps |-> t.eps, amount |-> p * Cardinality(t.eps),
                expiredAt |-> t.start + TTL, refunded |-> 0, refundNo |-> None]
    IN  /\ orders[o].status = "none"
        /\ IndexAllows(t, closed)
        /\ orders' = [x \in OrderNos |->
                        IF x = o THEN new
                        ELSE IF x \in closed THEN [orders[x] EXCEPT !.status = "closed"]
                        ELSE orders[x]]
        /\ jobs' = jobs \cup {[close |-> t.olds, prepay |-> o]}
        /\ txs' = txs \ {t}
        /\ UNCHANGED <<now, unlocks, ledger, channel, syncing>>

-----------------------------------------------------------------------------
(* The channel calls that follow a commit, in the request's own order:     *)
(* the superseded orders are closed, then the new one is prepaid.          *)

Finish(j, k) == jobs' = (jobs \ {j}) \cup (IF k.close = {} /\ k.prepay = None THEN {} ELSE {k})

(* The channel answers success also for a trade it does not know.          *)
CloseTrade(o) ==
    IF channel[o].state = "open"
    THEN channel' = [channel EXCEPT ![o].state = "closed"]
    ELSE UNCHANGED channel

CloseChannelOrder(j, o) ==
    /\ o \in j.close
    /\ \/ CloseTrade(o)
       \/ MayFail /\ UNCHANGED channel
    /\ Finish(j, [j EXCEPT !.close = @ \ {o}])
    /\ UNCHANGED <<now, orders, unlocks, ledger, txs, syncing>>

(* Mutant: the link lives as long as the order, counted from Prepay. *)
AttachWithPendingTTL(j) ==
    /\ j.close = {} /\ j.prepay # None
    /\ channel' = [channel EXCEPT ![j.prepay] =
                     [@ EXCEPT !.state = "open", !.payBy = now + TTL]]
    /\ Finish(j, [j EXCEPT !.prepay = None])
    /\ UNCHANGED <<now, orders, unlocks, ledger, txs, syncing>>

(* WeChat creates the trade at once; Alipay only signs a link. *)
AttachPayParams(j) ==
    /\ j.close = {} /\ j.prepay # None
    /\ \/ \E s \in {"link", "open"} :
            channel' = [channel EXCEPT ![j.prepay] =
                          [@ EXCEPT !.state = s, !.payBy = now + PayExpire]]
       \/ MayFail /\ UNCHANGED channel
    /\ Finish(j, [j EXCEPT !.prepay = None])
    /\ UNCHANGED <<now, orders, unlocks, ledger, txs, syncing>>

-----------------------------------------------------------------------------
(* The buyer at the channel. *)

Payable(o) == channel[o].state \in {"link", "open"} /\ now <= channel[o].payBy

ReachCashier(o) ==
    /\ channel[o].state = "link" /\ Payable(o)
    /\ channel' = [channel EXCEPT ![o].state = "open"]
    /\ UNCHANGED <<now, orders, unlocks, ledger, txs, jobs, syncing>>

Capture(o) ==
    /\ channel[o].state = "open" /\ Payable(o)
    /\ channel' = [channel EXCEPT ![o] = [@ EXCEPT !.state = "captured", !.at = now]]
    /\ UNCHANGED <<now, orders, unlocks, ledger, txs, jobs, syncing>>

(* The channel closes an unpaid trade at time_expire. *)
ExpireTrade(o) ==
    /\ channel[o].state = "open" /\ ~Payable(o)
    /\ channel' = [channel EXCEPT ![o].state = "closed"]
    /\ UNCHANGED <<now, orders, unlocks, ledger, txs, jobs, syncing>>

-----------------------------------------------------------------------------
(* MarkOrderPaid, under the row lock of the order. *)

(* Mutant: closed orders can be paid. *)
MarkableIfClosed(o, paidAt) ==
    /\ orders[o].status \notin {"none", "paid", "refunded"}
    /\ ~(orders[o].expiredAt < paidAt)

Markable(o, paidAt) ==
    /\ orders[o].status \notin {"none", "paid", "closed", "refunded"}
    /\ ~(orders[o].expiredAt < paidAt)

MarkOrderPaid(o, paidAt) ==
    IF Markable(o, paidAt)
    THEN /\ orders' = [orders EXCEPT ![o].status = "paid"]
         /\ unlocks' = unlocks \cup Grants(o)
         /\ ledger' = Credit(ledger, Date[paidAt], orders[o].amount)
    ELSE UNCHANGED <<orders, unlocks, ledger>>

(* A callback is delivered at least once, at any time after the capture. *)
PayWebhook(o) ==
    /\ channel[o].state = "captured"
    /\ MarkOrderPaid(o, now)
    /\ UNCHANGED <<now, channel, txs, jobs, syncing>>

DevMockPayOrder(o) ==
    /\ DevMode /\ orders[o].status # "none"
    /\ MarkOrderPaid(o, now)
    /\ UNCHANGED <<now, channel, txs, jobs, syncing>>

(* SyncOrderStatus reads the order without a lock and acts only if it was  *)
(* pending, on what the channel then answers.                              *)
SyncRead(o) ==
    /\ orders[o].status = "pending"
    /\ syncing' = syncing \cup {o}
    /\ UNCHANGED <<now, orders, unlocks, ledger, channel, txs, jobs>>

SyncPaid(o) ==
    /\ channel[o].state = "captured" /\ channel[o].moved < orders[o].amount
    /\ \E paidAt \in {channel[o].at, now} : MarkOrderPaid(o, paidAt)

(* The UPDATE is conditional on the status it finds. *)
SyncClosed(o) ==
    /\ channel[o].state = "closed"
    /\ orders' = IF orders[o].status = "pending"
                 THEN [orders EXCEPT ![o].status = "closed"] ELSE orders
    /\ UNCHANGED <<unlocks, ledger>>

SyncOther(o) ==
    /\ channel[o].state \in {"none", "link", "open"}
       \/ channel[o].moved > 0
    /\ UNCHANGED <<orders, unlocks, ledger>>

SyncOrderStatus(o) ==
    /\ o \in syncing
    /\ SyncPaid(o) \/ SyncClosed(o) \/ SyncOther(o)
    /\ syncing' = syncing \ {o}
    /\ UNCHANGED <<now, channel, txs, jobs>>

-----------------------------------------------------------------------------
(* The 60 s background task. *)

(* Mutant: batch orders, whose episode_id is 0, are not scanned. *)
ExpiredSingle(o) ==
    orders[o].status = "pending" /\ ~orders[o].batch /\ orders[o].expiredAt < now

Expired(o) == orders[o].status = "pending" /\ orders[o].expiredAt < now

CloseExpiredOrders ==
    LET late == {o \in OrderNos : Expired(o)}
    IN  /\ late # {}
        /\ orders' = [o \in OrderNos |->
                        IF o \in late THEN [orders[o] EXCEPT !.status = "closed"]
                        ELSE orders[o]]
        /\ jobs' = jobs \cup {[close |-> late, prepay |-> None]}
        /\ UNCHANGED <<now, unlocks, ledger, channel, txs, syncing>>

(* Mutant: the order's status is not checked. *)
EnsureUnpaidUnlocked(o) ==
    /\ ~orders[o].batch
    /\ unlocks' = unlocks \cup Grants(o)
    /\ UNCHANGED <<now, orders, ledger, channel, txs, jobs, syncing>>

(* EnsureOrderUnlocked: the client's own unlock request. *)
EnsureOrderUnlocked(o) ==
    /\ ~orders[o].batch /\ orders[o].status = "paid"
    /\ unlocks' = unlocks \cup Grants(o)
    /\ UNCHANGED <<now, orders, ledger, channel, txs, jobs, syncing>>

-----------------------------------------------------------------------------
(* Refunds.  The row lock is held across the channel call; the channel     *)
(* moves money once per refund_no.                                         *)

(* Mutant: earlier refunds are not added up. *)
RefundableEachTime(o, rn, amt) ==
    /\ orders[o].status \in {"paid", "partial_refunded"}
    /\ orders[o].refundNo # rn
    /\ amt <= orders[o].amount

Refundable(o, rn, amt) ==
    /\ orders[o].status \in {"paid", "partial_refunded"}
    /\ orders[o].refundNo # rn
    /\ orders[o].refunded + amt <= orders[o].amount

ChannelRefund(o, rn, amt) ==
    /\ channel[o].state = "captured"
    /\ \/ rn \in channel[o].seen /\ UNCHANGED channel
       \/ /\ rn \notin channel[o].seen
          /\ channel[o].moved + amt <= orders[o].amount
          /\ channel' = [channel EXCEPT ![o] =
                           [@ EXCEPT !.moved = channel[o].moved + amt,
                                     !.seen = channel[o].seen \cup {rn}]]

BookRefund(o, rn, amt) ==
    LET total == orders[o].refunded + amt
    IN  /\ orders' = [orders EXCEPT ![o] =
                        [@ EXCEPT !.status = IF total >= orders[o].amount
                                             THEN "refunded" ELSE "partial_refunded",
                                  !.refunded = total, !.refundNo = rn]]
        /\ ledger' = Clawback(ledger, Date[now], amt)

(* A rollback after the channel's answer leaves its refund unbooked. *)
RefundOrder(o, rn, amt) ==
    /\ Refundable(o, rn, amt)
    /\ ChannelRefund(o, rn, amt)
    /\ \/ BookRefund(o, rn, amt)
       \/ MayFail /\ UNCHANGED <<orders, ledger>>
    /\ UNCHANGED <<now, unlocks, txs, jobs, syncing>>

DevRefundOrder(o, rn, amt) ==
    /\ DevMode
    /\ Refundable(o, rn, amt)
    /\ BookRefund(o, rn, amt)
    /\ UNCHANGED <<now, unlocks, channel, txs, jobs, syncing>>

-----------------------------------------------------------------------------
(* A restart loses every request and every list of channel calls. *)
Crash ==
    /\ MayFail
    /\ <<txs, jobs, syncing>> # <<{}, {}, {}>>
    /\ txs' = {} /\ jobs' = {} /\ syncing' = {}
    /\ UNCHANGED <<now, orders, unlocks, ledger, channel>>

(* Bounds: an order is begun while the clock can still run past its expiry *)
(* and while an order number is left for it.                               *)
BeginOrder(u) ==
    /\ now + TTL < MaxTime
    /\ Cardinality(txs) < Cardinality({o \in OrderNos : orders[o].status = "none"})
    /\ \/ \E e \in Episodes : CreateOrder(u, e)
       \/ \E S \in SUBSET Episodes : CreateBatchOrder(u, S)

CommitOrder == \E t \in txs, o \in OrderNos, p \in Prices : Commit(t, o, p)

RunJob(j) == AttachPayParams(j) \/ \E o \in OrderNos : CloseChannelOrder(j, o)

RefundAmounts(o) == 1 .. orders[o].amount

Next ==
    \/ Tick
    \/ \E u \in Users : BeginOrder(u)
    \/ CommitOrder
    \/ \E j \in jobs : RunJob(j)
    \/ \E o \in OrderNos :
         \/ ReachCashier(o)
         \/ Capture(o)
         \/ ExpireTrade(o)
         \/ PayWebhook(o)
         \/ DevMockPayOrder(o)
         \/ SyncRead(o)
         \/ SyncOrderStatus(o)
         \/ EnsureOrderUnlocked(o)
         \/ \E rn \in RefundNos, amt \in RefundAmounts(o) :
              RefundOrder(o, rn, amt) \/ DevRefundOrder(o, rn, amt)
    \/ CloseExpiredOrders
    \/ Crash

Spec == Init /\ [][Next]_vars

(* The background task and the requests in progress are scheduled.  The    *)
(* clock runs whatever requests come and go: Tick waits for them only to   *)
(* bound their delay, hence strong fairness.  Buyers, callbacks,           *)
(* administrators and crashes owe nothing.                                 *)
Fairness ==
    /\ SF_vars(Tick)
    /\ WF_vars(CommitOrder)
    /\ WF_vars(\E j \in jobs : RunJob(j))
    /\ WF_vars(CloseExpiredOrders)

FairSpec == Spec /\ Fairness

-----------------------------------------------------------------------------
(* Every order in the table was placed by a user for some episodes and    *)
(* costs something; so does every order about to be inserted.             *)
WellFormed ==
    /\ \A o \in OrderNos : orders[o].status # "none" =>
          orders[o].user \in Users /\ orders[o].eps # {} /\ orders[o].amount > 0
    /\ \A t \in txs : t.eps # {}

(* Access is exactly what was paid for: every episode of every settled     *)
(* order is unlocked for its buyer, and nothing else is.  MarkOrderPaid    *)
(* and EnsureOrderUnlocked write the rows, a refund keeps them.            *)
AccessMatchesPayment ==
    unlocks = UNION {Grants(o) : o \in {x \in OrderNos : orders[x].status \in Settled}}

(* Outside the development mode an order counts as paid only if the        *)
(* channel captured its money no later than the order's expiry: no         *)
(* interleaving of callbacks, syncs and closing invents a payment.         *)
MoneyBehindPaid ==
    \A o \in OrderNos : orders[o].status \in Settled /\ ~DevMode =>
        channel[o].state = "captured" /\ channel[o].at <= orders[o].expiredAt

(* CreateOrder keeps at most one live pending order per user and episode,  *)
(* CreateBatchOrder at most one pending batch per user and drama, however  *)
(* their transactions interleave.                                          *)
SinglePending ==
    \A x, y \in OrderNos :
        /\ orders[x].status = "pending" /\ orders[y].status = "pending"
        /\ SameKey(orders[x], orders[y])
        => x = y

(* Repeated refunds add up: never more than the order, "refunded" exactly  *)
(* when everything went back, nothing refunded on an order never paid.     *)
RefundAccounted ==
    \A o \in OrderNos :
        /\ orders[o].refunded <= orders[o].amount
        /\ orders[o].status \notin Settled => orders[o].refunded = 0
        /\ orders[o].status = "partial_refunded" => orders[o].refunded > 0
        /\ orders[o].status \in Settled =>
              (orders[o].status = "refunded" <=> orders[o].refunded = orders[o].amount)

(* PaymentExpire < OrderPendingTTL: once an order is past its local expiry *)
(* the channel takes no money for it, although Prepay reads its own clock  *)
(* after the order's and closing the trade may fail or be lost.            *)
NotPayablePastExpiry ==
    \A o \in OrderNos : orders[o].expiredAt < now => ~Payable(o)

(* The table and the channel, each with a clock of its own, agree on every *)
(* order: no order is paid without captured money, and none whose time is  *)
(* over can be paid (billing.go, CreateOrder to CloseExpiredOrders).       *)
ChannelAgrees == MoneyBehindPaid /\ NotPayablePastExpiry

(* The creator's share of what the buyer of each order did not get back. *)
KeptShare ==
    [o \in OrderNos |-> IF orders[o].status \in Settled
                       THEN IncomeFromGrossBP(orders[o].amount - orders[o].refunded) ELSE 0]

(* Rounding, floors and repeated partial refunds never cost the creator:   *)
(* the total income covers the share of what remains paid on every order.  *)
CreatorNeverShort == ledger.total >= SumFunction(KeptShare)

(* The daily rows that settlements are computed from cover the creator's   *)
(* total, also when refunds are booked on another day than the payment.    *)
DailyRowsCoverTotal ==
    /\ SumOverDays(ledger.stats) >= ledger.total
    /\ SumOverDays(ledger.chanIncome) >= ledger.total

(* What is settled with the creator, in all and day by day, covers the     *)
(* share of what the buyers did not get back (billing.go, RefundOrder).    *)
LedgerCovers == CreatorNeverShort /\ DailyRowsCoverTotal

(* A paid order never becomes unpaid or closed, a closed or refunded order *)
(* never changes status, and what was refunded stays refunded: a sync or a *)
(* closing that acts on an old read cannot undo a payment.                 *)
StatusOnlyAdvances ==
    [][\A o \in OrderNos :
        /\ orders[o].status \in Settled => orders'[o].status \in Settled
        /\ orders[o].status \in {"closed", "refunded"} => orders'[o].status = orders[o].status
        /\ orders'[o].refunded >= orders[o].refunded]_vars

(* The 60 s task: no order stays pending for ever, whatever callbacks and  *)
(* administrators do.                                                      *)
PendingSettles ==
    \A o \in OrderNos : orders[o].status = "pending" ~> orders[o].status # "pending"

-----------------------------------------------------------------------------
(* Orders implements the order book. *)

PhaseOf(status) ==
    CASE status = "none"     -> "none"
      [] status = "pending"  -> "due"
      [] status = "closed"   -> "void"
      [] status = "refunded" -> "reversed"
      [] OTHER               -> "settled"

Book == INSTANCE OrderBook WITH
            Rights <- Users \X Episodes,
            phase  <- [o \in OrderNos |-> PhaseOf(orders[o].status)],
            claim  <- [o \in OrderNos |-> Grants(o)],
            access <- unlocks

(* Payment and access are one step, claims never change, a closed order    *)
(* grants nothing: every step of the service is a step of the order book.  *)
ImplementsBook == Book!BookSpec

-----------------------------------------------------------------------------
(* What a document says and the code does not do: a run that TLC refutes.  *)

(* README: locking rules out that impatient clicking charges twice.        *)
ChargedOnce ==
    \A x, y \in OrderNos :
        /\ channel[x].state = "captured" /\ channel[y].state = "captured"
        /\ Grants(x) \cap Grants(y) # {}
        => x = y
=============================================================================
