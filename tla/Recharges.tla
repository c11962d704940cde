----------------------------- MODULE Recharges -----------------------------
(***************************************************************************)
(* How a recharge of the deposit account becomes money: the row, the trade *)
(* at the payment channel, and the four ways in which the row learns of a  *)
(* payment or of its end: the channel's callback, a query by the staff,    *)
(* the task that closes what is overdue, and the development endpoint.     *)
(* Deposits takes it from there: its Credit is a recharge that arrived.    *)
(*                                                                         *)
(* The row is locked while it is marked paid or closed.  The query reads   *)
(* it first without a lock, then asks the channel, then writes; the prepay *)
(* and the channel's closing follow the commit they belong to.             *)
(***************************************************************************)
EXTENDS Naturals

CONSTANTS RechargeIds,
          RowTTL,        (* time to live of a row                          *)
          PaymentExpire, (* time to live of a trade, from its prepay on    *)
          MaxClock       (* bound: the clock                               *)

ASSUME RechargesAssumption ==
    /\ RowTTL \in Nat \ {0}
    /\ PaymentExpire \in Nat \ {0}
    /\ MaxClock \in Nat

VARIABLES clock,
          devMode,     (* PaymentDevMode, as the process was started       *)
          recharges,   (* distributor_recharges; due is 0 without an expiry*)
          trades,      (* the channel's trades                             *)
          prepaying,   (* rows committed whose prepay is to come           *)
          closing,     (* rows closed whose trade is to be closed          *)
          querying,    (* rows that a query by the staff found pending     *)
          booked,      (* recharge entries written for each row           *)
          acked,       (* history: rows whose callback the channel need    *)
                       (* not repeat                                       *)
          mocked       (* history: rows paid in development mode           *)

rechargeVars == <<clock, devMode, recharges, trades, prepaying, closing, querying, booked, acked, mocked>>
callVars == <<prepaying, closing, querying>>
noteVars == <<acked, mocked>>

Times == 0..MaxClock + RowTTL + PaymentExpire

RechargeTypeOK ==
    /\ clock \in 0..MaxClock
    /\ devMode \in BOOLEAN
    /\ recharges \in [RechargeIds -> [status: {"none", "pending", "paid", "closed", "deleted"}, due: Times]]
    /\ trades \in [RechargeIds -> [state: {"none", "open", "captured", "closed"}, payBy: Times, at: Times]]
    /\ prepaying \cup closing \cup querying \cup acked \cup mocked \subseteq RechargeIds
    /\ booked \in [RechargeIds -> Nat]

RechargeInit ==
    /\ clock = 0
    /\ devMode \in BOOLEAN
    /\ recharges = [r \in RechargeIds |-> [status |-> "none", due |-> 0]]
    /\ trades = [r \in RechargeIds |-> [state |-> "none", payBy |-> 0, at |-> 0]]
    /\ prepaying = {} /\ closing = {} /\ querying = {}
    /\ booked = [r \in RechargeIds |-> 0]
    /\ acked = {} /\ mocked = {}

-----------------------------------------------------------------------------
(* A distributor recharges.                                                *)

Due == clock + RowTTL

publisherRecharge(r) ==
    /\ ~devMode
    /\ recharges[r].status = "none"
    /\ recharges' = [recharges EXCEPT ![r] = [status |-> "pending", due |-> Due]]
    /\ prepaying' = prepaying \cup {r}
    /\ UNCHANGED <<clock, devMode, trades, closing, querying, booked, noteVars>>

(* In development mode the row is born paid, and without an expiry. *)
RechargeAtOnce(r) ==
    /\ devMode
    /\ recharges[r].status = "none"
    /\ recharges' = [recharges EXCEPT ![r] = [status |-> "paid", due |-> 0]]
    /\ booked' = [booked EXCEPT ![r] = @ + 1]
    /\ mocked' = mocked \cup {r}
    /\ UNCHANGED <<clock, devMode, trades, callVars, acked>>

Prepay(r) ==
    /\ r \in prepaying
    /\ trades' = [trades EXCEPT ![r] = [state |-> "open", payBy |-> clock + PaymentExpire, at |-> 0]]
    /\ prepaying' = prepaying \ {r}
    /\ UNCHANGED <<clock, devMode, recharges, closing, querying, booked, noteVars>>

(* Without a link the row is deleted, whatever it is by now; when there is *)
(* no such channel, or the deletion fails, it stays.                       *)
PrepayFails(r) ==
    /\ r \in prepaying
    /\ recharges' \in {recharges, [recharges EXCEPT ![r].status = "deleted"]}
    /\ prepaying' = prepaying \ {r}
    /\ UNCHANGED <<clock, devMode, trades, closing, querying, booked, noteVars>>

-----------------------------------------------------------------------------
(* The channel: a trade is paid until it runs out or is closed.            *)

CaptureRecharge(r) ==
    /\ trades[r].state = "open"
    /\ clock <= trades[r].payBy
    /\ trades' = [trades EXCEPT ![r].state = "captured", ![r].at = clock]
    /\ UNCHANGED <<clock, devMode, recharges, callVars, booked, noteVars>>

TradeRunsOut(r) ==
    /\ trades[r].state = "open"
    /\ clock > trades[r].payBy
    /\ trades' = [trades EXCEPT ![r].state = "closed"]
    /\ UNCHANGED <<clock, devMode, recharges, callVars, booked, noteVars>>

-----------------------------------------------------------------------------
(* Marking a recharge paid, under the row's lock.                          *)

(* Mutant: a row that is paid already is not recognised. *)
MarkableTwice(r, paidAt) ==
    /\ recharges[r].status \in {"pending", "paid", "closed"}
    /\ ~(recharges[r].due # 0 /\ recharges[r].due < paidAt)

(* Expired is decided by the row's time alone: a closed row can be paid.   *)
Markable(r, paidAt) ==
    /\ recharges[r].status \in {"pending", "closed"}
    /\ ~(recharges[r].due # 0 /\ recharges[r].due < paidAt)

MarkRechargePaid(r, paidAt) ==
    IF Markable(r, paidAt)
    THEN /\ recharges' = [recharges EXCEPT ![r].status = "paid"]
         /\ booked' = [booked EXCEPT ![r] = @ + 1]
    ELSE UNCHANGED <<recharges, booked>>

(* The row is judged by the clock, not by the time of the payment.  Paid,  *)
(* paid before and too late are all acknowledged; a row that is gone is    *)
(* not, and changes nothing.                                               *)
RechargeWebhook(r) ==
    /\ trades[r].state = "captured"
    /\ recharges[r].status # "deleted"
    /\ MarkRechargePaid(r, clock)
    /\ acked' = acked \cup {r}
    /\ UNCHANGED <<clock, devMode, trades, callVars, mocked>>

devMockPayRecharge(r) ==
    /\ devMode
    /\ recharges[r].status \notin {"none", "deleted"}
    /\ MarkRechargePaid(r, clock)
    /\ mocked' = IF booked' = booked THEN mocked ELSE mocked \cup {r}
    /\ UNCHANGED <<clock, devMode, trades, callVars, acked>>

-----------------------------------------------------------------------------
(* The staff ask the channel.                                              *)

(* SyncRechargeStatus acts only on a row that it read pending ...          *)
adminSyncRecharge(r) ==
    /\ recharges[r].status = "pending"
    /\ querying' = querying \cup {r}
    /\ UNCHANGED <<clock, devMode, recharges, trades, prepaying, closing, booked, noteVars>>

StillOpen(r) == recharges[r].status = "pending"

(* ... which may have changed by the time the channel has answered.        *)
SyncRechargeStatus(r) ==
    /\ r \in querying
    /\ CASE trades[r].state = "captured" ->
              \E paidAt \in {trades[r].at, clock} : MarkRechargePaid(r, paidAt)
         [] trades[r].state = "closed" ->
              /\ recharges' = IF StillOpen(r) THEN [recharges EXCEPT ![r].status = "closed"]
                              ELSE recharges
              /\ booked' = booked
         [] OTHER -> UNCHANGED <<recharges, booked>>
    /\ querying' = querying \ {r}
    /\ UNCHANGED <<clock, devMode, trades, prepaying, closing, noteVars>>

-----------------------------------------------------------------------------
(* The background task, time and the process.                              *)

Overdue(r) == recharges[r].status = "pending" /\ recharges[r].due < clock

CloseExpiredRecharges ==
    LET S == {r \in RechargeIds : Overdue(r)}
    IN  /\ S # {}
        /\ recharges' = [r \in RechargeIds |->
                IF r \in S THEN [recharges[r] EXCEPT !.status = "closed"] ELSE recharges[r]]
        /\ closing' = closing \cup S
        /\ UNCHANGED <<clock, devMode, trades, prepaying, querying, booked, noteVars>>

(* A failure is logged and forgotten; a trade that was paid stays paid. *)
CloseRechargeTrade(r) ==
    /\ r \in closing
    /\ trades' \in {trades} \cup {[trades EXCEPT ![r].state = "closed"] : s \in {"open"} \cap {trades[r].state}}
    /\ closing' = closing \ {r}
    /\ UNCHANGED <<clock, devMode, recharges, prepaying, querying, booked, noteVars>>

RechargeTick ==
    /\ clock < MaxClock
    /\ clock' = clock + 1
    /\ UNCHANGED <<devMode, recharges, trades, callVars, booked, noteVars>>

(* Restarted, in either mode. *)
RestartPayments ==
    /\ devMode' \in BOOLEAN
    /\ prepaying' = {} /\ closing' = {} /\ querying' = {}
    /\ UNCHANGED <<clock, recharges, trades, booked, noteVars>>

RechargeNext ==
    \/ \E r \in RechargeIds :
         \/ publisherRecharge(r) \/ RechargeAtOnce(r) \/ Prepay(r) \/ PrepayFails(r)
         \/ CaptureRecharge(r) \/ TradeRunsOut(r)
         \/ RechargeWebhook(r) \/ devMockPayRecharge(r)
         \/ adminSyncRecharge(r) \/ SyncRechargeStatus(r) \/ CloseRechargeTrade(r)
    \/ CloseExpiredRecharges
    \/ RechargeTick
    \/ RestartPayments

RechargeSpec == RechargeInit /\ [][RechargeNext]_rechargeVars

-----------------------------------------------------------------------------
(* Properties.                                                             *)

(* However callback, query and endpoint overlap, and however often the     *)
(* channel repeats itself, a recharge is credited once, and only if the    *)
(* channel has the money or the process ran in development mode            *)
(* (billing.go:1130).                                                      *)
CreditedOnceForMoney ==
    \A r \in RechargeIds :
        /\ booked[r] <= 1
        /\ recharges[r].status = "paid" => booked[r] = 1
        /\ booked[r] = 1 => trades[r].state = "captured" \/ r \in mocked

(* The channel stops calling only when the money has arrived or the row's  *)
(* time is over: no query, task or endpoint in between makes the code turn *)
(* away for good a callback that is in time (webhooks.go:84-112).          *)
RefusedOnlyLate ==
    \A r \in acked : recharges[r].status = "paid" \/ recharges[r].due < clock

(* A recharge is worth its money: credited once if the money came, and not *)
(* turned away while it was in time (billing.go, webhooks.go).             *)
RechargePromise == CreditedOnceForMoney /\ RefusedOnlyLate

=============================================================================
