----------------------------- MODULE AdUnlocks -----------------------------
(***************************************************************************)
(* What a viewer may play of one drama, and the way to a locked episode    *)
(* that costs an advertisement instead of money.  The app creates a        *)
(* ticket, plays the advertisement with the ticket's number, and polls;    *)
(* the advertisement network reports the view to a webhook, under a        *)
(* number of its own (trans_id), as often as it pleases and in any order:  *)
(* a report is an input of the action that receives it.                    *)
(*                                                                         *)
(* The webhook locks the ticket's row, decides, and commits later; what    *)
(* other tickets carry is read without a lock.  A poll, a play and a       *)
(* history entry read first and write or answer afterwards, without a      *)
(* lock.  Creating a ticket also reads before it inserts, but a pending    *)
(* ticket disturbs no other step, so its insert is moved to the read.      *)
(***************************************************************************)
EXTENDS Viewers

CONSTANTS Numbers,    (* episode numbers; an episode is known by its number*)
          Tickets,    (* ad_unlock_tickets ids                             *)
          Trans,      (* trans_id of the network's reports                 *)
          FreeCounts, (* values of pricing.free_episodes                   *)
          Reports     (* webhook transactions that may run at a time       *)

(* Calls are the polls, plays and history entries in flight. *)
ASSUME AdUnlocksAssumption ==
    /\ None \notin Users \cup Tickets \cup Trans \cup Reports \cup Calls
    /\ Numbers \subseteq Nat \ {0}
    /\ FreeCounts \subseteq Nat
    /\ 0 \in FreeCounts

VARIABLES air,        (* the drama's status; "gone" once deleted           *)
          adOn,       (* dramas.ad_unlock_enabled                          *)
          ready,      (* the episodes with status ready                    *)
          free,       (* pricing.free_episodes, 0 while not configured     *)
          unlocks,    (* episode_unlocks                                   *)
          history,    (* play_histories, one row per user                  *)
          tickets,    (* ad_unlock_tickets                                 *)
          txs,        (* webhook transactions that hold a ticket's lock    *)
          apps,       (* app calls between their read and their write      *)
          booked,     (* how often the income of a report was booked       *)
          maxFree,    (* history: the largest free count so far            *)
          leaks       (* history: what gave out links of episodes neither  *)
                      (* free by then nor unlocked by the viewer           *)

vars == <<air, adOn, ready, free, unlocks, history, tickets, txs, apps,
          booked, maxFree, leaks>>

dramaVars == <<air, adOn, ready, free, maxFree>>

TicketStatuses == {"pending", "rewarded", "expired"}

Ticket == [user: Users, ep: Numbers, status: TicketStatuses, trans: Trans \cup {None}, due: BOOLEAN]

NoTicket == [user |-> None, ep |-> 0, status |-> "none", trans |-> None, due |-> FALSE]

Tx == [ticket: Tickets, trans: Trans]
NoTx == [ticket |-> None, trans |-> None]

AppCall == [op: {"expire"}, ticket: Tickets, user: {None}, ep: {0}]
           \cup [op: {"watch"}, ticket: {None}, user: Users, ep: Numbers]
           \cup [op: {"play"}, ticket: {None}, user: Users \cup {None}, ep: Numbers]
NoAppCall == [op |-> "none", ticket |-> None, user |-> None, ep |-> 0]

TypeOK ==
    /\ air \in {"published", "offline", "gone"}
    /\ adOn \in BOOLEAN
    /\ ready \subseteq Numbers
    /\ free \in FreeCounts
    /\ unlocks \subseteq Users \X Numbers
    /\ history \in [Users -> Numbers \cup {0}]
    /\ tickets \in [Tickets -> Ticket \cup {NoTicket}]
    /\ txs \in [Reports -> Tx \cup {NoTx}]
    /\ apps \in [Calls -> AppCall \cup {NoAppCall}]
    /\ booked \in [Trans -> Nat]
    /\ maxFree \in FreeCounts
    /\ leaks \subseteq {"play", "feed"}

Init ==
    /\ air = "offline"
    /\ adOn = FALSE
    /\ ready = {}
    /\ free = 0
    /\ unlocks = {}
    /\ history = [u \in Users |-> 0]
    /\ tickets = [t \in Tickets |-> NoTicket]
    /\ txs = [r \in Reports |-> NoTx]
    /\ apps = [a \in Calls |-> NoAppCall]
    /\ booked = [x \in Trans |-> 0]
    /\ maxFree = 0
    /\ leaks = {}

-----------------------------------------------------------------------------
(* What the app shows and allows.  A viewer who is not logged in is None.  *)

(* The free count is read from the configuration at every use, by the      *)
(* handlers and by the billing package in functions of their own.          *)
effectiveFreeEpisodes == free

billingFreeEpisodes == free

Shown == air = "published"

Unlocked(u, e) == <<u, e>> \in unlocks

(* Mutant: the play gate counts the episodes from zero. *)
PlaysFromZero(u, e) ==
    Shown /\ e \in ready /\ (e > effectiveFreeEpisodes + 1 => Unlocked(u, e))

(* appPlayEpisode finds the episode open. *)
Plays(u, e) ==
    Shown /\ e \in ready /\ (e > effectiveFreeEpisodes => Unlocked(u, e))

(* appUpsertPlayHistory accepts the episode. *)
Records(u, e) ==
    Shown /\ e \in ready /\ (e > effectiveFreeEpisodes => Unlocked(u, e))

(* Neither free so far nor unlocked *)
NeverOpen(u, e) == e > maxFree /\ ~Unlocked(u, e)

(* CreateAdUnlockTicket issues a ticket for it. *)
Offers(u, e) ==
    Shown /\ e \in ready /\ adOn /\ e > billingFreeEpisodes /\ ~Unlocked(u, e)

(* The episode whose link the feed carries: the first that is ready, with  *)
(* no look at the free count, the viewer or the unlocks.                   *)
homeFeedDramaList ==
    IF Shown THEN {e \in ready : \A d \in ready : e <= d} ELSE {}

(* last_watch of the detail page: the row, if its episode still exists. *)
LastWatch(u) == IF Shown /\ history[u] \in ready THEN history[u] ELSE 0

-----------------------------------------------------------------------------
(* The drama, its episodes, the configuration and the orders move on; the  *)
(* modules Dramas, Episodes and Orders hold the detail.                    *)

DramaMoves ==
    /\ air # "gone"
    /\ air' = IF air = "published" THEN "offline" ELSE "published"
    /\ UNCHANGED <<adOn, ready, free, unlocks, history, tickets, txs, apps, booked, maxFree, leaks>>

MoveEpisode(e) ==
    /\ air # "gone"
    /\ ready' = IF e \in ready THEN ready \ {e} ELSE ready \cup {e}
    /\ UNCHANGED <<air, adOn, free, unlocks, history, tickets, txs, apps, booked, maxFree, leaks>>

adminSetAdUnlockEnabled ==
    /\ air # "gone"
    /\ adOn' = ~adOn
    /\ UNCHANGED <<air, ready, free, unlocks, history, tickets, txs, apps, booked, maxFree, leaks>>

adminUpdatePricingConfig(n) ==
    /\ free' = n
    /\ maxFree' = IF n > maxFree THEN n ELSE maxFree
    /\ UNCHANGED <<air, adOn, ready, unlocks, history, tickets, txs, apps, booked, leaks>>

(* The tickets stay behind. *)
DeleteDrama ==
    /\ air # "gone"
    /\ air' = "gone"
    /\ adOn' = FALSE
    /\ ready' = {}
    /\ unlocks' = {}
    /\ history' = [u \in Users |-> 0]
    /\ UNCHANGED <<free, tickets, txs, apps, booked, maxFree, leaks>>

(* An order for the episode is paid, perhaps long after it was placed. *)
MarkOrderPaid(u, e) ==
    /\ air # "gone"
    /\ unlocks' = unlocks \cup {<<u, e>>}
    /\ UNCHANGED <<dramaVars, leaks, history, tickets, txs, apps, booked>>

-----------------------------------------------------------------------------
(* The feed, the play gate, and the history: one row per user and drama,   *)
(* the episode watched last.                                               *)

appHome ==
    /\ leaks' = IF \E e \in homeFeedDramaList : NeverOpen(None, e) THEN leaks \cup {"feed"} ELSE leaks
    /\ UNCHANGED <<dramaVars, unlocks, history, tickets, txs, apps, booked>>

(* Everything is read before the link is given, to anyone who asks. *)
appPlayEpisode(a, u, e) ==
    /\ apps[a] = NoAppCall
    /\ Plays(u, e)
    /\ apps' = [apps EXCEPT ![a] = [op |-> "play", ticket |-> None, user |-> u, ep |-> e]]
    /\ UNCHANGED <<dramaVars, leaks, unlocks, history, tickets, txs, booked>>

AnswerPlay(a) ==
    /\ apps[a].op = "play"
    /\ leaks' = IF air # "gone" /\ NeverOpen(apps[a].user, apps[a].ep)
                THEN leaks \cup {"play"} ELSE leaks
    /\ apps' = [apps EXCEPT ![a] = NoAppCall]
    /\ UNCHANGED <<dramaVars, unlocks, history, tickets, txs, booked>>

appUpsertPlayHistory(a, u, e) ==
    /\ apps[a] = NoAppCall
    /\ Records(u, e)
    /\ apps' = [apps EXCEPT ![a] = [op |-> "watch", ticket |-> None, user |-> u, ep |-> e]]
    /\ UNCHANGED <<dramaVars, leaks, unlocks, history, tickets, txs, booked>>

WriteHistory(a) ==
    /\ apps[a].op = "watch"
    /\ history' = [history EXCEPT ![apps[a].user] = apps[a].ep]
    /\ apps' = [apps EXCEPT ![a] = NoAppCall]
    /\ UNCHANGED <<dramaVars, leaks, unlocks, tickets, txs, booked>>

-----------------------------------------------------------------------------
(* Tickets.                                                                *)

CreateAdUnlockTicket(t, u, e) ==
    /\ tickets[t] = NoTicket
    /\ Offers(u, e)
    /\ tickets' = [tickets EXCEPT ![t] =
            [user |-> u, ep |-> e, status |-> "pending", trans |-> None, due |-> FALSE]]
    /\ UNCHANGED <<dramaVars, leaks, unlocks, history, txs, apps, booked>>

(* The clock passes expire_at. *)
FallDue(t) ==
    /\ tickets[t].status = "pending"
    /\ ~tickets[t].due
    /\ tickets' = [tickets EXCEPT ![t].due = TRUE]
    /\ UNCHANGED <<dramaVars, leaks, unlocks, history, txs, apps, booked>>

Locked(t) == \E r \in Reports : txs[r].ticket = t

(* A poll that finds the ticket pending and due goes on to expire it; the  *)
(* UPDATE waits for the row's lock and names the status it expects.        *)
GetAdUnlockTicket(a, t) ==
    /\ apps[a] = NoAppCall
    /\ tickets[t].status = "pending"
    /\ tickets[t].due
    /\ apps' = [apps EXCEPT ![a] = [op |-> "expire", ticket |-> t, user |-> None, ep |-> 0]]
    /\ UNCHANGED <<dramaVars, leaks, unlocks, history, tickets, txs, booked>>

(* Mutant: the UPDATE of a poll names the ticket only, not its status. *)
StillPendingAlways(t) == TRUE

StillPending(t) == tickets[t].status = "pending"

WriteExpired(a) ==
    LET t == apps[a].ticket
    IN  /\ apps[a].op = "expire"
        /\ ~Locked(t)
        /\ tickets' = IF StillPending(t)
                      THEN [tickets EXCEPT ![t].status = "expired"]
                      ELSE tickets
        /\ apps' = [apps EXCEPT ![a] = NoAppCall]
        /\ UNCHANGED <<dramaVars, leaks, unlocks, history, txs, booked>>

-----------------------------------------------------------------------------
(* The webhook.                                                            *)

(* Another ticket carries the report's number: what the COUNT sees, and    *)
(* what the unique index on trans_id refuses.                              *)
CarriedElsewhere(x, t) == \E s \in Tickets \ {t} : tickets[s].trans = x

(* The report names ticket t, found by its number; the row is locked and   *)
(* read again.  An answer that changes nothing (rewarded already, no       *)
(* longer pending, or the number is on another ticket) is a stutter.       *)
HandleCSJRewardCallback(r, t, x) ==
    /\ txs[r] = NoTx
    /\ ~Locked(t)
    /\ tickets[t].status = "pending"
    /\ ~tickets[t].due
    /\ ~CarriedElsewhere(x, t)
    /\ txs' = [txs EXCEPT ![r] = [ticket |-> t, trans |-> x]]
    /\ UNCHANGED <<dramaVars, leaks, unlocks, history, tickets, apps, booked>>

(* A report for a ticket that fell due: the ticket expires and keeps the   *)
(* number; if the unique index refuses that, nothing is stored and the     *)
(* network, which is answered 500, tries again.                            *)
RejectLate(t, x) ==
    /\ ~Locked(t)
    /\ tickets[t].status = "pending"
    /\ tickets[t].due
    /\ ~CarriedElsewhere(x, t)
    /\ tickets' = [tickets EXCEPT ![t].status = "expired", ![t].trans = x]
    /\ UNCHANGED <<dramaVars, leaks, unlocks, history, txs, apps, booked>>

(* Mutant: trans_id has a plain index. *)
IndexAdmitsAny(x, t) == TRUE

(* The unique index at the time of the write. *)
IndexAdmits(x, t) == ~CarriedElsewhere(x, t)

(* INSERT ... ON CONFLICT DO NOTHING *)
Grant(u, e) == unlocks \cup {<<u, e>>}

(* Whether the income is booked: the report carries a price that rounds to *)
(* a cent or more, and the drama still exists.                             *)
recordAdIncome(x, priced) ==
    IF priced /\ air # "gone" THEN [booked EXCEPT ![x] = @ + 1] ELSE booked

(* The reward commits. *)
Reward(r, priced) ==
    LET t == txs[r].ticket
        x == txs[r].trans
    IN  /\ txs[r] # NoTx
        /\ IndexAdmits(x, t)
        /\ unlocks' = Grant(tickets[t].user, tickets[t].ep)
        /\ tickets' = [tickets EXCEPT ![t].status = "rewarded", ![t].trans = x]
        /\ booked' = recordAdIncome(x, priced)
        /\ txs' = [txs EXCEPT ![r] = NoTx]
        /\ UNCHANGED <<dramaVars, leaks, history, apps>>

(* The transaction ends without effect: the unique index refuses the       *)
(* number, the process or the connection is lost, or a statement of the    *)
(* income booking fails, which the code logs and ignores but which has     *)
(* aborted the whole PostgreSQL transaction.  The network tries again.     *)
Abort(r) ==
    /\ txs[r] # NoTx
    /\ txs' = [txs EXCEPT ![r] = NoTx]
    /\ UNCHANGED <<dramaVars, leaks, unlocks, history, tickets, apps, booked>>

(* The process stops: every call in flight is lost. *)
Stop ==
    /\ txs' = [r \in Reports |-> NoTx]
    /\ apps' = [a \in Calls |-> NoAppCall]
    /\ UNCHANGED <<dramaVars, leaks, unlocks, history, tickets, booked>>

-----------------------------------------------------------------------------

Staff ==
    \/ DramaMoves
    \/ \E e \in Numbers : MoveEpisode(e)
    \/ adminSetAdUnlockEnabled
    \/ \E n \in FreeCounts : adminUpdatePricingConfig(n)
    \/ DeleteDrama

ViewerStep ==
    \/ appHome
    \/ \E a \in Calls, u \in Users \cup {None}, e \in Numbers : appPlayEpisode(a, u, e)
    \/ \E a \in Calls : AnswerPlay(a)
    \/ \E u \in Users, e \in Numbers : MarkOrderPaid(u, e)
    \/ \E a \in Calls, u \in Users, e \in Numbers : appUpsertPlayHistory(a, u, e)
    \/ \E a \in Calls : WriteHistory(a)
    \/ \E t \in Tickets, u \in Users, e \in Numbers : CreateAdUnlockTicket(t, u, e)
    \/ \E t \in Tickets : FallDue(t)
    \/ \E a \in Calls, t \in Tickets : GetAdUnlockTicket(a, t)
    \/ \E a \in Calls : WriteExpired(a)

Network ==
    \/ \E r \in Reports, t \in Tickets, x \in Trans : HandleCSJRewardCallback(r, t, x)
    \/ \E t \in Tickets, x \in Trans : RejectLate(t, x)
    \/ \E r \in Reports, priced \in BOOLEAN : Reward(r, priced)
    \/ \E r \in Reports : Abort(r)
    \/ Stop

Next == Staff \/ ViewerStep \/ Network

Spec == Init /\ [][Next]_vars

-----------------------------------------------------------------------------
(* Properties.                                                             *)

(* One view of an advertisement opens one episode, and its income is       *)
(* booked once: a report's number is on at most one ticket however often   *)
(* and for however many tickets it arrives at once, and income is booked   *)
(* only for a report that rewarded its ticket (ad_unlock.go:170 on).       *)
OneRewardPerReport ==
    \A x \in Trans :
        /\ \A s, t \in Tickets : tickets[s].trans = x /\ tickets[t].trans = x => s = t
        /\ booked[x] <= 1
        /\ booked[x] = 1 => \E t \in Tickets : tickets[t].status = "rewarded" /\ tickets[t].trans = x

(* A rewarded ticket has opened its episode, whatever crashed in between,  *)
(* until the drama is deleted (ad_unlock.go:228-247: one transaction).     *)
RewardedIsUnlocked ==
    \A t \in Tickets :
        tickets[t].status = "rewarded" /\ air # "gone" => Unlocked(tickets[t].user, tickets[t].ep)

(* The promise of a ticket: one view, one episode, one income              *)
(* (ad_unlock.go, HandleCSJRewardCallback).                                *)
RewardKept == OneRewardPerReport /\ RewardedIsUnlocked

(* A ticket's end is final: a late report does not revive an expired       *)
(* ticket, and a poll that saw it pending and due does not take the reward *)
(* back (ad_unlock.go:124-131, 192-201).                                   *)
TicketEndsOnce ==
    [][\A t \in Tickets :
        tickets[t].status \in {"rewarded", "expired"} => tickets'[t] = tickets[t]]_vars

(* AdUnlocks implements the vouchers.                                      *)
Vouchers == INSTANCE Vouchers WITH
                Slips    <- Tickets,
                Rights   <- Users \X Numbers,
                Receipts <- Trans,
                Nothing  <- <<None, 0>>,
                life     <- [t \in Tickets |-> tickets[t].status],
                worth    <- [t \in Tickets |-> <<tickets[t].user, tickets[t].ep>>],
                receipt  <- [t \in Tickets |-> tickets[t].trans],
                open     <- unlocks,
                earned   <- booked,
                closed   <- air = "gone"

(* However reports are repeated, crossed by polls and lost with their      *)
(* transactions, a ticket ends once, its reward opens its own episode and  *)
(* books its income in one step, and nothing takes either back but the     *)
(* deletion of the drama (ad_unlock.go, HandleCSJRewardCallback and        *)
(* GetAdUnlockTicket).                                                     *)
ImplementsVouchers == Vouchers!VouchersSpec

(* The episode a viewer is told to continue with was open to the viewer:   *)
(* unlocked, or free at some time (app_history.go:58-68 against a free     *)
(* count that the staff may lower, a call that is still writing, and a     *)
(* viewer whom the feed showed a locked episode).                          *)
LastWatchWasOpen ==
    \A u \in Users :
        LET e == LastWatch(u)
        IN  e # 0 => ~NeverOpen(u, e)

(* A locked episode stays closed: only the feed, which looks at no lock    *)
(* (app_content.go:157-161), gives a link of an episode that was neither   *)
(* unlocked by the viewer nor free at some time, and what the feed played  *)
(* does not pass for watched; whatever plays and history entries are still *)
(* to be answered while the staff lower the free count, take the drama     *)
(* down or delete it (app_play.go:55-80, app_history.go:58-68).            *)
LockedStaysClosed ==
    leaks \subseteq {"feed"} /\ LastWatchWasOpen

=============================================================================
