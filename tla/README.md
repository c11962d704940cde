# Verification of the short-drama backend

This directory holds TLA+ modules that model the backend: its money, its content, its
viewers and its accounts, with TLC
configurations that check them on small instances, and proofs that TLAPS
checks.  Source paths are relative to the repository root; `billing.go` is
`internal/billing/billing.go`, other file names without a directory are in
`internal/handler/`.

- [The system](#the-system): components, their state and operations, what is hard
- [The modules](#the-modules): how state and actions correspond to the code
- [The runs](#the-runs): what each one checks, with which bounds
- [The proofs](#the-proofs)
- [What the code does not keep](#what-the-code-does-not-keep)
- [What is not modelled](#what-is-not-modelled)

## The system

One Go process (`cmd/api`) over PostgreSQL and Redis serves four kinds of
clients: viewers (app), creators, publishers (called distributors in the tables)
and administrators.  It calls WeChat Pay and Alipay, an SMS provider, an identity
check, object storage and video transcoding, and is called back by the payment
channels and by the ad network.  Requests run concurrently, several replicas may
run, and a ticker closes expired orders and recharges every 60 s
(`server.go`).  All shared state is in the database: what makes two requests
exclude each other is a row lock, an advisory lock, a unique index, or nothing.

### Orders (`internal/billing`, `internal/payment`, `webhooks.go`)

State: `orders`, `episode_unlocks`, the creator's row (total, balance) and the
daily rows `creator_stats_daily` and `channel_income_daily`; outside the
database, the channel's trades.

Operations: create an order for one episode or a batch of episodes (in a
transaction under an advisory lock: close older pending orders, insert; after
the commit: close their trades at the channel, ask it for a payment link);
payment callback; manual sync with the channel; expiry task; refund (which calls
the channel inside its transaction); repair of unlocks; the mock endpoints of
the development mode.

Hard: the advisory locks of single and batch orders differ and neither covers
callbacks; the channel may capture money of an order that is closed at the same
moment; callbacks are repeated and late; a crash after the commit loses the
channel calls; two clocks (the order's expiry and the trade's).

Correct when: access is exactly what was paid for, no order counts as paid
without captured money, an expired order cannot be paid any more, at most one
order is pending per key, statuses only advance, refunds add up and never take
more from the creator than was shared, every order leaves the pending state.

### Deposits (`publisher_claim.go`, `publisher_abandon.go`, `publisher_settlement.go`, `admin_distributor.go`, `publisher_deposit.go`)

State: three columns of `distributors` (available, frozen, deducted),
`distributor_deposit_transactions`, claims (`distributor_applications`), grants
(`distributor_dramas`), abandon requests and the settlement of each distributor
and cycle.

Operations: recharge or import of a deposit; claim platforms of a drama (checks
first, then the transaction that freezes the deposit); the legacy payment and
submit; approval (creates the grant), rejection (releases), contract upload
(activates); request, approval and rejection of an abandon (refunds part of the
deposit); generation of a cycle's settlement (frozen deposit offsets what is
owed), remittance, confirmation and return of a settlement; deletion of a drama.

Hard: the occupancy of platforms and the pending abandons are read outside the
writing transaction; the deposit is recorded in claim, grant, abandon and
settlement and moved by a dozen handlers; settlements take deposits of claims
that are still under review.

Correct when: no movement makes or loses money, the wallet and the claim tables
agree, a deposit is frozen and released once, no cycle takes its share twice,
nobody shares a platform, a grant given up stays given up.

### Payouts (`settlement_cron.go`, `creator_settlement.go`, `admin_settlement.go`, `creator_withdraw.go`, `admin_finance.go`)

State: the creator's total, balance and frozen columns, the daily income rows,
contracts, half-month settlements, invoices, withdrawals.

Operations: booking and refund of sales and ad views, import of channel income,
correction and deletion of it, recalculation of open settlements; generation of
a cycle's settlements; closing; upload and cancellation of invoices; creation of
a withdrawal (balance to frozen, with an invoice), approval, review, rejection
and payment of it, completion of the settlement after payment.

Hard: aggregates read before the transaction that uses them; a second count
that takes no lock; writes after the commit; five handlers that decide on one
withdrawal; refunds of income already withdrawn.

Correct when: the frozen balance is the sum of the withdrawals under way, no
income disappears, an invoice has the outcome of its withdrawal, nothing is
withdrawn that was not earned, a cycle is settled once.

### Content (`admin_drama.go`, `creator_drama.go`, `admin_episode.go`, `creator_episode.go`, `uploads.go`, `internal/vod`, `cmd/publish-scheduled`)

State: a drama's row (status, verdict on two dimensions and overall, schedule,
owner), its generated contracts; the episode rows (number, status, file, link)
and what the video service holds of each file.

Operations: submit, review, send back, approve, publish, schedule, take down,
delete, change of owner; upload, retry, edit, reorder and deletion of episodes,
three kinds of callbacks, and the lookups that the pages start for an episode
that is still waiting.

Hard: nearly every handler reads the row, decides and updates by key, so calls
cross; the schedule task works from a list; callbacks are lost, late or in
another order, and a retry gives a row another file.

Correct when: the status follows the verdict, what is on air was approved, a
drama taken off stays off, sold episodes stay; a ready episode has something to
play and plays its own file; a transcoded episode does not wait for ever.

### Viewers (`ad_unlock.go`, `app_*.go`, `admin_comment.go`, `webhooks_csj.go`)

State: ad tickets, unlocks, play histories; likes and favorites with the
counters of three tables; the windows in which a share counts once, in Redis and
in the process; comments, their likes, messages.

Operations: tickets, polls and reports of the ad network; the pages, the
playback gate and the history; taps; shares; comments, replies, likes,
deletions, messages, the clean-up of messages; what the staff change meanwhile.

Hard: one report arrives repeatedly and for several tickets; five gates in two
packages compute on their own what is free; counters are kept by hand; the
comment that is answered is read before the transaction.

Correct when: one view opens one episode and books one income; a locked
episode does not play, the feed apart; counters equal rows; threads have two levels; a
message is true.

### Accounts (`internal/sms`, `auth_status.go`, `app.go`, `creator.go`, `distributor.go`, `admin_account.go`, `creator_verification.go`, `distributor_verification.go`, `internal/kyc`)

State: codes, failure counters and locks (in memory), accounts, bans, passwords,
tokens; administrators with roles and permissions; the verification fields of a
creator and of a distributor, with the provider's finding.

Operations: send and verify a code, first login, password, ban; create, ban and
change administrators; submit, review, change of profile, card or payout data.

Hard: a login takes four steps without a common lock; the middlewares read the
rights before the handler writes; a submission reads the row, waits for the
provider, and writes every column.

Correct when: a code is worth one login, a phone one account, a token an
accepted code; somebody can always manage the staff; who is verified was
confirmed by the provider or seen by the staff, with the data that are stored.

### The other components

| component | state | operations and what is hard | correct when |
|---|---|---|---|
| Recharges (`publisher_deposit.go`, `billing.go`, `webhooks.go`) | `distributor_recharges` | prepay, callback, query by the staff, expiry; like orders with a second, fixed expiry, and a row that is deleted when its prepay fails | a recharge is credited once, for money, and stays credited |
| Income import (`admin_finance_import.go`, `admin_finance_income.go`) | channel rows, publishers' shares, batches | import line by line in one transaction, correction, deletion; a difference is booked to a row read without a lock | what was given out has rows behind it, a sheet is taken once |
| Idempotent requests (`internal/idempotency`) | a Redis lock and a cached answer | the lock may run out, Redis may lose something, the process may stop | one key, one effect |
| Reconciliation (`internal/reconcile`) | none | compares orders, unlocks, rows and accounts | reports only what is wrong |
| Rate limits, documents, lists, plain records | single rows | reads, formatting, single writes | |

The components meet in shared rows: a paid order and an ad view feed the
creator's account from which withdrawals are paid; an import feeds it and, for
claimed dramas, the distributor's settlement; recharges and settlements move
the same deposit columns; a deleted drama takes claims and grants with it; the
free count and the unlocks are what pages, playback, orders and ad tickets agree
on; a request for an order passes the idempotency middleware first.

## The modules

A transaction that locks the rows it decides on is one action.  What the code
reads without a lock and uses later, what it writes after a commit, and every
call of an outside service is an action of its own, and a crash may come between
any two of them.  Amounts are cents, small but with the code's rounding; times
are ticks.

| module | models |
|---|---|
| `CreatorLedger` | what one payment and one refund write to the creator's account and daily rows: the share in basis points, rounding, `GREATEST(.., 0)`; operators only |
| `Orders` | the order service, extends `CreatorLedger` |
| `OrderBook` | what the order service promises: place, settle, reverse, void, without channel, clock or money |
| `Idempotency` | the middleware that answers a repeated request |
| `DepositWallet` | the three deposit columns, their moves, the deposit and refund amounts (`calcDepositAmount`, `calcAppendDepositAmount`, `calcAbandonRefund`) |
| `Deposits` | claims, grants, abandons and distributor settlements, extends `DepositWallet` |
| `Recharges` | recharge rows, the channel's trades, expiry, the staff's queries |
| `Income` | imports of income and deposits, corrections, publishers' shares |
| `Payouts` | income, settlement runs, invoices and withdrawals of one creator |
| `Registry` | what claims and grants promise: who holds which platform, without deposits, reviews or contracts |
| `Purse` | what withdrawals promise: reserve, spend or give back, without invoices, settlements or reviewers |
| `Dramas` | review, publication, schedule and deletion of one drama |
| `Episodes` | a drama's episodes and their media |
| `AdUnlocks` | ad tickets and reports, pages, gates, history |
| `Vouchers` | what ad tickets promise: issue, redeem once, void, without locks, polls or retries |
| `Threads` | what comments promise: who wrote what under what, and what people are told of it |
| `Viewers`, `Reactions`, `Comments` | what these two and `AdUnlocks` share; likes, favorites, shares; comments and messages |
| `Accounts`, `SmsLogin` | what the next three share; codes, logins, tokens, bans of one audience |
| `Admission` | what the login promises: codes, proved phones, accounts and who is inside, without locks, counters or calls in flight |
| `AdminAccounts` | administrators, roles, permissions |
| `CreatorVerification`, `DistributorVerification` | one creator's and one distributor's verification |
| `OrdersProofs` | theorems about `Orders` and `Idempotency` |
| `DepositsProofs` | theorems about `Deposits`, `Recharges` and `Income` |
| `PayoutsProofs`, `DramasProofs`, `EpisodesProofs` | theorems about the module of that name |
| `ViewersProofs` | theorems about `Reactions`, `Comments` and `AdUnlocks` |
| `AccountsProofs` | theorems about `SmsLogin`, `AdminAccounts`, `CreatorVerification` and `DistributorVerification` |
| `Sums` | lemmas about sums over finite sets that the ledgers' proofs share |
| `MC...` | constants, symmetry and, where several modules share a run, their sum |

`PROJECT.json` maps every definition to its lines.

**Orders.**  `orders`, `unlocks`, `ledger` are the tables; `channel` is what
WeChat or Alipay holds for an order number (a signed link, an open trade, a
captured or closed one); `txs` are creation transactions that have read the
pending orders and not yet committed, `jobs` the channel calls that follow a
commit, `syncing` the syncs that have done their local read.  `CreateOrder`,
`CreateBatchOrder` and `Commit` are the two halves of a creation, with the
advisory lock in the guard of the first.  `MarkOrderPaid` is the body shared by
`PayWebhook`, `SyncOrderStatus` and the mock.  `CloseChannelOrder` keeps the
behaviour of the Alipay provider that takes an unknown trade for a closed one.
`RefundOrder` has the outcomes of the code: refused, channel fails, channel
refunds and the transaction fails, booked.  `Tick` is the clock; the assumption
`RequestTime + PayExpire <= TTL` is in part what `internal/configcheck` enforces, which
asks `PaymentExpire < OrderPendingTTL`; that the margin is enough for the call of the
channel is assumed.
External (modelled from how the code uses it): the trade and its transitions.

**Deposits.**  One record per row; a claim or abandon that has passed its checks
and is not inserted yet is in status `requested`.  `entries` counts a
claim's freeze and unfreeze rows in `distributor_deposit_transactions`; `kept` is the cents
that these and the refunds of the abandons of its grants leave frozen for it.  `late` is
history: the stale writes a claim met (an insert or a submit overtaken, a contract over
a grant given up, an abandon of a grant that had changed since it was asked for).  The occupancy check is one snapshot
(in the code two reads, one after the other).  Platform lists are sets, so a
platform named twice in one request is outside the model; the comparison of list
lengths at approval becomes a comparison of cardinalities.  `Legacy` claims are
rows of the older front end that still go through payment and submit.

**Payouts.**  `income` are the rows of `creator_stats_daily`, `channel` those of
`channel_income_daily`, the app's own and the imported ones apart, since refunds
stop at zero row by row.  Days have no order: a refund may fall on any of them.
`runs` holds a settlement run between its reads, its count and its insert;
`push` of an invoice and `tail` of a withdrawal are the writes that follow a
commit.  An invoice may be deleted at any later time, because the handler deletes
by key after it has read the row pending.  Imports are taken one after another
here; `Income` has them side by side.  Withdrawal taxes and the gross columns
change nothing the properties see.

**Recharges.**  `recharges` and `trades` are the two sides; a row's `due` is the
fixed half hour, a trade's `payBy` the channel's own limit, counted from the
prepay.  `prepaying`, `closing` and `querying` hold the rows whose outside call is
under way.  `MarkRechargePaid` is the body shared by callback, query and
development payment; the credit it gives is `Credit` of `Deposits`.

**Income.**  One day of one drama.  An import holds its transaction open over
`ReadLine`, `WriteIncome` or `WriteDeposit` for each line, then `Commit`; the batch
that remembers the sheet is saved after it (`SaveBatch`), and each of them may end
in `RollBack`.  A row written but not committed makes others wait (`RowIsFree`,
`CreatorIsFree`).  `MoveGrant` is the change of hands of a place, which
`Deposits` models in full.  `drift` is history: what an import booked that is not the
difference its rows had when it booked it.

**Idempotency.**  `reqs[q].at` is where a request stands: has missed the cache,
runs, has its answer, is leaving.  The lock's and the answer's times to live are
actions that may happen at any moment, as may the loss of Redis' writes and a
crash.

**Dramas and Episodes.**  `calls` holds what a call will write, decided from what
it read; `overlap` and `crossed` remember that a call wrote on a row that had
changed since.  Properties that cannot hold when calls cross say so by these two
variables, the others hold through any crossing.  `history` of `Dramas` says
whether the staff put the drama on air without a review or turned it down after it had
sold, and which episodes were deleted by them or by a deletion of the creator that was
overtaken.  A file is named to a row in two steps (`NameFile`,
`WriteName`), like every update; a new episode has the status its request names, where
the code allows it; a callback may come without a link.  `media` is what the video
service has of a file; a callback may come at any time, any number of times, or never.

**AdUnlocks.**  A report's transaction holds the ticket's row from `Report` to its
end; `apps` are polls, plays and history entries between read and write or answer.  The
pages and gates (`homeFeed`, the list, `IsLocked`, `Plays`, `Records`, `Sells`, `Offers`)
are operators over the same state, each translated from its own handler.  `appHome` hands
out the link of the first ready episode without asking whether it is locked; `leaks` are
the handlers that gave a viewer a link of an episode that was neither unlocked by the
viewer nor ever free.

**Reactions and Comments.**  A tap reads the drama and the episode, then writes its
row and the counters in a transaction.  A comment's `parent` is decided before
the transaction; messages are written after it.  The clean-up deletes any subset of
the read messages: which of them are 90 days old is left open.

**Accounts.**  The three login handlers differ in their table only, so `SmsLogin`
stands for each of them; passwords are a distributor's.  `tries` and `uses` count
what the properties are about.  In the two verification modules `subs` and
`submissions` hold the row as a call read it together with the provider's answer.
`edited` is the set of
a creator's identity fields (type, name, identity card, bank card) that something other
than a submission changed after the provider had confirmed them.  The provider is the set
of true combinations, and may fail at any time.

## The runs

Passing runs (distinct states, seconds with two workers):

| run | instance | shows |
|---|---|---|
| `create` (742 000; 107 s) | two orders of one buyer over two episodes, no refunds, TTL 2, link 1, 4 ticks, crashes and failing calls | `AccessMatchesPayment`; `ChannelAgrees`: money behind every paid order, nothing payable past its expiry; `SinglePending`: one pending order per key; `PendingSettles`: every pending order settles under fairness |
| `refund` (449 000; 47 s) | one order of 3 cents, share 50 %, two refund numbers, a day per tick, mock endpoints on; beside it three requests of one key with two bodies, at most three runs of the handler | `RefundAccounted`: refunds add up; `LedgerCovers`: daily rows cover the total, rounding never costs the creator; `ImplementsBook`: `Orders` implements `OrderBook`; `KeyPromise`: one request at a time, honest repeats, one key one effect |
| `hold` (447 000; 68 s) | two distributors, one drama, two platforms, two requests between checks and write, two submits, a legacy claim, an abandon of an authorized or active grant, the drama deletable; beside it two sheets over two names of one place, two imports at a time, corrections, a drama that changes hands | `ExclusiveUnlessLate`: two distributors on one platform only through an insert or a submit that was overtaken; `ImplementsRegistry`: `Deposits` implements `Registry`; `RowsBehindIncome`: earned is what rows say and `drift`, to the cent; `TakenOnce`: shares, deposits and sheets, but for the reasons it names |
| `race` (811 000; 200 s) | one distributor, three platforms, two requests and two submits in flight, a legacy claim, two abandons of authorized or active grants, a settlement, a deletable drama; beside it two recharges over 3 ticks | `Conserved`; `HoldingsMatch`: wallet and claim tables drift apart in four named steps only; `ReleasedOnce`: rejection and abandons together release no more than was frozen, to the cent, but for stale writes; `DeductionsCovered`: no cycle deducted twice, only a negative refund overdraws; `RechargePromise`: credited once, for money, refused only when late |
| `pay` (2 340 000; 231 s) | two days of one cycle, two sales of 2 or one import of 4, two settlements, an invoice, two withdrawals, one run at a time, two contracts | `MoneyAccounted`: frozen equals what is under way, no income lost; `InvoiceAgrees`; `WithdrawnWithinIncome`; `ImplementsPurse`: `Payouts` implements `Purse` |
| `review` (4 490 000; 200 s) | one drama, one creator, two calls in flight, the schedule task, two contracts | `StatusFollowsVerdict`: verdicts, status and publication agree; `SoldKept`: a sold episode stays, but for a deletion that was overtaken or a drama turned down after a sale; `OneContract`; `TakedownHolds` |
| `media` (486 000; 71 s) | one episode row, one number, two files, an edit and a lookup in flight | `TypeOK`; `ReadyPlaysOwnFile`: something to play, and its own; `TranscodedGetsReady` |
| `unlock` (1 092 000; 105 s) | one viewer, two episodes, two tickets, two reports, one app call at a time, a free count that rises and falls | `RewardKept`: one reward per report, rewarded is unlocked; `LockedStaysClosed`: only the feed plays what was never open, and nobody is told to continue there; `ImplementsVouchers`: `AdUnlocks` implements `Vouchers` |
| `viewers` (2 340 000; 170 s) | two users, two episodes, a share key and two shares counted; three comments on two places, or two comments and a user who likes; two calls in flight | `CountersKept`: counters equal rows, shares once per window; `ThreadsSound`: two levels, counters cover the lists, messages true; `ImplementsThreads`: `Comments` implements `Threads` |
| `accounts` (1 610 000; 230 s) | one phone, two codes, two accounts, two attempts; two administrators; two persons with their cards; two firms; two calls in flight | `GuessesBounded`; `LoginSound`: one login per code, one account per phone, tokens earned; `ImplementsAdmission`: `SmsLogin` implements `Admission`; `AManagerRemainsUnlessCrossed`; `VerifiedIsEarned`; `FirmSound`: who is verified was seen by the staff or confirmed by the provider in every field not edited since, and a firm's finding is of its data |

Where a property is a conjunction (`KeyPromise == OneAtATime /\ RepeatsAreHonest /\
HandledOnce`, for example) its parts are named and commented in the module, and a
counterexample shows which part fails.  Each module states one type
invariant; the one of `Episodes` is checked by its run, the others and the action
properties `StatusOnlyAdvances` and `TicketEndsOnce` are in no run: they are
[proved](#the-proofs).

**Refinements.**  `OrderBook`, `Registry`, `Purse`, `Vouchers`, `Threads` and
`Admission` say in a page what a viewer, a publisher or a creator may count on, in
which steps it can change, and that it changes in no other.  Each is a PROPERTY of a
run, under the mapping at the end of the detailed module, and each refinement is
proved too.  They say more than the invariants beside them: an invariant cannot
tell a platform that was given up and taken by somebody else from one that changed
hands in a step, nor a withdrawal that was paid twice from two withdrawals.  What the
abstract modules leave out (locks, reviews, retries, crashes, calls in flight) is
what the mapping shows to be harmless.

Runs that refute a statement of the repository: `charge` and `exclusive`; see
[below](#what-the-code-does-not-keep).

**Runs over several modules.**  `refund`, `hold`, `race`, `viewers` and `accounts`
check modules that share no variable.  The MC module draws a `part` in the initial
state and lets only the actions of that part happen, so the states are the sum and
not the product of the parts', and a property of one part is checked over all of
its behaviours.  Where two parts meet, the meeting is an input of one of them: a
recharge that arrives and the deposit of a sheet are `Credit` of `Deposits`, a
change of grants is `MoveGrant` of `Income`, a request that passes the middleware
is a request of `Orders`.  Comments are two parts of `viewers`: threads without
likes, and likes with one comment fewer.

**Why the bounds are enough.**  Every hazard of the orders needs at most two
orders of one buyer (two creations, an order and the one it replaces, a single
and a batch order) and two refunds.  The price of 3 cents is odd, so halves
round; one tick more than TTL lets every expiry pass.  A third request of one key
is needed to repeat the answer of a second run.  Deposits need two
distributors for exclusivity and two claims of one distributor for the formula
of further claims; with 20 minutes one platform costs 40 000 cents, two cost 46 000 and
each further one 6 000, and a settlement share of 30 000 takes
part of a deposit.  The recharges' clock passes the row's expiry while the trade can
still be paid.  The sheets hold the three lines that can meet: a row, the same
row corrected, another name of its place, and a deposit.  Payouts need two settlements, which a second contract brings,
two withdrawals and an amount that is booked, refunded and booked again.  Two
calls in flight are what every crossing in content, viewers and accounts takes: one
that decided on an old row, and one that changed it (two managers who remove each
other are two).  Two persons make every mixture of name, identity card and bank card.

In `hold` and `race` two requests stand between their checks and their writes, two
submits are under way, a claim of the older front end goes through payment and submit,
authorized and active grants are given up, and the drama may be deleted under all of
them: the environment is not restricted, and what the code does not keep is named by
the properties.

**What the bounds leave out.**  `exclusive` shows that `PlatformsExclusive` as the code
states it fails; `hold` checks `ExclusiveUnlessLate`, which names the two writes that
break it.  `hold` has one abandon, and no settlements, since those touch no platform; `race`
has one distributor, two abandons and a settlement.  `pay` has one cycle and one run of the
cron job at a time, so income booked in one cycle and refunded in the next is not among
its cases, nor are two concurrent runs, which the theorems cover; `MaxIncome` bounds
what is ever booked, `MaxContracts` the contracts, `MaxCredit` the recharges,
`MaxShares` the shares counted, `MaxComments`, `MaxCodes`,
`MaxServed` and `MaxUploads` what their names say.

**Deadlock** is checked in `media` and `unlock`, where something can always happen.
In the others the model may come to rest, as the system does when nobody calls: the
bounded clock, orders, runs, uploads, comments or codes are used up; both managers
have locked each other out; a distributor is verified; a drama is deleted.

**Symmetry** is used over interchangeable values only, and not in the two runs that
check a liveness property.

**Fairness** (`MCFairSpec` in `create`, `FairSpec` in `media`).  In `Orders`,
`CloseExpiredOrders` is a ticker of the process and is weakly fair, as are the
requests under way (`CommitOrder`, the channel calls), which the Go runtime
schedules; a crash may still take them away.  `Tick` is strongly fair: it is
disabled only while a request is within its permitted delay.  Buyers, callbacks,
administrators and the channel owe nothing.  A pending order that nobody pays is
thus closed by the ticker alone.  In `Episodes` the callbacks owe nothing either:
every one may be lost.  Pages are opened again and again, so the lookup of an
episode is strongly fair (it is disabled while other lookups take all the places);
a lookup ends within its five seconds (weak), with an answer every now and then if
it is asked for ever (strong); a call that was begun writes.

## The proofs

Checked by TLAPS for every value of the constants that satisfies the named
assumptions: `TimeAssumption`, `DataAssumption`, `ShareAssumption`,
`IdempotencyAssumption` (`OrdersProofs`); `DepositAssumption`, `RechargesAssumption`,
`IncomeAssumption`; `PayoutsAssumption`; `NoneAssumption` of `Dramas` and of
`Episodes`, `EditsAssumption`; `ReactionsAssumption`, `CommentsAssumption`,
`AdUnlocksAssumption`; and those of `SmsLogin`, `AdminAccounts` and the two
verification modules, `ProfilesAssumption` among them. They say four kinds of things:
that the sentinel `None` is no value of a column; that a set whose members are counted
or summed is finite (days, cycles, claims, grants, abandons, withdrawals, creators,
channel rows, calls), as tables are; that a bound or an amount is a natural number;
and that a request which names columns names those the handler lets it change. None
bounds a size: any number of users, rows and calls in flight.

Every invariant, every action property and every refinement that a passing run checks
is stated by a theorem.

**Sums.**  A ledger's sum is a fold, and induction over a fold is out of reach
as a rule of the prover.  `Sums` therefore proves what is needed by the smallest
counterexample: among the finite sets for which a claim fails there is a smallest one
(`Smallest`), and taking an element out of it
gives the contradiction.  First that the recursive function inside `SumFunctionOnSet`,
the sum of the community module `Functions`, exists; then that a sum gains `f[x]` with an
element `x`, follows a change of one value, and grows with the values.
Nothing is assumed.

**`OrdersProofs`**, inductive invariant `Inv == TypeOK /\ WellFormed`: an order in the
table has a buyer, episodes and a price, which `TypeOK` alone does not say and
which `RefundAccounted` (a refund of zero would be complete) and the order book
(an order claims something) need.

- `TypeCorrect`, `RefundsAddUp`: `TypeOK` and `RefundAccounted` always;
  `OrdersOnlyAdvance`: the action property `StatusOnlyAdvances`.
- `AccessIsPaidFor`: `AccessMatchesPayment` always, by a lemma that every step
  either keeps the unlocks and the set of settled orders, or settles one order
  and adds its episodes.
- `OnePending`: `SinglePending` always.  `LockInv` adds that a creation under way
  holds its advisory lock alone and that what it read of the pending orders still
  holds when it commits (`ReadHolds`): only a commit places an order.
- `TableAndChannelAgree`: `ChannelAgrees` always.  `ChannelInv` says that a
  transaction under way is in time (`InTime`), that a job that is to prepay an order comes
  in time and before the order has a trade (`JobsFit`), that no two jobs prepay the same
  order (`OwnPrepay`), and how an order and its trade fit (`TradeFits`): a trade is payable
  no longer than its order, no capture comes after the order's expiry, and outside
  development mode a settled order's trade was captured.
- `CreatorIsCovered`: `LedgerCovers` always.  The day columns cover the total because
  each payment adds one share to both and each refund takes from both no more than it
  finds; rounding down of shares adds up (`SharesAddUp`), over any finite set of days.
- `OrdersImplementBook`: `Orders` implements `OrderBook`; initial states map to initial states and
  each step to an order book step or a stutter.
- `Idempotency`, invariant `IInv`: whoever is inside holds the lock until one runs
  out (`InsideHoldsLock`), a run belongs to one request (`RunIsOwn`), the cached answer
  is honest, and `FirstIsLast`: as long as nothing failed, lapsed or crossed, the first run
  is the only one, because while it is on its way it holds the lock and once it is over its
  answer is there and nobody is left who looked before it was.  `IdemTypes`, `Exclusion`,
  `Honesty`, `Once` and `KeyKeepsItsPromise`: `IdemTypeOK`, `OneAtATime`,
  `RepeatsAreHonest`, `HandledOnce` and the last three together, `KeyPromise`.

**`DepositsProofs`**, inductive invariant
`Inv == TypeOK /\ ClaimInv /\ GrantInv /\ AbandonInv /\ EntryInv /\ Conserved`:
`ClaimInv`, `GrantInv` and `AbandonInv` say that a row in use names a distributor
and a drama, so that the wallet a handler updates exists; `EntryInv` ties the
entries of a claim to its `deposit_status`, which is what keeps a second release by
rejection away; `Conserved` is inductive by itself once every move of the wallet is
shown to keep the sum of the three columns.  No theorem restricts what clients or
staff do: requests, submits, decisions, contracts, abandons, settlements and deletions
cross in any number.

- `DepositsTypeCorrect`, `MoneyConserved`: `TypeOK` and `Conserved` always.
- `FrozenAndReleasedOnce`: `ReleasedOnce` always.  `KeptInv` follows the deposit of a claim
  that no stale write touched (`KeptRight`): it has at most one grant, and what its entries
  and the refunds of its abandons leave frozen is the claim's deposit until the approval,
  its grant's while that is live, and nothing afterwards.
- `NothingDrawnWithoutRow`: `DeductionsCovered` always.  `OffsetInv` adds that a
  settlement row not yet made has no offset; what is deducted is then covered by the rows
  that were made.
- `NoPlatformTwice`: `ExclusiveUnlessLate` always, by `ExclusiveInv == RequestIsFree /\
  ExclusiveUnlessLate`.  `RequestIsFree` says that the platforms of a request that nobody
  has overtaken are still free, so the check carries over to the insert although other
  inserts come between; an insert takes that promise from every request it overtakes,
  which is what `late` records.
- `ClaimsImplementRegistry`: `Deposits` implements `Registry` over the claims in time.
  The insert of a claim takes all its platforms, free because of `RequestIsFree`.  No other
  step adds a right (`StepTakes`: an approval replaces a claim by its grant), and what a
  step takes away was held by one distributor for one drama, since it changes one claim
  or one grant; a deletion takes the drama from everybody.
- `HoldingsAgree`: the action property `HoldingsMatch`, step by step: frozen and deducted
  money and what claims and grants record move by the same cents, but in the four steps
  that it names.
- `Recharges`: a row is prepaid once, before its trade exists (`PrepayIsFirst`), so a
  prepay never hides money the channel took; the status says how often a row was
  credited (`Counted`); a callback is about captured money (`AckedIsCaptured`).
  `RechargeTypes`, `CreditedOnce`, `RefusedLate`, `RechargesKeepTheirPromise` (the last
  two together, `RechargePromise`).
- `Income`: `IncomeTypesCorrect`; `LinesTakenOnce`: `TakenOnce`, from what an import at
  each stage holds (`Underway`), that rows and creators are locked once
  (`LocksHeldOnce`), that a deposit is entered by one transaction (`PaysOnce`), that a
  sheet whose batch was noted is in one transaction (`FilesOnce`), and that shares are given
  under the creator's lock (`SharesUnderLock`); `IncomeHasRows`: `RowsBehindIncome`, where
  `BooksAgree` says that what a creator earned is what the committed rows say plus `drift`,
  to the cent and whatever imports, corrections and deletions cross, and that
  what an open import owes is what its rows gain and what it missed (`Missed`).

**`PayoutsProofs`**, inductive invariant `Inv == Rows /\ Owned /\ TailPaid /\
InvoiceAgrees`: an invoice belongs to one withdrawal (`Owned`), so a decision on
one never moves the invoice of another, and only a paid withdrawal has work left
after its commit (`TailPaid`), so that late work cannot change an outcome.  The types come
next, then the sums: each step moves the amount of one withdrawal from one status
to another, and the account's columns by the same.

- `InvoicesFollow`, `PayoutsTypeCorrect`, `MoneyAddsUp`: `InvoiceAgrees`, `TypeOK` and
  `MoneyAccounted` always; `WithdrawalsComeFromIncome`: the action property
  `WithdrawnWithinIncome`.
- `PayoutsImplementPurse`: `Payouts` implements `Purse`.  The steps of income move the free
  balance alone; a creation of a withdrawal is `Reserve`; of the steps that decide on one,
  those that reject it are `GiveBack`, those that pay it `Spend`, and an approval without
  payment changes nothing, because both statuses are the same phase.

**`DramasProofs`**: what a call wrote down when it read the row and will write whatever
happened since (`Writes`), and what of it is still true if no other call moved the row
meanwhile (`StillTrue`); a draft has sold nothing unless it was turned down
after it had (`DraftUnsold`); before the drama is created there are no calls, contracts
or sales (`EmptyBefore`); one contract for a creator (`OnePerCreator`).  `OneContract`, `TakedownHolds` and
`SoldKept` hold for overtaken calls too: the first two rest on `Writes`, and what an
overtaken deletion takes is in `history.removed`, so that `SoldKept` needs `StillTrue` of
deletions that were not overtaken only.  `StatusFollowsVerdict` needs `StillTrue`.

- `TypeCorrect`, `OneStory`, `SoldStays`, `ContractOnce`, `TakedownStays`: `TypeOK`,
  `StatusFollowsVerdict`, `SoldKept`, `OneContract` always, and the action property
  `TakedownHolds`.

**`EpisodesProofs`**: what a call writes, and what it may rely on while the row is the one
it read (`CallFits`): the source an update checked is still there, the file a lookup
asked about is still the row's.  A callback needs no such care, since it looks for the rows
that name its file when it arrives.

- `TypeCorrect`, `EpisodesPlayTheirOwn`: `TypeOK` and `ReadyPlaysOwnFile` always.

**`ViewersProofs`**

- `Reactions`, invariant `ReactInv`: each counter is the number of its rows
  (`RowsCounted`), and a key for which Redis never failed won at most once and, if it did,
  is still in Redis (`SharesCounted`).  `ReactionsTypes`, `CountersAreKept`: `ReactTypeOK`, `CountersKept`.
- `Comments`, invariant `CommentInv`: a call under way names comments that were written
  (`CallsFit`), a reply is told once, either by a message or by the call that is about to
  (`ToldOnce`), a message fits what it is about (`MessagesFit`), likes belong to rows
  (`LikesOfRows`), and each number is a cardinality (`NumbersRight`).  `CommentsTypes`,
  `ThreadsAreSound`: `CommentTypeOK`, `ThreadsSound`.  `CommentsImplementThreads`:
  `Comments` implements `Threads`, one lemma per kind of step.  A message that is owed is the
  call that will tell it; `ToldOnce` makes the telling the last of its reply, `CallsFit` and
  `MessagesFit` make it go to the right author, and what the clean-up deletes was read.
- `AdUnlocks`: a ticket carries a number from its end on only, its lock is exclusive, and
  what is locked is pending; so the ticket for which an earlier income was booked is
  another one, which the unique index refuses.  `TypeCorrect`, `OneReward`,
  `RewardUnlocks`, `EndsOnce`: `TypeOK`, `OneRewardPerReport`, `RewardedIsUnlocked` and
  `TicketEndsOnce`; `RewardsKept`: the second and third together, `RewardKept`.
  `LockedKeptClosed`: `LockedStaysClosed`.  `WatchedWasOpen` says it of the plays and
  history entries that are still to be answered too: what a gate let through was unlocked
  or free when it was read, and neither becomes untrue, whatever the staff change
  before the answer.
  `AdUnlocksImplementVouchers`: `AdUnlocks` implements `Vouchers`; that the ticket a report
  rewards is pending still is `LockedIsPending`, that its number is fresh is the index, and
  that its income is the first is `OneRewardPerReport`.

**`AccountsProofs`**

- `SmsLogin`: what a call may rely on after each of its steps (`Fits`): a code was
  accepted for its phone, its account has that phone, its row exists and is unused while
  it holds the lock; the row lock is exclusive (`LockIsExclusive`); a code that could
  still be accepted was not (`CodeCounted`); tokens and passwords belong to accounts whose
  phone was proved (`Rights`).  Each step of a call disturbs none of it for the others
  (`CallStep`), which is where the deletion of an undelivered code matters: it waits for
  the row as well.  `LoginTypes`, `CodeOnce`, `OneAccount`, `TokensEarned`: `LoginTypeOK`,
  `CodeAcceptedOnce`, `OneAccountPerPhone` and `TokenWasEarned`; `LoginIsSound`: the
  last three together, `LoginSound`.  `LoginImplementsAdmission`: `SmsLogin` implements
  `Admission`; `Fits` says of a call about to insert, to accept or to sign in what the
  abstract step asks for.  `GuessesAreBounded`: `GuessesBounded`, from
  `GuessesCounted`: while a phone is not locked, its guesses are its recorded failures and
  the misses about to be recorded; once it is, only calls past the check may still compare.
- `AdminAccounts`, `CallersKeep`: a call about its own caller does not take what the caller
  manages by, and nobody bans themselves.  `StaffTypes`, `SomebodyManages`: `StaffTypeOK`,
  `AManagerRemainsUnlessCrossed`.
- `CreatorVerification`, `EarnedInv`: whatever row says that the provider confirmed it, the
  stored one or one that a call is about to write, agrees with somebody the provider
  confirmed in every identity field that was not edited since (`Confirmed`, `Honest`).
  `VerificationIsEarned`: `VerifiedIsEarned`.
  `PersonTypes`: `PersonTypeOK`, since what a call holds is part of a row
  (`PersonTypeInv`), whichever columns its request named.
- `DistributorVerification`, `UnderWaySound`: a submission under way was handed in, and what the
  provider found is about its own firm and legal person's card.
  `FirmTypes`, `FirmsAreSound`: `FirmTypeOK`, `FirmSound`.

**Only model-checked**: liveness under fairness (`PendingSettles`,
`TranscodedGetsReady`), which is outside what the provers handle.

## What the code does not keep

Two statements are refuted by a run each and listed as findings: two captured
orders for one episode (`charge`) and two distributors on one platform
(`exclusive`).

Met while modelling, kept by the models (a property that would contradict one of
them says which case it leaves out), and not given a run of their own:

Orders and payments

- A callback delivered again after a partial refund marks the order paid again and
  credits the creator twice (`billing.go:508`; `docs/DEV_TEST_LOG.md:156` says not).
- Refund numbers `r1`, `r2`, `r1`: the third is booked again, only the last
  number is compared (`billing.go`, `RefundOrder`).
- Closing an Alipay trade that the app client does not know counts as success,
  the trade of the wap client stays payable until its link expires.
- A repeated request that read the cache before the first was answered, and asks for
  the lock after it was freed, is handled again (`idempotency.go:65-101`;
  `docs/DEV_TEST_LOG.md:271`).  After a lock has run out, the unconditional `Del` frees
  the locks of others, and the second answer replaces the first.
- A recharge's callback is judged by the clock and not by the time of payment
  (`webhooks.go:84`): one that is late is refused and acknowledged although the money
  is there, and once the task has closed the row the staff's query (`billing.go:1190`)
  does nothing, since it acts on pending rows only.  The trade's limit is counted from
  the prepay and configurable, the row's is not.  A failed prepay deletes its row
  whatever the status.

Deposits and income

- A grant given up before its contract was uploaded becomes active with the contract
  (`admin_distributor.go:519`).
- A settlement sent back returns its offset and keeps showing it, so the distributor
  pays less (`admin_distributor.go:928`).
- `calcAbandonRefund` uses the first claim's formula for grants of a further
  claim; the result may be negative and overdraw the account.
- A rejected claim whose frozen deposit a settlement has taken cannot be
  rejected: the release fails on the frozen column.
- A late submit over an approval, then a rejection, gives the whole deposit back and
  leaves the grant, whose abandon gives it back again (`publisher_claim.go:195`,
  `admin_distributor.go`).
- Two pending abandons of one grant (`publisher_abandon.go:134` counts them without a
  lock): the second may revoke platforms it did not name.
- A late submit returns a claim to review that was decided meanwhile.
- Two imports at once, or a correction between an import's read and its write, book
  the same difference twice (`admin_finance_import.go:628`); a row deleted in between is
  not written, but its difference is booked.
- Two imports that find a row unchanged both give the publisher's share (no unique
  index; the comment at `:899` calls it idempotent).  The share never follows a
  correction, deletion or re-import, and after a grant changed hands a re-import gives a
  second distributor a share of the same day.
- The batch that keeps a sheet out is looked up before the transaction and saved after
  it (`:459`, `:797`): two uploads at once, or a failed save, take the sheet twice.  Its
  deposit is protected by an index.

Payouts

- Two concurrent runs settle a cycle twice (`settlement_cron.go:218`, whose comment
  names this case).  A new contract gives a cycle already settled a second
  settlement.
- A settlement withdrawn without an invoice, or whose invoice was deleted, can be
  withdrawn again while income allows; approval with a transaction number pays
  and leaves the settlement invoiced; a late `invoiced` or `paid` overwrites a
  void settlement.
- All settlements of a run draw one number (`settlement_cron.go:199`), so the
  second creator's insert fails and ends the run; not in the models, which have
  one creator.
- The reconciliation report joins missing unlocks on the order's episode, which is 0 in
  a batch order, and leaves partly refunded orders and ad income out of the totals it
  expects (`reconcile.go:241`).

Content

- Verdicts given at once on the two dimensions leave an overall verdict that neither
  implies.  The staff publish without asking for approval.
- A late or repeated upload callback, or a lookup overtaken by the transcoding, puts the
  original link back over the transcoded one.  An update may set an episode ready with
  a file only, which the lookups then never touch.

Viewers

- The feed hands out the link of a drama's first ready episode (`app_content.go:157-161`),
  and the shared page one of its own (`app_share_page.go:47-60`), without asking whether
  the episode is free or unlocked; the play endpoint asks.
- A due ticket whose report carries a number already used gets an error on every repeat
  until a poll expires it.  An income that cannot be booked fails the whole transaction
  in PostgreSQL, though the comment says it does not (`ad_unlock.go:259`).  After a drama
  is deleted a late report still inserts an unlock.
- Deleting an episode leaves its likes in the drama's counter, so
  `dramas.like_count = 各集之和` (`app_action.go:207`) fails from then on.
- Messages about likes are never stored: the upsert names columns that no unique index
  covers (`app_message.go:50`).
- Deleting a top comment leaves its replies in the count of the episode but in no list;
  `reply_count` never goes down.

Accounts

- The resend window does not hold for calls at once; a new code clears the failure lock,
  and so does a restart.  Of two first logins at once one fails with its code used.
- Two managers who act on each other at the same time can lock everybody out
  (`admin_account.go:357`); permissions set twice at once are united, though
  `validPermissions` calls some of them exclusive; an update bans a super administrator
  where the ban handler refuses.
- A creator who was verified may change name, identity card or organisation and stay
  verified (`creatorUpdateProfile`); a change of the bank card that was read before the
  first verification writes after it without a code.
- "Reused when unchanged" (`creator_verification.go:147`) is not true of what was
  checked: after the staff set the status back and the card changed, a submission is
  taken as confirmed that the provider never saw.  `VerifiedIsEarned` therefore exempts
  the fields that were edited outside a submission, and no others.
- The staff may approve what was submitted again since they looked; a submission under
  way turns an approval back into a pending review.

## What is not modelled

Listed as `not_modelled` or `partly` in `PROJECT.json`:

- Reconciliation is a read-only report.  Rate limits and the send limit per client
  address measure time, which the models of their callers do not.
- Lists, statistics, categories, cost templates, channel accounts, notifications and the
  audit trail are reads or single writes that no rule relates to another row.
- Signatures, wire formats, field encryption, spreadsheets, PDF files, signed links and
  the recognition of licence images are formatting or calls without effect on the
  states above; the outcome of each is an input.
- Migrations, seed data, start-up and command line tools, except the two tasks
  (`close-expired-orders`, `publish-scheduled`).
- Distributors' own withdrawals are retired endpoints.  Names, administrators'
  passwords and the region an administrator may see are left out of the accounts; tags,
  play counts, sorting and paging out of the pages.
- `Payouts` has one creator: a settlement run over several, with its common number, is
  outside it, as are reversals across cycles.  The gross columns and withdrawal taxes are
  arithmetic without effect on the states.
- Sales and refunds that write a creator's row during an import meet only in `Payouts`,
  where imports are whole; the deletion of a drama with its channel rows is not in
  `Income`.
