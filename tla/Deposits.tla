------------------------------ MODULE Deposits ------------------------------
(***************************************************************************)
(* Distributors claim the right to publish a drama on some platforms       *)
(* against a deposit (publisher_claim.go, admin_distributor.go), give      *)
(* platforms up for a refund (publisher_abandon.go) and settle each cycle, *)
(* where the frozen deposit offsets what they owe (admin_distributor.go,   *)
(* publisher_settlement.go).                                               *)
(*                                                                         *)
(* A transaction that locks its rows is one step.  Creating a claim or an  *)
(* abandon request checks first, outside any transaction, and writes       *)
(* later: two steps, with the checked request in the table as "requested". *)
(* A requested row is not in the database.                                 *)
(***************************************************************************)
EXTENDS DepositWallet

CONSTANTS Distributors, Dramas, Platforms,
          ClaimIds, GrantIds, AbandonIds,  (* rows of the three tables     *)
          Cycles,       (* settlement cycles, such as 2026-08-H1           *)
          None,         (* sentinel: no distributor, drama, claim or grant *)
          Base,         (* the base deposit of each drama, in cents        *)
          Amounts,      (* amounts recharged                               *)
          MaxCredit,    (* bound on what a distributor recharges in all    *)
          Shares,       (* the platform's share of a cycle, in cents       *)
          Legacy,       (* claims an older front end may have left         *)
          Deletable,    (* dramas an administrator deletes                 *)
          MaxInFlight,  (* requests between their checks and their write   *)
          MaxSubmits    (* submits of one claim in flight at once          *)

ASSUME DepositAssumption ==
    /\ None \notin Distributors \cup Dramas \cup ClaimIds \cup GrantIds
    /\ IsFiniteSet(Platforms) /\ IsFiniteSet(Cycles)
    /\ IsFiniteSet(ClaimIds) /\ IsFiniteSet(GrantIds) /\ IsFiniteSet(AbandonIds)
    /\ Base \in [Dramas -> Nat]
    /\ Amounts \subseteq Nat \ {0} /\ Shares \subseteq Nat
    /\ Legacy \subseteq ClaimIds /\ Deletable \subseteq Dramas
    /\ MaxCredit \in Nat /\ MaxInFlight \in Nat /\ MaxSubmits \in Nat

VARIABLES wallet,       (* the deposit columns of each distributor         *)
          credited,     (* sum of a distributor's recharge entries         *)
          claims,       (* distributor_applications                        *)
          entries,      (* freeze and unfreeze entries of each claim       *)
          grants,       (* distributor_dramas                              *)
          abandons,     (* distributor_abandon_requests                    *)
          settlements,  (* distributor_settlements, unique per cycle       *)
          submitting,   (* submits that read their claim and not yet wrote *)
          deleted,      (* dramas deleted                                  *)
          late          (* history: what wrote over a state it had not read *)

money == <<wallet, credited, entries>>
vars == <<wallet, credited, claims, entries, grants, abandons, settlements,
          submitting, deleted, late>>

ClaimStatuses == {"none", "requested", "deposit_pending", "authorization_pending",
                  "review_pending", "contract_pending", "completed", "rejected",
                  "deleted"}

Claim == [status: ClaimStatuses, by: Distributors \cup {None},
          drama: Dramas \cup {None}, platforms: SUBSET Platforms,
          deposit: Nat, paid: {"unpaid", "paid", "released"}]

NoClaim == [status |-> "none", by |-> None, drama |-> None, platforms |-> {},
            deposit |-> 0, paid |-> "unpaid"]

(* The claim's freeze and unfreeze entries, and the cents that they and    *)
(* the refunds of its grants' abandons leave frozen for it.                *)
Entries == [freeze: Nat, unfreeze: Nat, kept: Int]

Booked(freeze, unfreeze, kept) == [freeze |-> freeze, unfreeze |-> unfreeze, kept |-> kept]

Frozen(e, cents)   == Booked(e.freeze + 1, e.unfreeze, e.kept + cents)
Released(e, cents) == Booked(e.freeze, e.unfreeze + 1, e.kept - cents)
Refunded(e, cents) == Booked(e.freeze, e.unfreeze, e.kept - cents)

Grant == [status: {"none", "authorized", "active", "revoked", "deleted"},
          claim: ClaimIds \cup {None}, by: Distributors \cup {None},
          drama: Dramas \cup {None}, platforms: SUBSET Platforms, deposit: Int]

NoGrant == [status |-> "none", claim |-> None, by |-> None, drama |-> None,
            platforms |-> {}, deposit |-> 0]

(* original and deposit: the grant's columns as the request read them *)
Abandon == [status: {"none", "requested", "pending", "approved", "rejected"},
            grant: GrantIds \cup {None}, by: Distributors \cup {None},
            drama: Dramas \cup {None}, platforms: SUBSET Platforms, refund: Int,
            original: SUBSET Platforms, deposit: Int]

NoAbandon == [status |-> "none", grant |-> None, by |-> None, drama |-> None,
              platforms |-> {}, refund |-> 0, original |-> {}, deposit |-> 0]

Settlement == [status: {"none", "pending_payment", "payment_submitted", "settled"},
               share: Nat, deducted: Nat, payable: Nat]

NoSettlement == [status |-> "none", share |-> 0, deducted |-> 0, payable |-> 0]

(* What happened to a claim on a stale read.  "insert": another claim took *)
(* a platform of it after its check; "submit": a submit wrote over the     *)
(* decision on it; "contract": its contract brought back a grant given up  *)
(* meanwhile; "abandon": an abandon was approved of a grant that was no    *)
(* longer as its request read it.                                          *)
Marks == {"insert", "submit", "contract", "abandon"}

TypeOK ==
    /\ wallet \in [Distributors -> Wallet]
    /\ credited \in [Distributors -> Nat]
    /\ claims \in [ClaimIds -> Claim]
    /\ entries \in [ClaimIds -> Entries]
    /\ grants \in [GrantIds -> Grant]
    /\ abandons \in [AbandonIds -> Abandon]
    /\ settlements \in [Distributors \X Cycles -> Settlement]
    /\ submitting \in [ClaimIds -> Nat]
    /\ deleted \subseteq Dramas
    /\ late \subseteq ClaimIds \X Marks

(* A legacy claim waits for its deposit. *)
LegacyClaim(d, dr, P) ==
    [NoClaim EXCEPT !.status = "deposit_pending", !.by = d, !.drama = dr,
                    !.platforms = P,
                    !.deposit = calcDepositAmount(Base[dr], Cardinality(P))]

Init ==
    /\ wallet = [d \in Distributors |-> EmptyWallet]
    /\ credited = [d \in Distributors |-> 0]
    /\ \E d \in Distributors, dr \in Dramas, P \in SUBSET Platforms \ {{}},
          L \in SUBSET Legacy :
         claims = [c \in ClaimIds |-> IF c \in L THEN LegacyClaim(d, dr, P)
                                      ELSE NoClaim]
    /\ entries = [c \in ClaimIds |-> Booked(0, 0, 0)]
    /\ grants = [g \in GrantIds |-> NoGrant]
    /\ abandons = [a \in AbandonIds |-> NoAbandon]
    /\ settlements = [s \in Distributors \X Cycles |-> NoSettlement]
    /\ submitting = [c \in ClaimIds |-> 0]
    /\ deleted = {}
    /\ late = {}

-----------------------------------------------------------------------------
(* Money comes in: MarkRechargePaid, the development recharge, the import  *)
(* of a deposit row.                                                       *)

Credit(d, amount) ==
    /\ credited[d] + amount <= MaxCredit
    /\ wallet' = [wallet EXCEPT ![d] = Recharge(@, amount)]
    /\ credited' = [credited EXCEPT ![d] = @ + amount]
    /\ UNCHANGED <<claims, entries, grants, abandons, settlements, submitting, deleted, late>>

-----------------------------------------------------------------------------
(* Claims *)

LiveClaim(c) == claims[c].status \in {"deposit_pending", "authorization_pending",
                                      "review_pending", "contract_pending"}

LiveGrant(g) == grants[g].status \in {"authorized", "active"}

(* Mutant: claims under review do not occupy their platforms. *)
OccupiedByGrants(dr) ==
    UNION {grants[g].platforms : g \in {x \in GrantIds : LiveGrant(x) /\ grants[x].drama = dr}}

(* Mutant: a claim occupies its platforms only until its contract. *)
OccupiedByClaims(dr) ==
    UNION {claims[c].platforms : c \in {x \in ClaimIds : LiveClaim(x) /\ claims[x].drama = dr}}

getOccupiedPlatforms(dr) ==
    UNION ({grants[g].platforms : g \in {x \in GrantIds : LiveGrant(x) /\ grants[x].drama = dr}}
      \cup {claims[c].platforms : c \in {x \in ClaimIds : LiveClaim(x) /\ claims[x].drama = dr}}
      \cup {abandons[a].platforms : a \in {x \in AbandonIds : /\ abandons[x].status = "pending"
                                                              /\ abandons[x].drama = dr}})

HasExisting(d, dr) ==
    \/ \E g \in GrantIds : LiveGrant(g) /\ grants[g].by = d /\ grants[g].drama = dr
    \/ \E c \in ClaimIds : /\ claims[c].status \in {"review_pending", "contract_pending"}
                           /\ claims[c].by = d /\ claims[c].drama = dr

InFlight == {c \in ClaimIds : claims[c].status = "requested"}
       \cup {a \in AbandonIds : abandons[a].status = "requested"}

(* publisherCreateClaim up to its transaction *)
RequestClaim(c, d, dr, P) ==
    /\ claims[c].status = "none" /\ Cardinality(InFlight) < MaxInFlight
    /\ dr \notin deleted
    /\ P # {} /\ P \cap getOccupiedPlatforms(dr) = {}
    /\ LET n == Cardinality(P)
           amount == IF HasExisting(d, dr) THEN calcAppendDepositAmount(Base[dr], n)
                     ELSE calcDepositAmount(Base[dr], n)
       IN  claims' = [claims EXCEPT ![c] =
             [status |-> "requested", by |-> d, drama |-> dr, platforms |-> P,
              deposit |-> amount, paid |-> "unpaid"]]
    /\ UNCHANGED <<money, grants, abandons, settlements, submitting, deleted, late>>

FreezeFor(c) ==
    LET d == claims[c].by
    IN  /\ wallet[d].available >= claims[c].deposit
        /\ wallet' = [wallet EXCEPT ![d] = Freeze(@, claims[c].deposit)]
        /\ entries' = [entries EXCEPT ![c] = Frozen(@, claims[c].deposit)]

(* The requests whose check did not see the claim that c is now *)
Overtaken(c) == {x \in ClaimIds \ {c} : /\ claims[x].status = "requested"
                                         /\ claims[x].drama = claims[c].drama
                                         /\ claims[x].platforms \cap claims[c].platforms # {}}

(* its transaction: freeze the deposit and insert the claim under review *)
publisherCreateClaim(c) ==
    /\ claims[c].status = "requested"
    /\ FreezeFor(c)
    /\ claims' = [claims EXCEPT ![c].status = "review_pending", ![c].paid = "paid"]
    /\ late' = late \cup (Overtaken(c) \X {"insert"})
    /\ UNCHANGED <<credited, grants, abandons, settlements, submitting, deleted>>

(* A request that fails, for want of balance or because the process stops. *)
FailClaim(c) ==
    /\ claims[c].status = "requested"
    /\ claims' = [claims EXCEPT ![c] = NoClaim]
    /\ late' = late \ ({c} \X Marks)
    /\ UNCHANGED <<money, grants, abandons, settlements, submitting, deleted>>

publisherPayDeposit(c) ==
    /\ claims[c].status = "deposit_pending" /\ claims[c].deposit > 0
    /\ FreezeFor(c)
    /\ claims' = [claims EXCEPT ![c].status = "authorization_pending", ![c].paid = "paid"]
    /\ UNCHANGED <<credited, grants, abandons, settlements, submitting, deleted, late>>

(* publisherSubmitClaim reads the claim, without a lock ... *)
ReadSubmit(c) ==
    /\ claims[c].status = "authorization_pending" /\ submitting[c] < MaxSubmits
    /\ submitting' = [submitting EXCEPT ![c] = @ + 1]
    /\ UNCHANGED <<money, claims, grants, abandons, settlements, deleted, late>>

(* ... and later writes its status by primary key. *)
publisherSubmitClaim(c) ==
    /\ submitting[c] > 0
    /\ submitting' = [submitting EXCEPT ![c] = @ - 1]
    /\ claims' = IF claims[c].status = "deleted" THEN claims
                 ELSE [claims EXCEPT ![c].status = "review_pending"]
    /\ late' = IF claims[c].status \in {"authorization_pending", "review_pending", "deleted"}
               THEN late ELSE late \cup {<<c, "submit">>}
    /\ UNCHANGED <<money, grants, abandons, settlements, deleted>>

(* The grant and its contract are inserted with the approval; the deposit  *)
(* of a paid claim without a freeze entry is frozen here.                  *)
adminApproveClaim(c, g) ==
    /\ claims[c].status = "review_pending" /\ claims[c].paid = "paid"
    /\ grants[g].status = "none"
    /\ IF entries[c].freeze = 0 /\ claims[c].deposit > 0
       THEN FreezeFor(c) ELSE UNCHANGED <<wallet, entries>>
    /\ claims' = [claims EXCEPT ![c].status = "contract_pending"]
    /\ grants' = [grants EXCEPT ![g] =
         [status |-> "authorized", claim |-> c, by |-> claims[c].by,
          drama |-> claims[c].drama, platforms |-> claims[c].platforms,
          deposit |-> claims[c].deposit]]
    /\ UNCHANGED <<credited, abandons, settlements, submitting, deleted, late>>

Holds(d, amount) == wallet[d].frozen >= amount

(* Mutant: the rejection does not mark the deposit released. *)
RejectKeepsPaid(c) ==
    /\ claims[c].status = "review_pending"
    /\ LET d == claims[c].by
       IN  IF claims[c].paid = "paid" /\ claims[c].deposit > 0
           THEN /\ Holds(d, claims[c].deposit)
                /\ wallet' = [wallet EXCEPT ![d] = Unfreeze(@, claims[c].deposit)]
                /\ entries' = [entries EXCEPT ![c] = Released(@, claims[c].deposit)]
           ELSE UNCHANGED <<wallet, entries>>
    /\ claims' = [claims EXCEPT ![c].status = "rejected"]
    /\ UNCHANGED <<credited, grants, abandons, settlements, submitting, deleted, late>>

adminRejectClaim(c) ==
    /\ claims[c].status = "review_pending"
    /\ LET d == claims[c].by
       IN  IF claims[c].paid = "paid" /\ claims[c].deposit > 0
           THEN /\ Holds(d, claims[c].deposit)
                /\ wallet' = [wallet EXCEPT ![d] = Unfreeze(@, claims[c].deposit)]
                /\ entries' = [entries EXCEPT ![c] = Released(@, claims[c].deposit)]
           ELSE UNCHANGED <<wallet, entries>>
    /\ claims' = [claims EXCEPT ![c].status = "rejected", ![c].paid = "released"]
    /\ UNCHANGED <<credited, grants, abandons, settlements, submitting, deleted, late>>

(* Every grant of the application becomes active, whatever its status. *)
adminUploadContract(c) ==
    /\ claims[c].status = "contract_pending"
    /\ claims' = [claims EXCEPT ![c].status = "completed"]
    /\ grants' = [g \in GrantIds |->
         IF grants[g].claim = c THEN [grants[g] EXCEPT !.status = "active"] ELSE grants[g]]
    /\ late' = IF \A g \in GrantIds : grants[g].claim = c => LiveGrant(g)
               THEN late ELSE late \cup {<<c, "contract">>}
    /\ UNCHANGED <<money, abandons, settlements, submitting, deleted>>

-----------------------------------------------------------------------------
(* Giving platforms up *)

(* publisherCreateAbandon up to its insert: no lock, no transaction. *)
RequestAbandon(a, g, P) ==
    /\ abandons[a].status = "none" /\ Cardinality(InFlight) < MaxInFlight
    /\ LiveGrant(g) /\ grants[g].drama \notin deleted
    /\ P # {} /\ P \subseteq grants[g].platforms
    /\ \A x \in AbandonIds : ~(abandons[x].status = "pending" /\ abandons[x].grant = g)
    /\ \A k \in Cycles : settlements[<<grants[g].by, k>>].status
                           \notin {"pending_payment", "payment_submitted"}
    /\ abandons' = [abandons EXCEPT ![a] =
         [status |-> "requested", grant |-> g, by |-> grants[g].by,
          drama |-> grants[g].drama, platforms |-> P,
          refund |-> calcAbandonRefund(grants[g].deposit, Base[grants[g].drama],
                        Cardinality(grants[g].platforms), Cardinality(P)),
          original |-> grants[g].platforms, deposit |-> grants[g].deposit]]
    /\ UNCHANGED <<money, claims, grants, settlements, submitting, deleted, late>>

publisherCreateAbandon(a) ==
    /\ abandons[a].status = "requested"
    /\ abandons' = [abandons EXCEPT ![a].status = "pending"]
    /\ UNCHANGED <<money, claims, grants, settlements, submitting, deleted, late>>

FailAbandon(a) ==
    /\ abandons[a].status = "requested"
    /\ abandons' = [abandons EXCEPT ![a] = NoAbandon]
    /\ UNCHANGED <<money, claims, grants, settlements, submitting, deleted, late>>

(* Mutant: what remains of a grant keeps the deposit of all of it. *)
AfterAbandonKeepsDeposit(g, a) ==
    IF Cardinality(abandons[a].platforms) >= Cardinality(grants[g].platforms)
    THEN [grants[g] EXCEPT !.status = "revoked"]
    ELSE [grants[g] EXCEPT !.platforms = @ \ abandons[a].platforms]

(* All the platforms or some of them, decided by comparing their numbers. *)
AfterAbandon(g, a) ==
    IF Cardinality(abandons[a].platforms) >= Cardinality(grants[g].platforms)
    THEN [grants[g] EXCEPT !.status = "revoked"]
    ELSE [grants[g] EXCEPT !.platforms = @ \ abandons[a].platforms,
                           !.deposit = @ - abandons[a].refund]

(* The grant is still what the request read. *)
AsRead(a) ==
    LET g == abandons[a].grant
    IN  grants[g].platforms = abandons[a].original /\ grants[g].deposit = abandons[a].deposit

adminApproveAbandon(a) ==
    LET g == abandons[a].grant
        d == abandons[a].by
        c == grants[g].claim
    IN  /\ abandons[a].status = "pending" /\ LiveGrant(g)
        /\ Holds(d, abandons[a].refund)
        /\ grants' = [grants EXCEPT ![g] = AfterAbandon(g, a)]
        /\ wallet' = [wallet EXCEPT ![d] = Unfreeze(@, abandons[a].refund)]
        /\ entries' = [entries EXCEPT ![c] = Refunded(@, abandons[a].refund)]
        /\ abandons' = [abandons EXCEPT ![a].status = "approved"]
        /\ late' = IF AsRead(a) THEN late ELSE late \cup {<<c, "abandon">>}
        /\ UNCHANGED <<credited, claims, settlements, submitting, deleted>>

adminRejectAbandon(a) ==
    /\ abandons[a].status = "pending"
    /\ abandons' = [abandons EXCEPT ![a].status = "rejected"]
    /\ UNCHANGED <<money, claims, grants, settlements, submitting, deleted, late>>

-----------------------------------------------------------------------------
(* Settlements *)

(* Mutant: the cycle is not looked up and the index not there. *)
GenerateAgain(d, k, share) ==
    LET offset == IF wallet[d].frozen < share THEN wallet[d].frozen ELSE share
    IN  /\ wallet' = [wallet EXCEPT ![d] = Deduct(@, offset)]
        /\ settlements' = [settlements EXCEPT ![<<d, k>>] =
             [status |-> "pending_payment", share |-> share, deducted |-> offset,
              payable |-> share - offset]]
        /\ UNCHANGED <<credited, claims, entries, grants, abandons, submitting, deleted, late>>

(* share is what the income rows of the cycle leave to the platform. *)
runDistributorSettlementForCycle(d, k, share) ==
    LET offset == IF wallet[d].frozen < share THEN wallet[d].frozen ELSE share
    IN  /\ settlements[<<d, k>>].status = "none"
        /\ wallet' = [wallet EXCEPT ![d] = Deduct(@, offset)]
        /\ settlements' = [settlements EXCEPT ![<<d, k>>] =
             [status |-> "pending_payment", share |-> share, deducted |-> offset,
              payable |-> share - offset]]
        /\ UNCHANGED <<credited, claims, entries, grants, abandons, submitting, deleted, late>>

publisherSubmitRemittance(d, k) ==
    /\ settlements[<<d, k>>].status = "pending_payment"
    /\ settlements' = [settlements EXCEPT ![<<d, k>>].status = "payment_submitted"]
    /\ UNCHANGED <<money, claims, grants, abandons, submitting, deleted, late>>

ConfirmReceipt(d, k) ==
    /\ settlements[<<d, k>>].status = "payment_submitted"
    /\ settlements' = [settlements EXCEPT ![<<d, k>>].status = "settled"]
    /\ UNCHANGED <<money, claims, grants, abandons, submitting, deleted, late>>

(* The offset goes back; the row keeps its deducted and payable columns. *)
RejectReceipt(d, k) ==
    LET offset == settlements[<<d, k>>].deducted
    IN  /\ settlements[<<d, k>>].status = "payment_submitted"
        /\ wallet[d].deducted >= offset
        /\ wallet' = [wallet EXCEPT ![d] = Restore(@, offset)]
        /\ settlements' = [settlements EXCEPT ![<<d, k>>].status = "pending_payment"]
        /\ UNCHANGED <<credited, claims, entries, grants, abandons, submitting, deleted, late>>

adminConfirmDistributorSettlement(d, k) == ConfirmReceipt(d, k) \/ RejectReceipt(d, k)

-----------------------------------------------------------------------------
(* Deleting a drama removes its claims and grants, and nothing else here. *)
adminDeleteDrama(dr) ==
    /\ dr \in Deletable \ deleted
    /\ deleted' = deleted \cup {dr}
    /\ claims' = [c \in ClaimIds |->
         IF claims[c].drama = dr /\ claims[c].status # "requested"
         THEN [NoClaim EXCEPT !.status = "deleted"] ELSE claims[c]]
    /\ grants' = [g \in GrantIds |->
         IF grants[g].drama = dr THEN [NoGrant EXCEPT !.status = "deleted"] ELSE grants[g]]
    /\ UNCHANGED <<money, abandons, settlements, submitting, late>>

ClaimStep(c) ==
    \/ \E d \in Distributors, dr \in Dramas, P \in SUBSET Platforms : RequestClaim(c, d, dr, P)
    \/ publisherCreateClaim(c) \/ FailClaim(c)
    \/ publisherPayDeposit(c) \/ ReadSubmit(c) \/ publisherSubmitClaim(c)
    \/ \E g \in GrantIds : adminApproveClaim(c, g)
    \/ adminRejectClaim(c) \/ adminUploadContract(c)

AbandonStep(a) ==
    \/ \E g \in GrantIds, P \in SUBSET Platforms : RequestAbandon(a, g, P)
    \/ publisherCreateAbandon(a) \/ FailAbandon(a)
    \/ adminApproveAbandon(a) \/ adminRejectAbandon(a)

SettlementStep(d, k) ==
    \/ \E share \in Shares : runDistributorSettlementForCycle(d, k, share)
    \/ publisherSubmitRemittance(d, k)
    \/ adminConfirmDistributorSettlement(d, k)

Next ==
    \/ \E d \in Distributors, amount \in Amounts : Credit(d, amount)
    \/ \E c \in ClaimIds : ClaimStep(c)
    \/ \E a \in AbandonIds : AbandonStep(a)
    \/ \E d \in Distributors, k \in Cycles : SettlementStep(d, k)
    \/ \E dr \in Dramas : adminDeleteDrama(dr)

Spec == Init /\ [][Next]_vars

-----------------------------------------------------------------------------
(* What the claims and the grants of d hold of its deposit. *)
ClaimHolds(d) ==
    [c \in ClaimIds |->
        IF /\ claims[c].by = d /\ claims[c].paid = "paid"
           /\ claims[c].status \in {"authorization_pending", "review_pending"}
        THEN claims[c].deposit ELSE 0]

GrantHolds(d) ==
    [g \in GrantIds |-> IF grants[g].by = d /\ LiveGrant(g) THEN grants[g].deposit ELSE 0]

(* The deposit account neither makes nor loses money: what was recharged   *)
(* is available, frozen or deducted, after any sequence of claims,         *)
(* releases, abandons, settlements and returns.                            *)
Conserved == \A d \in Distributors : Balance(wallet[d]) = credited[d]

(* What the wallet has frozen, or took from the frozen to offset a         *)
(* settlement, beyond what the claims and grants record.                   *)
Gap(d) == (wallet[d].frozen + wallet[d].deducted)
              - SumFunction(ClaimHolds(d)) - SumFunction(GrantHolds(d))

(* A submit puts a decided claim back under review. *)
SubmittedOverDecision ==
    \E c \in ClaimIds : /\ claims[c].status \in {"contract_pending", "completed"}
                        /\ claims'[c].status = "review_pending"

(* A contract brings back a grant that was given up. *)
GrantReturns ==
    \E g \in GrantIds : grants[g].status = "revoked" /\ grants'[g].status = "active"

(* An abandon is approved of a grant that changed since it was asked for. *)
StaleAbandon ==
    \E a \in AbandonIds : /\ abandons[a].status = "pending" /\ ~AsRead(a)
                          /\ abandons'[a].status = "approved"

(* The wallet and the claim tables, written by different handlers, drift   *)
(* apart in no step but the four the code does not guard: a late submit, a *)
(* contract over an abandoned grant, an abandon on a stale read, and the   *)
(* deletion of a drama, which keeps the deposits of its claims frozen.     *)
HoldingsMatch ==
    [][\A d \in Distributors : Gap(d)' # Gap(d) =>
           \/ SubmittedOverDecision \/ GrantReturns \/ StaleAbandon
           \/ deleted' # deleted]_vars

LateBy(c, marks) == \E m \in marks : <<c, m>> \in late

(* A claim's deposit is frozen at most once, and the releases of it, by    *)
(* rejection or by the abandons of its grants, however they cross, add up  *)
(* to no more than was frozen, except for a claim that a late submit, a    *)
(* contract over an abandoned grant or a stale abandon wrote to.           *)
ReleasedOnce ==
    \A c \in ClaimIds :
        /\ entries[c].unfreeze <= entries[c].freeze /\ entries[c].freeze <= 1
        /\ entries[c].kept < 0 => LateBy(c, {"submit", "contract", "abandon"})

(* What is deducted from deposits never exceeds what the settlements say   *)
(* they offset, so no cycle takes its share of the deposit twice.          *)
NeverOverDeducted ==
    \A d \in Distributors :
        wallet[d].deducted <= SumFunction([k \in Cycles |-> settlements[<<d, k>>].deducted])

(* Rights that stand: claims on their way without a grant yet, and grants. *)
ClaimsPlatform(d, dr, p) ==
    \/ \E g \in GrantIds : /\ LiveGrant(g) /\ grants[g].by = d
                           /\ grants[g].drama = dr /\ p \in grants[g].platforms
    \/ \E c \in ClaimIds : /\ LiveClaim(c) /\ claims[c].by = d
                           /\ claims[c].drama = dr /\ p \in claims[c].platforms

(* No platform of a drama is claimed or published on by two distributors   *)
(* (publisherCreateClaim's check, getOccupiedPlatforms).                   *)
PlatformsExclusive ==
    \A dr \in Dramas, p \in Platforms, d, e \in Distributors :
        ClaimsPlatform(d, dr, p) /\ ClaimsPlatform(e, dr, p) => d = e

RightsOf(row) == {row.by} \X {row.drama} \X row.platforms

(* The rights that stand through claim c *)
RightsThrough(c) ==
    UNION ({RightsOf(grants[g]) : g \in {x \in GrantIds : LiveGrant(x) /\ grants[x].claim = c}}
      \cup {RightsOf(claims[x]) : x \in {y \in {c} : LiveClaim(y)}})

InTime == {c \in ClaimIds : ~LateBy(c, {"insert", "submit"})}

(* Two distributors stand on one platform of a drama only where one of     *)
(* their claims was inserted after another had overtaken its check, or was *)
(* submitted over a decision, however requests, decisions, contracts,      *)
(* abandons and deletions cross.                                           *)
ExclusiveUnlessLate ==
    \A c, x \in InTime : \A r \in RightsThrough(c), s \in RightsThrough(x) :
        r[2] = s[2] /\ r[3] = s[3] => r[1] = s[1]

StandingRights == UNION {RightsThrough(c) : c \in InTime}

(* Deposits implements the registry of rights. *)
Registry == INSTANCE Registry WITH held <- StandingRights

(* However requests, payments, approvals, contracts and abandons cross, a  *)
(* claim in time takes its platforms all at once and only free ones, an    *)
(* abandon or a rejection gives up its own, and nothing changes hands in   *)
(* one step.                                                               *)
ImplementsRegistry == Registry!RegistrySpec

(* Nothing is frozen that was not paid in: the only way the available      *)
(* balance can fall below zero is an approved abandon whose refund is      *)
(* negative, which calcAbandonRefund computes for further claims.          *)
OverdrawnByRefundOnly ==
    \A d \in Distributors : wallet[d].available < 0 =>
        \E a \in AbandonIds : /\ abandons[a].status = "approved" /\ abandons[a].by = d
                              /\ abandons[a].refund < 0

(* No column of an account is drawn on for more than its rows say          *)
(* (publisher_claim.go, admin_distributor.go, publisher_abandon.go).       *)
DeductionsCovered == NeverOverDeducted /\ OverdrawnByRefundOnly

=============================================================================
