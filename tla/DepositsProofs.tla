--------------------------- MODULE DepositsProofs ---------------------------
(***************************************************************************)
(* Safety of the deposit accounts, of the recharges that feed them and of  *)
(* the import of income, for every set of distributors, dramas, platforms, *)
(* creators, sheets and rows, every amount and every bound.                *)
(***************************************************************************)
EXTENDS Deposits, Recharges, Income, Sums

-----------------------------------------------------------------------------
(* The amounts the code computes are of the type their columns have. *)

LEMMA CentsDivision == \A x \in Nat : x \div 10000 \in Nat
OBVIOUS

LEMMA ClaimAmountIsNat ==
    ASSUME NEW b \in Nat, NEW n \in Nat
    PROVE  calcDepositAmount(b, n) \in Nat
<1>1. 10000 + 1500 * (n - 1) \in Nat
  OBVIOUS
<1>2. b * (10000 + 1500 * (n - 1)) \in Nat
  BY <1>1
<1>3. QED
  BY <1>2, CentsDivision DEF calcDepositAmount, RateBP

LEMMA AppendAmountIsNat ==
    ASSUME NEW b \in Nat, NEW n \in Nat
    PROVE  calcAppendDepositAmount(b, n) \in Nat
<1>1. b * 1500 * n \in Nat
  OBVIOUS
<1>2. QED
  BY <1>1, CentsDivision DEF calcAppendDepositAmount, RateBP

LEMMA RefundIsInt ==
    ASSUME NEW x \in Int, NEW b \in Nat, NEW n \in Nat, NEW k \in Nat
    PROVE  calcAbandonRefund(x, b, n, k) \in Int
<1>1. n - k > 0 => calcDepositAmount(b, n - k) \in Nat
  BY ClaimAmountIsNat
<1>2. QED
  BY <1>1 DEF calcAbandonRefund

(* Numbers of platforms *)
LEMMA PlatformCount ==
    ASSUME NEW P \in SUBSET Platforms
    PROVE  Cardinality(P) \in Nat
BY DepositAssumption, FS_Subset, FS_CardinalityType

-----------------------------------------------------------------------------
(* The movements of a wallet: their type and their balance. *)

LEMMA RechargeMove ==
    ASSUME NEW w \in Wallet, NEW a \in Nat
    PROVE  Recharge(w, a) \in Wallet /\ Balance(Recharge(w, a)) = Balance(w) + a
BY DEF Wallet, Recharge, Account, Balance

LEMMA FreezeMove ==
    ASSUME NEW w \in Wallet, NEW a \in Nat
    PROVE  Freeze(w, a) \in Wallet /\ Balance(Freeze(w, a)) = Balance(w)
BY DEF Wallet, Freeze, Account, Balance

LEMMA UnfreezeMove ==
    ASSUME NEW w \in Wallet, NEW a \in Int, w.frozen >= a
    PROVE  Unfreeze(w, a) \in Wallet /\ Balance(Unfreeze(w, a)) = Balance(w)
BY DEF Wallet, Unfreeze, Account, Balance

LEMMA DeductMove ==
    ASSUME NEW w \in Wallet, NEW a \in Nat, w.frozen >= a
    PROVE  Deduct(w, a) \in Wallet /\ Balance(Deduct(w, a)) = Balance(w)
BY DEF Wallet, Deduct, Account, Balance

LEMMA RestoreMove ==
    ASSUME NEW w \in Wallet, NEW a \in Nat, w.deducted >= a
    PROVE  Restore(w, a) \in Wallet /\ Balance(Restore(w, a)) = Balance(w)
BY DEF Wallet, Restore, Account, Balance

-----------------------------------------------------------------------------
(* The invariant.  A row that exists names its distributor and its drama,  *)
(* and a submit in flight was of a claim whose deposit had been frozen.    *)

ClaimInv ==
    \A c \in ClaimIds :
        /\ claims[c].status \notin {"none", "deleted"}
             => claims[c].by \in Distributors /\ claims[c].drama \in Dramas
        /\ claims[c].status \in {"none", "requested", "deposit_pending"}
             => submitting[c] = 0

(* A grant is of a claim that was approved, for some of its platforms. *)
Granted == {"review_pending", "contract_pending", "completed", "rejected"}

GrantInv ==
    \A g \in GrantIds :
        /\ LiveGrant(g) => grants[g].claim # None
        /\ grants[g].claim # None =>
             /\ grants[g].status \in {"authorized", "active", "revoked"}
             /\ grants[g].by \in Distributors /\ grants[g].drama \in Dramas
             /\ claims[grants[g].claim].status \in Granted
             /\ grants[g].by = claims[grants[g].claim].by
             /\ grants[g].drama = claims[grants[g].claim].drama
             /\ grants[g].platforms \subseteq claims[grants[g].claim].platforms

(* What a request refunds goes by what it read; its grant stays its        *)
(* distributor's and its drama's.                                          *)
RefundAsRead(a) ==
    calcAbandonRefund(abandons[a].deposit, Base[abandons[a].drama],
                      Cardinality(abandons[a].original), Cardinality(abandons[a].platforms))

AbandonInv ==
    \A a \in AbandonIds :
        abandons[a].status # "none" =>
            /\ abandons[a].grant \in GrantIds /\ abandons[a].by \in Distributors
            /\ abandons[a].drama \in Dramas /\ abandons[a].platforms \subseteq abandons[a].original
            /\ abandons[a].refund = RefundAsRead(a)
            /\ grants[abandons[a].grant].status # "none"
            /\ grants[abandons[a].grant].claim # None =>
                 /\ grants[abandons[a].grant].by = abandons[a].by
                 /\ grants[abandons[a].grant].drama = abandons[a].drama

(* A paid deposit has its one freeze entry and no release; before it is    *)
(* paid there is neither; the rejection releases it.                       *)
EntryInv ==
    \A c \in ClaimIds :
        /\ claims[c].status \in {"none", "requested", "deposit_pending"}
             => /\ claims[c].paid = "unpaid"
                /\ entries[c].freeze = 0 /\ entries[c].unfreeze = 0 /\ entries[c].kept = 0
        /\ claims[c].paid = "paid" => entries[c].freeze = 1 /\ entries[c].unfreeze = 0
        /\ claims[c].status = "rejected" => claims[c].paid = "released"
        /\ entries[c].unfreeze <= entries[c].freeze /\ entries[c].freeze <= 1

Inv == TypeOK /\ ClaimInv /\ GrantInv /\ AbandonInv /\ EntryInv /\ Conserved

LEMMA InitInv == Init => Inv
<1> SUFFICES ASSUME Init PROVE Inv
  OBVIOUS
<1> PICK d0 \in Distributors, dr0 \in Dramas, P0 \in SUBSET Platforms \ {{}}, L0 \in SUBSET Legacy :
      claims = [c \in ClaimIds |-> IF c \in L0 THEN LegacyClaim(d0, dr0, P0)
                                   ELSE NoClaim]
  BY DEF Init
<1>1. calcDepositAmount(Base[dr0], Cardinality(P0)) \in Nat
  BY ClaimAmountIsNat, PlatformCount, DepositAssumption
<1>2. /\ LegacyClaim(d0, dr0, P0) \in Claim
      /\ LegacyClaim(d0, dr0, P0).status = "deposit_pending"
      /\ LegacyClaim(d0, dr0, P0).by = d0 /\ LegacyClaim(d0, dr0, P0).drama = dr0
      /\ LegacyClaim(d0, dr0, P0).paid = "unpaid"
  BY <1>1 DEF LegacyClaim, NoClaim, Claim, ClaimStatuses
<1>3. NoClaim \in Claim /\ NoClaim.status = "none" /\ NoClaim.paid = "unpaid"
  BY DEF NoClaim, Claim, ClaimStatuses
<1>4. NoGrant \in Grant /\ NoAbandon \in Abandon /\ NoSettlement \in Settlement
  BY DEF NoGrant, Grant, NoAbandon, Abandon, NoSettlement, Settlement
<1>5. EmptyWallet \in Wallet /\ Balance(EmptyWallet) = 0
  BY DEF EmptyWallet, Wallet, Balance
<1> HIDE DEF LegacyClaim
<1>6. TypeOK
  BY <1>2, <1>3, <1>4, <1>5 DEF Init, TypeOK, Entries, Booked
<1>7. ClaimInv
  BY <1>2, <1>3 DEF Init, ClaimInv
<1>8. GrantInv /\ AbandonInv
  BY DEF Init, GrantInv, AbandonInv, LiveGrant, NoGrant, NoAbandon
<1>9. EntryInv
  BY <1>2, <1>3 DEF Init, EntryInv, Booked
<1>10. Conserved
  BY <1>5 DEF Init, Conserved
<1>11. QED
  BY <1>6, <1>7, <1>8, <1>9, <1>10 DEF Inv

-----------------------------------------------------------------------------
(* Steps.  First the two ways in which a step touches a wallet. *)

LEMMA WalletMove ==
    ASSUME TypeOK, Conserved, NEW d \in Distributors, NEW X \in Wallet,
           Balance(X) = Balance(wallet[d]),
           wallet' = [wallet EXCEPT ![d] = X], credited' = credited
    PROVE  wallet' \in [Distributors -> Wallet] /\ Conserved'
<1>1. wallet' \in [Distributors -> Wallet]
  BY DEF TypeOK
<1>2. ASSUME NEW e \in Distributors PROVE Balance(wallet'[e]) = credited'[e]
  <2>1. CASE e = d
    BY <2>1 DEF TypeOK, Conserved
  <2>2. CASE e # d
    BY <2>2 DEF TypeOK, Conserved
  <2>3. QED
    BY <2>1, <2>2
<1>3. Conserved'
  BY <1>2 DEF Conserved, Balance
<1>4. QED
  BY <1>1, <1>3

(* A claim's entries change in one row. *)
LEMMA EntriesChange ==
    ASSUME TypeOK, NEW c \in ClaimIds, NEW new \in Entries, entries' = [entries EXCEPT ![c] = new]
    PROVE  /\ entries' \in [ClaimIds -> Entries] /\ entries'[c] = new
           /\ \A x \in ClaimIds : x # c => entries'[x] = entries[x]
BY DEF TypeOK

LEMMA EntryBooked ==
    ASSUME NEW e \in Entries, NEW d \in Int
    PROVE  /\ Frozen(e, d) \in Entries /\ Frozen(e, d).freeze = e.freeze + 1
           /\ Frozen(e, d).unfreeze = e.unfreeze /\ Frozen(e, d).kept = e.kept + d
           /\ Released(e, d) \in Entries /\ Released(e, d).freeze = e.freeze
           /\ Released(e, d).unfreeze = e.unfreeze + 1 /\ Released(e, d).kept = e.kept - d
           /\ Refunded(e, d) \in Entries /\ Refunded(e, d).freeze = e.freeze
           /\ Refunded(e, d).unfreeze = e.unfreeze /\ Refunded(e, d).kept = e.kept - d
BY DEF Entries, Frozen, Released, Refunded, Booked

LEMMA FreezeForMove ==
    ASSUME Inv, NEW c \in ClaimIds, claims[c].by \in Distributors,
           FreezeFor(c), credited' = credited
    PROVE  /\ wallet' \in [Distributors -> Wallet] /\ Conserved'
           /\ entries' = [entries EXCEPT ![c] = Frozen(@, claims[c].deposit)]
           /\ entries' \in [ClaimIds -> Entries]
           /\ entries'[c].freeze = entries[c].freeze + 1 /\ entries'[c].unfreeze = entries[c].unfreeze
           /\ entries'[c].kept = entries[c].kept + claims[c].deposit
           /\ \A x \in ClaimIds : x # c => entries'[x] = entries[x]
<1> DEFINE d == claims[c].by
           X == Freeze(wallet[d], claims[c].deposit)
<1>1. wallet[d] \in Wallet /\ claims[c].deposit \in Nat
  BY DEF Inv, TypeOK, Claim
<1>2. X \in Wallet /\ Balance(X) = Balance(wallet[d])
  BY <1>1, FreezeMove
<1>3. /\ wallet' = [wallet EXCEPT ![d] = X]
      /\ entries' = [entries EXCEPT ![c] = Frozen(@, claims[c].deposit)]
  BY DEF FreezeFor
<1>4. /\ entries' \in [ClaimIds -> Entries]
      /\ entries'[c].freeze = entries[c].freeze + 1 /\ entries'[c].unfreeze = entries[c].unfreeze
      /\ entries'[c].kept = entries[c].kept + claims[c].deposit
      /\ \A x \in ClaimIds : x # c => entries'[x] = entries[x]
  <2> DEFINE cents == claims[c].deposit
             new == Frozen(entries[c], cents)
  <2>1. entries[c] \in Entries /\ cents \in Int
    BY <1>1 DEF Inv, TypeOK
  <2> HIDE DEF X, d, cents
  <2>2. /\ new \in Entries /\ new.freeze = entries[c].freeze + 1 /\ new.unfreeze = entries[c].unfreeze
        /\ new.kept = entries[c].kept + cents
    BY <2>1, EntryBooked
  <2> USE DEF cents
  <2>3. entries' = [entries EXCEPT ![c] = new]
    BY <1>3
  <2> HIDE DEF new
  <2>. QED BY <2>2, <2>3, EntriesChange DEF Inv
<1> HIDE DEF X
<1>5. QED
  BY <1>2, <1>3, <1>4, WalletMove DEF Inv

LEMMA ReleaseMove ==
    ASSUME Inv, NEW d \in Distributors, NEW a \in Int, Holds(d, a),
           wallet' = [wallet EXCEPT ![d] = Unfreeze(@, a)], credited' = credited
    PROVE  wallet' \in [Distributors -> Wallet] /\ Conserved'
<1> DEFINE X == Unfreeze(wallet[d], a)
<1>1. wallet[d] \in Wallet /\ wallet[d].frozen >= a
  BY DEF Inv, TypeOK, Holds
<1>2. X \in Wallet /\ Balance(X) = Balance(wallet[d])
  BY <1>1, UnfreezeMove
<1>3. wallet' = [wallet EXCEPT ![d] = X]
  OBVIOUS
<1> HIDE DEF X
<1>4. QED
  BY <1>2, <1>3, WalletMove DEF Inv

LEMMA CreditStep ==
    ASSUME Inv, NEW d \in Distributors, NEW amount \in Amounts, Credit(d, amount)
    PROVE  Inv'
<1> DEFINE X == Recharge(wallet[d], amount)
<1>1. amount \in Nat /\ wallet[d] \in Wallet /\ credited[d] \in Nat
  BY DepositAssumption DEF Inv, TypeOK
<1>2. X \in Wallet /\ Balance(X) = Balance(wallet[d]) + amount
  BY <1>1, RechargeMove
<1>3. /\ wallet' = [wallet EXCEPT ![d] = X]
      /\ credited' = [credited EXCEPT ![d] = credited[d] + amount]
  BY DEF Credit
<1> HIDE DEF X
<1>4. TypeOK'
  BY <1>1, <1>2, <1>3 DEF Inv, TypeOK, Credit
<1>5. ASSUME NEW e \in Distributors PROVE Balance(wallet'[e]) = credited'[e]
  <2>1. CASE e = d
    BY <1>2, <1>3, <2>1 DEF Inv, TypeOK, Conserved
  <2>2. CASE e # d
    BY <1>3, <2>2 DEF Inv, TypeOK, Conserved
  <2>3. QED
    BY <2>1, <2>2
<1>6. Conserved'
  BY <1>5 DEF Conserved, Balance
<1>7. ClaimInv' /\ GrantInv' /\ AbandonInv' /\ EntryInv'
  BY DEF Inv, Credit, ClaimInv, GrantInv, AbandonInv, RefundAsRead, EntryInv, LiveGrant
<1>8. QED
  BY <1>4, <1>6, <1>7 DEF Inv

(* Steps that leave the wallets alone keep their conservation. *)
LEMMA MoneyKept ==
    ASSUME Conserved, wallet' = wallet, credited' = credited PROVE Conserved'
BY DEF Conserved, Balance

(* The grants follow a claim that stays what it is once it was approved. *)
LEMMA GrantsKept ==
    ASSUME Inv, UNCHANGED <<grants, abandons>>,
           \A c \in ClaimIds : claims[c].status \in Granted =>
               /\ claims'[c].status \in Granted /\ claims'[c].by = claims[c].by
               /\ claims'[c].drama = claims[c].drama /\ claims'[c].platforms = claims[c].platforms
    PROVE  GrantInv' /\ AbandonInv'
<1>1. AbandonInv'
  BY DEF Inv, AbandonInv, RefundAsRead
<1>2. \A g \in GrantIds : grants[g].claim # None => grants[g].claim \in ClaimIds
  BY DEF Inv, TypeOK, Grant
<1>. QED BY <1>1, <1>2 DEF Inv, GrantInv, LiveGrant

(* A step that moves a claim on changes its status and perhaps paid. *)
ClaimMoved(c, s, p) ==
    /\ claims' \in [ClaimIds -> Claim]
    /\ \A x \in ClaimIds : /\ claims'[x].by = claims[x].by
                           /\ claims'[x].drama = claims[x].drama
                           /\ claims'[x].platforms = claims[x].platforms
                           /\ claims'[x].deposit = claims[x].deposit
                           /\ x # c => claims'[x] = claims[x]
    /\ claims'[c].status = s /\ claims'[c].paid = p

LEMMA StatusAndPaid ==
    ASSUME TypeOK, NEW c \in ClaimIds, NEW s \in ClaimStatuses,
           NEW p \in {"unpaid", "paid", "released"},
           claims' = [claims EXCEPT ![c].status = s, ![c].paid = p]
    PROVE  ClaimMoved(c, s, p)
<1> DEFINE new == [claims[c] EXCEPT !.status = s, !.paid = p]
<1>1. claims[c] \in Claim
  BY DEF TypeOK
<1>2. /\ new \in Claim /\ new.status = s /\ new.paid = p
      /\ new.by = claims[c].by /\ new.drama = claims[c].drama
      /\ new.platforms = claims[c].platforms /\ new.deposit = claims[c].deposit
  BY <1>1 DEF Claim
<1>3. claims' = [claims EXCEPT ![c] = new]
  BY DEF TypeOK
<1> HIDE DEF new
<1>4. QED
  BY <1>2, <1>3 DEF ClaimMoved, TypeOK

LEMMA StatusOnly ==
    ASSUME TypeOK, NEW c \in ClaimIds, NEW s \in ClaimStatuses,
           claims' = [claims EXCEPT ![c].status = s]
    PROVE  ClaimMoved(c, s, claims[c].paid)
<1> DEFINE new == [claims[c] EXCEPT !.status = s]
<1>1. claims[c] \in Claim
  BY DEF TypeOK
<1>2. /\ new \in Claim /\ new.status = s /\ new.paid = claims[c].paid
      /\ new.by = claims[c].by /\ new.drama = claims[c].drama
      /\ new.platforms = claims[c].platforms /\ new.deposit = claims[c].deposit
  BY <1>1 DEF Claim
<1>3. claims' = [claims EXCEPT ![c] = new]
  BY DEF TypeOK
<1> HIDE DEF new
<1>4. QED
  BY <1>2, <1>3 DEF ClaimMoved, TypeOK

LEMMA RequestClaimStep ==
    ASSUME Inv, NEW c \in ClaimIds, NEW d \in Distributors, NEW dr \in Dramas,
           NEW P \in SUBSET Platforms, RequestClaim(c, d, dr, P)
    PROVE  Inv'
<1> DEFINE n == Cardinality(P)
           amount == IF HasExisting(d, dr) THEN calcAppendDepositAmount(Base[dr], n)
                     ELSE calcDepositAmount(Base[dr], n)
           new == [status |-> "requested", by |-> d, drama |-> dr, platforms |-> P,
                   deposit |-> amount, paid |-> "unpaid"]
<1>1. amount \in Nat
  BY PlatformCount, ClaimAmountIsNat, AppendAmountIsNat, DepositAssumption
<1>2. claims[c].status = "none" /\ claims' = [claims EXCEPT ![c] = new]
  BY DEF RequestClaim
<1> HIDE DEF amount
<1>3. /\ new \in Claim /\ new.status = "requested" /\ new.by = d /\ new.drama = dr
      /\ new.paid = "unpaid"
  BY <1>1 DEF Claim, ClaimStatuses
<1> HIDE DEF new
<1>4. UNCHANGED <<wallet, credited, entries, grants, abandons, settlements, submitting, deleted, late>>
  BY DEF RequestClaim, money
<1>5. TypeOK'
  BY <1>2, <1>3, <1>4 DEF Inv, TypeOK
<1>6. ClaimInv'
  BY <1>2, <1>3, <1>4 DEF Inv, TypeOK, ClaimInv
<1>7. GrantInv' /\ AbandonInv'
  BY <1>2, <1>4, GrantsKept DEF Granted, Inv, TypeOK
<1>8. EntryInv'
  BY <1>2, <1>3, <1>4 DEF Inv, TypeOK, EntryInv
<1>9. QED
  BY <1>4, <1>5, <1>6, <1>7, <1>8, MoneyKept DEF Inv

LEMMA CreateClaimStep ==
    ASSUME Inv, NEW c \in ClaimIds, publisherCreateClaim(c)
    PROVE  Inv'
<1>1. /\ claims[c].status = "requested" /\ FreezeFor(c)
      /\ claims' = [claims EXCEPT ![c].status = "review_pending", ![c].paid = "paid"]
      /\ UNCHANGED <<credited, grants, abandons, settlements, submitting, deleted>>
  BY DEF publisherCreateClaim
<1>2. claims[c].by \in Distributors
  BY <1>1 DEF Inv, ClaimInv
<1>3. /\ wallet' \in [Distributors -> Wallet] /\ Conserved'
      /\ entries' \in [ClaimIds -> Entries]
      /\ entries'[c].freeze = entries[c].freeze + 1 /\ entries'[c].unfreeze = entries[c].unfreeze
      /\ \A x \in ClaimIds : x # c => entries'[x] = entries[x]
  BY <1>1, <1>2, FreezeForMove
<1>4. ClaimMoved(c, "review_pending", "paid")
  BY <1>1, StatusAndPaid DEF Inv, ClaimStatuses
<1>0. late' \subseteq ClaimIds \X Marks
  BY DEF publisherCreateClaim, Overtaken, Marks, Inv, TypeOK
<1>5. TypeOK'
  BY <1>0, <1>1, <1>3, <1>4 DEF Inv, TypeOK, ClaimMoved
<1>6. ClaimInv'
  BY <1>1, <1>4 DEF Inv, ClaimInv, ClaimMoved
<1>7. GrantInv' /\ AbandonInv'
  BY <1>1, <1>4, GrantsKept DEF Granted, ClaimMoved
<1>8. EntryInv'
  BY <1>1, <1>3, <1>4 DEF Inv, TypeOK, Entries, EntryInv, ClaimMoved
<1>9. QED
  BY <1>3, <1>5, <1>6, <1>7, <1>8 DEF Inv

LEMMA FailClaimStep ==
    ASSUME Inv, NEW c \in ClaimIds, FailClaim(c)
    PROVE  Inv'
<1>1. NoClaim \in Claim /\ NoClaim.status = "none" /\ NoClaim.paid = "unpaid"
  BY DEF NoClaim, Claim, ClaimStatuses
<1>2. /\ claims[c].status = "requested"
      /\ claims' = [claims EXCEPT ![c] = NoClaim]
      /\ UNCHANGED <<wallet, credited, entries, grants, abandons, settlements, submitting, deleted>>
  BY DEF FailClaim, money
<1>0. late' \subseteq ClaimIds \X Marks
  BY DEF FailClaim, Inv, TypeOK
<1>3. TypeOK'
  BY <1>0, <1>1, <1>2 DEF Inv, TypeOK
<1>4. ClaimInv'
  BY <1>1, <1>2 DEF Inv, TypeOK, ClaimInv
<1>7. GrantInv' /\ AbandonInv'
  BY <1>2, GrantsKept DEF Granted, Inv, TypeOK
<1>5. EntryInv'
  BY <1>1, <1>2 DEF Inv, TypeOK, EntryInv
<1>6. QED
  BY <1>2, <1>3, <1>4, <1>5, <1>7, MoneyKept DEF Inv

LEMMA PayDepositStep ==
    ASSUME Inv, NEW c \in ClaimIds, publisherPayDeposit(c)
    PROVE  Inv'
<1>1. /\ claims[c].status = "deposit_pending" /\ FreezeFor(c)
      /\ claims' = [claims EXCEPT ![c].status = "authorization_pending", ![c].paid = "paid"]
      /\ UNCHANGED <<credited, grants, abandons, settlements, submitting, deleted, late>>
  BY DEF publisherPayDeposit
<1>2. claims[c].by \in Distributors
  BY <1>1 DEF Inv, ClaimInv
<1>3. /\ wallet' \in [Distributors -> Wallet] /\ Conserved'
      /\ entries' \in [ClaimIds -> Entries]
      /\ entries'[c].freeze = entries[c].freeze + 1 /\ entries'[c].unfreeze = entries[c].unfreeze
      /\ \A x \in ClaimIds : x # c => entries'[x] = entries[x]
  BY <1>1, <1>2, FreezeForMove
<1>4. ClaimMoved(c, "authorization_pending", "paid")
  BY <1>1, StatusAndPaid DEF Inv, ClaimStatuses
<1>5. TypeOK'
  BY <1>1, <1>3, <1>4 DEF Inv, TypeOK, ClaimMoved
<1>6. ClaimInv'
  BY <1>1, <1>4 DEF Inv, ClaimInv, ClaimMoved
<1>7. GrantInv' /\ AbandonInv'
  BY <1>1, <1>4, GrantsKept DEF Granted, ClaimMoved
<1>8. EntryInv'
  BY <1>1, <1>3, <1>4 DEF Inv, TypeOK, Entries, EntryInv, ClaimMoved
<1>9. QED
  BY <1>3, <1>5, <1>6, <1>7, <1>8 DEF Inv

LEMMA SubmitStep ==
    ASSUME Inv, NEW c \in ClaimIds, ReadSubmit(c) \/ publisherSubmitClaim(c)
    PROVE  Inv'
<1>1. UNCHANGED <<wallet, credited, entries, grants, abandons, settlements, deleted>>
  BY DEF ReadSubmit, publisherSubmitClaim, money
<1>0. late' \subseteq ClaimIds \X Marks
  BY DEF ReadSubmit, publisherSubmitClaim, Marks, Inv, TypeOK
<1>2. CASE ReadSubmit(c)
  <2>1. /\ claims[c].status = "authorization_pending" /\ claims' = claims
        /\ submitting' = [submitting EXCEPT ![c] = @ + 1]
    BY <1>2 DEF ReadSubmit
  <2>2. TypeOK'
    BY <1>0, <1>1, <2>1 DEF Inv, TypeOK
  <2>3. ClaimInv' /\ EntryInv'
    BY <1>1, <2>1 DEF Inv, TypeOK, ClaimInv, EntryInv
  <2>5. GrantInv' /\ AbandonInv'
    BY <1>1, <2>1, GrantsKept
  <2>4. QED
    BY <1>1, <2>2, <2>3, <2>5, MoneyKept DEF Inv
<1>3. CASE publisherSubmitClaim(c)
  <2>1. /\ submitting[c] > 0 /\ submitting' = [submitting EXCEPT ![c] = @ - 1]
        /\ claims' = IF claims[c].status = "deleted" THEN claims
                     ELSE [claims EXCEPT ![c].status = "review_pending"]
    BY <1>3 DEF publisherSubmitClaim
  <2>2. claims[c].status \notin {"none", "requested", "deposit_pending"}
    BY <2>1 DEF Inv, TypeOK, ClaimInv
  <2>3. submitting' \in [ClaimIds -> Nat] /\ \A x \in ClaimIds : x # c => submitting'[x] = submitting[x]
    BY <2>1 DEF Inv, TypeOK
  <2>5. CASE claims[c].status = "deleted"
    <3>1. claims' = claims
      BY <2>1, <2>5
    <3>2. TypeOK' /\ ClaimInv' /\ EntryInv'
      BY <1>0, <1>1, <2>3, <2>5, <3>1 DEF Inv, TypeOK, ClaimInv, EntryInv
    <3>3. GrantInv' /\ AbandonInv'
      BY <1>1, <3>1, GrantsKept
    <3>4. QED
      BY <1>1, <3>2, <3>3, MoneyKept DEF Inv
  <2>6. CASE claims[c].status # "deleted"
    <3>1. ClaimMoved(c, "review_pending", claims[c].paid)
      BY <2>1, <2>6, StatusOnly DEF Inv, ClaimStatuses
    <3>2. TypeOK'
      BY <1>0, <1>1, <2>3, <3>1 DEF Inv, TypeOK, ClaimMoved
    <3>3. ClaimInv'
      BY <2>2, <2>3, <2>6, <3>1 DEF Inv, ClaimInv, ClaimMoved
    <3>4. EntryInv'
      BY <1>1, <2>2, <3>1 DEF Inv, EntryInv, ClaimMoved
    <3>6. GrantInv' /\ AbandonInv'
      BY <1>1, <3>1, GrantsKept DEF Granted, ClaimMoved
    <3>5. QED
      BY <1>1, <3>6, <3>2, <3>3, <3>4, MoneyKept DEF Inv
  <2>7. QED
    BY <2>5, <2>6
<1>4. QED
  BY <1>2, <1>3

LEMMA ApproveClaimStep ==
    ASSUME Inv, NEW c \in ClaimIds, NEW g \in GrantIds, adminApproveClaim(c, g)
    PROVE  Inv'
<1> DEFINE new == [status |-> "authorized", claim |-> c, by |-> claims[c].by,
                   drama |-> claims[c].drama, platforms |-> claims[c].platforms,
                   deposit |-> claims[c].deposit]
<1>1. /\ claims[c].status = "review_pending" /\ claims[c].paid = "paid"
      /\ claims' = [claims EXCEPT ![c].status = "contract_pending"]
      /\ grants' = [grants EXCEPT ![g] = new]
      /\ UNCHANGED <<credited, abandons, settlements, submitting, deleted, late>>
  BY DEF adminApproveClaim
<1>2. claims[c].by \in Distributors /\ claims[c].drama \in Dramas /\ claims[c] \in Claim
  BY <1>1 DEF Inv, TypeOK, ClaimInv
<1>3. entries[c].freeze = 1
  BY <1>1 DEF Inv, EntryInv
<1>4. UNCHANGED <<wallet, entries>>
  BY <1>3 DEF adminApproveClaim
<1>5. new \in Grant /\ new.by \in Distributors /\ new.drama \in Dramas
  BY <1>2 DEF Grant, Claim
<1>6. ClaimMoved(c, "contract_pending", "paid")
  BY <1>1, StatusOnly DEF Inv, ClaimStatuses
<1> HIDE DEF new
<1>7. TypeOK'
  BY <1>1, <1>4, <1>5, <1>6 DEF Inv, TypeOK, ClaimMoved
<1>8. ClaimInv'
  BY <1>1, <1>2, <1>6 DEF Inv, ClaimInv, ClaimMoved
<1>9. GrantInv' /\ AbandonInv'
  <2>1. /\ grants[g].status = "none" /\ grants \in [GrantIds -> Grant] /\ c # None
        /\ new.claim = c /\ new.status = "authorized"
    BY DepositAssumption DEF adminApproveClaim, Inv, TypeOK, new
  <2>2. AbandonInv'
    BY <1>1, <2>1 DEF Inv, AbandonInv, RefundAsRead
  <2>3. \A x \in GrantIds : grants[x].claim # None => grants[x].claim \in ClaimIds
    BY <2>1 DEF Grant
  <2>4. new.by = claims[c].by /\ new.drama = claims[c].drama /\ new.platforms = claims[c].platforms
    BY DEF new
  <2>5. GrantInv'
    BY <1>1, <1>5, <1>6, <2>1, <2>3, <2>4 DEF Inv, GrantInv, LiveGrant, ClaimMoved, Granted
  <2>. QED BY <2>2, <2>5
<1>10. EntryInv'
  BY <1>1, <1>4, <1>6 DEF Inv, EntryInv, ClaimMoved
<1>11. QED
  BY <1>1, <1>4, <1>7, <1>8, <1>9, <1>10, MoneyKept DEF Inv

LEMMA RejectClaimStep ==
    ASSUME Inv, NEW c \in ClaimIds, adminRejectClaim(c)
    PROVE  Inv'
<1> DEFINE d == claims[c].by
           released == claims[c].paid = "paid" /\ claims[c].deposit > 0
<1>1. /\ claims[c].status = "review_pending"
      /\ claims' = [claims EXCEPT ![c].status = "rejected", ![c].paid = "released"]
      /\ UNCHANGED <<credited, grants, abandons, settlements, submitting, deleted, late>>
  BY DEF adminRejectClaim
<1>2. d \in Distributors /\ claims[c].deposit \in Int
  BY <1>1 DEF Inv, TypeOK, ClaimInv, Claim
<1>3. ClaimMoved(c, "rejected", "released")
  BY <1>1, StatusAndPaid DEF Inv, ClaimStatuses
<1>4. wallet' \in [Distributors -> Wallet] /\ Conserved'
  <2>1. CASE released
    BY <1>1, <1>2, <2>1, ReleaseMove DEF adminRejectClaim
  <2>2. CASE ~released
    BY <1>1, <2>2, MoneyKept DEF adminRejectClaim, Inv, TypeOK
  <2>3. QED
    BY <2>1, <2>2
<1>5. /\ entries' \in [ClaimIds -> Entries]
      /\ \A x \in ClaimIds : x # c => entries'[x] = entries[x]
      /\ entries'[c].unfreeze <= entries'[c].freeze /\ entries'[c].freeze <= 1
  <2>1. CASE released
    <3> DEFINE new == Released(entries[c], claims[c].deposit)
    <3>0. entries' = [entries EXCEPT ![c] = new]
      BY <2>1 DEF adminRejectClaim
    <3>1. /\ new \in Entries /\ new.freeze = entries[c].freeze
          /\ new.unfreeze = entries[c].unfreeze + 1
      BY <1>2, EntryBooked DEF Inv, TypeOK
    <3>2. entries[c].freeze = 1 /\ entries[c].unfreeze = 0
      BY <2>1 DEF Inv, EntryInv
    <3>3. entries[c] \in Entries
      BY DEF Inv, TypeOK
    <3> HIDE DEF new, released, d
    <3>4. /\ entries' \in [ClaimIds -> Entries] /\ entries'[c] = new
          /\ \A x \in ClaimIds : x # c => entries'[x] = entries[x]
      BY <3>0, <3>1, EntriesChange DEF Inv
    <3>5. QED
      BY <3>1, <3>2, <3>4
  <2>2. CASE ~released
    BY <2>2 DEF adminRejectClaim, Inv, TypeOK, EntryInv
  <2>3. QED
    BY <2>1, <2>2
<1>6. TypeOK'
  BY <1>1, <1>3, <1>4, <1>5 DEF Inv, TypeOK, ClaimMoved
<1>7. ClaimInv'
  BY <1>1, <1>3 DEF Inv, ClaimInv, ClaimMoved
<1>8. GrantInv' /\ AbandonInv'
  BY <1>1, <1>3, GrantsKept DEF Granted, ClaimMoved
<1>9. EntryInv'
  BY <1>3, <1>5 DEF Inv, EntryInv, ClaimMoved
<1>10. QED
  BY <1>4, <1>6, <1>7, <1>8, <1>9 DEF Inv

LEMMA UploadContractStep ==
    ASSUME Inv, NEW c \in ClaimIds, adminUploadContract(c)
    PROVE  Inv'
<1>1. /\ claims[c].status = "contract_pending"
      /\ claims' = [claims EXCEPT ![c].status = "completed"]
      /\ grants' = [g \in GrantIds |-> IF grants[g].claim = c
                       THEN [grants[g] EXCEPT !.status = "active"] ELSE grants[g]]
      /\ UNCHANGED <<wallet, credited, entries, abandons, settlements, submitting, deleted>>
  BY DEF adminUploadContract, money
<1>2. ClaimMoved(c, "completed", claims[c].paid)
  BY <1>1, StatusOnly DEF Inv, ClaimStatuses
<1>3. c # None
  BY DepositAssumption
<1>4. ASSUME NEW g \in GrantIds
      PROVE  /\ grants'[g] \in Grant /\ grants'[g].claim = grants[g].claim
             /\ grants'[g].by = grants[g].by /\ grants'[g].drama = grants[g].drama
             /\ grants'[g].platforms = grants[g].platforms
             /\ grants'[g].status = grants[g].status \/ (grants[g].claim = c /\ grants'[g].status = "active")
  <2>1. grants[g] \in Grant
    BY DEF Inv, TypeOK
  <2>2. CASE grants[g].claim = c
    BY <1>1, <1>3, <2>1, <2>2 DEF Grant
  <2>3. CASE grants[g].claim # c
    BY <1>1, <2>1, <2>3
  <2>4. QED
    BY <2>2, <2>3
<1>5. grants' \in [GrantIds -> Grant]
  BY <1>1, <1>4
<1>0. late' \subseteq ClaimIds \X Marks
  BY DEF adminUploadContract, Marks, Inv, TypeOK
<1>6. TypeOK'
  BY <1>0, <1>1, <1>2, <1>5 DEF Inv, TypeOK, ClaimMoved
<1>7. ClaimInv'
  BY <1>1, <1>2 DEF Inv, ClaimInv, ClaimMoved
<1>8. GrantInv'
  <2>1. \A g \in GrantIds : grants[g].claim # None => grants[g].claim \in ClaimIds
    BY DEF Inv, TypeOK, Grant
  <2>. QED BY <1>1, <1>2, <1>3, <1>4, <2>1 DEF Inv, GrantInv, LiveGrant, ClaimMoved, Granted
<1>9. AbandonInv'
  BY <1>1, <1>4 DEF Inv, AbandonInv, RefundAsRead
<1>10. EntryInv'
  BY <1>1, <1>2 DEF Inv, EntryInv, ClaimMoved
<1>11. QED
  BY <1>1, <1>6, <1>7, <1>8, <1>9, <1>10, MoneyKept DEF Inv

LEMMA DeleteDramaStep ==
    ASSUME Inv, NEW dr \in Dramas, adminDeleteDrama(dr)
    PROVE  Inv'
<1> DEFINE gone == [NoClaim EXCEPT !.status = "deleted"]
           revoked == [NoGrant EXCEPT !.status = "deleted"]
<1>1. gone \in Claim /\ gone.status = "deleted" /\ gone.paid = "unpaid"
  BY DEF NoClaim, Claim, ClaimStatuses
<1>2. revoked \in Grant /\ revoked.status = "deleted" /\ revoked.claim = None
  BY DEF NoGrant, Grant
<1>3. /\ deleted' = deleted \cup {dr}
      /\ claims' = [c \in ClaimIds |->
           IF claims[c].drama = dr /\ claims[c].status # "requested" THEN gone ELSE claims[c]]
      /\ grants' = [g \in GrantIds |-> IF grants[g].drama = dr THEN revoked ELSE grants[g]]
      /\ UNCHANGED <<wallet, credited, entries, abandons, settlements, submitting, late>>
  BY DEF adminDeleteDrama, money
<1> HIDE DEF gone, revoked
<1>4. TypeOK'
  BY <1>1, <1>2, <1>3 DEF Inv, TypeOK
<1>5. ClaimInv'
  BY <1>1, <1>3 DEF Inv, TypeOK, ClaimInv
<1>6. GrantInv' /\ AbandonInv'
  <2>1. \A g \in GrantIds : grants[g].claim # None => grants[g].claim \in ClaimIds
    BY DEF Inv, TypeOK, Grant
  <2>2. ASSUME NEW g \in GrantIds, grants'[g].claim # None
        PROVE  grants'[g] = grants[g] /\ claims'[grants[g].claim] = claims[grants[g].claim]
    BY <1>2, <1>3, <2>1, <2>2 DEF Inv, GrantInv
  <2>3. GrantInv'
    BY <1>2, <1>3, <2>2 DEF Inv, GrantInv, LiveGrant
  <2>4. AbandonInv'
    BY <1>2, <1>3 DEF Inv, AbandonInv, RefundAsRead
  <2>. QED BY <2>3, <2>4
<1>7. EntryInv'
  BY <1>1, <1>3 DEF Inv, TypeOK, EntryInv
<1>8. QED
  BY <1>3, <1>4, <1>5, <1>6, <1>7, MoneyKept DEF Inv

SoundAbandon(x) ==
    /\ x.grant \in GrantIds /\ x.by \in Distributors
    /\ x.drama \in Dramas /\ x.platforms \subseteq x.original
    /\ x.refund = calcAbandonRefund(x.deposit, Base[x.drama], Cardinality(x.original),
                                    Cardinality(x.platforms))
    /\ grants[x.grant].status # "none"
    /\ grants[x.grant].claim # None =>
         grants[x.grant].by = x.by /\ grants[x.grant].drama = x.drama

(* A step of an abandon that touches nothing else. *)
LEMMA AbandonOnly ==
    ASSUME Inv, NEW a \in AbandonIds, NEW new \in Abandon,
           new.status # "none" => SoundAbandon(new),
           abandons' = [abandons EXCEPT ![a] = new],
           UNCHANGED <<wallet, credited, entries, claims, grants, settlements,
                       submitting, deleted, late>>
    PROVE  Inv'
<1>1. TypeOK'
  BY DEF Inv, TypeOK
<1>4. AbandonInv'
  BY DEF Inv, TypeOK, AbandonInv, RefundAsRead, SoundAbandon
<1>2. ClaimInv' /\ GrantInv' /\ EntryInv'
  BY DEF Inv, ClaimInv, GrantInv, EntryInv, LiveGrant
<1>3. QED
  BY <1>1, <1>2, <1>4, MoneyKept DEF Inv

(* A request that moves on changes its status. *)
LEMMA AbandonMoved ==
    ASSUME Inv, NEW a \in AbandonIds, abandons[a].status # "none",
           NEW s \in {"pending", "approved", "rejected"}
    PROVE  LET new == [abandons[a] EXCEPT !.status = s]
           IN  /\ new \in Abandon /\ new.grant \in GrantIds /\ new.by \in Distributors
               /\ SoundAbandon(new)
               /\ [abandons EXCEPT ![a].status = s] = [abandons EXCEPT ![a] = new]
<1>1. /\ abandons[a] \in Abandon
      /\ abandons[a].grant \in GrantIds /\ abandons[a].by \in Distributors
  BY DEF Inv, TypeOK, AbandonInv
<1> DEFINE new == [abandons[a] EXCEPT !.status = s]
<1>2. /\ new \in Abandon /\ new.grant = abandons[a].grant /\ new.by = abandons[a].by
      /\ new.drama = abandons[a].drama /\ new.platforms = abandons[a].platforms
      /\ new.refund = abandons[a].refund /\ new.original = abandons[a].original
      /\ new.deposit = abandons[a].deposit
  BY <1>1 DEF Abandon
<1>3. [abandons EXCEPT ![a].status = s] = [abandons EXCEPT ![a] = new]
  OBVIOUS
<1> HIDE DEF new
<1>4. SoundAbandon(new)
  BY <1>2 DEF Inv, AbandonInv, RefundAsRead, SoundAbandon
<1>5. QED
  BY <1>1, <1>2, <1>3, <1>4 DEF new

LEMMA RequestAbandonStep ==
    ASSUME Inv, NEW a \in AbandonIds, NEW g \in GrantIds, NEW P \in SUBSET Platforms,
           RequestAbandon(a, g, P)
    PROVE  Inv'
<1> DEFINE refund == calcAbandonRefund(grants[g].deposit, Base[grants[g].drama],
                        Cardinality(grants[g].platforms), Cardinality(P))
           new == [status |-> "requested", grant |-> g, by |-> grants[g].by,
                   drama |-> grants[g].drama, platforms |-> P, refund |-> refund,
                   original |-> grants[g].platforms, deposit |-> grants[g].deposit]
<1>1. /\ LiveGrant(g) /\ abandons' = [abandons EXCEPT ![a] = new]
      /\ UNCHANGED <<wallet, credited, entries, claims, grants, settlements,
                     submitting, deleted, late>>
  BY DEF RequestAbandon, money
<1>2. /\ grants[g].by \in Distributors /\ grants[g].drama \in Dramas
      /\ grants[g].deposit \in Int /\ grants[g].platforms \in SUBSET Platforms
  BY <1>1 DEF Inv, TypeOK, GrantInv, Grant
<1>3. refund \in Int
  <2>1. /\ Base[grants[g].drama] \in Nat /\ Cardinality(P) \in Nat
        /\ Cardinality(grants[g].platforms) \in Nat
    BY <1>2, PlatformCount, DepositAssumption
  <2>2. QED
    BY <1>2, <2>1, RefundIsInt
<1> HIDE DEF refund
<1>4. new \in Abandon /\ SoundAbandon(new)
  <2>1. new \in Abandon
    BY <1>2, <1>3 DEF Abandon
  <2>2. P \subseteq grants[g].platforms /\ grants[g].status # "none"
    BY DEF RequestAbandon, LiveGrant
  <2>. QED BY <1>2, <2>1, <2>2 DEF SoundAbandon, refund
<1> HIDE DEF new
<1>5. QED
  BY <1>1, <1>4, AbandonOnly

LEMMA CreateAbandonStep ==
    ASSUME Inv, NEW a \in AbandonIds,
           publisherCreateAbandon(a) \/ adminRejectAbandon(a)
    PROVE  Inv'
<1>1. PICK s \in {"pending", "rejected"} :
        /\ abandons[a].status # "none"
        /\ abandons' = [abandons EXCEPT ![a].status = s]
        /\ UNCHANGED <<wallet, credited, entries, claims, grants, settlements,
                       submitting, deleted, late>>
  BY DEF publisherCreateAbandon, adminRejectAbandon, money
<1> DEFINE new == [abandons[a] EXCEPT !.status = s]
<1>2. /\ new \in Abandon /\ SoundAbandon(new)
      /\ abandons' = [abandons EXCEPT ![a] = new]
  BY <1>1, AbandonMoved
<1> HIDE DEF new
<1>3. QED
  BY <1>1, <1>2, AbandonOnly

LEMMA FailAbandonStep ==
    ASSUME Inv, NEW a \in AbandonIds, FailAbandon(a)
    PROVE  Inv'
<1>1. NoAbandon \in Abandon /\ NoAbandon.status = "none"
  BY DEF NoAbandon, Abandon
<1>2. /\ abandons' = [abandons EXCEPT ![a] = NoAbandon]
      /\ UNCHANGED <<wallet, credited, entries, claims, grants, settlements,
                     submitting, deleted, late>>
  BY DEF FailAbandon, money
<1>3. QED
  BY <1>1, <1>2, AbandonOnly

(* What remains of a grant is a grant of the same distributor and drama. *)
Reduced(x, P, rest) == [x EXCEPT !.platforms = P, !.deposit = rest]

LEMMA GrantReduced ==
    ASSUME NEW x \in Grant, NEW P \in SUBSET Platforms, NEW rest \in Int
    PROVE  /\ Reduced(x, P, rest) \in Grant
           /\ Reduced(x, P, rest).by = x.by /\ Reduced(x, P, rest).drama = x.drama
           /\ Reduced(x, P, rest).claim = x.claim /\ Reduced(x, P, rest).status = x.status
           /\ Reduced(x, P, rest).platforms = P /\ Reduced(x, P, rest).deposit = rest
BY DEF Grant, Reduced

LEMMA ApproveAbandonStep ==
    ASSUME Inv, NEW a \in AbandonIds, adminApproveAbandon(a)
    PROVE  Inv'
<1> DEFINE g == abandons[a].grant
           d == abandons[a].by
           left == AfterAbandon(g, a)
           new == [abandons[a] EXCEPT !.status = "approved"]
<1>1. /\ abandons[a].status = "pending" /\ LiveGrant(g)
      /\ Holds(d, abandons[a].refund)
      /\ grants' = [grants EXCEPT ![g] = left]
      /\ wallet' = [wallet EXCEPT ![d] = Unfreeze(@, abandons[a].refund)]
      /\ abandons' = [abandons EXCEPT ![a].status = "approved"]
      /\ UNCHANGED <<credited, claims, settlements, submitting, deleted>>
  BY DEF adminApproveAbandon
<1>2. /\ new \in Abandon /\ SoundAbandon(new)
      /\ abandons' = [abandons EXCEPT ![a] = new]
  BY <1>1, AbandonMoved
<1>3. g \in GrantIds /\ d \in Distributors /\ abandons[a].refund \in Int
  BY <1>1 DEF Inv, TypeOK, AbandonInv, Abandon
<1>4. wallet' \in [Distributors -> Wallet] /\ Conserved'
  BY <1>1, <1>3, ReleaseMove
<1>5. /\ left \in Grant /\ left.by = grants[g].by /\ left.drama = grants[g].drama
      /\ left.claim = grants[g].claim /\ left.platforms \subseteq grants[g].platforms
      /\ left.status # "none" /\ left.status \in {grants[g].status, "revoked"}
  <2>1. grants[g] \in Grant
    BY <1>3 DEF Inv, TypeOK
  <2>2. CASE Cardinality(abandons[a].platforms) >= Cardinality(grants[g].platforms)
    <3>1. left = [grants[g] EXCEPT !.status = "revoked"]
      BY <2>2 DEF AfterAbandon
    <3>2. QED
      BY <2>1, <3>1 DEF Grant
  <2>3. CASE ~(Cardinality(abandons[a].platforms) >= Cardinality(grants[g].platforms))
    <3> DEFINE P == grants[g].platforms \ abandons[a].platforms
               rest == grants[g].deposit - abandons[a].refund
    <3>1. left = Reduced(grants[g], P, rest)
      BY <2>3 DEF AfterAbandon, Reduced
    <3>2. P \in SUBSET Platforms /\ rest \in Int
      BY <1>3, <2>1 DEF Grant
    <3>3. P \subseteq grants[g].platforms /\ grants[g].status # "none"
      BY <1>1 DEF LiveGrant
    <3> DEFINE x == grants[g]
    <3>4. x \in Grant /\ left = Reduced(x, P, rest)
      BY <2>1, <3>1
    <3> HIDE DEF P, rest, left, x
    <3>5. /\ left \in Grant /\ left.by = x.by /\ left.drama = x.drama
          /\ left.claim = x.claim /\ left.platforms = P /\ left.status = x.status
      BY <3>2, <3>4, GrantReduced
    <3> USE DEF P, x
    <3>6. QED
      BY <3>3, <3>5
  <2>4. QED
    BY <2>2, <2>3
<1>6. grants[g].by \in Distributors /\ grants[g].drama \in Dramas
  BY <1>1, <1>3 DEF Inv, GrantInv
<1> HIDE DEF left, new
<1>0. /\ late' \subseteq ClaimIds \X Marks
      /\ entries' = [entries EXCEPT ![grants[g].claim] = Refunded(@, abandons[a].refund)]
  <2>1. grants[g].claim \in ClaimIds
    BY <1>1, <1>3 DEF Inv, TypeOK, Grant, GrantInv
  <2>. QED BY <2>1 DEF adminApproveAbandon, Marks, Inv, TypeOK
<1>12. /\ entries' \in [ClaimIds -> Entries]
       /\ \A x \in ClaimIds : /\ entries'[x].freeze = entries[x].freeze
                              /\ entries'[x].unfreeze = entries[x].unfreeze
                              /\ claims[x].status \notin Granted => entries'[x] = entries[x]
  <2>1. grants[g].claim \in ClaimIds /\ claims[grants[g].claim].status \in Granted
    BY <1>1, <1>3 DEF Inv, TypeOK, Grant, GrantInv
  <2> DEFINE c == grants[g].claim
             after == Refunded(entries[c], abandons[a].refund)
  <2>2. entries' = [entries EXCEPT ![c] = after]
    BY <1>0
  <2>3. entries[c] \in Entries
    BY <2>1 DEF Inv, TypeOK
  <2> HIDE DEF c, d
  <2>4. /\ after \in Entries /\ after.freeze = entries[c].freeze
        /\ after.unfreeze = entries[c].unfreeze
    BY <1>3, <2>3, EntryBooked
  <2>5. c \in ClaimIds /\ claims[c].status \in Granted
    BY <2>1 DEF c
  <2> HIDE DEF after
  <2>6. /\ entries' \in [ClaimIds -> Entries] /\ entries'[c] = after
        /\ \A x \in ClaimIds : x # c => entries'[x] = entries[x]
    BY <2>2, <2>4, <2>5, EntriesChange DEF Inv
  <2>. QED BY <2>4, <2>5, <2>6
<1>7. TypeOK'
  BY <1>0, <1>12, <1>1, <1>2, <1>3, <1>4, <1>5 DEF Inv, TypeOK
<1>8. ClaimInv' /\ EntryInv'
  BY <1>1, <1>12 DEF Inv, ClaimInv, EntryInv, Granted
<1>9. GrantInv'
  BY <1>1, <1>3, <1>5, <1>6 DEF Inv, TypeOK, GrantInv, LiveGrant
<1>10. AbandonInv'
  <2>1. grants \in [GrantIds -> Grant] /\ abandons \in [AbandonIds -> Abandon]
    BY DEF Inv, TypeOK
  <2>. QED BY <1>1, <1>2, <1>3, <1>5, <2>1 DEF Inv, AbandonInv, RefundAsRead, SoundAbandon
<1>11. QED
  BY <1>4, <1>7, <1>8, <1>9, <1>10 DEF Inv

-----------------------------------------------------------------------------
(* A step of a settlement leaves every other table alone. *)
LEMMA SettlementOnly ==
    ASSUME Inv, wallet' \in [Distributors -> Wallet], Conserved',
           settlements' \in [Distributors \X Cycles -> Settlement],
           UNCHANGED <<credited, claims, entries, grants, abandons, submitting, deleted, late>>
    PROVE  Inv'
<1>1. TypeOK'
  BY DEF Inv, TypeOK
<1>2. ClaimInv' /\ GrantInv' /\ AbandonInv' /\ EntryInv'
  BY DEF Inv, ClaimInv, GrantInv, AbandonInv, RefundAsRead, EntryInv, LiveGrant
<1>3. QED
  BY <1>1, <1>2 DEF Inv

LEMMA GenerateStep ==
    ASSUME Inv, NEW d \in Distributors, NEW k \in Cycles, NEW share \in Shares,
           runDistributorSettlementForCycle(d, k, share)
    PROVE  Inv'
<1> DEFINE offset == IF wallet[d].frozen < share THEN wallet[d].frozen ELSE share
           X == Deduct(wallet[d], offset)
           new == [status |-> "pending_payment", share |-> share, deducted |-> offset,
                   payable |-> share - offset]
<1>1. /\ wallet' = [wallet EXCEPT ![d] = X]
      /\ settlements' = [settlements EXCEPT ![<<d, k>>] = new]
      /\ UNCHANGED <<credited, claims, entries, grants, abandons, submitting, deleted, late>>
  BY DEF runDistributorSettlementForCycle
<1>2. wallet[d] \in Wallet /\ wallet[d].frozen \in Nat /\ share \in Nat
  BY DepositAssumption DEF Inv, TypeOK, Wallet
<1>3. offset \in Nat /\ wallet[d].frozen >= offset /\ share - offset \in Nat
  BY <1>2
<1> HIDE DEF offset
<1>4. X \in Wallet /\ Balance(X) = Balance(wallet[d])
  BY <1>2, <1>3, DeductMove
<1>5. new \in Settlement
  BY <1>2, <1>3 DEF Settlement
<1> HIDE DEF X, new
<1>6. wallet' \in [Distributors -> Wallet] /\ Conserved'
  BY <1>1, <1>4, WalletMove DEF Inv
<1>7. settlements' \in [Distributors \X Cycles -> Settlement]
  BY <1>1, <1>5 DEF Inv, TypeOK
<1>8. QED
  BY <1>1, <1>6, <1>7, SettlementOnly

(* The receipt of a settlement is sent, accepted or sent back. *)
LEMMA ReceiptStatus ==
    ASSUME Inv, NEW d \in Distributors, NEW k \in Cycles,
           NEW s \in {"pending_payment", "payment_submitted", "settled"},
           settlements' = [settlements EXCEPT ![<<d, k>>].status = s]
    PROVE  settlements' \in [Distributors \X Cycles -> Settlement]
<1> DEFINE new == [settlements[<<d, k>>] EXCEPT !.status = s]
<1>1. settlements[<<d, k>>] \in Settlement
  BY DEF Inv, TypeOK
<1>2. new \in Settlement
  BY <1>1 DEF Settlement
<1>3. settlements' = [settlements EXCEPT ![<<d, k>>] = new]
  OBVIOUS
<1> HIDE DEF new
<1>4. QED
  BY <1>2, <1>3 DEF Inv, TypeOK

LEMMA ReceiptStep ==
    ASSUME Inv, NEW d \in Distributors, NEW k \in Cycles,
           publisherSubmitRemittance(d, k) \/ ConfirmReceipt(d, k)
    PROVE  Inv'
<1>1. PICK s \in {"payment_submitted", "settled"} :
        /\ settlements' = [settlements EXCEPT ![<<d, k>>].status = s]
        /\ UNCHANGED <<wallet, credited, claims, entries, grants, abandons, submitting, deleted, late>>
  BY DEF publisherSubmitRemittance, ConfirmReceipt, money
<1>2. settlements' \in [Distributors \X Cycles -> Settlement]
  BY <1>1, ReceiptStatus
<1>3. wallet' \in [Distributors -> Wallet] /\ Conserved'
  BY <1>1, MoneyKept DEF Inv, TypeOK
<1>4. QED
  BY <1>1, <1>2, <1>3, SettlementOnly

LEMMA RejectReceiptStep ==
    ASSUME Inv, NEW d \in Distributors, NEW k \in Cycles, RejectReceipt(d, k)
    PROVE  Inv'
<1> DEFINE offset == settlements[<<d, k>>].deducted
           X == Restore(wallet[d], offset)
<1>1. /\ wallet[d].deducted >= offset /\ wallet' = [wallet EXCEPT ![d] = X]
      /\ settlements' = [settlements EXCEPT ![<<d, k>>].status = "pending_payment"]
      /\ UNCHANGED <<credited, claims, entries, grants, abandons, submitting, deleted, late>>
  BY DEF RejectReceipt
<1>2. wallet[d] \in Wallet /\ offset \in Nat
  BY DEF Inv, TypeOK, Settlement
<1>3. X \in Wallet /\ Balance(X) = Balance(wallet[d])
  BY <1>1, <1>2, RestoreMove
<1> HIDE DEF X
<1>4. wallet' \in [Distributors -> Wallet] /\ Conserved'
  BY <1>1, <1>3, WalletMove DEF Inv
<1>5. settlements' \in [Distributors \X Cycles -> Settlement]
  BY <1>1, ReceiptStatus
<1>6. QED
  BY <1>1, <1>4, <1>5, SettlementOnly

-----------------------------------------------------------------------------
LEMMA NextInv == Inv /\ [Next]_vars => Inv'
<1> SUFFICES ASSUME Inv, [Next]_vars PROVE Inv'
  OBVIOUS
<1>1. CASE \E d \in Distributors, amount \in Amounts : Credit(d, amount)
  BY <1>1, CreditStep
<1>2. ASSUME NEW c \in ClaimIds, ClaimStep(c) PROVE Inv'
  <2>1. CASE \E d \in Distributors, dr \in Dramas, P \in SUBSET Platforms :
               RequestClaim(c, d, dr, P)
    BY <2>1, RequestClaimStep
  <2>2. CASE publisherCreateClaim(c) \/ FailClaim(c) \/ publisherPayDeposit(c)
    BY <2>2, CreateClaimStep, FailClaimStep, PayDepositStep
  <2>3. CASE ReadSubmit(c) \/ publisherSubmitClaim(c)
    BY <2>3, SubmitStep
  <2>4. CASE \E g \in GrantIds : adminApproveClaim(c, g)
    BY <2>4, ApproveClaimStep
  <2>5. CASE adminRejectClaim(c) \/ adminUploadContract(c)
    BY <2>5, RejectClaimStep, UploadContractStep
  <2>6. QED
    BY <1>2, <2>1, <2>2, <2>3, <2>4, <2>5 DEF ClaimStep
<1>3. ASSUME NEW a \in AbandonIds, AbandonStep(a) PROVE Inv'
  <2>1. CASE \E g \in GrantIds, P \in SUBSET Platforms : RequestAbandon(a, g, P)
    BY <2>1, RequestAbandonStep
  <2>2. CASE publisherCreateAbandon(a) \/ FailAbandon(a) \/ adminRejectAbandon(a)
    BY <2>2, CreateAbandonStep, FailAbandonStep
  <2>3. CASE adminApproveAbandon(a)
    BY <2>3, ApproveAbandonStep
  <2>4. QED
    BY <1>3, <2>1, <2>2, <2>3 DEF AbandonStep
<1>4. ASSUME NEW d \in Distributors, NEW k \in Cycles, SettlementStep(d, k) PROVE Inv'
  <2>1. CASE \E share \in Shares : runDistributorSettlementForCycle(d, k, share)
    BY <2>1, GenerateStep
  <2>2. CASE publisherSubmitRemittance(d, k) \/ ConfirmReceipt(d, k)
    BY <2>2, ReceiptStep
  <2>3. CASE RejectReceipt(d, k)
    BY <2>3, RejectReceiptStep
  <2>4. QED
    BY <1>4, <2>1, <2>2, <2>3 DEF SettlementStep, adminConfirmDistributorSettlement
<1>5. CASE \E dr \in Dramas : adminDeleteDrama(dr)
  BY <1>5, DeleteDramaStep
<1>6. CASE UNCHANGED vars
  <2>1. UNCHANGED <<wallet, credited, claims, entries, grants, abandons, settlements,
                    submitting, deleted, late>>
    BY <1>6 DEF vars
  <2>2. TypeOK' /\ ClaimInv' /\ GrantInv' /\ AbandonInv' /\ EntryInv'
    BY <2>1 DEF Inv, TypeOK, ClaimInv, GrantInv, AbandonInv, RefundAsRead, EntryInv, LiveGrant
  <2>3. QED
    BY <2>1, <2>2, MoneyKept DEF Inv
<1>7. QED
  BY <1>1, <1>2, <1>3, <1>4, <1>5, <1>6 DEF Next

LEMMA InvHolds == Spec => []Inv
BY InitInv, NextInv, PTL DEF Spec

(* Every wallet, claim, grant, request and settlement keeps its type; in   *)
(* particular no frozen and no deducted balance is ever negative, whatever *)
(* the order of claims, abandons, settlements and returns.                 *)
THEOREM DepositsTypeCorrect == Spec => []TypeOK
<1>1. Inv => TypeOK
  BY DEF Inv
<1>2. QED
  BY <1>1, InvHolds, PTL

(* The deposit account of every distributor keeps what was recharged: its  *)
(* three columns add up to the recharges after any sequence of operations. *)
THEOREM MoneyConserved == Spec => []Conserved
<1>1. Inv => Conserved
  BY DEF Inv
<1>2. QED
  BY <1>1, InvHolds, PTL

-----------------------------------------------------------------------------
(***************************************************************************)
(* What is released of a claim's deposit.  A claim that no stale write     *)
(* touched has at most one grant, which carries its deposit from the       *)
(* approval on: what the entries leave frozen is the deposit of the claim, *)
(* then of its grant while that is live, then nothing.                     *)
(***************************************************************************)
StaleWrites == {"submit", "contract", "abandon"}

KeptByGrant(c, g) ==
    /\ claims[c].status \in {"contract_pending", "completed"}
    /\ grants[g].deposit >= 0
    /\ entries[c].kept = IF LiveGrant(g) THEN grants[g].deposit ELSE 0

KeptByClaim(c) == entries[c].kept = IF claims[c].paid = "paid" THEN claims[c].deposit ELSE 0

GrantsOf(c) == {g \in GrantIds : grants[g].claim = c}

KeptRight(c) ==
    ~LateBy(c, StaleWrites) =>
        /\ entries[c].kept >= 0
        /\ \A g, h \in GrantsOf(c) : g = h
        /\ \A g \in GrantsOf(c) : KeptByGrant(c, g)
        /\ GrantsOf(c) = {} /\ claims[c].status # "deleted" => KeptByClaim(c)

KeptInv == \A c \in ClaimIds : KeptRight(c)

(* A claim that a step leaves alone, with its grants. *)
LEMMA KeptAlone ==
    ASSUME NEW c \in ClaimIds, KeptRight(c), claims'[c] = claims[c], entries'[c] = entries[c],
           \A m \in Marks : <<c, m>> \in late => <<c, m>> \in late',
           \A g \in GrantIds : /\ grants[g].claim = c => grants'[g] = grants[g]
                               /\ grants'[g].claim = c => grants[g].claim = c
    PROVE  KeptRight(c)'
<1>1. LateBy(c, StaleWrites) => LateBy(c, StaleWrites)'
  BY DEF LateBy, StaleWrites, Marks
<1>2. GrantsOf(c)' = GrantsOf(c) /\ \A g \in GrantsOf(c) : grants'[g] = grants[g]
  BY DEF GrantsOf
<1>. QED BY <1>1, <1>2 DEF KeptRight, KeptByGrant, KeptByClaim, LiveGrant

(* The steps that change one claim and no grant. *)
LEMMA KeptByOther ==
    ASSUME Inv, KeptInv, NEW c \in ClaimIds, grants' = grants,
           \A x \in ClaimIds : x # c => claims'[x] = claims[x] /\ entries'[x] = entries[x],
           \A x \in ClaimIds, m \in Marks : x # c /\ <<x, m>> \in late => <<x, m>> \in late',
           KeptRight(c)'
    PROVE  KeptInv'
<1> SUFFICES ASSUME NEW x \in ClaimIds, x # c PROVE KeptRight(x)'
  BY DEF KeptInv
<1>. QED BY KeptAlone DEF KeptInv

(* Before it is approved a claim has no grant. *)
LEMMA NoGrantYet ==
    ASSUME Inv, NEW c \in ClaimIds, claims[c].status \notin Granted
    PROVE  GrantsOf(c) = {}
<1>1. c # None
  BY DepositAssumption
<1>. QED BY <1>1 DEF Inv, GrantInv, GrantsOf

LEMMA KeptFreeze ==
    ASSUME Inv, Inv', KeptInv, NEW c \in ClaimIds, publisherCreateClaim(c) \/ publisherPayDeposit(c)
    PROVE  KeptInv'
<1>1. /\ claims[c].status \in {"requested", "deposit_pending"} /\ FreezeFor(c) /\ credited' = credited
      /\ grants' = grants /\ late \subseteq late'
      /\ claims'[c].paid = "paid" /\ claims'[c].deposit = claims[c].deposit
      /\ \A x \in ClaimIds : x # c => claims'[x] = claims[x]
  <2>1. claims \in [ClaimIds -> Claim]
    BY DEF Inv, TypeOK
  <2>. QED BY <2>1 DEF publisherCreateClaim, publisherPayDeposit, Claim
<1>2. claims[c].by \in Distributors /\ claims[c].deposit \in Nat
  BY <1>1 DEF Inv, TypeOK, ClaimInv, Claim
<1>3. /\ entries'[c].kept = entries[c].kept + claims[c].deposit
      /\ \A x \in ClaimIds : x # c => entries'[x] = entries[x]
  BY <1>1, <1>2, FreezeForMove
<1>4. entries[c].kept = 0
  BY <1>1 DEF Inv, EntryInv
<1>5. GrantsOf(c)' = {}
  BY <1>1, NoGrantYet DEF Granted, GrantsOf
<1>6. KeptRight(c)'
  BY <1>1, <1>2, <1>3, <1>4, <1>5 DEF KeptRight, KeptByClaim
<1>. QED BY <1>1, <1>3, <1>6, KeptByOther

(* A claim that is not in the database yet, or not any more. *)
LEMMA KeptRequest ==
    ASSUME Inv, Inv', KeptInv, NEW c \in ClaimIds,
           FailClaim(c) \/ \E d \in Distributors, dr \in Dramas, P \in SUBSET Platforms : RequestClaim(c, d, dr, P)
    PROVE  KeptInv'
<1>1. /\ claims[c].status \in {"none", "requested"} /\ grants' = grants /\ entries' = entries
      /\ claims'[c].status \in {"none", "requested"}
      /\ \A x \in ClaimIds : x # c => claims'[x] = claims[x]
      /\ \A x \in ClaimIds, m \in Marks : x # c /\ <<x, m>> \in late => <<x, m>> \in late'
  <2>1. claims \in [ClaimIds -> Claim]
    BY DEF Inv, TypeOK
  <2>2. CASE FailClaim(c)
    BY <2>1, <2>2 DEF FailClaim, NoClaim, money
  <2>3. CASE \E d \in Distributors, dr \in Dramas, P \in SUBSET Platforms : RequestClaim(c, d, dr, P)
    BY <2>1, <2>3 DEF RequestClaim, money
  <2>. QED BY <2>2, <2>3
<1>2. entries'[c].kept = 0 /\ claims'[c].paid = "unpaid"
  BY <1>1 DEF Inv, EntryInv
<1>3. GrantsOf(c)' = {}
  BY <1>1, NoGrantYet DEF Granted, GrantsOf
<1>4. KeptRight(c)'
  BY <1>1, <1>2, <1>3 DEF KeptRight, KeptByClaim
<1>. QED BY <1>1, <1>4, KeptByOther

LEMMA KeptSubmit ==
    ASSUME Inv, Inv', KeptInv, NEW c \in ClaimIds, publisherSubmitClaim(c)
    PROVE  KeptInv'
<1>0. claims \in [ClaimIds -> Claim]
  BY DEF Inv, TypeOK
<1>1. /\ grants' = grants /\ entries' = entries /\ late \subseteq late'
      /\ \A x \in ClaimIds : x # c => claims'[x] = claims[x]
      /\ claims'[c].paid = claims[c].paid /\ claims'[c].deposit = claims[c].deposit
  BY <1>0 DEF publisherSubmitClaim, money, Claim
<1>2. CASE claims[c].status \in {"authorization_pending", "review_pending"}
  <2>1. ~LateBy(c, StaleWrites) => GrantsOf(c) = {}
    BY <1>2 DEF KeptInv, KeptRight, KeptByGrant
  <2>2. LateBy(c, StaleWrites) => LateBy(c, StaleWrites)'
    BY <1>1 DEF LateBy
  <2>3. claims[c].status # "deleted" /\ GrantsOf(c)' = GrantsOf(c)
    BY <1>1, <1>2 DEF GrantsOf
  <2>4. KeptRight(c)'
    BY <1>1, <2>1, <2>2, <2>3 DEF KeptInv, KeptRight, KeptByClaim
  <2>. QED BY <1>1, <2>4, KeptByOther
<1>3. CASE claims[c].status = "deleted"
  <2>1. claims' = claims
    BY <1>3 DEF publisherSubmitClaim
  <2>2. KeptRight(c)'
    BY <1>1, <2>1, KeptAlone DEF KeptInv
  <2>. QED BY <1>1, <2>2, KeptByOther
<1>4. CASE claims[c].status \notin {"authorization_pending", "review_pending", "deleted"}
  <2>1. <<c, "submit">> \in late'
    BY <1>4 DEF publisherSubmitClaim
  <2>2. KeptRight(c)'
    BY <2>1 DEF KeptRight, LateBy, StaleWrites
  <2>. QED BY <1>1, <2>2, KeptByOther
<1>. QED BY <1>2, <1>3, <1>4

LEMMA KeptReject ==
    ASSUME Inv, Inv', KeptInv, NEW c \in ClaimIds, adminRejectClaim(c)
    PROVE  KeptInv'
<1>0. claims \in [ClaimIds -> Claim] /\ entries \in [ClaimIds -> Entries] /\ claims[c].deposit \in Nat
  BY DEF Inv, TypeOK, Claim
<1>1. /\ claims[c].status = "review_pending" /\ grants' = grants /\ late' = late
      /\ \A x \in ClaimIds : x # c => claims'[x] = claims[x]
      /\ claims'[c].paid = "released"
  BY <1>0 DEF adminRejectClaim, Claim
<1>2. ~LateBy(c, StaleWrites) => GrantsOf(c) = {} /\ KeptByClaim(c)
  BY <1>1 DEF KeptInv, KeptRight, KeptByGrant
<1>3. /\ \A x \in ClaimIds : x # c => entries'[x] = entries[x]
      /\ KeptByClaim(c) => entries'[c].kept = 0
  <2>1. CASE claims[c].paid = "paid" /\ claims[c].deposit > 0
    <3> DEFINE cents == claims[c].deposit
               new == Released(entries[c], cents)
    <3>1. entries' = [entries EXCEPT ![c] = new]
      BY <2>1 DEF adminRejectClaim
    <3>2. cents \in Int /\ entries[c] \in Entries
      BY <1>0
    <3>3. new.kept = entries[c].kept - cents
      <4> HIDE DEF cents
      <4>. QED BY <3>2, EntryBooked
    <3> HIDE DEF new
    <3>. QED BY <1>0, <2>1, <3>1, <3>3 DEF KeptByClaim
  <2>2. CASE ~(claims[c].paid = "paid" /\ claims[c].deposit > 0)
    <3>1. entries' = entries
      BY <2>2 DEF adminRejectClaim
    <3>. QED BY <1>0, <2>2, <3>1 DEF KeptByClaim
  <2>. QED BY <2>1, <2>2
<1>4. KeptRight(c)'
  BY <1>1, <1>2, <1>3 DEF KeptRight, KeptByClaim, GrantsOf, LateBy
<1>. QED BY <1>1, <1>3, <1>4, KeptByOther

LEMMA KeptApprove ==
    ASSUME Inv, Inv', KeptInv, NEW c \in ClaimIds, NEW g \in GrantIds, adminApproveClaim(c, g)
    PROVE  KeptInv'
<1>0. claims \in [ClaimIds -> Claim] /\ grants \in [GrantIds -> Grant] /\ claims[c].deposit \in Nat
  BY DEF Inv, TypeOK, Claim
<1>1. /\ claims[c].status = "review_pending" /\ claims[c].paid = "paid" /\ late' = late
      /\ claims'[c].status = "contract_pending"
      /\ \A x \in ClaimIds : x # c => claims'[x] = claims[x]
      /\ grants[g].status = "none" /\ grants'[g].claim = c /\ grants'[g].status = "authorized"
      /\ grants'[g].deposit = claims[c].deposit
      /\ \A h \in GrantIds : h # g => grants'[h] = grants[h]
  BY <1>0 DEF adminApproveClaim, Claim
<1>2. entries' = entries
  <2>1. entries[c].freeze = 1
    BY <1>1 DEF Inv, EntryInv
  <2>. QED BY <2>1 DEF adminApproveClaim
<1>3. grants[g].claim = None
  BY <1>1 DEF Inv, GrantInv
<1>4. KeptRight(c)'
  <2>1. ~LateBy(c, StaleWrites) => GrantsOf(c) = {} /\ KeptByClaim(c)
    BY <1>1 DEF KeptInv, KeptRight, KeptByGrant
  <2>2. LateBy(c, StaleWrites)' = LateBy(c, StaleWrites)
    BY <1>1 DEF LateBy
  <2>3. GrantsOf(c) = {} => GrantsOf(c)' = {g}
    BY <1>1 DEF GrantsOf
  <2>4. KeptByClaim(c) => KeptByGrant(c, g)' /\ entries'[c].kept >= 0
    BY <1>0, <1>1, <1>2 DEF KeptByClaim, KeptByGrant, LiveGrant
  <2>. QED BY <2>1, <2>2, <2>3, <2>4 DEF KeptRight
<1>5. ASSUME NEW x \in ClaimIds, x # c PROVE KeptRight(x)'
  <2>1. x # None
    BY DepositAssumption
  <2>. QED BY <1>1, <1>2, <1>3, <1>5, <2>1, KeptAlone DEF KeptInv
<1>. QED BY <1>4, <1>5 DEF KeptInv

LEMMA KeptContract ==
    ASSUME Inv, Inv', KeptInv, NEW c \in ClaimIds, adminUploadContract(c)
    PROVE  KeptInv'
<1>0. claims \in [ClaimIds -> Claim] /\ \A g \in GrantIds : grants[g] \in Grant
  BY DEF Inv, TypeOK
<1>1. /\ claims[c].status = "contract_pending" /\ claims'[c].status = "completed"
      /\ claims'[c].paid = claims[c].paid /\ claims'[c].deposit = claims[c].deposit
      /\ \A x \in ClaimIds : x # c => claims'[x] = claims[x]
      /\ entries' = entries /\ late \subseteq late'
  BY <1>0 DEF adminUploadContract, Claim, money
<1>2. \A g \in GrantIds :
        IF grants[g].claim = c
        THEN grants'[g].status = "active" /\ grants'[g].claim = c /\ grants'[g].deposit = grants[g].deposit
        ELSE grants'[g] = grants[g]
  BY <1>0 DEF adminUploadContract, Grant
<1>3. KeptRight(c)'
  <2>1. CASE \A g \in GrantIds : grants[g].claim = c => LiveGrant(g)
    <3>1. GrantsOf(c)' = GrantsOf(c)
      BY <1>2 DEF GrantsOf
    <3>2. \A g \in GrantsOf(c) : KeptByGrant(c, g) => KeptByGrant(c, g)'
      BY <1>1, <1>2, <2>1 DEF GrantsOf, KeptByGrant, LiveGrant
    <3>3. LateBy(c, StaleWrites) => LateBy(c, StaleWrites)'
      BY <1>1 DEF LateBy
    <3>4. KeptByClaim(c)' = KeptByClaim(c)
      BY <1>1 DEF KeptByClaim
    <3>. QED BY <1>1, <3>1, <3>2, <3>3, <3>4 DEF KeptInv, KeptRight
  <2>2. CASE ~ \A g \in GrantIds : grants[g].claim = c => LiveGrant(g)
    <3>1. <<c, "contract">> \in late'
      BY <2>2 DEF adminUploadContract
    <3>. QED BY <3>1 DEF KeptRight, LateBy, StaleWrites
  <2>. QED BY <2>1, <2>2
<1>4. ASSUME NEW x \in ClaimIds, x # c PROVE KeptRight(x)'
  BY <1>1, <1>2, <1>4, KeptAlone DEF KeptInv
<1>. QED BY <1>3, <1>4 DEF KeptInv

(* What remains of a grant after an abandon that read it as it is: nothing *)
(* less than zero, and what is refunded is the difference.                 *)
LEMMA AbandonAsRead ==
    ASSUME Inv, NEW a \in AbandonIds, adminApproveAbandon(a), AsRead(a)
    PROVE  LET g == abandons[a].grant
               r == abandons[a].refund
               all == Cardinality(abandons[a].platforms) >= Cardinality(grants[g].platforms)
           IN  /\ g \in GrantIds /\ r \in Int /\ grants[g].deposit \in Int
               /\ all => r = grants[g].deposit
               /\ ~all => grants[g].deposit - r >= 0
<1> DEFINE g == abandons[a].grant
           r == abandons[a].refund
           n == Cardinality(grants[g].platforms)
           k == Cardinality(abandons[a].platforms)
<1>1. /\ g \in GrantIds /\ r \in Int /\ grants[g] \in Grant /\ abandons[a] \in Abandon
      /\ abandons[a].drama \in Dramas /\ r = RefundAsRead(a)
  BY DEF Inv, TypeOK, AbandonInv, adminApproveAbandon, Abandon
<1>2. n \in Nat /\ k \in Nat /\ grants[g].deposit \in Int
  BY <1>1, PlatformCount DEF Grant, Abandon
<1>3. r = calcAbandonRefund(grants[g].deposit, Base[abandons[a].drama], n, k)
  BY <1>1 DEF AsRead, RefundAsRead
<1>4. Base[abandons[a].drama] \in Nat
  BY <1>1, DepositAssumption
<1> DEFINE b == Base[abandons[a].drama]
           dep == grants[g].deposit
<1> HIDE DEF g, r, n, k, b, dep
<1>5. n - k > 0 => calcDepositAmount(b, n - k) \in Nat
  BY <1>2, <1>4, ClaimAmountIsNat DEF b
<1>6. k >= n => r = dep
  BY <1>2, <1>3 DEF calcAbandonRefund, b, dep
<1>7. ~(k >= n) => dep - r >= 0
  <2>1. ~(k >= n) => r = dep - calcDepositAmount(b, n - k)
    BY <1>2, <1>3 DEF calcAbandonRefund, b, dep
  <2>2. dep \in Int
    BY <1>2 DEF dep
  <2>. QED BY <1>2, <1>5, <2>1, <2>2
<1>. QED BY <1>1, <1>2, <1>6, <1>7 DEF g, r, n, k, dep

LEMMA KeptAbandon ==
    ASSUME Inv, Inv', KeptInv, NEW a \in AbandonIds, adminApproveAbandon(a)
    PROVE  KeptInv'
<1>. PICK g \in GrantIds, r \in Int : g = abandons[a].grant /\ r = abandons[a].refund
  BY DEF Inv, TypeOK, AbandonInv, adminApproveAbandon, Abandon
<1>0. /\ grants \in [GrantIds -> Grant] /\ entries \in [ClaimIds -> Entries]
      /\ LiveGrant(g) /\ grants[g] \in Grant
  BY DEF Inv, TypeOK, adminApproveAbandon
<1>. PICK c \in ClaimIds : c = grants[g].claim
  BY <1>0 DEF Inv, GrantInv, Grant
<1>. PICK all \in BOOLEAN :
        all <=> Cardinality(abandons[a].platforms) >= Cardinality(grants[g].platforms)
  OBVIOUS
<1>2. /\ claims' = claims /\ late \subseteq late'
      /\ \A x \in GrantIds : x # g => grants'[x] = grants[x]
      /\ \A x \in ClaimIds : x # c => entries'[x] = entries[x]
  BY <1>0 DEF adminApproveAbandon
<1>3. entries'[c].kept = entries[c].kept - r
  <2> DEFINE new == Refunded(entries[c], r)
  <2>1. entries' = [entries EXCEPT ![c] = new]
    BY DEF adminApproveAbandon
  <2>2. new.kept = entries[c].kept - r
    BY <1>0, EntryBooked
  <2> HIDE DEF new
  <2>. QED BY <1>0, <2>1, <2>2
<1>4. grants'[g] = AfterAbandon(g, a)
  BY <1>0 DEF adminApproveAbandon
<1>5. /\ grants'[g].claim = c
      /\ all => ~LiveGrant(g)' /\ grants'[g].deposit = grants[g].deposit
      /\ ~all => LiveGrant(g)' /\ grants'[g].deposit = grants[g].deposit - r
  <2>1. CASE all
    <3>1. grants'[g] = [grants[g] EXCEPT !.status = "revoked"]
      BY <1>4, <2>1 DEF AfterAbandon
    <3>. QED BY <1>0, <2>1, <3>1 DEF LiveGrant, Grant
  <2>2. CASE ~all
    <3> DEFINE P == grants[g].platforms \ abandons[a].platforms
               rest == grants[g].deposit - r
               x == grants[g]
    <3>1. grants'[g] = Reduced(x, P, rest)
      BY <1>4, <2>2 DEF AfterAbandon, Reduced
    <3>2. P \in SUBSET Platforms /\ rest \in Int /\ x \in Grant
      BY <1>0 DEF Grant
    <3>3. /\ Reduced(x, P, rest).claim = x.claim /\ Reduced(x, P, rest).status = x.status
          /\ Reduced(x, P, rest).deposit = rest
      <4> HIDE DEF P, rest, x
      <4>. QED BY <3>2, GrantReduced
    <3>. QED BY <1>0, <2>2, <3>1, <3>3 DEF LiveGrant
  <2>. QED BY <2>1, <2>2
<1>6. CASE AsRead(a)
  <2>1. /\ grants[g].deposit \in Int /\ all => r = grants[g].deposit
        /\ ~all => grants[g].deposit - r >= 0
    BY <1>6, AbandonAsRead
  <2>2. g \in GrantsOf(c) /\ GrantsOf(c)' = GrantsOf(c)
    BY <1>0, <1>2, <1>5 DEF GrantsOf
  <2>3. entries[c].kept \in Int
    BY <1>0 DEF Entries
  <2>4. KeptByGrant(c, g) => KeptByGrant(c, g)' /\ entries'[c].kept >= 0
    BY <1>0, <1>2, <1>3, <1>5, <2>1, <2>3 DEF KeptByGrant
  <2>5. LateBy(c, StaleWrites) => LateBy(c, StaleWrites)'
    BY <1>2 DEF LateBy
  <2>6. KeptRight(c)'
    BY <2>2, <2>4, <2>5 DEF KeptInv, KeptRight
  <2>. QED BY <1>2, <1>5, <2>6, KeptAlone DEF KeptInv
<1>7. CASE ~AsRead(a)
  <2>1. <<c, "abandon">> \in late'
    BY <1>7 DEF adminApproveAbandon
  <2>2. KeptRight(c)'
    BY <2>1 DEF KeptRight, LateBy, StaleWrites
  <2>. QED BY <1>2, <1>5, <2>2, KeptAlone DEF KeptInv
<1>. QED BY <1>6, <1>7

LEMMA KeptDelete ==
    ASSUME Inv, Inv', KeptInv, NEW dr \in Dramas, adminDeleteDrama(dr)
    PROVE  KeptInv'
<1> SUFFICES ASSUME NEW c \in ClaimIds PROVE KeptRight(c)'
  BY DEF KeptInv
<1>0. /\ entries' = entries /\ late' = late /\ c # None
      /\ claims'[c] = IF claims[c].drama = dr /\ claims[c].status # "requested"
                      THEN [NoClaim EXCEPT !.status = "deleted"] ELSE claims[c]
      /\ \A g \in GrantIds : grants'[g] = IF grants[g].drama = dr THEN [NoGrant EXCEPT !.status = "deleted"]
                                          ELSE grants[g]
  BY DepositAssumption DEF adminDeleteDrama, money
<1>1. CASE claims[c].drama = dr /\ claims[c].status # "requested"
  <2>1. claims'[c].status = "deleted"
    BY <1>0, <1>1 DEF NoClaim
  <2>2. GrantsOf(c)' = {}
    <3>1. GrantInv'
      BY DEF Inv
    <3>2. ASSUME NEW g \in GrantIds, grants'[g].claim = c PROVE FALSE
      BY <1>0, <2>1, <3>1, <3>2 DEF GrantInv, Granted
    <3>. QED BY <3>2 DEF GrantsOf
  <2>. QED BY <1>0, <2>1, <2>2 DEF KeptInv, KeptRight, LateBy
<1>2. CASE ~(claims[c].drama = dr /\ claims[c].status # "requested")
  <2>1. claims'[c] = claims[c]
    BY <1>0, <1>2
  <2>2. ASSUME NEW g \in GrantIds, grants[g].claim = c PROVE grants'[g] = grants[g]
    <3>1. claims[c].status # "requested" /\ claims[c].drama = grants[g].drama
      BY <1>0, <2>2 DEF Inv, GrantInv, Granted
    <3>. QED BY <1>0, <1>2, <3>1
  <2>3. ASSUME NEW g \in GrantIds, grants'[g].claim = c PROVE grants[g].claim = c
    BY <1>0, <2>3 DEF NoGrant
  <2>. QED BY <1>0, <2>1, <2>2, <2>3, KeptAlone DEF KeptInv
<1>. QED BY <1>1, <1>2

LEMMA KeptStep == Inv /\ Inv' /\ KeptInv /\ [Next]_vars => KeptInv'
<1> SUFFICES ASSUME Inv, Inv', KeptInv, [Next]_vars PROVE KeptInv'
  OBVIOUS
<1>1. ASSUME UNCHANGED <<claims, entries, grants, late>> PROVE KeptInv'
  BY <1>1, KeptAlone DEF KeptInv
<1>2. ASSUME NEW d \in Distributors, NEW amount \in Amounts, Credit(d, amount) PROVE KeptInv'
  BY <1>1, <1>2 DEF Credit
<1>3. ASSUME NEW d \in Distributors, NEW k \in Cycles, SettlementStep(d, k) PROVE KeptInv'
  BY <1>1, <1>3 DEF SettlementStep, runDistributorSettlementForCycle, publisherSubmitRemittance,
                    adminConfirmDistributorSettlement, ConfirmReceipt, RejectReceipt, money
<1>4. ASSUME NEW c \in ClaimIds, ReadSubmit(c) PROVE KeptInv'
  BY <1>1, <1>4 DEF ReadSubmit, money
<1>5. ASSUME NEW c \in ClaimIds, ClaimStep(c) PROVE KeptInv'
  BY <1>4, <1>5, KeptRequest, KeptFreeze, KeptSubmit, KeptApprove, KeptReject, KeptContract DEF ClaimStep
<1>6. ASSUME NEW a \in AbandonIds, AbandonStep(a), ~adminApproveAbandon(a) PROVE KeptInv'
  BY <1>1, <1>6 DEF AbandonStep, RequestAbandon, publisherCreateAbandon, FailAbandon,
                    adminRejectAbandon, money
<1>7. CASE UNCHANGED vars
  BY <1>1, <1>7 DEF vars
<1>. QED BY <1>2, <1>3, <1>5, <1>6, <1>7, KeptAbandon, KeptDelete DEF Next

(* The deposit of a claim is frozen at most once and released at most once *)
(* by its rejection, and the rejection and the abandons of its grants give *)
(* back together no more than was frozen, however requests, decisions,     *)
(* contracts, abandons and deletions cross: except where a submit wrote    *)
(* over a decision, a contract brought back a grant, or an abandon was     *)
(* approved of a grant that had changed.                                   *)
THEOREM FrozenAndReleasedOnce == Spec => []ReleasedOnce
<1>1. Init => KeptInv
  <2> SUFFICES ASSUME Init, NEW c \in ClaimIds PROVE KeptRight(c)
    BY DEF KeptInv
  <2>1. entries[c].kept = 0 /\ claims[c].paid = "unpaid" /\ GrantsOf(c) = {}
    BY DepositAssumption DEF Init, Booked, LegacyClaim, NoClaim, NoGrant, GrantsOf
  <2>. QED BY <2>1 DEF KeptRight, KeptByClaim
<1>2. Inv /\ KeptInv => ReleasedOnce
  <2> SUFFICES ASSUME Inv, KeptInv, NEW c \in ClaimIds,
                      entries[c].kept < 0, ~LateBy(c, StaleWrites)
               PROVE  FALSE
    BY DEF Inv, EntryInv, ReleasedOnce, StaleWrites
  <2>1. entries[c].kept >= 0 /\ entries[c].kept \in Int
    BY DEF KeptInv, KeptRight, Inv, TypeOK, Entries
  <2>. QED BY <2>1
<1>. QED BY <1>1, <1>2, KeptStep, InvHolds, PTL DEF Spec

-----------------------------------------------------------------------------
(***************************************************************************)
(* What is deducted has settlements behind it: a cycle is offset once, by  *)
(* what its row says, for a row that is not there says nothing.  And an    *)
(* account is overdrawn by a refund below zero only, which stays on file.  *)
(***************************************************************************)
OffsetsOf(d) == [k \in Cycles |-> settlements[<<d, k>>].deducted]

NoOffsetYet == \A s \in Distributors \X Cycles :
    settlements[s].status = "none" => settlements[s].deducted = 0

LEMMA WalletColumns ==
    ASSUME NEW w \in Wallet, NEW x \in Int
    PROVE  /\ Freeze(w, x).deducted = w.deducted /\ Freeze(w, x).available = w.available - x
           /\ Freeze(w, x).frozen = w.frozen + x
           /\ Unfreeze(w, x).deducted = w.deducted /\ Unfreeze(w, x).available = w.available + x
           /\ Unfreeze(w, x).frozen = w.frozen - x
           /\ Recharge(w, x).deducted = w.deducted /\ Recharge(w, x).available = w.available + x
           /\ Recharge(w, x).frozen = w.frozen
           /\ Deduct(w, x).deducted = w.deducted + x /\ Deduct(w, x).available = w.available
           /\ Deduct(w, x).frozen = w.frozen - x
           /\ Restore(w, x).deducted = w.deducted - x /\ Restore(w, x).available = w.available
           /\ Restore(w, x).frozen = w.frozen + x
BY DEF Freeze, Unfreeze, Recharge, Deduct, Restore, Account

(* The five ways in which a step of an account moves its columns. *)
Moves(d, X) == wallet' = [wallet EXCEPT ![d] = X]

LEMMA HowWalletsMove ==
    ASSUME Inv, [Next]_vars
    PROVE  \/ wallet' = wallet
           \/ \E d \in Distributors, x \in Nat : Moves(d, Recharge(wallet[d], x))
           \/ \E c \in ClaimIds : /\ claims[c].by \in Distributors
                                  /\ wallet[claims[c].by].available >= claims[c].deposit
                                  /\ Moves(claims[c].by, Freeze(wallet[claims[c].by], claims[c].deposit))
           \/ \E c \in ClaimIds : /\ claims[c].by \in Distributors
                                  /\ Moves(claims[c].by, Unfreeze(wallet[claims[c].by], claims[c].deposit))
           \/ \E a \in AbandonIds : adminApproveAbandon(a)
           \/ \E d \in Distributors, k \in Cycles, x \in Shares : runDistributorSettlementForCycle(d, k, x)
           \/ \E d \in Distributors, k \in Cycles : RejectReceipt(d, k)
<1>1. ASSUME NEW d \in Distributors, NEW amount \in Amounts, Credit(d, amount)
      PROVE  \E x \in Nat : Moves(d, Recharge(wallet[d], x))
  BY <1>1, DepositAssumption DEF Credit, Moves
<1>2. ASSUME NEW c \in ClaimIds, FreezeFor(c), claims[c].by \in Distributors
      PROVE  /\ wallet[claims[c].by].available >= claims[c].deposit
             /\ Moves(claims[c].by, Freeze(wallet[claims[c].by], claims[c].deposit))
  BY <1>2 DEF FreezeFor, Moves
<1>3. \A c \in ClaimIds : claims[c].status \notin {"none", "deleted"} => claims[c].by \in Distributors
  BY DEF Inv, ClaimInv
<1>4. ASSUME NEW c \in ClaimIds, publisherCreateClaim(c) \/ publisherPayDeposit(c)
      PROVE  claims[c].by \in Distributors /\ FreezeFor(c)
  BY <1>3, <1>4 DEF publisherCreateClaim, publisherPayDeposit
<1>5. ASSUME NEW c \in ClaimIds, NEW g \in GrantIds, adminApproveClaim(c, g)
      PROVE  wallet' = wallet \/ (claims[c].by \in Distributors /\ FreezeFor(c))
  BY <1>3, <1>5 DEF adminApproveClaim
<1>6. ASSUME NEW c \in ClaimIds, adminRejectClaim(c)
      PROVE  \/ wallet' = wallet
             \/ /\ claims[c].by \in Distributors
                /\ Moves(claims[c].by, Unfreeze(wallet[claims[c].by], claims[c].deposit))
  BY <1>3, <1>6 DEF adminRejectClaim, Moves
<1>7. ASSUME NEW c \in ClaimIds,
             \/ \E d \in Distributors, dr \in Dramas, P \in SUBSET Platforms : RequestClaim(c, d, dr, P)
             \/ FailClaim(c) \/ ReadSubmit(c) \/ publisherSubmitClaim(c) \/ adminUploadContract(c)
      PROVE  wallet' = wallet
  BY <1>7 DEF RequestClaim, FailClaim, ReadSubmit, publisherSubmitClaim, adminUploadContract, money
<1>8. ASSUME NEW c \in ClaimIds, ClaimStep(c)
      PROVE  \/ wallet' = wallet
             \/ claims[c].by \in Distributors /\ FreezeFor(c)
             \/ /\ claims[c].by \in Distributors
                /\ Moves(claims[c].by, Unfreeze(wallet[claims[c].by], claims[c].deposit))
  BY <1>4, <1>5, <1>6, <1>7, <1>8 DEF ClaimStep
<1>9. ASSUME NEW a \in AbandonIds, AbandonStep(a), ~adminApproveAbandon(a)
      PROVE  wallet' = wallet
  BY <1>9 DEF AbandonStep, RequestAbandon, publisherCreateAbandon, FailAbandon,
              adminRejectAbandon, money
<1>10. ASSUME NEW d \in Distributors, NEW k \in Cycles, SettlementStep(d, k)
       PROVE  \/ wallet' = wallet \/ RejectReceipt(d, k)
              \/ \E x \in Shares : runDistributorSettlementForCycle(d, k, x)
  BY <1>10 DEF SettlementStep, publisherSubmitRemittance, adminConfirmDistributorSettlement,
               ConfirmReceipt, money
<1>11. ASSUME NEW dr \in Dramas, adminDeleteDrama(dr) PROVE wallet' = wallet
  BY <1>11 DEF adminDeleteDrama, money
<1>12. CASE UNCHANGED vars
  BY <1>12 DEF vars
<1>. QED BY <1>1, <1>2, <1>8, <1>9, <1>10, <1>11, <1>12 DEF Next

LEMMA HowSettlementsMove ==
    ASSUME Inv, [Next]_vars
    PROVE  \/ \A s \in Distributors \X Cycles :
                 /\ settlements'[s].deducted = settlements[s].deducted
                 /\ settlements'[s].status = "none" => settlements[s].status = "none"
           \/ \E d \in Distributors, k \in Cycles, x \in Shares : runDistributorSettlementForCycle(d, k, x)
<1> DEFINE Same == \A s \in Distributors \X Cycles :
                 /\ settlements'[s].deducted = settlements[s].deducted
                 /\ settlements'[s].status = "none" => settlements[s].status = "none"
<1>1. settlements' = settlements => Same
  OBVIOUS
<1>2. ASSUME NEW d \in Distributors, NEW k \in Cycles, NEW t \in {"pending_payment", "payment_submitted", "settled"},
             settlements' = [settlements EXCEPT ![<<d, k>>].status = t]
      PROVE  Same
  <2>1. \A s \in Distributors \X Cycles : settlements[s] \in Settlement
    BY DEF Inv, TypeOK
  <2>2. settlements \in [Distributors \X Cycles -> Settlement] /\ <<d, k>> \in Distributors \X Cycles
    BY DEF Inv, TypeOK
  <2>. QED BY <1>2, <2>1, <2>2 DEF Settlement
<1> HIDE DEF Same
<1>3. ASSUME NEW d \in Distributors, NEW k \in Cycles, SettlementStep(d, k)
      PROVE  Same \/ \E x \in Shares : runDistributorSettlementForCycle(d, k, x)
  BY <1>2, <1>3 DEF SettlementStep, publisherSubmitRemittance, adminConfirmDistributorSettlement,
                    ConfirmReceipt, RejectReceipt
<1>4. ASSUME NEW c \in ClaimIds, ClaimStep(c) PROVE settlements' = settlements
  BY <1>4 DEF ClaimStep, RequestClaim, publisherCreateClaim, FailClaim, publisherPayDeposit,
     ReadSubmit,
              publisherSubmitClaim, adminApproveClaim, adminRejectClaim, adminUploadContract
<1>5. ASSUME NEW a \in AbandonIds, AbandonStep(a) PROVE settlements' = settlements
  BY <1>5 DEF AbandonStep, RequestAbandon, publisherCreateAbandon, FailAbandon, adminApproveAbandon,
              adminRejectAbandon
<1>6. ASSUME NEW d \in Distributors, NEW amount \in Amounts, Credit(d, amount) PROVE settlements' = settlements
  BY <1>6 DEF Credit
<1>7. ASSUME NEW dr \in Dramas, adminDeleteDrama(dr) PROVE settlements' = settlements
  BY <1>7 DEF adminDeleteDrama
<1>8. CASE UNCHANGED vars
  BY <1>1, <1>8 DEF vars
<1>. QED BY <1>1, <1>3, <1>4, <1>5, <1>6, <1>7, <1>8 DEF Next, Same

(* What a column of a wallet becomes that is moved or not. *)
LEMMA OneMoves ==
    ASSUME Inv, NEW d \in Distributors, NEW X, Moves(d, X), NEW e \in Distributors
    PROVE  wallet'[e] = IF e = d THEN X ELSE wallet[e]
BY DEF Inv, TypeOK, Moves

LEMMA DeductedFalls ==
    ASSUME Inv, [Next]_vars,
           ~ \E d \in Distributors, k \in Cycles, x \in Shares : runDistributorSettlementForCycle(d, k, x)
    PROVE  \A d \in Distributors : wallet'[d].deducted <= wallet[d].deducted
<1> SUFFICES ASSUME NEW e \in Distributors PROVE wallet'[e].deducted <= wallet[e].deducted
  OBVIOUS
<1>1. \A d \in Distributors : wallet[d] \in Wallet /\ wallet[d].deducted \in Nat
  BY DEF Inv, TypeOK, Wallet
<1>2. ASSUME NEW d \in Distributors, NEW X \in Wallet, X.deducted <= wallet[d].deducted, Moves(d, X)
      PROVE  wallet'[e].deducted <= wallet[e].deducted
  BY <1>1, <1>2, OneMoves
<1>3. CASE wallet' = wallet
  BY <1>1, <1>3
<1>4. ASSUME NEW d \in Distributors, NEW x \in Nat, Moves(d, Recharge(wallet[d], x))
      PROVE  wallet'[e].deducted <= wallet[e].deducted
  <2>1. Recharge(wallet[d], x).deducted = wallet[d].deducted /\ Recharge(wallet[d], x) \in Wallet
    BY <1>1, WalletColumns, RechargeMove
  <2>. QED BY <1>1, <1>2, <1>4, <2>1
<1>5. ASSUME NEW c \in ClaimIds, claims[c].by \in Distributors,
             \/ Moves(claims[c].by, Freeze(wallet[claims[c].by], claims[c].deposit))
             \/ Moves(claims[c].by, Unfreeze(wallet[claims[c].by], claims[c].deposit))
      PROVE  wallet'[e].deducted <= wallet[e].deducted
  <2> DEFINE d == claims[c].by
  <2>1. claims[c].deposit \in Int
    BY DEF Inv, TypeOK, Claim
  <2>2. /\ Freeze(wallet[d], claims[c].deposit).deducted = wallet[d].deducted
        /\ Unfreeze(wallet[d], claims[c].deposit).deducted = wallet[d].deducted
    BY <1>1, <1>5, <2>1, WalletColumns
  <2>3. wallet'[e] = wallet[e] \/ wallet'[e].deducted = wallet[e].deducted
    BY <1>5, <2>2, OneMoves
  <2>. QED BY <1>1, <2>3
<1>6. ASSUME NEW a \in AbandonIds, adminApproveAbandon(a)
      PROVE  wallet'[e].deducted <= wallet[e].deducted
  <2> DEFINE d == abandons[a].by
  <2>1. d \in Distributors /\ abandons[a].refund \in Int
    BY <1>6 DEF Inv, TypeOK, AbandonInv, Abandon, adminApproveAbandon
  <2>2. Moves(d, Unfreeze(wallet[d], abandons[a].refund))
    BY <1>6 DEF adminApproveAbandon, Moves
  <2>3. Unfreeze(wallet[d], abandons[a].refund).deducted = wallet[d].deducted
    BY <1>1, <2>1, WalletColumns
  <2>4. wallet'[e] = wallet[e] \/ wallet'[e].deducted = wallet[e].deducted
    BY <2>1, <2>2, <2>3, OneMoves
  <2>. QED BY <1>1, <2>4
<1>7. ASSUME NEW d \in Distributors, NEW k \in Cycles, RejectReceipt(d, k)
      PROVE  wallet'[e].deducted <= wallet[e].deducted
  <2> DEFINE x == settlements[<<d, k>>].deducted
  <2>1. x \in Nat
    BY DEF Inv, TypeOK, Settlement
  <2>2. Moves(d, Restore(wallet[d], x))
    BY <1>7 DEF RejectReceipt, Moves
  <2>3. Restore(wallet[d], x).deducted = wallet[d].deducted - x
    BY <1>1, <2>1, WalletColumns
  <2>4. wallet'[e] = wallet[e] \/ (d = e /\ wallet'[e].deducted = wallet[e].deducted - x)
    BY <2>2, <2>3, OneMoves
  <2> HIDE DEF x
  <2>. QED BY <1>1, <2>1, <2>4
<1>. QED BY <1>3, <1>4, <1>5, <1>6, <1>7, HowWalletsMove

OffsetInv == NoOffsetYet /\ NeverOverDeducted

LEMMA OffsetInit == Init => OffsetInv
<1> SUFFICES ASSUME Init PROVE OffsetInv
  OBVIOUS
<1>1. NoOffsetYet
  BY DEF Init, NoOffsetYet, NoSettlement
<1>2. \A d \in Distributors : SumFunction(OffsetsOf(d)) \in Nat
  <2>1. \A d \in Distributors : OffsetsOf(d) \in [Cycles -> Int] /\ \A k \in Cycles : OffsetsOf(d)[k] = 0
    BY DEF Init, OffsetsOf, NoSettlement
  <2>. QED BY <2>1, DepositAssumption, TotalIsZero
<1>3. \A d \in Distributors : wallet[d].deducted = 0
  BY DEF Init, EmptyWallet
<1>. QED BY <1>1, <1>2, <1>3 DEF OffsetInv, NeverOverDeducted, OffsetsOf

LEMMA OffsetStep == Inv /\ Inv' /\ OffsetInv /\ [Next]_vars => OffsetInv'
<1> SUFFICES ASSUME Inv, Inv', OffsetInv, [Next]_vars PROVE OffsetInv'
  OBVIOUS
<1>0. \A e \in Distributors : /\ wallet[e].deducted \in Nat /\ wallet'[e].deducted \in Nat
                              /\ OffsetsOf(e) \in [Cycles -> Int] /\ OffsetsOf(e)' \in [Cycles -> Int]
                              /\ SumFunction(OffsetsOf(e)) \in Int
                              /\ wallet[e].deducted <= SumFunction(OffsetsOf(e))
  <2>1. \A e \in Distributors : wallet[e].deducted \in Nat /\ wallet'[e].deducted \in Nat
    BY DEF Inv, TypeOK, Wallet
  <2>2. \A e \in Distributors : OffsetsOf(e) \in [Cycles -> Int] /\ OffsetsOf(e)' \in [Cycles -> Int]
    BY DEF Inv, TypeOK, Settlement, OffsetsOf
  <2>3. \A e \in Distributors : SumFunction(OffsetsOf(e)) \in Int
    BY <2>2, DepositAssumption, TotalIsInt
  <2>. QED BY <2>1, <2>2, <2>3 DEF OffsetInv, NeverOverDeducted, OffsetsOf
<1>1. CASE \E d \in Distributors, k \in Cycles, x \in Shares : runDistributorSettlementForCycle(d, k, x)
  <2> PICK d \in Distributors, k \in Cycles, x \in Shares : runDistributorSettlementForCycle(d, k, x)
    BY <1>1
  <2> DEFINE offset == IF wallet[d].frozen < x THEN wallet[d].frozen ELSE x
  <2>1. wallet[d] \in Wallet /\ wallet[d].frozen \in Nat /\ x \in Nat
    BY DepositAssumption DEF Inv, TypeOK, Wallet
  <2>2. offset \in Nat
    BY <2>1
  <2>3. /\ settlements[<<d, k>>].status = "none"
        /\ Moves(d, Deduct(wallet[d], offset))
        /\ settlements' = [settlements EXCEPT ![<<d, k>>] =
              [status |-> "pending_payment", share |-> x, deducted |-> offset, payable |-> x - offset]]
    BY DEF runDistributorSettlementForCycle, Moves
  <2> HIDE DEF offset
  <2>4. \A e \in Distributors : wallet'[e].deducted =
            IF e = d THEN wallet[e].deducted + offset ELSE wallet[e].deducted
    BY <2>1, <2>2, <2>3, OneMoves, WalletColumns
  <2>5. settlements \in [Distributors \X Cycles -> Settlement] /\ <<d, k>> \in Distributors \X Cycles
    BY DEF Inv, TypeOK
  <2>6. NoOffsetYet'
    BY <2>3, <2>5 DEF OffsetInv, NoOffsetYet
  <2>7. /\ OffsetsOf(d)[k] = 0 /\ OffsetsOf(d)'[k] = offset
        /\ \A i \in Cycles : i # k => OffsetsOf(d)'[i] = OffsetsOf(d)[i]
        /\ \A e \in Distributors : e # d => OffsetsOf(e)' = OffsetsOf(e)
    BY <2>3, <2>5 DEF OffsetInv, NoOffsetYet, OffsetsOf
  <2> HIDE DEF OffsetsOf
  <2>8. SumFunction(OffsetsOf(d)') = SumFunction(OffsetsOf(d)) + offset
    <3>1. SumFunction(OffsetsOf(d)') = SumFunction(OffsetsOf(d)) + (OffsetsOf(d)'[k] - OffsetsOf(d)[k])
      BY <1>0, <2>7, DepositAssumption, TotalChange
    <3>. QED BY <2>2, <2>7, <3>1
  <2>9. \A e \in Distributors : wallet'[e].deducted <= SumFunction(OffsetsOf(e)')
    BY <1>0, <2>2, <2>4, <2>7, <2>8
  <2>. QED BY <2>6, <2>9 DEF OffsetInv, NeverOverDeducted, OffsetsOf
<1>2. CASE ~ \E d \in Distributors, k \in Cycles, x \in Shares : runDistributorSettlementForCycle(d, k, x)
  <2>1. \A s \in Distributors \X Cycles :
                 /\ settlements'[s].deducted = settlements[s].deducted
                 /\ settlements'[s].status = "none" => settlements[s].status = "none"
    BY <1>2, HowSettlementsMove
  <2>2. \A e \in Distributors : OffsetsOf(e)' = OffsetsOf(e)
    BY <2>1 DEF OffsetsOf
  <2>3. \A e \in Distributors : wallet'[e].deducted <= wallet[e].deducted
    BY <1>2, DeductedFalls
  <2>4. NoOffsetYet'
    BY <2>1 DEF OffsetInv, NoOffsetYet
  <2>5. \A e \in Distributors : wallet'[e].deducted <= SumFunction(OffsetsOf(e)')
    BY <1>0, <2>2, <2>3
  <2>. QED BY <2>4, <2>5 DEF OffsetInv, NeverOverDeducted, OffsetsOf
<1>. QED BY <1>1, <1>2

(* An approved request is never written again. *)
LEMMA ApprovedStays ==
    ASSUME Inv, [Next]_vars, NEW b \in AbandonIds, abandons[b].status = "approved"
    PROVE  abandons'[b] = abandons[b]
<1>0. abandons \in [AbandonIds -> Abandon]
  BY DEF Inv, TypeOK
<1>1. ASSUME NEW a \in AbandonIds, NEW g \in GrantIds, NEW P \in SUBSET Platforms, RequestAbandon(a, g, P)
      PROVE  a # b /\ \E new : abandons' = [abandons EXCEPT ![a] = new]
  BY <1>1 DEF RequestAbandon
<1>2. ASSUME NEW a \in AbandonIds, publisherCreateAbandon(a) \/ FailAbandon(a) \/ adminRejectAbandon(a)
      PROVE  a # b /\ \E new : abandons' = [abandons EXCEPT ![a] = new]
  BY <1>2 DEF publisherCreateAbandon, FailAbandon, adminRejectAbandon
<1>3. ASSUME NEW a \in AbandonIds, adminApproveAbandon(a)
      PROVE  a # b /\ \E new : abandons' = [abandons EXCEPT ![a] = new]
  BY <1>3 DEF adminApproveAbandon
<1>4. ASSUME NEW a \in AbandonIds, AbandonStep(a) PROVE abandons'[b] = abandons[b]
  BY <1>0, <1>1, <1>2, <1>3, <1>4 DEF AbandonStep
<1>5. ASSUME NEW c \in ClaimIds, ClaimStep(c) PROVE abandons' = abandons
  BY <1>5 DEF ClaimStep, RequestClaim, publisherCreateClaim, FailClaim, publisherPayDeposit,
     ReadSubmit,
              publisherSubmitClaim, adminApproveClaim, adminRejectClaim, adminUploadContract
<1>6. ASSUME NEW d \in Distributors, NEW k \in Cycles, SettlementStep(d, k) PROVE abandons' = abandons
  BY <1>6 DEF SettlementStep, runDistributorSettlementForCycle, publisherSubmitRemittance,
              adminConfirmDistributorSettlement, ConfirmReceipt, RejectReceipt
<1>7. ASSUME NEW d \in Distributors, NEW amount \in Amounts, Credit(d, amount) PROVE abandons' = abandons
  BY <1>7 DEF Credit
<1>8. ASSUME NEW dr \in Dramas, adminDeleteDrama(dr) PROVE abandons' = abandons
  BY <1>8 DEF adminDeleteDrama
<1>9. CASE UNCHANGED vars
  BY <1>9 DEF vars
<1>. QED BY <1>4, <1>5, <1>6, <1>7, <1>8, <1>9 DEF Next

RefundedBelowZero(e) ==
    \E a \in AbandonIds : /\ abandons[a].status = "approved" /\ abandons[a].by = e
                          /\ abandons[a].refund < 0

LEMMA OverdrawnStep == Inv /\ Inv' /\ OverdrawnByRefundOnly /\ [Next]_vars => OverdrawnByRefundOnly'
<1> SUFFICES ASSUME Inv, Inv', OverdrawnByRefundOnly, [Next]_vars, NEW e \in Distributors,
                    wallet'[e].available < 0
             PROVE  RefundedBelowZero(e)'
  BY DEF OverdrawnByRefundOnly, RefundedBelowZero
<1>1. \A d \in Distributors : wallet[d] \in Wallet /\ wallet[d].available \in Int /\ wallet'[d].available \in Int
  BY DEF Inv, TypeOK, Wallet
<1>2. CASE wallet[e].available < 0
  <2>1. PICK a \in AbandonIds : abandons[a].status = "approved" /\ abandons[a].by = e /\ abandons[a].refund < 0
    BY <1>2 DEF OverdrawnByRefundOnly
  <2>2. abandons'[a] = abandons[a]
    BY <2>1, ApprovedStays
  <2>. QED BY <2>1, <2>2 DEF RefundedBelowZero
<1> SUFFICES ASSUME wallet[e].available >= 0 PROVE RefundedBelowZero(e)'
  BY <1>1, <1>2
<1>3. wallet' # wallet
  BY <1>1
<1>4. ASSUME NEW d \in Distributors, NEW x \in Nat, Moves(d, Recharge(wallet[d], x)) PROVE FALSE
  <2>1. wallet'[e] = wallet[e] \/ (e = d /\ wallet'[e].available = wallet[e].available + x)
    BY <1>1, <1>4, OneMoves, WalletColumns
  <2>. QED BY <1>1, <2>1
<1>5. ASSUME NEW c \in ClaimIds, claims[c].by \in Distributors,
             wallet[claims[c].by].available >= claims[c].deposit,
             Moves(claims[c].by, Freeze(wallet[claims[c].by], claims[c].deposit))
      PROVE  FALSE
  <2>0. claims[c].deposit \in Nat
    BY DEF Inv, TypeOK, Claim
  <2>1. \/ wallet'[e] = wallet[e]
        \/ e = claims[c].by /\ wallet'[e].available = wallet[e].available - claims[c].deposit
    <3>1. Freeze(wallet[claims[c].by], claims[c].deposit).available
             = wallet[claims[c].by].available - claims[c].deposit
      <4>1. wallet[claims[c].by] \in Wallet /\ claims[c].deposit \in Int
        BY <1>1, <1>5, <2>0
      <4>. QED BY <4>1, WalletColumns
    <3>. QED BY <1>5, <3>1, OneMoves
  <2>. QED BY <1>1, <1>5, <2>0, <2>1
<1>6. ASSUME NEW c \in ClaimIds, claims[c].by \in Distributors,
             Moves(claims[c].by, Unfreeze(wallet[claims[c].by], claims[c].deposit))
      PROVE  FALSE
  <2>0. claims[c].deposit \in Nat
    BY DEF Inv, TypeOK, Claim
  <2>1. \/ wallet'[e] = wallet[e]
        \/ e = claims[c].by /\ wallet'[e].available = wallet[e].available + claims[c].deposit
    <3>1. Unfreeze(wallet[claims[c].by], claims[c].deposit).available
             = wallet[claims[c].by].available + claims[c].deposit
      <4>1. wallet[claims[c].by] \in Wallet /\ claims[c].deposit \in Int
        BY <1>1, <1>6, <2>0
      <4>. QED BY <4>1, WalletColumns
    <3>. QED BY <1>6, <3>1, OneMoves
  <2>. QED BY <1>1, <2>0, <2>1
<1>7. ASSUME NEW a \in AbandonIds, adminApproveAbandon(a) PROVE RefundedBelowZero(e)'
  <2>0. abandons[a].by \in Distributors /\ abandons[a].refund \in Int /\ abandons \in [AbandonIds -> Abandon]
    BY <1>7 DEF Inv, TypeOK, AbandonInv, Abandon, adminApproveAbandon
  <2>1. Moves(abandons[a].by, Unfreeze(wallet[abandons[a].by], abandons[a].refund))
    BY <1>7 DEF adminApproveAbandon, Moves
  <2>2. \/ wallet'[e] = wallet[e]
        \/ e = abandons[a].by /\ wallet'[e].available = wallet[e].available + abandons[a].refund
    BY <1>1, <2>0, <2>1, OneMoves, WalletColumns
  <2>3. e = abandons[a].by /\ abandons[a].refund < 0
    BY <1>1, <2>0, <2>2
  <2>4. abandons' = [abandons EXCEPT ![a].status = "approved"]
    BY <1>7 DEF adminApproveAbandon
  <2>5. abandons'[a].status = "approved" /\ abandons'[a].by = e /\ abandons'[a].refund < 0
    BY <2>0, <2>3, <2>4 DEF Abandon
  <2>. QED BY <2>5 DEF RefundedBelowZero
<1>8. ASSUME NEW d \in Distributors, NEW k \in Cycles, NEW x \in Shares,
             runDistributorSettlementForCycle(d, k, x)
      PROVE  FALSE
  <2> DEFINE offset == IF wallet[d].frozen < x THEN wallet[d].frozen ELSE x
  <2>1. offset \in Int
    BY DepositAssumption DEF Inv, TypeOK, Wallet
  <2>2. Moves(d, Deduct(wallet[d], offset))
    BY <1>8 DEF runDistributorSettlementForCycle, Moves
  <2> HIDE DEF offset
  <2>3. wallet'[e].available = wallet[e].available
    <3>1. Deduct(wallet[d], offset).available = wallet[d].available
      BY <1>1, <2>1, WalletColumns
    <3>. QED BY <2>2, <3>1, OneMoves
  <2>. QED BY <1>1, <2>3
<1>9. ASSUME NEW d \in Distributors, NEW k \in Cycles, RejectReceipt(d, k) PROVE FALSE
  <2>1. settlements[<<d, k>>].deducted \in Int
    BY DEF Inv, TypeOK, Settlement
  <2>2. Moves(d, Restore(wallet[d], settlements[<<d, k>>].deducted))
    BY <1>9 DEF RejectReceipt, Moves
  <2>3. wallet'[e].available = wallet[e].available
    <3>1. Restore(wallet[d], settlements[<<d, k>>].deducted).available = wallet[d].available
      BY <1>1, <2>1, WalletColumns
    <3>. QED BY <2>2, <3>1, OneMoves
  <2>. QED BY <1>1, <2>3
<1>. QED BY <1>3, <1>4, <1>5, <1>6, <1>7, <1>8, <1>9, HowWalletsMove

(* A cycle never takes more from a deposit than its settlement says, and   *)
(* an account is below zero only for a refund that was: however claims,    *)
(* abandons, settlements and returns interleave, deleted dramas included.  *)
THEOREM NothingDrawnWithoutRow == Spec => []DeductionsCovered
<1>1. Init => OverdrawnByRefundOnly
  BY DEF Init, EmptyWallet, OverdrawnByRefundOnly
<1>3. Init => OffsetInv /\ OverdrawnByRefundOnly
  BY <1>1, OffsetInit
<1>4. Inv /\ Inv' /\ (OffsetInv /\ OverdrawnByRefundOnly) /\ [Next]_vars => (OffsetInv /\ OverdrawnByRefundOnly)'
  BY OffsetStep, OverdrawnStep
<1>5. OffsetInv /\ OverdrawnByRefundOnly => DeductionsCovered
  BY DEF OffsetInv, DeductionsCovered
<1>. QED BY <1>3, <1>4, <1>5, InvHolds, PTL DEF Spec

-----------------------------------------------------------------------------
(***************************************************************************)
(* Whose the platforms are, however the requests cross.  What a claim in   *)
(* time counts for is what it and its grants hold; a step takes from it or *)
(* leaves it, but for the insert of a claim.  A request in time has been   *)
(* overtaken by no other: its platforms are still free when it is written. *)
(***************************************************************************)
CountsFor(c) == IF c \in InTime THEN RightsThrough(c) ELSE {}

LEMMA Standing ==
    /\ \A r : r \in StandingRights <=> \E c \in ClaimIds : r \in CountsFor(c)
    /\ ExclusiveUnlessLate <=>
          \A c, x \in ClaimIds : \A r \in CountsFor(c), s \in CountsFor(x) :
              r[2] = s[2] /\ r[3] = s[3] => r[1] = s[1]
BY DEF StandingRights, ExclusiveUnlessLate, CountsFor, InTime

(* The rights through a claim are its distributor's, on its drama.         *)
LEMMA ThroughClaim ==
    ASSUME Inv, NEW c \in ClaimIds, NEW r \in RightsThrough(c)
    PROVE  /\ r \in RightsOf(claims[c])
           /\ r \in Distributors \X Dramas \X Platforms
           /\ r[1] = claims[c].by /\ r[2] = claims[c].drama /\ r[3] \in claims[c].platforms
<1>1. c # None /\ claims[c] \in Claim
  BY DepositAssumption DEF Inv, TypeOK
<1>2. CASE \E g \in GrantIds : LiveGrant(g) /\ grants[g].claim = c /\ r \in RightsOf(grants[g])
  <2>1. PICK g \in GrantIds : LiveGrant(g) /\ grants[g].claim = c /\ r \in RightsOf(grants[g])
    BY <1>2
  <2>2. /\ grants[g].by = claims[c].by /\ grants[g].drama = claims[c].drama
        /\ grants[g].platforms \subseteq claims[c].platforms
        /\ claims[c].by \in Distributors /\ claims[c].drama \in Dramas
    BY <1>1, <2>1 DEF Inv, GrantInv
  <2>. QED BY <1>1, <2>1, <2>2 DEF RightsOf, Claim
<1>3. CASE LiveClaim(c) /\ r \in RightsOf(claims[c])
  <2>1. claims[c].by \in Distributors /\ claims[c].drama \in Dramas
    BY <1>3 DEF Inv, ClaimInv, LiveClaim
  <2>. QED BY <1>1, <1>3, <2>1 DEF RightsOf, Claim
<1>. QED BY <1>2, <1>3 DEF RightsThrough

(* A claim that is not in the database stands for nothing.                 *)
LEMMA NothingThrough ==
    ASSUME Inv, NEW c \in ClaimIds, claims[c].status \in {"none", "requested", "deleted"}
    PROVE  RightsThrough(c) = {}
<1>1. c # None
  BY DepositAssumption
<1>. QED BY <1>1 DEF RightsThrough, LiveClaim, Inv, GrantInv, Granted

LEMMA RightsType == Inv => StandingRights \subseteq Distributors \X Dramas \X Platforms
BY Standing, ThroughClaim DEF CountsFor

(* A request finds its platforms free, and nobody gets there before it.    *)
RequestIsFree ==
    \A c \in InTime : claims[c].status = "requested" =>
        \A r \in StandingRights : ~(r[2] = claims[c].drama /\ r[3] \in claims[c].platforms)

ExclusiveInv == RequestIsFree /\ ExclusiveUnlessLate

(* The check of publisherCreateClaim.                                      *)
LEMMA UnoccupiedIsFree ==
    ASSUME Inv, NEW dr, NEW r \in StandingRights, r[2] = dr
    PROVE  r[3] \in getOccupiedPlatforms(dr)
<1>1. PICK c \in ClaimIds : r \in RightsThrough(c)
  BY Standing DEF CountsFor
<1>. QED BY <1>1 DEF RightsThrough, RightsOf, getOccupiedPlatforms

(* A step that leaves a claim, its grants and its marks alone.             *)
LEMMA CountsAlone ==
    ASSUME NEW c \in ClaimIds, claims'[c] = claims[c],
           \A m \in Marks : <<c, m>> \in late' <=> <<c, m>> \in late,
           \A g \in GrantIds : /\ grants[g].claim = c => grants'[g] = grants[g]
                               /\ grants'[g].claim = c => grants[g].claim = c
    PROVE  CountsFor(c)' = CountsFor(c) /\ (c \in InTime)' = (c \in InTime)
<1>1. (c \in InTime)' <=> c \in InTime
  BY DEF InTime, LateBy, Marks
<1>2. {x \in GrantIds : LiveGrant(x) /\ grants[x].claim = c}'
        = {x \in GrantIds : LiveGrant(x) /\ grants[x].claim = c}
  BY DEF LiveGrant
<1>3. {RightsOf(grants[g]) : g \in {x \in GrantIds : LiveGrant(x) /\ grants[x].claim = c}}'
        = {RightsOf(grants[g]) : g \in {x \in GrantIds : LiveGrant(x) /\ grants[x].claim = c}}
  BY <1>2 DEF RightsOf
<1>4. {RightsOf(claims[x]) : x \in {y \in {c} : LiveClaim(y)}}'
        = {RightsOf(claims[x]) : x \in {y \in {c} : LiveClaim(y)}}
  BY DEF RightsOf, LiveClaim
<1>5. RightsThrough(c)' = RightsThrough(c)
  BY <1>3, <1>4 DEF RightsThrough
<1>. QED BY <1>1, <1>5 DEF CountsFor

(* A step of claim c that takes nothing new.                               *)
OthersCount(c) ==
    \A x \in ClaimIds : x # c =>
        /\ CountsFor(x)' = CountsFor(x)
        /\ (x \in InTime)' <=> x \in InTime
        /\ claims'[x] = claims[x]

TakesNothing(c) == OthersCount(c) /\ CountsFor(c)' \subseteq CountsFor(c)

RequestFree(c) ==
    \A r \in StandingRights : ~(r[2] = claims[c].drama /\ r[3] \in claims[c].platforms)

LEMMA ExclusiveKept ==
    ASSUME ExclusiveInv, NEW c \in ClaimIds, TakesNothing(c),
           claims'[c].status = "requested" => RequestFree(c)'
    PROVE  ExclusiveInv'
<1>1. \A x \in ClaimIds : CountsFor(x)' \subseteq CountsFor(x)
  BY DEF TakesNothing, OthersCount
<1>2. ExclusiveUnlessLate'
  <2>1. \A d, x \in ClaimIds : \A r \in CountsFor(d)', s \in CountsFor(x)' :
            r[2] = s[2] /\ r[3] = s[3] => r[1] = s[1]
    BY <1>1, Standing DEF ExclusiveInv
  <2>. QED BY <2>1 DEF ExclusiveUnlessLate, CountsFor, InTime
<1>3. StandingRights' \subseteq StandingRights
  <2>1. \A r : r \in StandingRights' => \E x \in ClaimIds : r \in CountsFor(x)'
    BY DEF StandingRights, CountsFor, InTime
  <2>. QED BY <1>1, <2>1, Standing
<1>4. RequestIsFree'
  <2> SUFFICES ASSUME NEW x \in ClaimIds, (x \in InTime)', claims'[x].status = "requested"
               PROVE  RequestFree(x)'
    BY DEF RequestIsFree, RequestFree, InTime
  <2>1. CASE x # c
    BY <1>3, <2>1 DEF TakesNothing, OthersCount, ExclusiveInv, RequestIsFree, RequestFree
  <2>. QED BY <2>1
<1>. QED BY <1>2, <1>4 DEF ExclusiveInv

(* The registry, written out.                                              *)
LEMMA RegistryForm ==
    /\ Registry!RegistryNext <=>
          \E d \in Distributors, dr \in Dramas, P \in SUBSET Platforms :
              Registry!Acquire(d, dr, P) \/ Registry!Release(d, dr, P) \/ Registry!Withdraw(dr)
    /\ \A d, dr, P :
          /\ Registry!Acquire(d, dr, P) <=>
                /\ StandingRights \cap (Distributors \X {dr} \X P) = {}
                /\ StandingRights' = StandingRights \cup ({d} \X {dr} \X P)
          /\ Registry!Release(d, dr, P) <=> StandingRights' = StandingRights \ ({d} \X {dr} \X P)
          /\ Registry!Withdraw(dr) <=>
                StandingRights' = StandingRights \ (Distributors \X {dr} \X Platforms)
BY DEF Registry!RegistryNext, Registry!Acquire, Registry!Release, Registry!Withdraw, Registry!Free,
       Registry!Rights

Registered == Registry!RegistryNext \/ UNCHANGED StandingRights

(* What a claim gives up belonged to its distributor, for its drama.       *)
LEMMA GivesUp ==
    ASSUME Inv, NEW c \in ClaimIds, TakesNothing(c)
    PROVE  Registered
<1> DEFINE e == claims[c].by
           er == claims[c].drama
           Lost == StandingRights \ StandingRights'
           P == {p \in Platforms : <<e, er, p>> \in Lost}
<1>0. \A r : r \in StandingRights' <=> \E x \in ClaimIds : r \in CountsFor(x)'
  BY DEF StandingRights, CountsFor, InTime
<1>1. StandingRights' \subseteq StandingRights
  BY <1>0, Standing DEF TakesNothing, OthersCount
<1>2. Lost = {e} \X {er} \X P
  <2>1. ASSUME NEW r \in Lost PROVE r \in {e} \X {er} \X P
    <3>1. r \in CountsFor(c)
      BY <1>0, Standing DEF TakesNothing, OthersCount
    <3>2. r \in RightsThrough(c)
      BY <3>1 DEF CountsFor
    <3>3. r \in Distributors \X Dramas \X Platforms /\ r[1] = e /\ r[2] = er
      BY <3>2, ThroughClaim
    <3>4. r = <<e, er, r[3]>> /\ r[3] \in Platforms
      BY <3>3
    <3>. QED BY <2>1, <3>4
  <2>2. ASSUME NEW r \in {e} \X {er} \X P PROVE r \in Lost
    BY <2>2
  <2>. QED BY <2>1, <2>2
<1>3. CASE Lost = {}
  BY <1>1, <1>3 DEF Registered
<1>4. CASE Lost # {}
  <2>1. PICK r \in Lost : TRUE
    BY <1>4
  <2>2. r \in Distributors \X Dramas \X Platforms /\ r \in {e} \X {er} \X P
    BY <1>2, <2>1, RightsType
  <2>3. e \in Distributors /\ er \in Dramas /\ P \in SUBSET Platforms
    BY <2>2
  <2>4. StandingRights' = StandingRights \ ({e} \X {er} \X P)
    BY <1>1, <1>2
  <2>. HIDE DEF e, er, P, Lost
  <2>. QED BY <2>3, <2>4, RegistryForm DEF Registered
<1>. QED BY <1>3, <1>4

-----------------------------------------------------------------------------
(* What each step does to the rights.                                      *)

SameClaim(x, y) == x.by = y.by /\ x.drama = y.drama /\ x.platforms = y.platforms

(* A claim that goes on, or not, and whose grants keep what they had.      *)
LEMMA TakesNothingNew ==
    ASSUME Inv, NEW c \in ClaimIds,
           \A x \in ClaimIds : x # c => claims'[x] = claims[x],
           \A x \in ClaimIds, m \in Marks : x # c => (<<x, m>> \in late' <=> <<x, m>> \in late),
           \A g \in GrantIds : /\ grants'[g].claim = grants[g].claim
                               /\ grants[g].claim # c => grants'[g] = grants[g],
           c \in InTime' => \/ c \in InTime /\ RightsThrough(c)' \subseteq RightsThrough(c)
                            \/ RightsThrough(c)' = {}
    PROVE  TakesNothing(c)
<1>1. ASSUME NEW x \in ClaimIds, x # c
      PROVE  CountsFor(x)' = CountsFor(x) /\ (x \in InTime)' = (x \in InTime)
  BY <1>1, CountsAlone
<1>2. CountsFor(c)' \subseteq CountsFor(c)
  BY DEF CountsFor, InTime
<1>. QED BY <1>1, <1>2 DEF TakesNothing, OthersCount

LEMMA RequestTakes ==
    ASSUME Inv, Inv', NEW c \in ClaimIds, NEW d \in Distributors, NEW dr \in Dramas,
           NEW Q \in SUBSET Platforms, RequestClaim(c, d, dr, Q)
    PROVE  TakesNothing(c) /\ RequestFree(c)'
<1>1. /\ claims'[c].status = "requested" /\ claims'[c].drama = dr /\ claims'[c].platforms = Q
      /\ \A x \in ClaimIds : x # c => claims'[x] = claims[x]
      /\ grants' = grants /\ late' = late /\ Q \cap getOccupiedPlatforms(dr) = {}
  BY DEF RequestClaim, Inv, TypeOK
<1>2. RightsThrough(c)' = {}
  <2>1. c # None /\ GrantInv'
    BY DepositAssumption DEF Inv
  <2>. QED BY <1>1, <2>1 DEF RightsThrough, LiveClaim, GrantInv, Granted
<1>3. TakesNothing(c)
  BY <1>1, <1>2, TakesNothingNew
<1>4. StandingRights' \subseteq StandingRights
  <2>1. \A r : r \in StandingRights' => \E x \in ClaimIds : r \in CountsFor(x)'
    BY DEF StandingRights, CountsFor, InTime
  <2>. QED BY <1>3, <2>1, Standing DEF TakesNothing, OthersCount
<1>. QED BY <1>1, <1>3, <1>4, UnoccupiedIsFree DEF RequestFree

LEMMA FailTakes ==
    ASSUME Inv, Inv', NEW c \in ClaimIds, FailClaim(c)
    PROVE  TakesNothing(c) /\ claims'[c].status # "requested"
<1>1. /\ claims'[c].status = "none" /\ grants' = grants
      /\ \A x \in ClaimIds : x # c => claims'[x] = claims[x]
      /\ \A x \in ClaimIds, m \in Marks : x # c => (<<x, m>> \in late' <=> <<x, m>> \in late)
  BY DEF FailClaim, NoClaim, Inv, TypeOK
<1>2. RightsThrough(c)' = {}
  <2>1. c # None /\ GrantInv'
    BY DepositAssumption DEF Inv
  <2>. QED BY <1>1, <2>1 DEF RightsThrough, LiveClaim, GrantInv, Granted
<1>. QED BY <1>1, <1>2, TakesNothingNew

LEMMA DecisionTakes ==
    ASSUME Inv, NEW c \in ClaimIds,
           publisherPayDeposit(c) \/ ReadSubmit(c) \/ publisherSubmitClaim(c) \/ adminRejectClaim(c)
    PROVE  TakesNothing(c) /\ claims'[c].status # "requested"
<1>0. claims \in [ClaimIds -> Claim]
  BY DEF Inv, TypeOK
<1>1. /\ grants' = grants /\ SameClaim(claims'[c], claims[c]) /\ claims'[c].status # "requested"
      /\ \A x \in ClaimIds : x # c => claims'[x] = claims[x]
      /\ \A x \in ClaimIds, m \in Marks : x # c => (<<x, m>> \in late' <=> <<x, m>> \in late)
      /\ late \subseteq late'
  <2>1. CASE publisherPayDeposit(c) \/ adminRejectClaim(c)
    BY <1>0, <2>1 DEF publisherPayDeposit, adminRejectClaim, SameClaim, Claim
  <2>2. CASE ReadSubmit(c)
    BY <1>0, <2>2 DEF ReadSubmit, SameClaim, Claim
  <2>3. CASE publisherSubmitClaim(c)
    <3>1. claims[c].status # "requested"
      BY <2>3 DEF publisherSubmitClaim, Inv, TypeOK, ClaimInv
    <3>. QED BY <1>0, <2>3, <3>1 DEF publisherSubmitClaim, SameClaim, Claim
  <2>. QED BY <2>1, <2>2, <2>3
<1>2. c \in InTime' => c \in InTime /\ (LiveClaim(c)' => LiveClaim(c))
  <2>1. c \in InTime' => c \in InTime
    BY <1>1 DEF InTime, LateBy
  <2>2. CASE publisherPayDeposit(c) \/ ReadSubmit(c)
    BY <2>1, <2>2 DEF publisherPayDeposit, ReadSubmit, LiveClaim
  <2>3. CASE adminRejectClaim(c)
    BY <1>0, <2>1, <2>3 DEF adminRejectClaim, LiveClaim, Claim
  <2>4. CASE publisherSubmitClaim(c)
    <3>1. CASE claims[c].status \in {"authorization_pending", "review_pending"}
      BY <2>1, <3>1 DEF LiveClaim
    <3>2. CASE claims[c].status = "deleted"
      BY <2>1, <2>4, <3>2 DEF publisherSubmitClaim, LiveClaim
    <3>3. CASE claims[c].status \notin {"authorization_pending", "review_pending", "deleted"}
      BY <2>4, <3>3 DEF publisherSubmitClaim, InTime, LateBy
    <3>. QED BY <3>1, <3>2, <3>3
  <2>. QED BY <2>2, <2>3, <2>4
<1>3. (LiveClaim(c)' => LiveClaim(c)) => RightsThrough(c)' \subseteq RightsThrough(c)
  BY <1>1 DEF RightsThrough, RightsOf, LiveGrant, SameClaim
<1>. QED BY <1>1, <1>2, <1>3, TakesNothingNew

LEMMA ApprovalTakes ==
    ASSUME Inv, NEW c \in ClaimIds, NEW g \in GrantIds, adminApproveClaim(c, g)
    PROVE  TakesNothing(c) /\ claims'[c].status # "requested"
<1>0. claims \in [ClaimIds -> Claim] /\ grants \in [GrantIds -> Grant] /\ c # None
  BY DepositAssumption DEF Inv, TypeOK
<1>1. /\ LiveClaim(c) /\ claims'[c].status = "contract_pending" /\ SameClaim(claims'[c], claims[c])
      /\ \A x \in ClaimIds : x # c => claims'[x] = claims[x]
      /\ late' = late /\ grants[g].status = "none" /\ RightsOf(grants'[g]) = RightsOf(claims[c])
      /\ grants'[g].claim = c
      /\ \A h \in GrantIds : h # g => grants'[h] = grants[h]
  BY <1>0 DEF adminApproveClaim, LiveClaim, SameClaim, RightsOf, Claim
<1>2. grants[g].claim = None
  BY <1>1 DEF Inv, GrantInv
<1>3. RightsThrough(c)' \subseteq RightsThrough(c)
  <2>1. \A h \in GrantIds : h # g => RightsOf(grants'[h]) = RightsOf(grants[h]) /\ LiveGrant(h)' = LiveGrant(h)
    BY <1>1 DEF LiveGrant
  <2>2. RightsOf(claims'[c]) = RightsOf(claims[c]) /\ RightsOf(claims[c]) \subseteq RightsThrough(c)
    BY <1>1 DEF RightsOf, SameClaim, RightsThrough
  <2>3. \A h \in GrantIds : h # g /\ LiveGrant(h) /\ grants[h].claim = c
                               => RightsOf(grants[h]) \subseteq RightsThrough(c)
    BY DEF RightsThrough
  <2>4. ASSUME NEW r \in RightsThrough(c)' PROVE r \in RightsThrough(c)
    <3>1. \/ \E h \in GrantIds : LiveGrant(h)' /\ grants'[h].claim = c /\ r \in RightsOf(grants'[h])
          \/ r \in RightsOf(claims'[c])
      BY <2>4 DEF RightsThrough, RightsOf
    <3>. QED BY <1>1, <2>1, <2>2, <2>3, <3>1
  <2>. QED BY <2>4
<1>4. c \in InTime' => c \in InTime
  BY <1>1 DEF InTime, LateBy
<1>5. ASSUME NEW x \in ClaimIds, x # c
      PROVE  CountsFor(x)' = CountsFor(x) /\ (x \in InTime)' = (x \in InTime)
  <2>1. x # None
    BY DepositAssumption
  <2>. QED BY <1>1, <1>2, <1>5, <2>1, CountsAlone
<1>6. CountsFor(c)' \subseteq CountsFor(c)
  BY <1>3, <1>4 DEF CountsFor, InTime
<1>. QED BY <1>1, <1>5, <1>6 DEF TakesNothing, OthersCount

(* The contract brings back nothing that the claim did not hold until then. *)
LEMMA ContractTakes ==
    ASSUME Inv, Inv', NEW c \in ClaimIds, adminUploadContract(c)
    PROVE  TakesNothing(c) /\ claims'[c].status # "requested"
<1>0. claims \in [ClaimIds -> Claim] /\ \A g \in GrantIds : grants[g] \in Grant
  BY DEF Inv, TypeOK
<1>1. /\ LiveClaim(c) /\ claims'[c].status = "completed" /\ SameClaim(claims'[c], claims[c])
      /\ \A x \in ClaimIds : x # c => claims'[x] = claims[x]
      /\ \A x \in ClaimIds, m \in Marks : x # c => (<<x, m>> \in late' <=> <<x, m>> \in late)
      /\ late \subseteq late'
  BY <1>0 DEF adminUploadContract, LiveClaim, SameClaim, Claim
<1>2. \A g \in GrantIds : /\ grants'[g].claim = grants[g].claim
                          /\ grants[g].claim # c => grants'[g] = grants[g]
  BY <1>0 DEF adminUploadContract, Grant
<1>3. c \in InTime' => c \in InTime
  BY <1>1 DEF InTime, LateBy
<1>4. RightsThrough(c)' \subseteq RightsThrough(c)
  <2>1. ASSUME NEW r \in RightsThrough(c)' PROVE r \in RightsOf(claims[c])
    <3>1. r \in RightsOf(claims'[c])
      <4>1. c # None /\ GrantInv'
        BY DepositAssumption DEF Inv
      <4>2. \/ \E h \in GrantIds : LiveGrant(h)' /\ grants'[h].claim = c /\ r \in RightsOf(grants'[h])
            \/ r \in RightsOf(claims'[c])
        BY <2>1 DEF RightsThrough, RightsOf
      <4>3. \A h \in GrantIds : grants'[h].claim = c => RightsOf(grants'[h]) \subseteq RightsOf(claims'[c])
        BY <4>1 DEF GrantInv, RightsOf
      <4>. QED BY <4>2, <4>3
    <3>. QED BY <1>1, <3>1 DEF RightsOf, SameClaim
  <2>2. RightsOf(claims[c]) \subseteq RightsThrough(c)
    BY <1>1 DEF RightsThrough
  <2>. QED BY <2>1, <2>2
<1>. QED BY <1>1, <1>2, <1>3, <1>4, TakesNothingNew

LEMMA AbandonTakes ==
    ASSUME Inv, NEW a \in AbandonIds, adminApproveAbandon(a)
    PROVE  \E c \in ClaimIds : TakesNothing(c) /\ claims'[c].status # "requested"
<1>. PICK g \in GrantIds : g = abandons[a].grant
  BY DEF Inv, TypeOK, AbandonInv, adminApproveAbandon
<1>0. grants \in [GrantIds -> Grant] /\ LiveGrant(g) /\ grants[g] \in Grant
  BY DEF Inv, TypeOK, adminApproveAbandon
<1>. PICK c \in ClaimIds : c = grants[g].claim
  BY <1>0 DEF Inv, GrantInv, Grant
<1>1. /\ claims' = claims /\ late \subseteq late'
      /\ \A x \in ClaimIds, m \in Marks : x # c => (<<x, m>> \in late' <=> <<x, m>> \in late)
      /\ \A h \in GrantIds : h # g => grants'[h] = grants[h]
      /\ grants'[g] = AfterAbandon(g, a)
  BY <1>0 DEF adminApproveAbandon
<1>2. /\ grants'[g].claim = c /\ grants'[g].by = grants[g].by /\ grants'[g].drama = grants[g].drama
      /\ grants'[g].platforms \subseteq grants[g].platforms
  BY <1>0, <1>1 DEF AfterAbandon, Grant
<1>3. RightsOf(grants'[g]) \subseteq RightsOf(grants[g])
  BY <1>2 DEF RightsOf
<1>4. RightsThrough(c)' \subseteq RightsThrough(c)
  <2>1. ASSUME NEW r \in RightsThrough(c)' PROVE r \in RightsThrough(c)
    <3>1. \/ \E h \in GrantIds : LiveGrant(h)' /\ grants'[h].claim = c /\ r \in RightsOf(grants'[h])
          \/ LiveClaim(c)' /\ r \in RightsOf(claims'[c])
      BY <2>1 DEF RightsThrough, RightsOf
    <3>2. \/ \E h \in GrantIds : LiveGrant(h) /\ grants[h].claim = c /\ r \in RightsOf(grants[h])
          \/ LiveClaim(c) /\ r \in RightsOf(claims[c])
      BY <1>0, <1>1, <1>3, <3>1 DEF LiveGrant, LiveClaim
    <3>. QED BY <3>2 DEF RightsThrough
  <2>. QED BY <2>1
<1>5. c \in InTime' => c \in InTime
  BY <1>1 DEF InTime, LateBy
<1>6. \A h \in GrantIds : /\ grants'[h].claim = grants[h].claim
                          /\ grants[h].claim # c => grants'[h] = grants[h]
  BY <1>1, <1>2
<1>7. claims[c].status # "requested"
  BY <1>0 DEF Inv, GrantInv, Granted
<1>. QED BY <1>1, <1>4, <1>5, <1>6, <1>7, TakesNothingNew

(* The deletion of a drama takes its rights from everybody.                *)
LEMMA DeletionTakes ==
    ASSUME Inv, Inv', NEW dr \in Dramas, adminDeleteDrama(dr), NEW c \in ClaimIds
    PROVE  /\ c \in InTime' <=> c \in InTime
           /\ claims'[c].status = "requested" => claims'[c] = claims[c]
           /\ \A r : r \in CountsFor(c)' <=> r \in CountsFor(c) /\ r[2] # dr
<1>0. /\ late' = late /\ c # None
      /\ claims'[c] = IF claims[c].drama = dr /\ claims[c].status # "requested"
                      THEN [NoClaim EXCEPT !.status = "deleted"] ELSE claims[c]
      /\ \A g \in GrantIds : grants'[g] = IF grants[g].drama = dr THEN [NoGrant EXCEPT !.status = "deleted"]
                                          ELSE grants[g]
  BY DepositAssumption DEF adminDeleteDrama
<1>1. c \in InTime' <=> c \in InTime
  BY <1>0 DEF InTime, LateBy
<1>2. claims'[c].status = "requested" => claims'[c] = claims[c]
  BY <1>0 DEF NoClaim
<1>3. CASE claims[c].drama = dr
  <2>1. claims'[c].status \in {"none", "requested", "deleted"}
    BY <1>0, <1>3 DEF NoClaim
  <2>2. GrantInv'
    BY DEF Inv
  <2>3. RightsThrough(c)' = {}
    BY <1>0, <2>1, <2>2 DEF RightsThrough, LiveClaim, GrantInv, Granted
  <2>4. \A r \in RightsThrough(c) : r[2] = dr
    BY <1>3, ThroughClaim
  <2>. QED BY <1>1, <1>2, <2>3, <2>4 DEF CountsFor, InTime
<1>4. CASE claims[c].drama # dr
  <2>1. claims'[c] = claims[c]
    BY <1>0, <1>4
  <2>2. \A g \in GrantIds : grants[g].claim = c => grants'[g] = grants[g]
    BY <1>0, <1>4 DEF Inv, GrantInv
  <2>3. \A g \in GrantIds : grants'[g].claim = c => grants[g].claim = c
    BY <1>0 DEF NoGrant
  <2>4. CountsFor(c)' = CountsFor(c)
    BY <1>0, <2>1, <2>2, <2>3, CountsAlone
  <2>5. \A r \in CountsFor(c) : r[2] # dr
    BY <1>4, ThroughClaim DEF CountsFor
  <2>. QED BY <1>1, <1>2, <2>4, <2>5
<1>. QED BY <1>3, <1>4

(* The insert of a claim takes what it checked; whoever checked the same   *)
(* before is late from now on.                                             *)
LEMMA InsertTakes ==
    ASSUME Inv, Inv', NEW c \in ClaimIds, publisherCreateClaim(c)
    PROVE  /\ claims[c].status = "requested" /\ claims'[c].status = "review_pending"
           /\ CountsFor(c) = {} /\ CountsFor(c)' = IF c \in InTime THEN RightsOf(claims[c]) ELSE {}
           /\ \A x \in ClaimIds : x # c =>
                 /\ CountsFor(x)' = CountsFor(x) /\ claims'[x] = claims[x]
                 /\ x \in InTime' => x \in InTime /\ x \notin Overtaken(c)
<1>0. /\ claims \in [ClaimIds -> Claim] /\ c # None
  BY DepositAssumption DEF Inv, TypeOK
<1>1. /\ claims[c].status = "requested" /\ claims'[c].status = "review_pending"
      /\ SameClaim(claims'[c], claims[c]) /\ grants' = grants
      /\ \A x \in ClaimIds : x # c => claims'[x] = claims[x]
      /\ late' = late \cup (Overtaken(c) \X {"insert"}) /\ c \notin Overtaken(c)
  BY <1>0 DEF publisherCreateClaim, SameClaim, Claim, Overtaken
<1>2. RightsThrough(c) = {}
  BY <1>1, NothingThrough
<1>3. RightsThrough(c)' = RightsOf(claims[c])
  <2>1. \A g \in GrantIds : grants[g].claim # c
    BY <1>0, <1>1 DEF Inv, GrantInv, Granted
  <2>2. LiveClaim(c)' /\ RightsOf(claims'[c]) = RightsOf(claims[c])
    BY <1>1 DEF LiveClaim, RightsOf, SameClaim
  <2>. QED BY <1>1, <2>1, <2>2 DEF RightsThrough
<1>4. c \in InTime' <=> c \in InTime
  BY <1>1 DEF InTime, LateBy
<1>5. ASSUME NEW x \in ClaimIds, x # c
      PROVE  /\ CountsFor(x)' = CountsFor(x)
             /\ x \in InTime' => x \in InTime /\ x \notin Overtaken(c)
  <2>1. x \in InTime' => x \in InTime /\ x \notin Overtaken(c)
    BY <1>1 DEF InTime, LateBy
  <2>2. CASE x \in Overtaken(c)
    <3>1. claims[x].status = "requested" /\ claims'[x] = claims[x]
      BY <1>1, <1>5, <2>2 DEF Overtaken
    <3>2. RightsThrough(x) = {}
      BY <3>1, NothingThrough
    <3>. QED BY <2>1, <2>2, <3>2 DEF CountsFor, InTime
  <2>3. CASE x \notin Overtaken(c)
    <3>1. \A m \in Marks : <<x, m>> \in late' <=> <<x, m>> \in late
      BY <1>1, <2>3
    <3>2. CountsFor(x)' = CountsFor(x)
      BY <1>1, <1>5, <3>1, CountsAlone
    <3>. QED BY <2>1, <3>2
  <2>. QED BY <2>2, <2>3
<1>. QED BY <1>1, <1>2, <1>3, <1>4, <1>5 DEF CountsFor, InTime

-----------------------------------------------------------------------------
(* A step other than the insert of a claim and the deletion of a drama     *)
(* takes from one claim, or leaves all as they were.                       *)
QuietRights == UNCHANGED <<claims, grants, late>>

LEMMA StepTakes ==
    ASSUME Inv, Inv', [Next]_vars,
           ~ \E c \in ClaimIds : publisherCreateClaim(c), ~ \E dr \in Dramas : adminDeleteDrama(dr)
    PROVE  \/ QuietRights
           \/ \E c \in ClaimIds : /\ TakesNothing(c)
                                  /\ claims'[c].status # "requested" \/ RequestFree(c)'
<1> DEFINE Takes == \E c \in ClaimIds : /\ TakesNothing(c)
                                        /\ claims'[c].status # "requested" \/ RequestFree(c)'
<1>1. ASSUME NEW c \in ClaimIds, ClaimStep(c) PROVE Takes
  BY <1>1, RequestTakes, FailTakes, DecisionTakes, ApprovalTakes, ContractTakes DEF ClaimStep
<1>2. ASSUME NEW a \in AbandonIds, AbandonStep(a) PROVE Takes \/ QuietRights
  <2>1. CASE adminApproveAbandon(a)
    BY <2>1, AbandonTakes
  <2>2. CASE ~adminApproveAbandon(a)
    BY <1>2, <2>2 DEF AbandonStep, RequestAbandon, publisherCreateAbandon, FailAbandon,
                      adminRejectAbandon, QuietRights
  <2>. QED BY <2>1, <2>2
<1>3. ASSUME NEW d \in Distributors, NEW amount \in Amounts, Credit(d, amount) PROVE QuietRights
  BY <1>3 DEF Credit, QuietRights
<1>4. ASSUME NEW d \in Distributors, NEW k \in Cycles, SettlementStep(d, k) PROVE QuietRights
  BY <1>4 DEF SettlementStep, runDistributorSettlementForCycle, publisherSubmitRemittance,
              adminConfirmDistributorSettlement, ConfirmReceipt, RejectReceipt, QuietRights
<1>5. CASE UNCHANGED vars
  BY <1>5 DEF vars, QuietRights
<1>. QED BY <1>1, <1>2, <1>3, <1>4, <1>5 DEF Next

LEMMA QuietKeeps ==
    ASSUME QuietRights
    PROVE  /\ UNCHANGED StandingRights
           /\ ExclusiveInv => ExclusiveInv'
<1>1. /\ claims' = claims /\ grants' = grants /\ late' = late
  BY DEF QuietRights
<1>2. UNCHANGED StandingRights /\ UNCHANGED InTime
  BY <1>1 DEF StandingRights, RightsThrough, RightsOf, LiveGrant, LiveClaim, InTime, LateBy
<1>3. \A c \in ClaimIds : RightsThrough(c)' = RightsThrough(c)
  BY <1>1 DEF RightsThrough, RightsOf, LiveGrant, LiveClaim
<1>4. ExclusiveUnlessLate => ExclusiveUnlessLate'
  BY <1>2, <1>3 DEF ExclusiveUnlessLate, InTime
<1>. QED BY <1>1, <1>2, <1>4 DEF ExclusiveInv, RequestIsFree

(* The requests that a claim overtakes are those that it would meet.       *)
LEMMA ExclusiveByInsert ==
    ASSUME Inv, Inv', ExclusiveInv, NEW c \in ClaimIds, publisherCreateClaim(c)
    PROVE  ExclusiveInv'
<1> DEFINE New == RightsOf(claims[c])
<1>1. /\ claims[c].status = "requested" /\ claims'[c].status = "review_pending"
      /\ CountsFor(c)' = IF c \in InTime THEN New ELSE {}
      /\ \A x \in ClaimIds : x # c =>
            /\ CountsFor(x)' = CountsFor(x) /\ claims'[x] = claims[x]
            /\ x \in InTime' => x \in InTime /\ x \notin Overtaken(c)
  BY InsertTakes
<1>2. /\ \A r \in New : r[1] = claims[c].by /\ r[2] = claims[c].drama /\ r[3] \in claims[c].platforms
  BY DEF RightsOf
<1>3. ASSUME c \in InTime, NEW x \in ClaimIds, NEW r \in New, NEW s \in CountsFor(x)
      PROVE  ~(r[2] = s[2] /\ r[3] = s[3])
  <2>1. s \in StandingRights
    BY Standing
  <2>2. ~(s[2] = claims[c].drama /\ s[3] \in claims[c].platforms)
    BY <1>1, <1>3, <2>1 DEF ExclusiveInv, RequestIsFree
  <2>. QED BY <1>2, <2>2
<1>4. \A x \in ClaimIds : \A r \in CountsFor(x)' :
          \/ x = c /\ c \in InTime /\ r \in New
          \/ x # c /\ r \in CountsFor(x)
  BY <1>1
<1>5. \A x, y \in ClaimIds : \A r \in CountsFor(x)', s \in CountsFor(y)' :
          r[2] = s[2] /\ r[3] = s[3] => r[1] = s[1]
  <2> SUFFICES ASSUME NEW x \in ClaimIds, NEW y \in ClaimIds, NEW r \in CountsFor(x)', NEW s \in CountsFor(y)',
                      r[2] = s[2], r[3] = s[3]
               PROVE  r[1] = s[1]
    OBVIOUS
  <2>1. CASE x = c /\ y = c
    BY <1>2, <1>4, <2>1
  <2>2. CASE x = c /\ y # c
    BY <1>3, <1>4, <2>2
  <2>3. CASE x # c /\ y = c
    BY <1>3, <1>4, <2>3
  <2>4. CASE x # c /\ y # c
    BY <1>4, <2>4, Standing DEF ExclusiveInv
  <2>. QED BY <2>1, <2>2, <2>3, <2>4
<1>6. ExclusiveUnlessLate'
  BY <1>5 DEF ExclusiveUnlessLate, CountsFor, InTime
<1>7. RequestIsFree'
  <2> SUFFICES ASSUME NEW x \in ClaimIds, (x \in InTime)', claims'[x].status = "requested",
                      NEW r \in StandingRights', r[2] = claims'[x].drama, r[3] \in claims'[x].platforms
               PROVE  FALSE
    BY DEF RequestIsFree, InTime
  <2>1. x # c
    BY <1>1
  <2>2. /\ claims'[x] = claims[x] /\ x \in InTime /\ x \notin Overtaken(c)
    BY <1>1, <2>1
  <2>3. PICK y \in ClaimIds : r \in CountsFor(y)'
    BY DEF StandingRights, CountsFor, InTime
  <2>4. CASE y = c
    <3>1. r[2] = claims[c].drama /\ r[3] \in claims[c].platforms
      BY <1>2, <1>4, <2>4, <2>3
    <3>. QED BY <2>1, <2>2, <3>1 DEF Overtaken
  <2>5. CASE y # c
    <3>1. r \in StandingRights
      BY <1>4, <2>3, <2>5, Standing
    <3>. QED BY <2>2, <3>1 DEF ExclusiveInv, RequestIsFree
  <2>. QED BY <2>4, <2>5
<1>. QED BY <1>6, <1>7 DEF ExclusiveInv

LEMMA ExclusiveByDeletion ==
    ASSUME Inv, Inv', ExclusiveInv, NEW dr \in Dramas, adminDeleteDrama(dr)
    PROVE  ExclusiveInv'
<1>1. \A c \in ClaimIds : /\ c \in InTime' <=> c \in InTime
                          /\ claims'[c].status = "requested" => claims'[c] = claims[c]
                          /\ \A r : r \in CountsFor(c)' <=> r \in CountsFor(c) /\ r[2] # dr
  BY DeletionTakes
<1>2. \A d, x \in ClaimIds : \A r \in CountsFor(d)', s \in CountsFor(x)' :
          r[2] = s[2] /\ r[3] = s[3] => r[1] = s[1]
  BY <1>1, Standing DEF ExclusiveInv
<1>3. ExclusiveUnlessLate'
  BY <1>2 DEF ExclusiveUnlessLate, CountsFor, InTime
<1>4. StandingRights' \subseteq StandingRights
  <2>1. \A r : r \in StandingRights' => \E x \in ClaimIds : r \in CountsFor(x)'
    BY DEF StandingRights, CountsFor, InTime
  <2>. QED BY <1>1, <2>1, Standing
<1>5. RequestIsFree'
  <2> SUFFICES ASSUME NEW x \in ClaimIds, x \in InTime', claims'[x].status = "requested"
               PROVE  RequestFree(x)'
    BY DEF RequestIsFree, RequestFree, InTime
  <2>. QED BY <1>1, <1>4 DEF ExclusiveInv, RequestIsFree, RequestFree
<1>. QED BY <1>3, <1>5 DEF ExclusiveInv

LEMMA ExclusiveStep == Inv /\ Inv' /\ ExclusiveInv /\ [Next]_vars => ExclusiveInv'
BY StepTakes, QuietKeeps, ExclusiveKept, ExclusiveByInsert, ExclusiveByDeletion

LEMMA ExclusiveInit == Init => Registry!RegistryInit /\ ExclusiveInv
<1> SUFFICES ASSUME Init PROVE Registry!RegistryInit /\ ExclusiveInv
  OBVIOUS
<1> PICK d \in Distributors, dr \in Dramas, P \in SUBSET Platforms \ {{}}, L \in SUBSET Legacy :
      claims = [c \in ClaimIds |-> IF c \in L THEN LegacyClaim(d, dr, P) ELSE NoClaim]
  BY DEF Init
<1>1. /\ \A g \in GrantIds : ~LiveGrant(g)
      /\ InTime = ClaimIds
  BY DEF Init, NoGrant, LiveGrant, InTime, LateBy
<1>2. \A c \in ClaimIds : /\ LiveClaim(c) <=> c \in L
                          /\ claims[c].status # "requested"
  BY DEF LiveClaim, LegacyClaim, NoClaim
<1>3. \A c \in ClaimIds : LiveClaim(c) => RightsOf(claims[c]) = {d} \X {dr} \X P
  BY <1>2 DEF RightsOf, LegacyClaim, NoClaim
<1>4. \A c \in ClaimIds : RightsThrough(c) = IF LiveClaim(c) THEN {d} \X {dr} \X P ELSE {}
  BY <1>1, <1>3 DEF RightsThrough
<1>5. ExclusiveInv
  <2>1. \A c \in ClaimIds : \A r \in RightsThrough(c) : r[1] = d
    BY <1>4
  <2>. QED BY <1>1, <1>2, <2>1 DEF ExclusiveInv, ExclusiveUnlessLate, RequestIsFree
<1>6. CASE \E c \in ClaimIds : LiveClaim(c)
  <2>1. StandingRights = {d} \X {dr} \X P
    BY <1>1, <1>4, <1>6 DEF StandingRights
  <2>. QED BY <1>5, <2>1 DEF Registry!RegistryInit, Registry!Rights
<1>7. CASE ~ \E c \in ClaimIds : LiveClaim(c)
  <2>1. StandingRights = {d} \X {dr} \X {}
    BY <1>1, <1>4, <1>7 DEF StandingRights
  <2>. QED BY <1>5, <2>1 DEF Registry!RegistryInit, Registry!Rights
<1>. QED BY <1>6, <1>7

(* However requests, payments, submits, decisions, contracts, abandons,    *)
(* settlements and deletions cross, for any number of them in flight: two  *)
(* distributors stand on one platform of a drama only through a claim that *)
(* another had overtaken between its check and its insert, or that a       *)
(* submit put back over a decision (publisher_claim.go:92-93, :195).       *)
THEOREM NoPlatformTwice == Spec => []ExclusiveUnlessLate
<1>1. Init => ExclusiveInv
  BY ExclusiveInit
<1>2. ExclusiveInv => ExclusiveUnlessLate
  BY DEF ExclusiveInv
<1>. QED BY <1>1, <1>2, ExclusiveStep, InvHolds, PTL DEF Spec

(* The insert of a claim in time takes its platforms, all of them free;    *)
(* one that comes late is not in the registry.                             *)
LEMMA InsertAcquires ==
    ASSUME Inv, Inv', ExclusiveInv, NEW c \in ClaimIds, publisherCreateClaim(c)
    PROVE  Registered
<1>1. /\ claims[c].status = "requested" /\ CountsFor(c) = {}
      /\ CountsFor(c)' = IF c \in InTime THEN RightsOf(claims[c]) ELSE {}
      /\ \A x \in ClaimIds : x # c => CountsFor(x)' = CountsFor(x)
  BY InsertTakes
<1>2. claims[c].by \in Distributors /\ claims[c].drama \in Dramas /\ claims[c].platforms \in SUBSET Platforms
  BY <1>1 DEF Inv, ClaimInv, TypeOK, Claim
<1>3. \A r : r \in StandingRights' <=> \E x \in ClaimIds : r \in CountsFor(x)'
  BY DEF StandingRights, CountsFor, InTime
<1>4. CASE c \in InTime
  <2>1. StandingRights' = StandingRights \cup RightsOf(claims[c])
    BY <1>1, <1>3, <1>4, Standing
  <2>2. StandingRights \cap (Distributors \X {claims[c].drama} \X claims[c].platforms) = {}
    BY <1>1, <1>4 DEF ExclusiveInv, RequestIsFree
  <2>3. Registry!Acquire(claims[c].by, claims[c].drama, claims[c].platforms)
    BY <2>1, <2>2, RegistryForm DEF RightsOf
  <2>. QED BY <1>2, <2>3, RegistryForm DEF Registered
<1>5. CASE c \notin InTime
  <2>1. StandingRights' = StandingRights
    BY <1>1, <1>3, <1>5, Standing
  <2>. QED BY <2>1 DEF Registered
<1>. QED BY <1>4, <1>5

LEMMA DeletionWithdraws ==
    ASSUME Inv, Inv', NEW dr \in Dramas, adminDeleteDrama(dr)
    PROVE  Registered
<1>1. \A r : r \in StandingRights' <=> \E x \in ClaimIds : r \in CountsFor(x)'
  BY DEF StandingRights, CountsFor, InTime
<1>2. \A r : r \in StandingRights' <=> r \in StandingRights /\ r[2] # dr
  BY <1>1, Standing, DeletionTakes
<1>3. \A r \in StandingRights : r \in Distributors \X {dr} \X Platforms <=> r[2] = dr
  BY RightsType
<1>4. StandingRights' = StandingRights \ (Distributors \X {dr} \X Platforms)
  BY <1>2, <1>3
<1>5. CASE StandingRights = {}
  <2>1. StandingRights' = StandingRights
    BY <1>4, <1>5
  <2>. QED BY <2>1 DEF Registered
<1>6. CASE StandingRights # {}
  <2>1. \E d \in Distributors : TRUE
    BY <1>6, RightsType
  <2>. QED BY <1>4, <2>1, RegistryForm DEF Registered
<1>. QED BY <1>5, <1>6

LEMMA RegistryStep ==
    ASSUME Inv, Inv', ExclusiveInv, [Next]_vars PROVE [Registry!RegistryNext]_StandingRights
<1>1. Registered
  BY StepTakes, QuietKeeps, GivesUp, InsertAcquires, DeletionWithdraws DEF Registered
<1>. QED BY <1>1 DEF Registered

(* The claim handlers are a registry of the claims in time: a claim takes  *)
(* all its platforms in one step, all of them free; rejections and         *)
(* abandons give up those of one distributor for one drama; a deletion     *)
(* takes the drama from everybody; and nothing changes hands               *)
(* (publisher_claim.go, publisher_abandon.go, admin_drama.go).             *)
THEOREM ClaimsImplementRegistry == Spec => ImplementsRegistry
<1>1. Init => ExclusiveInv /\ Registry!RegistryInit
  BY ExclusiveInit
<1>. QED BY <1>1, ExclusiveStep, RegistryStep, InvHolds, PTL
         DEF Spec, ImplementsRegistry, Registry!RegistrySpec
-----------------------------------------------------------------------------
(***************************************************************************)
(* What a wallet holds against what the claims and grants record: a step   *)
(* moves both by as much, or is one of those that the code does not guard. *)
(***************************************************************************)
Locked(d) == wallet[d].frozen + wallet[d].deducted

LEMMA HoldsType ==
    ASSUME TypeOK
    PROVE  \A d \in Distributors : ClaimHolds(d) \in [ClaimIds -> Int] /\ GrantHolds(d) \in [GrantIds -> Int]
BY DEF TypeOK, Claim, Grant, ClaimHolds, GrantHolds

LEMMA HeldIsInt ==
    ASSUME TypeOK
    PROVE  \A d \in Distributors : /\ SumFunction(ClaimHolds(d)) \in Int /\ SumFunction(GrantHolds(d)) \in Int
                                   /\ Locked(d) \in Int
<1>1. \A d \in Distributors : Locked(d) \in Int
  BY DEF TypeOK, Wallet, Locked
<1>. QED BY <1>1, HoldsType, TotalIsInt, DepositAssumption

LEMMA OneClaimChanges ==
    ASSUME Inv, Inv', NEW c \in ClaimIds, \A x \in ClaimIds : x # c => claims'[x] = claims[x],
           NEW d \in Distributors
    PROVE  SumFunction(ClaimHolds(d)') = SumFunction(ClaimHolds(d)) + (ClaimHolds(d)'[c] - ClaimHolds(d)[c])
<1>1. ClaimHolds(d) \in [ClaimIds -> Int] /\ ClaimHolds(d)' \in [ClaimIds -> Int]
  BY DEF Inv, TypeOK, Claim, ClaimHolds
<1>2. \A x \in ClaimIds : x # c => ClaimHolds(d)'[x] = ClaimHolds(d)[x]
  BY DEF ClaimHolds
<1> HIDE DEF ClaimHolds
<1>. QED BY <1>1, <1>2, DepositAssumption, TotalChange

LEMMA OneGrantChanges ==
    ASSUME Inv, Inv', NEW g \in GrantIds, \A x \in GrantIds : x # g => grants'[x] = grants[x],
           NEW d \in Distributors
    PROVE  SumFunction(GrantHolds(d)') = SumFunction(GrantHolds(d)) + (GrantHolds(d)'[g] - GrantHolds(d)[g])
<1>1. GrantHolds(d) \in [GrantIds -> Int] /\ GrantHolds(d)' \in [GrantIds -> Int]
  BY DEF Inv, TypeOK, Grant, GrantHolds
<1>2. \A x \in GrantIds : x # g => GrantHolds(d)'[x] = GrantHolds(d)[x]
  BY DEF GrantHolds, LiveGrant
<1> HIDE DEF GrantHolds
<1>. QED BY <1>1, <1>2, DepositAssumption, TotalChange

GapKept == \A d \in Distributors : Gap(d)' = Gap(d)

LEMMA GapForm ==
    ASSUME NEW d \in Distributors
    PROVE  /\ Gap(d) = Locked(d) - SumFunction(ClaimHolds(d)) - SumFunction(GrantHolds(d))
           /\ Gap(d)' = Locked(d)' - SumFunction(ClaimHolds(d)') - SumFunction(GrantHolds(d)')
BY DEF Gap, Locked

(* A step that changes nothing that the holdings are about.                *)
LEMMA HoldingsKept ==
    ASSUME \A d \in Distributors : /\ Locked(d)' = Locked(d)
                                   /\ ClaimHolds(d)' = ClaimHolds(d) /\ GrantHolds(d)' = GrantHolds(d)
    PROVE  GapKept
BY GapForm DEF GapKept

(* A step of one claim that moves as much in the wallet as in the claim.   *)
LEMMA HoldingsByClaim ==
    ASSUME Inv, Inv', NEW c \in ClaimIds, \A x \in ClaimIds : x # c => claims'[x] = claims[x],
           grants' = grants,
           \A d \in Distributors : Locked(d)' - Locked(d) = ClaimHolds(d)'[c] - ClaimHolds(d)[c]
    PROVE  GapKept
<1> SUFFICES ASSUME NEW d \in Distributors PROVE Gap(d)' = Gap(d)
  BY DEF GapKept
<1>1. SumFunction(ClaimHolds(d)') = SumFunction(ClaimHolds(d)) + (ClaimHolds(d)'[c] - ClaimHolds(d)[c])
  BY OneClaimChanges
<1>2. GrantHolds(d)' = GrantHolds(d)
  BY DEF GrantHolds, LiveGrant
<1>3. /\ SumFunction(ClaimHolds(d)) \in Int /\ SumFunction(GrantHolds(d)) \in Int /\ Locked(d) \in Int
      /\ Locked(d)' \in Int
  <2>1. Locked(d)' \in Int
    BY DEF Inv, TypeOK, Wallet, Locked
  <2>. QED BY <2>1, HeldIsInt DEF Inv
<1>4. ClaimHolds(d)'[c] \in Int /\ ClaimHolds(d)[c] \in Int
  BY DEF Inv, TypeOK, Claim, ClaimHolds
<1>5. Gap(d) = Locked(d) - SumFunction(ClaimHolds(d)) - SumFunction(GrantHolds(d))
  BY GapForm
<1>6. Gap(d)' = Locked(d)' - SumFunction(ClaimHolds(d)') - SumFunction(GrantHolds(d))
  BY <1>2, GapForm
<1>7. Locked(d)' - Locked(d) = ClaimHolds(d)'[c] - ClaimHolds(d)[c]
  OBVIOUS
<1> HIDE DEF Locked, ClaimHolds, GrantHolds, Gap
<1>. QED BY <1>1, <1>3, <1>4, <1>5, <1>6, <1>7

LEMMA HoldingsByFreeze ==
    ASSUME Inv, Inv', NEW c \in ClaimIds, publisherCreateClaim(c) \/ publisherPayDeposit(c)
    PROVE  GapKept
<1>0. claims \in [ClaimIds -> Claim] /\ \A d \in Distributors : wallet[d] \in Wallet
  BY DEF Inv, TypeOK
<1>1. /\ claims[c].status \in {"requested", "deposit_pending"} /\ FreezeFor(c)
      /\ claims'[c].status \in {"review_pending", "authorization_pending"} /\ claims'[c].paid = "paid"
      /\ claims'[c].by = claims[c].by /\ claims'[c].deposit = claims[c].deposit
      /\ \A x \in ClaimIds : x # c => claims'[x] = claims[x]
      /\ grants' = grants
  BY <1>0 DEF publisherCreateClaim, publisherPayDeposit, Claim
<1> DEFINE b == claims[c].by
<1>2. b \in Distributors /\ claims[c].deposit \in Nat
  BY <1>0, <1>1 DEF Inv, ClaimInv, Claim
<1>3. Moves(b, Freeze(wallet[b], claims[c].deposit))
  BY <1>1 DEF FreezeFor, Moves
<1>4. /\ Freeze(wallet[b], claims[c].deposit).frozen = wallet[b].frozen + claims[c].deposit
      /\ Freeze(wallet[b], claims[c].deposit).deducted = wallet[b].deducted
  BY <1>0, <1>2, WalletColumns
<1>5. \A d \in Distributors : Locked(d)' - Locked(d) = IF d = b THEN claims[c].deposit ELSE 0
  <2> SUFFICES ASSUME NEW d \in Distributors PROVE Locked(d)' - Locked(d) = IF d = b THEN claims[c].deposit ELSE 0
    OBVIOUS
  <2>1. wallet[d].frozen \in Int /\ wallet[d].deducted \in Int
    BY <1>0 DEF Wallet
  <2>2. wallet'[d] = IF d = b THEN Freeze(wallet[b], claims[c].deposit) ELSE wallet[d]
    BY <1>2, <1>3, OneMoves
  <2>. QED BY <1>2, <1>4, <2>1, <2>2 DEF Locked
<1>6. \A d \in Distributors : ClaimHolds(d)'[c] - ClaimHolds(d)[c] = IF d = b THEN claims[c].deposit ELSE 0
  BY <1>1, <1>2 DEF ClaimHolds
<1>. QED BY <1>1, <1>5, <1>6, HoldingsByClaim

LEMMA HoldingsByRejection ==
    ASSUME Inv, Inv', NEW c \in ClaimIds, adminRejectClaim(c)
    PROVE  GapKept
<1>0. claims \in [ClaimIds -> Claim] /\ \A d \in Distributors : wallet[d] \in Wallet
  BY DEF Inv, TypeOK
<1>1. /\ claims[c].status = "review_pending"
      /\ claims'[c].status = "rejected"
      /\ \A x \in ClaimIds : x # c => claims'[x] = claims[x]
      /\ grants' = grants
  BY <1>0 DEF adminRejectClaim, Claim
<1> DEFINE b == claims[c].by
<1>2. b \in Distributors /\ claims[c].deposit \in Nat
  BY <1>0, <1>1 DEF Inv, ClaimInv, Claim
<1>3. CASE claims[c].paid = "paid" /\ claims[c].deposit > 0
  <2>1. Moves(b, Unfreeze(wallet[b], claims[c].deposit))
    BY <1>3 DEF adminRejectClaim, Moves
  <2>2. /\ Unfreeze(wallet[b], claims[c].deposit).frozen = wallet[b].frozen - claims[c].deposit
        /\ Unfreeze(wallet[b], claims[c].deposit).deducted = wallet[b].deducted
    BY <1>0, <1>2, WalletColumns
  <2>3. \A d \in Distributors : Locked(d)' - Locked(d) = IF d = b THEN 0 - claims[c].deposit ELSE 0
    <3> SUFFICES ASSUME NEW d \in Distributors
                 PROVE  Locked(d)' - Locked(d) = IF d = b THEN 0 - claims[c].deposit ELSE 0
      OBVIOUS
    <3>1. wallet[d].frozen \in Int /\ wallet[d].deducted \in Int
      BY <1>0 DEF Wallet
    <3>2. wallet'[d] = IF d = b THEN Unfreeze(wallet[b], claims[c].deposit) ELSE wallet[d]
      BY <1>2, <2>1, OneMoves
    <3>. QED BY <1>2, <2>2, <3>1, <3>2 DEF Locked
  <2>4. \A d \in Distributors : ClaimHolds(d)'[c] - ClaimHolds(d)[c] = IF d = b THEN 0 - claims[c].deposit ELSE 0
    BY <1>1, <1>2, <1>3 DEF ClaimHolds
  <2>. QED BY <1>1, <2>3, <2>4, HoldingsByClaim
<1>4. CASE ~(claims[c].paid = "paid" /\ claims[c].deposit > 0)
  <2>1. wallet' = wallet
    BY <1>4 DEF adminRejectClaim
  <2>2. \A d \in Distributors : Locked(d)' - Locked(d) = 0
    BY <1>0, <2>1 DEF Locked, Wallet
  <2>3. \A d \in Distributors : ClaimHolds(d)'[c] - ClaimHolds(d)[c] = 0
    BY <1>1, <1>2, <1>4 DEF ClaimHolds
  <2>. QED BY <1>1, <2>2, <2>3, HoldingsByClaim
<1>. QED BY <1>3, <1>4

(* The deposit of an approved claim goes on with its grant.                *)
LEMMA HoldingsByApproval ==
    ASSUME Inv, Inv', NEW c \in ClaimIds, NEW g \in GrantIds, adminApproveClaim(c, g)
    PROVE  GapKept
<1> SUFFICES ASSUME NEW d \in Distributors PROVE Gap(d)' = Gap(d)
  BY DEF GapKept
<1>0. /\ claims \in [ClaimIds -> Claim] /\ grants \in [GrantIds -> Grant]
      /\ claims[c].deposit \in Int
  BY DEF Inv, TypeOK, Claim
<1>1. /\ claims[c].status = "review_pending" /\ claims[c].paid = "paid"
      /\ claims'[c].status = "contract_pending"
      /\ \A x \in ClaimIds : x # c => claims'[x] = claims[x]
      /\ grants[g].status = "none" /\ grants'[g].status = "authorized" /\ grants'[g].by = claims[c].by
      /\ grants'[g].deposit = claims[c].deposit
      /\ \A x \in GrantIds : x # g => grants'[x] = grants[x]
  BY <1>0 DEF adminApproveClaim, Claim
<1>2. wallet' = wallet
  <2>1. entries[c].freeze = 1
    BY <1>1 DEF Inv, EntryInv
  <2>. QED BY <2>1 DEF adminApproveClaim
<1>3. SumFunction(ClaimHolds(d)') = SumFunction(ClaimHolds(d)) + (ClaimHolds(d)'[c] - ClaimHolds(d)[c])
  BY <1>1, OneClaimChanges
<1>4. SumFunction(GrantHolds(d)') = SumFunction(GrantHolds(d)) + (GrantHolds(d)'[g] - GrantHolds(d)[g])
  BY <1>1, OneGrantChanges
<1>5. PICK x \in Int : /\ ClaimHolds(d)'[c] = 0 /\ ClaimHolds(d)[c] = x
                       /\ GrantHolds(d)'[g] = x /\ GrantHolds(d)[g] = 0
  <2>1. /\ ClaimHolds(d)'[c] = 0 /\ ClaimHolds(d)[c] = IF claims[c].by = d THEN claims[c].deposit ELSE 0
    BY <1>1 DEF ClaimHolds
  <2>2. /\ GrantHolds(d)[g] = 0 /\ GrantHolds(d)'[g] = IF claims[c].by = d THEN claims[c].deposit ELSE 0
    BY <1>1 DEF GrantHolds, LiveGrant
  <2>. QED BY <1>0, <2>1, <2>2
<1>6. SumFunction(ClaimHolds(d)) \in Int /\ SumFunction(GrantHolds(d)) \in Int
  BY HeldIsInt DEF Inv
<1>7. Locked(d)' = Locked(d) /\ Locked(d) \in Int
  BY <1>2, HeldIsInt DEF Locked, Inv
<1>8. Gap(d) = Locked(d) - SumFunction(ClaimHolds(d)) - SumFunction(GrantHolds(d))
  BY GapForm
<1>9. Gap(d)' = Locked(d)' - SumFunction(ClaimHolds(d)') - SumFunction(GrantHolds(d)')
  BY GapForm
<1> HIDE DEF Locked, ClaimHolds, GrantHolds, Gap
<1>. QED BY <1>3, <1>4, <1>5, <1>6, <1>7, <1>8, <1>9

(* An abandon of a grant that is as its request read it gives back what    *)
(* the grant loses, which is all of it when all its platforms go.          *)
LEMMA HoldingsByAbandon ==
    ASSUME Inv, Inv', NEW a \in AbandonIds, adminApproveAbandon(a), AsRead(a)
    PROVE  GapKept
<1> SUFFICES ASSUME NEW d \in Distributors PROVE Gap(d)' = Gap(d)
  BY DEF GapKept
<1>. PICK g \in GrantIds, b \in Distributors, refund \in Int :
        g = abandons[a].grant /\ b = abandons[a].by /\ refund = abandons[a].refund
  BY DEF Inv, TypeOK, AbandonInv, adminApproveAbandon, Abandon
<1>. PICK all \in BOOLEAN :
        all <=> Cardinality(abandons[a].platforms) >= Cardinality(grants[g].platforms)
  OBVIOUS
<1>0. /\ grants \in [GrantIds -> Grant] /\ \A e \in Distributors : wallet[e] \in Wallet
      /\ grants[g] \in Grant
  BY DEF Inv, TypeOK
<1>1. /\ LiveGrant(g) /\ grants[g].by = b /\ grants[g].deposit \in Int
      /\ all => refund = grants[g].deposit
  <2>1. abandons[a].status = "pending" /\ LiveGrant(g)
    BY DEF adminApproveAbandon
  <2>. QED BY <2>1, AbandonAsRead DEF Inv, AbandonInv, GrantInv
<1>2. claims' = claims /\ \A x \in GrantIds : x # g => grants'[x] = grants[x]
  BY <1>0 DEF adminApproveAbandon
<1>3. ClaimHolds(d)' = ClaimHolds(d)
  BY <1>2 DEF ClaimHolds
<1>4. SumFunction(GrantHolds(d)') = SumFunction(GrantHolds(d)) + (GrantHolds(d)'[g] - GrantHolds(d)[g])
  BY <1>2, OneGrantChanges
<1> DEFINE x == IF b = d THEN refund ELSE 0
<1>5. GrantHolds(d)'[g] = GrantHolds(d)[g] - x /\ GrantHolds(d)[g] \in Int /\ x \in Int
  <2>0. grants'[g] = AfterAbandon(g, a)
    BY <1>0 DEF adminApproveAbandon
  <2>1. GrantHolds(d)[g] = IF b = d THEN grants[g].deposit ELSE 0
    BY <1>1 DEF GrantHolds
  <2>2. CASE all
    <3>1. grants'[g] = [grants[g] EXCEPT !.status = "revoked"]
      BY <2>0, <2>2 DEF AfterAbandon
    <3>2. GrantHolds(d)'[g] = 0
      BY <1>0, <3>1 DEF GrantHolds, LiveGrant, Grant
    <3>. QED BY <1>1, <2>1, <2>2, <3>2
  <2>3. CASE ~all
    <3> DEFINE P == grants[g].platforms \ abandons[a].platforms
               rest == grants[g].deposit - refund
               row == grants[g]
    <3>1. grants'[g] = Reduced(row, P, rest)
      BY <2>0, <2>3 DEF AfterAbandon, Reduced
    <3>2. P \in SUBSET Platforms /\ rest \in Int /\ row \in Grant
      BY <1>0, <1>1 DEF Grant
    <3>3. /\ Reduced(row, P, rest).by = row.by /\ Reduced(row, P, rest).status = row.status
          /\ Reduced(row, P, rest).deposit = rest
      <4> HIDE DEF P, rest, row
      <4>. QED BY <3>2, GrantReduced
    <3>4. LiveGrant(g)' /\ grants'[g].by = b /\ grants'[g].deposit = grants[g].deposit - refund
      BY <1>1, <3>1, <3>3 DEF LiveGrant
    <3>5. GrantHolds(d)'[g] = IF b = d THEN grants[g].deposit - refund ELSE 0
      BY <3>4 DEF GrantHolds
    <3>. QED BY <1>1, <2>1, <3>5
  <2>. QED BY <2>2, <2>3
<1>6. Locked(d)' = Locked(d) - x /\ Locked(d) \in Int
  <2>1. Moves(b, Unfreeze(wallet[b], refund))
    BY DEF adminApproveAbandon, Moves
  <2>2. /\ Unfreeze(wallet[b], refund).frozen = wallet[b].frozen - refund
        /\ Unfreeze(wallet[b], refund).deducted = wallet[b].deducted
    BY <1>0, <1>1, WalletColumns
  <2>3. wallet[d].frozen \in Int /\ wallet[d].deducted \in Int
    BY <1>0 DEF Wallet
  <2>4. wallet'[d] = IF b = d THEN Unfreeze(wallet[b], refund) ELSE wallet[d]
    BY <1>1, <2>1, OneMoves
  <2>. QED BY <1>0, <2>2, <2>3, <2>4 DEF Locked
<1>7. SumFunction(ClaimHolds(d)) \in Int /\ SumFunction(GrantHolds(d)) \in Int
  BY HeldIsInt DEF Inv
<1>8. Gap(d) = Locked(d) - SumFunction(ClaimHolds(d)) - SumFunction(GrantHolds(d))
  BY GapForm
<1>9. Gap(d)' = Locked(d)' - SumFunction(ClaimHolds(d)) - SumFunction(GrantHolds(d)')
  BY <1>3, GapForm
<1> HIDE DEF Locked, ClaimHolds, GrantHolds, Gap, x
<1>. QED BY <1>4, <1>5, <1>6, <1>7, <1>8, <1>9

LEMMA HoldingsByOther ==
    ASSUME Inv, Inv', [Next]_vars, ~SubmittedOverDecision, ~GrantReturns, deleted' = deleted,
           ~ \E c \in ClaimIds : publisherCreateClaim(c) \/ publisherPayDeposit(c) \/ adminRejectClaim(c),
           ~ \E c \in ClaimIds, g \in GrantIds : adminApproveClaim(c, g),
           ~ \E a \in AbandonIds : adminApproveAbandon(a)
    PROVE  GapKept
<1>0. /\ claims \in [ClaimIds -> Claim] /\ grants \in [GrantIds -> Grant]
      /\ \A d \in Distributors : wallet[d] \in Wallet /\ wallet[d].frozen \in Int /\ wallet[d].deducted \in Int
      /\ \A c \in ClaimIds : submitting[c] \in Nat
  BY DEF Inv, TypeOK, Wallet
<1>1. ASSUME wallet' = wallet, grants' = grants,
             NEW c \in ClaimIds, \A x \in ClaimIds : x # c => claims'[x] = claims[x],
             \A d \in Distributors : ClaimHolds(d)'[c] = ClaimHolds(d)[c]
      PROVE  GapKept
  <2>1. \A d \in Distributors : Locked(d)' - Locked(d) = 0
    BY <1>0, <1>1 DEF Locked
  <2>2. \A d \in Distributors : ClaimHolds(d)'[c] - ClaimHolds(d)[c] = 0
    <3>1. \A d \in Distributors : ClaimHolds(d)[c] \in Int
      BY <1>0 DEF ClaimHolds, Claim
    <3>. QED BY <1>1, <3>1
  <2>. QED BY <1>1, <2>1, <2>2, HoldingsByClaim
<1>2. ASSUME claims' = claims, grants' = grants, \A d \in Distributors : Locked(d)' = Locked(d)
      PROVE  GapKept
  BY <1>2, HoldingsKept DEF ClaimHolds, GrantHolds, LiveGrant
<1>3. ASSUME NEW c \in ClaimIds, NEW d \in Distributors, NEW dr \in Dramas, NEW P \in SUBSET Platforms,
             RequestClaim(c, d, dr, P)
      PROVE  GapKept
  <2>1. /\ claims[c].status = "none" /\ claims'[c].status = "requested" /\ grants' = grants /\ wallet' = wallet
        /\ \A x \in ClaimIds : x # c => claims'[x] = claims[x]
    BY <1>0, <1>3 DEF RequestClaim, money
  <2>. QED BY <1>1, <2>1 DEF ClaimHolds
<1>4. ASSUME NEW c \in ClaimIds, FailClaim(c) PROVE GapKept
  <2>1. /\ claims[c].status = "requested" /\ claims'[c].status = "none" /\ grants' = grants /\ wallet' = wallet
        /\ \A x \in ClaimIds : x # c => claims'[x] = claims[x]
    BY <1>0, <1>4 DEF FailClaim, NoClaim, money
  <2>. QED BY <1>1, <2>1 DEF ClaimHolds
<1>5. ASSUME NEW c \in ClaimIds, ReadSubmit(c) PROVE GapKept
  BY <1>2, <1>5 DEF ReadSubmit, money, Locked
<1>6. ASSUME NEW c \in ClaimIds, publisherSubmitClaim(c) PROVE GapKept
  <2>1. grants' = grants /\ wallet' = wallet /\ claims[c].status \notin {"none", "requested", "deposit_pending"}
    BY <1>0, <1>6 DEF publisherSubmitClaim, money, Inv, ClaimInv
  <2>2. CASE claims[c].status = "deleted"
    <3>1. claims' = claims
      BY <1>6, <2>2 DEF publisherSubmitClaim
    <3>. QED BY <1>2, <2>1, <3>1 DEF Locked
  <2>3. CASE claims[c].status # "deleted"
    <3>1. /\ claims'[c].status = "review_pending" /\ claims'[c].paid = claims[c].paid
          /\ claims'[c].by = claims[c].by /\ claims'[c].deposit = claims[c].deposit
          /\ \A x \in ClaimIds : x # c => claims'[x] = claims[x]
      BY <1>0, <1>6, <2>3 DEF publisherSubmitClaim, Claim
    <3>2. claims[c].status \in {"authorization_pending", "review_pending"} \/ claims[c].paid = "released"
      <4>1. claims[c].status \notin {"contract_pending", "completed"}
        BY <1>6, <3>1 DEF SubmittedOverDecision
      <4>2. claims[c].status \in ClaimStatuses
        BY <1>0 DEF Claim
      <4>. QED BY <2>1, <2>3, <4>1, <4>2 DEF ClaimStatuses, Inv, EntryInv
    <3>. QED BY <1>1, <2>1, <3>1, <3>2 DEF ClaimHolds
  <2>. QED BY <2>2, <2>3
<1>7. ASSUME NEW c \in ClaimIds, adminUploadContract(c) PROVE GapKept
  <2>1. /\ claims[c].status = "contract_pending" /\ claims'[c].status = "completed" /\ wallet' = wallet
        /\ \A x \in ClaimIds : x # c => claims'[x] = claims[x]
    BY <1>0, <1>7 DEF adminUploadContract, Claim, money
  <2>2. \A d \in Distributors : ClaimHolds(d)' = ClaimHolds(d)
    BY <2>1 DEF ClaimHolds
  <2>3. ASSUME NEW g \in GrantIds
        PROVE  /\ grants'[g].by = grants[g].by /\ grants'[g].deposit = grants[g].deposit
               /\ LiveGrant(g)' <=> LiveGrant(g)
    <3>1. CASE grants[g].claim = c
      <4>1. grants'[g] = [grants[g] EXCEPT !.status = "active"] /\ grants[g] \in Grant
        BY <1>0, <1>7, <3>1 DEF adminUploadContract
      <4>2. grants'[g].status = "active"
        BY <4>1 DEF Grant
      <4>3. grants[g].status \in {"authorized", "active"}
        BY <3>1, <4>2, DepositAssumption DEF Inv, GrantInv, GrantReturns
      <4>. QED BY <4>1, <4>2, <4>3 DEF LiveGrant, Grant
    <3>2. CASE grants[g].claim # c
      BY <1>7, <3>2 DEF adminUploadContract, LiveGrant
    <3>. QED BY <3>1, <3>2
  <2>4. \A d \in Distributors : GrantHolds(d)' = GrantHolds(d)
    BY <2>3 DEF GrantHolds
  <2>. QED BY <2>1, <2>2, <2>4, HoldingsKept DEF Locked
<1>8. ASSUME NEW c \in ClaimIds, ClaimStep(c) PROVE GapKept
  BY <1>3, <1>4, <1>5, <1>6, <1>7, <1>8 DEF ClaimStep
<1>9. ASSUME NEW a \in AbandonIds, AbandonStep(a) PROVE GapKept
  <2>1. claims' = claims /\ grants' = grants /\ wallet' = wallet
    BY <1>9 DEF AbandonStep, RequestAbandon, publisherCreateAbandon, FailAbandon,
       adminRejectAbandon, money
  <2>. QED BY <1>2, <2>1 DEF Locked
<1>10. ASSUME NEW d \in Distributors, NEW amount \in Amounts, Credit(d, amount) PROVE GapKept
  <2>1. claims' = claims /\ grants' = grants /\ Moves(d, Recharge(wallet[d], amount)) /\ amount \in Int
    BY <1>10, DepositAssumption DEF Credit, Moves
  <2>2. /\ Recharge(wallet[d], amount).frozen = wallet[d].frozen
        /\ Recharge(wallet[d], amount).deducted = wallet[d].deducted
    BY <1>0, <2>1, WalletColumns
  <2>3. \A e \in Distributors : Locked(e)' = Locked(e)
    BY <2>1, <2>2, OneMoves DEF Locked
  <2>. QED BY <1>2, <2>1, <2>3
<1>11. ASSUME NEW d \in Distributors, NEW k \in Cycles, NEW share \in Shares,
              runDistributorSettlementForCycle(d, k, share)
       PROVE  GapKept
  <2> DEFINE offset == IF wallet[d].frozen < share THEN wallet[d].frozen ELSE share
  <2>1. claims' = claims /\ grants' = grants /\ Moves(d, Deduct(wallet[d], offset))
    BY <1>11 DEF runDistributorSettlementForCycle, Moves
  <2>2. offset \in Int
    BY <1>0, DepositAssumption
  <2> HIDE DEF offset
  <2>3. /\ Deduct(wallet[d], offset).frozen = wallet[d].frozen - offset
        /\ Deduct(wallet[d], offset).deducted = wallet[d].deducted + offset
    BY <1>0, <2>2, WalletColumns
  <2>4. \A e \in Distributors : wallet'[e] = IF e = d THEN Deduct(wallet[d], offset) ELSE wallet[e]
    BY <2>1, OneMoves
  <2>5. \A e \in Distributors : Locked(e)' = Locked(e)
    BY <1>0, <2>2, <2>3, <2>4 DEF Locked
  <2>. QED BY <1>2, <2>1, <2>5
<1>12. ASSUME NEW d \in Distributors, NEW k \in Cycles, RejectReceipt(d, k) PROVE GapKept
  <2> DEFINE offset == settlements[<<d, k>>].deducted
  <2>1. claims' = claims /\ grants' = grants /\ Moves(d, Restore(wallet[d], offset))
    BY <1>12 DEF RejectReceipt, Moves
  <2>2. offset \in Int
    BY DEF Inv, TypeOK, Settlement
  <2> HIDE DEF offset
  <2>3. /\ Restore(wallet[d], offset).frozen = wallet[d].frozen + offset
        /\ Restore(wallet[d], offset).deducted = wallet[d].deducted - offset
    BY <1>0, <2>2, WalletColumns
  <2>4. \A e \in Distributors : wallet'[e] = IF e = d THEN Restore(wallet[d], offset) ELSE wallet[e]
    BY <2>1, OneMoves
  <2>5. \A e \in Distributors : Locked(e)' = Locked(e)
    BY <1>0, <2>2, <2>3, <2>4 DEF Locked
  <2>. QED BY <1>2, <2>1, <2>5
<1>13. ASSUME NEW d \in Distributors, NEW k \in Cycles, SettlementStep(d, k) PROVE GapKept
  <2>1. CASE publisherSubmitRemittance(d, k) \/ ConfirmReceipt(d, k)
    BY <1>2, <2>1 DEF publisherSubmitRemittance, ConfirmReceipt, money, Locked
  <2>. QED BY <1>11, <1>12, <1>13, <2>1 DEF SettlementStep, adminConfirmDistributorSettlement
<1>14. ASSUME NEW dr \in Dramas, adminDeleteDrama(dr) PROVE FALSE
  BY <1>14 DEF adminDeleteDrama
<1>15. CASE UNCHANGED vars
  BY <1>2, <1>15 DEF vars, Locked
<1>. QED BY <1>8, <1>9, <1>10, <1>13, <1>14, <1>15 DEF Next

LEMMA HoldingsStep ==
    Inv /\ Inv' /\ [Next]_vars =>
        [\A d \in Distributors : Gap(d)' # Gap(d) =>
             \/ SubmittedOverDecision \/ GrantReturns \/ StaleAbandon
             \/ deleted' # deleted]_vars
<1> SUFFICES ASSUME Inv, Inv', [Next]_vars, ~SubmittedOverDecision, ~GrantReturns, ~StaleAbandon,
                    deleted' = deleted
             PROVE  GapKept
  BY DEF GapKept
<1>1. ASSUME NEW a \in AbandonIds, adminApproveAbandon(a) PROVE AsRead(a)
  <2>1. abandons \in [AbandonIds -> Abandon]
    BY DEF Inv, TypeOK
  <2>2. abandons[a].status = "pending" /\ abandons'[a].status = "approved"
    BY <1>1, <2>1 DEF adminApproveAbandon, Abandon
  <2>. QED BY <2>2 DEF StaleAbandon
<1>. QED BY <1>1, HoldingsByFreeze, HoldingsByRejection, HoldingsByApproval, HoldingsByAbandon,
            HoldingsByOther

(* To the cent, however recharges, claims, decisions, abandons,            *)
(* settlements and returns cross: what a wallet holds frozen or deducted   *)
(* and what the claims and grants of its distributor record move together, *)
(* but for the four steps that the code does not guard                     *)
(* (publisher_claim.go:195, admin_distributor.go, publisher_abandon.go).   *)
THEOREM HoldingsAgree == Spec => HoldingsMatch
BY HoldingsStep, InvHolds, PTL DEF Spec, HoldingsMatch


-----------------------------------------------------------------------------
(***************************************************************************)
(* A recharge is credited once, for money, and stays credited: for every   *)
(* number of recharges, both times to live and every interleaving.         *)
(*                                                                         *)
(* CreditedOnceForMoney is not inductive: that the prepay of a row never   *)
(* hides money the channel has taken follows because a row is prepaid once *)
(* and before its trade exists (PrepayIsFirst), and that a row is not      *)
(* credited again follows from its status (Counted), the only thing that   *)
(* MarkRechargePaid looks at.                                              *)
(***************************************************************************)

(* A row that is to be prepaid has no trade, a row that does not exist has *)
(* neither.                                                                *)
PrepayIsFirst ==
    /\ \A r \in prepaying : trades[r].state = "none"
    /\ \A r \in RechargeIds :
          recharges[r].status = "none" => trades[r].state = "none" /\ r \notin prepaying

(* The status says how often a row was credited, until it is deleted. *)
Counted ==
    \A r \in RechargeIds :
        /\ booked[r] \in {0, 1}
        /\ recharges[r].status \in {"none", "pending", "closed"} => booked[r] = 0
        /\ recharges[r].status = "paid" => booked[r] = 1
        /\ booked[r] = 1 => trades[r].state = "captured" \/ r \in mocked

(* A callback is about money that the channel has. *)
AckedIsCaptured == \A r \in acked : trades[r].state = "captured"

RechargeInv ==
    /\ RechargeTypeOK
    /\ PrepayIsFirst
    /\ Counted
    /\ AckedIsCaptured
    /\ RefusedOnlyLate

-----------------------------------------------------------------------------
(* Facts about the rows.                                                   *)

LEMMA TimesLater ==
  /\ 0 \in Times
  /\ 0..MaxClock \subseteq Times
  /\ \A t \in 0..MaxClock : t + RowTTL \in Times /\ t + PaymentExpire \in Times
  BY RechargesAssumption DEF Times

(* One row takes another status and keeps the rest. *)
LEMMA StatusRow ==
  ASSUME RechargeTypeOK, NEW r \in RechargeIds,
         NEW s \in {"none", "pending", "paid", "closed", "deleted"},
         recharges' = [recharges EXCEPT ![r].status = s]
  PROVE  /\ recharges' \in [RechargeIds -> [status: {"none", "pending", "paid", "closed", "deleted"}, due: Times]]
         /\ recharges'[r].status = s
         /\ recharges'[r].due = recharges[r].due
         /\ \A q \in RechargeIds \ {r} : recharges'[q] = recharges[q]
<1>. DEFINE row == [recharges[r] EXCEPT !.status = s]
<1>1. row \in [status: {"none", "pending", "paid", "closed", "deleted"}, due: Times]
      /\ row.status = s /\ row.due = recharges[r].due
  BY DEF RechargeTypeOK
<1>2. recharges' = [recharges EXCEPT ![r] = row]
  BY DEF RechargeTypeOK
<1>. HIDE DEF row
<1>. QED BY <1>1, <1>2 DEF RechargeTypeOK

(* One trade takes another state and keeps its times. *)
LEMMA TradeRow ==
  ASSUME RechargeTypeOK, NEW r \in RechargeIds, NEW s \in {"none", "open", "captured", "closed"},
         trades' = [trades EXCEPT ![r].state = s]
  PROVE  /\ trades' \in [RechargeIds -> [state: {"none", "open", "captured", "closed"}, payBy: Times, at: Times]]
         /\ trades'[r].state = s
         /\ \A q \in RechargeIds \ {r} : trades'[q] = trades[q]
<1>. DEFINE trade == [trades[r] EXCEPT !.state = s]
<1>1. trade \in [state: {"none", "open", "captured", "closed"}, payBy: Times, at: Times] /\ trade.state = s
  BY DEF RechargeTypeOK
<1>2. trades' = [trades EXCEPT ![r] = trade]
  BY DEF RechargeTypeOK
<1>. HIDE DEF trade
<1>. QED BY <1>1, <1>2 DEF RechargeTypeOK

-----------------------------------------------------------------------------
(* Marking a row paid, the body of four actions.                           *)

(* What a step may rely on, whoever takes it: a row that is marked was not *)
(* credited, and one that is not stays as it was.                          *)
LEMMA Marked ==
  ASSUME RechargeInv, NEW r \in RechargeIds, NEW t, MarkRechargePaid(r, t)
  PROVE  /\ recharges' \in [RechargeIds -> [status: {"none", "pending", "paid", "closed", "deleted"}, due: Times]]
         /\ booked' \in [RechargeIds -> Nat]
         /\ \A q \in RechargeIds : recharges'[q].due = recharges[q].due
         /\ \A q \in RechargeIds \ {r} : recharges'[q] = recharges[q] /\ booked'[q] = booked[q]
         /\ recharges'[r].status = "none" <=> recharges[r].status = "none"
         /\ \/ /\ recharges'[r].status = "paid" /\ booked'[r] = 1
               /\ booked[r] = 0
            \/ /\ recharges' = recharges /\ booked' = booked
               /\ ~Markable(r, t)
<1>1. CASE Markable(r, t)
  <2>1. recharges' = [recharges EXCEPT ![r].status = "paid"] /\ booked' = [booked EXCEPT ![r] = @ + 1]
    BY <1>1 DEF MarkRechargePaid
  <2>2. booked[r] = 0 /\ recharges[r].status # "none"
    BY <1>1 DEF Markable, RechargeInv, Counted
  <2>. QED BY <2>1, <2>2, StatusRow DEF RechargeInv, RechargeTypeOK
<1>2. CASE ~Markable(r, t)
  BY <1>2 DEF MarkRechargePaid, RechargeInv, RechargeTypeOK
<1>. QED BY <1>1, <1>2

(* Rows marked paid keep the count, if there is money or a developer. *)
LEMMA MarkedCounted ==
  ASSUME RechargeInv, NEW r \in RechargeIds, NEW t, MarkRechargePaid(r, t),
         UNCHANGED <<trades, prepaying, clock>>,
         mocked \subseteq mocked',
         booked' # booked => trades[r].state = "captured" \/ r \in mocked'
  PROVE  PrepayIsFirst' /\ Counted'
         /\ \A q \in acked : recharges'[q].status = "paid" \/ recharges'[q].due < clock'
<1>1. PrepayIsFirst'
  BY Marked DEF RechargeInv, PrepayIsFirst, RechargeTypeOK
<1>2. Counted'
  <2>. SUFFICES ASSUME NEW q \in RechargeIds
                PROVE  /\ booked'[q] \in {0, 1}
                       /\ recharges'[q].status \in {"none", "pending", "closed"} => booked'[q] = 0
                       /\ recharges'[q].status = "paid" => booked'[q] = 1
                       /\ booked'[q] = 1 => trades[q].state = "captured" \/ q \in mocked'
    BY DEF Counted
  <2>1. CASE q = r
    BY <2>1, Marked DEF RechargeInv, Counted
  <2>2. CASE q # r
    BY <2>2, Marked DEF RechargeInv, Counted
  <2>. QED BY <2>1, <2>2
<1>3. \A q \in acked : recharges'[q].status = "paid" \/ recharges'[q].due < clock'
  <2>. SUFFICES ASSUME NEW q \in acked
                PROVE  recharges'[q].status = "paid" \/ recharges'[q].due < clock'
    OBVIOUS
  <2>1. q \in RechargeIds
    BY DEF RechargeInv, RechargeTypeOK
  <2>. QED BY <2>1, Marked DEF RechargeInv, RefusedOnlyLate
<1>. QED BY <1>1, <1>2, <1>3

-----------------------------------------------------------------------------
(* One step at a time.                                                     *)

(* A step that leaves every row, trade and count alone, or lets time pass. *)
LEMMA QuietStep ==
  ASSUME RechargeInv, UNCHANGED <<recharges, trades, booked, noteVars>>,
         prepaying' \subseteq prepaying, closing' \cup querying' \subseteq RechargeIds,
         devMode' \in BOOLEAN, clock' \in 0..MaxClock, clock <= clock'
  PROVE  RechargeInv'
<1>1. RechargeTypeOK' /\ PrepayIsFirst' /\ Counted' /\ AckedIsCaptured'
  BY DEF RechargeInv, RechargeTypeOK, PrepayIsFirst, Counted, AckedIsCaptured, noteVars
<1>2. RefusedOnlyLate'
  <2>. SUFFICES ASSUME NEW r \in acked
                PROVE  recharges[r].status = "paid" \/ recharges[r].due < clock'
    BY DEF RefusedOnlyLate, noteVars
  <2>1. clock \in Nat /\ clock' \in Nat /\ recharges[r].due \in Nat
    BY RechargesAssumption DEF RechargeInv, RechargeTypeOK, Times
  <2>. QED BY <2>1 DEF RechargeInv, RefusedOnlyLate
<1>. QED BY <1>1, <1>2 DEF RechargeInv

(* A step on a trade that the channel has not paid yet. *)
LEMMA TradeStep ==
  ASSUME RechargeInv, NEW r \in RechargeIds, trades[r].state = "open",
         NEW s \in {"captured", "closed"},
         trades' \in [RechargeIds -> [state: {"none", "open", "captured", "closed"}, payBy: Times, at: Times]],
         trades'[r].state = s, \A q \in RechargeIds \ {r} : trades'[q] = trades[q],
         UNCHANGED <<clock, devMode, recharges, prepaying, querying, booked, noteVars>>,
         closing' \subseteq closing
  PROVE  RechargeInv'
<1>1. RechargeTypeOK'
  BY DEF RechargeInv, RechargeTypeOK, noteVars
<1>2. PrepayIsFirst'
  BY DEF RechargeInv, RechargeTypeOK, PrepayIsFirst
<1>3. Counted'
  BY DEF RechargeInv, Counted, noteVars
<1>4. AckedIsCaptured'
  BY DEF RechargeInv, RechargeTypeOK, AckedIsCaptured, noteVars
<1>5. RefusedOnlyLate'
  BY DEF RechargeInv, RefusedOnlyLate, noteVars
<1>. QED BY <1>1, <1>2, <1>3, <1>4, <1>5 DEF RechargeInv

LEMMA RechargeStep ==
  ASSUME RechargeInv, NEW r \in RechargeIds, publisherRecharge(r)
  PROVE  RechargeInv'
<1>. USE DEF publisherRecharge, callVars, noteVars
<1>1. recharges' = [recharges EXCEPT ![r] = [status |-> "pending", due |-> Due]] /\ Due \in Times
  BY TimesLater DEF RechargeInv, RechargeTypeOK, Due
<1>2. recharges[r].status = "none" /\ trades[r].state = "none" /\ booked[r] = 0
  BY DEF RechargeInv, PrepayIsFirst, Counted
<1>3. RechargeTypeOK'
  BY <1>1 DEF RechargeInv, RechargeTypeOK
<1>4. PrepayIsFirst' /\ Counted' /\ AckedIsCaptured'
  BY <1>1, <1>2 DEF RechargeInv, RechargeTypeOK, PrepayIsFirst, Counted, AckedIsCaptured
<1>5. RefusedOnlyLate'
  <2>1. r \notin acked
    BY <1>2 DEF RechargeInv, AckedIsCaptured
  <2>. QED BY <1>1, <2>1 DEF RechargeInv, RechargeTypeOK, RefusedOnlyLate
<1>. QED BY <1>3, <1>4, <1>5 DEF RechargeInv

LEMMA AtOnceStep ==
  ASSUME RechargeInv, NEW r \in RechargeIds, RechargeAtOnce(r)
  PROVE  RechargeInv'
<1>. USE DEF RechargeAtOnce, callVars
<1>1. recharges' = [recharges EXCEPT ![r] = [status |-> "paid", due |-> 0]] /\ 0 \in Times
  BY TimesLater
<1>2. trades[r].state = "none" /\ booked[r] = 0 /\ r \notin prepaying
  BY DEF RechargeInv, PrepayIsFirst, Counted
<1>3. RechargeTypeOK'
  BY <1>1, <1>2 DEF RechargeInv, RechargeTypeOK
<1>4. PrepayIsFirst' /\ Counted' /\ AckedIsCaptured'
  BY <1>1, <1>2 DEF RechargeInv, RechargeTypeOK, PrepayIsFirst, Counted, AckedIsCaptured
<1>5. RefusedOnlyLate'
  BY <1>1 DEF RechargeInv, RechargeTypeOK, RefusedOnlyLate
<1>. QED BY <1>3, <1>4, <1>5 DEF RechargeInv

LEMMA PrepayStep ==
  ASSUME RechargeInv, NEW r \in RechargeIds, Prepay(r)
  PROVE  RechargeInv'
<1>. USE DEF Prepay, noteVars
<1>1. /\ trades' = [trades EXCEPT ![r] = [state |-> "open", payBy |-> clock + PaymentExpire, at |-> 0]]
      /\ clock + PaymentExpire \in Times /\ 0 \in Times
  BY TimesLater DEF RechargeInv, RechargeTypeOK
<1>2. trades[r].state = "none" /\ recharges[r].status # "none"
  BY DEF RechargeInv, PrepayIsFirst
<1>3. RechargeTypeOK'
  BY <1>1 DEF RechargeInv, RechargeTypeOK
<1>4. PrepayIsFirst' /\ Counted' /\ AckedIsCaptured' /\ RefusedOnlyLate'
  BY <1>1, <1>2 DEF RechargeInv, RechargeTypeOK, PrepayIsFirst, Counted, AckedIsCaptured,
     RefusedOnlyLate
<1>. QED BY <1>3, <1>4 DEF RechargeInv

LEMMA PrepayFailsStep ==
  ASSUME RechargeInv, NEW r \in RechargeIds, PrepayFails(r)
  PROVE  RechargeInv'
<1>. USE DEF PrepayFails, noteVars
<1>1. CASE recharges' = recharges
  BY <1>1, QuietStep DEF RechargeInv, RechargeTypeOK
<1>2. CASE recharges' = [recharges EXCEPT ![r].status = "deleted"]
  <2>1. trades[r].state = "none" /\ r \notin acked
    BY DEF RechargeInv, PrepayIsFirst, AckedIsCaptured
  <2>2. RechargeTypeOK'
    BY <1>2, StatusRow DEF RechargeInv, RechargeTypeOK
  <2>3. PrepayIsFirst' /\ Counted' /\ AckedIsCaptured' /\ RefusedOnlyLate'
    BY <1>2, <2>1, StatusRow DEF RechargeInv, RechargeTypeOK, PrepayIsFirst, Counted,
       AckedIsCaptured, RefusedOnlyLate
  <2>. QED BY <2>2, <2>3 DEF RechargeInv
<1>. QED BY <1>1, <1>2

LEMMA WebhookStep ==
  ASSUME RechargeInv, NEW r \in RechargeIds, RechargeWebhook(r)
  PROVE  RechargeInv'
<1>. USE DEF RechargeWebhook, callVars
<1>1. PrepayIsFirst' /\ Counted' /\ \A q \in acked : recharges'[q].status = "paid" \/ recharges'[q].due < clock'
  BY MarkedCounted
<1>2. RechargeTypeOK'
  BY Marked DEF RechargeInv, RechargeTypeOK
<1>3. AckedIsCaptured'
  BY DEF RechargeInv, AckedIsCaptured
<1>4. recharges'[r].status = "paid" \/ recharges'[r].due < clock'
  <2>1. CASE recharges'[r].status = "paid"
    BY <2>1
  <2>2. CASE recharges' = recharges /\ ~Markable(r, clock)
    <3>1. recharges[r].status \in {"pending", "paid", "closed"}
      BY DEF RechargeInv, RechargeTypeOK, PrepayIsFirst
    <3>. QED BY <2>2, <3>1 DEF Markable
  <2>. QED BY <2>1, <2>2, Marked
<1>5. RefusedOnlyLate'
  BY <1>1, <1>4 DEF RefusedOnlyLate
<1>. QED BY <1>1, <1>2, <1>3, <1>5 DEF RechargeInv

LEMMA MockStep ==
  ASSUME RechargeInv, NEW r \in RechargeIds, devMockPayRecharge(r)
  PROVE  RechargeInv'
<1>. USE DEF devMockPayRecharge, callVars
<1>1. PrepayIsFirst' /\ Counted' /\ \A q \in acked : recharges'[q].status = "paid" \/ recharges'[q].due < clock'
  BY MarkedCounted
<1>2. RechargeTypeOK'
  BY Marked DEF RechargeInv, RechargeTypeOK
<1>3. AckedIsCaptured' /\ RefusedOnlyLate'
  BY <1>1 DEF RechargeInv, AckedIsCaptured, RefusedOnlyLate
<1>. QED BY <1>1, <1>2, <1>3 DEF RechargeInv

LEMMA SyncStep ==
  ASSUME RechargeInv, NEW r \in RechargeIds, SyncRechargeStatus(r)
  PROVE  RechargeInv'
<1>. USE DEF SyncRechargeStatus, noteVars
<1>1. CASE trades[r].state = "captured"
  <2>1. PICK t : MarkRechargePaid(r, t)
    BY <1>1
  <2>2. PrepayIsFirst' /\ Counted' /\ \A q \in acked : recharges'[q].status = "paid" \/ recharges'[q].due < clock'
    BY <1>1, <2>1, MarkedCounted
  <2>3. RechargeTypeOK'
    BY <2>1, Marked DEF RechargeInv, RechargeTypeOK
  <2>. QED BY <2>2, <2>3 DEF RechargeInv, AckedIsCaptured, RefusedOnlyLate
<1>2. CASE trades[r].state = "closed" /\ StillOpen(r)
  <2>1. recharges' = [recharges EXCEPT ![r].status = "closed"] /\ recharges[r].status = "pending" /\ booked' = booked
    BY <1>2 DEF StillOpen
  <2>2. RechargeTypeOK'
    BY <2>1, StatusRow DEF RechargeInv, RechargeTypeOK
  <2>3. PrepayIsFirst' /\ Counted' /\ AckedIsCaptured' /\ RefusedOnlyLate'
    BY <2>1, StatusRow DEF RechargeInv, RechargeTypeOK, PrepayIsFirst, Counted, AckedIsCaptured,
       RefusedOnlyLate
  <2>. QED BY <2>2, <2>3 DEF RechargeInv
<1>3. CASE trades[r].state # "captured" /\ ~(trades[r].state = "closed" /\ StillOpen(r))
  <2>1. UNCHANGED <<recharges, booked>>
    BY <1>3
  <2>. QED BY <2>1, QuietStep DEF RechargeInv, RechargeTypeOK
<1>. QED BY <1>1, <1>2, <1>3

LEMMA CloseExpiredStep ==
  ASSUME RechargeInv, CloseExpiredRecharges
  PROVE  RechargeInv'
<1>. USE DEF CloseExpiredRecharges, noteVars
<1>1. /\ recharges' \in [RechargeIds -> [status: {"none", "pending", "paid", "closed", "deleted"}, due: Times]]
      /\ \A r \in RechargeIds :
            \/ recharges'[r] = recharges[r]
            \/ /\ recharges[r].status = "pending" /\ recharges'[r].status = "closed"
               /\ recharges'[r].due = recharges[r].due
  BY DEF RechargeInv, RechargeTypeOK, Overdue
<1>2. RechargeTypeOK'
  BY <1>1 DEF RechargeInv, RechargeTypeOK
<1>3. PrepayIsFirst' /\ Counted' /\ AckedIsCaptured' /\ RefusedOnlyLate'
  BY <1>1 DEF RechargeInv, RechargeTypeOK, PrepayIsFirst, Counted, AckedIsCaptured, RefusedOnlyLate
<1>. QED BY <1>2, <1>3 DEF RechargeInv

LEMMA CloseTradeStep ==
  ASSUME RechargeInv, NEW r \in RechargeIds, CloseRechargeTrade(r)
  PROVE  RechargeInv'
<1>. USE DEF CloseRechargeTrade, noteVars
<1>1. CASE trades' = trades
  BY <1>1, QuietStep DEF RechargeInv, RechargeTypeOK
<1>2. CASE trades[r].state = "open" /\ trades' = [trades EXCEPT ![r].state = "closed"]
  BY <1>2, TradeRow, TradeStep DEF RechargeInv
<1>. QED BY <1>1, <1>2

LEMMA CaptureStep ==
  ASSUME RechargeInv, NEW r \in RechargeIds, CaptureRecharge(r)
  PROVE  RechargeInv'
<1>. DEFINE trade == [[trades[r] EXCEPT !.state = "captured"] EXCEPT !.at = clock]
<1>1. trade \in [state: {"none", "open", "captured", "closed"}, payBy: Times, at: Times]
      /\ trade.state = "captured"
  BY TimesLater DEF RechargeInv, RechargeTypeOK
<1>2. trades' = [trades EXCEPT ![r] = trade]
  BY DEF RechargeInv, RechargeTypeOK, CaptureRecharge
<1>. HIDE DEF trade
<1>3. /\ trades' \in [RechargeIds -> [state: {"none", "open", "captured", "closed"}, payBy: Times, at: Times]]
      /\ trades'[r].state = "captured" /\ \A q \in RechargeIds \ {r} : trades'[q] = trades[q]
  BY <1>1, <1>2 DEF RechargeInv, RechargeTypeOK
<1>4. /\ trades[r].state = "open"
      /\ UNCHANGED <<clock, devMode, recharges, callVars, booked, noteVars>>
  BY DEF CaptureRecharge
<1>. QED BY <1>3, <1>4, TradeStep DEF callVars

LEMMA InvInit == RechargeInit => RechargeInv
  BY TimesLater, RechargesAssumption DEF RechargeInit, RechargeInv, RechargeTypeOK, PrepayIsFirst,
     Counted, AckedIsCaptured, RefusedOnlyLate

LEMMA InvNext == RechargeInv /\ [RechargeNext]_rechargeVars => RechargeInv'
<1>. SUFFICES ASSUME RechargeInv, [RechargeNext]_rechargeVars PROVE RechargeInv'
  OBVIOUS
<1>1. ASSUME NEW r \in RechargeIds, TradeRunsOut(r) PROVE RechargeInv'
  BY <1>1, TradeRow, TradeStep DEF RechargeInv, TradeRunsOut, callVars
<1>2. ASSUME NEW r \in RechargeIds, adminSyncRecharge(r) PROVE RechargeInv'
  BY <1>2, QuietStep DEF adminSyncRecharge, RechargeInv, RechargeTypeOK
<1>3. CASE RechargeTick
  <2>1. clock' \in 0..MaxClock /\ clock <= clock'
    BY <1>3, RechargesAssumption DEF RechargeTick, RechargeInv, RechargeTypeOK
  <2>. QED BY <1>3, <2>1, QuietStep DEF RechargeTick, RechargeInv, RechargeTypeOK, callVars
<1>4. UNCHANGED clock => clock' \in 0..MaxClock /\ clock <= clock'
  BY RechargesAssumption DEF RechargeInv, RechargeTypeOK
<1>5. CASE RestartPayments
  BY <1>4, <1>5, QuietStep DEF RestartPayments, RechargeInv, RechargeTypeOK
<1>6. CASE UNCHANGED rechargeVars
  BY <1>4, <1>6, QuietStep DEF rechargeVars, noteVars, RechargeInv, RechargeTypeOK
<1>. QED
  BY <1>1, <1>2, <1>3, <1>5, <1>6, RechargeStep, AtOnceStep, PrepayStep, PrepayFailsStep,
     CaptureStep,
     WebhookStep, MockStep, SyncStep, CloseExpiredStep, CloseTradeStep DEF RechargeNext

LEMMA Invariance == RechargeSpec => []RechargeInv
<1>. QED BY InvInit, InvNext, PTL DEF RechargeSpec

-----------------------------------------------------------------------------
(* The results.                                                            *)

(* The fields of rows and trades, and the times in them. *)
THEOREM RechargeTypes == RechargeSpec => []RechargeTypeOK
<1>. QED BY Invariance, PTL DEF RechargeInv

(* Callbacks, queries, the endpoint and the task never credit a recharge   *)
(* twice, nor without money or a developer (billing.go, MarkRechargePaid). *)
THEOREM CreditedOnce == RechargeSpec => []CreditedOnceForMoney
<1>1. RechargeInv => CreditedOnceForMoney
  <2>1. ASSUME Counted, NEW r \in RechargeIds PROVE booked[r] <= 1
    BY <2>1 DEF Counted
  <2>. QED BY <2>1 DEF RechargeInv, Counted, CreditedOnceForMoney
<1>. QED BY <1>1, Invariance, PTL

(* A callback is turned away for good only when the row's time is over     *)
(* (webhooks.go, handlePayWebhook).                                        *)
THEOREM RefusedLate == RechargeSpec => []RefusedOnlyLate
<1>. QED BY Invariance, PTL DEF RechargeInv

(* The two together: what a distributor who pays is promised, whichever of *)
(* the four ways the payment is found (billing.go, webhooks.go).           *)
THEOREM RechargesKeepTheirPromise == RechargeSpec => []RechargePromise
<1>1. CreditedOnceForMoney /\ RefusedOnlyLate => RechargePromise
  BY DEF RechargePromise
<1>. QED BY <1>1, CreditedOnce, RefusedLate, PTL

-----------------------------------------------------------------------------
(* What an import is at: on a line of its sheet, with what it wrote until  *)
(* it ends.                                                                *)
Underway ==
    \A i \in Imports :
        /\ imports[i].stage # "idle" => imports[i].sheet \in Sheets
        /\ imports[i].stage = "read" => ~AtEnd(i) /\ (~IsDeposit(i) => imports[i].by \in Creators)
        /\ ~InTransaction(i) => imports[i] = [NoImport EXCEPT !.stage = imports[i].stage,
                                                              !.sheet = imports[i].sheet]

OthersStay(i) == \A j \in Imports \ {i} : imports'[j] = imports[j]

(* What the transaction wrote so far. *)
WorkStays(i) ==
    /\ imports'[i].wrote = imports[i].wrote /\ imports'[i].due = imports[i].due
    /\ imports'[i].missed = imports[i].missed
    /\ imports'[i].holds = imports[i].holds /\ imports'[i].gives = imports[i].gives
    /\ imports'[i].pays = imports[i].pays

Import ==
    [stage: {"idle", "open", "read", "saving"}, sheet: Sheets \cup {NoOne}, line: Nat \ {0},
     seen: Row \cup {NoRow}, by: Creators \cup {NoOne}, lost: BOOLEAN,
     wrote: [Channels -> Row \cup {NoRow}], due: [Creators -> Int], missed: [Creators -> Int],
     holds: SUBSET Creators, gives: SUBSET (Publishers \X Places), pays: BOOLEAN]

LEMMA ImportsType == IncomeTypeOK => imports \in [Imports -> Import]
BY DEF IncomeTypeOK, Import

LEMMA NoImportType == NoImport \in Import
BY DEF NoImport, Import

LEMMA RowsType ==
    ASSUME IncomeTypeOK
    PROVE  \A i \in Imports, c \in Channels : Visible(i, c) \in Row \cup {NoRow}
BY ImportsType DEF Visible, Import, IncomeTypeOK

LEMMA RowColumns ==
    \A r \in Row \cup {NoRow} : /\ r.creator \in Creators \cup {NoOne} /\ r.income \in Nat
                                /\ r.creator = NoOne <=> r = NoRow
BY IncomeAssumption DEF Row, NoRow

LEMMA LineType ==
    ASSUME IncomeTypeOK, Underway, NEW i \in Imports, imports[i].stage # "idle", ~AtEnd(i)
    PROVE  /\ Line(i).channel \in Channels \cup {NoOne} /\ Line(i).income \in Nat
           /\ ~IsDeposit(i) => Line(i).channel \in Channels
<1>1. imports[i].sheet \in Sheets /\ imports[i].line \in Nat \ {0}
  BY ImportsType DEF Underway, Import
<1>2. Lines[imports[i].sheet] \in Seq([channel: Channels \cup {NoOne}, income: Nat])
  BY <1>1, IncomeAssumption
<1>3. imports[i].line \in 1..Len(Lines[imports[i].sheet])
  BY <1>1, <1>2 DEF AtEnd
<1>4. Line(i) \in [channel: Channels \cup {NoOne}, income: Nat]
  <2> DEFINE S == [channel: Channels \cup {NoOne}, income: Nat]
             lines == Lines[imports[i].sheet]
  <2>1. lines \in Seq(S) /\ imports[i].line \in 1..Len(lines)
    BY <1>2, <1>3
  <2>. HIDE DEF S, lines
  <2>2. lines[imports[i].line] \in S
    BY <2>1
  <2>. QED BY <2>2 DEF Line, S, lines
<1>. QED BY <1>4 DEF IsDeposit

-----------------------------------------------------------------------------
(* What each step of an import does to it.                                 *)

LEMMA UploadRow ==
    ASSUME IncomeTypeOK, NEW i \in Imports, NEW f \in Sheets, Upload(i, f)
    PROVE  /\ imports' \in [Imports -> Import] /\ OthersStay(i) /\ WorkStays(i)
           /\ imports'[i].stage = "open" /\ imports'[i].sheet = f
<1>1. imports[i] \in Import
  BY ImportsType
<1> DEFINE row == [imports[i] EXCEPT !.stage = "open", !.sheet = f]
<1>2. imports' = [imports EXCEPT ![i] = row]
  BY ImportsType DEF Upload
<1>3. /\ row \in Import /\ row.stage = "open" /\ row.sheet = f
      /\ row.wrote = imports[i].wrote /\ row.due = imports[i].due /\ row.missed = imports[i].missed /\ row.holds = imports[i].holds
      /\ row.gives = imports[i].gives /\ row.pays = imports[i].pays
  BY <1>1 DEF Import
<1>. HIDE DEF row
<1>. QED BY <1>2, <1>3, ImportsType DEF OthersStay, WorkStays

LEMMA ReadRow ==
    ASSUME IncomeTypeOK, Underway, NEW i \in Imports, ReadLine(i)
    PROVE  /\ imports' \in [Imports -> Import] /\ OthersStay(i) /\ WorkStays(i)
           /\ imports'[i].stage \in {"open", "read"} /\ imports'[i].sheet = imports[i].sheet
           /\ imports'[i].stage = "read" =>
                /\ imports'[i].line = imports[i].line
                /\ ~IsDeposit(i) => /\ imports'[i].by = owner /\ owner # NoOne
                                    /\ imports'[i].seen = Visible(i, Line(i).channel)
                                    /\ ~imports'[i].lost
<1>1. imports[i] \in Import /\ imports[i].stage = "open"
  BY ImportsType DEF ReadLine
<1>2. CASE imports' = [imports EXCEPT ![i].line = @ + 1]
  <2> DEFINE row == [imports[i] EXCEPT !.line = @ + 1]
  <2>1. /\ row \in Import /\ row.stage = "open" /\ row.sheet = imports[i].sheet
        /\ row.wrote = imports[i].wrote /\ row.due = imports[i].due /\ row.missed = imports[i].missed /\ row.holds = imports[i].holds
        /\ row.gives = imports[i].gives /\ row.pays = imports[i].pays
    BY <1>1 DEF Import
  <2>2. imports' = [imports EXCEPT ![i] = row]
    BY <1>2, ImportsType
  <2>. HIDE DEF row
  <2>. QED BY <2>1, <2>2, ImportsType DEF OthersStay, WorkStays
<1>3. CASE IsDeposit(i) /\ imports' = [imports EXCEPT ![i].stage = "read"]
  <2> DEFINE row == [imports[i] EXCEPT !.stage = "read"]
  <2>1. /\ row \in Import /\ row.stage = "read" /\ row.sheet = imports[i].sheet /\ row.line = imports[i].line
        /\ row.wrote = imports[i].wrote /\ row.due = imports[i].due /\ row.missed = imports[i].missed /\ row.holds = imports[i].holds
        /\ row.gives = imports[i].gives /\ row.pays = imports[i].pays
    BY <1>1 DEF Import
  <2>2. imports' = [imports EXCEPT ![i] = row]
    BY <1>3, ImportsType
  <2>. HIDE DEF row
  <2>. QED BY <1>3, <2>1, <2>2, ImportsType DEF OthersStay, WorkStays
<1>4. CASE /\ ~IsDeposit(i) /\ owner # NoOne
           /\ imports' = [imports EXCEPT ![i].stage = "read", ![i].seen = Visible(i, Line(i).channel),
                                         ![i].by = owner, ![i].lost = FALSE]
  <2> DEFINE seen == Visible(i, Line(i).channel)
             row == [imports[i] EXCEPT !.stage = "read", !.seen = seen, !.by = owner, !.lost = FALSE]
  <2>1. seen \in Row \cup {NoRow} /\ owner \in Creators \cup {NoOne}
    <3>1. ~AtEnd(i)
      BY DEF ReadLine
    <3>. QED BY <1>1, <1>4, <3>1, LineType, RowsType DEF IncomeTypeOK
  <2>. HIDE DEF seen
  <2>2. /\ row \in Import /\ row.stage = "read" /\ row.sheet = imports[i].sheet /\ row.line = imports[i].line
        /\ row.wrote = imports[i].wrote /\ row.due = imports[i].due /\ row.missed = imports[i].missed /\ row.holds = imports[i].holds
        /\ row.gives = imports[i].gives /\ row.pays = imports[i].pays
        /\ row.by = owner /\ row.seen = seen /\ row.lost = FALSE
    BY <1>1, <2>1 DEF Import
  <2>3. imports' = [imports EXCEPT ![i] = row]
    BY <1>4, ImportsType DEF seen
  <2>. HIDE DEF row
  <2>. QED BY <1>4, <2>2, <2>3, ImportsType DEF OthersStay, WorkStays, seen
<1>. QED BY <1>2, <1>3, <1>4 DEF ReadLine

LEMMA NextLineRow ==
    ASSUME IncomeTypeOK, NEW i \in Imports, NEW gives \in SUBSET (Publishers \X Places)
    PROVE  /\ NextLine(i, gives) \in Import
           /\ NextLine(i, gives).stage = "open" /\ NextLine(i, gives).sheet = imports[i].sheet
           /\ NextLine(i, gives).wrote = imports[i].wrote /\ NextLine(i, gives).due = imports[i].due
           /\ NextLine(i, gives).missed = imports[i].missed
           /\ NextLine(i, gives).holds = imports[i].holds /\ NextLine(i, gives).pays = imports[i].pays
           /\ NextLine(i, gives).gives = imports[i].gives \cup gives
<1>1. imports[i] \in Import /\ NoRow \in Row \cup {NoRow}
  BY ImportsType
<1> DEFINE im == imports[i]
<1>2. im.line + 1 \in Nat \ {0} /\ im.gives \cup gives \in SUBSET (Publishers \X Places)
  BY <1>1 DEF Import
<1>3. /\ NextLine(i, gives).stage = "open" /\ NextLine(i, gives).sheet = im.sheet
      /\ NextLine(i, gives).wrote = im.wrote /\ NextLine(i, gives).due = im.due
      /\ NextLine(i, gives).missed = im.missed
      /\ NextLine(i, gives).holds = im.holds /\ NextLine(i, gives).pays = im.pays
      /\ NextLine(i, gives).gives = im.gives \cup gives
  BY <1>1 DEF NextLine, Import
<1>4. NextLine(i, gives) \in Import
  BY <1>1, <1>2 DEF NextLine, Import
<1>. QED BY <1>3, <1>4

(* The channel that a line is of, and the difference it comes to. *)
Sold(i) == Line(i).channel

Owed(i) == Difference(imports[i].seen, Line(i).income)

LEMMA WrittenLine ==
    ASSUME IncomeTypeOK, Underway, NEW i \in Imports, WriteIncome(i)
    PROVE  /\ Sold(i) \in Channels /\ Line(i).income \in Nat /\ Owed(i) \in Int
           /\ imports[i].by \in Creators /\ imports[i].sheet \in Sheets
           /\ imports[i].seen \in Row \cup {NoRow} /\ InTransaction(i)
           /\ Receives(i, Sold(i)) \in SUBSET (Publishers \X Places)
           /\ \A x \in Creators : Missed(i, x) \in Int
<1>1. imports[i].stage = "read" /\ ~IsDeposit(i)
  BY DEF WriteIncome
<1>2. ~AtEnd(i) /\ imports[i].by \in Creators /\ imports[i].sheet \in Sheets
  BY <1>1 DEF Underway
<1>3. Sold(i) \in Channels /\ Line(i).income \in Nat
  BY <1>1, <1>2, LineType DEF Sold
<1>4. imports[i].seen \in Row \cup {NoRow}
  BY ImportsType DEF Import
<1>5. Owed(i) \in Int
  <2>1. imports[i].seen.income \in Nat
    BY <1>4, RowColumns
  <2>. QED BY <1>3, <2>1 DEF Owed, Difference
<1>6. \A x \in Creators : Missed(i, x) \in Int
  <2>1. imports[i].seen.income \in Nat /\ Visible(i, Line(i).channel).income \in Nat
    BY <1>3, <1>4, RowColumns, RowsType DEF Sold
  <2>. QED BY <1>3, <2>1 DEF Missed
<1>. QED BY <1>1, <1>2, <1>3, <1>4, <1>5, <1>6 DEF Receives, InTransaction

(* A line that says what the row says already. *)
LEMMA SkipRow ==
    ASSUME IncomeTypeOK, Underway, NEW i \in Imports, WriteIncome(i), Unchanged(i)
    PROVE  /\ imports' \in [Imports -> Import] /\ OthersStay(i)
           /\ imports'[i].stage = "open" /\ imports'[i].sheet = imports[i].sheet
           /\ imports'[i].pays = imports[i].pays /\ imports'[i].wrote = imports[i].wrote
           /\ imports'[i].due = imports[i].due /\ imports'[i].holds = imports[i].holds
           /\ imports'[i].gives = imports[i].gives \cup Receives(i, Sold(i))
           /\ unlocked' = unlocked \cup Receives(i, Sold(i))
           /\ imports'[i].missed = imports[i].missed /\ UNCHANGED <<drift, moved>>
<1>1. imports' = [imports EXCEPT ![i] = NextLine(i, Receives(i, Sold(i)))] /\ UNCHANGED <<drift, moved>>
  BY DEF WriteIncome, Sold
<1>2. Difference(imports[i].seen, Line(i).income) = 0
  BY DEF Unchanged
<1>3. unlocked' = unlocked \cup Receives(i, Sold(i))
  BY <1>2 DEF WriteIncome, Sold
<1>. QED BY <1>1, <1>3, WrittenLine, NextLineRow, ImportsType DEF OthersStay

(* A line that is written. *)
LEMMA WriteRow ==
    ASSUME IncomeTypeOK, Underway, NEW i \in Imports, WriteIncome(i), ~Unchanged(i)
    PROVE  /\ imports' \in [Imports -> Import] /\ OthersStay(i)
           /\ imports'[i].stage = "open" /\ imports'[i].sheet = imports[i].sheet
           /\ imports'[i].pays = imports[i].pays
           /\ imports'[i].gives = imports[i].gives \cup Receives(i, Sold(i))
           /\ imports'[i].wrote = [imports[i].wrote EXCEPT ![Sold(i)] =
                 IF imports[i].lost THEN @ ELSE [creator |-> imports[i].by, income |-> Line(i).income]]
           /\ imports'[i].due = [imports[i].due EXCEPT ![imports[i].by] = @ + Owed(i)]
           /\ imports'[i].missed = [x \in Creators |-> imports[i].missed[x] + Missed(i, x)]
           /\ imports'[i].holds = imports[i].holds \cup {x \in {imports[i].by} : Owed(i) # 0}
           /\ imports[i].lost \/ RowIsFree(Sold(i), Imports \ {i})
           /\ imports[i].seen = NoRow => Visible(i, Sold(i)) = NoRow
           /\ Owed(i) # 0 => CreatorIsFree(imports[i].by, Imports \ {i})
           /\ drift' = drift
           /\ moved' = (moved \/ imports[i].seen.creator \notin {NoOne, imports[i].by})
           /\ unlocked' = IF Owed(i) = 0 THEN unlocked \cup Receives(i, Sold(i)) ELSE unlocked
<1> DEFINE next == NextLine(i, Receives(i, Sold(i)))
           new == [creator |-> imports[i].by, income |-> Line(i).income]
           row == [next EXCEPT !.wrote[Sold(i)] = IF imports[i].lost THEN @ ELSE new,
                               !.due[imports[i].by] = @ + Owed(i),
                               !.missed = [x \in Creators |-> @[x] + Missed(i, x)],
                               !.holds = @ \cup {x \in {imports[i].by} : Owed(i) # 0}]
<1>1. /\ imports' = [imports EXCEPT ![i] = row]
      /\ imports[i].lost \/ RowIsFree(Sold(i), Imports \ {i})
      /\ imports[i].seen = NoRow => Visible(i, Sold(i)) = NoRow
      /\ Owed(i) # 0 => CreatorIsFree(imports[i].by, Imports \ {i})
      /\ drift' = drift
      /\ moved' = (moved \/ imports[i].seen.creator \notin {NoOne, imports[i].by})
  BY DEF WriteIncome, Sold, Owed
<1>2. unlocked' = IF Owed(i) = 0 THEN unlocked \cup Receives(i, Sold(i)) ELSE unlocked
  BY DEF WriteIncome, Sold, Owed
<1>3. /\ next \in Import /\ next.stage = "open" /\ next.sheet = imports[i].sheet
      /\ next.wrote = imports[i].wrote /\ next.due = imports[i].due /\ next.missed = imports[i].missed
      /\ next.holds = imports[i].holds /\ next.pays = imports[i].pays
      /\ next.gives = imports[i].gives \cup Receives(i, Sold(i))
  BY WrittenLine, NextLineRow
<1>4. /\ imports[i].by \in Creators /\ Sold(i) \in Channels /\ Owed(i) \in Int
      /\ new \in Row \cup {NoRow} /\ \A x \in Creators : Missed(i, x) \in Int
  BY WrittenLine DEF Row
<1>. HIDE DEF next, new
<1> DEFINE wrote == [next.wrote EXCEPT ![Sold(i)] = IF imports[i].lost THEN @ ELSE new]
           due == [next.due EXCEPT ![imports[i].by] = @ + Owed(i)]
           missed == [x \in Creators |-> next.missed[x] + Missed(i, x)]
           holds == next.holds \cup {x \in {imports[i].by} : Owed(i) # 0}
<1>5. row = [next EXCEPT !.wrote = wrote, !.due = due, !.missed = missed, !.holds = holds]
  BY <1>3 DEF Import
<1>6. /\ wrote \in [Channels -> Row \cup {NoRow}] /\ due \in [Creators -> Int]
      /\ missed \in [Creators -> Int] /\ holds \in SUBSET Creators
  BY <1>3, <1>4 DEF Import
<1>. HIDE DEF wrote, due, missed, holds, row
<1>7. /\ row \in Import /\ row.stage = next.stage /\ row.sheet = next.sheet /\ row.pays = next.pays
      /\ row.gives = next.gives /\ row.wrote = wrote /\ row.due = due /\ row.missed = missed
      /\ row.holds = holds
  BY <1>3, <1>5, <1>6 DEF Import
<1>8. imports' \in [Imports -> Import] /\ OthersStay(i) /\ imports'[i] = row
  BY <1>1, <1>7, ImportsType DEF OthersStay
<1>. QED BY <1>1, <1>2, <1>3, <1>7, <1>8 DEF wrote, due, missed, holds, new

LEMMA DepositRow ==
    ASSUME IncomeTypeOK, NEW i \in Imports, WriteDeposit(i)
    PROVE  /\ imports' \in [Imports -> Import] /\ OthersStay(i)
           /\ imports'[i].stage = "open" /\ imports'[i].sheet = imports[i].sheet
           /\ imports'[i].wrote = imports[i].wrote /\ imports'[i].due = imports[i].due
           /\ imports'[i].missed = imports[i].missed
           /\ imports'[i].holds = imports[i].holds /\ imports'[i].gives = imports[i].gives
           /\ imports'[i].pays
<1>1. imports[i] \in Import
  BY ImportsType
<1> DEFINE row == [imports[i] EXCEPT !.stage = "open", !.line = @ + 1, !.pays = TRUE]
<1>2. imports' = [imports EXCEPT ![i] = row]
  BY ImportsType DEF WriteDeposit
<1>3. row \in Import
  <2>1. imports[i].line + 1 \in Nat \ {0}
    BY <1>1 DEF Import
  <2>. QED BY <1>1, <2>1 DEF Import
<1>4. /\ row.stage = "open" /\ row.sheet = imports[i].sheet /\ row.pays = TRUE
      /\ row.wrote = imports[i].wrote /\ row.due = imports[i].due /\ row.missed = imports[i].missed /\ row.holds = imports[i].holds
      /\ row.gives = imports[i].gives
  BY <1>1 DEF Import
<1>. HIDE DEF row
<1>. QED BY <1>2, <1>3, <1>4, ImportsType DEF OthersStay

(* An import that ends has nothing left of what it wrote. *)
Cleared(i) ==
    /\ imports'[i].wrote = [c \in Channels |-> NoRow] /\ imports'[i].due = [x \in Creators |-> 0]
    /\ imports'[i].missed = [x \in Creators |-> 0]
    /\ imports'[i].holds = {} /\ imports'[i].gives = {} /\ imports'[i].pays = FALSE

LEMMA EndRow ==
    ASSUME IncomeTypeOK, Underway, NEW i \in Imports, Commit(i) \/ SaveBatch(i) \/ RollBack(i)
    PROVE  /\ imports' \in [Imports -> Import] /\ OthersStay(i) /\ Cleared(i)
           /\ Commit(i) => imports'[i].stage = "saving" /\ imports'[i].sheet = imports[i].sheet
           /\ ~Commit(i) => imports'[i] = NoImport /\ imports'[i].stage = "idle"
           /\ imports'[i] = [NoImport EXCEPT !.stage = imports'[i].stage, !.sheet = imports'[i].sheet]
<1> DEFINE done == [NoImport EXCEPT !.stage = "saving", !.sheet = imports[i].sheet]
<1>1. /\ done \in Import /\ done.stage = "saving" /\ done.sheet = imports[i].sheet
      /\ done.wrote = NoImport.wrote /\ done.due = NoImport.due /\ done.missed = NoImport.missed /\ done.holds = NoImport.holds
      /\ done.gives = NoImport.gives /\ done.pays = NoImport.pays
      /\ done = [NoImport EXCEPT !.stage = done.stage, !.sheet = done.sheet]
  <2>1. imports[i].sheet \in Sheets \cup {NoOne}
    BY ImportsType DEF Import
  <2>. QED BY <2>1, NoImportType DEF Import
<1>2. /\ NoImport.wrote = [c \in Channels |-> NoRow] /\ NoImport.due = [x \in Creators |-> 0]
      /\ NoImport.missed = [x \in Creators |-> 0]
      /\ NoImport.holds = {} /\ NoImport.gives = {} /\ NoImport.pays = FALSE /\ NoImport.stage = "idle"
      /\ NoImport = [NoImport EXCEPT !.stage = NoImport.stage, !.sheet = NoImport.sheet]
  BY DEF NoImport
<1>. HIDE DEF done
<1>3. CASE Commit(i)
  <2>1. imports' = [imports EXCEPT ![i] = done]
    BY <1>3 DEF Commit, done
  <2>2. imports'[i] = done /\ imports' \in [Imports -> Import] /\ OthersStay(i)
    BY <1>1, <2>1, ImportsType DEF OthersStay
  <2>. QED BY <1>1, <1>2, <1>3, <2>2 DEF Cleared
<1>4. CASE ~Commit(i)
  <2>1. imports' = [imports EXCEPT ![i] = NoImport]
    BY <1>4 DEF SaveBatch, RollBack
  <2>2. imports'[i] = NoImport /\ imports' \in [Imports -> Import] /\ OthersStay(i)
    BY <2>1, NoImportType, ImportsType DEF OthersStay
  <2>. QED BY <1>2, <1>4, <2>2 DEF Cleared
<1>. QED BY <1>3, <1>4

(* The deletion of a row makes a note in those who read it, no more.       *)
LEMMA ForgetRows ==
    ASSUME IncomeTypeOK, NEW c \in Channels, Forget(c)
    PROVE  /\ imports' \in [Imports -> Import]
           /\ \A i \in Imports :
                /\ WorkStays(i) /\ imports'[i].stage = imports[i].stage /\ imports'[i].sheet = imports[i].sheet
                /\ imports'[i].line = imports[i].line /\ imports'[i].by = imports[i].by
                /\ imports'[i].seen = imports[i].seen
                /\ imports[i].stage # "read" => imports'[i] = imports[i]
<1>. SUFFICES ASSUME NEW i \in Imports
     PROVE  /\ imports'[i] \in Import
            /\ WorkStays(i) /\ imports'[i].stage = imports[i].stage /\ imports'[i].sheet = imports[i].sheet
            /\ imports'[i].line = imports[i].line /\ imports'[i].by = imports[i].by
            /\ imports'[i].seen = imports[i].seen
            /\ imports[i].stage # "read" => imports'[i] = imports[i]
  BY DEF Forget
<1> DEFINE row == [imports[i] EXCEPT !.lost = TRUE]
<1>1. imports[i] \in Import
  BY ImportsType
<1>2. /\ row \in Import /\ row.stage = imports[i].stage /\ row.sheet = imports[i].sheet
      /\ row.line = imports[i].line /\ row.by = imports[i].by /\ row.seen = imports[i].seen
      /\ row.wrote = imports[i].wrote /\ row.due = imports[i].due /\ row.missed = imports[i].missed /\ row.holds = imports[i].holds
      /\ row.gives = imports[i].gives /\ row.pays = imports[i].pays
  BY <1>1 DEF Import
<1>3. \/ imports'[i] = imports[i]
      \/ imports'[i] = row /\ imports[i].stage = "read"
  BY DEF Forget
<1>. HIDE DEF row
<1>. QED BY <1>1, <1>2, <1>3 DEF WorkStays

(* The tables beside the imports. *)
TablesOK ==
    /\ owner \in Creators \cup {NoOne}
    /\ holders \in [Places -> Publishers \cup {NoOne}]
    /\ channelRows \in [Channels -> Row \cup {NoRow}]
    /\ earned \in [Creators -> Int]
    /\ shares \in [Publishers \X Places -> Nat]
    /\ deposited \in [Sheets -> Nat] /\ applied \in [Sheets -> Nat]
    /\ batches \subseteq Sheets /\ repeatable \subseteq Sheets
    /\ uploads \in 0..MaxUploads
    /\ drift \in [Creators -> Int] /\ moved \in BOOLEAN /\ unlocked \subseteq Publishers \X Places

LEMMA IncomeTypes == IncomeTypeOK <=> TablesOK /\ imports \in [Imports -> Import]
BY DEF IncomeTypeOK, TablesOK, Import

LEMMA IncomeTypesNext == IncomeTypeOK' <=> TablesOK' /\ imports' \in [Imports -> Import]
BY DEF IncomeTypeOK, TablesOK, Import

LEMMA IncomeTypeInit == IncomeInit => IncomeTypeOK /\ Underway
<1> SUFFICES ASSUME IncomeInit PROVE IncomeTypeOK /\ Underway
  OBVIOUS
<1>1. imports \in [Imports -> Import] /\ \A i \in Imports : imports[i] = NoImport
  BY NoImportType DEF IncomeInit
<1>2. PICK f \in Sheets \cup {NoOne} : Imported(f)
  BY DEF IncomeInit
<1> DEFINE lines == IF f = NoOne THEN {} ELSE {Lines[f][n] : n \in DOMAIN Lines[f]}
           sold  == {l \in lines : l.channel # NoOne}
<1>3. \A l \in lines : l.income \in Nat
  <2>1. CASE f = NoOne
    BY <2>1
  <2>2. CASE f # NoOne
    <3> DEFINE S == [channel: Channels \cup {NoOne}, income: Nat]
    <3>1. Lines[f] \in Seq(S)
      BY <2>2, IncomeAssumption
    <3>2. \A l \in S : l.income \in Nat
      OBVIOUS
    <3>. HIDE DEF S
    <3>3. \A n \in DOMAIN Lines[f] : Lines[f][n] \in S
      BY <3>1
    <3>. QED BY <2>2, <3>2, <3>3
  <2>. QED BY <2>1, <2>2
<1>4. channelRows = [c \in Channels |-> IF \E l \in sold : l.channel = c
               THEN [creator |-> owner, income |-> (CHOOSE l \in sold : l.channel = c).income] ELSE NoRow]
  BY <1>2 DEF Imported
<1>5. channelRows \in [Channels -> Row \cup {NoRow}]
  <2>1. owner \in Creators
    BY DEF IncomeInit
  <2>2. ASSUME NEW c \in Channels, \E l \in sold : l.channel = c
        PROVE  (CHOOSE l \in sold : l.channel = c).income \in Nat
    <3>1. (CHOOSE l \in sold : l.channel = c) \in sold
      BY <2>2
    <3>. QED BY <1>3, <3>1
  <2>. HIDE DEF sold
  <2>. QED BY <1>4, <2>1, <2>2 DEF Row
<1>6. SumFunction(RowIncomes) \in Int
  <2>1. RowIncomes \in [Channels -> Int]
    BY <1>5, RowColumns DEF RowIncomes
  <2>. QED BY <2>1, TotalIsInt, IncomeAssumption
<1>7. TablesOK
  <2>. HIDE DEF lines, sold
  <2>1. earned \in [Creators -> Int]
    <3>1. earned = [x \in Creators |-> IF x = owner THEN SumFunction(RowIncomes) ELSE 0]
      BY <1>2 DEF Imported
    <3>. QED BY <1>6, <3>1
  <2>2. deposited \in [Sheets -> Nat] /\ applied \in [Sheets -> Nat]
    <3>1. /\ deposited = [g \in Sheets |-> IF g = f /\ lines # sold THEN 1 ELSE 0]
          /\ applied = [g \in Sheets |-> IF g = f THEN 1 ELSE 0]
      BY <1>2 DEF Imported, lines, sold
    <3>. QED BY <3>1
  <2>3. batches \subseteq Sheets
    BY <1>2 DEF Imported
  <2>4. /\ owner \in Creators /\ holders \in [Places -> Publishers \cup {NoOne}]
        /\ shares \in [Publishers \X Places -> Nat]
        /\ moved = FALSE /\ unlocked = {} /\ repeatable = {}
    BY DEF IncomeInit
  <2>5. uploads \in 0..MaxUploads
    BY IncomeAssumption DEF IncomeInit
  <2>6. drift \in [Creators -> Int]
    BY DEF IncomeInit
  <2>. QED BY <1>5, <2>1, <2>2, <2>3, <2>4, <2>5, <2>6 DEF TablesOK
<1>8. Underway
  <2>1. /\ NoImport.stage = "idle"
        /\ NoImport = [NoImport EXCEPT !.stage = NoImport.stage, !.sheet = NoImport.sheet]
    BY DEF NoImport
  <2>. QED BY <1>1, <2>1 DEF Underway
<1>. QED BY <1>1, <1>7, <1>8, IncomeTypes

LEMMA ImportTables ==
    ASSUME IncomeTypeOK, Underway, NEW i \in Imports,
           \/ \E f \in Sheets : Upload(i, f)
           \/ ReadLine(i) \/ WriteIncome(i) \/ WriteDeposit(i) \/ Commit(i) \/ SaveBatch(i) \/ RollBack(i)
    PROVE  TablesOK'
<1>0. TablesOK
  BY IncomeTypes
<1>1. ASSUME NEW f \in Sheets, Upload(i, f) PROVE TablesOK'
  BY <1>0, <1>1, IncomeAssumption DEF Upload, tables, TablesOK
<1>2. CASE ReadLine(i)
  BY <1>0, <1>2 DEF ReadLine, tables, marks, TablesOK
<1>3. CASE WriteIncome(i)
  <2>1. Receives(i, Sold(i)) \in SUBSET (Publishers \X Places)
    BY <1>3, WrittenLine
  <2>2. drift' = drift /\ moved' \in BOOLEAN /\ unlocked' \subseteq Publishers \X Places
    <3>1. CASE Unchanged(i)
      BY <1>0, <1>3, <2>1, <3>1, SkipRow DEF TablesOK
    <3>2. CASE ~Unchanged(i)
      BY <1>0, <1>3, <2>1, <3>2, WriteRow DEF TablesOK
    <3>. QED BY <3>1, <3>2
  <2>3. UNCHANGED <<owner, holders, tables, batches, uploads, repeatable>>
    BY <1>3 DEF WriteIncome
  <2>. QED BY <1>0, <2>2, <2>3 DEF tables, TablesOK
<1>4. CASE WriteDeposit(i)
  BY <1>0, <1>4 DEF WriteDeposit, tables, marks, TablesOK
<1>5. CASE Commit(i)
  <2>1. /\ imports[i].sheet \in Sheets /\ imports[i].due \in [Creators -> Int]
        /\ imports[i].missed \in [Creators -> Int]
        /\ imports[i].wrote \in [Channels -> Row \cup {NoRow}]
    BY <1>5, ImportsType DEF Commit, Underway, Import
  <2>2. channelRows' \in [Channels -> Row \cup {NoRow}]
    BY <1>0, <1>5, <2>1 DEF Commit, TablesOK
  <2>3. earned' \in [Creators -> Int] /\ drift' \in [Creators -> Int]
    BY <1>0, <1>5, <2>1 DEF Commit, TablesOK
  <2>4. shares' \in [Publishers \X Places -> Nat]
    BY <1>0, <1>5 DEF Commit, TablesOK
  <2>5. deposited' \in [Sheets -> Nat] /\ applied' \in [Sheets -> Nat]
    BY <1>0, <1>5, <2>1 DEF Commit, TablesOK
  <2>. QED BY <1>0, <1>5, <2>2, <2>3, <2>4, <2>5 DEF Commit, marks, TablesOK
<1>6. CASE SaveBatch(i)
  <2>1. imports[i].sheet \in Sheets
    BY <1>6 DEF SaveBatch, Underway
  <2>. QED BY <1>0, <1>6, <2>1 DEF SaveBatch, tables, TablesOK
<1>7. CASE RollBack(i)
  BY <1>0, <1>7 DEF RollBack, tables, marks, TablesOK
<1>. QED BY <1>1, <1>2, <1>3, <1>4, <1>5, <1>6, <1>7

LEMMA BookType ==
    ASSUME TablesOK, NEW c \in Channels, NEW delta \in Int, Book(c, delta)
    PROVE  channelRows[c] \in Row /\ channelRows[c].creator \in Creators /\ earned' \in [Creators -> Int]
BY DEF Book, TablesOK, Row

LEMMA CorrectionTables ==
    ASSUME IncomeTypeOK, NEW c \in Channels,
           (\E n \in Corrections : adminUpdateChannelIncome(c, n)) \/ adminDeleteChannelIncome(c)
    PROVE  TablesOK'
<1>0. TablesOK
  BY IncomeTypes
<1>1. ASSUME NEW n \in Corrections, adminUpdateChannelIncome(c, n) PROVE TablesOK'
  <2>1. n \in Nat
    BY <1>1, IncomeAssumption DEF adminUpdateChannelIncome, Correct
  <2>2. channelRows[c].income \in Nat
    BY <1>0, RowColumns DEF TablesOK
  <2>3. Difference(channelRows[c], n) \in Int
    BY <2>1, <2>2 DEF Difference
  <2>4. channelRows[c] \in Row /\ earned' \in [Creators -> Int]
    BY <1>0, <1>1, <2>3, BookType DEF adminUpdateChannelIncome
  <2>5. channelRows' \in [Channels -> Row \cup {NoRow}]
    <3>1. [channelRows[c] EXCEPT !.income = n] \in Row
      BY <2>1, <2>4 DEF Row
    <3>. QED BY <1>0, <1>1, <3>1 DEF adminUpdateChannelIncome, TablesOK
  <2>. QED BY <1>0, <1>1, <2>4, <2>5 DEF adminUpdateChannelIncome, marks, TablesOK
<1>2. CASE adminDeleteChannelIncome(c)
  <2>1. -channelRows[c].income \in Int
    BY <1>0, RowColumns DEF TablesOK
  <2>2. earned' \in [Creators -> Int]
    BY <1>0, <1>2, <2>1, BookType DEF adminDeleteChannelIncome
  <2>3. channelRows' \in [Channels -> Row \cup {NoRow}]
    BY <1>0, <1>2 DEF adminDeleteChannelIncome, TablesOK
  <2>. QED BY <1>0, <1>2, <2>2, <2>3 DEF adminDeleteChannelIncome, marks, TablesOK
<1>. QED BY <1>1, <1>2

(* An import other than i is where it was. *)
LEMMA OthersUnderway ==
    ASSUME Underway, NEW i \in Imports, OthersStay(i), NEW j \in Imports \ {i}
    PROVE  /\ imports'[j].stage # "idle" => imports'[j].sheet \in Sheets
           /\ imports'[j].stage = "read" => ~AtEnd(j)' /\ (~IsDeposit(j)' => imports'[j].by \in Creators)
           /\ ~InTransaction(j)' => imports'[j] = [NoImport EXCEPT !.stage = imports'[j].stage,
                                                                   !.sheet = imports'[j].sheet]
<1>1. imports'[j] = imports[j]
  BY DEF OthersStay
<1>2. AtEnd(j)' = AtEnd(j) /\ IsDeposit(j)' = IsDeposit(j) /\ InTransaction(j)' = InTransaction(j)
  BY <1>1 DEF AtEnd, IsDeposit, Line, InTransaction
<1>. QED BY <1>1, <1>2 DEF Underway

LEMMA ImportStep ==
    ASSUME IncomeTypeOK, Underway, NEW i \in Imports,
           \/ \E f \in Sheets : Upload(i, f)
           \/ ReadLine(i) \/ WriteIncome(i) \/ WriteDeposit(i) \/ Commit(i) \/ SaveBatch(i) \/ RollBack(i)
    PROVE  imports' \in [Imports -> Import] /\ OthersStay(i) /\ Underway'
<1>1. ASSUME imports' \in [Imports -> Import], OthersStay(i), imports'[i].stage = "open",
             imports'[i].sheet \in Sheets
      PROVE  imports' \in [Imports -> Import] /\ OthersStay(i) /\ Underway'
  <2>1. InTransaction(i)'
    BY <1>1 DEF InTransaction
  <2>. QED BY <1>1, <2>1, OthersUnderway DEF Underway
<1>2. ASSUME NEW f \in Sheets, Upload(i, f) PROVE imports' \in [Imports -> Import] /\ OthersStay(i) /\ Underway'
  BY <1>1, <1>2, UploadRow
<1>3. CASE ReadLine(i)
  <2>1. imports[i].sheet \in Sheets /\ ~AtEnd(i) /\ owner \in Creators \cup {NoOne}
    BY <1>3 DEF ReadLine, Underway, IncomeTypeOK
  <2>2. CASE imports'[i].stage = "open"
    BY <1>1, <1>3, <2>1, <2>2, ReadRow
  <2>3. CASE imports'[i].stage = "read"
    <3>1. imports'[i].sheet = imports[i].sheet /\ imports'[i].line = imports[i].line
      BY <1>3, <2>3, ReadRow
    <3>2. AtEnd(i)' = AtEnd(i) /\ IsDeposit(i)' = IsDeposit(i) /\ InTransaction(i)'
      BY <2>3, <3>1 DEF AtEnd, IsDeposit, Line, InTransaction
    <3>3. ~IsDeposit(i) => imports'[i].by \in Creators
      BY <1>3, <2>1, <2>3, ReadRow
    <3>4. imports' \in [Imports -> Import] /\ OthersStay(i)
      BY <1>3, ReadRow
    <3>. QED BY <2>1, <3>1, <3>2, <3>3, <3>4, OthersUnderway DEF Underway
  <2>. QED BY <1>3, <2>2, <2>3, ReadRow
<1>4. CASE WriteIncome(i)
  <2>1. imports[i].sheet \in Sheets
    BY <1>4, WrittenLine
  <2>. QED BY <1>1, <1>4, <2>1, SkipRow, WriteRow
<1>5. CASE WriteDeposit(i)
  <2>1. imports[i].sheet \in Sheets
    BY <1>5 DEF WriteDeposit, Underway
  <2>. QED BY <1>1, <1>5, <2>1, DepositRow
<1>6. CASE Commit(i) \/ SaveBatch(i) \/ RollBack(i)
  <2>1. /\ imports' \in [Imports -> Import] /\ OthersStay(i)
        /\ imports'[i].stage \in {"saving", "idle"}
        /\ imports'[i].stage # "idle" => imports'[i].sheet = imports[i].sheet /\ Commit(i)
        /\ imports'[i] = [NoImport EXCEPT !.stage = imports'[i].stage, !.sheet = imports'[i].sheet]
    BY <1>6, EndRow
  <2>2. imports'[i].stage # "idle" => imports'[i].sheet \in Sheets
    BY <2>1 DEF Commit, Underway
  <2>. QED BY <2>1, <2>2, OthersUnderway DEF Underway
<1>. QED BY <1>2, <1>3, <1>4, <1>5, <1>6

LEMMA IncomeTypeStep ==
    ASSUME IncomeTypeOK, Underway, [IncomeNext]_incomeVars
    PROVE  IncomeTypeOK' /\ Underway'
<1>0. TablesOK /\ imports \in [Imports -> Import]
  BY IncomeTypes
<1>1. ASSUME NEW i \in Imports,
             \/ \E f \in Sheets : Upload(i, f)
             \/ ReadLine(i) \/ WriteIncome(i) \/ WriteDeposit(i) \/ Commit(i) \/ SaveBatch(i) \/ RollBack(i)
      PROVE  IncomeTypeOK' /\ Underway'
  BY <1>1, ImportTables, ImportStep, IncomeTypesNext
<1>2. ASSUME UNCHANGED imports, TablesOK' PROVE IncomeTypeOK' /\ Underway'
  <2>1. Underway'
    BY <1>2 DEF Underway, AtEnd, IsDeposit, Line, InTransaction
  <2>. QED BY <1>0, <1>2, <2>1, IncomeTypesNext
<1>3. ASSUME NEW c \in Channels, NEW n \in Corrections, adminUpdateChannelIncome(c, n)
      PROVE  IncomeTypeOK' /\ Underway'
  BY <1>2, <1>3, CorrectionTables DEF adminUpdateChannelIncome
<1>4. ASSUME NEW c \in Channels, adminDeleteChannelIncome(c) PROVE IncomeTypeOK' /\ Underway'
  <2>1. Forget(c)
    BY <1>4 DEF adminDeleteChannelIncome
  <2>2. ASSUME NEW i \in Imports
        PROVE  /\ imports'[i].stage # "idle" => imports'[i].sheet \in Sheets
               /\ imports'[i].stage = "read" => ~AtEnd(i)' /\ (~IsDeposit(i)' => imports'[i].by \in Creators)
               /\ ~InTransaction(i)' => imports'[i] = [NoImport EXCEPT !.stage = imports'[i].stage,
                                                                       !.sheet = imports'[i].sheet]
    <3>1. /\ imports'[i].stage = imports[i].stage /\ imports'[i].sheet = imports[i].sheet
          /\ imports'[i].line = imports[i].line /\ imports'[i].by = imports[i].by
          /\ imports[i].stage # "read" => imports'[i] = imports[i]
      BY <2>1, ForgetRows
    <3>2. AtEnd(i)' = AtEnd(i) /\ IsDeposit(i)' = IsDeposit(i) /\ InTransaction(i)' = InTransaction(i)
      BY <3>1 DEF AtEnd, IsDeposit, Line, InTransaction
    <3>. QED BY <3>1, <3>2 DEF Underway, InTransaction
  <2>3. Underway'
    BY <2>2 DEF Underway
  <2>. QED BY <1>4, <2>1, <2>3, ForgetRows, CorrectionTables, IncomeTypesNext
<1>5. ASSUME NEW x \in Creators \cup {NoOne}, adminUpdateDrama(x) PROVE IncomeTypeOK' /\ Underway'
  BY <1>0, <1>2, <1>5 DEF adminUpdateDrama, tables, TablesOK
<1>6. ASSUME NEW p \in Places, NEW d \in Publishers \cup {NoOne}, MoveGrant(p, d)
      PROVE  IncomeTypeOK' /\ Underway'
  BY <1>0, <1>2, <1>6 DEF MoveGrant, tables, marks, TablesOK
<1>7. CASE UNCHANGED incomeVars
  BY <1>0, <1>2, <1>7 DEF incomeVars, tables, marks, TablesOK
<1>. QED BY <1>1, <1>3, <1>4, <1>5, <1>6, <1>7 DEF IncomeNext

-----------------------------------------------------------------------------
(* The rows and accounts that an import locks are locked by no other.      *)

ImportActs(i) ==
    \/ \E f \in Sheets : Upload(i, f)
    \/ ReadLine(i) \/ WriteIncome(i) \/ WriteDeposit(i) \/ Commit(i) \/ SaveBatch(i) \/ RollBack(i)

(* A row is written, and a creator's account booked to, by one transaction *)
(* at a time.                                                              *)
LocksHeldOnce ==
    \A i, j \in Imports :
        /\ \A c \in Channels : imports[i].wrote[c] # NoRow /\ imports[j].wrote[c] # NoRow => i = j
        /\ imports[i].holds \cap imports[j].holds # {} => i = j

(* A step of an import that locks no more than it had. *)
LEMMA LocksKept ==
    ASSUME LocksHeldOnce, NEW i \in Imports, OthersStay(i),
           \A c \in Channels : imports'[i].wrote[c] # NoRow => imports[i].wrote[c] # NoRow,
           imports'[i].holds \subseteq imports[i].holds
    PROVE  LocksHeldOnce'
<1>1. \A j \in Imports : /\ \A c \in Channels : imports'[j].wrote[c] # NoRow => imports[j].wrote[c] # NoRow
                         /\ imports'[j].holds \subseteq imports[j].holds
  BY SMT DEF OthersStay
<1>. QED BY <1>1 DEF LocksHeldOnce

LEMMA LocksTaken ==
    ASSUME IncomeTypeOK, Underway, LocksHeldOnce, NEW i \in Imports, WriteIncome(i)
    PROVE  LocksHeldOnce'
<1>1. CASE Unchanged(i)
  BY <1>1, SkipRow, LocksKept
<1>2. CASE ~Unchanged(i)
  <2>1. /\ OthersStay(i)
        /\ imports[i].lost \/ RowIsFree(Sold(i), Imports \ {i})
        /\ Owed(i) # 0 => CreatorIsFree(imports[i].by, Imports \ {i})
        /\ imports'[i].wrote = [imports[i].wrote EXCEPT ![Sold(i)] =
              IF imports[i].lost THEN @ ELSE [creator |-> imports[i].by, income |-> Line(i).income]]
        /\ imports'[i].holds = imports[i].holds \cup {x \in {imports[i].by} : Owed(i) # 0}
    BY <1>2, WriteRow
  <2>2. Sold(i) \in Channels /\ imports[i].wrote \in [Channels -> Row \cup {NoRow}]
    BY WrittenLine, ImportsType DEF Import
  <2>3. ASSUME NEW c \in Channels, imports'[i].wrote[c] # NoRow, NEW j \in Imports \ {i}
        PROVE  imports'[j].wrote[c] = NoRow
    <3>1. imports[j].wrote[c] = NoRow
      <4>1. CASE c = Sold(i) /\ ~imports[i].lost
        BY <2>1, <4>1 DEF RowIsFree
      <4>2. CASE ~(c = Sold(i) /\ ~imports[i].lost)
        <5>1. imports[i].wrote[c] # NoRow
          BY <2>1, <2>2, <2>3, <4>2
        <5>. QED BY <5>1 DEF LocksHeldOnce
      <4>. QED BY <4>1, <4>2
    <3>. QED BY <2>1, <3>1 DEF OthersStay
  <2>4. ASSUME NEW j \in Imports \ {i} PROVE imports'[i].holds \cap imports'[j].holds = {}
    <3>1. imports[i].holds \cap imports[j].holds = {}
      BY DEF LocksHeldOnce
    <3>2. Owed(i) # 0 => imports[i].by \notin imports[j].holds
      BY <2>1 DEF CreatorIsFree
    <3>3. imports'[j] = imports[j]
      BY <2>1 DEF OthersStay
    <3>. QED BY <2>1, <3>1, <3>2, <3>3
  <2>5. ASSUME NEW k \in Imports \ {i}, NEW j \in Imports \ {i}
        PROVE  /\ \A c \in Channels : imports'[k].wrote[c] # NoRow /\ imports'[j].wrote[c] # NoRow => k = j
               /\ imports'[k].holds \cap imports'[j].holds # {} => k = j
    <3>1. imports'[j] = imports[j] /\ imports'[k] = imports[k]
      BY <2>1 DEF OthersStay
    <3>. QED BY <3>1 DEF LocksHeldOnce
  <2>. QED BY <2>3, <2>4, <2>5 DEF LocksHeldOnce
<1>. QED BY <1>1, <1>2

LEMMA LocksStep ==
    ASSUME IncomeTypeOK, Underway, LocksHeldOnce, [IncomeNext]_incomeVars
    PROVE  LocksHeldOnce'
<1>1. ASSUME NEW i \in Imports, ImportActs(i) PROVE LocksHeldOnce'
  <2>1. ASSUME WorkStays(i), OthersStay(i) PROVE LocksHeldOnce'
    BY <2>1, LocksKept DEF WorkStays
  <2>2. CASE \E f \in Sheets : Upload(i, f)
    BY <2>1, <2>2, UploadRow
  <2>3. CASE ReadLine(i)
    BY <2>1, <2>3, ReadRow
  <2>4. CASE WriteIncome(i)
    BY <2>4, LocksTaken
  <2>5. CASE WriteDeposit(i)
    BY <2>5, DepositRow, LocksKept
  <2>6. CASE Commit(i) \/ SaveBatch(i) \/ RollBack(i)
    BY <2>6, EndRow, LocksKept DEF Cleared
  <2>. QED BY <1>1, <2>2, <2>3, <2>4, <2>5, <2>6 DEF ImportActs
<1>2. ASSUME \A i \in Imports : WorkStays(i) PROVE LocksHeldOnce'
  BY <1>2 DEF LocksHeldOnce, WorkStays
<1>3. ASSUME NEW c \in Channels, adminDeleteChannelIncome(c) PROVE LocksHeldOnce'
  BY <1>2, <1>3, ForgetRows DEF adminDeleteChannelIncome
<1>4. ASSUME UNCHANGED imports PROVE LocksHeldOnce'
  BY <1>2, <1>4 DEF WorkStays
<1>5. \/ \E i \in Imports : ImportActs(i)
      \/ \E c \in Channels : adminDeleteChannelIncome(c)
      \/ UNCHANGED imports
  BY DEF IncomeNext, ImportActs, adminUpdateChannelIncome, adminUpdateDrama, MoveGrant, incomeVars
<1>. QED BY <1>1, <1>3, <1>4, <1>5

-----------------------------------------------------------------------------
(* Deposit entries, and sheets that were imported.                         *)

(* A deposit is entered by one transaction at a time, and only where there *)
(* is no entry.                                                            *)
PaysOnce ==
    /\ \A i, j \in Imports : imports[i].pays /\ imports[j].pays => i = j
    /\ \A i \in Imports : imports[i].pays => deposited[imports[i].sheet] = 0
    /\ DepositedOnce

LEMMA PaysKept ==
    ASSUME PaysOnce, UNCHANGED deposited,
           \A i \in Imports : imports'[i].pays =>
               imports[i].pays /\ imports'[i].sheet = imports[i].sheet
    PROVE  PaysOnce'
BY DEF PaysOnce, DepositedOnce

LEMMA PaysStep ==
    ASSUME IncomeTypeOK, Underway, PaysOnce, [IncomeNext]_incomeVars
    PROVE  PaysOnce'
<1>0. /\ deposited \in [Sheets -> Nat]
      /\ \A i \in Imports : imports[i].pays \in BOOLEAN /\ (imports[i].pays => InTransaction(i))
  <2>1. deposited \in [Sheets -> Nat] /\ \A i \in Imports : imports[i].pays \in BOOLEAN
    BY ImportsType DEF IncomeTypeOK, Import
  <2>2. ASSUME NEW i \in Imports, ~InTransaction(i) PROVE ~imports[i].pays
    <3>1. imports[i] = [NoImport EXCEPT !.stage = imports[i].stage, !.sheet = imports[i].sheet]
      BY <2>2 DEF Underway
    <3>2. [NoImport EXCEPT !.stage = imports[i].stage, !.sheet = imports[i].sheet].pays = FALSE
      BY DEF NoImport
    <3>. QED BY <3>1, <3>2
  <2>. QED BY <2>1, <2>2
<1>1. ASSUME NEW i \in Imports, ImportActs(i) PROVE PaysOnce'
  <2>1. CASE \E f \in Sheets : Upload(i, f)
    <3>1. OthersStay(i) /\ WorkStays(i) /\ imports[i].stage = "idle" /\ UNCHANGED deposited
      BY <2>1, UploadRow DEF Upload, tables
    <3>2. ~imports[i].pays
      BY <1>0, <3>1 DEF InTransaction
    <3>. QED BY <3>1, <3>2, PaysKept DEF OthersStay, WorkStays
  <2>2. CASE ReadLine(i)
    <3>1. /\ OthersStay(i) /\ WorkStays(i) /\ UNCHANGED deposited
          /\ imports'[i].sheet = imports[i].sheet
      BY <2>2, ReadRow DEF ReadLine, tables
    <3>. QED BY <3>1, PaysKept DEF OthersStay, WorkStays
  <2>3. CASE WriteIncome(i)
    <3>1. /\ OthersStay(i) /\ UNCHANGED deposited
          /\ imports'[i].sheet = imports[i].sheet /\ imports'[i].pays = imports[i].pays
      BY <2>3, SkipRow, WriteRow DEF WriteIncome, tables
    <3>. QED BY <3>1, PaysKept DEF OthersStay
  <2>4. CASE WriteDeposit(i)
    <3>1. /\ OthersStay(i) /\ UNCHANGED deposited /\ imports'[i].sheet = imports[i].sheet
          /\ \A j \in Imports \ {i} : ~imports[j].pays
          /\ deposited[imports[i].sheet] = 0
      BY <2>4, DepositRow DEF WriteDeposit, tables, IndexAdmits
    <3>. QED BY <3>1 DEF PaysOnce, DepositedOnce, OthersStay
  <2>5. CASE Commit(i)
    <3>1. /\ OthersStay(i) /\ ~imports'[i].pays
          /\ imports[i].sheet \in Sheets
          /\ deposited' = [deposited EXCEPT ![imports[i].sheet] = IF imports[i].pays THEN @ + 1 ELSE @]
      BY <2>5, EndRow DEF Cleared, Commit, Underway
    <3>2. CASE imports[i].pays
      <4>1. /\ deposited[imports[i].sheet] = 0
            /\ \A j \in Imports \ {i} : ~imports[j].pays
        BY <3>2 DEF PaysOnce
      <4>2. \A j \in Imports : ~imports'[j].pays
        BY <3>1, <4>1 DEF OthersStay
      <4>3. \A f \in Sheets : deposited'[f] <= 1
        BY <1>0, <3>1, <3>2, <4>1 DEF PaysOnce, DepositedOnce
      <4>. QED BY <4>2, <4>3 DEF PaysOnce, DepositedOnce
    <3>3. CASE ~imports[i].pays
      <4>1. deposited' = deposited
        BY <1>0, <3>1, <3>3
      <4>. QED BY <3>1, <4>1, PaysKept DEF OthersStay
    <3>. QED BY <3>2, <3>3
  <2>6. CASE SaveBatch(i) \/ RollBack(i)
    <3>1. OthersStay(i) /\ ~imports'[i].pays /\ UNCHANGED deposited
      BY <2>6, EndRow DEF Cleared, SaveBatch, RollBack, tables
    <3>. QED BY <3>1, PaysKept DEF OthersStay
  <2>. QED BY <1>1, <2>1, <2>2, <2>3, <2>4, <2>5, <2>6 DEF ImportActs
<1>2. ASSUME NEW c \in Channels, adminDeleteChannelIncome(c) PROVE PaysOnce'
  <2>1. Forget(c) /\ UNCHANGED deposited
    BY <1>2 DEF adminDeleteChannelIncome
  <2>. QED BY <2>1, ForgetRows, PaysKept DEF WorkStays
<1>3. ASSUME UNCHANGED <<imports, deposited>> PROVE PaysOnce'
  BY <1>3, PaysKept
<1>4. \/ \E i \in Imports : ImportActs(i)
      \/ \E c \in Channels : adminDeleteChannelIncome(c)
      \/ UNCHANGED <<imports, deposited>>
  BY DEF IncomeNext, ImportActs, adminUpdateChannelIncome, adminUpdateDrama, MoveGrant,
     incomeVars, tables
<1>. QED BY <1>1, <1>2, <1>3, <1>4

(* A sheet whose batch was noted, and that nobody uploads twice at a time, *)
(* is imported by one transaction, ahead of which it was not.              *)
FilesOnce ==
    \A f \in Sheets \ repeatable :
        /\ \A i, j \in Imports : Busy(i) /\ Busy(j) /\ imports[i].sheet = f /\ imports[j].sheet = f => i = j
        /\ \A i \in Imports : InTransaction(i) /\ imports[i].sheet = f => applied[f] = 0
        /\ applied[f] <= 1
        /\ applied[f] = 1 =>
              f \in batches \/ \E i \in Imports : imports[i].stage = "saving" /\ imports[i].sheet = f

(* Imports that stay at their stage and sheet. *)
LEMMA FilesKept ==
    ASSUME FilesOnce, UNCHANGED <<applied, batches, repeatable>>,
           \A i \in Imports : /\ Busy(i)' = Busy(i) /\ InTransaction(i)' = InTransaction(i)
                              /\ imports'[i].sheet = imports[i].sheet
                              /\ imports[i].stage = "saving" => imports'[i].stage = "saving"
    PROVE  FilesOnce'
<1>. SUFFICES ASSUME NEW f \in Sheets \ repeatable
     PROVE  /\ \A i, j \in Imports : Busy(i)' /\ Busy(j)' /\ imports'[i].sheet = f /\ imports'[j].sheet = f => i = j
            /\ \A i \in Imports : InTransaction(i)' /\ imports'[i].sheet = f => applied[f] = 0
            /\ applied[f] <= 1
            /\ applied[f] = 1 =>
                 f \in batches \/ \E i \in Imports : imports'[i].stage = "saving" /\ imports'[i].sheet = f
  BY DEF FilesOnce
<1>. QED BY DEF FilesOnce

LEMMA FilesStep ==
    ASSUME IncomeTypeOK, Underway, FilesOnce, [IncomeNext]_incomeVars
    PROVE  FilesOnce'
<1>0. applied \in [Sheets -> Nat]
  BY DEF IncomeTypeOK
<1>1. ASSUME NEW i \in Imports, ImportActs(i) PROVE FilesOnce'
  <2>1. ASSUME OthersStay(i), UNCHANGED <<applied, batches, repeatable>>, InTransaction(i),
               imports'[i].stage \in {"open", "read"}, imports'[i].sheet = imports[i].sheet
        PROVE  FilesOnce'
    <3>1. \A j \in Imports : /\ Busy(j)' = Busy(j) /\ InTransaction(j)' = InTransaction(j)
                             /\ imports'[j].sheet = imports[j].sheet
                             /\ imports[j].stage = "saving" => imports'[j].stage = "saving"
      BY <2>1 DEF OthersStay, Busy, InTransaction
    <3>. QED BY <2>1, <3>1, FilesKept
  <2>2. ASSUME NEW f \in Sheets, Upload(i, f) PROVE FilesOnce'
    <3>1. /\ OthersStay(i) /\ imports'[i].stage = "open" /\ imports'[i].sheet = f
          /\ imports[i].stage = "idle" /\ f \notin batches /\ UNCHANGED <<applied, batches>>
          /\ repeatable' = repeatable \cup {g \in {f} : \E j \in Imports : Busy(j) /\ imports[j].sheet = g}
      BY <2>2, UploadRow DEF Upload, tables, AlreadyImported
    <3>2. \A j \in Imports \ {i} : imports'[j] = imports[j] /\ Busy(j)' = Busy(j)
                                   /\ InTransaction(j)' = InTransaction(j)
      BY <3>1 DEF OthersStay, Busy, InTransaction
    <3>3. ASSUME NEW g \in Sheets \ repeatable', g # f
          PROVE  /\ \A j, k \in Imports : Busy(j)' /\ Busy(k)' /\ imports'[j].sheet = g /\ imports'[k].sheet = g => j = k
                 /\ \A j \in Imports : InTransaction(j)' /\ imports'[j].sheet = g => applied'[g] = 0
                 /\ applied'[g] <= 1
                 /\ applied'[g] = 1 =>
                      g \in batches' \/ \E j \in Imports : imports'[j].stage = "saving" /\ imports'[j].sheet = g
      <4>1. g \in Sheets \ repeatable
        BY <3>1, <3>3
      <4>2. applied[g] = 1 => g \in batches \/ \E j \in Imports \ {i} : imports[j].stage = "saving" /\ imports[j].sheet = g
        BY <3>1, <4>1 DEF FilesOnce
      <4>3. applied[g] <= 1
        BY <4>1 DEF FilesOnce
      <4>4. \A j, k \in Imports : Busy(j)' /\ Busy(k)' /\ imports'[j].sheet = g /\ imports'[k].sheet = g => j = k
        BY <3>1, <3>2, <3>3, <4>1 DEF FilesOnce
      <4>5. \A j \in Imports : InTransaction(j)' /\ imports'[j].sheet = g => applied'[g] = 0
        BY <3>1, <3>2, <3>3, <4>1 DEF FilesOnce
      <4>. QED BY <3>1, <3>2, <4>2, <4>3, <4>4, <4>5
    <3>4. ASSUME f \notin repeatable'
          PROVE  /\ \A j, k \in Imports : Busy(j)' /\ Busy(k)' /\ imports'[j].sheet = f /\ imports'[k].sheet = f => j = k
                 /\ applied'[f] = 0
      <4>1. \A j \in Imports : ~(Busy(j) /\ imports[j].sheet = f)
        BY <3>1, <3>4
      <4>2. applied[f] # 1 /\ applied[f] <= 1
        <5>1. f \in Sheets \ repeatable
          BY <3>1, <3>4
        <5>2. \A j \in Imports : ~(imports[j].stage = "saving" /\ imports[j].sheet = f)
          BY <4>1 DEF Busy
        <5>. QED BY <3>1, <5>1, <5>2 DEF FilesOnce
      <4>. QED BY <1>0, <3>1, <3>2, <4>1, <4>2
    <3>. QED BY <3>3, <3>4 DEF FilesOnce
  <2>3. CASE ReadLine(i)
    BY <2>1, <2>3, ReadRow DEF ReadLine, tables, marks, InTransaction
  <2>4. CASE WriteIncome(i)
    <3>1. OthersStay(i) /\ imports'[i].stage = "open" /\ imports'[i].sheet = imports[i].sheet
      BY <2>4, SkipRow, WriteRow
    <3>2. UNCHANGED <<applied, batches, repeatable>> /\ InTransaction(i)
      BY <2>4 DEF WriteIncome, tables, InTransaction
    <3>. QED BY <2>1, <3>1, <3>2
  <2>5. CASE WriteDeposit(i)
    BY <2>1, <2>5, DepositRow DEF WriteDeposit, tables, marks, InTransaction
  <2>6. CASE Commit(i) \/ SaveBatch(i) \/ RollBack(i)
    <3> DEFINE f == imports[i].sheet
    <3>1. /\ OthersStay(i) /\ f \in Sheets /\ Busy(i) /\ ~InTransaction(i)'
          /\ Commit(i) => imports'[i].stage = "saving" /\ imports'[i].sheet = f
          /\ ~Commit(i) => ~Busy(i)' /\ imports'[i].stage = "idle"
      <4>1. imports[i].stage # "idle" /\ Busy(i)
        BY <2>6 DEF Commit, SaveBatch, RollBack, InTransaction, Busy
      <4>2. f \in Sheets
        BY <4>1 DEF Underway
      <4>. QED BY <2>6, <4>1, <4>2, EndRow DEF InTransaction, Busy
    <3>2. \A j \in Imports \ {i} : imports'[j] = imports[j] /\ Busy(j)' = Busy(j)
                                   /\ InTransaction(j)' = InTransaction(j)
      BY <3>1 DEF OthersStay, Busy, InTransaction
    <3>3. /\ Commit(i) => /\ applied' = [applied EXCEPT ![f] = @ + 1] /\ UNCHANGED <<batches, repeatable>>
                          /\ InTransaction(i)
          /\ SaveBatch(i) => /\ UNCHANGED applied /\ imports[i].stage = "saving"
                             /\ f \in batches' \/ f \in repeatable'
                             /\ batches \subseteq batches' /\ repeatable \subseteq repeatable'
          /\ RollBack(i) => UNCHANGED <<applied, batches, repeatable>> /\ InTransaction(i)
      BY DEF Commit, SaveBatch, RollBack, tables, marks, InTransaction
    <3>. HIDE DEF f
    <3>4. f = imports[i].sheet
      BY DEF f
    <3>5. ASSUME NEW g \in Sheets \ repeatable'
          PROVE  /\ \A j, k \in Imports : Busy(j)' /\ Busy(k)' /\ imports'[j].sheet = g /\ imports'[k].sheet = g => j = k
                 /\ \A j \in Imports : InTransaction(j)' /\ imports'[j].sheet = g => applied'[g] = 0
                 /\ applied'[g] <= 1
                 /\ applied'[g] = 1 =>
                      g \in batches' \/ \E j \in Imports : imports'[j].stage = "saving" /\ imports'[j].sheet = g
      <4>1. g \in Sheets \ repeatable
        BY <2>6, <3>3
      <4>2. \A j \in Imports : Busy(j)' /\ imports'[j].sheet = g => Busy(j) /\ imports[j].sheet = g
        BY <2>6, <3>1, <3>2, <3>4
      <4>3. \A j, k \in Imports : Busy(j)' /\ Busy(k)' /\ imports'[j].sheet = g /\ imports'[k].sheet = g => j = k
        BY <4>1, <4>2 DEF FilesOnce
      <4>4. \A j \in Imports : InTransaction(j)' => Busy(j)' /\ j # i /\ InTransaction(j)
        BY <3>1, <3>2 DEF InTransaction, Busy
      <4>5. CASE Commit(i) /\ g = f
        <5>1. applied[g] = 0 /\ applied'[g] = 1
          BY <1>0, <3>3, <3>4, <4>1, <4>5 DEF FilesOnce
        <5>2. \A j \in Imports : ~(InTransaction(j)' /\ imports'[j].sheet = g)
          BY <3>1, <3>4, <4>1, <4>2, <4>4, <4>5 DEF FilesOnce
        <5>. QED BY <3>1, <4>3, <4>5, <5>1, <5>2
      <4>6. CASE ~(Commit(i) /\ g = f)
        <5>1. applied'[g] = applied[g]
          BY <1>0, <2>6, <3>3, <4>6
        <5>2. \A j \in Imports : InTransaction(j)' /\ imports'[j].sheet = g => applied'[g] = 0
          BY <4>1, <4>2, <4>4, <5>1 DEF FilesOnce
        <5>3. applied[g] <= 1
          BY <4>1 DEF FilesOnce
        <5>4. ASSUME applied[g] = 1
              PROVE  g \in batches' \/ \E j \in Imports : imports'[j].stage = "saving" /\ imports'[j].sheet = g
          <6>1. CASE g \in batches
            BY <2>6, <3>3, <6>1
          <6>2. ASSUME NEW j \in Imports, imports[j].stage = "saving", imports[j].sheet = g
                PROVE  g \in batches' \/ \E k \in Imports : imports'[k].stage = "saving" /\ imports'[k].sheet = g
            <7>1. CASE j # i
              BY <3>2, <6>2, <7>1
            <7>2. CASE j = i
              BY <2>6, <3>3, <3>4, <6>2, <7>2 DEF InTransaction
            <7>. QED BY <7>1, <7>2
          <6>. QED BY <4>1, <5>4, <6>1, <6>2 DEF FilesOnce
        <5>. QED BY <4>3, <5>1, <5>2, <5>3, <5>4
      <4>. QED BY <4>5, <4>6
    <3>. QED BY <3>5 DEF FilesOnce
  <2>. QED BY <1>1, <2>2, <2>3, <2>4, <2>5, <2>6 DEF ImportActs
<1>2. ASSUME NEW c \in Channels, adminDeleteChannelIncome(c) PROVE FilesOnce'
  <2>1. Forget(c) /\ UNCHANGED <<applied, batches, repeatable>>
    BY <1>2 DEF adminDeleteChannelIncome, marks
  <2>2. \A j \in Imports : /\ Busy(j)' = Busy(j) /\ InTransaction(j)' = InTransaction(j)
                           /\ imports'[j].sheet = imports[j].sheet
                           /\ imports[j].stage = "saving" => imports'[j].stage = "saving"
    BY <2>1, ForgetRows DEF Busy, InTransaction
  <2>. QED BY <2>1, <2>2, FilesKept
<1>3. ASSUME UNCHANGED <<imports, applied, batches, repeatable>> PROVE FilesOnce'
  <2>1. \A j \in Imports : /\ Busy(j)' = Busy(j) /\ InTransaction(j)' = InTransaction(j)
                           /\ imports'[j].sheet = imports[j].sheet
                           /\ imports[j].stage = "saving" => imports'[j].stage = "saving"
    BY <1>3 DEF Busy, InTransaction
  <2>. QED BY <1>3, <2>1, FilesKept
<1>4. \/ \E i \in Imports : ImportActs(i)
      \/ \E c \in Channels : adminDeleteChannelIncome(c)
      \/ UNCHANGED <<imports, applied, batches, repeatable>>
  BY DEF IncomeNext, ImportActs, adminUpdateChannelIncome, adminUpdateDrama, MoveGrant,
     incomeVars, tables, marks
<1>. QED BY <1>1, <1>2, <1>3, <1>4

-----------------------------------------------------------------------------
(* Shares of the publishers.                                               *)

(* Shares that are given while a difference is booked: the import holds    *)
(* the row of the drama's creator, and nobody has given the share before.  *)
SharesUnderLock ==
    moved \/ /\ \A s \in (Publishers \X Places) \ unlocked :
                  /\ shares[s] <= 1
                  /\ \A i \in Imports : s \in imports[i].gives => shares[s] = 0 /\ owner \in imports[i].holds
             /\ \A i \in Imports : imports[i].stage = "read" /\ ~IsDeposit(i) => imports[i].by = owner

LEMMA NothingGiven ==
    ASSUME Underway, NEW i \in Imports, ~InTransaction(i)
    PROVE  imports[i].gives = {} /\ imports[i].holds = {}
<1>1. imports[i] = [NoImport EXCEPT !.stage = imports[i].stage, !.sheet = imports[i].sheet]
  BY DEF Underway
<1>2. /\ [NoImport EXCEPT !.stage = imports[i].stage, !.sheet = imports[i].sheet].gives = {}
      /\ [NoImport EXCEPT !.stage = imports[i].stage, !.sheet = imports[i].sheet].holds = {}
  BY DEF NoImport
<1>. QED BY <1>1, <1>2

(* A step that gives nothing under a lock. *)
LEMMA SharesKept ==
    ASSUME SharesUnderLock, moved \/ UNCHANGED owner, UNCHANGED shares, moved => moved', unlocked \subseteq unlocked',
           \A i \in Imports :
             /\ \A s \in Publishers \X Places : s \in imports'[i].gives =>
                    s \in unlocked' \/ (s \in imports[i].gives /\ (owner \in imports[i].holds => owner' \in imports'[i].holds))
             /\ imports'[i].stage = "read" =>
                  \/ imports'[i].by = owner'
                  \/ IsDeposit(i)'
                  \/ imports[i].stage = "read" /\ ~IsDeposit(i) /\ imports'[i].by = imports[i].by
    PROVE  SharesUnderLock'
<1>. SUFFICES ASSUME ~moved'
     PROVE  /\ \A s \in (Publishers \X Places) \ unlocked' :
                  /\ shares'[s] <= 1
                  /\ \A i \in Imports : s \in imports'[i].gives => shares'[s] = 0 /\ owner' \in imports'[i].holds
            /\ \A i \in Imports : imports'[i].stage = "read" /\ ~IsDeposit(i)' => imports'[i].by = owner'
  BY DEF SharesUnderLock
<1>1. ASSUME NEW s \in (Publishers \X Places) \ unlocked'
      PROVE  /\ shares'[s] <= 1
             /\ \A i \in Imports : s \in imports'[i].gives => shares'[s] = 0 /\ owner' \in imports'[i].holds
  <2>1. shares[s] <= 1 /\ \A i \in Imports : s \in imports[i].gives => shares[s] = 0 /\ owner \in imports[i].holds
    BY <1>1 DEF SharesUnderLock
  <2>. QED BY <1>1, <2>1
<1>2. ASSUME NEW i \in Imports, imports'[i].stage = "read", ~IsDeposit(i)' PROVE imports'[i].by = owner'
  <2>1. imports[i].stage = "read" /\ ~IsDeposit(i) => imports[i].by = owner
    BY DEF SharesUnderLock
  <2>. QED BY <1>2, <2>1
<1>. QED BY <1>1, <1>2

LEMMA SharesStep ==
    ASSUME IncomeTypeOK, Underway, LocksHeldOnce, SharesUnderLock, [IncomeNext]_incomeVars
    PROVE  SharesUnderLock'
<1>0. shares \in [Publishers \X Places -> Nat] /\ moved \in BOOLEAN
  BY DEF IncomeTypeOK
<1>1. ASSUME NEW i \in Imports, ImportActs(i) PROVE SharesUnderLock'
  <2>0. ASSUME OthersStay(i), NEW j \in Imports \ {i}
        PROVE  imports'[j] = imports[j] /\ IsDeposit(j)' = IsDeposit(j)
    BY <2>0 DEF OthersStay, IsDeposit, Line
  <2>1. ASSUME OthersStay(i), UNCHANGED <<owner, shares, moved>>, unlocked \subseteq unlocked',
               imports'[i].gives \subseteq imports[i].gives \cup unlocked',
               imports[i].holds \subseteq imports'[i].holds \/ imports'[i].gives = {},
               imports'[i].stage = "read" => imports'[i].by = owner \/ IsDeposit(i)'
        PROVE  SharesUnderLock'
    <3>1. ASSUME NEW j \in Imports
          PROVE  /\ \A s \in Publishers \X Places : s \in imports'[j].gives =>
                      s \in unlocked' \/ (s \in imports[j].gives /\ (owner \in imports[j].holds => owner' \in imports'[j].holds))
                 /\ imports'[j].stage = "read" =>
                      \/ imports'[j].by = owner'
                      \/ IsDeposit(j)'
                      \/ imports[j].stage = "read" /\ ~IsDeposit(j) /\ imports'[j].by = imports[j].by
      BY <2>0, <2>1
    <3>. QED BY <2>1, <3>1, SharesKept
  <2>2. CASE \E f \in Sheets : Upload(i, f)
    BY <2>1, <2>2, UploadRow DEF Upload, tables, WorkStays
  <2>3. CASE ReadLine(i)
    <3>1. /\ OthersStay(i) /\ WorkStays(i) /\ UNCHANGED <<owner, shares, moved, unlocked>>
          /\ imports'[i].stage = "read" =>
                /\ imports'[i].sheet = imports[i].sheet /\ imports'[i].line = imports[i].line
                /\ ~IsDeposit(i) => imports'[i].by = owner
      BY <2>3, ReadRow DEF ReadLine, tables, marks
    <3>2. imports'[i].stage = "read" => imports'[i].by = owner \/ IsDeposit(i)'
      BY <3>1 DEF IsDeposit, Line
    <3>. QED BY <2>1, <3>1, <3>2 DEF WorkStays
  <2>4. CASE WriteIncome(i)
    <3>1. /\ UNCHANGED <<owner, shares>> /\ imports[i].stage = "read" /\ ~IsDeposit(i)
          /\ Receives(i, Sold(i)) \in SUBSET (Publishers \X Places)
          /\ \A s \in Receives(i, Sold(i)) : shares[s] = 0
      BY <2>4, WrittenLine DEF WriteIncome, tables, Receives
    <3>2. CASE Unchanged(i)
      BY <2>1, <2>4, <3>1, <3>2, SkipRow
    <3>3. CASE ~Unchanged(i)
      <4>1. /\ OthersStay(i) /\ imports'[i].stage = "open"
            /\ imports'[i].gives = imports[i].gives \cup Receives(i, Sold(i))
            /\ imports'[i].holds = imports[i].holds \cup {x \in {imports[i].by} : Owed(i) # 0}
            /\ unlocked' = IF Owed(i) = 0 THEN unlocked \cup Receives(i, Sold(i)) ELSE unlocked
            /\ moved' = (moved \/ imports[i].seen.creator \notin {NoOne, imports[i].by})
        BY <2>4, <3>3, WriteRow
      <4>2. CASE moved'
        BY <4>2 DEF SharesUnderLock
      <4>3. CASE ~moved' /\ Owed(i) = 0
        BY <1>0, <2>1, <3>1, <4>1, <4>3
      <4>4. CASE ~moved' /\ Owed(i) # 0
        <5>1. imports[i].by = owner /\ owner \in imports'[i].holds
          BY <3>1, <4>1, <4>4 DEF SharesUnderLock
        <5>2. ASSUME NEW s \in (Publishers \X Places) \ unlocked'
              PROVE  /\ shares'[s] <= 1
                     /\ \A j \in Imports : s \in imports'[j].gives => shares'[s] = 0 /\ owner' \in imports'[j].holds
          <6>1. shares[s] <= 1 /\ \A j \in Imports : s \in imports[j].gives => shares[s] = 0 /\ owner \in imports[j].holds
            BY <4>1, <4>4 DEF SharesUnderLock
          <6>2. s \in imports'[i].gives => shares[s] = 0
            BY <3>1, <4>1, <6>1
          <6>3. \A j \in Imports \ {i} : imports'[j] = imports[j]
            BY <2>0, <4>1
          <6>. QED BY <3>1, <5>1, <6>1, <6>2, <6>3
        <5>3. \A j \in Imports : imports'[j].stage = "read" /\ ~IsDeposit(j)' => imports'[j].by = owner'
          BY <2>0, <3>1, <4>1, <4>4 DEF SharesUnderLock
        <5>. QED BY <5>2, <5>3 DEF SharesUnderLock
      <4>. QED BY <4>2, <4>3, <4>4
    <3>. QED BY <3>2, <3>3
  <2>5. CASE WriteDeposit(i)
    BY <2>1, <2>5, DepositRow DEF WriteDeposit, tables, marks
  <2>6. CASE Commit(i)
    <3>1. /\ OthersStay(i) /\ imports'[i].gives = {} /\ imports'[i].stage = "saving"
          /\ UNCHANGED <<owner, moved, unlocked>>
          /\ shares' = [s \in Publishers \X Places |->
                           IF s \in imports[i].gives THEN shares[s] + 1 ELSE shares[s]]
      BY <2>6, EndRow DEF Commit, Cleared, marks
    <3>2. CASE moved
      BY <3>1, <3>2 DEF SharesUnderLock
    <3>3. CASE ~moved
      <4>1. ASSUME NEW s \in (Publishers \X Places) \ unlocked
            PROVE  /\ shares'[s] <= 1
                   /\ \A j \in Imports : s \in imports'[j].gives => shares'[s] = 0 /\ owner \in imports'[j].holds
        <5>1. shares[s] <= 1 /\ \A j \in Imports : s \in imports[j].gives => shares[s] = 0 /\ owner \in imports[j].holds
          BY <3>3 DEF SharesUnderLock
        <5>2. \A j \in Imports \ {i} : imports'[j] = imports[j]
          BY <2>0, <3>1
        <5>3. CASE s \in imports[i].gives
          <6>1. \A j \in Imports \ {i} : s \notin imports[j].gives
            BY <5>1, <5>3 DEF LocksHeldOnce
          <6>2. shares'[s] = 1
            BY <3>1, <5>1, <5>3
          <6>. QED BY <3>1, <5>2, <6>1, <6>2
        <5>4. CASE s \notin imports[i].gives
          <6>1. shares'[s] = shares[s]
            BY <3>1, <5>4
          <6>. QED BY <3>1, <5>1, <5>2, <6>1
        <5>. QED BY <5>3, <5>4
      <4>2. \A j \in Imports : imports'[j].stage = "read" /\ ~IsDeposit(j)' => imports'[j].by = owner
        BY <2>0, <3>1, <3>3 DEF SharesUnderLock
      <4>. QED BY <3>1, <4>1, <4>2 DEF SharesUnderLock
    <3>. QED BY <1>0, <3>2, <3>3
  <2>7. CASE SaveBatch(i) \/ RollBack(i)
    <3>1. /\ OthersStay(i) /\ imports'[i].gives = {} /\ imports'[i].stage # "read"
          /\ UNCHANGED <<owner, shares, moved, unlocked>>
      BY <2>7, EndRow DEF SaveBatch, RollBack, Cleared, tables, marks
    <3>. QED BY <2>1, <3>1
  <2>. QED BY <1>1, <2>2, <2>3, <2>4, <2>5, <2>6, <2>7 DEF ImportActs
<1>2. ASSUME \A i \in Imports : WorkStays(i) /\ imports'[i].stage = imports[i].stage /\ imports'[i].sheet = imports[i].sheet
                                /\ imports'[i].line = imports[i].line /\ imports'[i].by = imports[i].by,
             UNCHANGED <<owner, shares, moved, unlocked>>
      PROVE  SharesUnderLock'
  <2>1. \A i \in Imports : IsDeposit(i)' = IsDeposit(i)
    BY <1>2 DEF IsDeposit, Line
  <2>2. ASSUME NEW i \in Imports
        PROVE  /\ \A s \in Publishers \X Places : s \in imports'[i].gives =>
                    s \in unlocked' \/ (s \in imports[i].gives /\ (owner \in imports[i].holds => owner' \in imports'[i].holds))
               /\ imports'[i].stage = "read" =>
                    \/ imports'[i].by = owner'
                    \/ IsDeposit(i)'
                    \/ imports[i].stage = "read" /\ ~IsDeposit(i) /\ imports'[i].by = imports[i].by
    BY <1>2, <2>1 DEF WorkStays
  <2>. QED BY <1>2, <2>2, SharesKept
<1>3. ASSUME NEW c \in Channels, adminDeleteChannelIncome(c) PROVE SharesUnderLock'
  BY <1>2, <1>3, ForgetRows DEF adminDeleteChannelIncome, marks
<1>4. ASSUME NEW x \in Creators \cup {NoOne}, adminUpdateDrama(x) PROVE SharesUnderLock'
  <2>1. /\ UNCHANGED <<imports, shares, unlocked>>
        /\ moved' = (moved \/ \E i \in Imports : InTransaction(i))
    BY <1>4 DEF adminUpdateDrama, tables
  <2>2. CASE ~moved'
    <3>1. ~moved /\ \A i \in Imports : ~InTransaction(i) /\ imports[i].gives = {} /\ imports[i].stage # "read"
      BY <2>1, <2>2, NothingGiven DEF InTransaction
    <3>. QED BY <2>1, <3>1 DEF SharesUnderLock
  <2>. QED BY <2>2 DEF SharesUnderLock
<1>5. ASSUME UNCHANGED <<imports, owner, shares, moved, unlocked>> PROVE SharesUnderLock'
  BY <1>2, <1>5 DEF WorkStays
<1>6. \/ \E i \in Imports : ImportActs(i)
      \/ \E c \in Channels : adminDeleteChannelIncome(c)
      \/ \E x \in Creators \cup {NoOne} : adminUpdateDrama(x)
      \/ UNCHANGED <<imports, owner, shares, moved, unlocked>>
  BY DEF IncomeNext, ImportActs, adminUpdateChannelIncome, MoveGrant, incomeVars, tables, marks
<1>. QED BY <1>1, <1>3, <1>4, <1>5, <1>6

-----------------------------------------------------------------------------
(* What the import of income promises.                                     *)

ImportInv == Underway /\ LocksHeldOnce /\ PaysOnce /\ FilesOnce /\ SharesUnderLock

LEMMA ImportInvInit == IncomeInit => IncomeTypeOK /\ ImportInv
<1> SUFFICES ASSUME IncomeInit PROVE IncomeTypeOK /\ ImportInv
  OBVIOUS
<1>1. IncomeTypeOK /\ Underway
  BY IncomeTypeInit
<1>2. ASSUME NEW i \in Imports
      PROVE  /\ imports[i].stage = "idle" /\ imports[i].gives = {} /\ imports[i].holds = {} /\ ~imports[i].pays
             /\ \A c \in Channels : imports[i].wrote[c] = NoRow
  BY DEF IncomeInit, NoImport
<1>3. LocksHeldOnce
  BY <1>2 DEF LocksHeldOnce
<1>4. PICK f \in Sheets \cup {NoOne} :
        /\ \A g \in Sheets : deposited[g] <= 1
        /\ applied = [g \in Sheets |-> IF g = f THEN 1 ELSE 0]
        /\ batches = {f} \ {NoOne}
  <2>1. PICK f \in Sheets \cup {NoOne} : Imported(f)
    BY DEF IncomeInit
  <2>2. \A g \in Sheets : deposited[g] <= 1
    BY <2>1 DEF Imported
  <2>. QED BY <2>1, <2>2 DEF Imported
<1>5. PaysOnce
  BY <1>2, <1>4 DEF PaysOnce, DepositedOnce
<1>6. FilesOnce
  <2>1. \A g \in Sheets : applied[g] <= 1 /\ (applied[g] = 1 => g \in batches)
    BY <1>4, IncomeAssumption
  <2>. QED BY <1>2, <2>1 DEF FilesOnce, Busy, InTransaction
<1>7. SharesUnderLock
  <2>1. \A s \in Publishers \X Places : shares[s] = 0
    BY DEF IncomeInit
  <2>. QED BY <1>2, <2>1 DEF SharesUnderLock
<1>. QED BY <1>1, <1>3, <1>5, <1>6, <1>7 DEF ImportInv

LEMMA ImportInvStep ==
    ASSUME IncomeTypeOK, ImportInv, [IncomeNext]_incomeVars
    PROVE  IncomeTypeOK' /\ ImportInv'
BY IncomeTypeStep, LocksStep, PaysStep, FilesStep, SharesStep DEF ImportInv

(* What is in the tables of the import is what their columns hold: an      *)
(* income is never negative and is of a creator, the shares, entries and   *)
(* imports of a sheet count up from zero.                                  *)
THEOREM IncomeTypesCorrect == IncomeSpec => []IncomeTypeOK
<1>1. IncomeInit => IncomeTypeOK /\ ImportInv
  BY ImportInvInit
<1>2. IncomeTypeOK /\ ImportInv /\ [IncomeNext]_incomeVars => IncomeTypeOK' /\ ImportInv'
  BY ImportInvStep
<1>. QED BY <1>1, <1>2, PTL DEF IncomeSpec

(* Whatever uploads of a sheet, names of a place, roll-backs and lost      *)
(* batches meet: shares, deposits and sheets are taken once.               *)
THEOREM LinesTakenOnce == IncomeSpec => []TakenOnce
<1>1. IncomeInit => IncomeTypeOK /\ ImportInv
  BY ImportInvInit
<1>2. IncomeTypeOK /\ ImportInv /\ [IncomeNext]_incomeVars => IncomeTypeOK' /\ ImportInv'
  BY ImportInvStep
<1>3. IncomeTypeOK /\ ImportInv => TakenOnce
  BY DEF ImportInv, PaysOnce, FilesOnce, SharesUnderLock, TakenOnce, SharedOnce, DepositedOnce,
     FileAppliedOnce
<1>. QED BY <1>1, <1>2, <1>3, PTL DEF IncomeSpec

-----------------------------------------------------------------------------
(* The books: what creators earned and what the rows say.                  *)

(* The part of a row's income that is of creator x. *)
Of(r, x) == IF r.creator = x THEN r.income ELSE 0

RowsOf(x) == [c \in Channels |-> Of(channelRows[c], x)]

(* What an import adds to it when it commits. *)
GainOf(i, x) == [c \in Channels |-> Of(Visible(i, c), x) - Of(channelRows[c], x)]

(* What x earned is what the rows of x say and what imports missed, and    *)
(* will be whatever import commits.                                        *)
DueAgrees(i, x) == imports[i].due[x] = SumFunction(GainOf(i, x)) + imports[i].missed[x]

Agree(x) ==
    /\ earned[x] = SumFunction(RowsOf(x)) + drift[x]
    /\ \A i \in Imports : DueAgrees(i, x)

BooksAgree == \A x \in Creators : Agree(x)

LEMMA OfType ==
    \A r \in Row \cup {NoRow}, x \in Creators : Of(r, x) \in Nat
BY RowColumns DEF Of

LEMMA OfNoRow == \A x \in Creators : Of(NoRow, x) = 0
BY DEF Of, NoRow

LEMMA SumsType ==
    ASSUME IncomeTypeOK, NEW x \in Creators
    PROVE  /\ IsFiniteSet(Channels) /\ earned[x] \in Int /\ drift[x] \in Int
           /\ RowsOf(x) \in [Channels -> Int] /\ SumFunction(RowsOf(x)) \in Int
           /\ \A i \in Imports : /\ imports[i].due[x] \in Int /\ imports[i].missed[x] \in Int
                                 /\ GainOf(i, x) \in [Channels -> Int]
                                 /\ SumFunction(GainOf(i, x)) \in Int
<1>1. IsFiniteSet(Channels)
  BY IncomeAssumption
<1>2. \A c \in Channels : Of(channelRows[c], x) \in Nat
  BY OfType DEF IncomeTypeOK
<1>3. /\ earned[x] \in Int /\ drift[x] \in Int
      /\ \A i \in Imports : imports[i].due[x] \in Int /\ imports[i].missed[x] \in Int
  BY ImportsType DEF IncomeTypeOK, Import
<1>4. \A i \in Imports, c \in Channels : Of(Visible(i, c), x) \in Nat
  BY OfType, RowsType
<1>5. RowsOf(x) \in [Channels -> Int] /\ \A i \in Imports : GainOf(i, x) \in [Channels -> Int]
  BY <1>2, <1>4 DEF RowsOf, GainOf
<1>. QED BY <1>1, <1>3, <1>5, TotalIsInt

(* An import with nothing written has nothing to add. *)
LEMMA ClearedAgrees ==
    ASSUME IncomeTypeOK', NEW x \in Creators, NEW i \in Imports, Cleared(i)
    PROVE  DueAgrees(i, x)'
<1> DEFINE gain == GainOf(i, x)'
<1>1. \A c \in Channels : channelRows'[c] \in Row \cup {NoRow} /\ Visible(i, c)' = channelRows'[c]
  BY DEF Cleared, Visible, IncomeTypeOK
<1>2. gain \in [Channels -> Int] /\ \A c \in Channels : gain[c] = 0
  <2>1. \A c \in Channels : Of(Visible(i, c)', x) - Of(channelRows'[c], x) = 0
    BY <1>1, OfType
  <2>. QED BY <2>1 DEF GainOf
<1>. HIDE DEF gain
<1>3. SumFunction(gain) = 0
  BY <1>2, IncomeAssumption, TotalIsZero
<1>4. imports'[i].due[x] = 0 /\ imports'[i].missed[x] = 0
  BY DEF Cleared
<1>. QED BY <1>3, <1>4 DEF gain, DueAgrees

(* What is due of an import whose rows, as it sees them, are as they were. *)
LEMMA DueKept ==
    ASSUME UNCHANGED channelRows, NEW x \in Creators, NEW i \in Imports, DueAgrees(i, x),
           imports'[i].wrote = imports[i].wrote, imports'[i].due = imports[i].due,
           imports'[i].missed = imports[i].missed
    PROVE  DueAgrees(i, x)'
<1>1. GainOf(i, x)' = GainOf(i, x)
  BY DEF GainOf, Visible
<1>. QED BY <1>1 DEF DueAgrees

LEMMA BooksKept ==
    ASSUME UNCHANGED <<channelRows, earned, drift>>, NEW x \in Creators, Agree(x),
           NEW W \in SUBSET Imports, \A i \in W : WorkStays(i), \A i \in Imports \ W : DueAgrees(i, x)'
    PROVE  Agree(x)'
<1>1. earned'[x] = SumFunction(RowsOf(x)') + drift'[x]
  <2>1. RowsOf(x)' = RowsOf(x)
    BY DEF RowsOf
  <2>. QED BY <2>1 DEF Agree
<1>2. \A i \in W : DueAgrees(i, x)'
  BY DueKept DEF Agree, WorkStays
<1>. QED BY <1>1, <1>2 DEF Agree

(* A line written: the difference that is booked is what the row gains and *)
(* what was missed, whatever the row has become since it was read.         *)
LEMMA BooksWritten ==
    ASSUME IncomeTypeOK, IncomeTypeOK', Underway, NEW x \in Creators, Agree(x),
           NEW i \in Imports, WriteIncome(i), ~Unchanged(i)
    PROVE  Agree(x)'
<1>0. PICK c \in Channels, by \in Creators, new \in Row \cup {NoRow}, row \in Row \cup {NoRow} :
        /\ c = Sold(i) /\ by = imports[i].by /\ new = [creator |-> by, income |-> Line(i).income]
        /\ row = Visible(i, c)
  <2>1. Sold(i) \in Channels /\ imports[i].by \in Creators /\ Line(i).income \in Nat
    BY WrittenLine
  <2>. QED BY <2>1, RowsType DEF Row
<1>1. PICK delta \in Int, missed \in Int, seen \in Nat, says \in Nat :
        /\ delta = Owed(i) /\ missed = Missed(i, x) /\ seen = imports[i].seen.income
        /\ says = Line(i).income /\ delta = says - seen
  <2>1. imports[i].seen.income \in Nat
    BY WrittenLine, RowColumns
  <2>. QED BY <2>1, WrittenLine DEF Owed, Difference
<1>2. /\ OthersStay(i) /\ UNCHANGED <<channelRows, earned, drift>>
      /\ imports'[i].due = [imports[i].due EXCEPT ![by] = @ + delta]
      /\ imports'[i].missed = [y \in Creators |-> imports[i].missed[y] + Missed(i, y)]
      /\ imports'[i].wrote = [imports[i].wrote EXCEPT ![c] = IF imports[i].lost THEN @ ELSE new]
  BY <1>0, <1>1, WriteRow DEF WriteIncome, tables
<1>3. /\ imports[i].due \in [Creators -> Int] /\ imports[i].missed \in [Creators -> Int]
      /\ imports[i].wrote \in [Channels -> Row \cup {NoRow}] /\ imports[i].lost \in BOOLEAN
  BY ImportsType DEF Import
<1>4. /\ imports'[i].due[x] = imports[i].due[x] + (IF x = by THEN delta ELSE 0)
      /\ imports'[i].missed[x] = imports[i].missed[x] + missed
  BY <1>1, <1>2, <1>3
<1>5. /\ Of(row, x) \in Nat /\ Of(channelRows[c], x) \in Nat /\ Of(new, x) \in Nat
      /\ Of(new, x) = IF x = by THEN says ELSE 0
  BY <1>0, <1>1, OfType DEF IncomeTypeOK, Of
<1>6. missed = IF imports[i].lost THEN (IF x = by THEN says ELSE 0) - (IF x = by THEN seen ELSE 0)
               ELSE Of(row, x) - (IF x = by THEN seen ELSE 0)
  <2>1. Line(i).channel = c
    BY <1>0 DEF Sold
  <2>. QED BY <1>0, <1>1, <2>1 DEF Missed, Of
<1>7. CASE imports[i].lost
  <2>1. imports'[i].wrote = imports[i].wrote
    BY <1>2, <1>3, <1>7
  <2>2. GainOf(i, x)' = GainOf(i, x)
    BY <1>2, <2>1 DEF GainOf, Visible
  <2>3. (IF x = by THEN delta ELSE 0) = missed
    BY <1>1, <1>6, <1>7
  <2>4. imports[i].due[x] \in Int /\ imports[i].missed[x] \in Int /\ SumFunction(GainOf(i, x)) \in Int
    BY SumsType
  <2>5. DueAgrees(i, x)'
    BY <1>4, <2>2, <2>3, <2>4 DEF DueAgrees, Agree
  <2>. QED BY <1>2, <2>5, BooksKept DEF OthersStay, WorkStays
<1>8. CASE ~imports[i].lost
  <2>1. /\ \A k \in Channels \ {c} : Visible(i, k)' = Visible(i, k)
        /\ Visible(i, c)' = new
    <3>1. new # NoRow
      BY <1>0, IncomeAssumption DEF NoRow
    <3>. QED BY <1>2, <1>3, <1>8, <3>1 DEF Visible
  <2> DEFINE gain == GainOf(i, x)
             gained == GainOf(i, x)'
  <2>2. gain[c] = Of(row, x) - Of(channelRows[c], x) /\ gained[c] = Of(new, x) - Of(channelRows[c], x)
    BY <1>0, <1>2, <2>1 DEF GainOf
  <2>3. \A k \in Channels \ {c} : gained[k] = gain[k]
    BY <1>2, <2>1 DEF GainOf
  <2>4. gain \in [Channels -> Int] /\ IsFiniteSet(Channels) /\ SumFunction(gain) \in Int
    BY SumsType
  <2>5. gained \in [Channels -> Int]
    <3>1. \A k \in Channels : gained[k] \in Int
      BY <1>5, <2>2, <2>3, <2>4
    <3>. QED BY <3>1 DEF GainOf
  <2>. HIDE DEF gain, gained
  <2>6. SumFunction(gained) = SumFunction(gain) + (gained[c] - gain[c])
    BY <2>3, <2>4, <2>5, TotalChange
  <2>7. (IF x = by THEN delta ELSE 0) = (gained[c] - gain[c]) + missed
    BY <1>1, <1>5, <1>6, <1>8, <2>2
  <2>8. imports[i].due[x] \in Int /\ imports[i].missed[x] \in Int
    BY SumsType
  <2>9. imports[i].due[x] = SumFunction(gain) + imports[i].missed[x]
    BY DEF Agree, DueAgrees, gain
  <2>10. gained[c] - gain[c] \in Int
    BY <2>4, <2>5
  <2>11. imports'[i].due[x] = SumFunction(gained) + imports'[i].missed[x]
    BY <1>4, <2>4, <2>6, <2>7, <2>8, <2>9, <2>10
  <2>12. DueAgrees(i, x)'
    BY <2>11 DEF DueAgrees, gained
  <2>. QED BY <1>2, <2>12, BooksKept DEF OthersStay, WorkStays
<1>. QED BY <1>7, <1>8

(* A commit: the rows and the creators gain what the import had for them.  *)
LEMMA BooksCommitted ==
    ASSUME IncomeTypeOK, IncomeTypeOK', Underway, LocksHeldOnce, NEW x \in Creators, Agree(x),
           NEW i \in Imports, Commit(i)
    PROVE  Agree(x)'
<1>1. /\ OthersStay(i) /\ Cleared(i)
      /\ channelRows' = [c \in Channels |-> Visible(i, c)]
      /\ earned'[x] = earned[x] + imports[i].due[x]
      /\ drift'[x] = drift[x] + imports[i].missed[x]
  BY EndRow DEF Commit, Visible
<1>2. SumFunction(RowsOf(x)') = SumFunction(RowsOf(x)) + SumFunction(GainOf(i, x))
  <2> DEFINE rows == RowsOf(x)
             gain == GainOf(i, x)
             gained == RowsOf(x)'
  <2>1. /\ IsFiniteSet(Channels) /\ rows \in [Channels -> Int] /\ gain \in [Channels -> Int]
        /\ gained \in [Channels -> Int]
    <3>1. \A c \in Channels : Of(channelRows'[c], x) \in Nat
      BY OfType DEF IncomeTypeOK
    <3>2. gained \in [Channels -> Int]
      <4>1. gained = [c \in Channels |-> Of(channelRows'[c], x)]
        BY DEF RowsOf
      <4>. HIDE DEF gained
      <4>. QED BY <3>1, <4>1
    <3>. HIDE DEF gained
    <3>. QED BY <3>2, SumsType
  <2>2. \A c \in Channels : gained[c] = rows[c] + gain[c]
    <3>1. ASSUME NEW c \in Channels PROVE gained[c] = rows[c] + gain[c]
      <4>1. Of(channelRows[c], x) \in Nat /\ Of(Visible(i, c), x) \in Nat
        BY RowsType, OfType DEF IncomeTypeOK
      <4>2. gained[c] = Of(Visible(i, c), x)
        BY <1>1 DEF RowsOf
      <4>. QED BY <4>1, <4>2 DEF RowsOf, GainOf
    <3>. QED BY <3>1
  <2>. HIDE DEF rows, gain, gained
  <2>3. SumFunction(gained) = SumFunction(rows) + SumFunction(gain)
    BY <2>1, <2>2, TotalAdds
  <2>. QED BY <2>3 DEF rows, gain, gained
<1>3. ASSUME NEW j \in Imports \ {i} PROVE DueAgrees(j, x)'
  <2>1. imports'[j] = imports[j]
    BY <1>1 DEF OthersStay
  <2>2. GainOf(j, x)' = GainOf(j, x)
    <3>1. ASSUME NEW c \in Channels
          PROVE  Of(Visible(j, c)', x) - Of(channelRows'[c], x) = Of(Visible(j, c), x) - Of(channelRows[c], x)
      <4>1. CASE imports[j].wrote[c] = NoRow
        <5>1. Visible(j, c)' = channelRows'[c] /\ Visible(j, c) = channelRows[c]
          BY <2>1, <4>1 DEF Visible
        <5>2. Of(channelRows'[c], x) \in Nat /\ Of(channelRows[c], x) \in Nat
          BY OfType DEF IncomeTypeOK
        <5>. QED BY <5>1, <5>2
      <4>2. CASE imports[j].wrote[c] # NoRow
        <5>1. imports[i].wrote[c] = NoRow
          BY <4>2 DEF LocksHeldOnce
        <5>2. channelRows'[c] = channelRows[c]
          BY <1>1, <5>1 DEF Visible
        <5>3. Visible(j, c)' = Visible(j, c)
          BY <2>1, <4>2 DEF Visible
        <5>. QED BY <5>2, <5>3
      <4>. QED BY <4>1, <4>2
    <3>. QED BY <3>1 DEF GainOf
  <2>. QED BY <2>1, <2>2 DEF Agree, DueAgrees
<1>4. DueAgrees(i, x)'
  BY <1>1, ClearedAgrees
<1>5. earned'[x] = SumFunction(RowsOf(x)') + drift'[x]
  <2>1. /\ SumFunction(RowsOf(x)) \in Int /\ SumFunction(GainOf(i, x)) \in Int
        /\ drift[x] \in Int /\ imports[i].missed[x] \in Int
    BY SumsType
  <2>2. /\ earned[x] = SumFunction(RowsOf(x)) + drift[x]
        /\ imports[i].due[x] = SumFunction(GainOf(i, x)) + imports[i].missed[x]
    BY DEF Agree, DueAgrees
  <2>. QED BY <1>1, <1>2, <2>1, <2>2
<1>. QED BY <1>3, <1>4, <1>5 DEF Agree

(* A correction or deletion, which finds the row locked by nobody.         *)
LEMMA BooksCorrected ==
    ASSUME IncomeTypeOK, IncomeTypeOK', NEW x \in Creators, Agree(x), drift' = drift,
           NEW c \in Channels, NEW r \in Row \cup {NoRow}, NEW delta \in Int,
           Book(c, delta), channelRows' = [channelRows EXCEPT ![c] = r],
           Of(r, x) = IF channelRows[c].creator = x THEN channelRows[c].income + delta ELSE 0,
           \A i \in Imports : WorkStays(i)
    PROVE  Agree(x)'
<1>0. PICK y \in Creators, s \in Nat : y = channelRows[c].creator /\ s = channelRows[c].income
  <2>1. channelRows[c] \in Row
    BY DEF Book, IncomeTypeOK
  <2>. QED BY <2>1 DEF Row
<1>1. /\ \A i \in Imports : imports[i].wrote[c] = NoRow
      /\ earned' = [earned EXCEPT ![y] = @ + delta]
  BY <1>0 DEF Book, RowIsFree
<1>2. Of(r, x) - Of(channelRows[c], x) = IF y = x THEN delta ELSE 0
  BY <1>0 DEF Of
<1>3. earned'[x] = earned[x] + (IF y = x THEN delta ELSE 0)
  <2>1. earned \in [Creators -> Int]
    BY DEF IncomeTypeOK
  <2>. QED BY <1>1, <2>1
<1>4. SumFunction(RowsOf(x)') = SumFunction(RowsOf(x)) + (IF y = x THEN delta ELSE 0)
  <2> DEFINE rows == RowsOf(x)
             changed == RowsOf(x)'
  <2>1. IsFiniteSet(Channels) /\ rows \in [Channels -> Int] /\ channelRows \in [Channels -> Row \cup {NoRow}]
    BY SumsType DEF IncomeTypeOK
  <2>2. changed[c] = Of(r, x) /\ rows[c] = Of(channelRows[c], x)
    BY <2>1 DEF RowsOf
  <2>3. \A k \in Channels \ {c} : changed[k] = rows[k]
    BY <2>1 DEF RowsOf
  <2>4. changed \in [Channels -> Int]
    <3>1. \A k \in Channels : Of(channelRows'[k], x) \in Nat
      BY OfType DEF IncomeTypeOK
    <3>. QED BY <3>1 DEF RowsOf
  <2>. HIDE DEF rows, changed
  <2>5. SumFunction(changed) = SumFunction(rows) + (changed[c] - rows[c])
    BY <2>1, <2>3, <2>4, TotalChange
  <2>. QED BY <1>2, <2>2, <2>5 DEF rows, changed
<1>5. ASSUME NEW i \in Imports PROVE DueAgrees(i, x)'
  <2>1. /\ imports'[i].due = imports[i].due /\ imports'[i].wrote = imports[i].wrote
        /\ imports'[i].missed = imports[i].missed
    BY DEF WorkStays
  <2>2. GainOf(i, x)' = GainOf(i, x)
    <3>1. ASSUME NEW k \in Channels
          PROVE  Of(Visible(i, k)', x) - Of(channelRows'[k], x) = Of(Visible(i, k), x) - Of(channelRows[k], x)
      <4>1. CASE k = c
        <5>1. Visible(i, c)' = channelRows'[c] /\ Visible(i, c) = channelRows[c]
          BY <1>1, <2>1 DEF Visible
        <5>2. Of(channelRows'[c], x) \in Nat /\ Of(channelRows[c], x) \in Nat
          BY OfType DEF IncomeTypeOK
        <5>. QED BY <4>1, <5>1, <5>2
      <4>2. CASE k # c
        <5>1. channelRows'[k] = channelRows[k]
          BY <4>2 DEF IncomeTypeOK
        <5>2. Visible(i, k)' = Visible(i, k)
          BY <2>1, <5>1 DEF Visible
        <5>. QED BY <5>1, <5>2
      <4>. QED BY <4>1, <4>2
    <3>. QED BY <3>1 DEF GainOf
  <2>. QED BY <2>1, <2>2 DEF Agree, DueAgrees
<1>6. earned'[x] = SumFunction(RowsOf(x)') + drift'[x]
  <2>1. SumFunction(RowsOf(x)) \in Int /\ drift[x] \in Int
    BY SumsType
  <2>2. earned[x] = SumFunction(RowsOf(x)) + drift[x] /\ (IF y = x THEN delta ELSE 0) \in Int
    BY DEF Agree
  <2>. QED BY <1>3, <1>4, <2>1, <2>2
<1>. QED BY <1>5, <1>6 DEF Agree

LEMMA BooksStep ==
    ASSUME IncomeTypeOK, Underway, LocksHeldOnce, BooksAgree, [IncomeNext]_incomeVars
    PROVE  BooksAgree'
<1>0. IncomeTypeOK'
  BY IncomeTypeStep
<1>. SUFFICES ASSUME NEW x \in Creators PROVE Agree(x)'
  BY DEF BooksAgree
<1>1. Agree(x)
  BY DEF BooksAgree
<1>2. ASSUME UNCHANGED <<channelRows, earned, drift>>, \A i \in Imports : WorkStays(i)
      PROVE  Agree(x)'
  BY <1>1, <1>2, BooksKept
<1>3. ASSUME UNCHANGED <<channelRows, earned, drift>>, NEW i \in Imports, OthersStay(i), DueAgrees(i, x)'
      PROVE  Agree(x)'
  <2>1. \A j \in Imports \ {i} : WorkStays(j)
    BY <1>3 DEF OthersStay, WorkStays
  <2>. QED BY <1>1, <1>3, <2>1, BooksKept
<1>4. ASSUME NEW i \in Imports, ImportActs(i) PROVE Agree(x)'
  <2>1. ASSUME OthersStay(i), WorkStays(i), UNCHANGED <<channelRows, earned, drift>> PROVE Agree(x)'
    BY <1>2, <2>1 DEF OthersStay, WorkStays
  <2>2. ASSUME OthersStay(i), UNCHANGED <<channelRows, earned, drift>>, imports'[i].wrote = imports[i].wrote,
               imports'[i].due = imports[i].due, imports'[i].missed = imports[i].missed
        PROVE  Agree(x)'
    BY <1>1, <1>3, <2>2, DueKept DEF Agree
  <2>3. CASE \E f \in Sheets : Upload(i, f)
    BY <2>1, <2>3, UploadRow DEF Upload, tables
  <2>4. CASE ReadLine(i)
    BY <2>1, <2>4, ReadRow DEF ReadLine, tables, marks
  <2>5. CASE WriteIncome(i)
    <3>1. CASE Unchanged(i)
      BY <2>2, <2>5, <3>1, SkipRow DEF WriteIncome, tables
    <3>2. CASE ~Unchanged(i)
      BY <1>0, <1>1, <2>5, <3>2, BooksWritten
    <3>. QED BY <3>1, <3>2
  <2>6. CASE WriteDeposit(i)
    BY <2>2, <2>6, DepositRow DEF WriteDeposit, tables, marks
  <2>7. CASE Commit(i)
    BY <1>0, <1>1, <2>7, BooksCommitted
  <2>8. CASE SaveBatch(i) \/ RollBack(i)
    <3>1. OthersStay(i) /\ Cleared(i) /\ UNCHANGED <<channelRows, earned, drift>>
      BY <2>8, EndRow DEF SaveBatch, RollBack, tables, marks
    <3>. QED BY <1>0, <1>3, <3>1, ClearedAgrees
  <2>. QED BY <1>4, <2>3, <2>4, <2>5, <2>6, <2>7, <2>8 DEF ImportActs
<1>5. ASSUME NEW c \in Channels, NEW n \in Corrections, adminUpdateChannelIncome(c, n) PROVE Agree(x)'
  <2>1. n \in Nat /\ channelRows[c] \in Row /\ channelRows[c].income \in Nat
    BY <1>5, IncomeAssumption DEF adminUpdateChannelIncome, Correct, Book, IncomeTypeOK, Row
  <2>2. Difference(channelRows[c], n) \in Int /\ channelRows[c].income + Difference(channelRows[c], n) = n
    BY <2>1 DEF Difference
  <2> DEFINE r == [channelRows[c] EXCEPT !.income = n]
  <2>3. r \in Row \cup {NoRow} /\ r.creator = channelRows[c].creator /\ r.income = n
    BY <2>1 DEF Row
  <2>4. /\ Book(c, Difference(channelRows[c], n)) /\ channelRows' = [channelRows EXCEPT ![c] = r]
        /\ \A i \in Imports : WorkStays(i)
        /\ drift' = drift
    BY <1>5 DEF adminUpdateChannelIncome, WorkStays, marks
  <2>. HIDE DEF r
  <2>5. Of(r, x) = IF channelRows[c].creator = x
                     THEN channelRows[c].income + Difference(channelRows[c], n) ELSE 0
    BY <2>2, <2>3 DEF Of
  <2>. QED BY <1>0, <1>1, <2>2, <2>3, <2>4, <2>5, BooksCorrected
<1>6. ASSUME NEW c \in Channels, adminDeleteChannelIncome(c) PROVE Agree(x)'
  <2>1. channelRows[c].income \in Nat
    BY RowColumns DEF IncomeTypeOK
  <2>2. -channelRows[c].income \in Int /\ channelRows[c].income + (-channelRows[c].income) = 0
    BY <2>1
  <2>3. /\ Book(c, -channelRows[c].income) /\ channelRows' = [channelRows EXCEPT ![c] = NoRow]
        /\ Forget(c) /\ drift' = drift
    BY <1>6 DEF adminDeleteChannelIncome, marks
  <2>4. \A i \in Imports : WorkStays(i)
    BY <2>3, ForgetRows
  <2>5. Of(NoRow, x) = IF channelRows[c].creator = x
                         THEN channelRows[c].income + (-channelRows[c].income) ELSE 0
    BY <2>2, OfNoRow
  <2>. QED BY <1>0, <1>1, <2>2, <2>3, <2>4, <2>5, BooksCorrected
<1>7. ASSUME UNCHANGED <<channelRows, earned, imports, drift>> PROVE Agree(x)'
  BY <1>2, <1>7 DEF WorkStays
<1>8. \/ \E i \in Imports : ImportActs(i)
      \/ \E c \in Channels : \/ \E n \in Corrections : adminUpdateChannelIncome(c, n)
                             \/ adminDeleteChannelIncome(c)
      \/ UNCHANGED <<channelRows, earned, imports, drift>>
  BY DEF IncomeNext, ImportActs, adminUpdateDrama, MoveGrant, incomeVars, tables, marks
<1>. QED BY <1>4, <1>5, <1>6, <1>7, <1>8

LEMMA BooksInit == IncomeInit => BooksAgree
<1> SUFFICES ASSUME IncomeInit, NEW x \in Creators PROVE Agree(x)
  BY DEF BooksAgree
<1>1. IncomeTypeOK /\ owner \in Creators
  BY IncomeTypeInit DEF IncomeInit
<1>2. /\ earned = [y \in Creators |-> IF y = owner THEN SumFunction(RowIncomes) ELSE 0]
      /\ \A c \in Channels : channelRows[c] = NoRow \/ channelRows[c].creator = owner
  <2>1. PICK f \in Sheets \cup {NoOne} : Imported(f)
    BY DEF IncomeInit
  <2>. QED BY <2>1 DEF Imported
<1>3. IsFiniteSet(Channels) /\ RowsOf(x) \in [Channels -> Int] /\ SumFunction(RowsOf(x)) \in Int
  BY <1>1, SumsType
<1>4. earned[x] = SumFunction(RowsOf(x))
  <2>1. CASE owner = x
    <3>1. RowsOf(x) = RowIncomes
      BY <1>2, <2>1 DEF RowsOf, RowIncomes, Of, NoRow
    <3>. QED BY <1>2, <2>1, <3>1
  <2>2. CASE owner # x
    <3>1. \A c \in Channels : RowsOf(x)[c] = 0
      BY <1>2, <2>2, OfNoRow DEF RowsOf, Of
    <3>2. SumFunction(RowsOf(x)) = 0
      BY <1>3, <3>1, TotalIsZero
    <3>. QED BY <1>2, <2>2, <3>2
  <2>. QED BY <2>1, <2>2
<1>5. earned[x] = SumFunction(RowsOf(x)) + drift[x]
  BY <1>3, <1>4 DEF IncomeInit
<1>6. ASSUME NEW i \in Imports PROVE DueAgrees(i, x)
  <2>1. /\ imports[i].due[x] = 0 /\ imports[i].missed[x] = 0
        /\ \A c \in Channels : Visible(i, c) = channelRows[c]
    BY DEF IncomeInit, NoImport, Visible
  <2>2. GainOf(i, x) \in [Channels -> Int] /\ \A c \in Channels : GainOf(i, x)[c] = 0
    <3>1. \A c \in Channels : Of(channelRows[c], x) \in Nat
      BY <1>1, OfType DEF IncomeTypeOK
    <3>. QED BY <1>1, <2>1, <3>1, SumsType DEF GainOf
  <2>3. SumFunction(GainOf(i, x)) = 0
    BY <1>3, <2>2, TotalIsZero
  <2>. QED BY <2>1, <2>3 DEF DueAgrees
<1>. QED BY <1>5, <1>6 DEF Agree

(* Imports that cross, roll back or repeat, corrections and deletions      *)
(* taken together, what each creator earned is what the rows of the        *)
(* channels say, and, to the cent, what rows had changed by between their  *)
(* reading and their booking (admin_finance_import.go).                    *)
THEOREM IncomeHasRows == IncomeSpec => []RowsBehindIncome
<1>1. IncomeInit => IncomeTypeOK /\ ImportInv /\ BooksAgree
  BY ImportInvInit, BooksInit
<1>2. IncomeTypeOK /\ ImportInv /\ BooksAgree /\ [IncomeNext]_incomeVars
        => IncomeTypeOK' /\ ImportInv' /\ BooksAgree'
  BY ImportInvStep, BooksStep DEF ImportInv
<1>3. BooksAgree => RowsBehindIncome
  BY DEF BooksAgree, Agree, RowsBehindIncome, RowsOf, IncomeOf, Of
<1>. QED BY <1>1, <1>2, <1>3, PTL DEF IncomeSpec

=============================================================================
