---------------------------- MODULE DepositWallet ----------------------------
(***************************************************************************)
(* A distributor's deposit account: the columns deposit_available_cents,   *)
(* deposit_frozen_cents and deposit_deducted_cents of a distributors row,  *)
(* the movements between them, and the amounts the code computes for a     *)
(* claim and for an abandon.                                               *)
(***************************************************************************)
EXTENDS Integers, FiniteSetsExt

Wallet == [available: Int, frozen: Nat, deducted: Nat]

EmptyWallet == [available |-> 0, frozen |-> 0, deducted |-> 0]

Balance(w) == w.available + w.frozen + w.deducted

Account(available, frozen, deducted) ==
    [available |-> available, frozen |-> frozen, deducted |-> deducted]

Recharge(w, a) == Account(w.available + a, w.frozen, w.deducted)

Freeze(w, a)   == Account(w.available - a, w.frozen + a, w.deducted)

(* Mutant: the release credits the account and leaves the frozen column. *)
UnfreezeKeepsFrozen(w, a) == Account(w.available + a, w.frozen, w.deducted)

Unfreeze(w, a) == Account(w.available + a, w.frozen - a, w.deducted)

Deduct(w, a)   == Account(w.available, w.frozen - a, w.deducted + a)

Restore(w, a)  == Account(w.available, w.frozen + a, w.deducted - a)

-----------------------------------------------------------------------------
(* Amounts.  The code sums the minutes of the episodes whose status is     *)
(* "published"; minutes gives, per drama and episode status, that sum.     *)

RateBP == 1500

EpisodeStatuses == {"uploading", "ready", "failed"}

dramaTotalMinutes(minutes) ==
    IF "published" \in EpisodeStatuses THEN minutes["published"] ELSE 0

depositBaseCents(minutes) ==
    IF dramaTotalMinutes(minutes) <= 25 THEN 40000 ELSE 50000

(* The first claim of a drama, for n platforms *)
calcDepositAmount(base, n) == (base * (10000 + RateBP * (n - 1))) \div 10000

(* A further claim of the same distributor, for n more platforms *)
calcAppendDepositAmount(base, n) == (base * RateBP * n) \div 10000

(* Giving up k of the n platforms of a grant that holds deposit *)
calcAbandonRefund(deposit, base, n, k) ==
    IF n - k <= 0 THEN deposit
    ELSE deposit - calcDepositAmount(base, n - k)
=============================================================================
