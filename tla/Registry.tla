------------------------------- MODULE Registry -------------------------------
(***************************************************************************)
(* What the claims and grants promise distributors, without deposits,      *)
(* reviews or contracts: who holds which platforms of which drama.  The    *)
(* platforms of a claim are acquired in one step, all of them free; they   *)
(* are released by one distributor for one drama at a time, or by all of   *)
(* them when the drama goes; and no step takes a platform from one         *)
(* distributor and gives it to another.                                    *)
(***************************************************************************)
CONSTANTS Distributors, Dramas, Platforms

VARIABLE held   (* <<distributor, drama, platform>>: the rights that stand *)

Rights(d, dr, P) == {d} \X {dr} \X P

(* What an older front end left in the database, of one distributor.       *)
RegistryInit ==
    \E d \in Distributors, dr \in Dramas, P \in SUBSET Platforms : held = Rights(d, dr, P)

Free(dr, P) == held \cap (Distributors \X {dr} \X P) = {}

Acquire(d, dr, P) ==
    /\ Free(dr, P)
    /\ held' = held \cup Rights(d, dr, P)

Release(d, dr, P) == held' = held \ Rights(d, dr, P)

Withdraw(dr) == held' = held \ (Distributors \X {dr} \X Platforms)

RegistryNext ==
    \E d \in Distributors, dr \in Dramas, P \in SUBSET Platforms :
        Acquire(d, dr, P) \/ Release(d, dr, P) \/ Withdraw(dr)

RegistrySpec == RegistryInit /\ [][RegistryNext]_held
=============================================================================
