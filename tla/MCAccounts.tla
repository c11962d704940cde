----------------------------- MODULE MCAccounts -----------------------------
(***************************************************************************)
(* Small instances of the four modules about accounts, side by side: they  *)
(* share no variable, so a behaviour is one of one part, and TLC explores  *)
(* the sum of their states, not the product.                               *)
(***************************************************************************)
EXTENDS SmsLogin, AdminAccounts, CreatorVerification, DistributorVerification

CONSTANTS Parts,  (* the parts that a run checks                           *)
          n1, n2, i1, i2, c1, c2, o1

VARIABLE part

(* Two persons, whose identity cards and bank cards can be mixed up. *)
MCRealPeople == {<<n1, i1, c1>>, <<n2, i2, c2>>}
MCRealFirms == {<<n1, i1>>, <<n2, i2>>}

(* One column, or everything at once; a card by itself is what             *)
(* creatorChangeBankCard writes.                                           *)
MCProfiles ==
    {[type |-> "organization"],
     [name |-> n1, id |-> i1, card |-> c1], [org |-> o1, card |-> c1]}

MCInit == part \in Parts /\ LoginInit /\ StaffInit /\ PersonInit /\ FirmInit

MCNext ==
    \/ part = "login" /\ LoginNext /\ UNCHANGED <<part, staffVars, personVars, firmVars>>
    \/ part = "staff" /\ StaffNext /\ UNCHANGED <<part, loginVars, personVars, firmVars>>
    \/ part = "creator" /\ PersonNext /\ UNCHANGED <<part, loginVars, staffVars, firmVars>>
    \/ part = "distributor" /\ FirmNext /\ UNCHANGED <<part, loginVars, staffVars, personVars>>

MCSpec == MCInit /\ [][MCNext]_<<part, loginVars, staffVars, personVars, firmVars>>

Symmetry == Permutations(Calls) \cup Permutations(Accts)

=============================================================================
