------------------------ MODULE CreatorVerification ------------------------
(***************************************************************************)
(* The identity of one creator: a person (name, identity card, bank card)  *)
(* or an organization (its registration, the identity card of its legal    *)
(* representative, a bank account).  A submission is checked with a        *)
(* provider; a person who passes is verified at once, everybody else waits *)
(* for the staff.                                                          *)
(*                                                                         *)
(* Each of the creator's calls reads the row, asks the provider or checks  *)
(* an SMS code, and then writes, without a lock and without looking again. *)
(* The rows of creators do not touch one another.  The fields of an        *)
(* organization, those of its legal representative included, are one       *)
(* value; the name of the bank goes with the card; and cards that show the *)
(* same first and last digits are one card.                                *)
(***************************************************************************)
EXTENDS Accounts, TLC

CONSTANTS People,     (* names                                             *)
          Ids,        (* identity cards                                    *)
          Cards,      (* bank cards and accounts, as far as they are shown *)
          Orgs,       (* registrations of organizations                    *)
          RealPeople, (* what the provider confirms: <<name, id, card>>    *)
          RealOrgs,   (* ... and which organizations                       *)
          Profiles    (* what a request to PUT /me/profile may hold        *)

ASSUME CreatorVerificationAssumption ==
    /\ None \notin People \cup Ids \cup Cards \cup Orgs
                   \cup {"manual", "bankcard3", "biz_4e", "submission", "change"}
    /\ RealPeople \subseteq People \X Ids \X Cards
    /\ RealOrgs \subseteq Orgs

VARIABLES creator,  (* the row of creators                                 *)
          subs,     (* calls between what they read and what they write    *)
          staff,    (* history: it was the staff who verified the creator  *)
          edited    (* history: the fields of Identity that anything else  *)
                    (* than a submission wrote, while the row said that the*)
                    (* provider had confirmed them                         *)

personVars == <<creator, subs, staff, edited>>

Types == {"personal", "organization"}
CreatorStatuses == {"unverified", "pending", "verified", "rejected"}
Methods == {None, "manual", "bankcard3", "biz_4e"}

Creator == [type: Types, status: CreatorStatuses, method: Methods, name: People \cup {None},
            id: Ids \cup {None}, card: Cards \cup {None}, org: Orgs \cup {None}]

Fields == {"type", "status", "method", "name", "id", "card", "org"}

(* What the check of a person is about. *)
Identity == {"type", "name", "id", "card"}

(* A request about the profile names some of the columns that it may       *)
(* change. Only the organization's can be emptied: an empty name, type or  *)
(* card counts as not given.                                               *)
ASSUME ProfilesAssumption ==
    \A profile \in Profiles :
        \E row \in Creator, given \in SUBSET (Fields \ {"status", "method"}) :
            /\ profile = [f \in given |-> row[f]]
            /\ \A f \in given \ {"org"} : row[f] # None

(* A call holds the columns it is going to write; edited: what had been    *)
(* edited of the data whose result it reuses.                              *)
NoSub == [kind |-> None, set |-> <<>>, edited |-> {}]

PersonTypeOK ==
    /\ creator \in Creator
    /\ \A q \in Calls :
         /\ subs[q].kind \in {None, "submission", "change"}
         /\ subs[q].kind = "submission" => subs[q].set \in Creator
         /\ DOMAIN subs[q].set \subseteq Fields
         /\ subs[q].edited \subseteq Identity
    /\ staff \in BOOLEAN
    /\ edited \subseteq Identity

PersonInit ==
    /\ creator = [type |-> "personal", status |-> "unverified", method |-> None, name |-> None,
                  id |-> None, card |-> None, org |-> None]
    /\ subs = [q \in Calls |-> NoSub]
    /\ staff = FALSE
    /\ edited = {}

(* UPDATE: the columns it names are written, the others stay. *)
Updated(row, set) == [f \in DOMAIN row |-> IF f \in DOMAIN set THEN set[f] ELSE row[f]]

Idles(q) == subs[q] = NoSub

Reads(q, sub) ==
    /\ subs' = [subs EXCEPT ![q] = sub]
    /\ UNCHANGED <<creator, staff, edited>>

-----------------------------------------------------------------------------
(* Submissions.                                                            *)

personalVerifyStatusFor(method) == IF method = "bankcard3" THEN "verified" ELSE "pending"

(* All columns are written, those the request left out as they were read. *)
PersonRow(name, id, card, method) ==
    [type |-> "personal", status |-> personalVerifyStatusFor(method), method |-> method,
     name |-> name, id |-> OrStored(id, creator.id), card |-> OrStored(card, creator.card), org |-> None]

OrgRow(org, card, method) ==
    [type |-> "organization", status |-> "pending", method |-> method, name |-> None,
     id |-> None, card |-> OrStored(card, creator.card), org |-> org]

(* The provider confirms what is so, or it is not to be had (as in         *)
(* development) and the staff check by hand; what it denies is refused.    *)
runBankCard3Verify(name, id, card) ==
    {"manual"} \cup (IF <<name, id, card>> \in RealPeople THEN {"bankcard3"} ELSE {})

runBizLicense4Verify(org) == {"manual"} \cup (IF org \in RealOrgs THEN {"biz_4e"} ELSE {})

(* Mutant: the provider is not asked again after it once confirmed. *)
SamePersonOnce(name, id, card) == creator.method = "bankcard3"

(* The result of the last check is reused when the name is the stored one  *)
(* and the request gives no card.                                          *)
SamePerson(name, id, card) ==
    name = creator.name /\ id = None /\ card = None /\ creator.method = "bankcard3"

SameOrg(org) == org = creator.org /\ creator.method = "biz_4e"

creatorUpdatePersonalVerification(q, name, id, card) ==
    LET person == <<name, OrStored(id, creator.id), OrStored(card, creator.card)>>
        reused == SamePerson(name, id, card)
    IN  /\ Idles(q)
        /\ creator.status # "verified"
        /\ person[2] # None /\ person[3] # None
        /\ \E method \in IF reused THEN {"bankcard3"}
                                  ELSE runBankCard3Verify(person[1], person[2], person[3]) :
               Reads(q, [kind |-> "submission", set |-> PersonRow(name, id, card, method),
                         edited |-> IF reused THEN edited \ {"type"} ELSE {}])

creatorUpdateEnterpriseVerification(q, org, card) ==
    /\ Idles(q)
    /\ creator.status # "verified"
    /\ OrStored(card, creator.card) # None
    /\ \E method \in IF SameOrg(org) THEN {"biz_4e"} ELSE runBizLicense4Verify(org) :
           Reads(q, [kind |-> "submission", set |-> OrgRow(org, card, method), edited |-> {}])

-----------------------------------------------------------------------------
(* Other changes.                                                          *)

Changes(q, set) == Idles(q) /\ Reads(q, [kind |-> "change", set |-> set, edited |-> {}])

(* An SMS code of this scene is asked for when a card is there and another *)
(* is given; codes are the module SmsLogin's.                              *)
creatorChangeBankCard(q, card) == Changes(q, [card |-> card])

Given(profile, f) == f \in DOMAIN profile /\ profile[f] # None

(* Any of the columns, at any status; a full set of them counts as a       *)
(* submission that nobody has checked.                                     *)
Complete(profile) ==
    /\ Given(profile, "card")
    /\ Given(profile, "org") \/ (Given(profile, "name") /\ Given(profile, "id"))

AsSubmission(profile) ==
    [f \in DOMAIN profile \cup {"status"} |-> IF f = "status" THEN "pending" ELSE profile[f]]

creatorUpdateProfile(q, profile) ==
    LET type == IF Given(profile, "type") THEN profile.type ELSE creator.type
    IN  /\ type = "personal" => ~Given(profile, "org")
        /\ type = "organization" => ~Given(profile, "name") /\ ~Given(profile, "id")
        /\ Changes(q, IF Complete(profile) /\ creator.status # "verified"
                      THEN AsSubmission(profile) ELSE profile)

EditedBy(set) == IF creator.method = "bankcard3" THEN edited \cup (DOMAIN set \cap Identity) ELSE {}

(* The UPDATE that ends a call asks nothing of the row it finds. *)
Write(q) ==
    LET sub == subs[q]
    IN  /\ sub # NoSub
        /\ creator' = Updated(creator, sub.set)
        /\ staff' = (staff /\ "status" \notin DOMAIN sub.set)
        /\ edited' = IF sub.kind = "change" THEN EditedBy(sub.set) ELSE sub.edited
        /\ subs' = [subs EXCEPT ![q] = NoSub]

GiveUp(q) ==
    /\ subs[q] # NoSub
    /\ subs' = [subs EXCEPT ![q] = NoSub]
    /\ UNCHANGED <<creator, staff, edited>>

-----------------------------------------------------------------------------
(* The staff.                                                              *)

creatorPayoutProfileMissing ==
    \/ creator.card = None
    \/ creator.type = "organization" /\ creator.org = None
    \/ creator.type = "personal" /\ (creator.name = None \/ creator.id = None)

(* Under the lock of the row; a creator who was rejected or never submitted*)
(* may be approved as well.                                                *)
adminApproveCreatorVerification ==
    /\ creator.status # "verified"
    /\ ~creatorPayoutProfileMissing
    /\ creator' = [creator EXCEPT !.status = "verified"]
    /\ staff' = TRUE
    /\ UNCHANGED <<subs, edited>>

adminRejectCreatorVerification ==
    /\ creator.status = "pending"
    /\ creator' = [creator EXCEPT !.status = "rejected"]
    /\ staff' = FALSE
    /\ UNCHANGED <<subs, edited>>

(* PUT /admin/creators/:id: any of these fields, the status included. *)
adminUpdateCreator(set) ==
    /\ creator' = Updated(creator, set)
    /\ staff' = IF "status" \in DOMAIN set THEN set.status = "verified" ELSE staff
    /\ edited' = EditedBy(set)
    /\ UNCHANGED subs

AdminSets ==
    {[name |-> n] : n \in People} \cup {[type |-> t] : t \in Types}
        \cup {[org |-> o] : o \in Orgs} \cup {[status |-> s] : s \in CreatorStatuses}

PersonNext ==
    \/ \E q \in Calls :
         \/ \E name \in People, id \in Ids \cup {None}, card \in Cards \cup {None} :
                creatorUpdatePersonalVerification(q, name, id, card)
         \/ \E org \in Orgs, card \in Cards \cup {None} : creatorUpdateEnterpriseVerification(q, org, card)
         \/ \E card \in Cards : creatorChangeBankCard(q, card)
         \/ \E profile \in Profiles : creatorUpdateProfile(q, profile)
         \/ Write(q) \/ GiveUp(q)
    \/ adminApproveCreatorVerification
    \/ adminRejectCreatorVerification
    \/ \E set \in AdminSets : adminUpdateCreator(set)

PersonSpec == PersonInit /\ [][PersonNext]_personVars

-----------------------------------------------------------------------------
(* Properties.                                                             *)

(* What the row says in these of its fields is what the provider confirmed *)
(* of one and the same person.                                             *)
Confirmed(row, fields) ==
    /\ "type" \in fields => row.type = "personal"
    /\ \E person \in RealPeople :
         /\ "name" \in fields => person[1] = row.name
         /\ "id" \in fields => person[2] = row.id
         /\ "card" \in fields => person[3] = row.card

(* Submissions that cross, late answers of the provider and decisions of   *)
(* the staff in between never leave a creator verified whom the staff did  *)
(* not verify and of whom the provider did not confirm what is stored: the *)
(* type, name, identity card and bank card, of one person.  Only the very  *)
(* fields that a call outside the verification has written since may       *)
(* differ; those it left alone are still confirmed.                        *)
VerifiedIsEarned ==
    creator.status = "verified" => staff \/ Confirmed(creator, Identity \ edited)

=============================================================================
