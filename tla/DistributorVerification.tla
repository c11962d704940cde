---------------------- MODULE DistributorVerification ----------------------
(***************************************************************************)
(* The verification of one distributor, always an organization.  Unlike a  *)
(* creator, a distributor is verified by the staff alone: what the         *)
(* provider finds is kept for them to see (verify_method), and only        *)
(* decides whether a submission is taken at all.                           *)
(*                                                                         *)
(* A submission reads the row, asks the provider, and writes all columns,  *)
(* the ones that the request left out as it read them, without looking     *)
(* again.  The staff decide under a lock.                                  *)
(***************************************************************************)
EXTENDS Accounts

CONSTANTS Firms,        (* name, credit code and legal person              *)
          LegalCards,   (* identity cards of legal persons                 *)
          Accounts,     (* bank accounts                                   *)
          RealFirms     (* what the provider confirms: <<firm, legal card>>*)

ASSUME DistributorVerificationAssumption ==
    /\ None \notin Firms \cup LegalCards \cup Accounts \cup {"manual", "biz_4e"}
    /\ RealFirms \subseteq Firms \X LegalCards

VARIABLES distributor,  (* the row of distributors                         *)
          submissions,  (* calls between their read and their write        *)
          seen,         (* history: what was stored when the staff approved*)
          handedIn      (* history: the data of every submission, as the   *)
                        (* provider was asked about them                   *)

firmVars == <<distributor, submissions, seen, handedIn>>

Data == [firm: Firms \cup {None}, legal: LegalCards \cup {None}, account: Accounts \cup {None}]
NoData == [firm |-> None, legal |-> None, account |-> None]

DistributorStatuses == {"unverified", "pending", "verified", "rejected"}

Submission == [data: [firm: Firms, legal: LegalCards, account: Accounts],
               method: {"manual", "biz_4e"}]
NoSubmission == [data |-> NoData, method |-> None]

FirmTypeOK ==
    /\ distributor \in [status: DistributorStatuses, data: Data, method: {None, "manual", "biz_4e"}]
    /\ submissions \in [Calls -> Submission \cup {NoSubmission}]
    /\ seen \in Data
    /\ handedIn \subseteq Data

FirmInit ==
    /\ distributor = [status |-> "unverified", data |-> NoData, method |-> None]
    /\ submissions = [q \in Calls |-> NoSubmission]
    /\ seen = NoData
    /\ handedIn = {}

(* The provider denies, confirms, or is not to be had. *)
VerifyBizLicense4(data) ==
    {"manual"} \cup (IF <<data.firm, data.legal>> \in RealFirms THEN {"biz_4e"} ELSE {})

Filled(data) == data.legal # None /\ data.account # None

Submits(q, data) ==
    /\ distributor.status # "verified"
    /\ submissions[q] = NoSubmission
    /\ Filled(data)
    /\ \E method \in VerifyBizLicense4(data) :
           submissions' = [submissions EXCEPT ![q] = [data |-> data, method |-> method]]
    /\ handedIn' = handedIn \cup {data}
    /\ UNCHANGED <<distributor, seen>>

distributorUpdateEnterpriseVerification(q, firm, legal, account) ==
    Submits(q, [firm |-> firm, legal |-> OrStored(legal, distributor.data.legal),
                account |-> OrStored(account, distributor.data.account)])

(* Mutant: only a first submission waits for the staff. *)
PendingOnce(given) ==
    [status |-> IF distributor.status = "unverified" THEN "pending" ELSE distributor.status,
     method |-> given.method, data |-> given.data]

(* Whatever became of the row, it waits for the staff again: a submission  *)
(* that comes late takes the verification back.                            *)
PendingRow(given) == [status |-> "pending", method |-> given.method, data |-> given.data]

WriteSubmission(q) ==
    /\ submissions[q] # NoSubmission
    /\ distributor' = PendingRow(submissions[q])
    /\ submissions' = [submissions EXCEPT ![q] = NoSubmission]
    /\ UNCHANGED <<seen, handedIn>>

LoseSubmission(q) ==
    /\ submissions[q] # NoSubmission
    /\ submissions' = [submissions EXCEPT ![q] = NoSubmission]
    /\ UNCHANGED <<distributor, seen, handedIn>>

adminApproveDistributorVerification ==
    /\ distributor.status = "pending"
    /\ distributor' = [distributor EXCEPT !.status = "verified"]
    /\ seen' = distributor.data
    /\ UNCHANGED <<submissions, handedIn>>

adminRejectDistributorVerification ==
    /\ distributor.status = "pending"
    /\ distributor' = [distributor EXCEPT !.status = "rejected"]
    /\ UNCHANGED <<submissions, seen, handedIn>>

FirmNext ==
    \/ \E q \in Calls :
         \/ \E firm \in Firms, legal \in LegalCards \cup {None}, account \in Accounts \cup {None} :
                distributorUpdateEnterpriseVerification(q, firm, legal, account)
         \/ WriteSubmission(q)
         \/ LoseSubmission(q)
    \/ adminApproveDistributorVerification
    \/ adminRejectDistributorVerification

FirmSpec == FirmInit /\ [][FirmNext]_firmVars

-----------------------------------------------------------------------------
(* Properties.                                                             *)

(* A submission that was under way when the staff approved an earlier one  *)
(* never gets its data verified unseen: what is stored of a verified       *)
(* distributor is what was stored when the staff approved it.              *)
VerifiedWasSeen == distributor.status = "verified" => distributor.data = seen

(* Submissions that cross, each leaving other columns out, never store a   *)
(* mixture nobody handed in, nor a provider's finding about other data:    *)
(* the staff see "biz_4e" beside just what the provider confirmed.         *)
FindingIsOfTheData ==
    /\ distributor.status # "unverified" => distributor.data \in handedIn
    /\ distributor.method = "biz_4e" =>
           <<distributor.data.firm, distributor.data.legal>> \in RealFirms

(* Nobody is verified, and nothing called confirmed, for data that nobody  *)
(* looked at (distributor_verification.go, admin_distributor.go).          *)
FirmSound == VerifiedWasSeen /\ FindingIsOfTheData

=============================================================================
