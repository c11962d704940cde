------------------------------- MODULE Dramas -------------------------------
(***************************************************************************)
(* The life of one drama: written by its creator, reviewed by the staff    *)
(* along two dimensions, put on air by hand or by the schedule, taken off, *)
(* sent back, deleted; and the contracts drawn up for it.                  *)
(*                                                                         *)
(* No handler locks the drama's row.  A handler reads the row, checks it,  *)
(* computes the columns to write and writes them with an UPDATE by primary *)
(* key that names no expected status: a call is therefore two steps, the   *)
(* read that passes the checks and the write, and other calls may write in *)
(* between.  A call that checks nothing but that the row exists is one     *)
(* step.  overlap remembers that a call wrote on a row that had changed    *)
(* since its read, so that a property can be stated of the calls that do   *)
(* not cross and, where the code keeps it, of all of them.                 *)
(***************************************************************************)
EXTENDS Naturals, FiniteSets

CONSTANTS Slots,      (* calls that may be in flight at a time             *)
          Creators,
          Owners,     (* whom the staff may make the owner of a drama      *)
          Eps,        (* episodes of the drama                             *)
          Contracts,  (* contract rows                                     *)
          None        (* sentinel: no creator, no call                     *)

ASSUME NoneAssumption ==
    /\ None \notin Slots \cup Creators \cup Eps \cup Contracts
    /\ Owners \subseteq Creators \cup {None}

VARIABLES drama,      (* the dramas row                                    *)
          eps,        (* the episodes rows, as far as publishing reads them*)
          sold,       (* episodes some viewer has unlocked                 *)
          contracts,  (* the contracts made by submissions, and whose      *)
          calls,      (* calls between their read and their write          *)
          task,       (* the schedule task found the drama due             *)
          overlap,    (* history: a call wrote on a row that had changed   *)
          history     (* history: what the staff did, see History          *)

vars == <<drama, eps, sold, contracts, calls, task, overlap, history>>

DramaStatuses == {"draft", "reviewing", "awaiting_publish", "published", "offline"}
AuditStatuses == {"pending", "approved", "rejected"}

(* material: two characters and four copyright files are on record.        *)
(* scheduled: scheduled_publish_at is set; the date may be past at any     *)
(* time from then on.                                                      *)
Drama == [status: DramaStatuses \cup {"absent", "deleted"},
          audit: AuditStatuses, content: AuditStatuses, video: AuditStatuses,
          material: BOOLEAN, scheduled: BOOLEAN,
          creator: Creators \cup {None}]

NoDrama(s) == [status |-> s, audit |-> "pending", content |-> "pending", video |-> "pending",
               material |-> FALSE, scheduled |-> FALSE, creator |-> None]

(* The columns an UPDATE sets; Keep stands for a column it does not name.  *)
Keep == "keep"

Update == [status: DramaStatuses \cup {Keep}, audit: AuditStatuses \cup {Keep},
           content: AuditStatuses \cup {Keep}, video: AuditStatuses \cup {Keep}]

Ops == {"edit", "submit", "publish", "adminPublish", "reject", "approve",
        "sendback", "audit", "delete", "deleteEpisode"}

Call == [op: Ops, set: Update, creator: Creators \cup {None},
         on: Eps \cup {None}, fresh: BOOLEAN]

NoCall == [op |-> None, set |-> None, creator |-> None, on |-> None, fresh |-> TRUE]

Nothing == [status |-> Keep, audit |-> Keep, content |-> Keep, video |-> Keep]
AllAudits(s) == [status |-> Keep, audit |-> s, content |-> s, video |-> s]
StatusOnly(s) == [Nothing EXCEPT !.status = s]

(* direct: on air by the staff's publish, which does not ask for approval. *)
(* turnedDown: rejected or sent back after an episode of it had been sold. *)
(* removed: episodes that the staff deleted, and the sold ones that the    *)
(* creator did by a call that wrote on a row changed since its read.       *)
History == [direct: BOOLEAN, turnedDown: BOOLEAN, removed: SUBSET Eps]

TypeOK ==
    /\ drama \in Drama
    /\ eps \in [Eps -> {"none", "raw", "ready"}]
    /\ sold \subseteq Eps
    /\ contracts \in [Contracts -> Creators \cup {None}]
    /\ calls \in [Slots -> Call \cup {NoCall}]
    /\ task \in BOOLEAN
    /\ overlap \in BOOLEAN
    /\ history \in History

Init ==
    /\ drama = NoDrama("absent")
    /\ eps = [e \in Eps |-> "none"]
    /\ sold = {}
    /\ contracts = [k \in Contracts |-> None]
    /\ calls = [q \in Slots |-> NoCall]
    /\ task = FALSE
    /\ overlap = FALSE
    /\ history = [direct |-> FALSE, turnedDown |-> FALSE, removed |-> {}]

Exists == drama.status \in DramaStatuses

Present == {e \in Eps : eps[e] # "none"}

HasReady == \E e \in Eps : eps[e] = "ready"

-----------------------------------------------------------------------------
(* A call in flight.                                                       *)

Read(q, op, set, on) ==
    /\ calls[q] = NoCall
    /\ calls' = [calls EXCEPT ![q] =
                    [op |-> op, set |-> set, creator |-> drama.creator,
                     on |-> on, fresh |-> TRUE]]
    /\ UNCHANGED <<drama, eps, sold, contracts, task, overlap, history>>

Touched == [p \in Slots |->
    IF calls[p] = NoCall THEN NoCall ELSE [calls[p] EXCEPT !.fresh = FALSE]]

(* A call of one step writes the status. *)
DramaTouched == calls' = Touched

(* The call of slot q writes and returns. *)
Return(q) ==
    /\ calls' = [Touched EXCEPT ![q] = NoCall]
    /\ overlap' = (overlap \/ ~calls[q].fresh)

(* UPDATE ... WHERE id: nothing happens when the row is gone. *)
Set(old, new) == IF new = Keep THEN old ELSE new

Written(set) ==
    IF Exists
    THEN [drama EXCEPT !.status = Set(@, set.status), !.audit = Set(@, set.audit),
                       !.content = Set(@, set.content), !.video = Set(@, set.video)]
    ELSE drama

(* Off air, the drama was not put there by the staff any more. *)
StillDirect(d) == history.direct /\ d.status = "published"

-----------------------------------------------------------------------------
(* The creator.                                                            *)

Owned == Exists /\ drama.creator # None

NewDrama(c) ==
    /\ drama.status = "absent"
    /\ \E m, s \in BOOLEAN :
           drama' = [drama EXCEPT !.status = "draft", !.creator = c,
                                  !.material = m, !.scheduled = s]
    /\ UNCHANGED <<eps, sold, contracts, calls, task, overlap, history>>

creatorCreateDrama == \E c \in Creators : NewDrama(c)

Editable == drama.status \in {"draft", "offline"} \/ drama.audit = "rejected"

creatorUpdateDrama(q) == Owned /\ Editable /\ Read(q, "edit", Nothing, None)

(* The columns of an edit are not those the other calls read or write.     *)
(* An edit may complete the material or take some of it out, and may set a *)
(* new publication date.                                                   *)
WriteEdit(q) ==
    /\ calls[q].op = "edit"
    /\ \E m \in BOOLEAN, s \in {drama.scheduled, TRUE} :
           drama' = IF Exists THEN [drama EXCEPT !.material = m, !.scheduled = s] ELSE drama
    /\ calls' = [calls EXCEPT ![q] = NoCall]
    /\ UNCHANGED <<eps, sold, contracts, task, overlap, history>>

creatorUpdateDramaPublishConfig ==
    /\ Owned
    /\ drama' = [drama EXCEPT !.scheduled = TRUE]
    /\ UNCHANGED <<eps, sold, contracts, calls, task, overlap, history>>

(* Two characters and four files of ownership. *)
checkDramaMaterialGate == drama.material

MaySubmit == drama.status \in {"draft", "offline"}

creatorSubmitDrama(q) ==
    /\ Owned /\ MaySubmit /\ checkDramaMaterialGate
    /\ Read(q, "submit", [AllAudits("pending") EXCEPT !.status = "reviewing"], None)

(* The count of this drama's contracts with this creator.  The UPDATE of   *)
(* the drama comes first in the transaction, so submissions of one drama   *)
(* queue on its row and each counts what the one before it has committed.  *)
ContractsOf(c) == {k \in Contracts : contracts[k] = c}

(* Mutant: the contract is created without counting. *)
NeedsContractAlways(c) == TRUE

NeedsContract(c) == ContractsOf(c) = {}

NewContract(k, c) == contracts[k] = None /\ contracts' = [contracts EXCEPT ![k] = c]

(* A submission whose drama is gone locks nothing, so that it may miss the *)
(* contract of another one.                                                *)
WriteSubmit(q) ==
    /\ calls[q].op = "submit"
    /\ drama' = Written(calls[q].set)
    /\ \/ \E k \in Contracts :
              (Exists => NeedsContract(calls[q].creator)) /\ NewContract(k, calls[q].creator)
       \/ ~NeedsContract(calls[q].creator) /\ UNCHANGED contracts
    /\ Return(q)
    /\ history' = [history EXCEPT !.direct = StillDirect(drama')]
    /\ UNCHANGED <<eps, sold, task>>

MayPublish == /\ drama.audit = "approved"
              /\ drama.status \in {"awaiting_publish", "offline"}

creatorPublishDrama(q) ==
    /\ Owned /\ MayPublish /\ checkDramaMaterialGate /\ HasReady
    /\ Read(q, "publish", StatusOnly("published"), None)

creatorOfflineDrama ==
    /\ Owned
    /\ drama' = [drama EXCEPT !.status = "offline"]
    /\ DramaTouched
    /\ history' = [history EXCEPT !.direct = FALSE]
    /\ UNCHANGED <<eps, sold, contracts, task, overlap>>

(* Mutant: any drama may be deleted by its creator. *)
MayDeleteAny == TRUE

MayDelete == drama.status = "draft"

creatorDeleteDrama(q) == Owned /\ MayDelete /\ Read(q, "delete", Nothing, None)

(* What a deletion that wrote too late takes of what was sold. *)
LateLoss(q, gone) == IF calls[q].fresh THEN {} ELSE sold \cap gone

(* The episodes go with the drama; orders, unlocks and contracts stay. *)
WriteDelete(q) ==
    /\ calls[q].op = "delete"
    /\ drama' = NoDrama("deleted")
    /\ eps' = [e \in Eps |-> "none"]
    /\ Return(q)
    /\ history' = [history EXCEPT !.direct = FALSE,
                                  !.removed = @ \cup LateLoss(q, Eps)]
    /\ UNCHANGED <<sold, contracts, task>>

creatorDeleteEpisode(q, e) ==
    /\ Owned /\ drama.status = "draft" /\ e \in Present
    /\ Read(q, "deleteEpisode", Nothing, e)

WriteDeleteEpisode(q) ==
    /\ calls[q].op = "deleteEpisode"
    /\ eps' = [eps EXCEPT ![calls[q].on] = "none"]
    /\ Return(q)
    /\ history' = [history EXCEPT !.removed = @ \cup LateLoss(q, {calls[q].on})]
    /\ UNCHANGED <<drama, sold, contracts, task>>

-----------------------------------------------------------------------------
(* The staff.                                                              *)

adminCreateDrama == \E c \in Owners : NewDrama(c)

(* Any column but the statuses, in any status, the creator included. *)
adminUpdateDrama ==
    /\ Exists
    /\ \E m \in BOOLEAN, c \in Owners :
           drama' = [drama EXCEPT !.material = m, !.creator = c]
    /\ UNCHANGED <<eps, sold, contracts, calls, task, overlap, history>>

(* No look at the review: the staff may put on air what was not approved.  *)
adminPublishDrama(q) ==
    /\ Exists /\ checkDramaMaterialGate /\ HasReady
    /\ Read(q, "adminPublish", StatusOnly("published"), None)

adminOfflineDrama ==
    /\ Exists
    /\ drama' = [drama EXCEPT !.status = "offline"]
    /\ DramaTouched
    /\ history' = [history EXCEPT !.direct = FALSE]
    /\ UNCHANGED <<eps, sold, contracts, task, overlap>>

(* What a rejection makes of the status it read. *)
AfterRejection(s) ==
    CASE s = "published" -> "offline"
      [] s \in {"awaiting_publish", "reviewing"} -> "draft"
      [] OTHER -> Keep

AfterApproval(s) ==
    IF s \in {"draft", "reviewing", "offline"} THEN "awaiting_publish" ELSE Keep

adminRejectDrama(q) ==
    /\ Exists
    /\ Read(q, "reject",
            [AllAudits("rejected") EXCEPT !.status = AfterRejection(drama.status)], None)

adminApproveDrama(q) ==
    /\ Exists
    /\ Read(q, "approve",
            [AllAudits("approved") EXCEPT !.status = AfterApproval(drama.status)], None)

adminSendbackDrama(q) ==
    /\ drama.status = "published"
    /\ Read(q, "sendback", [AllAudits("rejected") EXCEPT !.status = "draft"], None)

(* The overall verdict from the two dimensions. *)
Derive(content, video) ==
    CASE "rejected" \in {content, video} -> "rejected"
      [] {content, video} = {"approved"} -> "approved"
      [] OTHER -> "pending"

(* Mutant: only a rejection reaches the overall verdict. *)
RecomputeRejections(content, video) ==
    IF Derive(content, video) # "rejected" THEN Nothing
    ELSE [Nothing EXCEPT !.audit = "rejected", !.status = AfterRejection(drama.status)]

recomputeDramaAuditTx(content, video) ==
    LET overall == Derive(content, video)
    IN  [Nothing EXCEPT
            !.audit = overall,
            !.status = CASE overall = "approved" -> AfterApproval(drama.status)
                         [] overall = "rejected" -> AfterRejection(drama.status)
                         [] OTHER -> Keep]

(* The verdict on one dimension; the other one, and the status, are those  *)
(* of the copy the handler read before its transaction.                    *)
adminAuditDrama(q) ==
    /\ Exists
    /\ \E s \in {"approved", "rejected"} :
           \/ Read(q, "audit", [recomputeDramaAuditTx(s, drama.video) EXCEPT !.content = s], None)
           \/ Read(q, "audit", [recomputeDramaAuditTx(drama.content, s) EXCEPT !.video = s], None)

Verdicts == {"reject", "approve", "sendback", "audit"}

WriteVerdict(q) ==
    /\ calls[q].op \in Verdicts
    /\ drama' = Written(calls[q].set)
    /\ Return(q)
    /\ history' = [history EXCEPT !.direct = StillDirect(drama'),
                                  !.turnedDown = @ \/ (calls[q].set.audit = "rejected" /\ sold # {})]
    /\ UNCHANGED <<eps, sold, contracts, task>>

Publishing == {"publish", "adminPublish"}

WritePublish(q) ==
    /\ calls[q].op \in Publishing
    /\ drama' = Written(calls[q].set)
    /\ Return(q)
    /\ history' = [history EXCEPT !.direct = calls[q].op = "adminPublish" /\ drama.audit # "approved"]
    /\ UNCHANGED <<eps, sold, contracts, task>>

(* Everything that hangs on the drama goes with it, orders and unlocks     *)
(* included; its contracts stay.                                           *)
adminDeleteDrama ==
    /\ Exists
    /\ drama' = NoDrama("deleted")
    /\ eps' = [e \in Eps |-> "none"]
    /\ sold' = {}
    /\ DramaTouched
    /\ history' = [history EXCEPT !.direct = FALSE]
    /\ UNCHANGED <<contracts, task, overlap>>

(* Super administrators delete an episode whatever the drama's status. *)
adminDeleteEpisode(e) ==
    /\ Exists /\ e \in Present
    /\ eps' = [eps EXCEPT ![e] = "none"]
    /\ history' = [history EXCEPT !.removed = @ \cup {e}]
    /\ UNCHANGED <<drama, sold, contracts, calls, task, overlap>>

-----------------------------------------------------------------------------
(* The schedule task, run beside the API: it reads the due dramas, looks   *)
(* for a playable episode and writes under a condition on the status.      *)

Due == /\ drama.audit = "approved"
       /\ drama.status = "awaiting_publish"
       /\ drama.scheduled

publishDue ==
    /\ ~task /\ Due /\ HasReady
    /\ task' = TRUE
    /\ UNCHANGED <<drama, eps, sold, contracts, calls, overlap, history>>

(* Mutant: the update names the drama alone. *)
StillListed == Exists

StillAwaiting == drama.status = "awaiting_publish"

WriteDue ==
    /\ task
    /\ task' = FALSE
    /\ IF StillAwaiting
       THEN drama' = [drama EXCEPT !.status = "published"] /\ DramaTouched
       ELSE UNCHANGED <<drama, calls>>
    /\ UNCHANGED <<eps, sold, contracts, overlap, history>>

-----------------------------------------------------------------------------
(* Episodes and viewers, as far as the drama depends on them: an episode   *)
(* is created, becomes playable or stops being so, and is bought while the *)
(* drama is on air.                                                        *)

EpisodeCreated(e) ==
    /\ Exists /\ eps[e] = "none" /\ e \notin sold \cup history.removed
    /\ eps' = [eps EXCEPT ![e] = "raw"]
    /\ UNCHANGED <<drama, sold, contracts, calls, task, overlap, history>>

EpisodeStatus(e, s) ==
    /\ e \in Present /\ eps[e] # s
    /\ eps' = [eps EXCEPT ![e] = s]
    /\ UNCHANGED <<drama, sold, contracts, calls, task, overlap, history>>

Sell(e) ==
    /\ drama.status = "published" /\ eps[e] = "ready" /\ e \notin sold
    /\ sold' = sold \cup {e}
    /\ UNCHANGED <<drama, eps, contracts, calls, task, overlap, history>>

-----------------------------------------------------------------------------
CreatorStep ==
    \/ creatorCreateDrama \/ creatorUpdateDramaPublishConfig \/ creatorOfflineDrama
    \/ \E q \in Slots :
          \/ creatorUpdateDrama(q) \/ creatorSubmitDrama(q) \/ creatorPublishDrama(q)
          \/ creatorDeleteDrama(q) \/ (\E e \in Eps : creatorDeleteEpisode(q, e))

StaffStep ==
    \/ adminCreateDrama \/ adminUpdateDrama \/ adminOfflineDrama \/ adminDeleteDrama
    \/ \E e \in Eps : adminDeleteEpisode(e)
    \/ \E q \in Slots :
          \/ adminPublishDrama(q) \/ adminRejectDrama(q) \/ adminApproveDrama(q)
          \/ adminSendbackDrama(q) \/ adminAuditDrama(q)

WriteStep ==
    \E q \in Slots :
        /\ calls[q] # NoCall
        /\ \/ WriteEdit(q) \/ WriteSubmit(q) \/ WriteDelete(q) \/ WriteDeleteEpisode(q)
           \/ WriteVerdict(q) \/ WritePublish(q)

TaskStep == publishDue \/ WriteDue

ViewerStep ==
    \E e \in Eps : \/ EpisodeCreated(e) \/ Sell(e)
                   \/ \E s \in {"raw", "ready"} : EpisodeStatus(e, s)

Next == CreatorStep \/ StaffStep \/ WriteStep \/ TaskStep \/ ViewerStep

Spec == Init /\ [][Next]_vars

-----------------------------------------------------------------------------
(* The overall verdict is the one the two dimensions give, as long as no   *)
(* call writes from a stale copy: the verdict on one dimension recomputes  *)
(* it from a copy of the other (recomputeDramaAuditTx).                    *)
DerivedAudit == Exists /\ ~overlap => drama.audit = Derive(drama.content, drama.video)

(* The status follows the review through any sequence of calls that do not *)
(* cross: what waits for publication is approved, what is under review is  *)
(* undecided, a draft is not approved.                                     *)
StatusFollowsAudit ==
    ~overlap => /\ drama.status = "awaiting_publish" => drama.audit = "approved"
                /\ drama.status = "reviewing" => drama.audit = "pending"
                /\ drama.status = "draft" => drama.audit # "approved"

(* Unless the staff put it on air without a review, what is on air was     *)
(* approved and still is, whoever published it (creatorPublishDrama, the   *)
(* schedule task) and whatever was edited since.                           *)
OnAirApproved ==
    drama.status = "published" /\ ~overlap /\ ~history.direct => drama.audit = "approved"

(* Two verdicts, the one derived from them and the status tell one story,  *)
(* after any sequence of the nine calls that write some of them            *)
(* (admin_drama.go, creator_drama.go).                                     *)
StatusFollowsVerdict == DerivedAudit /\ StatusFollowsAudit /\ OnAirApproved

(* However the calls cross, an episode that was sold stays: its creator's  *)
(* deletion asks for a draft (creatorDeleteDrama, creatorDeleteEpisode),   *)
(* and no draft has sold anything.  It can be lost in two ways only: to a  *)
(* deletion that itself writes after the drama it read has changed, and by *)
(* the deletion of a drama that the staff turned down after it had sold.   *)
(* Staff deletions are theirs to make.                                     *)
SoldKept == history.turnedDown \/ sold \subseteq Present \cup history.removed

(* However submissions cross, a creator gets at most one generated         *)
(* contract for a drama (the idempotence comment in creatorSubmitDrama),   *)
(* as long as nobody deletes the drama under them.                         *)
OneContract ==
    Exists => \A c \in Creators : Cardinality(ContractsOf(c)) <= 1

(* A drama taken off air goes back on air by somebody's publish call only: *)
(* never by the schedule task, even one that had found it due before it    *)
(* was taken off.                                                          *)
TakedownHolds ==
    [][drama.status = "offline" /\ drama'.status = "published" =>
           \E q \in Slots : calls[q].op \in Publishing /\ calls'[q] = NoCall]_vars
=============================================================================
