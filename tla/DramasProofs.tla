---------------------------- MODULE DramasProofs ----------------------------
(***************************************************************************)
(* Theorems about Dramas, for any number of calls in flight, creators,     *)
(* episodes and contracts.                                                 *)
(***************************************************************************)
EXTENDS Dramas, FiniteSetTheorems, TLAPS

-----------------------------------------------------------------------------
(* The inductive invariant.                                                *)

(* The statuses a call that was not overtaken relies on.                   *)
StillTrue(call) ==
    /\ Exists
    /\ call.op = "submit" => drama.status \in {"draft", "offline"}
    /\ call.op = "publish" => drama.audit = "approved"
    /\ call.op \in {"delete", "deleteEpisode"} => drama.status = "draft"
    /\ call.op = "reject" =>
         call.set = [AllAudits("rejected") EXCEPT !.status = AfterRejection(drama.status)]
    /\ call.op = "approve" =>
         call.set = [AllAudits("approved") EXCEPT !.status = AfterApproval(drama.status)]
    /\ call.op = "sendback" => call.set = [AllAudits("rejected") EXCEPT !.status = "draft"]
    /\ call.op = "audit" => \E s \in {"approved", "rejected"} :
         \/ call.set = [recomputeDramaAuditTx(s, drama.video) EXCEPT !.content = s]
         \/ call.set = [recomputeDramaAuditTx(drama.content, s) EXCEPT !.video = s]

(* What a call will write, whatever became of the row since.               *)
Writes(call) ==
    /\ call.op = "submit" => /\ call.set = [AllAudits("pending") EXCEPT !.status = "reviewing"]
                             /\ call.creator \in Creators
    /\ call.op \in Publishing => call.set = StatusOnly("published")
    /\ call.op \in Verdicts => /\ call.set.status # "published"
                               /\ call.set.status = "draft" => call.set.audit = "rejected"
    /\ call.op = "deleteEpisode" => call.on \in Eps

Fits(call) == Writes(call) /\ (call.fresh => StillTrue(call))

CallsFit == \A q \in Slots : calls[q] # NoCall => Fits(calls[q])

(* Before the drama is created there is nothing. *)
EmptyBefore ==
    drama.status = "absent" =>
        /\ drama = NoDrama("absent")
        /\ sold = {}
        /\ \A q \in Slots : calls[q] = NoCall
        /\ \A k \in Contracts : contracts[k] = None

(* A draft has sold nothing, unless the staff turned the drama down after  *)
(* it had.                                                                 *)
DraftUnsold == drama.status = "draft" /\ ~history.turnedDown => sold = {}

OnePerCreator ==
    Exists => \A c \in Creators : \A k, l \in ContractsOf(c) : k = l

Inv == /\ TypeOK /\ CallsFit /\ EmptyBefore
       /\ StatusFollowsVerdict
       /\ DraftUnsold /\ SoldKept
       /\ OnePerCreator

-----------------------------------------------------------------------------
LEMMA InvInit == Init => Inv
<1>. SUFFICES ASSUME Init PROVE Inv
  OBVIOUS
<1>1. TypeOK
  BY NoneAssumption DEF Init, TypeOK, NoDrama, Drama, DramaStatuses, AuditStatuses, History
<1>2. CallsFit /\ EmptyBefore
  BY DEF Init, CallsFit, EmptyBefore, NoDrama
<1>3. StatusFollowsVerdict
  BY DEF Init, StatusFollowsVerdict, DerivedAudit, StatusFollowsAudit, OnAirApproved, NoDrama,
         Exists, DramaStatuses
<1>4. DraftUnsold /\ SoldKept /\ OnePerCreator
  BY DEF Init, DraftUnsold, SoldKept, OnePerCreator, NoDrama, Exists, DramaStatuses
<1>. QED BY <1>1, <1>2, <1>3, <1>4 DEF Inv

-----------------------------------------------------------------------------
(* A call reads.                                                           *)

(* What fits a call goes on fitting it while the columns it read stay.      *)
SameColumns ==
    /\ drama'.status = drama.status /\ drama'.audit = drama.audit
    /\ drama'.content = drama.content /\ drama'.video = drama.video

LEMMA FitsKept ==
  ASSUME NEW p \in Slots, Fits(calls[p]), calls'[p] = calls[p], SameColumns
  PROVE  Fits(calls[p])'
BY DEF Fits, Writes, StillTrue, Exists, recomputeDramaAuditTx, SameColumns

LEMMA ReadStep ==
  ASSUME Inv, NEW q \in Slots, NEW op \in Ops, NEW set \in Update, NEW on \in Eps \cup {None},
         Exists, Read(q, op, set, on),
         Fits([op |-> op, set |-> set, creator |-> drama.creator, on |-> on, fresh |-> TRUE])
  PROVE  Inv'
<1>. DEFINE new == [op |-> op, set |-> set, creator |-> drama.creator, on |-> on, fresh |-> TRUE]
<1>1. /\ calls' = [calls EXCEPT ![q] = new]
      /\ UNCHANGED <<drama, eps, sold, contracts, task, overlap, history>>
  BY DEF Read
<1>2. new \in Call
  BY DEF Inv, TypeOK, Drama, Call
<1>3. TypeOK'
  BY <1>1, <1>2 DEF Inv, TypeOK
<1>4. CallsFit'
  <2>. SUFFICES ASSUME NEW p \in Slots, (calls[p] # NoCall)' PROVE Fits(calls[p])'
    BY DEF CallsFit
  <2>1. CASE p = q
    <3>1. calls'[p] = new
      BY <1>1, <2>1 DEF Inv, TypeOK
    <3>2. Fits(new)
      OBVIOUS
    <3>. HIDE DEF new
    <3>. QED BY <1>1, <3>1, <3>2 DEF Fits, Writes, StillTrue, Exists, recomputeDramaAuditTx
  <2>2. CASE p # q
    <3>1. calls'[p] = calls[p]
      BY <1>1, <2>2 DEF Inv, TypeOK
    <3>. QED BY <1>1, <3>1, FitsKept DEF Inv, CallsFit, SameColumns
  <2>. QED BY <2>1, <2>2
<1>5. EmptyBefore'
  BY <1>1 DEF Exists, DramaStatuses, EmptyBefore
<1>6. /\ StatusFollowsVerdict' /\ DraftUnsold' /\ SoldKept' /\ OnePerCreator'
  BY <1>1 DEF Inv, StatusFollowsVerdict, DerivedAudit, StatusFollowsAudit, OnAirApproved,
     DraftUnsold, SoldKept, Present, OnePerCreator, ContractsOf, Exists
<1>. QED BY <1>3, <1>4, <1>5, <1>6 DEF Inv

LEMMA Readers ==
  ASSUME Inv, NEW q \in Slots,
         \/ creatorUpdateDrama(q) \/ creatorSubmitDrama(q) \/ creatorPublishDrama(q)
         \/ creatorDeleteDrama(q) \/ \E e \in Eps : creatorDeleteEpisode(q, e)
         \/ adminPublishDrama(q) \/ adminRejectDrama(q) \/ adminApproveDrama(q)
         \/ adminSendbackDrama(q) \/ adminAuditDrama(q)
  PROVE  Inv'
<1>. USE DEF Fits, Writes, StillTrue, Publishing, Verdicts
<1>0. /\ drama \in Drama
      /\ Nothing \in Update /\ StatusOnly("published") \in Update
      /\ \A s \in DramaStatuses : AfterRejection(s) \in {Keep, "offline", "draft"}
      /\ \A s \in DramaStatuses : AfterApproval(s) \in {Keep, "awaiting_publish"}
      /\ Keep \notin AuditStatuses
  BY DEF Inv, TypeOK, Nothing, StatusOnly, Update, DramaStatuses, AuditStatuses, Keep,
     AfterRejection, AfterApproval
<1>1. CASE creatorUpdateDrama(q)
  BY <1>0, <1>1, ReadStep DEF creatorUpdateDrama, Owned, Ops
<1>2. CASE creatorSubmitDrama(q)
  <2>1. [AllAudits("pending") EXCEPT !.status = "reviewing"] \in Update
    BY DEF AllAudits, Update, DramaStatuses, AuditStatuses
  <2>2. drama.creator \in Creators
    BY <1>0, <1>2 DEF creatorSubmitDrama, Owned, Drama
  <2>. QED BY <1>2, <2>1, <2>2, ReadStep DEF creatorSubmitDrama, Owned, MaySubmit, Ops
<1>3. CASE creatorPublishDrama(q)
  BY <1>0, <1>3, ReadStep DEF creatorPublishDrama, Owned, MayPublish, Ops
<1>4. CASE creatorDeleteDrama(q)
  BY <1>0, <1>4, ReadStep DEF creatorDeleteDrama, Owned, MayDelete, Ops
<1>5. CASE \E e \in Eps : creatorDeleteEpisode(q, e)
  BY <1>0, <1>5, ReadStep DEF creatorDeleteEpisode, Owned, Ops
<1>6. CASE adminPublishDrama(q)
  BY <1>0, <1>6, ReadStep DEF adminPublishDrama, Ops
<1>7. CASE adminRejectDrama(q)
  <2>. DEFINE set == [AllAudits("rejected") EXCEPT !.status = AfterRejection(drama.status)]
  <2>1. /\ Exists /\ Read(q, "reject", set, None)
        /\ AfterRejection(drama.status) \in {Keep, "offline", "draft"}
    BY <1>0, <1>7 DEF adminRejectDrama, Exists
  <2>2. set \in Update /\ set.status # "published" /\ set.audit = "rejected"
    BY <2>1 DEF AllAudits, Update, DramaStatuses, AuditStatuses, Keep
  <2>. QED BY <2>1, <2>2, ReadStep DEF Ops
<1>8. CASE adminApproveDrama(q)
  <2>. DEFINE set == [AllAudits("approved") EXCEPT !.status = AfterApproval(drama.status)]
  <2>1. /\ Exists /\ Read(q, "approve", set, None)
        /\ AfterApproval(drama.status) \in {Keep, "awaiting_publish"}
    BY <1>0, <1>8 DEF adminApproveDrama, Exists
  <2>2. set \in Update /\ set.status \notin {"published", "draft"}
    BY <2>1 DEF AllAudits, Update, DramaStatuses, AuditStatuses, Keep
  <2>. QED BY <2>1, <2>2, ReadStep DEF Ops
<1>9. CASE adminSendbackDrama(q)
  <2>1. /\ [AllAudits("rejected") EXCEPT !.status = "draft"] \in Update
        /\ [AllAudits("rejected") EXCEPT !.status = "draft"].audit = "rejected"
        /\ [AllAudits("rejected") EXCEPT !.status = "draft"].status = "draft"
    BY DEF AllAudits, Update, DramaStatuses, AuditStatuses
  <2>. QED BY <1>9, <2>1, ReadStep DEF adminSendbackDrama, Exists, DramaStatuses, Ops
<1>10. CASE adminAuditDrama(q)
  <2>1. ASSUME NEW c \in AuditStatuses, NEW v \in AuditStatuses, Exists
        PROVE  /\ recomputeDramaAuditTx(c, v) \in Update
               /\ recomputeDramaAuditTx(c, v).status # "published"
               /\ recomputeDramaAuditTx(c, v).status = "draft" =>
                    recomputeDramaAuditTx(c, v).audit = "rejected"
    <3>1. Derive(c, v) \in AuditStatuses
      BY DEF Derive, AuditStatuses
    <3>2. /\ AfterRejection(drama.status) \in {Keep, "offline", "draft"}
          /\ AfterApproval(drama.status) \in {Keep, "awaiting_publish"}
      BY <1>0, <2>1 DEF Exists
    <3>. QED BY <3>1, <3>2 DEF recomputeDramaAuditTx, Nothing, Update, DramaStatuses,
                AuditStatuses, Keep
  <2>2. ASSUME NEW s \in {"approved", "rejected"}
        PROVE  s \in AuditStatuses
    BY DEF AuditStatuses
  <2>3. Exists /\ drama.content \in AuditStatuses /\ drama.video \in AuditStatuses
    BY <1>0, <1>10 DEF adminAuditDrama, Drama
  <2>4. PICK s \in {"approved", "rejected"} :
           \/ Read(q, "audit", [recomputeDramaAuditTx(s, drama.video) EXCEPT !.content = s], None)
           \/ Read(q, "audit", [recomputeDramaAuditTx(drama.content, s) EXCEPT !.video = s], None)
    BY <1>10 DEF adminAuditDrama
  <2>5. ASSUME NEW set \in Update, NEW a \in AuditStatuses,
               set.status # "published", set.status = "draft" => set.audit = "rejected"
        PROVE  \A t \in {[set EXCEPT !.content = a], [set EXCEPT !.video = a]} :
                 /\ t \in Update /\ t.status # "published"
                 /\ t.status = "draft" => t.audit = "rejected"
    BY <2>5 DEF Update
  <2>6. CASE Read(q, "audit", [recomputeDramaAuditTx(s, drama.video) EXCEPT !.content = s], None)
    <3>. DEFINE set == [recomputeDramaAuditTx(s, drama.video) EXCEPT !.content = s]
    <3>1. /\ set \in Update /\ set.status # "published"
          /\ set.status = "draft" => set.audit = "rejected"
      BY <2>1, <2>2, <2>3, <2>5
    <3>2. \E a \in {"approved", "rejected"} :
            \/ set = [recomputeDramaAuditTx(a, drama.video) EXCEPT !.content = a]
            \/ set = [recomputeDramaAuditTx(drama.content, a) EXCEPT !.video = a]
      OBVIOUS
    <3>. HIDE DEF set
    <3>. QED BY <2>3, <2>6, <3>1, <3>2, ReadStep DEF Ops, set
  <2>7. CASE Read(q, "audit", [recomputeDramaAuditTx(drama.content, s) EXCEPT !.video = s], None)
    <3>. DEFINE set == [recomputeDramaAuditTx(drama.content, s) EXCEPT !.video = s]
    <3>1. /\ set \in Update /\ set.status # "published"
          /\ set.status = "draft" => set.audit = "rejected"
      BY <2>1, <2>2, <2>3, <2>5
    <3>2. \E a \in {"approved", "rejected"} :
            \/ set = [recomputeDramaAuditTx(a, drama.video) EXCEPT !.content = a]
            \/ set = [recomputeDramaAuditTx(drama.content, a) EXCEPT !.video = a]
      OBVIOUS
    <3>. HIDE DEF set
    <3>. QED BY <2>3, <2>7, <3>1, <3>2, ReadStep DEF Ops, set
  <2>. QED BY <2>4, <2>6, <2>7
<1>. QED BY <1>1, <1>2, <1>3, <1>4, <1>5, <1>6, <1>7, <1>8, <1>9, <1>10

-----------------------------------------------------------------------------
(* Steps that no verdict, status or call in flight notices.                *)

LEMMA QuietStep ==
  ASSUME Inv, TypeOK', SameColumns, drama' = drama \/ drama.status # "absent",
         UNCHANGED <<contracts, overlap>>,
         \A p \in Slots : calls'[p] \in {calls[p], NoCall},
         history'.direct = history.direct, history'.turnedDown = history.turnedDown,
         sold' = sold \/ drama.status = "published",
         SoldKept'
  PROVE  Inv'
<1>1. CallsFit'
  <2>. SUFFICES ASSUME NEW p \in Slots, (calls[p] # NoCall)' PROVE Fits(calls[p])'
    BY DEF CallsFit
  <2>1. calls'[p] = calls[p]
    OBVIOUS
  <2>. QED BY <2>1, FitsKept DEF Inv, CallsFit
<1>2. EmptyBefore' /\ DraftUnsold'
  BY DEF Inv, EmptyBefore, DraftUnsold, SameColumns
<1>3. StatusFollowsVerdict'
  BY DEF Inv, StatusFollowsVerdict, DerivedAudit, StatusFollowsAudit, OnAirApproved, SameColumns,
     Exists
<1>4. OnePerCreator'
  BY DEF Inv, OnePerCreator, ContractsOf, SameColumns, Exists
<1>. QED BY <1>1, <1>2, <1>3, <1>4 DEF Inv

LEMMA EditsStep ==
  ASSUME Inv,
         \/ creatorUpdateDramaPublishConfig \/ adminUpdateDrama
         \/ \E q \in Slots : calls[q] # NoCall /\ WriteEdit(q)
  PROVE  Inv'
<1>1. /\ drama' \in Drama /\ SameColumns
      /\ drama' = drama \/ drama.status # "absent"
  <2>. USE DEF SameColumns
  <2>0. drama \in Drama
    BY DEF Inv, TypeOK
  <2>1. CASE creatorUpdateDramaPublishConfig
    BY <2>0, <2>1 DEF creatorUpdateDramaPublishConfig, Owned, Exists, DramaStatuses, Drama
  <2>2. CASE adminUpdateDrama
    BY <2>0, <2>2, NoneAssumption DEF adminUpdateDrama, Exists, DramaStatuses, Drama
  <2>3. CASE \E q \in Slots : calls[q] # NoCall /\ WriteEdit(q)
    <3>1. PICK m \in BOOLEAN, s \in {drama.scheduled, TRUE} :
            drama' = IF Exists THEN [drama EXCEPT !.material = m, !.scheduled = s] ELSE drama
      BY <2>3 DEF WriteEdit
    <3>2. s \in BOOLEAN
      BY <2>0 DEF Drama
    <3>. QED BY <2>0, <3>1, <3>2 DEF Exists, DramaStatuses, Drama
  <2>. QED BY <2>1, <2>2, <2>3
<1>2. /\ UNCHANGED <<eps, sold, contracts, task, overlap, history>>
      /\ calls' = calls \/ \E q \in Slots : calls' = [calls EXCEPT ![q] = NoCall]
  BY DEF creatorUpdateDramaPublishConfig, adminUpdateDrama, WriteEdit
<1>3. TypeOK'
  BY <1>1, <1>2 DEF Inv, TypeOK
<1>4. SoldKept'
  BY <1>2 DEF Inv, SoldKept, Present
<1>5. \A p \in Slots : calls'[p] \in {calls[p], NoCall}
  BY <1>2 DEF Inv, TypeOK
<1>. QED BY <1>1, <1>2, <1>3, <1>4, <1>5, QuietStep

LEMMA EpisodesStep ==
  ASSUME Inv, NEW e \in Eps,
         \/ adminDeleteEpisode(e) \/ EpisodeCreated(e) \/ Sell(e)
         \/ \E s \in {"raw", "ready"} : EpisodeStatus(e, s)
  PROVE  Inv'
<1>1. UNCHANGED <<drama, contracts, calls, task, overlap>>
  BY DEF adminDeleteEpisode, EpisodeCreated, Sell, EpisodeStatus
<1>2. CASE adminDeleteEpisode(e)
  <2>1. /\ eps' = [eps EXCEPT ![e] = "none"]
        /\ history' = [history EXCEPT !.removed = @ \cup {e}]
        /\ sold' = sold
    BY <1>2 DEF adminDeleteEpisode
  <2>2. TypeOK'
    BY <1>1, <2>1 DEF Inv, TypeOK, History
  <2>3. /\ history'.direct = history.direct /\ history'.turnedDown = history.turnedDown
        /\ history'.removed = history.removed \cup {e}
    BY <2>1 DEF Inv, TypeOK, History
  <2>4. Present \subseteq Present' \cup {e}
    BY <2>1 DEF Inv, TypeOK, Present
  <2>5. SoldKept'
    BY <1>1, <2>1, <2>3, <2>4 DEF Inv, SoldKept
  <2>. QED BY <1>1, <2>1, <2>2, <2>3, <2>5, QuietStep DEF SameColumns
<1>3. CASE EpisodeCreated(e) \/ \E s \in {"raw", "ready"} : EpisodeStatus(e, s)
  <2>1. /\ eps' \in [Eps -> {"none", "raw", "ready"}]
        /\ Present \subseteq Present'
        /\ UNCHANGED <<sold, history>>
    BY <1>3 DEF Inv, TypeOK, Present, EpisodeCreated, EpisodeStatus
  <2>2. TypeOK' /\ SoldKept'
    BY <1>1, <2>1 DEF Inv, TypeOK, SoldKept
  <2>. QED BY <1>1, <2>1, <2>2, QuietStep DEF SameColumns
<1>4. CASE Sell(e)
  <2>1. /\ drama.status = "published" /\ e \in Present
        /\ sold' = sold \cup {e} /\ UNCHANGED <<eps, history>>
    BY <1>4 DEF Sell, Present
  <2>2. TypeOK' /\ SoldKept'
    BY <1>1, <2>1 DEF Inv, TypeOK, SoldKept, Present
  <2>. QED BY <1>1, <2>1, <2>2, QuietStep DEF SameColumns
<1>. QED BY <1>2, <1>3, <1>4

LEMMA DueReadStep ==
  ASSUME Inv, publishDue \/ UNCHANGED vars
  PROVE  Inv'
<1>1. UNCHANGED <<drama, eps, sold, contracts, calls, overlap, history>> /\ task' \in BOOLEAN
  BY DEF publishDue, vars, Inv, TypeOK
<1>2. TypeOK' /\ SoldKept'
  BY <1>1 DEF Inv, TypeOK, SoldKept, Present
<1>. QED BY <1>1, <1>2, QuietStep DEF SameColumns

(* A drama comes to be.                                                    *)
LEMMA CreateStep ==
  ASSUME Inv, NEW c \in Creators \cup {None}, NewDrama(c)
  PROVE  Inv'
<1>1. PICK m \in BOOLEAN, s \in BOOLEAN :
        drama' = [drama EXCEPT !.status = "draft", !.creator = c, !.material = m, !.scheduled = s]
  BY DEF NewDrama
<1>2. /\ drama = NoDrama("absent") /\ sold = {}
      /\ \A q \in Slots : calls[q] = NoCall
      /\ \A k \in Contracts : contracts[k] = None
      /\ UNCHANGED <<eps, sold, contracts, calls, task, overlap, history>>
  BY DEF NewDrama, Inv, EmptyBefore
<1>3. /\ drama' \in Drama /\ drama'.status = "draft"
      /\ drama'.audit = "pending" /\ drama'.content = "pending" /\ drama'.video = "pending"
  BY <1>1, <1>2 DEF NoDrama, Drama, DramaStatuses, AuditStatuses
<1>4. TypeOK'
  BY <1>2, <1>3 DEF Inv, TypeOK
<1>5. CallsFit' /\ EmptyBefore'
  BY <1>2, <1>3 DEF CallsFit, EmptyBefore
<1>6. StatusFollowsVerdict'
  BY <1>3 DEF StatusFollowsVerdict, DerivedAudit, StatusFollowsAudit, OnAirApproved, Derive
<1>7. DraftUnsold' /\ SoldKept'
  BY <1>2 DEF DraftUnsold, SoldKept
<1>8. OnePerCreator'
  BY <1>2, NoneAssumption DEF OnePerCreator, ContractsOf
<1>. QED BY <1>4, <1>5, <1>6, <1>7, <1>8 DEF Inv

-----------------------------------------------------------------------------
(* Steps that overtake the calls in flight.                                *)

LEMMA TouchedFit ==
  ASSUME Inv, DramaTouched \/ \E q \in Slots : Return(q)
  PROVE  CallsFit' /\ calls' \in [Slots -> Call \cup {NoCall}]
<1>1. ASSUME NEW p \in Slots
      PROVE  \/ calls'[p] = NoCall
             \/ calls[p] # NoCall /\ calls'[p] = [calls[p] EXCEPT !.fresh = FALSE]
  BY DEF DramaTouched, Return, Touched
<1>2. ASSUME NEW p \in Slots, calls[p] # NoCall
      PROVE  /\ calls[p] \in Call
             /\ [calls[p] EXCEPT !.fresh = FALSE] \in Call
  BY <1>2 DEF Inv, TypeOK, Call
<1>3. calls' \in [Slots -> Call \cup {NoCall}]
  <2>1. calls' = [p \in Slots |-> calls'[p]]
    BY DEF DramaTouched, Return, Touched
  <2>. QED BY <1>1, <1>2, <2>1
<1>4. CallsFit'
  <2>. SUFFICES ASSUME NEW p \in Slots, (calls[p] # NoCall)' PROVE Fits(calls[p])'
    BY DEF CallsFit
  <2>1. calls[p] # NoCall /\ calls'[p] = [calls[p] EXCEPT !.fresh = FALSE]
    BY <1>1
  <2>2. /\ calls'[p].op = calls[p].op /\ calls'[p].set = calls[p].set
        /\ calls'[p].creator = calls[p].creator /\ calls'[p].on = calls[p].on
        /\ calls'[p].fresh = FALSE
    BY <1>2, <2>1 DEF Call
  <2>3. Writes(calls[p])
    BY <2>1 DEF Inv, CallsFit, Fits
  <2>. QED BY <2>2, <2>3 DEF Fits, Writes
<1>. QED BY <1>3, <1>4

(* The row after the write of a call.                                      *)
LEMMA WrittenRow ==
  ASSUME Inv, NEW set \in Update, drama' = Written(set)
  PROVE  /\ drama' \in Drama
         /\ Exists' <=> Exists
         /\ drama'.status = IF Exists THEN Set(drama.status, set.status) ELSE drama.status
         /\ Exists => /\ drama'.audit = Set(drama.audit, set.audit)
                      /\ drama'.content = Set(drama.content, set.content)
                      /\ drama'.video = Set(drama.video, set.video)
<1>1. /\ Exists => Set(drama.status, set.status) \in DramaStatuses
      /\ Set(drama.audit, set.audit) \in AuditStatuses
      /\ Set(drama.content, set.content) \in AuditStatuses
      /\ Set(drama.video, set.video) \in AuditStatuses
  BY DEF Set, Update, Inv, TypeOK, Drama, Exists
<1>2. CASE Exists
  BY <1>1, <1>2 DEF Written, Inv, TypeOK, Drama, Exists
<1>3. CASE ~Exists
  BY <1>3 DEF Written, Inv, TypeOK, Exists
<1>. QED BY <1>2, <1>3

(* Nothing is in flight before the drama is created.                       *)
LEMMA CallsNeedDrama ==
  ASSUME Inv, NEW q \in Slots, calls[q] # NoCall
  PROVE  /\ drama.status # "absent"
         /\ calls[q] \in Call /\ Fits(calls[q])
BY DEF Inv, EmptyBefore, CallsFit, TypeOK

LEMMA OfflineStep ==
  ASSUME Inv, creatorOfflineDrama \/ adminOfflineDrama
  PROVE  Inv'
<1>1. /\ Exists /\ drama' = [drama EXCEPT !.status = "offline"] /\ DramaTouched
      /\ history' = [history EXCEPT !.direct = FALSE]
      /\ UNCHANGED <<eps, sold, contracts, task, overlap>>
  BY DEF creatorOfflineDrama, adminOfflineDrama, Owned
<1>2. /\ drama' \in Drama /\ drama'.status = "offline" /\ Exists'
      /\ drama'.audit = drama.audit /\ drama'.content = drama.content /\ drama'.video = drama.video
  BY <1>1 DEF Inv, TypeOK, Drama, DramaStatuses, Exists
<1>3. /\ history' \in History /\ history'.turnedDown = history.turnedDown
      /\ history'.removed = history.removed
  BY <1>1 DEF Inv, TypeOK, History
<1>4. TypeOK' /\ CallsFit'
  BY <1>1, <1>2, <1>3, TouchedFit DEF Inv, TypeOK
<1>5. EmptyBefore' /\ DraftUnsold'
  BY <1>2 DEF EmptyBefore, DraftUnsold
<1>6. StatusFollowsVerdict'
  BY <1>1, <1>2 DEF Inv, StatusFollowsVerdict, DerivedAudit, StatusFollowsAudit, OnAirApproved
<1>7. SoldKept'
  BY <1>1, <1>3 DEF Inv, SoldKept, Present
<1>8. OnePerCreator'
  BY <1>1 DEF Inv, OnePerCreator, ContractsOf
<1>. QED BY <1>4, <1>5, <1>6, <1>7, <1>8 DEF Inv

LEMMA DeleteStep ==
  ASSUME Inv, adminDeleteDrama \/ \E q \in Slots : calls[q] # NoCall /\ WriteDelete(q)
  PROVE  Inv'
<1>1. /\ drama' = NoDrama("deleted") /\ eps' = [e \in Eps |-> "none"]
      /\ \/ history' = [history EXCEPT !.direct = FALSE]
         \/ \E q \in Slots : history' = [history EXCEPT !.direct = FALSE,
                                                      !.removed = @ \cup LateLoss(q, Eps)]
      /\ UNCHANGED <<contracts, task>>
      /\ DramaTouched \/ \E q \in Slots : Return(q)
      /\ sold' = {} \/ sold' = sold
      /\ overlap' \in BOOLEAN
  BY DEF adminDeleteDrama, WriteDelete, Return, Inv, TypeOK, Call
<1>2. drama' \in Drama /\ drama'.status = "deleted" /\ ~Exists'
  BY <1>1 DEF NoDrama, Drama, DramaStatuses, AuditStatuses, Exists
<1>3. /\ history' \in History /\ history'.turnedDown = history.turnedDown
  BY <1>1 DEF Inv, TypeOK, History, LateLoss
<1>4. TypeOK' /\ CallsFit'
  BY <1>1, <1>2, <1>3, TouchedFit DEF Inv, TypeOK
<1>5. EmptyBefore' /\ DraftUnsold' /\ StatusFollowsVerdict' /\ OnePerCreator'
  BY <1>2 DEF EmptyBefore, DraftUnsold, StatusFollowsVerdict, DerivedAudit, StatusFollowsAudit,
     OnAirApproved, OnePerCreator
<1>6. SoldKept'
  <2>1. CASE adminDeleteDrama
    BY <2>1 DEF adminDeleteDrama, SoldKept
  <2>2. ASSUME NEW q \in Slots, calls[q] # NoCall, WriteDelete(q) PROVE SoldKept'
    <3>1. CASE calls[q].fresh /\ ~history.turnedDown
      <4>1. drama.status = "draft"
        BY <2>2, <3>1, CallsNeedDrama DEF WriteDelete, Fits, StillTrue
      <4>2. sold' = {}
        BY <2>2, <3>1, <4>1 DEF WriteDelete, Inv, DraftUnsold
      <4>. QED BY <4>2 DEF SoldKept
    <3>2. CASE ~calls[q].fresh
      <4>1. sold' \subseteq history'.removed
        BY <2>2, <3>2 DEF WriteDelete, LateLoss, Inv, TypeOK, History
      <4>. QED BY <4>1 DEF SoldKept
    <3>3. CASE history.turnedDown
      BY <1>3, <3>3 DEF SoldKept
    <3>. QED BY <3>1, <3>2, <3>3
  <2>. QED BY <2>1, <2>2
<1>. QED BY <1>4, <1>5, <1>6 DEF Inv

LEMMA DeleteEpisodeStep ==
  ASSUME Inv, NEW q \in Slots, calls[q] # NoCall, WriteDeleteEpisode(q)
  PROVE  Inv'
<1>1. /\ eps' = [eps EXCEPT ![calls[q].on] = "none"] /\ Return(q)
      /\ UNCHANGED <<drama, sold, contracts, task>>
      /\ history' = [history EXCEPT !.removed = @ \cup LateLoss(q, {calls[q].on})]
      /\ overlap' = (overlap \/ ~calls[q].fresh)
  BY DEF WriteDeleteEpisode, Return
<1>2. drama.status # "absent" /\ calls[q] \in Call
      /\ (calls[q].fresh => drama.status = "draft")
  BY CallsNeedDrama DEF WriteDeleteEpisode, Fits, StillTrue
<1>3. /\ history' \in History /\ history'.turnedDown = history.turnedDown
      /\ history'.direct = history.direct /\ history.removed \subseteq history'.removed
      /\ ~calls[q].fresh /\ calls[q].on \in sold => calls[q].on \in history'.removed
  BY <1>1 DEF Inv, TypeOK, History, LateLoss
<1>4. TypeOK' /\ CallsFit'
  BY <1>1, <1>2, <1>3, TouchedFit DEF Inv, TypeOK, Call
<1>5. EmptyBefore' /\ DraftUnsold' /\ OnePerCreator'
  BY <1>1, <1>2, <1>3 DEF Inv, EmptyBefore, DraftUnsold, OnePerCreator, Exists, ContractsOf
<1>6. StatusFollowsVerdict'
  BY <1>1, <1>3 DEF Inv, StatusFollowsVerdict, DerivedAudit, StatusFollowsAudit, OnAirApproved,
     Exists
<1>7. SoldKept'
  <2>1. Present \subseteq Present' \cup {calls[q].on}
    BY <1>1 DEF Inv, TypeOK, Present
  <2>2. CASE calls[q].on \notin sold
    BY <1>1, <1>3, <2>1, <2>2 DEF Inv, SoldKept
  <2>3. CASE calls[q].on \in sold /\ ~calls[q].fresh
    BY <1>1, <1>3, <2>1, <2>3 DEF Inv, SoldKept
  <2>4. CASE calls[q].on \in sold /\ calls[q].fresh
    BY <1>2, <1>3, <2>4 DEF Inv, SoldKept, DraftUnsold
  <2>. QED BY <2>2, <2>3, <2>4
<1>. QED BY <1>4, <1>5, <1>6, <1>7 DEF Inv

LEMMA DueStep ==
  ASSUME Inv, WriteDue
  PROVE  Inv'
<1>1. CASE UNCHANGED <<drama, calls>>
  <2>1. task' = FALSE /\ UNCHANGED <<eps, sold, contracts, overlap, history>>
    BY DEF WriteDue
  <2>2. TypeOK' /\ SoldKept'
    BY <1>1, <2>1 DEF Inv, TypeOK, SoldKept, Present
  <2>. QED BY <1>1, <2>1, <2>2, QuietStep DEF SameColumns
<1>2. CASE ~UNCHANGED <<drama, calls>>
  <2>1. /\ drama.status = "awaiting_publish" /\ drama' = [drama EXCEPT !.status = "published"]
        /\ DramaTouched /\ task' = FALSE
        /\ UNCHANGED <<eps, sold, contracts, overlap, history>>
    BY <1>2 DEF WriteDue, StillAwaiting
  <2>2. /\ drama' \in Drama /\ drama'.status = "published" /\ Exists
        /\ drama'.audit = drama.audit /\ drama'.content = drama.content /\ drama'.video = drama.video
    BY <2>1 DEF Inv, TypeOK, Drama, DramaStatuses, Exists
  <2>3. TypeOK' /\ CallsFit'
    BY <2>1, <2>2, TouchedFit DEF Inv, TypeOK
  <2>4. EmptyBefore' /\ DraftUnsold'
    BY <2>2 DEF EmptyBefore, DraftUnsold
  <2>5. StatusFollowsVerdict'
    BY <2>1, <2>2 DEF Inv, StatusFollowsVerdict, DerivedAudit, StatusFollowsAudit, OnAirApproved
  <2>6. SoldKept' /\ OnePerCreator'
    BY <2>1, <2>2 DEF Inv, SoldKept, Present, OnePerCreator, ContractsOf
  <2>. QED BY <2>3, <2>4, <2>5, <2>6 DEF Inv
<1>. QED BY <1>1, <1>2

(* A submission counts contracts behind the row it has written, so it adds *)
(* one only if its creator has none.                                       *)
LEMMA SubmitStep ==
  ASSUME Inv, NEW q \in Slots, calls[q] # NoCall, WriteSubmit(q)
  PROVE  Inv'
<1>1. /\ calls[q] \in Call /\ drama.status # "absent"
      /\ calls[q].set = [AllAudits("pending") EXCEPT !.status = "reviewing"]
      /\ calls[q].creator \in Creators
      /\ drama' = Written(calls[q].set)
      /\ Return(q) /\ overlap' = (overlap \/ ~calls[q].fresh)
      /\ history' = [history EXCEPT !.direct = StillDirect(drama')]
      /\ UNCHANGED <<eps, sold, task>>
  BY CallsNeedDrama DEF WriteSubmit, Fits, Writes, Return
<1>2. /\ calls[q].set \in Update /\ calls[q].fresh \in BOOLEAN
      /\ calls[q].set.status = "reviewing" /\ calls[q].set.audit = "pending"
      /\ calls[q].set.content = "pending" /\ calls[q].set.video = "pending"
  BY <1>1 DEF Call, AllAudits
<1>3. /\ drama' \in Drama /\ (Exists' <=> Exists)
      /\ drama'.status = IF Exists THEN "reviewing" ELSE drama.status
      /\ Exists => drama'.audit = "pending" /\ drama'.content = "pending" /\ drama'.video = "pending"
  BY <1>1, <1>2, WrittenRow DEF Set, Keep
<1>4. /\ history' \in History /\ history'.turnedDown = history.turnedDown
      /\ history'.removed = history.removed
  BY <1>1 DEF Inv, TypeOK, History, StillDirect
<1>5. contracts' \in [Contracts -> Creators \cup {None}]
  BY <1>1 DEF WriteSubmit, NewContract, Inv, TypeOK
<1>6. TypeOK' /\ CallsFit'
  BY <1>1, <1>2, <1>3, <1>4, <1>5, TouchedFit DEF Inv, TypeOK
<1>7. EmptyBefore'
  BY <1>1, <1>3 DEF EmptyBefore
<1>8. DraftUnsold' /\ SoldKept'
  BY <1>1, <1>3, <1>4 DEF Inv, DraftUnsold, SoldKept, Present, Exists, DramaStatuses
<1>9. StatusFollowsVerdict'
  BY <1>3 DEF StatusFollowsVerdict, DerivedAudit, StatusFollowsAudit, OnAirApproved, Derive,
     Exists, DramaStatuses
<1>10. OnePerCreator'
  <2>. SUFFICES ASSUME Exists, NEW c \in Creators, NEW k \in ContractsOf(c)', NEW l \in ContractsOf(c)'
                PROVE  k = l
    BY <1>3 DEF OnePerCreator
  <2>1. CASE UNCHANGED contracts
    BY <2>1 DEF Inv, OnePerCreator, ContractsOf
  <2>2. CASE \E n \in Contracts : (Exists => NeedsContract(calls[q].creator)) /\ NewContract(n, calls[q].creator)
    <3>1. PICK n \in Contracts : NeedsContract(calls[q].creator) /\ NewContract(n, calls[q].creator)
      BY <2>2
    <3>2. /\ \A x \in Contracts \ {n} : contracts'[x] = contracts[x]
          /\ contracts'[n] = calls[q].creator
      BY <3>1 DEF NewContract, Inv, TypeOK
    <3>3. CASE c = calls[q].creator
      BY <3>1, <3>2, <3>3 DEF NeedsContract, ContractsOf
    <3>4. CASE c # calls[q].creator
      BY <3>2, <3>4 DEF Inv, OnePerCreator, ContractsOf
    <3>. QED BY <3>3, <3>4
  <2>. QED BY <2>1, <2>2 DEF WriteSubmit
<1>. QED BY <1>6, <1>7, <1>8, <1>9, <1>10 DEF Inv

LEMMA PublishStep ==
  ASSUME Inv, NEW q \in Slots, calls[q] # NoCall, WritePublish(q)
  PROVE  Inv'
<1>1. /\ calls[q] \in Call /\ drama.status # "absent"
      /\ calls[q].set = StatusOnly("published") /\ calls[q].op \in Publishing
      /\ drama' = Written(calls[q].set)
      /\ Return(q) /\ overlap' = (overlap \/ ~calls[q].fresh)
      /\ history' = [history EXCEPT !.direct = calls[q].op = "adminPublish" /\ drama.audit # "approved"]
      /\ UNCHANGED <<eps, sold, contracts, task>>
      /\ calls[q].fresh => StillTrue(calls[q])
  BY CallsNeedDrama DEF WritePublish, Fits, Writes, Return
<1>2. /\ calls[q].set \in Update /\ calls[q].fresh \in BOOLEAN
      /\ calls[q].set.status = "published" /\ calls[q].set.audit = Keep
      /\ calls[q].set.content = Keep /\ calls[q].set.video = Keep
  BY <1>1 DEF Call, StatusOnly, Nothing
<1>3. /\ drama' \in Drama /\ (Exists' <=> Exists)
      /\ drama'.status = IF Exists THEN "published" ELSE drama.status
      /\ Exists => /\ drama'.audit = drama.audit /\ drama'.content = drama.content
                   /\ drama'.video = drama.video
  BY <1>1, <1>2, WrittenRow DEF Set, Keep
<1>4. /\ history' \in History /\ history'.turnedDown = history.turnedDown
      /\ history'.removed = history.removed
      /\ history'.direct = (calls[q].op = "adminPublish" /\ drama.audit # "approved")
  BY <1>1 DEF Inv, TypeOK, History
<1>5. TypeOK' /\ CallsFit'
  BY <1>1, <1>2, <1>3, <1>4, TouchedFit DEF Inv, TypeOK
<1>6. EmptyBefore'
  BY <1>1, <1>3 DEF EmptyBefore
<1>7. DraftUnsold' /\ SoldKept' /\ OnePerCreator'
  <2>1. DraftUnsold'
    BY <1>3 DEF DraftUnsold, Exists, DramaStatuses
  <2>2. SoldKept'
    BY <1>1, <1>4 DEF Inv, SoldKept, Present
  <2>3. OnePerCreator'
    BY <1>1, <1>3 DEF Inv, OnePerCreator, ContractsOf
  <2>. QED BY <2>1, <2>2, <2>3
<1>8. StatusFollowsVerdict'
  <2>. SUFFICES ASSUME ~overlap, calls[q].fresh, Exists PROVE StatusFollowsVerdict'
    BY <1>1, <1>3 DEF Inv, StatusFollowsVerdict, DerivedAudit, StatusFollowsAudit, OnAirApproved,
       Exists, DramaStatuses
  <2>1. calls[q].op = "publish" => drama.audit = "approved"
    BY <1>1 DEF StillTrue
  <2>. QED BY <1>1, <1>3, <1>4, <2>1 DEF Inv, StatusFollowsVerdict, DerivedAudit,
              StatusFollowsAudit,
              OnAirApproved, Publishing
<1>. QED BY <1>5, <1>6, <1>7, <1>8 DEF Inv

(* A verdict that was not overtaken leaves verdicts and status in one      *)
(* story.                                                                  *)
LEMMA FreshVerdict ==
  ASSUME Inv, ~overlap, Exists, NEW q \in Slots, calls[q].op \in Verdicts, calls[q] \in Call,
         StillTrue(calls[q]), drama' = Written(calls[q].set),
         history'.direct = StillDirect(drama')
  PROVE  StatusFollowsVerdict'
<1>. DEFINE set == calls[q].set
<1>1. /\ drama'.status = Set(drama.status, set.status)
      /\ drama'.audit = Set(drama.audit, set.audit)
      /\ drama'.content = Set(drama.content, set.content)
      /\ drama'.video = Set(drama.video, set.video)
  BY WrittenRow DEF Call
<1>2. /\ drama.audit = Derive(drama.content, drama.video)
      /\ drama.status \in DramaStatuses
      /\ drama.content \in AuditStatuses /\ drama.video \in AuditStatuses
      /\ StatusFollowsAudit /\ OnAirApproved
  BY DEF Inv, TypeOK, StatusFollowsVerdict, DerivedAudit, Exists, Drama
<1>3. CASE calls[q].op = "reject"
  <2>1. set = [AllAudits("rejected") EXCEPT !.status = AfterRejection(drama.status)]
    BY <1>3 DEF StillTrue
  <2>2. /\ drama'.audit = "rejected" /\ drama'.content = "rejected" /\ drama'.video = "rejected"
        /\ drama'.status \in {"draft", "offline"}
    BY <1>1, <1>2, <2>1 DEF AllAudits, AfterRejection, Set, Keep, DramaStatuses
  <2>. QED BY <2>2 DEF StatusFollowsVerdict, DerivedAudit, StatusFollowsAudit, OnAirApproved, Derive
<1>4. CASE calls[q].op = "approve"
  <2>1. set = [AllAudits("approved") EXCEPT !.status = AfterApproval(drama.status)]
    BY <1>4 DEF StillTrue
  <2>2. /\ drama'.audit = "approved" /\ drama'.content = "approved" /\ drama'.video = "approved"
        /\ drama'.status \in {"awaiting_publish", "published"}
    BY <1>1, <1>2, <2>1 DEF AllAudits, AfterApproval, Set, Keep, DramaStatuses
  <2>. QED BY <2>2 DEF StatusFollowsVerdict, DerivedAudit, StatusFollowsAudit, OnAirApproved, Derive
<1>5. CASE calls[q].op = "sendback"
  <2>1. set = [AllAudits("rejected") EXCEPT !.status = "draft"]
    BY <1>5 DEF StillTrue
  <2>2. /\ drama'.audit = "rejected" /\ drama'.content = "rejected" /\ drama'.video = "rejected"
        /\ drama'.status = "draft"
    BY <1>1, <2>1 DEF AllAudits, Set, Keep
  <2>. QED BY <2>2 DEF StatusFollowsVerdict, DerivedAudit, StatusFollowsAudit, OnAirApproved, Derive
<1>6. CASE calls[q].op = "audit"
  <2>1. PICK s \in {"approved", "rejected"} :
           \/ set = [recomputeDramaAuditTx(s, drama.video) EXCEPT !.content = s]
           \/ set = [recomputeDramaAuditTx(drama.content, s) EXCEPT !.video = s]
    BY <1>6 DEF StillTrue
  <2>2. PICK c \in AuditStatuses, v \in AuditStatuses :
           /\ (c = s /\ v = drama.video) \/ (c = drama.content /\ v = s)
           /\ drama'.content = c /\ drama'.video = v
           /\ set.audit = Derive(c, v)
           /\ set.status = recomputeDramaAuditTx(c, v).status
    <3>1. CASE set = [recomputeDramaAuditTx(s, drama.video) EXCEPT !.content = s]
      <4>1. /\ set.content = s /\ set.video = Keep
            /\ set.audit = Derive(s, drama.video)
            /\ set.status = recomputeDramaAuditTx(s, drama.video).status
        BY <3>1 DEF recomputeDramaAuditTx, Nothing
      <4>2. drama'.content = s /\ drama'.video = drama.video /\ s \in AuditStatuses
        BY <1>1, <4>1 DEF Set, Keep, AuditStatuses
      <4>. QED BY <1>2, <4>1, <4>2
    <3>2. CASE set = [recomputeDramaAuditTx(drama.content, s) EXCEPT !.video = s]
      <4>1. /\ set.video = s /\ set.content = Keep
            /\ set.audit = Derive(drama.content, s)
            /\ set.status = recomputeDramaAuditTx(drama.content, s).status
        BY <3>2 DEF recomputeDramaAuditTx, Nothing
      <4>2. drama'.video = s /\ drama'.content = drama.content /\ s \in AuditStatuses
        BY <1>1, <4>1 DEF Set, Keep, AuditStatuses
      <4>. QED BY <1>2, <4>1, <4>2
    <3>. QED BY <2>1, <3>1, <3>2
  <2>3. drama'.audit = Derive(c, v) /\ Derive(c, v) \in AuditStatuses
    BY <1>1, <2>2 DEF Set, Keep, Derive, AuditStatuses
  <2>4. CASE Derive(c, v) = "approved"
    <3>1. set.status = AfterApproval(drama.status)
      BY <2>2, <2>4 DEF recomputeDramaAuditTx, Nothing
    <3>2. drama'.status \in {"awaiting_publish", "published"}
      BY <1>1, <1>2, <3>1 DEF AfterApproval, Set, Keep, DramaStatuses
    <3>. QED BY <2>2, <2>3, <2>4, <3>2 DEF StatusFollowsVerdict, DerivedAudit, StatusFollowsAudit,
                OnAirApproved
  <2>5. CASE Derive(c, v) = "rejected"
    <3>1. set.status = AfterRejection(drama.status)
      BY <2>2, <2>5 DEF recomputeDramaAuditTx, Nothing
    <3>2. drama'.status \in {"draft", "offline"}
      BY <1>1, <1>2, <3>1 DEF AfterRejection, Set, Keep, DramaStatuses
    <3>. QED BY <2>2, <2>3, <2>5, <3>2 DEF StatusFollowsVerdict, DerivedAudit, StatusFollowsAudit,
                OnAirApproved
  <2>6. CASE Derive(c, v) = "pending"
    <3>1. drama'.status = drama.status
      BY <1>1, <2>2, <2>6 DEF recomputeDramaAuditTx, Nothing, Set
    <3>2. drama.audit # "approved"
      BY <1>2, <2>2, <2>6 DEF Derive, AuditStatuses
    <3>. QED BY <1>2, <2>2, <2>3, <2>6, <3>1, <3>2 DEF StatusFollowsVerdict, DerivedAudit,
                StatusFollowsAudit, OnAirApproved, StillDirect
  <2>. QED BY <2>3, <2>4, <2>5, <2>6 DEF AuditStatuses
<1>. QED BY <1>3, <1>4, <1>5, <1>6 DEF Verdicts

LEMMA VerdictStep ==
  ASSUME Inv, NEW q \in Slots, calls[q] # NoCall, WriteVerdict(q)
  PROVE  Inv'
<1>1. /\ calls[q] \in Call /\ drama.status # "absent" /\ calls[q].op \in Verdicts
      /\ calls[q].set.status # "published"
      /\ calls[q].set.status = "draft" => calls[q].set.audit = "rejected"
      /\ drama' = Written(calls[q].set)
      /\ Return(q) /\ overlap' = (overlap \/ ~calls[q].fresh)
      /\ history' = [history EXCEPT !.direct = StillDirect(drama'),
                                    !.turnedDown = @ \/ (calls[q].set.audit = "rejected" /\ sold # {})]
      /\ UNCHANGED <<eps, sold, contracts, task>>
      /\ calls[q].fresh => StillTrue(calls[q])
  BY CallsNeedDrama DEF WriteVerdict, Fits, Writes, Return
<1>2. calls[q].set \in Update /\ calls[q].fresh \in BOOLEAN
  BY <1>1 DEF Call
<1>3. /\ drama' \in Drama /\ (Exists' <=> Exists)
      /\ drama'.status = IF Exists THEN Set(drama.status, calls[q].set.status) ELSE drama.status
  BY <1>1, <1>2, WrittenRow
<1>4. /\ history' \in History
      /\ history'.turnedDown = (history.turnedDown \/ (calls[q].set.audit = "rejected" /\ sold # {}))
      /\ history'.removed = history.removed
      /\ history'.direct = StillDirect(drama')
  BY <1>1 DEF Inv, TypeOK, History, StillDirect
<1>5. TypeOK' /\ CallsFit'
  BY <1>1, <1>2, <1>3, <1>4, TouchedFit DEF Inv, TypeOK
<1>6. EmptyBefore'
  BY <1>1, <1>3 DEF EmptyBefore, Exists, DramaStatuses
<1>7. DraftUnsold'
  BY <1>1, <1>3, <1>4 DEF Inv, DraftUnsold, Set
<1>8. SoldKept'
  BY <1>1, <1>4 DEF Inv, SoldKept, Present
<1>9. OnePerCreator'
  BY <1>1, <1>3 DEF Inv, OnePerCreator, ContractsOf
<1>10. StatusFollowsVerdict'
  <2>1. CASE ~overlap /\ calls[q].fresh /\ Exists
    BY <1>1, <1>4, <2>1, FreshVerdict
  <2>2. CASE overlap \/ ~calls[q].fresh
    BY <1>1, <2>2 DEF StatusFollowsVerdict, DerivedAudit, StatusFollowsAudit, OnAirApproved
  <2>3. CASE ~Exists
    BY <1>3, <2>3 DEF StatusFollowsVerdict, DerivedAudit, StatusFollowsAudit, OnAirApproved,
       Exists, DramaStatuses
  <2>. QED BY <2>1, <2>2, <2>3
<1>. QED BY <1>5, <1>6, <1>7, <1>8, <1>9, <1>10 DEF Inv

-----------------------------------------------------------------------------
LEMMA InvNext == Inv /\ [Next]_vars => Inv'
<1>. SUFFICES ASSUME Inv, [Next]_vars PROVE Inv'
  OBVIOUS
<1>1. CASE CreatorStep
  BY <1>1, CreateStep, EditsStep, OfflineStep, Readers DEF CreatorStep, creatorCreateDrama
<1>2. CASE StaffStep
  <2>1. CASE adminCreateDrama
    BY <2>1, CreateStep, NoneAssumption DEF adminCreateDrama
  <2>2. CASE adminUpdateDrama \/ adminOfflineDrama \/ adminDeleteDrama
    BY <2>2, EditsStep, OfflineStep, DeleteStep
  <2>3. CASE \E e \in Eps : adminDeleteEpisode(e)
    BY <2>3, EpisodesStep
  <2>4. ASSUME NEW q \in Slots,
               \/ adminPublishDrama(q) \/ adminRejectDrama(q) \/ adminApproveDrama(q)
               \/ adminSendbackDrama(q) \/ adminAuditDrama(q)
        PROVE  Inv'
    BY <2>4, Readers
  <2>. QED BY <1>2, <2>1, <2>2, <2>3, <2>4 DEF StaffStep
<1>3. CASE WriteStep
  BY <1>3, EditsStep, SubmitStep, DeleteStep, DeleteEpisodeStep, VerdictStep, PublishStep
     DEF WriteStep
<1>4. CASE TaskStep \/ UNCHANGED vars
  BY <1>4, DueReadStep, DueStep DEF TaskStep
<1>5. CASE ViewerStep
  BY <1>5, EpisodesStep DEF ViewerStep
<1>. QED BY <1>1, <1>2, <1>3, <1>4, <1>5 DEF Next

LEMMA Invariance == Spec => []Inv
  BY InvInit, InvNext, PTL DEF Spec

-----------------------------------------------------------------------------
(* The drama, its episodes, contracts and the calls in flight are always   *)
(* well formed, whatever crosses (admin_drama.go, creator_drama.go).       *)
THEOREM TypeCorrect == Spec => []TypeOK
<1>1. Inv => TypeOK
  BY DEF Inv
<1>. QED BY <1>1, Invariance, PTL

(* Verdicts, status and publication tell one story as long as no call      *)
(* writes what it decided from an old copy, for any number of calls under  *)
(* way (recomputeDramaAuditTx and the calls that move the status).         *)
THEOREM OneStory == Spec => []StatusFollowsVerdict
<1>1. Inv => StatusFollowsVerdict
  BY DEF Inv
<1>. QED BY <1>1, Invariance, PTL

(* However the calls cross, what viewers bought is not deleted by the      *)
(* drama's creator (creatorDeleteDrama, creatorDeleteEpisode), except by a *)
(* deletion that itself writes on a drama changed since it read it, or of  *)
(* a drama that the staff turned down after it had sold.                   *)
THEOREM SoldStays == Spec => []SoldKept
<1>1. Inv => SoldKept
  BY DEF Inv
<1>. QED BY <1>1, Invariance, PTL

(* However many submissions cross, a creator has one generated contract    *)
(* for a drama that is not deleted (creatorSubmitDrama).                   *)
THEOREM ContractOnce == Spec => []OneContract
<1>1. Inv => OneContract
  <2>. SUFFICES ASSUME Inv, Exists, NEW c \in Creators PROVE Cardinality(ContractsOf(c)) <= 1
    BY DEF OneContract
  <2>1. CASE ContractsOf(c) = {}
    BY <2>1, FS_EmptySet
  <2>2. ASSUME NEW k \in ContractsOf(c) PROVE Cardinality(ContractsOf(c)) <= 1
    <3>1. ContractsOf(c) = {k}
      BY <2>2 DEF Inv, OnePerCreator
    <3>2. Cardinality({k}) = 1
      BY FS_Singleton
    <3>. QED BY <3>1, <3>2
  <2>. QED BY <2>1, <2>2
<1>. QED BY <1>1, Invariance, PTL

(* Only a call that publishes puts a drama that was taken down back on     *)
(* air; the schedule task that had found it due does not (publishDue).     *)
THEOREM TakedownStays == Spec => TakedownHolds
<1>1. ASSUME Inv, [Next]_vars, drama.status = "offline", drama'.status = "published"
      PROVE  \E q \in Slots : calls[q].op \in Publishing /\ calls'[q] = NoCall
  <2>. USE <1>1
  <2>1. drama' # drama
    OBVIOUS
  <2>2. ~(creatorCreateDrama \/ adminCreateDrama \/ creatorOfflineDrama \/ adminOfflineDrama
          \/ adminDeleteDrama \/ TaskStep)
    BY DEF creatorCreateDrama, adminCreateDrama, NewDrama, creatorOfflineDrama, adminOfflineDrama,
       adminDeleteDrama, NoDrama, TaskStep, publishDue, WriteDue, StillAwaiting, Inv, TypeOK, Drama
  <2>3. ~(creatorUpdateDramaPublishConfig \/ adminUpdateDrama)
    BY DEF creatorUpdateDramaPublishConfig, adminUpdateDrama, Inv, TypeOK, Drama
  <2>4. PICK q \in Slots :
           /\ calls[q] # NoCall
           /\ \/ WriteEdit(q) \/ WriteSubmit(q) \/ WriteDelete(q) \/ WriteDeleteEpisode(q)
              \/ WriteVerdict(q) \/ WritePublish(q)
    BY <2>1, <2>2, <2>3 DEF Next, vars, CreatorStep, StaffStep, WriteStep, ViewerStep, Read,
       creatorUpdateDrama, creatorSubmitDrama, creatorPublishDrama, creatorDeleteDrama,
       creatorDeleteEpisode, adminPublishDrama, adminRejectDrama, adminApproveDrama,
       adminSendbackDrama, adminAuditDrama, adminDeleteEpisode, EpisodeCreated, Sell, EpisodeStatus
  <2>5. calls[q] \in Call /\ Fits(calls[q])
    BY <2>4, CallsNeedDrama
  <2>6. ~(WriteEdit(q) \/ WriteDelete(q) \/ WriteDeleteEpisode(q))
    <3>1. WriteEdit(q) => drama'.status = drama.status
      BY DEF WriteEdit, Inv, TypeOK, Drama
    <3>2. WriteDelete(q) => drama'.status = "deleted"
      BY DEF WriteDelete, NoDrama
    <3>3. WriteDeleteEpisode(q) => drama' = drama
      BY DEF WriteDeleteEpisode
    <3>. QED BY <2>1, <3>1, <3>2, <3>3
  <2>7. ~(WriteSubmit(q) \/ WriteVerdict(q))
    <3>1. ASSUME NEW set \in Update, set.status # "published", drama' = Written(set)
          PROVE  FALSE
      BY <3>1, WrittenRow DEF Set
    <3>2. (WriteSubmit(q) \/ WriteVerdict(q)) => calls[q].set.status # "published"
      BY <2>5 DEF WriteSubmit, WriteVerdict, Fits, Writes, AllAudits
    <3>. QED BY <2>5, <3>1, <3>2 DEF WriteSubmit, WriteVerdict, Call
  <2>8. WritePublish(q)
    BY <2>4, <2>6, <2>7
  <2>. QED BY <2>8 DEF WritePublish, Return, Touched
<1>2. Inv /\ [Next]_vars =>
         [drama.status = "offline" /\ drama'.status = "published" =>
             \E q \in Slots : calls[q].op \in Publishing /\ calls'[q] = NoCall]_vars
  BY <1>1
<1>. QED BY <1>2, Invariance, PTL DEF Spec, TakedownHolds

=============================================================================
