------------------------------ MODULE Episodes ------------------------------
(***************************************************************************)
(* The episodes of one drama and their video files.  A file is uploaded    *)
(* from the browser straight to the video service (VOD), which transcodes  *)
(* it and reports by callbacks; the code finds the episodes of a callback  *)
(* by the file's id.  Because callbacks get lost, opening a list or a      *)
(* preview starts a background lookup, and a refresh button does the same  *)
(* in the foreground.                                                      *)
(*                                                                         *)
(* A lookup reads the row, asks the service and writes what it learnt by   *)
(* the row's id; an edit reads the row, checks the result and writes;      *)
(* nothing is locked, so each is several steps.  fresh is dropped when     *)
(* what the call read (the row, or the drama's status) changes under it,   *)
(* and crossed remembers that such a call wrote.                           *)
(***************************************************************************)
EXTENDS Naturals, FiniteSets

CONSTANTS Rows,       (* episode ids, never used twice                     *)
          Nos,        (* episode numbers                                   *)
          Files,      (* VOD file ids                                      *)
          Editors,    (* edits that may be in flight at a time             *)
          Lookups,    (* lookups that may be in flight at a time           *)
          Airs,       (* the statuses the drama moves between              *)
          Edits,      (* what update requests set                          *)
          Procedure,  (* VOD_PROCEDURE: uploads are transcoded             *)
          None        (* sentinel: no file, no link, no row, no call       *)

ASSUME NoneAssumption ==
    /\ None \notin Rows \cup Files \cup Editors \cup Lookups
                   \cup {"lazy", "refresh", "update", "name", "retry", "delete", "reorder",
                           "keep"}
    /\ "keep" \notin Files
    /\ Editors \cap Lookups = {}
    /\ Nos \subseteq Nat \ {0}
    /\ Procedure \in BOOLEAN
    /\ Airs \subseteq {"draft", "reviewing", "awaiting_publish", "published", "offline"}
    /\ "draft" \in Airs

VARIABLES episodes,   (* the episodes rows                                 *)
          air,        (* the status of the drama                           *)
          media,      (* what VOD holds of each file                       *)
          calls,      (* calls in flight                                   *)
          crossed,    (* history: a call wrote on what it had not read     *)
          patched     (* history: rows whose file or link was typed in     *)

vars == <<episodes, air, media, calls, crossed, patched>>

Slots == Editors \cup Lookups

(* The link stored in video_url: typed in, the uploaded file as it is, or  *)
(* the output of its transcoding.                                          *)
Links == {<<None, "none">>, <<None, "typed">>} \cup (Files \X {"original", "stream"})

NoLink == <<None, "none">>
TypedLink == <<None, "typed">>

Statuses == {"uploading", "ready", "failed"}

Episode == [no: Nos, status: Statuses, file: Files \cup {None}, url: Links]

Absent == [no |-> 0, status |-> "absent", file |-> None, url |-> NoLink]

(* A column an update leaves alone. *)
Keep == "keep"
KeepLink == <<None, "keep">>

Update == [status: Statuses \cup {Keep}, file: Files \cup {None, Keep},
           url: Links \cup {KeepLink}]

ASSUME EditsAssumption == Edits \subseteq Update

Call == [op: {"lazy", "refresh", "update", "name", "retry", "delete", "reorder"},
         row: Rows \cup {None}, set: Update \cup {None}, file: Files \cup {None},
         ready: BOOLEAN, fresh: BOOLEAN]

NoCall == [op |-> None, row |-> None, set |-> None, file |-> None,
           ready |-> FALSE, fresh |-> TRUE]

TypeOK ==
    /\ episodes \in [Rows -> Episode \cup {Absent}]
    /\ air \in Airs
    /\ media \in [Files -> {"none", "uploaded", "transcoded", "failed"}]
    /\ calls \in [Slots -> Call \cup {NoCall}]
    /\ crossed \in BOOLEAN
    /\ patched \subseteq Rows

Init ==
    /\ episodes = [e \in Rows |-> Absent]
    /\ air = "draft"
    /\ media = [f \in Files |-> "none"]
    /\ calls = [q \in Slots |-> NoCall]
    /\ crossed = FALSE
    /\ patched = {}

Live == {e \in Rows : episodes[e] # Absent}

-----------------------------------------------------------------------------
(* Calls in flight.                                                        *)

Begin(q, op, e, set) ==
    /\ calls[q] = NoCall
    /\ calls' = [calls EXCEPT ![q] =
            [op |-> op, row |-> e, set |-> set,
             file |-> IF op \in {"lazy", "refresh"} THEN episodes[e].file ELSE None,
             ready |-> op = "refresh" /\ episodes[e].status = "ready",
             fresh |-> TRUE]]
    /\ UNCHANGED <<episodes, air, media, crossed, patched>>

Stale(Reads(_)) == [q \in Slots |->
    IF calls[q] # NoCall /\ Reads(calls[q]) THEN [calls[q] EXCEPT !.fresh = FALSE]
    ELSE calls[q]]

Updates(call) == call.op \in {"update", "name"}

ReadsAir(call) == call.op \in {"retry", "delete", "reorder"}

(* The call of slot q wrote row e and is over; who had read that row is    *)
(* late.                                                                   *)
Return(q) ==
    LET Same(call) == call.row = calls[q].row
    IN  /\ calls' = [Stale(Same) EXCEPT ![q] = NoCall]
        /\ crossed' = (crossed \/ ~calls[q].fresh)

GiveUp(q) ==
    /\ calls' = [calls EXCEPT ![q] = NoCall]
    /\ UNCHANGED <<episodes, air, media, crossed, patched>>

(* UPDATE ... WHERE id. *)
Set(old, new) == IF new = Keep THEN old ELSE new

SetLink(old, new) == IF new = KeepLink THEN old ELSE new

Written(e, set) ==
    IF e \in Live
    THEN [episodes EXCEPT ![e].status = Set(@, set.status), ![e].file = Set(@, set.file),
                          ![e].url = SetLink(@, set.url)]
    ELSE episodes

-----------------------------------------------------------------------------
(* Episodes, by the creator or the staff.                                  *)

(* A new episode may name a file or a link, and its status (Keep: it does  *)
(* not); with a link it is ready at once, and ready needs one of the two.  *)
(* The unique index is on (drama, number).                                 *)
NewStatus(u, s) == IF s # Keep THEN s ELSE IF u = NoLink THEN "uploading" ELSE "ready"

NewEpisode(n, f, u, s) == [no |-> n, status |-> NewStatus(u, s), file |-> f, url |-> u]

Taken == {episodes[e].no : e \in Live}

creatorCreateEpisode(e, n, f, u, s) ==
    /\ episodes[e] = Absent /\ n \notin Taken
    /\ NewStatus(u, s) = "ready" => u # NoLink \/ f # None
    /\ episodes' = [episodes EXCEPT ![e] = NewEpisode(n, f, u, s)]
    /\ UNCHANGED <<air, media, calls, crossed, patched>>

(* The check of the handler on the row it read. *)
ReadyNeedsSource(e, set) ==
    Set(episodes[e].status, set.status) = "ready" =>
        \/ SetLink(episodes[e].url, set.url) # NoLink
        \/ Set(episodes[e].file, set.file) # None

UpdateEpisode(q, e, set) ==
    /\ e \in Live
    /\ ReadyNeedsSource(e, set)
    /\ Begin(q, "update", e, set)

Typed(set) == set.file # Keep \/ set.url # KeepLink

WriteUpdate(q) ==
    /\ calls[q].op = "update"
    /\ episodes' = Written(calls[q].row, calls[q].set)
    /\ patched' = IF Typed(calls[q].set) THEN patched \cup {calls[q].row} ELSE patched
    /\ Return(q)
    /\ UNCHANGED <<air, media>>

(* The page that uploaded a file names it, by the same update, on a row    *)
(* that has none.                                                          *)
NameFile(q, e, f) ==
    /\ e \in Live /\ episodes[e].file = None /\ episodes[e].url = NoLink
    /\ media[f] # "none" /\ \A d \in Live : episodes[d].file # f
    /\ Begin(q, "name", e, [status |-> Keep, file |-> f, url |-> KeepLink])

WriteName(q) ==
    /\ calls[q].op = "name"
    /\ episodes' = Written(calls[q].row, calls[q].set)
    /\ Return(q)
    /\ UNCHANGED <<air, media, patched>>

(* Uploading again: the row forgets its file.  Not while on air. *)
RetryEpisode(q, e) ==
    /\ e \in Live /\ air # "published"
    /\ Begin(q, "retry", e, [status |-> "uploading", file |-> None, url |-> NoLink])

(* Mutant: a retry forgets the file and keeps its link. *)
LinkKept(set) == [set EXCEPT !.url = KeepLink]

Forgetting(set) == set

WriteRetry(q) ==
    /\ calls[q].op = "retry"
    /\ episodes' = Written(calls[q].row, Forgetting(calls[q].set))
    /\ patched' = patched \ {calls[q].row}
    /\ Return(q)
    /\ UNCHANGED <<air, media>>

(* The staff's super administrators need no draft. *)
DeleteEpisode(q, e) ==
    /\ e \in Live
    /\ Begin(q, "delete", e, None)

WriteDelete(q) ==
    /\ calls[q].op = "delete"
    /\ episodes' = [episodes EXCEPT ![calls[q].row] = Absent]
    /\ patched' = patched \ {calls[q].row}
    /\ Return(q)
    /\ UNCHANGED <<air, media>>

MayReorder == air = "draft"

ReorderEpisodes(q) ==
    /\ MayReorder /\ Live # {}
    /\ Begin(q, "reorder", None, None)

(* New numbers for some of the episodes, written in two passes so that     *)
(* they may trade places; a number another episode holds rolls all of it   *)
(* back.                                                                   *)
WriteReorder(q) ==
    /\ calls[q].op = "reorder"
    /\ \E S \in SUBSET Live : \E no \in [S -> Nos] :
           /\ \A d, e \in S : d # e => no[d] # no[e]
           /\ episodes' =
                IF {no[e] : e \in S} \cap {episodes[d].no : d \in Live \ S} = {}
                THEN [e \in Rows |-> IF e \in S THEN [episodes[e] EXCEPT !.no = no[e]]
                                     ELSE episodes[e]]
                ELSE episodes
    /\ calls' = [calls EXCEPT ![q] = NoCall]
    /\ crossed' = (crossed \/ ~calls[q].fresh)
    /\ UNCHANGED <<air, media, patched>>

(* The drama moves between its statuses, see Dramas. *)
DramaMoves ==
    /\ \E s \in Airs \ {air} : air' = s
    /\ calls' = Stale(ReadsAir)
    /\ UNCHANGED <<episodes, media, crossed, patched>>

-----------------------------------------------------------------------------
(* The video service.                                                      *)

(* The browser uploads a file; the page then names it on the row through   *)
(* an update, before or after the callback.                                *)
Upload(f) ==
    /\ media[f] = "none"
    /\ media' = [media EXCEPT ![f] = "uploaded"]
    /\ UNCHANGED <<episodes, air, calls, crossed, patched>>

Transcode(f) ==
    /\ Procedure /\ media[f] = "uploaded"
    /\ \E m \in {"transcoded", "failed"} : media' = [media EXCEPT ![f] = m]
    /\ UNCHANGED <<episodes, air, calls, crossed, patched>>

-----------------------------------------------------------------------------
(* Callbacks.  They come in any order, more than once or not at all.       *)

OfFile(f) == {e \in Live : episodes[e].file = f}

ByFile(f, set) ==
    [e \in Rows |-> IF e \in OfFile(f)
                    THEN [episodes[e] EXCEPT !.status = Set(@, set.status),
                                             !.url = SetLink(@, set.url)]
                    ELSE episodes[e]]

(* Mutant: a status no row may have. *)
UploadMarks(f, u) ==
    ByFile(f, [status |-> IF Procedure THEN "uploaded" ELSE "ready", url |-> u])

(* The event may come without a link. *)
handleVODFileUpload(f, u) ==
    ByFile(f, [status |-> IF Procedure THEN Keep ELSE "ready", url |-> u])

(* A finished procedure may come without a usable transcoding output. *)
handleVODProcedureStateChanged(kind, f, url) ==
    IF kind = "finish" THEN ByFile(f, [status |-> "ready", url |-> url])
                       ELSE ByFile(f, [status |-> "failed", url |-> KeepLink])

(* A callback is sent from the event on; one that never comes was lost.    *)
Sent(kind, f) ==
    CASE kind = "upload" -> media[f] # "none"
      [] kind = "finish" -> media[f] = "transcoded"
      [] kind = "error" -> media[f] = "failed"

webhookVOD(kind, f) ==
    /\ Sent(kind, f)
    /\ IF kind = "upload"
       THEN \E u \in {KeepLink, <<f, "original">>} : episodes' = handleVODFileUpload(f, u)
       ELSE \E u \in {KeepLink, <<f, "stream">>} :
                episodes' = handleVODProcedureStateChanged(kind, f, u)
    /\ calls' = LET Misses(call) == Updates(call) /\ call.row \in OfFile(f) IN Stale(Misses)
    /\ UNCHANGED <<air, media, crossed, patched>>

-----------------------------------------------------------------------------
(* Lookups.                                                                *)

(* Started by every list and preview the creator or the staff opens, for   *)
(* an episode that waits for its file.                                     *)
lazySyncEpisodeVOD(q, e) ==
    /\ e \in Live
    /\ episodes[e].status = "uploading" /\ episodes[e].file # None
    /\ Begin(q, "lazy", e, None)

RefreshEpisodeVOD(q, e) ==
    /\ e \in Live /\ episodes[e].file # None
    /\ Begin(q, "refresh", e, None)

(* What VOD knows of the file: nothing yet, or where to play it.  A        *)
(* transcoding output that is not HLS gives way to the uploaded file.      *)
DescribeMediaInfo(f) ==
    CASE media[f] = "none" -> {}
      [] media[f] = "transcoded" -> {<<f, "stream">>, <<f, "original">>}
      [] OTHER -> {<<f, "original">>}

Asking(q) == calls[q].op \in {"lazy", "refresh"} /\ calls[q].set = None

Answer(q) ==
    /\ Asking(q)
    /\ \E u \in DescribeMediaInfo(calls[q].file) :
           calls' = [calls EXCEPT ![q].set =
               [status |-> IF calls[q].ready THEN Keep ELSE "ready", file |-> Keep, url |-> u]]
    /\ UNCHANGED <<episodes, air, media, crossed, patched>>

(* An error, a timeout, or a file without a link yet. *)
NoAnswer(q) == Asking(q) /\ GiveUp(q)

(* Mutant: the lookup leaves the status to the callback. *)
LookupSetsLink(set) == [set EXCEPT !.status = Keep]

LookupSets(set) == set

WriteLookup(q) ==
    /\ calls[q].op \in {"lazy", "refresh"} /\ calls[q].set # None
    /\ episodes' = Written(calls[q].row, LookupSets(calls[q].set))
    /\ calls' = LET Misses(call) == Updates(call) /\ call.row = calls[q].row
                IN  [Stale(Misses) EXCEPT ![q] = NoCall]
    /\ crossed' = (crossed \/ ~calls[q].fresh)
    /\ UNCHANGED <<air, media, patched>>

-----------------------------------------------------------------------------
Sources == {<<None, NoLink>>, <<None, TypedLink>>} \cup {<<f, NoLink>> : f \in Files}

Write(q) == \/ WriteUpdate(q) \/ WriteName(q) \/ WriteRetry(q)
            \/ WriteDelete(q) \/ WriteReorder(q)

EditStep ==
    \/ \E e \in Rows, n \in Nos, src \in Sources, s \in Statuses \cup {Keep} :
          creatorCreateEpisode(e, n, src[1], src[2], s)
    \/ \E q \in Editors :
          \/ \E e \in Rows :
                \/ RetryEpisode(q, e) \/ DeleteEpisode(q, e)
                \/ \E set \in Edits : UpdateEpisode(q, e, set)
                \/ \E f \in Files : NameFile(q, e, f)
          \/ ReorderEpisodes(q)
          \/ Write(q)

LookupStep ==
    \E q \in Lookups :
        \/ \E e \in Rows : lazySyncEpisodeVOD(q, e) \/ RefreshEpisodeVOD(q, e)
        \/ Answer(q) \/ NoAnswer(q) \/ WriteLookup(q)

ServiceStep ==
    \/ \E f \in Files : Upload(f) \/ Transcode(f)
    \/ \E kind \in {"upload", "finish", "error"}, f \in Files : webhookVOD(kind, f)

Next == EditStep \/ LookupStep \/ ServiceStep \/ DramaMoves

(* A call that was begun writes; the pages are opened again and again; a   *)
(* lookup ends within its 5 seconds, and they do not all fail.             *)
Fairness ==
    /\ \A e \in Rows : SF_vars(\E q \in Lookups : lazySyncEpisodeVOD(q, e))
    /\ \A q \in Lookups : /\ SF_vars(Answer(q)) /\ WF_vars(Answer(q) \/ NoAnswer(q))
                          /\ WF_vars(WriteLookup(q))
    /\ \A q \in Editors : WF_vars(Write(q))

Spec == Init /\ [][Next]_vars

FairSpec == Spec /\ Fairness

-----------------------------------------------------------------------------
(* A ready episode has something to play, through any sequence of edits,   *)
(* callbacks and lookups that do not cross (the check in the two update    *)
(* handlers, the reset in the two retry handlers).                         *)
ReadyHasSource ==
    ~crossed => \A e \in Live :
        episodes[e].status = "ready" => episodes[e].url # NoLink \/ episodes[e].file # None

(* An episode plays the file it names, never the one it had before a       *)
(* retry, however callbacks are ordered, lost or repeated, unless somebody *)
(* typed one of the two in or a lookup came back to a row that had changed.*)
PlaysOwnFile ==
    ~crossed => \A e \in Live \ patched :
        episodes[e].url[1] \in {None, episodes[e].file}

(* What is ready plays, and plays its own (uploads.go, admin_episode.go,   *)
(* creator_episode.go, vod.go).                                            *)
ReadyPlaysOwnFile == ReadyHasSource /\ PlaysOwnFile

(* An episode whose file has been transcoded does not wait for ever: every *)
(* callback may be lost, the lookups the pages start make it ready (the    *)
(* comment of lazySyncEpisodeVOD).                                         *)
Stuck(e) ==
    /\ e \in Live
    /\ episodes[e].status = "uploading"
    /\ episodes[e].file # None /\ media[episodes[e].file] = "transcoded"

TranscodedGetsReady == \A e \in Rows : []<>~Stuck(e)
=============================================================================
