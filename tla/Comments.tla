------------------------------ MODULE Comments ------------------------------
(***************************************************************************)
(* The comments of one drama, their likes, and the messages that tell a    *)
(* viewer of replies and likes.  Replies form two levels: a reply to a     *)
(* reply hangs on the same top comment and names whom it answers.  A       *)
(* deleted comment stays as a row that queries pass over (deleted_at).     *)
(*                                                                         *)
(* A call reads the comment it is about, later runs its transaction, and   *)
(* after the commit writes the message, on its own and without retry: a    *)
(* comment may be deleted, and the process may stop, in between.           *)
(*                                                                         *)
(* The drama has no state of its own here.  Off the air it refuses         *)
(* comments, which is as if nobody wrote any; deleting it deletes its      *)
(* comments, which is as if the staff deleted each.                        *)
(***************************************************************************)
EXTENDS Viewers

CONSTANTS Likers,     (* bound: the users who like comments                *)
          MaxComments,(* bound: comments ever written                      *)
          Eps         (* episodes of the drama                             *)

ASSUME CommentsAssumption ==
    /\ Likers \subseteq Users
    /\ MaxComments \in Nat
    /\ None \notin Users \cup Eps \cup Nat

VARIABLES comments,     (* comments, by id                                 *)
          commentLikes, (* comment_likes, as <<comment, user>>             *)
          messages,     (* app_messages                                    *)
          calls         (* calls in flight                                 *)

commentVars == <<comments, commentLikes, messages, calls>>

Ids == 1..MaxComments
OptId == Ids \cup {None}

Comment == [user: Users, ep: Eps \cup {None}, parent: OptId, replyTo: Users \cup {None},
            likes: Nat, replies: Nat, deleted: BOOLEAN]
Absent == [user |-> None, ep |-> None, parent |-> None, replyTo |-> None,
           likes |-> 0, replies |-> 0, deleted |-> TRUE]

Message == [type: {"comment_reply", "comment_like"}, to: Users, comment: Ids,
            reply: OptId, actor: Users, read: BOOLEAN]

Call == [op: {"comment", "like", "unlike", "tellReply", "tellLike"}, user: Users,
         about: OptId, to: Users \cup {None}, ep: Eps \cup {None},
         parent: OptId, replyTo: Users \cup {None}, reply: OptId]
NoCall == [op |-> "none", user |-> None, about |-> None, to |-> None, ep |-> None,
           parent |-> None, replyTo |-> None, reply |-> None]

CommentTypeOK ==
    /\ comments \in [Ids -> Comment \cup {Absent}]
    /\ commentLikes \subseteq Ids \X Likers
    /\ messages \subseteq Message
    /\ calls \in [Calls -> Call \cup {NoCall}]

CommentInit ==
    /\ comments = [c \in Ids |-> Absent]
    /\ commentLikes = {}
    /\ messages = {}
    /\ calls = [q \in Calls |-> NoCall]

Written == {c \in Ids : comments[c] # Absent}

(* What a query sees. *)
Live == {c \in Ids : ~comments[c].deleted}

Over(q) == calls' = [calls EXCEPT ![q] = NoCall]

-----------------------------------------------------------------------------
(* Writing a comment or a reply.                                           *)

(* Mutant: a reply to a reply hangs on that reply. *)
TopOfDirect(c) == c

(* The top comment that a reply to c hangs on. *)
TopOf(c) == IF comments[c].parent = None THEN c ELSE comments[c].parent

NewCall(op, u) == [NoCall EXCEPT !.op = op, !.user = u]

(* On the drama or on one of its episodes. *)
appCreateComment(q, u, e) ==
    /\ calls[q] = NoCall
    /\ calls' = [calls EXCEPT ![q] = [NewCall("comment", u) EXCEPT !.ep = e]]
    /\ UNCHANGED <<comments, commentLikes, messages>>

(* A reply to c takes c's episode; a reply to a reply names its author. *)
CreateReply(q, u, c) ==
    /\ calls[q] = NoCall
    /\ c \in Live
    /\ calls' = [calls EXCEPT ![q] =
            [NewCall("comment", u) EXCEPT
                !.about = c, !.to = comments[c].user, !.ep = comments[c].ep,
                !.parent = TopOf(c),
                !.replyTo = IF comments[c].parent = None THEN None ELSE comments[c].user]]
    /\ UNCHANGED <<comments, commentLikes, messages>>

(* UPDATE ... reply_count + 1, which passes over a deleted comment. *)
WithReply(p, rows) ==
    IF p # None /\ p \in Live THEN [rows EXCEPT ![p].replies = @ + 1] ELSE rows

(* A top comment has nobody to tell, and nobody is told of his own reply. *)
Silent(call) == call.parent = None \/ call.to = call.user

(* The transaction. *)
WriteComment(q) ==
    LET call == calls[q]
        id == CHOOSE c \in Ids \ Written : \A d \in Ids \ Written : c <= d
        row == [user |-> call.user, ep |-> call.ep, parent |-> call.parent,
                replyTo |-> call.replyTo, likes |-> 0, replies |-> 0, deleted |-> FALSE]
    IN  /\ call.op = "comment"
        /\ Ids # Written
        /\ comments' = [WithReply(call.parent, comments) EXCEPT ![id] = row]
        /\ IF Silent(call)
           THEN Over(q)
           ELSE calls' = [calls EXCEPT ![q] = [call EXCEPT !.op = "tellReply", !.reply = id]]
        /\ UNCHANGED <<commentLikes, messages>>

(* The author of the comment that was answered. *)
Recipient(call) == call.to

emitCommentReplyMessage(q) ==
    /\ calls[q].op = "tellReply"
    /\ messages' = messages \cup
            {[type |-> "comment_reply", to |-> Recipient(calls[q]), comment |-> calls[q].about,
              reply |-> calls[q].reply, actor |-> calls[q].user, read |-> FALSE]}
    /\ Over(q)
    /\ UNCHANGED <<comments, commentLikes>>

-----------------------------------------------------------------------------
(* Likes.                                                                  *)

appLikeComment(q, u, c) ==
    /\ calls[q] = NoCall
    /\ c \in Live
    /\ calls' = [calls EXCEPT ![q] =
            [NewCall("like", u) EXCEPT !.about = c, !.to = comments[c].user]]
    /\ UNCHANGED <<comments, commentLikes, messages>>

appUnlikeComment(q, u, c) ==
    /\ calls[q] = NoCall
    /\ c \in Live
    /\ calls' = [calls EXCEPT ![q] = [NewCall("unlike", u) EXCEPT !.about = c]]
    /\ UNCHANGED <<comments, commentLikes, messages>>

(* The transaction; only a like that is new is told, and not to oneself.   *)
appToggleCommentLike(q) ==
    LET call == calls[q]
        enable == call.op = "like"
        row == <<call.about, call.user>>
        changed == (row \in commentLikes) # enable
    IN  /\ call.op \in {"like", "unlike"}
        /\ commentLikes' = IF enable THEN commentLikes \cup {row} ELSE commentLikes \ {row}
        /\ comments' = IF changed /\ call.about \in Live
                       THEN [comments EXCEPT ![call.about].likes = Counted(@, enable)]
                       ELSE comments
        /\ IF enable /\ changed /\ call.to # call.user
           THEN calls' = [calls EXCEPT ![q].op = "tellLike"]
           ELSE Over(q)
        /\ UNCHANGED <<messages>>

(* The columns of the unique index for likes, and those that the upsert    *)
(* names: PostgreSQL looks for an index on exactly these, and without one  *)
(* the statement fails.  The code logs that and goes on.                   *)
LikeIndex == {"recipient_id", "comment_id"}

ConflictTarget == {"recipient_id", "type", "comment_id"}

emitCommentLikeMessage(q) ==
    LET call == calls[q]
        same == {m \in messages : m.type = "comment_like" /\ m.to = call.to
                                  /\ m.comment = call.about}
        new == [type |-> "comment_like", to |-> call.to, comment |-> call.about,
                reply |-> None, actor |-> call.user, read |-> FALSE]
    IN  /\ call.op = "tellLike"
        /\ messages' = IF ConflictTarget = LikeIndex THEN (messages \ same) \cup {new}
                       ELSE messages
        /\ Over(q)
        /\ UNCHANGED <<comments, commentLikes>>

(* The transaction is rolled back. *)
GiveUp(q) ==
    /\ calls[q].op \in {"comment", "like", "unlike"}
    /\ Over(q)
    /\ UNCHANGED <<comments, commentLikes, messages>>

Crash ==
    /\ \E q \in Calls : calls[q] # NoCall
    /\ calls' = [q \in Calls |-> NoCall]
    /\ UNCHANGED <<comments, commentLikes, messages>>

-----------------------------------------------------------------------------
(* Reading messages.                                                       *)

Reading(m) == [m EXCEPT !.read = TRUE]

appMarkMessageRead(m) ==
    /\ m \in messages
    /\ messages' = (messages \ {m}) \cup {Reading(m)}
    /\ UNCHANGED <<comments, commentLikes, calls>>

appMarkAllMessagesRead(u) ==
    LET unread == {m \in messages : m.to = u /\ ~m.read}
    IN  /\ unread # {}
        /\ messages' = (messages \ unread) \cup {Reading(m) : m \in unread}
        /\ UNCHANGED <<comments, commentLikes, calls>>

(* Mutant: read or not, old messages go. *)
SweptUnread(m) == TRUE

Swept(m) == m.read

(* old: the messages that nothing touched for 90 days, any of them. *)
cleanupAppMessages(old) ==
    /\ \E m \in old : Swept(m)
    /\ messages' = messages \ {m \in old : Swept(m)}
    /\ UNCHANGED <<comments, commentLikes, calls>>

-----------------------------------------------------------------------------
(* The staff.                                                              *)

(* One row, none of its replies, no counter. *)
adminDeleteComment(c) ==
    /\ c \in Live
    /\ comments' = [comments EXCEPT ![c].deleted = TRUE]
    /\ UNCHANGED <<commentLikes, messages, calls>>

-----------------------------------------------------------------------------

Emit(q) == emitCommentReplyMessage(q) \/ emitCommentLikeMessage(q)

CommentNext ==
    \/ \E q \in Calls, u \in Users, e \in Eps \cup {None} : appCreateComment(q, u, e)
    \/ \E q \in Calls, u \in Users, c \in Ids : CreateReply(q, u, c)
    \/ \E q \in Calls, u \in Likers, c \in Ids : appLikeComment(q, u, c) \/ appUnlikeComment(q, u, c)
    \/ \E q \in Calls : WriteComment(q) \/ appToggleCommentLike(q) \/ GiveUp(q)
    \/ \E q \in Calls : Emit(q)
    \/ \E m \in messages : appMarkMessageRead(m)
    \/ \E u \in Users : appMarkAllMessagesRead(u)
    \/ \E old \in SUBSET messages : cleanupAppMessages(old)
    \/ \E c \in Ids : adminDeleteComment(c)
    \/ Crash

CommentSpec == CommentInit /\ [][CommentNext]_commentVars

-----------------------------------------------------------------------------
(* What the pages show.                                                    *)

appListComments(e) == {c \in Live : comments[c].parent = None /\ comments[c].ep = e}

(* Replies of a comment that is itself a reply are refused. *)
appListReplies(p) ==
    IF p \in Live /\ comments[p].parent = None
    THEN {c \in Live : comments[c].parent = p} ELSE {}

commentCountByEpisodeIDs(e) == Cardinality({c \in Live : comments[c].ep = e})

(* The comment and the reply a message shows, which also tell its episode: *)
(* the comment's, or if that is deleted the reply's.                       *)
appMessageViews(m) == {m.comment, m.reply} \cap Live

-----------------------------------------------------------------------------
(* Properties.                                                             *)

(* The two levels hold whatever is answered and deleted meanwhile: a reply *)
(* hangs on a comment that is no reply, about the same episode, and it     *)
(* names somebody only if it answers a reply (app_comment.go:196-226).     *)
TwoLevels ==
    \A c \in Written : comments[c].parent # None =>
        LET top == comments[comments[c].parent]
        IN  /\ comments[c].parent \in Written
            /\ top.parent = None
            /\ top.ep = comments[c].ep
            /\ comments[c].replyTo # None =>
                \E d \in Written : comments[d].parent = comments[c].parent
                                   /\ comments[d].user = comments[c].replyTo

(* A visible comment carries the number of its likes, and a visible top    *)
(* comment the number of replies ever given to it; what the pages list is  *)
(* never more than what they count (app_comment.go:239-251, 293-321).      *)
CountersCover ==
    \A c \in Live :
        /\ comments[c].likes = Cardinality({u \in Likers : <<c, u>> \in commentLikes})
        /\ comments[c].replies = Cardinality({d \in Written : comments[d].parent = c})
        /\ Cardinality(appListReplies(c)) <= comments[c].replies
        /\ Cardinality(appListComments(comments[c].ep)) <= commentCountByEpisodeIDs(comments[c].ep)

(* A message is true: it tells the author of a comment, never of his own   *)
(* doing, of a reply to that very comment or of a like somebody gave it,   *)
(* each reply once, and the page that falls back on the reply for a        *)
(* deleted comment shows the same episode (app_message.go:18-62, 192-196). *)
MessagesHonest ==
    \A m \in messages :
        /\ m.to = comments[m.comment].user
        /\ m.actor # m.to
        /\ \A c \in appMessageViews(m) : comments[c].ep = comments[m.comment].ep
        /\ m.type = "comment_reply" =>
            /\ comments[m.reply].user = m.actor
            /\ comments[m.reply].parent = TopOf(m.comment)
            /\ \A n \in messages : n.reply = m.reply => n = m

(* Threads, their counters and what people are told of them belong         *)
(* together whatever is deleted under a call (app_comment.go,              *)
(* app_message.go).                                                        *)
ThreadsSound == TwoLevels /\ CountersCover /\ MessagesHonest

-----------------------------------------------------------------------------
(* Comments implements the threads.                                        *)

Telling == {q \in Calls : calls[q].op = "tellReply"}
Unread == {m \in messages : ~m.read}

Threads == INSTANCE Threads WITH
               PostNos <- Ids,
               People  <- Users,
               post    <- [c \in Ids |-> [author |-> comments[c].user, ep |-> comments[c].ep,
                                           under |-> comments[c].parent]],
               shown   <- Live,
               liked   <- commentLikes,
               owed    <- {calls[q].reply : q \in Telling},
               inbox   <- {<<m.to, m.reply>> : m \in messages},
               unread  <- {<<m.to, m.reply>> : m \in Unread}

(* Whatever is deleted, swept or lost between the steps of a call, each is *)
(* one step of the threads or none: no comment changes its place or comes  *)
(* back, a reply is told at most once, even after its message is gone, and *)
(* no message goes before it was read (app_comment.go, app_message.go).    *)
ImplementsThreads == Threads!ThreadsSpec

=============================================================================
