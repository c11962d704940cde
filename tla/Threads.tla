------------------------------- MODULE Threads -------------------------------
(***************************************************************************)
(* What comments promise, without calls, transactions and counters.  A     *)
(* post says who wrote it, about which episode and under which post, and   *)
(* never changes; it is shown until it is hidden, for good.  Of a reply    *)
(* one message may be owed.  It is sent once or lost, it goes to somebody  *)
(* else of the thread, and it is thrown away only after it was read.       *)
(***************************************************************************)
CONSTANTS PostNos, People, None

VARIABLES post,    (* author, episode and top post of each post            *)
          shown,   (* posts that anybody can see                           *)
          liked,   (* who likes which post                                 *)
          owed,    (* replies of which a message is still to be sent       *)
          inbox,   (* messages: whom they are for, and the reply           *)
          unread   (* those nobody has read                                *)

threadVars == <<post, shown, liked, owed, inbox, unread>>

Posted(i) == post[i].author # None

ThreadsInit ==
    /\ post = [i \in PostNos |-> [author |-> None, ep |-> None, under |-> None]]
    /\ shown = {} /\ liked = {} /\ owed = {} /\ inbox = {} /\ unread = {}

(* A reply stands under a post that is no reply, about the same episode.   *)
Post(i) ==
    /\ ~Posted(i)
    /\ post'[i].author \in People
    /\ post'[i].under # None =>
         LET top == post[post'[i].under]
         IN  top.author # None /\ top.under = None /\ top.ep = post'[i].ep
    /\ post' = [post EXCEPT ![i] = post'[i]]
    /\ shown' = shown \cup {i}
    /\ owed' = owed \/ (post'[i].under # None /\ owed' = owed \cup {i})
    /\ UNCHANGED <<liked, inbox, unread>>

Hide(i) ==
    /\ i \in shown
    /\ shown' = shown \ {i}
    /\ UNCHANGED <<post, liked, owed, inbox, unread>>

Opine(i, p) ==
    /\ (<<i, p>> \in liked') # (<<i, p>> \in liked)
    /\ Posted(i)
    /\ liked' \in {liked \cup {<<i, p>>}, liked \ {<<i, p>>}}
    /\ UNCHANGED <<post, shown, owed, inbox, unread>>

(* To the author of the top post, or of another reply under it.            *)
Tell(i, d) ==
    LET message == <<post[d].author, i>>
    IN  /\ i \in owed
        /\ d = post[i].under \/ post[d].under = post[i].under
        /\ post[d].author # post[i].author
        /\ owed' = owed \ {i}
        /\ inbox' = inbox \cup {message}
        /\ unread' = unread \cup {message}
        /\ UNCHANGED <<post, shown, liked>>

(* The process stopped before it sent them.                                *)
Lose ==
    /\ owed' \subseteq owed
    /\ UNCHANGED <<post, shown, liked, inbox, unread>>

Read ==
    /\ unread' \subseteq unread
    /\ UNCHANGED <<post, shown, liked, owed, inbox>>

Discard ==
    /\ unread \subseteq inbox' /\ inbox' \subseteq inbox
    /\ UNCHANGED <<post, shown, liked, owed, unread>>

ThreadsNext ==
    \/ Lose \/ Read \/ Discard
    \/ \E i \in PostNos :
         \/ Post(i) \/ Hide(i)
         \/ \E p \in People : Opine(i, p)
         \/ \E d \in PostNos : Tell(i, d)

ThreadsSpec == ThreadsInit /\ [][ThreadsNext]_threadVars
=============================================================================
