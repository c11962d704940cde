----------------------------- MODULE Reactions -----------------------------
(***************************************************************************)
(* Likes of episodes, favorites and shares of one drama.  The rows of      *)
(* user_actions say who did what; episodes.like_count and the counters of  *)
(* dramas repeat it as numbers, which the pages show and which no job ever *)
(* recounts.                                                               *)
(*                                                                         *)
(* A call reads the drama (and the episode) first; its transaction comes   *)
(* later and checks neither again, so that the staff may have deleted      *)
(* either in between.  The same call may be in flight several times: a     *)
(* user taps twice, or the app repeats a request that timed out.           *)
(***************************************************************************)
EXTENDS Viewers

CONSTANTS Episodes,   (* episode ids                                       *)
          ShareKeys,  (* users who share, addresses that open the share page*)
          MaxShares   (* bound on dramas.share_count                       *)

ASSUME ReactionsAssumption ==
    /\ None \notin Users \cup Episodes
    /\ Episodes \subseteq Nat \ {0}
    /\ MaxShares \in Nat

VARIABLES drama,        (* its status; "gone" once deleted                 *)
          eps,          (* the episodes that exist                         *)
          actions,      (* user_actions, as <<user, episode>>              *)
          epLikes,      (* episodes.like_count                             *)
          likeCount,    (* dramas.like_count                               *)
          favoriteCount,(* dramas.favorite_count                           *)
          shareCount,   (* dramas.share_count                              *)
          taps,         (* calls between their reads and their transaction *)
          redisKeys,    (* share keys that Redis holds                     *)
          shareSeen,    (* share keys of the process's own window          *)
          wins,         (* history: shares admitted in a window, 2 for more*)
          fell          (* history: keys for which Redis failed to answer  *)

reactVars == <<drama, eps, actions, epLikes, likeCount, favoriteCount, shareCount,
          taps, redisKeys, shareSeen, wins, fell>>

rowVars == <<drama, eps, actions, epLikes, likeCount, favoriteCount>>
shareVars == <<shareCount, redisKeys, shareSeen, wins, fell>>

(* A favorite is a row of episode 0: PostgreSQL's unique index would not   *)
(* hold two NULLs apart.                                                   *)
Whole == 0

Action == Users \X (Episodes \cup {Whole})

Tap == [user: Users, ep: Episodes \cup {Whole}, enable: BOOLEAN]
NoTap == [user |-> None, ep |-> Whole, enable |-> FALSE]

ReactTypeOK ==
    /\ drama \in {"published", "offline", "gone"}
    /\ eps \subseteq Episodes
    /\ actions \subseteq Action
    /\ epLikes \in [Episodes -> Nat]
    /\ likeCount \in Nat
    /\ favoriteCount \in Nat
    /\ shareCount \in 0..MaxShares
    /\ taps \in [Calls -> Tap \cup {NoTap}]
    /\ redisKeys \subseteq ShareKeys
    /\ shareSeen \subseteq ShareKeys
    /\ wins \in [ShareKeys -> 0..2]
    /\ fell \subseteq ShareKeys

ReactInit ==
    /\ drama = "published"
    /\ eps = Episodes
    /\ actions = {}
    /\ epLikes = [e \in Episodes |-> 0]
    /\ likeCount = 0
    /\ favoriteCount = 0
    /\ shareCount = 0
    /\ taps = [q \in Calls |-> NoTap]
    /\ redisKeys = {}
    /\ shareSeen = {}
    /\ wins = [k \in ShareKeys |-> 0]
    /\ fell = {}

-----------------------------------------------------------------------------
(* Likes and favorites.                                                    *)

FavoriteRow(u) == <<u, Whole>>

Begin(q, u, e, enable) ==
    /\ taps[q] = NoTap
    /\ drama = "published"
    /\ taps' = [taps EXCEPT ![q] = [user |-> u, ep |-> e, enable |-> enable]]
    /\ UNCHANGED <<rowVars, shareVars>>

(* The episode need not be ready. *)
appLikeEpisode(q, u, e) == e \in eps /\ Begin(q, u, e, TRUE)

appUnlikeEpisode(q, u, e) == e \in eps /\ Begin(q, u, e, FALSE)

appFavoriteDrama(q, u) == Begin(q, u, Whole, TRUE)

appUnfavoriteDrama(q, u) == Begin(q, u, Whole, FALSE)

(* Mutant: the counters follow the request, not the rows it affected. *)
RowsAffectedAny(row, enable) == TRUE

(* INSERT ... ON CONFLICT DO NOTHING, or DELETE: did a row change? *)
RowsAffected(row, enable) == (row \in actions) # enable

Applied(row, enable) == IF enable THEN actions \cup {row} ELSE actions \ {row}

TapOver(q) == taps' = [taps EXCEPT ![q] = NoTap]

(* The two transactions.  The counters of a deleted episode or drama have  *)
(* no row left that the UPDATE could match.                                *)
appToggleEpisodeLike(q) ==
    LET u == taps[q].user
        e == taps[q].ep
        enable == taps[q].enable
        row == <<u, e>>
    IN  /\ taps[q] # NoTap
        /\ e # Whole
        /\ actions' = Applied(row, enable)
        /\ IF RowsAffected(row, enable)
           THEN /\ epLikes' = IF e \in eps THEN [epLikes EXCEPT ![e] = Counted(@, enable)] ELSE epLikes
                /\ likeCount' = IF drama = "gone" THEN likeCount ELSE Counted(likeCount, enable)
           ELSE UNCHANGED <<epLikes, likeCount>>
        /\ TapOver(q)
        /\ UNCHANGED <<drama, eps, favoriteCount, shareVars>>

appToggleFavorite(q) ==
    LET row == FavoriteRow(taps[q].user)
        enable == taps[q].enable
    IN  /\ taps[q] # NoTap
        /\ taps[q].ep = Whole
        /\ actions' = Applied(row, enable)
        /\ favoriteCount' = IF RowsAffected(row, enable) /\ drama # "gone"
                            THEN Counted(favoriteCount, enable) ELSE favoriteCount
        /\ TapOver(q)
        /\ UNCHANGED <<drama, eps, epLikes, likeCount, shareVars>>

(* The transaction is rolled back, or the call was lost before it. *)
RollBack(q) ==
    /\ taps[q] # NoTap
    /\ TapOver(q)
    /\ UNCHANGED <<rowVars, shareVars>>

-----------------------------------------------------------------------------
(* Shares: a user's tap and a visit of the share page count once an hour.  *)
(* Redis remembers who shared; while it does not answer, the process does. *)

allowSharePageCountMemory(k) == k \notin shareSeen

allowShareDedup(k, answers) ==
    IF answers THEN k \notin redisKeys ELSE allowSharePageCountMemory(k)

(* saved is FALSE when the UPDATE of the counter fails, for which a tap is *)
(* answered with an error and a visit is not.                              *)
appShareDrama(k, answers, saved) ==
    LET counted == allowShareDedup(k, answers)
    IN  /\ drama = "published"
        /\ shareCount < MaxShares
        /\ redisKeys' = IF answers THEN redisKeys \cup {k} ELSE redisKeys
        /\ shareSeen' = IF answers THEN shareSeen ELSE shareSeen \cup {k}
        /\ fell' = IF answers THEN fell ELSE fell \cup {k}
        /\ wins' = IF counted /\ wins[k] < 2 THEN [wins EXCEPT ![k] = @ + 1] ELSE wins
        /\ shareCount' = IF counted /\ saved THEN shareCount + 1 ELSE shareCount
        /\ UNCHANGED <<rowVars, taps>>

(* An hour after Redis got the key: a new window. *)
ExpireKey(k) ==
    /\ k \in redisKeys
    /\ redisKeys' = redisKeys \ {k}
    /\ wins' = [wins EXCEPT ![k] = 0]
    /\ fell' = fell \ {k}
    /\ UNCHANGED <<rowVars, taps, shareCount, shareSeen>>

ExpireSeen(k) ==
    /\ k \in shareSeen
    /\ shareSeen' = shareSeen \ {k}
    /\ UNCHANGED <<rowVars, taps, shareCount, redisKeys, wins, fell>>

(* The process restarts: calls and its own window are lost. *)
Restart ==
    /\ taps' = [q \in Calls |-> NoTap]
    /\ shareSeen' = {}
    /\ UNCHANGED <<rowVars, shareCount, redisKeys, wins, fell>>

-----------------------------------------------------------------------------
(* The drama and its episodes come and go (modules Dramas, Episodes).      *)

MoveDrama ==
    /\ drama # "gone"
    /\ drama' = IF drama = "published" THEN "offline" ELSE "published"
    /\ UNCHANGED <<eps, actions, epLikes, likeCount, favoriteCount, taps, shareVars>>

(* A super administrator may delete an episode on air.  The rows of those  *)
(* who liked it stay, and so does their part of dramas.like_count.         *)
adminDeleteEpisode(e) ==
    /\ e \in eps
    /\ eps' = eps \ {e}
    /\ epLikes' = [epLikes EXCEPT ![e] = 0]
    /\ UNCHANGED <<drama, actions, likeCount, favoriteCount, taps, shareVars>>

adminDeleteDrama ==
    /\ drama # "gone"
    /\ drama' = "gone"
    /\ eps' = {}
    /\ actions' = {}
    /\ epLikes' = [e \in Episodes |-> 0]
    /\ likeCount' = 0
    /\ favoriteCount' = 0
    /\ UNCHANGED <<taps, shareVars>>

-----------------------------------------------------------------------------

ReactNext ==
    \/ \E q \in Calls, u \in Users, e \in Episodes : appLikeEpisode(q, u, e) \/ appUnlikeEpisode(q, u, e)
    \/ \E q \in Calls, u \in Users : appFavoriteDrama(q, u) \/ appUnfavoriteDrama(q, u)
    \/ \E q \in Calls : appToggleEpisodeLike(q) \/ appToggleFavorite(q) \/ RollBack(q)
    \/ \E k \in ShareKeys, answers, saved \in BOOLEAN : appShareDrama(k, answers, saved)
    \/ \E k \in ShareKeys : ExpireKey(k) \/ ExpireSeen(k)
    \/ \E e \in Episodes : adminDeleteEpisode(e)
    \/ MoveDrama
    \/ adminDeleteDrama
    \/ Restart

ReactSpec == ReactInit /\ [][ReactNext]_reactVars

-----------------------------------------------------------------------------
(* Properties.                                                             *)

LikersOf(e) == {u \in Users : <<u, e>> \in actions}

(* What the lists of a user show: favorites of a drama on air, likes of    *)
(* the episodes that still exist.                                          *)
appListFavorites(u) == drama = "published" /\ <<u, Whole>> \in actions

appListLikes(u) ==
    IF drama = "published" THEN {e \in eps : <<u, e>> \in actions} ELSE {}

(* The numbers are the numbers of rows, whatever taps are repeated, cross  *)
(* each other, are rolled back or outlive the episode: an episode's count  *)
(* is that of its likes, the drama's that of the likes of all its episodes *)
(* that ever were, its favorites those of its users; and while the drama   *)
(* is on air those users find what was counted in their own lists          *)
(* (app_action.go:71-262).                                                 *)
CountersMatchRows ==
    drama # "gone" =>
        /\ \A e \in eps : epLikes[e] = Cardinality(LikersOf(e))
        /\ likeCount = Cardinality({row \in actions : row[2] # Whole})
        /\ favoriteCount = Cardinality(LikersOf(Whole))
        /\ drama = "published" =>
            \A u \in Users :
                /\ appListLikes(u) = {e \in eps : u \in LikersOf(e)}
                /\ appListFavorites(u) = (u \in LikersOf(Whole))

(* While Redis answers, a user or an address is counted once in a window,  *)
(* restarts of the process included; only a failure of Redis within the    *)
(* window admits the key again (app_share_page.go:118-145).                *)
SharesOncePerWindow ==
    \A k \in ShareKeys \ fell : wins[k] <= 1

(* The counters of dramas and episodes, none of which is ever recounted    *)
(* (app_action.go, app_share_page.go).                                     *)
CountersKept == CountersMatchRows /\ SharesOncePerWindow

=============================================================================
