--------------------------- MODULE ViewersProofs ---------------------------
(***************************************************************************)
(* Theorems about Reactions, Comments and AdUnlocks, for any number of     *)
(* users, episodes, comments, tickets, reports and calls in flight.        *)
(*                                                                         *)
(* The first two are about numbers that repeat what rows say.  A number is *)
(* right because it changes in the transaction that changes a row, and by  *)
(* that row only; what a call read before may be stale by then.            *)
(***************************************************************************)
EXTENDS Reactions, Comments, AdUnlocks, FiniteSetTheorems, WellFoundedInduction, TLAPS

(* One row more or less is what the counter counts. *)
LEMMA CountsOne ==
    ASSUME NEW S, NEW T, NEW x, IsFiniteSet(S), NEW enable \in BOOLEAN, (x \in S) # enable,
           T = IF enable THEN S \cup {x} ELSE S \ {x}
    PROVE  IsFiniteSet(T) /\ Cardinality(T) = Counted(Cardinality(S), enable)
<1>1. Cardinality(S) \in Nat
  BY FS_CardinalityType
<1>2. CASE enable
  <2>1. IsFiniteSet(S \cup {x}) /\ Cardinality(S \cup {x}) = Cardinality(S) + 1
    BY <1>2, FS_AddElement
  <2>. QED BY <1>2, <2>1 DEF Counted
<1>3. CASE ~enable
  <2>1. IsFiniteSet(S \ {x}) /\ Cardinality(S \ {x}) = Cardinality(S) - 1
    BY <1>3, FS_RemoveElement
  <2>2. Cardinality(S) # 0
    BY <1>3, FS_EmptySet
  <2>. QED BY <1>1, <1>3, <2>1, <2>2 DEF Counted
<1>. QED BY <1>2, <1>3

-----------------------------------------------------------------------------
(* Likes, favorites and shares.                                            *)

EpisodeLikes == {row \in actions : row[2] # Whole}

RowsCounted ==
    drama # "gone" =>
        /\ \A e \in Episodes \cup {Whole} : IsFiniteSet(LikersOf(e))
        /\ \A e \in eps : epLikes[e] = Cardinality(LikersOf(e))
        /\ IsFiniteSet(EpisodeLikes) /\ likeCount = Cardinality(EpisodeLikes)
        /\ favoriteCount = Cardinality(LikersOf(Whole))

(* Where Redis always answered, it holds the key of whoever was counted. *)
SharesCounted ==
    \A k \in ShareKeys \ fell : wins[k] <= 1 /\ (wins[k] = 0 \/ k \in redisKeys)

ReactInv == ReactTypeOK /\ RowsCounted /\ SharesCounted

LEMMA ReactInvInit == ReactInit => ReactInv
<1> SUFFICES ASSUME ReactInit PROVE ReactInv
  OBVIOUS
<1>1. 0 \in 0..MaxShares
  BY ReactionsAssumption
<1>2. ReactTypeOK
  BY <1>1 DEF ReactInit, ReactTypeOK
<1>3. EpisodeLikes = {} /\ \A e \in Episodes \cup {Whole} : LikersOf(e) = {}
  BY DEF ReactInit, EpisodeLikes, LikersOf
<1>4. RowsCounted
  BY <1>3, FS_EmptySet DEF RowsCounted, ReactInit
<1>. QED BY <1>2, <1>4 DEF ReactInv, SharesCounted, ReactInit

(* A step that leaves the rows and their numbers. *)
LEMMA RowsStay ==
    ASSUME RowsCounted, UNCHANGED <<actions, epLikes, likeCount, favoriteCount>>,
           drama' # "gone" => drama # "gone", eps' \subseteq eps
    PROVE  RowsCounted'
<1>1. EpisodeLikes' = EpisodeLikes /\ \A e : LikersOf(e)' = LikersOf(e)
  BY DEF EpisodeLikes, LikersOf
<1>. QED BY <1>1 DEF RowsCounted

LEMMA BeginReacts ==
    ASSUME ReactInv, NEW q \in Calls, NEW u \in Users, NEW e \in Episodes \cup {Whole},
           NEW enable \in BOOLEAN, Begin(q, u, e, enable)
    PROVE  ReactInv'
<1>1. [user |-> u, ep |-> e, enable |-> enable] \in Tap
  BY DEF Tap
<1>2. ReactTypeOK'
  BY <1>1 DEF Begin, rowVars, shareVars, ReactInv, ReactTypeOK
<1>3. RowsCounted' /\ SharesCounted'
  BY RowsStay DEF Begin, rowVars, shareVars, ReactInv, SharesCounted
<1>. QED BY <1>2, <1>3 DEF ReactInv

(* What a transaction does to the rows. *)
LEMMA RowApplied ==
    ASSUME ReactTypeOK, NEW u \in Users, NEW e \in Episodes \cup {Whole}, NEW enable \in BOOLEAN,
           actions' = Applied(<<u, e>>, enable)
    PROVE  /\ actions' \subseteq Action
           /\ \A d : d # e => LikersOf(d)' = LikersOf(d)
           /\ LikersOf(e)' = IF enable THEN LikersOf(e) \cup {u} ELSE LikersOf(e) \ {u}
           /\ e = Whole => EpisodeLikes' = EpisodeLikes
           /\ e # Whole => EpisodeLikes' = IF enable THEN EpisodeLikes \cup {<<u, e>>}
                                                     ELSE EpisodeLikes \ {<<u, e>>}
           /\ (u \in LikersOf(e)) = (<<u, e>> \in actions)
           /\ e # Whole => (<<u, e>> \in EpisodeLikes) = (<<u, e>> \in actions)
           /\ ~RowsAffected(<<u, e>>, enable) => actions' = actions
<1>1. actions' \subseteq Action
  BY DEF Applied, Action, ReactTypeOK
<1>2. \A v \in Users : \A d : <<v, d>> \in actions' <=>
        IF v = u /\ d = e THEN enable ELSE <<v, d>> \in actions
  BY DEF Applied
<1>3. \A d : d # e => LikersOf(d)' = LikersOf(d)
  BY <1>2 DEF LikersOf
<1>4. LikersOf(e)' = IF enable THEN LikersOf(e) \cup {u} ELSE LikersOf(e) \ {u}
  BY <1>2 DEF LikersOf
<1>5. /\ e = Whole => EpisodeLikes' = EpisodeLikes
      /\ e # Whole => EpisodeLikes' = IF enable THEN EpisodeLikes \cup {<<u, e>>}
                                                ELSE EpisodeLikes \ {<<u, e>>}
  <2>1. <<u, e>>[2] = e
    OBVIOUS
  <2>. QED BY <2>1 DEF EpisodeLikes, Applied
<1>6. (u \in LikersOf(e)) = (<<u, e>> \in actions)
  BY DEF LikersOf
<1>7. e # Whole => (<<u, e>> \in EpisodeLikes) = (<<u, e>> \in actions)
  BY DEF EpisodeLikes
<1>8. ~RowsAffected(<<u, e>>, enable) => actions' = actions
  BY DEF RowsAffected, Applied
<1>. QED BY <1>1, <1>3, <1>4, <1>5, <1>6, <1>7, <1>8

LEMMA CountedIsNat == ASSUME NEW n \in Nat, NEW enable \in BOOLEAN PROVE Counted(n, enable) \in Nat
BY DEF Counted

LEMMA ToggleLikeStep ==
    ASSUME ReactInv, NEW q \in Calls, appToggleEpisodeLike(q)
    PROVE  ReactInv'
<1>1. PICK u \in Users, e \in Episodes, enable \in BOOLEAN :
        u = taps[q].user /\ e = taps[q].ep /\ enable = taps[q].enable
  <2>1. taps[q] \in Tap /\ taps[q].ep # Whole
    BY DEF appToggleEpisodeLike, ReactInv, ReactTypeOK
  <2>. QED BY <2>1 DEF Tap
<1>2. /\ actions' = Applied(<<u, e>>, enable)
      /\ IF RowsAffected(<<u, e>>, enable)
         THEN /\ epLikes' = IF e \in eps THEN [epLikes EXCEPT ![e] = Counted(epLikes[e], enable)]
                            ELSE epLikes
              /\ likeCount' = IF drama = "gone" THEN likeCount ELSE Counted(likeCount, enable)
         ELSE UNCHANGED <<epLikes, likeCount>>
      /\ taps' = [taps EXCEPT ![q] = NoTap] /\ UNCHANGED <<drama, eps, favoriteCount, shareVars>>
  BY <1>1 DEF appToggleEpisodeLike, TapOver
<1>3. ReactTypeOK /\ e # Whole
  BY ReactionsAssumption DEF ReactInv, Whole
<1>4. ReactTypeOK'
  <2>1. actions' \subseteq Action
    BY <1>2, <1>3, RowApplied
  <2>2. Counted(epLikes[e], enable) \in Nat /\ Counted(likeCount, enable) \in Nat
    BY <1>3, CountedIsNat DEF ReactTypeOK
  <2>3. epLikes' \in [Episodes -> Nat] /\ likeCount' \in Nat
    BY <1>2, <1>3, <2>2 DEF ReactTypeOK
  <2>. QED BY <1>2, <1>3, <2>1, <2>3 DEF ReactTypeOK, shareVars
<1>5. RowsCounted'
  <2>. SUFFICES ASSUME drama # "gone" PROVE RowsCounted'
    BY <1>2 DEF RowsCounted
  <2>1. CASE ~RowsAffected(<<u, e>>, enable)
    <3>1. actions' = actions
      BY <1>2, <1>3, <2>1, RowApplied
    <3>. QED BY <1>2, <2>1, <3>1, RowsStay DEF ReactInv
  <2>2. CASE RowsAffected(<<u, e>>, enable)
    <3>1. /\ IsFiniteSet(LikersOf(e)) /\ IsFiniteSet(EpisodeLikes)
          /\ (u \in LikersOf(e)) # enable /\ (<<u, e>> \in EpisodeLikes) # enable
      BY <1>2, <1>3, <2>2, RowApplied DEF RowsAffected, ReactInv, RowsCounted
    <3>2. IsFiniteSet(LikersOf(e)') /\ Cardinality(LikersOf(e)') = Counted(Cardinality(LikersOf(e)), enable)
      BY <1>2, <1>3, <3>1, RowApplied, CountsOne
    <3>3. /\ IsFiniteSet(EpisodeLikes')
          /\ Cardinality(EpisodeLikes') = Counted(Cardinality(EpisodeLikes), enable)
      <4>1. EpisodeLikes' = IF enable THEN EpisodeLikes \cup {<<u, e>>} ELSE EpisodeLikes \ {<<u, e>>}
        BY <1>2, <1>3, RowApplied
      <4>. QED BY <3>1, <4>1, CountsOne
    <3>4. \A d \in Episodes \cup {Whole} : d # e => LikersOf(d)' = LikersOf(d)
      BY <1>2, <1>3, RowApplied
    <3>5. \A d \in Episodes \cup {Whole} : IsFiniteSet(LikersOf(d)')
      BY <3>2, <3>4 DEF ReactInv, RowsCounted
    <3>6. \A d \in eps' : epLikes'[d] = Cardinality(LikersOf(d)')
      <4>. SUFFICES ASSUME NEW d \in eps PROVE epLikes'[d] = Cardinality(LikersOf(d)')
        BY <1>2
      <4>1. d \in Episodes /\ epLikes[d] = Cardinality(LikersOf(d))
        BY DEF ReactInv, ReactTypeOK, RowsCounted
      <4>2. epLikes'[d] = IF d = e THEN Counted(epLikes[d], enable) ELSE epLikes[d]
        BY <1>2, <1>3, <2>2, <4>1 DEF ReactTypeOK
      <4>. QED BY <3>2, <3>4, <4>1, <4>2
    <3>7. likeCount' = Cardinality(EpisodeLikes')
      BY <1>2, <2>2, <3>3 DEF ReactInv, RowsCounted
    <3>8. favoriteCount' = Cardinality(LikersOf(Whole)')
      BY <1>2, <1>3, <3>4 DEF ReactInv, RowsCounted
    <3>. QED BY <3>3, <3>5, <3>6, <3>7, <3>8 DEF RowsCounted
  <2>. QED BY <2>1, <2>2
<1>6. SharesCounted'
  BY <1>2 DEF shareVars, ReactInv, SharesCounted
<1>. QED BY <1>4, <1>5, <1>6 DEF ReactInv

LEMMA ToggleFavoriteStep ==
    ASSUME ReactInv, NEW q \in Calls, appToggleFavorite(q)
    PROVE  ReactInv'
<1>1. PICK u \in Users, enable \in BOOLEAN : u = taps[q].user /\ enable = taps[q].enable
  <2>1. taps[q] \in Tap
    BY DEF appToggleFavorite, ReactInv, ReactTypeOK
  <2>. QED BY <2>1 DEF Tap
<1>2. /\ actions' = Applied(<<u, Whole>>, enable)
      /\ favoriteCount' = IF RowsAffected(<<u, Whole>>, enable) /\ drama # "gone"
                          THEN Counted(favoriteCount, enable) ELSE favoriteCount
      /\ taps' = [taps EXCEPT ![q] = NoTap] /\ UNCHANGED <<drama, eps, epLikes, likeCount, shareVars>>
  BY <1>1 DEF appToggleFavorite, TapOver, FavoriteRow
<1>3. ReactTypeOK /\ Whole \in Episodes \cup {Whole} /\ Whole \notin Episodes
  BY ReactionsAssumption DEF ReactInv, Whole
<1>4. ReactTypeOK'
  <2>1. actions' \subseteq Action
    BY <1>2, <1>3, RowApplied
  <2>2. favoriteCount' \in Nat
    BY <1>2, <1>3, CountedIsNat DEF ReactTypeOK
  <2>. QED BY <1>2, <1>3, <2>1, <2>2 DEF ReactTypeOK, shareVars
<1>5. RowsCounted'
  <2>. SUFFICES ASSUME drama # "gone" PROVE RowsCounted'
    BY <1>2 DEF RowsCounted
  <2>1. CASE ~RowsAffected(<<u, Whole>>, enable)
    <3>1. actions' = actions
      BY <1>2, <1>3, <2>1, RowApplied
    <3>. QED BY <1>2, <2>1, <3>1, RowsStay DEF ReactInv
  <2>2. CASE RowsAffected(<<u, Whole>>, enable)
    <3>1. IsFiniteSet(LikersOf(Whole)) /\ (u \in LikersOf(Whole)) # enable
      BY <1>2, <1>3, <2>2, RowApplied DEF RowsAffected, ReactInv, RowsCounted
    <3>2. /\ IsFiniteSet(LikersOf(Whole)')
          /\ Cardinality(LikersOf(Whole)') = Counted(Cardinality(LikersOf(Whole)), enable)
      BY <1>2, <1>3, <3>1, RowApplied, CountsOne
    <3>3. EpisodeLikes' = EpisodeLikes /\ \A d \in Episodes : LikersOf(d)' = LikersOf(d)
      BY <1>2, <1>3, RowApplied
    <3>4. \A d \in Episodes \cup {Whole} : IsFiniteSet(LikersOf(d)')
      BY <3>2, <3>3 DEF ReactInv, RowsCounted
    <3>5. \A d \in eps' : epLikes'[d] = Cardinality(LikersOf(d)')
      BY <1>2, <3>3 DEF ReactInv, ReactTypeOK, RowsCounted
    <3>6. favoriteCount' = Cardinality(LikersOf(Whole)')
      BY <1>2, <2>2, <3>2 DEF ReactInv, RowsCounted
    <3>7. IsFiniteSet(EpisodeLikes') /\ likeCount' = Cardinality(EpisodeLikes')
      BY <1>2, <3>3 DEF ReactInv, RowsCounted
    <3>. QED BY <3>4, <3>5, <3>6, <3>7 DEF RowsCounted
  <2>. QED BY <2>1, <2>2
<1>6. SharesCounted'
  BY <1>2 DEF shareVars, ReactInv, SharesCounted
<1>. QED BY <1>4, <1>5, <1>6 DEF ReactInv

LEMMA ShareStep ==
    ASSUME ReactInv, NEW k \in ShareKeys, NEW answers \in BOOLEAN, NEW saved \in BOOLEAN,
           appShareDrama(k, answers, saved)
    PROVE  ReactInv'
<1> DEFINE counted == allowShareDedup(k, answers)
<1>1. /\ shareCount < MaxShares /\ UNCHANGED <<rowVars, taps>>
      /\ redisKeys' = IF answers THEN redisKeys \cup {k} ELSE redisKeys
      /\ shareSeen' = IF answers THEN shareSeen ELSE shareSeen \cup {k}
      /\ fell' = IF answers THEN fell ELSE fell \cup {k}
      /\ wins' = IF counted /\ wins[k] < 2 THEN [wins EXCEPT ![k] = wins[k] + 1] ELSE wins
      /\ shareCount' = IF counted /\ saved THEN shareCount + 1 ELSE shareCount
  BY DEF appShareDrama
<1>2. answers => counted = (k \notin redisKeys)
  BY DEF allowShareDedup
<1>. HIDE DEF counted
<1>3. ReactTypeOK'
  <2>1. shareCount' \in 0..MaxShares
    BY <1>1, ReactionsAssumption DEF ReactInv, ReactTypeOK
  <2>2. wins' \in [ShareKeys -> 0..2]
    BY <1>1 DEF ReactInv, ReactTypeOK
  <2>. QED BY <1>1, <2>1, <2>2 DEF ReactInv, ReactTypeOK, rowVars
<1>4. RowsCounted'
  BY <1>1, RowsStay DEF ReactInv, rowVars
<1>5. SharesCounted'
  <2>. SUFFICES ASSUME NEW j \in ShareKeys \ fell'
                PROVE  wins'[j] <= 1 /\ (wins'[j] = 0 \/ j \in redisKeys')
    BY DEF SharesCounted
  <2>1. j \notin fell /\ wins[j] <= 1 /\ (wins[j] = 0 \/ j \in redisKeys)
    BY <1>1 DEF ReactInv, SharesCounted
  <2>2. CASE j # k
    BY <1>1, <2>1, <2>2 DEF ReactInv, ReactTypeOK
  <2>3. CASE j = k
    <3>1. answers
      BY <1>1, <2>3
    <3>2. CASE counted
      <4>1. wins[k] = 0
        BY <1>2, <2>1, <2>3, <3>1, <3>2
      <4>. QED BY <1>1, <2>3, <3>1, <3>2, <4>1 DEF ReactInv, ReactTypeOK
    <3>3. CASE ~counted
      BY <1>1, <1>2, <2>1, <2>3, <3>1, <3>3
    <3>. QED BY <3>2, <3>3
  <2>. QED BY <2>2, <2>3
<1>. QED BY <1>3, <1>4, <1>5 DEF ReactInv

LEMMA ExpiryStep ==
    ASSUME ReactInv, NEW k \in ShareKeys, ExpireKey(k) \/ ExpireSeen(k)
    PROVE  ReactInv'
<1>1. UNCHANGED <<rowVars, taps, shareCount>>
  BY DEF ExpireKey, ExpireSeen
<1>2. RowsCounted'
  BY <1>1, RowsStay DEF ReactInv, rowVars
<1>3. CASE ExpireKey(k)
  <2>1. ReactTypeOK'
    BY <1>3 DEF ExpireKey, ReactInv, ReactTypeOK, rowVars
  <2>2. SharesCounted'
    <3>. SUFFICES ASSUME NEW j \in ShareKeys \ fell'
                  PROVE  wins'[j] <= 1 /\ (wins'[j] = 0 \/ j \in redisKeys')
      BY DEF SharesCounted
    <3>1. CASE j = k
      BY <1>3, <3>1 DEF ExpireKey, ReactInv, ReactTypeOK
    <3>2. CASE j # k
      BY <1>3, <3>2 DEF ExpireKey, ReactInv, ReactTypeOK, SharesCounted
    <3>. QED BY <3>1, <3>2
  <2>. QED BY <1>2, <2>1, <2>2 DEF ReactInv
<1>4. CASE ExpireSeen(k)
  <2>1. ReactTypeOK'
    BY <1>4 DEF ExpireSeen, ReactInv, ReactTypeOK, rowVars
  <2>2. SharesCounted'
    BY <1>4 DEF ExpireSeen, ReactInv, SharesCounted
  <2>. QED BY <1>2, <2>1, <2>2 DEF ReactInv
<1>. QED BY <1>3, <1>4

LEMMA RestartReacts == ASSUME ReactInv, Restart PROVE ReactInv'
<1>1. ReactTypeOK'
  BY DEF Restart, ReactInv, ReactTypeOK, rowVars
<1>2. RowsCounted'
  BY RowsStay DEF Restart, ReactInv, rowVars
<1>. QED BY <1>1, <1>2 DEF ReactInv, Restart, SharesCounted

LEMMA ContentMoves ==
    ASSUME ReactInv, MoveDrama \/ adminDeleteDrama \/ \E e \in Episodes : adminDeleteEpisode(e)
    PROVE  ReactInv'
<1>1. SharesCounted'
  BY DEF MoveDrama, adminDeleteDrama, adminDeleteEpisode, shareVars, ReactInv, SharesCounted
<1>2. CASE MoveDrama
  <2>1. ReactTypeOK'
    BY <1>2 DEF MoveDrama, shareVars, ReactInv, ReactTypeOK
  <2>2. RowsCounted'
    BY <1>2, RowsStay DEF MoveDrama, ReactInv
  <2>. QED BY <1>1, <2>1, <2>2 DEF ReactInv
<1>3. CASE adminDeleteDrama
  <2>1. ReactTypeOK'
    BY <1>3 DEF adminDeleteDrama, shareVars, ReactInv, ReactTypeOK
  <2>2. RowsCounted'
    BY <1>3 DEF adminDeleteDrama, RowsCounted
  <2>. QED BY <1>1, <2>1, <2>2 DEF ReactInv
<1>4. CASE \E e \in Episodes : adminDeleteEpisode(e)
  <2>1. PICK e \in Episodes : adminDeleteEpisode(e)
    BY <1>4
  <2>2. ReactTypeOK'
    BY <2>1 DEF adminDeleteEpisode, shareVars, ReactInv, ReactTypeOK
  <2>3. EpisodeLikes' = EpisodeLikes /\ \A d : LikersOf(d)' = LikersOf(d)
    BY <2>1 DEF adminDeleteEpisode, EpisodeLikes, LikersOf
  <2>4. \A d \in eps' : d \in eps /\ epLikes'[d] = epLikes[d]
    BY <2>1 DEF adminDeleteEpisode, ReactInv, ReactTypeOK
  <2>5. RowsCounted'
    BY <2>1, <2>3, <2>4 DEF adminDeleteEpisode, ReactInv, RowsCounted
  <2>. QED BY <1>1, <2>2, <2>5 DEF ReactInv
<1>. QED BY <1>2, <1>3, <1>4

LEMMA ReactInvStep == ReactInv /\ [ReactNext]_reactVars => ReactInv'
<1> SUFFICES ASSUME ReactInv, [ReactNext]_reactVars PROVE ReactInv'
  OBVIOUS
<1>1. ASSUME NEW q \in Calls, NEW u \in Users, NEW e \in Episodes,
             appLikeEpisode(q, u, e) \/ appUnlikeEpisode(q, u, e)
      PROVE  ReactInv'
  BY <1>1, BeginReacts DEF appLikeEpisode, appUnlikeEpisode
<1>2. ASSUME NEW q \in Calls, NEW u \in Users, appFavoriteDrama(q, u) \/ appUnfavoriteDrama(q, u)
      PROVE  ReactInv'
  BY <1>2, BeginReacts DEF appFavoriteDrama, appUnfavoriteDrama
<1>3. ASSUME NEW q \in Calls, appToggleEpisodeLike(q) \/ appToggleFavorite(q) PROVE ReactInv'
  BY <1>3, ToggleLikeStep, ToggleFavoriteStep
<1>4. ASSUME NEW q \in Calls, RollBack(q) PROVE ReactInv'
  <2>1. ReactTypeOK'
    BY <1>4 DEF RollBack, TapOver, rowVars, shareVars, ReactInv, ReactTypeOK
  <2>2. RowsCounted'
    BY <1>4, RowsStay DEF RollBack, ReactInv, rowVars
  <2>. QED BY <1>4, <2>1, <2>2 DEF RollBack, shareVars, ReactInv, SharesCounted
<1>5. ASSUME NEW k \in ShareKeys, NEW answers \in BOOLEAN, NEW saved \in BOOLEAN,
             appShareDrama(k, answers, saved)
      PROVE  ReactInv'
  BY <1>5, ShareStep
<1>6. ASSUME NEW k \in ShareKeys, ExpireKey(k) \/ ExpireSeen(k) PROVE ReactInv'
  BY <1>6, ExpiryStep
<1>7. CASE UNCHANGED reactVars
  <2>1. RowsCounted'
    BY <1>7, RowsStay DEF reactVars, ReactInv
  <2>. QED BY <1>7, <2>1 DEF reactVars, ReactInv, ReactTypeOK, SharesCounted
<1>. QED BY <1>1, <1>2, <1>3, <1>4, <1>5, <1>6, <1>7, ContentMoves, RestartReacts DEF ReactNext

LEMMA ReactInvariance == ReactSpec => []ReactInv
BY ReactInvInit, ReactInvStep, PTL DEF ReactSpec

(* Rows name users and episodes, no counter falls below zero, and a call   *)
(* holds what a handler can have read (app_action.go).                     *)
THEOREM ReactionsTypes == ReactSpec => []ReactTypeOK
<1>1. ReactInv => ReactTypeOK
  BY DEF ReactInv
<1>. QED BY <1>1, ReactInvariance, PTL

(* Every counter of an episode and of the drama is the number of the rows  *)
(* it stands for, whatever taps are repeated, cross, are rolled back or    *)
(* outlive the episode, and a share counts once in a window unless Redis   *)
(* failed in it (app_action.go, app_share_page.go).                        *)
THEOREM CountersAreKept == ReactSpec => []CountersKept
<1>1. ReactInv => CountersKept
  <2>1. ReactInv => CountersMatchRows
    BY DEF ReactInv, RowsCounted, EpisodeLikes, CountersMatchRows, appListLikes, appListFavorites,
       LikersOf
  <2>2. ReactInv => SharesOncePerWindow
    BY DEF ReactInv, SharesCounted, SharesOncePerWindow
  <2>. QED BY <2>1, <2>2 DEF CountersKept
<1>. QED BY <1>1, ReactInvariance, PTL

-----------------------------------------------------------------------------
(* Comments and messages.                                                  *)

LikedBy(c) == {u \in Likers : <<c, u>> \in commentLikes}
RepliesTo(c) == {d \in Written : comments[d].parent = c}

(* What a call that answers comment c read of it, and of its top comment.  *)
Answers(call) ==
    /\ call.about \in Written /\ call.parent \in Written
    /\ call.parent = TopOf(call.about)
    /\ comments[call.parent].parent = None
    /\ call.to = comments[call.about].user
    /\ call.ep = comments[call.about].ep /\ call.ep = comments[call.parent].ep
    /\ call.replyTo # None =>
         comments[call.about].parent = call.parent /\ call.replyTo = comments[call.about].user

CallFits(call) ==
    /\ call.op \in {"comment", "tellReply"} =>
         IF call.parent = None THEN call.op = "comment" /\ call.replyTo = None ELSE Answers(call)
    /\ call.op = "tellReply" =>
         /\ call.to # call.user /\ call.reply \in Written
         /\ comments[call.reply].user = call.user /\ comments[call.reply].parent = call.parent
         /\ comments[call.reply].ep = call.ep
    /\ call.op \in {"like", "unlike"} => call.about \in Written /\ call.user \in Likers

CallsFit == \A q \in Calls : calls[q] # NoCall => CallFits(calls[q])

(* A reply is told by one call, and then by one message.                   *)
ToldOnce ==
    /\ \A q, r \in Calls :
         calls[q].op = "tellReply" /\ calls[r].op = "tellReply" /\ calls[q].reply = calls[r].reply => q = r
    /\ \A q \in Calls, m \in messages : calls[q].op = "tellReply" => m.reply # calls[q].reply
    /\ \A m, n \in messages : m.reply = n.reply => m = n

(* Every message is of a reply: the upsert of a like's message finds no    *)
(* index.                                                                  *)
MessageFits(m) ==
    /\ m.type = "comment_reply" /\ m.comment \in Written /\ m.reply \in Written
    /\ m.to = comments[m.comment].user /\ m.actor # m.to
    /\ comments[m.reply].ep = comments[m.comment].ep
    /\ comments[m.reply].user = m.actor /\ comments[m.reply].parent = TopOf(m.comment)

MessagesFit == \A m \in messages : MessageFits(m)

(* A comment not yet written has neither likes nor replies.                *)
LikesOfRows == \A c \in Ids : LikedBy(c) # {} => c \in Written

NumbersRight ==
    /\ \A c \in Ids : IsFiniteSet(LikedBy(c))
    /\ \A c \in Live : /\ comments[c].likes = Cardinality(LikedBy(c))
                       /\ comments[c].replies = Cardinality(RepliesTo(c))

CommentInv == /\ CommentTypeOK /\ CallsFit /\ ToldOnce /\ MessagesFit
              /\ TwoLevels /\ LikesOfRows /\ NumbersRight

LEMMA Nobody ==
    /\ None \notin Users /\ None \notin Ids /\ None \notin Eps
    /\ Absent.user = None /\ Absent.deleted = TRUE /\ Absent \notin Comment
    /\ NoCall.op = "none" /\ NoCall \notin Call
<1>1. None \notin Nat /\ Ids \subseteq Nat
  BY CommentsAssumption DEF Ids
<1>. QED BY <1>1, CommentsAssumption DEF Absent, Comment, NoCall, Call

LEMMA Rows ==
    ASSUME CommentTypeOK
    PROVE  /\ Live \subseteq Written /\ Written \subseteq Ids
           /\ \A c \in Written : /\ comments[c] \in Comment /\ comments[c].user \in Users
                                 /\ comments[c].ep \in Eps \cup {None} /\ comments[c].parent \in OptId
                                 /\ comments[c].replyTo \in Users \cup {None}
                                 /\ comments[c].likes \in Nat /\ comments[c].replies \in Nat
                                 /\ comments[c].deleted \in BOOLEAN
<1>1. Live \subseteq Written /\ Written \subseteq Ids
  BY Nobody DEF Live, Written
<1>2. \A c \in Written : comments[c] \in Comment
  BY DEF CommentTypeOK, Written
<1>. QED BY <1>1, <1>2 DEF Comment

LEMMA CallTypes ==
    ASSUME CommentTypeOK, NEW q \in Calls, calls[q] # NoCall
    PROVE  /\ calls[q] \in Call /\ calls[q].user \in Users /\ calls[q].about \in OptId
           /\ calls[q].to \in Users \cup {None} /\ calls[q].ep \in Eps \cup {None}
           /\ calls[q].parent \in OptId /\ calls[q].replyTo \in Users \cup {None}
           /\ calls[q].reply \in OptId
           /\ calls[q].op \in {"comment", "like", "unlike", "tellReply", "tellLike"}
BY DEF CommentTypeOK, Call

LEMMA CommentInvInit == CommentInit => CommentInv
<1> SUFFICES ASSUME CommentInit PROVE CommentInv
  OBVIOUS
<1>1. CommentTypeOK
  BY DEF CommentInit, CommentTypeOK
<1>2. Written = {} /\ Live = {}
  BY Nobody DEF CommentInit, Written, Live
<1>3. \A c \in Ids : LikedBy(c) = {}
  BY DEF CommentInit, LikedBy
<1>. QED BY <1>1, <1>2, <1>3, Nobody, FS_EmptySet
     DEF CommentInit, CommentInv, CallsFit, ToldOnce, MessagesFit, TwoLevels, LikesOfRows, NumbersRight

(* What is written of a comment, its numbers and deletion apart, stays. *)
SameRows == \A c \in Written :
    /\ c \in Written' /\ comments'[c].user = comments[c].user /\ comments'[c].ep = comments[c].ep
    /\ comments'[c].parent = comments[c].parent /\ comments'[c].replyTo = comments[c].replyTo

LEMMA TopStays ==
    ASSUME SameRows, NEW c \in Written
    PROVE  TopOf(c)' = TopOf(c)
BY DEF SameRows, TopOf

LEMMA FitsStill ==
    ASSUME SameRows, NEW call, CallFits(call)
    PROVE  CallFits(call)'
<1>1. Answers(call) => Answers(call)'
  BY TopStays DEF SameRows, Answers
<1>. QED BY <1>1 DEF CallFits, SameRows

LEMMA MessageStill ==
    ASSUME SameRows, NEW m, MessageFits(m)
    PROVE  MessageFits(m)'
BY TopStays DEF SameRows, MessageFits

(* Calls and messages, when one call moves. *)
LEMMA CallsMove ==
    ASSUME CommentInv, SameRows, NEW q \in Calls, NEW c, calls' = [calls EXCEPT ![q] = c],
           c \in Call \cup {NoCall}, c # NoCall => CallFits(c)'
    PROVE  CallsFit' /\ calls' \in [Calls -> Call \cup {NoCall}]
<1>1. calls' \in [Calls -> Call \cup {NoCall}]
  BY DEF CommentInv, CommentTypeOK
<1>2. \A r \in Calls : calls'[r] = IF r = q THEN c ELSE calls[r]
  BY DEF CommentInv, CommentTypeOK
<1>3. ASSUME NEW r \in Calls, calls'[r] # NoCall PROVE CallFits(calls[r])'
  <2>1. PICK d : d = calls'[r]
    OBVIOUS
  <2>2. CASE r = q
    BY <1>2, <1>3, <2>1, <2>2
  <2>3. CASE r # q
    <3>1. CallFits(d)
      BY <1>2, <1>3, <2>1, <2>3 DEF CommentInv, CallsFit
    <3>2. CallFits(d)'
      BY <3>1, FitsStill
    <3>. QED BY <2>1, <3>2
  <2>. QED BY <2>2, <2>3
<1>. QED BY <1>1, <1>3 DEF CallsFit

LEMMA MessagesStay ==
    ASSUME CommentInv, SameRows, NEW gone, messages' = messages \ gone
    PROVE  MessagesFit'
<1>. SUFFICES ASSUME NEW m \in messages' PROVE MessageFits(m)'
  BY DEF MessagesFit
<1>1. PICK n : n = m
  OBVIOUS
<1>2. MessageFits(n)
  BY <1>1 DEF CommentInv, MessagesFit
<1>3. MessageFits(n)'
  BY <1>2, MessageStill
<1>. QED BY <1>1, <1>3

(* The rows, their numbers and the likes stay. *)
LEMMA RowsAsTheyWere ==
    ASSUME CommentInv, UNCHANGED <<comments, commentLikes>>
    PROVE  SameRows /\ TwoLevels' /\ LikesOfRows' /\ NumbersRight'
<1>1. Written' = Written /\ Live' = Live
  BY DEF Written, Live
<1>2. \A c : LikedBy(c)' = LikedBy(c) /\ RepliesTo(c)' = RepliesTo(c)
  BY <1>1 DEF LikedBy, RepliesTo
<1>3. SameRows
  BY <1>1 DEF SameRows
<1>4. TwoLevels'
  BY <1>1 DEF CommentInv, TwoLevels
<1>. QED BY <1>1, <1>2, <1>3, <1>4 DEF CommentInv, LikesOfRows, NumbersRight

(* A call begins, goes on or ends, and writes nothing. *)
LEMMA CallAlone ==
    ASSUME CommentInv, NEW q \in Calls, NEW c, calls' = [calls EXCEPT ![q] = c],
           c \in Call \cup {NoCall}, c # NoCall => CallFits(c)', c.op # "tellReply",
           UNCHANGED <<comments, commentLikes, messages>>
    PROVE  CommentInv'
<1>1. SameRows /\ TwoLevels' /\ LikesOfRows' /\ NumbersRight'
  BY RowsAsTheyWere
<1>2. CallsFit' /\ calls' \in [Calls -> Call \cup {NoCall}]
  BY <1>1, CallsMove
<1>3. MessagesFit'
  BY <1>1, MessagesStay
<1>4. CommentTypeOK'
  BY <1>2 DEF CommentInv, CommentTypeOK
<1>5. ToldOnce'
  <2>1. \A r \in Calls : calls'[r] = IF r = q THEN c ELSE calls[r]
    BY DEF CommentInv, CommentTypeOK
  <2>. QED BY <2>1 DEF CommentInv, ToldOnce
<1>. QED BY <1>1, <1>2, <1>3, <1>4, <1>5 DEF CommentInv

LEMMA CreateCommentStep ==
    ASSUME CommentInv, NEW q \in Calls, NEW u \in Users, NEW e \in Eps \cup {None}, appCreateComment(q, u, e)
    PROVE  CommentInv'
<1>1. PICK c : c = [NewCall("comment", u) EXCEPT !.ep = e]
  OBVIOUS
<1>2. c \in Call /\ c.op = "comment" /\ c.parent = None /\ c.replyTo = None
  BY <1>1 DEF NewCall, NoCall, Call, OptId
<1>3. CallFits(c)'
  BY <1>2 DEF CallFits
<1>. QED BY <1>1, <1>2, <1>3, CallAlone DEF appCreateComment

LEMMA CreateReplyStep ==
    ASSUME CommentInv, NEW q \in Calls, NEW u \in Users, NEW d \in Ids, CreateReply(q, u, d)
    PROVE  CommentInv'
<1>1. d \in Written /\ comments[d].user \in Users /\ comments[d].ep \in Eps \cup {None}
      /\ comments[d].parent \in OptId
  BY Rows DEF CommentInv, CreateReply
<1>2. PICK to, ep, top, named :
        /\ to = comments[d].user /\ ep = comments[d].ep /\ top = TopOf(d)
        /\ named = IF comments[d].parent = None THEN None ELSE comments[d].user
  OBVIOUS
<1>3. /\ top \in Ids /\ top \in Written /\ comments[top].parent = None /\ comments[top].ep = ep
      /\ named # None => comments[d].parent = top /\ named = comments[d].user
  <2>1. CASE comments[d].parent = None
    BY <1>1, <1>2, <2>1 DEF TopOf
  <2>2. CASE comments[d].parent # None
    BY <1>1, <1>2, <2>2 DEF TopOf, OptId, CommentInv, TwoLevels
  <2>. QED BY <2>1, <2>2
<1>4. PICK c : c = [NewCall("comment", u) EXCEPT !.about = d, !.to = to, !.ep = ep, !.parent = top,
                                                 !.replyTo = named]
  OBVIOUS
<1>5. calls' = [calls EXCEPT ![q] = c] /\ UNCHANGED <<comments, commentLikes, messages>>
  BY <1>2, <1>4 DEF CreateReply
<1>6. /\ c.op = "comment" /\ c.user = u /\ c.about = d /\ c.to = to /\ c.ep = ep /\ c.parent = top
      /\ c.replyTo = named /\ c.reply = None
  BY <1>4 DEF NewCall, NoCall
<1>7. c \in Call
  <2>1. c = [op |-> "comment", user |-> u, about |-> d, to |-> to, ep |-> ep, parent |-> top,
             replyTo |-> named, reply |-> None]
    BY <1>4 DEF NewCall, NoCall
  <2>2. d \in OptId /\ top \in OptId /\ None \in OptId
    BY <1>3 DEF OptId
  <2>3. to \in Users \cup {None} /\ ep \in Eps \cup {None} /\ named \in Users \cup {None}
    BY <1>1, <1>2
  <2>. QED BY <2>1, <2>2, <2>3 DEF Call
<1>8. CallFits(c)
  <2>1. Answers(c)
    BY <1>1, <1>2, <1>3, <1>6 DEF Answers
  <2>. QED BY <1>3, <1>6, <2>1, Nobody DEF CallFits
<1>9. CallFits(c)'
  BY <1>5, <1>8, RowsAsTheyWere, FitsStill
<1>. QED BY <1>5, <1>6, <1>7, <1>9, CallAlone

LEMMA LikeCallStep ==
    ASSUME CommentInv, NEW q \in Calls, NEW u \in Likers, NEW d \in Ids,
           appLikeComment(q, u, d) \/ appUnlikeComment(q, u, d)
    PROVE  CommentInv'
<1>1. d \in Written /\ comments[d].user \in Users /\ u \in Users
  BY Rows, CommentsAssumption DEF CommentInv, appLikeComment, appUnlikeComment
<1>2. PICK to : to = comments[d].user
  OBVIOUS
<1>3. PICK c : /\ \/ c = [NewCall("like", u) EXCEPT !.about = d, !.to = to]
                  \/ c = [NewCall("unlike", u) EXCEPT !.about = d]
               /\ calls' = [calls EXCEPT ![q] = c]
  BY <1>2 DEF appLikeComment, appUnlikeComment
<1>4. UNCHANGED <<comments, commentLikes, messages>>
  BY DEF appLikeComment, appUnlikeComment
<1>5. c \in Call /\ c.op \in {"like", "unlike"} /\ c.about = d /\ c.user = u
  <2>1. CASE c = [NewCall("like", u) EXCEPT !.about = d, !.to = to]
    BY <1>1, <1>2, <2>1 DEF NewCall, NoCall, Call, OptId
  <2>2. CASE c = [NewCall("unlike", u) EXCEPT !.about = d]
    BY <1>1, <2>2 DEF NewCall, NoCall, Call, OptId
  <2>. QED BY <1>3, <2>1, <2>2
<1>6. CallFits(c)
  BY <1>1, <1>5 DEF CallFits
<1>7. CallFits(c)'
  BY <1>4, <1>6, RowsAsTheyWere, FitsStill
<1>. QED BY <1>3, <1>4, <1>5, <1>7, CallAlone

(* A call ends without having written. *)
LEMMA OverStep ==
    ASSUME CommentInv, NEW q \in Calls, Over(q), UNCHANGED <<comments, commentLikes, messages>>
    PROVE  CommentInv'
<1>1. PICK c : c = NoCall
  OBVIOUS
<1>2. calls' = [calls EXCEPT ![q] = c] /\ c.op # "tellReply"
  BY <1>1, Nobody DEF Over
<1>. QED BY <1>1, <1>2, CallAlone

LEMMA LowestId ==
    ASSUME NEW S \in SUBSET Ids, S # {}
    PROVE  (CHOOSE c \in S : \A d \in S : c <= d) \in S
<1>1. S \subseteq Nat
  BY CommentsAssumption DEF Ids
<1>2. PICK x \in S : \A y \in S : ~ (<<y, x>> \in OpToRel(<, Nat))
  BY <1>1, NatLessThanWellFounded, WFMin
<1>3. OpToRel(<, Nat) = {ss \in Nat \X Nat : ss[1] < ss[2]}
  BY Zenon DEF OpToRel
<1>4. \A y \in S : ~(y < x)
  BY <1>1, <1>2, <1>3
<1>5. \A y \in S : x <= y
  BY <1>1, <1>4
<1>. QED BY <1>5

(* What the transaction of a new comment does to the rows. *)
LEMMA WrittenRows ==
    ASSUME CommentInv, NEW q \in Calls, WriteComment(q), NEW call, call = calls[q],
           NEW id, id = CHOOSE c \in Ids \ Written : \A d \in Ids \ Written : c <= d
    PROVE  /\ id \in Ids /\ id \notin Written /\ call.parent # id
           /\ call.parent # None => call.parent \in Written
           /\ comments' \in [Ids -> Comment \cup {Absent}]
           /\ comments'[id] = [user |-> call.user, ep |-> call.ep, parent |-> call.parent,
                               replyTo |-> call.replyTo, likes |-> 0, replies |-> 0, deleted |-> FALSE]
           /\ \A c \in Ids \ {id} : comments'[c] =
                IF c = call.parent /\ c \in Live THEN [comments[c] EXCEPT !.replies = comments[c].replies + 1]
                ELSE comments[c]
           /\ CallFits(call) /\ call.op = "comment"
<1>1. Written \subseteq Ids /\ Ids # Written
  BY DEF WriteComment, Written
<1>2. id \in Ids /\ id \notin Written
  BY <1>1, LowestId
<1>3. CallFits(call) /\ call.op = "comment" /\ calls[q] # NoCall
  BY Nobody DEF WriteComment, CommentInv, CallsFit
<1>4. call.parent # None => call.parent \in Written
  BY <1>3 DEF CallFits, Answers
<1>5. call.parent # id
  BY <1>2, <1>4, Nobody
<1>6. PICK row : row = [user |-> call.user, ep |-> call.ep, parent |-> call.parent,
                        replyTo |-> call.replyTo, likes |-> 0, replies |-> 0, deleted |-> FALSE]
  OBVIOUS
<1>7. row \in Comment
  <2>1. call.user \in Users /\ call.ep \in Eps \cup {None} /\ call.parent \in OptId
        /\ call.replyTo \in Users \cup {None}
    BY <1>3, CallTypes DEF CommentInv
  <2>. QED BY <1>6, <2>1 DEF Comment
<1>8. PICK rows : rows = WithReply(call.parent, comments)
  OBVIOUS
<1>9. comments' = [rows EXCEPT ![id] = row]
  BY <1>6, <1>8 DEF WriteComment
<1>10. /\ rows \in [Ids -> Comment \cup {Absent}]
       /\ \A c \in Ids : rows[c] =
            IF c = call.parent /\ c \in Live THEN [comments[c] EXCEPT !.replies = comments[c].replies + 1]
            ELSE comments[c]
  <2>0. comments \in [Ids -> Comment \cup {Absent}]
    BY DEF CommentInv, CommentTypeOK
  <2>1. CASE call.parent # None /\ call.parent \in Live
    <3>1. call.parent \in Ids /\ comments[call.parent] \in Comment
      BY <1>1, <1>4, <2>1, Rows DEF CommentInv
    <3>2. PICK new : new = [comments[call.parent] EXCEPT !.replies = comments[call.parent].replies + 1]
      OBVIOUS
    <3>3. new \in Comment
      BY <3>1, <3>2 DEF Comment
    <3>4. rows = [comments EXCEPT ![call.parent] = new]
      BY <1>8, <2>1, <3>2 DEF WithReply
    <3>. QED BY <2>0, <2>1, <3>1, <3>2, <3>3, <3>4
  <2>2. CASE ~(call.parent # None /\ call.parent \in Live)
    <3>1. rows = comments
      BY <1>8, <2>2 DEF WithReply
    <3>. QED BY <2>0, <2>2, <3>1, Nobody
  <2>. QED BY <2>1, <2>2
<1>11. comments' \in [Ids -> Comment \cup {Absent}] /\ comments'[id] = row
       /\ \A c \in Ids \ {id} : comments'[c] = rows[c]
  BY <1>2, <1>7, <1>9, <1>10
<1>. QED BY <1>2, <1>3, <1>4, <1>5, <1>6, <1>10, <1>11

LEMMA WrittenSets ==
    ASSUME CommentInv, NEW q \in Calls, WriteComment(q), NEW call, call = calls[q],
           NEW id, id = CHOOSE c \in Ids \ Written : \A d \in Ids \ Written : c <= d
    PROVE  /\ Written' = Written \cup {id} /\ Live' = Live \cup {id} /\ SameRows
           /\ \A c \in Ids : LikedBy(c)' = LikedBy(c)
           /\ \A c \in Ids \ {call.parent} : RepliesTo(c)' = RepliesTo(c)
           /\ call.parent # None => RepliesTo(call.parent)' = RepliesTo(call.parent) \cup {id}
           /\ LikedBy(id) = {} /\ RepliesTo(id) = {}
<1>1. /\ id \in Ids /\ id \notin Written /\ call.parent # id
      /\ comments' \in [Ids -> Comment \cup {Absent}]
      /\ comments'[id] = [user |-> call.user, ep |-> call.ep, parent |-> call.parent,
                          replyTo |-> call.replyTo, likes |-> 0, replies |-> 0, deleted |-> FALSE]
      /\ \A c \in Ids \ {id} : comments'[c] =
           IF c = call.parent /\ c \in Live THEN [comments[c] EXCEPT !.replies = comments[c].replies + 1]
           ELSE comments[c]
  BY WrittenRows
<1>2. comments'[id].parent = call.parent /\ comments'[id].deleted = FALSE
  BY <1>1
<1>3. \A c \in Written : /\ comments'[c].user = comments[c].user /\ comments'[c].ep = comments[c].ep
                         /\ comments'[c].parent = comments[c].parent
                         /\ comments'[c].replyTo = comments[c].replyTo
                         /\ comments'[c].deleted = comments[c].deleted
  <2>. SUFFICES ASSUME NEW c \in Written
                PROVE  /\ comments'[c].user = comments[c].user /\ comments'[c].ep = comments[c].ep
                       /\ comments'[c].parent = comments[c].parent
                       /\ comments'[c].replyTo = comments[c].replyTo
                       /\ comments'[c].deleted = comments[c].deleted
    OBVIOUS
  <2>1. c \in Ids \ {id} /\ comments[c] \in Comment
    BY <1>1, Rows DEF CommentInv
  <2>2. CASE c = call.parent /\ c \in Live
    BY <1>1, <2>1, <2>2 DEF Comment
  <2>3. CASE ~(c = call.parent /\ c \in Live)
    BY <1>1, <2>1, <2>3
  <2>. QED BY <2>2, <2>3
<1>4. \A c \in Ids \ Written : c # id => comments'[c] = Absent /\ comments[c] = Absent
  BY <1>1, Rows DEF CommentInv, Written
<1>5. \A c \in Written : comments'[c] # Absent
  BY <1>3, Rows, Nobody DEF CommentInv
<1>6. Written' = Written \cup {id}
  <2>1. comments'[id] # Absent
    BY <1>2, Nobody
  <2>. QED BY <1>1, <1>4, <1>5, <2>1 DEF Written
<1>7. Live' = Live \cup {id}
  <2>. SUFFICES ASSUME NEW c \in Ids PROVE ~comments'[c].deleted <=> ~comments[c].deleted \/ c = id
    BY <1>1 DEF Live
  <2>. QED BY <1>2, <1>3, <1>4
<1>8. SameRows
  BY <1>3, <1>6 DEF SameRows
<1>9. \A c \in Ids : LikedBy(c)' = LikedBy(c)
  BY DEF WriteComment, LikedBy
<1>10. \A c \in Ids : RepliesTo(c)' = IF c = call.parent THEN RepliesTo(c) \cup {id} ELSE RepliesTo(c)
  BY <1>2, <1>3, <1>6 DEF RepliesTo
<1>11. call.parent # None => call.parent \in Ids
  BY WrittenRows, Rows DEF CommentInv
<1>12. LikedBy(id) = {} /\ RepliesTo(id) = {}
  <2>1. \A d \in Written : comments[d].parent # id
    BY <1>1, Nobody DEF CommentInv, TwoLevels
  <2>. QED BY <1>1, <2>1 DEF CommentInv, LikesOfRows, RepliesTo
<1>. QED BY <1>6, <1>7, <1>8, <1>9, <1>10, <1>11, <1>12

LEMMA RepliesFinite ==
    ASSUME NEW c
    PROVE  IsFiniteSet(RepliesTo(c)) /\ Cardinality(RepliesTo(c)) \in Nat
<1>1. IsFiniteSet(Ids)
  BY CommentsAssumption, FS_Interval DEF Ids
<1>2. RepliesTo(c) \subseteq Ids
  BY DEF RepliesTo, Written
<1>. QED BY <1>1, <1>2, FS_Subset, FS_CardinalityType

LEMMA WriteCommentStep ==
    ASSUME CommentInv, NEW q \in Calls, WriteComment(q)
    PROVE  CommentInv'
<1>1. PICK call, id : /\ call = calls[q]
                      /\ id = CHOOSE c \in Ids \ Written : \A d \in Ids \ Written : c <= d
  OBVIOUS
<1>2. /\ id \in Ids /\ id \notin Written /\ call.parent # id
      /\ call.parent # None => call.parent \in Written
      /\ comments' \in [Ids -> Comment \cup {Absent}]
      /\ comments'[id] = [user |-> call.user, ep |-> call.ep, parent |-> call.parent,
                          replyTo |-> call.replyTo, likes |-> 0, replies |-> 0, deleted |-> FALSE]
      /\ \A c \in Ids \ {id} : comments'[c] =
           IF c = call.parent /\ c \in Live THEN [comments[c] EXCEPT !.replies = comments[c].replies + 1]
           ELSE comments[c]
      /\ CallFits(call) /\ call.op = "comment"
  BY <1>1, WrittenRows
<1>3. /\ Written' = Written \cup {id} /\ Live' = Live \cup {id} /\ SameRows
      /\ \A c \in Ids : LikedBy(c)' = LikedBy(c)
      /\ \A c \in Ids \ {call.parent} : RepliesTo(c)' = RepliesTo(c)
      /\ call.parent # None => RepliesTo(call.parent)' = RepliesTo(call.parent) \cup {id}
      /\ LikedBy(id) = {} /\ RepliesTo(id) = {}
  BY <1>1, WrittenSets
<1>4. /\ comments'[id].user = call.user /\ comments'[id].ep = call.ep
      /\ comments'[id].parent = call.parent /\ comments'[id].replyTo = call.replyTo
      /\ comments'[id].likes = 0 /\ comments'[id].replies = 0
  BY <1>2
<1>5. call \in Call /\ calls[q] # NoCall
  BY <1>1, <1>2, Nobody, CallTypes DEF CommentInv
<1>6. UNCHANGED <<messages, commentLikes>>
  BY DEF WriteComment
<1>7. PICK c : /\ calls' = [calls EXCEPT ![q] = c]
               /\ \/ c = NoCall
                  \/ ~Silent(call) /\ c = [call EXCEPT !.op = "tellReply", !.reply = id]
  <2>2. CASE Silent(call)
    BY <1>1, <2>2 DEF WriteComment, Over
  <2>3. CASE ~Silent(call)
    <3>1. calls' = [calls EXCEPT ![q] = [call EXCEPT !.op = "tellReply", !.reply = id]]
      BY <1>1, <2>3 DEF WriteComment
    <3>. QED BY <2>3, <3>1
  <2>. QED BY <2>2, <2>3
<1>8. c # NoCall => /\ c \in Call /\ c.op = "tellReply" /\ c.reply = id /\ c.user = call.user
                    /\ c.about = call.about /\ c.to = call.to /\ c.ep = call.ep
                    /\ c.parent = call.parent /\ c.replyTo = call.replyTo
  BY <1>2, <1>5, <1>7 DEF Call, OptId
<1>9. c # NoCall => CallFits(c)'
  <2>. SUFFICES ASSUME c # NoCall PROVE CallFits(c)'
    OBVIOUS
  <2>1. call.parent # None /\ call.to # call.user
    BY <1>7 DEF Silent
  <2>2. CallFits(call)'
    BY <1>2, <1>3, FitsStill
  <2>3. Answers(call)'
    BY <1>2, <2>1, <2>2 DEF CallFits
  <2>4. Answers(c)'
    BY <1>8, <2>3 DEF Answers
  <2>. QED BY <1>3, <1>4, <1>8, <2>1, <2>4 DEF CallFits
<1>10. CallsFit' /\ calls' \in [Calls -> Call \cup {NoCall}]
  BY <1>3, <1>7, <1>8, <1>9, CallsMove
<1>11. MessagesFit'
  BY <1>3, <1>6, MessagesStay
<1>12. CommentTypeOK'
  BY <1>2, <1>6, <1>10 DEF CommentInv, CommentTypeOK
<1>13. ToldOnce'
  <2>1. \A r \in Calls : calls'[r] = IF r = q THEN c ELSE calls[r]
    BY <1>7 DEF CommentInv, CommentTypeOK
  <2>2. \A r \in Calls : calls[r].op = "tellReply" => calls[r].reply # id
    BY <1>2, Nobody DEF CommentInv, CallsFit, CallFits
  <2>3. \A m \in messages : m.reply # id
    BY <1>2 DEF CommentInv, MessagesFit, MessageFits
  <2>4. c.op = "tellReply" => c.reply = id
    BY <1>8, Nobody
  <2>. QED BY <1>6, <2>1, <2>2, <2>3, <2>4 DEF CommentInv, ToldOnce
<1>14. TwoLevels'
  <2>. SUFFICES ASSUME NEW d \in Written', comments'[d].parent # None
                PROVE  /\ comments'[d].parent \in Written'
                       /\ comments'[comments'[d].parent].parent = None
                       /\ comments'[comments'[d].parent].ep = comments'[d].ep
                       /\ comments'[d].replyTo # None =>
                            \E b \in Written' : comments'[b].parent = comments'[d].parent
                                                /\ comments'[b].user = comments'[d].replyTo
    BY DEF TwoLevels
  <2>1. CASE d = id
    <3>1. Answers(call)
      BY <1>2, <1>4, <2>1 DEF CallFits
    <3>2. PICK p : p = call.parent
      OBVIOUS
    <3>3. p \in Written /\ comments[p].parent = None /\ comments[p].ep = call.ep
          /\ comments'[d].parent = p /\ comments'[d].ep = call.ep
      BY <1>4, <2>1, <3>1, <3>2 DEF Answers
    <3>4. comments'[p].parent = None /\ comments'[p].ep = call.ep
      BY <1>3, <3>3 DEF SameRows
    <3>5. ASSUME comments'[d].replyTo # None
          PROVE  \E b \in Written' : comments'[b].parent = p /\ comments'[b].user = comments'[d].replyTo
      <4>1. call.about \in Written /\ comments[call.about].parent = p
            /\ comments[call.about].user = comments'[d].replyTo
        BY <1>4, <2>1, <3>1, <3>2, <3>5 DEF Answers
      <4>. QED BY <1>3, <4>1 DEF SameRows
    <3>. QED BY <1>3, <3>3, <3>4, <3>5
  <2>2. CASE d \in Written
    <3>1. PICK p : p = comments[d].parent
      OBVIOUS
    <3>2. comments'[d].parent = p /\ comments'[d].ep = comments[d].ep
          /\ comments'[d].replyTo = comments[d].replyTo
      BY <1>3, <2>2, <3>1 DEF SameRows
    <3>3. /\ p \in Written /\ comments[p].parent = None /\ comments[p].ep = comments[d].ep
          /\ comments[d].replyTo # None =>
               \E b \in Written : comments[b].parent = p /\ comments[b].user = comments[d].replyTo
      BY <2>2, <3>1, <3>2 DEF CommentInv, TwoLevels
    <3>4. comments'[p].parent = None /\ comments'[p].ep = comments[p].ep
      BY <1>3, <3>3 DEF SameRows
    <3>5. ASSUME comments[d].replyTo # None
          PROVE  \E b \in Written' : comments'[b].parent = p /\ comments'[b].user = comments[d].replyTo
      BY <1>3, <3>3, <3>5 DEF SameRows
    <3>. QED BY <1>3, <3>2, <3>3, <3>4, <3>5
  <2>. QED BY <1>3, <2>1, <2>2
<1>15. LikesOfRows'
  BY <1>3 DEF CommentInv, LikesOfRows
<1>16. NumbersRight'
  <2>1. \A d \in Ids : IsFiniteSet(LikedBy(d)')
    BY <1>3 DEF CommentInv, NumbersRight
  <2>2. ASSUME NEW d \in Live'
        PROVE  comments'[d].likes = Cardinality(LikedBy(d)') /\ comments'[d].replies = Cardinality(RepliesTo(d)')
    <3>1. CASE d = id
      BY <1>2, <1>3, <1>4, <3>1, FS_EmptySet
    <3>2. CASE d # id /\ d # call.parent
      <4>1. d \in Live /\ d \in Ids
        BY <1>3, <2>2, <3>2 DEF Live
      <4>. QED BY <1>2, <1>3, <3>2, <4>1 DEF CommentInv, NumbersRight
    <3>3. CASE d # id /\ d = call.parent
      <4>1. d \in Live /\ d \in Ids /\ comments[d] \in Comment
        BY <1>3, <2>2, <3>3, Rows DEF CommentInv
      <4>2. comments'[d].likes = comments[d].likes /\ comments'[d].replies = comments[d].replies + 1
        BY <1>2, <3>3, <4>1 DEF Comment
      <4>3. id \notin RepliesTo(d)
        BY <1>2 DEF RepliesTo
      <4>4. Cardinality(RepliesTo(d) \cup {id}) = Cardinality(RepliesTo(d)) + 1
        BY <4>3, RepliesFinite, FS_AddElement
      <4>5. RepliesTo(d)' = RepliesTo(d) \cup {id} /\ LikedBy(d)' = LikedBy(d)
        BY <1>3, <3>3, <4>1, Nobody
      <4>. QED BY <4>1, <4>2, <4>4, <4>5 DEF CommentInv, NumbersRight
    <3>. QED BY <3>1, <3>2, <3>3
  <2>. QED BY <2>1, <2>2 DEF NumbersRight
<1>. QED BY <1>10, <1>11, <1>12, <1>13, <1>14, <1>15, <1>16 DEF CommentInv

(* The message of a reply is the only one about it, and true. *)
LEMMA EmitReplyStep ==
    ASSUME CommentInv, NEW q \in Calls, emitCommentReplyMessage(q)
    PROVE  CommentInv'
<1>1. PICK call : call = calls[q]
  OBVIOUS
<1>2. PICK m : m = [type |-> "comment_reply", to |-> call.to, comment |-> call.about,
                    reply |-> call.reply, actor |-> call.user, read |-> FALSE]
  OBVIOUS
<1>3. /\ call.op = "tellReply" /\ messages' = messages \cup {m}
      /\ calls' = [calls EXCEPT ![q] = NoCall] /\ UNCHANGED <<comments, commentLikes>>
  BY <1>1, <1>2 DEF emitCommentReplyMessage, Recipient, Over
<1>4. /\ m.type = "comment_reply" /\ m.to = call.to /\ m.comment = call.about /\ m.reply = call.reply
      /\ m.actor = call.user /\ m.read = FALSE
  BY <1>2
<1>5. CallFits(call) /\ call \in Call
  BY <1>1, <1>3, Nobody DEF CommentInv, CallsFit, CommentTypeOK
<1>6. Answers(call) /\ call.to # call.user /\ call.reply \in Written
      /\ comments[call.reply].user = call.user /\ comments[call.reply].parent = call.parent
      /\ comments[call.reply].ep = call.ep
  BY <1>3, <1>5 DEF CallFits
<1>7. MessageFits(m)
  BY <1>4, <1>6 DEF MessageFits, Answers
<1>8. m \in Message
  <2>1. call.to \in Users /\ call.about \in Ids /\ call.reply \in Ids /\ call.user \in Users
    BY <1>5, <1>6, Rows, CallTypes DEF CommentInv, Answers, Call
  <2>. QED BY <1>2, <2>1 DEF Message, OptId
<1>9. SameRows /\ TwoLevels' /\ LikesOfRows' /\ NumbersRight'
  BY <1>3, RowsAsTheyWere
<1>10. CallsFit' /\ calls' \in [Calls -> Call \cup {NoCall}]
  BY <1>3, <1>9, CallsMove
<1>11. CommentTypeOK'
  BY <1>3, <1>8, <1>10 DEF CommentInv, CommentTypeOK
<1>12. MessagesFit'
  <2>. SUFFICES ASSUME NEW n \in messages' PROVE MessageFits(n)'
    BY DEF MessagesFit
  <2>1. PICK k : k = n
    OBVIOUS
  <2>2. MessageFits(k)
    BY <1>3, <1>7, <2>1 DEF CommentInv, MessagesFit
  <2>3. MessageFits(k)'
    BY <1>9, <2>2, MessageStill
  <2>. QED BY <2>1, <2>3
<1>13. ToldOnce'
  <2>1. \A r \in Calls : calls'[r] = IF r = q THEN NoCall ELSE calls[r]
    BY <1>3 DEF CommentInv, CommentTypeOK
  <2>2. \A n \in messages : n.reply # m.reply
    BY <1>1, <1>3, <1>4 DEF CommentInv, ToldOnce
  <2>3. \A r \in Calls : r # q /\ calls[r].op = "tellReply" => m.reply # calls[r].reply
    BY <1>1, <1>3, <1>4 DEF CommentInv, ToldOnce
  <2>. QED BY <1>3, <2>1, <2>2, <2>3, Nobody DEF CommentInv, ToldOnce
<1>. QED BY <1>9, <1>10, <1>11, <1>12, <1>13 DEF CommentInv

LEMMA EmitLikeStep ==
    ASSUME CommentInv, NEW q \in Calls, emitCommentLikeMessage(q)
    PROVE  CommentInv'
<1>1. ConflictTarget # LikeIndex
  <2>1. "type" \in ConflictTarget /\ "type" \notin LikeIndex
    BY DEF ConflictTarget, LikeIndex
  <2>. QED BY <2>1
<1>2. Over(q) /\ UNCHANGED <<comments, commentLikes, messages>>
  BY <1>1 DEF emitCommentLikeMessage
<1>. QED BY <1>2, OverStep

LEMMA ToggleStep ==
    ASSUME CommentInv, NEW q \in Calls, appToggleCommentLike(q)
    PROVE  CommentInv'
<1>0. PICK call, b, u : call = calls[q] /\ b = calls[q].about /\ u = calls[q].user
  OBVIOUS
<1>1. PICK enable \in BOOLEAN :
        call = calls[q] /\ b = call.about /\ u = call.user /\ enable = (call.op = "like")
  BY <1>0
<1>2. PICK changed \in BOOLEAN : changed = ((<<b, u>> \in commentLikes) # enable)
  OBVIOUS
<1>3. /\ call.op \in {"like", "unlike"}
      /\ commentLikes' = IF enable THEN commentLikes \cup {<<b, u>>} ELSE commentLikes \ {<<b, u>>}
      /\ comments' = IF changed /\ b \in Live
                     THEN [comments EXCEPT ![b].likes = Counted(comments[b].likes, enable)] ELSE comments
      /\ UNCHANGED messages
  BY <1>1, <1>2 DEF appToggleCommentLike
<1>4. CallFits(call) /\ call \in Call
  BY <1>1, <1>3, Nobody DEF CommentInv, CallsFit, CommentTypeOK
<1>5. b \in Written /\ b \in Ids /\ u \in Likers
  BY <1>1, <1>3, <1>4, Rows DEF CallFits, CommentInv
<1>6. PICK c : /\ calls' = [calls EXCEPT ![q] = c]
               /\ c \in Call \cup {NoCall} /\ c.op # "tellReply" /\ (c # NoCall => c.op = "tellLike")
  <2>1. CASE Over(q)
    BY <2>1, Nobody DEF Over
  <2>2. CASE calls' = [calls EXCEPT ![q].op = "tellLike"]
    <3>1. PICK d : d = [call EXCEPT !.op = "tellLike"]
      OBVIOUS
    <3>2. d \in Call /\ d.op = "tellLike"
      BY <1>4, <3>1 DEF Call
    <3>. QED BY <1>1, <2>2, <3>1, <3>2
  <2>. QED BY <2>1, <2>2 DEF appToggleCommentLike
<1>7. /\ \A d \in Ids : d # b => LikedBy(d)' = LikedBy(d)
      /\ LikedBy(b)' = IF enable THEN LikedBy(b) \cup {u} ELSE LikedBy(b) \ {u}
      /\ (u \in LikedBy(b)) = (<<b, u>> \in commentLikes)
  BY <1>3, <1>5 DEF LikedBy
<1>8. IsFiniteSet(LikedBy(b)')
  BY <1>5, <1>7, FS_AddElement, FS_RemoveElement DEF CommentInv, NumbersRight
<1>9. PICK new : /\ new = comments'[b] /\ new \in Comment
                 /\ new.user = comments[b].user /\ new.ep = comments[b].ep
                 /\ new.parent = comments[b].parent /\ new.replyTo = comments[b].replyTo
                 /\ new.deleted = comments[b].deleted /\ new.replies = comments[b].replies
                 /\ new.likes = IF changed /\ b \in Live THEN Counted(comments[b].likes, enable)
                                                         ELSE comments[b].likes
                 /\ comments' = [comments EXCEPT ![b] = new]
  <2>1. comments[b] \in Comment /\ comments \in [Ids -> Comment \cup {Absent}]
    BY <1>5, Rows DEF CommentInv, CommentTypeOK
  <2>2. CASE changed /\ b \in Live
    <3>1. PICK n : n = Counted(comments[b].likes, enable)
      OBVIOUS
    <3>2. n \in Nat
      BY <2>1, <3>1, CountedIsNat DEF Comment
    <3>3. PICK row : row = [comments[b] EXCEPT !.likes = n]
      OBVIOUS
    <3>4. comments' = [comments EXCEPT ![b] = row]
      BY <1>3, <2>2, <3>1, <3>3
    <3>5. /\ row \in Comment /\ row.user = comments[b].user /\ row.ep = comments[b].ep
          /\ row.parent = comments[b].parent /\ row.replyTo = comments[b].replyTo
          /\ row.deleted = comments[b].deleted /\ row.replies = comments[b].replies /\ row.likes = n
      BY <2>1, <3>2, <3>3 DEF Comment
    <3>. QED BY <1>5, <2>1, <2>2, <3>1, <3>4, <3>5
  <2>3. CASE ~(changed /\ b \in Live)
    BY <1>3, <1>5, <2>1, <2>3
  <2>. QED BY <2>2, <2>3
<1>10. /\ comments' \in [Ids -> Comment \cup {Absent}]
       /\ \A d \in Ids : comments'[d] = IF d = b THEN new ELSE comments[d]
  BY <1>5, <1>9 DEF CommentInv, CommentTypeOK
<1>11. Written' = Written
  BY <1>5, <1>9, <1>10, Nobody DEF Written
<1>12. Live' = Live
  BY <1>9, <1>10 DEF Live
<1>13. SameRows
  BY <1>9, <1>10, <1>11, Rows DEF SameRows, CommentInv
<1>14. \A d : RepliesTo(d)' = RepliesTo(d)
  BY <1>11, <1>13 DEF RepliesTo, SameRows
<1>15. c # NoCall => CallFits(c)'
  BY <1>6 DEF CallFits
<1>16. CallsFit' /\ calls' \in [Calls -> Call \cup {NoCall}]
  BY <1>6, <1>13, <1>15, CallsMove
<1>17. MessagesFit'
  BY <1>3, <1>13, MessagesStay
<1>18. CommentTypeOK'
  <2>1. commentLikes' \subseteq Ids \X Likers
    BY <1>3, <1>5 DEF CommentInv, CommentTypeOK
  <2>. QED BY <1>3, <1>10, <1>16, <2>1 DEF CommentInv, CommentTypeOK
<1>19. ToldOnce'
  <2>1. \A r \in Calls : calls'[r] = IF r = q THEN c ELSE calls[r]
    BY <1>6 DEF CommentInv, CommentTypeOK
  <2>. QED BY <1>3, <1>6, <2>1 DEF CommentInv, ToldOnce
<1>20. TwoLevels'
  BY <1>11, <1>13 DEF CommentInv, TwoLevels, SameRows
<1>21. LikesOfRows'
  BY <1>5, <1>7, <1>11 DEF CommentInv, LikesOfRows
<1>22. NumbersRight'
  <2>1. \A d \in Ids : IsFiniteSet(LikedBy(d)')
    BY <1>7, <1>8 DEF CommentInv, NumbersRight
  <2>2. ASSUME NEW d \in Live'
        PROVE  comments'[d].likes = Cardinality(LikedBy(d)') /\ comments'[d].replies = Cardinality(RepliesTo(d)')
    <3>1. d \in Live /\ d \in Ids /\ comments[d].likes = Cardinality(LikedBy(d))
          /\ comments[d].replies = Cardinality(RepliesTo(d)) /\ IsFiniteSet(LikedBy(d))
      BY <1>12, <2>2 DEF CommentInv, NumbersRight, Live
    <3>2. comments'[d].replies = comments[d].replies
      BY <1>9, <1>10, <3>1
    <3>3. CASE d # b
      BY <1>7, <1>10, <1>14, <3>1, <3>2, <3>3
    <3>4. CASE d = b /\ changed
      <4>1. (u \in LikedBy(b)) # enable
        BY <1>2, <1>7, <3>4
      <4>2. Cardinality(LikedBy(b)') = Counted(Cardinality(LikedBy(b)), enable)
        <5>1. PICK S, T : S = LikedBy(b) /\ T = LikedBy(b)'
          OBVIOUS
        <5>2. IsFiniteSet(S) /\ (u \in S) # enable /\ T = IF enable THEN S \cup {u} ELSE S \ {u}
          BY <1>7, <3>1, <3>4, <4>1, <5>1
        <5>. QED BY <5>1, <5>2, CountsOne
      <4>. QED BY <1>9, <1>14, <3>1, <3>2, <3>4, <4>2
    <3>5. CASE d = b /\ ~changed
      <4>1. LikedBy(b)' = LikedBy(b)
        BY <1>2, <1>7, <3>5
      <4>. QED BY <1>9, <1>14, <3>1, <3>2, <3>5, <4>1
    <3>. QED BY <3>3, <3>4, <3>5
  <2>. QED BY <2>1, <2>2 DEF NumbersRight
<1>. QED BY <1>16, <1>17, <1>18, <1>19, <1>20, <1>21, <1>22 DEF CommentInv

(* Messages are read or swept, and no call moves: every message was there, *)
(* perhaps unread.                                                         *)
LEMMA CallsWait ==
    ASSUME CommentInv, UNCHANGED <<comments, commentLikes, calls>>, messages' \subseteq Message,
           MessagesFit', \A m, n \in messages' : \E a, b \in messages :
                             a.reply = m.reply /\ b.reply = n.reply /\ (a = b => m = n)
    PROVE  CommentInv'
<1>1. SameRows /\ TwoLevels' /\ LikesOfRows' /\ NumbersRight'
  BY RowsAsTheyWere
<1>2. CommentTypeOK'
  BY DEF CommentInv, CommentTypeOK
<1>3. ToldOnce'
  <2>1. \A m, n \in messages' : m.reply = n.reply => m = n
    BY DEF CommentInv, ToldOnce
  <2>2. \A m \in messages' : \E a \in messages : a.reply = m.reply
    OBVIOUS
  <2>. QED BY <2>1, <2>2 DEF CommentInv, ToldOnce
<1>4. CallsFit'
  <2>. SUFFICES ASSUME NEW r \in Calls, calls[r] # NoCall PROVE CallFits(calls[r])'
    BY DEF CallsFit
  <2>1. PICK d : d = calls[r]
    OBVIOUS
  <2>2. CallFits(d)
    BY <2>1 DEF CommentInv, CallsFit
  <2>3. CallFits(d)'
    BY <1>1, <2>2, FitsStill
  <2>. QED BY <2>1, <2>3
<1>. QED BY <1>1, <1>2, <1>3, <1>4 DEF CommentInv

LEMMA ReadingOf ==
    ASSUME CommentInv, NEW m \in messages
    PROVE  /\ Reading(m) \in Message /\ MessageFits(Reading(m))
           /\ Reading(m).reply = m.reply
<1>1. m \in Message /\ MessageFits(m)
  BY DEF CommentInv, CommentTypeOK, MessagesFit
<1>2. PICK n : n = Reading(m)
  OBVIOUS
<1>3. /\ n \in Message /\ n.type = m.type /\ n.to = m.to /\ n.comment = m.comment /\ n.reply = m.reply
      /\ n.actor = m.actor
  BY <1>1, <1>2 DEF Message, Reading
<1>4. MessageFits(n)
  BY <1>1, <1>3 DEF MessageFits
<1>. QED BY <1>2, <1>3, <1>4

LEMMA ReadStep ==
    ASSUME CommentInv, NEW S, S \subseteq messages,
           messages' = (messages \ S) \cup {Reading(m) : m \in S},
           UNCHANGED <<comments, commentLikes, calls>>
    PROVE  CommentInv'
<1>1. messages \subseteq Message
  BY DEF CommentInv, CommentTypeOK
<1>2. messages' \subseteq Message
  BY <1>1, ReadingOf
<1>3. MessagesFit'
  <2>. SUFFICES ASSUME NEW n \in messages' PROVE MessageFits(n)'
    BY DEF MessagesFit
  <2>1. PICK k : k = n
    OBVIOUS
  <2>2. MessageFits(k)
    BY <2>1, ReadingOf DEF CommentInv, MessagesFit
  <2>3. MessageFits(k)'
    BY <2>2, RowsAsTheyWere, MessageStill
  <2>. QED BY <2>1, <2>3
<1>4. ASSUME NEW m \in messages', NEW n \in messages'
      PROVE  \E a, b \in messages : a.reply = m.reply /\ b.reply = n.reply /\ (a = b => m = n)
  <2>1. PICK a \in messages : (m = a /\ a \notin S) \/ (m = Reading(a) /\ a \in S)
    BY <1>4
  <2>2. PICK b \in messages : (n = b /\ b \notin S) \/ (n = Reading(b) /\ b \in S)
    BY <1>4
  <2>3. a.reply = m.reply /\ b.reply = n.reply
    BY <2>1, <2>2, ReadingOf
  <2>4. a = b => m = n
    BY <2>1, <2>2
  <2>. QED BY <2>3, <2>4
<1>. QED BY <1>2, <1>3, <1>4, CallsWait

LEMMA SweepStep ==
    ASSUME CommentInv, NEW S, messages' = messages \ S, UNCHANGED <<comments, commentLikes, calls>>
    PROVE  CommentInv'
<1>1. messages' \subseteq Message
  BY DEF CommentInv, CommentTypeOK
<1>2. MessagesFit'
  BY RowsAsTheyWere, MessagesStay
<1>. QED BY <1>1, <1>2, CallsWait

LEMMA DeleteCommentStep ==
    ASSUME CommentInv, NEW c \in Ids, adminDeleteComment(c)
    PROVE  CommentInv'
<1>1. c \in Live /\ comments' = [comments EXCEPT ![c].deleted = TRUE]
      /\ UNCHANGED <<commentLikes, messages, calls>>
  BY DEF adminDeleteComment
<1>2. c \in Written /\ comments[c] \in Comment /\ comments \in [Ids -> Comment \cup {Absent}]
  BY <1>1, Rows DEF CommentInv, CommentTypeOK
<1>3. PICK row : row = [comments[c] EXCEPT !.deleted = TRUE]
  OBVIOUS
<1>4. /\ row \in Comment /\ row.user = comments[c].user /\ row.ep = comments[c].ep
      /\ row.parent = comments[c].parent /\ row.replyTo = comments[c].replyTo
      /\ row.deleted = TRUE /\ row.likes = comments[c].likes /\ row.replies = comments[c].replies
  BY <1>2, <1>3 DEF Comment
<1>5. comments' = [comments EXCEPT ![c] = row]
  BY <1>1, <1>3
<1>6. /\ comments' \in [Ids -> Comment \cup {Absent}]
      /\ \A d \in Ids : comments'[d] = IF d = c THEN row ELSE comments[d]
  BY <1>2, <1>4, <1>5
<1>7. Written' = Written
  BY <1>2, <1>4, <1>6, Nobody DEF Written
<1>8. Live' = Live \ {c}
  BY <1>4, <1>6 DEF Live
<1>9. SameRows
  BY <1>4, <1>6, <1>7, Rows DEF SameRows, CommentInv
<1>10. \A d : RepliesTo(d)' = RepliesTo(d) /\ LikedBy(d)' = LikedBy(d)
  BY <1>1, <1>7, <1>9 DEF RepliesTo, LikedBy, SameRows
<1>11. CallsFit'
  <2>. SUFFICES ASSUME NEW r \in Calls, calls[r] # NoCall PROVE CallFits(calls[r])'
    BY <1>1 DEF CallsFit
  <2>1. PICK d : d = calls[r]
    OBVIOUS
  <2>2. CallFits(d)
    BY <2>1 DEF CommentInv, CallsFit
  <2>3. CallFits(d)'
    BY <1>9, <2>2, FitsStill
  <2>. QED BY <1>1, <2>1, <2>3
<1>12. MessagesFit'
  BY <1>1, <1>9, MessagesStay
<1>13. CommentTypeOK'
  BY <1>1, <1>6 DEF CommentInv, CommentTypeOK
<1>14. ToldOnce'
  BY <1>1 DEF CommentInv, ToldOnce
<1>15. TwoLevels'
  BY <1>7, <1>9 DEF CommentInv, TwoLevels, SameRows
<1>16. LikesOfRows'
  BY <1>7, <1>10 DEF CommentInv, LikesOfRows
<1>17. NumbersRight'
  <2>1. \A d \in Ids : IsFiniteSet(LikedBy(d)')
    BY <1>10 DEF CommentInv, NumbersRight
  <2>2. \A d \in Live' : d \in Live /\ comments'[d] = comments[d]
    BY <1>6, <1>8 DEF Live
  <2>3. \A d \in Live' : /\ comments'[d].likes = Cardinality(LikedBy(d)')
                         /\ comments'[d].replies = Cardinality(RepliesTo(d)')
    BY <1>10, <2>2 DEF CommentInv, NumbersRight
  <2>. QED BY <2>1, <2>3 DEF NumbersRight
<1>. QED BY <1>11, <1>12, <1>13, <1>14, <1>15, <1>16, <1>17 DEF CommentInv

LEMMA CrashStep == ASSUME CommentInv, Crash PROVE CommentInv'
<1>1. /\ \A r \in Calls : calls'[r] = NoCall
      /\ calls' \in [Calls -> Call \cup {NoCall}] /\ UNCHANGED <<comments, commentLikes, messages>>
  BY DEF Crash
<1>2. SameRows /\ TwoLevels' /\ LikesOfRows' /\ NumbersRight'
  BY <1>1, RowsAsTheyWere
<1>3. MessagesFit'
  BY <1>1, <1>2, MessagesStay
<1>4. CallsFit' /\ ToldOnce' /\ CommentTypeOK'
  BY <1>1, Nobody DEF CommentInv, CallsFit, ToldOnce, CommentTypeOK
<1>. QED BY <1>2, <1>3, <1>4 DEF CommentInv

LEMMA CommentInvStep == CommentInv /\ [CommentNext]_commentVars => CommentInv'
<1> SUFFICES ASSUME CommentInv, [CommentNext]_commentVars PROVE CommentInv'
  OBVIOUS
<1>1. ASSUME NEW q \in Calls, NEW u \in Users, NEW e \in Eps \cup {None}, appCreateComment(q, u, e)
      PROVE  CommentInv'
  BY <1>1, CreateCommentStep
<1>2. ASSUME NEW q \in Calls, NEW u \in Users, NEW c \in Ids, CreateReply(q, u, c) PROVE CommentInv'
  BY <1>2, CreateReplyStep
<1>3. ASSUME NEW q \in Calls, NEW u \in Likers, NEW c \in Ids,
             appLikeComment(q, u, c) \/ appUnlikeComment(q, u, c)
      PROVE  CommentInv'
  BY <1>3, LikeCallStep
<1>4. ASSUME NEW q \in Calls, WriteComment(q) \/ appToggleCommentLike(q) PROVE CommentInv'
  BY <1>4, WriteCommentStep, ToggleStep
<1>5. ASSUME NEW q \in Calls, GiveUp(q) PROVE CommentInv'
  BY <1>5, OverStep DEF GiveUp
<1>6. ASSUME NEW q \in Calls, Emit(q) PROVE CommentInv'
  BY <1>6, EmitReplyStep, EmitLikeStep DEF Emit
<1>7. ASSUME NEW m \in messages, appMarkMessageRead(m) PROVE CommentInv'
  <2>1. PICK S : S = {m}
    OBVIOUS
  <2>2. S \subseteq messages /\ messages' = (messages \ S) \cup {Reading(n) : n \in S}
        /\ UNCHANGED <<comments, commentLikes, calls>>
    BY <1>7, <2>1 DEF appMarkMessageRead
  <2>. QED BY <2>2, ReadStep
<1>8. ASSUME NEW u \in Users, appMarkAllMessagesRead(u) PROVE CommentInv'
  <2>1. PICK S : S = {m \in messages : m.to = u /\ ~m.read}
    OBVIOUS
  <2>2. S \subseteq messages /\ messages' = (messages \ S) \cup {Reading(n) : n \in S}
        /\ UNCHANGED <<comments, commentLikes, calls>>
    BY <1>8, <2>1 DEF appMarkAllMessagesRead
  <2>. QED BY <2>2, ReadStep
<1>9. ASSUME NEW old \in SUBSET messages, cleanupAppMessages(old) PROVE CommentInv'
  <2>1. PICK S : S = {m \in old : Swept(m)}
    OBVIOUS
  <2>2. messages' = messages \ S /\ UNCHANGED <<comments, commentLikes, calls>>
    BY <1>9, <2>1 DEF cleanupAppMessages
  <2>. QED BY <2>2, SweepStep
<1>10. ASSUME NEW c \in Ids, adminDeleteComment(c) PROVE CommentInv'
  BY <1>10, DeleteCommentStep
<1>11. CASE UNCHANGED commentVars
  <2>1. PICK S : S = {}
    OBVIOUS
  <2>2. messages' = messages \ S /\ UNCHANGED <<comments, commentLikes, calls>>
    BY <1>11, <2>1 DEF commentVars
  <2>. QED BY <2>2, SweepStep
<1>. QED BY <1>1, <1>2, <1>3, <1>4, <1>5, <1>6, <1>7, <1>8, <1>9, <1>10, <1>11, CrashStep
            DEF CommentNext

LEMMA CommentInvariance == CommentSpec => []CommentInv
BY CommentInvInit, CommentInvStep, PTL DEF CommentSpec

(* Comments, likes, messages and calls are ones the program can be in      *)
(* (app_comment.go, app_message.go).                                       *)
THEOREM CommentsTypes == CommentSpec => []CommentTypeOK
<1>1. CommentInv => CommentTypeOK
  BY DEF CommentInv
<1>. QED BY <1>1, CommentInvariance, PTL

(* Threads keep their two levels, the counters their rows, and messages    *)
(* say what is so, whatever is deleted under a call and wherever the       *)
(* process stops (app_comment.go, app_message.go).                         *)
THEOREM ThreadsAreSound == CommentSpec => []ThreadsSound
<1>1. CommentInv => CountersCover
  <2>. SUFFICES ASSUME CommentInv, NEW c \in Live
                PROVE  /\ comments[c].likes = Cardinality(LikedBy(c))
                       /\ comments[c].replies = Cardinality(RepliesTo(c))
                       /\ Cardinality(appListReplies(c)) <= comments[c].replies
                       /\ Cardinality(appListComments(comments[c].ep))
                            <= commentCountByEpisodeIDs(comments[c].ep)
    BY DEF CountersCover, LikedBy, RepliesTo
  <2>1. Live \subseteq Written /\ Written \subseteq Ids
    BY Rows DEF CommentInv
  <2>2. comments[c].likes = Cardinality(LikedBy(c)) /\ comments[c].replies = Cardinality(RepliesTo(c))
    BY DEF CommentInv, NumbersRight
  <2>3. appListReplies(c) \subseteq RepliesTo(c)
    BY <2>1 DEF appListReplies, RepliesTo
  <2>4. Cardinality(appListReplies(c)) <= Cardinality(RepliesTo(c))
    BY <2>3, RepliesFinite, FS_Subset
  <2>5. PICK S : S = {d \in Live : comments[d].ep = comments[c].ep}
    OBVIOUS
  <2>6. IsFiniteSet(S)
    <3>1. IsFiniteSet(Ids)
      BY CommentsAssumption, FS_Interval DEF Ids
    <3>2. S \subseteq Ids
      BY <2>1, <2>5
    <3>. QED BY <3>1, <3>2, FS_Subset
  <2>7. appListComments(comments[c].ep) \subseteq S
    BY <2>5 DEF appListComments
  <2>8. Cardinality(appListComments(comments[c].ep)) <= Cardinality(S)
    BY <2>6, <2>7, FS_Subset
  <2>. QED BY <2>2, <2>4, <2>5, <2>8 DEF commentCountByEpisodeIDs
<1>2. CommentInv => MessagesHonest
  <2>. SUFFICES ASSUME CommentInv, NEW m \in messages
                PROVE  /\ m.to = comments[m.comment].user
                       /\ m.actor # m.to
                       /\ \A c \in appMessageViews(m) : comments[c].ep = comments[m.comment].ep
                       /\ comments[m.reply].user = m.actor
                       /\ comments[m.reply].parent = TopOf(m.comment)
                       /\ \A n \in messages : n.reply = m.reply => n = m
    BY DEF MessagesHonest
  <2>1. MessageFits(m)
    BY DEF CommentInv, MessagesFit
  <2>2. \A c \in appMessageViews(m) : comments[c].ep = comments[m.comment].ep
    BY <2>1 DEF MessageFits, appMessageViews
  <2>. QED BY <2>1, <2>2 DEF MessageFits, CommentInv, ToldOnce
<1>3. CommentInv => ThreadsSound
  BY <1>1, <1>2 DEF CommentInv, ThreadsSound
<1>. QED BY <1>3, CommentInvariance, PTL

-----------------------------------------------------------------------------
(* Comments implements the threads: one lemma per kind of step.            *)

Posts == [c \in Ids |-> [author |-> comments[c].user, ep |-> comments[c].ep,
                         under |-> comments[c].parent]]

Owed == {calls[q].reply : q \in Telling}

Pairs(M) == {<<m.to, m.reply>> : m \in M}

LEMMA PostsSame ==
    ASSUME \A c \in Ids : /\ comments'[c].user = comments[c].user /\ comments'[c].ep = comments[c].ep
                          /\ comments'[c].parent = comments[c].parent
    PROVE  Posts' = Posts
BY DEF Posts

LEMMA LoseMaps ==
    ASSUME Posts' = Posts, Live' = Live, UNCHANGED <<commentLikes, messages>>, Owed' \subseteq Owed
    PROVE  Threads!ThreadsNext
<1>1. Unread' = Unread
  BY DEF Unread
<1>2. Threads!Lose
  BY <1>1 DEF Threads!Lose, Posts, Owed
<1>. QED BY <1>2 DEF Threads!ThreadsNext

(* One call moves, to a step at which it owes no message.                  *)
LEMMA OwesNoMore ==
    ASSUME CommentTypeOK, NEW q \in Calls, NEW c, calls' = [calls EXCEPT ![q] = c], c.op # "tellReply"
    PROVE  Owed' \subseteq Owed
<1>1. \A r \in Calls : calls'[r] = IF r = q THEN c ELSE calls[r]
  BY DEF CommentTypeOK
<1>. QED BY <1>1 DEF Owed, Telling

(* A call begins, ends, or goes on, and nothing else happens.              *)
LEMMA CallMaps ==
    ASSUME CommentTypeOK, NEW q \in Calls, NEW c, calls' = [calls EXCEPT ![q] = c],
           c.op # "tellReply", UNCHANGED <<comments, commentLikes, messages>>
    PROVE  Threads!ThreadsNext
<1>1. Posts' = Posts /\ Live' = Live
  BY DEF Posts, Live
<1>. QED BY <1>1, OwesNoMore, LoseMaps

LEMMA BeginMaps ==
    ASSUME CommentTypeOK, NEW q \in Calls, NEW u, NEW x,
           appCreateComment(q, u, x) \/ CreateReply(q, u, x)
             \/ appLikeComment(q, u, x) \/ appUnlikeComment(q, u, x)
    PROVE  Threads!ThreadsNext
<1>1. PICK c : c = calls'[q]
  OBVIOUS
<1>2. calls' = [calls EXCEPT ![q] = c] /\ c.op # "tellReply"
      /\ UNCHANGED <<comments, commentLikes, messages>>
  <2>0. calls \in [Calls -> Call \cup {NoCall}]
    BY DEF CommentTypeOK
  <2>1. CASE appCreateComment(q, u, x)
    BY <1>1, <2>0, <2>1 DEF appCreateComment, NewCall, NoCall
  <2>2. CASE CreateReply(q, u, x)
    BY <1>1, <2>0, <2>2 DEF CreateReply, NewCall, NoCall
  <2>3. CASE appLikeComment(q, u, x)
    BY <1>1, <2>0, <2>3 DEF appLikeComment, NewCall, NoCall
  <2>4. CASE appUnlikeComment(q, u, x)
    BY <1>1, <2>0, <2>4 DEF appUnlikeComment, NewCall, NoCall
  <2>. QED BY <2>1, <2>2, <2>3, <2>4
<1>. QED BY <1>2, CallMaps

LEMMA EndMaps ==
    ASSUME CommentTypeOK, NEW q \in Calls, GiveUp(q) \/ emitCommentLikeMessage(q)
    PROVE  Threads!ThreadsNext
<1>1. Over(q) /\ UNCHANGED <<comments, commentLikes, messages>>
  <2>1. "type" \in ConflictTarget /\ "type" \notin LikeIndex
    BY DEF ConflictTarget, LikeIndex
  <2>2. ConflictTarget # LikeIndex
    BY <2>1
  <2>. QED BY <2>2 DEF GiveUp, emitCommentLikeMessage
<1>2. PICK c : c = NoCall
  OBVIOUS
<1>3. calls' = [calls EXCEPT ![q] = c] /\ c.op # "tellReply"
  BY <1>1, <1>2, Nobody DEF Over
<1>. QED BY <1>1, <1>3, CallMaps

LEMMA CrashMaps ==
    ASSUME Crash
    PROVE  Threads!ThreadsNext
<1>1. Owed' \subseteq Owed
  BY Nobody DEF Crash, Owed, Telling
<1>2. Posts' = Posts /\ Live' = Live /\ UNCHANGED <<commentLikes, messages>>
  BY DEF Crash, Posts, Live
<1>. QED BY <1>1, <1>2, LoseMaps

LEMMA PostMaps ==
    ASSUME CommentInv, NEW q \in Calls, WriteComment(q)
    PROVE  Threads!ThreadsNext
<1>1. PICK call, id : /\ call = calls[q]
                      /\ id = CHOOSE c \in Ids \ Written : \A d \in Ids \ Written : c <= d
  OBVIOUS
<1>2. /\ id \in Ids /\ id \notin Written
      /\ comments'[id] = [user |-> call.user, ep |-> call.ep, parent |-> call.parent,
                          replyTo |-> call.replyTo, likes |-> 0, replies |-> 0, deleted |-> FALSE]
      /\ \A c \in Ids \ {id} : comments'[c] =
           IF c = call.parent /\ c \in Live THEN [comments[c] EXCEPT !.replies = comments[c].replies + 1]
           ELSE comments[c]
      /\ CallFits(call) /\ call.op = "comment"
  BY <1>1, WrittenRows
<1>3. Live' = Live \cup {id}
  BY <1>1, WrittenSets
<1>4. call.user \in Users /\ calls \in [Calls -> Call \cup {NoCall}]
  BY <1>1, <1>2, Nobody, CallTypes DEF CommentInv, CommentTypeOK
<1>5. /\ Posts'[id].author = call.user /\ Posts'[id].ep = call.ep /\ Posts'[id].under = call.parent
      /\ Posts[id].author = None
  <2>1. comments'[id].user = call.user /\ comments'[id].ep = call.ep /\ comments'[id].parent = call.parent
    BY <1>2
  <2>2. comments[id].user = None
    BY <1>2, Nobody DEF Written
  <2>. QED BY <1>2, <2>1, <2>2 DEF Posts
<1>6. \A c \in Ids \ {id} : Posts'[c] = Posts[c]
  <2>. SUFFICES ASSUME NEW c \in Ids \ {id}
                PROVE  /\ comments'[c].user = comments[c].user /\ comments'[c].ep = comments[c].ep
                       /\ comments'[c].parent = comments[c].parent
    BY DEF Posts
  <2>1. CASE c = call.parent /\ c \in Live
    <3>1. comments[c] \in Comment
      BY <2>1, Rows DEF CommentInv
    <3>. QED BY <1>2, <2>1, <3>1 DEF Comment
  <2>2. CASE ~(c = call.parent /\ c \in Live)
    BY <1>2, <2>2
  <2>. QED BY <2>1, <2>2
<1>7. Posts' = [Posts EXCEPT ![id] = Posts'[id]]
  BY <1>2, <1>6 DEF Posts
<1>8. ASSUME call.parent # None
      PROVE  /\ call.parent \in Ids /\ Posts[call.parent].author # None
             /\ Posts[call.parent].under = None /\ Posts[call.parent].ep = call.ep
  <2>1. /\ call.parent \in Written /\ comments[call.parent].parent = None
        /\ comments[call.parent].ep = call.ep
    BY <1>2, <1>8 DEF CallFits, Answers
  <2>2. call.parent \in Ids /\ comments[call.parent].user # None
    BY <2>1, Rows, Nobody DEF CommentInv
  <2>. QED BY <2>1, <2>2 DEF Posts
<1>9. Owed' = Owed \/ (call.parent # None /\ Owed' = Owed \cup {id})
  <2>1. CASE Silent(call)
    <3>1. \A r \in Calls : calls'[r] = IF r = q THEN NoCall ELSE calls[r]
      BY <1>1, <1>4, <2>1 DEF WriteComment, Over
    <3>2. Telling' = Telling
      BY <1>1, <1>2, <3>1, Nobody DEF Telling
    <3>3. \A r \in Telling : calls'[r] = calls[r]
      BY <1>1, <1>2, <3>1 DEF Telling
    <3>. QED BY <3>2, <3>3 DEF Owed
  <2>2. CASE ~Silent(call)
    <3>1. PICK c : c = [call EXCEPT !.op = "tellReply", !.reply = id]
      OBVIOUS
    <3>2. calls' = [calls EXCEPT ![q] = c]
      BY <1>1, <2>2, <3>1 DEF WriteComment
    <3>3. call \in Call
      BY <1>1, <1>2, <1>4, Nobody
    <3>4. c.op = "tellReply" /\ c.reply = id
      BY <3>1, <3>3 DEF Call
    <3>5. \A r \in Calls : calls'[r] = IF r = q THEN c ELSE calls[r]
      BY <1>4, <3>2
    <3>6. Telling' = Telling \cup {q} /\ q \notin Telling
      BY <1>1, <1>2, <3>4, <3>5 DEF Telling
    <3>7. Owed' = Owed \cup {id}
      BY <3>4, <3>5, <3>6 DEF Owed, Telling
    <3>. QED BY <2>2, <3>7 DEF Silent
  <2>. QED BY <2>1, <2>2
<1>10. Unread' = Unread /\ UNCHANGED <<messages, commentLikes>>
  BY DEF WriteComment, Unread
<1>11. Threads!Post(id)
  BY <1>3, <1>4, <1>5, <1>7, <1>8, <1>9, <1>10, Nobody DEF Threads!Post, Threads!Posted, Posts, Owed
<1>. QED BY <1>2, <1>11 DEF Threads!ThreadsNext

LEMMA TellMaps ==
    ASSUME CommentInv, NEW q \in Calls, emitCommentReplyMessage(q)
    PROVE  Threads!ThreadsNext
<1>1. PICK call, id, about : call = calls[q] /\ id = calls[q].reply /\ about = calls[q].about
  OBVIOUS
<1>2. PICK m : m = [type |-> "comment_reply", to |-> call.to, comment |-> call.about,
                    reply |-> call.reply, actor |-> call.user, read |-> FALSE]
  OBVIOUS
<1>3. /\ call.op = "tellReply" /\ messages' = messages \cup {m}
      /\ calls' = [calls EXCEPT ![q] = NoCall] /\ UNCHANGED <<comments, commentLikes>>
  BY <1>1, <1>2 DEF emitCommentReplyMessage, Recipient, Over
<1>4. CallFits(call) /\ calls \in [Calls -> Call \cup {NoCall}]
  BY <1>1, <1>3, Nobody DEF CommentInv, CallsFit, CommentTypeOK
<1>5. /\ about \in Written /\ id \in Written /\ call.to = comments[about].user
      /\ call.to # call.user /\ call.parent = TopOf(about)
      /\ comments[id].user = call.user /\ comments[id].parent = call.parent
  BY <1>1, <1>3, <1>4 DEF CallFits, Answers
<1>6. about \in Ids /\ id \in Ids
  BY <1>5, Rows DEF CommentInv
<1>7. /\ Posts[about].author = call.to /\ Posts[id].author = call.user
      /\ about = Posts[id].under \/ Posts[about].under = Posts[id].under
  BY <1>5, <1>6 DEF Posts, TopOf
<1>8. id \in Owed /\ Owed' = Owed \ {id}
  <2>1. \A r \in Calls : calls'[r] = IF r = q THEN NoCall ELSE calls[r]
    BY <1>3, <1>4
  <2>2. \A r \in Telling : r # q => calls[r].reply # id
    BY <1>1, <1>3 DEF CommentInv, ToldOnce, Telling
  <2>3. q \in Telling /\ Telling' = Telling \ {q}
    BY <1>1, <1>3, <2>1, Nobody DEF Telling
  <2>4. \A r \in Telling' : calls'[r] = calls[r]
    BY <2>1, <2>3 DEF Telling
  <2>. QED BY <1>1, <2>2, <2>3, <2>4 DEF Owed
<1>9. /\ Pairs(messages') = Pairs(messages) \cup {<<call.to, id>>}
      /\ Pairs(Unread') = Pairs(Unread) \cup {<<call.to, id>>}
  <2>1. m.to = call.to /\ m.reply = id /\ m.read = FALSE
    BY <1>1, <1>2
  <2>2. Unread' = Unread \cup {m}
    BY <1>3, <2>1 DEF Unread
  <2>. QED BY <1>3, <2>1, <2>2 DEF Pairs
<1>10. Posts' = Posts /\ Live' = Live
  BY <1>3 DEF Posts, Live
<1>11. Threads!Tell(id, about)
  BY <1>3, <1>5, <1>7, <1>8, <1>9, <1>10 DEF Threads!Tell, Posts, Owed, Pairs
<1>. QED BY <1>6, <1>11 DEF Threads!ThreadsNext

LEMMA OpineMaps ==
    ASSUME CommentInv, NEW q \in Calls, appToggleCommentLike(q)
    PROVE  Threads!ThreadsNext
<1>1. PICK call, b, u : call = calls[q] /\ b = calls[q].about /\ u = calls[q].user
  OBVIOUS
<1>2. PICK changed \in BOOLEAN, enable \in BOOLEAN :
         enable = (call.op = "like") /\ changed = ((<<b, u>> \in commentLikes) # enable)
  OBVIOUS
<1>3. /\ call.op \in {"like", "unlike"}
      /\ commentLikes' = IF enable THEN commentLikes \cup {<<b, u>>} ELSE commentLikes \ {<<b, u>>}
      /\ comments' = IF changed /\ b \in Live
                     THEN [comments EXCEPT ![b].likes = Counted(comments[b].likes, enable)] ELSE comments
      /\ UNCHANGED messages
  BY <1>1, <1>2 DEF appToggleCommentLike
<1>4. CallFits(call)
  BY <1>1, <1>3, Nobody DEF CommentInv, CallsFit, CommentTypeOK
<1>5. b \in Written /\ b \in Ids /\ u \in Users /\ comments[b].user # None
  BY <1>1, <1>3, <1>4, Rows, Nobody, CommentsAssumption DEF CallFits, CommentInv
<1>6. \A c \in Ids : /\ comments'[c].user = comments[c].user /\ comments'[c].ep = comments[c].ep
                     /\ comments'[c].parent = comments[c].parent
                     /\ comments'[c].deleted = comments[c].deleted
  <2>1. comments[b] \in Comment /\ comments \in [Ids -> Comment \cup {Absent}]
    BY <1>5, Rows DEF CommentInv, CommentTypeOK
  <2>2. CASE changed /\ b \in Live
    <3>1. PICK row : row = [comments[b] EXCEPT !.likes = Counted(comments[b].likes, enable)]
      OBVIOUS
    <3>2. comments' = [comments EXCEPT ![b] = row]
      BY <1>3, <2>2, <3>1
    <3>3. /\ row.user = comments[b].user /\ row.ep = comments[b].ep
          /\ row.parent = comments[b].parent /\ row.deleted = comments[b].deleted
      BY <2>1, <3>1 DEF Comment
    <3>. QED BY <2>1, <3>2, <3>3
  <2>3. CASE ~(changed /\ b \in Live)
    BY <1>3, <2>3
  <2>. QED BY <2>2, <2>3
<1>7. Posts' = Posts /\ Live' = Live /\ Unread' = Unread
  BY <1>3, <1>6, PostsSame DEF Live, Unread
<1>8. Owed' \subseteq Owed /\ Owed \subseteq Owed'
  <2>1. PICK c : calls' = [calls EXCEPT ![q] = c] /\ c.op # "tellReply"
    <3>1. CASE Over(q)
      BY <3>1, Nobody DEF Over
    <3>2. CASE calls' = [calls EXCEPT ![q].op = "tellLike"]
      <4>1. PICK d : d = [call EXCEPT !.op = "tellLike"]
        OBVIOUS
      <4>2. call \in Call
        BY <1>1, <1>3, Nobody DEF CommentInv, CommentTypeOK
      <4>3. d.op = "tellLike"
        BY <4>1, <4>2 DEF Call
      <4>. QED BY <1>1, <3>2, <4>1, <4>3
    <3>. QED BY <3>1, <3>2 DEF appToggleCommentLike
  <2>2. \A r \in Calls : calls'[r] = IF r = q THEN c ELSE calls[r]
    BY <2>1 DEF CommentInv, CommentTypeOK
  <2>3. Telling' = Telling /\ \A r \in Telling : calls'[r] = calls[r]
    BY <1>1, <1>3, <2>1, <2>2 DEF Telling
  <2>. QED BY <2>3 DEF Owed
<1>9. CASE commentLikes' = commentLikes
  BY <1>3, <1>7, <1>8, <1>9, LoseMaps
<1>10. CASE commentLikes' # commentLikes
  <2>1. (<<b, u>> \in commentLikes') # (<<b, u>> \in commentLikes)
    BY <1>2, <1>3, <1>10
  <2>2. Owed' = Owed
    BY <1>8
  <2>3. Posts[b].author # None
    BY <1>5 DEF Posts
  <2>4. Threads!Opine(b, u)
    BY <1>3, <1>7, <2>1, <2>2, <2>3 DEF Threads!Opine, Threads!Posted, Posts, Owed
  <2>. QED BY <1>5, <2>4 DEF Threads!ThreadsNext
<1>. QED BY <1>9, <1>10

(* Messages change and nothing else does. *)
LEMMA RestSame ==
    ASSUME UNCHANGED <<comments, commentLikes, calls>>
    PROVE  Posts' = Posts /\ Live' = Live /\ Owed' = Owed
BY DEF Posts, Live, Owed, Telling

LEMMA ReadMaps ==
    ASSUME CommentInv, NEW S, S \subseteq messages,
           messages' = (messages \ S) \cup {Reading(m) : m \in S},
           UNCHANGED <<comments, commentLikes, calls>>
    PROVE  Threads!ThreadsNext
<1>1. \A m \in messages : /\ Reading(m).to = m.to /\ Reading(m).reply = m.reply
                          /\ Reading(m).read = TRUE
  <2>1. messages \subseteq Message
    BY DEF CommentInv, CommentTypeOK
  <2>. QED BY <2>1 DEF Reading, Message
<1>2. Pairs(messages') = Pairs(messages)
  BY <1>1 DEF Pairs
<1>3. Unread' \subseteq Unread
  BY <1>1 DEF Unread
<1>4. Pairs(Unread') \subseteq Pairs(Unread)
  BY <1>3 DEF Pairs
<1>5. Threads!Read
  BY <1>2, <1>4, RestSame DEF Threads!Read, Posts, Owed, Pairs
<1>. QED BY <1>5 DEF Threads!ThreadsNext

LEMMA DiscardMaps ==
    ASSUME NEW S, \A m \in S : m.read, messages' = messages \ S,
           UNCHANGED <<comments, commentLikes, calls>>
    PROVE  Threads!ThreadsNext
<1>1. Unread' = Unread /\ Unread \subseteq messages'
  BY DEF Unread
<1>2. Pairs(Unread') = Pairs(Unread) /\ Pairs(Unread) \subseteq Pairs(messages')
      /\ Pairs(messages') \subseteq Pairs(messages)
  BY <1>1 DEF Pairs
<1>3. Threads!Discard
  BY <1>2, RestSame DEF Threads!Discard, Posts, Owed, Pairs
<1>. QED BY <1>3 DEF Threads!ThreadsNext

LEMMA HideMaps ==
    ASSUME CommentInv, NEW c \in Ids, adminDeleteComment(c)
    PROVE  Threads!ThreadsNext
<1>1. c \in Live /\ comments' = [comments EXCEPT ![c].deleted = TRUE]
      /\ UNCHANGED <<commentLikes, messages, calls>>
  BY DEF adminDeleteComment
<1>2. comments[c] \in Comment /\ comments \in [Ids -> Comment \cup {Absent}]
  BY <1>1, Rows DEF CommentInv, CommentTypeOK
<1>3. PICK row : row = [comments[c] EXCEPT !.deleted = TRUE]
  OBVIOUS
<1>4. /\ row.user = comments[c].user /\ row.ep = comments[c].ep /\ row.parent = comments[c].parent
      /\ row.deleted = TRUE
  BY <1>2, <1>3 DEF Comment
<1>5. \A d \in Ids : comments'[d] = IF d = c THEN row ELSE comments[d]
  BY <1>1, <1>2, <1>3
<1>6. Live' = Live \ {c}
  BY <1>4, <1>5 DEF Live
<1>7. Posts' = Posts
  BY <1>4, <1>5, PostsSame
<1>8. Owed' = Owed /\ Unread' = Unread
  BY <1>1 DEF Owed, Telling, Unread
<1>9. Threads!Hide(c)
  BY <1>1, <1>6, <1>7, <1>8 DEF Threads!Hide, Posts, Owed
<1>. QED BY <1>9 DEF Threads!ThreadsNext

LEMMA ThreadsStep == CommentInv /\ [CommentNext]_commentVars => [Threads!ThreadsNext]_(Threads!threadVars)
<1>. SUFFICES ASSUME CommentInv, [CommentNext]_commentVars PROVE Threads!ThreadsNext
  OBVIOUS
<1>0. CommentTypeOK
  BY DEF CommentInv
<1>1. ASSUME NEW q \in Calls, NEW u, NEW x,
             appCreateComment(q, u, x) \/ CreateReply(q, u, x)
               \/ appLikeComment(q, u, x) \/ appUnlikeComment(q, u, x)
      PROVE  Threads!ThreadsNext
  BY <1>0, <1>1, BeginMaps
<1>2. ASSUME NEW q \in Calls, WriteComment(q) \/ appToggleCommentLike(q) \/ GiveUp(q) \/ Emit(q)
      PROVE  Threads!ThreadsNext
  BY <1>0, <1>2, PostMaps, OpineMaps, EndMaps, TellMaps DEF Emit
<1>3. ASSUME NEW m \in messages, appMarkMessageRead(m) PROVE Threads!ThreadsNext
  <2>1. PICK S : S = {m}
    OBVIOUS
  <2>2. S \subseteq messages /\ messages' = (messages \ S) \cup {Reading(n) : n \in S}
        /\ UNCHANGED <<comments, commentLikes, calls>>
    BY <1>3, <2>1 DEF appMarkMessageRead
  <2>. QED BY <2>2, ReadMaps
<1>4. ASSUME NEW u \in Users, appMarkAllMessagesRead(u) PROVE Threads!ThreadsNext
  <2>1. PICK S : S = {m \in messages : m.to = u /\ ~m.read}
    OBVIOUS
  <2>2. S \subseteq messages /\ messages' = (messages \ S) \cup {Reading(n) : n \in S}
        /\ UNCHANGED <<comments, commentLikes, calls>>
    BY <1>4, <2>1 DEF appMarkAllMessagesRead
  <2>. QED BY <2>2, ReadMaps
<1>5. ASSUME NEW old \in SUBSET messages, cleanupAppMessages(old) PROVE Threads!ThreadsNext
  <2>1. PICK S : S = {m \in old : Swept(m)}
    OBVIOUS
  <2>2. /\ \A m \in S : m.read
        /\ messages' = messages \ S /\ UNCHANGED <<comments, commentLikes, calls>>
    BY <1>5, <2>1 DEF cleanupAppMessages, Swept
  <2>. QED BY <2>2, DiscardMaps
<1>6. CASE UNCHANGED commentVars
  <2>1. PICK S : S = {}
    OBVIOUS
  <2>2. messages' = messages \ S /\ UNCHANGED <<comments, commentLikes, calls>>
    BY <1>6, <2>1 DEF commentVars
  <2>. QED BY <2>1, <2>2, DiscardMaps
<1>. QED BY <1>1, <1>2, <1>3, <1>4, <1>5, <1>6, HideMaps, CrashMaps DEF CommentNext

(* For every number of users, comments and calls in flight, the comments   *)
(* of a drama implement the threads: a comment never moves and never comes *)
(* back, a reply is told at most once, also after its message is gone, to  *)
(* somebody else of the thread, and no message is swept before it was read *)
(* (app_comment.go, app_message.go).                                       *)
THEOREM CommentsImplementThreads == CommentSpec => ImplementsThreads
<1>1. CommentInit => Threads!ThreadsInit
  <2>. SUFFICES ASSUME CommentInit PROVE Threads!ThreadsInit
    OBVIOUS
  <2>1. Live = {} /\ Telling = {} /\ messages = {} /\ Unread = {} /\ commentLikes = {}
    BY Nobody DEF CommentInit, Live, Telling, Unread
  <2>2. Posts = [i \in Ids |-> [author |-> None, ep |-> None, under |-> None]]
    BY DEF CommentInit, Posts, Absent
  <2>. QED BY <2>1, <2>2 DEF Threads!ThreadsInit, Posts
<1>. QED BY <1>1, ThreadsStep, CommentInvariance, PTL
         DEF CommentSpec, ImplementsThreads, Threads!ThreadsSpec

-----------------------------------------------------------------------------
(***************************************************************************)
(* AdUnlocks: one report, one reward.                                      *)
(*                                                                         *)
(* OneRewardPerReport is not inductive: that a reward books an income for  *)
(* the first time follows only because the ticket it is about to write is  *)
(* pending still, which its lock guarantees, so that the ticket for which  *)
(* an earlier income was booked is another one, which the index refuses.   *)
(***************************************************************************)

(* A ticket carries a number from its end on. *)
OpenHasNoTrans ==
    \A t \in Tickets : tickets[t].status \in {"none", "pending"} => tickets[t].trans = None

(* What the row lock is for. *)
LockIsExclusive ==
    \A q, r \in Reports : txs[q] # NoTx /\ txs[q].ticket = txs[r].ticket => q = r

LockedIsPending ==
    \A r \in Reports : txs[r] # NoTx => tickets[txs[r].ticket].status = "pending"

Inv ==
    /\ TypeOK
    /\ OpenHasNoTrans
    /\ LockIsExclusive
    /\ LockedIsPending
    /\ OneRewardPerReport
    /\ RewardedIsUnlocked

-----------------------------------------------------------------------------
(* Facts about the rows.                                                   *)

LEMMA NoneApart ==
  /\ None \notin Users /\ None \notin Tickets /\ None \notin Trans
  /\ NoTicket \notin Ticket
  /\ NoTx \notin Tx
  /\ \A c \in AppCall \cup {NoAppCall} :
       /\ c.op = "expire" => c.ticket \in Tickets
       /\ c.op = "watch" => c.user \in Users /\ c.ep \in Numbers
       /\ c.op = "play" => c.user \in Users \cup {None} /\ c.ep \in Numbers
  BY AdUnlocksAssumption DEF NoTicket, Ticket, NoTx, Tx, AppCall, NoAppCall

(* A ticket that is not the empty one is typed. *)
LEMMA Typed ==
  ASSUME TypeOK, NEW t \in Tickets
  PROVE  /\ tickets[t].status \in {"none", "pending", "rewarded", "expired"}
         /\ tickets[t].status # "none" => tickets[t] \in Ticket
         /\ tickets[t].trans \in Trans \cup {None}
  BY DEF TypeOK, Ticket, NoTicket, TicketStatuses

(* One ticket ends, with or without a number. *)
LEMMA TicketRow ==
  ASSUME TypeOK, NEW t \in Tickets, tickets[t].status = "pending",
         NEW s \in {"rewarded", "expired"}, NEW x \in Trans \cup {None},
         tickets' = [tickets EXCEPT ![t].status = s, ![t].trans = x]
  PROVE  /\ tickets' \in [Tickets -> Ticket \cup {NoTicket}]
         /\ tickets'[t].status = s
         /\ tickets'[t].trans = x
         /\ tickets'[t].user = tickets[t].user
         /\ tickets'[t].ep = tickets[t].ep
         /\ \A u \in Tickets \ {t} : tickets'[u] = tickets[u]
<1>. DEFINE T == [[tickets[t] EXCEPT !.status = s] EXCEPT !.trans = x]
<1>1. tickets[t] \in Ticket
  BY Typed
<1>2. T \in Ticket /\ T.status = s /\ T.trans = x /\ T.user = tickets[t].user /\ T.ep = tickets[t].ep
  BY <1>1 DEF Ticket, TicketStatuses
<1>3. tickets \in [Tickets -> Ticket \cup {NoTicket}]
  BY DEF TypeOK
<1>4. tickets' = [tickets EXCEPT ![t] = T]
  BY <1>3
<1>. HIDE DEF T
<1>. QED BY <1>2, <1>3, <1>4

(* The write of a poll sets the status alone. *)
LEMMA ExpiredRow ==
  ASSUME TypeOK, NEW t \in Tickets, tickets[t].status = "pending",
         tickets' = [tickets EXCEPT ![t].status = "expired"]
  PROVE  /\ tickets' \in [Tickets -> Ticket \cup {NoTicket}]
         /\ tickets'[t].status = "expired"
         /\ tickets'[t].trans = tickets[t].trans
         /\ tickets'[t].user = tickets[t].user
         /\ tickets'[t].ep = tickets[t].ep
         /\ \A u \in Tickets \ {t} : tickets'[u] = tickets[u]
<1>. DEFINE T == [tickets[t] EXCEPT !.status = "expired"]
<1>1. tickets[t] \in Ticket
  BY Typed
<1>2. /\ T \in Ticket /\ T.status = "expired" /\ T.trans = tickets[t].trans
      /\ T.user = tickets[t].user /\ T.ep = tickets[t].ep
  BY <1>1 DEF Ticket, TicketStatuses
<1>3. tickets \in [Tickets -> Ticket \cup {NoTicket}]
  BY DEF TypeOK
<1>4. tickets' = [tickets EXCEPT ![t] = T]
  BY DEF TypeOK
<1>. HIDE DEF T
<1>. QED BY <1>2, <1>3, <1>4

-----------------------------------------------------------------------------
(* Types.                                                                  *)

LEMMA InitInv == Init => Inv
<1>. SUFFICES ASSUME Init PROVE Inv
  OBVIOUS
<1>1. TypeOK
  BY AdUnlocksAssumption DEF Init, TypeOK
<1>2. OpenHasNoTrans /\ RewardedIsUnlocked /\ LockIsExclusive /\ LockedIsPending
  BY DEF Init, OpenHasNoTrans, RewardedIsUnlocked, LockIsExclusive, LockedIsPending, NoTicket
<1>3. OneRewardPerReport
  BY AdUnlocksAssumption DEF Init, OneRewardPerReport, NoTicket
<1>. QED BY <1>1, <1>2, <1>3 DEF Inv

LEMMA StaffType == ASSUME TypeOK, Staff PROVE TypeOK'
<1>1. CASE DramaMoves
  BY <1>1 DEF TypeOK, DramaMoves
<1>2. CASE \E e \in Numbers : MoveEpisode(e)
  BY <1>2 DEF TypeOK, MoveEpisode
<1>3. CASE adminSetAdUnlockEnabled
  BY <1>3 DEF TypeOK, adminSetAdUnlockEnabled
<1>4. CASE \E n \in FreeCounts : adminUpdatePricingConfig(n)
  BY <1>4 DEF TypeOK, adminUpdatePricingConfig
<1>5. CASE DeleteDrama
  BY <1>5 DEF TypeOK, DeleteDrama
<1>. QED BY <1>1, <1>2, <1>3, <1>4, <1>5 DEF Staff

LEMMA ViewersType == ASSUME TypeOK, ViewerStep PROVE TypeOK'
<1>1. CASE \E u \in Users, e \in Numbers : MarkOrderPaid(u, e)
  BY <1>1 DEF TypeOK, MarkOrderPaid, dramaVars
<1>2. ASSUME NEW a \in Calls, NEW u \in Users, NEW e \in Numbers, appUpsertPlayHistory(a, u, e)
      PROVE  TypeOK'
  <2>. DEFINE c == [op |-> "watch", ticket |-> None, user |-> u, ep |-> e]
  <2>1. c \in AppCall
    BY DEF AppCall
  <2>2. apps' = [apps EXCEPT ![a] = c]
    BY <1>2 DEF appUpsertPlayHistory
  <2>. HIDE DEF c
  <2>. QED BY <1>2, <2>1, <2>2 DEF TypeOK, appUpsertPlayHistory, dramaVars
<1>3. ASSUME NEW a \in Calls, WriteHistory(a) PROVE TypeOK'
  <2>1. apps[a] \in AppCall \cup {NoAppCall}
    BY DEF TypeOK
  <2>2. apps[a].user \in Users /\ apps[a].ep \in Numbers
    BY <1>3, <2>1, NoneApart DEF WriteHistory
  <2>. QED BY <1>3, <2>2 DEF TypeOK, WriteHistory, dramaVars
<1>4. ASSUME NEW t \in Tickets, NEW u \in Users, NEW e \in Numbers, CreateAdUnlockTicket(t, u, e)
      PROVE  TypeOK'
  <2>. DEFINE T == [user |-> u, ep |-> e, status |-> "pending", trans |-> None, due |-> FALSE]
  <2>1. T \in Ticket
    BY DEF Ticket, TicketStatuses
  <2>2. tickets' = [tickets EXCEPT ![t] = T]
    BY <1>4 DEF CreateAdUnlockTicket
  <2>. HIDE DEF T
  <2>. QED BY <1>4, <2>1, <2>2 DEF TypeOK, CreateAdUnlockTicket, dramaVars
<1>5. ASSUME NEW t \in Tickets, FallDue(t) PROVE TypeOK'
  <2>. DEFINE T == [tickets[t] EXCEPT !.due = TRUE]
  <2>1. tickets[t] \in Ticket
    BY <1>5, Typed DEF FallDue
  <2>2. T \in Ticket
    BY <2>1 DEF Ticket
  <2>3. tickets' = [tickets EXCEPT ![t] = T]
    BY <1>5 DEF FallDue
  <2>. HIDE DEF T
  <2>. QED BY <1>5, <2>2, <2>3 DEF TypeOK, FallDue, dramaVars
<1>6. ASSUME NEW a \in Calls, NEW t \in Tickets, GetAdUnlockTicket(a, t) PROVE TypeOK'
  <2>. DEFINE c == [op |-> "expire", ticket |-> t, user |-> None, ep |-> 0]
  <2>1. c \in AppCall
    BY DEF AppCall
  <2>2. apps' = [apps EXCEPT ![a] = c]
    BY <1>6 DEF GetAdUnlockTicket
  <2>. HIDE DEF c
  <2>. QED BY <1>6, <2>1, <2>2 DEF TypeOK, GetAdUnlockTicket, dramaVars
<1>7. ASSUME NEW a \in Calls, WriteExpired(a) PROVE TypeOK'
  <2>1. PICK t \in Tickets : t = apps[a].ticket
    <3>1. apps[a] \in AppCall \cup {NoAppCall}
      BY DEF TypeOK
    <3>. QED BY <1>7, <3>1, NoneApart DEF WriteExpired
  <2>2. tickets' \in [Tickets -> Ticket \cup {NoTicket}]
    BY <1>7, <2>1, ExpiredRow DEF TypeOK, WriteExpired, StillPending
  <2>. QED BY <1>7, <2>2 DEF TypeOK, WriteExpired, dramaVars
<1>8. CASE appHome
  BY <1>8 DEF TypeOK, appHome, dramaVars
<1>9. ASSUME NEW a \in Calls, NEW u \in Users \cup {None}, NEW e \in Numbers, appPlayEpisode(a, u, e)
      PROVE  TypeOK'
  <2>. DEFINE c == [op |-> "play", ticket |-> None, user |-> u, ep |-> e]
  <2>1. c \in AppCall
    BY DEF AppCall
  <2>2. apps' = [apps EXCEPT ![a] = c]
    BY <1>9 DEF appPlayEpisode
  <2>. HIDE DEF c
  <2>. QED BY <1>9, <2>1, <2>2 DEF TypeOK, appPlayEpisode, dramaVars
<1>10. ASSUME NEW a \in Calls, AnswerPlay(a) PROVE TypeOK'
  BY <1>10 DEF TypeOK, AnswerPlay, dramaVars
<1>. QED BY <1>1, <1>2, <1>3, <1>4, <1>5, <1>6, <1>7, <1>8, <1>9, <1>10 DEF ViewerStep

LEMMA NetworkType == ASSUME Inv, Network PROVE TypeOK'
<1>. USE DEF Inv
<1>1. ASSUME NEW r \in Reports, NEW t \in Tickets, NEW x \in Trans, HandleCSJRewardCallback(r, t, x)
      PROVE  TypeOK'
  <2>. DEFINE c == [ticket |-> t, trans |-> x]
  <2>1. c \in Tx
    BY DEF Tx
  <2>2. txs' = [txs EXCEPT ![r] = c]
    BY <1>1 DEF HandleCSJRewardCallback
  <2>. HIDE DEF c
  <2>. QED BY <1>1, <2>1, <2>2 DEF TypeOK, HandleCSJRewardCallback, dramaVars
<1>2. ASSUME NEW t \in Tickets, NEW x \in Trans, RejectLate(t, x) PROVE TypeOK'
  <2>1. tickets' \in [Tickets -> Ticket \cup {NoTicket}]
    BY <1>2, TicketRow DEF RejectLate
  <2>. QED BY <1>2, <2>1 DEF TypeOK, RejectLate, dramaVars
<1>3. ASSUME NEW r \in Reports, NEW priced \in BOOLEAN, Reward(r, priced) PROVE TypeOK'
  <2>1. PICK t \in Tickets, x \in Trans : t = txs[r].ticket /\ x = txs[r].trans
    BY <1>3 DEF TypeOK, Tx, Reward
  <2>2. tickets[t].status = "pending"
    BY <1>3, <2>1 DEF LockedIsPending, Reward
  <2>3. tickets' \in [Tickets -> Ticket \cup {NoTicket}]
    BY <1>3, <2>1, <2>2, TicketRow DEF Reward
  <2>4. tickets[t] \in Ticket
    BY <2>2, Typed
  <2>5. tickets[t].user \in Users /\ tickets[t].ep \in Numbers
    BY <2>4 DEF Ticket
  <2>6. unlocks' \subseteq Users \X Numbers
    BY <1>3, <2>1, <2>5 DEF TypeOK, Reward, Grant
  <2>7. booked' \in [Trans -> Nat]
    BY <1>3, <2>1 DEF TypeOK, Reward, recordAdIncome
  <2>8. txs' \in [Reports -> Tx \cup {NoTx}]
    BY <1>3 DEF TypeOK, Reward
  <2>. QED BY <1>3, <2>3, <2>6, <2>7, <2>8 DEF TypeOK, Reward, dramaVars
<1>4. CASE \E r \in Reports : Abort(r)
  BY <1>4 DEF TypeOK, Abort, dramaVars
<1>5. CASE Stop
  BY <1>5 DEF TypeOK, Stop, dramaVars
<1>. QED BY <1>1, <1>2, <1>3, <1>4, <1>5 DEF Network

-----------------------------------------------------------------------------
(* The invariant.                                                          *)

(* Whatever leaves the tickets and the bookings alone, takes no lock, and  *)
(* closes no episode of a drama that exists.                               *)
LEMMA TicketsStay ==
  ASSUME Inv, TypeOK', UNCHANGED <<tickets, booked>>,
         \A r \in Reports : txs'[r] \in {txs[r], NoTx},
         air' # "gone" => air # "gone" /\ unlocks \subseteq unlocks'
  PROVE  Inv'
<1>1. OpenHasNoTrans' /\ OneRewardPerReport'
  BY DEF Inv, OpenHasNoTrans, OneRewardPerReport
<1>2. LockIsExclusive'
  <2>1. \A q \in Reports : txs[q] # NoTx => txs[q].ticket # NoTx.ticket
    BY NoneApart DEF Inv, TypeOK, Tx, NoTx
  <2>. QED BY <2>1 DEF Inv, LockIsExclusive
<1>3. LockedIsPending'
  BY DEF Inv, LockedIsPending
<1>4. RewardedIsUnlocked'
  BY DEF Inv, RewardedIsUnlocked, Unlocked
<1>. QED BY <1>1, <1>2, <1>3, <1>4 DEF Inv

(* A ticket that no transaction has locked changes before its reward, or   *)
(* ends without one; if it takes a number, no other ticket carries it.     *)
LEMMA UnlockedTicket ==
  ASSUME Inv, TypeOK', NEW t \in Tickets,
         tickets[t].status \in {"none", "pending"},
         \A u \in Tickets \ {t} : tickets'[u] = tickets[u],
         \/ tickets'[t].status = "pending" /\ tickets'[t].trans = None
         \/ /\ ~Locked(t)
            /\ tickets'[t].status = "expired"
            /\ tickets'[t].trans # None => ~CarriedElsewhere(tickets'[t].trans, t),
         UNCHANGED <<dramaVars, unlocks, txs, booked>>
  PROVE  Inv'
<1>1. OpenHasNoTrans'
  BY DEF Inv, OpenHasNoTrans
<1>2. LockIsExclusive'
  BY DEF Inv, LockIsExclusive
<1>3. LockedIsPending'
  <2>1. \A r \in Reports : txs[r] # NoTx => txs[r].ticket \in Tickets
    BY DEF Inv, TypeOK, Tx
  <2>. QED BY <2>1 DEF Inv, LockedIsPending, Locked
<1>4. RewardedIsUnlocked'
  BY DEF Inv, RewardedIsUnlocked, Unlocked, dramaVars
<1>5. ASSUME NEW x \in Trans
      PROVE  /\ \A u, v \in Tickets : tickets'[u].trans = x /\ tickets'[v].trans = x => u = v
             /\ booked'[x] <= 1
             /\ booked'[x] = 1 =>
                  \E u \in Tickets : tickets'[u].status = "rewarded" /\ tickets'[u].trans = x
  <2>1. x # None
    BY NoneApart
  <2>2. \A u, v \in Tickets : tickets'[u].trans = x /\ tickets'[v].trans = x => u = v
    BY <2>1 DEF Inv, OneRewardPerReport, CarriedElsewhere
  <2>3. \A u \in Tickets : tickets[u].status = "rewarded" => u # t /\ tickets'[u] = tickets[u]
    OBVIOUS
  <2>. QED BY <2>2, <2>3 DEF Inv, OneRewardPerReport
<1>6. OneRewardPerReport'
  BY <1>5 DEF OneRewardPerReport
<1>. QED BY <1>1, <1>2, <1>3, <1>4, <1>6 DEF Inv

LEMMA StaffInv == ASSUME Inv, Staff PROVE Inv'
<1>1. TypeOK'
  BY StaffType DEF Inv
<1>2. UNCHANGED <<tickets, booked, txs>>
  BY DEF Staff, DramaMoves, MoveEpisode, adminSetAdUnlockEnabled, adminUpdatePricingConfig,
         DeleteDrama
<1>3. air' # "gone" => air # "gone" /\ unlocks \subseteq unlocks'
  BY DEF Staff, DramaMoves, MoveEpisode, adminSetAdUnlockEnabled, adminUpdatePricingConfig,
         DeleteDrama
<1>. QED BY <1>1, <1>2, <1>3, TicketsStay

LEMMA ViewersInv == ASSUME Inv, ViewerStep PROVE Inv'
<1>1. TypeOK'
  BY ViewersType DEF Inv
<1>2. CASE \/ \E u \in Users, e \in Numbers : MarkOrderPaid(u, e)
           \/ \E a \in Calls, u \in Users, e \in Numbers : appUpsertPlayHistory(a, u, e)
           \/ \E a \in Calls : WriteHistory(a)
           \/ \E a \in Calls, t \in Tickets : GetAdUnlockTicket(a, t)
           \/ appHome
           \/ \E a \in Calls, u \in Users \cup {None}, e \in Numbers : appPlayEpisode(a, u, e)
           \/ \E a \in Calls : AnswerPlay(a)
  <2>1. UNCHANGED <<tickets, booked, txs, air>> /\ unlocks \subseteq unlocks'
    BY <1>2 DEF MarkOrderPaid, appUpsertPlayHistory, WriteHistory, GetAdUnlockTicket, appHome,
       appPlayEpisode, AnswerPlay, dramaVars
  <2>. QED BY <1>1, <2>1, TicketsStay
<1>3. ASSUME NEW t \in Tickets, NEW u \in Users, NEW e \in Numbers, CreateAdUnlockTicket(t, u, e)
      PROVE  Inv'
  <2>. DEFINE T == [user |-> u, ep |-> e, status |-> "pending", trans |-> None, due |-> FALSE]
  <2>1. tickets' = [tickets EXCEPT ![t] = T]
    BY <1>3 DEF CreateAdUnlockTicket
  <2>2. T.status = "pending" /\ T.trans = None
    OBVIOUS
  <2>. HIDE DEF T
  <2>3. tickets'[t] = T /\ \A v \in Tickets \ {t} : tickets'[v] = tickets[v]
    BY <2>1 DEF Inv, TypeOK
  <2>4. tickets[t].status = "none"
    BY <1>3 DEF CreateAdUnlockTicket, NoTicket
  <2>. QED BY <1>1, <1>3, <2>2, <2>3, <2>4, UnlockedTicket DEF CreateAdUnlockTicket
<1>4. ASSUME NEW t \in Tickets, FallDue(t) PROVE Inv'
  <2>. DEFINE T == [tickets[t] EXCEPT !.due = TRUE]
  <2>1. tickets' = [tickets EXCEPT ![t] = T]
    BY <1>4 DEF FallDue
  <2>2. T.status = tickets[t].status /\ T.trans = tickets[t].trans
    BY <1>4, Typed DEF Inv, FallDue, Ticket
  <2>. HIDE DEF T
  <2>3. tickets'[t] = T /\ \A v \in Tickets \ {t} : tickets'[v] = tickets[v]
    BY <2>1 DEF Inv, TypeOK
  <2>4. tickets[t].status = "pending" /\ tickets[t].trans = None
    BY <1>4 DEF FallDue, Inv, OpenHasNoTrans
  <2>. QED BY <1>1, <1>4, <2>2, <2>3, <2>4, UnlockedTicket DEF FallDue
<1>5. ASSUME NEW a \in Calls, WriteExpired(a) PROVE Inv'
  <2>1. PICK t \in Tickets : t = apps[a].ticket
    <3>1. apps[a] \in AppCall \cup {NoAppCall}
      BY DEF Inv, TypeOK
    <3>. QED BY <1>5, <3>1, NoneApart DEF WriteExpired
  <2>2. CASE tickets[t].status = "pending"
    <3>1. /\ tickets'[t].status = "expired"
          /\ tickets'[t].trans = tickets[t].trans
          /\ \A u \in Tickets \ {t} : tickets'[u] = tickets[u]
      BY <1>5, <2>1, <2>2, ExpiredRow DEF Inv, WriteExpired, StillPending
    <3>2. tickets[t].trans = None
      BY <2>2 DEF Inv, OpenHasNoTrans
    <3>. QED BY <1>1, <1>5, <2>1, <2>2, <3>1, <3>2, UnlockedTicket DEF WriteExpired
  <2>3. CASE tickets[t].status # "pending"
    BY <1>1, <1>5, <2>1, <2>3, TicketsStay DEF WriteExpired, StillPending, dramaVars
  <2>. QED BY <2>2, <2>3
<1>. QED BY <1>2, <1>3, <1>4, <1>5 DEF ViewerStep

LEMMA CallbackInv ==
  ASSUME Inv, NEW r \in Reports, NEW t \in Tickets, NEW x \in Trans,
         HandleCSJRewardCallback(r, t, x), TypeOK'
  PROVE  Inv'
<1>1. UNCHANGED <<dramaVars, unlocks, tickets, booked>>
  BY DEF HandleCSJRewardCallback
<1>2. /\ tickets[t].status = "pending"
      /\ \A q \in Reports : txs[q].ticket # t
      /\ txs'[r].ticket = t
      /\ \A q \in Reports \ {r} : txs'[q] = txs[q]
  BY DEF HandleCSJRewardCallback, Locked, Inv, TypeOK
<1>3. OpenHasNoTrans' /\ OneRewardPerReport' /\ RewardedIsUnlocked'
  BY <1>1 DEF Inv, OpenHasNoTrans, OneRewardPerReport, RewardedIsUnlocked, Unlocked, dramaVars
<1>4. LockIsExclusive' /\ LockedIsPending'
  BY <1>1, <1>2 DEF Inv, LockIsExclusive, LockedIsPending
<1>. QED BY <1>3, <1>4 DEF Inv

LEMMA RewardInv ==
  ASSUME Inv, NEW r \in Reports, NEW priced \in BOOLEAN, Reward(r, priced), TypeOK'
  PROVE  Inv'
<1>1. PICK t \in Tickets, x \in Trans : t = txs[r].ticket /\ x = txs[r].trans
  BY DEF Inv, TypeOK, Tx, Reward
<1>2. tickets[t].status = "pending" /\ txs[r] # NoTx
  BY <1>1 DEF Inv, LockedIsPending, Reward
<1>3. /\ tickets'[t].status = "rewarded"
      /\ tickets'[t].trans = x
      /\ tickets'[t].user = tickets[t].user
      /\ tickets'[t].ep = tickets[t].ep
      /\ \A u \in Tickets \ {t} : tickets'[u] = tickets[u]
  BY <1>1, <1>2, TicketRow DEF Inv, Reward
<1>4. \A u \in Tickets \ {t} : tickets[u].trans # x
  BY <1>1 DEF Reward, IndexAdmits, CarriedElsewhere
<1>5. txs'[r] = NoTx /\ \A q \in Reports \ {r} : txs'[q] = txs[q]
  BY DEF Reward, Inv, TypeOK
<1>6. OpenHasNoTrans'
  BY <1>3 DEF Inv, OpenHasNoTrans
<1>7. \A q \in Reports : txs[q] # NoTx => txs[q].ticket \in Tickets
  BY DEF Inv, TypeOK, Tx
<1>8. LockIsExclusive'
  BY <1>5, <1>7, NoneApart DEF Inv, LockIsExclusive, NoTx
<1>9. LockedIsPending'
  <2>1. \A q \in Reports \ {r} : txs[q].ticket # t
    BY <1>1, <1>2 DEF Inv, LockIsExclusive
  <2>. QED BY <1>3, <1>5, <1>7, <2>1 DEF Inv, LockedIsPending
<1>10. RewardedIsUnlocked'
  <2>1. UNCHANGED air /\ unlocks' = unlocks \cup {<<tickets[t].user, tickets[t].ep>>}
    BY <1>1 DEF Reward, Grant, dramaVars
  <2>. QED BY <1>3, <2>1 DEF Inv, RewardedIsUnlocked, Unlocked
<1>11. ASSUME NEW y \in Trans
       PROVE  /\ \A u, v \in Tickets : tickets'[u].trans = y /\ tickets'[v].trans = y => u = v
              /\ booked'[y] <= 1
              /\ booked'[y] = 1 =>
                   \E u \in Tickets : tickets'[u].status = "rewarded" /\ tickets'[u].trans = y
  <2>1. \A u, v \in Tickets : tickets'[u].trans = y /\ tickets'[v].trans = y => u = v
    BY <1>3, <1>4 DEF Inv, OneRewardPerReport
  <2>2. CASE y = x
    <3>1. booked[x] = 0
      <4>1. booked[x] \in Nat /\ booked[x] <= 1
        BY DEF Inv, TypeOK, OneRewardPerReport
      <4>2. booked[x] # 1
        BY <1>2, <1>4 DEF Inv, OneRewardPerReport
      <4>. QED BY <4>1, <4>2
    <3>2. booked'[x] <= 1
      BY <1>1, <3>1 DEF Reward, recordAdIncome, Inv, TypeOK
    <3>. QED BY <1>3, <2>1, <2>2, <3>2
  <2>3. CASE y # x
    <3>1. booked'[y] = booked[y]
      BY <1>1, <2>3 DEF Reward, recordAdIncome, Inv, TypeOK
    <3>2. \A u \in Tickets : tickets[u].status = "rewarded" => tickets'[u] = tickets[u]
      BY <1>2, <1>3
    <3>. QED BY <2>1, <3>1, <3>2 DEF Inv, OneRewardPerReport
  <2>. QED BY <2>2, <2>3
<1>12. OneRewardPerReport'
  BY <1>11 DEF OneRewardPerReport
<1>. QED BY <1>6, <1>8, <1>9, <1>10, <1>12 DEF Inv

LEMMA NetworkInv == ASSUME Inv, Network PROVE Inv'
<1>1. TypeOK'
  BY NetworkType
<1>2. ASSUME NEW r \in Reports, NEW t \in Tickets, NEW x \in Trans, HandleCSJRewardCallback(r, t, x)
      PROVE  Inv'
  BY <1>1, <1>2, CallbackInv
<1>3. ASSUME NEW t \in Tickets, NEW x \in Trans, RejectLate(t, x) PROVE Inv'
  <2>1. /\ tickets'[t].status = "expired"
        /\ tickets'[t].trans = x
        /\ \A u \in Tickets \ {t} : tickets'[u] = tickets[u]
    BY <1>3, TicketRow DEF Inv, RejectLate
  <2>. QED BY <1>1, <1>3, <2>1, UnlockedTicket DEF RejectLate
<1>4. ASSUME NEW r \in Reports, NEW priced \in BOOLEAN, Reward(r, priced) PROVE Inv'
  BY <1>1, <1>4, RewardInv
<1>5. CASE (\E r \in Reports : Abort(r)) \/ Stop
  <2>1. UNCHANGED <<tickets, booked, air, unlocks>>
    BY <1>5 DEF Abort, Stop, dramaVars
  <2>2. \A r \in Reports : txs'[r] \in {txs[r], NoTx}
    BY <1>5 DEF Abort, Stop, Inv, TypeOK
  <2>. QED BY <1>1, <2>1, <2>2, TicketsStay
<1>. QED BY <1>2, <1>3, <1>4, <1>5 DEF Network

LEMMA StepInv == ASSUME Inv, [Next]_vars PROVE Inv'
<1>1. CASE UNCHANGED vars
  BY <1>1 DEF vars, Inv, TypeOK, OpenHasNoTrans, LockIsExclusive, LockedIsPending,
              OneRewardPerReport, RewardedIsUnlocked, Unlocked
<1>2. CASE Next
  BY <1>2, StaffInv, ViewersInv, NetworkInv DEF Next
<1>. QED BY <1>1, <1>2

-----------------------------------------------------------------------------
(* Theorems.                                                               *)

LEMMA Invariance == Spec => []Inv
  BY InitInv, StepInv, PTL DEF Spec

(* The rows of tickets, transactions, calls and unlocks keep their shape.  *)
THEOREM TypeCorrect == Spec => []TypeOK
<1>1. Inv => TypeOK
  BY DEF Inv
<1>. QED BY <1>1, Invariance, PTL

(* However often, and for however many tickets at once, the network        *)
(* reports a view: one ticket carries its number, and its income is booked *)
(* at most once, for a ticket that was rewarded (HandleCSJRewardCallback). *)
THEOREM OneReward == Spec => []OneRewardPerReport
<1>1. Inv => OneRewardPerReport
  BY DEF Inv
<1>. QED BY <1>1, Invariance, PTL

(* Ticket and unlock are written in one transaction, so no crash leaves a  *)
(* rewarded ticket whose episode is still locked.                          *)
THEOREM RewardUnlocks == Spec => []RewardedIsUnlocked
<1>1. Inv => RewardedIsUnlocked
  BY DEF Inv
<1>. QED BY <1>1, Invariance, PTL

(* Neither a late report nor a poll that read before the report committed  *)
(* changes a ticket that has ended.                                        *)
THEOREM EndsOnce == Spec => TicketEndsOnce
<1>. DEFINE Kept == \A t \in Tickets :
         tickets[t].status \in {"rewarded", "expired"} => tickets'[t] = tickets[t]
<1>1. ASSUME Inv, [Next]_vars PROVE Kept
  <2>. SUFFICES ASSUME NEW t \in Tickets, tickets[t].status \in {"rewarded", "expired"}
                PROVE  tickets'[t] = tickets[t]
    OBVIOUS
  <2>1. CASE UNCHANGED tickets
    BY <2>1
  <2>2. CASE \E s \in Tickets, u \in Users, e \in Numbers : CreateAdUnlockTicket(s, u, e)
    BY <1>1, <2>2 DEF CreateAdUnlockTicket, NoTicket, Inv, TypeOK
  <2>3. CASE \E s \in Tickets : FallDue(s)
    BY <1>1, <2>3 DEF FallDue, Inv, TypeOK
  <2>4. CASE \E a \in Calls : WriteExpired(a)
    <3>1. PICK a \in Calls : WriteExpired(a)
      BY <2>4
    <3>2. PICK s \in Tickets : s = apps[a].ticket
      <4>1. apps[a] \in AppCall \cup {NoAppCall}
        BY <1>1 DEF Inv, TypeOK
      <4>. QED BY <3>1, <4>1, NoneApart DEF WriteExpired
    <3>3. CASE tickets[s].status = "pending"
      BY <1>1, <3>1, <3>2, <3>3, ExpiredRow DEF Inv, WriteExpired, StillPending
    <3>4. CASE tickets[s].status # "pending"
      BY <3>1, <3>2, <3>4 DEF WriteExpired, StillPending
    <3>. QED BY <3>3, <3>4
  <2>5. CASE \E s \in Tickets, x \in Trans : RejectLate(s, x)
    BY <1>1, <2>5, TicketRow DEF Inv, RejectLate
  <2>6. CASE \E r \in Reports, priced \in BOOLEAN : Reward(r, priced)
    <3>1. PICK r \in Reports, priced \in BOOLEAN : Reward(r, priced)
      BY <2>6
    <3>2. PICK s \in Tickets, x \in Trans : s = txs[r].ticket /\ x = txs[r].trans
      BY <1>1, <3>1 DEF Inv, TypeOK, Tx, Reward
    <3>3. tickets[s].status = "pending"
      BY <1>1, <3>1, <3>2 DEF Inv, LockedIsPending, Reward
    <3>. QED BY <1>1, <3>1, <3>2, <3>3, TicketRow DEF Inv, Reward
  <2>7. CASE Staff
    BY <2>7, <2>1 DEF Staff, DramaMoves, MoveEpisode, adminSetAdUnlockEnabled,
                      adminUpdatePricingConfig, DeleteDrama
  <2>8. CASE \/ \E u \in Users, e \in Numbers : MarkOrderPaid(u, e)
             \/ \E a \in Calls, u \in Users, e \in Numbers : appUpsertPlayHistory(a, u, e)
             \/ \E a \in Calls : WriteHistory(a)
             \/ \E a \in Calls, s \in Tickets : GetAdUnlockTicket(a, s)
             \/ appHome
             \/ \E a \in Calls, u \in Users \cup {None}, e \in Numbers : appPlayEpisode(a, u, e)
             \/ \E a \in Calls : AnswerPlay(a)
    BY <2>8, <2>1 DEF MarkOrderPaid, appUpsertPlayHistory, WriteHistory, GetAdUnlockTicket,
                      appHome, appPlayEpisode, AnswerPlay
  <2>9. CASE \/ \E r \in Reports, s \in Tickets, x \in Trans : HandleCSJRewardCallback(r, s, x)
             \/ \E r \in Reports : Abort(r)
             \/ Stop
    BY <2>9, <2>1 DEF HandleCSJRewardCallback, Abort, Stop
  <2>. QED
    BY <1>1, <2>1, <2>2, <2>3, <2>4, <2>5, <2>6, <2>7, <2>8, <2>9
    DEF Next, ViewerStep, Network, vars
<1>. QED BY <1>1, Invariance, PTL DEF Spec, TicketEndsOnce

-----------------------------------------------------------------------------
(* Plays and the play history.                                             *)

(* Open once and for all, while the drama exists: a free count may be      *)
(* lowered, but maxFree remembers it, and unlocks go with the drama only.  *)
WasOpen(u, e) == ~NeverOpen(u, e)

WatchedWasOpen ==
    /\ free <= maxFree
    /\ leaks \subseteq {"feed"}
    /\ air # "gone" =>
         /\ \A u \in Users : history[u] # 0 => WasOpen(u, history[u])
         /\ \A a \in Calls : apps[a].op \in {"watch", "play"} => WasOpen(apps[a].user, apps[a].ep)

(* Which actions move what. *)
LEMMA Movers ==
  ASSUME [Next]_vars
  PROVE  /\ \/ UNCHANGED <<free, maxFree>>
            \/ \E n \in FreeCounts : adminUpdatePricingConfig(n)
         /\ UNCHANGED history \/ DeleteDrama \/ \E a \in Calls : WriteHistory(a)
         /\ \/ UNCHANGED apps
            \/ Stop
            \/ \E a \in Calls : WriteHistory(a) \/ WriteExpired(a) \/ AnswerPlay(a)
            \/ \E a \in Calls, t \in Tickets : GetAdUnlockTicket(a, t)
            \/ \E a \in Calls, u \in Users, e \in Numbers : appUpsertPlayHistory(a, u, e)
            \/ \E a \in Calls, u \in Users \cup {None}, e \in Numbers : appPlayEpisode(a, u, e)
         /\ UNCHANGED leaks \/ appHome \/ \E a \in Calls : AnswerPlay(a)
         /\ air' # "gone" => air # "gone" /\ unlocks \subseteq unlocks'
<1>1. CASE Staff
  BY <1>1 DEF Staff, DramaMoves, MoveEpisode, adminSetAdUnlockEnabled, adminUpdatePricingConfig,
              DeleteDrama
<1>2. CASE ViewerStep
  BY <1>2 DEF ViewerStep, MarkOrderPaid, appUpsertPlayHistory, WriteHistory, CreateAdUnlockTicket,
              FallDue, GetAdUnlockTicket, WriteExpired, appHome, appPlayEpisode, AnswerPlay,
              dramaVars
<1>3. CASE Network
  BY <1>3 DEF Network, HandleCSJRewardCallback, RejectLate, Reward, Grant, Abort, Stop, dramaVars
<1>4. CASE UNCHANGED vars
  BY <1>4 DEF vars
<1>. QED BY <1>1, <1>2, <1>3, <1>4 DEF Next

LEMMA WatchStep == ASSUME TypeOK, WatchedWasOpen, [Next]_vars PROVE WatchedWasOpen'
<1>. DEFINE OpenAfter(u, e) == ~(e > maxFree' /\ <<u, e>> \notin unlocks')
<1>1. free \in Nat /\ maxFree \in Nat /\ FreeCounts \subseteq Nat /\ Numbers \subseteq Nat
  BY AdUnlocksAssumption DEF TypeOK
<1>2. /\ history \in [Users -> Numbers \cup {0}]
      /\ apps \in [Calls -> AppCall \cup {NoAppCall}]
      /\ NoAppCall.op = "none"
  BY DEF TypeOK, NoAppCall
<1>3. free' <= maxFree' /\ maxFree <= maxFree' /\ maxFree' \in Nat
  BY <1>1, Movers DEF WatchedWasOpen, adminUpdatePricingConfig
<1>4. \A u \in Users \cup {None}, e \in Numbers : air' # "gone" /\ WasOpen(u, e) => OpenAfter(u, e)
  BY <1>1, <1>3, Movers DEF WasOpen, NeverOpen, Unlocked
<1>. HIDE DEF OpenAfter
<1>5. \A a \in Calls : air' # "gone" /\ apps[a].op \in {"watch", "play"} =>
          /\ apps[a].user \in Users \cup {None} /\ apps[a].ep \in Numbers
          /\ OpenAfter(apps[a].user, apps[a].ep)
  BY <1>2, <1>4, NoneApart, Movers DEF WatchedWasOpen
<1>6. ASSUME NEW u \in Users, air' # "gone", history'[u] # 0 PROVE OpenAfter(u, history'[u])
  <2>1. CASE UNCHANGED history
    <3>1. history'[u] = history[u] /\ history[u] \in Numbers
      BY <1>2, <1>6, <2>1
    <3>2. WasOpen(u, history[u])
      BY <1>6, <3>1, Movers DEF WatchedWasOpen
    <3>3. OpenAfter(u, history[u])
      BY <1>4, <1>6, <3>1, <3>2
    <3>. QED BY <3>1, <3>3
  <2>2. ASSUME NEW a \in Calls, WriteHistory(a), ~UNCHANGED history
        PROVE  OpenAfter(u, history'[u])
    <3>1. CASE u = apps[a].user
      <4>1. history'[u] = apps[a].ep
        BY <1>2, <2>2, <3>1 DEF WriteHistory
      <4>. QED BY <1>5, <1>6, <2>2, <3>1, <4>1 DEF WriteHistory
    <3>2. CASE u # apps[a].user
      <4>1. history'[u] = history[u] /\ history[u] \in Numbers
        BY <1>2, <1>6, <2>2, <3>2 DEF WriteHistory
      <4>2. WasOpen(u, history[u])
        BY <1>6, <4>1, Movers DEF WatchedWasOpen
      <4>. QED BY <1>4, <1>6, <4>1, <4>2
    <3>. QED BY <3>1, <3>2
  <2>3. ~DeleteDrama
    BY <1>6 DEF DeleteDrama
  <2>. QED BY <2>1, <2>2, <2>3, Movers
<1>7. ASSUME NEW a \in Calls, air' # "gone", apps'[a].op \in {"watch", "play"}
      PROVE  OpenAfter(apps'[a].user, apps'[a].ep)
  <2>1. CASE apps'[a] = apps[a]
    BY <1>5, <1>7, <2>1
  <2>2. ASSUME NEW u \in Users, NEW e \in Numbers, appUpsertPlayHistory(a, u, e)
        PROVE  OpenAfter(apps'[a].user, apps'[a].ep)
    <3>1. apps'[a].user = u /\ apps'[a].ep = e
      BY <1>2, <2>2 DEF appUpsertPlayHistory
    <3>2. e > free => Unlocked(u, e)
      BY <2>2 DEF appUpsertPlayHistory, Records, effectiveFreeEpisodes
    <3>3. WasOpen(u, e)
      BY <1>1, <3>2 DEF WasOpen, NeverOpen, WatchedWasOpen
    <3>. QED BY <1>4, <1>7, <3>1, <3>3
  <2>3. apps'[a] # NoAppCall
    BY <1>2, <1>7
  <2>4. apps'[a].op # "expire"
    BY <1>7
  <2>5. CASE Stop
    BY <2>3, <2>5 DEF Stop
  <2>6. CASE \E b \in Calls : WriteHistory(b) \/ WriteExpired(b) \/ AnswerPlay(b)
    BY <1>2, <2>1, <2>3, <2>6 DEF WriteHistory, WriteExpired, AnswerPlay
  <2>7. CASE \E b \in Calls, t \in Tickets : GetAdUnlockTicket(b, t)
    <3>1. PICK b \in Calls, t \in Tickets : GetAdUnlockTicket(b, t)
      BY <2>7
    <3>2. b = a => apps'[a].op = "expire"
      BY <1>2, <3>1 DEF GetAdUnlockTicket
    <3>. QED BY <1>2, <2>1, <2>4, <3>1, <3>2 DEF GetAdUnlockTicket
  <2>8. CASE \E b \in Calls, u \in Users, e \in Numbers : appUpsertPlayHistory(b, u, e)
    <3>1. PICK b \in Calls, u \in Users, e \in Numbers : appUpsertPlayHistory(b, u, e)
      BY <2>8
    <3>2. b # a => apps'[a] = apps[a]
      BY <1>2, <3>1 DEF appUpsertPlayHistory
    <3>. QED BY <2>1, <2>2, <3>1, <3>2
  <2>9. CASE \E b \in Calls, u \in Users \cup {None}, e \in Numbers : appPlayEpisode(b, u, e)
    <3>1. PICK b \in Calls, u \in Users \cup {None}, e \in Numbers : appPlayEpisode(b, u, e)
      BY <2>9
    <3>2. b # a => apps'[a] = apps[a]
      BY <1>2, <3>1 DEF appPlayEpisode
    <3>3. CASE b = a
      <4>1. apps'[a].user = u /\ apps'[a].ep = e
        BY <1>2, <3>1, <3>3 DEF appPlayEpisode
      <4>2. e > free => Unlocked(u, e)
        BY <3>1 DEF appPlayEpisode, Plays, effectiveFreeEpisodes
      <4>3. WasOpen(u, e)
        BY <1>1, <4>2 DEF WasOpen, NeverOpen, WatchedWasOpen
      <4>. QED BY <1>4, <1>7, <4>1, <4>3
    <3>. QED BY <2>1, <3>2, <3>3
  <2>. QED BY <2>1, <2>5, <2>6, <2>7, <2>8, <2>9, Movers
<1>8. leaks' \subseteq {"feed"}
  <2>1. CASE appHome
    BY <2>1 DEF appHome, WatchedWasOpen
  <2>2. ASSUME NEW a \in Calls, AnswerPlay(a) PROVE leaks' \subseteq {"feed"}
    <3>1. air # "gone" => ~NeverOpen(apps[a].user, apps[a].ep)
      BY <2>2 DEF AnswerPlay, WatchedWasOpen, WasOpen
    <3>. QED BY <2>2, <3>1 DEF AnswerPlay, WatchedWasOpen
  <2>. QED BY <2>1, <2>2, Movers DEF WatchedWasOpen
<1>. QED BY <1>3, <1>6, <1>7, <1>8 DEF WatchedWasOpen, WasOpen, NeverOpen, Unlocked, OpenAfter

(* The play gate gives no link of an episode that was neither unlocked by  *)
(* the viewer nor free at some time, and no such episode passes for        *)
(* watched, for every order in which the staff change the free count, take *)
(* the drama down or delete it while an answer or an entry of the history  *)
(* is under way; the feed alone gives such links (appPlayEpisode,          *)
(* appUpsertPlayHistory, appHome).                                         *)
THEOREM LockedKeptClosed == Spec => []LockedStaysClosed
<1>1. Init => WatchedWasOpen
  BY AdUnlocksAssumption DEF Init, WatchedWasOpen, NoAppCall
<1>2. TypeOK /\ WatchedWasOpen => LockedStaysClosed
  <2>1. ASSUME WatchedWasOpen, NEW u \in Users, LastWatch(u) # 0 PROVE ~NeverOpen(u, LastWatch(u))
    <3>1. Shown /\ LastWatch(u) = history[u] /\ history[u] # 0
      BY <2>1 DEF LastWatch
    <3>. QED BY <2>1, <3>1 DEF WatchedWasOpen, WasOpen, NeverOpen, Shown
  <2>. QED BY <2>1 DEF WatchedWasOpen, LockedStaysClosed, LastWatchWasOpen
<1>3. Inv => TypeOK
  BY DEF Inv
<1>. QED BY <1>1, <1>2, <1>3, WatchStep, Invariance, PTL DEF Spec

(* The two together: a watched ad is worth one episode, and always that    *)
(* one (ad_unlock.go, GrantAdUnlock).                                      *)
THEOREM RewardsKept == Spec => []RewardKept
<1>1. OneRewardPerReport /\ RewardedIsUnlocked => RewardKept
  BY DEF RewardKept
<1>. QED BY <1>1, OneReward, RewardUnlocks, PTL

(***************************************************************************)
(* AdUnlocks implements Vouchers.  A step of a ticket is one of its        *)
(* voucher: what the row says of the viewer and the episode stays, so only *)
(* its status and its number move.                                         *)
(***************************************************************************)

Lives == [t \in Tickets |-> tickets[t].status]
Worths == [t \in Tickets |-> <<tickets[t].user, tickets[t].ep>>]
Carried == [t \in Tickets |-> tickets[t].trans]

LEMMA NothingMaps ==
  ASSUME UNCHANGED <<tickets, unlocks, booked>>, (air' = "gone") <=> (air = "gone")
  PROVE  UNCHANGED Vouchers!voucherVars
<1>1. (air' = "gone") = (air = "gone")
  BY Zenon
<1>2. Lives' = Lives /\ Worths' = Worths /\ Carried' = Carried
  BY DEF Lives, Worths, Carried
<1>. QED BY <1>1, <1>2, Zenon DEF Lives, Worths, Carried, Vouchers!voucherVars

(* Nothing of the tickets moves but one, and of that only the deadline.    *)
LEMMA DeadlineMaps ==
  ASSUME NEW t \in Tickets,
         \A u \in Tickets \ {t} : tickets'[u] = tickets[u],
         /\ tickets'[t].status = tickets[t].status
         /\ tickets'[t].trans = tickets[t].trans
         /\ tickets'[t].user = tickets[t].user
         /\ tickets'[t].ep = tickets[t].ep,
         UNCHANGED <<unlocks, booked, air>>
  PROVE  UNCHANGED Vouchers!voucherVars
<1>1. Lives' = Lives /\ Worths' = Worths /\ Carried' = Carried
  BY DEF Lives, Worths, Carried
<1>. QED BY <1>1, Zenon DEF Lives, Worths, Carried, Vouchers!voucherVars

(* The end of one ticket.                                                  *)
LEMMA RowMaps ==
  ASSUME NEW t \in Tickets, NEW s, NEW x,
         \A u \in Tickets \ {t} : tickets'[u] = tickets[u],
         /\ tickets'[t].status = s
         /\ tickets'[t].trans = x
         /\ tickets'[t].user = tickets[t].user
         /\ tickets'[t].ep = tickets[t].ep
  PROVE  /\ Lives' = [Lives EXCEPT ![t] = s]
         /\ Carried' = [Carried EXCEPT ![t] = x]
         /\ Worths' = Worths
  BY DEF Lives, Worths, Carried

LEMMA IssueMaps ==
  ASSUME Inv, NEW t \in Tickets, NEW u \in Users, NEW e \in Numbers,
         CreateAdUnlockTicket(t, u, e)
  PROVE  Vouchers!Issue(t)
<1>. DEFINE T == [user |-> u, ep |-> e, status |-> "pending", trans |-> None, due |-> FALSE]
<1>1. tickets' = [tickets EXCEPT ![t] = T] /\ tickets[t] = NoTicket
  BY DEF CreateAdUnlockTicket
<1>2. /\ T.status = "pending" /\ T.trans = None /\ T.user = u /\ T.ep = e
      /\ tickets[t].status = "none" /\ tickets[t].trans = None
  BY <1>1 DEF NoTicket
<1>. HIDE DEF T
<1>3. tickets'[t] = T /\ \A v \in Tickets \ {t} : tickets'[v] = tickets[v]
  BY <1>1 DEF Inv, TypeOK
<1>4. /\ Lives' = [Lives EXCEPT ![t] = "pending"]
      /\ Worths' = [Worths EXCEPT ![t] = <<u, e>>]
      /\ Carried' = Carried
  BY <1>2, <1>3 DEF Lives, Worths, Carried
<1>5. Lives[t] = "none" /\ Worths'[t] = <<u, e>>
  BY <1>2, <1>3 DEF Lives, Worths
<1>6. <<u, e>> \in (Users \X Numbers) \ unlocks /\ air # "gone"
  BY DEF CreateAdUnlockTicket, Offers, Shown, Unlocked
<1>7. UNCHANGED <<unlocks, booked, air>>
  BY DEF CreateAdUnlockTicket, dramaVars
<1>. QED BY <1>4, <1>5, <1>6, <1>7, Zenon DEF Lives, Worths, Carried, Vouchers!Issue

(* A poll, or a report that comes late.                                    *)
LEMMA VoidMaps ==
  ASSUME Inv, NEW t \in Tickets, NEW x \in Trans \cup {None},
         tickets[t].status = "pending",
         x # None => ~CarriedElsewhere(x, t),
         \A u \in Tickets \ {t} : tickets'[u] = tickets[u],
         /\ tickets'[t].status = "expired"
         /\ tickets'[t].trans = x
         /\ tickets'[t].user = tickets[t].user
         /\ tickets'[t].ep = tickets[t].ep,
         UNCHANGED <<unlocks, booked, air>>
  PROVE  Vouchers!Void(t)
<1>1. /\ Lives' = [Lives EXCEPT ![t] = "expired"]
      /\ Carried' = [Carried EXCEPT ![t] = x]
      /\ Worths' = Worths
  BY RowMaps
<1>2. Lives[t] = "pending" /\ Carried[t] = None
  BY DEF Lives, Carried, Inv, OpenHasNoTrans
<1>3. Carried' \in {Carried} \cup
        {[Carried EXCEPT ![t] = y] : y \in {z \in Trans : \A v \in Tickets : Carried[v] # z}}
  <2>1. CASE x = None
    <3>1. [Carried EXCEPT ![t] = None] = Carried
      BY <1>2 DEF Carried
    <3>. QED BY <1>1, <2>1, <3>1
  <2>2. CASE x # None
    <3>1. \A v \in Tickets : Carried[v] # x
      BY <1>2, <2>2 DEF CarriedElsewhere, Carried
    <3>. QED BY <1>1, <2>2, <3>1
  <2>. QED BY <2>1, <2>2
<1>. QED BY <1>1, <1>2, <1>3, Zenon DEF Lives, Worths, Carried, Vouchers!Void, Vouchers!Fresh

LEMMA RedeemMaps ==
  ASSUME Inv, NEW r \in Reports, NEW priced \in BOOLEAN, Reward(r, priced)
  PROVE  \E t \in Tickets, x \in Trans : Vouchers!Redeem(t, x)
<1>1. PICK t \in Tickets, x \in Trans : t = txs[r].ticket /\ x = txs[r].trans
  BY DEF Inv, TypeOK, Tx, Reward
<1>2. tickets[t].status = "pending" /\ tickets[t].trans = None /\ x # None
  BY <1>1, NoneApart DEF Inv, LockedIsPending, OpenHasNoTrans, Reward
<1>3. /\ tickets'[t].status = "rewarded"
      /\ tickets'[t].trans = x
      /\ tickets'[t].user = tickets[t].user
      /\ tickets'[t].ep = tickets[t].ep
      /\ \A u \in Tickets \ {t} : tickets'[u] = tickets[u]
  BY <1>1, <1>2, TicketRow DEF Inv, Reward
<1>4. /\ Lives' = [Lives EXCEPT ![t] = "rewarded"]
      /\ Carried' = [Carried EXCEPT ![t] = x]
      /\ Worths' = Worths
  BY <1>3, RowMaps
<1>5. \A v \in Tickets : tickets[v].trans # x
  BY <1>1, <1>2 DEF Reward, IndexAdmits, CarriedElsewhere
<1>6. Lives[t] = "pending" /\ \A v \in Tickets : Carried[v] # x
  BY <1>2, <1>5 DEF Lives, Carried
<1>7. unlocks' = unlocks \cup {Worths[t]} /\ air' = air
  BY <1>1 DEF Reward, Grant, Worths, dramaVars
<1>8. booked[x] = 0
  <2>1. booked[x] \in Nat /\ booked[x] <= 1 /\ booked[x] # 1
    BY <1>5 DEF Inv, TypeOK, OneRewardPerReport
  <2>. QED BY <2>1
<1>9. booked' = booked \/ (air # "gone" /\ booked[x] = 0 /\ booked' = [booked EXCEPT ![x] = 1])
  BY <1>1, <1>8 DEF Reward, recordAdIncome
<1>10. Vouchers!Redeem(t, x)
  BY <1>4, <1>6, <1>7, <1>9, Zenon DEF Lives, Worths, Carried, Vouchers!Redeem, Vouchers!Fresh
<1>. QED BY <1>10

LEMMA VouchersStep == Inv /\ Inv' /\ [Next]_vars => [Vouchers!VouchersNext]_(Vouchers!voucherVars)
<1>. SUFFICES ASSUME Inv, Inv', [Next]_vars
              PROVE  Vouchers!VouchersNext \/ UNCHANGED Vouchers!voucherVars
  OBVIOUS
<1>1. CASE UNCHANGED vars
  <2>1. UNCHANGED <<tickets, unlocks, booked, air>>
    BY <1>1 DEF vars
  <2>. QED BY <2>1, NothingMaps
<1>2. CASE Staff
  <2>1. CASE DeleteDrama
    <3>1. UNCHANGED <<tickets, booked>> /\ unlocks' = {} /\ air # "gone" /\ air' = "gone"
      BY <2>1 DEF DeleteDrama
    <3>2. Vouchers!Close
      BY <3>1, Zenon DEF Vouchers!Close
    <3>. QED BY <3>2 DEF Vouchers!VouchersNext
  <2>2. CASE ~DeleteDrama
    <3>1. UNCHANGED <<tickets, unlocks, booked>> /\ ((air' = "gone") <=> (air = "gone"))
      BY <1>2, <2>2 DEF Staff, DramaMoves, MoveEpisode, adminSetAdUnlockEnabled,
         adminUpdatePricingConfig
    <3>. QED BY <3>1, NothingMaps
  <2>. QED BY <2>1, <2>2
<1>3. CASE ViewerStep
  <2>1. CASE \/ \E a \in Calls, u \in Users, e \in Numbers : appUpsertPlayHistory(a, u, e)
             \/ \E a \in Calls : WriteHistory(a)
             \/ \E a \in Calls, t \in Tickets : GetAdUnlockTicket(a, t)
             \/ appHome
             \/ \E a \in Calls, u \in Users \cup {None}, e \in Numbers : appPlayEpisode(a, u, e)
             \/ \E a \in Calls : AnswerPlay(a)
    <3>1. UNCHANGED <<tickets, unlocks, booked, air>>
      BY <2>1 DEF appUpsertPlayHistory, WriteHistory, GetAdUnlockTicket, appHome, appPlayEpisode,
         AnswerPlay, dramaVars
    <3>. QED BY <3>1, NothingMaps
  <2>2. ASSUME NEW u \in Users, NEW e \in Numbers, MarkOrderPaid(u, e)
        PROVE  Vouchers!VouchersNext \/ UNCHANGED Vouchers!voucherVars
    <3>1. /\ UNCHANGED <<tickets, booked, air>> /\ air # "gone"
          /\ unlocks' = unlocks \cup {<<u, e>>}
      BY <2>2 DEF MarkOrderPaid, dramaVars
    <3>2. CASE <<u, e>> \in unlocks
      <4>1. unlocks' = unlocks
        BY <3>1, <3>2
      <4>. QED BY <3>1, <4>1, NothingMaps
    <3>3. CASE <<u, e>> \notin unlocks
      <4>1. Vouchers!Buy(<<u, e>>)
        BY <3>1, <3>3, Zenon DEF Vouchers!Buy
      <4>2. <<u, e>> \in Users \X Numbers
        OBVIOUS
      <4>. QED BY <4>1, <4>2 DEF Vouchers!VouchersNext
    <3>. QED BY <3>2, <3>3
  <2>3. ASSUME NEW t \in Tickets, NEW u \in Users, NEW e \in Numbers,
               CreateAdUnlockTicket(t, u, e)
        PROVE  Vouchers!VouchersNext
    BY <2>3, IssueMaps DEF Vouchers!VouchersNext
  <2>4. ASSUME NEW t \in Tickets, FallDue(t) PROVE UNCHANGED Vouchers!voucherVars
    <3>. DEFINE T == [tickets[t] EXCEPT !.due = TRUE]
    <3>1. tickets' = [tickets EXCEPT ![t] = T]
      BY <2>4 DEF FallDue
    <3>2. /\ T.status = tickets[t].status /\ T.trans = tickets[t].trans
          /\ T.user = tickets[t].user /\ T.ep = tickets[t].ep
      BY <2>4, Typed DEF Inv, FallDue, Ticket
    <3>. HIDE DEF T
    <3>3. tickets'[t] = T /\ \A v \in Tickets \ {t} : tickets'[v] = tickets[v]
      BY <3>1 DEF Inv, TypeOK
    <3>. QED BY <2>4, <3>2, <3>3, DeadlineMaps DEF FallDue, dramaVars
  <2>5. ASSUME NEW a \in Calls, WriteExpired(a)
        PROVE  Vouchers!VouchersNext \/ UNCHANGED Vouchers!voucherVars
    <3>1. PICK t \in Tickets : t = apps[a].ticket
      <4>1. apps[a] \in AppCall \cup {NoAppCall}
        BY DEF Inv, TypeOK
      <4>. QED BY <2>5, <4>1, NoneApart DEF WriteExpired
    <3>2. CASE tickets[t].status = "pending"
      <4>1. /\ tickets'[t].status = "expired"
            /\ tickets'[t].trans = tickets[t].trans
            /\ tickets'[t].user = tickets[t].user
            /\ tickets'[t].ep = tickets[t].ep
            /\ \A u \in Tickets \ {t} : tickets'[u] = tickets[u]
        BY <2>5, <3>1, <3>2, ExpiredRow DEF Inv, WriteExpired, StillPending
      <4>2. tickets[t].trans = None
        BY <3>2 DEF Inv, OpenHasNoTrans
      <4>3. Vouchers!Void(t)
        BY <2>5, <3>2, <4>1, <4>2, VoidMaps DEF WriteExpired, dramaVars
      <4>. QED BY <4>3 DEF Vouchers!VouchersNext
    <3>3. CASE tickets[t].status # "pending"
      <4>1. UNCHANGED <<tickets, unlocks, booked, air>>
        BY <2>5, <3>1, <3>3 DEF WriteExpired, StillPending, dramaVars
      <4>. QED BY <4>1, NothingMaps
    <3>. QED BY <3>2, <3>3
  <2>. QED BY <1>3, <2>1, <2>2, <2>3, <2>4, <2>5 DEF ViewerStep
<1>4. CASE Network
  <2>1. CASE \/ \E r \in Reports, t \in Tickets, x \in Trans : HandleCSJRewardCallback(r, t, x)
             \/ \E r \in Reports : Abort(r)
             \/ Stop
    <3>1. UNCHANGED <<tickets, unlocks, booked, air>>
      BY <2>1 DEF HandleCSJRewardCallback, Abort, Stop, dramaVars
    <3>. QED BY <3>1, NothingMaps
  <2>2. ASSUME NEW t \in Tickets, NEW x \in Trans, RejectLate(t, x) PROVE Vouchers!VouchersNext
    <3>1. /\ tickets'[t].status = "expired"
          /\ tickets'[t].trans = x
          /\ tickets'[t].user = tickets[t].user
          /\ tickets'[t].ep = tickets[t].ep
          /\ \A u \in Tickets \ {t} : tickets'[u] = tickets[u]
      BY <2>2, TicketRow DEF Inv, RejectLate
    <3>2. Vouchers!Void(t)
      BY <2>2, <3>1, VoidMaps DEF RejectLate, dramaVars
    <3>. QED BY <3>2 DEF Vouchers!VouchersNext
  <2>3. ASSUME NEW r \in Reports, NEW priced \in BOOLEAN, Reward(r, priced)
        PROVE  Vouchers!VouchersNext
    BY <2>3, RedeemMaps DEF Vouchers!VouchersNext
  <2>. QED BY <1>4, <2>1, <2>2, <2>3 DEF Network
<1>. QED BY <1>1, <1>2, <1>3, <1>4 DEF Next

(* A ticket ends once, whatever polls, repeated reports and crashes cross; *)
(* its reward opens its own episode and books its income in one step; and  *)
(* only the deletion of the drama takes an unlock back.                    *)
THEOREM AdUnlocksImplementVouchers == Spec => ImplementsVouchers
<1>1. Init => Vouchers!VouchersInit
  <2>. SUFFICES ASSUME Init PROVE Vouchers!VouchersInit
    OBVIOUS
  <2>1. /\ Lives = [t \in Tickets |-> "none"]
        /\ Worths = [t \in Tickets |-> <<None, 0>>]
        /\ Carried = [t \in Tickets |-> None]
    BY DEF Init, Lives, Worths, Carried, NoTicket
  <2>2. unlocks = {} /\ booked = [x \in Trans |-> 0] /\ air # "gone"
    BY DEF Init
  <2>. QED BY <2>1, <2>2, Zenon DEF Lives, Worths, Carried, Vouchers!VouchersInit
<1>. QED BY <1>1, VouchersStep, Invariance, PTL DEF Spec, ImplementsVouchers, Vouchers!VouchersSpec

=============================================================================
