--------------------------- MODULE EpisodesProofs ---------------------------
(***************************************************************************)
(* What is ready plays its own file: for every number of episodes, files,  *)
(* edits and lookups in flight.                                            *)
(*                                                                         *)
(* Neither half is inductive.  An update checks the row it read, a lookup  *)
(* asks about the file it read; what they write is right as long as the    *)
(* row is still the one they read (CallFits), which is what fresh says.    *)
(* Callbacks need no such care: they look for the rows that name the file  *)
(* when they arrive.                                                       *)
(***************************************************************************)
EXTENDS Episodes, TLAPS

Looking(call) == call.op \in {"lazy", "refresh"}

(* What a call writes, and what it may rely on while its row is the one it *)
(* read.                                                                   *)
CallFits(call) ==
    call # NoCall =>
        /\ call.op # "reorder" => call.row \in Rows
        /\ call.op = "update" =>
             /\ call.set \in Update
             /\ call.fresh => call.row \in Live /\ ReadyNeedsSource(call.row, call.set)
        /\ call.op = "name" =>
             /\ call.set \in Update /\ call.set.status = Keep
             /\ call.set.file \in Files /\ call.set.url = KeepLink
             /\ call.fresh => call.row \in Live /\ episodes[call.row].url = NoLink
        /\ call.op = "retry" => call.set = [status |-> "uploading", file |-> None, url |-> NoLink]
        /\ Looking(call) =>
             /\ call.file \in Files
             /\ call.set # None => /\ call.set \in Update /\ call.set.file = Keep
                                   /\ call.set.url \in {<<call.file, "original">>, <<call.file, "stream">>}
             /\ call.fresh => call.row \in Live /\ episodes[call.row].file = call.file

AllFit == \A q \in Slots : CallFits(calls[q])

Inv == TypeOK /\ AllFit /\ ReadyPlaysOwnFile

-----------------------------------------------------------------------------
(* Rows and links.                                                         *)

LEMMA NoneApart ==
    /\ None \notin Files /\ None \notin Rows /\ None # Keep
    /\ NoCall \notin Call /\ NoCall.op = None /\ NoCall.fresh = TRUE
    /\ \A op \in {"lazy", "refresh", "update", "name", "retry", "delete", "reorder"} : op # None
BY NoneAssumption DEF NoCall, Call, Keep

LEMMA AbsentApart ==
    /\ Absent \notin Episode
    /\ \A x \in Episode : x # Absent /\ x.no \in Nos /\ x.status \in Statuses
                          /\ x.file \in Files \cup {None} /\ x.url \in Links
BY NoneAssumption DEF Absent, Episode, Statuses

LEMMA LinksApart ==
    /\ NoLink \in Links /\ TypedLink \in Links /\ KeepLink \notin Links
    /\ NoLink[1] = None /\ TypedLink[1] = None /\ TypedLink # NoLink
    /\ \A f \in Files, k \in {"original", "stream"} :
         /\ <<f, k>> \in Links /\ <<f, k>> # NoLink /\ <<f, k>> # KeepLink /\ <<f, k>>[1] = f
BY NoneApart DEF Links, NoLink, TypedLink, KeepLink

LEMMA LiveRows ==
    ASSUME TypeOK
    PROVE  /\ Live \subseteq Rows
           /\ \A e \in Rows : e \in Live <=> episodes[e] \in Episode
BY AbsentApart DEF TypeOK, Live

LEMMA UpdateColumns ==
    \A set \in Update : /\ set.status \in Statuses \cup {Keep}
                        /\ set.file \in Files \cup {None, Keep}
                        /\ set.url \in Links \cup {KeepLink}
BY DEF Update

(* What an update leaves in the row. *)
LEMMA UpdatedRow ==
    ASSUME NEW old \in Episode, NEW set \in Update
    PROVE  \E new \in Episode :
             /\ new = [old EXCEPT !.status = Set(@, set.status), !.file = Set(@, set.file),
                                  !.url = SetLink(@, set.url)]
             /\ new.no = old.no /\ new.status = Set(old.status, set.status)
             /\ new.file = Set(old.file, set.file) /\ new.url = SetLink(old.url, set.url)
<1>1. PICK s, f, u : s = Set(old.status, set.status) /\ f = Set(old.file, set.file)
                     /\ u = SetLink(old.url, set.url)
  OBVIOUS
<1>2. s \in Statuses /\ f \in Files \cup {None} /\ u \in Links
  BY <1>1, AbsentApart, UpdateColumns DEF Set, SetLink
<1>3. PICK new : new = [old EXCEPT !.status = s, !.file = f, !.url = u]
  OBVIOUS
<1>4. new.no = old.no /\ new.status = s /\ new.file = f /\ new.url = u
  BY <1>3 DEF Episode
<1>5. new \in [no: Nos, status: Statuses, file: Files \cup {None}, url: Links]
  BY <1>2, <1>3, AbsentApart DEF Episode
<1>. QED BY <1>1, <1>3, <1>4, <1>5 DEF Episode

LEMMA WrittenRows ==
    ASSUME TypeOK, NEW e \in Live, NEW set \in Update, episodes' = Written(e, set)
    PROVE  /\ episodes' \in [Rows -> Episode \cup {Absent}]
           /\ \A x \in Rows \ {e} : episodes'[x] = episodes[x]
           /\ episodes'[e] \in Episode
           /\ episodes'[e].status = Set(episodes[e].status, set.status)
           /\ episodes'[e].file = Set(episodes[e].file, set.file)
           /\ episodes'[e].url = SetLink(episodes[e].url, set.url)
<1>1. e \in Rows /\ episodes[e] \in Episode
  BY LiveRows
<1>2. PICK new \in Episode :
             /\ new = [episodes[e] EXCEPT !.status = Set(@, set.status), !.file = Set(@, set.file),
                                          !.url = SetLink(@, set.url)]
             /\ new.no = episodes[e].no /\ new.status = Set(episodes[e].status, set.status)
             /\ new.file = Set(episodes[e].file, set.file)
             /\ new.url = SetLink(episodes[e].url, set.url)
  BY <1>1, UpdatedRow
<1>3. episodes' = [episodes EXCEPT ![e] = new]
  BY <1>2 DEF Written
<1>. QED BY <1>1, <1>2, <1>3 DEF TypeOK

-----------------------------------------------------------------------------
(* What the steps must see to.                                             *)

SameFile(e) == e \in Live' /\ episodes'[e].file = episodes[e].file

SameRow(e) == SameFile(e) /\ episodes'[e].status = episodes[e].status /\ episodes'[e].url = episodes[e].url

Sound(e) ==
    /\ episodes[e].status = "ready" => episodes[e].url # NoLink \/ episodes[e].file # None
    /\ e \notin patched => episodes[e].url[1] \in {None, episodes[e].file}

LEMMA SoundRows == ReadyPlaysOwnFile <=> (crossed \/ \A e \in Live : Sound(e))
BY DEF ReadyPlaysOwnFile, ReadyHasSource, PlaysOwnFile, Sound

LEMMA RowsFollow ==
    ASSUME ReadyPlaysOwnFile, crossed => crossed',
           ~crossed' => \A e \in Live' : \/ e \in Live /\ SameRow(e) /\ (e \in patched => e \in patched')
                                         \/ Sound(e)'
    PROVE  ReadyPlaysOwnFile'
<1>. SUFFICES ASSUME ~crossed', NEW e \in Live' PROVE Sound(e)'
  BY DEF ReadyPlaysOwnFile, ReadyHasSource, PlaysOwnFile, Sound
<1>1. CASE e \in Live /\ SameRow(e) /\ (e \in patched => e \in patched')
  <2>1. Sound(e)
    BY <1>1, SoundRows
  <2>2. /\ episodes'[e].file = episodes[e].file /\ episodes'[e].status = episodes[e].status
        /\ episodes'[e].url = episodes[e].url
    BY <1>1 DEF SameRow, SameFile
  <2>3. PICK f, s, u : f = episodes[e].file /\ s = episodes[e].status /\ u = episodes[e].url
    OBVIOUS
  <2>4. (s = "ready" => u # NoLink \/ f # None) /\ (e \notin patched => u[1] \in {None, f})
    BY <2>1, <2>3 DEF Sound
  <2>. QED BY <1>1, <2>2, <2>3, <2>4 DEF Sound
<1>. QED BY <1>1

(* A call that is overtaken, or that no other touches, fits as before. *)
LEMMA CallStays ==
    ASSUME NEW c, CallFits(c),
           c.fresh /\ Updates(c) /\ c.row \in Live => SameRow(c.row),
           c.fresh /\ Looking(c) /\ c.row \in Live => SameFile(c.row)
    PROVE  CallFits(c)'
<1>. SUFFICES ASSUME c # NoCall PROVE CallFits(c)'
  BY DEF CallFits
<1>1. c.op = "update" /\ c.fresh => c.row \in Live' /\ ReadyNeedsSource(c.row, c.set)'
  <2>. SUFFICES ASSUME c.op = "update", c.fresh PROVE c.row \in Live' /\ ReadyNeedsSource(c.row, c.set)'
    OBVIOUS
  <2>1. c.row \in Live /\ ReadyNeedsSource(c.row, c.set)
    BY DEF CallFits
  <2>2. SameRow(c.row)
    BY <2>1 DEF Updates
  <2>3. PICK r : r = c.row
    OBVIOUS
  <2>4. /\ episodes'[r].file = episodes[r].file /\ episodes'[r].status = episodes[r].status
        /\ episodes'[r].url = episodes[r].url
    BY <2>2, <2>3 DEF SameRow, SameFile
  <2>5. ReadyNeedsSource(r, c.set)'
    BY <2>1, <2>3, <2>4 DEF ReadyNeedsSource
  <2>. QED BY <2>2, <2>3, <2>5 DEF SameRow, SameFile
<1>2. Looking(c) /\ c.fresh => c.row \in Live' /\ episodes'[c.row].file = c.file
  BY DEF CallFits, SameFile
<1>3. c.op = "name" /\ c.fresh => c.row \in Live' /\ episodes'[c.row].url = NoLink
  BY DEF CallFits, Updates, SameRow, SameFile
<1>. QED BY <1>1, <1>2, <1>3 DEF CallFits

LEMMA OvertakenFits ==
    ASSUME NEW c \in Call, CallFits(c), NEW d, d = [c EXCEPT !.fresh = FALSE]
    PROVE  d \in Call /\ d.fresh = FALSE /\ d # NoCall /\ CallFits(d)'
<1>1. /\ c.op \in {"lazy", "refresh", "update", "name", "retry", "delete", "reorder"}
      /\ c.row \in Rows \cup {None} /\ c.set \in Update \cup {None} /\ c.file \in Files \cup {None}
      /\ c.ready \in BOOLEAN /\ c # NoCall
  BY NoneApart DEF Call
<1>2. d.op = c.op /\ d.row = c.row /\ d.set = c.set /\ d.file = c.file /\ d.ready = c.ready /\ d.fresh = FALSE
  BY DEF Call
<1>3. d \in [op: {"lazy", "refresh", "update", "name", "retry", "delete", "reorder"},
             row: Rows \cup {None}, set: Update \cup {None}, file: Files \cup {None},
             ready: BOOLEAN, fresh: BOOLEAN]
  BY <1>1 DEF Call
<1>4. CallFits(d)'
  BY <1>1, <1>2 DEF CallFits, Looking
<1>. QED BY <1>2, <1>3, <1>4, NoneApart DEF Call

LEMMA NoCallFits == CallFits(NoCall)'
BY DEF CallFits

LEMMA CallTypes ==
    ASSUME TypeOK
    PROVE  /\ calls \in [Slots -> Call \cup {NoCall}]
           /\ \A q \in Slots : calls[q] # NoCall => calls[q] \in Call
BY DEF TypeOK

LEMMA CallsFollow ==
    ASSUME TypeOK, AllFit, DOMAIN calls' = Slots, calls' = [q \in Slots |-> calls'[q]],
           \A q \in Slots :
              \/ calls'[q] = NoCall
              \/ calls[q] # NoCall /\ calls'[q] = [calls[q] EXCEPT !.fresh = FALSE]
              \/ /\ calls'[q] = calls[q]
                 /\ Updates(calls[q]) /\ calls[q].row \in Live => SameRow(calls[q].row)
                 /\ Looking(calls[q]) /\ calls[q].row \in Live => SameFile(calls[q].row)
    PROVE  AllFit' /\ calls' \in [Slots -> Call \cup {NoCall}]
<1>. SUFFICES ASSUME NEW q \in Slots PROVE CallFits(calls[q])' /\ calls'[q] \in Call \cup {NoCall}
  BY DEF AllFit
<1>1. PICK c, d : c = calls[q] /\ d = calls'[q]
  OBVIOUS
<1>2. CallFits(c) /\ c \in Call \cup {NoCall}
  BY <1>1, CallTypes DEF AllFit
<1>3. \/ d = NoCall
      \/ c # NoCall /\ d = [c EXCEPT !.fresh = FALSE]
      \/ /\ d = c
         /\ Updates(c) /\ c.row \in Live => SameRow(c.row)
         /\ Looking(c) /\ c.row \in Live => SameFile(c.row)
  <2>. HIDE DEF NoCall
  <2>. QED BY <1>1
<1>4. CallFits(d)' /\ d \in Call \cup {NoCall}
  <2>1. CASE d = NoCall
    BY <2>1, NoCallFits
  <2>2. CASE c # NoCall /\ d = [c EXCEPT !.fresh = FALSE]
    BY <1>2, <2>2, OvertakenFits
  <2>3. CASE /\ d = c
             /\ Updates(c) /\ c.row \in Live => SameRow(c.row)
             /\ Looking(c) /\ c.row \in Live => SameFile(c.row)
    <3>1. CallFits(c)'
      BY <1>2, <2>3, CallStays
    <3>. QED BY <1>2, <2>3, <3>1
  <2>. QED BY <1>3, <2>1, <2>2, <2>3
<1>. QED BY <1>1, <1>4

-----------------------------------------------------------------------------
(* A call that begins. *)

LEMMA BeginStep ==
    ASSUME Inv, NEW q \in Slots, NEW e \in Rows \cup {None}, NEW set \in Update \cup {None},
           NEW op \in {"lazy", "refresh", "update", "name", "retry", "delete", "reorder"},
           Begin(q, op, e, set), op # "reorder" => e \in Live,
           op = "update" => set \in Update /\ ReadyNeedsSource(e, set),
           op = "name" => /\ set \in Update /\ set.status = Keep /\ set.file \in Files
                          /\ set.url = KeepLink /\ episodes[e].url = NoLink,
           op = "retry" => set = [status |-> "uploading", file |-> None, url |-> NoLink],
           op \in {"lazy", "refresh"} => set = None /\ episodes[e].file # None
    PROVE  Inv'
<1>1. PICK f, r : /\ f = IF op \in {"lazy", "refresh"} THEN episodes[e].file ELSE None
                  /\ r = (op = "refresh" /\ episodes[e].status = "ready")
  OBVIOUS
<1>2. f \in Files \cup {None} /\ (op \in {"lazy", "refresh"} => f \in Files /\ f = episodes[e].file)
  BY <1>1, LiveRows, AbsentApart DEF Inv
<1>3. r \in BOOLEAN
  BY <1>1
<1>4. PICK c : c = [op |-> op, row |-> e, set |-> set, file |-> f, ready |-> r, fresh |-> TRUE]
  OBVIOUS
<1>5. c \in Call
  BY <1>2, <1>3, <1>4 DEF Call
<1>6. c.op = op /\ c.row = e /\ c.set = set /\ c.file = f
  BY <1>4
<1>7. calls' = [calls EXCEPT ![q] = c] /\ UNCHANGED <<episodes, air, media, crossed, patched>>
  BY <1>1, <1>4 DEF Begin
<1>8. CallFits(c)
  BY <1>2, <1>6, LiveRows DEF Inv, CallFits, Looking
<1>9. \A d : CallFits(d)' <=> CallFits(d)
  BY <1>7 DEF CallFits, ReadyNeedsSource, Live
<1>10. TypeOK'
  BY <1>5, <1>7 DEF Inv, TypeOK
<1>11. AllFit'
  <2>. SUFFICES ASSUME NEW p \in Slots PROVE CallFits(calls[p])'
    BY DEF AllFit
  <2>1. PICK d : d = calls'[p]
    OBVIOUS
  <2>2. d = IF p = q THEN c ELSE calls[p]
    BY <1>7, <2>1 DEF Inv, TypeOK
  <2>3. CallFits(d)
    BY <1>8, <2>2 DEF Inv, AllFit
  <2>. QED BY <1>9, <2>1, <2>3
<1>12. ReadyPlaysOwnFile'
  BY <1>7 DEF Inv, ReadyPlaysOwnFile, ReadyHasSource, PlaysOwnFile, Live
<1>. QED BY <1>10, <1>11, <1>12 DEF Inv

LEMMA BeginSteps ==
    ASSUME Inv, NEW q \in Slots,
           \/ \E e \in Rows : \/ RetryEpisode(q, e) \/ DeleteEpisode(q, e)
                              \/ \E set \in Edits : UpdateEpisode(q, e, set)
                              \/ \E f \in Files : NameFile(q, e, f)
                              \/ lazySyncEpisodeVOD(q, e) \/ RefreshEpisodeVOD(q, e)
           \/ ReorderEpisodes(q)
    PROVE  Inv'
<1>1. ASSUME NEW e \in Rows, RetryEpisode(q, e) PROVE Inv'
  <2>1. PICK set : set = [status |-> "uploading", file |-> None, url |-> NoLink]
    OBVIOUS
  <2>2. set \in Update
    BY <2>1, LinksApart DEF Update, Statuses
  <2>. QED BY <1>1, <2>1, <2>2, BeginStep DEF RetryEpisode
<1>2. ASSUME NEW e \in Rows, DeleteEpisode(q, e) PROVE Inv'
  BY <1>2, BeginStep DEF DeleteEpisode
<1>3. ASSUME NEW e \in Rows, NEW set \in Edits, UpdateEpisode(q, e, set) PROVE Inv'
  BY <1>3, BeginStep, EditsAssumption DEF UpdateEpisode
<1>4. ASSUME NEW e \in Rows, lazySyncEpisodeVOD(q, e) PROVE Inv'
  BY <1>4, BeginStep DEF lazySyncEpisodeVOD
<1>5. ASSUME NEW e \in Rows, RefreshEpisodeVOD(q, e) PROVE Inv'
  BY <1>5, BeginStep DEF RefreshEpisodeVOD
<1>6. CASE ReorderEpisodes(q)
  BY <1>6, BeginStep DEF ReorderEpisodes
<1>7. ASSUME NEW e \in Rows, NEW f \in Files, NameFile(q, e, f) PROVE Inv'
  <2>1. PICK set : set = [status |-> Keep, file |-> f, url |-> KeepLink]
    OBVIOUS
  <2>2. set \in Update /\ set.status = Keep /\ set.file \in Files /\ set.url = KeepLink
    BY <2>1 DEF Update
  <2>. QED BY <1>7, <2>1, <2>2, BeginStep DEF NameFile
<1>. QED BY <1>1, <1>2, <1>3, <1>4, <1>5, <1>6, <1>7

-----------------------------------------------------------------------------
(* A call that writes. *)

(* Row e changes and the calls that had read it are overtaken; call q is   *)
(* over.                                                                   *)
LEMMA ReturnStep ==
    ASSUME Inv, NEW q \in Slots, calls[q] # NoCall, NEW e, e = calls[q].row, Return(q),
           episodes' \in [Rows -> Episode \cup {Absent}],
           \A x \in Rows \ {e} : episodes'[x] = episodes[x] /\ (x \in patched <=> x \in patched'),
           patched' \subseteq Rows, UNCHANGED <<air, media>>,
           calls[q].fresh /\ e \in Live' => crossed \/ Sound(e)'
    PROVE  Inv'
<1>1. /\ calls' = [[p \in Slots |-> IF calls[p] # NoCall /\ calls[p].row = e
                                    THEN [calls[p] EXCEPT !.fresh = FALSE] ELSE calls[p]]
                   EXCEPT ![q] = NoCall]
      /\ crossed' = (crossed \/ ~calls[q].fresh)
  BY DEF Return, Stale
<1>2. \A x \in Live \ {e} : SameRow(x)
  BY LiveRows DEF Inv, Live, SameRow, SameFile
<1>3. Live' \ {e} = Live \ {e}
  BY DEF Live
<1>4. AllFit' /\ calls' \in [Slots -> Call \cup {NoCall}]
  <2>1. DOMAIN calls' = Slots /\ calls' = [p \in Slots |-> calls'[p]]
    BY <1>1
  <2>2. ASSUME NEW p \in Slots
        PROVE  \/ calls'[p] = NoCall
               \/ calls[p] # NoCall /\ calls'[p] = [calls[p] EXCEPT !.fresh = FALSE]
               \/ /\ calls'[p] = calls[p]
                  /\ Updates(calls[p]) /\ calls[p].row \in Live => SameRow(calls[p].row)
                  /\ Looking(calls[p]) /\ calls[p].row \in Live => SameFile(calls[p].row)
    <3>1. calls'[p] = IF p = q THEN NoCall
                      ELSE IF calls[p] # NoCall /\ calls[p].row = e
                      THEN [calls[p] EXCEPT !.fresh = FALSE] ELSE calls[p]
      BY <1>1
    <3>2. calls[p] = NoCall => ~Looking(calls[p]) /\ ~Updates(calls[p])
      BY NoneApart DEF Looking, Updates
    <3>. QED BY <1>2, <3>1, <3>2 DEF SameRow
  <2>. QED BY <2>1, <2>2, CallsFollow DEF Inv
<1>5. ReadyPlaysOwnFile'
  <2>1. crossed => crossed'
    BY <1>1
  <2>2. ASSUME ~crossed', NEW x \in Live'
        PROVE  \/ x \in Live /\ SameRow(x) /\ (x \in patched => x \in patched')
               \/ Sound(x)'
    <3>1. CASE x = e
      <4>1. calls[q].fresh /\ ~crossed
        BY <1>1, <2>2
      <4>. QED BY <2>2, <3>1, <4>1
    <3>2. CASE x # e
      <4>1. x \in Live /\ SameRow(x)
        BY <1>2, <1>3, <2>2, <3>2
      <4>. QED BY <3>2, <4>1, LiveRows DEF Inv
    <3>. QED BY <3>1, <3>2
  <2>. QED BY <2>1, <2>2, RowsFollow DEF Inv
<1>6. crossed' \in BOOLEAN
  BY <1>1
<1>. QED BY <1>4, <1>5, <1>6 DEF Inv, TypeOK

LEMMA WriteUpdateStep ==
    ASSUME Inv, NEW q \in Slots, WriteUpdate(q) PROVE Inv'
<1>1. PICK c, e, set : c = calls[q] /\ e = c.row /\ set = c.set
  OBVIOUS
<1>2. c # NoCall /\ c.op = "update" /\ CallFits(c) /\ c.fresh \in BOOLEAN
  BY <1>1, NoneApart, CallTypes DEF WriteUpdate, Inv, AllFit, Call
<1>3. /\ set \in Update /\ e \in Rows
      /\ c.fresh => e \in Live /\ ReadyNeedsSource(e, set)
  BY <1>1, <1>2 DEF CallFits
<1>4. /\ episodes' = Written(e, set) /\ Return(q) /\ UNCHANGED <<air, media>>
      /\ patched' = IF Typed(set) THEN patched \cup {e} ELSE patched
  BY <1>1 DEF WriteUpdate
<1>5. CASE e \notin Live
  <2>1. episodes' = episodes
    BY <1>4, <1>5 DEF Written
  <2>2. e \notin Live'
    BY <1>5, <2>1 DEF Live
  <2>. QED BY <1>1, <1>2, <1>3, <1>4, <2>1, <2>2, ReturnStep DEF Inv, TypeOK
<1>6. CASE e \in Live
  <2>1. /\ episodes' \in [Rows -> Episode \cup {Absent}]
        /\ \A x \in Rows \ {e} : episodes'[x] = episodes[x]
        /\ episodes'[e].status = Set(episodes[e].status, set.status)
        /\ episodes'[e].file = Set(episodes[e].file, set.file)
        /\ episodes'[e].url = SetLink(episodes[e].url, set.url)
    BY <1>3, <1>4, <1>6, WrittenRows DEF Inv
  <2>2. ASSUME c.fresh PROVE crossed \/ Sound(e)'
    <3>1. episodes'[e].status = "ready" => episodes'[e].url # NoLink \/ episodes'[e].file # None
      BY <1>3, <2>1, <2>2 DEF ReadyNeedsSource
    <3>2. ASSUME ~crossed, e \notin patched' PROVE episodes'[e].url[1] \in {None, episodes'[e].file}
      <4>1. ~Typed(set) /\ e \notin patched
        BY <1>4, <3>2
      <4>2. episodes'[e].file = episodes[e].file /\ episodes'[e].url = episodes[e].url
        BY <2>1, <4>1 DEF Typed, Set, SetLink
      <4>3. episodes[e].url[1] \in {None, episodes[e].file}
        BY <1>6, <3>2, <4>1, SoundRows DEF Inv, Sound
      <4>. QED BY <4>2, <4>3
    <3>. QED BY <3>1, <3>2 DEF Sound
  <2>3. c.fresh /\ e \in Live' => crossed \/ Sound(e)'
    BY <2>2
  <2>. QED BY <1>1, <1>2, <1>3, <1>4, <2>1, <2>3, ReturnStep DEF Inv, TypeOK
<1>. QED BY <1>5, <1>6

LEMMA WriteNameStep ==
    ASSUME Inv, NEW q \in Slots, WriteName(q) PROVE Inv'
<1>1. PICK c, e, set : c = calls[q] /\ e = c.row /\ set = c.set
  OBVIOUS
<1>2. c # NoCall /\ c.op = "name" /\ CallFits(c) /\ c.fresh \in BOOLEAN
  BY <1>1, NoneApart, CallTypes DEF WriteName, Inv, AllFit, Call
<1>3. /\ set \in Update /\ set.status = Keep /\ set.file \in Files /\ set.url = KeepLink /\ e \in Rows
      /\ c.fresh => e \in Live /\ episodes[e].url = NoLink
  BY <1>1, <1>2 DEF CallFits
<1>4. episodes' = Written(e, set) /\ Return(q) /\ UNCHANGED <<air, media, patched>>
  BY <1>1 DEF WriteName
<1>5. CASE e \notin Live
  <2>1. episodes' = episodes
    BY <1>4, <1>5 DEF Written
  <2>2. e \notin Live'
    BY <1>5, <2>1 DEF Live
  <2>. QED BY <1>1, <1>2, <1>3, <1>4, <2>1, <2>2, ReturnStep DEF Inv, TypeOK
<1>6. CASE e \in Live
  <2>1. /\ episodes' \in [Rows -> Episode \cup {Absent}]
        /\ \A x \in Rows \ {e} : episodes'[x] = episodes[x]
        /\ episodes'[e].file = Set(episodes[e].file, set.file)
        /\ episodes'[e].url = episodes[e].url
    BY <1>3, <1>4, <1>6, WrittenRows DEF Inv, SetLink
  <2>2. episodes'[e].file = set.file
    <3>1. set.file # Keep
      BY <1>3, NoneAssumption DEF Keep
    <3>. QED BY <2>1, <3>1 DEF Set
  <2>3. c.fresh /\ e \in Live' => crossed \/ Sound(e)'
    <3>. SUFFICES ASSUME c.fresh PROVE Sound(e)'
      OBVIOUS
    <3>1. episodes'[e].url = NoLink /\ episodes'[e].file # None
      BY <1>3, <2>1, <2>2, NoneApart
    <3>. QED BY <3>1, LinksApart DEF Sound
  <2>. QED BY <1>1, <1>2, <1>3, <1>4, <2>1, <2>3, ReturnStep DEF Inv, TypeOK
<1>. QED BY <1>5, <1>6

LEMMA WriteRetryStep ==
    ASSUME Inv, NEW q \in Slots, WriteRetry(q) PROVE Inv'
<1>1. PICK c, e, set : c = calls[q] /\ e = c.row /\ set = c.set
  OBVIOUS
<1>2. c # NoCall /\ c.op = "retry" /\ CallFits(c)
  BY <1>1, NoneApart DEF WriteRetry, Inv, AllFit
<1>3. set = [status |-> "uploading", file |-> None, url |-> NoLink] /\ e \in Rows
  BY <1>1, <1>2 DEF CallFits
<1>4. set \in Update /\ set.status = "uploading" /\ set.file = None /\ set.url = NoLink
  BY <1>3, LinksApart DEF Update, Statuses
<1>5. episodes' = Written(e, set) /\ Return(q) /\ patched' = patched \ {e} /\ UNCHANGED <<air, media>>
  BY <1>1 DEF WriteRetry, Forgetting
<1>6. CASE e \notin Live
  <2>1. episodes' = episodes
    BY <1>5, <1>6 DEF Written
  <2>2. e \notin Live'
    BY <1>6, <2>1 DEF Live
  <2>. QED BY <1>1, <1>2, <1>5, <2>1, <2>2, ReturnStep DEF Inv, TypeOK
<1>7. CASE e \in Live
  <2>1. /\ episodes' \in [Rows -> Episode \cup {Absent}]
        /\ \A x \in Rows \ {e} : episodes'[x] = episodes[x]
        /\ episodes'[e].status = "uploading" /\ episodes'[e].url = NoLink
    BY <1>4, <1>5, <1>7, WrittenRows, LinksApart DEF Inv, Set, SetLink, Keep
  <2>2. Sound(e)'
    BY <2>1, LinksApart DEF Sound
  <2>. QED BY <1>1, <1>2, <1>5, <2>1, <2>2, ReturnStep DEF Inv, TypeOK
<1>. QED BY <1>6, <1>7

LEMMA WriteDeleteStep ==
    ASSUME Inv, NEW q \in Slots, WriteDelete(q) PROVE Inv'
<1>1. PICK c, e : c = calls[q] /\ e = c.row
  OBVIOUS
<1>2. c # NoCall /\ c.op = "delete" /\ CallFits(c)
  BY <1>1, NoneApart DEF WriteDelete, Inv, AllFit
<1>3. e \in Rows
  BY <1>1, <1>2 DEF CallFits
<1>4. /\ episodes' = [episodes EXCEPT ![e] = Absent] /\ Return(q)
      /\ patched' = patched \ {e} /\ UNCHANGED <<air, media>>
  BY <1>1 DEF WriteDelete
<1>5. /\ episodes' \in [Rows -> Episode \cup {Absent}]
      /\ \A x \in Rows \ {e} : episodes'[x] = episodes[x]
      /\ e \notin Live'
  BY <1>3, <1>4 DEF Inv, TypeOK, Live
<1>. QED BY <1>1, <1>2, <1>4, <1>5, ReturnStep DEF Inv, TypeOK

LEMMA WriteReorderStep ==
    ASSUME Inv, NEW q \in Slots, WriteReorder(q) PROVE Inv'
<1>1. /\ calls' = [calls EXCEPT ![q] = NoCall] /\ crossed' = (crossed \/ ~calls[q].fresh)
      /\ UNCHANGED <<air, media, patched>>
  BY DEF WriteReorder
<1>2. PICK S \in SUBSET Live : \E no \in [S -> Nos] :
         episodes' \in {[e \in Rows |-> IF e \in S THEN [episodes[e] EXCEPT !.no = no[e]]
                                        ELSE episodes[e]], episodes}
  BY DEF WriteReorder
<1>3. PICK no \in [S -> Nos] :
         episodes' \in {[e \in Rows |-> IF e \in S THEN [episodes[e] EXCEPT !.no = no[e]]
                                        ELSE episodes[e]], episodes}
  BY <1>2
<1>4. ASSUME NEW e \in Rows
      PROVE  /\ episodes'[e] \in Episode \cup {Absent}
             /\ e \in Live <=> e \in Live'
             /\ e \in Live => SameRow(e)
  <2>1. CASE episodes'[e] = episodes[e]
    BY <2>1 DEF Inv, TypeOK, Live, SameRow, SameFile
  <2>2. CASE e \in S /\ episodes'[e] = [episodes[e] EXCEPT !.no = no[e]]
    <3>1. PICK old, new : old = episodes[e] /\ new = [old EXCEPT !.no = no[e]]
      OBVIOUS
    <3>2. old \in Episode /\ e \in Live
      BY <2>2, <3>1, LiveRows DEF Inv
    <3>3. new \in Episode /\ new.status = old.status /\ new.file = old.file /\ new.url = old.url
      BY <2>2, <3>1, <3>2 DEF Episode
    <3>. QED BY <2>2, <3>1, <3>2, <3>3, AbsentApart DEF Live, SameRow, SameFile
  <2>. QED BY <1>3, <2>1, <2>2
<1>5. episodes' = [e \in Rows |-> episodes'[e]]
  BY <1>3 DEF Inv, TypeOK
<1>6. episodes' \in [Rows -> Episode \cup {Absent}]
  BY <1>4, <1>5
<1>7. AllFit' /\ calls' \in [Slots -> Call \cup {NoCall}]
  <2>1. DOMAIN calls' = Slots /\ calls' = [p \in Slots |-> calls'[p]]
    BY <1>1 DEF Inv, TypeOK
  <2>2. ASSUME NEW p \in Slots
        PROVE  \/ calls'[p] = NoCall
               \/ /\ calls'[p] = calls[p]
                  /\ Updates(calls[p]) /\ calls[p].row \in Live => SameRow(calls[p].row)
                  /\ Looking(calls[p]) /\ calls[p].row \in Live => SameFile(calls[p].row)
    <3>1. calls'[p] = IF p = q THEN NoCall ELSE calls[p]
      BY <1>1 DEF Inv, TypeOK
    <3>. QED BY <1>4, <3>1, LiveRows DEF Inv, SameRow
  <2>. QED BY <2>1, <2>2, CallsFollow DEF Inv
<1>8. ReadyPlaysOwnFile'
  BY <1>1, <1>4, RowsFollow DEF Inv, Live
<1>. QED BY <1>1, <1>6, <1>7, <1>8 DEF Inv, TypeOK

(* Rows change their link and status only, and the updates that had read   *)
(* them are overtaken; call q, if any, is over.                            *)
LEMMA LinksStep ==
    ASSUME Inv, NEW F, F \subseteq Live, UNCHANGED <<air, media, patched>>,
           DOMAIN calls' = Slots, calls' = [p \in Slots |-> calls'[p]],
           \A p \in Slots :
              \/ calls'[p] = NoCall
              \/ calls[p] # NoCall /\ calls'[p] = [calls[p] EXCEPT !.fresh = FALSE]
              \/ calls'[p] = calls[p] /\ (Updates(calls[p]) => calls[p].row \notin F),
           episodes' \in [Rows -> Episode \cup {Absent}],
           \A e \in Rows \ F : episodes'[e] = episodes[e],
           \A e \in F : episodes'[e] \in Episode /\ episodes'[e].file = episodes[e].file,
           crossed => crossed', crossed' \in BOOLEAN,
           ~crossed' => \A e \in F : Sound(e)'
    PROVE  Inv'
<1>1. \A e \in Live : SameFile(e)
  BY LiveRows, AbsentApart DEF Inv, Live, SameFile
<1>2. \A e \in Live \ F : SameRow(e)
  BY <1>1, LiveRows DEF Inv, SameRow
<1>3. Live' = Live
  BY LiveRows, AbsentApart DEF Inv, Live
<1>4. AllFit' /\ calls' \in [Slots -> Call \cup {NoCall}]
  <2>2. ASSUME NEW p \in Slots
        PROVE  \/ calls'[p] = NoCall
               \/ calls[p] # NoCall /\ calls'[p] = [calls[p] EXCEPT !.fresh = FALSE]
               \/ /\ calls'[p] = calls[p]
                  /\ Updates(calls[p]) /\ calls[p].row \in Live => SameRow(calls[p].row)
                  /\ Looking(calls[p]) /\ calls[p].row \in Live => SameFile(calls[p].row)
    BY <1>1, <1>2
  <2>. QED BY <2>2, CallsFollow DEF Inv
<1>5. ReadyPlaysOwnFile'
  BY <1>2, <1>3, RowsFollow DEF Inv
<1>. QED BY <1>4, <1>5 DEF Inv, TypeOK

LEMMA WriteLookupStep ==
    ASSUME Inv, NEW q \in Slots, WriteLookup(q) PROVE Inv'
<1>1. PICK c, e, set : c = calls[q] /\ e = c.row /\ set = c.set
  OBVIOUS
<1>2. c # NoCall /\ Looking(c) /\ c.op # "reorder" /\ set # None /\ CallFits(c)
  BY <1>1, NoneApart DEF WriteLookup, Inv, AllFit, Looking
<1>3. /\ e \in Rows /\ c.file \in Files /\ set \in Update /\ set.file = Keep
      /\ set.url \in {<<c.file, "original">>, <<c.file, "stream">>}
      /\ c.fresh => e \in Live /\ episodes[e].file = c.file
  BY <1>1, <1>2 DEF CallFits
<1>4. /\ episodes' = Written(e, set) /\ UNCHANGED <<air, media, patched>>
      /\ crossed' = (crossed \/ ~c.fresh)
      /\ calls' = [[p \in Slots |->
                       IF calls[p] # NoCall /\ Updates(calls[p]) /\ calls[p].row = e
                       THEN [calls[p] EXCEPT !.fresh = FALSE] ELSE calls[p]] EXCEPT ![q] = NoCall]
  BY <1>1 DEF WriteLookup, LookupSets, Stale
<1>5. DOMAIN calls' = Slots /\ calls' = [p \in Slots |-> calls'[p]]
  BY <1>4
<1>6. \A p \in Slots :
         \/ calls'[p] = NoCall
         \/ calls[p] # NoCall /\ calls'[p] = [calls[p] EXCEPT !.fresh = FALSE]
         \/ calls'[p] = calls[p] /\ (Updates(calls[p]) => calls[p].row # e)
  <2>. SUFFICES ASSUME NEW p \in Slots
                PROVE  \/ calls'[p] = NoCall
                       \/ calls[p] # NoCall /\ calls'[p] = [calls[p] EXCEPT !.fresh = FALSE]
                       \/ calls'[p] = calls[p] /\ (Updates(calls[p]) => calls[p].row # e)
    OBVIOUS
  <2>1. calls'[p] = IF p = q THEN NoCall
                    ELSE IF calls[p] # NoCall /\ Updates(calls[p]) /\ calls[p].row = e
                    THEN [calls[p] EXCEPT !.fresh = FALSE] ELSE calls[p]
    BY <1>4
  <2>2. calls[p] = NoCall => ~Updates(calls[p])
    BY NoneApart DEF Updates
  <2>. QED BY <2>1, <2>2
<1>7. CASE e \notin Live
  <2>1. episodes' = episodes
    BY <1>4, <1>7 DEF Written
  <2>2. PICK F : F = {}
    OBVIOUS
  <2>3. \A p \in Slots :
           \/ calls'[p] = NoCall
           \/ calls[p] # NoCall /\ calls'[p] = [calls[p] EXCEPT !.fresh = FALSE]
           \/ calls'[p] = calls[p] /\ (Updates(calls[p]) => calls[p].row \notin F)
    BY <1>6, <2>2
  <2>4. crossed' \in BOOLEAN /\ (crossed => crossed')
    BY <1>4
  <2>5. /\ F \subseteq Live
        /\ \A x \in Rows \ F : episodes'[x] = episodes[x]
        /\ \A x \in F : episodes'[x] \in Episode /\ episodes'[x].file = episodes[x].file
        /\ ~crossed' => \A x \in F : Sound(x)'
    BY <2>1, <2>2
  <2>6. episodes' \in [Rows -> Episode \cup {Absent}]
    BY <2>1 DEF Inv, TypeOK
  <2>. QED BY <1>4, <1>5, <2>3, <2>4, <2>5, <2>6, LinksStep
<1>8. CASE e \in Live
  <2>1. /\ episodes' \in [Rows -> Episode \cup {Absent}]
        /\ \A x \in Rows \ {e} : episodes'[x] = episodes[x]
        /\ episodes'[e] \in Episode /\ episodes'[e].file = episodes[e].file
        /\ episodes'[e].url = set.url
    BY <1>3, <1>4, <1>8, WrittenRows, LinksApart DEF Inv, Set, SetLink
  <2>2. c.fresh => Sound(e)'
    <3>. SUFFICES ASSUME c.fresh PROVE Sound(e)'
      OBVIOUS
    <3>1. set.url # NoLink /\ set.url[1] = c.file
      BY <1>3, LinksApart
    <3>2. episodes'[e].file = c.file
      BY <1>3, <2>1
    <3>. QED BY <2>1, <3>1, <3>2 DEF Sound
  <2>3. ~crossed' => Sound(e)'
    BY <1>4, <2>2
  <2>4. crossed' \in BOOLEAN /\ (crossed => crossed')
    BY <1>4
  <2>5. PICK F : F = {e}
    OBVIOUS
  <2>6. \A p \in Slots :
           \/ calls'[p] = NoCall
           \/ calls[p] # NoCall /\ calls'[p] = [calls[p] EXCEPT !.fresh = FALSE]
           \/ calls'[p] = calls[p] /\ (Updates(calls[p]) => calls[p].row \notin F)
    BY <1>6, <2>5
  <2>7. /\ F \subseteq Live
        /\ \A x \in Rows \ F : episodes'[x] = episodes[x]
        /\ \A x \in F : episodes'[x] \in Episode /\ episodes'[x].file = episodes[x].file
        /\ ~crossed' => \A x \in F : Sound(x)'
    BY <1>8, <2>1, <2>3, <2>5
  <2>. QED BY <1>4, <1>5, <2>1, <2>4, <2>6, <2>7, LinksStep
<1>. QED BY <1>7, <1>8

-----------------------------------------------------------------------------
(* Callbacks. *)

LEMMA ByFileRows ==
    ASSUME TypeOK, NEW f \in Files, NEW set, set.status \in Statuses \cup {Keep},
           set.url \in {KeepLink, <<f, "original">>, <<f, "stream">>},
           episodes' = ByFile(f, set)
    PROVE  /\ OfFile(f) \subseteq Live
           /\ episodes' \in [Rows -> Episode \cup {Absent}]
           /\ \A e \in Rows \ OfFile(f) : episodes'[e] = episodes[e]
           /\ \A e \in OfFile(f) : /\ episodes'[e] \in Episode
                                   /\ episodes'[e].file = f /\ episodes[e].file = f
                                   /\ episodes'[e].url = SetLink(episodes[e].url, set.url)
<1>1. OfFile(f) \subseteq Live /\ \A e \in OfFile(f) : episodes[e].file = f
  BY DEF OfFile
<1>2. ASSUME NEW e \in Rows
      PROVE  /\ e \notin OfFile(f) => episodes'[e] = episodes[e]
             /\ e \in OfFile(f) => /\ episodes'[e] \in Episode /\ episodes'[e].file = episodes[e].file
                                   /\ episodes'[e].url = SetLink(episodes[e].url, set.url)
  <2>1. CASE e \notin OfFile(f)
    BY <2>1 DEF ByFile
  <2>2. CASE e \in OfFile(f)
    <3>1. PICK old, s, u : old = episodes[e] /\ s = Set(old.status, set.status) /\ u = SetLink(old.url, set.url)
      OBVIOUS
    <3>2. PICK new : new = [old EXCEPT !.status = s, !.url = u]
      OBVIOUS
    <3>3. episodes'[e] = new
      BY <2>2, <3>1, <3>2 DEF ByFile
    <3>4. old \in Episode
      BY <1>1, <2>2, <3>1, LiveRows
    <3>5. s \in Statuses /\ u \in Links
      BY <3>1, <3>4, AbsentApart, LinksApart DEF Set, SetLink
    <3>6. new \in Episode /\ new.file = old.file /\ new.url = u
      BY <3>2, <3>4, <3>5 DEF Episode
    <3>. QED BY <2>2, <3>1, <3>3, <3>6
  <2>. QED BY <2>1, <2>2
<1>3. episodes' = [e \in Rows |-> episodes'[e]]
  BY DEF ByFile
<1>4. \A e \in Rows : episodes'[e] \in Episode \cup {Absent}
  BY <1>2 DEF TypeOK
<1>5. episodes' \in [Rows -> Episode \cup {Absent}]
  BY <1>3, <1>4
<1>. QED BY <1>1, <1>2, <1>5, LiveRows

(* What a callback sets. *)
LEMMA CallbackSets ==
    ASSUME NEW kind \in {"upload", "finish", "error"}, NEW f \in Files, webhookVOD(kind, f)
    PROVE  \E s \in Statuses \cup {Keep}, u \in {KeepLink, <<f, "original">>, <<f, "stream">>} :
               episodes' = ByFile(f, [status |-> s, url |-> u])
<1>1. CASE kind = "upload"
  <2>1. PICK s : s = IF Procedure THEN Keep ELSE "ready"
    OBVIOUS
  <2>2. s \in Statuses \cup {Keep}
    BY <2>1 DEF Statuses
  <2>3. PICK u \in {KeepLink, <<f, "original">>} : episodes' = handleVODFileUpload(f, u)
    BY <1>1 DEF webhookVOD
  <2>4. episodes' = ByFile(f, [status |-> s, url |-> u])
    BY <2>1, <2>3 DEF handleVODFileUpload
  <2>. QED BY <2>2, <2>4
<1>2. CASE kind # "upload"
  <2>1. PICK u \in {KeepLink, <<f, "stream">>} : episodes' = handleVODProcedureStateChanged(kind, f, u)
    BY <1>2 DEF webhookVOD
  <2>2. \/ episodes' = ByFile(f, [status |-> "ready", url |-> u])
        \/ episodes' = ByFile(f, [status |-> "failed", url |-> KeepLink])
    BY <2>1 DEF handleVODProcedureStateChanged
  <2>3. "ready" \in Statuses /\ "failed" \in Statuses
    BY DEF Statuses
  <2>. QED BY <2>2, <2>3
<1>. QED BY <1>1, <1>2

LEMMA CallbackStep ==
    ASSUME Inv, NEW kind \in {"upload", "finish", "error"}, NEW f \in Files, webhookVOD(kind, f)
    PROVE  Inv'
<1>1. PICK s \in Statuses \cup {Keep} : \E u \in {KeepLink, <<f, "original">>, <<f, "stream">>} :
          episodes' = ByFile(f, [status |-> s, url |-> u])
  BY CallbackSets
<1>2. PICK u \in {KeepLink, <<f, "original">>, <<f, "stream">>} :
          episodes' = ByFile(f, [status |-> s, url |-> u])
  BY <1>1
<1>3. PICK set : set = [status |-> s, url |-> u]
  OBVIOUS
<1>4. set.status = s /\ set.url = u /\ episodes' = ByFile(f, set)
  BY <1>2, <1>3
<1>5. PICK F : F = OfFile(f)
  OBVIOUS
<1>6. /\ F \subseteq Live
      /\ episodes' \in [Rows -> Episode \cup {Absent}]
      /\ \A e \in Rows \ F : episodes'[e] = episodes[e]
      /\ \A e \in F : /\ episodes'[e] \in Episode
                      /\ episodes'[e].file = f /\ episodes[e].file = f
                      /\ episodes'[e].url = SetLink(episodes[e].url, u)
  BY <1>4, <1>5, ByFileRows DEF Inv
<1>7. UNCHANGED <<air, media, crossed, patched>>
  BY DEF webhookVOD
<1>8. calls' = [p \in Slots |->
                   IF calls[p] # NoCall /\ Updates(calls[p]) /\ calls[p].row \in F
                   THEN [calls[p] EXCEPT !.fresh = FALSE] ELSE calls[p]]
  BY <1>5 DEF webhookVOD, Stale
<1>9. DOMAIN calls' = Slots /\ calls' = [p \in Slots |-> calls'[p]]
  BY <1>8
<1>10. \A p \in Slots :
         \/ calls'[p] = NoCall
         \/ calls[p] # NoCall /\ calls'[p] = [calls[p] EXCEPT !.fresh = FALSE]
         \/ calls'[p] = calls[p] /\ (Updates(calls[p]) => calls[p].row \notin F)
  <2>1. \A p \in Slots : calls[p] = NoCall => ~Updates(calls[p])
    BY NoneApart DEF Updates
  <2>. QED BY <1>8, <2>1
<1>11. ASSUME ~crossed', NEW e \in F PROVE Sound(e)'
  <2>1. episodes[e].url[1] \in {None, f} \/ e \in patched
    BY <1>6, <1>7, <1>11, SoundRows DEF Inv, Sound
  <2>2. episodes'[e].url[1] \in {None, f} \/ e \in patched
    BY <1>6, <2>1, LinksApart DEF SetLink
  <2>. QED BY <1>6, <1>7, <2>2, NoneApart DEF Sound
<1>12. /\ \A e \in F : episodes'[e] \in Episode /\ episodes'[e].file = episodes[e].file
       /\ ~crossed' => \A e \in F : Sound(e)'
  BY <1>6, <1>11
<1>13. crossed' \in BOOLEAN /\ (crossed => crossed')
  BY <1>7 DEF Inv, TypeOK
<1>. QED BY <1>6, <1>7, <1>9, <1>10, <1>12, <1>13, LinksStep

-----------------------------------------------------------------------------
(* New episodes. *)

LEMMA CreateStep ==
    ASSUME Inv, NEW e \in Rows, NEW n \in Nos, NEW src \in Sources, NEW s \in Statuses \cup {Keep},
           creatorCreateEpisode(e, n, src[1], src[2], s)
    PROVE  Inv'
<1>1. PICK f, u : f = src[1] /\ u = src[2]
  OBVIOUS
<1>2. f \in Files \cup {None} /\ u \in {NoLink, TypedLink}
  BY <1>1 DEF Sources
<1>3. PICK new : new = NewEpisode(n, f, u, s)
  OBVIOUS
<1>4. /\ new.status \in Statuses /\ new.file = f /\ new.url = u
      /\ new.status = "ready" => u # NoLink \/ f # None
  BY <1>1, <1>3 DEF NewEpisode, NewStatus, Statuses, creatorCreateEpisode
<1>5. new \in Episode
  BY <1>2, <1>3, <1>4, LinksApart DEF NewEpisode, Episode
<1>6. /\ episodes[e] = Absent /\ episodes' = [episodes EXCEPT ![e] = new]
      /\ UNCHANGED <<air, media, calls, crossed, patched>>
  BY <1>1, <1>3 DEF creatorCreateEpisode
<1>7. episodes' \in [Rows -> Episode \cup {Absent}]
  BY <1>5, <1>6 DEF Inv, TypeOK
<1>8. \A x \in Live : SameRow(x)
  BY <1>6, LiveRows DEF Inv, TypeOK, Live, SameRow, SameFile
<1>9. Live' \subseteq Live \cup {e}
  BY <1>6 DEF Inv, TypeOK, Live
<1>10. AllFit' /\ calls' \in [Slots -> Call \cup {NoCall}]
  <2>1. calls' = calls /\ DOMAIN calls' = Slots /\ calls' = [p \in Slots |-> calls'[p]]
    BY <1>6 DEF Inv, TypeOK
  <2>. QED BY <1>8, <2>1, CallsFollow DEF Inv, SameRow
<1>11. Sound(e)'
  BY <1>2, <1>4, <1>6, LinksApart DEF Inv, TypeOK, Sound
<1>12. ReadyPlaysOwnFile'
  BY <1>6, <1>8, <1>9, <1>11, RowsFollow DEF Inv
<1>. QED BY <1>6, <1>7, <1>10, <1>12 DEF Inv, TypeOK

-----------------------------------------------------------------------------
(* Steps that leave the rows alone. *)

LEMMA QuietStep ==
    ASSUME Inv, UNCHANGED <<episodes, crossed, patched>>, air' \in Airs,
           media' \in [Files -> {"none", "uploaded", "transcoded", "failed"}],
           DOMAIN calls' = Slots, calls' = [p \in Slots |-> calls'[p]],
           \A p \in Slots :
              \/ calls'[p] = NoCall \/ calls'[p] = calls[p]
              \/ calls[p] # NoCall /\ calls'[p] = [calls[p] EXCEPT !.fresh = FALSE]
    PROVE  Inv'
<1>1. \A x \in Live : SameRow(x)
  BY DEF Live, SameRow, SameFile
<1>2. AllFit' /\ calls' \in [Slots -> Call \cup {NoCall}]
  BY <1>1, CallsFollow DEF Inv, SameRow
<1>3. ReadyPlaysOwnFile'
  BY DEF Inv, ReadyPlaysOwnFile, ReadyHasSource, PlaysOwnFile, Live
<1>. QED BY <1>2, <1>3 DEF Inv, TypeOK

LEMMA CallsAsTheyWere ==
    ASSUME TypeOK, calls' = calls
    PROVE  DOMAIN calls' = Slots /\ calls' = [p \in Slots |-> calls'[p]]
BY DEF TypeOK

LEMMA MediaStep ==
    ASSUME Inv, NEW f \in Files, Upload(f) \/ Transcode(f) PROVE Inv'
<1>1. /\ media' \in [Files -> {"none", "uploaded", "transcoded", "failed"}]
      /\ UNCHANGED <<episodes, air, calls, crossed, patched>>
  BY DEF Upload, Transcode, Inv, TypeOK
<1>. QED BY <1>1, CallsAsTheyWere, QuietStep DEF Inv, TypeOK

LEMMA DramaStep == Inv /\ DramaMoves => Inv'
<1>. SUFFICES ASSUME Inv, DramaMoves PROVE Inv'
  OBVIOUS
<1>1. /\ air' \in Airs /\ UNCHANGED <<episodes, media, crossed, patched>>
      /\ calls' = [p \in Slots |-> IF calls[p] # NoCall /\ ReadsAir(calls[p])
                                   THEN [calls[p] EXCEPT !.fresh = FALSE] ELSE calls[p]]
  BY DEF DramaMoves, Stale
<1>2. DOMAIN calls' = Slots /\ calls' = [p \in Slots |-> calls'[p]]
  BY <1>1
<1>3. \A p \in Slots : \/ calls'[p] = NoCall \/ calls'[p] = calls[p]
                       \/ calls[p] # NoCall /\ calls'[p] = [calls[p] EXCEPT !.fresh = FALSE]
  BY <1>1
<1>. QED BY <1>1, <1>2, <1>3, QuietStep DEF Inv, TypeOK

LEMMA NoAnswerStep ==
    ASSUME Inv, NEW q \in Slots, NoAnswer(q) PROVE Inv'
<1>1. calls' = [calls EXCEPT ![q] = NoCall] /\ UNCHANGED <<episodes, air, media, crossed, patched>>
  BY DEF NoAnswer, GiveUp
<1>2. DOMAIN calls' = Slots /\ calls' = [p \in Slots |-> calls'[p]]
  BY <1>1 DEF Inv, TypeOK
<1>3. \A p \in Slots : calls'[p] = NoCall \/ calls'[p] = calls[p]
  BY <1>1 DEF Inv, TypeOK
<1>. QED BY <1>1, <1>2, <1>3, QuietStep DEF Inv, TypeOK

(* The answer is about the file the lookup asked for. *)
LEMMA AnswerStep ==
    ASSUME Inv, NEW q \in Slots, Answer(q) PROVE Inv'
<1>1. PICK c : c = calls[q]
  OBVIOUS
<1>2. c \in Call /\ Looking(c) /\ CallFits(c) /\ c # NoCall
  BY <1>1, NoneApart, CallTypes DEF Answer, Asking, Inv, AllFit, Looking
<1>3. PICK u \in DescribeMediaInfo(c.file) :
        calls' = [calls EXCEPT ![q].set =
                    [status |-> IF calls[q].ready THEN Keep ELSE "ready", file |-> Keep, url |-> u]]
  BY <1>1 DEF Answer
<1>4. c.file \in Files /\ u \in {<<c.file, "original">>, <<c.file, "stream">>}
  BY <1>2, <1>3 DEF CallFits, DescribeMediaInfo
<1>5. PICK s : s = IF c.ready THEN Keep ELSE "ready"
  OBVIOUS
<1>6. PICK set : set = [status |-> s, file |-> Keep, url |-> u]
  OBVIOUS
<1>7. set \in Update /\ set.file = Keep /\ set.url = u
  BY <1>4, <1>5, <1>6, LinksApart DEF Update, Statuses
<1>8. PICK d : d = [c EXCEPT !.set = set]
  OBVIOUS
<1>9. d \in Call /\ d.op = c.op /\ d.row = c.row /\ d.file = c.file /\ d.fresh = c.fresh /\ d.set = set
  BY <1>2, <1>7, <1>8 DEF Call
<1>10. calls' = [calls EXCEPT ![q] = d] /\ UNCHANGED <<episodes, air, media, crossed, patched>>
  BY <1>1, <1>3, <1>5, <1>6, <1>8 DEF Answer
<1>11. CallFits(d)
  BY <1>2, <1>4, <1>7, <1>9 DEF CallFits, Looking
<1>12. \A x : CallFits(x)' <=> CallFits(x)
  BY <1>10 DEF CallFits, ReadyNeedsSource, Live
<1>13. AllFit'
  <2>. SUFFICES ASSUME NEW p \in Slots PROVE CallFits(calls[p])'
    BY DEF AllFit
  <2>1. PICK x : x = calls'[p]
    OBVIOUS
  <2>2. x = IF p = q THEN d ELSE calls[p]
    BY <1>10, <2>1 DEF Inv, TypeOK
  <2>3. CallFits(x)
    BY <1>11, <2>2 DEF Inv, AllFit
  <2>. QED BY <1>12, <2>1, <2>3
<1>14. TypeOK'
  BY <1>9, <1>10 DEF Inv, TypeOK
<1>15. ReadyPlaysOwnFile'
  BY <1>10 DEF Inv, ReadyPlaysOwnFile, ReadyHasSource, PlaysOwnFile, Live
<1>. QED BY <1>13, <1>14, <1>15 DEF Inv

-----------------------------------------------------------------------------

LEMMA InvInit == Init => Inv
<1>. SUFFICES ASSUME Init PROVE Inv
  OBVIOUS
<1>1. TypeOK
  BY NoneAssumption DEF Init, TypeOK
<1>2. AllFit
  BY DEF Init, AllFit, CallFits
<1>3. ReadyPlaysOwnFile
  BY DEF Init, ReadyPlaysOwnFile, ReadyHasSource, PlaysOwnFile, Live
<1>. QED BY <1>1, <1>2, <1>3 DEF Inv

LEMMA InvStep == Inv /\ [Next]_vars => Inv'
<1>. SUFFICES ASSUME Inv, [Next]_vars PROVE Inv'
  OBVIOUS
<1>1. Editors \subseteq Slots /\ Lookups \subseteq Slots
  BY DEF Slots
<1>2. CASE EditStep
  <2>1. CASE \E e \in Rows, n \in Nos, src \in Sources, s \in Statuses \cup {Keep} :
                creatorCreateEpisode(e, n, src[1], src[2], s)
    BY <2>1, CreateStep
  <2>2. ASSUME NEW q \in Editors,
               \/ \E e \in Rows : \/ RetryEpisode(q, e) \/ DeleteEpisode(q, e)
                                  \/ \E set \in Edits : UpdateEpisode(q, e, set)
                                  \/ \E f \in Files : NameFile(q, e, f)
               \/ ReorderEpisodes(q)
        PROVE  Inv'
    BY <1>1, <2>2, BeginSteps
  <2>3. ASSUME NEW q \in Editors, Write(q) PROVE Inv'
    BY <1>1, <2>3, WriteUpdateStep, WriteNameStep, WriteRetryStep, WriteDeleteStep, WriteReorderStep DEF Write
  <2>. QED BY <1>2, <2>1, <2>2, <2>3 DEF EditStep
<1>3. CASE LookupStep
  <2>1. ASSUME NEW q \in Lookups, NEW e \in Rows, lazySyncEpisodeVOD(q, e) \/ RefreshEpisodeVOD(q, e)
        PROVE  Inv'
    BY <1>1, <2>1, BeginSteps
  <2>2. ASSUME NEW q \in Lookups, Answer(q) \/ NoAnswer(q) \/ WriteLookup(q) PROVE Inv'
    BY <1>1, <2>2, AnswerStep, NoAnswerStep, WriteLookupStep
  <2>. QED BY <1>3, <2>1, <2>2 DEF LookupStep
<1>4. CASE ServiceStep
  BY <1>4, MediaStep, CallbackStep DEF ServiceStep
<1>5. CASE DramaMoves
  BY <1>5, DramaStep
<1>6. CASE UNCHANGED vars
  <2>1. UNCHANGED <<episodes, air, media, calls, crossed, patched>>
    BY <1>6 DEF vars
  <2>. QED BY <2>1, CallsAsTheyWere, QuietStep DEF Inv, TypeOK
<1>. QED BY <1>2, <1>3, <1>4, <1>5, <1>6 DEF Next

LEMMA Invariance == Spec => []Inv
BY InvInit, InvStep, PTL DEF Spec

(* Episodes, files and calls in flight stay well formed.                   *)
THEOREM TypeCorrect == Spec => []TypeOK
<1>1. Inv => TypeOK
  BY DEF Inv
<1>. QED BY <1>1, Invariance, PTL

(* A ready episode has something to play, and an episode plays the file it *)
(* names: however callbacks are ordered, lost and repeated, for any number *)
(* of edits and lookups, until one of them writes on a row that it had     *)
(* read before another changed it (creator_episode.go, vod.go).            *)
THEOREM EpisodesPlayTheirOwn == Spec => []ReadyPlaysOwnFile
<1>1. Inv => ReadyPlaysOwnFile
  BY DEF Inv
<1>. QED BY <1>1, Invariance, PTL
=============================================================================
