------------------------------- MODULE Income -------------------------------
(***************************************************************************)
(* The reports of other channels: a sheet of one day's income is imported, *)
(* rows are corrected and deleted, creators are credited the differences   *)
(* and publishers get their share.  One drama and one day; deposits that a *)
(* sheet carries besides are Credit of Deposits, here only counted.        *)
(*                                                                         *)
(* An import is one transaction, READ COMMITTED, that takes the sheet line *)
(* by line: it reads the channel's row without a lock, books the           *)
(* difference, and holds the rows it wrote until its commit.  What it      *)
(* wrote is kept in its record until then, since nobody else sees it.      *)
(* Whether the sheet was imported before is asked before the transaction,  *)
(* and noted after it.                                                     *)
(***************************************************************************)
EXTENDS Integers, Sequences, FiniteSetsExt, TLC

CONSTANTS Creators, Publishers,
          Channels, Places,
          NoOne,        (* sentinel: nobody, nowhere, no channel, no sheet *)
          PlaceOf,      (* channelToPlatform; NoOne for a channel without  *)
                        (* publishers, the platform's own among them       *)
          Sheets,       (* what is uploaded, told apart by its hash        *)
          Lines,        (* the lines of each: a channel and the creator's  *)
                        (* income from it, or NoOne and a deposit          *)
          Corrections,  (* what the staff ask an income to be, negative    *)
                        (* amounts among it                                *)
          Imports,      (* imports that may be in flight at a time         *)
          MaxUploads    (* bound: imports begun                            *)

ASSUME IncomeAssumption ==
    /\ NoOne \notin Creators \cup Publishers \cup Channels \cup Places \cup Sheets
    /\ IsFiniteSet(Creators) /\ IsFiniteSet(Channels)
    /\ PlaceOf \in [Channels -> Places \cup {NoOne}]
    /\ Lines \in [Sheets -> Seq([channel: Channels \cup {NoOne}, income: Nat])]
    /\ Corrections \subseteq Int
    /\ MaxUploads \in Nat

VARIABLES owner,      (* the drama's creator                               *)
          holders,    (* who holds the grant for a place: Deposits         *)
          channelRows,(* channel_income_daily                              *)
          earned,     (* creator_stats_daily and the creators' accounts    *)
          shares,     (* distributor_income_daily: rows per holder, place  *)
          deposited,  (* deposit entries of each sheet                     *)
          batches,    (* channel_income_import_batches: the hashes         *)
          imports,
          uploads,    (* imports begun                                     *)
          applied,    (* history: how often a sheet was committed          *)
          drift,      (* history: what creators were booked, in imports    *)
                      (* that committed, for rows that were no longer as   *)
                      (* they had been read                                *)
          moved,      (* history: a row went to another creator, or the    *)
                      (* drama did during an import                        *)
          unlocked,   (* history: shares given for a row that had not      *)
                      (* changed, for which nothing is locked              *)
          repeatable  (* history: sheets whose batch was not noted, or     *)
                      (* that were uploaded twice at a time                *)

tables == <<channelRows, earned, shares, deposited, applied>>
marks == <<drift, moved, unlocked, repeatable>>
incomeVars == <<owner, holders, tables, batches, imports, uploads, marks>>

Row == [creator: Creators, income: Nat]
NoRow == [creator |-> NoOne, income |-> 0]

(* seen, by, lost: the row as it was read, for whom, and whether it was    *)
(* deleted since; then what the transaction wrote; missed is history, what *)
(* it adds to drift.                                                       *)
NoImport == [stage |-> "idle", sheet |-> NoOne, line |-> 1,
             seen |-> NoRow, by |-> NoOne, lost |-> FALSE,
             wrote |-> [c \in Channels |-> NoRow], due |-> [x \in Creators |-> 0],
             missed |-> [x \in Creators |-> 0],
             holds |-> {}, gives |-> {}, pays |-> FALSE]

(* What the rows say, channel by channel. *)
RowIncomes == [c \in Channels |-> channelRows[c].income]

IncomeTypeOK ==
    /\ owner \in Creators \cup {NoOne}
    /\ holders \in [Places -> Publishers \cup {NoOne}]
    /\ channelRows \in [Channels -> Row \cup {NoRow}]
    /\ earned \in [Creators -> Int]
    /\ shares \in [Publishers \X Places -> Nat]
    /\ deposited \in [Sheets -> Nat] /\ applied \in [Sheets -> Nat]
    /\ batches \subseteq Sheets /\ repeatable \subseteq Sheets
    /\ uploads \in 0..MaxUploads
    /\ drift \in [Creators -> Int] /\ moved \in BOOLEAN /\ unlocked \subseteq Publishers \X Places
    /\ imports \in [Imports ->
          [stage: {"idle", "open", "read", "saving"}, sheet: Sheets \cup {NoOne}, line: Nat \ {0},
           seen: Row \cup {NoRow}, by: Creators \cup {NoOne}, lost: BOOLEAN,
           wrote: [Channels -> Row \cup {NoRow}], due: [Creators -> Int], missed: [Creators -> Int],
           holds: SUBSET Creators, gives: SUBSET (Publishers \X Places), pays: BOOLEAN]]

(* Nothing yet, or the rows of one sheet that was imported by itself; one  *)
(* that names a channel once.                                              *)
Imported(f) ==
    LET lines == IF f = NoOne THEN {} ELSE {Lines[f][n] : n \in DOMAIN Lines[f]}
        sold  == {l \in lines : l.channel # NoOne}
    IN  /\ \A l, k \in sold : l.channel = k.channel => l = k
        /\ channelRows = [c \in Channels |-> IF \E l \in sold : l.channel = c
               THEN [creator |-> owner, income |-> (CHOOSE l \in sold : l.channel = c).income]
               ELSE NoRow]
        /\ earned = [x \in Creators |-> IF x = owner THEN SumFunction(RowIncomes) ELSE 0]
        /\ deposited = [g \in Sheets |-> IF g = f /\ lines # sold THEN 1 ELSE 0]
        /\ applied = [g \in Sheets |-> IF g = f THEN 1 ELSE 0]
        /\ batches = {f} \ {NoOne}

IncomeInit ==
    /\ owner \in Creators
    /\ holders = [p \in Places |-> NoOne]
    /\ \E f \in Sheets \cup {NoOne} : Imported(f)
    /\ shares = [s \in Publishers \X Places |-> 0]
    /\ imports = [i \in Imports |-> NoImport]
    /\ uploads = 0
    /\ drift = [x \in Creators |-> 0] /\ moved = FALSE /\ unlocked = {} /\ repeatable = {}

-----------------------------------------------------------------------------
(* What an import is at.                                                   *)

Busy(i) == imports[i].stage \in {"open", "read", "saving"}

InTransaction(i) == imports[i].stage \in {"open", "read"}

AtEnd(i) == imports[i].line > Len(Lines[imports[i].sheet])

Line(i) == Lines[imports[i].sheet][imports[i].line]

IsDeposit(i) == Line(i).channel = NoOne

(* Row locks that others hold until their commit. *)
RowIsFree(c, others) == \A j \in others : imports[j].wrote[c] = NoRow

CreatorIsFree(x, others) == \A j \in others : x \notin imports[j].holds

(* The sheet was imported before: looked up ahead of the transaction. *)
AlreadyImported(f) == f \in batches

(* Mutant: the whole income is booked again. *)
DifferenceWhole(seen, income) == income

(* What a creator is owed more (or less) for the row as it was read. *)
Difference(seen, income) == income - seen.income

(* A row read and found to say the same already. *)
Unchanged(i) == imports[i].seen # NoRow /\ Difference(imports[i].seen, Line(i).income) = 0

(* Mutant: nobody asks whether there is a row for the day. *)
ReceivesAgain(i, c) ==
    {s \in Publishers \X Places :
        /\ s[2] = PlaceOf[c]
        /\ s[1] = holders[s[2]]}

(* Who is given a share of a line: whoever holds the place, unless there   *)
(* is a row for the day, committed or the transaction's own.               *)
Receives(i, c) ==
    {s \in Publishers \X Places :
        /\ s[2] = PlaceOf[c]
        /\ s[1] = holders[s[2]]
        /\ shares[s] = 0
        /\ s \notin imports[i].gives}

(* The unique index on the sheet and line of a deposit entry. *)
IndexAdmits(f) == deposited[f] = 0

(* A negative income is refused. *)
Correct(n) == n >= 0

(* A row as the import's own transaction sees it.                          *)
Visible(i, c) == IF imports[i].wrote[c] # NoRow THEN imports[i].wrote[c] ELSE channelRows[c]

-----------------------------------------------------------------------------
(* An import.                                                              *)

(* Parse the sheet and look its hash up; then begin the transaction. *)
Upload(i, f) ==
    /\ imports[i].stage = "idle" /\ uploads < MaxUploads
    /\ ~AlreadyImported(f)
    /\ imports' = [imports EXCEPT ![i].stage = "open", ![i].sheet = f]
    /\ uploads' = uploads + 1
    /\ repeatable' = repeatable \cup
          {g \in {f} : \E j \in Imports : Busy(j) /\ imports[j].sheet = g}
    /\ UNCHANGED <<owner, holders, tables, batches, drift, moved, unlocked>>

(* Find the drama and the channel's row, or the deposit's entry.  A line   *)
(* of a drama without a creator is reported and skipped, as is a deposit   *)
(* entered before.                                                         *)
ReadLine(i) ==
    /\ imports[i].stage = "open" /\ ~AtEnd(i)
    /\ \/ /\ IF IsDeposit(i) THEN deposited[imports[i].sheet] > 0 ELSE owner = NoOne
          /\ imports' = [imports EXCEPT ![i].line = @ + 1]
       \/ /\ IsDeposit(i) /\ deposited[imports[i].sheet] = 0
          /\ imports' = [imports EXCEPT ![i].stage = "read"]
       \/ /\ ~IsDeposit(i) /\ owner # NoOne
          /\ imports' = [imports EXCEPT ![i].stage = "read", ![i].seen = Visible(i, Line(i).channel),
                                        ![i].by = owner, ![i].lost = FALSE]
    /\ UNCHANGED <<owner, holders, tables, batches, uploads, marks>>

(* The line is done with, and whoever it gave a share has one.             *)
NextLine(i, gives) ==
    [imports[i] EXCEPT !.stage = "open", !.line = @ + 1, !.seen = NoRow, !.by = NoOne,
                       !.lost = FALSE, !.gives = @ \cup gives]

(* How the difference booked for the row as it was read departs from what  *)
(* the write makes of the row as it is, for creator x.                     *)
Missed(i, x) ==
    LET im  == imports[i]
        row == Visible(i, Line(i).channel)
        read  == IF x = im.by THEN im.seen.income ELSE 0
        found == IF x = row.creator THEN row.income ELSE 0
    IN  IF im.lost THEN (IF x = im.by THEN Line(i).income ELSE 0) - read ELSE found - read

(* Write the row, book the difference, give the holder a share.  A row     *)
(* that is there by now ends the transaction (RollBack); one that was      *)
(* deleted is missed by the update, and its difference booked.             *)
WriteIncome(i) ==
    LET im     == imports[i]
        c      == Line(i).channel
        delta  == Difference(im.seen, Line(i).income)
        gives  == Receives(i, c)
        others == Imports \ {i}
    IN  /\ im.stage = "read" /\ ~IsDeposit(i)
        /\ \/ /\ Unchanged(i)
              /\ imports' = [imports EXCEPT ![i] = NextLine(i, gives)]
              /\ UNCHANGED moved
           \/ /\ ~Unchanged(i)
              /\ im.lost \/ RowIsFree(c, others)
              /\ im.seen = NoRow => Visible(i, c) = NoRow
              /\ delta # 0 => CreatorIsFree(im.by, others)
              /\ imports' = [imports EXCEPT ![i] = [NextLine(i, gives) EXCEPT
                    !.wrote[c] = IF im.lost THEN @ ELSE [creator |-> im.by, income |-> Line(i).income],
                    !.due[im.by] = @ + delta,
                    !.missed = [x \in Creators |-> @[x] + Missed(i, x)],
                    !.holds = @ \cup {x \in {im.by} : delta # 0}]]
              /\ moved' = (moved \/ im.seen.creator \notin {NoOne, im.by})
        /\ unlocked' = IF delta = 0 THEN unlocked \cup gives ELSE unlocked
        /\ UNCHANGED <<owner, holders, tables, batches, uploads, drift, repeatable>>

(* The publisher's row is locked, and the entry is unique: a second one    *)
(* ends the transaction (RollBack).                                        *)
WriteDeposit(i) ==
    /\ imports[i].stage = "read" /\ IsDeposit(i)
    /\ \A j \in Imports \ {i} : ~imports[j].pays
    /\ IndexAdmits(imports[i].sheet)
    /\ imports' = [imports EXCEPT ![i].stage = "open", ![i].line = @ + 1, ![i].pays = TRUE]
    /\ UNCHANGED <<owner, holders, tables, batches, uploads, marks>>

Commit(i) ==
    LET im == imports[i]
    IN  /\ im.stage = "open" /\ AtEnd(i)
        /\ channelRows' = [c \in Channels |->
               IF im.wrote[c] # NoRow THEN im.wrote[c] ELSE channelRows[c]]
        /\ earned' = [x \in Creators |-> earned[x] + im.due[x]]
        /\ shares' = [s \in Publishers \X Places |-> IF s \in im.gives THEN shares[s] + 1 ELSE shares[s]]
        /\ deposited' = [deposited EXCEPT ![im.sheet] = IF im.pays THEN @ + 1 ELSE @]
        /\ applied' = [applied EXCEPT ![im.sheet] = @ + 1]
        /\ imports' = [imports EXCEPT ![i] = [NoImport EXCEPT !.stage = "saving", !.sheet = im.sheet]]
        /\ drift' = [x \in Creators |-> drift[x] + im.missed[x]]
        /\ UNCHANGED <<owner, holders, batches, uploads, moved, unlocked, repeatable>>

(* The batch with the hash is written after the commit, which may fail. *)
SaveBatch(i) ==
    /\ imports[i].stage = "saving"
    /\ \E saved \in BOOLEAN :
          /\ batches' = IF saved THEN batches \cup {imports[i].sheet} ELSE batches
          /\ repeatable' = IF saved THEN repeatable ELSE repeatable \cup {imports[i].sheet}
    /\ imports' = [imports EXCEPT ![i] = NoImport]
    /\ UNCHANGED <<owner, holders, tables, uploads, drift, moved, unlocked>>

(* A statement fails, on an index or as the victim of a deadlock, or the   *)
(* process stops.                                                          *)
RollBack(i) ==
    /\ InTransaction(i)
    /\ imports' = [imports EXCEPT ![i] = NoImport]
    /\ UNCHANGED <<owner, holders, tables, batches, uploads, marks>>

-----------------------------------------------------------------------------
(* The staff's corrections, each under the lock of the row.                *)

(* What was read of the row is of a row that is gone. *)
Forget(c) ==
    imports' = [i \in Imports |->
        IF imports[i].stage = "read" /\ ~IsDeposit(i) /\ Line(i).channel = c /\ imports[i].seen # NoRow
        THEN [imports[i] EXCEPT !.lost = TRUE] ELSE imports[i]]

Book(c, delta) ==
    LET x == channelRows[c].creator
    IN  /\ channelRows[c] # NoRow /\ RowIsFree(c, Imports)
        /\ delta # 0 => CreatorIsFree(x, Imports)
        /\ earned' = [earned EXCEPT ![x] = @ + delta]

adminUpdateChannelIncome(c, n) ==
    /\ Correct(n)
    /\ Book(c, Difference(channelRows[c], n))
    /\ channelRows' = [channelRows EXCEPT ![c].income = n]
    /\ UNCHANGED <<owner, holders, shares, deposited, applied, batches, imports, uploads, marks>>

adminDeleteChannelIncome(c) ==
    /\ Book(c, -channelRows[c].income)
    /\ channelRows' = [channelRows EXCEPT ![c] = NoRow]
    /\ Forget(c)
    /\ UNCHANGED <<owner, holders, shares, deposited, applied, batches, uploads, marks>>

-----------------------------------------------------------------------------
(* What else the imports read.                                             *)

(* The drama is given to another creator, or to none. *)
adminUpdateDrama(x) ==
    /\ owner # x /\ owner' = x
    /\ moved' = (moved \/ \E i \in Imports : InTransaction(i))
    /\ UNCHANGED <<holders, tables, batches, imports, uploads, drift, unlocked, repeatable>>

(* A publisher's grant begins or ends: Deposits. *)
MoveGrant(p, d) ==
    /\ holders[p] # d /\ NoOne \in {holders[p], d}
    /\ holders' = [holders EXCEPT ![p] = d]
    /\ UNCHANGED <<owner, tables, batches, imports, uploads, marks>>

IncomeNext ==
    \/ \E i \in Imports :
          \/ \E f \in Sheets : Upload(i, f)
          \/ ReadLine(i) \/ WriteIncome(i) \/ WriteDeposit(i)
          \/ Commit(i) \/ SaveBatch(i) \/ RollBack(i)
    \/ \E c \in Channels :
          \/ \E n \in Corrections : adminUpdateChannelIncome(c, n)
          \/ adminDeleteChannelIncome(c)
    \/ \E x \in Creators \cup {NoOne} : adminUpdateDrama(x)
    \/ \E p \in Places, d \in Publishers \cup {NoOne} : MoveGrant(p, d)

IncomeSpec == IncomeInit /\ [][IncomeNext]_incomeVars

-----------------------------------------------------------------------------
(* Properties.                                                             *)

IncomeOf(x) == [c \in Channels |-> IF channelRows[c].creator = x THEN channelRows[c].income ELSE 0]

(* What a creator earned is what the rows say of them, through imports     *)
(* that cross, roll back or repeat, corrections and deletions, but for     *)
(* what imports booked for rows that were no longer as they had been read: *)
(* to the cent what such a row had changed by (admin_finance_import.go,    *)
(* adminImportDailyIncome).                                                *)
RowsBehindIncome == \A x \in Creators : earned[x] = SumFunction(IncomeOf(x)) + drift[x]

(* A publisher is given a share of a day and place once, by however many   *)
(* imports at a time and under however many names of the place, as long    *)
(* as each of them books a difference: what keeps them apart is then the   *)
(* creator's row, which both must lock.                                    *)
SharedOnce ==
    \A s \in Publishers \X Places : moved \/ s \in unlocked \/ shares[s] <= 1

(* The deposit of a sheet is entered once, whatever happens to its batch   *)
(* and however many uploads of it run at a time.                           *)
DepositedOnce == \A f \in Sheets : deposited[f] <= 1

(* A sheet is taken twice only if it was uploaded twice at a time or its   *)
(* batch could not be noted: a transaction that failed leaves the sheet    *)
(* free to be uploaded again, one that did not keeps it out.               *)
FileAppliedOnce == \A f \in Sheets : applied[f] <= 1 \/ f \in repeatable

(* However uploads of a sheet, failures and names of one place meet, a     *)
(* line has its effect on publishers and deposits once                     *)
(* (admin_finance_import.go, adminImportDailyIncome).                      *)
TakenOnce == SharedOnce /\ DepositedOnce /\ FileAppliedOnce

=============================================================================
