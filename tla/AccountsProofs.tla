--------------------------- MODULE AccountsProofs ---------------------------
(***************************************************************************)
(* Logins, the staff, creators and distributors: for every number of       *)
(* phones, codes, accounts, administrators and calls in flight.            *)
(*                                                                         *)
(* A login takes four steps and others take theirs in between.  What one   *)
(* call may rely on after each of its steps is Fits; that the code it is   *)
(* about to use is unused still follows from its row lock alone            *)
(* (LockIsExclusive), for the deletion of a code that could not be         *)
(* delivered waits for it as well.  How often a phone's code was guessed   *)
(* is bounded by the calls that have not recorded their miss yet.          *)
(*                                                                         *)
(* The other three modules follow: firms (UnderWaySound), administrators   *)
(* (CallersKeep), creators (PersonTypeInv, EarnedInv), each with what a    *)
(* call under way wrote down.                                              *)
(***************************************************************************)
EXTENDS SmsLogin, AdminAccounts, CreatorVerification, DistributorVerification, FiniteSetTheorems,
        WellFoundedInduction, TLAPS

(* What a call at one of its steps may rely on. *)
Fits(c, cs, last, pr, own) ==
    /\ c.at \in {"accepted", "absent", "found"} => c.phone \in pr
    /\ c.at = "found" => c.acct \in Accts /\ own[c.acct] = c.phone
    /\ c.at = "active" => c.acct \in Accts /\ own[c.acct] \in pr
    /\ c.at = "sent" => c.row \in 1..last
    /\ c.at = "matched" =>
         c.row \in 1..last /\ cs[c.row].phone = c.phone /\ c.phone # None /\ ~cs[c.row].used

AllFit == \A q \in Calls : Fits(logins[q], codes, lastCode, proved, owner)

LockIsExclusive ==
    \A q, r \in Calls :
        logins[q].at = "matched" /\ logins[r].at = "matched" /\ logins[q].row = logins[r].row => q = r

(* A code that could still be accepted has not been. *)
CodeCounted ==
    \A i \in CodeIds :
        /\ uses[i] \in {0, 1}
        /\ i > lastCode => uses[i] = 0 /\ codes[i] = NoCode
        /\ codes[i].phone # None /\ ~codes[i].used => uses[i] = 0

Rights == \A a \in tokens \cup password : owner[a] \in proved

Inv ==
    /\ LoginTypeOK
    /\ AllFit
    /\ LockIsExclusive
    /\ CodeCounted
    /\ Rights
    /\ OneAccountPerPhone

-----------------------------------------------------------------------------
(* Facts about the rows and the calls.                                     *)

LEMMA NoneApart ==
  None \notin Phones /\ None \notin Accts /\ NoLogin.at = "idle" /\ NoLogin.row = 0 /\ NoCode.phone = None
  BY SmsLoginAssumption DEF NoLogin, NoCode

LEMMA CallTyped ==
  ASSUME LoginTypeOK, NEW q \in Calls, logins[q].at # "idle"
  PROVE  logins[q] \in Login
  BY DEF LoginTypeOK, Login, NoLogin

(* Counter, lock and history keep their types, cleared or counted. *)
LEMMA LocksTyped ==
  ASSUME LoginTypeOK, NEW p \in Phones,
         resetVerifyLock(p) \/ (recordVerifyFailure(p) /\ tries' = tries)
  PROVE  /\ failures' \in [Phones -> 0..SMSMaxVerifyAttempts - 1]
         /\ locked' \in [Phones -> BOOLEAN]
         /\ tries' \in [Phones -> Nat]
<1>1. SMSMaxVerifyAttempts \in Nat \ {0} /\ 0 \in 0..SMSMaxVerifyAttempts - 1
  BY SmsLoginAssumption
<1>2. CASE resetVerifyLock(p)
  BY <1>1, <1>2 DEF LoginTypeOK, resetVerifyLock
<1>3. CASE recordVerifyFailure(p) /\ tries' = tries
  <2>1. failures[p] \in 0..SMSMaxVerifyAttempts - 1
    BY DEF LoginTypeOK
  <2>2. CASE Locks(failures[p] + 1)
    BY <1>1, <1>3, <2>2 DEF LoginTypeOK, recordVerifyFailure
  <2>3. CASE ~Locks(failures[p] + 1)
    <3>1. failures[p] + 1 \in 0..SMSMaxVerifyAttempts - 1
      BY <1>1, <2>1, <2>3 DEF Locks
    <3>2. failures' = [failures EXCEPT ![p] = failures[p] + 1] /\ locked' = locked
      BY <1>3, <2>3 DEF recordVerifyFailure
    <3>. QED BY <1>3, <3>1, <3>2 DEF LoginTypeOK
  <2>. QED BY <2>2, <2>3
<1>. QED BY <1>2, <1>3

(* A step keeps what other calls rely on when it neither forgets a proof,  *)
(* nor touches an account or a code that is locked.                        *)
LEMMA StillFits ==
  ASSUME Inv, NEW r \in Calls,
         lastCode' \in Nat, lastCode <= lastCode', proved \subseteq proved',
         \A a \in Accts : owner[a] # None => owner'[a] = owner[a],
         logins[r].at = "matched" =>
            /\ codes'[logins[r].row].phone = codes[logins[r].row].phone
            /\ codes'[logins[r].row].used = codes[logins[r].row].used
  PROVE  Fits(logins[r], codes', lastCode', proved', owner')
<1>. DEFINE c == logins[r]
<1>1. Fits(c, codes, lastCode, proved, owner) /\ c \in Login \cup {NoLogin}
  BY DEF Inv, AllFit, LoginTypeOK
<1>2. c.at = "idle" \/ (c.phone \in Phones /\ c.row \in Nat)
  BY <1>1, NoneApart, SmsLoginAssumption DEF Login
<1>3. lastCode \in Nat /\ proved \subseteq Phones
  BY SmsLoginAssumption DEF Inv, LoginTypeOK
<1>. HIDE DEF c
<1>4. c.at = "found" => owner'[c.acct] = c.phone
  BY <1>1, <1>2, NoneApart DEF Fits
<1>5. c.at = "active" => owner'[c.acct] \in proved'
  BY <1>1, <1>3, NoneApart DEF Fits
<1>6. c.row \in 1..lastCode => c.row \in 1..lastCode'
  BY <1>3
<1>7. c.at = "matched" =>
         codes'[c.row].phone = c.phone /\ c.phone # None /\ ~codes'[c.row].used
  BY <1>1 DEF Fits, c
<1>. QED BY <1>1, <1>4, <1>5, <1>6, <1>7 DEF Fits, c

(* A call takes its next step, and fits there; the others go on. *)
LEMMA CallStep ==
  ASSUME Inv, NEW q \in Calls,
         logins' \in [Calls -> Login \cup {NoLogin}],
         \A r \in Calls \ {q} : logins'[r] = logins[r],
         Fits(logins'[q], codes', lastCode', proved', owner'),
         lastCode' \in Nat, lastCode <= lastCode', proved \subseteq proved',
         \A a \in Accts : owner[a] # None => owner'[a] = owner[a],
         \A r \in Calls \ {q} : logins[r].at = "matched" =>
            /\ codes'[logins[r].row].phone = codes[logins[r].row].phone
            /\ codes'[logins[r].row].used = codes[logins[r].row].used
            /\ logins'[q].at = "matched" => logins[r].row # logins'[q].row
  PROVE  AllFit' /\ LockIsExclusive'
<1>1. ASSUME NEW r \in Calls \ {q}
      PROVE  Fits(logins[r], codes', lastCode', proved', owner')
  <2>1. logins[r].at = "matched" => /\ codes'[logins[r].row].phone = codes[logins[r].row].phone
                                    /\ codes'[logins[r].row].used = codes[logins[r].row].used
    OBVIOUS
  <2>. QED BY <2>1, StillFits
<1>2. AllFit'
  <2>. SUFFICES ASSUME NEW r \in Calls PROVE Fits(logins'[r], codes', lastCode', proved', owner')
    BY DEF AllFit
  <2>. QED BY <1>1
<1>3. LockIsExclusive'
  BY DEF Inv, LockIsExclusive
<1>. QED BY <1>2, <1>3

(* No call moves. *)
LEMMA CallsStay ==
  ASSUME Inv, UNCHANGED <<logins, lastCode, proved>>,
         \A a \in Accts : owner[a] # None => owner'[a] = owner[a],
         \A r \in Calls : logins[r].at = "matched" =>
            /\ codes'[logins[r].row].phone = codes[logins[r].row].phone
            /\ codes'[logins[r].row].used = codes[logins[r].row].used
  PROVE  AllFit' /\ LockIsExclusive'
<1>1. ASSUME NEW r \in Calls
      PROVE  Fits(logins[r], codes', lastCode', proved', owner')
  <2>1. lastCode' \in Nat /\ lastCode <= lastCode' /\ proved \subseteq proved'
    BY SmsLoginAssumption DEF Inv, LoginTypeOK
  <2>. QED BY <2>1, StillFits
<1>. QED BY <1>1 DEF AllFit, Inv, LockIsExclusive

LEMMA GotoRow ==
  ASSUME LoginTypeOK, NEW q \in Calls, NEW call \in Login \cup {NoLogin}, Goto(q, call)
  PROVE  /\ logins' \in [Calls -> Login \cup {NoLogin}]
         /\ logins'[q] = call
         /\ \A r \in Calls \ {q} : logins'[r] = logins[r]
  BY DEF Goto, LoginTypeOK

(* A call that begins with a phone, and perhaps a code or an account. *)
LEMMA Begins ==
  ASSUME NEW p \in Phones, NEW s \in Steps
  PROVE  /\ [NoLogin EXCEPT !.at = s, !.phone = p] \in Login
         /\ [NoLogin EXCEPT !.at = s, !.phone = p].at = s
<1>. 0 \in 0..MaxCodes
  BY SmsLoginAssumption
<1>. QED BY DEF NoLogin, Login

LEMMA BeginsCode ==
  ASSUME NEW p \in Phones, NEW s \in Steps, NEW d \in Digits
  PROVE  /\ [NoLogin EXCEPT !.at = s, !.phone = p, !.code = d] \in Login
         /\ [NoLogin EXCEPT !.at = s, !.phone = p, !.code = d].at = s
<1>. 0 \in 0..MaxCodes
  BY SmsLoginAssumption
<1>. QED BY DEF NoLogin, Login

LEMMA BeginsAcct ==
  ASSUME NEW p \in Phones, NEW s \in Steps, NEW a \in Accts
  PROVE  /\ [NoLogin EXCEPT !.at = s, !.phone = p, !.acct = a] \in Login
         /\ [NoLogin EXCEPT !.at = s, !.phone = p, !.acct = a].at = s
         /\ [NoLogin EXCEPT !.at = s, !.phone = p, !.acct = a].acct = a
<1>. 0 \in 0..MaxCodes
  BY SmsLoginAssumption
<1>. QED BY DEF NoLogin, Login

(* A call that goes on, with what it was about or with a row. *)
LEMMA Advances ==
  ASSUME LoginTypeOK, NEW q \in Calls, logins[q].at # "idle", NEW s \in Steps
  PROVE  /\ [logins[q] EXCEPT !.at = s] \in Login
         /\ [logins[q] EXCEPT !.at = s].at = s
         /\ [logins[q] EXCEPT !.at = s].phone = logins[q].phone
<1>1. logins[q] \in Login
  BY CallTyped
<1>. QED BY <1>1 DEF Login

LEMMA AdvancesRow ==
  ASSUME LoginTypeOK, NEW q \in Calls, logins[q].at # "idle", NEW s \in Steps, NEW i \in 0..MaxCodes
  PROVE  /\ [logins[q] EXCEPT !.at = s, !.row = i] \in Login
         /\ [logins[q] EXCEPT !.at = s, !.row = i].at = s
         /\ [logins[q] EXCEPT !.at = s, !.row = i].row = i
<1>1. logins[q] \in Login
  BY CallTyped
<1>. QED BY <1>1 DEF Login

LEMMA IdleFits == \A cs, n, pr, own : Fits(NoLogin, cs, n, pr, own)
  BY NoneApart DEF Fits

(* A step of one call that writes neither code nor account. *)
LEMMA QuietStep ==
  ASSUME Inv, NEW q \in Calls, UNCHANGED <<codeVars, acctVars>>,
         logins' \in [Calls -> Login \cup {NoLogin}],
         \A r \in Calls \ {q} : logins'[r] = logins[r],
         Fits(logins'[q], codes, lastCode, proved, owner),
         logins'[q].at = "matched" => RowIsFree(logins'[q].row),
         failures' \in [Phones -> 0..SMSMaxVerifyAttempts - 1],
         locked' \in [Phones -> BOOLEAN], tries' \in [Phones -> Nat]
  PROVE  Inv'
<1>. USE DEF codeVars, acctVars
<1>1. lastCode' \in Nat /\ lastCode <= lastCode' /\ proved \subseteq proved'
  BY SmsLoginAssumption DEF Inv, LoginTypeOK
<1>2. AllFit' /\ LockIsExclusive'
  BY <1>1, CallStep DEF RowIsFree, At
<1>3. LoginTypeOK'
  BY DEF Inv, LoginTypeOK
<1>4. CodeCounted' /\ Rights' /\ OneAccountPerPhone'
  BY DEF Inv, CodeCounted, Rights, OneAccountPerPhone
<1>. QED BY <1>2, <1>3, <1>4 DEF Inv

-----------------------------------------------------------------------------
(* Sending and verifying.                                                  *)

LEMMA LocksSame ==
  ASSUME LoginTypeOK, UNCHANGED lockVars
  PROVE  /\ failures' \in [Phones -> 0..SMSMaxVerifyAttempts - 1]
         /\ locked' \in [Phones -> BOOLEAN] /\ tries' \in [Phones -> Nat]
  BY DEF LoginTypeOK, lockVars

LEMMA SendStep ==
  ASSUME Inv, NEW q \in Calls, NEW p \in Phones, Send(q, p)
  PROVE  Inv'
<1>. DEFINE call == [NoLogin EXCEPT !.at = "send", !.phone = p]
<1>1. call \in Login /\ call.at = "send"
  BY Begins DEF Steps
<1>2. Goto(q, call) /\ UNCHANGED <<codeVars, lockVars, acctVars>>
  BY DEF Send
<1>. HIDE DEF call
<1>3. Fits(call, codes, lastCode, proved, owner)
  BY <1>1 DEF Fits
<1>. QED BY <1>1, <1>2, <1>3, GotoRow, LocksSame, QuietStep DEF Inv

LEMMA VerifyStep ==
  ASSUME Inv, NEW q \in Calls, NEW p \in Phones, NEW d \in Digits, Verify(q, p, d)
  PROVE  Inv'
<1>. DEFINE call == [NoLogin EXCEPT !.at = "checked", !.phone = p, !.code = d]
<1>1. call \in Login /\ call.at = "checked"
  BY BeginsCode DEF Steps
<1>2. Goto(q, call) /\ UNCHANGED <<codeVars, lockVars, acctVars>>
  BY DEF Verify
<1>. HIDE DEF call
<1>3. Fits(call, codes, lastCode, proved, owner)
  BY <1>1 DEF Fits
<1>. QED BY <1>1, <1>2, <1>3, GotoRow, LocksSame, QuietStep DEF Inv

LEMMA DeliveredStep ==
  ASSUME Inv, NEW q \in Calls, Delivered(q)
  PROVE  Inv'
<1>1. logins[q].phone \in Phones
  BY CallTyped DEF Inv, Delivered, At, Login
<1>. QED BY <1>1, GotoRow, LocksTyped, IdleFits, NoneApart, QuietStep DEF Inv, Delivered, End

LEMMA RecordStep ==
  ASSUME Inv, NEW q \in Calls, RecordMismatch(q)
  PROVE  Inv'
<1>1. logins[q].phone \in Phones
  BY CallTyped DEF Inv, RecordMismatch, At, Login
<1>. QED BY <1>1, GotoRow, LocksTyped, IdleFits, NoneApart, QuietStep DEF Inv, RecordMismatch, End

LEMMA MismatchStep ==
  ASSUME Inv, NEW q \in Calls, ErrCodeMismatch(q)
  PROVE  Inv'
<1>. DEFINE call == [logins[q] EXCEPT !.at = "mismatch"]
<1>1. call \in Login /\ call.at = "mismatch"
  BY Advances DEF Inv, ErrCodeMismatch, At, Steps
<1>2. Goto(q, call) /\ UNCHANGED <<codeVars, failures, locked, acctVars>>
  BY DEF ErrCodeMismatch
<1>3. tries' \in [Phones -> Nat]
  <2>1. logins[q].phone \in Phones /\ tries \in [Phones -> Nat]
    BY CallTyped DEF Inv, ErrCodeMismatch, At, Login, LoginTypeOK
  <2>. QED BY <2>1 DEF ErrCodeMismatch
<1>. HIDE DEF call
<1>4. Fits(call, codes, lastCode, proved, owner)
  BY <1>1 DEF Fits
<1>5. failures' \in [Phones -> 0..SMSMaxVerifyAttempts - 1] /\ locked' \in [Phones -> BOOLEAN]
  BY <1>2 DEF Inv, LoginTypeOK
<1>. QED BY <1>1, <1>2, <1>3, <1>4, <1>5, GotoRow, QuietStep DEF Inv

(* The newest of some codes is one of them, since their ids are bounded.   *)
LEMMA NewestIsOne ==
  ASSUME NEW S \in SUBSET CodeIds, S # {}
  PROVE  Newest(S) \in S
<1>. DEFINE T == {MaxCodes - i : i \in S}
<1>1. MaxCodes \in Nat /\ \A i \in S : i \in Nat /\ i <= MaxCodes
  BY SmsLoginAssumption DEF CodeIds
<1>2. T \subseteq Nat /\ T # {}
  BY <1>1
<1>. HIDE DEF T
<1>3. PICK x \in T : \A y \in T : ~ (<<y, x>> \in OpToRel(<, Nat))
  BY <1>2, NatLessThanWellFounded, WFMin
<1>4. \A y \in T : x <= y
  <2>1. OpToRel(<, Nat) = {ss \in Nat \X Nat : ss[1] < ss[2]}
    BY Zenon DEF OpToRel
  <2>2. \A y \in T : ~(y < x)
    BY <1>2, <1>3, <2>1
  <2>. QED BY <1>2, <2>2
<1>5. PICK i \in S : x = MaxCodes - i
  BY DEF T
<1>6. \A j \in S : j <= i
  <2>. SUFFICES ASSUME NEW j \in S PROVE j <= i
    OBVIOUS
  <2>1. MaxCodes - j \in T
    BY DEF T
  <2>2. x <= MaxCodes - j
    BY <1>4, <2>1
  <2>. QED BY <1>1, <1>5, <2>2
<1>. QED BY <1>6 DEF Newest

LEMMA FindCodeStep ==
  ASSUME Inv, NEW q \in Calls, FindCode(q)
  PROVE  Inv'
<1>. DEFINE p == logins[q].phone
            rows == Matching(p, logins[q].code)
            call == [logins[q] EXCEPT !.at = "matched", !.row = Newest(rows)]
<1>1. logins[q].at # "idle" /\ rows # {} /\ RowIsFree(Newest(rows)) /\ Goto(q, call)
      /\ UNCHANGED <<codeVars, lockVars, acctVars>>
  BY DEF FindCode, At
<1>2. p \in Phones
  BY <1>1, CallTyped DEF Inv, Login
<1>3. rows \in SUBSET CodeIds /\ Newest(rows) \in rows
  BY <1>1, NewestIsOne DEF Matching
<1>4. Newest(rows) \in 1..lastCode
  <2>1. Newest(rows) \in CodeIds /\ codes[Newest(rows)].phone = p
    BY <1>3 DEF Matching
  <2>2. codes[Newest(rows)] # NoCode
    BY <1>2, <2>1, NoneApart
  <2>3. MaxCodes \in Nat /\ lastCode \in 0..MaxCodes
    BY SmsLoginAssumption DEF Inv, LoginTypeOK
  <2>. QED BY <2>1, <2>2, <2>3 DEF Inv, CodeCounted, CodeIds
<1>5. codes[Newest(rows)].phone = p /\ p # None /\ ~codes[Newest(rows)].used
  BY <1>2, <1>3, NoneApart DEF Matching
<1>6. Newest(rows) \in 0..MaxCodes
  BY <1>3, SmsLoginAssumption DEF CodeIds
<1>7. call \in Login /\ call.at = "matched" /\ call.row = Newest(rows) /\ call.phone = p
  <2>. DEFINE i == Newest(rows)
  <2>1. LoginTypeOK /\ "matched" \in Steps /\ i \in 0..MaxCodes /\ logins[q].at # "idle"
    BY <1>1, <1>6 DEF Inv, Steps
  <2>. HIDE DEF i, rows, p
  <2>2. LET next == [logins[q] EXCEPT !.at = "matched", !.row = i]
        IN  next.phone = logins[q].phone /\ next \in Login /\ next.at = "matched" /\ next.row = i
    BY <2>1, CallTyped DEF Login
  <2>. QED BY <2>2 DEF i, p
<1>. HIDE DEF call, rows
<1>8. Fits(call, codes, lastCode, proved, owner)
  BY <1>4, <1>5, <1>7 DEF Fits
<1>. QED BY <1>1, <1>7, <1>8, GotoRow, LocksSame, QuietStep DEF Inv

LEMMA FindAccountStep ==
  ASSUME Inv, NEW q \in Calls, FindAccount(q)
  PROVE  Inv'
<1>. DEFINE p == logins[q].phone
<1>1. logins[q].at = "accepted" /\ resetVerifyLock(p) /\ UNCHANGED <<codeVars, acctVars>>
  BY DEF FindAccount, At
<1>2. p \in Phones /\ p \in proved
  BY <1>1, CallTyped DEF Inv, Login, AllFit, Fits
<1>3. /\ failures' \in [Phones -> 0..SMSMaxVerifyAttempts - 1]
      /\ locked' \in [Phones -> BOOLEAN] /\ tries' \in [Phones -> Nat]
  BY <1>1, <1>2, LocksTyped DEF Inv
<1>4. CASE AccountsOf(p) = {}
  <2>. DEFINE call == [logins[q] EXCEPT !.at = "absent"]
  <2>1. call \in Login /\ call.at = "absent" /\ call.phone = p
    BY <1>1, Advances DEF Inv, Steps
  <2>2. Goto(q, call)
    BY <1>4 DEF FindAccount
  <2>. HIDE DEF call
  <2>3. Fits(call, codes, lastCode, proved, owner)
    BY <1>2, <2>1 DEF Fits
  <2>. QED BY <1>1, <1>3, <2>1, <2>2, <2>3, GotoRow, QuietStep DEF Inv
<1>5. CASE AccountsOf(p) # {}
  <2>1. PICK a \in AccountsOf(p) :
           Goto(q, [logins[q] EXCEPT !.at = "found", !.acct = a, !.banned = a \in banned])
    BY <1>5 DEF FindAccount
  <2>2. a \in Accts /\ owner[a] = p
    BY DEF AccountsOf
  <2>. DEFINE call == [logins[q] EXCEPT !.at = "found", !.acct = a, !.banned = a \in banned]
  <2>3. call \in Login /\ call.at = "found" /\ call.phone = p /\ call.acct = a
    <3>1. (a \in banned) \in BOOLEAN
      OBVIOUS
    <3>2. LoginTypeOK /\ "found" \in Steps /\ logins[q].at # "idle"
      BY <1>1 DEF Steps, Inv
    <3>. DEFINE b == a \in banned
    <3>. HIDE DEF p, b
    <3>3. LET next == [logins[q] EXCEPT !.at = "found", !.acct = a, !.banned = b]
          IN  next.phone = logins[q].phone /\ next \in Login /\ next.at = "found" /\ next.acct = a
      <4>1. b \in BOOLEAN
        BY DEF b
      <4>. QED BY <2>2, <3>2, <4>1, CallTyped DEF Login
    <3>. QED BY <3>3 DEF p, b
  <2>. HIDE DEF call
  <2>4. Fits(call, codes, lastCode, proved, owner)
    BY <1>2, <2>2, <2>3 DEF Fits
  <2>5. Goto(q, call)
    BY <2>1 DEF call
  <2>. QED BY <1>1, <1>3, <2>3, <2>4, <2>5, GotoRow, QuietStep DEF Inv
<1>. QED BY <1>4, <1>5

LEMMA ActiveStep ==
  ASSUME Inv, NEW q \in Calls, NEW a \in Accts, requireActiveAccount(q, a)
  PROVE  Inv'
<1>. DEFINE call == [NoLogin EXCEPT !.at = "active", !.phone = owner[a], !.acct = a]
<1>1. owner[a] \in proved /\ owner[a] \in Phones
  BY DEF requireActiveAccount, Inv, Rights, LoginTypeOK
<1>2. call \in Login /\ call.at = "active" /\ call.acct = a
  BY <1>1, BeginsAcct DEF Steps
<1>3. Goto(q, call) /\ UNCHANGED <<codeVars, lockVars, acctVars>>
  BY DEF requireActiveAccount
<1>. HIDE DEF call
<1>4. Fits(call, codes, lastCode, proved, owner)
  BY <1>1, <1>2 DEF Fits
<1>. QED BY <1>2, <1>3, <1>4, GotoRow, LocksSame, QuietStep DEF Inv

-----------------------------------------------------------------------------
(* Steps that write codes.                                                 *)

LEMMA InsertStep ==
  ASSUME Inv, NEW q \in Calls, NEW d \in Digits, Insert(q, d)
  PROVE  Inv'
<1>. DEFINE n == lastCode + 1
            row == [phone |-> logins[q].phone, code |-> d, used |-> FALSE, live |-> TRUE, recent |-> TRUE]
            call == [logins[q] EXCEPT !.at = "sent", !.row = n]
<1>1. /\ logins[q].at = "send" /\ lastCode < MaxCodes /\ lastCode' = n
      /\ codes' = [codes EXCEPT ![n] = row] /\ Goto(q, call)
      /\ UNCHANGED <<lockVars, acctVars, uses, proved>>
  BY DEF Insert, At
<1>2. lastCode \in Nat /\ n \in CodeIds /\ n \in 0..MaxCodes /\ MaxCodes \in Nat
  BY <1>1, SmsLoginAssumption DEF Inv, LoginTypeOK, CodeIds
<1>3. row \in SMSCode
  BY <1>1, CallTyped DEF Inv, Login, SMSCode
<1>4. call \in Login /\ call.at = "sent" /\ call.row = n
  BY <1>1, <1>2, AdvancesRow DEF Inv, Steps
<1>. HIDE DEF call, row
<1>5. codes' \in [CodeIds -> SMSCode \cup {NoCode}] /\ \A i \in CodeIds \ {n} : codes'[i] = codes[i]
  BY <1>1, <1>2, <1>3 DEF Inv, LoginTypeOK
<1>6. LoginTypeOK'
  BY <1>1, <1>2, <1>4, <1>5, GotoRow DEF Inv, LoginTypeOK, lockVars, acctVars
<1>7. AllFit' /\ LockIsExclusive'
  <2>1. Fits(call, codes', lastCode', proved', owner')
    BY <1>1, <1>2, <1>4 DEF Fits
  <2>2. ASSUME NEW r \in Calls, logins[r].at = "matched"
        PROVE  codes'[logins[r].row] = codes[logins[r].row]
    <3>1. logins[r].row \in 1..lastCode
      BY <2>2 DEF Inv, AllFit, Fits
    <3>. QED BY <1>2, <1>5, <3>1 DEF CodeIds
  <2>3. /\ logins' \in [Calls -> Login \cup {NoLogin}] /\ logins'[q] = call
        /\ \A r \in Calls \ {q} : logins'[r] = logins[r]
    BY <1>1, <1>4, GotoRow DEF Inv
  <2>4. lastCode' \in Nat /\ lastCode <= lastCode' /\ proved \subseteq proved' /\ owner' = owner
    BY <1>1, <1>2 DEF acctVars
  <2>. QED BY <1>4, <2>1, <2>2, <2>3, <2>4, CallStep
<1>8. CodeCounted'
  <2>. SUFFICES ASSUME NEW i \in CodeIds
                PROVE  /\ uses[i] \in {0, 1}
                       /\ i > lastCode' => uses[i] = 0 /\ codes'[i] = NoCode
                       /\ codes'[i].phone # None /\ ~codes'[i].used => uses[i] = 0
    BY <1>1 DEF CodeCounted
  <2>1. i \in Nat
    BY DEF CodeIds
  <2>2. CASE i = n
    BY <1>1, <1>2, <2>1, <2>2 DEF Inv, CodeCounted
  <2>3. CASE i # n
    BY <1>1, <1>2, <1>5, <2>1, <2>3 DEF Inv, CodeCounted
  <2>. QED BY <2>2, <2>3
<1>9. Rights' /\ OneAccountPerPhone'
  BY <1>1 DEF Inv, Rights, OneAccountPerPhone, acctVars
<1>. QED BY <1>6, <1>7, <1>8, <1>9 DEF Inv

LEMMA ProviderStep ==
  ASSUME Inv, NEW q \in Calls, ErrProviderFail(q)
  PROVE  Inv'
<1>. DEFINE i == logins[q].row
<1>1. /\ logins[q].at = "sent" /\ Goto(q, NoLogin)
      /\ UNCHANGED <<lastCode, lockVars, acctVars, uses, proved>>
      /\ codes' = codes \/ (RowIsFree(i) /\ codes' = [codes EXCEPT ![i] = NoCode])
  BY DEF ErrProviderFail, At, End
<1>2. i \in 1..lastCode /\ i \in CodeIds /\ lastCode \in Nat
  <2>1. MaxCodes \in Nat /\ lastCode \in 0..MaxCodes
    BY SmsLoginAssumption DEF Inv, LoginTypeOK
  <2>. QED BY <1>1, <2>1 DEF Inv, AllFit, Fits, CodeIds
<1>. HIDE DEF i
<1>3. /\ codes' \in [CodeIds -> SMSCode \cup {NoCode}]
      /\ \A j \in CodeIds : codes'[j] = codes[j] \/ (j = i /\ RowIsFree(i) /\ codes'[j] = NoCode)
  BY <1>1, <1>2 DEF Inv, LoginTypeOK
<1>4. LoginTypeOK'
  BY <1>1, <1>3, GotoRow DEF Inv, LoginTypeOK, lockVars, acctVars
<1>5. AllFit' /\ LockIsExclusive'
  <2>1. ASSUME NEW r \in Calls, logins[r].at = "matched"
        PROVE  codes'[logins[r].row] = codes[logins[r].row]
    <3>1. logins[r].row \in CodeIds
      <4>1. MaxCodes \in Nat /\ lastCode \in 0..MaxCodes
        BY SmsLoginAssumption DEF Inv, LoginTypeOK
      <4>. QED BY <2>1, <4>1 DEF Inv, AllFit, Fits, CodeIds
    <3>. QED BY <1>3, <2>1, <3>1 DEF RowIsFree, At
  <2>. QED BY <1>1, <1>2, <2>1, GotoRow, IdleFits, NoneApart, CallStep DEF Inv, acctVars
<1>6. CodeCounted'
  BY <1>1, <1>3, NoneApart DEF Inv, CodeCounted
<1>7. Rights' /\ OneAccountPerPhone'
  BY <1>1 DEF Inv, Rights, OneAccountPerPhone, acctVars
<1>. QED BY <1>4, <1>5, <1>6, <1>7 DEF Inv

LEMMA UseCodeStep ==
  ASSUME Inv, NEW q \in Calls, UseCode(q)
  PROVE  Inv'
<1>. DEFINE i == logins[q].row
            p == logins[q].phone
            call == [logins[q] EXCEPT !.at = "accepted"]
<1>1. /\ logins[q].at = "matched" /\ Goto(q, call)
      /\ codes' = [codes EXCEPT ![i].used = TRUE]
      /\ uses' = [uses EXCEPT ![i] = uses[i] + 1]
      /\ proved' = proved \cup {p}
      /\ UNCHANGED <<lastCode, lockVars, acctVars>>
  BY DEF UseCode, At
<1>2. i \in CodeIds /\ codes[i].phone # None /\ ~codes[i].used /\ lastCode \in Nat
  <2>1. MaxCodes \in Nat /\ lastCode \in 0..MaxCodes
    BY SmsLoginAssumption DEF Inv, LoginTypeOK
  <2>. QED BY <1>1, <2>1 DEF Inv, AllFit, Fits, CodeIds
<1>3. call \in Login /\ call.at = "accepted" /\ call.phone = p /\ p \in Phones
  <2>1. logins[q] \in Login
    BY <1>1, CallTyped DEF Inv
  <2>2. LoginTypeOK /\ logins[q].at # "idle" /\ "accepted" \in Steps
    BY <1>1 DEF Inv, Steps
  <2>. QED BY <2>1, <2>2, Advances DEF Login
<1>4. uses[i] = 0 /\ codes[i] \in SMSCode
  BY <1>2, NoneApart DEF Inv, CodeCounted, LoginTypeOK
<1>. HIDE DEF i, p, call
<1>5. /\ codes' \in [CodeIds -> SMSCode \cup {NoCode}]
      /\ \A j \in CodeIds \ {i} : codes'[j] = codes[j]
      /\ codes'[i].used = TRUE
  BY <1>1, <1>2, <1>4 DEF Inv, LoginTypeOK, SMSCode
<1>6. uses' \in [CodeIds -> Nat] /\ uses'[i] = 1 /\ \A j \in CodeIds \ {i} : uses'[j] = uses[j]
  BY <1>1, <1>2, <1>4 DEF Inv, LoginTypeOK
<1>7. LoginTypeOK'
  BY <1>1, <1>3, <1>5, <1>6, GotoRow DEF Inv, LoginTypeOK, lockVars, acctVars
<1>8. AllFit' /\ LockIsExclusive'
  <2>1. Fits(call, codes', lastCode', proved', owner')
    BY <1>1, <1>3 DEF Fits
  <2>2. ASSUME NEW r \in Calls \ {q}, logins[r].at = "matched"
        PROVE  codes'[logins[r].row] = codes[logins[r].row]
    <3>1. logins[r].row \in CodeIds /\ logins[r].row # i
      <4>1. MaxCodes \in Nat /\ lastCode \in 0..MaxCodes
        BY SmsLoginAssumption DEF Inv, LoginTypeOK
      <4>. QED BY <1>1, <2>2, <4>1 DEF Inv, AllFit, Fits, CodeIds, LockIsExclusive, i
    <3>. QED BY <1>5, <3>1
  <2>3. /\ logins' \in [Calls -> Login \cup {NoLogin}] /\ logins'[q] = call
        /\ \A r \in Calls \ {q} : logins'[r] = logins[r]
    BY <1>1, <1>3, GotoRow DEF Inv
  <2>4. lastCode' \in Nat /\ lastCode <= lastCode' /\ proved \subseteq proved' /\ owner' = owner
    BY <1>1, <1>2 DEF acctVars
  <2>. QED BY <1>3, <2>1, <2>2, <2>3, <2>4, CallStep
<1>9. CodeCounted'
  <2>. SUFFICES ASSUME NEW j \in CodeIds
                PROVE  /\ uses'[j] \in {0, 1}
                       /\ j > lastCode => uses'[j] = 0 /\ codes'[j] = NoCode
                       /\ codes'[j].phone # None /\ ~codes'[j].used => uses'[j] = 0
    BY <1>1 DEF CodeCounted
  <2>1. CASE j = i
    BY <1>2, <1>5, <1>6, <2>1, NoneApart DEF Inv, CodeCounted
  <2>2. CASE j # i
    BY <1>5, <1>6, <2>2 DEF Inv, CodeCounted
  <2>. QED BY <2>1, <2>2
<1>10. Rights' /\ OneAccountPerPhone'
  BY <1>1 DEF Inv, Rights, OneAccountPerPhone, acctVars
<1>. QED BY <1>7, <1>8, <1>9, <1>10 DEF Inv

LEMMA AgeStep ==
  ASSUME Inv, NEW i \in CodeIds, Age(i)
  PROVE  Inv'
<1>1. /\ codes' = [codes EXCEPT ![i].recent = FALSE, ![i].live = codes[i].recent]
      /\ UNCHANGED <<lastCode, lockVars, acctVars, logins, uses, proved>>
  BY DEF Age
<1>2. codes[i] \in SMSCode
  BY DEF Age, NoCode, Inv, LoginTypeOK
<1>3. /\ codes' \in [CodeIds -> SMSCode \cup {NoCode}]
      /\ \A j \in CodeIds : codes'[j].phone = codes[j].phone /\ codes'[j].used = codes[j].used
      /\ \A j \in CodeIds \ {i} : codes'[j] = codes[j]
  BY <1>1, <1>2 DEF Inv, LoginTypeOK, SMSCode
<1>4. LoginTypeOK'
  BY <1>1, <1>3 DEF Inv, LoginTypeOK, lockVars, acctVars
<1>5. AllFit' /\ LockIsExclusive'
  <2>1. ASSUME NEW r \in Calls, logins[r].at = "matched" PROVE logins[r].row \in CodeIds
    <3>1. MaxCodes \in Nat /\ lastCode \in 0..MaxCodes
      BY SmsLoginAssumption DEF Inv, LoginTypeOK
    <3>. QED BY <2>1, <3>1 DEF Inv, AllFit, Fits, CodeIds
  <2>. QED BY <1>1, <1>3, <2>1, CallsStay DEF acctVars
<1>6. CodeCounted'
  <2>1. codes[i] # NoCode
    BY DEF Age, NoCode
  <2>. QED BY <1>1, <1>3, <2>1 DEF Inv, CodeCounted
<1>7. Rights' /\ OneAccountPerPhone'
  BY <1>1 DEF Inv, Rights, OneAccountPerPhone, acctVars
<1>. QED BY <1>4, <1>5, <1>6, <1>7 DEF Inv

-----------------------------------------------------------------------------
(* Steps that write accounts.                                              *)

(* A free account is given a phone that none has. *)
LEMMA GivenStep ==
  ASSUME Inv, NEW a \in Free, NEW p \in Phones, PhoneIsNew(p), owner' = [owner EXCEPT ![a] = p],
         UNCHANGED <<tokens, password, proved>>
  PROVE  /\ a \in Accts /\ owner'[a] = p
         /\ owner' \in [Accts -> Phones \cup {None}]
         /\ \A b \in Accts : owner[b] # None => owner'[b] = owner[b]
         /\ Rights' /\ OneAccountPerPhone'
<1>1. a \in Accts /\ owner[a] = None
  BY DEF Free
<1>2. /\ owner' \in [Accts -> Phones \cup {None}] /\ owner'[a] = p
      /\ \A b \in Accts \ {a} : owner'[b] = owner[b]
  BY <1>1 DEF Inv, LoginTypeOK
<1>3. \A b \in Accts : owner[b] # None => owner'[b] = owner[b]
  BY <1>1, <1>2
<1>4. Rights'
  <2>1. proved \subseteq Phones /\ tokens \subseteq Accts /\ password \subseteq Accts
    BY DEF Inv, LoginTypeOK
  <2>. QED BY <1>3, <2>1, NoneApart DEF Inv, Rights
<1>5. OneAccountPerPhone'
  BY <1>1, <1>2 DEF Inv, OneAccountPerPhone, PhoneIsNew, AccountsOf
<1>. QED BY <1>1, <1>2, <1>3, <1>4, <1>5

LEMMA RegisterStep ==
  ASSUME Inv, NEW q \in Calls, Register(q)
  PROVE  Inv'
<1>. DEFINE p == logins[q].phone
<1>1. logins[q].at = "absent" /\ UNCHANGED <<codeVars, lockVars, banned, password, tokens>>
  BY DEF Register, At
<1>2. p \in Phones /\ p \in proved /\ LoginTypeOK /\ "found" \in Steps
  BY <1>1, CallTyped DEF Inv, Login, AllFit, Fits, Steps
<1>3. lastCode' \in Nat /\ lastCode <= lastCode' /\ proved \subseteq proved'
  BY <1>1, SmsLoginAssumption DEF Inv, LoginTypeOK, codeVars
<1>4. CASE PhoneIsNew(p)
  <2>1. PICK a \in Free :
           /\ owner' = [owner EXCEPT ![a] = p]
           /\ Goto(q, [logins[q] EXCEPT !.at = "found", !.acct = a])
    BY <1>4 DEF Register
  <2>2. /\ a \in Accts /\ owner'[a] = p
        /\ owner' \in [Accts -> Phones \cup {None}]
        /\ \A b \in Accts : owner[b] # None => owner'[b] = owner[b]
        /\ Rights' /\ OneAccountPerPhone'
    BY <1>1, <1>2, <1>4, <2>1, GivenStep DEF codeVars
  <2>. DEFINE call == [logins[q] EXCEPT !.at = "found", !.acct = a]
  <2>3. call \in Login /\ call.at = "found" /\ call.acct = a /\ call.phone = p
    <3>1. logins[q].at # "idle"
      BY <1>1
    <3>. HIDE DEF p
    <3>2. LET next == [logins[q] EXCEPT !.at = "found", !.acct = a]
          IN  next.phone = logins[q].phone /\ next \in Login /\ next.at = "found" /\ next.acct = a
      BY <1>2, <2>2, <3>1, CallTyped DEF Login
    <3>. QED BY <3>2 DEF p
  <2>4. Goto(q, call)
    BY <2>1
  <2>. HIDE DEF call
  <2>5. /\ logins' \in [Calls -> Login \cup {NoLogin}] /\ logins'[q] = call
        /\ \A r \in Calls \ {q} : logins'[r] = logins[r]
    BY <1>2, <2>3, <2>4, GotoRow
  <2>6. Fits(call, codes', lastCode', proved', owner')
    <3>1. proved' = proved /\ call.acct \in Accts /\ owner'[call.acct] = call.phone /\ call.phone \in proved
      BY <1>1, <1>2, <2>2, <2>3 DEF codeVars
    <3>. QED BY <2>3, <3>1 DEF Fits
  <2>7. AllFit' /\ LockIsExclusive'
    BY <1>1, <1>3, <2>2, <2>3, <2>5, <2>6, CallStep DEF codeVars
  <2>8. LoginTypeOK' /\ CodeCounted'
    BY <1>1, <2>2, <2>5 DEF Inv, LoginTypeOK, CodeCounted, codeVars, lockVars
  <2>. QED BY <2>2, <2>7, <2>8 DEF Inv
<1>5. CASE ~PhoneIsNew(p)
  <2>1. Goto(q, NoLogin) /\ UNCHANGED <<codeVars, lockVars, acctVars>>
    BY <1>1, <1>5 DEF Register, End, acctVars
  <2>. QED BY <2>1, GotoRow, LocksSame, IdleFits, NoneApart, QuietStep DEF Inv
<1>. QED BY <1>4, <1>5

LEMMA CreateAccountStep ==
  ASSUME Inv, NEW a \in Accts, NEW p \in Phones, adminCreateAccount(a, p)
  PROVE  Inv'
<1>1. /\ a \in Free /\ PhoneIsNew(p) /\ owner' = [owner EXCEPT ![a] = p]
      /\ UNCHANGED <<codeVars, lockVars, banned, password, tokens, logins>>
  BY DEF adminCreateAccount
<1>2. /\ owner' \in [Accts -> Phones \cup {None}]
      /\ \A b \in Accts : owner[b] # None => owner'[b] = owner[b]
      /\ Rights' /\ OneAccountPerPhone'
  BY <1>1, GivenStep DEF codeVars
<1>3. AllFit' /\ LockIsExclusive'
  BY <1>1, <1>2, CallsStay DEF codeVars
<1>4. LoginTypeOK' /\ CodeCounted'
  BY <1>1, <1>2 DEF Inv, LoginTypeOK, CodeCounted, codeVars, lockVars
<1>. QED BY <1>2, <1>3, <1>4 DEF Inv

(* Accounts keep their phones; bans, passwords and tokens may change, but  *)
(* only an account whose phone was proved gains a right.                   *)
LEMMA RightsStep ==
  ASSUME Inv, UNCHANGED <<codeVars, lockVars, owner>>,
         banned' \subseteq Accts, password' \subseteq Accts, tokens' \subseteq Accts,
         \A a \in tokens' \cup password' : owner[a] \in proved,
         logins' \in [Calls -> Login \cup {NoLogin}],
         AllFit' /\ LockIsExclusive'
  PROVE  Inv'
  BY DEF Inv, LoginTypeOK, CodeCounted, Rights, OneAccountPerPhone, codeVars, lockVars

(* The same, for a call that ends with it. *)
LEMMA RightsEnd ==
  ASSUME Inv, NEW q \in Calls, End(q), UNCHANGED <<codeVars, lockVars, owner>>,
         banned' \subseteq Accts, password' \subseteq Accts, tokens' \subseteq Accts,
         \A a \in tokens' \cup password' : owner[a] \in proved
  PROVE  Inv'
<1>1. /\ logins' \in [Calls -> Login \cup {NoLogin}] /\ logins'[q] = NoLogin
      /\ \A r \in Calls \ {q} : logins'[r] = logins[r]
  BY GotoRow DEF Inv, End
<1>2. lastCode' \in Nat /\ lastCode <= lastCode' /\ proved \subseteq proved'
  BY SmsLoginAssumption DEF Inv, LoginTypeOK, codeVars
<1>3. AllFit' /\ LockIsExclusive'
  BY <1>1, <1>2, IdleFits, NoneApart, CallStep DEF codeVars
<1>. QED BY <1>1, <1>3, RightsStep

(* The same, while every call stays where it is. *)
LEMMA RightsStay ==
  ASSUME Inv, UNCHANGED <<codeVars, lockVars, owner, logins>>,
         banned' \subseteq Accts, password' \subseteq Accts, tokens' \subseteq Accts,
         \A a \in tokens' \cup password' : owner[a] \in proved
  PROVE  Inv'
<1>1. AllFit' /\ LockIsExclusive'
  BY CallsStay DEF codeVars
<1>2. logins' \in [Calls -> Login \cup {NoLogin}]
  BY DEF Inv, LoginTypeOK
<1>. QED BY <1>1, <1>2, RightsStep

LEMMA IssueTokenStep ==
  ASSUME Inv, NEW q \in Calls, IssueToken(q)
  PROVE  Inv'
<1>1. logins[q].acct \in Accts /\ owner[logins[q].acct] \in proved
  BY DEF IssueToken, At, Inv, AllFit, Fits
<1>. QED BY <1>1, RightsEnd DEF IssueToken, Inv, LoginTypeOK, Rights

LEMMA PasswordLoginStep ==
  ASSUME Inv, NEW a \in Accts, distributorPasswordLogin(a)
  PROVE  Inv'
<1>1. owner[a] \in proved
  BY DEF distributorPasswordLogin, HasPassword, Inv, Rights
<1>. QED BY <1>1, RightsStay DEF distributorPasswordLogin, Inv, LoginTypeOK, Rights

LEMMA SetPasswordStep ==
  ASSUME Inv, NEW q \in Calls, distributorSetPassword(q)
  PROVE  Inv'
<1>1. logins[q].acct \in Accts /\ owner[logins[q].acct] \in proved
  BY DEF distributorSetPassword, At, Inv, AllFit, Fits
<1>. QED BY <1>1, RightsEnd DEF distributorSetPassword, Inv, LoginTypeOK, Rights

LEMMA StaffStep ==
  ASSUME Inv, NEW a \in Accts, adminBan(a) \/ adminUnban(a) \/ TokenExpires(a)
  PROVE  Inv'
<1>1. UNCHANGED <<codeVars, lockVars, owner, password, logins>> /\ tokens' \subseteq tokens
      /\ banned' \subseteq banned \cup {a}
  BY DEF adminBan, adminUnban, TokenExpires
<1>. QED BY <1>1, RightsStay DEF Inv, LoginTypeOK, Rights

-----------------------------------------------------------------------------
(* Steps that write only the locks, and the loss of all calls.             *)

LEMMA LocksStep ==
  ASSUME Inv, UNCHANGED <<codeVars, acctVars, logins>>,
         failures' \in [Phones -> 0..SMSMaxVerifyAttempts - 1],
         locked' \in [Phones -> BOOLEAN], tries' \in [Phones -> Nat]
  PROVE  Inv'
<1>. USE DEF codeVars, acctVars
<1>1. AllFit' /\ LockIsExclusive'
  BY CallsStay
<1>. QED BY <1>1 DEF Inv, LoginTypeOK, CodeCounted, Rights, OneAccountPerPhone

LEMMA LockStep ==
  ASSUME Inv, NEW p \in Phones, VerifyEmpty(p) \/ LockRunsOut(p)
  PROVE  Inv'
<1>1. CASE VerifyEmpty(p)
  BY <1>1, LocksTyped, LocksStep DEF Inv, VerifyEmpty
<1>2. CASE LockRunsOut(p)
  BY <1>2, LocksStep DEF Inv, LockRunsOut, LoginTypeOK
<1>. QED BY <1>1, <1>2

LEMMA RestartStep ==
  ASSUME Inv, Restart
  PROVE  Inv'
<1>1. logins' = [q \in Calls |-> NoLogin] /\ UNCHANGED <<codeVars, acctVars>>
      /\ failures' = [p \in Phones |-> 0] /\ locked' = [p \in Phones |-> FALSE]
      /\ tries' = [p \in Phones |-> 0]
  BY DEF Restart
<1>2. 0 \in 0..SMSMaxVerifyAttempts - 1
  BY SmsLoginAssumption
<1>3. LoginTypeOK'
  BY <1>1, <1>2 DEF Inv, LoginTypeOK, codeVars, acctVars
<1>4. AllFit' /\ LockIsExclusive'
  BY <1>1, IdleFits, NoneApart DEF AllFit, LockIsExclusive
<1>5. CodeCounted' /\ Rights' /\ OneAccountPerPhone'
  BY <1>1 DEF Inv, CodeCounted, Rights, OneAccountPerPhone, codeVars, acctVars
<1>. QED BY <1>3, <1>4, <1>5 DEF Inv

-----------------------------------------------------------------------------
(* The invariant, and what follows from it.                                *)

LEMMA InvInit == LoginInit => Inv
<1>. SUFFICES ASSUME LoginInit PROVE Inv
  OBVIOUS
<1>1. 0 \in 0..SMSMaxVerifyAttempts - 1 /\ 0 \in 0..MaxCodes
  BY SmsLoginAssumption
<1>2. LoginTypeOK
  BY <1>1 DEF LoginInit, LoginTypeOK
<1>3. AllFit /\ LockIsExclusive
  BY IdleFits, NoneApart DEF LoginInit, AllFit, LockIsExclusive
<1>4. CodeCounted /\ Rights /\ OneAccountPerPhone
  BY NoneApart DEF LoginInit, CodeCounted, Rights, OneAccountPerPhone
<1>. QED BY <1>2, <1>3, <1>4 DEF Inv

LEMMA CallsNext ==
  ASSUME Inv, NEW q \in Calls,
         \/ \E p \in Phones : Send(q, p) \/ \E d \in Digits : Verify(q, p, d)
         \/ \E d \in Digits : Insert(q, d)
         \/ Delivered(q) \/ ErrProviderFail(q)
         \/ FindCode(q) \/ UseCode(q) \/ ErrCodeMismatch(q) \/ RecordMismatch(q)
         \/ FindAccount(q) \/ Register(q) \/ IssueToken(q)
         \/ \E a \in Accts : requireActiveAccount(q, a)
         \/ distributorSetPassword(q)
  PROVE  Inv'
  BY SendStep, VerifyStep, InsertStep, DeliveredStep, ProviderStep, FindCodeStep, UseCodeStep,
     MismatchStep,
     RecordStep, FindAccountStep, RegisterStep, IssueTokenStep, ActiveStep, SetPasswordStep

LEMMA InvNext == Inv /\ [LoginNext]_loginVars => Inv'
<1>. SUFFICES ASSUME Inv, [LoginNext]_loginVars PROVE Inv'
  OBVIOUS
<1>1. CASE UNCHANGED loginVars
  <2>1. UNCHANGED <<codeVars, acctVars, lockVars, logins>>
    BY <1>1 DEF loginVars, codeVars, acctVars, lockVars
  <2>. QED BY <2>1, LocksSame, LocksStep DEF Inv
<1>2. ASSUME NEW q \in Calls,
             \/ \E p \in Phones : Send(q, p) \/ \E d \in Digits : Verify(q, p, d)
             \/ \E d \in Digits : Insert(q, d)
             \/ Delivered(q) \/ ErrProviderFail(q)
             \/ FindCode(q) \/ UseCode(q) \/ ErrCodeMismatch(q) \/ RecordMismatch(q)
             \/ FindAccount(q) \/ Register(q) \/ IssueToken(q)
             \/ \E a \in Accts : requireActiveAccount(q, a)
             \/ distributorSetPassword(q)
      PROVE  Inv'
  BY <1>2, CallsNext
<1>3. ASSUME NEW p \in Phones, VerifyEmpty(p) \/ LockRunsOut(p) PROVE Inv'
  BY <1>3, LockStep
<1>4. ASSUME NEW a \in Accts,
             \/ distributorPasswordLogin(a) \/ adminBan(a) \/ adminUnban(a) \/ TokenExpires(a)
             \/ \E p \in Phones : adminCreateAccount(a, p)
      PROVE  Inv'
  BY <1>4, PasswordLoginStep, StaffStep, CreateAccountStep
<1>5. ASSUME NEW i \in CodeIds, Age(i) PROVE Inv'
  BY <1>5, AgeStep
<1>6. CASE Restart
  BY <1>6, RestartStep
<1>. QED BY <1>1, <1>2, <1>3, <1>4, <1>5, <1>6 DEF LoginNext

LEMMA Invariance == LoginSpec => []Inv
  BY InvInit, InvNext, PTL DEF LoginSpec

(* Every code, counter, account and call in flight is one the program can  *)
(* be in (sms.go, auth.go and the login handlers).                         *)
THEOREM LoginTypes == LoginSpec => []LoginTypeOK
<1>1. Inv => LoginTypeOK
  BY DEF Inv
<1>. QED BY <1>1, Invariance, PTL

(* Of calls that come with the same code at once, one is accepted: the row *)
(* lock and the second look at the row are enough, for any number of them  *)
(* (sms.go, Verify).                                                       *)
THEOREM CodeOnce == LoginSpec => []CodeAcceptedOnce
<1>1. Inv => CodeAcceptedOnce
  BY DEF Inv, CodeCounted, CodeAcceptedOnce
<1>. QED BY <1>1, Invariance, PTL

(* Racing first logins and accounts the staff create leave one account for *)
(* a phone (the findOrCreate handlers and the unique index).               *)
THEOREM OneAccount == LoginSpec => []OneAccountPerPhone
<1>1. Inv => OneAccountPerPhone
  BY DEF Inv
<1>. QED BY <1>1, Invariance, PTL

(* Nobody holds a token of an account whose phone never had a code         *)
(* accepted, password logins and imported accounts included (auth.go,      *)
(* distributorPasswordLogin, distributorSetPassword).                      *)
THEOREM TokensEarned == LoginSpec => []TokenWasEarned
<1>1. Inv => TokenWasEarned
  BY DEF Inv, Rights, TokenWasEarned
<1>. QED BY <1>1, Invariance, PTL

(* The three together: who is let in had a code of that phone accepted,    *)
(* once, and got the phone's only account (sms.go, auth.go).               *)
THEOREM LoginIsSound == LoginSpec => []LoginSound
<1>1. CodeAcceptedOnce /\ OneAccountPerPhone /\ TokenWasEarned => LoginSound
  BY DEF LoginSound
<1>. QED BY <1>1, CodeOnce, OneAccount, TokensEarned, PTL

-----------------------------------------------------------------------------
(* The login implements the admission: one lemma per kind of step.          *)

Rows == [i \in CodeIds |-> codes[i].phone]

LEMMA RowsSame ==
  ASSUME codes' = codes PROVE Rows' = Rows
  BY DEF Rows

(* A step that leaves codes, histories, accounts and tokens alone is none  *)
(* of the admission.                                                       *)
LEMMA AdmissionStutters ==
  ASSUME UNCHANGED <<codes, uses, proved, owner, tokens>>
  PROVE  UNCHANGED Admission!admissionVars
  BY DEF Admission!admissionVars

LEMMA IssueMaps ==
  ASSUME Inv, NEW q \in Calls, NEW d \in Digits, Insert(q, d)
  PROVE  Admission!AdmissionNext
<1>. DEFINE n == lastCode + 1
            row == [phone |-> logins[q].phone, code |-> d, used |-> FALSE, live |-> TRUE, recent |-> TRUE]
<1>1. /\ logins[q].at = "send" /\ lastCode < MaxCodes
      /\ codes' = [codes EXCEPT ![n] = row]
      /\ UNCHANGED <<uses, proved, owner, tokens>>
  BY DEF Insert, At, acctVars
<1>2. n \in CodeIds /\ n > lastCode
  BY <1>1, SmsLoginAssumption DEF Inv, LoginTypeOK, CodeIds
<1>3. row.phone \in Phones
  BY <1>1, CallTyped DEF Inv, Login
<1>. HIDE DEF n, row
<1>4. codes[n].phone = None /\ uses[n] = 0
  BY <1>2, NoneApart DEF Inv, CodeCounted
<1>5. codes'[n] = row /\ \A i \in CodeIds \ {n} : codes'[i] = codes[i]
  BY <1>1, <1>2 DEF Inv, LoginTypeOK
<1>6. [i \in CodeIds |-> codes'[i].phone] = [Rows EXCEPT ![n] = row.phone]
  BY <1>2, <1>5 DEF Rows
<1>7. PICK m \in CodeIds : m = n
  BY <1>2
<1>8. Admission!Issue(m)
  BY <1>1, <1>3, <1>4, <1>5, <1>6, <1>7 DEF Admission!Issue, Rows
<1>. QED BY <1>8 DEF Admission!AdmissionNext

LEMMA WithdrawMaps ==
  ASSUME Inv, NEW q \in Calls, ErrProviderFail(q)
  PROVE  Admission!AdmissionNext \/ UNCHANGED Admission!admissionVars
<1>. DEFINE i == logins[q].row
<1>1. /\ logins[q].at = "sent" /\ UNCHANGED <<uses, proved, owner, tokens>>
      /\ codes' = codes \/ codes' = [codes EXCEPT ![i] = NoCode]
  BY DEF ErrProviderFail, At, acctVars
<1>2. i \in CodeIds
  <2>1. MaxCodes \in Nat /\ lastCode \in 0..MaxCodes
    BY SmsLoginAssumption DEF Inv, LoginTypeOK
  <2>. QED BY <1>1, <2>1 DEF Inv, AllFit, Fits, CodeIds
<1>. HIDE DEF i
<1>3. CASE codes' = codes
  BY <1>1, <1>3, AdmissionStutters
<1>4. CASE codes' = [codes EXCEPT ![i] = NoCode]
  <2>1. codes'[i] = NoCode /\ \A j \in CodeIds \ {i} : codes'[j] = codes[j]
    BY <1>2, <1>4 DEF Inv, LoginTypeOK
  <2>2. [j \in CodeIds |-> codes'[j].phone] = [Rows EXCEPT ![i] = None]
    BY <1>2, <2>1, NoneApart DEF Rows
  <2>3. CASE codes[i].phone = None
    <3>1. [j \in CodeIds |-> codes'[j].phone] = Rows
      BY <2>1, <2>3, NoneApart DEF Rows
    <3>. QED BY <1>1, <3>1 DEF Admission!admissionVars, Rows
  <2>4. CASE codes[i].phone # None
    <3>1. PICK m \in CodeIds : m = i
      BY <1>2
    <3>2. Admission!Withdraw(m)
      BY <1>1, <2>2, <2>4, <3>1 DEF Admission!Withdraw, Rows
    <3>. QED BY <3>2 DEF Admission!AdmissionNext
  <2>. QED BY <2>3, <2>4
<1>. QED BY <1>1, <1>3, <1>4

LEMMA AcceptMaps ==
  ASSUME Inv, NEW q \in Calls, UseCode(q)
  PROVE  Admission!AdmissionNext
<1>. DEFINE i == logins[q].row
            p == logins[q].phone
<1>1. /\ logins[q].at = "matched"
      /\ codes' = [codes EXCEPT ![i].used = TRUE]
      /\ uses' = [uses EXCEPT ![i] = uses[i] + 1]
      /\ proved' = proved \cup {p}
      /\ UNCHANGED <<owner, tokens>>
  BY DEF UseCode, At, acctVars
<1>2. i \in CodeIds /\ codes[i].phone = p /\ p # None /\ ~codes[i].used
  <2>1. MaxCodes \in Nat /\ lastCode \in 0..MaxCodes
    BY SmsLoginAssumption DEF Inv, LoginTypeOK
  <2>. QED BY <1>1, <2>1 DEF Inv, AllFit, Fits, CodeIds
<1>. HIDE DEF i, p
<1>3. uses[i] = 0 /\ codes[i] \in SMSCode
  BY <1>2, NoneApart DEF Inv, CodeCounted, LoginTypeOK
<1>4. [j \in CodeIds |-> codes'[j].phone] = Rows
  <2>1. \A j \in CodeIds : codes'[j].phone = codes[j].phone
    BY <1>1, <1>2, <1>3 DEF Inv, LoginTypeOK, SMSCode
  <2>. QED BY <2>1 DEF Rows
<1>5. uses' = [uses EXCEPT ![i] = 1]
  BY <1>1, <1>3
<1>6. Admission!Accept(i)
  BY <1>1, <1>2, <1>3, <1>4, <1>5 DEF Admission!Accept, Rows
<1>. QED BY <1>2, <1>6 DEF Admission!AdmissionNext

(* A registration, by a first login or by the staff. *)
LEMMA EnrolMaps ==
  ASSUME Inv, NEW a \in Free, NEW p \in Phones, PhoneIsNew(p), owner' = [owner EXCEPT ![a] = p],
         UNCHANGED <<codes, uses, proved, tokens>>
  PROVE  Admission!AdmissionNext
<1>1. a \in Accts /\ owner[a] = None /\ \A b \in Accts : owner[b] # p
  BY DEF Free, PhoneIsNew, AccountsOf
<1>2. owner'[a] = p
  BY <1>1 DEF Inv, LoginTypeOK
<1>3. Admission!Enrol(a)
  BY <1>1, <1>2 DEF Admission!Enrol
<1>. QED BY <1>1, <1>3 DEF Admission!AdmissionNext

(* A token for an account whose phone was proved: its first, or one more.  *)
LEMMA EnterMaps ==
  ASSUME NEW a \in Accts, owner[a] \in proved, tokens' = tokens \cup {a},
         UNCHANGED <<codes, uses, proved, owner>>
  PROVE  Admission!AdmissionNext \/ UNCHANGED Admission!admissionVars
<1>1. CASE a \in tokens
  <2>1. tokens' = tokens
    BY <1>1
  <2>. QED BY <2>1, AdmissionStutters
<1>2. CASE a \notin tokens
  <2>1. Admission!Enter(a)
    BY <1>2 DEF Admission!Enter
  <2>. QED BY <2>1 DEF Admission!AdmissionNext
<1>. QED BY <1>1, <1>2

LEMMA LeaveMaps ==
  ASSUME NEW a \in Accts, TokenExpires(a)
  PROVE  Admission!AdmissionNext \/ UNCHANGED Admission!admissionVars
<1>1. tokens' = tokens \ {a} /\ UNCHANGED <<codes, uses, proved, owner>>
  BY DEF TokenExpires, codeVars
<1>2. CASE a \in tokens
  <2>1. Admission!Leave(a)
    BY <1>1, <1>2 DEF Admission!Leave
  <2>. QED BY <2>1 DEF Admission!AdmissionNext
<1>3. CASE a \notin tokens
  <2>1. tokens' = tokens
    BY <1>1, <1>3
  <2>. QED BY <1>1, <2>1, AdmissionStutters
<1>. QED BY <1>2, <1>3

LEMMA AgeMaps ==
  ASSUME Inv, NEW i \in CodeIds, Age(i)
  PROVE  UNCHANGED Admission!admissionVars
<1>1. /\ codes' = [codes EXCEPT ![i].recent = FALSE, ![i].live = codes[i].recent]
      /\ UNCHANGED <<uses, proved, owner, tokens>>
  BY DEF Age, acctVars
<1>2. codes[i] \in SMSCode
  BY DEF Age, NoCode, Inv, LoginTypeOK
<1>3. \A j \in CodeIds : codes'[j].phone = codes[j].phone
  BY <1>1, <1>2 DEF Inv, LoginTypeOK, SMSCode
<1>4. [j \in CodeIds |-> codes'[j].phone] = Rows
  BY <1>3 DEF Rows
<1>. QED BY <1>1, <1>4 DEF Admission!admissionVars, Rows

LEMMA RegisterMaps ==
  ASSUME Inv, NEW q \in Calls, Register(q)
  PROVE  Admission!AdmissionNext \/ UNCHANGED Admission!admissionVars
<1>. DEFINE p == logins[q].phone
<1>1. p \in Phones /\ UNCHANGED <<codes, uses, proved, tokens>>
  BY CallTyped DEF Inv, Login, Register, At, codeVars
<1>2. CASE PhoneIsNew(p)
  <2>1. PICK a \in Free : owner' = [owner EXCEPT ![a] = p]
    BY <1>2 DEF Register
  <2>. QED BY <1>1, <1>2, <2>1, EnrolMaps
<1>3. CASE ~PhoneIsNew(p)
  <2>1. owner' = owner
    BY <1>3 DEF Register
  <2>. QED BY <1>1, <2>1, AdmissionStutters
<1>. QED BY <1>2, <1>3

LEMMA IssueTokenMaps ==
  ASSUME Inv, NEW q \in Calls, IssueToken(q)
  PROVE  Admission!AdmissionNext \/ UNCHANGED Admission!admissionVars
<1>1. /\ logins[q].acct \in Accts /\ owner[logins[q].acct] \in proved
      /\ UNCHANGED <<codes, uses, proved, owner>>
      /\ tokens' = tokens \/ tokens' = tokens \cup {logins[q].acct}
  BY DEF IssueToken, At, Inv, AllFit, Fits, codeVars
<1>. DEFINE a == logins[q].acct
<1>. HIDE DEF a
<1>2. CASE tokens' = tokens
  BY <1>1, <1>2, AdmissionStutters
<1>3. CASE tokens' = tokens \cup {a}
  <2>1. a \in Accts /\ owner[a] \in proved /\ UNCHANGED <<codes, uses, proved, owner>>
    BY <1>1 DEF a
  <2>. QED BY <1>3, <2>1, EnterMaps
<1>. QED BY <1>1, <1>2, <1>3 DEF a

LEMMA CallMaps ==
  ASSUME Inv, NEW q \in Calls,
         \/ \E p \in Phones : Send(q, p) \/ \E d \in Digits : Verify(q, p, d)
         \/ \E d \in Digits : Insert(q, d)
         \/ Delivered(q) \/ ErrProviderFail(q)
         \/ FindCode(q) \/ UseCode(q) \/ ErrCodeMismatch(q) \/ RecordMismatch(q)
         \/ FindAccount(q) \/ Register(q) \/ IssueToken(q)
         \/ \E a \in Accts : requireActiveAccount(q, a)
         \/ distributorSetPassword(q)
  PROVE  Admission!AdmissionNext \/ UNCHANGED Admission!admissionVars
<1>1. CASE \/ \E p \in Phones : Send(q, p) \/ \E d \in Digits : Verify(q, p, d)
           \/ Delivered(q) \/ FindCode(q) \/ ErrCodeMismatch(q) \/ RecordMismatch(q)
           \/ FindAccount(q) \/ \E a \in Accts : requireActiveAccount(q, a)
  <2>1. UNCHANGED <<codeVars, acctVars>>
    BY <1>1 DEF Send, Verify, Delivered, FindCode, ErrCodeMismatch, RecordMismatch, FindAccount,
                requireActiveAccount
  <2>. QED BY <2>1, AdmissionStutters DEF codeVars, acctVars
<1>2. CASE distributorSetPassword(q)
  BY <1>2, AdmissionStutters DEF distributorSetPassword, codeVars
<1>. QED BY <1>1, <1>2, IssueMaps, WithdrawMaps, AcceptMaps, RegisterMaps, IssueTokenMaps

LEMMA AdmissionStep ==
  Inv /\ [LoginNext]_loginVars => [Admission!AdmissionNext]_(Admission!admissionVars)
<1>. SUFFICES ASSUME Inv, [LoginNext]_loginVars
              PROVE  Admission!AdmissionNext \/ UNCHANGED Admission!admissionVars
  OBVIOUS
<1>1. CASE UNCHANGED loginVars
  BY <1>1, AdmissionStutters DEF loginVars
<1>2. ASSUME NEW q \in Calls,
             \/ \E p \in Phones : Send(q, p) \/ \E d \in Digits : Verify(q, p, d)
             \/ \E d \in Digits : Insert(q, d)
             \/ Delivered(q) \/ ErrProviderFail(q)
             \/ FindCode(q) \/ UseCode(q) \/ ErrCodeMismatch(q) \/ RecordMismatch(q)
             \/ FindAccount(q) \/ Register(q) \/ IssueToken(q)
             \/ \E a \in Accts : requireActiveAccount(q, a)
             \/ distributorSetPassword(q)
      PROVE  Admission!AdmissionNext \/ UNCHANGED Admission!admissionVars
  BY <1>2, CallMaps
<1>3. CASE Restart \/ \E p \in Phones : VerifyEmpty(p) \/ LockRunsOut(p)
  <2>1. UNCHANGED <<codeVars, acctVars>>
    BY <1>3 DEF Restart, VerifyEmpty, LockRunsOut
  <2>. QED BY <2>1, AdmissionStutters DEF codeVars, acctVars
<1>4. ASSUME NEW a \in Accts, distributorPasswordLogin(a)
      PROVE  Admission!AdmissionNext \/ UNCHANGED Admission!admissionVars
  <2>1. owner[a] \in proved
    BY <1>4 DEF distributorPasswordLogin, HasPassword, Inv, Rights
  <2>. QED BY <1>4, <2>1, EnterMaps DEF distributorPasswordLogin, codeVars
<1>5. ASSUME NEW a \in Accts, adminBan(a) \/ adminUnban(a)
      PROVE  Admission!AdmissionNext \/ UNCHANGED Admission!admissionVars
  BY <1>5, AdmissionStutters DEF adminBan, adminUnban, codeVars
<1>6. ASSUME NEW a \in Accts, NEW p \in Phones, adminCreateAccount(a, p)
      PROVE  Admission!AdmissionNext \/ UNCHANGED Admission!admissionVars
  BY <1>6, EnrolMaps DEF adminCreateAccount, codeVars
<1>. QED BY <1>1, <1>2, <1>3, <1>4, <1>5, <1>6, LeaveMaps, AgeMaps DEF LoginNext

(* For every number of phones, codes, accounts and calls in flight, a      *)
(* login is an implementation of the admission: a code is accepted once    *)
(* and only proves the phone it was sent to, a phone has one account and   *)
(* keeps it, and whoever comes in holds the account of a proved phone      *)
(* (sms.go, app.go, creator.go, distributor.go).                           *)
THEOREM LoginImplementsAdmission == LoginSpec => ImplementsAdmission
<1>1. LoginInit => Admission!AdmissionInit
  BY NoneApart DEF LoginInit, Admission!AdmissionInit
<1>. QED BY <1>1, AdmissionStep, Invariance, PTL
         DEF LoginSpec, ImplementsAdmission, Admission!AdmissionSpec

-----------------------------------------------------------------------------
(* Distributors.                                                           *)

(* What a submission under way holds was handed in, and what it says of    *)
(* the provider is so.                                                     *)
UnderWaySound ==
    \A q \in Calls : submissions[q] # NoSubmission =>
        /\ submissions[q].data \in handedIn
        /\ submissions[q].method = "biz_4e" =>
               <<submissions[q].data.firm, submissions[q].data.legal>> \in RealFirms

FirmInv == FirmTypeOK /\ UnderWaySound /\ FirmSound

LEMMA FirmInvInit == FirmInit => FirmInv
<1> SUFFICES ASSUME FirmInit PROVE FirmInv
  OBVIOUS
<1>1. NoData \in Data
  BY DEF NoData, Data
<1>2. FirmTypeOK
  BY <1>1 DEF FirmInit, FirmTypeOK, DistributorStatuses
<1>. QED BY <1>2, DistributorVerificationAssumption
     DEF FirmInit, FirmInv, UnderWaySound, FirmSound, VerifiedWasSeen, FindingIsOfTheData

LEMMA SubmitsStep ==
    ASSUME FirmInv, NEW q \in Calls, NEW firm \in Firms, NEW legal \in LegalCards \cup {None},
           NEW account \in Accounts \cup {None},
           distributorUpdateEnterpriseVerification(q, firm, legal, account)
    PROVE  FirmInv'
<1> DEFINE data == [firm |-> firm, legal |-> OrStored(legal, distributor.data.legal),
                    account |-> OrStored(account, distributor.data.account)]
<1>1. Submits(q, data)
  BY DEF distributorUpdateEnterpriseVerification
<1>2. /\ data \in Data /\ data \in [firm: Firms, legal: LegalCards, account: Accounts]
  <2>1. distributor.data \in Data
    BY DEF FirmInv, FirmTypeOK
  <2>2. /\ distributor.data.legal \in LegalCards \cup {None}
        /\ distributor.data.account \in Accounts \cup {None}
    BY <2>1 DEF Data
  <2>3. data.legal # None /\ data.account # None
    BY <1>1 DEF Submits, Filled
  <2>. QED BY <2>2, <2>3 DEF Data, OrStored
<1>. HIDE DEF data
<1>3. PICK method \in VerifyBizLicense4(data) :
        submissions' = [submissions EXCEPT ![q] = [data |-> data, method |-> method]]
  BY <1>1 DEF Submits
<1>4. /\ method \in {"manual", "biz_4e"}
      /\ method = "biz_4e" => <<data.firm, data.legal>> \in RealFirms
  BY DEF VerifyBizLicense4
<1>5. handedIn' = handedIn \cup {data} /\ UNCHANGED <<distributor, seen>>
  BY <1>1 DEF Submits
<1> DEFINE new == [data |-> data, method |-> method]
<1>6. new \in Submission /\ new.data = data /\ new.method = method
  BY <1>2, <1>4 DEF Submission
<1>7. submissions' = [submissions EXCEPT ![q] = new]
  BY <1>3
<1>. HIDE DEF new
<1>8. FirmTypeOK'
  BY <1>2, <1>5, <1>6, <1>7 DEF FirmInv, FirmTypeOK
<1>9. UnderWaySound'
  <2>1. submissions \in [Calls -> Submission \cup {NoSubmission}]
    BY DEF FirmInv, FirmTypeOK
  <2>. QED BY <1>4, <1>5, <1>6, <1>7, <2>1 DEF FirmInv, UnderWaySound
<1>10. FirmSound'
  BY <1>5 DEF FirmInv, FirmSound, VerifiedWasSeen, FindingIsOfTheData
<1>. QED BY <1>8, <1>9, <1>10 DEF FirmInv

LEMMA WriteSubmissionStep ==
    ASSUME FirmInv, NEW q \in Calls, WriteSubmission(q)
    PROVE  FirmInv'
<1>1. submissions[q] \in Submission /\ submissions \in [Calls -> Submission \cup {NoSubmission}]
  BY DEF FirmInv, FirmTypeOK, WriteSubmission
<1>2. /\ distributor' = PendingRow(submissions[q]) /\ UNCHANGED <<seen, handedIn>>
      /\ submissions' = [submissions EXCEPT ![q] = NoSubmission]
  BY DEF WriteSubmission
<1>3. /\ distributor'.status = "pending" /\ distributor'.data = submissions[q].data
      /\ distributor'.method = submissions[q].method
  BY <1>2 DEF PendingRow
<1>4. FirmTypeOK'
  <2>1. submissions[q].data \in Data /\ submissions[q].method \in {None, "manual", "biz_4e"}
    BY <1>1 DEF Submission, Data
  <2>2. distributor' \in [status: DistributorStatuses, data: Data, method: {None, "manual", "biz_4e"}]
    BY <1>2, <2>1 DEF PendingRow, DistributorStatuses
  <2>. QED BY <1>1, <1>2, <2>2 DEF FirmInv, FirmTypeOK
<1>5. UnderWaySound'
  BY <1>1, <1>2 DEF FirmInv, UnderWaySound
<1>6. FirmSound'
  <2>1. submissions[q] # NoSubmission
    BY DEF WriteSubmission
  <2>. QED BY <1>2, <1>3, <2>1 DEF FirmInv, UnderWaySound, FirmSound, VerifiedWasSeen,
              FindingIsOfTheData
<1>. QED BY <1>4, <1>5, <1>6 DEF FirmInv

LEMMA FirmInvStep == FirmInv /\ [FirmNext]_firmVars => FirmInv'
<1> SUFFICES ASSUME FirmInv, [FirmNext]_firmVars PROVE FirmInv'
  OBVIOUS
<1>1. CASE \E q \in Calls, firm \in Firms, legal \in LegalCards \cup {None}, account \in Accounts \cup {None} :
             distributorUpdateEnterpriseVerification(q, firm, legal, account)
  BY <1>1, SubmitsStep
<1>2. CASE \E q \in Calls : WriteSubmission(q)
  BY <1>2, WriteSubmissionStep
<1>3. ASSUME NEW q \in Calls, LoseSubmission(q) PROVE FirmInv'
  BY <1>3 DEF LoseSubmission, FirmInv, FirmTypeOK, UnderWaySound, FirmSound, VerifiedWasSeen,
     FindingIsOfTheData
<1>4. CASE adminApproveDistributorVerification \/ adminRejectDistributorVerification
  <2> DEFINE s == IF adminApproveDistributorVerification THEN "verified" ELSE "rejected"
  <2>1. /\ distributor' = [distributor EXCEPT !.status = s]
        /\ distributor.status = "pending" /\ UNCHANGED <<submissions, handedIn>>
        /\ IF s = "verified" THEN seen' = distributor.data ELSE seen' = seen
    BY <1>4 DEF adminApproveDistributorVerification, adminRejectDistributorVerification
  <2>2. s \in DistributorStatuses
    BY DEF DistributorStatuses
  <2>. HIDE DEF s
  <2>3. /\ distributor' \in [status: DistributorStatuses, data: Data, method: {None, "manual", "biz_4e"}]
        /\ distributor'.status = s /\ distributor'.data = distributor.data /\ distributor'.method = distributor.method
        /\ distributor.data \in Data
    BY <2>1, <2>2 DEF FirmInv, FirmTypeOK
  <2>4. FirmTypeOK' /\ UnderWaySound'
    BY <2>1, <2>3 DEF FirmInv, FirmTypeOK, UnderWaySound
  <2>5. FirmSound'
    BY <2>1, <2>3 DEF FirmInv, FirmSound, VerifiedWasSeen, FindingIsOfTheData
  <2>. QED BY <2>4, <2>5 DEF FirmInv
<1>5. CASE UNCHANGED firmVars
  BY <1>5 DEF firmVars, FirmInv, FirmTypeOK, UnderWaySound, FirmSound, VerifiedWasSeen,
     FindingIsOfTheData
<1>. QED BY <1>1, <1>2, <1>3, <1>4, <1>5 DEF FirmNext

(* The row of a distributor and the submissions in flight stay well formed.*)
THEOREM FirmTypes == FirmSpec => []FirmTypeOK
<1>1. FirmInv => FirmTypeOK
  BY DEF FirmInv
<1>. QED BY <1>1, FirmInvInit, FirmInvStep, PTL DEF FirmSpec

(* However many submissions cross, and whenever the staff decide: nobody   *)
(* is verified for data the staff did not see, and what the provider is    *)
(* said to have found it found of the very data that are stored.           *)
THEOREM FirmsAreSound == FirmSpec => []FirmSound
<1>1. FirmInv => FirmSound
  BY DEF FirmInv
<1>. QED BY <1>1, FirmInvInit, FirmInvStep, PTL DEF FirmSpec

-----------------------------------------------------------------------------
(* The staff.                                                              *)

(* A call under way is about an account that there is, and does not take   *)
(* from its caller what it manages by.                                     *)
CallersKeep ==
    \A q \in Calls :
        /\ /\ adminCalls[q].at \in {"permissions", "replacing"}
           /\ adminCalls[q].by = adminCalls[q].of
           => adminCalls[q].set \cap {"account_manage", "super_admin"} # {}
        /\ adminCalls[q].at = "ban" => adminCalls[q].by # adminCalls[q].of
        /\ adminCalls[q].at \notin {"idle", "create"} => adminCalls[q].of \in admins

StaffInv == StaffTypeOK /\ CallersKeep /\ AManagerRemainsUnlessCrossed

LEMMA NoAdminCallRow ==
    /\ NoAdminCall.at = "idle" /\ NoAdminCall \notin AdminCall
    /\ \A c \in AdminCall : c.at \in Writes /\ c.by \in Admins /\ c.of \in Admins
                            /\ c.set \in SUBSET AllPermissions /\ c.found \in SUBSET AllPermissions
BY DEF NoAdminCall, AdminCall, Writes

LEMMA StaffInvInit == StaffInit => StaffInv
<1> SUFFICES ASSUME StaffInit PROVE StaffInv
  OBVIOUS
<1>1. First \in Admins
  BY AdminAccountsAssumption
<1>2. StaffTypeOK
  BY <1>1 DEF StaffInit, StaffTypeOK, Roles
<1>3. CallersKeep
  BY NoAdminCallRow DEF StaffInit, CallersKeep
<1>4. Manager(First)
  BY <1>1 DEF StaffInit, Manager, requireActiveAdmin, restrictRegionAdmin, adminIsRegionAdmin,
     MayManage,
              requirePermission, adminIsSuper
<1>. QED BY <1>1, <1>2, <1>3, <1>4 DEF StaffInv, AManagerRemainsUnlessCrossed, AManagerRemains

(* A call begins, or goes on, or ends without writing.                     *)
LEMMA CallMoves ==
    ASSUME StaffInv, NEW q \in Calls, NEW c \in AdminCall \cup {NoAdminCall},
           adminCalls' = [adminCalls EXCEPT ![q] = c],
           c.at \in {"permissions", "replacing"} /\ c.by = c.of
               => c.set \cap {"account_manage", "super_admin"} # {},
           c.at = "ban" => c.by # c.of, c.at \notin {"idle", "create"} => c.of \in admins,
           admins \subseteq admins'
    PROVE  CallersKeep' /\ adminCalls' \in [Calls -> AdminCall \cup {NoAdminCall}]
<1>1. adminCalls \in [Calls -> AdminCall \cup {NoAdminCall}]
  BY DEF StaffInv, StaffTypeOK
<1>2. adminCalls' \in [Calls -> AdminCall \cup {NoAdminCall}]
  BY <1>1
<1>3. \A r \in Calls : adminCalls'[r] = IF r = q THEN c ELSE adminCalls[r]
  BY <1>1
<1>. QED BY <1>2, <1>3 DEF StaffInv, CallersKeep

LEMMA NothingWritten ==
    ASSUME StaffInv, CallersKeep', adminCalls' \in [Calls -> AdminCall \cup {NoAdminCall}],
           UNCHANGED <<admins, role, status, permissions, crossed>>
    PROVE  StaffInv'
<1>1. StaffTypeOK'
  BY DEF StaffInv, StaffTypeOK
<1>2. AManagerRemainsUnlessCrossed'
  BY DEF StaffInv, AManagerRemainsUnlessCrossed, AManagerRemains, Manager, requireActiveAdmin,
         restrictRegionAdmin, adminIsRegionAdmin, MayManage, requirePermission, adminIsSuper
<1>. QED BY <1>1, <1>2 DEF StaffInv

(* A call that writes while its caller is entitled to leaves the caller    *)
(* entitled to.                                                            *)
LEMMA CallerStays ==
    ASSUME StaffInv, StaffTypeOK', NEW q \in Calls, Wrote(q), admins \subseteq admins',
           NEW a \in Admins, a = adminCalls[q].by, Manager(a) => Manager(a)'
    PROVE  StaffInv'
<1>1. CallersKeep'
  BY CallMoves, NoAdminCallRow DEF Wrote
<1>2. AManagerRemainsUnlessCrossed'
  <2>. SUFFICES ASSUME ~crossed' PROVE AManagerRemains'
    BY DEF AManagerRemainsUnlessCrossed
  <2>1. Manager(a)
    BY DEF Wrote
  <2>. QED BY <2>1 DEF AManagerRemains
<1>. QED BY <1>1, <1>2 DEF StaffInv

LEMMA StillManager ==
    ASSUME NEW a \in Admins, Manager(a), a \in admins', status'[a] = "active", role'[a] = role[a],
           permissions[a] \subseteq permissions'[a]
              \/ permissions'[a] \cap {"account_manage", "super_admin"} # {}
    PROVE  Manager(a)'
BY DEF Manager, requireActiveAdmin, restrictRegionAdmin, adminIsRegionAdmin, MayManage,
       requirePermission, adminIsSuper

(* A call that begins. *)
LEMMA ArrivesStep ==
    ASSUME StaffInv, NEW q \in Calls, NEW c \in AdminCall, Arrives(q, c), c.at # "replacing",
           c.at = "permissions" => KeepsOwn(c.by, c.of, c.set), c.at = "ban" => c.by # c.of,
           c.at # "create" => Exists(c.of)
    PROVE  StaffInv'
<1>1. adminCalls' = [adminCalls EXCEPT ![q] = c] /\ UNCHANGED <<admins, role, status, permissions, crossed>>
  BY DEF Arrives
<1>2. CallersKeep' /\ adminCalls' \in [Calls -> AdminCall \cup {NoAdminCall}]
  BY <1>1, CallMoves DEF KeepsOwn, Exists
<1>. QED BY <1>1, <1>2, NothingWritten

LEMMA CallRow ==
    ASSUME StaffInv, NEW q \in Calls, adminCalls[q].at # "idle"
    PROVE  /\ adminCalls[q] \in AdminCall /\ adminCalls[q].by \in Admins /\ adminCalls[q].of \in Admins
           /\ adminCalls[q].set \in SUBSET AllPermissions /\ adminCalls[q].found \in SUBSET AllPermissions
BY NoAdminCallRow DEF StaffInv, StaffTypeOK

LEMMA CreateStep ==
    ASSUME StaffInv, NEW q \in Calls, NEW b \in Admins, NEW r \in {"", "region_admin"}, Create(q, b, r)
    PROVE  StaffInv'
<1>1. PICK a \in Admins : a = adminCalls[q].by /\ adminCalls[q].set \in SUBSET AllPermissions
  BY CallRow DEF Create
<1>2. /\ admins' = admins \cup {b} /\ role' = [role EXCEPT ![b] = r]
      /\ permissions' = [permissions EXCEPT ![b] = adminCalls[q].set]
      /\ Wrote(q) /\ UNCHANGED status /\ b \notin admins
      /\ adminCalls' = [adminCalls EXCEPT ![q] = NoAdminCall] /\ crossed' \in BOOLEAN
  BY DEF Create, Wrote
<1>3. StaffTypeOK'
  <2>1. role' \in [Admins -> Roles] /\ permissions' \in [Admins -> SUBSET AllPermissions]
    BY <1>1, <1>2 DEF StaffInv, StaffTypeOK, Roles
  <2>2. adminCalls' \in [Calls -> AdminCall \cup {NoAdminCall}]
    BY <1>2 DEF StaffInv, StaffTypeOK
  <2>3. \A d \in Admins \ admins' : role'[d] = "" /\ status'[d] = "active" /\ permissions'[d] = {}
    BY <1>2 DEF StaffInv, StaffTypeOK
  <2>. QED BY <1>2, <2>1, <2>2, <2>3 DEF StaffInv, StaffTypeOK
<1>4. Manager(a) => Manager(a)'
  <2>. SUFFICES ASSUME Manager(a) PROVE Manager(a)'
    OBVIOUS
  <2>1. a \in admins /\ status[a] = "active" /\ a # b
    BY <1>2 DEF Manager, requireActiveAdmin
  <2>2. role'[a] = role[a] /\ permissions'[a] = permissions[a]
    BY <1>2, <2>1 DEF StaffInv, StaffTypeOK
  <2>. QED BY <1>2, <2>1, <2>2, StillManager
<1>. QED BY <1>1, <1>2, <1>3, <1>4, CallerStays

LEMMA InsertPermissionsStep ==
    ASSUME StaffInv, NEW q \in Calls, InsertPermissions(q)
    PROVE  StaffInv'
<1>1. PICK a \in Admins, b \in Admins, set \in SUBSET AllPermissions :
        a = adminCalls[q].by /\ b = adminCalls[q].of /\ set = adminCalls[q].set
  BY CallRow DEF InsertPermissions
<1>2. PICK left \in SUBSET AllPermissions : permissions' = [permissions EXCEPT ![b] = left \cup set]
  <2>1. permissions[b] \ adminCalls[q].found \in SUBSET AllPermissions
    BY DEF StaffInv, StaffTypeOK
  <2>. QED BY <1>1, <2>1 DEF InsertPermissions
<1>3. /\ Wrote(q) /\ UNCHANGED <<admins, role, status>> /\ adminCalls[q].at = "replacing"
      /\ adminCalls' = [adminCalls EXCEPT ![q] = NoAdminCall] /\ crossed' \in BOOLEAN
  BY DEF InsertPermissions, Wrote
<1>4. b \in admins
  BY <1>1, <1>3 DEF StaffInv, CallersKeep
<1>5. StaffTypeOK'
  <2>1. permissions' \in [Admins -> SUBSET AllPermissions]
    BY <1>2 DEF StaffInv, StaffTypeOK
  <2>2. adminCalls' \in [Calls -> AdminCall \cup {NoAdminCall}]
    BY <1>3 DEF StaffInv, StaffTypeOK
  <2>. QED BY <1>2, <1>3, <1>4, <2>1, <2>2 DEF StaffInv, StaffTypeOK
<1>6. Manager(a) => Manager(a)'
  <2>. SUFFICES ASSUME Manager(a) PROVE Manager(a)'
    OBVIOUS
  <2>1. a \in admins' /\ status'[a] = "active" /\ role'[a] = role[a]
    BY <1>3 DEF Manager, requireActiveAdmin
  <2>2. permissions[a] \subseteq permissions'[a]
           \/ permissions'[a] \cap {"account_manage", "super_admin"} # {}
    <3>1. CASE a = b
      <4>1. set \cap {"account_manage", "super_admin"} # {}
        BY <1>1, <1>3, <3>1 DEF StaffInv, CallersKeep
      <4>2. permissions'[a] = left \cup set
        BY <1>2, <3>1 DEF StaffInv, StaffTypeOK
      <4>. QED BY <4>1, <4>2
    <3>2. CASE a # b
      BY <1>2, <3>2 DEF StaffInv, StaffTypeOK
    <3>. QED BY <3>1, <3>2
  <2>. QED BY <2>1, <2>2, StillManager
<1>. QED BY <1>1, <1>3, <1>5, <1>6, CallerStays

LEMMA SetStatusStep ==
    ASSUME StaffInv, NEW q \in Calls, SetStatus(q)
    PROVE  StaffInv'
<1>1. PICK a \in Admins, b \in Admins : a = adminCalls[q].by /\ b = adminCalls[q].of
  BY CallRow DEF SetStatus
<1>2. /\ Wrote(q) /\ UNCHANGED <<admins, role, permissions>> /\ adminCalls[q].at \in {"ban", "unban"}
      /\ adminCalls' = [adminCalls EXCEPT ![q] = NoAdminCall] /\ crossed' \in BOOLEAN
      /\ status' = [status EXCEPT ![b] = IF adminCalls[q].at = "ban" THEN "banned" ELSE "active"]
  BY <1>1 DEF SetStatus, Wrote
<1>4. b \in admins
  BY <1>1, <1>2 DEF StaffInv, CallersKeep
<1>5. StaffTypeOK'
  <2>1. status' \in [Admins -> {"active", "banned"}]
    BY <1>2 DEF StaffInv, StaffTypeOK
  <2>2. adminCalls' \in [Calls -> AdminCall \cup {NoAdminCall}]
    BY <1>2 DEF StaffInv, StaffTypeOK
  <2>. QED BY <1>2, <1>4, <2>1, <2>2 DEF StaffInv, StaffTypeOK
<1>6. Manager(a) => Manager(a)'
  <2>. SUFFICES ASSUME Manager(a) PROVE Manager(a)'
    OBVIOUS
  <2>1. a \in admins' /\ status[a] = "active" /\ role'[a] = role[a] /\ permissions'[a] = permissions[a]
    BY <1>2 DEF Manager, requireActiveAdmin
  <2>2. adminCalls[q].at = "ban" => a # b
    BY <1>1 DEF StaffInv, CallersKeep
  <2>3. status'[a] = "active"
    BY <1>2, <2>1, <2>2 DEF StaffInv, StaffTypeOK
  <2>. QED BY <2>1, <2>3, StillManager
<1>. QED BY <1>1, <1>2, <1>5, <1>6, CallerStays

LEMMA StaffInvStep == StaffInv /\ [StaffNext]_staffVars => StaffInv'
<1> SUFFICES ASSUME StaffInv, [StaffNext]_staffVars PROVE StaffInv'
  OBVIOUS
<1>1. ASSUME NEW q \in Calls, NEW a \in Admins, NEW perms \in SUBSET AllPermissions,
             adminCreateAdminAccount(q, a, perms)
      PROVE  StaffInv'
  <2>1. PICK c : c = [NoAdminCall EXCEPT !.at = "create", !.by = a, !.of = a, !.set = perms]
    OBVIOUS
  <2>2. c \in AdminCall /\ c.at = "create"
    BY <2>1 DEF NoAdminCall, AdminCall, Writes
  <2>. QED BY <1>1, <2>1, <2>2, ArrivesStep DEF adminCreateAdminAccount
<1>2. ASSUME NEW q \in Calls, NEW a \in Admins, NEW b \in Admins, NEW perms \in SUBSET AllPermissions,
             adminSetAdminPermissions(q, a, b, perms)
      PROVE  StaffInv'
  <2>1. PICK c : c = [NoAdminCall EXCEPT !.at = "permissions", !.by = a, !.of = b, !.set = perms]
    OBVIOUS
  <2>2. c \in AdminCall /\ c.at = "permissions" /\ c.by = a /\ c.of = b /\ c.set = perms
    BY <2>1 DEF NoAdminCall, AdminCall, Writes
  <2>. QED BY <1>2, <2>1, <2>2, ArrivesStep DEF adminSetAdminPermissions
<1>3. ASSUME NEW q \in Calls, NEW a \in Admins, NEW b \in Admins,
             \/ adminUpdateAdminAccount(q, a, b) \/ adminBanAdminAccount(q, a, b)
             \/ adminUnbanAdminAccount(q, a, b)
      PROVE  StaffInv'
  <2>1. PICK c : c = [NoAdminCall EXCEPT !.at = "ban", !.by = a, !.of = b]
    OBVIOUS
  <2>2. PICK d : d = [NoAdminCall EXCEPT !.at = "unban", !.by = a, !.of = b]
    OBVIOUS
  <2>3. /\ c \in AdminCall /\ c.at = "ban" /\ c.by = a /\ c.of = b
        /\ d \in AdminCall /\ d.at = "unban" /\ d.by = a /\ d.of = b
    BY <2>1, <2>2 DEF NoAdminCall, AdminCall, Writes
  <2>4. CASE adminUpdateAdminAccount(q, a, b) \/ adminBanAdminAccount(q, a, b)
    BY <2>1, <2>3, <2>4, ArrivesStep DEF adminUpdateAdminAccount, adminBanAdminAccount, NotItself
  <2>5. CASE adminUnbanAdminAccount(q, a, b)
    BY <2>2, <2>3, <2>5, ArrivesStep DEF adminUnbanAdminAccount
  <2>. QED BY <1>3, <2>4, <2>5
<1>4. CASE \E q \in Calls, b \in Admins, r \in {"", "region_admin"} : Create(q, b, r)
  BY <1>4, CreateStep
<1>5. ASSUME NEW q \in Calls, DeletePermissions(q) PROVE StaffInv'
  <2> DEFINE found == permissions[adminCalls[q].of]
             c == [adminCalls[q] EXCEPT !.at = "replacing", !.found = found]
  <2>1. adminCalls[q] \in AdminCall /\ adminCalls[q].at = "permissions" /\ found \in SUBSET AllPermissions
    BY <1>5, CallRow DEF DeletePermissions, StaffInv, StaffTypeOK
  <2>2. adminCalls' = [adminCalls EXCEPT ![q] = c] /\ UNCHANGED <<admins, role, status, permissions, crossed>>
    BY <1>5 DEF DeletePermissions
  <2>. HIDE DEF found
  <2>3. /\ c \in AdminCall /\ c.at = "replacing" /\ c.by = adminCalls[q].by /\ c.of = adminCalls[q].of
        /\ c.set = adminCalls[q].set
    BY <2>1 DEF AdminCall, Writes
  <2>. HIDE DEF c
  <2>4. CallersKeep' /\ adminCalls' \in [Calls -> AdminCall \cup {NoAdminCall}]
    BY <2>1, <2>2, <2>3, CallMoves DEF StaffInv, CallersKeep
  <2>. QED BY <2>2, <2>4, NothingWritten
<1>6. CASE \E q \in Calls : InsertPermissions(q)
  BY <1>6, InsertPermissionsStep
<1>7. CASE \E q \in Calls : SetStatus(q)
  BY <1>7, SetStatusStep
<1>8. ASSUME NEW q \in Calls, Refused(q) PROVE StaffInv'
  BY <1>8, CallMoves, NoAdminCallRow, NothingWritten DEF Refused
<1>9. CASE UNCHANGED staffVars
  <2>1. CallersKeep' /\ adminCalls' \in [Calls -> AdminCall \cup {NoAdminCall}]
    BY <1>9 DEF staffVars, StaffInv, StaffTypeOK, CallersKeep
  <2>. QED BY <1>9, <2>1, NothingWritten DEF staffVars
<1>. QED BY <1>1, <1>2, <1>3, <1>4, <1>5, <1>6, <1>7, <1>8, <1>9 DEF StaffNext

(* The administrators' rows, their permissions and the calls in flight     *)
(* stay well formed.                                                       *)
THEOREM StaffTypes == StaffSpec => []StaffTypeOK
<1>1. StaffInv => StaffTypeOK
  BY DEF StaffInv
<1>. QED BY <1>1, StaffInvInit, StaffInvStep, PTL DEF StaffSpec

(* Somebody can manage the accounts, whoever bans whom and whoever         *)
(* replaces whose permissions, until a call writes whose caller was        *)
(* entitled to when the middlewares read and no longer is                  *)
(* (admin_accounts.go).                                                    *)
THEOREM SomebodyManages == StaffSpec => []AManagerRemainsUnlessCrossed
<1>1. StaffInv => AManagerRemainsUnlessCrossed
  BY DEF StaffInv
<1>. QED BY <1>1, StaffInvInit, StaffInvStep, PTL DEF StaffSpec

-----------------------------------------------------------------------------
(* Creators.                                                               *)

(* Some of the columns of a row. *)
PartOfRow(set) ==
    \E row \in Creator, given \in SUBSET Fields : set = [f \in given |-> row[f]]

PersonTypeInv ==
    /\ creator \in Creator /\ staff \in BOOLEAN /\ edited \subseteq Identity
    /\ DOMAIN subs = Calls
    /\ \A q \in Calls : subs[q] # NoSub =>
         /\ subs[q].kind \in {"submission", "change"} /\ subs[q].edited \subseteq Identity
         /\ subs[q].kind = "submission" => subs[q].set \in Creator
         /\ PartOfRow(subs[q].set)

LEMMA RowIsPart == ASSUME NEW row \in Creator PROVE PartOfRow(row) /\ DOMAIN row = Fields
<1>1. DOMAIN row = Fields
  BY DEF Creator, Fields
<1>2. row = [f \in Fields |-> row[f]]
  BY <1>1 DEF Creator
<1>. QED BY <1>1, <1>2 DEF PartOfRow

LEMMA RowFields ==
    ASSUME NEW row, row = [f \in Fields |-> row[f]],
           row["type"] \in Types, row["status"] \in CreatorStatuses, row["method"] \in Methods,
           row["name"] \in People \cup {None}, row["id"] \in Ids \cup {None},
           row["card"] \in Cards \cup {None}, row["org"] \in Orgs \cup {None}
    PROVE  row \in Creator
BY DEF Creator, Fields

LEMMA UpdatedIsRow ==
    ASSUME NEW row \in Creator, NEW set, PartOfRow(set)
    PROVE  Updated(row, set) \in Creator
<1>1. PICK other \in Creator, given \in SUBSET Fields : set = [f \in given |-> other[f]]
  BY DEF PartOfRow
<1>2. DOMAIN row = Fields /\ DOMAIN set = given
  BY <1>1, RowIsPart
<1>3. PICK new : new = Updated(row, set)
  OBVIOUS
<1>4. new = [f \in Fields |-> IF f \in given THEN other[f] ELSE row[f]]
  BY <1>1, <1>2, <1>3 DEF Updated
<1>5. new = [f \in Fields |-> new[f]]
  BY <1>4
<1>6. \A f \in Fields : new[f] \in {other[f], row[f]}
  BY <1>4
<1>7. /\ new["type"] \in Types /\ new["status"] \in CreatorStatuses /\ new["method"] \in Methods
      /\ new["name"] \in People \cup {None} /\ new["id"] \in Ids \cup {None}
      /\ new["card"] \in Cards \cup {None} /\ new["org"] \in Orgs \cup {None}
  BY <1>6 DEF Creator, Fields
<1>. QED BY <1>3, <1>5, <1>7, RowFields

LEMMA PersonTypeInit == PersonInit => PersonTypeInv
<1> SUFFICES ASSUME PersonInit PROVE PersonTypeInv
  OBVIOUS
<1>1. creator \in Creator
  BY DEF PersonInit, Creator, Types, CreatorStatuses, Methods
<1>2. DOMAIN subs = Calls /\ \A q \in Calls : subs[q] = NoSub
  BY DEF PersonInit
<1>. QED BY <1>1, <1>2 DEF PersonInit, PersonTypeInv

(* A call begins or ends; the row stays a row. *)
LEMMA TypesMove ==
    ASSUME PersonTypeInv, NEW q \in Calls, NEW sub, subs' = [subs EXCEPT ![q] = sub],
           sub # NoSub =>
             /\ sub.kind \in {"submission", "change"} /\ sub.edited \subseteq Identity
             /\ sub.kind = "submission" => sub.set \in Creator
             /\ PartOfRow(sub.set),
           creator' \in Creator, staff' \in BOOLEAN, edited' \subseteq Identity
    PROVE  PersonTypeInv'
<1>1. DOMAIN subs' = Calls /\ \A r \in Calls : subs'[r] = IF r = q THEN sub ELSE subs[r]
  BY DEF PersonTypeInv
<1>2. ASSUME NEW r \in Calls, subs'[r] # NoSub
      PROVE  /\ subs'[r].kind \in {"submission", "change"} /\ subs'[r].edited \subseteq Identity
             /\ subs'[r].kind = "submission" => subs'[r].set \in Creator
             /\ PartOfRow(subs'[r].set)
  <2>1. CASE r = q
    BY <1>1, <1>2, <2>1
  <2>2. CASE r # q
    BY <1>1, <1>2, <2>2 DEF PersonTypeInv
  <2>. QED BY <2>1, <2>2
<1>. QED BY <1>1, <1>2 DEF PersonTypeInv

LEMMA SubmissionTypes ==
    ASSUME PersonTypeInv, NEW q \in Calls, NEW set \in Creator, NEW e \in SUBSET Identity,
           Reads(q, [kind |-> "submission", set |-> set, edited |-> e])
    PROVE  PersonTypeInv'
<1>1. PICK sub : sub = [kind |-> "submission", set |-> set, edited |-> e]
  OBVIOUS
<1>2. sub.kind = "submission" /\ sub.set = set /\ sub.edited = e
  BY <1>1
<1>3. subs' = [subs EXCEPT ![q] = sub] /\ UNCHANGED <<creator, staff, edited>>
  BY <1>1 DEF Reads
<1>4. PartOfRow(set)
  BY RowIsPart
<1>5. creator' \in Creator /\ staff' \in BOOLEAN /\ edited' \subseteq Identity
  BY <1>3 DEF PersonTypeInv
<1>. QED BY <1>2, <1>3, <1>4, <1>5, TypesMove

LEMMA ChangeTypes ==
    ASSUME PersonTypeInv, NEW q \in Calls, NEW set, PartOfRow(set), Changes(q, set)
    PROVE  PersonTypeInv'
<1>1. PICK sub : sub = [kind |-> "change", set |-> set, edited |-> {}]
  OBVIOUS
<1>2. sub.kind = "change" /\ sub.set = set /\ sub.edited = {}
  BY <1>1
<1>3. subs' = [subs EXCEPT ![q] = sub] /\ UNCHANGED <<creator, staff, edited>>
  BY <1>1 DEF Changes, Reads
<1>5. creator' \in Creator /\ staff' \in BOOLEAN /\ edited' \subseteq Identity
  BY <1>3 DEF PersonTypeInv
<1>. QED BY <1>2, <1>3, <1>5, TypesMove

(* One column with a value of its own is part of a row. *)
LEMMA OneColumn ==
    ASSUME NEW row \in Creator, NEW f \in Fields, NEW set, set = [g \in {f} |-> row[g]]
    PROVE  PartOfRow(set)
BY DEF PartOfRow

LEMMA PersonTypeStep == PersonTypeInv /\ [PersonNext]_personVars => PersonTypeInv'
<1> SUFFICES ASSUME PersonTypeInv, [PersonNext]_personVars PROVE PersonTypeInv'
  OBVIOUS
<1>. /\ creator \in Creator /\ staff \in BOOLEAN /\ edited \subseteq Identity
  BY DEF PersonTypeInv
<1>a. /\ creator.type \in Types /\ creator.id \in Ids \cup {None}
      /\ creator.card \in Cards \cup {None}
  BY DEF Creator
<1>1. ASSUME NEW q \in Calls, NEW name \in People, NEW id \in Ids \cup {None},
             NEW card \in Cards \cup {None}, creatorUpdatePersonalVerification(q, name, id, card)
      PROVE  PersonTypeInv'
  <2>1. PICK method \in {"manual", "bankcard3"} :
          Reads(q, [kind |-> "submission", set |-> PersonRow(name, id, card, method),
                    edited |-> IF SamePerson(name, id, card) THEN edited \ {"type"} ELSE {}])
    BY <1>1 DEF creatorUpdatePersonalVerification, runBankCard3Verify
  <2>2. OrStored(id, creator.id) \in Ids \cup {None} /\ OrStored(card, creator.card) \in Cards \cup {None}
    BY <1>a DEF OrStored
  <2>3. PersonRow(name, id, card, method) \in Creator
    BY <2>2 DEF PersonRow, Creator, Types, CreatorStatuses, Methods, personalVerifyStatusFor
  <2>. QED BY <2>1, <2>3, SubmissionTypes
<1>2. ASSUME NEW q \in Calls, NEW org \in Orgs, NEW card \in Cards \cup {None},
             creatorUpdateEnterpriseVerification(q, org, card)
      PROVE  PersonTypeInv'
  <2>1. PICK method \in {"manual", "biz_4e"} :
          Reads(q, [kind |-> "submission", set |-> OrgRow(org, card, method), edited |-> {}])
    BY <1>2 DEF creatorUpdateEnterpriseVerification, runBizLicense4Verify
  <2>2. OrStored(card, creator.card) \in Cards \cup {None}
    BY <1>a DEF OrStored
  <2>3. OrgRow(org, card, method) \in Creator
    BY <2>2 DEF OrgRow, Creator, Types, CreatorStatuses, Methods
  <2>. QED BY <2>1, <2>3, SubmissionTypes
<1>3. ASSUME NEW q \in Calls, NEW card \in Cards, creatorChangeBankCard(q, card)
      PROVE  PersonTypeInv'
  <2>1. [creator EXCEPT !.card = card] \in Creator
    BY DEF Creator
  <2>2. [card |-> card] = [g \in {"card"} |-> [creator EXCEPT !.card = card][g]]
    BY DEF Creator
  <2>3. PartOfRow([card |-> card])
    BY <2>1, <2>2, OneColumn DEF Fields
  <2>. QED BY <1>3, <2>3, ChangeTypes DEF creatorChangeBankCard
<1>4. ASSUME NEW q \in Calls, NEW profile \in Profiles, creatorUpdateProfile(q, profile)
      PROVE  PersonTypeInv'
  <2>1. PICK row \in Creator, given \in SUBSET (Fields \ {"status", "method"}) :
          profile = [f \in given |-> row[f]]
    BY ProfilesAssumption
  <2>2. PartOfRow(profile)
    BY <2>1 DEF PartOfRow
  <2>3. PartOfRow(AsSubmission(profile))
    <3>1. PICK new : new = [row EXCEPT !.status = "pending"]
      OBVIOUS
    <3>2. new \in Creator
      BY <3>1 DEF Creator, CreatorStatuses
    <3>3. new["status"] = "pending" /\ \A f \in Fields \ {"status"} : new[f] = row[f]
      BY <3>1 DEF Creator, Fields
    <3>4. /\ DOMAIN profile = given /\ "status" \notin given
          /\ \A f \in given : profile[f] = new[f]
      BY <2>1, <3>3
    <3>5. AsSubmission(profile) = [f \in given \cup {"status"} |-> new[f]]
      BY <3>3, <3>4 DEF AsSubmission
    <3>6. given \cup {"status"} \in SUBSET Fields
      BY DEF Fields
    <3>. QED BY <3>2, <3>5, <3>6 DEF PartOfRow
  <2>4. CASE Changes(q, profile)
    BY <2>2, <2>4, ChangeTypes
  <2>5. CASE Changes(q, AsSubmission(profile))
    BY <2>3, <2>5, ChangeTypes
  <2>. QED BY <1>4, <2>4, <2>5 DEF creatorUpdateProfile
<1>5. ASSUME NEW q \in Calls, Write(q) PROVE PersonTypeInv'
  <2>1. PICK sub : sub = subs[q]
    OBVIOUS
  <2>2. /\ sub # NoSub /\ creator' = Updated(creator, sub.set)
        /\ staff' = (staff /\ "status" \notin DOMAIN sub.set)
        /\ edited' = IF sub.kind = "change" THEN EditedBy(sub.set) ELSE sub.edited
        /\ subs' = [subs EXCEPT ![q] = NoSub]
    BY <1>5, <2>1 DEF Write
  <2>3. PartOfRow(sub.set)
    BY <2>1, <2>2 DEF PersonTypeInv
  <2>4. creator' \in Creator
    BY <2>2, <2>3, UpdatedIsRow
  <2>5. staff' \in BOOLEAN /\ edited' \subseteq Identity
    BY <2>1, <2>2 DEF PersonTypeInv, EditedBy
  <2>. QED BY <2>2, <2>4, <2>5, TypesMove
<1>6. ASSUME NEW q \in Calls, GiveUp(q) PROVE PersonTypeInv'
  BY <1>6, TypesMove DEF GiveUp
<1>7. CASE adminApproveCreatorVerification \/ adminRejectCreatorVerification
  <2>1. PICK s \in {"verified", "rejected"} : creator' = [creator EXCEPT !.status = s]
    BY <1>7 DEF adminApproveCreatorVerification, adminRejectCreatorVerification
  <2>2. creator' \in Creator
    BY <2>1 DEF Creator, CreatorStatuses
  <2>3. UNCHANGED <<subs, edited>> /\ staff' \in BOOLEAN
    BY <1>7 DEF adminApproveCreatorVerification, adminRejectCreatorVerification
  <2>. QED BY <2>2, <2>3 DEF PersonTypeInv
<1>8. ASSUME NEW set \in AdminSets, adminUpdateCreator(set) PROVE PersonTypeInv'
  <2>1. PartOfRow(set)
    <3>1. CASE \E n \in People : set = [name |-> n]
      <4>1. PICK n \in People : set = [name |-> n]
        BY <3>1
      <4>2. /\ [creator EXCEPT !.name = n] \in Creator
            /\ set = [g \in {"name"} |-> [creator EXCEPT !.name = n][g]]
        BY <4>1 DEF Creator
      <4>. QED BY <4>2, OneColumn DEF Fields
    <3>2. CASE \E t \in Types : set = [type |-> t]
      <4>1. PICK t \in Types : set = [type |-> t]
        BY <3>2
      <4>2. /\ [creator EXCEPT !.type = t] \in Creator
            /\ set = [g \in {"type"} |-> [creator EXCEPT !.type = t][g]]
        BY <4>1 DEF Creator
      <4>. QED BY <4>2, OneColumn DEF Fields
    <3>3. CASE \E o \in Orgs : set = [org |-> o]
      <4>1. PICK o \in Orgs : set = [org |-> o]
        BY <3>3
      <4>2. /\ [creator EXCEPT !.org = o] \in Creator
            /\ set = [g \in {"org"} |-> [creator EXCEPT !.org = o][g]]
        BY <4>1 DEF Creator
      <4>. QED BY <4>2, OneColumn DEF Fields
    <3>4. CASE \E s \in CreatorStatuses : set = [status |-> s]
      <4>1. PICK s \in CreatorStatuses : set = [status |-> s]
        BY <3>4
      <4>2. /\ [creator EXCEPT !.status = s] \in Creator
            /\ set = [g \in {"status"} |-> [creator EXCEPT !.status = s][g]]
        BY <4>1 DEF Creator
      <4>. QED BY <4>2, OneColumn DEF Fields
    <3>. QED BY <3>1, <3>2, <3>3, <3>4 DEF AdminSets
  <2>2. /\ creator' = Updated(creator, set) /\ UNCHANGED subs
        /\ staff' \in BOOLEAN /\ edited' \subseteq Identity
    BY <1>8 DEF adminUpdateCreator, EditedBy
  <2>3. creator' \in Creator
    BY <2>1, <2>2, UpdatedIsRow
  <2>. QED BY <2>2, <2>3 DEF PersonTypeInv
<1>9. CASE UNCHANGED personVars
  BY <1>9 DEF PersonTypeInv, personVars, PartOfRow
<1>. QED BY <1>1, <1>2, <1>3, <1>4, <1>5, <1>6, <1>7, <1>8, <1>9 DEF PersonNext

(* The creator's row has its columns whatever is written on it, the parts  *)
(* of it that a profile names included, and a call under way holds nothing *)
(* else (creator_verification.go, creator.go).                             *)
THEOREM PersonTypes == PersonSpec => []PersonTypeOK
<1>1. ASSUME PersonTypeInv PROVE PersonTypeOK
  <2>1. ASSUME NEW q \in Calls
        PROVE  /\ subs[q].kind \in {None, "submission", "change"}
               /\ subs[q].kind = "submission" => subs[q].set \in Creator
               /\ DOMAIN subs[q].set \subseteq Fields
               /\ subs[q].edited \subseteq Identity
    <3>1. CASE subs[q] = NoSub
      BY <3>1, CreatorVerificationAssumption DEF NoSub
    <3>2. CASE subs[q] # NoSub
      <4>1. PartOfRow(subs[q].set)
        BY <1>1, <3>2 DEF PersonTypeInv
      <4>2. DOMAIN subs[q].set \subseteq Fields
        BY <4>1 DEF PartOfRow
      <4>. QED BY <1>1, <3>2, <4>2 DEF PersonTypeInv
    <3>. QED BY <3>1, <3>2
  <2>. QED BY <1>1, <2>1 DEF PersonTypeInv, PersonTypeOK
<1>. QED BY <1>1, PersonTypeInit, PersonTypeStep, PTL DEF PersonSpec

(* What was confirmed of a row in some fields is so of a row that agrees   *)
(* with it there.                                                          *)
LEMMA ConfirmedAgain ==
    ASSUME NEW row, NEW other, NEW F, NEW G \in SUBSET F, Confirmed(row, F),
           \A f \in G : other[f] = row[f]
    PROVE  Confirmed(other, G)
<1>1. "type" \in G => other.type = "personal"
  BY DEF Confirmed
<1>2. PICK person \in RealPeople :
        /\ "name" \in F => person[1] = row.name
        /\ "id" \in F => person[2] = row.id
        /\ "card" \in F => person[3] = row.card
  BY DEF Confirmed
<1>3. /\ "name" \in G => person[1] = other.name
      /\ "id" \in G => person[2] = other.id
      /\ "card" \in G => person[3] = other.card
  BY <1>2
<1>. QED BY <1>1, <1>2, <1>3 DEF Confirmed

(* A submission writes every column, and what it calls confirmed is so but *)
(* for what had been edited of what it reuses.  A change writes no verdict *)
(* of anybody.                                                             *)
Honest(sub) ==
    /\ sub.kind \in {"submission", "change"}
    /\ sub.kind = "submission" =>
         /\ Fields \subseteq DOMAIN sub.set
         /\ sub.set.status = "verified" => sub.set.method = "bankcard3"
         /\ sub.set.method = "bankcard3" => Confirmed(sub.set, Identity \ sub.edited)
    /\ sub.kind = "change" =>
         /\ "method" \notin DOMAIN sub.set
         /\ "status" \in DOMAIN sub.set => sub.set.status # "verified"

(* A row says "bankcard3" of what the provider confirmed, but for what was *)
(* edited since; nobody but the provider and the staff verifies.           *)
EarnedInv ==
    /\ Fields \subseteq DOMAIN creator
    /\ creator.method = "bankcard3" => Confirmed(creator, Identity \ edited)
    /\ creator.status = "verified" => staff \/ creator.method = "bankcard3"
    /\ DOMAIN subs = Calls
    /\ \A q \in Calls : subs[q] # NoSub => Honest(subs[q])

LEMMA EarnedInvInit == PersonInit => EarnedInv
<1> SUFFICES ASSUME PersonInit PROVE EarnedInv
  OBVIOUS
<1>1. /\ DOMAIN creator = Fields /\ creator.status = "unverified" /\ creator.method = None
  BY DEF PersonInit, Fields
<1>2. creator.method # "bankcard3"
  BY <1>1, CreatorVerificationAssumption
<1>3. DOMAIN subs = Calls /\ \A q \in Calls : subs[q] = NoSub
  BY DEF PersonInit
<1>. QED BY <1>1, <1>2, <1>3 DEF EarnedInv

(* What a call that begins or ends must see to. *)
LEMMA SubMoves ==
    ASSUME EarnedInv, NEW q \in Calls, NEW sub, subs' = [subs EXCEPT ![q] = sub],
           sub # NoSub => Honest(sub),
           Fields \subseteq DOMAIN creator',
           creator'.method = "bankcard3" => Confirmed(creator', Identity \ edited'),
           creator'.status = "verified" => staff' \/ creator'.method = "bankcard3"
    PROVE  EarnedInv'
<1>1. DOMAIN subs' = Calls /\ \A r \in Calls : subs'[r] = IF r = q THEN sub ELSE subs[r]
  BY DEF EarnedInv
<1>2. ASSUME NEW r \in Calls, subs'[r] # NoSub PROVE Honest(subs'[r])
  <2>1. CASE r = q
    BY <1>1, <1>2, <2>1
  <2>2. CASE r # q
    BY <1>1, <1>2, <2>2 DEF EarnedInv
  <2>. QED BY <2>1, <2>2
<1>3. \A r \in Calls : (subs[r] # NoSub)' => Honest(subs[r])'
  BY <1>2 DEF Honest, Confirmed
<1>4. creator'.method = "bankcard3" => Confirmed(creator, Identity \ edited)'
  BY DEF Confirmed
<1>. QED BY <1>1, <1>3, <1>4 DEF EarnedInv

LEMMA SubReads ==
    ASSUME EarnedInv, NEW q \in Calls, NEW sub, Reads(q, sub), Honest(sub)
    PROVE  EarnedInv'
<1>1. subs' = [subs EXCEPT ![q] = sub] /\ UNCHANGED <<creator, staff, edited>>
  BY DEF Reads
<1>2. /\ Fields \subseteq DOMAIN creator'
      /\ creator'.method = "bankcard3" => Confirmed(creator', Identity \ edited')
      /\ creator'.status = "verified" => staff' \/ creator'.method = "bankcard3"
  BY <1>1 DEF EarnedInv
<1>. QED BY <1>1, <1>2, SubMoves

LEMMA PersonalSubmission ==
    ASSUME EarnedInv, NEW q \in Calls, NEW name \in People, NEW id \in Ids \cup {None},
           NEW card \in Cards \cup {None}, creatorUpdatePersonalVerification(q, name, id, card)
    PROVE  EarnedInv'
<1> DEFINE theId == OrStored(id, creator.id)
           theCard == OrStored(card, creator.card)
           reused == SamePerson(name, id, card)
           old == IF reused THEN edited \ {"type"} ELSE {}
<1>1. PICK method \in IF reused THEN {"bankcard3"} ELSE runBankCard3Verify(name, theId, theCard) :
        Reads(q, [kind |-> "submission", set |-> PersonRow(name, id, card, method), edited |-> old])
  BY DEF creatorUpdatePersonalVerification
<1>2. PICK set : set = PersonRow(name, id, card, method)
  OBVIOUS
<1>3. /\ DOMAIN set = Fields /\ set.type = "personal" /\ set.name = name /\ set.id = theId
      /\ set.card = theCard /\ set.method = method /\ set.status = personalVerifyStatusFor(method)
  BY <1>2 DEF PersonRow, Fields
<1>4. set.status = "verified" => set.method = "bankcard3"
  BY <1>3 DEF personalVerifyStatusFor
<1>5. ASSUME method = "bankcard3" PROVE Confirmed(set, Identity \ old)
  <2>1. CASE reused
    <3>1. theId = creator.id /\ theCard = creator.card /\ name = creator.name
      BY <2>1 DEF SamePerson, OrStored
    <3>2. Confirmed(creator, Identity \ edited)
      BY <2>1 DEF SamePerson, EarnedInv
    <3>3. PICK person \in RealPeople :
            /\ "name" \in Identity \ edited => person[1] = creator.name
            /\ "id" \in Identity \ edited => person[2] = creator.id
            /\ "card" \in Identity \ edited => person[3] = creator.card
      BY <3>2 DEF Confirmed
    <3>4. /\ "name" \in Identity \ old => person[1] = set.name
          /\ "id" \in Identity \ old => person[2] = set.id
          /\ "card" \in Identity \ old => person[3] = set.card
      BY <1>3, <2>1, <3>1, <3>3
    <3>. QED BY <1>3, <3>4 DEF Confirmed
  <2>2. CASE ~reused
    <3>1. <<name, theId, theCard>> \in RealPeople
      BY <1>5, <2>2 DEF runBankCard3Verify
    <3>2. PICK person \in RealPeople : person = <<name, theId, theCard>>
      BY <3>1
    <3>3. person[1] = set.name /\ person[2] = set.id /\ person[3] = set.card
      BY <1>3, <3>2
    <3>. QED BY <1>3, <3>3 DEF Confirmed
  <2>. QED BY <2>1, <2>2
<1>6. PICK sub : sub = [kind |-> "submission", set |-> set, edited |-> old]
  OBVIOUS
<1>7. sub.kind = "submission" /\ sub.set = set /\ sub.edited = old
  BY <1>6
<1>8. Reads(q, sub)
  BY <1>1, <1>2, <1>6
<1>. HIDE DEF old
<1>9. Honest(sub)
  BY <1>3, <1>4, <1>5, <1>7 DEF Honest
<1>. QED BY <1>8, <1>9, SubReads

LEMMA OrgSubmission ==
    ASSUME EarnedInv, NEW q \in Calls, NEW org \in Orgs, NEW card \in Cards \cup {None},
           creatorUpdateEnterpriseVerification(q, org, card)
    PROVE  EarnedInv'
<1>1. PICK method \in {"manual", "biz_4e"} :
        Reads(q, [kind |-> "submission", set |-> OrgRow(org, card, method), edited |-> {}])
  BY DEF creatorUpdateEnterpriseVerification, runBizLicense4Verify
<1>2. PICK set : set = OrgRow(org, card, method)
  OBVIOUS
<1>3. DOMAIN set = Fields /\ set.status = "pending" /\ set.method = method
  BY <1>2 DEF OrgRow, Fields
<1>4. PICK sub : sub = [kind |-> "submission", set |-> set, edited |-> {}]
  OBVIOUS
<1>5. Reads(q, sub) /\ sub.kind = "submission" /\ sub.set = set
  BY <1>1, <1>2, <1>4
<1>6. Honest(sub)
  BY <1>3, <1>5 DEF Honest
<1>. QED BY <1>5, <1>6, SubReads

LEMMA ChangeStep ==
    ASSUME EarnedInv, NEW q \in Calls, NEW set, Changes(q, set), "method" \notin DOMAIN set,
           "status" \in DOMAIN set => set.status # "verified"
    PROVE  EarnedInv'
<1>1. PICK sub : sub = [kind |-> "change", set |-> set, edited |-> {}]
  OBVIOUS
<1>2. Reads(q, sub) /\ sub.kind = "change" /\ sub.set = set
  BY <1>1 DEF Changes
<1>3. Honest(sub)
  BY <1>2 DEF Honest
<1>. QED BY <1>2, <1>3, SubReads

LEMMA ProfileStep ==
    ASSUME EarnedInv, NEW q \in Calls, NEW profile \in Profiles, creatorUpdateProfile(q, profile)
    PROVE  EarnedInv'
<1>1. PICK row \in Creator, given \in SUBSET (Fields \ {"status", "method"}) :
        profile = [f \in given |-> row[f]]
  BY ProfilesAssumption
<1>2. "status" \notin DOMAIN profile /\ "method" \notin DOMAIN profile
  BY <1>1
<1>3. /\ DOMAIN AsSubmission(profile) = DOMAIN profile \cup {"status"}
      /\ AsSubmission(profile).status = "pending"
  BY DEF AsSubmission
<1>4. CASE Changes(q, profile)
  BY <1>2, <1>4, ChangeStep
<1>5. CASE Changes(q, AsSubmission(profile))
  BY <1>2, <1>3, <1>5, ChangeStep
<1>. QED BY <1>4, <1>5 DEF creatorUpdateProfile

(* What is written besides the verification counts as an edit, so that     *)
(* what was confirmed is still there in the other fields.                  *)
LEMMA EditKeeps ==
    ASSUME EarnedInv, NEW set, "method" \notin DOMAIN set,
           creator' = Updated(creator, set), edited' = EditedBy(set)
    PROVE  /\ Fields \subseteq DOMAIN creator'
           /\ \A f \in Fields : creator'[f] = IF f \in DOMAIN set THEN set[f] ELSE creator[f]
           /\ creator'.method = creator.method
           /\ creator'.method = "bankcard3" => Confirmed(creator', Identity \ edited')
<1>1. /\ Fields \subseteq DOMAIN creator'
      /\ \A f \in Fields : creator'[f] = IF f \in DOMAIN set THEN set[f] ELSE creator[f]
  BY DEF Updated, EarnedInv
<1>2. creator'.method = creator.method
  BY <1>1 DEF Fields
<1>3. ASSUME creator.method = "bankcard3" PROVE Confirmed(creator', Identity \ edited')
  <2>1. edited' = edited \cup (DOMAIN set \cap Identity)
    BY <1>3 DEF EditedBy
  <2>2. Confirmed(creator, Identity \ edited)
    BY <1>3 DEF EarnedInv
  <2>3. \A f \in Identity \ edited' : creator'[f] = creator[f]
    BY <1>1, <2>1 DEF Identity, Fields
  <2>4. Identity \ edited' \in SUBSET (Identity \ edited)
    BY <2>1
  <2>. QED BY <2>2, <2>3, <2>4, ConfirmedAgain
<1>. QED BY <1>1, <1>2, <1>3

LEMMA WriteStep ==
    ASSUME EarnedInv, NEW q \in Calls, Write(q)
    PROVE  EarnedInv'
<1>1. PICK sub : sub = subs[q]
  OBVIOUS
<1>2. /\ sub # NoSub /\ creator' = Updated(creator, sub.set)
      /\ staff' = (staff /\ "status" \notin DOMAIN sub.set)
      /\ edited' = IF sub.kind = "change" THEN EditedBy(sub.set) ELSE sub.edited
      /\ subs' = [subs EXCEPT ![q] = NoSub]
  BY <1>1 DEF Write
<1>3. Honest(sub)
  BY <1>1, <1>2 DEF EarnedInv
<1>4. CASE sub.kind = "submission"
  <2>1. edited' = sub.edited
    BY <1>2, <1>4
  <2>2. Fields \subseteq DOMAIN creator' /\ \A f \in Fields : creator'[f] = sub.set[f]
    BY <1>2, <1>3, <1>4 DEF Honest, Updated, EarnedInv
  <2>3. creator'.status = sub.set.status /\ creator'.method = sub.set.method
    BY <2>2 DEF Fields
  <2>4. ASSUME creator'.method = "bankcard3" PROVE Confirmed(creator', Identity \ edited')
    <3>1. Confirmed(sub.set, Identity \ edited')
      BY <1>3, <1>4, <2>1, <2>3, <2>4 DEF Honest
    <3>2. \A f \in Identity \ edited' : creator'[f] = sub.set[f]
      BY <2>2 DEF Identity, Fields
    <3>. QED BY <3>1, <3>2, ConfirmedAgain
  <2>5. creator'.status = "verified" => creator'.method = "bankcard3"
    BY <1>3, <1>4, <2>3 DEF Honest
  <2>. QED BY <1>2, <2>2, <2>4, <2>5, SubMoves
<1>5. CASE sub.kind = "change"
  <2>1. "method" \notin DOMAIN sub.set
    BY <1>3, <1>5 DEF Honest
  <2>2. /\ Fields \subseteq DOMAIN creator'
        /\ \A f \in Fields : creator'[f] = IF f \in DOMAIN sub.set THEN sub.set[f] ELSE creator[f]
        /\ creator'.method = creator.method
        /\ creator'.method = "bankcard3" => Confirmed(creator', Identity \ edited')
    BY <1>2, <1>5, <2>1, EditKeeps
  <2>3. creator'.status = "verified" => staff' \/ creator'.method = "bankcard3"
    <3>. SUFFICES ASSUME creator'.status = "verified", ~(creator'.method = "bankcard3") PROVE staff'
      OBVIOUS
    <3>1. "status" \in Fields
      BY DEF Fields
    <3>2. "status" \notin DOMAIN sub.set
      BY <1>3, <1>5, <2>2, <3>1 DEF Honest
    <3>3. creator.status = "verified"
      BY <2>2, <3>1, <3>2
    <3>. QED BY <1>2, <2>2, <3>2, <3>3 DEF EarnedInv
  <2>. QED BY <1>2, <2>2, <2>3, SubMoves
<1>. QED BY <1>3, <1>4, <1>5 DEF Honest

(* The row changes under the staff's hands, and no call moves. *)
LEMMA StaffWrites ==
    ASSUME EarnedInv, UNCHANGED subs, Fields \subseteq DOMAIN creator',
           creator'.method = "bankcard3" => Confirmed(creator', Identity \ edited'),
           creator'.status = "verified" => staff' \/ creator'.method = "bankcard3"
    PROVE  EarnedInv'
<1>1. \A q \in Calls : (subs[q] # NoSub)' => Honest(subs[q])'
  BY DEF EarnedInv, Honest, Confirmed
<1>2. creator'.method = "bankcard3" => Confirmed(creator, Identity \ edited)'
  BY DEF Confirmed
<1>. QED BY <1>1, <1>2 DEF EarnedInv

LEMMA EarnedInvStep == EarnedInv /\ [PersonNext]_personVars => EarnedInv'
<1> SUFFICES ASSUME EarnedInv, [PersonNext]_personVars PROVE EarnedInv'
  OBVIOUS
<1>1. CASE \E q \in Calls, name \in People, id \in Ids \cup {None}, card \in Cards \cup {None} :
               creatorUpdatePersonalVerification(q, name, id, card)
  BY <1>1, PersonalSubmission
<1>2. CASE \E q \in Calls, org \in Orgs, card \in Cards \cup {None} :
               creatorUpdateEnterpriseVerification(q, org, card)
  BY <1>2, OrgSubmission
<1>3. ASSUME NEW q \in Calls, NEW card \in Cards, creatorChangeBankCard(q, card) PROVE EarnedInv'
  <2>1. DOMAIN [card |-> card] = {"card"}
    OBVIOUS
  <2>. QED BY <1>3, <2>1, ChangeStep DEF creatorChangeBankCard
<1>4. CASE \E q \in Calls, profile \in Profiles : creatorUpdateProfile(q, profile)
  BY <1>4, ProfileStep
<1>5. CASE \E q \in Calls : Write(q)
  BY <1>5, WriteStep
<1>6. CASE \E q \in Calls : GiveUp(q)
  <2>1. PICK q \in Calls : subs' = [subs EXCEPT ![q] = NoSub] /\ UNCHANGED <<creator, staff, edited>>
    BY <1>6 DEF GiveUp
  <2>2. /\ Fields \subseteq DOMAIN creator'
        /\ creator'.method = "bankcard3" => Confirmed(creator', Identity \ edited')
        /\ creator'.status = "verified" => staff' \/ creator'.method = "bankcard3"
    BY <2>1 DEF EarnedInv
  <2>. QED BY <2>1, <2>2, SubMoves
<1>7. CASE adminApproveCreatorVerification \/ adminRejectCreatorVerification
  <2>1. PICK s \in {"verified", "rejected"} :
          creator' = [creator EXCEPT !.status = s] /\ (s = "verified" => staff')
    BY <1>7 DEF adminApproveCreatorVerification, adminRejectCreatorVerification
  <2>2. DOMAIN creator' = DOMAIN creator /\ \A f \in Fields \ {"status"} : creator'[f] = creator[f]
    BY <2>1 DEF EarnedInv
  <2>3. creator'.status = s /\ creator'.method = creator.method
    BY <2>1, <2>2 DEF EarnedInv, Fields
  <2>4. UNCHANGED <<subs, edited>>
    BY <1>7 DEF adminApproveCreatorVerification, adminRejectCreatorVerification
  <2>5. \A f \in Identity \ edited : creator'[f] = creator[f]
    BY <2>2 DEF Identity, Fields
  <2>6. creator'.method = "bankcard3" => Confirmed(creator', Identity \ edited')
    BY <2>3, <2>4, <2>5, ConfirmedAgain DEF EarnedInv
  <2>. QED BY <2>1, <2>2, <2>3, <2>4, <2>6, StaffWrites DEF EarnedInv
<1>8. ASSUME NEW set \in AdminSets, adminUpdateCreator(set) PROVE EarnedInv'
  <2>1. /\ creator' = Updated(creator, set) /\ UNCHANGED subs /\ edited' = EditedBy(set)
        /\ staff' = IF "status" \in DOMAIN set THEN set.status = "verified" ELSE staff
    BY <1>8 DEF adminUpdateCreator
  <2>2. DOMAIN set \in {{"name"}, {"type"}, {"org"}, {"status"}}
    BY DEF AdminSets
  <2>3. /\ Fields \subseteq DOMAIN creator'
        /\ \A f \in Fields : creator'[f] = IF f \in DOMAIN set THEN set[f] ELSE creator[f]
        /\ creator'.method = creator.method
        /\ creator'.method = "bankcard3" => Confirmed(creator', Identity \ edited')
    BY <2>1, <2>2, EditKeeps
  <2>4. "status" \in Fields
    BY DEF Fields
  <2>5. CASE "status" \in DOMAIN set
    <3>1. creator'.status = set.status
      BY <2>3, <2>4, <2>5
    <3>2. creator'.status = "verified" => staff'
      BY <2>1, <2>5, <3>1
    <3>. QED BY <2>1, <2>3, <3>2, StaffWrites
  <2>6. CASE "status" \notin DOMAIN set
    <3>1. creator'.status = creator.status
      BY <2>3, <2>4, <2>6
    <3>2. staff' = staff
      BY <2>1, <2>6
    <3>3. creator'.status = "verified" => staff' \/ creator'.method = "bankcard3"
      BY <2>3, <3>1, <3>2 DEF EarnedInv
    <3>. QED BY <2>1, <2>3, <3>3, StaffWrites
  <2>. QED BY <2>5, <2>6
<1>9. CASE UNCHANGED personVars
  <2>1. UNCHANGED <<creator, subs, staff, edited>>
    BY <1>9 DEF personVars
  <2>2. /\ Fields \subseteq DOMAIN creator'
        /\ creator'.method = "bankcard3" => Confirmed(creator', Identity \ edited')
        /\ creator'.status = "verified" => staff' \/ creator'.method = "bankcard3"
    BY <2>1 DEF EarnedInv
  <2>. QED BY <2>1, <2>2, StaffWrites
<1>. QED BY <1>1, <1>2, <1>3, <1>4, <1>5, <1>6, <1>7, <1>8, <1>9 DEF PersonNext

(* For any number of calls that cross, late answers and decisions of the   *)
(* staff included, no creator is verified whom neither the staff verified  *)
(* nor the provider confirmed: the type, name, identity card and bank card *)
(* that are stored, of one person.  Exempt are the very fields that a      *)
(* change of profile, of bank card or by the staff has written since, and  *)
(* no other one (creator_verification.go, creator.go).                     *)
THEOREM VerificationIsEarned == PersonSpec => []VerifiedIsEarned
<1>1. EarnedInv => VerifiedIsEarned
  BY DEF EarnedInv, VerifiedIsEarned
<1>. QED BY <1>1, EarnedInvInit, EarnedInvStep, PTL DEF PersonSpec

-----------------------------------------------------------------------------
(* Guesses.                                                                *)

(* Calls whose wrong guess is not yet recorded, and calls past the check   *)
(* of the lock that have not yet compared.                                 *)
Missed(p) == {q \in Calls : logins[q].at = "mismatch" /\ logins[q].phone = p}
Comparing(p) == {q \in Calls : logins[q].at = "checked" /\ logins[q].phone = p}

(* While a phone is not locked, every guess was recorded or will be; once  *)
(* it is, only those past the check can still guess.                       *)
Counted(p) ==
    IF locked[p]
    THEN tries[p] + Cardinality(Comparing(p)) <= SMSMaxVerifyAttempts - 1 + Cardinality(Calls)
    ELSE tries[p] <= failures[p] + Cardinality(Missed(p))

GuessesCounted == \A p \in Phones : Counted(p)

(* The two are apart, and there are no more of them than calls. *)
LEMMA CallSets ==
    ASSUME NEW p
    PROVE  /\ IsFiniteSet(Missed(p)) /\ IsFiniteSet(Comparing(p))
           /\ Cardinality(Missed(p)) \in Nat /\ Cardinality(Comparing(p)) \in Nat
           /\ Cardinality(Calls) \in Nat
           /\ Cardinality(Missed(p)) + Cardinality(Comparing(p)) <= Cardinality(Calls)
<1>1. IsFiniteSet(Calls) /\ Cardinality(Calls) \in Nat
  BY SmsLoginAssumption, FS_CardinalityType
<1>2. Missed(p) \subseteq Calls /\ Comparing(p) \subseteq Calls
  BY DEF Missed, Comparing
<1>3. IsFiniteSet(Missed(p)) /\ IsFiniteSet(Comparing(p))
  BY <1>1, <1>2, FS_Subset
<1>4. Missed(p) \cap Comparing(p) = {}
  BY DEF Missed, Comparing
<1>5. Cardinality(Missed(p) \cup Comparing(p))
        = Cardinality(Missed(p)) + Cardinality(Comparing(p)) - Cardinality(Missed(p) \cap Comparing(p))
  BY <1>3, FS_Union
<1>6. Cardinality(Missed(p) \cup Comparing(p)) <= Cardinality(Calls)
  BY <1>1, <1>2, FS_Subset
<1>7. Cardinality(Missed(p) \cap Comparing(p)) = 0
  BY <1>4, FS_EmptySet
<1>8. Cardinality(Missed(p)) \in Nat /\ Cardinality(Comparing(p)) \in Nat
  BY <1>3, FS_CardinalityType
<1>. QED BY <1>1, <1>3, <1>5, <1>6, <1>7, <1>8

(* The same of the next state. *)
LEMMA CallSetsNext ==
    ASSUME NEW p
    PROVE  /\ IsFiniteSet(Missed(p)') /\ IsFiniteSet(Comparing(p)')
           /\ Cardinality(Missed(p)') \in Nat /\ Cardinality(Comparing(p)') \in Nat
<1>1. IsFiniteSet(Calls)
  BY SmsLoginAssumption
<1>2. Missed(p)' \subseteq Calls /\ Comparing(p)' \subseteq Calls
  BY DEF Missed, Comparing
<1>3. IsFiniteSet(Missed(p)') /\ IsFiniteSet(Comparing(p)')
  BY <1>1, <1>2, FS_Subset
<1>. QED BY <1>3, FS_CardinalityType

LEMMA CounterTypes ==
    ASSUME LoginTypeOK, NEW p \in Phones
    PROVE  /\ tries[p] \in Nat /\ failures[p] \in Nat /\ failures[p] <= SMSMaxVerifyAttempts - 1
           /\ SMSMaxVerifyAttempts \in Nat /\ locked[p] \in BOOLEAN
BY SmsLoginAssumption DEF LoginTypeOK

(* Nothing is recorded for a phone. *)
LEMMA StillCounted ==
    ASSUME LoginTypeOK, NEW p \in Phones, Counted(p),
           failures'[p] = failures[p], locked'[p] = locked[p], tries'[p] = tries[p],
           ~locked[p] => Missed(p) \subseteq Missed(p)',
           locked[p] => Comparing(p)' \subseteq Comparing(p)
    PROVE  Counted(p)'
<1>1. PICK m, c, n, k, all :
        /\ m = Cardinality(Missed(p)) /\ c = Cardinality(Comparing(p)) /\ all = Cardinality(Calls)
        /\ n = Cardinality(Missed(p)') /\ k = Cardinality(Comparing(p)')
  OBVIOUS
<1>2. m \in Nat /\ c \in Nat /\ n \in Nat /\ k \in Nat /\ all \in Nat
  BY <1>1, CallSets, CallSetsNext
<1>3. /\ ~locked[p] => m <= n
      /\ locked[p] => k <= c
  BY <1>1, CallSets, CallSetsNext, FS_Subset
<1>4. CASE locked[p]
  <2>1. tries[p] + c <= SMSMaxVerifyAttempts - 1 + all
    BY <1>1, <1>4 DEF Counted
  <2>2. tries'[p] + k <= SMSMaxVerifyAttempts - 1 + all
    BY <1>2, <1>3, <1>4, <2>1, CounterTypes
  <2>. QED BY <1>1, <1>4, <2>2 DEF Counted
<1>5. CASE ~locked[p]
  <2>1. tries[p] <= failures[p] + m
    BY <1>1, <1>5 DEF Counted
  <2>2. tries'[p] <= failures'[p] + n
    BY <1>2, <1>3, <1>5, <2>1, CounterTypes
  <2>. QED BY <1>1, <1>5, <2>2 DEF Counted
<1>. QED BY <1>4, <1>5

(* A call moves, without having its guess recorded and without going past  *)
(* the check of a locked phone.                                            *)
LEMMA MovesCounted ==
    ASSUME LoginTypeOK, NEW p \in Phones, Counted(p), NEW q \in Calls, NEW call, Goto(q, call),
           failures'[p] = failures[p], locked'[p] = locked[p], tries'[p] = tries[p],
           logins[q].at = "mismatch" => logins[q].phone # p,
           call.at = "checked" => call.phone # p \/ ~locked[p]
    PROVE  Counted(p)'
<1>1. \A r \in Calls : logins'[r] = IF r = q THEN call ELSE logins[r]
  BY DEF Goto, LoginTypeOK
<1>2. Missed(p) \subseteq Missed(p)'
  BY <1>1 DEF Missed
<1>3. locked[p] => Comparing(p)' \subseteq Comparing(p)
  BY <1>1 DEF Comparing
<1>. QED BY <1>2, <1>3, StillCounted

LEMMA ResetCounted ==
    ASSUME LoginTypeOK, NEW p \in Phones, resetVerifyLock(p)
    PROVE  Counted(p)'
<1>1. failures'[p] = 0 /\ locked'[p] = FALSE /\ tries'[p] = 0
  BY DEF resetVerifyLock, LoginTypeOK
<1>2. Cardinality(Missed(p)') \in Nat
  BY CallSetsNext
<1>. QED BY <1>1, <1>2 DEF Counted

(* A failure is recorded: of a call that missed, or of an empty code.      *)
LEMMA RecordCounted ==
    ASSUME LoginTypeOK, NEW p \in Phones, Counted(p), recordVerifyFailure(p), tries' = tries,
           Comparing(p)' \subseteq Comparing(p),
           Cardinality(Missed(p)) <= Cardinality(Missed(p)') + 1
    PROVE  Counted(p)'
<1>1. PICK m, c, n, k, all :
        /\ m = Cardinality(Missed(p)) /\ c = Cardinality(Comparing(p)) /\ all = Cardinality(Calls)
        /\ n = Cardinality(Missed(p)') /\ k = Cardinality(Comparing(p)')
  OBVIOUS
<1>2. m \in Nat /\ c \in Nat /\ n \in Nat /\ k \in Nat /\ all \in Nat /\ m + c <= all /\ m <= n + 1
  BY <1>1, CallSets, CallSetsNext
<1>3. k <= c
  BY <1>1, CallSets, FS_Subset
<1>4. CASE Locks(failures[p] + 1)
  <2>1. locked'[p] = TRUE
    BY <1>4 DEF recordVerifyFailure, LoginTypeOK
  <2>2. CASE locked[p]
    <3>1. tries[p] + c <= SMSMaxVerifyAttempts - 1 + all
      BY <1>1, <2>2 DEF Counted
    <3>2. tries'[p] + k <= SMSMaxVerifyAttempts - 1 + all
      BY <1>2, <1>3, <3>1, CounterTypes
    <3>. QED BY <1>1, <2>1, <3>2 DEF Counted
  <2>3. CASE ~locked[p]
    <3>1. tries[p] <= failures[p] + m
      BY <1>1, <2>3 DEF Counted
    <3>2. tries'[p] + k <= SMSMaxVerifyAttempts - 1 + all
      BY <1>2, <1>3, <3>1, CounterTypes
    <3>. QED BY <1>1, <2>1, <3>2 DEF Counted
  <2>. QED BY <2>2, <2>3
<1>5. CASE ~Locks(failures[p] + 1)
  <2>1. locked' = locked /\ failures'[p] = failures[p] + 1
    BY <1>5 DEF recordVerifyFailure, LoginTypeOK
  <2>2. CASE locked[p]
    <3>1. tries[p] + c <= SMSMaxVerifyAttempts - 1 + all
      BY <1>1, <2>2 DEF Counted
    <3>2. tries'[p] + k <= SMSMaxVerifyAttempts - 1 + all
      BY <1>2, <1>3, <3>1, CounterTypes
    <3>. QED BY <1>1, <2>1, <2>2, <3>2 DEF Counted
  <2>3. CASE ~locked[p]
    <3>1. tries[p] <= failures[p] + m
      BY <1>1, <2>3 DEF Counted
    <3>2. tries'[p] <= failures'[p] + n
      BY <1>2, <2>1, <3>1, CounterTypes
    <3>. QED BY <1>1, <2>1, <2>3, <3>2 DEF Counted
  <2>. QED BY <2>2, <2>3
<1>. QED BY <1>4, <1>5

LEMMA RecordMismatchCounted ==
    ASSUME LoginTypeOK, GuessesCounted, NEW q \in Calls, RecordMismatch(q)
    PROVE  GuessesCounted'
<1>1. PICK x : x = logins[q].phone
  OBVIOUS
<1>2. /\ logins[q].at = "mismatch" /\ recordVerifyFailure(x) /\ Goto(q, NoLogin) /\ tries' = tries
  BY <1>1 DEF RecordMismatch, At, End
<1>3. x \in Phones
  BY <1>1, <1>2, CallTyped DEF Login
<1>4. \A r \in Calls : logins'[r] = IF r = q THEN NoLogin ELSE logins[r]
  BY <1>2 DEF Goto, LoginTypeOK
<1>5. SUFFICES ASSUME NEW p \in Phones PROVE Counted(p)'
  BY DEF GuessesCounted
<1>6. Counted(p)
  BY DEF GuessesCounted
<1>7. CASE p = x
  <2>1. Missed(p)' = Missed(p) \ {q} /\ q \in Missed(p)
    BY <1>1, <1>2, <1>4, <1>7, NoneApart DEF Missed
  <2>2. Comparing(p)' \subseteq Comparing(p)
    BY <1>4, NoneApart DEF Comparing
  <2>3. Cardinality(Missed(p)') = Cardinality(Missed(p)) - 1
    BY <2>1, CallSets, FS_RemoveElement
  <2>4. Cardinality(Missed(p)) <= Cardinality(Missed(p)') + 1
    BY <2>3, CallSets
  <2>. QED BY <1>2, <1>6, <1>7, <2>2, <2>4, RecordCounted
<1>8. CASE p # x
  <2>1. failures'[p] = failures[p] /\ locked'[p] = locked[p] /\ tries'[p] = tries[p]
    BY <1>2, <1>8 DEF recordVerifyFailure, LoginTypeOK
  <2>. QED BY <1>1, <1>2, <1>6, <1>8, <2>1, NoneApart, MovesCounted
<1>. QED BY <1>7, <1>8

LEMMA MismatchCounted ==
    ASSUME LoginTypeOK, GuessesCounted, NEW q \in Calls, ErrCodeMismatch(q)
    PROVE  GuessesCounted'
<1>1. PICK x, call : x = logins[q].phone /\ call = [logins[q] EXCEPT !.at = "mismatch"]
  OBVIOUS
<1>2. /\ logins[q].at = "checked" /\ Goto(q, call) /\ tries' = [tries EXCEPT ![x] = tries[x] + 1]
      /\ UNCHANGED <<failures, locked>>
  BY <1>1 DEF ErrCodeMismatch, At
<1>3. x \in Phones /\ call.at = "mismatch" /\ call.phone = x
  BY <1>1, <1>2, CallTyped DEF Login
<1>4. \A r \in Calls : logins'[r] = IF r = q THEN call ELSE logins[r]
  BY <1>2 DEF Goto, LoginTypeOK
<1>5. SUFFICES ASSUME NEW p \in Phones PROVE Counted(p)'
  BY DEF GuessesCounted
<1>6. Counted(p)
  BY DEF GuessesCounted
<1>7. CASE p = x
  <2>1. Missed(p)' = Missed(p) \cup {q} /\ q \notin Missed(p)
    BY <1>2, <1>3, <1>4, <1>7 DEF Missed
  <2>2. Comparing(p)' = Comparing(p) \ {q} /\ q \in Comparing(p)
    BY <1>1, <1>2, <1>3, <1>4, <1>7 DEF Comparing
  <2>3. PICK m, c, n, k, all :
          /\ m = Cardinality(Missed(p)) /\ c = Cardinality(Comparing(p)) /\ all = Cardinality(Calls)
          /\ n = Cardinality(Missed(p)') /\ k = Cardinality(Comparing(p)')
    OBVIOUS
  <2>4. n = m + 1 /\ k = c - 1 /\ m \in Nat /\ c \in Nat /\ all \in Nat
    <3>1. Cardinality(Missed(p) \cup {q}) = Cardinality(Missed(p)) + 1
      BY <2>1, CallSets, FS_AddElement
    <3>2. Cardinality(Comparing(p) \ {q}) = Cardinality(Comparing(p)) - 1
      BY <2>2, CallSets, FS_RemoveElement
    <3>. QED BY <2>1, <2>2, <2>3, <3>1, <3>2, CallSets
  <2>5. tries'[p] = tries[p] + 1
    BY <1>2, <1>7 DEF LoginTypeOK
  <2>6. CASE locked[p]
    <3>1. tries[p] + c <= SMSMaxVerifyAttempts - 1 + all
      BY <1>6, <2>3, <2>6 DEF Counted
    <3>2. tries'[p] + k <= SMSMaxVerifyAttempts - 1 + all
      BY <2>4, <2>5, <3>1, CounterTypes
    <3>. QED BY <1>2, <2>3, <2>6, <3>2 DEF Counted
  <2>7. CASE ~locked[p]
    <3>1. tries[p] <= failures[p] + m
      BY <1>6, <2>3, <2>7 DEF Counted
    <3>2. tries'[p] <= failures'[p] + n
      BY <1>2, <2>4, <2>5, <3>1, CounterTypes
    <3>. QED BY <1>2, <2>3, <2>7, <3>2 DEF Counted
  <2>. QED BY <2>6, <2>7
<1>8. CASE p # x
  <2>1. failures'[p] = failures[p] /\ locked'[p] = locked[p] /\ tries'[p] = tries[p]
    BY <1>2, <1>8 DEF LoginTypeOK
  <2>. QED BY <1>2, <1>3, <1>6, <2>1, MovesCounted
<1>. QED BY <1>7, <1>8

(* A call takes a step that neither records nor compares. *)
LEMMA QuietCounted ==
    ASSUME LoginTypeOK, GuessesCounted, NEW q \in Calls, NEW call, Goto(q, call), UNCHANGED lockVars,
           logins[q].at # "mismatch", call.at = "checked" => ~locked[call.phone]
    PROVE  GuessesCounted'
<1>1. SUFFICES ASSUME NEW p \in Phones PROVE Counted(p)'
  BY DEF GuessesCounted
<1>2. Counted(p) /\ UNCHANGED <<failures, locked, tries>>
  BY DEF GuessesCounted, lockVars
<1>. QED BY <1>2, MovesCounted

LEMMA QuietSteps ==
    ASSUME LoginTypeOK, GuessesCounted, NEW q \in Calls,
           \/ \E p \in Phones : Send(q, p)
           \/ \E p \in Phones, d \in Digits : Verify(q, p, d)
           \/ \E d \in Digits : Insert(q, d)
           \/ ErrProviderFail(q) \/ FindCode(q) \/ UseCode(q) \/ Register(q) \/ IssueToken(q)
           \/ \E a \in Accts : requireActiveAccount(q, a)
           \/ distributorSetPassword(q)
    PROVE  GuessesCounted'
<1>1. CASE \E p \in Phones : Send(q, p)
  <2>1. PICK p \in Phones : Send(q, p)
    BY <1>1
  <2>2. PICK call : call = [NoLogin EXCEPT !.at = "send", !.phone = p]
    OBVIOUS
  <2>3. call.at = "send" /\ Goto(q, call) /\ UNCHANGED lockVars /\ logins[q].at = "idle"
    BY <2>1, <2>2, NoneApart DEF Send, Idle, NoLogin
  <2>. QED BY <2>3, QuietCounted
<1>2. CASE \E p \in Phones, d \in Digits : Verify(q, p, d)
  <2>1. PICK p \in Phones, d \in Digits : Verify(q, p, d)
    BY <1>2
  <2>2. PICK call : call = [NoLogin EXCEPT !.at = "checked", !.phone = p, !.code = d]
    OBVIOUS
  <2>3. /\ call.phone = p /\ Goto(q, call) /\ UNCHANGED lockVars /\ logins[q].at = "idle" /\ ~locked[p]
    BY <2>1, <2>2, NoneApart DEF Verify, Idle, NoLogin, checkVerifyLock
  <2>. QED BY <2>3, QuietCounted
<1>3. CASE \E d \in Digits : Insert(q, d)
  <2>1. PICK i : lastCode' = i
    OBVIOUS
  <2>2. PICK call : call = [logins[q] EXCEPT !.at = "sent", !.row = i]
    OBVIOUS
  <2>3. logins[q].at = "send" /\ Goto(q, call) /\ UNCHANGED lockVars
    BY <1>3, <2>1, <2>2 DEF Insert, At
  <2>4. call.at = "sent"
    BY <2>2, <2>3, CallTyped DEF Login
  <2>. QED BY <2>3, <2>4, QuietCounted
<1>4. CASE ErrProviderFail(q) \/ IssueToken(q) \/ distributorSetPassword(q)
  <2>1. logins[q].at \in {"sent", "found", "active"} /\ Goto(q, NoLogin) /\ UNCHANGED lockVars
    BY <1>4 DEF ErrProviderFail, IssueToken, distributorSetPassword, At, End
  <2>. QED BY <2>1, NoneApart, QuietCounted
<1>5. CASE FindCode(q)
  <2>1. PICK i : i = Newest(Matching(logins[q].phone, logins[q].code))
    OBVIOUS
  <2>2. PICK call : call = [logins[q] EXCEPT !.at = "matched", !.row = i]
    OBVIOUS
  <2>3. logins[q].at = "checked" /\ Goto(q, call) /\ UNCHANGED lockVars
    BY <1>5, <2>1, <2>2 DEF FindCode, At
  <2>4. call.at = "matched"
    BY <2>2, <2>3, CallTyped DEF Login
  <2>. QED BY <2>3, <2>4, QuietCounted
<1>6. CASE UseCode(q)
  <2>1. PICK call : call = [logins[q] EXCEPT !.at = "accepted"]
    OBVIOUS
  <2>2. logins[q].at = "matched" /\ Goto(q, call) /\ UNCHANGED lockVars
    BY <1>6, <2>1 DEF UseCode, At
  <2>3. call.at = "accepted"
    BY <2>1, <2>2, CallTyped DEF Login
  <2>. QED BY <2>2, <2>3, QuietCounted
<1>7. CASE Register(q)
  <2>1. logins[q].at = "absent" /\ UNCHANGED lockVars
    BY <1>7 DEF Register, At
  <2>2. CASE Goto(q, NoLogin)
    BY <2>1, <2>2, NoneApart, QuietCounted
  <2>3. CASE \E a \in Free : Goto(q, [logins[q] EXCEPT !.at = "found", !.acct = a])
    <3>1. PICK a : Goto(q, [logins[q] EXCEPT !.at = "found", !.acct = a])
      BY <2>3
    <3>2. PICK call : call = [logins[q] EXCEPT !.at = "found", !.acct = a]
      OBVIOUS
    <3>3. call.at = "found" /\ Goto(q, call)
      BY <2>1, <3>1, <3>2, CallTyped DEF Login
    <3>. QED BY <2>1, <3>3, QuietCounted
  <2>. QED BY <1>7, <2>2, <2>3 DEF Register, End
<1>8. CASE \E a \in Accts : requireActiveAccount(q, a)
  <2>1. PICK a \in Accts : requireActiveAccount(q, a)
    BY <1>8
  <2>2. PICK call : call = [NoLogin EXCEPT !.at = "active", !.phone = owner[a], !.acct = a]
    OBVIOUS
  <2>3. call.at = "active" /\ Goto(q, call) /\ UNCHANGED lockVars /\ logins[q].at = "idle"
    BY <2>1, <2>2, NoneApart DEF requireActiveAccount, Idle, NoLogin
  <2>. QED BY <2>3, QuietCounted
<1>. QED BY <1>1, <1>2, <1>3, <1>4, <1>5, <1>6, <1>7, <1>8

(* A message arrived, or a code was accepted: the phone starts again. *)
LEMMA ResetSteps ==
    ASSUME LoginTypeOK, GuessesCounted, NEW q \in Calls, Delivered(q) \/ FindAccount(q)
    PROVE  GuessesCounted'
<1>1. PICK x : x = logins[q].phone
  OBVIOUS
<1>2. logins[q].at \in {"sent", "accepted"} /\ resetVerifyLock(x)
  BY <1>1 DEF Delivered, FindAccount, At
<1>3. x \in Phones
  BY <1>1, <1>2, CallTyped DEF Login
<1>4. PICK call : Goto(q, call) /\ call.at \in {"idle", "absent", "found"}
  <2>1. CASE Delivered(q)
    BY <2>1, NoneApart DEF Delivered, End
  <2>2. CASE FindAccount(q) /\ Goto(q, [logins[q] EXCEPT !.at = "absent"])
    BY <1>2, <2>2, Advances DEF Steps
  <2>3. CASE FindAccount(q) /\ \E a \in AccountsOf(x) :
                 Goto(q, [logins[q] EXCEPT !.at = "found", !.acct = a, !.banned = a \in banned])
    <3>1. PICK a : Goto(q, [logins[q] EXCEPT !.at = "found", !.acct = a, !.banned = a \in banned])
      BY <2>3
    <3>2. PICK c : c = [logins[q] EXCEPT !.at = "found", !.acct = a, !.banned = a \in banned]
      OBVIOUS
    <3>3. c.at = "found" /\ Goto(q, c)
      BY <1>2, <3>1, <3>2, CallTyped DEF Login
    <3>. QED BY <3>3
  <2>. QED BY <1>1, <2>1, <2>2, <2>3 DEF FindAccount
<1>5. SUFFICES ASSUME NEW p \in Phones PROVE Counted(p)'
  BY DEF GuessesCounted
<1>6. CASE p = x
  BY <1>2, <1>3, <1>6, ResetCounted
<1>7. CASE p # x
  <2>1. Counted(p) /\ failures'[p] = failures[p] /\ locked'[p] = locked[p] /\ tries'[p] = tries[p]
    BY <1>2, <1>7 DEF GuessesCounted, resetVerifyLock, LoginTypeOK
  <2>. QED BY <1>2, <1>4, <2>1, MovesCounted
<1>. QED BY <1>6, <1>7

(* No call moves. *)
LEMMA VerifyEmptyCounted ==
    ASSUME LoginTypeOK, GuessesCounted, NEW x \in Phones, VerifyEmpty(x) \/ LockRunsOut(x)
    PROVE  GuessesCounted'
<1>1. UNCHANGED logins
  BY DEF VerifyEmpty, LockRunsOut
<1>2. SUFFICES ASSUME NEW p \in Phones PROVE Counted(p)'
  BY DEF GuessesCounted
<1>3. Missed(p)' = Missed(p) /\ Comparing(p)' = Comparing(p)
  BY <1>1 DEF Missed, Comparing
<1>4. Counted(p)
  BY DEF GuessesCounted
<1>5. CASE p # x
  <2>1. failures'[p] = failures[p] /\ locked'[p] = locked[p] /\ tries'[p] = tries[p]
    BY <1>5 DEF VerifyEmpty, LockRunsOut, recordVerifyFailure, LoginTypeOK
  <2>. QED BY <1>3, <1>4, <2>1, StillCounted
<1>6. CASE p = x /\ VerifyEmpty(x)
  <2>1. Cardinality(Missed(p)) <= Cardinality(Missed(p)') + 1
    BY <1>3, CallSets
  <2>. QED BY <1>3, <1>4, <1>6, <2>1, RecordCounted DEF VerifyEmpty
<1>7. CASE p = x /\ LockRunsOut(x)
  <2>1. locked'[p] = FALSE /\ tries'[p] = 0 /\ failures'[p] = failures[p]
    BY <1>7 DEF LockRunsOut, LoginTypeOK
  <2>2. tries'[p] <= failures'[p] + Cardinality(Missed(p)')
    BY <2>1, CallSetsNext, CounterTypes
  <2>. QED BY <2>1, <2>2 DEF Counted
<1>. QED BY <1>5, <1>6, <1>7

LEMMA GuessesInit == LoginInit => GuessesCounted
<1>. SUFFICES ASSUME LoginInit, NEW p \in Phones PROVE Counted(p)
  BY DEF GuessesCounted
<1>2. failures[p] = 0 /\ locked[p] = FALSE /\ tries[p] = 0
  BY DEF LoginInit
<1>. QED BY <1>2, CallSets DEF Counted

LEMMA GuessesNext == Inv /\ GuessesCounted /\ [LoginNext]_loginVars => GuessesCounted'
<1>. SUFFICES ASSUME LoginTypeOK, GuessesCounted, [LoginNext]_loginVars PROVE GuessesCounted'
  BY DEF Inv
<1>1. ASSUME NEW q \in Calls,
             \/ \E p \in Phones : Send(q, p) \/ \E d \in Digits : Verify(q, p, d)
             \/ \E d \in Digits : Insert(q, d)
             \/ ErrProviderFail(q)
             \/ FindCode(q) \/ UseCode(q)
             \/ Register(q) \/ IssueToken(q)
             \/ \E a \in Accts : requireActiveAccount(q, a)
             \/ distributorSetPassword(q)
      PROVE  GuessesCounted'
  BY <1>1, QuietSteps
<1>2. ASSUME NEW q \in Calls, Delivered(q) \/ FindAccount(q) \/ ErrCodeMismatch(q) \/ RecordMismatch(q)
      PROVE  GuessesCounted'
  BY <1>2, ResetSteps, MismatchCounted, RecordMismatchCounted
<1>3. ASSUME NEW p \in Phones, VerifyEmpty(p) \/ LockRunsOut(p) PROVE GuessesCounted'
  BY <1>3, VerifyEmptyCounted
<1>4. CASE UNCHANGED <<lockVars, logins>>
  <2>1. SUFFICES ASSUME NEW p \in Phones PROVE Counted(p)'
    BY DEF GuessesCounted
  <2>2. Counted(p) /\ Missed(p)' = Missed(p) /\ Comparing(p)' = Comparing(p)
    BY <1>4 DEF GuessesCounted, Missed, Comparing
  <2>. QED BY <1>4, <2>2, StillCounted DEF lockVars
<1>5. ASSUME NEW a \in Accts,
             \/ distributorPasswordLogin(a) \/ adminBan(a) \/ adminUnban(a) \/ TokenExpires(a)
             \/ \E p \in Phones : adminCreateAccount(a, p)
      PROVE  UNCHANGED <<lockVars, logins>>
  BY <1>5 DEF distributorPasswordLogin, adminBan, adminUnban, TokenExpires, adminCreateAccount
<1>6. ASSUME NEW i \in CodeIds, Age(i) PROVE UNCHANGED <<lockVars, logins>>
  BY <1>6 DEF Age
<1>7. CASE Restart
  <2>1. SUFFICES ASSUME NEW p \in Phones PROVE Counted(p)'
    BY DEF GuessesCounted
  <2>2. failures'[p] = 0 /\ locked'[p] = FALSE /\ tries'[p] = 0
    BY <1>7 DEF Restart
  <2>. QED BY <2>2, CallSetsNext DEF Counted
<1>8. CASE UNCHANGED loginVars
  BY <1>4, <1>8 DEF loginVars, lockVars
<1>. QED BY <1>1, <1>2, <1>3, <1>4, <1>5, <1>6, <1>7, <1>8 DEF LoginNext

(* However many calls about a phone overlap, their own number bounds the   *)
(* guesses beyond the limit (sms.go, Verify, checkVerifyLock,              *)
(* recordVerifyFailure).                                                   *)
THEOREM GuessesAreBounded == LoginSpec => []GuessesBounded
<1>1. LoginTypeOK /\ GuessesCounted => GuessesBounded
  <2>1. SUFFICES ASSUME LoginTypeOK, GuessesCounted, NEW p \in Phones
                 PROVE  tries[p] <= SMSMaxVerifyAttempts - 1 + Cardinality(Calls)
    BY DEF GuessesBounded
  <2>2. PICK m, c, all :
          m = Cardinality(Missed(p)) /\ c = Cardinality(Comparing(p)) /\ all = Cardinality(Calls)
    OBVIOUS
  <2>3. m \in Nat /\ c \in Nat /\ all \in Nat /\ m + c <= all
    BY <2>2, CallSets
  <2>4. IF locked[p] THEN tries[p] + c <= SMSMaxVerifyAttempts - 1 + all ELSE tries[p] <= failures[p] + m
    BY <2>1, <2>2 DEF GuessesCounted, Counted
  <2>5. tries[p] <= SMSMaxVerifyAttempts - 1 + all
    BY <2>1, <2>3, <2>4, CounterTypes
  <2>. QED BY <2>2, <2>5
<1>2. Inv => LoginTypeOK
  BY DEF Inv
<1>. QED BY <1>1, <1>2, GuessesInit, GuessesNext, InvInit, InvNext, PTL DEF LoginSpec
=============================================================================
