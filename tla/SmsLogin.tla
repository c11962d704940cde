------------------------------ MODULE SmsLogin ------------------------------
(***************************************************************************)
(* Login by SMS code, and what a token is worth afterwards, for one of the *)
(* three audiences (app users, creators, distributors): their login        *)
(* handlers differ in the table they read and in nothing else, except that *)
(* only a distributor may also set a password and use it.                  *)
(*                                                                         *)
(* A code is a row of sms_codes.  The failure counter and the lock of a    *)
(* phone are in the memory of the process.  A login checks the lock, marks *)
(* the code used in a transaction, records the outcome in the counter, and *)
(* only then looks for the account: four steps, and other calls about the  *)
(* same phone may take theirs between any two of them.                     *)
(***************************************************************************)
EXTENDS Accounts

CONSTANTS Phones,
          Digits,      (* what a code can read: two codes may read alike   *)
          MaxCodes,    (* bound: codes sent, as ids 1..MaxCodes            *)
          Accts,       (* account ids                                      *)
          SMSMaxVerifyAttempts

ASSUME SmsLoginAssumption ==
    /\ None \notin Phones \cup Accts \cup Digits
    /\ MaxCodes \in Nat
    /\ SMSMaxVerifyAttempts \in Nat \ {0}
    /\ IsFiniteSet(Calls)

VARIABLES codes,     (* sms_codes, in the order of created_at              *)
          lastCode,  (* the id of the last code                            *)
          failures,  (* verifyLocks: failures                              *)
          locked,    (* verifyLocks: now is before lockedUntil             *)
          owner,     (* the phone of each account, None while there is none*)
          banned,    (* accounts whose status is banned                    *)
          password,  (* accounts with a password                           *)
          tokens,    (* accounts somebody holds a valid token of           *)
          logins,    (* calls between two of their steps                   *)
          uses,      (* history: times each code was accepted              *)
          tries,     (* history: wrong guesses compared since the counter  *)
                     (* was last cleared or the lock last ran out          *)
          proved     (* history: phones for which a code was accepted      *)

loginVars == <<codes, lastCode, failures, locked, owner, banned, password, tokens, logins, uses, tries, proved>>
codeVars == <<codes, lastCode, uses, proved>>
lockVars == <<failures, locked, tries>>
acctVars == <<owner, banned, password, tokens>>

CodeIds == 1..MaxCodes

NoCode == [phone |-> None, code |-> None, used |-> FALSE, live |-> FALSE, recent |-> FALSE]
SMSCode == [phone: Phones, code: Digits, used: BOOLEAN, live: BOOLEAN, recent: BOOLEAN]

Steps == {"send", "sent", "checked", "mismatch", "matched", "accepted", "absent", "found", "active"}
NoLogin == [at |-> "idle", phone |-> None, code |-> None, row |-> 0, acct |-> None, banned |-> FALSE]
Login == [at: Steps, phone: Phones, code: Digits \cup {None}, row: 0..MaxCodes,
         acct: Accts \cup {None}, banned: BOOLEAN]

LoginTypeOK ==
    /\ codes \in [CodeIds -> SMSCode \cup {NoCode}]
    /\ lastCode \in 0..MaxCodes
    /\ failures \in [Phones -> 0..SMSMaxVerifyAttempts - 1]
    /\ locked \in [Phones -> BOOLEAN]
    /\ owner \in [Accts -> Phones \cup {None}]
    /\ banned \subseteq Accts
    /\ password \subseteq Accts
    /\ tokens \subseteq Accts
    /\ logins \in [Calls -> Login \cup {NoLogin}]
    /\ uses \in [CodeIds -> Nat]
    /\ tries \in [Phones -> Nat]
    /\ proved \subseteq Phones

LoginInit ==
    /\ codes = [i \in CodeIds |-> NoCode]
    /\ lastCode = 0
    /\ failures = [p \in Phones |-> 0]
    /\ locked = [p \in Phones |-> FALSE]
    /\ owner = [a \in Accts |-> None]
    /\ banned = {}
    /\ password = {}
    /\ tokens = {}
    /\ logins = [q \in Calls |-> NoLogin]
    /\ uses = [i \in CodeIds |-> 0]
    /\ tries = [p \in Phones |-> 0]
    /\ proved = {}

Idle(q) == logins[q] = NoLogin
At(q, step) == logins[q].at = step
Goto(q, call) == logins' = [logins EXCEPT ![q] = call]
End(q) == Goto(q, NoLogin)

Newest(S) == CHOOSE i \in S : \A j \in S : j <= i

(* Mutant: the row of a code is read without a lock. *)
RowIsFreeAlways(i) == TRUE

(* No transaction has the row locked to mark it used. *)
RowIsFree(i) == \A q \in Calls : At(q, "matched") => logins[q].row # i

(* resetVerifyLock deletes the entry: a lock goes with the counter. *)
resetVerifyLock(p) ==
    /\ failures' = [failures EXCEPT ![p] = 0]
    /\ locked' = [locked EXCEPT ![p] = FALSE]
    /\ tries' = [tries EXCEPT ![p] = 0]

-----------------------------------------------------------------------------
(* Sending a code.                                                         *)

Sent(p) == {i \in CodeIds : codes[i].phone = p}

(* The latest code of the phone is read FOR UPDATE, and must be older than *)
(* the resend window.  The lock does not keep two calls apart: a first     *)
(* code has no row to lock, and a call that waited for the row still has   *)
(* the row it found, not the one inserted meanwhile.                       *)
Send(q, p) ==
    /\ Idle(q)
    /\ Sent(p) # {} => ~codes[Newest(Sent(p))].recent
    /\ Goto(q, [NoLogin EXCEPT !.at = "send", !.phone = p])
    /\ UNCHANGED <<codeVars, lockVars, acctVars>>

Insert(q, d) ==
    /\ At(q, "send")
    /\ lastCode < MaxCodes
    /\ lastCode' = lastCode + 1
    /\ codes' = [codes EXCEPT ![lastCode'] = [phone |-> logins[q].phone, code |-> d, used |-> FALSE,
                                              live |-> TRUE, recent |-> TRUE]]
    /\ Goto(q, [logins[q] EXCEPT !.at = "sent", !.row = lastCode'])
    /\ UNCHANGED <<lockVars, acctVars, uses, proved>>

(* The provider took the message. *)
Delivered(q) ==
    /\ At(q, "sent")
    /\ resetVerifyLock(logins[q].phone)
    /\ End(q)
    /\ UNCHANGED <<codeVars, acctVars>>

(* It did not, or its answer was lost: the row is deleted, unless that     *)
(* fails too.                                                              *)
ErrProviderFail(q) ==
    /\ At(q, "sent")
    /\ \/ RowIsFree(logins[q].row) /\ codes' = [codes EXCEPT ![logins[q].row] = NoCode]
       \/ codes' = codes
    /\ End(q)
    /\ UNCHANGED <<lastCode, lockVars, acctVars, uses, proved>>

-----------------------------------------------------------------------------
(* Verifying a code.                                                       *)

(* At the last attempt the phone is locked and the counter starts again. *)
Locks(n) == n >= SMSMaxVerifyAttempts

recordVerifyFailure(p) ==
    IF Locks(failures[p] + 1)
    THEN /\ failures' = [failures EXCEPT ![p] = 0]
         /\ locked' = [locked EXCEPT ![p] = TRUE]
    ELSE /\ failures' = [failures EXCEPT ![p] = @ + 1]
         /\ locked' = locked

(* An empty code counts as a failure, before any check of the lock. *)
VerifyEmpty(p) ==
    /\ recordVerifyFailure(p)
    /\ UNCHANGED <<codeVars, acctVars, logins, tries>>

(* Mutant: a locked phone is not looked at. *)
checkVerifyLockNever(p) == TRUE

checkVerifyLock(p) == ~locked[p]

Verify(q, p, d) ==
    /\ Idle(q)
    /\ checkVerifyLock(p)
    /\ Goto(q, [NoLogin EXCEPT !.at = "checked", !.phone = p, !.code = d])
    /\ UNCHANGED <<codeVars, lockVars, acctVars>>

Matching(p, d) ==
    {i \in CodeIds : codes[i].phone = p /\ codes[i].code = d /\ ~codes[i].used /\ codes[i].live}

(* SELECT ... FOR UPDATE: a call that finds its row locked waits, and then *)
(* looks at the row again.                                                 *)
FindCode(q) ==
    LET rows == Matching(logins[q].phone, logins[q].code)
    IN  /\ At(q, "checked")
        /\ rows # {}
        /\ RowIsFree(Newest(rows))
        /\ Goto(q, [logins[q] EXCEPT !.at = "matched", !.row = Newest(rows)])
        /\ UNCHANGED <<codeVars, lockVars, acctVars>>

UseCode(q) ==
    LET i == logins[q].row
    IN  /\ At(q, "matched")
        /\ codes' = [codes EXCEPT ![i].used = TRUE]
        /\ uses' = [uses EXCEPT ![i] = @ + 1]
        /\ proved' = proved \cup {logins[q].phone}
        /\ Goto(q, [logins[q] EXCEPT !.at = "accepted"])
        /\ UNCHANGED <<lastCode, lockVars, acctVars>>

ErrCodeMismatch(q) ==
    /\ At(q, "checked")
    /\ Matching(logins[q].phone, logins[q].code) = {}
    /\ tries' = [tries EXCEPT ![logins[q].phone] = @ + 1]
    /\ Goto(q, [logins[q] EXCEPT !.at = "mismatch"])
    /\ UNCHANGED <<codeVars, failures, locked, acctVars>>

RecordMismatch(q) ==
    /\ At(q, "mismatch")
    /\ recordVerifyFailure(logins[q].phone)
    /\ End(q)
    /\ UNCHANGED <<codeVars, acctVars, tries>>

-----------------------------------------------------------------------------
(* From an accepted code to a token.                                       *)

AccountsOf(p) == {a \in Accts : owner[a] = p}
Free == {a \in Accts : owner[a] = None}

(* findOrCreate reads the account of the phone, without a lock ...         *)
FindAccount(q) ==
    LET p == logins[q].phone
    IN  /\ At(q, "accepted")
        /\ resetVerifyLock(p)
        /\ IF AccountsOf(p) = {}
           THEN Goto(q, [logins[q] EXCEPT !.at = "absent"])
           ELSE \E a \in AccountsOf(p) :
                    Goto(q, [logins[q] EXCEPT !.at = "found", !.acct = a, !.banned = a \in banned])
        /\ UNCHANGED <<codeVars, acctVars>>

(* Mutant: the table has no unique index. *)
PhoneIsNewAlways(p) == TRUE

(* The unique index on the phone. *)
PhoneIsNew(p) == AccountsOf(p) = {}

(* ... and registers it when there was none.  Of two first logins the      *)
(* index fails one, whose code is used all the same.                       *)
Register(q) ==
    LET p == logins[q].phone
    IN  /\ At(q, "absent")
        /\ IF PhoneIsNew(p)
           THEN \E a \in Free :
                    /\ owner' = [owner EXCEPT ![a] = p]
                    /\ Goto(q, [logins[q] EXCEPT !.at = "found", !.acct = a])
           ELSE owner' = owner /\ End(q)
        /\ UNCHANGED <<codeVars, lockVars, banned, password, tokens>>

IssueToken(q) ==
    /\ At(q, "found")
    /\ tokens' = IF logins[q].banned THEN tokens ELSE tokens \cup {logins[q].acct}
    /\ End(q)
    /\ UNCHANGED <<codeVars, lockVars, owner, banned, password>>

HasPassword(a) == a \in password

distributorPasswordLogin(a) ==
    /\ owner[a] # None
    /\ a \notin banned
    /\ HasPassword(a)
    /\ tokens' = tokens \cup {a}
    /\ UNCHANGED <<codeVars, lockVars, owner, banned, password, logins>>

(* The gate of every signed-in request: the token is not revoked by a ban, *)
(* so the status is read each time.                                        *)
requireActiveAccount(q, a) ==
    /\ Idle(q)
    /\ a \in tokens
    /\ a \notin banned
    /\ Goto(q, [NoLogin EXCEPT !.at = "active", !.phone = owner[a], !.acct = a])
    /\ UNCHANGED <<codeVars, lockVars, acctVars>>

(* Any other request ends here; a ban since the gate does not stop it. *)
distributorSetPassword(q) ==
    /\ At(q, "active")
    /\ password' \in {password, password \cup {logins[q].acct}}
    /\ End(q)
    /\ UNCHANGED <<codeVars, lockVars, owner, banned, tokens>>

-----------------------------------------------------------------------------
(* The staff, time, and the process.                                       *)

(* Accounts that the staff create or import. *)
adminCreateAccount(a, p) ==
    /\ a \in Free
    /\ PhoneIsNew(p)
    /\ owner' = [owner EXCEPT ![a] = p]
    /\ UNCHANGED <<codeVars, lockVars, banned, password, tokens, logins>>

adminBan(a) ==
    /\ owner[a] # None
    /\ banned' = banned \cup {a}
    /\ UNCHANGED <<codeVars, lockVars, owner, password, tokens, logins>>

adminUnban(a) ==
    /\ banned' = banned \ {a}
    /\ UNCHANGED <<codeVars, lockVars, owner, password, tokens, logins>>

(* The resend window of a code passes, then its time to live. *)
Age(i) ==
    /\ codes[i].live
    /\ codes' = [codes EXCEPT ![i].recent = FALSE, ![i].live = codes[i].recent]
    /\ UNCHANGED <<lastCode, lockVars, acctVars, logins, uses, proved>>

LockRunsOut(p) ==
    /\ locked[p]
    /\ locked' = [locked EXCEPT ![p] = FALSE]
    /\ tries' = [tries EXCEPT ![p] = 0]
    /\ UNCHANGED <<codeVars, failures, acctVars, logins>>

TokenExpires(a) ==
    /\ tokens' = tokens \ {a}
    /\ UNCHANGED <<codeVars, lockVars, owner, banned, password, logins>>

(* The locks are lost, and so are the calls. *)
Restart ==
    /\ failures' = [p \in Phones |-> 0]
    /\ locked' = [p \in Phones |-> FALSE]
    /\ tries' = [p \in Phones |-> 0]
    /\ logins' = [q \in Calls |-> NoLogin]
    /\ UNCHANGED <<codeVars, acctVars>>

LoginNext ==
    \/ \E q \in Calls :
         \/ \E p \in Phones : Send(q, p) \/ \E d \in Digits : Verify(q, p, d)
         \/ \E d \in Digits : Insert(q, d)
         \/ Delivered(q) \/ ErrProviderFail(q)
         \/ FindCode(q) \/ UseCode(q) \/ ErrCodeMismatch(q) \/ RecordMismatch(q)
         \/ FindAccount(q) \/ Register(q) \/ IssueToken(q)
         \/ \E a \in Accts : requireActiveAccount(q, a)
         \/ distributorSetPassword(q)
    \/ \E p \in Phones : VerifyEmpty(p) \/ LockRunsOut(p)
    \/ \E a \in Accts :
         \/ distributorPasswordLogin(a) \/ adminBan(a) \/ adminUnban(a) \/ TokenExpires(a)
         \/ \E p \in Phones : adminCreateAccount(a, p)
    \/ \E i \in CodeIds : Age(i)
    \/ Restart

LoginSpec == LoginInit /\ [][LoginNext]_loginVars

-----------------------------------------------------------------------------
(* Properties.                                                             *)

(* Two logins with the same code may both read it unused; Verify locks the *)
(* row, so that a code is accepted once (sms.go, Verify).                  *)
CodeAcceptedOnce == \A i \in CodeIds : uses[i] <= 1

(* The lock is checked long before a failure is recorded, so more guesses  *)
(* than SMSMaxVerifyAttempts are compared when calls overlap; but never    *)
(* more than one for each further call in flight, until the counter is     *)
(* cleared or the lock runs out.                                           *)
GuessesBounded ==
    \A p \in Phones : tries[p] <= SMSMaxVerifyAttempts - 1 + Cardinality(Calls)

(* First logins that race, and accounts the staff create meanwhile, leave  *)
(* one account for a phone: balances and rights are never split in two.    *)
OneAccountPerPhone ==
    \A a, b \in Accts : owner[a] # None /\ owner[a] = owner[b] => a = b

(* Whichever way a token was come by, somebody once had a code accepted    *)
(* for the phone of its account: a password is set with a token only, and  *)
(* an imported account starts without one.                                 *)
TokenWasEarned == \A a \in tokens : owner[a] \in proved

(* What a login is worth: a code one login, a phone one account, a token   *)
(* an accepted code (sms.go, app.go, creator.go, distributor.go).          *)
LoginSound == CodeAcceptedOnce /\ OneAccountPerPhone /\ TokenWasEarned

-----------------------------------------------------------------------------
(* SmsLogin implements the admission.                                      *)

Admission == INSTANCE Admission WITH
                 CodeNos  <- CodeIds,
                 out      <- [i \in CodeIds |-> codes[i].phone],
                 accepted <- uses,
                 holder   <- owner,
                 inside   <- tokens

(* Each step of a login, however calls, restarts and the staff cross, is   *)
(* one step of the admission or none: a code counts once and only for the  *)
(* phone it was sent to, no account changes hands, and a token is issued   *)
(* only where the phone was proved before (sms.go, app.go, creator.go,     *)
(* distributor.go).                                                        *)
ImplementsAdmission == Admission!AdmissionSpec

=============================================================================
