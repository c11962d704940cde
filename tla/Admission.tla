------------------------------ MODULE Admission ------------------------------
(***************************************************************************)
(* What the login promises, without locks, counters, calls in flight or    *)
(* passwords: a code is out for one phone and is accepted once; a phone is *)
(* proved by a code that was out for it; an account is registered for one  *)
(* phone, its only one, and keeps it; who comes in holds an account of a   *)
(* phone that was proved.                                                  *)
(***************************************************************************)
EXTENDS Naturals

CONSTANTS CodeNos, Phones, Accts, None

VARIABLES out,        (* the phone each code is out for                    *)
          accepted,   (* how often it was accepted                         *)
          proved,     (* phones for which a code was accepted              *)
          holder,     (* the phone of each account                         *)
          inside      (* accounts somebody is signed in to                 *)

admissionVars == <<out, accepted, proved, holder, inside>>

AdmissionInit ==
    /\ out = [i \in CodeNos |-> None]
    /\ accepted = [i \in CodeNos |-> 0]
    /\ proved = {}
    /\ holder = [a \in Accts |-> None]
    /\ inside = {}

Issue(i) ==
    /\ out[i] = None /\ accepted[i] = 0
    /\ out'[i] \in Phones
    /\ out' = [out EXCEPT ![i] = out'[i]]
    /\ UNCHANGED <<accepted, proved, holder, inside>>

Withdraw(i) ==
    /\ out[i] # None
    /\ out' = [out EXCEPT ![i] = None]
    /\ UNCHANGED <<accepted, proved, holder, inside>>

Accept(i) ==
    /\ out[i] # None /\ accepted[i] = 0
    /\ accepted' = [accepted EXCEPT ![i] = 1]
    /\ proved' = proved \cup {out[i]}
    /\ UNCHANGED <<out, holder, inside>>

Enrol(a) ==
    /\ holder[a] = None
    /\ holder'[a] \in Phones
    /\ \A b \in Accts : holder[b] # holder'[a]
    /\ holder' = [holder EXCEPT ![a] = holder'[a]]
    /\ UNCHANGED <<out, accepted, proved, inside>>

Enter(a) ==
    /\ a \notin inside
    /\ holder[a] \in proved
    /\ inside' = inside \cup {a}
    /\ UNCHANGED <<out, accepted, proved, holder>>

Leave(a) ==
    /\ a \in inside
    /\ inside' = inside \ {a}
    /\ UNCHANGED <<out, accepted, proved, holder>>

AdmissionNext ==
    \/ \E i \in CodeNos : Issue(i) \/ Withdraw(i) \/ Accept(i)
    \/ \E a \in Accts : Enrol(a) \/ Enter(a) \/ Leave(a)

AdmissionSpec == AdmissionInit /\ [][AdmissionNext]_admissionVars
=============================================================================
