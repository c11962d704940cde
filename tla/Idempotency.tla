---------------------------- MODULE Idempotency ----------------------------
(***************************************************************************)
(* The middleware in front of placing an order and asking for a            *)
(* withdrawal: requests that carry one Idempotency-Key, of one subject, to *)
(* one path.  The answer of the first is kept in Redis and repeated to the *)
(* others; a lock, in Redis too, keeps the handler to one at a time.       *)
(*                                                                         *)
(* Cache and lock are two keys with two times to live, and the middleware  *)
(* touches them one at a time: between any two of its steps another        *)
(* request may take its own.                                               *)
(***************************************************************************)
EXTENDS Naturals

CONSTANTS Requests,  (* requests that may be in flight at a time           *)
          Bodies,    (* what requests with the key may contain             *)
          Nobody,    (* sentinel: no body                                  *)
          MaxServed  (* bound: runs of the handler                         *)

ASSUME IdempotencyAssumption == Nobody \notin Bodies /\ MaxServed \in Nat

VARIABLES cache,    (* idem:resp: the body and the run that answered       *)
          lock,     (* idem:lock: the body of the request that took it     *)
          reqs,     (* the requests in flight                              *)
          served,   (* history: every run of the handler                   *)
          lastServed, (* history: how many there were                      *)
          replays,  (* history: body and run of every answer repeated      *)
          crossed,  (* history: a lock was freed while a request was       *)
                    (* between its look at the cache and its own lock      *)
          lapsed,   (* history: a lock ran out                             *)
          excused   (* history: Redis lost something, the process stopped  *)
                    (* or the handler failed                               *)

idemVars == <<cache, lock, reqs, served, lastServed, replays, crossed, lapsed, excused>>

ServedIds == 1..MaxServed

Outcomes == {"ok", "refused", "error"}

NoAnswer == [body |-> Nobody, run |-> 0]
NoRequest == [at |-> "idle", body |-> Nobody, run |-> 0]
NotServed == [body |-> Nobody, outcome |-> "none"]

IdemTypeOK ==
    /\ cache \in [body: Bodies, run: ServedIds] \cup {NoAnswer}
    /\ lock \in Bodies \cup {Nobody}
    /\ reqs \in [Requests -> [at: {"missed", "running", "handled", "leaving"}, body: Bodies, run: 0..MaxServed]
                             \cup {NoRequest}]
    /\ served \in [ServedIds -> [body: Bodies, outcome: Outcomes \cup {"none"}] \cup {NotServed}]
    /\ lastServed \in 0..MaxServed
    /\ replays \subseteq Bodies \X ServedIds
    /\ crossed \in BOOLEAN /\ lapsed \in BOOLEAN /\ excused \in BOOLEAN

IdemInit ==
    /\ cache = NoAnswer
    /\ lock = Nobody
    /\ reqs = [q \in Requests |-> NoRequest]
    /\ served = [n \in ServedIds |-> NotServed]
    /\ lastServed = 0
    /\ replays = {}
    /\ crossed = FALSE /\ lapsed = FALSE /\ excused = FALSE

-----------------------------------------------------------------------------

(* The hash of method, path and body. *)
SameRequest(b) == cache.body = b

(* loadCached: an answer is repeated to the same request and refused to    *)
(* another; without one the request goes on.                               *)
loadCached(q, b) ==
    /\ reqs[q] = NoRequest
    /\ IF cache = NoAnswer
       THEN reqs' = [reqs EXCEPT ![q] = [at |-> "missed", body |-> b, run |-> 0]] /\ replays' = replays
       ELSE reqs' = reqs /\ replays' = IF SameRequest(b) THEN replays \cup {<<b, cache.run>>} ELSE replays
    /\ UNCHANGED <<cache, lock, served, lastServed, crossed, lapsed, excused>>

LockHeld == lock # Nobody

(* SetNX: who finds the lock taken is refused, with the same body or not. *)
SetNX(q) ==
    /\ reqs[q].at = "missed"
    /\ IF LockHeld
       THEN /\ reqs' = [reqs EXCEPT ![q] = NoRequest]
            /\ UNCHANGED <<lock, served, lastServed>>
       ELSE /\ lastServed < MaxServed
            /\ lastServed' = lastServed + 1
            /\ lock' = reqs[q].body
            /\ served' = [served EXCEPT ![lastServed'] = [body |-> reqs[q].body, outcome |-> "none"]]
            /\ reqs' = [reqs EXCEPT ![q] = [at |-> "running", body |-> reqs[q].body, run |-> lastServed']]
    /\ UNCHANGED <<cache, replays, crossed, lapsed, excused>>

(* The handler answers: it did what it was asked for, refused, or failed   *)
(* somewhere on the way.                                                   *)
Handle(q, outcome) ==
    /\ reqs[q].at = "running"
    /\ served' = [served EXCEPT ![reqs[q].run].outcome = outcome]
    /\ reqs' = [reqs EXCEPT ![q].at = "handled"]
    /\ excused' = (excused \/ outcome = "error")
    /\ UNCHANGED <<cache, lock, lastServed, replays, crossed, lapsed>>

(* An answer of 500 and above is not. *)
Keeps(n) == served[n].outcome # "error"

(* What is kept: the answer, under the hash of its request. *)
Answer(q) == [body |-> reqs[q].body, run |-> reqs[q].run]

(* saveCached; a failure is ignored. *)
saveCached(q) ==
    LET n == reqs[q].run
    IN  /\ reqs[q].at = "handled"
        /\ \/ /\ cache' = IF Keeps(n) THEN Answer(q) ELSE cache
              /\ excused' = excused
           \/ cache' = cache /\ excused' = TRUE
        /\ reqs' = [reqs EXCEPT ![q].at = "leaving"]
        /\ UNCHANGED <<lock, served, lastServed, replays, crossed, lapsed>>

(* Mutant: the lock is given back before the answer is kept. *)
DelEarly(q) ==
    /\ reqs[q].at \in {"handled", "leaving"}
    /\ lock' = Nobody
    /\ reqs' = IF reqs[q].at = "leaving" THEN [reqs EXCEPT ![q] = NoRequest] ELSE reqs
    /\ crossed' = (crossed \/ \E p \in Requests : reqs[p].at = "missed")
    /\ UNCHANGED <<cache, served, lastServed, replays, lapsed, excused>>

(* The deferred Del removes the lock, whoever holds it by now. *)
Del(q) ==
    /\ reqs[q].at = "leaving"
    /\ lock' = Nobody
    /\ reqs' = [reqs EXCEPT ![q] = NoRequest]
    /\ crossed' = (crossed \/ \E p \in Requests : reqs[p].at = "missed")
    /\ UNCHANGED <<cache, served, lastServed, replays, lapsed, excused>>

-----------------------------------------------------------------------------
(* Time and failures.                                                      *)

LockRunsOut ==
    /\ lock # Nobody
    /\ lock' = Nobody
    /\ lapsed' = TRUE
    /\ excused' = TRUE
    /\ UNCHANGED <<cache, reqs, served, lastServed, replays, crossed>>

AnswerRunsOut ==
    /\ cache # NoAnswer
    /\ cache' = NoAnswer
    /\ excused' = TRUE
    /\ UNCHANGED <<lock, reqs, served, lastServed, replays, crossed, lapsed>>

(* What is in Redis survives the process, the lock too. *)
ProcessStops ==
    /\ reqs' = [q \in Requests |-> NoRequest]
    /\ excused' = TRUE
    /\ UNCHANGED <<cache, lock, served, lastServed, replays, crossed, lapsed>>

IdemNext ==
    \/ \E q \in Requests :
         \/ \E b \in Bodies : loadCached(q, b)
         \/ SetNX(q)
         \/ \E outcome \in Outcomes : Handle(q, outcome)
         \/ saveCached(q)
         \/ Del(q)
    \/ LockRunsOut
    \/ AnswerRunsOut
    \/ ProcessStops

IdemSpec == IdemInit /\ [][IdemNext]_idemVars

-----------------------------------------------------------------------------
(* Properties.                                                             *)

Inside(q) == reqs[q].at \in {"running", "handled", "leaving"}

(* The handler runs for one request at a time, whatever failed before,     *)
(* until a lock runs out under its holder; from then on the unconditional  *)
(* Del frees the locks of others (idempotency.go:79-101).                  *)
OneAtATime == lapsed \/ \A p, q \in Requests : Inside(p) /\ Inside(q) => p = q

(* An answer that is repeated was given, to the same request, by a handler *)
(* that did not fail, however runs, failures and lapses follow each other  *)
(* (idempotency.go:107-110, 129-132).                                      *)
RepeatsAreHonest ==
    \A x \in replays : served[x[2]].body = x[1] /\ served[x[2]].outcome \in {"ok", "refused"}

(* Repeated requests with one key have one effect, as long as nothing      *)
(* fails or lapses and no request looked into the cache before the answer  *)
(* was there and asked for the lock after it was free again                *)
(* (idempotency.go:65-101; docs/DEV_TEST_LOG.md:271 says it of all).       *)
HandledOnce ==
    \/ excused
    \/ crossed
    \/ \A m, n \in ServedIds : served[m].outcome = "ok" /\ served[n].outcome = "ok" => m = n

(* What an Idempotency-Key is worth (idempotency.go, Middleware).          *)
KeyPromise == OneAtATime /\ RepeatsAreHonest /\ HandledOnce

=============================================================================
