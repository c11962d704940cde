------------------------------ MODULE Accounts ------------------------------
(***************************************************************************)
(* What the four modules about accounts share.  They have no variable in   *)
(* common and their names differ, so that MCAccounts extends all of them.  *)
(***************************************************************************)
EXTENDS Naturals, FiniteSets

CONSTANTS Calls,  (* requests in flight at a time, of any kind             *)
          None    (* sentinel: no account, no call, an empty column        *)

(* What a request leaves empty keeps what is stored. *)
OrStored(given, stored) == IF given = None THEN stored ELSE given

=============================================================================
