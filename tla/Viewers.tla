------------------------------ MODULE Viewers ------------------------------
(***************************************************************************)
(* What AdUnlocks, Reactions and Comments share.  They have no variable in *)
(* common and their names differ, so that a module may extend all of them. *)
(***************************************************************************)
EXTENDS Naturals, FiniteSets

CONSTANTS Users,  (* app users                                             *)
          Calls,  (* calls in flight at a time, of any kind                *)
          None    (* sentinel: no user, call, ticket, episode, comment     *)

(* UPDATE ... + 1, and ... - 1 WHERE the column is positive. *)
Counted(n, enable) == IF enable THEN n + 1 ELSE IF n > 0 THEN n - 1 ELSE 0

=============================================================================
