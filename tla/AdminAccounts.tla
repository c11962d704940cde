--------------------------- MODULE AdminAccounts ---------------------------
(***************************************************************************)
(* The staff: administrators, their permissions, and the calls by which    *)
(* those who manage accounts change one another.                           *)
(*                                                                         *)
(* Three middlewares stand before a handler: the status, role and          *)
(* permissions of the caller are read once (requireActiveAdmin), a region  *)
(* admin is let through to a few reads only (restrictRegionAdmin), and a   *)
(* handler may ask for a permission (requirePermission).  The handler goes *)
(* by what they read: another call may ban the caller, or replace its      *)
(* permissions, before it writes.                                          *)
(***************************************************************************)
EXTENDS Accounts

CONSTANTS Admins,      (* admin ids                                        *)
          First        (* the administrator the database is seeded with    *)

ASSUME AdminAccountsAssumption ==
    /\ First \in Admins
    /\ None \notin Admins \cup Calls

VARIABLES admins,      (* the rows there are; the user names are left out  *)
          role,        (* admins.role                                      *)
          status,      (* admins.status                                    *)
          permissions, (* admin_permissions                                *)
          adminCalls,  (* calls past the middlewares                       *)
          crossed      (* history: somebody wrote who by then was no       *)
                       (* longer entitled to                               *)

staffVars == <<admins, role, status, permissions, adminCalls, crossed>>

(* admin.Role is given when the account is created and never changed;      *)
(* nobody creates a second "admin".                                        *)
Roles == {"admin", "region_admin", ""}

(* The permissions that count here; a list of others is as good as none.   *)
AllPermissions == {"super_admin", "account_manage"}

Writes == {"create", "permissions", "replacing", "ban", "unban"}
NoAdminCall == [at |-> "idle", by |-> None, of |-> None, set |-> {}, found |-> {}]
AdminCall == [at: Writes, by: Admins, of: Admins, set: SUBSET AllPermissions, found: SUBSET AllPermissions]

StaffTypeOK ==
    /\ admins \subseteq Admins
    /\ role \in [Admins -> Roles]
    /\ status \in [Admins -> {"active", "banned"}]
    /\ permissions \in [Admins -> SUBSET AllPermissions]
    /\ \A b \in Admins \ admins :
         role[b] = "" /\ status[b] = "active" /\ permissions[b] = {}
    /\ adminCalls \in [Calls -> AdminCall \cup {NoAdminCall}]
    /\ crossed \in BOOLEAN

StaffInit ==
    /\ admins = {First}
    /\ role = [a \in Admins |-> IF a = First THEN "admin" ELSE ""]
    /\ status = [a \in Admins |-> "active"]
    /\ permissions = [a \in Admins |-> {}]
    /\ adminCalls = [q \in Calls |-> NoAdminCall]
    /\ crossed = FALSE

-----------------------------------------------------------------------------
(* The middlewares.                                                        *)

requireActiveAdmin(a) == a \in admins /\ status[a] = "active"

adminIsSuper(a) == role[a] = "admin" \/ "super_admin" \in permissions[a]

requirePermission(a, perm) == adminIsSuper(a) \/ perm \in permissions[a]

adminIsRegionAdmin(a) == role[a] = "region_admin"

(* None of the calls modelled here is among the few reads a region admin   *)
(* may make, whatever its permissions.                                     *)
restrictRegionAdmin(a) == ~adminIsRegionAdmin(a)

MayManage(a) == requirePermission(a, "account_manage")

Manager(a) == requireActiveAdmin(a) /\ restrictRegionAdmin(a) /\ MayManage(a)

Arrives(q, call) ==
    /\ adminCalls[q] = NoAdminCall
    /\ requireActiveAdmin(call.by)
    /\ restrictRegionAdmin(call.by)
    /\ MayManage(call.by)
    /\ adminCalls' = [adminCalls EXCEPT ![q] = call]
    /\ UNCHANGED <<admins, role, status, permissions, crossed>>

(* super_admin goes with no other permission. *)
validPermissions(perms) == "super_admin" \in perms => perms = {"super_admin"}

(* A call ends, having written. *)
Wrote(q) ==
    LET a == adminCalls[q].by
    IN  /\ adminCalls' = [adminCalls EXCEPT ![q] = NoAdminCall]
        /\ crossed' = (crossed \/ ~Manager(a))

Refused(q) ==
    /\ adminCalls[q] # NoAdminCall
    /\ adminCalls' = [adminCalls EXCEPT ![q] = NoAdminCall]
    /\ UNCHANGED <<admins, role, status, permissions, crossed>>

-----------------------------------------------------------------------------
(* The handlers.                                                           *)

(* The reads of the handlers find what never changes: that the target      *)
(* exists, its role, and whether it is the caller.                         *)
adminCreateAdminAccount(q, a, perms) ==
    /\ validPermissions(perms)
    /\ Arrives(q, [NoAdminCall EXCEPT !.at = "create", !.by = a, !.of = a, !.set = perms])

(* A region admin gets a region and no permission. *)
Create(q, b, r) ==
    /\ adminCalls[q].at = "create"
    /\ b \notin admins
    /\ r = "region_admin" => adminCalls[q].set = {}
    /\ admins' = admins \cup {b}
    /\ role' = [role EXCEPT ![b] = r]
    /\ permissions' = [permissions EXCEPT ![b] = adminCalls[q].set]
    /\ Wrote(q)
    /\ UNCHANGED status

(* Accounts are not deleted. *)
Exists(b) == b \in admins

(* Mutant: nobody minds what a caller takes from itself. *)
KeepsOwnAny(a, b, perms) == TRUE

KeepsOwn(a, b, perms) == a = b => perms \cap {"account_manage", "super_admin"} # {}

adminSetAdminPermissions(q, a, b, perms) ==
    /\ validPermissions(perms)
    /\ Exists(b)
    /\ KeepsOwn(a, b, perms)
    /\ role[b] = "admin" => "super_admin" \in perms
    /\ Arrives(q, [NoAdminCall EXCEPT !.at = "permissions", !.by = a, !.of = b, !.set = perms])

(* One transaction deletes the rows and inserts the new ones.  Its DELETE  *)
(* sees the rows that were there when it began: if it had to wait for      *)
(* another such transaction, the rows that one inserted stay.              *)
DeletePermissions(q) ==
    /\ adminCalls[q].at = "permissions"
    /\ adminCalls' = [adminCalls EXCEPT ![q] = [@ EXCEPT !.at = "replacing",
                                                         !.found = permissions[adminCalls[q].of]]]
    /\ UNCHANGED <<admins, role, status, permissions, crossed>>

(* A row that is there twice violates the unique index. *)
InsertPermissions(q) ==
    LET b == adminCalls[q].of
        left == permissions[b] \ adminCalls[q].found
    IN  /\ adminCalls[q].at = "replacing"
        /\ left \cap adminCalls[q].set = {}
        /\ permissions' = [permissions EXCEPT ![b] = left \cup adminCalls[q].set]
        /\ Wrote(q)
        /\ UNCHANGED <<admins, role, status>>

NotItself(a, b) == a # b

(* PUT /admins/:id with a status bans a super administrator too. *)
adminUpdateAdminAccount(q, a, b) ==
    /\ Exists(b)
    /\ NotItself(a, b)
    /\ Arrives(q, [NoAdminCall EXCEPT !.at = "ban", !.by = a, !.of = b])

adminBanAdminAccount(q, a, b) ==
    /\ Exists(b)
    /\ NotItself(a, b)
    /\ role[b] # "admin"
    /\ Arrives(q, [NoAdminCall EXCEPT !.at = "ban", !.by = a, !.of = b])

adminUnbanAdminAccount(q, a, b) ==
    /\ Exists(b)
    /\ Arrives(q, [NoAdminCall EXCEPT !.at = "unban", !.by = a, !.of = b])

SetStatus(q) ==
    /\ adminCalls[q].at \in {"ban", "unban"}
    /\ status' = [status EXCEPT ![adminCalls[q].of] =
                      IF adminCalls[q].at = "ban" THEN "banned" ELSE "active"]
    /\ Wrote(q)
    /\ UNCHANGED <<admins, role, permissions>>

StaffNext ==
    \E q \in Calls :
        \/ \E a \in Admins :
             \/ \E perms \in SUBSET AllPermissions :
                  \/ adminCreateAdminAccount(q, a, perms)
                  \/ \E b \in Admins : adminSetAdminPermissions(q, a, b, perms)
             \/ \E b \in Admins : \/ adminUpdateAdminAccount(q, a, b)
                                  \/ adminBanAdminAccount(q, a, b)
                                  \/ adminUnbanAdminAccount(q, a, b)
        \/ \E b \in Admins, r \in {"", "region_admin"} : Create(q, b, r)
        \/ DeletePermissions(q) \/ InsertPermissions(q) \/ SetStatus(q)
        \/ Refused(q)

StaffSpec == StaffInit /\ [][StaffNext]_staffVars

-----------------------------------------------------------------------------
(* Properties.                                                             *)

(* The handlers keep a caller from banning itself and from giving up its   *)
(* own right to manage accounts, so that somebody can always manage them.  *)
AManagerRemains == \E a \in Admins : Manager(a)

(* That holds as long as nobody writes who has meanwhile lost the right    *)
(* to: two managers who remove each other at the same time both pass.      *)
AManagerRemainsUnlessCrossed == crossed \/ AManagerRemains

=============================================================================
