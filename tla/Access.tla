------------------------------- MODULE Access -------------------------------
(***************************************************************************)
(* Users, tenants and what lets a caller in: tokens, which carry the role  *)
(* their user had at login, and keys, which go by the role it has now      *)
(* (api/auth.go, api/apikey.go, middleware/auth.go), and the handlers of   *)
(* administrators, which read a row, check it, and store all of it         *)
(* (api/admin.go, api/tenant.go).                                          *)
(*                                                                         *)
(* Roles other than the administrator's are one.  Names, passwords and     *)
(* descriptions are left out: of a password that is reset there is the     *)
(* row that is read and stored.                                            *)
(***************************************************************************)
EXTENDS Naturals, FiniteSets

CONSTANTS
  Users, Tenants, Requests,
  Root,          \* the administrator an installation starts with
  NoTenant, NoUser,
  MaxRequests, MaxCredentials, MaxFaults

VARIABLES
  users,    \* the row of each user
  tenants,  \* the status of each tenant
  tokens,   \* tokens that have not expired: a user and the role it had
  keys,     \* users with a key that is valid
  desk,     \* what each request is doing
  requests, faults

rows == <<users, tenants>>
credentials == <<tokens, keys>>
vars == <<rows, credentials, desk, requests, faults>>

Roles == {"admin", "developer"}
Rows == [role : Roles, status : {"active", "disabled"}, tenant : Tenants \cup {NoTenant}]
Idle == [at |-> "idle", user |-> NoUser, row |-> NoUser, tenant |-> NoTenant,
         status |-> "none", excuse |-> {}]
Excuses == {"overlapped", "outsider", "uncounted"}

TypeOK ==
  /\ users \in [Users -> Rows \cup {NoUser}]
  /\ tenants \in [Tenants -> {"none", "active", "disabled", "deleted"}]
  /\ tokens \subseteq Users \X Roles /\ keys \subseteq Users
  /\ \A r \in Requests : /\ desk[r].at \in {"idle", "insert", "count", "save",
                                            "move", "saveTenant", "delete"}
                         /\ desk[r].user \in Users \cup {NoUser}
                         /\ desk[r].row \in Rows \cup {NoUser}
                         /\ desk[r].status \in {"none", "active", "disabled"}
                         /\ desk[r].tenant \in Tenants \cup {NoTenant}
                         /\ desk[r].excuse \subseteq Excuses

Init ==
  /\ users = [u \in Users |-> IF u = Root THEN [role |-> "admin", status |-> "active", tenant |-> NoTenant]
                              ELSE NoUser]
  /\ tenants = [t \in Tenants |-> "none"]
  /\ tokens = {} /\ keys = {}
  /\ desk = [r \in Requests |-> Idle]
  /\ requests = 0 /\ faults = 0

Exists(u) == users[u] # NoUser
Admins == {u \in Users : Exists(u) /\ users[u].role = "admin" /\ users[u].status = "active"}

-----------------------------------------------------------------------------
(* Coming in *)

Room == Cardinality(tokens) + Cardinality(keys) < MaxCredentials

Register(u) ==
  /\ ~Exists(u) /\ Room
  /\ users' = [users EXCEPT ![u] = [role |-> "developer", status |-> "active", tenant |-> NoTenant]]
  /\ tokens' = tokens \cup {<<u, "developer">>}
  /\ UNCHANGED <<tenants, keys, desk, requests, faults>>

Login(u) ==
  /\ Exists(u) /\ users[u].status = "active" /\ Room
  /\ tokens' = tokens \cup {<<u, users[u].role>>}
  /\ UNCHANGED <<rows, keys, desk, requests, faults>>

TokenExpires(token) ==
  /\ token \in tokens /\ tokens' = tokens \ {token}
  /\ UNCHANGED <<rows, keys, desk, requests, faults>>

(* Nobody looks at the status of the user, and a token is not asked about  *)
(* in the database at all.  What a role permits is asked the same way, and *)
(* every role may have keys.                                               *)
RequireRole(u, role) ==
  \/ <<u, role>> \in tokens
  \/ u \in keys /\ users[u].role = role

CreateAPIKey(u) ==
  /\ \E role \in Roles : RequireRole(u, role)
  /\ Room /\ keys' = keys \cup {u}
  /\ UNCHANGED <<rows, tokens, desk, requests, faults>>

(* Or it expires.                                                          *)
RevokeAPIKey(u) ==
  /\ u \in keys /\ keys' = keys \ {u}
  /\ UNCHANGED <<rows, tokens, desk, requests, faults>>

-----------------------------------------------------------------------------
(* What administrators do: a request reads and checks, and then writes *)

Reads(r, by, request) ==
  /\ desk[r] = Idle /\ requests < MaxRequests /\ requests' = requests + 1
  /\ RequireRole(by, "admin")
  /\ desk' = [desk EXCEPT ![r] = request]
  /\ UNCHANGED <<rows, credentials, faults>>

(* A write passes by what every other request has read.                    *)
Writes(r) ==
  /\ desk' = [q \in Requests |-> IF q = r \/ desk[q] = Idle THEN Idle
                                 ELSE [desk[q] EXCEPT !.excuse = @ \cup {"overlapped"}]]
  /\ UNCHANGED <<credentials, requests, faults>>

On(at, u, row) == [Idle EXCEPT !.at = at, !.user = u, !.row = row]
Open == {NoTenant} \cup {t \in Tenants : tenants[t] = "active"}

CreateUser(r, by, u, row) ==
  /\ ~Exists(u) /\ row.status = "active" /\ row.tenant \in Open
  /\ Reads(r, by, On("insert", u, row))

(* The name is unique: another request may have been faster.               *)
Insert(r) ==
  /\ desk[r].at = "insert"
  /\ users' = IF Exists(desk[r].user) THEN users ELSE [users EXCEPT ![desk[r].user] = desk[r].row]
  /\ Writes(r) /\ UNCHANGED tenants

(* A request that leaves something out keeps it as it is, and of oneself   *)
(* one can only ask for the role of an administrator and an active status. *)
(* The role that was read is part of the row that is stored, and may take  *)
(* the place of a new one.                                                 *)
UpdateUser(r, by, u, row) ==
  /\ Exists(u)
  /\ by = u => row.role \in {"admin", users[u].role} /\ row.status \in {"active", users[u].status}
  /\ row.tenant # users[u].tenant => row.tenant \in Open
  /\ \E role \in {row.role, users[u].role} :
       Reads(r, by, [On("save", u, [row EXCEPT !.role = role]) EXCEPT
                       !.excuse = IF by \in Admins THEN {} ELSE {"outsider"}])

DisableUser(r, by, u) ==
  /\ Exists(u) /\ users[u].status = "active" /\ by # u
  /\ Reads(r, by, On(IF users[u].role = "admin" THEN "count" ELSE "save", u,
                     [users[u] EXCEPT !.status = "disabled"]))

(* Fault variant: nobody counts.                                           *)
CountAdminsNever(r) ==
  /\ desk[r].at = "count"
  /\ desk' = [desk EXCEPT ![r].at = "save"]
  /\ UNCHANGED <<rows, credentials, requests, faults>>

(* One that cannot be counted counts as enough.                            *)
CountAdmins(r) ==
  /\ desk[r].at = "count"
  /\ \/ /\ desk' = IF Cardinality(Admins) <= 1 THEN [desk EXCEPT ![r] = Idle] ELSE [desk EXCEPT ![r].at = "save"]
        /\ UNCHANGED faults
     \/ /\ faults < MaxFaults /\ faults' = faults + 1
        /\ desk' = [desk EXCEPT ![r].at = "save", ![r].excuse = @ \cup {"uncounted"}]
  /\ UNCHANGED <<rows, credentials, requests>>

EnableUser(r, by, u) ==
  /\ Exists(u) /\ users[u].status = "disabled"
  /\ Reads(r, by, On("save", u, [users[u] EXCEPT !.status = "active"]))

ResetPassword(r, by, u) == Exists(u) /\ Reads(r, by, On("save", u, users[u]))

Save(r) ==
  /\ desk[r].at = "save"
  /\ users' = [users EXCEPT ![desk[r].user] = desk[r].row]
  /\ Writes(r) /\ UNCHANGED tenants

-----------------------------------------------------------------------------
(* Tenants *)

(* The name of one that is deleted stays taken.                            *)
CreateTenant(by, t) ==
  /\ RequireRole(by, "admin") /\ tenants[t] = "none" /\ requests < MaxRequests
  /\ tenants' = [tenants EXCEPT ![t] = "active"] /\ requests' = requests + 1
  /\ UNCHANGED <<users, credentials, desk, faults>>

UpdateTenant(r, by, t, status) ==
  /\ tenants[t] \in {"active", "disabled"}
  /\ Reads(r, by, [On("saveTenant", NoUser, NoUser) EXCEPT !.tenant = t, !.status = status])

(* Storing the row of a tenant that is deleted puts it back.               *)
SaveTenant(r) ==
  /\ desk[r].at = "saveTenant"
  /\ tenants' = [tenants EXCEPT ![desk[r].tenant] = desk[r].status]
  /\ Writes(r) /\ UNCHANGED users

DeleteTenant(r, by, t) ==
  /\ tenants[t] \in {"active", "disabled"} /\ \A u \in Users : Exists(u) => users[u].tenant # t
  /\ Reads(r, by, [On("delete", NoUser, NoUser) EXCEPT !.tenant = t])

Delete(r) ==
  /\ desk[r].at = "delete"
  /\ tenants' = [tenants EXCEPT ![desk[r].tenant] = "deleted"]
  /\ Writes(r) /\ UNCHANGED users

AddTenantMember(r, by, u, t) ==
  /\ Exists(u) /\ tenants[t] = "active"
  /\ Reads(r, by, [On("move", u, NoUser) EXCEPT !.tenant = t])

RemoveTenantMember(r, by, u) == Reads(r, by, On("move", u, NoUser))

MoveUserToTenant(r) ==
  /\ desk[r].at = "move"
  /\ users' = IF Exists(desk[r].user) THEN [users EXCEPT ![desk[r].user].tenant = desk[r].tenant] ELSE users
  /\ Writes(r) /\ UNCHANGED tenants

Next ==
  \/ \E u \in Users : Register(u) \/ Login(u) \/ CreateAPIKey(u) \/ RevokeAPIKey(u)
  \/ \E token \in tokens : TokenExpires(token)
  \/ \E r \in Requests, by, u \in Users :
       \/ \E row \in Rows : CreateUser(r, by, u, row) \/ UpdateUser(r, by, u, row)
       \/ DisableUser(r, by, u) \/ EnableUser(r, by, u) \/ ResetPassword(r, by, u)
       \/ RemoveTenantMember(r, by, u)
       \/ \E t \in Tenants : AddTenantMember(r, by, u, t)
  \/ \E r \in Requests, by \in Users, t \in Tenants :
       \/ \E status \in {"active", "disabled"} : UpdateTenant(r, by, t, status)
       \/ DeleteTenant(r, by, t)
  \/ \E by \in Users, t \in Tenants : CreateTenant(by, t)
  \/ \E r \in Requests : Insert(r) \/ CountAdmins(r) \/ Save(r) \/ SaveTenant(r) \/ Delete(r) \/ MoveUserToTenant(r)

Spec == Init /\ [][Next]_vars

-----------------------------------------------------------------------------
Orphans == {u \in Users : /\ Exists(u) /\ users[u].tenant # NoTenant
                          /\ tenants[users[u].tenant] = "deleted"}

Excused(excuses) == \E r \in Requests : desk[r].at # "idle" /\ desk'[r] = Idle /\ desk[r].excuse \cap excuses # {}

(* api/admin.go: "at least one active administrator must be kept", and      *)
(* repo/tenant.go: "only when there is no user in it".  The last active     *)
(* administrator is lost only by a request that another one has overtaken,  *)
(* by an update of a caller who is no active administrator any more, or by  *)
(* one that could not count them; a user ends in a tenant that is deleted only  *)
(* by a request that was overtaken.                                         *)
AccountsStep ==
  /\ Admins # {} /\ Admins' = {} => Excused(Excuses)
  /\ Orphans' \subseteq Orphans \/ Excused({"overlapped"})

AccountsSound == [][AccountsStep]_vars
=============================================================================
