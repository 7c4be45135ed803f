------------------------------ MODULE Accounts ------------------------------
(***************************************************************************)
(* Administrators' accounts: the tables of roles and users, the login and  *)
(* the handlers that create, edit and delete them (adminauth.go,           *)
(* endpoints.go, db/db_sqlite.go), on a file database.                     *)
(*                                                                         *)
(* One action is one database call with the handler code up to the next:   *)
(* a request logs in, is checked against what its role allowed at that     *)
(* moment, looks names up and writes one row, in statements of their own.  *)
(* Everything else names rows by id, and ids are used again.               *)
(*                                                                         *)
(* A role has one access level here, for roles and users alike: the levels *)
(* for sessions and bans are never looked at by these handlers.            *)
(***************************************************************************)
EXTENDS Integers

CONSTANTS
  Requests,      \* requests to /admin/roles/ and /admin/users/ at a time
  RoleNames, UserNames, Passwords,
  KeepPassword,  \* an empty password in an edit of a user
  MaxRoles,      \* bound: the largest id of a role
  MaxUsers,      \* bound: the largest id of a user
  Births,        \* history: creations that rows and requests come from
  NoRow,         \* no row with this id
  RoleInputs,    \* bodies of requests about roles that are tried
  UserInputs     \* bodies of requests about users that are tried

accessNone   == 0
accessView   == 1
accessManage == 2

RoleIds == 1..MaxRoles
UserIds == 1..MaxUsers

\* The id 0 of Go's zero values: nothing found, or a row yet to be made.
None == 0

\* parseAdminRoleRequest lets no role through that may manage roles or users.
RoleInfos == [name : RoleNames, admin : BOOLEAN, access : {accessNone, accessView}]

UserInfos == [name : UserNames, password : Passwords \cup {KeepPassword}, role : RoleNames]

RoleRows == [name : RoleNames, admin : BOOLEAN, access : {accessNone, accessView},
             birth : Births]
UserRows == [name : UserNames, hash : Passwords, role : RoleIds, birth : Births]

ASSUME BoundAssumption == MaxRoles \in Nat /\ MaxUsers \in Nat
ASSUME InputAssumption == RoleInputs \subseteq RoleInfos /\ UserInputs \subseteq UserInfos
ASSUME NoRowAssumption ==
  NoRow \notin RoleRows /\ NoRow \notin UserRows /\ KeepPassword \notin Passwords

VARIABLES
  roles,       \* the table of roles
  users,       \* the table of users
  configAdmin, \* the process was started with an administrator of its own
  req          \* what each request does next

vars == <<roles, users, configAdmin, req>>

Idle == [pc |-> "idle"]

Pending ==
  {Idle}
    \cup [pc : {"roleName", "writeRole"}, id : RoleIds \cup {None}, info : RoleInfos]
    \cup [pc : {"deleteRole"}, id : RoleIds]
    \cup [pc : {"findRole"}, id : UserIds \cup {None}, info : UserInfos]
    \cup [pc : {"userName", "writeUser"}, id : UserIds \cup {None}, info : UserInfos,
          role : RoleIds, birth : Births]
    \cup [pc : {"deleteUser"}, id : UserIds]
    \cup [pc : {"password"}, id : UserIds, birth : Births, password : Passwords]

\* Rows and requests hold what their columns and fields are for; above all
\* no row or request refers to the id 0.
TypeOK ==
  /\ roles \in [RoleIds -> RoleRows \cup {NoRow}]
  /\ users \in [UserIds -> UserRows \cup {NoRow}]
  /\ configAdmin \in BOOLEAN
  /\ req \in [Requests -> Pending]

Init ==
  /\ roles = [i \in RoleIds |-> NoRow]
  /\ users = [i \in UserIds |-> NoRow]
  /\ configAdmin \in BOOLEAN
  /\ req = [w \in Requests |-> Idle]

-----------------------------------------------------------------------------
(* The statements.                                                         *)

RolesUsed == {i \in RoleIds : roles[i] # NoRow}
UsersUsed == {i \in UserIds : users[i] # NoRow}

AdminQueryRoleByName(name) == {i \in RolesUsed : roles[i].name = name}

\* JOIN roles: a user without a role would not be found.
AdminQueryUserByName(name) ==
  {i \in UsersUsed : users[i].name = name /\ users[i].role \in RolesUsed}

\* An INTEGER PRIMARY KEY without AUTOINCREMENT: one more than the largest.
IsNewId(id, used) ==
  /\ \A i \in used : i < id
  /\ id = 1 \/ id - 1 \in used

\* name TEXT UNIQUE
RoleNameFree(id, name) == \A i \in RolesUsed \ {id} : roles[i].name # name
UserNameFree(id, name) == \A i \in UsersUsed \ {id} : users[i].name # name

\* History only: a birth no row and no request remembers.
FreshRoleBirth(b) ==
  /\ \A i \in RolesUsed : roles[i].birth # b
  /\ \A w \in Requests : req[w].pc \in {"userName", "writeUser"} => req[w].birth # b

FreshUserBirth(b) ==
  /\ \A i \in UsersUsed : users[i].birth # b
  /\ \A w \in Requests : req[w].pc = "password" => req[w].birth # b

-----------------------------------------------------------------------------
(* Login and permissions.                                                  *)

ConfigContext == [userId |-> None, admin |-> TRUE, access |-> accessNone]

UserContext(i) ==
  [userId |-> i, admin |-> roles[users[i].role].admin, access |-> roles[users[i].role].access]

\* The contexts checkAdminCredentials gives out at this moment: for every
\* account there is a client who knows its name and password.
Contexts ==
  {UserContext(i) : i \in {j \in UsersUsed : j \in AdminQueryUserByName(users[j].name)}}
    \cup (IF configAdmin THEN {ConfigContext} ELSE {})

clampAccess(access) == IF access >= accessView THEN accessView ELSE accessNone

adminAccessAny(ctx, access) == ctx.admin \/ clampAccess(ctx.access) # accessNone

adminAccess(ctx, access) == ctx.admin \/ clampAccess(ctx.access) >= access

Continue(w, p) == req' = [req EXCEPT ![w] = p]

\* A request that may manage roles and users has logged in.
Manage(w, p) ==
  /\ req[w] = Idle
  /\ \E ctx \in Contexts : adminAccess(ctx, accessManage)
  /\ Continue(w, p)
  /\ UNCHANGED <<roles, users, configAdmin>>

Finish(w) == Continue(w, Idle)

\* A refusal, a row that is not there, or a failed statement.
Refuse(w) == Finish(w) /\ UNCHANGED <<roles, users, configAdmin>>

-----------------------------------------------------------------------------
(* Roles.                                                                  *)

CreateRole(w) ==
  \E info \in RoleInputs : Manage(w, [pc |-> "roleName", id |-> None, info |-> info])

EditRole(w) ==
  \E id \in RoleIds, info \in RoleInputs :
    Manage(w, [pc |-> "roleName", id |-> id, info |-> info])

DeleteRole(w) == \E id \in RoleIds : Manage(w, [pc |-> "deleteRole", id |-> id])

\* Another role has the name: refused.
CheckRoleName(w) ==
  /\ req[w].pc = "roleName"
  /\ IF AdminQueryRoleByName(req[w].info.name) \subseteq {req[w].id}
       THEN Continue(w, [req[w] EXCEPT !.pc = "writeRole"])
       ELSE Finish(w)
  /\ UNCHANGED <<roles, users, configAdmin>>

RoleRow(info, birth) ==
  [name |-> info.name, admin |-> info.admin, access |-> info.access, birth |-> birth]

AdminCreateRole(w) ==
  /\ req[w].pc = "writeRole" /\ req[w].id = None
  /\ RoleNameFree(None, req[w].info.name)
  /\ \E id \in RoleIds, birth \in Births :
       /\ IsNewId(id, RolesUsed)
       /\ FreshRoleBirth(birth)
       /\ roles' = [roles EXCEPT ![id] = RoleRow(req[w].info, birth)]
  /\ Finish(w)
  /\ UNCHANGED <<users, configAdmin>>

AdminUpdateRole(w) ==
  /\ req[w].pc = "writeRole" /\ req[w].id \in RolesUsed
  /\ RoleNameFree(req[w].id, req[w].info.name)
  /\ roles' = [roles EXCEPT ![req[w].id] = RoleRow(req[w].info, @.birth)]
  /\ Finish(w)
  /\ UNCHANGED <<users, configAdmin>>

\* The row is not there, or the name is not unique any more.
WriteRoleFails(w) ==
  /\ req[w].pc = "writeRole"
  /\ \/ req[w].id # None /\ req[w].id \notin RolesUsed
     \/ ~ RoleNameFree(req[w].id, req[w].info.name)
  /\ Refuse(w)

AdminDeleteRoleUnchecked(w) ==
  /\ req[w].pc = "deleteRole" /\ req[w].id \in RolesUsed
  /\ roles' = [roles EXCEPT ![req[w].id] = NoRow]
  /\ Finish(w)
  /\ UNCHANGED <<users, configAdmin>>

\* Foreign keys are on: a role somebody has is not deleted.
AdminDeleteRole(w) ==
  /\ req[w].pc = "deleteRole" /\ req[w].id \in RolesUsed
  /\ \A i \in UsersUsed : users[i].role # req[w].id
  /\ roles' = [roles EXCEPT ![req[w].id] = NoRow]
  /\ Finish(w)
  /\ UNCHANGED <<users, configAdmin>>

DeleteRoleFails(w) ==
  /\ req[w].pc = "deleteRole"
  /\ \/ req[w].id \notin RolesUsed
     \/ \E i \in UsersUsed : users[i].role = req[w].id
  /\ Refuse(w)

-----------------------------------------------------------------------------
(* Users.                                                                  *)

CreateUser(w) ==
  \E info \in UserInputs :
    /\ info.password # KeepPassword
    /\ Manage(w, [pc |-> "findRole", id |-> None, info |-> info])

EditUser(w) ==
  \E id \in UserIds, info \in UserInputs :
    Manage(w, [pc |-> "findRole", id |-> id, info |-> info])

DeleteUser(w) == \E id \in UserIds : Manage(w, [pc |-> "deleteUser", id |-> id])

FindRoleUnchecked(w) ==
  /\ req[w].pc = "findRole"
  /\ LET found == AdminQueryRoleByName(req[w].info.role) IN
       \E i \in found \cup {None}, b \in Births :
         /\ i \in found => b = roles[i].birth
         /\ found # {} => i \in found
         /\ Continue(w, [pc |-> "userName", id |-> req[w].id, info |-> req[w].info,
                         role |-> i, birth |-> b])
  /\ UNCHANGED <<roles, users, configAdmin>>

\* The role of that name has this id for now.
FindRole(w) ==
  /\ req[w].pc = "findRole"
  /\ LET found == AdminQueryRoleByName(req[w].info.role) IN
       \/ \E i \in found :
            Continue(w, [pc |-> "userName", id |-> req[w].id, info |-> req[w].info,
                         role |-> i, birth |-> roles[i].birth])
       \/ found = {} /\ Finish(w)
  /\ UNCHANGED <<roles, users, configAdmin>>

\* Another user has the name: refused.
CheckUserName(w) ==
  /\ req[w].pc = "userName"
  /\ IF AdminQueryUserByName(req[w].info.name) \subseteq {req[w].id}
       THEN Continue(w, [req[w] EXCEPT !.pc = "writeUser"])
       ELSE Finish(w)
  /\ UNCHANGED <<roles, users, configAdmin>>

AdminCreateUser(w) ==
  /\ req[w].pc = "writeUser" /\ req[w].id = None
  /\ UserNameFree(None, req[w].info.name)
  /\ req[w].role \in RolesUsed
  /\ \E id \in UserIds, birth \in Births :
       /\ IsNewId(id, UsersUsed)
       /\ FreshUserBirth(birth)
       /\ users' = [users EXCEPT ![id] =
                      [name |-> req[w].info.name, hash |-> req[w].info.password,
                       role |-> req[w].role, birth |-> birth]]
  /\ Finish(w)
  /\ UNCHANGED <<roles, configAdmin>>

NewHash(row, info) == IF info.password = KeepPassword THEN row.hash ELSE info.password

AdminUpdateUserSwapped(w) ==
  /\ req[w].pc = "writeUser" /\ req[w].role \in UsersUsed
  /\ UserNameFree(req[w].role, req[w].info.name)
  /\ req[w].id \in RolesUsed
  /\ users' = [users EXCEPT ![req[w].role] =
                 [@ EXCEPT !.name = req[w].info.name, !.role = req[w].id,
                           !.hash = NewHash(users[req[w].role], req[w].info)]]
  /\ Finish(w)
  /\ UNCHANGED <<roles, configAdmin>>

AdminUpdateUser(w) ==
  /\ req[w].pc = "writeUser" /\ req[w].id \in UsersUsed
  /\ UserNameFree(req[w].id, req[w].info.name)
  /\ req[w].role \in RolesUsed
  /\ users' = [users EXCEPT ![req[w].id] =
                 [@ EXCEPT !.name = req[w].info.name, !.role = req[w].role,
                           !.hash = NewHash(users[req[w].id], req[w].info)]]
  /\ Finish(w)
  /\ UNCHANGED <<roles, configAdmin>>

\* The user or the role is gone, or the name is not unique any more.
WriteUserFails(w) ==
  /\ req[w].pc = "writeUser"
  /\ \/ req[w].id # None /\ req[w].id \notin UsersUsed
     \/ ~ UserNameFree(req[w].id, req[w].info.name)
     \/ req[w].role \notin RolesUsed
  /\ Refuse(w)

AdminDeleteUser(w) ==
  /\ req[w].pc = "deleteUser"
  /\ users' = [users EXCEPT ![req[w].id] = NoRow]
  /\ Finish(w)
  /\ UNCHANGED <<roles, configAdmin>>

-----------------------------------------------------------------------------
(* The own password.                                                       *)

\* Any account may; the administrator of the process has none to change.
ChangePassword(w) ==
  /\ req[w] = Idle
  /\ \E ctx \in Contexts, password \in Passwords :
       /\ ctx.userId # None
       /\ Continue(w, [pc |-> "password", id |-> ctx.userId,
                       birth |-> users[ctx.userId].birth, password |-> password])
  /\ UNCHANGED <<roles, users, configAdmin>>

AdminUpdateUserPasswordAll(w) ==
  /\ req[w].pc = "password"
  /\ users' = [i \in UserIds |-> IF i \in UsersUsed
                                   THEN [users[i] EXCEPT !.hash = req[w].password]
                                   ELSE NoRow]
  /\ Finish(w)
  /\ UNCHANGED <<roles, configAdmin>>

\* UPDATE users SET password_hash WHERE id: of nobody, if the id is gone.
AdminUpdateUserPassword(w) ==
  /\ req[w].pc = "password"
  /\ users' = [users EXCEPT ![req[w].id] =
                 IF @ = NoRow THEN NoRow ELSE [@ EXCEPT !.hash = req[w].password]]
  /\ Finish(w)
  /\ UNCHANGED <<roles, configAdmin>>

-----------------------------------------------------------------------------

\* A statement fails, the client goes away, or the room for ids is used up.
DbError(w) == req[w] # Idle /\ Refuse(w)

\* The process ends, and starts with or without DRAWPILE_LISTSERVER_USER.
Restart ==
  /\ req' = [w \in Requests |-> Idle]
  /\ configAdmin' \in BOOLEAN
  /\ UNCHANGED <<roles, users>>

RoleStep(w) ==
  \/ CreateRole(w) \/ EditRole(w) \/ DeleteRole(w) \/ CheckRoleName(w)
  \/ AdminCreateRole(w) \/ AdminUpdateRole(w) \/ WriteRoleFails(w)
  \/ AdminDeleteRole(w) \/ DeleteRoleFails(w)

UserStep(w) ==
  \/ CreateUser(w) \/ EditUser(w) \/ DeleteUser(w) \/ FindRole(w) \/ CheckUserName(w)
  \/ AdminCreateUser(w) \/ AdminUpdateUser(w) \/ WriteUserFails(w)
  \/ AdminDeleteUser(w) \/ ChangePassword(w) \/ AdminUpdateUserPassword(w)

Next == Restart \/ \E w \in Requests : RoleStep(w) \/ UserStep(w) \/ DbError(w)

Spec == Init /\ [][Next]_vars

-----------------------------------------------------------------------------
(* Correctness.                                                            *)

\* A name stands for one role or account, and the login finds every account:
\* check and write are separate statements, but concurrent requests neither
\* make two rows of a name nor leave a user without a role, whom the JOIN
\* would hide from the login and the lists (endpoints.go:734-793,
\* db/db_sqlite.go:1066).
NamesResolve ==
  /\ \A i \in RolesUsed : AdminQueryRoleByName(roles[i].name) = {i}
  /\ \A i \in UsersUsed : AdminQueryUserByName(users[i].name) = {i}

\* The role a user is given is the one its name was looked up for, however
\* roles are renamed, deleted and created in between, unless that role is
\* deleted: then its id may be another's (endpoints.go:734, 783).
RoleAsNamed ==
  [][\A w \in Requests, i \in UserIds :
       /\ req[w].pc = "writeUser" /\ req'[w] = Idle /\ users'[i] # users[i]
       /\ \E j \in RolesUsed : roles[j].birth = req[w].birth
       => roles[users'[i].role].birth = req[w].birth]_vars

\* A change of the own password is not written to another account, however
\* users are renamed, deleted and created since the login, unless the own
\* account is deleted: then its id may be another's (endpoints.go:889-918).
OwnPasswordOnly ==
  [][\A w \in Requests, i \in UserIds :
       /\ req[w].pc = "password" /\ req'[w] = Idle /\ users'[i] # users[i]
       /\ \E j \in UsersUsed : users[j].birth = req[w].birth
       => users[i] # NoRow /\ users[i].birth = req[w].birth]_vars

\* Nobody is an administrator, nor was when a request under way logged in.
NoAuthority ==
  /\ ~ configAdmin
  /\ \A i \in UsersUsed : ~ roles[users[i].role].admin
  /\ \A w \in Requests : req[w].pc \in {"idle", "password"}

\* Authority is not gained: once nobody is an administrator and requests of
\* former ones are over, the accounts can change nothing but passwords, until
\* the process is started with an administrator (adminauth.go:98-115).
AuthorityNotGained ==
  [][NoAuthority =>
       /\ roles' = roles
       /\ \A i \in UserIds : \/ users'[i] = users[i]
                             \/ users[i] # NoRow /\ \E p \in Passwords :
                                  users'[i] = [users[i] EXCEPT !.hash = p]
       /\ NoAuthority' \/ configAdmin']_vars

=============================================================================
