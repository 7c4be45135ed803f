--------------------------- MODULE AccountsProofs ---------------------------
(***************************************************************************)
(* Proofs about Accounts, for any names, passwords and inputs and any      *)
(* number of concurrent requests.                                          *)
(***************************************************************************)
EXTENDS Accounts, TLAPS

-----------------------------------------------------------------------------
(* What one step does to a request and to a table.                         *)

\* The value of pc tells the kind of a pending request.
LEMMA PendingKinds ==
  ASSUME NEW p \in Pending
  PROVE  /\ p.pc \in {"roleName", "writeRole"} =>
              p \in [pc : {"roleName", "writeRole"}, id : RoleIds \cup {None}, info : RoleInfos]
         /\ p.pc = "deleteRole" => p \in [pc : {"deleteRole"}, id : RoleIds]
         /\ p.pc = "findRole" =>
              p \in [pc : {"findRole"}, id : UserIds \cup {None}, info : UserInfos]
         /\ p.pc \in {"userName", "writeUser"} =>
              p \in [pc : {"userName", "writeUser"}, id : UserIds \cup {None},
                     info : UserInfos, role : RoleIds, birth : Births]
         /\ p.pc = "deleteUser" => p \in [pc : {"deleteUser"}, id : UserIds]
         /\ p.pc = "password" =>
              p \in [pc : {"password"}, id : UserIds, birth : Births, password : Passwords]
         /\ p.pc = "idle" => p = Idle
BY DEF Pending, Idle

\* Only the request that acts changes.
LEMMA ContinueChanges ==
  ASSUME TypeOK, NEW w \in Requests, NEW p \in Pending, Continue(w, p)
  PROVE  /\ req' \in [Requests -> Pending]
         /\ req'[w] = p
         /\ \A v \in Requests \ {w} : req'[v] = req[v]
BY DEF TypeOK, Continue

LEMMA FinishChanges ==
  ASSUME TypeOK, NEW w \in Requests, Finish(w)
  PROVE  /\ req' \in [Requests -> Pending]
         /\ req'[w] = Idle
         /\ \A v \in Requests \ {w} : req'[v] = req[v]
<1>1. Idle \in Pending
  BY DEF Pending
<1> QED BY <1>1, ContinueChanges DEF Finish

LEMMA RolePut ==
  ASSUME TypeOK, NEW id \in RoleIds, NEW row \in RoleRows,
         roles' = [roles EXCEPT ![id] = row]
  PROVE  /\ roles' \in [RoleIds -> RoleRows \cup {NoRow}]
         /\ RolesUsed' = RolesUsed \cup {id}
         /\ roles'[id] = row
         /\ \A i \in RoleIds \ {id} : roles'[i] = roles[i]
<1>1. row # NoRow
  BY NoRowAssumption
<1> QED BY <1>1 DEF TypeOK, RolesUsed

LEMMA RoleCut ==
  ASSUME TypeOK, NEW id \in RoleIds, roles' = [roles EXCEPT ![id] = NoRow]
  PROVE  /\ roles' \in [RoleIds -> RoleRows \cup {NoRow}]
         /\ RolesUsed' = RolesUsed \ {id}
         /\ \A i \in RolesUsed' : roles'[i] = roles[i]
BY DEF TypeOK, RolesUsed

LEMMA UserPut ==
  ASSUME TypeOK, NEW id \in UserIds, NEW row \in UserRows,
         users' = [users EXCEPT ![id] = row]
  PROVE  /\ users' \in [UserIds -> UserRows \cup {NoRow}]
         /\ UsersUsed' = UsersUsed \cup {id}
         /\ users'[id] = row
         /\ \A i \in UserIds \ {id} : users'[i] = users[i]
<1>1. row # NoRow
  BY NoRowAssumption
<1> QED BY <1>1 DEF TypeOK, UsersUsed

LEMMA UserCut ==
  ASSUME TypeOK, NEW id \in UserIds, users' = [users EXCEPT ![id] = NoRow]
  PROVE  /\ users' \in [UserIds -> UserRows \cup {NoRow}]
         /\ UsersUsed' = UsersUsed \ {id}
         /\ \A i \in UsersUsed' : users'[i] = users[i]
BY DEF TypeOK, UsersUsed

\* Rows are rows.
LEMMA UsedRows ==
  ASSUME TypeOK
  PROVE  /\ \A i \in RolesUsed : i \in RoleIds /\ roles[i] \in RoleRows
         /\ \A i \in UsersUsed : i \in UserIds /\ users[i] \in UserRows
BY DEF TypeOK, RolesUsed, UsersUsed

\* A new id is not in the table.
LEMMA NewIdUnused ==
  ASSUME NEW used, used \subseteq Int, NEW id \in Int, IsNewId(id, used)
  PROVE  id \notin used
BY DEF IsNewId

-----------------------------------------------------------------------------
(* The writes, each as what it does to a table.                            *)

LEMMA CreateRoleWrites ==
  ASSUME TypeOK, NEW w \in Requests, AdminCreateRole(w)
  PROVE  /\ roles' \in [RoleIds -> RoleRows \cup {NoRow}]
         /\ \E id \in RoleIds \ RolesUsed :
              /\ RolesUsed' = RolesUsed \cup {id}
              /\ \A i \in RoleIds \ {id} : roles'[i] = roles[i]
              /\ \A i \in RolesUsed : roles[i].name # roles'[id].name
              /\ FreshRoleBirth(roles'[id].birth)
<1> DEFINE info == req[w].info
<1>1. info \in RoleInfos
  BY PendingKinds DEF AdminCreateRole, TypeOK
<1>2. PICK id \in RoleIds, birth \in Births :
        /\ IsNewId(id, RolesUsed)
        /\ FreshRoleBirth(birth)
        /\ roles' = [roles EXCEPT ![id] = RoleRow(info, birth)]
  BY DEF AdminCreateRole
<1>3. id \notin RolesUsed
  BY <1>2, NewIdUnused DEF RolesUsed, RoleIds
<1>4. /\ RoleRow(info, birth) \in RoleRows
      /\ RoleRow(info, birth).name = info.name
      /\ RoleRow(info, birth).birth = birth
  BY <1>1 DEF RoleRow, RoleRows, RoleInfos
<1>5. \A i \in RolesUsed : roles[i].name # info.name
  BY DEF AdminCreateRole, RoleNameFree, None, RolesUsed, RoleIds
<1> HIDE DEF info
<1> QED BY <1>2, <1>3, <1>4, <1>5, RolePut

LEMMA UpdateRoleWrites ==
  ASSUME TypeOK, NEW w \in Requests, AdminUpdateRole(w)
  PROVE  /\ roles' \in [RoleIds -> RoleRows \cup {NoRow}]
         /\ \E id \in RolesUsed :
              /\ RolesUsed' = RolesUsed
              /\ \A i \in RoleIds \ {id} : roles'[i] = roles[i]
              /\ roles'[id].birth = roles[id].birth
              /\ \A i \in RolesUsed \ {id} : roles[i].name # roles'[id].name
<1> DEFINE info == req[w].info
           id == req[w].id
           row == RoleRow(info, roles[id].birth)
<1>1. info \in RoleInfos
  BY PendingKinds DEF AdminUpdateRole, TypeOK
<1>2. id \in RolesUsed /\ id \in RoleIds /\ roles[id] \in RoleRows
  BY UsedRows DEF AdminUpdateRole
<1>3. row \in RoleRows /\ row.name = info.name /\ row.birth = roles[id].birth
  BY <1>1, <1>2 DEF RoleRow, RoleRows, RoleInfos
<1>4. roles' = [roles EXCEPT ![id] = row]
  BY <1>2 DEF AdminUpdateRole, TypeOK
<1>5. \A i \in RolesUsed \ {id} : roles[i].name # info.name
  BY DEF AdminUpdateRole, RoleNameFree
<1> HIDE DEF info, id, row
<1>6. /\ roles' \in [RoleIds -> RoleRows \cup {NoRow}]
      /\ RolesUsed' = RolesUsed \cup {id}
      /\ roles'[id] = row
      /\ \A i \in RoleIds \ {id} : roles'[i] = roles[i]
  BY <1>2, <1>3, <1>4, RolePut
<1> QED BY <1>2, <1>3, <1>5, <1>6

\* Only an edit may leave the password as it is.
PasswordGiven ==
  \A w \in Requests :
    req[w].pc \in {"findRole", "userName", "writeUser"} /\ req[w].id = None
      => req[w].info.password # KeepPassword

LEMMA CreateUserWrites ==
  ASSUME TypeOK, PasswordGiven, NEW w \in Requests, AdminCreateUser(w)
  PROVE  /\ users' \in [UserIds -> UserRows \cup {NoRow}]
         /\ \E id \in UserIds \ UsersUsed :
              /\ UsersUsed' = UsersUsed \cup {id}
              /\ \A i \in UserIds \ {id} : users'[i] = users[i]
              /\ \A i \in UsersUsed : users[i].name # users'[id].name
              /\ FreshUserBirth(users'[id].birth)
              /\ users'[id].role = req[w].role
              /\ users'[id].role \in RolesUsed
<1> DEFINE info == req[w].info
           row(birth) == [name |-> info.name, hash |-> info.password,
                          role |-> req[w].role, birth |-> birth]
<1>1. info \in UserInfos /\ req[w].role \in RoleIds
  BY PendingKinds DEF AdminCreateUser, TypeOK
<1>2. info.password \in Passwords
  BY <1>1 DEF PasswordGiven, AdminCreateUser, UserInfos
<1>3. PICK id \in UserIds, birth \in Births :
        /\ IsNewId(id, UsersUsed)
        /\ FreshUserBirth(birth)
        /\ users' = [users EXCEPT ![id] = row(birth)]
  BY DEF AdminCreateUser
<1>4. id \notin UsersUsed
  BY <1>3, NewIdUnused DEF UsersUsed, UserIds
<1>5. row(birth) \in UserRows
  BY <1>1, <1>2 DEF UserRows, UserInfos
<1>6. \A i \in UsersUsed : users[i].name # info.name
  BY DEF AdminCreateUser, UserNameFree, None, UsersUsed, UserIds
<1>7. req[w].role \in RolesUsed
  BY DEF AdminCreateUser
<1>8. /\ row(birth).name = info.name
      /\ row(birth).role = req[w].role
      /\ row(birth).birth = birth
  OBVIOUS
<1> HIDE DEF info, row
<1>9. /\ users' \in [UserIds -> UserRows \cup {NoRow}]
      /\ UsersUsed' = UsersUsed \cup {id}
      /\ users'[id] = row(birth)
      /\ \A i \in UserIds \ {id} : users'[i] = users[i]
  BY <1>3, <1>5, UserPut
<1>10. FreshUserBirth(users'[id].birth)
  BY <1>3, <1>8, <1>9
<1> QED BY <1>4, <1>6, <1>7, <1>8, <1>9, <1>10

LEMMA UpdateUserWrites ==
  ASSUME TypeOK, NEW w \in Requests, AdminUpdateUser(w)
  PROVE  /\ users' \in [UserIds -> UserRows \cup {NoRow}]
         /\ \E id \in UsersUsed :
              /\ UsersUsed' = UsersUsed
              /\ \A i \in UserIds \ {id} : users'[i] = users[i]
              /\ \A i \in UsersUsed \ {id} : users[i].name # users'[id].name
              /\ users'[id].birth = users[id].birth
              /\ users'[id].role = req[w].role
              /\ users'[id].role \in RolesUsed
<1> DEFINE info == req[w].info
           id == req[w].id
           row == [users[id] EXCEPT !.name = info.name, !.role = req[w].role,
                                    !.hash = NewHash(users[id], info)]
<1>1. info \in UserInfos /\ req[w].role \in RoleIds
  BY PendingKinds DEF AdminUpdateUser, TypeOK
<1>2. id \in UsersUsed /\ id \in UserIds /\ users[id] \in UserRows
  BY UsedRows DEF AdminUpdateUser
<1>3. NewHash(users[id], info) \in Passwords
  BY <1>1, <1>2 DEF NewHash, UserInfos, UserRows
<1>4. /\ row \in UserRows
      /\ row.name = info.name
      /\ row.role = req[w].role
      /\ row.birth = users[id].birth
  BY <1>1, <1>2, <1>3 DEF UserRows, UserInfos
<1>5. users' = [users EXCEPT ![id] = row]
  BY <1>2 DEF AdminUpdateUser, TypeOK
<1>6. \A i \in UsersUsed \ {id} : users[i].name # info.name
  BY DEF AdminUpdateUser, UserNameFree
<1>7. req[w].role \in RolesUsed
  BY DEF AdminUpdateUser
<1> HIDE DEF info, id, row
<1>8. /\ users' \in [UserIds -> UserRows \cup {NoRow}]
      /\ UsersUsed' = UsersUsed \cup {id}
      /\ users'[id] = row
      /\ \A i \in UserIds \ {id} : users'[i] = users[i]
  BY <1>2, <1>4, <1>5, UserPut
<1> QED BY <1>2, <1>4, <1>6, <1>7, <1>8

LEMMA UpdatePasswordWrites ==
  ASSUME TypeOK, NEW w \in Requests, AdminUpdateUserPassword(w)
  PROVE  /\ users' \in [UserIds -> UserRows \cup {NoRow}]
         /\ UsersUsed' = UsersUsed
         /\ req[w].id \in UserIds /\ req[w].password \in Passwords
         /\ \A i \in UserIds \ {req[w].id} : users'[i] = users[i]
         /\ \A i \in UsersUsed :
              /\ users'[i].name = users[i].name
              /\ users'[i].role = users[i].role
              /\ users'[i].birth = users[i].birth
         /\ \/ users'[req[w].id] = users[req[w].id]
            \/ /\ req[w].id \in UsersUsed
               /\ users'[req[w].id] = [users[req[w].id] EXCEPT !.hash = req[w].password]
<1> DEFINE id == req[w].id
           row == [users[id] EXCEPT !.hash = req[w].password]
<1>1. id \in UserIds /\ req[w].password \in Passwords
  BY PendingKinds DEF AdminUpdateUserPassword, TypeOK
<1>2. CASE id \in UsersUsed
  <2>1. users[id] \in UserRows /\ users[id] # NoRow
    BY <1>2, UsedRows DEF UsersUsed
  <2>2. row \in UserRows /\ row.name = users[id].name /\ row.role = users[id].role
        /\ row.birth = users[id].birth
    BY <1>1, <2>1 DEF UserRows
  <2>3. users' = [users EXCEPT ![id] = row]
    BY <1>1, <2>1 DEF AdminUpdateUserPassword, TypeOK
  <2>4. /\ users' \in [UserIds -> UserRows \cup {NoRow}]
        /\ UsersUsed' = UsersUsed \cup {id}
        /\ users'[id] = row
        /\ \A i \in UserIds \ {id} : users'[i] = users[i]
    BY <1>1, <2>2, <2>3, UserPut
  <2>5. \A i \in UsersUsed : i \in UserIds
    BY DEF UsersUsed
  <2> QED BY <1>1, <1>2, <2>2, <2>4, <2>5
<1>3. CASE id \notin UsersUsed
  <2>1. users' = users
    BY <1>1, <1>3 DEF AdminUpdateUserPassword, TypeOK, UsersUsed
  <2> QED BY <1>1, <2>1 DEF TypeOK, UsersUsed
<1> QED BY <1>2, <1>3

-----------------------------------------------------------------------------
(* The inductive invariant.  Names and births are unique in both tables,   *)
(* and what a request remembers by id is not under another id.             *)

UniqueNames ==
  /\ \A i, j \in RolesUsed : roles[i].name = roles[j].name => i = j
  /\ \A i, j \in UsersUsed : users[i].name = users[j].name => i = j

RolesExist == \A i \in UsersUsed : users[i].role \in RolesUsed

OneBirth ==
  /\ \A i, j \in RolesUsed : roles[i].birth = roles[j].birth => i = j
  /\ \A i, j \in UsersUsed : users[i].birth = users[j].birth => i = j

Recalled(p) ==
  /\ p.pc \in {"userName", "writeUser"} =>
       \A i \in RolesUsed : roles[i].birth = p.birth => i = p.role
  /\ p.pc = "password" =>
       \A i \in UsersUsed : users[i].birth = p.birth => i = p.id

Remembered == \A w \in Requests : Recalled(req[w])

Inv == TypeOK /\ PasswordGiven /\ UniqueNames /\ RolesExist /\ OneBirth /\ Remembered

\* One role is written, kept in name and birth as the writes above keep it.
RoleWritten ==
  /\ roles' \in [RoleIds -> RoleRows \cup {NoRow}]
  /\ \A i \in UsersUsed : users[i].role \in RolesUsed'
  /\ \E id \in RoleIds :
       /\ \A i \in RolesUsed' \ {id} : i \in RolesUsed /\ roles'[i] = roles[i]
       /\ id \in RolesUsed' =>
            /\ \A i \in RolesUsed \ {id} : roles[i].name # roles'[id].name
            /\ \/ id \in RolesUsed /\ roles'[id].birth = roles[id].birth
               \/ FreshRoleBirth(roles'[id].birth)

UserWritten ==
  /\ users' \in [UserIds -> UserRows \cup {NoRow}]
  /\ \E id \in UserIds :
       /\ \A i \in UsersUsed' \ {id} : i \in UsersUsed /\ users'[i] = users[i]
       /\ id \in UsersUsed' =>
            /\ users'[id].role \in RolesUsed
            /\ \A i \in UsersUsed \ {id} : users[i].name # users'[id].name
            /\ \/ id \in UsersUsed /\ users'[id].birth = users[id].birth
               \/ FreshUserBirth(users'[id].birth)

LEMMA RoleActionsWrite ==
  ASSUME Inv, NEW w \in Requests,
         AdminCreateRole(w) \/ AdminUpdateRole(w) \/ AdminDeleteRole(w)
  PROVE  RoleWritten
<1>0. TypeOK /\ RolesExist /\ \A i \in RolesUsed : i \in RoleIds
  BY UsedRows DEF Inv
<1>1. CASE AdminCreateRole(w)
  BY <1>0, <1>1, CreateRoleWrites DEF RoleWritten, RolesExist
<1>2. CASE AdminUpdateRole(w)
  BY <1>0, <1>2, UpdateRoleWrites DEF RoleWritten, RolesExist
<1>3. CASE AdminDeleteRole(w)
  <2>1. req[w].id \in RoleIds /\ roles' = [roles EXCEPT ![req[w].id] = NoRow]
    BY <1>0, <1>3 DEF AdminDeleteRole
  <2>2. /\ roles' \in [RoleIds -> RoleRows \cup {NoRow}]
        /\ RolesUsed' = RolesUsed \ {req[w].id}
        /\ \A i \in RolesUsed' : roles'[i] = roles[i]
    BY <1>0, <2>1, RoleCut
  <2>3. \A i \in UsersUsed : users[i].role # req[w].id
    BY <1>3 DEF AdminDeleteRole
  <2> QED BY <1>0, <2>1, <2>2, <2>3 DEF RoleWritten, RolesExist
<1> QED BY <1>1, <1>2, <1>3

LEMMA UserActionsWrite ==
  ASSUME Inv, NEW w \in Requests,
         \/ AdminCreateUser(w) \/ AdminUpdateUser(w)
         \/ AdminDeleteUser(w) \/ AdminUpdateUserPassword(w)
  PROVE  UserWritten
<1>0. /\ TypeOK /\ PasswordGiven /\ RolesExist /\ UniqueNames
      /\ \A i \in UsersUsed : i \in UserIds
  BY UsedRows DEF Inv
<1>1. CASE AdminCreateUser(w)
  BY <1>0, <1>1, CreateUserWrites DEF UserWritten
<1>2. CASE AdminUpdateUser(w)
  BY <1>0, <1>2, UpdateUserWrites DEF UserWritten
<1>3. CASE AdminDeleteUser(w)
  <2>1. req[w].id \in UserIds /\ users' = [users EXCEPT ![req[w].id] = NoRow]
    BY <1>0, <1>3, PendingKinds DEF AdminDeleteUser, TypeOK
  <2> QED BY <1>0, <2>1, UserCut DEF UserWritten
<1>4. CASE AdminUpdateUserPassword(w)
  <2> DEFINE id == req[w].id
  <2>1. /\ users' \in [UserIds -> UserRows \cup {NoRow}]
        /\ UsersUsed' = UsersUsed
        /\ id \in UserIds
        /\ \A i \in UserIds \ {id} : users'[i] = users[i]
        /\ \A i \in UsersUsed :
             /\ users'[i].name = users[i].name
             /\ users'[i].role = users[i].role
             /\ users'[i].birth = users[i].birth
    BY <1>0, <1>4, UpdatePasswordWrites
  <2> HIDE DEF id
  <2> QED BY <1>0, <2>1 DEF UserWritten, RolesExist, UniqueNames
<1> QED BY <1>1, <1>2, <1>3, <1>4

-----------------------------------------------------------------------------
(* The three kinds of steps keep the invariant.                            *)

\* A request goes on, with what it remembers true of the tables.
LEMMA QuietKeeps ==
  ASSUME Inv, NEW w \in Requests, NEW p \in Pending, Continue(w, p),
         UNCHANGED <<roles, users, configAdmin>>,
         Recalled(p),
         p.pc \in {"findRole", "userName", "writeUser"} /\ p.id = None
           => p.info.password # KeepPassword
  PROVE  Inv'
<1>1. /\ req' \in [Requests -> Pending]
      /\ req'[w] = p
      /\ \A v \in Requests \ {w} : req'[v] = req[v]
  BY ContinueChanges DEF Inv
<1>2. RolesUsed' = RolesUsed /\ UsersUsed' = UsersUsed
  BY DEF RolesUsed, UsersUsed
<1>3. TypeOK'
  BY <1>1 DEF Inv, TypeOK
<1>4. PasswordGiven'
  BY <1>1 DEF Inv, PasswordGiven
<1>5. UniqueNames' /\ RolesExist' /\ OneBirth'
  BY <1>2 DEF Inv, UniqueNames, RolesExist, OneBirth
<1>6. Remembered'
  BY <1>1, <1>2 DEF Inv, Remembered, Recalled
<1> QED BY <1>3, <1>4, <1>5, <1>6 DEF Inv

\* Requests other than the one that ends keep what they remember.
LEMMA FinishKeeps ==
  ASSUME Inv, NEW w \in Requests, Finish(w)
  PROVE  /\ req' \in [Requests -> Pending]
         /\ PasswordGiven'
         /\ \A v \in Requests : req'[v] = req[v] \/ req'[v] = Idle
<1>1. /\ req' \in [Requests -> Pending]
      /\ \A v \in Requests : req'[v] = req[v] \/ req'[v] = Idle
  BY FinishChanges DEF Inv
<1> QED BY <1>1 DEF Inv, PasswordGiven, Idle

LEMMA RoleWrittenKeeps ==
  ASSUME Inv, NEW w \in Requests, Finish(w), RoleWritten, UNCHANGED <<users, configAdmin>>
  PROVE  Inv'
<1>1. PICK id \in RoleIds :
        /\ \A i \in RolesUsed' \ {id} : i \in RolesUsed /\ roles'[i] = roles[i]
        /\ id \in RolesUsed' =>
             /\ \A i \in RolesUsed \ {id} : roles[i].name # roles'[id].name
             /\ \/ id \in RolesUsed /\ roles'[id].birth = roles[id].birth
                \/ FreshRoleBirth(roles'[id].birth)
  BY DEF RoleWritten
<1>2. /\ req' \in [Requests -> Pending]
      /\ PasswordGiven'
      /\ \A v \in Requests : req'[v] = req[v] \/ req'[v] = Idle
  BY FinishKeeps
<1>3. TypeOK'
  BY <1>2 DEF Inv, TypeOK, RoleWritten
<1>4. UsersUsed' = UsersUsed
  BY DEF UsersUsed
<1>5. UniqueNames'
  BY <1>1, <1>4 DEF Inv, UniqueNames
<1>6. RolesExist'
  BY <1>4 DEF RoleWritten, RolesExist
<1>7. OneBirth'
  BY <1>1, <1>4 DEF Inv, OneBirth, FreshRoleBirth
<1>8. \A v \in Requests : req[v].pc \in {"userName", "writeUser"} =>
        \A i \in RolesUsed' : roles'[i].birth = req[v].birth => i = req[v].role
  BY <1>1 DEF Inv, Remembered, Recalled, FreshRoleBirth
<1>9. Remembered'
  BY <1>2, <1>4, <1>8 DEF Inv, Remembered, Recalled, Idle
<1> QED BY <1>2, <1>3, <1>5, <1>6, <1>7, <1>9 DEF Inv

LEMMA UserWrittenKeeps ==
  ASSUME Inv, NEW w \in Requests, Finish(w), UserWritten, UNCHANGED <<roles, configAdmin>>
  PROVE  Inv'
<1>1. PICK id \in UserIds :
        /\ \A i \in UsersUsed' \ {id} : i \in UsersUsed /\ users'[i] = users[i]
        /\ id \in UsersUsed' =>
             /\ users'[id].role \in RolesUsed
             /\ \A i \in UsersUsed \ {id} : users[i].name # users'[id].name
             /\ \/ id \in UsersUsed /\ users'[id].birth = users[id].birth
                \/ FreshUserBirth(users'[id].birth)
  BY DEF UserWritten
<1>2. /\ req' \in [Requests -> Pending]
      /\ PasswordGiven'
      /\ \A v \in Requests : req'[v] = req[v] \/ req'[v] = Idle
  BY FinishKeeps
<1>3. TypeOK'
  BY <1>2 DEF Inv, TypeOK, UserWritten
<1>4. RolesUsed' = RolesUsed
  BY DEF RolesUsed
<1>5. UniqueNames'
  BY <1>1, <1>4 DEF Inv, UniqueNames
<1>6. RolesExist'
  BY <1>1, <1>4 DEF Inv, RolesExist
<1>7. OneBirth'
  BY <1>1, <1>4 DEF Inv, OneBirth, FreshUserBirth
<1>8. \A v \in Requests : req[v].pc = "password" =>
        \A i \in UsersUsed' : users'[i].birth = req[v].birth => i = req[v].id
  BY <1>1 DEF Inv, Remembered, Recalled, FreshUserBirth
<1>9. Remembered'
  BY <1>2, <1>4, <1>8 DEF Inv, Remembered, Recalled, Idle
<1> QED BY <1>2, <1>3, <1>5, <1>6, <1>7, <1>9 DEF Inv

-----------------------------------------------------------------------------
(* Every action keeps the invariant.                                       *)

LEMMA InputTypes ==
  /\ \A info \in RoleInputs : info \in RoleInfos
  /\ \A info \in UserInputs : info \in UserInfos
BY InputAssumption

LEMMA RefuseKeeps ==
  ASSUME Inv, NEW w \in Requests, Refuse(w)
  PROVE  Inv'
<1>1. Idle \in Pending /\ Recalled(Idle)
  BY DEF Pending, Recalled, Idle
<1> QED BY <1>1, QuietKeeps DEF Refuse, Finish, Idle

LEMMA RoleStepKeeps ==
  ASSUME Inv, NEW w \in Requests, RoleStep(w)
  PROVE  Inv'
<1>1. CASE CreateRole(w)
  <2>1. PICK info \in RoleInputs : Manage(w, [pc |-> "roleName", id |-> None, info |-> info])
    BY <1>1 DEF CreateRole
  <2> DEFINE p == [pc |-> "roleName", id |-> None, info |-> info]
  <2>2. p \in Pending /\ Recalled(p) /\ p.pc = "roleName"
    BY InputTypes DEF Pending, Recalled
  <2> HIDE DEF p
  <2> QED BY <2>1, <2>2, QuietKeeps DEF Manage, p
<1>2. CASE EditRole(w)
  <2>1. PICK id \in RoleIds, info \in RoleInputs :
          Manage(w, [pc |-> "roleName", id |-> id, info |-> info])
    BY <1>2 DEF EditRole
  <2> DEFINE p == [pc |-> "roleName", id |-> id, info |-> info]
  <2>2. p \in Pending /\ Recalled(p) /\ p.pc = "roleName"
    BY InputTypes DEF Pending, Recalled
  <2>3. Continue(w, p) /\ UNCHANGED <<roles, users, configAdmin>>
    BY <2>1 DEF Manage
  <2> HIDE DEF p
  <2> QED BY <2>2, <2>3, QuietKeeps
<1>3. CASE DeleteRole(w)
  <2>1. PICK id \in RoleIds : Manage(w, [pc |-> "deleteRole", id |-> id])
    BY <1>3 DEF DeleteRole
  <2> DEFINE p == [pc |-> "deleteRole", id |-> id]
  <2>2. p \in Pending /\ Recalled(p) /\ p.pc = "deleteRole"
    BY DEF Pending, Recalled
  <2>3. Continue(w, p) /\ UNCHANGED <<roles, users, configAdmin>>
    BY <2>1 DEF Manage
  <2> HIDE DEF p
  <2> QED BY <2>2, <2>3, QuietKeeps
<1>4. CASE CheckRoleName(w)
  <2>1. req[w] \in [pc : {"roleName", "writeRole"}, id : RoleIds \cup {None}, info : RoleInfos]
    BY <1>4, PendingKinds DEF CheckRoleName, Inv, TypeOK
  <2> DEFINE p == [req[w] EXCEPT !.pc = "writeRole"]
  <2>2. p \in Pending /\ Recalled(p) /\ p.pc = "writeRole"
    BY <2>1 DEF Pending, Recalled
  <2>3. CASE Continue(w, p)
    <3>1. UNCHANGED <<roles, users, configAdmin>>
      BY <1>4 DEF CheckRoleName
    <3> HIDE DEF p
    <3> QED BY <2>2, <2>3, <3>1, QuietKeeps
  <2>4. CASE Finish(w)
    BY <1>4, <2>4, RefuseKeeps DEF CheckRoleName, Refuse
  <2> QED BY <1>4, <2>3, <2>4 DEF CheckRoleName
<1>5. CASE AdminCreateRole(w) \/ AdminUpdateRole(w) \/ AdminDeleteRole(w)
  <2>1. RoleWritten
    BY <1>5, RoleActionsWrite
  <2>2. Finish(w) /\ UNCHANGED <<users, configAdmin>>
    BY <1>5 DEF AdminCreateRole, AdminUpdateRole, AdminDeleteRole
  <2> QED BY <2>1, <2>2, RoleWrittenKeeps
<1>6. CASE WriteRoleFails(w) \/ DeleteRoleFails(w)
  BY <1>6, RefuseKeeps DEF WriteRoleFails, DeleteRoleFails
<1> QED BY <1>1, <1>2, <1>3, <1>4, <1>5, <1>6 DEF RoleStep

LEMMA UserStepKeeps ==
  ASSUME Inv, NEW w \in Requests, UserStep(w)
  PROVE  Inv'
<1>1. CASE CreateUser(w)
  <2>1. PICK info \in UserInputs :
          /\ info.password # KeepPassword
          /\ Manage(w, [pc |-> "findRole", id |-> None, info |-> info])
    BY <1>1 DEF CreateUser
  <2> DEFINE p == [pc |-> "findRole", id |-> None, info |-> info]
  <2>2. p \in Pending /\ Recalled(p) /\ p.info.password # KeepPassword
    BY <2>1, InputTypes DEF Pending, Recalled
  <2>3. Continue(w, p) /\ UNCHANGED <<roles, users, configAdmin>>
    BY <2>1 DEF Manage
  <2> HIDE DEF p
  <2> QED BY <2>2, <2>3, QuietKeeps
<1>2. CASE EditUser(w)
  <2>1. PICK id \in UserIds, info \in UserInputs :
          Manage(w, [pc |-> "findRole", id |-> id, info |-> info])
    BY <1>2 DEF EditUser
  <2> DEFINE p == [pc |-> "findRole", id |-> id, info |-> info]
  <2>2. p \in Pending /\ Recalled(p) /\ p.id # None
    BY <2>1, InputTypes DEF Pending, Recalled, UserIds, None
  <2>3. Continue(w, p) /\ UNCHANGED <<roles, users, configAdmin>>
    BY <2>1 DEF Manage
  <2> HIDE DEF p
  <2> QED BY <2>2, <2>3, QuietKeeps
<1>3. CASE DeleteUser(w)
  <2>1. PICK id \in UserIds : Manage(w, [pc |-> "deleteUser", id |-> id])
    BY <1>3 DEF DeleteUser
  <2> DEFINE p == [pc |-> "deleteUser", id |-> id]
  <2>2. p \in Pending /\ Recalled(p) /\ p.pc = "deleteUser"
    BY DEF Pending, Recalled
  <2>3. Continue(w, p) /\ UNCHANGED <<roles, users, configAdmin>>
    BY <2>1 DEF Manage
  <2> HIDE DEF p
  <2> QED BY <2>2, <2>3, QuietKeeps
<1>4. CASE FindRole(w)
  <2>1. req[w] \in [pc : {"findRole"}, id : UserIds \cup {None}, info : UserInfos]
    BY <1>4, PendingKinds DEF FindRole, Inv, TypeOK
  <2>2. UNCHANGED <<roles, users, configAdmin>>
    BY <1>4 DEF FindRole
  <2>3. CASE Finish(w)
    BY <2>2, <2>3, RefuseKeeps DEF Refuse
  <2>4. ASSUME NEW i \in AdminQueryRoleByName(req[w].info.role),
               Continue(w, [pc |-> "userName", id |-> req[w].id, info |-> req[w].info,
                            role |-> i, birth |-> roles[i].birth])
        PROVE  Inv'
    <3> DEFINE p == [pc |-> "userName", id |-> req[w].id, info |-> req[w].info,
                     role |-> i, birth |-> roles[i].birth]
    <3>1. i \in RolesUsed /\ i \in RoleIds /\ roles[i] \in RoleRows
      BY UsedRows DEF AdminQueryRoleByName, Inv
    <3>2. p \in Pending
      BY <2>1, <3>1 DEF Pending, RoleRows
    <3>3. Recalled(p)
      BY <3>1 DEF Recalled, Inv, OneBirth
    <3>4. p.id = None => p.info.password # KeepPassword
      BY <1>4 DEF FindRole, Inv, PasswordGiven
    <3>5. Continue(w, p)
      BY <2>4
    <3> HIDE DEF p
    <3> QED BY <2>2, <3>2, <3>3, <3>4, <3>5, QuietKeeps
  <2> QED BY <1>4, <2>3, <2>4 DEF FindRole
<1>5. CASE CheckUserName(w)
  <2>1. req[w] \in [pc : {"userName", "writeUser"}, id : UserIds \cup {None},
                    info : UserInfos, role : RoleIds, birth : Births]
    BY <1>5, PendingKinds DEF CheckUserName, Inv, TypeOK
  <2>2. UNCHANGED <<roles, users, configAdmin>>
    BY <1>5 DEF CheckUserName
  <2>3. CASE Finish(w)
    BY <2>2, <2>3, RefuseKeeps DEF Refuse
  <2> DEFINE p == [req[w] EXCEPT !.pc = "writeUser"]
  <2>4. CASE Continue(w, p)
    <3>1. p \in Pending /\ p.id = req[w].id /\ p.info = req[w].info
      BY <2>1 DEF Pending
    <3>2. Recalled(p)
      BY <1>5, <2>1 DEF CheckUserName, Recalled, Inv, Remembered
    <3>3. p.id = None => p.info.password # KeepPassword
      BY <1>5, <3>1 DEF CheckUserName, Inv, PasswordGiven
    <3> HIDE DEF p
    <3> QED BY <2>2, <2>4, <3>1, <3>2, <3>3, QuietKeeps
  <2> QED BY <1>5, <2>3, <2>4 DEF CheckUserName
<1>6. CASE \/ AdminCreateUser(w) \/ AdminUpdateUser(w)
           \/ AdminDeleteUser(w) \/ AdminUpdateUserPassword(w)
  <2>1. UserWritten
    BY <1>6, UserActionsWrite
  <2>2. Finish(w) /\ UNCHANGED <<roles, configAdmin>>
    BY <1>6 DEF AdminCreateUser, AdminUpdateUser, AdminDeleteUser, AdminUpdateUserPassword
  <2> QED BY <2>1, <2>2, UserWrittenKeeps
<1>7. CASE WriteUserFails(w)
  BY <1>7, RefuseKeeps DEF WriteUserFails
<1>8. CASE ChangePassword(w)
  <2>1. PICK ctx \in Contexts, password \in Passwords :
          /\ ctx.userId # None
          /\ Continue(w, [pc |-> "password", id |-> ctx.userId,
                          birth |-> users[ctx.userId].birth, password |-> password])
    BY <1>8 DEF ChangePassword
  <2> DEFINE i == ctx.userId
             p == [pc |-> "password", id |-> i, birth |-> users[i].birth,
                   password |-> password]
  <2>2. i \in UsersUsed /\ i \in UserIds /\ users[i] \in UserRows
    BY <2>1, UsedRows DEF Contexts, UserContext, ConfigContext, Inv
  <2>3. p \in Pending
    BY <2>2 DEF Pending, UserRows
  <2>4. Recalled(p)
    BY <2>2 DEF Recalled, Inv, OneBirth
  <2>5. Continue(w, p) /\ p.pc = "password" /\ UNCHANGED <<roles, users, configAdmin>>
    BY <1>8, <2>1 DEF ChangePassword
  <2> HIDE DEF p
  <2> QED BY <2>3, <2>4, <2>5, QuietKeeps
<1> QED BY <1>1, <1>2, <1>3, <1>4, <1>5, <1>6, <1>7, <1>8 DEF UserStep

LEMMA RestartKeeps ==
  ASSUME Inv, Restart
  PROVE  Inv'
<1>1. RolesUsed' = RolesUsed /\ UsersUsed' = UsersUsed
  BY DEF Restart, RolesUsed, UsersUsed
<1>2. TypeOK'
  BY DEF Inv, TypeOK, Restart, Pending
<1>3. PasswordGiven' /\ Remembered'
  BY DEF Restart, PasswordGiven, Remembered, Recalled, Idle
<1>4. UniqueNames' /\ RolesExist' /\ OneBirth'
  BY <1>1 DEF Inv, UniqueNames, RolesExist, OneBirth, Restart
<1> QED BY <1>2, <1>3, <1>4 DEF Inv

LEMMA InvInductive ==
  ASSUME Inv, [Next]_vars
  PROVE  Inv'
<1>1. CASE Restart
  BY <1>1, RestartKeeps
<1>2. ASSUME NEW w \in Requests, RoleStep(w)
      PROVE  Inv'
  BY <1>2, RoleStepKeeps
<1>3. ASSUME NEW w \in Requests, UserStep(w)
      PROVE  Inv'
  BY <1>3, UserStepKeeps
<1>4. ASSUME NEW w \in Requests, DbError(w)
      PROVE  Inv'
  BY <1>4, RefuseKeeps DEF DbError
<1>5. CASE UNCHANGED vars
  BY <1>5 DEF vars, Inv, TypeOK, PasswordGiven, UniqueNames, RolesExist, OneBirth,
              Remembered, Recalled, RolesUsed, UsersUsed
<1> QED BY <1>1, <1>2, <1>3, <1>4, <1>5 DEF Next

LEMMA InitInv == Init => Inv
<1> SUFFICES ASSUME Init PROVE Inv
  OBVIOUS
<1>1. RolesUsed = {} /\ UsersUsed = {}
  BY DEF Init, RolesUsed, UsersUsed
<1>2. TypeOK
  BY DEF Init, TypeOK, Pending
<1> QED BY <1>1, <1>2 DEF Init, Inv, PasswordGiven, UniqueNames, RolesExist, OneBirth,
                        Remembered, Recalled, Idle

LEMMA InvHolds == Spec => []Inv
BY InitInv, InvInductive, PTL DEF Spec

-----------------------------------------------------------------------------
(* The theorems.                                                           *)

\* Rows and requests hold what they are for: no handler goes on with the id 0
\* of a name that was not found (endpoints.go:738).
THEOREM AccountsTypeCorrect == Spec => []TypeOK
BY InvHolds, PTL DEF Inv

\* A name stands for one role or account and every account is found by its
\* name (db/db_sqlite.go:122, 131).
THEOREM NamesAlwaysResolve == Spec => []NamesResolve
<1>1. Inv => NamesResolve
  <2> SUFFICES ASSUME Inv PROVE NamesResolve
    OBVIOUS
  <2>1. \A i \in RolesUsed : AdminQueryRoleByName(roles[i].name) = {i}
    BY DEF Inv, UniqueNames, AdminQueryRoleByName
  <2>2. \A i \in UsersUsed : AdminQueryUserByName(users[i].name) = {i}
    BY DEF Inv, UniqueNames, RolesExist, AdminQueryUserByName
  <2> QED BY <2>1, <2>2 DEF NamesResolve
<1> QED BY <1>1, InvHolds, PTL

\* A step that changes users is one of four writes.
LEMMA UserWriters ==
  ASSUME [Next]_vars, users' # users
  PROVE  \E v \in Requests : \/ AdminCreateUser(v) \/ AdminUpdateUser(v)
                             \/ AdminDeleteUser(v) \/ AdminUpdateUserPassword(v)
<1>1. ~ Restart /\ Next
  BY DEF Restart, vars
<1>2. ASSUME NEW v \in Requests, RoleStep(v)
      PROVE  users' = users
  BY <1>2 DEF RoleStep, CreateRole, EditRole, DeleteRole, CheckRoleName, AdminCreateRole,
              AdminUpdateRole, WriteRoleFails, AdminDeleteRole, DeleteRoleFails, Manage, Refuse
<1>3. ASSUME NEW v \in Requests, DbError(v)
      PROVE  users' = users
  BY <1>3 DEF DbError, Refuse
<1>4. ASSUME NEW v \in Requests, UserStep(v)
      PROVE  \/ AdminCreateUser(v) \/ AdminUpdateUser(v)
             \/ AdminDeleteUser(v) \/ AdminUpdateUserPassword(v)
  BY <1>4 DEF UserStep, CreateUser, EditUser, DeleteUser, FindRole, CheckUserName,
              WriteUserFails, ChangePassword, Manage, Refuse
<1> QED BY <1>1, <1>2, <1>3, <1>4 DEF Next

\* A request that ends in a step is the one that acts in it.
LEMMA WhoFinishes ==
  ASSUME TypeOK, NEW v \in Requests, Finish(v),
         NEW w \in Requests, req[w].pc # "idle", req'[w] = Idle
  PROVE  v = w
BY FinishChanges DEF Idle

\* The role given to a user is the one found under the name, if it still
\* exists (endpoints.go:734, 783).
THEOREM RolesAsNamed == Spec => RoleAsNamed
<1> DEFINE Good ==
      \A w \in Requests, i \in UserIds :
        /\ req[w].pc = "writeUser" /\ req'[w] = Idle /\ users'[i] # users[i]
        /\ \E j \in RolesUsed : roles[j].birth = req[w].birth
        => roles[users'[i].role].birth = req[w].birth
<1>1. Inv /\ [Next]_vars => Good
  <2> SUFFICES ASSUME Inv, [Next]_vars, NEW w \in Requests, NEW i \in UserIds,
                      req[w].pc = "writeUser", req'[w] = Idle, users'[i] # users[i],
                      NEW j \in RolesUsed, roles[j].birth = req[w].birth
               PROVE  roles[users'[i].role].birth = req[w].birth
    OBVIOUS
  <2>1. PICK v \in Requests : \/ AdminCreateUser(v) \/ AdminUpdateUser(v)
                              \/ AdminDeleteUser(v) \/ AdminUpdateUserPassword(v)
    BY UserWriters
  <2>2. v = w
    BY <2>1, WhoFinishes DEF Inv, AdminCreateUser, AdminUpdateUser, AdminDeleteUser,
                             AdminUpdateUserPassword
  <2>3. AdminCreateUser(w) \/ AdminUpdateUser(w)
    BY <2>1, <2>2 DEF AdminDeleteUser, AdminUpdateUserPassword
  <2>4. users'[i].role = req[w].role
    BY <2>3, CreateUserWrites, UpdateUserWrites DEF Inv
  <2>5. j = req[w].role
    BY DEF Inv, Remembered, Recalled
  <2> QED BY <2>4, <2>5
<1> QED BY <1>1, InvHolds, PTL DEF Spec, RoleAsNamed

\* A new password is written to the account that logged in, if it still
\* exists (endpoints.go:889-918).
THEOREM PasswordsAreOwn == Spec => OwnPasswordOnly
<1> DEFINE Good ==
      \A w \in Requests, i \in UserIds :
        /\ req[w].pc = "password" /\ req'[w] = Idle /\ users'[i] # users[i]
        /\ \E j \in UsersUsed : users[j].birth = req[w].birth
        => users[i] # NoRow /\ users[i].birth = req[w].birth
<1>1. Inv /\ [Next]_vars => Good
  <2> SUFFICES ASSUME Inv, [Next]_vars, NEW w \in Requests, NEW i \in UserIds,
                      req[w].pc = "password", req'[w] = Idle, users'[i] # users[i],
                      NEW j \in UsersUsed, users[j].birth = req[w].birth
               PROVE  users[i] # NoRow /\ users[i].birth = req[w].birth
    OBVIOUS
  <2>1. PICK v \in Requests : \/ AdminCreateUser(v) \/ AdminUpdateUser(v)
                              \/ AdminDeleteUser(v) \/ AdminUpdateUserPassword(v)
    BY UserWriters
  <2>2. v = w
    BY <2>1, WhoFinishes DEF Inv, AdminCreateUser, AdminUpdateUser, AdminDeleteUser,
                             AdminUpdateUserPassword
  <2>3. AdminUpdateUserPassword(w)
    BY <2>1, <2>2 DEF AdminCreateUser, AdminUpdateUser, AdminDeleteUser
  <2>4. i = req[w].id
    BY <2>3, UpdatePasswordWrites DEF Inv
  <2>5. j = req[w].id
    BY DEF Inv, Remembered, Recalled
  <2> QED BY <2>4, <2>5 DEF UsersUsed
<1> QED BY <1>1, InvHolds, PTL DEF Spec, OwnPasswordOnly

\* Without authority no request to manage roles or users is admitted.
LEMMA NoAuthorityNoManagement ==
  ASSUME Inv, NoAuthority, NEW w \in Requests, NEW p
  PROVE  ~ Manage(w, p)
<1>1. \A i \in UsersUsed : /\ users[i].role \in RolesUsed
                           /\ roles[users[i].role] \in RoleRows
  BY UsedRows DEF Inv, RolesExist
<1>2. ASSUME NEW ctx \in Contexts
      PROVE  ~ adminAccess(ctx, accessManage)
  <2>1. PICK i \in UsersUsed : ctx = UserContext(i)
    BY <1>2 DEF Contexts, NoAuthority
  <2>2. ~ ctx.admin /\ ctx.access \in {accessNone, accessView}
    BY <1>1, <2>1 DEF UserContext, NoAuthority, RoleRows
  <2> QED BY <2>2 DEF adminAccess, clampAccess, accessNone, accessView, accessManage
<1> QED BY <1>2 DEF Manage

\* Once nobody is an administrator, and no request of a former one is under
\* way, nothing but passwords changes until a restart brings an administrator
\* (adminauth.go:98-115).
THEOREM AuthorityIsNotGained == Spec => AuthorityNotGained
<1> DEFINE Good ==
      NoAuthority =>
        /\ roles' = roles
        /\ \A i \in UserIds : \/ users'[i] = users[i]
                              \/ users[i] # NoRow /\ \E p \in Passwords :
                                   users'[i] = [users[i] EXCEPT !.hash = p]
        /\ NoAuthority' \/ configAdmin'
<1>1. Inv /\ [Next]_vars => Good
  <2> SUFFICES ASSUME Inv, [Next]_vars, NoAuthority
               PROVE  Good
    OBVIOUS
  <2>1. CASE UNCHANGED vars
    BY <2>1 DEF vars, NoAuthority, UsersUsed
  <2>2. CASE Restart
    BY <2>2 DEF Restart, NoAuthority, UsersUsed, Idle
  <2>3. ASSUME NEW w \in Requests, Refuse(w)
        PROVE  Good
    <3>1. \A v \in Requests : req'[v] = req[v] \/ req'[v] = Idle
      BY <2>3, FinishChanges DEF Inv, Refuse
    <3> QED BY <2>3, <3>1 DEF Refuse, NoAuthority, UsersUsed, Idle
  <2>4. ASSUME NEW w \in Requests, ChangePassword(w)
        PROVE  Good
    <3>1. \A v \in Requests : req'[v] = req[v] \/ req'[v].pc = "password"
      BY <2>4 DEF ChangePassword, Continue, Inv, TypeOK
    <3> QED BY <2>4, <3>1 DEF ChangePassword, NoAuthority, UsersUsed
  <2>5. ASSUME NEW w \in Requests, AdminUpdateUserPassword(w)
        PROVE  Good
    <3> DEFINE id == req[w].id
               password == req[w].password
    <3>1. /\ UsersUsed' = UsersUsed
          /\ password \in Passwords
          /\ \A i \in UserIds \ {id} : users'[i] = users[i]
          /\ \A i \in UsersUsed : users'[i].role = users[i].role
          /\ \/ users'[id] = users[id]
             \/ id \in UsersUsed /\ users'[id] = [users[id] EXCEPT !.hash = password]
      BY <2>5, UpdatePasswordWrites DEF Inv
    <3>2. \A v \in Requests : req'[v] = req[v] \/ req'[v] = Idle
      BY <2>5, FinishChanges DEF Inv, AdminUpdateUserPassword
    <3>3. roles' = roles /\ configAdmin' = configAdmin
      BY <2>5 DEF AdminUpdateUserPassword
    <3> HIDE DEF id, password
    <3>4. NoAuthority'
      BY <3>1, <3>2, <3>3 DEF NoAuthority, Idle
    <3> QED BY <3>1, <3>3, <3>4 DEF UsersUsed
  <2>6. ASSUME NEW w \in Requests, RoleStep(w) \/ UserStep(w)
        PROVE  ChangePassword(w) \/ AdminUpdateUserPassword(w)
    <3>1. req[w].pc \in {"idle", "password"}
      BY DEF NoAuthority
    <3>2. \A p : ~ Manage(w, p)
      BY NoAuthorityNoManagement
    <3> QED BY <2>6, <3>1, <3>2
            DEF RoleStep, UserStep, CreateRole, EditRole, DeleteRole, CheckRoleName,
                AdminCreateRole, AdminUpdateRole, WriteRoleFails, AdminDeleteRole,
                DeleteRoleFails, CreateUser, EditUser, DeleteUser, FindRole, CheckUserName,
                AdminCreateUser, AdminUpdateUser, WriteUserFails, AdminDeleteUser
  <2> HIDE DEF Good
  <2> QED BY <2>1, <2>2, <2>3, <2>4, <2>5, <2>6 DEF Next, DbError
<1> QED BY <1>1, InvHolds, PTL DEF Spec, AuthorityNotGained

=============================================================================
