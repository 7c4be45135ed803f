-------------------------- MODULE ListServerProofs --------------------------
(***************************************************************************)
(* What holds of ListServer for every value of its constants.              *)
(***************************************************************************)
EXTENDS AdminSessions, FiniteSetTheorems, TLAPS

-----------------------------------------------------------------------------
(* Statements keep the table a table.                                      *)

LEMMA OldAgeNat == OldAge \in Nat /\ 1 <= OldAge /\ Timeout < OldAge /\ Day < OldAge
BY TimeAssumption DEF OldAge

LEMMA InsertTyped ==
  ASSUME NEW t \in Tables, NEW id \in RowIds, NEW host \in Hosts,
         NEW sid \in SessionIds, NEW key \in Keys
  PROVE  InsertSession(t, id, host, sid, key) \in Tables
BY OldAgeNat DEF InsertSession, Tables, Rows, Reasons

LEMMA RefreshTyped ==
  ASSUME NEW t \in Tables, NEW id \in RowIds, t[id] # NoRow
  PROVE  RefreshUpdate(t, id) \in Tables
<1>1. t[id] \in Rows
  BY DEF Tables
<1>2. [t[id] EXCEPT !.age = 0] \in Rows
  BY <1>1, OldAgeNat DEF Rows
<1> QED
  BY <1>2 DEF RefreshUpdate, Tables

LEMMA DeleteTyped ==
  ASSUME NEW t \in Tables, NEW id \in RowIds, t[id] # NoRow
  PROVE  DeleteSession(t, id) \in Tables
<1>1. t[id] \in Rows
  BY DEF Tables
<1>2. [t[id] EXCEPT !.unlisted = TRUE] \in Rows
  BY <1>1 DEF Rows
<1> QED
  BY <1>2 DEF DeleteSession, Tables

LEMMA AdminUpdateTyped ==
  ASSUME NEW t \in Tables, NEW id \in RowIds, NEW unlisted \in BOOLEAN,
         NEW reason \in {"empty", "text"}
  PROVE  AdminUpdate(t, id, unlisted, reason) \in Tables
<1>1. CASE t[id] = NoRow
  BY <1>1 DEF AdminUpdate
<1>2. CASE t[id] # NoRow
  <2>1. t[id] \in Rows
    BY <1>2 DEF Tables
  <2>2. [t[id] EXCEPT !.unlisted = unlisted, !.reason = reason] \in Rows
    BY <2>1 DEF Rows, Reasons
  <2> QED
    BY <1>2, <2>2 DEF AdminUpdate, Tables
<1> QED
  BY <1>1, <1>2

LEMMA CleanupTyped ==
  ASSUME NEW t \in Tables
  PROVE  Cleanup(t) \in Tables
BY DEF Cleanup, Tables

LEMMA AgedTyped ==
  ASSUME NEW t \in Tables
  PROVE  Aged(t) \in Tables
<1>1. ASSUME NEW row \in Rows
      PROVE  [row EXCEPT !.age = Older(@)] \in Rows
  <2>1. Older(row.age) \in 0..OldAge
    BY OldAgeNat DEF Older, Rows
  <2> QED
    BY <2>1 DEF Rows
<1> QED
  BY <1>1 DEF Aged, Tables

LEMMA EmptyTyped == EmptyTable \in Tables
BY DEF EmptyTable, Tables

-----------------------------------------------------------------------------
(* The step of a handler tells what its record holds.                      *)

LEMMA RequestKinds ==
  ASSUME NEW r \in Requests
  PROVE  /\ r.pc \in AnnounceSteps => r \in [pc : AnnounceSteps, host : Hosts, sid : SessionIds]
         /\ r.pc = "refresh" => r \in [pc : {"refresh"}, todo : SUBSET Items]
         /\ r.pc = "diagnose" => r \in [pc : {"diagnose"}, item : Items, todo : SUBSET Items]
         /\ r.pc = "admin" => r \in [pc : {"admin"}, todo : SUBSET RowIds,
                                     unlisted : BOOLEAN, reason : {"empty", "text"}]
BY DEF Requests, AnnounceSteps, Idle

LEMMA RespondTyped ==
  ASSUME req \in [Workers -> Requests], NEW w \in Workers, Respond(w)
  PROVE  req' \in [Workers -> Requests]
BY DEF Respond, Requests

LEMMA GotoTyped ==
  ASSUME req \in [Workers -> Requests], NEW w \in Workers, NEW pc \in AnnounceSteps,
         req[w].pc \in AnnounceSteps, Goto(w, pc)
  PROVE  req' \in [Workers -> Requests]
<1>1. req[w] \in [pc : AnnounceSteps, host : Hosts, sid : SessionIds]
  BY RequestKinds
<1>2. [req[w] EXCEPT !.pc = pc] \in [pc : AnnounceSteps, host : Hosts, sid : SessionIds]
  BY <1>1
<1>3. [req[w] EXCEPT !.pc = pc] \in Requests
  BY <1>2 DEF Requests
<1> QED
  BY <1>3 DEF Goto

LEMMA ContinueRefreshTyped ==
  ASSUME req \in [Workers -> Requests], NEW w \in Workers, NEW rest \in SUBSET Items,
         ContinueRefresh(w, rest)
  PROVE  req' \in [Workers -> Requests]
BY DEF ContinueRefresh, Requests

LEMMA RefreshSessionTyped ==
  ASSUME TypeOK, NEW w \in Workers, NEW item \in Items, NEW rest \in SUBSET Items,
         RefreshSession(w, item, rest)
  PROVE  TypeOK'
<1>1. item.id \in RowIds
  BY DEF Items
<1>2. CASE RefreshMatches(sessions, item.id, item.key)
  <2>1. sessions' \in Tables
    BY <1>1, <1>2, RefreshTyped DEF RefreshSession, RefreshMatches, TypeOK
  <2>2. req' \in [Workers -> Requests]
    BY <1>2, ContinueRefreshTyped DEF RefreshSession, TypeOK
  <2> QED
    BY <2>1, <2>2 DEF RefreshSession, TypeOK
<1>3. CASE ~ RefreshMatches(sessions, item.id, item.key)
  <2>1. [pc |-> "diagnose", item |-> item, todo |-> rest] \in Requests
    BY DEF Requests
  <2> QED
    BY <1>3, <2>1 DEF RefreshSession, TypeOK
<1> QED
  BY <1>2, <1>3

LEMMA AdminUpdateOneTyped ==
  ASSUME TypeOK, NEW w \in Workers, NEW id \in RowIds, NEW rest \in SUBSET RowIds,
         NEW u, u.unlisted \in BOOLEAN, u.reason \in {"empty", "text"},
         AdminUpdateOne(w, id, u, rest)
  PROVE  TypeOK'
<1>1. sessions' \in Tables
  BY AdminUpdateTyped DEF AdminUpdateOne, TypeOK
<1>2. sessions[id] # NoRow => sessions[id].key \in Keys
  BY DEF TypeOK, Tables, Rows
<1>3. pardoned' \subseteq Keys
  BY <1>2 DEF AdminUpdateOne, TypeOK
<1>4. [pc |-> "admin", todo |-> rest, unlisted |-> u.unlisted, reason |-> u.reason]
        \in Requests
  BY DEF Requests
<1>5. req' \in [Workers -> Requests]
  BY <1>4 DEF AdminUpdateOne, TypeOK, Requests
<1> QED
  BY <1>1, <1>3, <1>5 DEF AdminUpdateOne, TypeOK

LEMMA TypeInit == Init => TypeOK
BY EmptyTyped, TimeAssumption DEF Init, TypeOK, Requests

LEMMA TypeStep == TypeOK /\ [Next]_vars => TypeOK'
<1> SUFFICES ASSUME TypeOK, [Next]_vars PROVE TypeOK'
  OBVIOUS
<1>1. ASSUME NEW w \in Workers, AnnounceStart(w) PROVE TypeOK'
  <2>1. PICK a \in Announcements :
          req' = [req EXCEPT ![w] = [pc |-> "ban", host |-> a[1], sid |-> a[2]]]
    BY <1>1 DEF AnnounceStart
  <2>2. a[1] \in Hosts /\ a[2] \in SessionIds
    BY HostAssumption
  <2>3. [pc |-> "ban", host |-> a[1], sid |-> a[2]] \in Requests
    BY <2>2 DEF Requests, AnnounceSteps
  <2> QED
    BY <1>1, <2>1, <2>3 DEF AnnounceStart, TypeOK
<1>2. ASSUME NEW w \in Workers, CheckBan(w) PROVE TypeOK'
  BY <1>2, RespondTyped, GotoTyped DEF CheckBan, TypeOK, AnnounceSteps
<1>3. ASSUME NEW w \in Workers, CheckActive(w) PROVE TypeOK'
  BY <1>3, RespondTyped, GotoTyped DEF CheckActive, TypeOK, AnnounceSteps
<1>4. ASSUME NEW w \in Workers, CheckCount(w) PROVE TypeOK'
  BY <1>4, RespondTyped, GotoTyped DEF CheckCount, TypeOK, AnnounceSteps
<1>5. ASSUME NEW w \in Workers, TryDrawpileLogin(w) PROVE TypeOK'
  BY <1>5, RespondTyped, GotoTyped DEF TryDrawpileLogin, TypeOK, AnnounceSteps
<1>6. ASSUME NEW w \in Workers, Insert(w) PROVE TypeOK'
  <2>1. req' \in [Workers -> Requests]
    BY <1>6, RespondTyped DEF Insert, TypeOK
  <2>2. req[w].host \in Hosts /\ req[w].sid \in SessionIds
    BY <1>6, RequestKinds DEF Insert, TypeOK, AnnounceSteps
  <2>3. sessions' \in Tables /\ issued' \subseteq Keys
    BY <1>6, <2>2, InsertTyped DEF Insert, TypeOK
  <2> QED
    BY <1>6, <2>1, <2>3 DEF Insert, TypeOK
<1>7. ASSUME NEW w \in Workers, RefreshStart(w) PROVE TypeOK'
  BY <1>7, RefreshSessionTyped DEF RefreshStart, Batches, ClientItems
<1>8. ASSUME NEW w \in Workers, RefreshNext(w) PROVE TypeOK'
  <2>1. req[w].todo \in SUBSET Items
    BY <1>8, RequestKinds DEF RefreshNext, TypeOK
  <2> QED
    BY <1>8, <2>1, RefreshSessionTyped DEF RefreshNext
<1>9. ASSUME NEW w \in Workers, RefreshDiagnose(w) PROVE TypeOK'
  <2>1. req[w].todo \in SUBSET Items
    BY <1>9, RequestKinds DEF RefreshDiagnose, TypeOK
  <2> QED
    BY <1>9, <2>1, ContinueRefreshTyped DEF RefreshDiagnose, TypeOK
<1>10. ASSUME NEW w \in Workers, Unlist(w) PROVE TypeOK'
  <2>1. PICK item \in ClientItems : /\ DeleteMatches(sessions, item.id, item.key)
                                    /\ sessions' = DeleteSession(sessions, item.id)
    BY <1>10 DEF Unlist
  <2>2. item.id \in RowIds
    BY DEF ClientItems, Items
  <2>3. sessions' \in Tables
    BY <2>1, <2>2, DeleteTyped DEF DeleteMatches, TypeOK
  <2> QED
    BY <1>10, <2>3 DEF Unlist, TypeOK
<1>11. ASSUME NEW w \in Workers, AdminUpdateStart(w) PROVE TypeOK'
  <2>1. PICK u \in AdminRequests : \E id \in u.ids : AdminUpdateOne(w, id, u, u.ids \ {id})
    BY <1>11 DEF AdminUpdateStart
  <2>2. /\ u.ids \in SUBSET RowIds /\ u.unlisted \in BOOLEAN
        /\ u.reason \in {"empty", "text"}
    BY ConfigAssumption DEF AdminUpdates
  <2> QED
    BY <2>1, <2>2, AdminUpdateOneTyped
<1>12. ASSUME NEW w \in Workers, AdminUpdateNext(w) PROVE TypeOK'
  <2>1. PICK id \in req[w].todo : AdminUpdateOne(w, id, req[w], req[w].todo \ {id})
    BY <1>12 DEF AdminUpdateNext
  <2>2. /\ req[w].todo \in SUBSET RowIds /\ req[w].unlisted \in BOOLEAN
        /\ req[w].reason \in {"empty", "text"}
    BY <1>12, RequestKinds DEF AdminUpdateNext, TypeOK
  <2> QED
    BY <2>1, <2>2, AdminUpdateOneTyped
<1>13. ASSUME NEW w \in Workers, DbError(w) PROVE TypeOK'
  BY <1>13, RespondTyped DEF DbError, TypeOK
<1>14. CASE BansChange
  BY <1>14, HostAssumption DEF BansChange, TypeOK
<1>15. CASE Tick
  <2>1. (IF sleep < Day THEN sleep + 1 ELSE sleep) \in 0..Day
    BY TimeAssumption DEF TypeOK
  <2> QED
    BY <1>15, <2>1, AgedTyped DEF Tick, TypeOK
<1>16. CASE CleanupTask
  BY <1>16, CleanupTyped, TimeAssumption DEF CleanupTask, TypeOK
<1>17. CASE CleanupFails
  BY <1>17, TimeAssumption DEF CleanupFails, TypeOK
<1>18. CASE Restart
  BY <1>18, EmptyTyped, TimeAssumption DEF Restart, TypeOK, Requests
<1>19. CASE UNCHANGED vars
  BY <1>19 DEF vars, TypeOK
<1> QED
  BY <1>1, <1>2, <1>3, <1>4, <1>5, <1>6, <1>7, <1>8, <1>9, <1>10, <1>11, <1>12,
     <1>13, <1>14, <1>15, <1>16, <1>17, <1>18, <1>19 DEF Next, Act, Work

\* Type correctness: see TypeOK.
THEOREM TypeCorrect == Spec => []TypeOK
<1> QED
  BY TypeInit, TypeStep, PTL DEF Spec

-----------------------------------------------------------------------------
(* What a step can do to the table: it keeps or deletes every row, or it   *)
(* is the INSERT of one announcement.                                      *)

\* The row at id, if the step leaves one, is the one that was there; it is
\* not younger than its timeout unless it was before, and it is put back on
\* the list or forgiven only by an administrator.
RowKept(id) ==
  sessions'[id] # NoRow =>
    /\ sessions[id] # NoRow
    /\ sessions'[id].host = sessions[id].host
    /\ sessions'[id].sid = sessions[id].sid
    /\ sessions'[id].key = sessions[id].key
    /\ Timely(sessions'[id]) => Timely(sessions[id])
    /\ ~ sessions'[id].unlisted => ~ sessions[id].unlisted \/ sessions[id].key \in pardoned'
    /\ sessions[id].reason = "text" =>
         sessions'[id].reason = "text" \/ sessions[id].key \in pardoned'
    /\ sessions'[id].reason = "text" /\ ~ sessions'[id].unlisted =>
         \/ sessions[id].reason = "text" /\ ~ sessions[id].unlisted
         \/ sessions[id].key \in pardoned'
    /\ sessions'[id].age < sessions[id].age =>
         sessions[id].reason # "text" /\ sessions[id].key \notin LostKeys
    /\ sessions'[id].unlisted /\ ~ sessions[id].unlisted =>
         sessions'[id].reason # "null" \/ sessions[id].key \notin LostKeys

TableKept ==
  /\ \A id \in RowIds : RowKept(id)
  /\ issued' = issued
  /\ pardoned \subseteq pardoned'

\* Worker w inserts a row at id with a fresh key.
Inserted(w, id, key) ==
  /\ key \in Keys \ issued
  /\ sessions[id] = NoRow
  /\ req[w].pc = "insert"
  /\ sessions' = InsertSession(sessions, id, req[w].host, req[w].sid, key)
  /\ issued' = issued \cup {key}
  /\ pardoned' = pardoned
  /\ req' = [req EXCEPT ![w] = Idle]

TableInserted == \E w \in Workers, id \in RowIds, key \in Keys : Inserted(w, id, key)

LEMMA NextRowIsFree ==
  ASSUME NEW t, NEW id \in RowIds, IsNextRowId(t, id)
  PROVE  t[id] = NoRow
BY DEF IsNextRowId, Used, RowIds

LEMMA SameTableKept ==
  ASSUME TypeOK, sessions' = sessions, issued' = issued, pardoned' = pardoned
  PROVE  TableKept
<1> SUFFICES ASSUME NEW id \in RowIds PROVE RowKept(id)
  BY DEF TableKept
<1>1. sessions[id] # NoRow => sessions[id].age \in 0..OldAge
  BY DEF TypeOK, Tables, Rows
<1> QED
  BY <1>1, OldAgeNat DEF RowKept

LEMMA RefreshKeeps ==
  ASSUME TypeOK, NEW w \in Workers, NEW item \in Items, NEW rest,
         item.key \notin LostKeys, RefreshSession(w, item, rest)
  PROVE  TableKept
<1>1. CASE RefreshMatches(sessions, item.id, item.key)
  <2> SUFFICES ASSUME NEW id \in RowIds PROVE RowKept(id)
    BY DEF TableKept, RefreshSession
  <2>1. item.id \in RowIds /\ sessions' = RefreshUpdate(sessions, item.id)
    BY <1>1 DEF RefreshSession, Items
  <2>2. CASE id = item.id
    <3>1. sessions[id] \in Rows
      BY <1>1, <2>2 DEF RefreshMatches, TypeOK, Tables
    <3>2. sessions'[id] = [sessions[id] EXCEPT !.age = 0]
      BY <2>1, <2>2 DEF RefreshUpdate, TypeOK, Tables
    <3> QED
      BY <1>1, <2>2, <3>1, <3>2 DEF RowKept, RefreshMatches, Rows
  <2>3. CASE id # item.id
    <3>1. sessions'[id] = sessions[id]
      BY <2>1, <2>3 DEF RefreshUpdate, TypeOK, Tables
    <3>2. sessions[id] # NoRow => sessions[id].age \in 0..OldAge
      BY DEF TypeOK, Tables, Rows
    <3> QED
      BY <3>1, <3>2, OldAgeNat DEF RowKept
  <2> QED
    BY <2>2, <2>3
<1>2. CASE ~ RefreshMatches(sessions, item.id, item.key)
  BY <1>2, SameTableKept DEF RefreshSession
<1> QED
  BY <1>1, <1>2

LEMMA AdminUpdateKeeps ==
  ASSUME TypeOK, NEW w \in Workers, NEW i \in RowIds, NEW rest,
         NEW u, u.unlisted \in BOOLEAN, u.reason \in {"empty", "text"},
         AdminUpdateOne(w, i, u, rest)
  PROVE  TableKept
<1> SUFFICES ASSUME NEW id \in RowIds PROVE RowKept(id)
  BY DEF TableKept, AdminUpdateOne
<1>1. sessions[id] # NoRow => sessions[id] \in Rows
  BY DEF TypeOK, Tables
<1>2. CASE id # i \/ sessions[i] = NoRow
  <2>1. sessions'[id] = sessions[id]
    BY <1>2 DEF AdminUpdateOne, AdminUpdate, TypeOK, Tables
  <2> QED
    BY <1>1, <2>1, OldAgeNat DEF RowKept, Rows
<1>3. CASE id = i /\ sessions[i] # NoRow
  <2>1. sessions'[id] = [sessions[id] EXCEPT !.unlisted = u.unlisted, !.reason = u.reason]
    BY <1>3 DEF AdminUpdateOne, AdminUpdate, TypeOK, Tables
  <2>2. ~ u.unlisted \/ u.reason = "empty" => sessions[id].key \in pardoned'
    BY <1>3 DEF AdminUpdateOne
  <2>3. /\ sessions'[id].age = sessions[id].age /\ sessions[id].age \in 0..OldAge
        /\ sessions'[id].host = sessions[id].host
        /\ sessions'[id].sid = sessions[id].sid
        /\ sessions'[id].key = sessions[id].key
        /\ sessions'[id].unlisted = u.unlisted
        /\ sessions'[id].reason = u.reason
    BY <1>1, <1>3, <2>1 DEF Rows
  <2> QED
    BY <1>3, <2>2, <2>3, OldAgeNat DEF RowKept, Timely
<1> QED
  BY <1>2, <1>3

LEMMA UnlistKeeps ==
  ASSUME TypeOK, NEW w \in Workers, Unlist(w)
  PROVE  TableKept
<1> SUFFICES ASSUME NEW id \in RowIds PROVE RowKept(id)
  BY DEF TableKept, Unlist
<1>1. PICK item \in ClientItems : /\ DeleteMatches(sessions, item.id, item.key)
                                  /\ sessions' = DeleteSession(sessions, item.id)
  BY DEF Unlist
<1>2. item.id \in RowIds /\ item.key \notin LostKeys
  BY DEF ClientItems, Items
<1>3. sessions[id] # NoRow => sessions[id] \in Rows
  BY DEF TypeOK, Tables
<1>4. CASE id # item.id
  <2>1. sessions'[id] = sessions[id]
    BY <1>1, <1>2, <1>4 DEF DeleteSession, TypeOK, Tables
  <2> QED
    BY <1>3, <2>1, OldAgeNat DEF RowKept, Rows
<1>5. CASE id = item.id
  <2>1. sessions'[id] = [sessions[id] EXCEPT !.unlisted = TRUE]
    BY <1>1, <1>2, <1>5 DEF DeleteSession, TypeOK, Tables
  <2>2. /\ sessions'[id].age = sessions[id].age /\ sessions[id].age \in 0..OldAge
        /\ sessions'[id].host = sessions[id].host
        /\ sessions'[id].sid = sessions[id].sid
        /\ sessions'[id].key = sessions[id].key
        /\ sessions'[id].unlisted
        /\ sessions'[id].reason = sessions[id].reason
        /\ sessions[id].key = item.key
    BY <1>1, <1>3, <1>5, <2>1 DEF Rows, DeleteMatches
  <2> QED
    BY <1>1, <1>2, <1>5, <2>2, OldAgeNat DEF RowKept, Timely, DeleteMatches
<1> QED
  BY <1>4, <1>5

LEMMA AgedKeeps ==
  ASSUME TypeOK, Tick
  PROVE  TableKept
<1> SUFFICES ASSUME NEW id \in RowIds PROVE RowKept(id)
  BY DEF TableKept, Tick
<1>1. CASE sessions[id] = NoRow
  BY <1>1 DEF RowKept, Tick, Aged
<1>2. CASE sessions[id] # NoRow
  <2>1. sessions[id] \in Rows
    BY <1>2 DEF TypeOK, Tables
  <2>2. sessions'[id] = [sessions[id] EXCEPT !.age = Older(sessions[id].age)]
    BY <1>2 DEF Tick, Aged
  <2>3. /\ sessions[id].age \in 0..OldAge
        /\ Older(sessions[id].age) >= sessions[id].age
    BY <2>1, OldAgeNat DEF Older, Rows
  <2>4. /\ sessions'[id].age = Older(sessions[id].age)
        /\ sessions'[id].host = sessions[id].host
        /\ sessions'[id].sid = sessions[id].sid
        /\ sessions'[id].key = sessions[id].key
        /\ sessions'[id].unlisted = sessions[id].unlisted
        /\ sessions'[id].reason = sessions[id].reason
    BY <2>1, <2>2 DEF Rows
  <2>5. Older(sessions[id].age) \in Nat
    BY <2>3, OldAgeNat DEF Older
  <2>6. Timely(sessions'[id]) => Timely(sessions[id])
    BY <2>3, <2>4, <2>5, TimeAssumption DEF Timely
  <2>7. ~ (sessions'[id].age < sessions[id].age)
    BY <2>3, <2>4, <2>5
  <2> QED
    BY <1>2, <2>4, <2>6, <2>7 DEF RowKept
<1> QED
  BY <1>1, <1>2

LEMMA DeletionKeeps ==
  ASSUME TypeOK, issued' = issued, pardoned' = pardoned,
         \A id \in RowIds : sessions'[id] = sessions[id] \/ sessions'[id] = NoRow
  PROVE  TableKept
<1> SUFFICES ASSUME NEW id \in RowIds PROVE RowKept(id)
  BY DEF TableKept
<1>1. sessions[id] # NoRow => sessions[id].age \in 0..OldAge
  BY DEF TypeOK, Tables, Rows
<1> QED
  BY <1>1, OldAgeNat DEF RowKept

\* What the proofs below need to know of update keys: no two rows share one, no
\* row holds a key that was not generated, and no request one that its client
\* was not given (utils.go:8, db_sqlite.go:428).
KeysOwned ==
  /\ \A i, j \in Used(sessions) : sessions[i].key = sessions[j].key => i = j
  /\ \A id \in Used(sessions) : sessions[id].key \in issued
  /\ \A w \in Workers :
       /\ req[w].pc = "diagnose" => req[w].item \in ClientItems
       /\ req[w].pc \in {"diagnose", "refresh"} => req[w].todo \subseteq ClientItems

LEMMA TableStep ==
  ASSUME TypeOK, KeysOwned, [Next]_vars
  PROVE  TableKept \/ TableInserted
<1>1. ASSUME NEW w \in Workers,
             \/ AnnounceStart(w) \/ CheckBan(w) \/ CheckActive(w) \/ CheckCount(w)
             \/ TryDrawpileLogin(w) \/ RefreshDiagnose(w) \/ DbError(w)
      PROVE  TableKept
  BY <1>1, SameTableKept DEF AnnounceStart, CheckBan, CheckActive, CheckCount,
     TryDrawpileLogin, RefreshDiagnose, DbError
<1>2. ASSUME NEW w \in Workers, Insert(w) PROVE TableKept \/ TableInserted
  <2>1. CASE \E id \in RowIds, key \in Keys \ issued :
               /\ IsNextRowId(sessions, id)
               /\ sessions' = InsertSession(sessions, id, req[w].host, req[w].sid, key)
               /\ issued' = issued \cup {key}
    <3>1. PICK id \in RowIds, key \in Keys \ issued :
               /\ IsNextRowId(sessions, id)
               /\ sessions' = InsertSession(sessions, id, req[w].host, req[w].sid, key)
               /\ issued' = issued \cup {key}
      BY <2>1
    <3>2. Inserted(w, id, key)
      BY <1>2, <3>1, NextRowIsFree DEF Inserted, Insert, Respond
    <3> QED
      BY <3>2 DEF TableInserted
  <2>2. CASE UNCHANGED <<sessions, issued>>
    BY <1>2, <2>2, SameTableKept DEF Insert
  <2> QED
    BY <1>2, <2>1, <2>2 DEF Insert
<1>3. ASSUME NEW w \in Workers, RefreshStart(w) PROVE TableKept
  <2>1. PICK b \in Batches : \E item \in b : RefreshSession(w, item, b \ {item})
    BY <1>3 DEF RefreshStart
  <2>2. b \subseteq ClientItems
    BY DEF Batches
  <2> QED
    BY <2>1, <2>2, RefreshKeeps DEF ClientItems
<1>4. ASSUME NEW w \in Workers, Unlist(w) PROVE TableKept
  BY <1>4, UnlistKeeps
<1>5. ASSUME NEW w \in Workers, AdminUpdateStart(w) PROVE TableKept
  <2>1. PICK u \in AdminRequests : \E id \in u.ids : AdminUpdateOne(w, id, u, u.ids \ {id})
    BY <1>5 DEF AdminUpdateStart
  <2>2. /\ u.ids \in SUBSET RowIds /\ u.unlisted \in BOOLEAN
        /\ u.reason \in {"empty", "text"}
    BY ConfigAssumption DEF AdminUpdates
  <2> QED
    BY <2>1, <2>2, AdminUpdateKeeps
<1>6. ASSUME NEW w \in Workers, AdminUpdateNext(w) PROVE TableKept
  <2>1. PICK id \in req[w].todo : AdminUpdateOne(w, id, req[w], req[w].todo \ {id})
    BY <1>6 DEF AdminUpdateNext
  <2>2. /\ req[w].todo \in SUBSET RowIds /\ req[w].unlisted \in BOOLEAN
        /\ req[w].reason \in {"empty", "text"}
    BY <1>6, RequestKinds DEF AdminUpdateNext, TypeOK
  <2> QED
    BY <2>1, <2>2, AdminUpdateKeeps
<1>7. CASE BansChange
  BY <1>7, SameTableKept DEF BansChange
<1>8. CASE Tick
  BY <1>8, AgedKeeps
<1>9. CASE CleanupTask
  <2>1. \A id \in RowIds : sessions'[id] = sessions[id] \/ sessions'[id] = NoRow
    BY <1>9 DEF CleanupTask, Cleanup
  <2> QED
    BY <1>9, <2>1, DeletionKeeps DEF CleanupTask
<1>10. CASE CleanupFails
  BY <1>10, SameTableKept DEF CleanupFails
<1>11. CASE Restart
  <2>1. \A id \in RowIds : sessions'[id] = sessions[id] \/ sessions'[id] = NoRow
    BY <1>11 DEF Restart, EmptyTable
  <2> QED
    BY <1>11, <2>1, DeletionKeeps DEF Restart
<1>12. CASE UNCHANGED vars
  BY <1>12, SameTableKept DEF vars
<1>13. ASSUME NEW w \in Workers, RefreshNext(w) PROVE TableKept
  BY <1>13, RefreshKeeps DEF RefreshNext, KeysOwned, ClientItems
<1> QED
  BY <1>1, <1>2, <1>3, <1>4, <1>5, <1>6, <1>7, <1>8, <1>9, <1>10, <1>11, <1>12,
     <1>13 DEF Next, Act, Work

-----------------------------------------------------------------------------
(* What a step can do to the request of a worker.                          *)

\* An announcement only moves on by passing the check it was at.
AnnounceOnward(v) ==
  req'[v].pc \in AnnounceSteps \ {"ban"} =>
    /\ req[v].pc \in AnnounceSteps
    /\ req'[v].host = req[v].host /\ req'[v].sid = req[v].sid
    /\ req[v].pc = "ban" => ~ BanRefuses(req[v].host)
    /\ req'[v].pc \in {"count", "login", "insert"} =>
         \/ req[v].pc \in {"count", "login", "insert"}
         \/ ~ IsActiveSession(sessions, req[v].host, req[v].sid)
    /\ req'[v].pc \in {"login", "insert"} =>
         \/ req[v].pc \in {"login", "insert"}
         \/ ~ LimitReached(req[v].host)
         \/ req[v].host \in TrustedHosts

\* A refresh is diagnosed only after its UPDATE has not matched.
RefreshOnward(v) ==
  /\ req'[v].pc \in {"diagnose", "refresh"} => req'[v].todo \subseteq ClientItems
  /\ req'[v].pc = "diagnose" =>
       /\ req'[v].item \in ClientItems
       /\ \/ req'[v] = req[v]
          \/ /\ ~ RefreshMatches(sessions, req'[v].item.id, req'[v].item.key)
             /\ sessions' = sessions /\ pardoned' = pardoned

Onward(v) == AnnounceOnward(v) /\ RefreshOnward(v)

LEMMA SameOnward ==
  ASSUME TypeOK, KeysOwned, NEW v \in Workers, req'[v] = req[v]
  PROVE  Onward(v)
BY DEF Onward, AnnounceOnward, RefreshOnward, KeysOwned, AnnounceSteps

LEMMA IdleOnward ==
  ASSUME NEW v \in Workers, req'[v] = Idle
  PROVE  Onward(v)
BY DEF Onward, AnnounceOnward, RefreshOnward, Idle, AnnounceSteps

LEMMA RespondOnward ==
  ASSUME TypeOK, KeysOwned, NEW w \in Workers, Respond(w), NEW v \in Workers
  PROVE  Onward(v)
BY SameOnward, IdleOnward DEF Respond, TypeOK

\* The step of an announcement's check, from one step of the handler to pc.
LEMMA GotoOnward ==
  ASSUME TypeOK, KeysOwned, NEW w \in Workers, NEW pc \in AnnounceSteps \ {"ban"},
         Goto(w, pc), req[w].pc \in AnnounceSteps, NEW v \in Workers,
         req[w].pc = "ban" => ~ BanRefuses(req[w].host),
         pc \in {"count", "login", "insert"} =>
           \/ req[w].pc \in {"count", "login", "insert"}
           \/ ~ IsActiveSession(sessions, req[w].host, req[w].sid),
         pc \in {"login", "insert"} =>
           \/ req[w].pc \in {"login", "insert"}
           \/ ~ LimitReached(req[w].host)
           \/ req[w].host \in TrustedHosts
  PROVE  Onward(v)
<1>1. CASE v # w
  BY <1>1, SameOnward DEF Goto, TypeOK
<1>2. CASE v = w
  <2>1. req[w] \in [pc : AnnounceSteps, host : Hosts, sid : SessionIds]
    BY RequestKinds DEF TypeOK
  <2>2. req'[w] = [req[w] EXCEPT !.pc = pc]
    BY DEF Goto, TypeOK
  <2>3. req'[w].pc = pc /\ req'[w].host = req[w].host /\ req'[w].sid = req[w].sid
    BY <2>1, <2>2
  <2>4. AnnounceOnward(v)
    BY <1>2, <2>3 DEF AnnounceOnward
  <2>5. RefreshOnward(v)
    BY <1>2, <2>3 DEF RefreshOnward, AnnounceSteps
  <2> QED
    BY <2>4, <2>5 DEF Onward
<1> QED
  BY <1>1, <1>2

LEMMA ContinueRefreshOnward ==
  ASSUME TypeOK, KeysOwned, NEW w \in Workers, NEW rest, rest \subseteq ClientItems,
         ContinueRefresh(w, rest), NEW v \in Workers
  PROVE  Onward(v)
<1>1. CASE v # w
  BY <1>1, SameOnward DEF ContinueRefresh, TypeOK
<1>2. CASE v = w /\ rest = {}
  BY <1>2, IdleOnward DEF ContinueRefresh, TypeOK
<1>3. CASE v = w /\ rest # {}
  <2>1. req'[v] = [pc |-> "refresh", todo |-> rest]
    BY <1>3 DEF ContinueRefresh, TypeOK
  <2> QED
    BY <2>1 DEF Onward, AnnounceOnward, RefreshOnward, AnnounceSteps
<1> QED
  BY <1>1, <1>2, <1>3

LEMMA RefreshSessionOnward ==
  ASSUME TypeOK, KeysOwned, NEW w \in Workers, NEW item \in ClientItems,
         NEW rest, rest \subseteq ClientItems, RefreshSession(w, item, rest),
         NEW v \in Workers
  PROVE  Onward(v)
<1>1. CASE RefreshMatches(sessions, item.id, item.key)
  BY <1>1, ContinueRefreshOnward DEF RefreshSession
<1>2. CASE ~ RefreshMatches(sessions, item.id, item.key)
  <2>1. CASE v # w
    BY <1>2, <2>1, SameOnward DEF RefreshSession, TypeOK
  <2>2. CASE v = w
    <3>1. req'[v] = [pc |-> "diagnose", item |-> item, todo |-> rest]
      BY <1>2, <2>2 DEF RefreshSession, TypeOK
    <3>2. sessions' = sessions /\ pardoned' = pardoned
      BY <1>2 DEF RefreshSession
    <3> QED
      BY <1>2, <3>1, <3>2 DEF Onward, AnnounceOnward, RefreshOnward, AnnounceSteps
  <2> QED
    BY <2>1, <2>2
<1> QED
  BY <1>1, <1>2

LEMMA AdminUpdateOneOnward ==
  ASSUME TypeOK, KeysOwned, NEW w \in Workers, NEW id, NEW u, NEW rest,
         AdminUpdateOne(w, id, u, rest), NEW v \in Workers
  PROVE  Onward(v)
<1>1. CASE v # w
  BY <1>1, SameOnward DEF AdminUpdateOne, TypeOK
<1>2. CASE v = w /\ rest = {}
  BY <1>2, IdleOnward DEF AdminUpdateOne, TypeOK
<1>3. CASE v = w /\ rest # {}
  <2>1. req'[v] = [pc |-> "admin", todo |-> rest, unlisted |-> u.unlisted,
                   reason |-> u.reason]
    BY <1>3 DEF AdminUpdateOne, TypeOK
  <2> QED
    BY <2>1 DEF Onward, AnnounceOnward, RefreshOnward, AnnounceSteps
<1> QED
  BY <1>1, <1>2, <1>3

LEMMA RequestStep ==
  ASSUME TypeOK, KeysOwned, [Next]_vars, NEW v \in Workers
  PROVE  Onward(v)
<1>1. ASSUME NEW w \in Workers, AnnounceStart(w) PROVE Onward(v)
  <2>1. CASE v # w
    BY <1>1, <2>1, SameOnward DEF AnnounceStart, TypeOK
  <2>2. CASE v = w
    <3>1. req'[v].pc = "ban"
      BY <1>1, <2>2 DEF AnnounceStart, TypeOK
    <3> QED
      BY <3>1 DEF Onward, AnnounceOnward, RefreshOnward
  <2> QED
    BY <2>1, <2>2
<1>2. ASSUME NEW w \in Workers, CheckBan(w) PROVE Onward(v)
  BY <1>2, RespondOnward, GotoOnward DEF CheckBan, AnnounceSteps
<1>3. ASSUME NEW w \in Workers, CheckActive(w) PROVE Onward(v)
  <2>1. CASE IsActiveSession(sessions, req[w].host, req[w].sid)
    BY <1>3, <2>1, RespondOnward DEF CheckActive
  <2>2. CASE ~ IsActiveSession(sessions, req[w].host, req[w].sid)
    BY <1>3, <2>2, GotoOnward DEF CheckActive, AnnounceSteps
  <2> QED
    BY <2>1, <2>2
<1>4. ASSUME NEW w \in Workers, CheckCount(w) PROVE Onward(v)
  <2>1. CASE LimitReached(req[w].host)
    BY <1>4, <2>1, RespondOnward DEF CheckCount
  <2>2. CASE ~ LimitReached(req[w].host)
    BY <1>4, <2>2, GotoOnward DEF CheckCount, AnnounceSteps
  <2> QED
    BY <2>1, <2>2
<1>5. ASSUME NEW w \in Workers, TryDrawpileLogin(w) PROVE Onward(v)
  BY <1>5, RespondOnward, GotoOnward DEF TryDrawpileLogin, AnnounceSteps
<1>6. ASSUME NEW w \in Workers, Insert(w) \/ DbError(w) PROVE Onward(v)
  BY <1>6, RespondOnward DEF Insert, DbError
<1>7. ASSUME NEW w \in Workers, RefreshStart(w) PROVE Onward(v)
  <2>1. PICK b \in Batches : \E item \in b : RefreshSession(w, item, b \ {item})
    BY <1>7 DEF RefreshStart
  <2>2. b \subseteq ClientItems
    BY DEF Batches
  <2> QED
    BY <2>1, <2>2, RefreshSessionOnward
<1>8. ASSUME NEW w \in Workers, RefreshNext(w) PROVE Onward(v)
  <2>1. req[w].todo \subseteq ClientItems
    BY <1>8 DEF RefreshNext, KeysOwned
  <2> QED
    BY <1>8, <2>1, RefreshSessionOnward DEF RefreshNext
<1>9. ASSUME NEW w \in Workers, RefreshDiagnose(w) PROVE Onward(v)
  BY <1>9, ContinueRefreshOnward DEF RefreshDiagnose, KeysOwned
<1>10. ASSUME NEW w \in Workers, Unlist(w) PROVE Onward(v)
  BY <1>10, SameOnward DEF Unlist
<1>11. ASSUME NEW w \in Workers, AdminUpdateStart(w) \/ AdminUpdateNext(w) PROVE Onward(v)
  BY <1>11, AdminUpdateOneOnward DEF AdminUpdateStart, AdminUpdateNext
<1>12. CASE Restart
  BY <1>12, IdleOnward DEF Restart
<1>13. CASE UNCHANGED req
  BY <1>13, SameOnward
<1>14. BansChange => UNCHANGED req
  BY DEF BansChange
<1>15. Tick \/ CleanupTask \/ CleanupFails \/ UNCHANGED vars => UNCHANGED req
  BY DEF Tick, CleanupTask, CleanupFails, vars
<1> QED
  BY <1>1, <1>2, <1>3, <1>4, <1>5, <1>6, <1>7, <1>8, <1>9, <1>10, <1>11, <1>12,
     <1>13, <1>14, <1>15 DEF Next, Act, Work

-----------------------------------------------------------------------------
(* Update keys.                                                            *)

\* The row an INSERT has put at id, and the others as they were.
LEMMA InsertedRows ==
  ASSUME TypeOK, NEW w \in Workers, NEW id \in RowIds, NEW key \in Keys,
         Inserted(w, id, key)
  PROVE  /\ sessions'[id].key = key
         /\ sessions'[id].host = req[w].host /\ sessions'[id].sid = req[w].sid
         /\ sessions'[id].age = 0 /\ ~ sessions'[id].unlisted
         /\ sessions'[id].reason = "null"
         /\ sessions'[id] # NoRow
         /\ \A j \in RowIds \ {id} : sessions'[j] = sessions[j]
         /\ req[w] \in [pc : AnnounceSteps, host : Hosts, sid : SessionIds]
<1>1. req[w] \in [pc : AnnounceSteps, host : Hosts, sid : SessionIds]
  BY RequestKinds DEF Inserted, TypeOK, AnnounceSteps
<1>2. /\ sessions'[id] = [host |-> req[w].host, sid |-> req[w].sid, key |-> key,
                          age |-> 0, unlisted |-> FALSE, reason |-> "null"]
      /\ \A j \in RowIds \ {id} : sessions'[j] = sessions[j]
  BY DEF Inserted, InsertSession, TypeOK, Tables
<1>3. sessions'[id] \in Rows
  BY <1>1, <1>2, OldAgeNat DEF Rows, Reasons
<1>4. /\ sessions'[id].key = key
      /\ sessions'[id].host = req[w].host /\ sessions'[id].sid = req[w].sid
      /\ sessions'[id].age = 0 /\ ~ sessions'[id].unlisted
      /\ sessions'[id].reason = "null"
  BY <1>2
<1>5. sessions'[id] # NoRow
  BY <1>3, RowAssumption
<1> QED
  BY <1>1, <1>2, <1>4, <1>5

LEMMA KeysStep ==
  ASSUME TypeOK, KeysOwned, [Next]_vars
  PROVE  KeysOwned'
<1>1. TableKept \/ TableInserted
  BY TableStep
<1>2. issued \subseteq issued'
  BY <1>1 DEF TableKept, TableInserted, Inserted
<1>3. ClientItems \subseteq ClientItems'
  BY <1>2 DEF ClientItems
<1>4. \A w \in Workers :
        /\ req'[w].pc = "diagnose" => req'[w].item \in ClientItems'
        /\ req'[w].pc \in {"diagnose", "refresh"} => req'[w].todo \subseteq ClientItems'
  BY <1>3, RequestStep DEF Onward, RefreshOnward
<1>5. CASE TableKept
  <2>1. \A id \in Used(sessions)' : id \in Used(sessions) /\ sessions'[id].key = sessions[id].key
    BY <1>5 DEF TableKept, RowKept, Used
  <2> QED
    BY <1>2, <1>4, <2>1 DEF KeysOwned
<1>6. CASE TableInserted
  <2>1. PICK w \in Workers, id \in RowIds, key \in Keys : Inserted(w, id, key)
    BY <1>6 DEF TableInserted
  <2>2. sessions'[id].key = key /\ key \in issued' /\ key \notin issued
    <3>1. sessions'[id].key = key
      BY <2>1, InsertedRows
    <3> QED
      BY <2>1, <3>1 DEF Inserted
  <2>3. \A j \in Used(sessions)' \ {id} :
          j \in Used(sessions) /\ sessions'[j].key = sessions[j].key
    BY <2>1, InsertedRows DEF Used
  <2> QED
    BY <1>2, <1>4, <2>2, <2>3 DEF KeysOwned
<1> QED
  BY <1>1, <1>5, <1>6

LEMMA KeysInit == Init => KeysOwned
BY DEF Init, KeysOwned, Used, EmptyTable, Idle

\* The induction behind the theorems below: see KeysOwned.
LEMMA KeysAreOwned == Spec => [](TypeOK /\ KeysOwned)
<1>1. TypeOK /\ KeysOwned /\ [Next]_vars => TypeOK' /\ KeysOwned'
  BY TypeStep, KeysStep
<1> QED
  BY TypeInit, KeysInit, <1>1, PTL DEF Spec

-----------------------------------------------------------------------------
(* Bounds on concurrent announcements.                                     *)

LEMMA MaxSessionsNat == \A host : MaxSessions(host) \in Nat
BY ConfigAssumption DEF MaxSessions

LEMMA RowIdsFinite == IsFiniteSet(RowIds)
BY FS_Interval, RowAssumption DEF RowIds

\* Two finite sets that do not grow do not gain members together.
LEMMA SumShrinks ==
  ASSUME NEW A, NEW B, NEW A2, NEW B2, IsFiniteSet(A), IsFiniteSet(B),
         A2 \subseteq A, B2 \subseteq B
  PROVE  /\ Cardinality(A2) \in Nat /\ Cardinality(B2) \in Nat
         /\ Cardinality(A) \in Nat /\ Cardinality(B) \in Nat
         /\ Cardinality(A2) + Cardinality(B2) <= Cardinality(A) + Cardinality(B)
<1>1. IsFiniteSet(A2) /\ Cardinality(A2) <= Cardinality(A)
  BY FS_Subset
<1>2. IsFiniteSet(B2) /\ Cardinality(B2) <= Cardinality(B)
  BY FS_Subset
<1>3. /\ Cardinality(A2) \in Nat /\ Cardinality(B2) \in Nat
      /\ Cardinality(A) \in Nat /\ Cardinality(B) \in Nat
  BY <1>1, <1>2, FS_CardinalityType
<1> QED
  BY <1>1, <1>2, <1>3

\* What leaves the second set may enter the first.
LEMMA SumMoves ==
  ASSUME NEW A, NEW B, NEW A2, NEW B2, NEW a, NEW b, IsFiniteSet(A), IsFiniteSet(B),
         A2 \subseteq A \cup {a}, b \in B, B2 \subseteq B \ {b}
  PROVE  Cardinality(A2) + Cardinality(B2) <= Cardinality(A) + Cardinality(B)
<1>1. IsFiniteSet(A \cup {a}) /\ Cardinality(A \cup {a}) <= Cardinality(A) + 1
  <2>1. Cardinality(A) \in Nat
    BY FS_CardinalityType
  <2>2. IsFiniteSet(A \cup {a})
    BY FS_AddElement
  <2>3. Cardinality(A \cup {a}) = IF a \in A THEN Cardinality(A) ELSE Cardinality(A) + 1
    BY FS_AddElement
  <2> QED
    BY <2>1, <2>2, <2>3
<1>2. IsFiniteSet(B \ {b}) /\ Cardinality(B \ {b}) = Cardinality(B) - 1
  BY FS_RemoveElement
<1>3. /\ Cardinality(A2) \in Nat /\ Cardinality(B2) \in Nat
      /\ Cardinality(A \cup {a}) \in Nat /\ Cardinality(B \ {b}) \in Nat
      /\ Cardinality(A2) + Cardinality(B2) <= Cardinality(A \cup {a}) + Cardinality(B \ {b})
  BY <1>1, <1>2, SumShrinks
<1>4. Cardinality(A) \in Nat /\ Cardinality(B) \in Nat
  BY FS_CardinalityType
<1> QED
  BY <1>1, <1>2, <1>3, <1>4

LEMMA SetsFinite ==
  ASSUME NEW host, NEW sid
  PROVE  /\ IsFiniteSet(OwnListings(host)) /\ IsFiniteSet(OwnCopies(host, sid))
         /\ IsFiniteSet(Admitted(host)) /\ IsFiniteSet(Announcing(host, sid))
<1>1. OwnListings(host) \subseteq RowIds /\ OwnCopies(host, sid) \subseteq RowIds
  BY DEF OwnListings, OwnCopies, QuerySessionList, Used
<1>2. Admitted(host) \subseteq Workers /\ Announcing(host, sid) \subseteq Workers
  BY DEF Admitted, Announcing
<1> QED
  BY <1>1, <1>2, RowIdsFinite, HostAssumption, FS_Subset

\* Keeping rows adds none to the listings of a host or the copies of a session.
LEMMA KeptListings ==
  ASSUME TypeOK, TableKept, NEW host, NEW sid
  PROVE  /\ OwnListings(host)' \subseteq OwnListings(host)
         /\ OwnCopies(host, sid)' \subseteq OwnCopies(host, sid)
<1>1. ASSUME NEW id \in OwnListings(host)'
      PROVE  id \in OwnListings(host) /\ sessions'[id].sid = sessions[id].sid
  <2>1. /\ id \in RowIds /\ sessions'[id] # NoRow /\ Timely(sessions'[id])
        /\ sessions'[id].unlisted = FALSE
        /\ sessions'[id].host = host /\ sessions'[id].key \notin pardoned'
    BY DEF OwnListings, QuerySessionList, Used
  <2>2. /\ RowKept(id) /\ pardoned \subseteq pardoned'
    BY <2>1 DEF TableKept
  <2>3. /\ sessions[id] # NoRow /\ sessions[id].host = host
        /\ sessions[id].key = sessions'[id].key /\ sessions'[id].sid = sessions[id].sid
        /\ Timely(sessions[id]) /\ ~ sessions[id].unlisted
    BY <2>1, <2>2 DEF RowKept
  <2>4. sessions[id].unlisted = FALSE
    BY <2>1, <2>3 DEF TypeOK, Tables, Rows
  <2> QED
    BY <2>1, <2>2, <2>3, <2>4 DEF OwnListings, QuerySessionList, Used
<1> QED
  BY <1>1 DEF OwnCopies

\* An INSERT adds its row, to the listings of its host only.
LEMMA InsertedListings ==
  ASSUME TypeOK, NEW w \in Workers, NEW id \in RowIds, NEW key \in Keys,
         Inserted(w, id, key), NEW host, NEW sid
  PROVE  /\ OwnListings(host)' \subseteq OwnListings(host) \cup {id}
         /\ OwnCopies(host, sid)' \subseteq OwnCopies(host, sid) \cup {id}
         /\ req[w].host # host => OwnListings(host)' \subseteq OwnListings(host)
         /\ req[w].host # host \/ req[w].sid # sid =>
              OwnCopies(host, sid)' \subseteq OwnCopies(host, sid)
<1>1. ASSUME NEW j \in OwnListings(host)', j # id
      PROVE  j \in OwnListings(host) /\ sessions'[j].sid = sessions[j].sid
  <2>1. j \in RowIds
    BY DEF OwnListings, QuerySessionList, Used
  <2>2. sessions'[j] = sessions[j]
    BY <1>1, <2>1, InsertedRows
  <2>3. pardoned' = pardoned
    BY DEF Inserted
  <2> QED
    BY <2>1, <2>2, <2>3 DEF OwnListings, QuerySessionList, Used
<1>2. sessions'[id].host = req[w].host /\ sessions'[id].sid = req[w].sid
  BY InsertedRows
<1>3. id \in OwnListings(host)' => req[w].host = host
  BY <1>2 DEF OwnListings
<1>4. id \in OwnCopies(host, sid)' => req[w].host = host /\ req[w].sid = sid
  BY <1>2, <1>3 DEF OwnCopies
<1>5. OwnListings(host)' \ {id} \subseteq OwnListings(host)
  BY <1>1
<1>6. OwnCopies(host, sid)' \ {id} \subseteq OwnCopies(host, sid)
  BY <1>1 DEF OwnCopies
<1> QED
  BY <1>3, <1>4, <1>5, <1>6

LEMMA LimitStep ==
  ASSUME TypeOK, KeysOwned, HostLimitOvershoot, [Next]_vars
  PROVE  HostLimitOvershoot'
<1> SUFFICES ASSUME NEW host \in Hosts \ TrustedHosts
             PROVE  Cardinality(OwnListings(host)') + Cardinality(Admitted(host)')
                      <= MaxSessions(host) + Cardinality(Workers) - 1
  BY DEF HostLimitOvershoot
<1> DEFINE L == OwnListings(host)
           A == Admitted(host)
<1>1. IsFiniteSet(L) /\ IsFiniteSet(A)
  BY SetsFinite
<1>2. /\ Cardinality(L) \in Nat /\ Cardinality(A) \in Nat
      /\ MaxSessions(host) \in Nat /\ Cardinality(Workers) \in Nat
      /\ Cardinality(L) + Cardinality(A) <= MaxSessions(host) + Cardinality(Workers) - 1
  BY <1>1, MaxSessionsNat, HostAssumption, FS_CardinalityType DEF HostLimitOvershoot
<1>3. A' \subseteq Workers
  BY DEF Admitted
<1>4. ASSUME NEW v \in A', v \notin A
      PROVE  ~ LimitReached(host) /\ req'[v] # req[v] /\ req[v].pc # "insert"
  <2>1. /\ v \in Workers /\ req'[v].pc \in {"login", "insert"} /\ req'[v].host = host
    BY DEF Admitted
  <2>2. req[v].host = host /\ (req[v].pc \in {"login", "insert"} \/ ~ LimitReached(host))
    BY <2>1, RequestStep DEF Onward, AnnounceOnward, AnnounceSteps
  <2> QED
    BY <1>4, <2>1, <2>2 DEF Admitted
<1>5. CASE TableInserted
  <2>1. PICK w \in Workers, id \in RowIds, key \in Keys : Inserted(w, id, key)
    BY <1>5 DEF TableInserted
  <2>2. /\ req' = [req EXCEPT ![w] = Idle] /\ req[w].pc = "insert"
    BY <2>1 DEF Inserted
  <2>3. A' \subseteq A \ {w}
    BY <2>2 DEF Admitted, TypeOK, Idle
  <2>4. CASE req[w].host = host
    <3>1. w \in A
      BY <2>2, <2>4 DEF Admitted
    <3>2. L' \subseteq L \cup {id}
      BY <2>1, InsertedListings
    <3>3. Cardinality(L') + Cardinality(A') <= Cardinality(L) + Cardinality(A)
      BY <1>1, <2>3, <3>1, <3>2, SumMoves
    <3>4. Cardinality(L') \in Nat /\ Cardinality(A') \in Nat
      <4>1. L' \subseteq RowIds
        BY DEF OwnListings, QuerySessionList, Used
      <4>2. IsFiniteSet(L') /\ IsFiniteSet(A')
        BY <1>3, <4>1, RowIdsFinite, HostAssumption, FS_Subset
      <4> QED
        BY <4>2, FS_CardinalityType
    <3> QED
      BY <1>2, <3>3, <3>4
  <2>5. CASE req[w].host # host
    <3>1. L' \subseteq L
      BY <2>1, <2>5, InsertedListings
    <3> QED
      BY <1>1, <1>2, <2>3, <3>1, SumShrinks
  <2> QED
    BY <2>4, <2>5
<1>6. CASE TableKept
  <2>1. L' \subseteq L
    BY <1>6, KeptListings
  <2>2. CASE A' \subseteq A
    BY <1>1, <1>2, <2>1, <2>2, SumShrinks
  <2>3. CASE ~ (A' \subseteq A)
    <3>1. ~ LimitReached(host)
      BY <1>4, <2>3
    <3>2. DEFINE C == {id \in Used(sessions) :
                         sessions[id].host = host /\ Timely(sessions[id]) /\ ~ sessions[id].unlisted}
    <3>3. L' \subseteq C /\ C \subseteq RowIds
      BY <2>1 DEF OwnListings, QuerySessionList, Used
    <3>4. IsFiniteSet(C)
      BY <3>3, RowIdsFinite, FS_Subset
    <3>5. Cardinality(C) \in Nat /\ ~ (Cardinality(C) >= MaxSessions(host))
      BY <3>1, <3>4, FS_CardinalityType DEF LimitReached, GetHostSessionCount
    <3>6. /\ Cardinality(L') \in Nat /\ Cardinality(A') \in Nat
          /\ Cardinality(L') + Cardinality(A') <= Cardinality(C) + Cardinality(Workers)
      <4> HIDE DEF C
      <4> QED
        BY <1>3, <3>3, <3>4, HostAssumption, SumShrinks
    <3> QED
      <4> HIDE DEF C
      <4> QED
        BY <1>2, <3>5, <3>6
  <2> QED
    BY <2>2, <2>3
<1> QED
  BY <1>5, <1>6, TableStep

LEMMA DuplicateStep ==
  ASSUME TypeOK, KeysOwned, DuplicateBound, [Next]_vars
  PROVE  DuplicateBound'
<1> SUFFICES ASSUME NEW host \in Hosts, NEW sid \in SessionIds
             PROVE  Cardinality(OwnCopies(host, sid)') + Cardinality(Announcing(host, sid)')
                      <= Cardinality(Workers)
  BY DEF DuplicateBound
<1> DEFINE L == OwnCopies(host, sid)
           A == Announcing(host, sid)
<1>1. IsFiniteSet(L) /\ IsFiniteSet(A)
  BY SetsFinite
<1>2. /\ Cardinality(L) \in Nat /\ Cardinality(A) \in Nat /\ Cardinality(Workers) \in Nat
      /\ Cardinality(L) + Cardinality(A) <= Cardinality(Workers)
  BY <1>1, HostAssumption, FS_CardinalityType DEF DuplicateBound
<1>3. A' \subseteq Workers
  BY DEF Announcing
<1>4. ASSUME NEW v \in A', v \notin A
      PROVE  ~ IsActiveSession(sessions, host, sid)
  <2>1. /\ v \in Workers /\ req'[v].pc \in {"count", "login", "insert"}
        /\ req'[v].host = host /\ req'[v].sid = sid
    BY DEF Announcing
  <2> QED
    BY <1>4, <2>1, RequestStep DEF Announcing, Onward, AnnounceOnward, AnnounceSteps
<1>5. CASE TableInserted
  <2>1. PICK w \in Workers, id \in RowIds, key \in Keys : Inserted(w, id, key)
    BY <1>5 DEF TableInserted
  <2>2. /\ req' = [req EXCEPT ![w] = Idle] /\ req[w].pc = "insert"
    BY <2>1 DEF Inserted
  <2>3. A' \subseteq A \ {w}
    BY <2>2 DEF Announcing, TypeOK, Idle
  <2>4. CASE req[w].host = host /\ req[w].sid = sid
    <3>1. w \in A
      BY <2>2, <2>4 DEF Announcing
    <3>2. L' \subseteq L \cup {id}
      BY <2>1, InsertedListings
    <3>3. Cardinality(L') + Cardinality(A') <= Cardinality(L) + Cardinality(A)
      BY <1>1, <2>3, <3>1, <3>2, SumMoves
    <3>4. Cardinality(L') \in Nat /\ Cardinality(A') \in Nat
      <4>1. L' \subseteq RowIds
        BY DEF OwnCopies, OwnListings, QuerySessionList, Used
      <4>2. IsFiniteSet(L') /\ IsFiniteSet(A')
        BY <1>3, <4>1, RowIdsFinite, HostAssumption, FS_Subset
      <4> QED
        BY <4>2, FS_CardinalityType
    <3> QED
      BY <1>2, <3>3, <3>4
  <2>5. CASE ~ (req[w].host = host /\ req[w].sid = sid)
    <3>1. L' \subseteq L
      BY <2>1, <2>5, InsertedListings
    <3> QED
      BY <1>1, <1>2, <2>3, <3>1, SumShrinks
  <2> QED
    BY <2>4, <2>5
<1>6. CASE TableKept
  <2>1. L' \subseteq L
    BY <1>6, KeptListings
  <2>2. CASE A' \subseteq A
    BY <1>1, <1>2, <2>1, <2>2, SumShrinks
  <2>3. CASE ~ (A' \subseteq A)
    <3>1. ~ IsActiveSession(sessions, host, sid)
      BY <1>4, <2>3
    <3>2. L = {}
      BY <3>1 DEF IsActiveSession, OwnCopies, OwnListings, QuerySessionList
    <3>3. IsFiniteSet({}) /\ Cardinality({}) = 0
      BY FS_EmptySet
    <3>4. Cardinality(L') + Cardinality(A') <= Cardinality({}) + Cardinality(Workers)
      BY <1>3, <2>1, <3>2, <3>3, HostAssumption, SumShrinks
    <3> QED
      BY <1>2, <3>3, <3>4
  <2> QED
    BY <2>2, <2>3
<1> QED
  BY <1>5, <1>6, TableStep

LEMMA BoundsInit == Init => HostLimitOvershoot /\ DuplicateBound
<1> SUFFICES ASSUME Init PROVE HostLimitOvershoot /\ DuplicateBound
  OBVIOUS
<1>1. /\ IsFiniteSet({}) /\ Cardinality({}) = 0
  BY FS_EmptySet
<1>2. ASSUME NEW host, NEW sid
      PROVE  /\ OwnListings(host) = {} /\ OwnCopies(host, sid) = {}
             /\ Admitted(host) = {} /\ Announcing(host, sid) = {}
  BY DEF Init, OwnListings, OwnCopies, Admitted, Announcing, QuerySessionList, Used,
         EmptyTable, Idle
<1>3. Cardinality(Workers) \in Nat /\ Cardinality(Workers) # 0
  BY HostAssumption, FS_CardinalityType, FS_EmptySet
<1>4. DuplicateBound
  BY <1>1, <1>2, <1>3 DEF DuplicateBound
<1>5. HostLimitOvershoot
  <2> SUFFICES ASSUME NEW host \in Hosts \ TrustedHosts
               PROVE  Cardinality(OwnListings(host)) + Cardinality(Admitted(host))
                        <= MaxSessions(host) + Cardinality(Workers) - 1
    BY DEF HostLimitOvershoot
  <2>1. MaxSessions(host) \in Nat
    BY MaxSessionsNat
  <2>2. Cardinality(OwnListings(host)) = 0 /\ Cardinality(Admitted(host)) = 0
    BY <1>1, <1>2
  <2> QED
    BY <1>3, <2>1, <2>2
<1> QED
  BY <1>4, <1>5

\* Concurrent announcements overshoot a limit by less than one listing each:
\* see HostLimitOvershoot.
THEOREM LimitOvershootBounded == Spec => []HostLimitOvershoot
<1> DEFINE Inv == TypeOK /\ KeysOwned /\ HostLimitOvershoot
<1>1. Init => Inv
  BY TypeInit, KeysInit, BoundsInit
<1>2. Inv /\ [Next]_vars => Inv'
  BY TypeStep, KeysStep, LimitStep
<1>3. Inv => HostLimitOvershoot
  OBVIOUS
<1> QED
  BY <1>1, <1>2, <1>3, PTL DEF Spec

\* A session is never listed more often than requests run: see DuplicateBound.
THEOREM DuplicatesBounded == Spec => []DuplicateBound
<1> DEFINE Inv == TypeOK /\ KeysOwned /\ DuplicateBound
<1>1. Init => Inv
  BY TypeInit, KeysInit, BoundsInit
<1>2. Inv /\ [Next]_vars => Inv'
  BY TypeStep, KeysStep, DuplicateStep
<1>3. Inv => DuplicateBound
  OBVIOUS
<1> QED
  BY <1>1, <1>2, <1>3, PTL DEF Spec

-----------------------------------------------------------------------------
(* Hosts banned in the config.                                             *)

LEMMA BannedStep ==
  ASSUME TypeOK, KeysOwned, BannedHostUnlisted, [Next]_vars
  PROVE  BannedHostUnlisted'
<1>1. ASSUME NEW w \in Workers, req'[w].pc \in AnnounceSteps \ {"ban"}
      PROVE  req'[w].host \notin BannedHosts
  <2>1. /\ req[w].pc \in AnnounceSteps /\ req'[w].host = req[w].host
        /\ req[w].pc = "ban" => ~ BanRefuses(req[w].host)
    BY <1>1, RequestStep DEF Onward, AnnounceOnward
  <2> QED
    BY <2>1 DEF BannedHostUnlisted, BanRefuses
<1>2. ASSUME NEW id \in Used(sessions)' PROVE sessions'[id].host \notin BannedHosts
  <2>1. CASE TableKept
    BY <1>2, <2>1 DEF TableKept, RowKept, BannedHostUnlisted, Used
  <2>2. CASE TableInserted
    <3>1. PICK w \in Workers, i \in RowIds, key \in Keys : Inserted(w, i, key)
      BY <2>2 DEF TableInserted
    <3>2. req[w].host \notin BannedHosts
      BY <3>1 DEF Inserted, BannedHostUnlisted, AnnounceSteps
    <3>3. CASE id = i
      BY <3>1, <3>2, <3>3, InsertedRows
    <3>4. CASE id # i
      <4>1. id \in RowIds /\ sessions'[id] # NoRow
        BY <1>2 DEF Used
      <4>2. sessions'[id] = sessions[id]
        BY <3>1, <3>4, <4>1, InsertedRows
      <4> QED
        BY <4>1, <4>2 DEF BannedHostUnlisted, Used
    <3> QED
      BY <3>3, <3>4
  <2> QED
    BY <2>1, <2>2, TableStep
<1> QED
  BY <1>1, <1>2 DEF BannedHostUnlisted

\* A host banned in the config is never listed: see BannedHostUnlisted.
THEOREM BannedNeverListed == Spec => []BannedHostUnlisted
<1> DEFINE Inv == TypeOK /\ KeysOwned /\ BannedHostUnlisted
<1>1. Init => BannedHostUnlisted
  BY DEF Init, BannedHostUnlisted, Used, EmptyTable, Idle, AnnounceSteps
<1>2. Init => Inv
  BY <1>1, TypeInit, KeysInit
<1>3. Inv /\ [Next]_vars => Inv'
  BY TypeStep, KeysStep, BannedStep
<1>4. Inv => BannedHostUnlisted
  OBVIOUS
<1> QED
  BY <1>2, <1>3, <1>4, PTL DEF Spec

-----------------------------------------------------------------------------
(* Refreshes that were refused.                                            *)

\* A row with a reason that is on the list was put there by an administrator.
ReasonMeansKicked ==
  \A id \in Used(sessions) :
    sessions[id].reason = "text" /\ ~ sessions[id].unlisted => sessions[id].key \in pardoned

LEMMA ReasonStep ==
  ASSUME TypeOK, KeysOwned, ReasonMeansKicked, [Next]_vars
  PROVE  ReasonMeansKicked'
<1>1. CASE TableKept
  BY <1>1 DEF TableKept, RowKept, ReasonMeansKicked, Used
<1>2. CASE TableInserted
  <2>1. PICK w \in Workers, i \in RowIds, key \in Keys : Inserted(w, i, key)
    BY <1>2 DEF TableInserted
  <2>2. sessions'[i].reason # "text" /\ pardoned' = pardoned
    BY <2>1, InsertedRows DEF Inserted
  <2>3. \A id \in RowIds \ {i} : sessions'[id] = sessions[id]
    BY <2>1, InsertedRows
  <2> QED
    BY <2>2, <2>3 DEF ReasonMeansKicked, Used
<1> QED
  BY <1>1, <1>2, TableStep

\* The part of RefusalStands that a step preserves by itself.
RefusedStays ==
  \A w \in Workers :
    req[w].pc = "diagnose" /\ req[w].item.key \notin pardoned =>
      ~ RefreshMatches(sessions, req[w].item.id, req[w].item.key)

LEMMA RefusedStep ==
  ASSUME TypeOK, KeysOwned, RefusedStays, [Next]_vars
  PROVE  RefusedStays'
<1> SUFFICES ASSUME NEW w \in Workers, req'[w].pc = "diagnose",
                    req'[w].item.key \notin pardoned'
             PROVE  ~ RefreshMatches(sessions', req'[w].item.id, req'[w].item.key)
  BY DEF RefusedStays
<1> DEFINE i == req'[w].item
<1>1. /\ i \in ClientItems
      /\ \/ req'[w] = req[w]
         \/ ~ RefreshMatches(sessions, i.id, i.key) /\ sessions' = sessions
  BY RequestStep DEF Onward, RefreshOnward
<1>2. i.id \in RowIds /\ i.key \in issued
  BY <1>1 DEF ClientItems, Items
<1>3. pardoned \subseteq pardoned'
  BY TableStep DEF TableKept, TableInserted, Inserted
<1>4. ~ RefreshMatches(sessions, i.id, i.key)
  BY <1>1, <1>3 DEF RefusedStays
<1> HIDE DEF i
<1>5. CASE TableKept
  <2>1. RowKept(i.id)
    BY <1>2, <1>5 DEF TableKept
  <2> QED
    BY <1>4, <2>1 DEF RowKept, RefreshMatches, i
<1>6. CASE TableInserted
  <2>1. PICK v \in Workers, id \in RowIds, key \in Keys : Inserted(v, id, key)
    BY <1>6 DEF TableInserted
  <2>2. sessions'[id].key # i.key
    <3>1. sessions'[id].key = key
      BY <2>1, InsertedRows
    <3> QED
      BY <1>2, <2>1, <3>1 DEF Inserted
  <2>3. i.id # id => sessions'[i.id] = sessions[i.id]
    BY <1>2, <2>1, InsertedRows
  <2> QED
    BY <1>4, <2>2, <2>3 DEF RefreshMatches, i
<1> QED
  BY <1>5, <1>6, TableStep

LEMMA RefusalFollows ==
  ASSUME TypeOK, KeysOwned, RefusedStays, ReasonMeansKicked
  PROVE  RefusalStands
<1> SUFFICES ASSUME NEW w \in Workers, req[w].pc = "diagnose", req[w].item.key \notin pardoned,
                    RefreshDiagnosis(sessions, req[w].item.id, req[w].item.key) = "timed out"
             PROVE  /\ sessions[req[w].item.id] # NoRow
                    /\ ~ Timely(sessions[req[w].item.id])
  BY DEF RefusalStands, RefusedStays
<1> DEFINE id  == req[w].item.id
           key == req[w].item.key
<1>1. id \in RowIds
  BY DEF KeysOwned, ClientItems, Items
<1>2. sessions[id] # NoRow /\ sessions[id].key = key /\ ~ sessions[id].unlisted
  BY DEF RefreshDiagnosis
<1>3. sessions[id].reason # "text"
  BY <1>1, <1>2 DEF ReasonMeansKicked, Used
<1> QED
  BY <1>2, <1>3 DEF RefusedStays, RefreshMatches

\* A refused refresh was not refused by mistake: see RefusalStands.
THEOREM RefusalsStand == Spec => []RefusalStands
<1> DEFINE Inv == TypeOK /\ KeysOwned /\ RefusedStays /\ ReasonMeansKicked
<1>1. Init => RefusedStays /\ ReasonMeansKicked
  BY DEF Init, RefusedStays, ReasonMeansKicked, Used, EmptyTable, Idle
<1>2. Init => Inv
  BY <1>1, TypeInit, KeysInit
<1>3. Inv /\ [Next]_vars => Inv'
  BY TypeStep, KeysStep, RefusedStep, ReasonStep
<1>4. Inv => RefusalStands
  BY RefusalFollows
<1> QED
  BY <1>2, <1>3, <1>4, PTL DEF Spec

-----------------------------------------------------------------------------
(* What a step never does to a row.                                        *)

\* A row that is there before and after a step was kept, with or without
\* another one being inserted.
LEMMA RowStep ==
  ASSUME TypeOK, KeysOwned, [Next]_vars, NEW id \in RowIds, sessions[id] # NoRow
  PROVE  RowKept(id)
<1>1. CASE TableKept
  BY <1>1 DEF TableKept
<1>2. CASE TableInserted
  <2>1. PICK w \in Workers, i \in RowIds, key \in Keys : Inserted(w, i, key)
    BY <1>2 DEF TableInserted
  <2>2. id # i
    BY <2>1 DEF Inserted
  <2>3. sessions'[id] = sessions[id]
    BY <2>1, <2>2, InsertedRows
  <2>4. sessions[id].age \in 0..OldAge
    BY DEF TypeOK, Tables, Rows
  <2> QED
    BY <2>3, <2>4, OldAgeNat DEF RowKept
<1> QED
  BY <1>1, <1>2, TableStep

LEMMA AgesNat ==
  ASSUME TypeOK, NEW id \in RowIds, sessions[id] # NoRow
  PROVE  sessions[id].age \in Int
BY OldAgeNat DEF TypeOK, Tables, Rows

LEMMA AgesNatNext ==
  ASSUME TypeOK', NEW id \in RowIds, sessions'[id] # NoRow
  PROVE  sessions'[id].age \in Int
BY OldAgeNat DEF TypeOK, Tables, Rows

\* A kick with a reason holds until an administrator changes it: see KickSticks.
THEOREM KicksStick == Spec => KickSticks
<1>1. ASSUME TypeOK, TypeOK', KeysOwned, [Next]_vars,
             NEW id \in RowIds, KickedAt(id), sessions'[id] # NoRow,
             sessions[id].key \notin pardoned'
      PROVE  KickedAt(id)' /\ sessions'[id].age >= sessions[id].age
  <2>1. RowKept(id) /\ sessions[id] # NoRow
    BY <1>1, RowStep DEF KickedAt
  <2>2. sessions'[id].age \in Int /\ sessions[id].age \in Int
    BY <1>1, <2>1, AgesNat, AgesNatNext
  <2>3. ~ (sessions'[id].age < sessions[id].age)
    BY <1>1, <2>1 DEF RowKept, KickedAt
  <2>4. KickedAt(id)'
    BY <1>1, <2>1 DEF RowKept, KickedAt
  <2> QED
    BY <2>2, <2>3, <2>4
<1>2. TypeOK /\ TypeOK' /\ KeysOwned /\ [Next]_vars =>
        [\A id \in RowIds :
           KickedAt(id) /\ sessions'[id] # NoRow /\ sessions'[id].key = sessions[id].key =>
             \/ KickedAt(id)' /\ sessions'[id].age >= sessions[id].age
             \/ sessions[id].key \in pardoned']_vars
  BY <1>1
<1> QED
  BY <1>2, KeysAreOwned, PTL DEF KickSticks, Spec

\* A listing whose key nobody knows is left alone: see LostListingUntouched.
THEOREM LostListingsUntouched == Spec => LostListingUntouched
<1>1. ASSUME TypeOK, TypeOK', KeysOwned, [Next]_vars,
             NEW id \in RowIds, sessions[id] # NoRow, sessions[id].key \in LostKeys,
             sessions'[id] # NoRow
      PROVE  /\ sessions'[id].age >= sessions[id].age
             /\ sessions'[id].unlisted /\ ~ sessions[id].unlisted
                  => sessions'[id].reason # "null"
  <2>1. RowKept(id)
    BY <1>1, RowStep
  <2>2. sessions'[id].age \in Int /\ sessions[id].age \in Int
    BY <1>1, AgesNat, AgesNatNext
  <2>3. ~ (sessions'[id].age < sessions[id].age)
    BY <1>1, <2>1 DEF RowKept
  <2>4. sessions'[id].unlisted /\ ~ sessions[id].unlisted => sessions'[id].reason # "null"
    BY <1>1, <2>1 DEF RowKept
  <2> QED
    BY <2>2, <2>3, <2>4
<1>2. TypeOK /\ TypeOK' /\ KeysOwned /\ [Next]_vars =>
        [\A id \in RowIds :
           /\ sessions[id] # NoRow /\ sessions[id].key \in LostKeys
           /\ sessions'[id] # NoRow /\ sessions'[id].key = sessions[id].key
           => /\ sessions'[id].age >= sessions[id].age
              /\ sessions'[id].unlisted /\ ~ sessions[id].unlisted
                   => sessions'[id].reason # "null"]_vars
  BY <1>1
<1> QED
  BY <1>2, KeysAreOwned, PTL DEF LostListingUntouched, Spec

-----------------------------------------------------------------------------
(* The ids in an administrator's list.                                     *)

\* A request, the cleanup or a restart leaves a row that the cleanup keeps, and
\* makes no row older.
LEMMA ActKeeps ==
  ASSUME TypeOK, Act, Persistent, NEW id \in RowIds, sessions[id] # NoRow,
         CleanupKeeps(sessions[id])
  PROVE  sessions'[id] # NoRow /\ sessions'[id].age <= sessions[id].age
<1> DEFINE Kept == sessions'[id] # NoRow /\ sessions'[id].age <= sessions[id].age
<1>1. sessions[id] \in Rows /\ sessions[id].age \in Int /\ sessions[id].age >= 0
  BY OldAgeNat DEF TypeOK, Tables, Rows
<1>2. CASE sessions'[id] = sessions[id]
  BY <1>1, <1>2
<1>3. ASSUME NEW w \in Workers,
             \/ AnnounceStart(w) \/ CheckBan(w) \/ CheckActive(w) \/ CheckCount(w)
             \/ TryDrawpileLogin(w) \/ RefreshDiagnose(w) \/ DbError(w)
      PROVE  Kept
  BY <1>2, <1>3 DEF AnnounceStart, CheckBan, CheckActive, CheckCount,
     TryDrawpileLogin, RefreshDiagnose, DbError
<1>4. ASSUME NEW w \in Workers, Insert(w) PROVE Kept
  <2>1. CASE \E i \in RowIds, key \in Keys :
               /\ IsNextRowId(sessions, i)
               /\ sessions' = InsertSession(sessions, i, req[w].host, req[w].sid, key)
    <3>1. PICK i \in RowIds, key \in Keys :
               /\ IsNextRowId(sessions, i)
               /\ sessions' = InsertSession(sessions, i, req[w].host, req[w].sid, key)
      BY <2>1
    <3>2. i # id
      BY <3>1, NextRowIsFree
    <3>3. sessions'[id] = sessions[id]
      BY <3>1, <3>2 DEF InsertSession, TypeOK, Tables
    <3> QED BY <1>2, <3>3
  <2>2. CASE sessions' = sessions
    BY <1>2, <2>2
  <2> QED BY <1>4, <2>1, <2>2 DEF Insert
<1>5. ASSUME NEW w \in Workers, NEW item \in Items, NEW rest,
             RefreshSession(w, item, rest)
      PROVE  Kept
  <2>1. CASE sessions' = RefreshUpdate(sessions, item.id) /\ id = item.id
    <3>1. sessions'[id] = [sessions[id] EXCEPT !.age = 0]
      BY <2>1 DEF RefreshUpdate, TypeOK, Tables
    <3>2. sessions'[id] \in Rows /\ sessions'[id].age = 0
      BY <1>1, <3>1, OldAgeNat DEF Rows
    <3> QED BY <1>1, <3>2, RowAssumption
  <2>2. CASE sessions' = RefreshUpdate(sessions, item.id) /\ id # item.id
    BY <1>2, <2>2 DEF RefreshUpdate, TypeOK, Tables
  <2>3. CASE sessions' = sessions
    BY <1>2, <2>3
  <2> QED BY <1>5, <2>1, <2>2, <2>3 DEF RefreshSession
<1>6. ASSUME NEW w \in Workers, RefreshStart(w) PROVE Kept
  BY <1>5, <1>6 DEF RefreshStart, Batches, ClientItems
<1>7. ASSUME NEW w \in Workers, RefreshNext(w) PROVE Kept
  <2>1. req[w].todo \in SUBSET Items
    BY <1>7, RequestKinds DEF RefreshNext, TypeOK
  <2> QED BY <1>5, <1>7, <2>1 DEF RefreshNext
<1>8. ASSUME NEW i, sessions' = DeleteSession(sessions, i) PROVE Kept
  <2>1. CASE i = id
    <3>1. sessions'[id] = [sessions[id] EXCEPT !.unlisted = TRUE]
      BY <1>8, <2>1 DEF DeleteSession, TypeOK, Tables
    <3>2. sessions'[id] \in Rows /\ sessions'[id].age = sessions[id].age
      BY <1>1, <3>1 DEF Rows
    <3> QED BY <1>1, <3>2, RowAssumption
  <2>2. CASE i # id
    BY <1>2, <1>8, <2>2 DEF DeleteSession, TypeOK, Tables
  <2> QED BY <2>1, <2>2
<1>9. ASSUME NEW w \in Workers, Unlist(w) PROVE Kept
  BY <1>8, <1>9 DEF Unlist
<1>10. ASSUME NEW w \in Workers, NEW i, NEW rest, NEW u, u.unlisted \in BOOLEAN,
              u.reason \in {"empty", "text"}, AdminUpdateOne(w, i, u, rest)
       PROVE  Kept
  <2>1. CASE i = id
    <3>1. sessions'[id] = [sessions[id] EXCEPT !.unlisted = u.unlisted, !.reason = u.reason]
      BY <1>10, <2>1 DEF AdminUpdateOne, AdminUpdate, TypeOK, Tables
    <3>2. sessions'[id] \in Rows /\ sessions'[id].age = sessions[id].age
      BY <1>1, <1>10, <3>1 DEF Rows, Reasons
    <3> QED BY <1>1, <3>2, RowAssumption
  <2>2. CASE i # id
    BY <1>2, <1>10, <2>2 DEF AdminUpdateOne, AdminUpdate, TypeOK, Tables
  <2> QED BY <2>1, <2>2
<1>11. ASSUME NEW w \in Workers, AdminUpdateStart(w) PROVE Kept
  <2>1. PICK u \in AdminRequests : \E i \in u.ids : AdminUpdateOne(w, i, u, u.ids \ {i})
    BY <1>11 DEF AdminUpdateStart
  <2>2. u.unlisted \in BOOLEAN /\ u.reason \in {"empty", "text"}
    BY ConfigAssumption DEF AdminUpdates
  <2> QED BY <1>10, <2>1, <2>2
<1>12. ASSUME NEW w \in Workers, AdminUpdateNext(w) PROVE Kept
  <2>1. req[w].unlisted \in BOOLEAN /\ req[w].reason \in {"empty", "text"}
    BY <1>12, RequestKinds DEF AdminUpdateNext, TypeOK
  <2> QED BY <1>10, <1>12, <2>1 DEF AdminUpdateNext
<1>13. BansChange \/ CleanupFails \/ Restart => sessions'[id] = sessions[id]
  BY DEF BansChange, CleanupFails, Restart
<1>14. CleanupTask => sessions'[id] = sessions[id]
  BY DEF CleanupTask, Cleanup
<1> QED
  BY <1>2, <1>3, <1>4, <1>6, <1>7, <1>9, <1>11, <1>12, <1>13, <1>14 DEF Act, Work

LEMMA TickKeeps ==
  ASSUME TypeOK, Tick, NEW id \in RowIds, sessions[id] # NoRow
  PROVE  /\ sessions'[id] # NoRow /\ sessions'[id].age <= sessions[id].age + 1
         /\ sessions'[id].key = sessions[id].key
         /\ sessions'[id].unlisted = sessions[id].unlisted
<1>1. sessions[id] \in Rows /\ sessions[id].age \in Int
  BY OldAgeNat DEF TypeOK, Tables, Rows
<1>2. sessions'[id] = [sessions[id] EXCEPT !.age = Older(sessions[id].age)]
  BY DEF Tick, Aged, TypeOK, Tables
<1>3. sessions'[id] # NoRow
  <2>1. Older(sessions[id].age) \in 0..OldAge
    BY <1>1, OldAgeNat DEF Older, Rows
  <2> QED BY <1>1, <1>2, <2>1, RowAssumption DEF Rows
<1>4. /\ sessions'[id].age = Older(sessions[id].age)
      /\ sessions'[id].key = sessions[id].key
      /\ sessions'[id].unlisted = sessions[id].unlisted
  BY <1>1, <1>2 DEF Rows
<1> QED BY <1>1, <1>3, <1>4, OldAgeNat DEF Older

\* What the administrator remembers has the type of what was read.
AdminTypeOK == seen \in Tables /\ since \in 0..OldAge

\* A listing seen with this id that has not been withdrawn and cannot be a day
\* old yet, even if nobody has refreshed it.
MustStand(id) == seen[id] # NoRow /\ seen[id].age + since <= Day

\* SeenStands with what a step needs: the listing is on the list, and not older
\* than if nobody had refreshed it.
SeenKept ==
  Persistent =>
    \A id \in RowIds :
      MustStand(id) =>
        /\ sessions[id] # NoRow /\ sessions[id].key = seen[id].key
        /\ ~ sessions[id].unlisted
        /\ sessions[id].age <= seen[id].age + since

LEMMA AdminIsServer == AdminSpec => Spec
<1>1. AdminInit => Init
  BY DEF AdminInit
<1>2. [AdminNext]_adminVars => [Next]_vars
  BY DEF AdminNext, AdminSessionList, OthersAct, TimePasses, Next, adminVars
<1> QED BY <1>1, <1>2, PTL DEF AdminSpec, Spec

LEMMA WithoutTyped ==
  ASSUME NEW t \in Tables, NEW keys
  PROVE  /\ Without(t, keys) \in Tables
         /\ \A id \in RowIds : Without(t, keys)[id] # NoRow =>
              /\ Without(t, keys)[id] = t[id] /\ t[id] # NoRow
              /\ t[id].key \notin keys
BY DEF Without, Tables

LEMMA AdminTypeStep ==
  ASSUME TypeOK, AdminTypeOK, [AdminNext]_adminVars
  PROVE  AdminTypeOK'
<1>1. CASE AdminSessionList
  BY <1>1, WithoutTyped, OldAgeNat DEF AdminSessionList, AdminTypeOK, TypeOK
<1>2. CASE OthersAct
  BY <1>2, WithoutTyped DEF OthersAct, AdminTypeOK
<1>3. CASE TimePasses
  BY <1>3, OldAgeNat DEF TimePasses, AdminTypeOK, Older
<1>4. CASE UNCHANGED adminVars
  BY <1>4 DEF adminVars, AdminTypeOK
<1> QED BY <1>1, <1>2, <1>3, <1>4 DEF AdminNext

LEMMA SeenStep ==
  ASSUME TypeOK, TypeOK', KeysOwned, AdminTypeOK, SeenKept, [AdminNext]_adminVars
  PROVE  SeenKept'
<1> SUFFICES ASSUME Persistent, NEW id \in RowIds, MustStand(id)'
             PROVE  /\ sessions'[id] # NoRow /\ sessions'[id].key = seen'[id].key
                    /\ ~ sessions'[id].unlisted
                    /\ sessions'[id].age <= seen'[id].age + since'
  BY DEF SeenKept
<1>1. CASE AdminSessionList
  <2>1. /\ seen' = Without(sessions, UnlistedKeys(sessions)) /\ since' = 0
        /\ sessions' = sessions
    BY <1>1 DEF AdminSessionList, vars
  <2>2. /\ seen'[id] = sessions[id] /\ sessions[id] # NoRow
        /\ sessions[id].key \notin UnlistedKeys(sessions)
    BY <2>1, WithoutTyped DEF MustStand, TypeOK
  <2>3. ~ sessions[id].unlisted
    BY <2>2 DEF UnlistedKeys, Used
  <2>4. sessions[id].age \in Int
    BY <2>2, AgesNat
  <2> QED BY <2>1, <2>2, <2>3, <2>4
<1>2. seen[id] # NoRow => seen[id].age \in Int
  BY OldAgeNat DEF AdminTypeOK, Tables, Rows
<1>3. since \in Int /\ Day \in Int
  BY OldAgeNat, TimeAssumption DEF AdminTypeOK
<1>4. CASE OthersAct
  <2>1. /\ seen' = Without(seen, UnlistedKeys(sessions')) /\ since' = since
    BY <1>4 DEF OthersAct
  <2>2. /\ MustStand(id) /\ seen'[id] = seen[id]
        /\ seen[id].key \notin UnlistedKeys(sessions')
    BY <2>1, WithoutTyped DEF MustStand, AdminTypeOK
  <2>3. /\ sessions[id] # NoRow /\ sessions[id].key = seen[id].key
        /\ ~ sessions[id].unlisted /\ sessions[id].age <= seen[id].age + since
    BY <2>2 DEF SeenKept
  <2>4. sessions[id].age \in Int
    BY <2>3, AgesNat
  <2>5. CleanupKeeps(sessions[id])
    BY <1>2, <1>3, <2>2, <2>3, <2>4 DEF CleanupKeeps, MustStand
  <2>6. sessions'[id] # NoRow /\ sessions'[id].age <= sessions[id].age
    BY <1>4, <2>3, <2>5, ActKeeps DEF OthersAct
  <2>7. sessions'[id].key = seen[id].key
    BY <1>4, <2>3, <2>6, RowStep DEF OthersAct, Next, RowKept
  <2>8. ~ sessions'[id].unlisted
    BY <2>2, <2>6, <2>7 DEF UnlistedKeys, Used
  <2>9. sessions'[id].age \in Int
    BY <2>6, AgesNatNext
  <2> QED BY <1>2, <1>3, <2>1, <2>2, <2>3, <2>4, <2>6, <2>7, <2>8, <2>9 DEF MustStand
<1>5. CASE TimePasses
  <2>1. seen' = seen /\ since' = Older(since) /\ Tick
    BY <1>5 DEF TimePasses
  <2>2. since' \in Int /\ since <= since'
    BY <1>3, <2>1, OldAgeNat DEF Older
  <2>3. seen[id] # NoRow /\ seen[id].age + since' <= Day /\ seen[id].age >= 0
    BY <2>1, OldAgeNat DEF MustStand, AdminTypeOK, Tables, Rows
  <2>4. since' = since + 1
    <3>1. since # OldAge
      BY <1>2, <1>3, <2>2, <2>3, OldAgeNat
    <3> QED BY <2>1, <3>1, OldAgeNat DEF Older, AdminTypeOK
  <2>5. MustStand(id)
    BY <1>2, <1>3, <2>1, <2>2, <2>3 DEF MustStand
  <2>6. /\ sessions[id] # NoRow /\ sessions[id].key = seen[id].key
        /\ ~ sessions[id].unlisted /\ sessions[id].age <= seen[id].age + since
    BY <2>5 DEF SeenKept
  <2>7. sessions[id].age \in Int
    BY <2>6, AgesNat
  <2>8. /\ sessions'[id] # NoRow /\ sessions'[id].age <= sessions[id].age + 1
        /\ sessions'[id].key = sessions[id].key
        /\ sessions'[id].unlisted = sessions[id].unlisted
    BY <2>1, <2>6, TickKeeps
  <2>9. sessions'[id].age \in Int
    BY <2>8, AgesNatNext
  <2>10. sessions'[id].age <= seen[id].age + since'
    BY <1>2, <1>3, <2>3, <2>4, <2>6, <2>7, <2>8, <2>9
  <2> QED BY <2>1, <2>6, <2>8, <2>10
<1>6. CASE UNCHANGED adminVars
  <2>1. MustStand(id)
    BY <1>6 DEF adminVars, MustStand
  <2> QED BY <1>6, <2>1 DEF adminVars, vars, SeenKept
<1> QED BY <1>1, <1>4, <1>5, <1>6 DEF AdminNext

\* For a day an id in an administrator's list stands for the listing that was
\* seen: see SeenStands.
THEOREM SeenListingsStand == AdminSpec => []SeenStands
<1> DEFINE Inv == AdminTypeOK /\ SeenKept
<1>1. AdminInit => Inv
  <2> SUFFICES ASSUME AdminInit PROVE Inv
    OBVIOUS
  <2>1. AdminTypeOK
    BY EmptyTyped, OldAgeNat DEF AdminInit, AdminTypeOK
  <2>2. \A id \in RowIds : ~ MustStand(id)
    BY DEF AdminInit, MustStand, EmptyTable
  <2> QED BY <2>1, <2>2 DEF SeenKept
<1>2. /\ TypeOK /\ TypeOK' /\ KeysOwned /\ Inv
      /\ [AdminNext]_adminVars
      => Inv'
  BY AdminTypeStep, SeenStep
<1>3. Inv => SeenStands
  BY DEF SeenKept, SeenStands, MustStand
<1> HIDE DEF Inv
<1> QED BY <1>1, <1>2, <1>3, AdminIsServer, KeysAreOwned, PTL DEF AdminSpec

-----------------------------------------------------------------------------
(* The statements that ask which sessions are listed.                      *)

\* The four ways of asking whether a session is listed agree on every table,
\* at the boundary of the timeout too (db_sqlite.go:267, 351, 380, 655).
THEOREM QueriesAlwaysAgree == Spec => []QueriesAgree
<1>1. TypeOK => QueriesAgree
  <2> SUFFICES ASSUME TypeOK PROVE QueriesAgree
    OBVIOUS
  <2> DEFINE listed == QuerySessionList(sessions)
  <2>1. \A id \in Used(sessions) : sessions[id] \in Rows /\ sessions[id].unlisted \in BOOLEAN
    BY DEF TypeOK, Tables, Used, Rows
  <2>2. \A id \in Used(sessions) : sessions[id].age \in Nat /\ Timeout \in Nat
    BY <2>1, OldAgeNat, TimeAssumption DEF Rows
  <2>3. listed \subseteq Used(sessions)
    BY DEF QuerySessionList
  <2>4. \A id \in Used(sessions) :
          id \in listed <=> Timely(sessions[id]) /\ ~ sessions[id].unlisted
    BY <2>1 DEF QuerySessionList
  <2>5. \A id \in Used(sessions) :
          id \in listed <=> ~ AdminQuerySessions(sessions[id]).unlisted
    <3> SUFFICES ASSUME NEW id \in Used(sessions)
                 PROVE  id \in listed <=> ~ AdminQuerySessions(sessions[id]).unlisted
      OBVIOUS
    <3>1. AdminQuerySessions(sessions[id]).unlisted
            <=> sessions[id].unlisted \/ sessions[id].age > Timeout
      BY Zenon, <2>1 DEF AdminQuerySessions
    <3>2. ~ (sessions[id].age > Timeout) <=> sessions[id].age <= Timeout
      BY <2>2
    <3> HIDE DEF listed
    <3> QED BY <2>4, <3>1, <3>2 DEF Timely
  <2> HIDE DEF listed
  <2>6. ASSUME NEW host \in Hosts
        PROVE  GetHostSessionCount(sessions, host) =
                 Cardinality({id \in listed : sessions[id].host = host})
    <3>1. {id \in Used(sessions) : sessions[id].host = host /\ Timely(sessions[id])
                                   /\ ~ sessions[id].unlisted}
            = {id \in listed : sessions[id].host = host}
      BY <2>3, <2>4
    <3> QED BY <3>1 DEF GetHostSessionCount
  <2>7. ASSUME NEW host \in Hosts, NEW sid \in SessionIds
        PROVE  IsActiveSession(sessions, host, sid) <=>
                 \E id \in listed : sessions[id].host = host /\ sessions[id].sid = sid
    BY <2>3, <2>4 DEF IsActiveSession
  <2> QED BY <2>5, <2>6, <2>7 DEF QueriesAgree, listed
<1> QED BY <1>1, TypeCorrect, PTL

=============================================================================
