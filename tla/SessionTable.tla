---------------------------- MODULE SessionTable ----------------------------
(***************************************************************************)
(* The sessions table of the list server and the SQL statements run on it  *)
(* (db/db_sqlite.go).  Every statement is executed in autocommit mode, so  *)
(* each one is an operator on the whole table: a query is a function of    *)
(* the table, an update yields the next table.                             *)
(*                                                                         *)
(* The table is a total function from row ids to rows, with NoRow where    *)
(* there is none.  Of a row the model keeps the columns the statements     *)
(* decide by.  last_active is stored as an age, the number of ticks since  *)
(* it was set; ages saturate at OldAge, beyond which no statement tells    *)
(* two ages apart, so time itself has no bound.                            *)
(***************************************************************************)
EXTENDS Integers, FiniteSets

CONSTANTS
  Hosts,       \* values of the host column
  SessionIds,  \* values of (port, session_id): a session on its host
  Keys,        \* update keys: 128 random bits, never generated twice
  MaxRows,     \* bound: the largest row id the model has room for
  NoRow,       \* not a row
  Timeout,     \* session timeout, in ticks (sessionTimeout of the config)
  Day          \* one day, in ticks (the '-1 day' of cleanup)

RowIds  == 1..MaxRows

OldAge  == 1 + IF Timeout < Day THEN Day ELSE Timeout

\* unlist_reason: NULL, the empty string, or something readable
Reasons == {"null", "empty", "text"}

Rows == [host     : Hosts,
         sid      : SessionIds,
         key      : Keys,
         age      : 0..OldAge,
         unlisted : BOOLEAN,
         reason   : Reasons]

Tables == [RowIds -> Rows \cup {NoRow}]

ASSUME TimeAssumption == Timeout \in Nat \ {0} /\ Day \in Nat \ {0}
ASSUME RowAssumption  == MaxRows \in Nat \ {0} /\ NoRow \notin Rows

EmptyTable == [id \in RowIds |-> NoRow]

Used(t) == {id \in RowIds : t[id] # NoRow}

-----------------------------------------------------------------------------
(* Conditions on a row.  The statements below do not share code in the     *)
(* program: each spells its WHERE clause out, and so does each operator.   *)

TimelyWrongUnit(row) == row.age <= OldAge

\* last_active >= DATETIME('now', $timeout)
Timely(row) == row.age <= Timeout

\* The public listing: ids of the rows it returns, before any filter.
QuerySessionList(t) ==
  {id \in Used(t) : Timely(t[id]) /\ t[id].unlisted = FALSE}

IsActiveSessionExclusive(t, host, sid) ==
  \E id \in Used(t) :
    t[id].host = host /\ t[id].sid = sid /\ t[id].age < Timeout /\ ~ t[id].unlisted

IsActiveSession(t, host, sid) ==
  \E id \in Used(t) :
    t[id].host = host /\ t[id].sid = sid /\ Timely(t[id]) /\ ~ t[id].unlisted

GetHostSessionCount(t, host) ==
  Cardinality({id \in Used(t) :
                 t[id].host = host /\ Timely(t[id]) /\ ~ t[id].unlisted})

\* What the administration's list says of a row.
AdminQuerySessionsStrict(row) ==
  [unlisted |-> row.unlisted \/ row.age >= Timeout,
   timedOut |-> row.age >= Timeout,
   kicked   |-> row.reason # "null"]

AdminQuerySessions(row) ==
  LET timedOut == row.age > Timeout
  IN [unlisted |-> row.unlisted \/ timedOut,
      timedOut |-> timedOut,
      kicked   |-> row.reason # "null"]

-----------------------------------------------------------------------------
(* Statements that write.                                                  *)

(* The id column is INTEGER PRIMARY KEY without AUTOINCREMENT: SQLite      *)
(* gives a new row one more than the largest id in the table, so an id is  *)
(* used again once the rows from it upwards have been deleted.             *)
IsNextRowId(t, id) ==
  /\ \A j \in Used(t) : j < id
  /\ id = 1 \/ id - 1 \in Used(t)

\* last_active in local time instead of UTC
InsertSessionLocalTime(t, id, host, sid, key) ==
  [t EXCEPT ![id] = [host |-> host, sid |-> sid, key |-> key, age |-> -1,
                     unlisted |-> FALSE, reason |-> "null"]]

InsertSession(t, id, host, sid, key) ==
  [t EXCEPT ![id] = [host |-> host, sid |-> sid, key |-> key, age |-> 0,
                     unlisted |-> FALSE, reason |-> "null"]]

RefreshMatchesNoKey(t, id, key) ==
  t[id] # NoRow /\ t[id].reason # "text" /\ Timely(t[id])

RefreshMatchesKicked(t, id, key) ==
  t[id] # NoRow /\ t[id].key = key /\ Timely(t[id])

RefreshMatchesExpired(t, id, key) ==
  t[id] # NoRow /\ t[id].key = key /\ t[id].reason # "text"

\* The WHERE clause of the refresh: it does not look at unlisted.
RefreshMatches(t, id, key) ==
  /\ t[id] # NoRow
  /\ t[id].key = key
  /\ t[id].reason # "text"
  /\ Timely(t[id])

RefreshUpdate(t, id) == [t EXCEPT ![id].age = 0]

\* Why a refresh that changed nothing is told to have failed.
RefreshDiagnosisBlind(t, id, key) ==
  IF t[id] = NoRow THEN "no such session" ELSE "timed out"

RefreshDiagnosis(t, id, key) ==
  CASE t[id] = NoRow                                -> "no such session"
    [] t[id] # NoRow /\ t[id].key # key             -> "invalid session key"
    [] t[id] # NoRow /\ t[id].key = key /\ t[id].unlisted ->
         IF t[id].reason = "text" THEN "reason given" ELSE "already unlisted"
    [] OTHER                                        -> "timed out"

DeleteMatches(t, id, key) ==
  t[id] # NoRow /\ t[id].key = key /\ t[id].unlisted = FALSE

DeleteSession(t, id) == [t EXCEPT ![id].unlisted = TRUE]

\* One iteration of AdminUpdateSessions; an id without a row changes nothing.
AdminUpdate(t, id, unlisted, reason) ==
  IF t[id] = NoRow
    THEN t
    ELSE [t EXCEPT ![id].unlisted = unlisted, ![id].reason = reason]

CleanupKeepsOld(row) == ~ row.unlisted

\* the session timeout in place of the day
CleanupKeepsTimely(row) == ~ row.unlisted /\ Timely(row)

\* < for <=
CleanupKeepsExclusive(row) == ~ row.unlisted /\ row.age < Day

\* DELETE ... WHERE unlisted!=0 OR last_active < DATETIME('now', '-1 day')
CleanupKeeps(row) == ~ row.unlisted /\ row.age <= Day

Cleanup(t) ==
  [id \in RowIds |-> IF t[id] # NoRow /\ CleanupKeeps(t[id]) THEN t[id] ELSE NoRow]

-----------------------------------------------------------------------------
(* The clock: a tick makes every row older.                                *)

Older(age) == IF age < OldAge THEN age + 1 ELSE age

Aged(t) ==
  [id \in RowIds |-> IF t[id] = NoRow THEN NoRow
                     ELSE [t[id] EXCEPT !.age = Older(@)]]

=============================================================================
