-------------------------- MODULE MigrationProofs --------------------------
(***************************************************************************)
(* Proofs about the migrations of ServerLife: the versions that are        *)
(* recorded are true, and without a failing statement a database is as it  *)
(* was or as new.                                                          *)
(***************************************************************************)
EXTENDS ServerLifeProofs

-----------------------------------------------------------------------------
(* Recorded versions are true.                                             *)

\* What statements do to the columns of sessions: they make the table as it
\* is now, or add a column that it has now.
Plain(statement) ==
  /\ statement.op = "create" /\ statement.table = "sessions" => statement = CreateSessionsTable
  /\ statement.op = "add" => statement.column \in SessionColumns(4)

\* COMMIT comes last, and sessions is renamed to be copied.
Composed(s) ==
  /\ \A i \in DOMAIN s : Plain(s[i])
  /\ \A i \in DOMAIN s : s[i] = Commit => i = Len(s)
  /\ Has(s, 1) => Has(s, 3)

Contains(s, statement) == \E i \in DOMAIN s : s[i] = statement

\* Whether the last migration is needed is still to be asked.
Asks(s) == Contains(s, Inspect) \/ Contains(s, Lacks(4))

UpToDate(d) == Exists("sessions", d) /\ d["sessions"].columns = SessionColumns(4)

Recorded(version, d) == Exists("migrations", d) /\ version \in d["migrations"].rows

InTransaction == first # Empty /\ failed \cap {"begin", "rollback"} = {}

\* The database is the one that was found until sessions is as it is now. In
\* a script, sessions is as it is now if version 4 was recorded, and from the
\* copy on; between creating and copying it a gap can only be its absence.
VersionsInv ==
  InTransaction =>
    /\ UpToDate(disk) \/ disk = first
    /\ Composed(todo)
    /\ ~ inTx => todo \in {<<>>, <<Begin, Inspect, Commit>>}
    /\ inTx /\ Asks(todo) =>
         /\ Exists("sessions", db)
         /\ Recorded(4, db) => UpToDate(db)
         /\ Contains(todo, Lacks(4)) => Exists("migrations", db)
    /\ inTx /\ ~ Asks(todo) /\ ~ Has(todo, 3) => UpToDate(db)
    /\ inTx /\ ~ Asks(todo) /\ ~ Contains(todo, CreateSessionsTable) =>
         (Exists("sessions", db) => UpToDate(db))

LEMMA StatementsPlain ==
  /\ Plain(Begin) /\ Plain(Inspect) /\ Plain(Commit)
  /\ \A version : Plain(Lacks(version))
  /\ Plain(AddColumn("active_drawing_users")) /\ Plain(AddColumn("allow_web"))
  /\ \A table, new : Plain(Rename(table, new))
  /\ Plain(CreateSessionsTable)
  /\ \A table, columns : table # "sessions" => Plain(Create(table, columns))
  /\ \A from, to, columns : Plain(Copy(from, to, columns))
  /\ \A table : Plain(Drop(table))
  /\ \A table, rows : Plain(Fill(table, rows))
<1>1. /\ Plain(Begin) /\ Plain(Inspect) /\ Plain(Commit)
      /\ \A version : Plain(Lacks(version))
  BY DEF Plain, Begin, Inspect, Commit, Lacks
<1>2. Plain(AddColumn("active_drawing_users")) /\ Plain(AddColumn("allow_web"))
  BY DEF Plain, AddColumn, SessionColumns
<1>3. \A table, new : Plain(Rename(table, new))
  BY DEF Plain, Rename
<1>4. Plain(CreateSessionsTable)
  BY DEF Plain, CreateSessionsTable, Create
<1>5. \A table, columns : table # "sessions" => Plain(Create(table, columns))
  BY DEF Plain, Create
<1>6. \A from, to, columns : Plain(Copy(from, to, columns))
  BY DEF Plain, Copy
<1>7. /\ \A table : Plain(Drop(table))
      /\ \A table, rows : Plain(Fill(table, rows))
  BY DEF Plain, Drop, Fill
<1> QED BY <1>1, <1>2, <1>3, <1>4, <1>5, <1>6, <1>7

\* Only COMMIT is a COMMIT.
LEMMA NotCommit ==
  /\ Begin # Commit /\ Inspect # Commit /\ CreateSessionsTable # Commit
  /\ \A version : Lacks(version) # Commit
  /\ \A column : AddColumn(column) # Commit
  /\ \A table, new : Rename(table, new) # Commit /\ Create(table, new) # Commit
                     /\ Fill(table, new) # Commit
  /\ \A from, to, columns : Copy(from, to, columns) # Commit
  /\ \A table : Drop(table) # Commit
BY DEF Begin, Commit, Inspect, CreateSessionsTable, Lacks, AddColumn, Rename, Create, Fill,
       Copy, Drop

\* What goes before the rest of a script.
Inserted(a) ==
  /\ \A i \in DOMAIN a : Plain(a[i]) /\ a[i] # Commit
  /\ Has(a, 1) => Has(a, 3)

LEMMA InitDbInserted == Inserted(InitDb) /\ Contains(InitDb, CreateSessionsTable)
<1>1. /\ DOMAIN InitDb = 1..8
      /\ InitDb[1] = Create("migrations", {}) /\ InitDb[2] = CreateSessionsTable
      /\ InitDb[3] = Create("hostbans", {"id"}) /\ InitDb[4] = Create("accesslevels", {})
      /\ InitDb[5] = Fill("accesslevels", 0..2)
      /\ InitDb[6] = Create("roles", {}) /\ InitDb[7] = Create("users", {})
      /\ InitDb[8] = Fill("migrations", 1..4)
  BY DEF InitDb
<1>2. /\ Plain(InitDb[1]) /\ Plain(InitDb[2]) /\ Plain(InitDb[3]) /\ Plain(InitDb[4])
      /\ Plain(InitDb[5]) /\ Plain(InitDb[6]) /\ Plain(InitDb[7]) /\ Plain(InitDb[8])
  BY <1>1, StatementsPlain
<1>3. /\ InitDb[1] # Commit /\ InitDb[2] # Commit /\ InitDb[3] # Commit /\ InitDb[4] # Commit
      /\ InitDb[5] # Commit /\ InitDb[6] # Commit /\ InitDb[7] # Commit /\ InitDb[8] # Commit
  BY <1>1, NotCommit
<1>4. ~ Has(InitDb, 1)
  BY InitDbScripted DEF Has
<1> QED BY <1>1, <1>2, <1>3, <1>4 DEF Inserted, Contains

LEMMA ConcatContains ==
  ASSUME NEW s \in Seq(Statements), NEW t \in Seq(Statements), NEW statement
  PROVE  Contains(s \o t, statement) <=> Contains(s, statement) \/ Contains(t, statement)
<1>1. /\ DOMAIN s = 1..Len(s) /\ DOMAIN t = 1..Len(t) /\ Len(s) \in Nat /\ Len(t) \in Nat
      /\ DOMAIN (s \o t) = 1..(Len(s) + Len(t))
      /\ \A i \in DOMAIN (s \o t) :
           (s \o t)[i] = IF i <= Len(s) THEN s[i] ELSE t[i - Len(s)]
  BY ConcatProperties
<1>2. ASSUME Contains(s \o t, statement) PROVE Contains(s, statement) \/ Contains(t, statement)
  BY <1>2, ConcatElements DEF Contains
<1>3. ASSUME Contains(s, statement) PROVE Contains(s \o t, statement)
  <2>1. PICK i \in DOMAIN s : s[i] = statement
    BY <1>3 DEF Contains
  <2>2. i \in DOMAIN (s \o t) /\ (s \o t)[i] = s[i]
    BY <1>1
  <2> QED BY <2>1, <2>2 DEF Contains
<1>4. ASSUME Contains(t, statement) PROVE Contains(s \o t, statement)
  <2>1. PICK i \in DOMAIN t : t[i] = statement
    BY <1>4 DEF Contains
  <2>2. i + Len(s) \in DOMAIN (s \o t) /\ (s \o t)[i + Len(s)] = t[i]
    BY <1>1
  <2> QED BY <2>1, <2>2 DEF Contains
<1> QED BY <1>2, <1>3, <1>4

LEMMA LegacyInserted ==
  /\ Inserted(MigrateFromLegacyFormat) /\ Has(MigrateFromLegacyFormat, 3)
  /\ Contains(MigrateFromLegacyFormat, CreateSessionsTable)
<1> DEFINE renames == <<Rename("sessions", "sessions_old"), Rename("hostbans", "hostbans_old")>>
           copies == <<Copy("sessions_old", "sessions", {}), Copy("hostbans_old", "hostbans", {}),
                       Drop("sessions_old"), Drop("hostbans_old")>>
           start == renames \o InitDb
           good(statement) == Plain(statement) /\ statement # Commit
<1>1. /\ Rename("sessions", "sessions_old") \in Statements
      /\ Rename("hostbans", "hostbans_old") \in Statements
      /\ Copy("sessions_old", "sessions", {}) \in Statements
      /\ Copy("hostbans_old", "hostbans", {}) \in Statements
      /\ Drop("sessions_old") \in Statements /\ Drop("hostbans_old") \in Statements
  BY ConstructorsTyped, NamesTyped
<1>2. renames \in Seq(Statements) /\ copies \in Seq(Statements)
  BY <1>1
<1>3. start \in Seq(Statements)
  BY <1>2, InitDbTyped, ConcatProperties
<1>4. /\ DOMAIN renames = 1..2
      /\ good(renames[1]) /\ good(renames[2])
  BY StatementsPlain, NotCommit
<1>5. /\ DOMAIN copies = 1..4 /\ Stage(copies[1]) = 3
      /\ good(copies[1]) /\ good(copies[2]) /\ good(copies[3]) /\ good(copies[4])
  BY StatementsPlain, NotCommit, StagesOfStatements
<1>6. MigrateFromLegacyFormat = start \o copies
  BY DEF MigrateFromLegacyFormat
<1> HIDE DEF renames, copies
<1>7. \A i \in DOMAIN InitDb : good(InitDb[i])
  BY InitDbInserted DEF Inserted
<1>8. \A i \in DOMAIN start : good(start[i])
  <2> SUFFICES ASSUME NEW i \in DOMAIN start PROVE good(start[i])
    OBVIOUS
  <2>1. \/ \E k \in DOMAIN renames : start[i] = renames[k]
        \/ \E k \in DOMAIN InitDb : start[i] = InitDb[k]
    BY <1>2, InitDbTyped, ConcatElements
  <2> HIDE DEF good, start
  <2> QED BY <1>4, <1>7, <2>1
<1>9. Contains(start, CreateSessionsTable)
  BY <1>2, InitDbTyped, InitDbInserted, ConcatContains
<1> HIDE DEF start
<1>10. \A i \in DOMAIN (start \o copies) : good((start \o copies)[i])
  <2> SUFFICES ASSUME NEW i \in DOMAIN (start \o copies) PROVE good((start \o copies)[i])
    OBVIOUS
  <2>1. \/ \E k \in DOMAIN start : (start \o copies)[i] = start[k]
        \/ \E k \in DOMAIN copies : (start \o copies)[i] = copies[k]
    BY <1>2, <1>3, ConcatElements
  <2> HIDE DEF good
  <2> QED BY <1>5, <1>8, <2>1
<1>11. Has(start \o copies, 3)
  <2>1. Has(copies, 3)
    BY <1>5 DEF Has
  <2> QED BY <1>2, <1>3, <2>1, ConcatHas
<1>12. Contains(start \o copies, CreateSessionsTable)
  BY <1>2, <1>3, <1>9, ConcatContains
<1> QED BY <1>6, <1>10, <1>11, <1>12 DEF Inserted

LEMMA MigrationsInserted ==
  /\ \A version \in 2..4 : Inserted(Migration(version))
  /\ Has(Migration(4), 3) /\ Contains(Migration(4), CreateSessionsTable)
<1>1. ASSUME NEW column \in {"active_drawing_users", "allow_web"}, NEW version \in {2, 3}
      PROVE  Inserted(<<AddColumn(column), Fill("migrations", {version})>>)
  <2> DEFINE s == <<AddColumn(column), Fill("migrations", {version})>>
  <2>1. /\ DOMAIN s = 1..2 /\ s[1] = AddColumn(column)
        /\ s[2] = Fill("migrations", {version}) /\ column \in Columns
    BY DEF Columns
  <2> HIDE DEF s
  <2>2. Plain(s[1]) /\ Plain(s[2]) /\ s[1] # Commit /\ s[2] # Commit
    BY <2>1, StatementsPlain, NotCommit
  <2>3. Stage(s[1]) = 0 /\ Stage(s[2]) = 0
    BY <2>1, StagesOfStatements
  <2> QED BY <2>1, <2>2, <2>3 DEF Inserted, Has, s
<1>2. Inserted(Migration(2)) /\ Inserted(Migration(3))
  BY <1>1 DEF Migration, MigrateActiveDrawingUsers, MigrateAllowWeb
<1>3. /\ Inserted(MigrateRoomcodeRemoval) /\ Has(MigrateRoomcodeRemoval, 3)
      /\ Contains(MigrateRoomcodeRemoval, CreateSessionsTable)
  <2> DEFINE s == MigrateRoomcodeRemoval
  <2>1. /\ DOMAIN s = 1..5
        /\ s[1] = Rename("sessions", "sessions_old") /\ s[2] = CreateSessionsTable
        /\ s[3] = Copy("sessions_old", "sessions", SessionColumns(4))
        /\ s[4] = Drop("sessions_old") /\ s[5] = Fill("migrations", {4})
    BY DEF MigrateRoomcodeRemoval
  <2> HIDE DEF s
  <2>2. /\ Plain(s[1]) /\ Plain(s[2]) /\ Plain(s[3]) /\ Plain(s[4]) /\ Plain(s[5])
        /\ s[1] # Commit /\ s[2] # Commit /\ s[3] # Commit /\ s[4] # Commit /\ s[5] # Commit
    BY <2>1, StatementsPlain, NotCommit
  <2>3. Has(s, 3) /\ Contains(s, CreateSessionsTable)
    BY <2>1, StagesOfStatements DEF Has, Contains
  <2> QED BY <2>1, <2>2, <2>3 DEF Inserted, s
<1> QED BY <1>2, <1>3 DEF Migration

\* What a statement of the scripts does to sessions and to what is recorded.
LEMMA ResultOnColumns ==
  ASSUME NEW statement \in Statements, Occurs(statement), Plain(statement),
         NEW d \in Databases, Prepares(statement, d)
  PROVE  LET r == Result(statement, d) IN
         /\ Stage(statement) # 1 /\ Exists("sessions", d) => Exists("sessions", r)
         /\ Stage(statement) # 1 /\ UpToDate(d) => UpToDate(r)
         /\ (Exists("sessions", d) => UpToDate(d)) => (Exists("sessions", r) => UpToDate(r))
         /\ statement = CreateSessionsTable => ~ Exists("sessions", d) /\ UpToDate(r)
         /\ Stage(statement) = 3 => Exists("sessions", d)
         /\ Exists("migrations", d) => Exists("migrations", r)
         /\ Stage(statement) = 0 /\ Recorded(4, r) => Recorded(4, d)
<1> DEFINE r == Result(statement, d)
           others(table) == \A t \in Tables : t # table => r[t] = d[t]
<1>1. /\ DOMAIN d = Tables
      /\ "sessions" \in Tables /\ "sessions_old" \in Tables /\ "migrations" \in Tables
      /\ \A table \in Tables : Exists(table, d) => d[table] \in TableStates
  BY DEF Databases, Tables, Exists
<1>2. \A table \in Tables, columns \in SUBSET Columns : Table(columns, {}) # NoTable
  BY NoTableAssumption DEF Table, TableStates
<1>3. CASE statement.op = "rename"
  <2>1. Stage(statement) \in {1, 2} /\ statement # CreateSessionsTable
    BY <1>3 DEF Stage, CreateSessionsTable, Create
  <2>2. CASE statement = RenameSessions
    <3>1. statement.table = "sessions" /\ statement.new = "sessions_old" /\ Stage(statement) = 1
      BY <2>2, StagesOfStatements DEF RenameSessions, Rename
    <3>2. r["sessions"] = NoTable /\ r["migrations"] = d["migrations"]
      BY <1>1, <1>3, <3>1 DEF Result
    <3> QED BY <2>1, <3>1, <3>2 DEF Exists
  <2>3. CASE statement.table = "hostbans" /\ statement.new = "hostbans_old"
    <3>1. Stage(statement) = 2
      BY <1>3, <2>3 DEF Stage, RenameSessions, Rename
    <3>2. r["sessions"] = d["sessions"] /\ r["migrations"] = d["migrations"]
      BY <1>1, <1>3, <2>3 DEF Result
    <3> QED BY <2>1, <3>1, <3>2 DEF Exists, UpToDate
  <2> QED BY <1>3, <2>2, <2>3 DEF Occurs
<1>4. CASE statement.op = "create"
  <2>1. /\ statement.table \in Tables /\ statement.columns \in SUBSET Columns
        /\ Stage(statement) = 2 /\ ~ Exists(statement.table, d)
    BY <1>4 DEF Statements, Stage, Prepares
  <2>2. r = [d EXCEPT ![statement.table] = Table(statement.columns, {})]
    BY <1>4 DEF Result
  <2>3. CASE statement.table = "sessions"
    <3>1. statement = CreateSessionsTable /\ statement.columns = SessionColumns(4)
      BY <1>4, <2>3 DEF Plain, CreateSessionsTable, Create
    <3>2. r["sessions"] = Table(SessionColumns(4), {}) /\ r["migrations"] = d["migrations"]
      BY <1>1, <2>2, <2>3, <3>1
    <3>3. UpToDate(r)
      BY <1>2, <2>1, <3>1, <3>2 DEF UpToDate, Exists, Table
    <3> QED BY <2>1, <2>3, <3>2, <3>3 DEF Exists
  <2>4. CASE statement.table # "sessions"
    <3>1. statement # CreateSessionsTable
      BY <2>4 DEF CreateSessionsTable, Create
    <3>2. r["sessions"] = d["sessions"] /\ (Exists("migrations", d) => r["migrations"] = d["migrations"])
      BY <1>1, <2>1, <2>2, <2>4
    <3> QED BY <2>1, <3>1, <3>2 DEF Exists, UpToDate
  <2> QED BY <2>3, <2>4
<1>5. CASE statement.op = "add"
  <2>1. Exists("sessions", d) /\ ~ UpToDate(d)
    BY <1>5 DEF Prepares, Plain, UpToDate
  <2>2. Stage(statement) = 0 /\ statement # CreateSessionsTable
    BY <1>5 DEF Stage, CreateSessionsTable, Create
  <2>3. r["migrations"] = d["migrations"]
    BY <1>1, <1>5 DEF Result
  <2>4. r \in Databases /\ r["sessions"] = [d["sessions"] EXCEPT !.columns = @ \cup {statement.column}]
    BY <1>1, <1>5, ResultTyped DEF Result
  <2>5. [d["sessions"] EXCEPT !.columns = @ \cup {statement.column}] \in TableStates
    <3>1. d["sessions"] \in TableStates /\ statement.column \in Columns
      BY <1>1, <1>5, <2>1 DEF Statements
    <3> QED BY <3>1 DEF TableStates
  <2>6. Exists("sessions", r)
    BY <2>4, <2>5, NoTableAssumption DEF Exists
  <2> QED BY <2>1, <2>2, <2>3, <2>6 DEF Exists, Recorded
<1>6. CASE statement.op = "fill"
  <2>1. /\ statement.table \in Tables /\ statement.rows \in SUBSET Rows
        /\ Exists(statement.table, d) /\ statement.table # "sessions"
    BY <1>6 DEF Statements, Prepares, Occurs
  <2>2. statement # CreateSessionsTable /\ Stage(statement) \notin {1, 3}
    BY <1>6 DEF Stage, CreateSessionsTable, Create
  <2>3. r = [d EXCEPT ![statement.table].rows = @ \cup statement.rows]
    BY <1>6 DEF Result
  <2>4. r["sessions"] = d["sessions"]
    BY <1>1, <2>1, <2>3
  <2>5. statement.table # "migrations" => r["migrations"] = d["migrations"]
    BY <1>1, <2>1, <2>3
  <2>6. ASSUME statement.table = "migrations"
        PROVE  /\ Exists("migrations", d) /\ Exists("migrations", r)
               /\ r["migrations"].rows = d["migrations"].rows \cup statement.rows
    <3>1. d["migrations"] \in TableStates
      BY <1>1, <2>1, <2>6
    <3>2. r["migrations"] = [d["migrations"] EXCEPT !.rows = @ \cup statement.rows]
      BY <1>1, <2>3, <2>6
    <3>3. /\ [d["migrations"] EXCEPT !.rows = @ \cup statement.rows] \in TableStates
          /\ [d["migrations"] EXCEPT !.rows = @ \cup statement.rows].rows
               = d["migrations"].rows \cup statement.rows
      BY <2>1, <3>1 DEF TableStates
    <3> QED BY <2>1, <2>6, <3>2, <3>3, NoTableAssumption DEF Exists
  <2>7. ASSUME Stage(statement) = 0 PROVE 4 \notin statement.rows
    <3>1. statement.rows \in {{2}, {3}}
      BY <1>6, <2>7 DEF Stage
    <3> QED BY <3>1
  <2>8. Exists("migrations", d) => Exists("migrations", r)
    BY <2>5, <2>6 DEF Exists
  <2>9. ASSUME Stage(statement) = 0, Recorded(4, r) PROVE Recorded(4, d)
    BY <2>5, <2>6, <2>7, <2>9 DEF Recorded, Exists
  <2>10. /\ Exists("sessions", r) <=> Exists("sessions", d)
         /\ UpToDate(r) <=> UpToDate(d)
    BY <2>4 DEF Exists, UpToDate
  <2> QED BY <2>2, <2>8, <2>9, <2>10
<1>7. CASE statement.op = "copy"
  <2>1. /\ statement.from \in Tables /\ statement.to \in {"sessions", "hostbans"}
        /\ Exists(statement.from, d) /\ Exists(statement.to, d)
    BY <1>7 DEF Statements, Prepares, Occurs
  <2>2. /\ Stage(statement) \in {3, 4} /\ statement # CreateSessionsTable
        /\ Stage(statement) = 3 => statement.to = "sessions"
    BY <1>7 DEF Stage, CreateSessionsTable, Create
  <2>3. r = [d EXCEPT ![statement.to].rows = @ \cup d[statement.from].rows]
    BY <1>7 DEF Result
  <2>4. r["migrations"] = d["migrations"]
    BY <1>1, <2>1, <2>3
  <2>5. statement.to = "hostbans" => r["sessions"] = d["sessions"]
    BY <1>1, <2>1, <2>3
  <2>6. ASSUME statement.to = "sessions"
        PROVE  /\ Exists("sessions", d) /\ Exists("sessions", r)
               /\ r["sessions"].columns = d["sessions"].columns
    <3>1. /\ d["sessions"] \in TableStates
          /\ d[statement.from].rows \in SUBSET Rows
      BY <1>1, <2>1, <2>6 DEF TableStates
    <3>2. r["sessions"] = [d["sessions"] EXCEPT !.rows = @ \cup d[statement.from].rows]
      BY <1>1, <2>3, <2>6
    <3>3. /\ [d["sessions"] EXCEPT !.rows = @ \cup d[statement.from].rows] \in TableStates
          /\ [d["sessions"] EXCEPT !.rows = @ \cup d[statement.from].rows].columns
               = d["sessions"].columns
      BY <3>1 DEF TableStates
    <3> QED BY <2>1, <2>6, <3>2, <3>3, NoTableAssumption DEF Exists
  <2>7. /\ Exists("sessions", r) <=> Exists("sessions", d)
        /\ UpToDate(r) <=> UpToDate(d)
    BY <2>1, <2>5, <2>6 DEF Exists, UpToDate
  <2>8. Stage(statement) = 3 => Exists("sessions", d)
    BY <2>2, <2>6
  <2> QED BY <2>2, <2>4, <2>7, <2>8 DEF Exists
<1>8. CASE statement.op = "drop"
  <2>1. statement.table \in {"sessions_old", "hostbans_old"} /\ statement.table \in Tables
    BY <1>8 DEF Statements, Occurs
  <2>2. Stage(statement) \in {5, 6} /\ statement # CreateSessionsTable
    BY <1>8 DEF Stage, CreateSessionsTable, Create
  <2>3. r["sessions"] = d["sessions"] /\ r["migrations"] = d["migrations"]
    BY <1>1, <1>8, <2>1 DEF Result
  <2> QED BY <2>2, <2>3 DEF Exists, UpToDate
<1>9. CASE statement.op \in {"begin", "commit"}
  <2>1. Stage(statement) \in {0, 6} /\ r = d /\ statement # CreateSessionsTable
    BY <1>9 DEF Stage, Result, CreateSessionsTable, Create
  <2> QED BY <2>1
<1> QED BY <1>3, <1>4, <1>5, <1>6, <1>7, <1>8, <1>9 DEF Prepares

\* The first statement of a composed script and the others.
LEMMA HeadOff ==
  ASSUME NEW s \in Seq(Statements), s # <<>>, Scripted(s), Composed(s)
  PROVE  /\ Plain(Head(s)) /\ Composed(Tail(s))
         /\ Head(s) = Commit => Tail(s) = <<>>
         /\ \A statement : Contains(s, statement) <=>
                             Head(s) = statement \/ Contains(Tail(s), statement)
<1>1. /\ DOMAIN s = 1..Len(s) /\ Len(s) \in Nat \ {0}
      /\ Len(Tail(s)) = Len(s) - 1
      /\ DOMAIN Tail(s) = 1..(Len(s) - 1)
      /\ \A i \in DOMAIN Tail(s) : i + 1 \in DOMAIN s /\ Tail(s)[i] = s[i + 1]
      /\ Head(s) = s[1] /\ 1 \in DOMAIN s /\ Tail(s) \in Seq(Statements)
      /\ \A k \in DOMAIN s : k # 1 => k - 1 \in DOMAIN Tail(s) /\ Tail(s)[k - 1] = s[k]
  OBVIOUS
<1>2. /\ Plain(Head(s)) /\ \A i \in DOMAIN Tail(s) : Plain(Tail(s)[i])
  BY <1>1 DEF Composed
<1>3. \A i \in DOMAIN Tail(s) : Tail(s)[i] = Commit => i = Len(Tail(s))
  <2> SUFFICES ASSUME NEW i \in DOMAIN Tail(s), Tail(s)[i] = Commit PROVE i = Len(Tail(s))
    OBVIOUS
  <2>1. i + 1 \in DOMAIN s /\ s[i + 1] = Commit
    BY <1>1
  <2>2. i + 1 = Len(s)
    BY <2>1 DEF Composed
  <2> QED BY <1>1, <2>2
<1>4. ASSUME Has(Tail(s), 1) PROVE Has(Tail(s), 3)
  <2>1. Has(s, 1)
    BY <1>4, HeadFirst
  <2>2. Has(s, 3)
    BY <2>1 DEF Composed
  <2>3. PICK i \in DOMAIN Tail(s) : Stage(Tail(s)[i]) = 1
    BY <1>4 DEF Has
  <2>4. Precedes(Head(s), Tail(s)[i])
    BY HeadFirst
  <2>5. Stage(Head(s)) # 3
    BY <2>3, <2>4 DEF Precedes
  <2> QED BY <2>2, <2>5, HeadFirst
<1>5. Head(s) = Commit => Tail(s) = <<>>
  <2> SUFFICES ASSUME Head(s) = Commit PROVE Tail(s) = <<>>
    OBVIOUS
  <2>1. Len(s) = 1
    BY <1>1 DEF Composed
  <2> QED BY <1>1, <2>1, EmptySeq
<1>6. ASSUME NEW statement
      PROVE  Contains(s, statement) <=> Head(s) = statement \/ Contains(Tail(s), statement)
  BY <1>1 DEF Contains
<1> QED BY <1>2, <1>3, <1>4, <1>5, <1>6 DEF Composed

\* Where sessions is in what a first start finds.
LEMMA FirstColumns ==
  ASSUME NEW d \in Firsts, d # Empty
  PROVE  /\ Exists("sessions", d)
         /\ Recorded(4, d) => UpToDate(d)
         /\ Recorded(2, d) => "active_drawing_users" \in d["sessions"].columns
         /\ Recorded(3, d) => "allow_web" \in d["sessions"].columns
<1>1. "sessions" \in Tables /\ "migrations" \in Tables
  BY DEF Tables
<1>2. CASE d = Legacy
  <2>1. d["sessions"] = Table({"roomcode"}, Sessions) /\ d["migrations"] = NoTable
    BY <1>1, <1>2 DEF Legacy
  <2>2. Table({"roomcode"}, Sessions) \in TableStates
    BY DEF Table, TableStates, Columns, Rows
  <2> QED BY <2>1, <2>2, NoTableAssumption DEF Exists, Recorded
<1>3. ASSUME NEW version \in Versions, d = Format(version, Sessions, Bans)
      PROVE  /\ Exists("sessions", d)
             /\ Recorded(4, d) => UpToDate(d)
             /\ Recorded(2, d) => "active_drawing_users" \in d["sessions"].columns
             /\ Recorded(3, d) => "allow_web" \in d["sessions"].columns
  <2>1. /\ d["sessions"] = Table(SessionColumns(version), Sessions)
        /\ d["migrations"] = Table({}, 1..version)
    BY <1>1, <1>3 DEF Format
  <2>2. Table(SessionColumns(version), Sessions) \in TableStates
    BY DEF Table, TableStates, Columns, Rows, SessionColumns
  <2>3. Exists("sessions", d)
    BY <2>1, <2>2, NoTableAssumption DEF Exists
  <2>4. /\ d["sessions"].columns = SessionColumns(version)
        /\ \A v : Recorded(v, d) => v \in 1..version
    BY <2>1 DEF Table, Recorded
  <2>5. version \in 1..4
    BY DEF Versions
  <2>6. Recorded(4, d) => version = 4
    BY <2>4, <2>5
  <2>7. Recorded(2, d) => version > 1
    BY <2>4, <2>5
  <2>8. Recorded(3, d) => version > 2
    BY <2>4, <2>5
  <2> QED BY <2>3, <2>4, <2>6, <2>7, <2>8 DEF UpToDate, SessionColumns
<1> QED BY <1>2, <1>3 DEF Firsts

LEMMA OpenComposed ==
  LET s == <<Begin, Inspect, Commit>> IN
  Composed(s) /\ Asks(s) /\ ~ Contains(s, Lacks(4))
<1> DEFINE s == <<Begin, Inspect, Commit>>
<1>1. DOMAIN s = 1..3 /\ Len(s) = 3 /\ s[1] = Begin /\ s[2] = Inspect /\ s[3] = Commit
  OBVIOUS
<1> HIDE DEF s
<1>2. Plain(s[1]) /\ Plain(s[2]) /\ Plain(s[3])
  BY <1>1, StatementsPlain
<1>3. s[1] # Commit /\ s[2] # Commit
  BY <1>1, NotCommit
<1>4. Stage(s[1]) = 0 /\ Stage(s[2]) = 0 /\ Stage(s[3]) = 6
  BY <1>1, StagesOfStatements
<1>5. s[1] # Lacks(4) /\ s[2] # Lacks(4) /\ s[3] # Lacks(4)
  BY <1>1 DEF Begin, Inspect, Commit, Lacks
<1> QED BY <1>1, <1>2, <1>3, <1>4, <1>5 DEF Composed, Has, Contains, Asks, s

LEMMA NothingComposed ==
  Composed(<<>>) /\ ~ Has(<<>>, 3) /\ \A statement : ~ Contains(<<>>, statement)
BY DEF Composed, Has, Contains

LEMMA InsertedComposed ==
  ASSUME NEW a \in Seq(Statements), NEW t \in Seq(Statements), Inserted(a), Composed(t)
  PROVE  Composed(a \o t)
<1>1. /\ DOMAIN a = 1..Len(a) /\ DOMAIN t = 1..Len(t) /\ Len(a) \in Nat /\ Len(t) \in Nat
      /\ DOMAIN (a \o t) = 1..(Len(a) + Len(t)) /\ Len(a \o t) = Len(a) + Len(t)
      /\ \A i \in DOMAIN (a \o t) :
           (a \o t)[i] = IF i <= Len(a) THEN a[i] ELSE t[i - Len(a)]
  BY ConcatProperties
<1>2. ASSUME NEW i \in DOMAIN (a \o t) PROVE Plain((a \o t)[i])
  <2>1. \/ \E k \in DOMAIN a : (a \o t)[i] = a[k]
        \/ \E k \in DOMAIN t : (a \o t)[i] = t[k]
    BY ConcatElements
  <2> QED BY <2>1 DEF Inserted, Composed
<1>3. ASSUME NEW i \in DOMAIN (a \o t), (a \o t)[i] = Commit PROVE i = Len(a \o t)
  <2>1. ~ (i <= Len(a))
    BY <1>1, <1>3 DEF Inserted
  <2>2. i - Len(a) \in DOMAIN t /\ t[i - Len(a)] = Commit
    BY <1>1, <1>3, <2>1
  <2>3. i - Len(a) = Len(t)
    BY <2>2 DEF Composed
  <2> QED BY <1>1, <2>3
<1>4. Has(a \o t, 1) => Has(a \o t, 3)
  BY ConcatHas DEF Inserted, Composed
<1> QED BY <1>2, <1>3, <1>4 DEF Composed

\* Questions that are there to be asked.
LEMMA AskKeepsVersionsInv ==
  ASSUME TypeOK, Scripted(todo), VersionsInv, InTransaction, Ask
  PROVE  VersionsInv'
<1> DEFINE question == Statement
           rest == Tail(todo)
           a == Answer(question, db)
<1>1. todo \in Seq(Statements) /\ todo # <<>> /\ IsQuestion(question)
  BY DEF TypeOK, Ask
<1>2. /\ question \in Statements /\ rest \in Seq(Statements)
      /\ \A i \in DOMAIN rest : Precedes(question, rest[i])
      /\ \A stage : Has(todo, stage) <=> Stage(question) = stage \/ Has(rest, stage)
  BY <1>1, HeadFirst DEF Statement
<1>3. /\ Composed(rest)
      /\ \A statement : Contains(todo, statement) <=> question = statement \/ Contains(rest, statement)
  BY <1>1, HeadOff DEF Statement, VersionsInv
<1>4. a \in Seq(Statements) /\ todo' = a \o rest
  BY <1>1, <1>2, AnswerTyped DEF Ask
<1>5. question \in {Inspect, Lacks(2), Lacks(3), Lacks(4)}
  BY <1>1, <1>2 DEF IsQuestion, Statements, Inspect, Lacks
<1>6. inTx
  <2>1. Statement # Begin
    BY <1>5 DEF Begin, Inspect, Lacks
  <2>2. Head(<<Begin, Inspect, Commit>>) = Begin
    OBVIOUS
  <2>3. todo # <<Begin, Inspect, Commit>>
    BY <2>1, <2>2 DEF Statement
  <2> QED BY <1>1, <2>3 DEF VersionsInv
<1>7. UNCHANGED <<db, disk, inTx, first, failed>>
  BY DEF Ask, Continue, bounds
<1>8. Inspect # Lacks(4) /\ CreateSessionsTable \notin {Inspect, Lacks(2), Lacks(3), Lacks(4)}
      /\ Lacks(2) # Lacks(4) /\ Lacks(3) # Lacks(4) /\ Lacks(2) # Inspect /\ Lacks(3) # Inspect
  BY DEF Inspect, Lacks, CreateSessionsTable, Create
<1>9. Stage(question) = 0
  BY <1>5, StagesOfStatements
<1>10. \A statement : Contains(todo', statement) <=> Contains(a, statement) \/ Contains(rest, statement)
  BY <1>2, <1>4, ConcatContains
<1>11. \A stage : Has(todo', stage) <=> Has(a, stage) \/ Has(rest, stage)
  BY <1>2, <1>4, ConcatHas
<1>12. question \in {Inspect, Lacks(4)} => ~ Contains(rest, Inspect) /\ ~ Contains(rest, Lacks(4))
                                          /\ ~ Has(rest, 3)
  <2> SUFFICES ASSUME question \in {Inspect, Lacks(4)}
               PROVE  ~ Contains(rest, Inspect) /\ ~ Contains(rest, Lacks(4)) /\ ~ Has(rest, 3)
    OBVIOUS
  <2>1. \A i \in DOMAIN rest : Stage(rest[i]) = 6
    BY <1>2 DEF Precedes
  <2> QED BY <2>1, StagesOfStatements DEF Contains, Has
<1> HIDE DEF question, rest, a
\* It is enough that the answer fits and that the database is as its script says.
<1>13. SUFFICES /\ Inserted(a)
                /\ Asks(todo') => /\ Exists("sessions", db) /\ (Recorded(4, db) => UpToDate(db))
                                  /\ Contains(todo', Lacks(4)) => Exists("migrations", db)
                /\ ~ Asks(todo') /\ ~ Has(todo', 3) => UpToDate(db)
                /\ ~ Asks(todo') /\ ~ Contains(todo', CreateSessionsTable) =>
                     (Exists("sessions", db) => UpToDate(db))
  <2> SUFFICES ASSUME Inserted(a) PROVE Composed(todo')
    BY <1>6, <1>7 DEF VersionsInv, InTransaction
  <2> QED BY <1>2, <1>3, <1>4, InsertedComposed
<1>14. Asks(todo) => /\ Exists("sessions", db)
                     /\ Recorded(4, db) => UpToDate(db)
                     /\ Contains(todo, Lacks(4)) => Exists("migrations", db)
  BY <1>6 DEF VersionsInv
<1>15. Inserted(<<>>) /\ \A statement : ~ Contains(<<>>, statement)
  BY NothingComposed DEF Inserted, Has
<1>16. CASE question = Inspect
  <2>1. Asks(todo)
    BY <1>3, <1>16 DEF Asks
  <2>2. CASE Exists("migrations", db)
    <3> DEFINE s == <<Lacks(2), Lacks(3), Lacks(4)>>
    <3>1. a = s
      BY <1>16, <2>2 DEF Answer, a
    <3>2. DOMAIN s = 1..3 /\ s[1] = Lacks(2) /\ s[2] = Lacks(3) /\ s[3] = Lacks(4)
      OBVIOUS
    <3> HIDE DEF s
    <3>3. Contains(s, Lacks(4))
      BY <3>2 DEF Contains
    <3>4. Inserted(s)
      <4>1. /\ Plain(s[1]) /\ Plain(s[2]) /\ Plain(s[3])
            /\ s[1] # Commit /\ s[2] # Commit /\ s[3] # Commit
        BY <3>2, StatementsPlain, NotCommit
      <4>2. Stage(s[1]) = 0 /\ Stage(s[2]) = 0 /\ Stage(s[3]) = 0
        BY <3>2, StagesOfStatements
      <4> QED BY <3>2, <4>1, <4>2 DEF Inserted, Has
    <3>5. Asks(todo')
      BY <1>10, <3>1, <3>3 DEF Asks
    <3> QED BY <1>14, <2>1, <2>2, <3>1, <3>4, <3>5
  <2>3. CASE ~ Exists("migrations", db)
    <3>1. a = MigrateFromLegacyFormat
      BY <1>14, <1>16, <2>1, <2>3 DEF Answer, a
    <3>2. Inserted(a) /\ Has(todo', 3) /\ Contains(todo', CreateSessionsTable)
      BY <1>10, <1>11, <3>1, LegacyInserted
    <3>3. Asks(todo') => Contains(a, Inspect) \/ Contains(a, Lacks(4))
      BY <1>10, <1>12, <1>16 DEF Asks
    <3>4. ~ Contains(a, Inspect) /\ ~ Contains(a, Lacks(4))
      <4>1. \A i \in DOMAIN a : Stage(a[i]) \in 1..6
        BY <3>1, LegacyRewrites DEF Rewrites
      <4> QED BY <4>1, StagesOfStatements DEF Contains
    <3> QED BY <3>2, <3>3, <3>4
  <2> QED BY <2>2, <2>3
<1>17. CASE question = Lacks(4)
  <2>1. Asks(todo) /\ Contains(todo, Lacks(4))
    BY <1>3, <1>17 DEF Asks
  <2>2. question.version = 4 /\ question # Inspect
    BY <1>17 DEF Lacks, Inspect
  <2>3. CASE 4 \in db["migrations"].rows
    <3>1. a = <<>>
      BY <2>2, <2>3 DEF Answer, a
    <3>2. UpToDate(db)
      BY <1>14, <2>1, <2>3 DEF Recorded
    <3>3. ~ Asks(todo')
      BY <1>10, <1>12, <1>15, <1>17, <3>1 DEF Asks
    <3> QED BY <1>15, <3>1, <3>2, <3>3
  <2>4. CASE 4 \notin db["migrations"].rows
    <3>1. a = Migration(4)
      BY <2>2, <2>4 DEF Answer, a
    <3>2. Inserted(a) /\ Has(todo', 3) /\ Contains(todo', CreateSessionsTable)
      BY <1>10, <1>11, <3>1, MigrationsInserted
    <3>3. Asks(todo') => Contains(a, Inspect) \/ Contains(a, Lacks(4))
      BY <1>10, <1>12, <1>17 DEF Asks
    <3>4. ~ Contains(a, Inspect) /\ ~ Contains(a, Lacks(4))
      <4>1. \A i \in DOMAIN a : Stage(a[i]) \in 1..6
        BY <3>1, RoomcodeRewrites DEF Rewrites, Migration
      <4> QED BY <4>1, StagesOfStatements DEF Contains
    <3> QED BY <3>2, <3>3, <3>4
  <2> QED BY <2>3, <2>4
<1>18. CASE question \in {Lacks(2), Lacks(3)}
  <2>1. question.version \in {2, 3} /\ question # Inspect
    BY <1>18 DEF Lacks, Inspect
  <2>2. a = <<>> \/ a = Migration(question.version)
    BY <2>1 DEF Answer, a
  <2>3. /\ Inserted(a) /\ ~ Contains(a, Inspect) /\ ~ Contains(a, Lacks(4))
        /\ ~ Contains(a, CreateSessionsTable) /\ ~ Has(a, 3)
    <3>1. CASE a = <<>>
      BY <1>15, <3>1, NothingComposed
    <3>2. CASE a = Migration(question.version)
      <4>1. PICK column \in Columns, version \in {2, 3} :
              a = <<AddColumn(column), Fill("migrations", {version})>>
        <5>1. {"active_drawing_users", "allow_web"} \subseteq Columns
          BY DEF Columns
        <5> QED BY <2>1, <3>2, <5>1 DEF Migration, MigrateActiveDrawingUsers, MigrateAllowWeb
      <4>2. /\ DOMAIN a = 1..2 /\ a[1] = AddColumn(column) /\ a[2] = Fill("migrations", {version})
        BY <4>1
      <4>3. Stage(a[1]) = 0 /\ Stage(a[2]) = 0
        BY <4>2, StagesOfStatements
      <4>4. /\ a[1] \notin {Inspect, Lacks(4), CreateSessionsTable}
            /\ a[2] \notin {Inspect, Lacks(4), CreateSessionsTable}
        BY <4>2 DEF AddColumn, Fill, Inspect, Lacks, CreateSessionsTable, Create
      <4>5. Inserted(a)
        BY <2>1, <3>2, MigrationsInserted
      <4> QED BY <4>2, <4>3, <4>4, <4>5 DEF Contains, Has
    <3> QED BY <2>2, <3>1, <3>2
  <2>4. /\ Asks(todo') <=> Asks(todo)
        /\ Contains(todo', Lacks(4)) <=> Contains(todo, Lacks(4))
        /\ Contains(todo', CreateSessionsTable) <=> Contains(todo, CreateSessionsTable)
        /\ Has(todo', 3) <=> Has(todo, 3)
    BY <1>2, <1>3, <1>8, <1>9, <1>10, <1>11, <1>18, <2>3 DEF Asks
  <2> QED BY <1>6, <1>14, <2>3, <2>4 DEF VersionsInv
<1> QED BY <1>5, <1>16, <1>17, <1>18

\* What the rest of a script asks of the database, whether its first statement
\* was done or failed in a transaction that goes on.
LEMMA RestKeepsVersionsInv ==
  ASSUME TypeOK, Scripted(todo), VersionsInv, InTransaction, AtStatement, inTx,
         Prepares(Statement, db),
         NEW d, d = db \/ d = Result(Statement, db)
  PROVE  LET rest == Tail(todo) IN
         /\ Composed(rest)
         /\ Asks(rest) => /\ Exists("sessions", d)
                          /\ Recorded(4, d) => UpToDate(d)
                          /\ Contains(rest, Lacks(4)) => Exists("migrations", d)
         /\ ~ Asks(rest) /\ ~ Has(rest, 3) => UpToDate(d)
         /\ ~ Asks(rest) /\ ~ Contains(rest, CreateSessionsTable) =>
              (Exists("sessions", d) => UpToDate(d))
<1> DEFINE rest == Tail(todo)
           s == Statement
<1>1. todo \in Seq(Statements) /\ todo # <<>> /\ db \in Databases
  BY DEF TypeOK, AtStatement
<1>2. /\ s \in Statements /\ Occurs(s) /\ Stage(s) \in 0..6
      /\ rest \in Seq(Statements)
      /\ \A i \in DOMAIN rest : /\ rest[i] \in Statements /\ Stage(rest[i]) \in 0..6
                                /\ Precedes(s, rest[i])
      /\ \A stage : Has(todo, stage) <=> Stage(s) = stage \/ Has(rest, stage)
  BY <1>1, HeadFirst DEF Statement
<1>3. /\ Plain(s) /\ Composed(rest) /\ Composed(todo)
      /\ \A statement : Contains(todo, statement) <=> s = statement \/ Contains(rest, statement)
  BY <1>1, HeadOff DEF Statement, VersionsInv
<1>4. Asks(rest) <=> Asks(todo)
  <2>1. s # Inspect /\ s # Lacks(4)
    BY DEF AtStatement, IsQuestion, Inspect, Lacks
  <2> QED BY <1>3, <2>1 DEF Asks
<1>5. /\ Stage(s) # 1 /\ Exists("sessions", db) => Exists("sessions", d)
      /\ Stage(s) # 1 /\ UpToDate(db) => UpToDate(d)
      /\ (Exists("sessions", db) => UpToDate(db)) => (Exists("sessions", d) => UpToDate(d))
      /\ s = CreateSessionsTable => (Exists("sessions", d) => UpToDate(d))
      /\ Stage(s) = 3 => Exists("sessions", db)
      /\ Exists("migrations", db) => Exists("migrations", d)
      /\ Stage(s) = 0 /\ Recorded(4, d) => Recorded(4, db)
  BY <1>1, <1>2, <1>3, ResultOnColumns
<1>6. /\ Asks(todo) => /\ Exists("sessions", db)
                       /\ Recorded(4, db) => UpToDate(db)
                       /\ Contains(todo, Lacks(4)) => Exists("migrations", db)
      /\ ~ Asks(todo) /\ ~ Has(todo, 3) => UpToDate(db)
      /\ ~ Asks(todo) /\ ~ Contains(todo, CreateSessionsTable) =>
           (Exists("sessions", db) => UpToDate(db))
  BY DEF VersionsInv
<1> HIDE DEF s, rest
<1>7. ASSUME Asks(rest)
      PROVE  /\ Exists("sessions", d)
             /\ Recorded(4, d) => UpToDate(d)
             /\ Contains(rest, Lacks(4)) => Exists("migrations", d)
  <2>1. Stage(s) = 0
    <3>1. PICK i \in DOMAIN rest : rest[i] \in {Inspect, Lacks(4)}
      BY <1>7 DEF Asks, Contains
    <3>2. Stage(rest[i]) = 0 /\ Stage(s) <= Stage(rest[i])
      BY <1>2, <3>1, StagesOfStatements DEF Precedes
    <3> QED BY <1>2, <3>2
  <2> QED BY <1>3, <1>4, <1>5, <1>6, <1>7, <2>1
<1>8. ASSUME ~ Asks(rest), ~ Has(rest, 3) PROVE UpToDate(d)
  <2>1. CASE Stage(s) = 3
    <3>1. s # CreateSessionsTable
      BY <2>1, StagesOfStatements DEF CreateSessionsTable
    <3>2. ~ Contains(rest, CreateSessionsTable)
      <4> SUFFICES ASSUME NEW i \in DOMAIN rest, rest[i] = CreateSessionsTable PROVE FALSE
        BY DEF Contains
      <4>1. Stage(rest[i]) = 2
        BY StagesOfStatements DEF CreateSessionsTable
      <4> QED BY <1>2, <2>1, <4>1 DEF Precedes
    <3>3. UpToDate(db)
      BY <1>3, <1>4, <1>5, <1>6, <1>8, <2>1, <3>1, <3>2
    <3> QED BY <1>5, <2>1, <3>3
  <2>2. CASE Stage(s) # 3
    <3>1. ~ Has(todo, 3)
      BY <1>2, <1>8, <2>2
    <3>2. Stage(s) # 1
      BY <1>2, <1>3, <3>1 DEF Composed
    <3> QED BY <1>4, <1>5, <1>6, <1>8, <3>1, <3>2
  <2> QED BY <2>1, <2>2
<1>9. ASSUME ~ Asks(rest), ~ Contains(rest, CreateSessionsTable)
      PROVE  Exists("sessions", d) => UpToDate(d)
  <2>1. CASE s = CreateSessionsTable
    BY <1>5, <2>1
  <2>2. CASE s # CreateSessionsTable
    BY <1>3, <1>4, <1>5, <1>6, <1>9, <2>2
  <2> QED BY <2>1, <2>2
<1> QED BY <1>3, <1>7, <1>8, <1>9 DEF rest

LEMMA DoneKeepsVersionsInv ==
  ASSUME TypeOK, RowsInv, VersionsInv, InTransaction, SqliteExecDone
  PROVE  VersionsInv'
<1>1. /\ AtStatement /\ Prepares(Statement, db) /\ todo' = Tail(todo)
      /\ db' = Result(Statement, db) /\ InTransaction'
      /\ UNCHANGED <<first, failed>>
  BY DEF SqliteExecDone, Continue, bounds, InTransaction
<1>2. Begin # Commit /\ Result(Begin, db) = db /\ Result(Commit, db) = db
  BY DEF Begin, Commit, Result
<1>3. CASE ~ inTx
  <2>1. todo = <<Begin, Inspect, Commit>> /\ db = disk
    BY <1>1, <1>3 DEF VersionsInv, RowsInv, AtStatement
  <2>2. Statement = Begin /\ todo' = <<Inspect, Commit>>
    BY <1>1, <2>1 DEF Statement
  <2>3. inTx' = TRUE /\ db' = disk /\ disk' = disk
    BY <1>1, <1>2, <1>3, <2>1, <2>2 DEF SqliteExecDone
  <2>4. Composed(todo') /\ Asks(todo') /\ ~ Contains(todo', Lacks(4))
    <3>1. Composed(todo) /\ Scripted(todo) /\ todo \in Seq(Statements) /\ todo # <<>>
          /\ ~ Contains(todo, Lacks(4)) /\ Asks(todo)
      BY <1>1, <2>1, OpenComposed DEF VersionsInv, RowsInv, TypeOK, AtStatement
    <3>2. Begin # Inspect /\ Begin # Lacks(4)
      BY DEF Begin, Inspect, Lacks
    <3> QED BY <1>1, <2>2, <3>1, <3>2, HeadOff DEF Statement, Asks
  <2>5. first # Empty /\ first \in Firsts /\ (UpToDate(disk) \/ disk = first)
    BY DEF VersionsInv, InTransaction, TypeOK
  <2>6. Exists("sessions", disk) /\ (Recorded(4, disk) => UpToDate(disk))
    BY <2>5, FirstColumns DEF UpToDate
  <2> QED BY <1>1, <2>3, <2>4, <2>5, <2>6 DEF VersionsInv
<1>4. CASE inTx /\ Statement = Commit
  <2>1. /\ todo' = <<>> /\ ~ Asks(todo) /\ ~ Has(todo, 3)
    <3>1. /\ todo \in Seq(Statements) /\ todo # <<>> /\ Scripted(todo) /\ Composed(todo)
          /\ Head(todo) = Commit
      BY <1>1, <1>4 DEF TypeOK, RowsInv, VersionsInv, AtStatement, Statement
    <3>2. Tail(todo) = <<>>
      BY <3>1, HeadOff
    <3>3. Inspect # Commit /\ Lacks(4) # Commit /\ Stage(Commit) = 6
      BY NotCommit, StagesOfStatements
    <3>4. \A statement : Contains(todo, statement) <=> statement = Commit
      BY <3>1, <3>2, HeadOff, NothingComposed
    <3>5. ~ Has(todo, 3)
      <4>1. Has(todo, 3) <=> Stage(Head(todo)) = 3 \/ Has(Tail(todo), 3)
        BY <3>1, HeadFirst
      <4>2. Stage(Head(todo)) = 6 /\ ~ Has(Tail(todo), 3)
        BY <3>1, <3>2, <3>3, NothingComposed
      <4> QED BY <4>1, <4>2
    <3> QED BY <1>1, <3>2, <3>3, <3>4, <3>5 DEF Asks
  <2>2. UpToDate(db)
    BY <1>4, <2>1 DEF VersionsInv
  <2>3. disk' = db /\ inTx' = FALSE
    BY <1>1, <1>2, <1>4 DEF SqliteExecDone
  <2> QED BY <1>1, <2>1, <2>2, <2>3, NothingComposed DEF VersionsInv
<1>5. CASE inTx /\ Statement # Commit
  <2>1. disk' = disk /\ inTx' = TRUE
    BY <1>5 DEF SqliteExecDone
  <2>2. /\ Composed(todo')
        /\ Asks(todo') => /\ Exists("sessions", db')
                          /\ Recorded(4, db') => UpToDate(db')
                          /\ Contains(todo', Lacks(4)) => Exists("migrations", db')
        /\ ~ Asks(todo') /\ ~ Has(todo', 3) => UpToDate(db')
        /\ ~ Asks(todo') /\ ~ Contains(todo', CreateSessionsTable) =>
             (Exists("sessions", db') => UpToDate(db'))
    BY <1>1, <1>5, RestKeepsVersionsInv DEF RowsInv
  <2>3. UpToDate(disk) \/ disk = first
    BY DEF VersionsInv
  <2> QED BY <1>1, <2>1, <2>2, <2>3 DEF VersionsInv
<1> QED BY <1>3, <1>4, <1>5

LEMMA FailureKeepsVersionsInv ==
  ASSUME TypeOK, RowsInv, VersionsInv, SqliteExecAborts \/ SqliteExecRollsBack
  PROVE  VersionsInv'
<1>1. SUFFICES ASSUME InTransaction' PROVE VersionsInv'
  BY DEF VersionsInv
<1>2. CASE SqliteExecRollsBack
  BY <1>1, <1>2 DEF SqliteExecRollsBack, InTransaction
<1>3. CASE SqliteExecAborts
  <2>1. /\ AtStatement /\ Prepares(Statement, db) /\ todo' = Tail(todo)
        /\ UNCHANGED <<first, db, disk, inTx>> /\ failed \subseteq failed'
        /\ Statement.op = "begin" => "begin" \in failed'
    BY <1>3 DEF SqliteExecAborts, Continue
  <2>2. InTransaction
    BY <1>1, <2>1 DEF InTransaction
  <2>3. inTx
    <3> SUFFICES ASSUME ~ inTx PROVE FALSE
      OBVIOUS
    <3>1. todo = <<Begin, Inspect, Commit>>
      BY <2>1, <2>2 DEF VersionsInv, AtStatement
    <3>2. Statement.op = "begin"
      BY <3>1 DEF Statement, Begin
    <3> QED BY <1>1, <2>1, <3>2 DEF InTransaction
  <2>4. /\ Composed(todo')
        /\ Asks(todo') => /\ Exists("sessions", db)
                          /\ Recorded(4, db) => UpToDate(db)
                          /\ Contains(todo', Lacks(4)) => Exists("migrations", db)
        /\ ~ Asks(todo') /\ ~ Has(todo', 3) => UpToDate(db)
        /\ ~ Asks(todo') /\ ~ Contains(todo', CreateSessionsTable) =>
             (Exists("sessions", db) => UpToDate(db))
    BY <2>1, <2>2, <2>3, RestKeepsVersionsInv DEF RowsInv
  <2>5. UpToDate(disk) \/ disk = first
    BY <2>2 DEF VersionsInv
  <2> QED BY <2>1, <2>3, <2>4, <2>5 DEF VersionsInv
<1> QED BY <1>2, <1>3

LEMMA VersionsInvariant == Spec => []VersionsInv
<1>1. Init => VersionsInv
  BY NothingComposed DEF Init, VersionsInv
<1>2. TypeOK /\ RowsInv /\ VersionsInv /\ [Next]_vars => VersionsInv'
  <2> SUFFICES ASSUME TypeOK, RowsInv, VersionsInv, [Next]_vars PROVE VersionsInv'
    OBVIOUS
  <2>1. CASE Start
    BY <2>1 DEF Start, database, VersionsInv, InTransaction
  <2>2. CASE OpenDatabase
    <3>1. /\ db' = disk /\ disk' = disk /\ UNCHANGED <<first, failed, inTx>>
          /\ todo' = <<Begin, Inspect, Commit>>
      BY <2>2 DEF OpenDatabase, Continue, bounds
    <3>2. Composed(todo') /\ Asks(todo') /\ ~ Contains(todo', Lacks(4))
      BY <3>1, OpenComposed
    <3> SUFFICES ASSUME InTransaction' PROVE VersionsInv'
      BY DEF VersionsInv
    <3>3. first # Empty /\ first \in Firsts /\ (UpToDate(disk) \/ disk = first)
      BY <3>1 DEF VersionsInv, InTransaction, TypeOK
    <3>4. Exists("sessions", disk) /\ (Recorded(4, disk) => UpToDate(disk))
      BY <3>3, FirstColumns DEF UpToDate
    <3> QED BY <3>1, <3>2, <3>3, <3>4 DEF VersionsInv
  <2>3. CASE Ask
    <3>1. UNCHANGED <<first, failed>>
      BY <2>3 DEF Ask, Continue, bounds
    <3>2. CASE InTransaction
      BY <2>3, <3>2, AskKeepsVersionsInv DEF RowsInv
    <3>3. CASE ~ InTransaction
      BY <3>1, <3>3 DEF VersionsInv, InTransaction
    <3> QED BY <3>2, <3>3
  <2>4. CASE SqliteExecDone
    <3>1. UNCHANGED <<first, failed>>
      BY <2>4 DEF SqliteExecDone, Continue, bounds
    <3>2. CASE InTransaction
      BY <2>4, <3>2, DoneKeepsVersionsInv
    <3>3. CASE ~ InTransaction
      BY <3>1, <3>3 DEF VersionsInv, InTransaction
    <3> QED BY <3>2, <3>3
  <2>5. CASE SqliteExecAborts \/ SqliteExecRollsBack
    BY <2>5, FailureKeepsVersionsInv
  <2>6. CASE ServiceStep
    <3>1. UNCHANGED <<database, bounds, first>>
      BY <2>6 DEF ServiceStep, RunReadOnly, Migrated, StartListener, Notify, Listen, ListenFails,
             Interrupt, Accept, Finish, BeginShutdown, Wait, Drained, CloseDatabase, Continue
    <3> QED BY <3>1 DEF database, bounds, VersionsInv, InTransaction
  <2>7. CASE EndStep
    <3>1. /\ disk' = disk /\ inTx' = FALSE /\ todo' = <<>>
          /\ first' = first /\ failed' = failed
      BY <2>7 DEF EndStep, DatabaseUnusable, SqliteExecPanics, ServerFails, CloseNothing, Exit,
             CleanupWithoutPool, Crash, Stop, bounds
    <3> QED BY <3>1, NothingComposed DEF VersionsInv, InTransaction
  <2>8. CASE UNCHANGED vars
    BY <2>8 DEF vars, database, bounds, VersionsInv, InTransaction
  <2> QED BY <2>1, <2>2, <2>3, <2>4, <2>5, <2>6, <2>7, <2>8, NextSteps
<1> QED BY <1>1, <1>2, LifeTypeCorrect, RowsInvariant, PTL DEF Spec

\* A version is recorded only of a database that has its columns, whatever
\* statements fail in a transaction that goes on and wherever the process is
\* killed: the script panics on a gap before COMMIT (db_sqlite.go:151-183).
THEOREM RecordedVersionsTrue == Spec => []VersionsTrue
<1>1. TypeOK /\ VersionsInv => VersionsTrue
  <2> SUFFICES ASSUME TypeOK, VersionsInv, InTransaction, Exists("migrations", disk)
               PROVE  /\ Exists("sessions", disk)
                      /\ 2 \in disk["migrations"].rows =>
                           "active_drawing_users" \in disk["sessions"].columns
                      /\ 3 \in disk["migrations"].rows =>
                           "allow_web" \in disk["sessions"].columns
                      /\ 4 \in disk["migrations"].rows =>
                           "roomcode" \notin disk["sessions"].columns
    BY DEF VersionsTrue, InTransaction
  <2>1. first \in Firsts /\ first # Empty /\ (UpToDate(disk) \/ disk = first)
    BY DEF TypeOK, VersionsInv, InTransaction
  <2>2. CASE UpToDate(disk)
    BY <2>2 DEF UpToDate, SessionColumns
  <2>3. CASE disk = first
    <3>1. /\ Exists("sessions", disk)
          /\ 4 \in disk["migrations"].rows => UpToDate(disk)
          /\ 2 \in disk["migrations"].rows =>
               "active_drawing_users" \in disk["sessions"].columns
          /\ 3 \in disk["migrations"].rows =>
               "allow_web" \in disk["sessions"].columns
      BY <2>1, <2>3, FirstColumns DEF Recorded
    <3>2. UpToDate(disk) => "roomcode" \notin disk["sessions"].columns
      BY DEF UpToDate, SessionColumns
    <3> QED BY <3>1, <3>2
  <2> QED BY <2>1, <2>2, <2>3
<1> QED BY <1>1, LifeTypeCorrect, VersionsInvariant, PTL

\* Of a database that had sessions, the table of sessions is always as it was
\* found or as the last migration leaves it, never missing and never halfway,
\* whatever statements fail in a transaction that goes on
\* (db_sqlite.go:138-183, 211-232).
SessionsWhole ==
  first # Empty /\ failed \cap {"begin", "rollback"} = {} =>
    /\ Exists("sessions", disk)
    /\ \/ disk["sessions"] = first["sessions"]
       \/ disk["sessions"].columns = SessionColumns(4)

\* No failure, and no kill, leaves the table of sessions between two formats
\* (db_sqlite.go:138-183, 211-232).
THEOREM SessionsNeverHalfway == Spec => []SessionsWhole
<1>1. TypeOK /\ VersionsInv => SessionsWhole
  <2> SUFFICES ASSUME TypeOK, VersionsInv, InTransaction
               PROVE  /\ Exists("sessions", disk)
                      /\ \/ disk["sessions"] = first["sessions"]
                         \/ disk["sessions"].columns = SessionColumns(4)
    BY DEF SessionsWhole, InTransaction
  <2>1. first \in Firsts /\ first # Empty /\ (UpToDate(disk) \/ disk = first)
    BY DEF TypeOK, VersionsInv, InTransaction
  <2>2. disk = first => Exists("sessions", disk)
    BY <2>1, FirstColumns
  <2> QED BY <2>1, <2>2 DEF UpToDate
<1> QED BY <1>1, LifeTypeCorrect, VersionsInvariant, PTL

-----------------------------------------------------------------------------
(* As it was or as new.                                                    *)

Works(statement) == statement.op \notin {"begin", "commit", "inspect", "lacks"}

\* The statements of s run one after the other, all of them prepare, and they
\* take d to e.
Leads(s, d, e) ==
  \E states \in [1..(Len(s) + 1) -> Databases] :
    /\ states[1] = d /\ states[Len(s) + 1] = e
    /\ \A i \in 1..Len(s) :
         /\ Works(s[i]) /\ Prepares(s[i], states[i])
         /\ states[i + 1] = Result(s[i], states[i])

LEMMA LeadsNowhere ==
  ASSUME NEW d \in Databases
  PROVE  Leads(<<>>, d, d) /\ \A e : Leads(<<>>, e, d) => e = d
<1>1. Leads(<<>>, d, d)
  <2> DEFINE states == [i \in 1..1 |-> d]
  <2>1. Len(<<>>) = 0 /\ states \in [1..(Len(<<>>) + 1) -> Databases]
        /\ states[1] = d /\ states[Len(<<>>) + 1] = d
    OBVIOUS
  <2>2. \A i \in 1..Len(<<>>) : FALSE
    OBVIOUS
  <2> HIDE DEF states
  <2> QED BY <2>1, <2>2 DEF Leads
<1>2. \A e : Leads(<<>>, e, d) => e = d
  BY DEF Leads
<1> QED BY <1>1, <1>2

\* The first statement prepares, and the rest leads on from its result.
LEMMA LeadsOn ==
  ASSUME NEW s \in Seq(Statements), s # <<>>, NEW d, NEW e, Leads(s, d, e)
  PROVE  /\ Works(Head(s)) /\ Prepares(Head(s), d)
         /\ Leads(Tail(s), Result(Head(s), d), e)
<1>1. /\ Len(s) \in Nat \ {0} /\ Len(Tail(s)) = Len(s) - 1 /\ Head(s) = s[1]
      /\ \A i \in 1..Len(Tail(s)) : i + 1 \in 1..Len(s) /\ Tail(s)[i] = s[i + 1]
  OBVIOUS
<1>2. PICK states \in [1..(Len(s) + 1) -> Databases] :
        /\ states[1] = d /\ states[Len(s) + 1] = e
        /\ \A i \in 1..Len(s) :
             /\ Works(s[i]) /\ Prepares(s[i], states[i])
             /\ states[i + 1] = Result(s[i], states[i])
  BY DEF Leads
<1>3. /\ Works(s[1]) /\ Prepares(s[1], d) /\ states[2] = Result(s[1], d)
  BY <1>1, <1>2
<1> DEFINE after == [i \in 1..(Len(Tail(s)) + 1) |-> states[i + 1]]
<1>4. /\ after \in [1..(Len(Tail(s)) + 1) -> Databases]
      /\ after[1] = Result(s[1], d) /\ after[Len(Tail(s)) + 1] = e
  BY <1>1, <1>2, <1>3
<1>5. ASSUME NEW i \in 1..Len(Tail(s))
      PROVE  /\ Works(Tail(s)[i]) /\ Prepares(Tail(s)[i], after[i])
             /\ after[i + 1] = Result(Tail(s)[i], after[i])
  <2>1. i + 1 \in 1..Len(s) /\ Tail(s)[i] = s[i + 1]
    BY <1>1
  <2>2. after[i] = states[i + 1] /\ after[i + 1] = states[i + 1 + 1]
    BY <1>1
  <2> QED BY <1>2, <2>1, <2>2
<1> HIDE DEF after
<1>6. Leads(Tail(s), Result(s[1], d), e)
  BY <1>4, <1>5 DEF Leads
<1> QED BY <1>1, <1>3, <1>6

\* One script after the other.
LEMMA LeadsFurther ==
  ASSUME NEW s \in Seq(Statements), NEW t \in Seq(Statements), NEW d, NEW e, NEW f,
         Leads(s, d, e), Leads(t, e, f)
  PROVE  Leads(s \o t, d, f)
<1>1. /\ Len(s) \in Nat /\ Len(t) \in Nat /\ Len(s \o t) = Len(s) + Len(t)
      /\ \A i \in 1..(Len(s) + Len(t)) :
           (s \o t)[i] = IF i <= Len(s) THEN s[i] ELSE t[i - Len(s)]
  BY ConcatProperties
<1>2. PICK before \in [1..(Len(s) + 1) -> Databases] :
        /\ before[1] = d /\ before[Len(s) + 1] = e
        /\ \A i \in 1..Len(s) :
             /\ Works(s[i]) /\ Prepares(s[i], before[i])
             /\ before[i + 1] = Result(s[i], before[i])
  BY DEF Leads
<1>3. PICK after \in [1..(Len(t) + 1) -> Databases] :
        /\ after[1] = e /\ after[Len(t) + 1] = f
        /\ \A i \in 1..Len(t) :
             /\ Works(t[i]) /\ Prepares(t[i], after[i])
             /\ after[i + 1] = Result(t[i], after[i])
  BY DEF Leads
<1> DEFINE states == [i \in 1..(Len(s \o t) + 1) |->
                        IF i <= Len(s) THEN before[i] ELSE after[i - Len(s)]]
<1>4. /\ DOMAIN states = 1..(Len(s) + Len(t) + 1)
      /\ \A i \in 1..(Len(s) + 1) : states[i] = before[i]
      /\ \A i \in 1..(Len(t) + 1) : states[i + Len(s)] = after[i]
  BY <1>1, <1>2, <1>3
<1>5. states \in [1..(Len(s \o t) + 1) -> Databases]
  <2>1. ASSUME NEW i \in 1..(Len(s \o t) + 1) PROVE states[i] \in Databases
    <3>1. CASE i <= Len(s)
      <4>1. i \in 1..(Len(s) + 1) /\ states[i] = before[i]
        BY <1>1, <3>1
      <4> HIDE DEF states
      <4> QED BY <1>2, <4>1
    <3>2. CASE ~ (i <= Len(s))
      <4>1. i - Len(s) \in 1..(Len(t) + 1)
        BY <1>1, <3>2
      <4>2. states[i] = after[i - Len(s)]
        BY <1>1, <3>2
      <4> QED BY <1>3, <4>1, <4>2
    <3> QED BY <3>1, <3>2
  <2> QED BY <2>1
<1> HIDE DEF states
<1>6. states[1] = d /\ states[Len(s \o t) + 1] = f
  <2>1. 1 \in 1..(Len(s) + 1) /\ Len(t) + 1 \in 1..(Len(t) + 1)
        /\ Len(t) + 1 + Len(s) = Len(s \o t) + 1
    BY <1>1
  <2>2. states[1] = before[1] /\ states[Len(t) + 1 + Len(s)] = after[Len(t) + 1]
    BY <1>4, <2>1
  <2> QED BY <1>2, <1>3, <2>1, <2>2
<1>7. ASSUME NEW i \in 1..Len(s \o t)
      PROVE  /\ Works((s \o t)[i]) /\ Prepares((s \o t)[i], states[i])
             /\ states[i + 1] = Result((s \o t)[i], states[i])
  <2>1. CASE i <= Len(s)
    <3>1. /\ (s \o t)[i] = s[i] /\ i \in 1..Len(s)
          /\ states[i] = before[i] /\ states[i + 1] = before[i + 1]
      BY <1>1, <1>4, <2>1
    <3> QED BY <1>2, <3>1
  <2>2. CASE ~ (i <= Len(s))
    <3> DEFINE j == i - Len(s)
    <3>1. /\ j \in 1..Len(t) /\ (s \o t)[i] = t[j] /\ j \in 1..(Len(t) + 1)
          /\ j + 1 \in 1..(Len(t) + 1) /\ j + Len(s) = i /\ (j + 1) + Len(s) = i + 1
      BY <1>1, <2>2
    <3> HIDE DEF j
    <3>2. states[i] = after[j] /\ states[i + 1] = after[j + 1]
      BY <1>4, <3>1
    <3> QED BY <1>3, <3>1, <3>2
  <2> QED BY <2>1, <2>2
<1> QED BY <1>5, <1>6, <1>7 DEF Leads

\* A database, table by table.
Of(migrations, sessions, sessionsOld, hostbans, hostbansOld, accesslevels, roles, users) ==
  [table \in Tables |->
     CASE table = "migrations"   -> migrations
       [] table = "sessions"     -> sessions
       [] table = "sessions_old" -> sessionsOld
       [] table = "hostbans"     -> hostbans
       [] table = "hostbans_old" -> hostbansOld
       [] table = "accesslevels" -> accesslevels
       [] table = "roles"        -> roles
       [] table = "users"        -> users]

LEMMA OfTyped ==
  ASSUME NEW m \in TableStates \cup {NoTable}, NEW s \in TableStates \cup {NoTable},
         NEW so \in TableStates \cup {NoTable}, NEW h \in TableStates \cup {NoTable},
         NEW ho \in TableStates \cup {NoTable}, NEW a \in TableStates \cup {NoTable},
         NEW r \in TableStates \cup {NoTable}, NEW u \in TableStates \cup {NoTable}
  PROVE  Of(m, s, so, h, ho, a, r, u) \in Databases
BY DEF Of, Databases, Tables

LEMMA OfRead ==
  ASSUME NEW m, NEW s, NEW so, NEW h, NEW ho, NEW a, NEW r, NEW u
  PROVE  LET d == Of(m, s, so, h, ho, a, r, u) IN
         /\ DOMAIN d = Tables
         /\ d["migrations"] = m /\ d["sessions"] = s /\ d["sessions_old"] = so
         /\ d["hostbans"] = h /\ d["hostbans_old"] = ho /\ d["accesslevels"] = a
         /\ d["roles"] = r /\ d["users"] = u
BY DEF Of, Tables

LEMMA OfWrite ==
  ASSUME NEW m, NEW s, NEW so, NEW h, NEW ho, NEW a, NEW r, NEW u, NEW t
  PROVE  LET d == Of(m, s, so, h, ho, a, r, u) IN
         /\ [d EXCEPT !["migrations"] = t] = Of(t, s, so, h, ho, a, r, u)
         /\ [d EXCEPT !["sessions"] = t] = Of(m, t, so, h, ho, a, r, u)
         /\ [d EXCEPT !["sessions_old"] = t] = Of(m, s, t, h, ho, a, r, u)
         /\ [d EXCEPT !["hostbans"] = t] = Of(m, s, so, t, ho, a, r, u)
         /\ [d EXCEPT !["hostbans_old"] = t] = Of(m, s, so, h, t, a, r, u)
         /\ [d EXCEPT !["accesslevels"] = t] = Of(m, s, so, h, ho, t, r, u)
         /\ [d EXCEPT !["roles"] = t] = Of(m, s, so, h, ho, a, t, u)
         /\ [d EXCEPT !["users"] = t] = Of(m, s, so, h, ho, a, r, t)
<1> DEFINE d == Of(m, s, so, h, ho, a, r, u)
<1>1. [d EXCEPT !["migrations"] = t] = Of(t, s, so, h, ho, a, r, u)
  BY DEF Of, Tables
<1>2. [d EXCEPT !["sessions"] = t] = Of(m, t, so, h, ho, a, r, u)
  BY DEF Of, Tables
<1>3. [d EXCEPT !["sessions_old"] = t] = Of(m, s, t, h, ho, a, r, u)
  BY DEF Of, Tables
<1>4. [d EXCEPT !["hostbans"] = t] = Of(m, s, so, t, ho, a, r, u)
  BY DEF Of, Tables
<1>5. [d EXCEPT !["hostbans_old"] = t] = Of(m, s, so, h, t, a, r, u)
  BY DEF Of, Tables
<1>6. [d EXCEPT !["accesslevels"] = t] = Of(m, s, so, h, ho, t, r, u)
  BY DEF Of, Tables
<1>7. [d EXCEPT !["roles"] = t] = Of(m, s, so, h, ho, a, t, u)
  BY DEF Of, Tables
<1>8. [d EXCEPT !["users"] = t] = Of(m, s, so, h, ho, a, r, t)
  BY DEF Of, Tables
<1> QED BY <1>1, <1>2, <1>3, <1>4, <1>5, <1>6, <1>7, <1>8

LEMMA OfFormats ==
  /\ Empty = Of(NoTable, NoTable, NoTable, NoTable, NoTable, NoTable, NoTable, NoTable)
  /\ Legacy = Of(NoTable, Table({"roomcode"}, Sessions), NoTable, Table({}, Bans), NoTable,
                 NoTable, NoTable, NoTable)
  /\ \A version, sessions, bans :
       Format(version, sessions, bans) =
         Of(Table({}, 1..version), Table(SessionColumns(version), sessions), NoTable,
            Table({"id"}, bans), NoTable, Table({}, 0..2), Table({}, {}), Table({}, {}))
<1>1. Empty = Of(NoTable, NoTable, NoTable, NoTable, NoTable, NoTable, NoTable, NoTable)
  BY DEF Empty, Of, Tables
<1>2. Legacy = Of(NoTable, Table({"roomcode"}, Sessions), NoTable, Table({}, Bans), NoTable,
                  NoTable, NoTable, NoTable)
  BY DEF Legacy, Of, Tables
<1>3. ASSUME NEW version, NEW sessions, NEW bans
      PROVE  Format(version, sessions, bans) =
               Of(Table({}, 1..version), Table(SessionColumns(version), sessions), NoTable,
                  Table({"id"}, bans), NoTable, Table({}, 0..2), Table({}, {}), Table({}, {}))
  <2> DEFINE m == Table({}, 1..version)
             s == Table(SessionColumns(version), sessions)
             h == Table({"id"}, bans)
             a == Table({}, 0..2)
             e == Table({}, {})
  <2>1. Format(version, sessions, bans) =
          [table \in Tables |->
             CASE table = "migrations"        -> m
               [] table = "sessions"          -> s
               [] table = "hostbans"          -> h
               [] table = "accesslevels"      -> a
               [] table \in {"roles", "users"} -> e
               [] OTHER                       -> NoTable]
    BY DEF Format
  <2> HIDE DEF m, s, h, a, e
  <2>2. Format(version, sessions, bans) = Of(m, s, NoTable, h, NoTable, a, e, e)
    BY <2>1 DEF Of, Tables
  <2> QED BY <2>2 DEF m, s, h, a, e
<1> QED BY <1>1, <1>2, <1>3

\* A statement of a script takes d to e.
Takes(statement, d, e) ==
  Works(statement) /\ Prepares(statement, d) /\ Result(statement, d) = e

LEMMA TableTyped ==
  ASSUME NEW columns \in SUBSET Columns, NEW rows \in SUBSET Rows
  PROVE  /\ Table(columns, rows) \in TableStates /\ Table(columns, rows) # NoTable
         /\ Table(columns, rows).columns = columns /\ Table(columns, rows).rows = rows
BY NoTableAssumption DEF Table, TableStates

LEMMA RenameTakes ==
  ASSUME NEW d, NEW table, NEW new, d[table] # NoTable, d[new] = NoTable
  PROVE  Takes(Rename(table, new), d,
               [[d EXCEPT ![new] = d[table]] EXCEPT ![table] = NoTable])
BY DEF Takes, Works, Prepares, Result, Rename, Exists

LEMMA CreateTakes ==
  ASSUME NEW d, NEW table, NEW columns, d[table] = NoTable
  PROVE  Takes(Create(table, columns), d, [d EXCEPT ![table] = Table(columns, {})])
BY DEF Takes, Works, Prepares, Result, Create, Exists

LEMMA AddColumnTakes ==
  ASSUME NEW d, DOMAIN d = Tables, NEW columns \in SUBSET Columns, NEW rows \in SUBSET Rows,
         NEW column \in Columns \ columns, d["sessions"] = Table(columns, rows)
  PROVE  Takes(AddColumn(column), d,
               [d EXCEPT !["sessions"] = Table(columns \cup {column}, rows)])
<1>1. Works(AddColumn(column)) /\ Prepares(AddColumn(column), d)
  BY TableTyped DEF Works, Prepares, AddColumn, Exists
<1>2. [d["sessions"] EXCEPT !.columns = @ \cup {column}] = Table(columns \cup {column}, rows)
  BY DEF Table
<1>3. "sessions" \in DOMAIN d
  BY DEF Tables
<1>4. Result(AddColumn(column), d) = [d EXCEPT !["sessions"].columns = @ \cup {column}]
  BY DEF Result, AddColumn
<1> QED BY <1>1, <1>2, <1>3, <1>4 DEF Takes

LEMMA FillTakes ==
  ASSUME NEW d, NEW table \in DOMAIN d, NEW columns \in SUBSET Columns,
         NEW rows \in SUBSET Rows, NEW more, d[table] = Table(columns, rows)
  PROVE  Takes(Fill(table, more), d, [d EXCEPT ![table] = Table(columns, rows \cup more)])
<1>1. Works(Fill(table, more)) /\ Prepares(Fill(table, more), d)
  BY TableTyped DEF Works, Prepares, Fill, Exists
<1>2. [d[table] EXCEPT !.rows = @ \cup more] = Table(columns, rows \cup more)
  BY DEF Table
<1>3. Result(Fill(table, more), d) = [d EXCEPT ![table].rows = @ \cup more]
  BY DEF Result, Fill
<1> QED BY <1>1, <1>2, <1>3 DEF Takes

LEMMA CopyTakes ==
  ASSUME NEW d, NEW from \in DOMAIN d, NEW to \in DOMAIN d,
         NEW old \in SUBSET Columns, NEW moved \in SUBSET Rows,
         NEW columns \in SUBSET Columns, NEW rows \in SUBSET Rows,
         NEW named \in SUBSET old,
         d[from] = Table(old, moved), d[to] = Table(columns, rows)
  PROVE  Takes(Copy(from, to, named), d, [d EXCEPT ![to] = Table(columns, rows \cup moved)])
<1>1. Works(Copy(from, to, named)) /\ Prepares(Copy(from, to, named), d)
  BY TableTyped DEF Works, Prepares, Copy, Exists
<1>2. [d[to] EXCEPT !.rows = @ \cup d[from].rows] = Table(columns, rows \cup moved)
  BY TableTyped DEF Table
<1>3. Result(Copy(from, to, named), d) = [d EXCEPT ![to].rows = @ \cup d[from].rows]
  BY DEF Result, Copy
<1> QED BY <1>1, <1>2, <1>3 DEF Takes

LEMMA DropTakes ==
  ASSUME NEW d, NEW table, d[table] # NoTable
  PROVE  Takes(Drop(table), d, [d EXCEPT ![table] = NoTable])
BY DEF Takes, Works, Prepares, Result, Drop, Exists

LEMMA LeadsThrough ==
  ASSUME NEW s \in Seq(Statements), NEW states \in Seq(Databases), Len(states) = Len(s) + 1,
         \A i \in 1..Len(s) : Takes(s[i], states[i], states[i + 1])
  PROVE  Leads(s, states[1], states[Len(s) + 1])
BY DEF Leads, Takes

\* The script for a new database, next to what a migration put aside.
LEMMA InitDbLeads ==
  ASSUME NEW so \in TableStates \cup {NoTable}, NEW ho \in TableStates \cup {NoTable}
  PROVE  Leads(InitDb, Of(NoTable, NoTable, so, NoTable, ho, NoTable, NoTable, NoTable),
               Of(Table({}, 1..4), Table(SessionColumns(4), {}), so, Table({"id"}, {}), ho,
                  Table({}, 0..2), Table({}, {}), Table({}, {})))
<1> DEFINE e == Table({}, {})
           m == Table({}, 1..4)
           s == Table(SessionColumns(4), {})
           h == Table({"id"}, {})
           a == Table({}, 0..2)
           N == NoTable
           d1 == Of(N, N, so, N, ho, N, N, N)
           d2 == Of(e, N, so, N, ho, N, N, N)
           d3 == Of(e, s, so, N, ho, N, N, N)
           d4 == Of(e, s, so, h, ho, N, N, N)
           d5 == Of(e, s, so, h, ho, e, N, N)
           d6 == Of(e, s, so, h, ho, a, N, N)
           d7 == Of(e, s, so, h, ho, a, e, N)
           d8 == Of(e, s, so, h, ho, a, e, e)
           d9 == Of(m, s, so, h, ho, a, e, e)
           states == <<d1, d2, d3, d4, d5, d6, d7, d8, d9>>
<1>1. /\ {} \in SUBSET Columns /\ {"id"} \in SUBSET Columns /\ SessionColumns(4) \in SUBSET Columns
      /\ {} \in SUBSET Rows /\ 0..2 \in SUBSET Rows /\ 1..4 \in SUBSET Rows
      /\ {} \cup 0..2 = 0..2 /\ {} \cup 1..4 = 1..4
  BY NamesTyped DEF Columns, Rows
<1>2. /\ e \in TableStates /\ m \in TableStates /\ s \in TableStates /\ h \in TableStates
      /\ a \in TableStates /\ N \in TableStates \cup {NoTable}
  BY <1>1, TableTyped
<1> HIDE DEF e, m, s, h, a
<1>3. Takes(Create("migrations", {}), d1, d2)
  <2>1. d1["migrations"] = NoTable /\ [d1 EXCEPT !["migrations"] = e] = d2
    BY OfRead, OfWrite
  <2> QED BY <2>1, CreateTakes DEF e
<1>4. Takes(CreateSessionsTable, d2, d3)
  <2>1. d2["sessions"] = NoTable /\ [d2 EXCEPT !["sessions"] = s] = d3
    BY OfRead, OfWrite
  <2> QED BY <2>1, CreateTakes DEF CreateSessionsTable, s
<1>5. Takes(Create("hostbans", {"id"}), d3, d4)
  <2>1. d3["hostbans"] = NoTable /\ [d3 EXCEPT !["hostbans"] = h] = d4
    BY OfRead, OfWrite
  <2> QED BY <2>1, CreateTakes DEF h
<1>6. Takes(Create("accesslevels", {}), d4, d5)
  <2>1. d4["accesslevels"] = NoTable /\ [d4 EXCEPT !["accesslevels"] = e] = d5
    BY OfRead, OfWrite
  <2> QED BY <2>1, CreateTakes DEF e
<1>7. Takes(Fill("accesslevels", 0..2), d5, d6)
  <2>1. d5["accesslevels"] = e /\ [d5 EXCEPT !["accesslevels"] = a] = d6
        /\ "accesslevels" \in DOMAIN d5
    BY OfRead, OfWrite DEF Tables
  <2> QED BY <1>1, <2>1, FillTakes DEF e, a
<1>8. Takes(Create("roles", {}), d6, d7)
  <2>1. d6["roles"] = NoTable /\ [d6 EXCEPT !["roles"] = e] = d7
    BY OfRead, OfWrite
  <2> QED BY <2>1, CreateTakes DEF e
<1>9. Takes(Create("users", {}), d7, d8)
  <2>1. d7["users"] = NoTable /\ [d7 EXCEPT !["users"] = e] = d8
    BY OfRead, OfWrite
  <2> QED BY <2>1, CreateTakes DEF e
<1>10. Takes(Fill("migrations", 1..4), d8, d9)
  <2>1. d8["migrations"] = e /\ [d8 EXCEPT !["migrations"] = m] = d9
        /\ "migrations" \in DOMAIN d8
    BY OfRead, OfWrite DEF Tables
  <2> QED BY <1>1, <2>1, FillTakes DEF e, m
<1>11. /\ d1 \in Databases /\ d2 \in Databases /\ d3 \in Databases
       /\ d4 \in Databases /\ d5 \in Databases /\ d6 \in Databases
       /\ d7 \in Databases /\ d8 \in Databases /\ d9 \in Databases
  <2>1. d1 \in Databases /\ d2 \in Databases /\ d3 \in Databases
    BY <1>2, OfTyped
  <2>2. d4 \in Databases /\ d5 \in Databases /\ d6 \in Databases
    BY <1>2, OfTyped
  <2>3. d7 \in Databases /\ d8 \in Databases /\ d9 \in Databases
    BY <1>2, OfTyped
  <2> QED BY <2>1, <2>2, <2>3
<1> HIDE DEF d1, d2, d3, d4, d5, d6, d7, d8, d9
<1>12. states \in Seq(Databases) /\ Len(states) = 9
  BY <1>11
<1>13. /\ Len(InitDb) = 8
       /\ InitDb[1] = Create("migrations", {}) /\ InitDb[2] = CreateSessionsTable
       /\ InitDb[3] = Create("hostbans", {"id"}) /\ InitDb[4] = Create("accesslevels", {})
       /\ InitDb[5] = Fill("accesslevels", 0..2)
       /\ InitDb[6] = Create("roles", {}) /\ InitDb[7] = Create("users", {})
       /\ InitDb[8] = Fill("migrations", 1..4)
  BY DEF InitDb
<1>14. /\ Takes(InitDb[1], states[1], states[2]) /\ Takes(InitDb[2], states[2], states[3])
       /\ Takes(InitDb[3], states[3], states[4]) /\ Takes(InitDb[4], states[4], states[5])
       /\ Takes(InitDb[5], states[5], states[6]) /\ Takes(InitDb[6], states[6], states[7])
       /\ Takes(InitDb[7], states[7], states[8]) /\ Takes(InitDb[8], states[8], states[9])
  BY <1>3, <1>4, <1>5, <1>6, <1>7, <1>8, <1>9, <1>10, <1>13
<1>15. states[1] = d1 /\ states[9] = d9
  OBVIOUS
<1> HIDE DEF states
<1>16. \A i \in 1..8 : Takes(InitDb[i], states[i], states[i + 1])
  BY <1>14
<1>17. Leads(InitDb, states[1], states[9])
  <2>1. Len(states) = Len(InitDb) + 1 /\ Len(InitDb) + 1 = 9 /\ 1..Len(InitDb) = 1..8
    BY <1>12, <1>13
  <2>2. Leads(InitDb, states[1], states[Len(InitDb) + 1])
    BY <1>12, <1>16, <2>1, InitDbTyped, LeadsThrough
  <2> QED BY <2>1, <2>2
<1> QED BY <1>15, <1>17 DEF d1, d9, e, m, s, h, a

\* A new database.
LEMMA EmptyLeads == Leads(InitDb, Empty, Format(4, {}, {}))
BY InitDbLeads, OfFormats

\* A database from before versions: its tables are put aside, the new ones are
\* made and filled from them.
LEMMA LegacyLeads ==
  Leads(MigrateFromLegacyFormat, Legacy, Format(4, Sessions, Bans))
<1> DEFINE renames == <<Rename("sessions", "sessions_old"), Rename("hostbans", "hostbans_old")>>
           copies == <<Copy("sessions_old", "sessions", {}), Copy("hostbans_old", "hostbans", {}),
                       Drop("sessions_old"), Drop("hostbans_old")>>
           so == Table({"roomcode"}, Sessions)
           ho == Table({}, Bans)
           e == Table({}, {})
           m == Table({}, 1..4)
           s0 == Table(SessionColumns(4), {})
           h0 == Table({"id"}, {})
           s == Table(SessionColumns(4), Sessions)
           h == Table({"id"}, Bans)
           a == Table({}, 0..2)
           N == NoTable
           d1 == Of(N, so, N, ho, N, N, N, N)
           d2 == Of(N, N, so, ho, N, N, N, N)
           d3 == Of(N, N, so, N, ho, N, N, N)
           d4 == Of(m, s0, so, h0, ho, a, e, e)
           d5 == Of(m, s, so, h0, ho, a, e, e)
           d6 == Of(m, s, so, h, ho, a, e, e)
           d7 == Of(m, s, N, h, ho, a, e, e)
           d8 == Of(m, s, N, h, N, a, e, e)
<1>1. /\ {} \in SUBSET Columns /\ {"id"} \in SUBSET Columns /\ SessionColumns(4) \in SUBSET Columns
      /\ {"roomcode"} \in SUBSET Columns
      /\ {} \in SUBSET Rows /\ 0..2 \in SUBSET Rows /\ 1..4 \in SUBSET Rows
      /\ Sessions \in SUBSET Rows /\ Bans \in SUBSET Rows
      /\ {} \cup Sessions = Sessions /\ {} \cup Bans = Bans
  BY NamesTyped DEF Columns, Rows
<1>2. /\ e \in TableStates /\ m \in TableStates /\ s \in TableStates /\ h \in TableStates
      /\ a \in TableStates /\ s0 \in TableStates /\ h0 \in TableStates
      /\ so \in TableStates /\ ho \in TableStates /\ so # N /\ ho # N
      /\ N \in TableStates \cup {NoTable}
  BY <1>1, TableTyped
<1>3. {"migrations", "sessions", "sessions_old", "hostbans", "hostbans_old"} \subseteq Tables
  BY DEF Tables
<1> HIDE DEF e, m, s, h, a, s0, h0, so, ho
<1>4. Takes(Rename("sessions", "sessions_old"), d1, d2)
  <2> DEFINE d == Of(N, so, so, ho, N, N, N, N)
  <2>1. d1["sessions"] = so /\ d1["sessions_old"] = NoTable
    BY OfRead
  <2>2. [d1 EXCEPT !["sessions_old"] = so] = d
    BY OfRead, OfWrite
  <2>3. [d EXCEPT !["sessions"] = NoTable] = d2
    BY OfRead, OfWrite
  <2> HIDE DEF d1, d2, d
  <2> QED BY <1>2, <2>1, <2>2, <2>3, RenameTakes
<1>5. Takes(Rename("hostbans", "hostbans_old"), d2, d3)
  <2> DEFINE d == Of(N, N, so, ho, ho, N, N, N)
  <2>1. d2["hostbans"] = ho /\ d2["hostbans_old"] = NoTable
    BY OfRead
  <2>2. [d2 EXCEPT !["hostbans_old"] = ho] = d
    BY OfRead, OfWrite
  <2>3. [d EXCEPT !["hostbans"] = NoTable] = d3
    BY OfRead, OfWrite
  <2> HIDE DEF d2, d3, d
  <2> QED BY <1>2, <2>1, <2>2, <2>3, RenameTakes
<1>6. Leads(InitDb, d3, d4)
  BY <1>2, InitDbLeads DEF m, s0, h0, a, e
<1>7. Takes(Copy("sessions_old", "sessions", {}), d4, d5)
  <2>1. d4["sessions_old"] = so /\ d4["sessions"] = s0 /\ DOMAIN d4 = Tables
    BY OfRead
  <2>2. [d4 EXCEPT !["sessions"] = s] = d5
    BY OfRead, OfWrite
  <2> HIDE DEF d4, d5
  <2>3. Takes(Copy("sessions_old", "sessions", {}), d4,
              [d4 EXCEPT !["sessions"] = Table(SessionColumns(4), {} \cup Sessions)])
    BY <1>1, <1>3, <2>1, CopyTakes DEF so, s0
  <2> QED BY <1>1, <2>2, <2>3 DEF s
<1>8. Takes(Copy("hostbans_old", "hostbans", {}), d5, d6)
  <2>1. d5["hostbans_old"] = ho /\ d5["hostbans"] = h0 /\ DOMAIN d5 = Tables
    BY OfRead
  <2>2. [d5 EXCEPT !["hostbans"] = h] = d6
    BY OfRead, OfWrite
  <2> HIDE DEF d5, d6
  <2>3. Takes(Copy("hostbans_old", "hostbans", {}), d5,
              [d5 EXCEPT !["hostbans"] = Table({"id"}, {} \cup Bans)])
    BY <1>1, <1>3, <2>1, CopyTakes DEF ho, h0
  <2> QED BY <1>1, <2>2, <2>3 DEF h
<1>9. Takes(Drop("sessions_old"), d6, d7)
  <2>1. d6["sessions_old"] = so /\ [d6 EXCEPT !["sessions_old"] = NoTable] = d7
    BY OfRead, OfWrite
  <2> HIDE DEF d6, d7
  <2> QED BY <1>2, <2>1, DropTakes
<1>10. Takes(Drop("hostbans_old"), d7, d8)
  <2>1. d7["hostbans_old"] = ho /\ [d7 EXCEPT !["hostbans_old"] = NoTable] = d8
    BY OfRead, OfWrite
  <2> HIDE DEF d7, d8
  <2> QED BY <1>2, <2>1, DropTakes
<1>11. /\ d1 \in Databases /\ d2 \in Databases /\ d3 \in Databases /\ d4 \in Databases
       /\ d5 \in Databases /\ d6 \in Databases /\ d7 \in Databases /\ d8 \in Databases
  <2>1. d1 \in Databases /\ d2 \in Databases /\ d3 \in Databases
    BY <1>2, OfTyped
  <2>2. d4 \in Databases /\ d5 \in Databases
    BY <1>2, OfTyped
  <2>3. d6 \in Databases /\ d7 \in Databases /\ d8 \in Databases
    BY <1>2, OfTyped
  <2> QED BY <2>1, <2>2, <2>3
<1>12. Legacy = d1 /\ Format(4, Sessions, Bans) = d8
  BY OfFormats DEF so, ho, m, s, h, a, e
<1> HIDE DEF d1, d2, d3, d4, d5, d6, d7, d8
<1>13. /\ Rename("sessions", "sessions_old") \in Statements
       /\ Rename("hostbans", "hostbans_old") \in Statements
       /\ Copy("sessions_old", "sessions", {}) \in Statements
       /\ Copy("hostbans_old", "hostbans", {}) \in Statements
       /\ Drop("sessions_old") \in Statements /\ Drop("hostbans_old") \in Statements
  BY ConstructorsTyped, NamesTyped
<1>14. renames \in Seq(Statements) /\ copies \in Seq(Statements)
  BY <1>13
<1>15. Leads(renames, d1, d3)
  <2> DEFINE states == <<d1, d2, d3>>
  <2>1. /\ states \in Seq(Databases) /\ Len(states) = 3 /\ Len(renames) = 2
        /\ states[1] = d1 /\ states[2] = d2 /\ states[3] = d3
        /\ renames[1] = Rename("sessions", "sessions_old")
        /\ renames[2] = Rename("hostbans", "hostbans_old")
    BY <1>11
  <2> HIDE DEF states, renames
  <2>2. \A i \in 1..Len(renames) : Takes(renames[i], states[i], states[i + 1])
    BY <1>4, <1>5, <2>1
  <2>3. Len(states) = Len(renames) + 1 /\ Len(renames) + 1 = 3
    BY <2>1
  <2>4. Leads(renames, states[1], states[Len(renames) + 1])
    BY <1>14, <2>1, <2>2, <2>3, LeadsThrough
  <2> QED BY <2>1, <2>3, <2>4
<1>16. Leads(copies, d4, d8)
  <2> DEFINE states == <<d4, d5, d6, d7, d8>>
  <2>1. /\ states \in Seq(Databases) /\ Len(states) = 5 /\ Len(copies) = 4
        /\ states[1] = d4 /\ states[2] = d5 /\ states[3] = d6 /\ states[4] = d7 /\ states[5] = d8
        /\ copies[1] = Copy("sessions_old", "sessions", {})
        /\ copies[2] = Copy("hostbans_old", "hostbans", {})
        /\ copies[3] = Drop("sessions_old") /\ copies[4] = Drop("hostbans_old")
    BY <1>11
  <2> HIDE DEF states, copies
  <2>2. \A i \in 1..Len(copies) : Takes(copies[i], states[i], states[i + 1])
    BY <1>7, <1>8, <1>9, <1>10, <2>1
  <2>3. Len(states) = Len(copies) + 1 /\ Len(copies) + 1 = 5
    BY <2>1
  <2>4. Leads(copies, states[1], states[Len(copies) + 1])
    BY <1>14, <2>1, <2>2, <2>3, LeadsThrough
  <2> QED BY <2>1, <2>3, <2>4
<1>17. MigrateFromLegacyFormat = (renames \o InitDb) \o copies
  BY DEF MigrateFromLegacyFormat
<1> HIDE DEF renames, copies
<1>18. renames \o InitDb \in Seq(Statements) /\ Leads(renames \o InitDb, d1, d4)
  BY <1>6, <1>14, <1>15, InitDbTyped, LeadsFurther, ConcatProperties
<1> QED BY <1>12, <1>14, <1>16, <1>17, <1>18, LeadsFurther

LEMMA ColumnsOfVersions ==
  /\ \A version \in Versions : SessionColumns(version) \in SUBSET Columns
  /\ "active_drawing_users" \in Columns \ SessionColumns(1)
  /\ SessionColumns(1) \cup {"active_drawing_users"} = SessionColumns(2)
  /\ "allow_web" \in Columns \ SessionColumns(2)
  /\ SessionColumns(2) \cup {"allow_web"} = SessionColumns(3)
  /\ SessionColumns(4) \in SUBSET SessionColumns(3)
BY DEF SessionColumns, Columns, Versions

\* A column is added, and the version recorded.
LEMMA AddingLeads ==
  ASSUME NEW sessions \in SUBSET Rows, NEW bans \in SUBSET Rows,
         NEW version \in {2, 3},
         NEW column \in Columns \ SessionColumns(version - 1),
         SessionColumns(version - 1) \cup {column} = SessionColumns(version)
  PROVE  Leads(<<AddColumn(column), Fill("migrations", {version})>>,
               Format(version - 1, sessions, bans), Format(version, sessions, bans))
<1> DEFINE m0 == Table({}, 1..(version - 1))
           m == Table({}, 1..version)
           s0 == Table(SessionColumns(version - 1), sessions)
           s == Table(SessionColumns(version), sessions)
           h == Table({"id"}, bans)
           a == Table({}, 0..2)
           e == Table({}, {})
           N == NoTable
           d1 == Of(m0, s0, N, h, N, a, e, e)
           d2 == Of(m0, s, N, h, N, a, e, e)
           d3 == Of(m, s, N, h, N, a, e, e)
           script == <<AddColumn(column), Fill("migrations", {version})>>
<1>1. /\ {} \in SUBSET Columns /\ {"id"} \in SUBSET Columns
      /\ SessionColumns(version - 1) \in SUBSET Columns /\ SessionColumns(version) \in SUBSET Columns
      /\ {} \in SUBSET Rows /\ 0..2 \in SUBSET Rows
      /\ 1..(version - 1) \in SUBSET Rows /\ 1..version \in SUBSET Rows
      /\ 1..(version - 1) \cup {version} = 1..version
  <2>1. version - 1 \in Versions /\ version \in Versions
    BY DEF Versions
  <2> QED BY <2>1, NamesTyped, ColumnsOfVersions DEF Columns, Rows, Versions
<1>2. /\ m0 \in TableStates /\ m \in TableStates /\ s0 \in TableStates /\ s \in TableStates
      /\ h \in TableStates /\ a \in TableStates /\ e \in TableStates
      /\ N \in TableStates \cup {NoTable}
  BY <1>1, TableTyped
<1>3. Format(version - 1, sessions, bans) = d1 /\ Format(version, sessions, bans) = d3
  BY OfFormats
<1> HIDE DEF m0, m, s0, s, h, a, e
<1>4. Takes(AddColumn(column), d1, d2)
  <2>1. d1["sessions"] = s0 /\ DOMAIN d1 = Tables
    BY OfRead
  <2>2. [d1 EXCEPT !["sessions"] = s] = d2
    BY OfRead, OfWrite
  <2> HIDE DEF d1, d2
  <2>3. Takes(AddColumn(column), d1,
              [d1 EXCEPT !["sessions"] = Table(SessionColumns(version - 1) \cup {column}, sessions)])
    BY <1>1, <2>1, AddColumnTakes DEF s0
  <2> QED BY <2>2, <2>3 DEF s
<1>5. Takes(Fill("migrations", {version}), d2, d3)
  <2>1. d2["migrations"] = m0 /\ "migrations" \in DOMAIN d2
    BY OfRead DEF Tables
  <2>2. [d2 EXCEPT !["migrations"] = m] = d3
    BY OfRead, OfWrite
  <2> HIDE DEF d2, d3
  <2>3. Takes(Fill("migrations", {version}), d2,
              [d2 EXCEPT !["migrations"] = Table({}, 1..(version - 1) \cup {version})])
    BY <1>1, <2>1, FillTakes DEF m0
  <2> QED BY <1>1, <2>2, <2>3 DEF m
<1>6. d1 \in Databases /\ d2 \in Databases /\ d3 \in Databases
  BY <1>2, OfTyped
<1> HIDE DEF d1, d2, d3
<1>7. script \in Seq(Statements)
  <2>1. /\ AddColumn(column) \in Statements /\ {version} \in SUBSET Rows
        /\ "migrations" \in Tables
    BY ConstructorsTyped, NamesTyped DEF Rows
  <2>2. Fill("migrations", {version}) \in Statements
    BY <2>1, ConstructorsTyped
  <2> QED BY <2>1, <2>2
<1> DEFINE states == <<d1, d2, d3>>
<1>8. /\ states \in Seq(Databases) /\ Len(states) = 3 /\ Len(script) = 2
      /\ states[1] = d1 /\ states[2] = d2 /\ states[3] = d3
      /\ script[1] = AddColumn(column) /\ script[2] = Fill("migrations", {version})
  BY <1>6
<1> HIDE DEF states, script
<1>9. \A i \in 1..Len(script) : Takes(script[i], states[i], states[i + 1])
  BY <1>4, <1>5, <1>8
<1>10. Len(states) = Len(script) + 1 /\ Len(script) + 1 = 3
  BY <1>8
<1>11. Leads(script, states[1], states[Len(script) + 1])
  BY <1>7, <1>8, <1>9, <1>10, LeadsThrough
<1> QED BY <1>3, <1>8, <1>10, <1>11 DEF script

\* The table of sessions is made anew without roomcode and filled.
LEMMA RoomcodeLeads ==
  ASSUME NEW sessions \in SUBSET Rows, NEW bans \in SUBSET Rows
  PROVE  Leads(MigrateRoomcodeRemoval, Format(3, sessions, bans), Format(4, sessions, bans))
<1> DEFINE m0 == Table({}, 1..3)
           m == Table({}, 1..4)
           so == Table(SessionColumns(3), sessions)
           s0 == Table(SessionColumns(4), {})
           s == Table(SessionColumns(4), sessions)
           h == Table({"id"}, bans)
           a == Table({}, 0..2)
           e == Table({}, {})
           N == NoTable
           d1 == Of(m0, so, N, h, N, a, e, e)
           d2 == Of(m0, N, so, h, N, a, e, e)
           d3 == Of(m0, s0, so, h, N, a, e, e)
           d4 == Of(m0, s, so, h, N, a, e, e)
           d5 == Of(m0, s, N, h, N, a, e, e)
           d6 == Of(m, s, N, h, N, a, e, e)
           script == MigrateRoomcodeRemoval
<1>1. /\ {} \in SUBSET Columns /\ {"id"} \in SUBSET Columns
      /\ SessionColumns(3) \in SUBSET Columns /\ SessionColumns(4) \in SUBSET Columns
      /\ SessionColumns(4) \in SUBSET SessionColumns(3)
      /\ {} \in SUBSET Rows /\ 0..2 \in SUBSET Rows /\ 1..3 \in SUBSET Rows
      /\ 1..4 \in SUBSET Rows
      /\ 1..3 \cup {4} = 1..4 /\ {} \cup sessions = sessions
  <2>1. 3 \in Versions /\ 4 \in Versions
    BY DEF Versions
  <2> QED BY <2>1, NamesTyped, ColumnsOfVersions DEF Columns, Rows
<1>2. /\ m0 \in TableStates /\ m \in TableStates /\ so \in TableStates /\ s0 \in TableStates
      /\ s \in TableStates /\ so # N
      /\ h \in TableStates /\ a \in TableStates /\ e \in TableStates
      /\ N \in TableStates \cup {NoTable}
  BY <1>1, TableTyped
<1>3. Format(3, sessions, bans) = d1 /\ Format(4, sessions, bans) = d6
  BY OfFormats
<1> HIDE DEF m0, m, so, s0, s, h, a, e
<1>4. Takes(Rename("sessions", "sessions_old"), d1, d2)
  <2> DEFINE d == Of(m0, so, so, h, N, a, e, e)
  <2>1. d1["sessions"] = so /\ d1["sessions_old"] = NoTable
    BY OfRead
  <2>2. [d1 EXCEPT !["sessions_old"] = so] = d
    BY OfRead, OfWrite
  <2>3. [d EXCEPT !["sessions"] = NoTable] = d2
    BY OfRead, OfWrite
  <2> HIDE DEF d1, d2, d
  <2> QED BY <1>2, <2>1, <2>2, <2>3, RenameTakes
<1>5. Takes(CreateSessionsTable, d2, d3)
  <2>1. d2["sessions"] = NoTable /\ [d2 EXCEPT !["sessions"] = s0] = d3
    BY OfRead, OfWrite
  <2> HIDE DEF d2, d3
  <2> QED BY <2>1, CreateTakes DEF CreateSessionsTable, s0
<1>6. Takes(Copy("sessions_old", "sessions", SessionColumns(4)), d3, d4)
  <2>1. /\ d3["sessions_old"] = so /\ d3["sessions"] = s0
        /\ "sessions_old" \in DOMAIN d3 /\ "sessions" \in DOMAIN d3
    BY OfRead DEF Tables
  <2>2. [d3 EXCEPT !["sessions"] = s] = d4
    BY OfRead, OfWrite
  <2> HIDE DEF d3, d4
  <2>3. Takes(Copy("sessions_old", "sessions", SessionColumns(4)), d3,
              [d3 EXCEPT !["sessions"] = Table(SessionColumns(4), {} \cup sessions)])
    BY <1>1, <2>1, CopyTakes DEF so, s0
  <2> QED BY <1>1, <2>2, <2>3 DEF s
<1>7. Takes(Drop("sessions_old"), d4, d5)
  <2>1. d4["sessions_old"] = so /\ [d4 EXCEPT !["sessions_old"] = NoTable] = d5
    BY OfRead, OfWrite
  <2> HIDE DEF d4, d5
  <2> QED BY <1>2, <2>1, DropTakes
<1>8. Takes(Fill("migrations", {4}), d5, d6)
  <2>1. d5["migrations"] = m0 /\ "migrations" \in DOMAIN d5
    BY OfRead DEF Tables
  <2>2. [d5 EXCEPT !["migrations"] = m] = d6
    BY OfRead, OfWrite
  <2> HIDE DEF d5, d6
  <2>3. Takes(Fill("migrations", {4}), d5,
              [d5 EXCEPT !["migrations"] = Table({}, 1..3 \cup {4})])
    BY <1>1, <2>1, FillTakes DEF m0
  <2> QED BY <1>1, <2>2, <2>3 DEF m
<1>9. /\ d1 \in Databases /\ d2 \in Databases /\ d3 \in Databases
      /\ d4 \in Databases /\ d5 \in Databases /\ d6 \in Databases
  <2>1. d1 \in Databases /\ d2 \in Databases /\ d3 \in Databases
    BY <1>2, OfTyped
  <2>2. d4 \in Databases /\ d5 \in Databases /\ d6 \in Databases
    BY <1>2, OfTyped
  <2> QED BY <2>1, <2>2
<1> HIDE DEF d1, d2, d3, d4, d5, d6
<1>10. script \in Seq(Statements)
  BY MigrationsTyped DEF Migration
<1> DEFINE states == <<d1, d2, d3, d4, d5, d6>>
<1>11. /\ states \in Seq(Databases) /\ Len(states) = 6
       /\ states[1] = d1 /\ states[2] = d2 /\ states[3] = d3
       /\ states[4] = d4 /\ states[5] = d5 /\ states[6] = d6
  BY <1>9
<1>12. /\ Len(script) = 5
       /\ script[1] = Rename("sessions", "sessions_old") /\ script[2] = CreateSessionsTable
       /\ script[3] = Copy("sessions_old", "sessions", SessionColumns(4))
       /\ script[4] = Drop("sessions_old") /\ script[5] = Fill("migrations", {4})
  BY DEF MigrateRoomcodeRemoval
<1> HIDE DEF states, script
<1>13. \A i \in 1..Len(script) : Takes(script[i], states[i], states[i + 1])
  BY <1>4, <1>5, <1>6, <1>7, <1>8, <1>11, <1>12
<1>14. Len(states) = Len(script) + 1 /\ Len(script) + 1 = 6
  BY <1>11, <1>12
<1>15. Leads(script, states[1], states[Len(script) + 1])
  BY <1>10, <1>11, <1>13, <1>14, LeadsThrough
<1> QED BY <1>3, <1>11, <1>14, <1>15 DEF script

LEMMA MigrationLeads ==
  ASSUME NEW sessions \in SUBSET Rows, NEW bans \in SUBSET Rows, NEW version \in 2..4
  PROVE  Leads(Migration(version), Format(version - 1, sessions, bans),
               Format(version, sessions, bans))
<1>1. CASE version = 2
  <2>1. Leads(<<AddColumn("active_drawing_users"), Fill("migrations", {version})>>,
              Format(version - 1, sessions, bans), Format(version, sessions, bans))
    <3>1. /\ version \in {2, 3} /\ version - 1 = 1
          /\ "active_drawing_users" \in Columns \ SessionColumns(version - 1)
          /\ SessionColumns(version - 1) \cup {"active_drawing_users"} = SessionColumns(version)
      BY <1>1, ColumnsOfVersions
    <3> QED BY <3>1, AddingLeads
  <2> QED BY <1>1, <2>1 DEF Migration, MigrateActiveDrawingUsers
<1>2. CASE version = 3
  <2>1. Leads(<<AddColumn("allow_web"), Fill("migrations", {version})>>,
              Format(version - 1, sessions, bans), Format(version, sessions, bans))
    <3>1. /\ version \in {2, 3} /\ version - 1 = 2
          /\ "allow_web" \in Columns \ SessionColumns(version - 1)
          /\ SessionColumns(version - 1) \cup {"allow_web"} = SessionColumns(version)
      BY <1>2, ColumnsOfVersions
    <3> QED BY <3>1, AddingLeads
  <2> QED BY <1>2, <2>1 DEF Migration, MigrateAllowWeb
<1>3. CASE version = 4
  <2>1. version - 1 = 3
    BY <1>3
  <2>2. Migration(version) = MigrateRoomcodeRemoval
    BY <1>3 DEF Migration
  <2> QED BY <1>3, <2>1, <2>2, RoomcodeLeads
<1> QED BY <1>1, <1>2, <1>3

\* The end of a script in which the questions from this version on are open.
Rest(version) ==
  CASE version = 2 -> <<Lacks(2), Lacks(3), Lacks(4), Commit>>
    [] version = 3 -> <<Lacks(3), Lacks(4), Commit>>
    [] version = 4 -> <<Lacks(4), Commit>>
    [] version = 5 -> <<Commit>>

\* The database that was found, as the migrations up to this version leave it.
Upgraded(version) ==
  IF first = Empty THEN Format(version, {}, {}) ELSE Format(version, Sessions, Bans)

\* Between two questions, what is left to do of a migration leads to a version
\* that is not older than the next question supposes.
Underway ==
  \E s \in Seq(Statements), next \in 2..5, version \in Versions :
    /\ next <= version + 1
    /\ todo = s \o Rest(next)
    /\ Leads(s, db, Upgraded(version))

\* The script is at its start, inspects the database it found, is between
\* questions, or at its end with everything committed.
OnCourse ==
  \/ ~ inTx /\ db = disk /\ todo = <<Begin, Inspect, Commit>>
  \/ ~ inTx /\ todo = <<>> /\ disk = Current(first)
  \/ inTx /\ db = disk /\ todo = <<Inspect, Commit>>
  \/ inTx /\ Underway

\* The main goroutine has done with the migrations.
Serving == {"starting", "waiting", "draining", "closing", "closed"}

NoFailureInv ==
  failed = {} =>
    /\ disk \in {first, Current(first)} /\ exit # "unprepared"
    /\ phase = "migrating" => OnCourse
    /\ phase # "migrating" => ~ inTx
    /\ phase \in Serving /\ mode = "file" => disk = Current(first)

LEMMA UpgradedTyped ==
  ASSUME NEW version \in Versions
  PROVE  Upgraded(version) \in Databases
<1>1. /\ {"id"} \in SUBSET Columns /\ {} \in SUBSET Columns
      /\ SessionColumns(version) \in SUBSET Columns
      /\ Sessions \in SUBSET Rows /\ Bans \in SUBSET Rows /\ {} \in SUBSET Rows
      /\ 0..2 \in SUBSET Rows /\ 1..version \in SUBSET Rows
  BY NamesTyped, ColumnsOfVersions DEF Columns, Rows, Versions
<1>2. ASSUME NEW sessions \in SUBSET Rows, NEW bans \in SUBSET Rows
      PROVE  Format(version, sessions, bans) \in Databases
  <2> DEFINE m == Table({}, 1..version)
             s == Table(SessionColumns(version), sessions)
             h == Table({"id"}, bans)
             a == Table({}, 0..2)
             e == Table({}, {})
             N == NoTable
  <2>1. /\ m \in TableStates /\ s \in TableStates /\ h \in TableStates /\ a \in TableStates
        /\ e \in TableStates /\ N \in TableStates \cup {NoTable}
    BY <1>1, TableTyped
  <2>2. Format(version, sessions, bans) = Of(m, s, N, h, N, a, e, e)
    BY OfFormats
  <2> HIDE DEF m, s, h, a, e, N
  <2>3. Of(m, s, N, h, N, a, e, e) \in Databases
    BY <2>1, OfTyped
  <2> QED BY <2>2, <2>3
<1> QED BY <1>1, <1>2 DEF Upgraded

\* What an inspection finds in each of these databases.
LEMMA Found ==
  /\ ~ Exists("migrations", Empty) /\ ~ Exists("sessions", Empty)
  /\ ~ Exists("migrations", Legacy) /\ Exists("sessions", Legacy) /\ Legacy # Empty
  /\ \A version \in Versions, sessions, bans \in SUBSET Rows :
       /\ Exists("migrations", Format(version, sessions, bans))
       /\ Format(version, sessions, bans)["migrations"].rows = 1..version
       /\ Format(version, sessions, bans) # Empty
<1>1. /\ Empty["migrations"] = NoTable /\ Empty["sessions"] = NoTable
      /\ Legacy["migrations"] = NoTable /\ Legacy["sessions"] = Table({"roomcode"}, Sessions)
  BY DEF Empty, Legacy, Tables
<1>2. Table({"roomcode"}, Sessions) # NoTable
  <2>1. {"roomcode"} \in SUBSET Columns /\ Sessions \in SUBSET Rows
    BY DEF Columns, Rows
  <2> QED BY <2>1, TableTyped
<1>3. ASSUME NEW version \in Versions, NEW sessions \in SUBSET Rows, NEW bans \in SUBSET Rows
      PROVE  /\ Exists("migrations", Format(version, sessions, bans))
             /\ Format(version, sessions, bans)["migrations"].rows = 1..version
             /\ Format(version, sessions, bans) # Empty
  <2>1. Format(version, sessions, bans)["migrations"] = Table({}, 1..version)
    BY DEF Format, Tables
  <2>2. {} \in SUBSET Columns /\ 1..version \in SUBSET Rows
    BY DEF Rows, Versions
  <2>3. Table({}, 1..version) # NoTable /\ Table({}, 1..version).rows = 1..version
    BY <2>2, TableTyped
  <2> QED BY <1>1, <2>1, <2>3 DEF Exists
<1> QED BY <1>1, <1>2, <1>3 DEF Exists

LEMMA DiskIs ==
  ASSUME TypeOK, disk \in {first, Current(first)}
  PROVE  \/ disk = Empty /\ first = Empty
         \/ disk = Legacy /\ first = Legacy
         \/ \E version \in Versions : disk = Upgraded(version)
<1>1. first \in Firsts /\ 4 \in Versions /\ Current(first) = Upgraded(4)
  BY DEF TypeOK, Versions, Current, Upgraded
<1>2. CASE disk = Current(first)
  BY <1>1, <1>2
<1>3. ASSUME disk = first, NEW version \in Versions, first = Format(version, Sessions, Bans)
      PROVE  disk = Upgraded(version)
  <2>1. Sessions \in SUBSET Rows /\ Bans \in SUBSET Rows
    BY DEF Rows
  <2>2. first # Empty
    BY <1>3, <2>1, Found
  <2> QED BY <1>3, <2>2 DEF Upgraded
<1> QED BY <1>1, <1>2, <1>3 DEF Firsts

LEMMA RestTyped == \A next \in 2..5 : Rest(next) \in Seq(Statements)
BY ConstructorsTyped DEF Rest

\* The questions of a script, one after the other.
LEMMA RestOpens ==
  /\ \A next \in 2..4 : /\ Rest(next) # <<>> /\ Head(Rest(next)) = Lacks(next)
                        /\ Tail(Rest(next)) = Rest(next + 1)
  /\ Rest(5) # <<>> /\ Head(Rest(5)) = Commit /\ Tail(Rest(5)) = <<>>
<1>1. Rest(2) # <<>> /\ Head(Rest(2)) = Lacks(2) /\ Tail(Rest(2)) = Rest(3)
  BY DEF Rest
<1>2. Rest(3) # <<>> /\ Head(Rest(3)) = Lacks(3) /\ Tail(Rest(3)) = Rest(4)
  BY DEF Rest
<1>3. Rest(4) # <<>> /\ Head(Rest(4)) = Lacks(4) /\ Tail(Rest(4)) = Rest(5)
  BY DEF Rest
<1>4. Rest(5) # <<>> /\ Head(Rest(5)) = Commit /\ Tail(Rest(5)) = <<>>
  BY DEF Rest
<1>5. ASSUME NEW next \in 2..4
      PROVE  /\ Rest(next) # <<>> /\ Head(Rest(next)) = Lacks(next)
             /\ Tail(Rest(next)) = Rest(next + 1)
  <2>1. CASE next = 2
    BY <1>1, <2>1
  <2>2. CASE next = 3
    BY <1>2, <2>2
  <2>3. CASE next = 4
    BY <1>3, <2>3
  <2> QED BY <2>1, <2>2, <2>3
<1> QED BY <1>4, <1>5

\* A script that is underway begins with a statement or with the next question.
LEMMA UnderwayHead ==
  ASSUME NEW s \in Seq(Statements), NEW next \in 2..5, todo = s \o Rest(next)
  PROVE  /\ todo # <<>>
         /\ s # <<>> => Head(todo) = Head(s) /\ Tail(todo) = Tail(s) \o Rest(next)
         /\ s = <<>> => todo = Rest(next)
<1>1. Rest(next) \in Seq(Statements) /\ Rest(next) # <<>>
  BY RestTyped, RestOpens
<1> DEFINE t == Rest(next)
<1> HIDE DEF t
<1>2. t \in Seq(Statements) /\ t # <<>> /\ todo = s \o t
  BY <1>1 DEF t
<1>3. todo # <<>>
  BY <1>2
<1>4. s = <<>> => todo = t
  BY <1>2
<1>5. s # <<>> => Head(todo) = Head(s)
  BY <1>2
<1>6. s # <<>> => Tail(todo) = Tail(s) \o t
  BY <1>2
<1> QED BY <1>3, <1>4, <1>5, <1>6 DEF t

LEMMA QuestionsAndWork ==
  /\ IsQuestion(Inspect) /\ ~ IsQuestion(Begin) /\ ~ IsQuestion(Commit)
  /\ \A version : IsQuestion(Lacks(version))
  /\ \A statement : Works(statement) =>
       ~ IsQuestion(statement) /\ statement # Begin /\ statement # Commit
BY DEF IsQuestion, Works, Inspect, Begin, Commit, Lacks

LEMMA FourInARow ==
  ASSUME NEW a \in Statements, NEW b \in Statements, NEW c \in Statements, NEW d \in Statements
  PROVE  /\ <<a, b, c>> \o <<d>> = <<a, b, c, d>>
         /\ <<>> \o <<a, b, c, d>> = <<a, b, c, d>>
<1> DEFINE s == <<a, b, c>>
           t == <<d>>
           u == <<a, b, c, d>>
<1>1. /\ s \in Seq(Statements) /\ t \in Seq(Statements) /\ u \in Seq(Statements)
      /\ Len(s) = 3 /\ Len(t) = 1 /\ Len(u) = 4
      /\ s[1] = u[1] /\ s[2] = u[2] /\ s[3] = u[3] /\ t[1] = u[4]
  OBVIOUS
<1> HIDE DEF s, t, u
<1>2. /\ s \o t \in Seq(Statements) /\ Len(s \o t) = 4
      /\ \A i \in 1..4 : (s \o t)[i] = IF i <= 3 THEN s[i] ELSE t[i - 3]
  <2>1. /\ s \o t \in Seq(Statements) /\ Len(s \o t) = Len(s) + Len(t)
        /\ \A i \in 1..(Len(s) + Len(t)) :
             (s \o t)[i] = IF i <= Len(s) THEN s[i] ELSE t[i - Len(s)]
    BY <1>1, ConcatProperties
  <2> QED BY <1>1, <2>1
<1>3. \A i \in 1..4 : (s \o t)[i] = u[i]
  BY <1>1, <1>2
<1>4. s \o t = u
  <2>1. Len(s \o t) = Len(u) /\ \A i \in 1..Len(s \o t) : (s \o t)[i] = u[i]
    BY <1>1, <1>2, <1>3
  <2> QED BY <1>1, <1>2, <2>1, SeqEqual
<1>5. <<>> \o u = u
  BY <1>1, ConcatEmptySeq
<1> QED BY <1>4, <1>5 DEF s, t, u

\* A question is answered with a script that leads on.
LEMMA AskStaysOnCourse ==
  ASSUME TypeOK, OnCourse, disk \in {first, Current(first)}, Ask
  PROVE  OnCourse'
<1>1. /\ todo # <<>> /\ IsQuestion(Head(todo))
      /\ todo' = Answer(Head(todo), db) \o Tail(todo)
      /\ UNCHANGED <<disk, db, inTx, first>>
  BY DEF Ask, Statement, Continue
<1>2. 4 \in Versions /\ {} \in SUBSET Rows /\ Sessions \in SUBSET Rows /\ Bans \in SUBSET Rows
  BY DEF Versions, Rows
<1>3. SUFFICES ASSUME NEW s \in Seq(Statements), NEW next \in 2..5, NEW version \in Versions,
                      next <= version + 1, inTx, todo' = s \o Rest(next),
                      Leads(s, db, Upgraded(version))
               PROVE  OnCourse'
  <2>1. inTx
    <3>1. Head(<<Begin, Inspect, Commit>>) = Begin
      OBVIOUS
    <3>2. todo # <<Begin, Inspect, Commit>>
      BY <1>1, <3>1, QuestionsAndWork
    <3> QED BY <1>1, <3>2 DEF OnCourse
  <2>2. SUFFICES \E s \in Seq(Statements), next \in 2..5, version \in Versions :
                   /\ next <= version + 1 /\ todo' = s \o Rest(next)
                   /\ Leads(s, db, Upgraded(version))
    BY <1>3, <2>1
  <2>3. CASE db = disk /\ todo = <<Inspect, Commit>>
    <3>1. Head(todo) = Inspect /\ Tail(todo) = Rest(5)
      BY <2>3 DEF Rest
    <3>2. CASE disk = Empty /\ first = Empty
      <4>1. Answer(Inspect, db) = InitDb
        BY <2>3, <3>2, Found DEF Answer
      <4>2. Leads(InitDb, db, Upgraded(4))
        BY <2>3, <3>2, EmptyLeads DEF Upgraded
      <4>3. todo' = InitDb \o Rest(5)
        BY <1>1, <3>1, <4>1
      <4>4. InitDb \in Seq(Statements) /\ 5 \in 2..5 /\ 5 <= 4 + 1
        BY InitDbTyped
      <4> QED BY <1>2, <4>2, <4>3, <4>4
    <3>3. CASE disk = Legacy /\ first = Legacy
      <4>1. Answer(Inspect, db) = MigrateFromLegacyFormat
        BY <2>3, <3>3, Found DEF Answer
      <4>2. Leads(MigrateFromLegacyFormat, db, Upgraded(4))
        BY <2>3, <3>3, Found, LegacyLeads DEF Upgraded
      <4>3. todo' = MigrateFromLegacyFormat \o Rest(5)
        BY <1>1, <3>1, <4>1
      <4>4. MigrateFromLegacyFormat \in Seq(Statements) /\ 5 \in 2..5 /\ 5 <= 4 + 1
        BY LegacyScriptTyped
      <4> QED BY <1>2, <4>2, <4>3, <4>4
    <3>4. ASSUME NEW version \in Versions, disk = Upgraded(version)
          PROVE  \E s \in Seq(Statements), next \in 2..5, v \in Versions :
                   /\ next <= v + 1 /\ todo' = s \o Rest(next)
                   /\ Leads(s, db, Upgraded(v))
      <4>1. Exists("migrations", db)
        BY <1>2, <2>3, <3>4, Found DEF Upgraded
      <4>2. Answer(Inspect, db) = <<Lacks(2), Lacks(3), Lacks(4)>>
        BY <4>1 DEF Answer
      <4>3. todo' = <<Lacks(2), Lacks(3), Lacks(4)>> \o Rest(5)
        BY <1>1, <3>1, <4>2
      <4>4. todo' = <<>> \o Rest(2)
        <5>1. /\ Rest(5) = <<Commit>>
              /\ Rest(2) = <<Lacks(2), Lacks(3), Lacks(4), Commit>>
          BY DEF Rest
        <5>2. /\ <<Lacks(2), Lacks(3), Lacks(4)>> \o <<Commit>> =
                   <<Lacks(2), Lacks(3), Lacks(4), Commit>>
              /\ <<>> \o <<Lacks(2), Lacks(3), Lacks(4), Commit>> =
                   <<Lacks(2), Lacks(3), Lacks(4), Commit>>
          <6>1. /\ Lacks(2) \in Statements /\ Lacks(3) \in Statements
                /\ Lacks(4) \in Statements /\ Commit \in Statements
            BY ConstructorsTyped
          <6> QED BY <6>1, FourInARow
        <5> QED BY <4>3, <5>1, <5>2
      <4>5. Leads(<<>>, db, Upgraded(version))
        BY <2>3, <3>4, UpgradedTyped, LeadsNowhere
      <4>6. 2 <= version + 1 /\ 2 \in 2..5 /\ <<>> \in Seq(Statements)
        BY DEF Versions
      <4> QED BY <4>4, <4>5, <4>6
    <3> QED BY <3>2, <3>3, <3>4, DiskIs
  <2>4. CASE Underway
    <3>1. PICK s \in Seq(Statements), next \in 2..5, version \in Versions :
            /\ next <= version + 1
            /\ todo = s \o Rest(next)
            /\ Leads(s, db, Upgraded(version))
      BY <2>4 DEF Underway
    <3>2. s = <<>>
      <4> SUFFICES ASSUME s # <<>> PROVE FALSE
        OBVIOUS
      <4>1. Head(todo) = Head(s)
        BY <3>1, UnderwayHead
      <4>2. Works(Head(s))
        BY <3>1, LeadsOn
      <4> QED BY <1>1, <4>1, <4>2, QuestionsAndWork
    <3>3. todo = Rest(next) /\ db = Upgraded(version)
      BY <3>1, <3>2, UnderwayHead, UpgradedTyped, LeadsNowhere
    <3>4. next # 5
      BY <1>1, <3>3, RestOpens, QuestionsAndWork
    <3>5. next \in 2..4 /\ Head(todo) = Lacks(next) /\ Tail(todo) = Rest(next + 1)
      BY <3>3, <3>4, RestOpens
    <3>6. Lacks(next).version = next /\ Lacks(next) # Inspect
      BY DEF Lacks, Inspect
    <3>7. db["migrations"].rows = 1..version
      BY <1>2, <3>3, Found DEF Upgraded
    <3>8. CASE next <= version
      <4>1. next \in db["migrations"].rows
        BY <3>5, <3>7, <3>8 DEF Versions
      <4>2. Answer(Lacks(next), db) = <<>>
        BY <3>6, <4>1 DEF Answer
      <4>3. todo' = <<>> \o Rest(next + 1)
        BY <1>1, <3>5, <4>2
      <4>4. Leads(<<>>, db, Upgraded(version))
        BY <3>3, UpgradedTyped, LeadsNowhere
      <4>5. next + 1 \in 2..5 /\ next + 1 <= version + 1 /\ <<>> \in Seq(Statements)
        BY <3>5, <3>8 DEF Versions
      <4> QED BY <4>3, <4>4, <4>5
    <3>9. CASE ~ (next <= version)
      <4>1. next = version + 1 /\ version = next - 1 /\ next \in Versions
        BY <3>1, <3>5, <3>9 DEF Versions
      <4>2. next \notin db["migrations"].rows
        BY <3>7, <4>1 DEF Versions
      <4>3. Answer(Lacks(next), db) = Migration(next)
        BY <3>6, <4>2 DEF Answer
      <4>4. todo' = Migration(next) \o Rest(next + 1)
        BY <1>1, <3>5, <4>3
      <4>5. Leads(Migration(next), db, Upgraded(next))
        BY <1>2, <3>3, <3>5, <4>1, MigrationLeads DEF Upgraded
      <4>6. next + 1 \in 2..5 /\ next + 1 <= next + 1 /\ Migration(next) \in Seq(Statements)
        BY <3>5, MigrationsTyped
      <4> QED BY <4>1, <4>4, <4>5, <4>6
    <3> QED BY <3>8, <3>9
  <2> QED BY <1>1, <2>1, <2>3, <2>4 DEF OnCourse
<1>4. Underway'
  <2>1. Upgraded(version)' = Upgraded(version)
    BY <1>1 DEF Upgraded
  <2> QED BY <1>1, <1>3, <2>1 DEF Underway
<1> QED BY <1>1, <1>3, <1>4 DEF OnCourse

\* A statement that is done leaves the rest of the script on its course, and
\* COMMIT the new database.
LEMMA DoneStaysOnCourse ==
  ASSUME TypeOK, OnCourse, disk \in {first, Current(first)}, SqliteExecDone
  PROVE  OnCourse' /\ disk' \in {first, Current(first)}
<1>1. /\ todo # <<>> /\ ~ IsQuestion(Head(todo)) /\ Prepares(Head(todo), db)
      /\ db' = Result(Head(todo), db) /\ todo' = Tail(todo) /\ first' = first
      /\ inTx' = (Head(todo) = Begin \/ (inTx /\ Head(todo) # Commit))
      /\ disk' = IF inTx /\ Head(todo) # Commit THEN disk ELSE db'
  BY DEF SqliteExecDone, AtStatement, Statement, Continue
<1>2. Begin # Commit /\ \A d : Result(Begin, d) = d /\ Result(Commit, d) = d
  BY DEF Begin, Commit, Result
<1>3. CASE todo = <<Begin, Inspect, Commit>> /\ ~ inTx /\ db = disk
  <2>1. Head(todo) = Begin /\ Tail(todo) = <<Inspect, Commit>>
    BY <1>3
  <2>2. db' = disk /\ disk' = disk /\ inTx' = TRUE /\ todo' = <<Inspect, Commit>>
    BY <1>1, <1>2, <1>3, <2>1
  <2> QED BY <2>2 DEF OnCourse
<1>4. CASE todo = <<Inspect, Commit>>
  <2>1. Head(todo) = Inspect
    BY <1>4
  <2> QED BY <1>1, <2>1, QuestionsAndWork
<1>5. CASE inTx /\ Underway
  <2>1. PICK s \in Seq(Statements), next \in 2..5, version \in Versions :
          /\ next <= version + 1
          /\ todo = s \o Rest(next)
          /\ Leads(s, db, Upgraded(version))
    BY <1>5 DEF Underway
  <2>2. CASE s # <<>>
    <3>1. Head(todo) = Head(s) /\ Tail(todo) = Tail(s) \o Rest(next)
      BY <2>1, <2>2, UnderwayHead
    <3>2. Works(Head(s)) /\ Leads(Tail(s), Result(Head(s), db), Upgraded(version))
      BY <2>1, <2>2, LeadsOn
    <3>3. Head(todo) # Begin /\ Head(todo) # Commit
      BY <3>1, <3>2, QuestionsAndWork
    <3>4. disk' = disk /\ inTx' = TRUE /\ Upgraded(version)' = Upgraded(version)
      BY <1>1, <1>5, <3>3 DEF Upgraded
    <3>5. Tail(s) \in Seq(Statements)
      BY <2>2
    <3>6. Underway'
      BY <1>1, <2>1, <3>1, <3>2, <3>4, <3>5 DEF Underway
    <3> QED BY <3>4, <3>6 DEF OnCourse
  <2>3. CASE s = <<>>
    <3>1. todo = Rest(next) /\ db = Upgraded(version)
      BY <2>1, <2>3, UnderwayHead, UpgradedTyped, LeadsNowhere
    <3>2. next = 5
      <4> SUFFICES ASSUME next # 5 PROVE FALSE
        OBVIOUS
      <4>1. next \in 2..4
        OBVIOUS
      <4>2. Head(todo) = Lacks(next)
        BY <3>1, <4>1, RestOpens
      <4> QED BY <1>1, <4>2, QuestionsAndWork
    <3>3. version = 4
      BY <2>1, <3>2 DEF Versions
    <3>4. Head(todo) = Commit /\ Tail(todo) = <<>>
      BY <3>1, <3>2, RestOpens
    <3>5. db = Current(first)
      BY <3>1, <3>3 DEF Upgraded, Current
    <3>6. disk' = db /\ db' = db /\ inTx' = FALSE /\ todo' = <<>>
      BY <1>1, <1>2, <3>4
    <3>7. disk' = Current(first) /\ Current(first)' = Current(first)
      BY <1>1, <3>5, <3>6 DEF Current
    <3> QED BY <3>6, <3>7 DEF OnCourse
  <2> QED BY <2>2, <2>3
<1> QED BY <1>1, <1>3, <1>4, <1>5 DEF OnCourse

\* On its course a script prepares.
LEMMA NoPanicOnCourse == TypeOK /\ OnCourse => ~ SqliteExecPanics
<1> SUFFICES ASSUME TypeOK, OnCourse, SqliteExecPanics PROVE FALSE
  OBVIOUS
<1>1. todo # <<>> /\ ~ IsQuestion(Head(todo)) /\ ~ Prepares(Head(todo), db)
  BY DEF SqliteExecPanics, AtStatement, Statement
<1>2. \A d : Prepares(Begin, d) /\ Prepares(Commit, d)
  BY DEF Prepares, Begin, Commit
<1>3. CASE todo = <<Begin, Inspect, Commit>>
  <2>1. Head(todo) = Begin
    BY <1>3
  <2> QED BY <1>1, <1>2, <2>1
<1>4. CASE todo = <<Inspect, Commit>>
  <2>1. Head(todo) = Inspect
    BY <1>4
  <2> QED BY <1>1, <2>1, QuestionsAndWork
<1>5. CASE Underway
  <2>1. PICK s \in Seq(Statements), next \in 2..5, version \in Versions :
          /\ next <= version + 1
          /\ todo = s \o Rest(next)
          /\ Leads(s, db, Upgraded(version))
    BY <1>5 DEF Underway
  <2>2. CASE s # <<>>
    <3>1. Head(todo) = Head(s) /\ Prepares(Head(s), db)
      BY <2>1, <2>2, UnderwayHead, LeadsOn
    <3> QED BY <1>1, <3>1
  <2>3. CASE s = <<>>
    <3>1. todo = Rest(next)
      BY <2>1, <2>3, UnderwayHead
    <3>2. CASE next = 5
      BY <1>1, <1>2, <3>1, <3>2, RestOpens
    <3>3. CASE next \in 2..4
      <4>1. Head(todo) = Lacks(next)
        BY <3>1, <3>3, RestOpens
      <4> QED BY <1>1, <4>1, QuestionsAndWork
    <3> QED BY <3>2, <3>3
  <2> QED BY <2>2, <2>3
<1> QED BY <1>1, <1>3, <1>4, <1>5 DEF OnCourse

LEMMA ServiceKeepsNoFailureInv == TypeOK /\ NoFailureInv /\ ServiceStep => NoFailureInv'
<1> SUFFICES ASSUME TypeOK, NoFailureInv, ServiceStep, failed' = {} PROVE NoFailureInv'
  BY DEF NoFailureInv
<1>1. /\ UNCHANGED <<database, bounds, first, exit>>
      /\ phase' = phase \/ phase' # "migrating"
      /\ phase = "migrating" /\ phase' # phase => todo = <<>>
      /\ mode' = mode
      /\ phase' \in Serving /\ mode = "file" =>
           phase \in Serving \/ (phase = "migrating" /\ phase' # phase)
  <2>1. CASE RunReadOnly \/ StartListener \/ Notify \/ Listen \/ ListenFails \/ Interrupt
             \/ BeginShutdown \/ Wait \/ Drained \/ CloseDatabase
    BY <2>1 DEF RunReadOnly, StartListener, Notify, Listen, ListenFails,
                Interrupt, BeginShutdown, Wait, Drained, CloseDatabase, Continue, service, Serving
  <2>2. CASE Migrated
    BY <2>2 DEF Migrated, Continue
  <2>3. ASSUME NEW r \in Requests, Accept(r) \/ Finish(r)
        PROVE  UNCHANGED <<database, bounds, first, exit, mode, phase>>
    BY <2>3 DEF Accept, Finish, Continue
  <2> QED BY <2>1, <2>2, <2>3 DEF ServiceStep
<1>2. /\ UNCHANGED <<disk, db, inTx, todo, first, failed, exit>>
  BY <1>1 DEF database, bounds
<1>3. /\ disk \in {first, Current(first)} /\ exit # "unprepared"
      /\ phase = "migrating" => OnCourse
      /\ phase # "migrating" => ~ inTx
      /\ phase \in Serving /\ mode = "file" => disk = Current(first)
  BY <1>2 DEF NoFailureInv
<1>4. OnCourse /\ todo = <<>> => ~ inTx /\ disk = Current(first)
  <2>1. <<Inspect, Commit>> # <<>> /\ <<Begin, Inspect, Commit>> # <<>>
    OBVIOUS
  <2>2. Underway => todo # <<>>
    BY UnderwayHead DEF Underway
  <2> QED BY <2>1, <2>2 DEF OnCourse
<1>5. phase' # "migrating" => ~ inTx
  BY <1>1, <1>3, <1>4
<1>6. phase' = "migrating" => OnCourse
  BY <1>1, <1>3
<1>7. OnCourse' <=> OnCourse
  BY <1>2 DEF OnCourse, Underway, Upgraded, Current
<1>8. phase' \in Serving /\ mode' = "file" => disk = Current(first)
  BY <1>1, <1>3, <1>4
<1> QED BY <1>2, <1>3, <1>5, <1>6, <1>7, <1>8 DEF NoFailureInv

LEMMA NoFailureInvariant == Spec => []NoFailureInv
<1>1. Init => NoFailureInv
  BY DEF Init, NoFailureInv, Serving
<1>2. TypeOK /\ NoFailureInv /\ [Next]_vars => NoFailureInv'
  <2> SUFFICES ASSUME TypeOK, NoFailureInv, [Next]_vars, failed' = {} PROVE NoFailureInv'
    BY DEF NoFailureInv
  <2>1. CASE Start
    BY <2>1 DEF Start, database, NoFailureInv, Serving
  <2>2. CASE OpenDatabase
    <3>1. /\ db' = disk /\ disk' = disk /\ UNCHANGED <<first, failed, inTx, exit>>
          /\ todo' = <<Begin, Inspect, Commit>> /\ phase # "migrating" /\ phase' = "migrating"
      BY <2>2 DEF OpenDatabase, Continue, bounds
    <3>2. /\ disk \in {first, Current(first)} /\ exit # "unprepared" /\ ~ inTx
      BY <3>1 DEF NoFailureInv
    <3>3. OnCourse'
      BY <3>1, <3>2 DEF OnCourse
    <3> QED BY <3>1, <3>2, <3>3 DEF NoFailureInv, Serving
  <2>3. CASE Ask
    <3>1. phase = "migrating" /\ UNCHANGED <<first, failed, phase, disk, exit>>
      BY <2>3 DEF Ask, Continue, bounds
    <3>2. OnCourse /\ disk \in {first, Current(first)} /\ exit # "unprepared"
      BY <3>1 DEF NoFailureInv
    <3>3. OnCourse'
      BY <2>3, <3>2, AskStaysOnCourse
    <3> QED BY <3>1, <3>2, <3>3 DEF NoFailureInv, Serving
  <2>4. CASE SqliteExecDone
    <3>1. phase = "migrating" /\ UNCHANGED <<first, failed, phase, exit>>
      BY <2>4 DEF SqliteExecDone, AtStatement, Continue, bounds
    <3>2. OnCourse /\ disk \in {first, Current(first)} /\ exit # "unprepared"
      BY <3>1 DEF NoFailureInv
    <3>3. OnCourse' /\ disk' \in {first, Current(first)}
      BY <2>4, <3>2, DoneStaysOnCourse
    <3> QED BY <3>1, <3>2, <3>3 DEF NoFailureInv, Serving
  <2>5. CASE SqliteExecAborts \/ SqliteExecRollsBack
    BY <2>5 DEF SqliteExecAborts, SqliteExecRollsBack
  <2>6. CASE ServiceStep
    BY <2>6, ServiceKeepsNoFailureInv
  <2>7. CASE EndStep
    <3>1. /\ disk' = disk /\ inTx' = FALSE /\ phase' = "down"
          /\ first' = first /\ failed' = failed
      BY <2>7 DEF EndStep, DatabaseUnusable, SqliteExecPanics, ServerFails, CloseNothing, Exit,
             CleanupWithoutPool, Crash, Stop, bounds
    <3>2. disk \in {first, Current(first)}
      BY <3>1 DEF NoFailureInv
    <3>3. ~ SqliteExecPanics
      <4>1. SqliteExecPanics => phase = "migrating"
        BY DEF SqliteExecPanics, AtStatement
      <4> QED BY <3>1, <4>1, NoPanicOnCourse DEF NoFailureInv
    <3>4. exit' # "unprepared"
      BY <2>7, <3>3 DEF EndStep, DatabaseUnusable, ServerFails, CloseNothing, Exit,
             CleanupWithoutPool, Crash, Stop
    <3> QED BY <3>1, <3>2, <3>4 DEF NoFailureInv, Serving
  <2>8. CASE UNCHANGED vars
    BY <2>8 DEF vars, database, bounds, NoFailureInv, OnCourse, Underway, Upgraded, Serving,
           Current
  <2> QED BY <2>1, <2>2, <2>3, <2>4, <2>5, <2>6, <2>7, <2>8, NextSteps
<1> QED BY <1>1, <1>2, LifeTypeCorrect, PTL DEF Spec

\* While no statement failed, and wherever the process was killed, the database
\* is as old as it was or has all migrations, with all its rows, and no start
\* stumbles over what an earlier one left (db_sqlite.go:211-232).
THEOREM MigrationsAtomic == Spec => []OldOrNew
<1>1. NoFailureInv => OldOrNew
  BY DEF NoFailureInv, OldOrNew
<1> QED BY <1>1, NoFailureInvariant, PTL

-----------------------------------------------------------------------------
(* What requests meet.                                                     *)

\* While no statement failed, a request is accepted only by a process whose
\* database has all migrations on disk, whatever earlier starts were killed at:
\* the main goroutine opens the database before the listener starts
\* (listserver.go:81, 213).
ServesCurrent ==
  failed = {} /\ mode = "file" /\ listener # "off" => disk = Current(first)

\* The listener is off until the main goroutine has done with the migrations.
ListenerInv == listener # "off" => phase \in Serving

LEMMA ListenerInvariant == Spec => []ListenerInv
<1>1. Init => ListenerInv
  BY DEF Init, ListenerInv
<1>2. ListenerInv /\ [Next]_vars => ListenerInv'
  <2> SUFFICES ASSUME ListenerInv, [Next]_vars PROVE ListenerInv'
    OBVIOUS
  <2> USE DEF ListenerInv, Serving
  <2>1. CASE Start \/ OpenDatabase
    BY <2>1 DEF Start, OpenDatabase, service
  <2>2. CASE Ask \/ SqliteExecDone \/ SqliteExecAborts \/ SqliteExecRollsBack
    BY <2>2 DEF Ask, SqliteExecDone, SqliteExecAborts, SqliteExecRollsBack, service
  <2>3. CASE ServiceStep
    <3>1. CASE RunReadOnly \/ Migrated \/ Notify
      BY <3>1 DEF RunReadOnly, Migrated, Notify, service
    <3>2. CASE StartListener \/ Listen \/ ListenFails \/ Interrupt
      BY <3>2 DEF StartListener, Listen, ListenFails, Interrupt
    <3>3. CASE BeginShutdown \/ Wait \/ Drained \/ CloseDatabase
      BY <3>3 DEF BeginShutdown, Wait, Drained, CloseDatabase, service
    <3>4. ASSUME NEW r \in Requests, Accept(r) \/ Finish(r) PROVE ListenerInv'
      BY <3>4 DEF Accept, Finish
    <3> QED BY <2>3, <3>1, <3>2, <3>3, <3>4 DEF ServiceStep
  <2>4. CASE EndStep
    BY <2>4 DEF EndStep, DatabaseUnusable, SqliteExecPanics, ServerFails, CloseNothing, Exit,
           CleanupWithoutPool, Crash, Stop
  <2>5. CASE UNCHANGED vars
    BY <2>5 DEF vars, service
  <2> QED BY <2>1, <2>2, <2>3, <2>4, <2>5, NextSteps
<1> QED BY <1>1, <1>2, PTL DEF Spec

\* Requests never meet a database in an old format, or none, unless a statement
\* failed (listserver.go:81, 213; db_sqlite.go:211-232).
THEOREM OnlyCurrentServed == Spec => []ServesCurrent
<1>1. NoFailureInv /\ ListenerInv => ServesCurrent
  BY DEF NoFailureInv, ListenerInv, ServesCurrent
<1> QED BY <1>1, NoFailureInvariant, ListenerInvariant, PTL

=============================================================================
