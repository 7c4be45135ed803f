-------------------------- MODULE ServerLifeProofs --------------------------
(***************************************************************************)
(* Proofs about ServerLife: types, shutdowns, and that the migrations keep *)
(* the rows.                                                               *)
(***************************************************************************)
EXTENDS ServerLife, SequenceTheorems, TLAPS

-----------------------------------------------------------------------------
(* Types.                                                                  *)

LEMMA ConstructorsTyped ==
  /\ Begin \in Statements /\ Commit \in Statements /\ Inspect \in Statements
  /\ \A table, new \in Tables : Rename(table, new) \in Statements
  /\ \A table \in Tables, columns \in SUBSET Columns : Create(table, columns) \in Statements
  /\ \A column \in Columns : AddColumn(column) \in Statements
  /\ \A table \in Tables, rows \in SUBSET Rows : Fill(table, rows) \in Statements
  /\ \A from, to \in Tables, columns \in SUBSET Columns :
       Copy(from, to, columns) \in Statements
  /\ \A table \in Tables : Drop(table) \in Statements
  /\ \A version \in 2..4 : Lacks(version) \in Statements
<1>1. Begin \in Statements /\ Commit \in Statements /\ Inspect \in Statements
  BY DEF Statements, Begin, Commit, Inspect
<1>2. \A table, new \in Tables : Rename(table, new) \in Statements
  BY DEF Statements, Rename
<1>3. \A table \in Tables, columns \in SUBSET Columns : Create(table, columns) \in Statements
  BY DEF Statements, Create
<1>4. \A column \in Columns : AddColumn(column) \in Statements
  BY DEF Statements, AddColumn
<1>5. \A table \in Tables, rows \in SUBSET Rows : Fill(table, rows) \in Statements
  BY DEF Statements, Fill
<1>6. \A from, to \in Tables, columns \in SUBSET Columns :
        Copy(from, to, columns) \in Statements
  BY DEF Statements, Copy
<1>7. \A table \in Tables : Drop(table) \in Statements
  BY DEF Statements, Drop
<1>8. \A version \in 2..4 : Lacks(version) \in Statements
  BY DEF Statements, Lacks
<1> QED BY <1>1, <1>2, <1>3, <1>4, <1>5, <1>6, <1>7, <1>8

LEMMA NamesTyped ==
  /\ {"migrations", "sessions", "sessions_old", "hostbans", "hostbans_old",
      "accesslevels", "roles", "users"} \subseteq Tables
  /\ {"id", "roomcode", "active_drawing_users", "allow_web"} \subseteq Columns
  /\ SessionColumns(4) \subseteq Columns
  /\ 0..2 \subseteq Rows /\ 1..4 \subseteq Rows
  /\ {2} \subseteq Rows /\ {3} \subseteq Rows /\ {4} \subseteq Rows
BY DEF Tables, Columns, SessionColumns, Rows

LEMMA InitDbTyped == InitDb \in Seq(Statements)
<1>1. /\ Create("migrations", {}) \in Statements
      /\ CreateSessionsTable \in Statements
      /\ Create("hostbans", {"id"}) \in Statements
      /\ Create("accesslevels", {}) \in Statements
      /\ Fill("accesslevels", 0..2) \in Statements
      /\ Create("roles", {}) \in Statements /\ Create("users", {}) \in Statements
      /\ Fill("migrations", 1..4) \in Statements
  BY ConstructorsTyped, NamesTyped DEF CreateSessionsTable
<1> QED BY <1>1 DEF InitDb

LEMMA LegacyScriptTyped == MigrateFromLegacyFormat \in Seq(Statements)
<1>1. /\ Rename("sessions", "sessions_old") \in Statements
      /\ Rename("hostbans", "hostbans_old") \in Statements
      /\ Copy("sessions_old", "sessions", {}) \in Statements
      /\ Copy("hostbans_old", "hostbans", {}) \in Statements
      /\ Drop("sessions_old") \in Statements /\ Drop("hostbans_old") \in Statements
  BY ConstructorsTyped, NamesTyped
<1>2. <<Rename("sessions", "sessions_old"), Rename("hostbans", "hostbans_old")>>
        \in Seq(Statements)
  BY <1>1
<1>3. <<Copy("sessions_old", "sessions", {}), Copy("hostbans_old", "hostbans", {}),
        Drop("sessions_old"), Drop("hostbans_old")>> \in Seq(Statements)
  BY <1>1
<1> QED BY <1>2, <1>3, InitDbTyped DEF MigrateFromLegacyFormat

LEMMA MigrationsTyped == \A version \in 2..4 : Migration(version) \in Seq(Statements)
<1>1. MigrateActiveDrawingUsers \in Seq(Statements)
  BY ConstructorsTyped, NamesTyped DEF MigrateActiveDrawingUsers
<1>2. MigrateAllowWeb \in Seq(Statements)
  BY ConstructorsTyped, NamesTyped DEF MigrateAllowWeb
<1>3. MigrateRoomcodeRemoval \in Seq(Statements)
  <2>1. /\ Rename("sessions", "sessions_old") \in Statements
        /\ CreateSessionsTable \in Statements
        /\ Copy("sessions_old", "sessions", SessionColumns(4)) \in Statements
        /\ Drop("sessions_old") \in Statements /\ Fill("migrations", {4}) \in Statements
    BY ConstructorsTyped, NamesTyped DEF CreateSessionsTable
  <2> QED BY <2>1 DEF MigrateRoomcodeRemoval
<1> QED BY <1>1, <1>2, <1>3 DEF Migration


LEMMA AnswerTyped ==
  ASSUME NEW question \in Statements, IsQuestion(question), NEW d
  PROVE  Answer(question, d) \in Seq(Statements)
<1>1. CASE question.op = "lacks"
  <2>1. question.version \in 2..4 /\ question # Inspect
    BY <1>1 DEF Statements, Inspect
  <2> QED BY <2>1, MigrationsTyped DEF Answer
<1>2. CASE question.op = "inspect"
  <2>1. question = Inspect
    BY <1>2 DEF Statements, Inspect
  <2>2. <<Lacks(2), Lacks(3), Lacks(4)>> \in Seq(Statements)
    BY ConstructorsTyped
  <2> QED BY <2>1, <2>2, InitDbTyped, LegacyScriptTyped DEF Answer
<1> QED BY <1>1, <1>2 DEF IsQuestion

\* A table that is written stays a table, and the others stay what they were.
LEMMA WriteTyped ==
  ASSUME NEW d \in Databases, NEW table \in Tables, NEW t \in TableStates \cup {NoTable}
  PROVE  [d EXCEPT ![table] = t] \in Databases
BY DEF Databases

LEMMA ResultTyped ==
  ASSUME NEW statement \in Statements, NEW d \in Databases, Prepares(statement, d)
  PROVE  Result(statement, d) \in Databases
<1>1. \A table \in Tables : Exists(table, d) => d[table] \in TableStates
  BY DEF Exists, Databases
<1>2. CASE statement.op = "rename"
  <2>1. statement.table \in Tables /\ statement.new \in Tables
    BY <1>2 DEF Statements
  <2>2. d[statement.table] \in TableStates \cup {NoTable}
    BY <2>1 DEF Databases
  <2>3. Result(statement, d) =
          [[d EXCEPT ![statement.new] = d[statement.table]]
             EXCEPT ![statement.table] = NoTable]
    BY <1>2 DEF Result
  <2>4. [d EXCEPT ![statement.new] = d[statement.table]] \in Databases
    BY <2>1, <2>2, WriteTyped
  <2>5. [[d EXCEPT ![statement.new] = d[statement.table]]
           EXCEPT ![statement.table] = NoTable] \in Databases
    BY <2>1, <2>4, WriteTyped
  <2> QED BY <2>3, <2>5
<1>3. CASE statement.op = "create"
  <2>1. statement.table \in Tables /\ statement.columns \in SUBSET Columns
    BY <1>3 DEF Statements
  <2>2. Table(statement.columns, {}) \in TableStates
    BY <2>1 DEF Table, TableStates
  <2> QED BY <1>3, <2>1, <2>2, WriteTyped DEF Result
<1>4. CASE statement.op = "add"
  <2>1. statement.column \in Columns /\ "sessions" \in Tables
    BY <1>4, NamesTyped DEF Statements
  <2>2. d["sessions"] \in TableStates
    BY <1>1, <1>4, <2>1 DEF Prepares
  <2>3. [d["sessions"] EXCEPT !.columns = @ \cup {statement.column}] \in TableStates
    BY <2>1, <2>2 DEF TableStates
  <2>4. Result(statement, d) =
          [d EXCEPT !["sessions"] =
             [d["sessions"] EXCEPT !.columns = @ \cup {statement.column}]]
    BY <1>4, <2>1 DEF Result, Databases
  <2>5. [d EXCEPT !["sessions"] =
             [d["sessions"] EXCEPT !.columns = @ \cup {statement.column}]] \in Databases
    BY <2>1, <2>3, WriteTyped
  <2> QED BY <2>4, <2>5
<1>5. CASE statement.op = "fill"
  <2>1. statement.table \in Tables /\ statement.rows \in SUBSET Rows
    BY <1>5 DEF Statements
  <2>2. d[statement.table] \in TableStates
    BY <1>1, <1>5, <2>1 DEF Prepares
  <2>3. [d[statement.table] EXCEPT !.rows = @ \cup statement.rows] \in TableStates
    BY <2>1, <2>2 DEF TableStates
  <2>4. Result(statement, d) =
          [d EXCEPT ![statement.table] =
             [d[statement.table] EXCEPT !.rows = @ \cup statement.rows]]
    BY <1>5, <2>1 DEF Result, Databases
  <2>5. [d EXCEPT ![statement.table] =
             [d[statement.table] EXCEPT !.rows = @ \cup statement.rows]] \in Databases
    BY <2>1, <2>3, WriteTyped
  <2> QED BY <2>4, <2>5
<1>6. CASE statement.op = "copy"
  <2>1. statement.from \in Tables /\ statement.to \in Tables
    BY <1>6 DEF Statements
  <2>2. d[statement.from] \in TableStates /\ d[statement.to] \in TableStates
    BY <1>1, <1>6, <2>1 DEF Prepares
  <2>3. [d[statement.to] EXCEPT !.rows = @ \cup d[statement.from].rows] \in TableStates
    BY <2>2 DEF TableStates
  <2>4. Result(statement, d) =
          [d EXCEPT ![statement.to] =
             [d[statement.to] EXCEPT !.rows = @ \cup d[statement.from].rows]]
    BY <1>6, <2>1 DEF Result, Databases
  <2>5. [d EXCEPT ![statement.to] =
             [d[statement.to] EXCEPT !.rows = @ \cup d[statement.from].rows]] \in Databases
    BY <2>1, <2>3, WriteTyped
  <2> QED BY <2>4, <2>5
<1>7. CASE statement.op = "drop"
  <2>1. statement.table \in Tables
    BY <1>7 DEF Statements
  <2> QED BY <1>7, <2>1, WriteTyped DEF Result
<1>8. CASE statement.op \in {"begin", "commit"}
  BY <1>8 DEF Result
<1> QED BY <1>2, <1>3, <1>4, <1>5, <1>6, <1>7, <1>8 DEF Prepares

LEMMA FormatsTyped ==
  /\ Firsts \subseteq Databases
<1> DEFINE ok(d) == d \in [Tables -> TableStates \cup {NoTable}]
<1>1. Empty \in Databases
  BY DEF Empty, Databases
<1>2. Table({"roomcode"}, Sessions) \in TableStates /\ Table({}, Bans) \in TableStates
  BY DEF Table, TableStates, Columns, Rows
<1>3. Legacy \in Databases
  BY <1>2 DEF Legacy, Databases
<1>4. ASSUME NEW version \in Versions PROVE Format(version, Sessions, Bans) \in Databases
  <2>1. SessionColumns(version) \subseteq Columns /\ 1..version \subseteq Rows
    BY DEF SessionColumns, Columns, Rows, Versions
  <2>2. /\ Table({}, 1..version) \in TableStates
        /\ Table(SessionColumns(version), Sessions) \in TableStates
        /\ Table({"id"}, Bans) \in TableStates /\ Table({}, 0..2) \in TableStates
        /\ Table({}, {}) \in TableStates
    BY <2>1, NamesTyped DEF Table, TableStates, Rows
  <2> QED BY <2>2 DEF Format, Databases
<1> QED BY <1>1, <1>3, <1>4 DEF Firsts

-----------------------------------------------------------------------------
(* The type invariant.                                                     *)

LEMMA StopTyped ==
  ASSUME TypeOK, NEW how \in {"clean", "error", "panic", "unprepared", "killed"},
         Stop(how), lost' \subseteq Requests
  PROVE  TypeOK'
<1>1. <<>> \in Seq(Statements)
  OBVIOUS
<1> QED BY <1>1 DEF TypeOK, Stop, Phases, bounds

\* All steps that leave the database alone, but for those that end the process.
ServiceStep ==
  \/ RunReadOnly \/ Migrated \/ StartListener \/ Notify \/ Listen \/ ListenFails \/ Interrupt
  \/ (\E r \in Requests : Accept(r) \/ Finish(r))
  \/ BeginShutdown \/ Wait \/ Drained \/ CloseDatabase

EndStep ==
  \/ DatabaseUnusable \/ SqliteExecPanics \/ ServerFails \/ CloseNothing \/ Exit
  \/ CleanupWithoutPool \/ Crash

LEMMA NextSteps ==
  Next <=> \/ Start \/ OpenDatabase \/ Ask
           \/ SqliteExecDone \/ SqliteExecAborts \/ SqliteExecRollsBack
           \/ ServiceStep \/ EndStep
BY DEF Next, ShutDown, ServiceStep, EndStep

LEMMA EndTyped == TypeOK /\ EndStep => TypeOK'
<1> SUFFICES ASSUME TypeOK, EndStep PROVE TypeOK'
  OBVIOUS
<1>1. Running \subseteq Requests
  BY DEF Running
<1>2. lost' \subseteq Requests
  BY <1>1 DEF EndStep, DatabaseUnusable, SqliteExecPanics, ServerFails, CloseNothing, Exit,
              CleanupWithoutPool, Crash, TypeOK
<1>3. \E how \in {"clean", "error", "panic", "unprepared", "killed"} : Stop(how)
  BY DEF EndStep, DatabaseUnusable, SqliteExecPanics, ServerFails, CloseNothing, Exit,
         CleanupWithoutPool, Crash
<1> QED BY <1>2, <1>3, StopTyped

LEMMA ServiceTyped == TypeOK /\ ServiceStep => TypeOK'
<1> SUFFICES ASSUME TypeOK, ServiceStep PROVE TypeOK'
  OBVIOUS
<1> USE DEF TypeOK, Continue, database, service, bounds, Phases
<1>1. CASE RunReadOnly \/ Migrated \/ Notify \/ Drained \/ CloseDatabase
  BY <1>1 DEF RunReadOnly, Migrated, Notify, Drained, CloseDatabase
<1>2. CASE StartListener \/ Listen \/ ListenFails \/ Interrupt
  BY <1>2 DEF StartListener, Listen, ListenFails, Interrupt
<1>3. CASE BeginShutdown
  BY <1>3 DEF BeginShutdown
<1>4. CASE Wait
  <2>1. waited' \in 0..SessionTimeout
    BY <1>4, SettingsAssumption DEF Wait
  <2> QED BY <1>4, <2>1 DEF Wait
<1>5. ASSUME NEW r \in Requests, Accept(r) PROVE TypeOK'
  BY <1>5 DEF Accept
<1>6. ASSUME NEW r \in Requests, Finish(r) PROVE TypeOK'
  BY <1>6 DEF Finish
<1> QED BY <1>1, <1>2, <1>3, <1>4, <1>5, <1>6 DEF ServiceStep

\* Every variable keeps its type (listserver.go:25-237, db_sqlite.go:185-243).
THEOREM LifeTypeCorrect == Spec => []TypeOK
<1>1. Init => TypeOK
  <2> SUFFICES ASSUME Init PROVE TypeOK
    OBVIOUS
  <2>1. first \in Databases /\ disk = first /\ db = first
    BY FormatsTyped DEF Init
  <2>2. mode \in {"file", "none"} /\ waited \in 0..SessionTimeout
        /\ failures \in 0..MaxFailures /\ starts \in 0..MaxStarts
    BY SettingsAssumption, BoundAssumption DEF Init
  <2>3. todo \in Seq(Statements)
    BY DEF Init
  <2> QED BY <2>1, <2>2, <2>3 DEF Init, TypeOK, Phases
<1>2. TypeOK /\ [Next]_vars => TypeOK'
  <2> SUFFICES ASSUME TypeOK, [Next]_vars PROVE TypeOK'
    OBVIOUS
  <2>1. CASE Start
    <3>1. mode' \in {"file", "none"} /\ starts' \in 0..MaxStarts /\ waited' \in 0..SessionTimeout
      BY <2>1, SettingsAssumption, BoundAssumption DEF Start, TypeOK
    <3> QED BY <2>1, <3>1 DEF Start, TypeOK, database, Phases
  <2>2. CASE OpenDatabase
    <3>1. todo' \in Seq(Statements)
      BY <2>2, ConstructorsTyped DEF OpenDatabase
    <3> QED BY <2>2, <3>1 DEF OpenDatabase, TypeOK, Continue, service, bounds, Phases
  <2>3. ASSUME todo # <<>> PROVE Statement \in Statements /\ Tail(todo) \in Seq(Statements)
    BY <2>3, HeadTailProperties DEF Statement, TypeOK
  <2>4. CASE Ask
    <3>1. Answer(Statement, db) \in Seq(Statements) /\ Tail(todo) \in Seq(Statements)
      BY <2>3, <2>4, AnswerTyped DEF Ask
    <3>2. todo' \in Seq(Statements)
      BY <2>4, <3>1, ConcatProperties DEF Ask
    <3> QED BY <2>4, <3>2 DEF Ask, TypeOK, Continue, service, bounds
  <2>5. CASE SqliteExecDone
    <3>1. Statement \in Statements /\ todo' \in Seq(Statements)
      BY <2>3, <2>5 DEF SqliteExecDone, AtStatement
    <3>2. db' \in Databases
      BY <2>5, <3>1, ResultTyped DEF SqliteExecDone, TypeOK
    <3>3. disk' \in Databases /\ inTx' \in BOOLEAN
      BY <2>5, <3>2 DEF SqliteExecDone, TypeOK
    <3> QED BY <2>5, <3>1, <3>2, <3>3 DEF SqliteExecDone, TypeOK, Continue, service, bounds
  <2>6. CASE SqliteExecAborts
    <3>1. todo' \in Seq(Statements)
      BY <2>3, <2>6 DEF SqliteExecAborts, AtStatement
    <3>2. failures' \in 0..MaxFailures
      BY <2>6, BoundAssumption DEF SqliteExecAborts, TypeOK
    <3>3. failed' \subseteq Kinds
      BY <2>6 DEF SqliteExecAborts, TypeOK, Kinds
    <3> QED BY <2>6, <3>1, <3>2, <3>3 DEF SqliteExecAborts, TypeOK, Continue, service
  <2>7. CASE SqliteExecRollsBack
    <3>1. todo' \in Seq(Statements)
      BY <2>3, <2>7 DEF SqliteExecRollsBack, AtStatement
    <3>2. failures' \in 0..MaxFailures
      BY <2>7, BoundAssumption DEF SqliteExecRollsBack, TypeOK
    <3>3. failed' \subseteq Kinds
      BY <2>7 DEF SqliteExecRollsBack, TypeOK, Kinds
    <3> QED BY <2>7, <3>1, <3>2, <3>3 DEF SqliteExecRollsBack, TypeOK, Continue, service
  <2>8. CASE UNCHANGED vars
    BY <2>8 DEF vars, TypeOK, database, service, bounds
  <2> QED BY <2>1, <2>2, <2>4, <2>5, <2>6, <2>7, <2>8, EndTyped, ServiceTyped, NextSteps
<1> QED BY <1>1, <1>2, PTL DEF Spec

-----------------------------------------------------------------------------
(* Shutdowns.                                                              *)

\* After BeginShutdown nobody is accepted, and while the main goroutine has not
\* closed the pool or ended, no request was left alone.
ShutdownInv ==
  /\ phase \in {"draining", "closing", "closed"} => listener = "ended"
  /\ phase \in {"closing", "closed"} => Running = {} \/ waited = SessionTimeout
  /\ phase \notin {"down", "closed"} => lost = {}
  /\ CutOnlyLate

LEMMA ServiceKeepsShutdownInv == ShutdownInv /\ ServiceStep => ShutdownInv'
<1> SUFFICES ASSUME ShutdownInv, ServiceStep PROVE ShutdownInv'
  OBVIOUS
<1> USE DEF ShutdownInv, CutOnlyLate, Running, Continue, database, service, bounds
<1>1. CASE RunReadOnly \/ Migrated \/ Notify
  BY <1>1 DEF RunReadOnly, Migrated, Notify
<1>2. CASE StartListener \/ Listen \/ ListenFails \/ Interrupt
  BY <1>2 DEF StartListener, Listen, ListenFails, Interrupt
<1>3. CASE BeginShutdown \/ Wait \/ Drained \/ CloseDatabase
  BY <1>3 DEF BeginShutdown, Wait, Drained, CloseDatabase
<1>4. ASSUME NEW r \in Requests, Accept(r) PROVE ShutdownInv'
  BY <1>4 DEF Accept
<1>5. ASSUME NEW r \in Requests, Finish(r) PROVE ShutdownInv'
  <2>1. r \in Running /\ Running' \subseteq Running
    BY <1>5 DEF Finish
  <2>2. phase' = phase /\ waited' = waited /\ listener' = listener
    BY <1>5 DEF Finish
  <2>3. CASE phase = "closed"
    BY <2>1, <2>2, <2>3 DEF ShutdownInv
  <2>4. CASE phase # "closed"
    BY <1>5, <2>1, <2>2, <2>4 DEF Finish
  <2> QED BY <2>3, <2>4
<1> QED BY <1>1, <1>2, <1>3, <1>4, <1>5 DEF ServiceStep

LEMMA EndKeepsShutdownInv == ShutdownInv /\ EndStep => ShutdownInv'
<1> SUFFICES ASSUME ShutdownInv, EndStep PROVE ShutdownInv'
  OBVIOUS
<1>1. phase' = "down" /\ waited' = waited
  BY DEF EndStep, DatabaseUnusable, SqliteExecPanics, ServerFails, CloseNothing, Exit,
         CleanupWithoutPool, Crash, Stop
<1>2. lost' = lost \/ (phase \in {"closing", "closed"} /\ lost' = lost \cup Running)
  BY DEF EndStep, DatabaseUnusable, SqliteExecPanics, ServerFails, CloseNothing, Exit,
         CleanupWithoutPool, Crash
<1>3. lost' # {} => waited = SessionTimeout
  BY <1>2 DEF ShutdownInv, CutOnlyLate
<1> QED BY <1>1, <1>3 DEF ShutdownInv, CutOnlyLate

\* A shutdown cuts off requests only once it waited for SessionTimeout seconds:
\* until then the pool stays open (listserver.go:225-234).
THEOREM CutsAreLate == Spec => []CutOnlyLate
<1>1. Init => ShutdownInv
  BY DEF Init, ShutdownInv, CutOnlyLate
<1>2. ShutdownInv /\ [Next]_vars => ShutdownInv'
  <2> SUFFICES ASSUME ShutdownInv, [Next]_vars PROVE ShutdownInv'
    OBVIOUS
  <2>1. CASE Start
    BY <2>1 DEF Start, ShutdownInv, CutOnlyLate
  <2>2. CASE OpenDatabase
    BY <2>2 DEF OpenDatabase, Continue, service, ShutdownInv, CutOnlyLate
  <2>3. CASE Ask \/ SqliteExecDone \/ SqliteExecAborts \/ SqliteExecRollsBack
    <3>1. phase' = phase /\ UNCHANGED service
      BY <2>3 DEF Ask, SqliteExecDone, SqliteExecAborts, SqliteExecRollsBack
    <3> QED BY <3>1 DEF service, ShutdownInv, CutOnlyLate, Running
  <2>4. CASE UNCHANGED vars
    BY <2>4 DEF vars, service, ShutdownInv, CutOnlyLate, Running
  <2> QED BY <2>1, <2>2, <2>3, <2>4, EndKeepsShutdownInv, ServiceKeepsShutdownInv, NextSteps
<1>3. ShutdownInv => CutOnlyLate
  BY DEF ShutdownInv
<1> QED BY <1>1, <1>2, <1>3, PTL DEF Spec

-----------------------------------------------------------------------------
(* The migrations keep the rows.                                           *)

RenameSessions == Rename("sessions", "sessions_old")
DropOld        == Drop("sessions_old")

\* What the scripts do, as far as sessions and sessions_old are concerned.
Occurs(statement) ==
  /\ statement.op = "rename" =>
       \/ statement = RenameSessions
       \/ statement.table = "hostbans" /\ statement.new = "hostbans_old"
  /\ statement.op = "create" => statement.table # "sessions_old"
  /\ statement.op = "copy" =>
       \/ statement.from = "sessions_old" /\ statement.to = "sessions"
       \/ statement.from = "hostbans_old" /\ statement.to = "hostbans"
  /\ statement.op = "fill" => statement.table \notin {"sessions", "sessions_old"}
  /\ statement.op = "drop" => statement.table \in {"sessions_old", "hostbans_old"}

\* Scripts are ordered by stages: questions and new columns, the renaming of
\* sessions (1), new tables, copying sessions (3), other copies, dropping
\* sessions_old (5), the rest.
Stage(statement) ==
  CASE statement.op \in {"begin", "inspect", "lacks", "add"} -> 0
    [] statement.op = "rename" -> IF statement = RenameSessions THEN 1 ELSE 2
    [] statement.op = "create" -> 2
    [] statement.op = "copy" -> IF statement.to = "sessions" THEN 3 ELSE 4
    [] statement.op = "drop" -> IF statement = DropOld THEN 5 ELSE 6
    [] statement.op = "commit" -> 6
    [] statement.op = "fill" ->
         IF statement.rows \in {{2}, {3}} THEN 0
         ELSE IF statement.rows = {4} THEN 6 ELSE 2

Precedes(a, b) ==
  /\ Stage(a) <= Stage(b)
  /\ Stage(a) = 0 => Stage(b) \in {0, 6}
  /\ Stage(a) = 1 => Stage(b) # 1
  /\ a \in {Inspect, Lacks(4)} => Stage(b) = 6

InOrder(s) == \A i, j \in DOMAIN s : i < j => Precedes(s[i], s[j])

Has(s, stage) == \E i \in DOMAIN s : Stage(s[i]) = stage

\* Everything up to this stage is done.
Past(s, stage) == \A i \in DOMAIN s : Stage(s[i]) > stage

Scripted(s) ==
  /\ \A i \in DOMAIN s : Occurs(s[i])
  /\ InOrder(s)
  /\ Has(s, 5) /\ ~ Past(s, 2) => Has(s, 3)

AllCopied(d) == Exists("sessions", d) /\ Sessions \subseteq d["sessions"].rows

RowsKept == first # Empty /\ "copy" \notin failed

\* sessions_old is dropped when sessions has its rows; and if the transaction
\* was rolled back there is none to drop.
RowsInv ==
  /\ Scripted(todo)
  /\ ~ inTx => db = disk
  /\ RowsKept => HasRows(disk) /\ HasRows(db)
  /\ RowsKept /\ Has(todo, 5) /\ Past(todo, 3) =>
       AllCopied(db) \/ ~ Exists("sessions_old", db)
  /\ inTx /\ Has(todo, 5) /\ Past(todo, 1) => ~ Exists("sessions_old", disk)
  /\ inTx /\ ~ Past(todo, 1) => db["sessions_old"] = disk["sessions_old"]

\* The stages and effects of what the scripts are made of.
LEMMA StagesOfStatements ==
  /\ Stage(Begin) = 0 /\ Stage(Inspect) = 0 /\ Stage(Commit) = 6
  /\ \A version \in 2..4 : Stage(Lacks(version)) = 0
  /\ \A column \in Columns : Stage(AddColumn(column)) = 0
  /\ Stage(RenameSessions) = 1 /\ Stage(Rename("hostbans", "hostbans_old")) = 2
  /\ \A table, columns : Stage(Create(table, columns)) = 2
  /\ \A columns : Stage(Copy("sessions_old", "sessions", columns)) = 3
                  /\ Stage(Copy("hostbans_old", "hostbans", columns)) = 4
  /\ Stage(DropOld) = 5 /\ Stage(Drop("hostbans_old")) = 6
  /\ \A table : Stage(Fill(table, {2})) = 0 /\ Stage(Fill(table, {3})) = 0
                /\ Stage(Fill(table, {4})) = 6
                /\ Stage(Fill(table, 0..2)) = 2 /\ Stage(Fill(table, 1..4)) = 2
<1>1. /\ Stage(Begin) = 0 /\ Stage(Inspect) = 0 /\ Stage(Commit) = 6
      /\ \A version \in 2..4 : Stage(Lacks(version)) = 0
      /\ \A column \in Columns : Stage(AddColumn(column)) = 0
  BY DEF Stage, Begin, Inspect, Commit, Lacks, AddColumn
<1>2. Stage(RenameSessions) = 1 /\ Stage(Rename("hostbans", "hostbans_old")) = 2
  BY DEF Stage, Rename, RenameSessions
<1>3. \A table, columns : Stage(Create(table, columns)) = 2
  BY DEF Stage, Create
<1>4. \A columns : Stage(Copy("sessions_old", "sessions", columns)) = 3
                   /\ Stage(Copy("hostbans_old", "hostbans", columns)) = 4
  BY DEF Stage, Copy
<1>5. Stage(DropOld) = 5 /\ Stage(Drop("hostbans_old")) = 6
  BY DEF Stage, Drop, DropOld
<1>6. {4} \notin {{2}, {3}} /\ 0..2 \notin {{2}, {3}, {4}} /\ 1..4 \notin {{2}, {3}, {4}}
  OBVIOUS
<1>7. \A table : Stage(Fill(table, {2})) = 0 /\ Stage(Fill(table, {3})) = 0
                 /\ Stage(Fill(table, {4})) = 6
                 /\ Stage(Fill(table, 0..2)) = 2 /\ Stage(Fill(table, 1..4)) = 2
  BY <1>6 DEF Stage, Fill
<1> QED BY <1>1, <1>2, <1>3, <1>4, <1>5, <1>7

LEMMA StatementsOccur ==
  /\ Occurs(Begin) /\ Occurs(Inspect) /\ Occurs(Commit)
  /\ \A version \in 2..4 : Occurs(Lacks(version))
  /\ \A column \in Columns : Occurs(AddColumn(column))
  /\ Occurs(RenameSessions) /\ Occurs(Rename("hostbans", "hostbans_old"))
  /\ \A table \in Tables \ {"sessions_old"} : \A columns : Occurs(Create(table, columns))
  /\ \A columns : Occurs(Copy("sessions_old", "sessions", columns))
                  /\ Occurs(Copy("hostbans_old", "hostbans", columns))
  /\ Occurs(DropOld) /\ Occurs(Drop("hostbans_old"))
  /\ \A rows : Occurs(Fill("migrations", rows)) /\ Occurs(Fill("accesslevels", rows))
<1>1. /\ Occurs(Begin) /\ Occurs(Inspect) /\ Occurs(Commit)
      /\ \A version \in 2..4 : Occurs(Lacks(version))
      /\ \A column \in Columns : Occurs(AddColumn(column))
  BY DEF Occurs, Begin, Inspect, Commit, Lacks, AddColumn
<1>2. Occurs(RenameSessions) /\ Occurs(Rename("hostbans", "hostbans_old"))
  BY DEF Occurs, Rename, RenameSessions
<1>3. \A table \in Tables \ {"sessions_old"} : \A columns : Occurs(Create(table, columns))
  BY DEF Occurs, Create
<1>4. \A columns : Occurs(Copy("sessions_old", "sessions", columns))
                   /\ Occurs(Copy("hostbans_old", "hostbans", columns))
  BY DEF Occurs, Copy
<1>5. Occurs(DropOld) /\ Occurs(Drop("hostbans_old"))
  BY DEF Occurs, Drop, DropOld
<1>6. \A rows : Occurs(Fill("migrations", rows)) /\ Occurs(Fill("accesslevels", rows))
  BY DEF Occurs, Fill
<1> QED BY <1>1, <1>2, <1>3, <1>4, <1>5, <1>6

LEMMA StagesTyped == \A statement \in Statements : Occurs(statement) => Stage(statement) \in 0..6
<1> SUFFICES ASSUME NEW statement \in Statements, Occurs(statement)
             PROVE  Stage(statement) \in 0..6
  OBVIOUS
<1>1. statement.op \in {"begin", "commit", "inspect", "rename", "create", "add", "fill",
                        "copy", "drop", "lacks"}
  BY DEF Statements
<1> QED BY <1>1 DEF Stage

LEMMA TailScripted ==
  ASSUME NEW s \in Seq(Statements), s # <<>>, Scripted(s)
  PROVE  Scripted(Tail(s))
<1>1. /\ DOMAIN s = 1..Len(s) /\ Len(s) \in Nat \ {0}
      /\ DOMAIN Tail(s) = 1..(Len(s) - 1)
      /\ \A i \in DOMAIN Tail(s) : i + 1 \in DOMAIN s /\ Tail(s)[i] = s[i + 1]
  OBVIOUS
<1>2. \A i \in DOMAIN Tail(s) : Occurs(Tail(s)[i])
  BY <1>1 DEF Scripted
<1>3. InOrder(Tail(s))
  BY <1>1 DEF Scripted, InOrder
<1>4. ASSUME Has(Tail(s), 5), ~ Past(Tail(s), 2) PROVE Has(Tail(s), 3)
  <2>1. Has(s, 5) /\ ~ Past(s, 2)
    BY <1>1, <1>4 DEF Has, Past
  <2>2. PICK k \in DOMAIN s : Stage(s[k]) = 3
    BY <2>1 DEF Scripted, Has
  <2>3. PICK j \in DOMAIN Tail(s) : ~ (Stage(Tail(s)[j]) > 2)
    BY <1>4 DEF Past
  <2>4. CASE k = 1
    <3>1. Precedes(s[1], s[j + 1])
      BY <1>1, <2>2, <2>4 DEF Scripted, InOrder
    <3>2. s[j + 1] \in Statements /\ Occurs(s[j + 1])
      BY <1>1 DEF Scripted
    <3>3. Stage(s[j + 1]) \in 0..6 /\ ~ (Stage(s[j + 1]) > 2)
      BY <1>1, <2>3, <3>2, StagesTyped
    <3> QED BY <2>2, <2>4, <3>1, <3>3 DEF Precedes
  <2>5. CASE k # 1
    <3>1. k - 1 \in DOMAIN Tail(s) /\ Tail(s)[k - 1] = s[k]
      BY <1>1, <2>5
    <3> QED BY <2>2, <3>1 DEF Has
  <2> QED BY <2>4, <2>5
<1> QED BY <1>2, <1>3, <1>4 DEF Scripted

LEMMA ConcatInOrder ==
  ASSUME NEW s \in Seq(Statements), NEW t \in Seq(Statements), InOrder(s), InOrder(t),
         \A i \in DOMAIN s, j \in DOMAIN t : Precedes(s[i], t[j])
  PROVE  InOrder(s \o t)
<1>1. /\ DOMAIN s = 1..Len(s) /\ DOMAIN t = 1..Len(t) /\ Len(s) \in Nat /\ Len(t) \in Nat
      /\ DOMAIN (s \o t) = 1..(Len(s) + Len(t))
      /\ \A i \in DOMAIN (s \o t) :
           (s \o t)[i] = IF i <= Len(s) THEN s[i] ELSE t[i - Len(s)]
  BY ConcatProperties
<1> SUFFICES ASSUME NEW i \in DOMAIN (s \o t), NEW j \in DOMAIN (s \o t), i < j
             PROVE  Precedes((s \o t)[i], (s \o t)[j])
  BY DEF InOrder
<1>2. CASE j <= Len(s)
  <2>1. i \in DOMAIN s /\ j \in DOMAIN s /\ (s \o t)[i] = s[i] /\ (s \o t)[j] = s[j]
    BY <1>1, <1>2
  <2> QED BY <2>1 DEF InOrder
<1>3. CASE i <= Len(s) /\ ~ (j <= Len(s))
  <2>1. i \in DOMAIN s /\ j - Len(s) \in DOMAIN t
    BY <1>1, <1>3
  <2>2. (s \o t)[i] = s[i] /\ (s \o t)[j] = t[j - Len(s)]
    BY <1>1, <1>3
  <2> QED BY <2>1, <2>2
<1>4. CASE ~ (i <= Len(s))
  <2>1. i - Len(s) \in DOMAIN t /\ j - Len(s) \in DOMAIN t /\ i - Len(s) < j - Len(s)
    BY <1>1, <1>4
  <2>2. (s \o t)[i] = t[i - Len(s)] /\ (s \o t)[j] = t[j - Len(s)]
    BY <1>1, <1>4
  <2> QED BY <2>1, <2>2 DEF InOrder
<1> QED BY <1>2, <1>3, <1>4

LEMMA ConcatElements ==
  ASSUME NEW s \in Seq(Statements), NEW t \in Seq(Statements), NEW i \in DOMAIN (s \o t)
  PROVE  \/ \E k \in DOMAIN s : (s \o t)[i] = s[k]
         \/ \E k \in DOMAIN t : (s \o t)[i] = t[k]
<1>1. /\ DOMAIN s = 1..Len(s) /\ DOMAIN t = 1..Len(t) /\ Len(s) \in Nat /\ Len(t) \in Nat
      /\ DOMAIN (s \o t) = 1..(Len(s) + Len(t))
      /\ (s \o t)[i] = IF i <= Len(s) THEN s[i] ELSE t[i - Len(s)]
  BY ConcatProperties
<1>2. CASE i <= Len(s)
  BY <1>1, <1>2
<1>3. CASE ~ (i <= Len(s))
  <2>1. i - Len(s) \in DOMAIN t
    BY <1>1, <1>3
  <2> QED BY <1>1, <1>3, <2>1
<1> QED BY <1>2, <1>3

LEMMA ConcatHas ==
  ASSUME NEW s \in Seq(Statements), NEW t \in Seq(Statements), NEW stage
  PROVE  Has(s \o t, stage) <=> Has(s, stage) \/ Has(t, stage)
<1>1. /\ DOMAIN s = 1..Len(s) /\ DOMAIN t = 1..Len(t) /\ Len(s) \in Nat /\ Len(t) \in Nat
      /\ DOMAIN (s \o t) = 1..(Len(s) + Len(t))
      /\ \A i \in DOMAIN (s \o t) :
           (s \o t)[i] = IF i <= Len(s) THEN s[i] ELSE t[i - Len(s)]
  BY ConcatProperties
<1>2. ASSUME Has(s \o t, stage) PROVE Has(s, stage) \/ Has(t, stage)
  BY <1>2, ConcatElements DEF Has
<1>3. ASSUME Has(s, stage) PROVE Has(s \o t, stage)
  <2>1. PICK i \in DOMAIN s : Stage(s[i]) = stage
    BY <1>3 DEF Has
  <2>2. i \in DOMAIN (s \o t) /\ (s \o t)[i] = s[i]
    BY <1>1
  <2> QED BY <2>1, <2>2 DEF Has
<1>4. ASSUME Has(t, stage) PROVE Has(s \o t, stage)
  <2>1. PICK i \in DOMAIN t : Stage(t[i]) = stage
    BY <1>4 DEF Has
  <2>2. i + Len(s) \in DOMAIN (s \o t) /\ (s \o t)[i + Len(s)] = t[i]
    BY <1>1
  <2> QED BY <2>1, <2>2 DEF Has
<1> QED BY <1>2, <1>3, <1>4

\* The scripts are in order.
LEMMA InitDbScripted ==
  \A i \in DOMAIN InitDb : Occurs(InitDb[i]) /\ Stage(InitDb[i]) = 2
<1>1. /\ DOMAIN InitDb = 1..8
      /\ InitDb[1] = Create("migrations", {}) /\ InitDb[2] = CreateSessionsTable
      /\ InitDb[3] = Create("hostbans", {"id"}) /\ InitDb[4] = Create("accesslevels", {})
      /\ InitDb[5] = Fill("accesslevels", 0..2)
      /\ InitDb[6] = Create("roles", {}) /\ InitDb[7] = Create("users", {})
      /\ InitDb[8] = Fill("migrations", 1..4)
  BY DEF InitDb
<1>2. {"migrations", "sessions", "hostbans", "accesslevels", "roles", "users"}
        \subseteq Tables \ {"sessions_old"}
  BY DEF Tables
<1>3. /\ Stage(InitDb[1]) = 2 /\ Stage(InitDb[2]) = 2 /\ Stage(InitDb[3]) = 2
      /\ Stage(InitDb[4]) = 2 /\ Stage(InitDb[5]) = 2 /\ Stage(InitDb[6]) = 2
      /\ Stage(InitDb[7]) = 2 /\ Stage(InitDb[8]) = 2
  BY <1>1, StagesOfStatements DEF CreateSessionsTable
<1>4. /\ Occurs(InitDb[1]) /\ Occurs(InitDb[2]) /\ Occurs(InitDb[3])
      /\ Occurs(InitDb[4]) /\ Occurs(InitDb[5]) /\ Occurs(InitDb[6])
      /\ Occurs(InitDb[7]) /\ Occurs(InitDb[8])
  BY <1>1, <1>2, StatementsOccur DEF CreateSessionsTable
<1> QED BY <1>1, <1>3, <1>4

\* What is true of an answer that has no questions and no new columns.
Rewrites(s) ==
  /\ \A i \in DOMAIN s : Occurs(s[i]) /\ Stage(s[i]) \in 1..6
  /\ InOrder(s)
  /\ Has(s, 5) => Has(s, 3) /\ Has(s, 1)

LEMMA InitDbRewrites == Rewrites(InitDb)
<1>1. InOrder(InitDb)
  <2>1. ASSUME NEW i \in DOMAIN InitDb, NEW j \in DOMAIN InitDb
        PROVE  Precedes(InitDb[i], InitDb[j])
    <3>1. Stage(InitDb[i]) = 2 /\ Stage(InitDb[j]) = 2
      BY InitDbScripted
    <3>2. InitDb[i] \notin {Inspect, Lacks(4)}
      BY <3>1, StagesOfStatements
    <3> QED BY <3>1, <3>2 DEF Precedes
  <2> QED BY <2>1 DEF InOrder
<1>2. ~ Has(InitDb, 5)
  BY InitDbScripted DEF Has
<1>3. \A i \in DOMAIN InitDb : Occurs(InitDb[i]) /\ Stage(InitDb[i]) \in 1..6
  BY InitDbScripted
<1> QED BY <1>1, <1>2, <1>3 DEF Rewrites

\* Before one another by their stages alone.
LEMMA StagesPrecede ==
  ASSUME NEW a, NEW b, Stage(a) \in 1..6, Stage(b) \in 1..6, Stage(a) <= Stage(b),
         Stage(a) # 1 \/ Stage(b) # 1
  PROVE  Precedes(a, b)
<1>1. a \notin {Inspect, Lacks(4)}
  BY StagesOfStatements
<1> QED BY <1>1 DEF Precedes

LEMMA LegacyRewrites == Rewrites(MigrateFromLegacyFormat)
<1> DEFINE renames == <<Rename("sessions", "sessions_old"), Rename("hostbans", "hostbans_old")>>
           copies == <<Copy("sessions_old", "sessions", {}), Copy("hostbans_old", "hostbans", {}),
                       Drop("sessions_old"), Drop("hostbans_old")>>
           rest == InitDb \o copies
<1>1. /\ Rename("sessions", "sessions_old") \in Statements
      /\ Rename("hostbans", "hostbans_old") \in Statements
      /\ Copy("sessions_old", "sessions", {}) \in Statements
      /\ Copy("hostbans_old", "hostbans", {}) \in Statements
      /\ Drop("sessions_old") \in Statements /\ Drop("hostbans_old") \in Statements
  BY ConstructorsTyped, NamesTyped
<1>2. renames \in Seq(Statements) /\ copies \in Seq(Statements)
  BY <1>1
<1>3. rest \in Seq(Statements)
  BY <1>2, InitDbTyped, ConcatProperties
<1>4. /\ DOMAIN renames = 1..2
      /\ Stage(renames[1]) = 1 /\ Stage(renames[2]) = 2
      /\ Occurs(renames[1]) /\ Occurs(renames[2])
  BY StagesOfStatements, StatementsOccur DEF RenameSessions
<1>5. /\ DOMAIN copies = 1..4
      /\ Stage(copies[1]) = 3 /\ Stage(copies[2]) = 4 /\ Stage(copies[3]) = 5
      /\ Stage(copies[4]) = 6
      /\ Occurs(copies[1]) /\ Occurs(copies[2]) /\ Occurs(copies[3]) /\ Occurs(copies[4])
  BY StagesOfStatements, StatementsOccur DEF DropOld
<1>6. MigrateFromLegacyFormat = renames \o rest
  <2>1. MigrateFromLegacyFormat = (renames \o InitDb) \o copies
    BY DEF MigrateFromLegacyFormat
  <2> QED BY <2>1, <1>2, InitDbTyped, ConcatAssociative
<1> HIDE DEF renames, copies, rest
<1>7. InOrder(renames) /\ InOrder(copies)
  <2>1. ASSUME NEW i \in DOMAIN renames, NEW j \in DOMAIN renames, i < j
        PROVE  Precedes(renames[i], renames[j])
    <3>1. i = 1 /\ j = 2
      BY <1>4, <2>1
    <3> QED BY <1>4, <3>1, StagesPrecede
  <2>2. ASSUME NEW i \in DOMAIN copies, NEW j \in DOMAIN copies, i < j
        PROVE  Precedes(copies[i], copies[j])
    <3>1. Stage(copies[i]) = i + 2 /\ Stage(copies[j]) = j + 2 /\ i \in 1..4 /\ j \in 1..4
      BY <1>5
    <3> QED BY <3>1, <2>2, StagesPrecede
  <2> QED BY <2>1, <2>2 DEF InOrder
<1>8. InOrder(rest)
  <2>1. ASSUME NEW i \in DOMAIN InitDb, NEW j \in DOMAIN copies
        PROVE  Precedes(InitDb[i], copies[j])
    <3>1. Stage(InitDb[i]) = 2 /\ Stage(copies[j]) \in 3..6
      BY <1>5, InitDbScripted
    <3> QED BY <3>1, StagesPrecede
  <2>2. InOrder(rest) <=> InOrder(InitDb \o copies)
    BY DEF rest
  <2> QED BY <2>1, <2>2, <1>2, <1>7, InitDbTyped, InitDbRewrites, ConcatInOrder DEF Rewrites
<1>9. \A i \in DOMAIN rest : Occurs(rest[i]) /\ Stage(rest[i]) \in 2..6
  <2> SUFFICES ASSUME NEW i \in DOMAIN (InitDb \o copies)
               PROVE  Occurs((InitDb \o copies)[i]) /\ Stage((InitDb \o copies)[i]) \in 2..6
    BY DEF rest
  <2>1. \/ \E k \in DOMAIN InitDb : (InitDb \o copies)[i] = InitDb[k]
        \/ \E k \in DOMAIN copies : (InitDb \o copies)[i] = copies[k]
    BY <1>2, InitDbTyped, ConcatElements
  <2>2. CASE \E k \in DOMAIN InitDb : (InitDb \o copies)[i] = InitDb[k]
    BY <2>2, InitDbScripted
  <2>3. CASE \E k \in DOMAIN copies : (InitDb \o copies)[i] = copies[k]
    BY <2>3, <1>5
  <2> QED BY <2>1, <2>2, <2>3
<1>10. InOrder(renames \o rest)
  <2>1. ASSUME NEW i \in DOMAIN renames, NEW j \in DOMAIN rest
        PROVE  Precedes(renames[i], rest[j])
    <3>1. Stage(renames[i]) \in {1, 2} /\ Stage(rest[j]) \in 2..6
      BY <1>4, <1>9
    <3> QED BY <3>1, StagesPrecede
  <2> QED BY <2>1, <1>2, <1>3, <1>7, <1>8, ConcatInOrder
<1>11. \A i \in DOMAIN (renames \o rest) :
         Occurs((renames \o rest)[i]) /\ Stage((renames \o rest)[i]) \in 1..6
  <2> SUFFICES ASSUME NEW i \in DOMAIN (renames \o rest)
               PROVE  Occurs((renames \o rest)[i]) /\ Stage((renames \o rest)[i]) \in 1..6
    OBVIOUS
  <2>1. \/ \E k \in DOMAIN renames : (renames \o rest)[i] = renames[k]
        \/ \E k \in DOMAIN rest : (renames \o rest)[i] = rest[k]
    BY <1>2, <1>3, ConcatElements
  <2>2. CASE \E k \in DOMAIN renames : (renames \o rest)[i] = renames[k]
    BY <2>2, <1>4
  <2>3. CASE \E k \in DOMAIN rest : (renames \o rest)[i] = rest[k]
    BY <2>3, <1>9
  <2> QED BY <2>1, <2>2, <2>3
<1>12. Has(renames \o rest, 3) /\ Has(renames \o rest, 1)
  <2>1. Has(renames, 1) /\ Has(copies, 3)
    BY <1>4, <1>5 DEF Has
  <2>2. Has(rest, 3)
    BY <2>1, <1>2, InitDbTyped, ConcatHas DEF rest
  <2> QED BY <2>1, <2>2, <1>2, <1>3, ConcatHas
<1> QED BY <1>6, <1>10, <1>11, <1>12 DEF Rewrites

LEMMA RoomcodeRewrites == Rewrites(MigrateRoomcodeRemoval)
<1> DEFINE s == MigrateRoomcodeRemoval
<1>1. /\ DOMAIN s = 1..5
      /\ s[1] = RenameSessions /\ s[2] = CreateSessionsTable
      /\ s[3] = Copy("sessions_old", "sessions", SessionColumns(4))
      /\ s[4] = DropOld /\ s[5] = Fill("migrations", {4})
  BY DEF MigrateRoomcodeRemoval, RenameSessions, DropOld
<1> HIDE DEF s
<1>2. /\ Stage(s[1]) = 1 /\ Stage(s[2]) = 2 /\ Stage(s[3]) = 3 /\ Stage(s[4]) = 5
      /\ Stage(s[5]) = 6
  BY <1>1, StagesOfStatements DEF CreateSessionsTable
<1>3. "sessions" \in Tables \ {"sessions_old"}
  BY DEF Tables
<1>4. Occurs(s[1]) /\ Occurs(s[2]) /\ Occurs(s[3]) /\ Occurs(s[4]) /\ Occurs(s[5])
  BY <1>1, <1>3, StatementsOccur DEF CreateSessionsTable
<1>5. InOrder(s)
  <2>1. ASSUME NEW i \in DOMAIN s, NEW j \in DOMAIN s, i < j
        PROVE  Precedes(s[i], s[j])
    <3>1. Stage(s[i]) \in 1..6 /\ Stage(s[j]) \in 1..6 /\ Stage(s[i]) < Stage(s[j])
      BY <1>1, <1>2, <2>1
    <3> QED BY <3>1, StagesPrecede
  <2> QED BY <2>1 DEF InOrder
<1>6. Has(s, 3) /\ Has(s, 1)
  BY <1>1, <1>2 DEF Has
<1>7. \A i \in DOMAIN s : Occurs(s[i]) /\ Stage(s[i]) \in 1..6
  BY <1>1, <1>2, <1>4
<1> QED BY <1>5, <1>6, <1>7 DEF Rewrites, s

\* The first statement of a script and the others.
LEMMA HeadFirst ==
  ASSUME NEW s \in Seq(Statements), s # <<>>, Scripted(s)
  PROVE  /\ Head(s) \in Statements /\ Tail(s) \in Seq(Statements)
         /\ Occurs(Head(s)) /\ Stage(Head(s)) \in 0..6
         /\ Scripted(Tail(s))
         /\ \A i \in DOMAIN Tail(s) : /\ Tail(s)[i] \in Statements
                                      /\ Stage(Tail(s)[i]) \in 0..6
                                      /\ Precedes(Head(s), Tail(s)[i])
         /\ \A stage : Has(s, stage) <=> Stage(Head(s)) = stage \/ Has(Tail(s), stage)
         /\ \A stage : Past(s, stage) <=> Stage(Head(s)) > stage /\ Past(Tail(s), stage)
<1>1. /\ DOMAIN s = 1..Len(s) /\ Len(s) \in Nat \ {0}
      /\ DOMAIN Tail(s) = 1..(Len(s) - 1)
      /\ \A i \in DOMAIN Tail(s) : i + 1 \in DOMAIN s /\ Tail(s)[i] = s[i + 1]
      /\ Head(s) = s[1] /\ 1 \in DOMAIN s /\ Tail(s) \in Seq(Statements)
      /\ \A k \in DOMAIN s : k # 1 => k - 1 \in DOMAIN Tail(s) /\ Tail(s)[k - 1] = s[k]
      /\ \A k \in DOMAIN s : s[k] \in Statements
  OBVIOUS
<1>2. \A k \in DOMAIN s : Occurs(s[k]) /\ Stage(s[k]) \in 0..6
  BY <1>1, StagesTyped DEF Scripted
<1>3. Scripted(Tail(s))
  BY TailScripted
<1>4. \A i \in DOMAIN Tail(s) : Precedes(Head(s), Tail(s)[i])
  BY <1>1 DEF Scripted, InOrder
<1>5. ASSUME NEW stage
      PROVE  /\ Has(s, stage) <=> Stage(Head(s)) = stage \/ Has(Tail(s), stage)
             /\ Past(s, stage) <=> Stage(Head(s)) > stage /\ Past(Tail(s), stage)
  BY <1>1 DEF Has, Past
<1> QED BY <1>1, <1>2, <1>3, <1>4, <1>5

\* An answer may be put before a rest that has only questions and commits.
LEMMA AnswerThenRest ==
  ASSUME NEW a \in Seq(Statements), NEW t \in Seq(Statements), Scripted(t), ~ Has(t, 5),
         \A i \in DOMAIN a : Occurs(a[i]), InOrder(a),
         \A i \in DOMAIN a, j \in DOMAIN t : Precedes(a[i], t[j]),
         Has(a, 5) => Has(a, 3) /\ Has(a, 1)
  PROVE  Scripted(a \o t) /\ (Has(a \o t, 5) => Has(a \o t, 1))
<1>1. InOrder(a \o t)
  BY ConcatInOrder DEF Scripted
<1>2. \A i \in DOMAIN (a \o t) : Occurs((a \o t)[i])
  <2> SUFFICES ASSUME NEW i \in DOMAIN (a \o t) PROVE Occurs((a \o t)[i])
    OBVIOUS
  <2>1. \/ \E k \in DOMAIN a : (a \o t)[i] = a[k]
        \/ \E k \in DOMAIN t : (a \o t)[i] = t[k]
    BY ConcatElements
  <2> QED BY <2>1 DEF Scripted
<1>3. Has(a \o t, 5) => Has(a \o t, 3) /\ Has(a \o t, 1)
  BY ConcatHas
<1> QED BY <1>1, <1>2, <1>3 DEF Scripted

LEMMA AskKeepsOrder ==
  ASSUME TypeOK, Scripted(todo), Ask
  PROVE  Scripted(todo') /\ (Has(todo', 5) => Has(todo', 1)) /\ ~ Past(todo, 1)
<1> DEFINE question == Statement
           rest == Tail(todo)
           answer == Answer(question, db)
<1>1. todo \in Seq(Statements) /\ todo # <<>> /\ IsQuestion(question)
  BY DEF TypeOK, Ask
<1>2. /\ question \in Statements /\ rest \in Seq(Statements) /\ Scripted(rest)
      /\ \A i \in DOMAIN rest : Precedes(question, rest[i])
      /\ \A stage : Past(todo, stage) <=> Stage(question) > stage /\ Past(rest, stage)
  BY <1>1, HeadFirst DEF Statement
<1>3. answer \in Seq(Statements) /\ todo' = answer \o rest
  BY <1>1, <1>2, AnswerTyped DEF Ask
<1>4. question \in {Inspect, Lacks(2), Lacks(3), Lacks(4)}
  BY <1>1, <1>2 DEF IsQuestion, Statements, Inspect, Lacks
<1> HIDE DEF question, rest
<1>5. Stage(question) = 0
  BY <1>4, StagesOfStatements
<1>6. ~ Past(todo, 1)
  BY <1>2, <1>5
<1>7. \A i \in DOMAIN rest : Stage(rest[i]) \in {0, 6}
  BY <1>2, <1>5 DEF Precedes
<1>8. ~ Has(rest, 5)
  BY <1>7 DEF Has
<1>9. ASSUME answer = <<>> PROVE Scripted(todo') /\ ~ Has(todo', 5)
  <2>1. todo' = rest
    BY <1>2, <1>3, <1>9
  <2> QED BY <1>2, <1>8, <2>1
<1>10. CASE question \in {Inspect, Lacks(4)}
  <2>1. \A i \in DOMAIN rest : Stage(rest[i]) = 6
    BY <1>2, <1>10 DEF Precedes
  <2>2. ASSUME Rewrites(answer) PROVE Scripted(todo') /\ (Has(todo', 5) => Has(todo', 1))
    <3> HIDE DEF answer
    <3>1. \A i \in DOMAIN answer, j \in DOMAIN rest : Precedes(answer[i], rest[j])
      <4> SUFFICES ASSUME NEW i \in DOMAIN answer, NEW j \in DOMAIN rest
                   PROVE  Precedes(answer[i], rest[j])
        OBVIOUS
      <4>1. Stage(answer[i]) \in 1..6 /\ Stage(rest[j]) = 6
        BY <2>1, <2>2 DEF Rewrites
      <4> QED BY <4>1, StagesPrecede
    <3> QED BY <1>2, <1>3, <1>8, <2>2, <3>1, AnswerThenRest DEF Rewrites
  <2>3. ASSUME answer = <<Lacks(2), Lacks(3), Lacks(4)>>
        PROVE  Scripted(todo') /\ (Has(todo', 5) => Has(todo', 1))
    <3> HIDE DEF answer
    <3>1. /\ DOMAIN answer = 1..3
          /\ answer[1] = Lacks(2) /\ answer[2] = Lacks(3) /\ answer[3] = Lacks(4)
      BY <2>3
    <3>2. \A i \in DOMAIN answer : Stage(answer[i]) = 0 /\ Occurs(answer[i])
      BY <3>1, StagesOfStatements, StatementsOccur
    <3>3. answer[1] \notin {Inspect, Lacks(4)} /\ answer[2] \notin {Inspect, Lacks(4)}
      BY <3>1 DEF Lacks, Inspect
    <3>4. InOrder(answer)
      <4> SUFFICES ASSUME NEW i \in DOMAIN answer, NEW j \in DOMAIN answer, i < j
                   PROVE  Precedes(answer[i], answer[j])
        BY DEF InOrder
      <4>1. answer[i] \notin {Inspect, Lacks(4)}
        BY <3>1, <3>3
      <4> QED BY <3>2, <4>1 DEF Precedes
    <3>5. \A i \in DOMAIN answer, j \in DOMAIN rest : Precedes(answer[i], rest[j])
      BY <2>1, <3>2 DEF Precedes
    <3>6. ~ Has(answer, 5)
      BY <3>2 DEF Has
    <3> QED BY <1>2, <1>3, <1>8, <3>2, <3>4, <3>5, <3>6, AnswerThenRest
  <2>4. CASE question = Inspect
    <3>1. \/ answer = <<Lacks(2), Lacks(3), Lacks(4)>>
          \/ answer = MigrateFromLegacyFormat \/ answer = InitDb
      BY <2>4 DEF Answer
    <3>2. CASE answer = MigrateFromLegacyFormat
      BY <1>6, <2>2, <3>2, LegacyRewrites
    <3>3. CASE answer = InitDb
      BY <1>6, <2>2, <3>3, InitDbRewrites
    <3> QED BY <1>6, <2>3, <3>1, <3>2, <3>3
  <2>5. CASE question = Lacks(4)
    <3>1. question # Inspect /\ question.version = 4
      BY <2>5 DEF Lacks, Inspect
    <3>2. answer = <<>> \/ answer = MigrateRoomcodeRemoval
      BY <3>1 DEF Answer, Migration
    <3>3. CASE answer = MigrateRoomcodeRemoval
      BY <1>6, <2>2, <3>3, RoomcodeRewrites
    <3> QED BY <1>6, <1>9, <3>2, <3>3
  <2> QED BY <1>6, <1>10, <2>4, <2>5
<1>11. CASE question \in {Lacks(2), Lacks(3)}
  <2>1. question # Inspect /\ question.version \in {2, 3}
    BY <1>11 DEF Lacks, Inspect
  <2>2. \/ answer = <<>>
        \/ answer = MigrateActiveDrawingUsers \/ answer = MigrateAllowWeb
    BY <2>1 DEF Answer, Migration
  <2>3. CASE answer # <<>>
    <3>1. PICK column \in Columns, version \in {2, 3} :
            answer = <<AddColumn(column), Fill("migrations", {version})>>
      BY <2>2, <2>3, NamesTyped DEF MigrateActiveDrawingUsers, MigrateAllowWeb
    <3> HIDE DEF answer
    <3>2. /\ DOMAIN answer = 1..2
          /\ answer[1] = AddColumn(column) /\ answer[2] = Fill("migrations", {version})
      BY <3>1
    <3>3. \A i \in DOMAIN answer : Stage(answer[i]) = 0 /\ Occurs(answer[i])
      BY <3>2, StagesOfStatements, StatementsOccur
    <3>4. \A i \in DOMAIN answer : answer[i] \notin {Inspect, Lacks(4)}
      BY <3>2 DEF Lacks, Inspect, AddColumn, Fill
    <3>5. InOrder(answer)
      BY <3>3, <3>4 DEF InOrder, Precedes
    <3>6. \A i \in DOMAIN answer, j \in DOMAIN rest : Precedes(answer[i], rest[j])
      BY <1>7, <3>3, <3>4 DEF Precedes
    <3>7. ~ Has(answer, 5)
      BY <3>3 DEF Has
    <3> QED BY <1>2, <1>3, <1>6, <1>8, <3>3, <3>5, <3>6, <3>7, AnswerThenRest
  <2> QED BY <1>6, <1>9, <2>3
<1> QED BY <1>4, <1>10, <1>11

\* What a statement of the scripts does to the rows of sessions.
LEMMA ResultOnRows ==
  ASSUME NEW statement \in Statements, Occurs(statement), NEW d \in Databases,
         Prepares(statement, d)
  PROVE  /\ Stage(statement) = 0 => Result(statement, d)["sessions_old"] = d["sessions_old"]
         /\ Stage(statement) = 1 => ~ Exists("sessions_old", d)
         /\ (HasRows(d) /\ (Stage(statement) = 5 => AllCopied(d) \/ ~ Exists("sessions_old", d))) =>
              HasRows(Result(statement, d))
         /\ Stage(statement) = 3 /\ HasRows(d) => AllCopied(Result(statement, d))
         /\ Stage(statement) > 3 /\ AllCopied(d) => AllCopied(Result(statement, d))
         /\ Stage(statement) > 3 /\ ~ Exists("sessions_old", d) =>
              ~ Exists("sessions_old", Result(statement, d))
<1>1. /\ DOMAIN d = Tables
      /\ "sessions" \in Tables /\ "sessions_old" \in Tables
      /\ \A table \in Tables : Exists(table, d) => d[table] \in TableStates
  BY DEF Databases, Tables, Exists
<1>2. CASE statement.op = "rename"
  <2>1. Stage(statement) \in {1, 2}
    BY <1>2 DEF Stage
  <2>2. CASE statement = RenameSessions
    <3>1. /\ statement.table = "sessions" /\ statement.new = "sessions_old"
          /\ Stage(statement) = 1
      BY <2>2, StagesOfStatements DEF RenameSessions, Rename
    <3>2. Exists("sessions", d) /\ ~ Exists("sessions_old", d)
      BY <1>2, <3>1 DEF Prepares
    <3>3. Result(statement, d)["sessions_old"] = d["sessions"]
      BY <1>1, <1>2, <3>1 DEF Result
    <3> QED BY <3>1, <3>2, <3>3 DEF HasRows, Exists
  <2>3. CASE statement.table = "hostbans" /\ statement.new = "hostbans_old"
    <3>1. statement # RenameSessions
      BY <2>3 DEF RenameSessions, Rename
    <3>2. Stage(statement) = 2
      BY <1>2, <3>1 DEF Stage
    <3>3. /\ Result(statement, d)["sessions_old"] = d["sessions_old"]
          /\ Result(statement, d)["sessions"] = d["sessions"]
      BY <1>1, <1>2, <2>3 DEF Result
    <3> QED BY <3>2, <3>3 DEF HasRows, Exists
  <2> QED BY <1>2, <2>2, <2>3 DEF Occurs
<1>3. CASE statement.op = "create"
  <2>1. Stage(statement) = 2
    BY <1>3 DEF Stage
  <2>2. statement.table \in Tables \ {"sessions_old"} /\ ~ Exists(statement.table, d)
    BY <1>3 DEF Statements, Occurs, Prepares
  <2>3. /\ Result(statement, d)["sessions_old"] = d["sessions_old"]
        /\ Exists("sessions", d) => Result(statement, d)["sessions"] = d["sessions"]
    BY <1>1, <1>3, <2>2 DEF Result
  <2> QED BY <2>1, <2>3 DEF HasRows, Exists
<1>4. CASE statement.op = "add"
  <2>1. Stage(statement) = 0 /\ Exists("sessions", d)
    BY <1>4 DEF Stage, Prepares
  <2>2. /\ Result(statement, d)["sessions_old"] = d["sessions_old"]
        /\ Result(statement, d)["sessions"] =
             [d["sessions"] EXCEPT !.columns = @ \cup {statement.column}]
    BY <1>1, <1>4 DEF Result
  <2>3. /\ Result(statement, d)["sessions"].rows = d["sessions"].rows
        /\ Result(statement, d)["sessions"] \in
             [columns : SUBSET (Columns \cup {statement.column}), rows : SUBSET Rows]
    BY <1>1, <2>1, <2>2 DEF TableStates
  <2>4. statement.column \in Columns
    BY <1>4 DEF Statements
  <2>5. Exists("sessions", Result(statement, d))
    <3>1. Result(statement, d)["sessions"] \in TableStates
      BY <2>3, <2>4 DEF TableStates
    <3> QED BY <3>1, NoTableAssumption DEF Exists
  <2> QED BY <2>1, <2>2, <2>3, <2>5 DEF HasRows, Exists
<1>5. CASE statement.op = "fill"
  <2>1. Stage(statement) \in {0, 2, 6}
    BY <1>5 DEF Stage
  <2>2. statement.table \notin {"sessions", "sessions_old"}
    BY <1>5 DEF Occurs
  <2>3. /\ Result(statement, d)["sessions_old"] = d["sessions_old"]
        /\ Result(statement, d)["sessions"] = d["sessions"]
    BY <1>1, <1>5, <2>2 DEF Result
  <2> QED BY <2>1, <2>3 DEF HasRows, AllCopied, Exists
<1>6. CASE statement.op = "copy"
  <2>1. statement.from \in Tables /\ Exists(statement.from, d) /\ Exists(statement.to, d)
    BY <1>6 DEF Statements, Prepares
  <2>2. CASE statement.from = "sessions_old" /\ statement.to = "sessions"
    <3>1. Stage(statement) = 3
      BY <1>6, <2>2 DEF Stage
    <3>2. Result(statement, d)["sessions"] =
            [d["sessions"] EXCEPT !.rows = @ \cup d["sessions_old"].rows]
      BY <1>1, <1>6, <2>2 DEF Result
    <3>3. d["sessions"] \in TableStates /\ d["sessions_old"] \in TableStates
      BY <1>1, <2>1, <2>2
    <3>4. /\ Result(statement, d)["sessions"].rows =
               d["sessions"].rows \cup d["sessions_old"].rows
          /\ Result(statement, d)["sessions"] \in TableStates
      BY <3>2, <3>3 DEF TableStates
    <3>5. Exists("sessions", Result(statement, d))
      BY <3>4, NoTableAssumption DEF Exists
    <3>6. HasRows(d) => AllCopied(Result(statement, d))
      BY <3>4, <3>5 DEF HasRows, AllCopied
    <3> QED BY <3>1, <3>6 DEF HasRows, AllCopied
  <2>3. CASE statement.from = "hostbans_old" /\ statement.to = "hostbans"
    <3>1. Stage(statement) = 4
      BY <1>6, <2>3 DEF Stage
    <3>2. /\ Result(statement, d)["sessions_old"] = d["sessions_old"]
          /\ Result(statement, d)["sessions"] = d["sessions"]
      BY <1>1, <1>6, <2>3 DEF Result
    <3> QED BY <3>1, <3>2 DEF HasRows, AllCopied, Exists
  <2> QED BY <1>6, <2>2, <2>3 DEF Occurs
<1>7. CASE statement.op = "drop"
  <2>1. /\ statement.table \in {"sessions_old", "hostbans_old"}
        /\ Exists(statement.table, d)
    BY <1>7 DEF Occurs, Prepares
  <2>2. Stage(statement) \in {5, 6}
    BY <1>7 DEF Stage
  <2>3. /\ Result(statement, d)["sessions"] = d["sessions"]
        /\ statement.table = "hostbans_old" =>
             Result(statement, d)["sessions_old"] = d["sessions_old"]
        /\ statement.table = "sessions_old" => ~ Exists("sessions_old", Result(statement, d))
    BY <1>1, <1>7, <2>1 DEF Result, Exists
  <2>4. statement.table = "sessions_old" => Stage(statement) = 5
    <3>1. statement.table = "sessions_old" => statement = DropOld
      BY <1>7 DEF Statements, DropOld, Drop
    <3> QED BY <3>1, StagesOfStatements
  <2> QED BY <2>1, <2>2, <2>3, <2>4 DEF HasRows, AllCopied, Exists
<1>8. CASE statement.op \in {"begin", "commit"}
  <2>1. Stage(statement) \in {0, 6} /\ Result(statement, d) = d
    BY <1>8 DEF Stage, Result
  <2> QED BY <2>1
<1> QED BY <1>2, <1>3, <1>4, <1>5, <1>6, <1>7, <1>8 DEF Prepares

\* What is left when the head of the script is taken off.
LEMMA HeadGone ==
  ASSUME TypeOK, Scripted(todo), AtStatement
  PROVE  /\ Statement \in Statements /\ Occurs(Statement) /\ Stage(Statement) \in 0..6
         /\ Scripted(Tail(todo))
         /\ Stage(Statement) = 0 => ~ Past(todo, 1) /\ ~ Has(Tail(todo), 5)
         /\ Stage(Statement) = 1 => ~ Past(todo, 1) /\ Past(Tail(todo), 1)
         /\ Stage(Statement) >= 2 => Past(todo, 1) /\ Past(Tail(todo), 1)
         /\ Stage(Statement) <= 2 /\ Has(Tail(todo), 5) => ~ Past(Tail(todo), 3)
         /\ Stage(Statement) > 3 => Past(todo, 3)
         /\ Has(Tail(todo), 5) => Has(todo, 5)
         /\ Stage(Statement) = 5 => Has(todo, 5)
         /\ Statement = Commit => Stage(Statement) = 6
         /\ Statement = Begin => Stage(Statement) = 0
<1>1. /\ todo \in Seq(Statements) /\ todo # <<>>
      /\ Statement \in Statements /\ Occurs(Statement) /\ Stage(Statement) \in 0..6
      /\ Scripted(Tail(todo))
      /\ \A i \in DOMAIN Tail(todo) : /\ Stage(Tail(todo)[i]) \in 0..6
                                      /\ Precedes(Statement, Tail(todo)[i])
      /\ \A stage : Has(todo, stage) <=> Stage(Statement) = stage \/ Has(Tail(todo), stage)
      /\ \A stage : Past(todo, stage) <=> Stage(Statement) > stage /\ Past(Tail(todo), stage)
  BY HeadFirst DEF TypeOK, AtStatement, Statement
<1>2. Stage(Statement) = 0 => ~ Past(todo, 1) /\ ~ Has(Tail(todo), 5)
  BY <1>1 DEF Precedes, Has
<1>3. ASSUME Stage(Statement) >= 1 PROVE Past(Tail(todo), 1)
  <2> SUFFICES ASSUME NEW i \in DOMAIN Tail(todo) PROVE Stage(Tail(todo)[i]) > 1
    BY DEF Past
  <2>1. /\ Stage(Tail(todo)[i]) \in 0..6 /\ Stage(Statement) <= Stage(Tail(todo)[i])
        /\ Stage(Statement) = 1 => Stage(Tail(todo)[i]) # 1
    BY <1>1 DEF Precedes
  <2> QED BY <1>1, <1>3, <2>1
<1>4. /\ Stage(Statement) = 1 => ~ Past(todo, 1) /\ Past(Tail(todo), 1)
      /\ Stage(Statement) >= 2 => Past(todo, 1) /\ Past(Tail(todo), 1)
  BY <1>1, <1>3
<1>5. ASSUME Stage(Statement) <= 2, Has(Tail(todo), 5) PROVE ~ Past(Tail(todo), 3)
  <2>1. Has(todo, 5) /\ ~ Past(todo, 2)
    BY <1>1, <1>5
  <2>2. Has(todo, 3)
    BY <2>1 DEF Scripted
  <2>3. Has(Tail(todo), 3)
    BY <1>1, <1>5, <2>2
  <2> QED BY <2>3 DEF Has, Past
<1>6. Stage(Statement) > 3 => Past(todo, 3)
  BY <1>1 DEF Precedes, Past
<1>7. Stage(Commit) = 6 /\ Stage(Begin) = 0
  BY StagesOfStatements
<1> QED BY <1>1, <1>2, <1>4, <1>5, <1>6, <1>7

LEMMA NothingScripted ==
  Scripted(<<>>) /\ Past(<<>>, 1) /\ ~ Has(<<>>, 5)
BY DEF Scripted, InOrder, Has, Past

LEMMA OpenScripted ==
  LET s == <<Begin, Inspect, Commit>> IN Scripted(s) /\ ~ Has(s, 5)
<1> DEFINE s == <<Begin, Inspect, Commit>>
<1>1. DOMAIN s = 1..3 /\ s[1] = Begin /\ s[2] = Inspect /\ s[3] = Commit
  OBVIOUS
<1> HIDE DEF s
<1>2. /\ Stage(s[1]) = 0 /\ Stage(s[2]) = 0 /\ Stage(s[3]) = 6
      /\ Occurs(s[1]) /\ Occurs(s[2]) /\ Occurs(s[3])
  BY <1>1, StagesOfStatements, StatementsOccur
<1>3. s[1] \notin {Inspect, Lacks(4)}
  BY <1>1 DEF Begin, Inspect, Lacks
<1>4. InOrder(s)
  <2> SUFFICES ASSUME NEW i \in DOMAIN s, NEW j \in DOMAIN s, i < j
               PROVE  Precedes(s[i], s[j])
    BY DEF InOrder
  <2>1. (i = 1 /\ j \in {2, 3}) \/ (i = 2 /\ j = 3)
    BY <1>1
  <2> QED BY <1>2, <1>3, <2>1 DEF Precedes
<1>5. ~ Has(s, 5) /\ \A i \in DOMAIN s : Occurs(s[i])
  BY <1>1, <1>2 DEF Has
<1> QED BY <1>4, <1>5 DEF Scripted, s

\* The steps that leave the database alone, or end the process.
LEMMA ServiceKeepsRowsInv == RowsInv /\ ServiceStep => RowsInv'
<1> SUFFICES ASSUME RowsInv, ServiceStep PROVE RowsInv'
  OBVIOUS
<1>1. UNCHANGED <<database, bounds, first>>
  BY DEF ServiceStep, RunReadOnly, Migrated, StartListener, Notify, Listen, ListenFails,
         Interrupt, Accept, Finish, BeginShutdown, Wait, Drained, CloseDatabase, Continue
<1> QED BY <1>1 DEF database, bounds, RowsInv, RowsKept

LEMMA EndKeepsRowsInv == RowsInv /\ EndStep => RowsInv'
<1> SUFFICES ASSUME RowsInv, EndStep PROVE RowsInv'
  OBVIOUS
<1>1. /\ db' = disk /\ disk' = disk /\ inTx' = FALSE /\ todo' = <<>>
      /\ first' = first /\ failed' = failed
  BY DEF EndStep, DatabaseUnusable, SqliteExecPanics, ServerFails, CloseNothing, Exit,
         CleanupWithoutPool, Crash, Stop, bounds
<1> QED BY <1>1, NothingScripted DEF RowsInv, RowsKept

LEMMA DoneKeepsRowsInv == TypeOK /\ RowsInv /\ SqliteExecDone => RowsInv'
<1> SUFFICES ASSUME TypeOK, RowsInv, SqliteExecDone PROVE RowsInv'
  OBVIOUS
<1>1. /\ AtStatement /\ Prepares(Statement, db)
      /\ db' = Result(Statement, db)
      /\ inTx' = (Statement = Begin \/ (inTx /\ Statement # Commit))
      /\ disk' = IF inTx /\ Statement # Commit THEN disk ELSE db'
      /\ todo' = Tail(todo) /\ first' = first /\ failed' = failed
      /\ db \in Databases /\ Scripted(todo) /\ (RowsKept' <=> RowsKept)
  BY DEF SqliteExecDone, Continue, bounds, TypeOK, RowsInv, RowsKept
<1>2. /\ Statement \in Statements /\ Occurs(Statement) /\ Stage(Statement) \in 0..6
      /\ Scripted(todo')
      /\ Stage(Statement) = 0 => ~ Past(todo, 1) /\ ~ Has(todo', 5)
      /\ Stage(Statement) = 1 => ~ Past(todo, 1) /\ Past(todo', 1)
      /\ Stage(Statement) >= 2 => Past(todo, 1) /\ Past(todo', 1)
      /\ Stage(Statement) <= 2 /\ Has(todo', 5) => ~ Past(todo', 3)
      /\ Stage(Statement) > 3 => Past(todo, 3)
      /\ Has(todo', 5) => Has(todo, 5)
      /\ Stage(Statement) = 5 => Has(todo, 5)
      /\ Statement = Commit => Stage(Statement) = 6
      /\ Statement = Begin => Stage(Statement) = 0
  BY <1>1, HeadGone
<1>3. /\ Stage(Statement) = 0 => db'["sessions_old"] = db["sessions_old"]
      /\ Stage(Statement) = 1 => ~ Exists("sessions_old", db)
      /\ (HasRows(db) /\ (Stage(Statement) = 5 => AllCopied(db) \/ ~ Exists("sessions_old", db)))
           => HasRows(db')
      /\ Stage(Statement) = 3 /\ HasRows(db) => AllCopied(db')
      /\ Stage(Statement) > 3 /\ AllCopied(db) => AllCopied(db')
      /\ Stage(Statement) > 3 /\ ~ Exists("sessions_old", db) => ~ Exists("sessions_old", db')
  BY <1>1, <1>2, ResultOnRows
<1>4. ~ inTx' => db' = disk'
  BY <1>1
<1>5. ASSUME RowsKept PROVE HasRows(disk') /\ HasRows(db')
  <2>1. HasRows(disk) /\ HasRows(db)
    BY <1>5 DEF RowsInv
  <2>2. Stage(Statement) = 5 => AllCopied(db) \/ ~ Exists("sessions_old", db)
    BY <1>2, <1>5 DEF RowsInv
  <2>3. HasRows(db')
    BY <1>3, <2>1, <2>2
  <2> QED BY <1>1, <2>1, <2>3
<1>6. ASSUME RowsKept, Has(todo', 5), Past(todo', 3)
      PROVE  AllCopied(db') \/ ~ Exists("sessions_old", db')
  <2>1. Stage(Statement) > 2 /\ HasRows(db)
    BY <1>2, <1>6 DEF RowsInv
  <2>2. CASE Stage(Statement) = 3
    BY <1>3, <2>1, <2>2
  <2>3. CASE Stage(Statement) > 3
    <3>1. AllCopied(db) \/ ~ Exists("sessions_old", db)
      BY <1>2, <1>6, <2>3 DEF RowsInv
    <3> QED BY <1>3, <2>3, <3>1
  <2> QED BY <1>2, <2>1, <2>2, <2>3
<1>7. ASSUME inTx', Has(todo', 5), Past(todo', 1) PROVE ~ Exists("sessions_old", disk')
  <2>1. Stage(Statement) # 0
    BY <1>2, <1>7
  <2>2. inTx /\ disk' = disk
    BY <1>1, <1>2, <1>7, <2>1
  <2>3. CASE Stage(Statement) = 1
    <3>1. db["sessions_old"] = disk["sessions_old"]
      BY <1>2, <2>2, <2>3 DEF RowsInv
    <3> QED BY <1>3, <2>2, <2>3, <3>1 DEF Exists
  <2>4. CASE Stage(Statement) >= 2
    <3>1. ~ Exists("sessions_old", disk)
      BY <1>2, <1>7, <2>2, <2>4 DEF RowsInv
    <3> QED BY <2>2, <3>1
  <2> QED BY <1>2, <2>1, <2>3, <2>4
<1>8. ASSUME inTx', ~ Past(todo', 1) PROVE db'["sessions_old"] = disk'["sessions_old"]
  <2>1. Stage(Statement) = 0 /\ Statement # Commit
    BY <1>2, <1>8
  <2>2. CASE inTx
    BY <1>1, <1>2, <1>3, <2>1, <2>2 DEF RowsInv
  <2>3. CASE ~ inTx
    BY <1>1, <2>3
  <2> QED BY <2>2, <2>3
<1> QED BY <1>1, <1>2, <1>4, <1>5, <1>6, <1>7, <1>8 DEF RowsInv

LEMMA FailureKeepsRowsInv ==
  TypeOK /\ RowsInv /\ (SqliteExecAborts \/ SqliteExecRollsBack) => RowsInv'
<1> SUFFICES ASSUME TypeOK, RowsInv, SqliteExecAborts \/ SqliteExecRollsBack PROVE RowsInv'
  OBVIOUS
<1>1. /\ AtStatement /\ Scripted(todo) /\ Prepares(Statement, db)
      /\ todo' = Tail(todo) /\ disk' = disk /\ first' = first
      /\ failed \subseteq failed' /\ (RowsKept' => RowsKept)
  BY DEF SqliteExecAborts, SqliteExecRollsBack, Continue, RowsInv, RowsKept
<1>2. /\ Statement \in Statements /\ Occurs(Statement) /\ Stage(Statement) \in 0..6
      /\ Scripted(todo')
      /\ Stage(Statement) = 0 => ~ Past(todo, 1) /\ ~ Has(todo', 5)
      /\ Stage(Statement) = 1 => ~ Past(todo, 1) /\ Past(todo', 1)
      /\ Stage(Statement) >= 2 => Past(todo, 1) /\ Past(todo', 1)
      /\ Stage(Statement) <= 2 /\ Has(todo', 5) => ~ Past(todo', 3)
      /\ Stage(Statement) > 3 => Past(todo, 3)
      /\ Has(todo', 5) => Has(todo, 5)
  BY <1>1, HeadGone
<1>3. CASE SqliteExecRollsBack
  <2>1. inTx /\ db' = disk /\ inTx' = FALSE
    BY <1>3 DEF SqliteExecRollsBack
  <2>2. ASSUME Has(todo', 5), Past(todo', 3) PROVE ~ Exists("sessions_old", disk)
    BY <1>2, <2>1, <2>2 DEF RowsInv
  <2> QED BY <1>1, <1>2, <2>1, <2>2 DEF RowsInv
<1>4. CASE SqliteExecAborts
  <2>1. db' = db /\ inTx' = inTx
    BY <1>4 DEF SqliteExecAborts
  <2>2. RowsKept' => Stage(Statement) # 3
    <3>1. Stage(Statement) = 3 => Statement.op = "copy"
      BY <1>2 DEF Stage, Statements
    <3>2. Statement.op = "copy" => "copy" \in failed'
      BY <1>4 DEF SqliteExecAborts
    <3> QED BY <3>1, <3>2 DEF RowsKept
  <2>3. ASSUME RowsKept', Has(todo', 5), Past(todo', 3)
        PROVE  AllCopied(db) \/ ~ Exists("sessions_old", db)
    BY <1>1, <1>2, <2>2, <2>3 DEF RowsInv
  <2>4. ASSUME inTx, Has(todo', 5), Past(todo', 1) PROVE ~ Exists("sessions_old", disk)
    <3>1. CASE Stage(Statement) = 1
      <4>1. ~ Exists("sessions_old", db)
        BY <1>1, <1>2, <3>1, ResultOnRows DEF TypeOK
      <4>2. db["sessions_old"] = disk["sessions_old"]
        BY <1>2, <2>4, <3>1 DEF RowsInv
      <4> QED BY <4>1, <4>2 DEF Exists
    <3>2. CASE Stage(Statement) >= 2
      BY <1>2, <2>4, <3>2 DEF RowsInv
    <3> QED BY <1>2, <2>4, <3>1, <3>2
  <2>5. ASSUME inTx, ~ Past(todo', 1) PROVE db["sessions_old"] = disk["sessions_old"]
    BY <1>2, <2>5 DEF RowsInv
  <2> QED BY <1>1, <1>2, <2>1, <2>3, <2>4, <2>5 DEF RowsInv
<1> QED BY <1>3, <1>4

LEMMA RowsInvariant == Spec => []RowsInv
<1>1. Init => RowsInv
  <2> SUFFICES ASSUME Init PROVE RowsInv
    OBVIOUS
  <2>1. "sessions" \in Tables /\ first \in Firsts
    BY DEF Init, Tables
  <2>2. \A version, bans : Format(version, Sessions, bans)["sessions"] =
          Table(SessionColumns(version), Sessions)
    BY <2>1 DEF Format
  <2>3. Legacy["sessions"] = Table({"roomcode"}, Sessions)
    BY <2>1 DEF Legacy
  <2>4. /\ Table({"roomcode"}, Sessions) \in TableStates
        /\ \A version \in Versions : Table(SessionColumns(version), Sessions) \in TableStates
    BY DEF Table, TableStates, Columns, Rows, SessionColumns
  <2>5. \A columns : Table(columns, Sessions).rows = Sessions
    BY DEF Table
  <2>6. HasRows(Legacy)
    BY <2>3, <2>4, <2>5, NoTableAssumption DEF HasRows, Exists
  <2>7. \A version \in Versions : HasRows(Format(version, Sessions, Bans))
    BY <2>2, <2>4, <2>5, NoTableAssumption DEF HasRows, Exists
  <2>8. first # Empty => HasRows(first)
    BY <2>1, <2>6, <2>7 DEF Firsts
  <2> QED BY <2>8, NothingScripted DEF Init, RowsInv, RowsKept
<1>2. TypeOK /\ RowsInv /\ [Next]_vars => RowsInv'
  <2> SUFFICES ASSUME TypeOK, RowsInv, [Next]_vars PROVE RowsInv'
    OBVIOUS
  <2>1. CASE Start
    BY <2>1 DEF Start, database, RowsInv, RowsKept
  <2>2. CASE OpenDatabase
    <3>1. /\ db' = disk /\ disk' = disk /\ first' = first /\ failed' = failed
          /\ Scripted(todo') /\ ~ Has(todo', 5)
      BY <2>2, OpenScripted DEF OpenDatabase, Continue, bounds
    <3> QED BY <3>1 DEF RowsInv, RowsKept
  <2>3. CASE Ask
    <3>1. Scripted(todo') /\ (Has(todo', 5) => Has(todo', 1)) /\ ~ Past(todo, 1)
      BY <2>3, AskKeepsOrder DEF RowsInv
    <3>2. Has(todo', 5) => ~ Past(todo', 1) /\ ~ Past(todo', 3)
      BY <3>1 DEF Has, Past
    <3>3. UNCHANGED <<db, disk, inTx, first, failed>>
      BY <2>3 DEF Ask, Continue, bounds
    <3> QED BY <3>1, <3>2, <3>3 DEF RowsInv, RowsKept
  <2>4. CASE UNCHANGED vars
    BY <2>4 DEF vars, database, bounds, RowsInv, RowsKept
  <2> QED BY <2>1, <2>2, <2>3, <2>4, DoneKeepsRowsInv, FailureKeepsRowsInv,
             ServiceKeepsRowsInv, EndKeepsRowsInv, NextSteps
<1> QED BY <1>1, <1>2, LifeTypeCorrect, PTL DEF Spec

-----------------------------------------------------------------------------
(* The migrations keep the bans.                                           *)

RenameBans == Rename("hostbans", "hostbans_old")
CopyBans   == Copy("hostbans_old", "hostbans", {})
DropBans   == Drop("hostbans_old")

\* The only script that drops bans, with the COMMIT that ends it.
LegacyScript == MigrateFromLegacyFormat \o <<Commit>>

\* The script has come to its k-th statement.
LegacyAt(k) ==
  /\ Len(todo) = 16 - k
  /\ \A i \in 1..(16 - k) : todo[i] = LegacyScript[i + k - 1]

\* No other script drops bans, and an inspection comes before all of them.
Harmless(s) == \A i \in DOMAIN s : s[i] \notin {Inspect, DropBans}

AllBansCopied(d) == Exists("hostbans", d) /\ Bans \subseteq d["hostbans"].rows

\* As with sessions: hostbans_old is dropped when hostbans has its rows; and if
\* the transaction was rolled back there is none to drop.
BansOnTheWay(k) ==
  /\ inTx /\ k <= 2 => db["hostbans_old"] = disk["hostbans_old"]
  /\ inTx /\ k > 2 => ~ Exists("hostbans_old", disk)
  /\ RowsKept /\ k \in {13, 14} => AllBansCopied(db) \/ ~ Exists("hostbans_old", db)

BansInv ==
  /\ RowsKept => HasBans(disk) /\ HasBans(db)
  /\ \/ todo \in {<<Begin, Inspect, Commit>>, <<Inspect, Commit>>} /\ db = disk
     \/ Harmless(todo)
     \/ \E k \in 1..14 : LegacyAt(k) /\ BansOnTheWay(k)

LEMMA LegacyInPlaces ==
  /\ LegacyScript \in Seq(Statements) /\ Len(LegacyScript) = 15
  /\ LegacyScript[1] = RenameSessions /\ LegacyScript[2] = RenameBans
  /\ LegacyScript[12] = CopyBans /\ LegacyScript[13] = DropOld
  /\ LegacyScript[14] = DropBans /\ LegacyScript[15] = Commit
  /\ \A i \in 1..13 : Stage(LegacyScript[i]) \in 1..5
<1> DEFINE renames == <<Rename("sessions", "sessions_old"), Rename("hostbans", "hostbans_old")>>
           copies == <<Copy("sessions_old", "sessions", {}), Copy("hostbans_old", "hostbans", {}),
                       Drop("sessions_old"), Drop("hostbans_old")>>
           start == renames \o InitDb
           body == start \o copies
           last == <<Commit>>
<1>1. /\ Rename("sessions", "sessions_old") \in Statements
      /\ Rename("hostbans", "hostbans_old") \in Statements
      /\ Copy("sessions_old", "sessions", {}) \in Statements
      /\ Copy("hostbans_old", "hostbans", {}) \in Statements
      /\ Drop("sessions_old") \in Statements /\ Drop("hostbans_old") \in Statements
      /\ Commit \in Statements
  BY ConstructorsTyped, NamesTyped
<1>2. /\ renames \in Seq(Statements) /\ copies \in Seq(Statements) /\ last \in Seq(Statements)
      /\ Len(renames) = 2 /\ Len(copies) = 4 /\ Len(last) = 1
      /\ renames[1] = RenameSessions /\ renames[2] = RenameBans
      /\ copies[1] = Copy("sessions_old", "sessions", {}) /\ copies[2] = CopyBans
      /\ copies[3] = DropOld /\ copies[4] = DropBans /\ last[1] = Commit
  BY <1>1 DEF RenameSessions, RenameBans, CopyBans, DropOld, DropBans
<1>3. InitDb \in Seq(Statements) /\ Len(InitDb) = 8 /\ DOMAIN InitDb = 1..8
  BY InitDbTyped DEF InitDb
<1>4. LegacyScript = body \o last
  BY DEF LegacyScript, MigrateFromLegacyFormat
<1> HIDE DEF renames, copies, last
<1>5. /\ start \in Seq(Statements) /\ Len(start) = 10
      /\ \A i \in 1..10 : start[i] = IF i <= 2 THEN renames[i] ELSE InitDb[i - 2]
  <2>1. /\ start \in Seq(Statements) /\ Len(start) = Len(renames) + Len(InitDb)
        /\ \A i \in 1..(Len(renames) + Len(InitDb)) :
             start[i] = IF i <= Len(renames) THEN renames[i] ELSE InitDb[i - Len(renames)]
    BY <1>2, <1>3, ConcatProperties
  <2> HIDE DEF start
  <2> QED BY <1>2, <1>3, <2>1
<1> HIDE DEF start
<1>6. /\ body \in Seq(Statements) /\ Len(body) = 14
      /\ \A i \in 1..14 : body[i] = IF i <= 10 THEN start[i] ELSE copies[i - 10]
  <2>1. /\ body \in Seq(Statements) /\ Len(body) = Len(start) + Len(copies)
        /\ \A i \in 1..(Len(start) + Len(copies)) :
             body[i] = IF i <= Len(start) THEN start[i] ELSE copies[i - Len(start)]
    BY <1>2, <1>5, ConcatProperties
  <2> HIDE DEF body
  <2> QED BY <1>2, <1>5, <2>1
<1> HIDE DEF body
<1>7. /\ LegacyScript \in Seq(Statements) /\ Len(LegacyScript) = 15
      /\ \A i \in 1..15 : LegacyScript[i] = IF i <= 14 THEN body[i] ELSE last[i - 14]
  <2>1. /\ LegacyScript \in Seq(Statements) /\ Len(LegacyScript) = Len(body) + Len(last)
        /\ \A i \in 1..(Len(body) + Len(last)) :
             LegacyScript[i] = IF i <= Len(body) THEN body[i] ELSE last[i - Len(body)]
    BY <1>2, <1>4, <1>6, ConcatProperties
  <2> QED BY <1>2, <1>6, <2>1
<1>8. /\ LegacyScript[1] = renames[1] /\ LegacyScript[2] = renames[2]
      /\ \A i \in 3..10 : LegacyScript[i] = InitDb[i - 2]
      /\ \A i \in 11..14 : LegacyScript[i] = copies[i - 10]
      /\ LegacyScript[15] = last[1]
  BY <1>5, <1>6, <1>7
<1>9. ASSUME NEW i \in 1..13 PROVE Stage(LegacyScript[i]) \in 1..5
  <2>1. CASE i \in 3..10
    <3>1. i - 2 \in DOMAIN InitDb
      BY <1>3, <2>1
    <3> QED BY <1>8, <2>1, <3>1, InitDbScripted
  <2>2. CASE i \in {1, 2}
    BY <1>2, <1>8, <2>2, StagesOfStatements DEF RenameBans
  <2>3. CASE i \in {11, 12, 13}
    BY <1>2, <1>8, <2>3, StagesOfStatements DEF CopyBans
  <2> QED BY <2>1, <2>2, <2>3
<1> QED BY <1>2, <1>7, <1>8, <1>9

LEMMA LegacyGoesOn ==
  ASSUME TypeOK, NEW k \in 1..14, LegacyAt(k), todo' = Tail(todo)
  PROVE  todo # <<>> /\ Head(todo) = LegacyScript[k] /\ LegacyAt(k + 1)'
<1>1. todo \in Seq(Statements) /\ Len(todo) = 16 - k /\ Len(todo) >= 2
  BY DEF TypeOK, LegacyAt
<1>2. /\ todo # <<>> /\ Head(todo) = todo[1] /\ Len(todo') = 15 - k
      /\ \A i \in 1..(15 - k) : todo'[i] = todo[i + 1]
  BY <1>1
<1>3. todo[1] = LegacyScript[k] /\ \A i \in 1..(15 - k) : todo[i + 1] = LegacyScript[i + k]
  BY DEF LegacyAt
<1> QED BY <1>2, <1>3 DEF LegacyAt

LEMMA LegacyEnds ==
  ASSUME TypeOK', LegacyAt(15)'
  PROVE  Harmless(todo')
<1>1. DOMAIN todo' = 1..1 /\ todo'[1] = Commit
  BY LegacyInPlaces DEF TypeOK, LegacyAt
<1>2. Commit \notin {Inspect, DropBans}
  BY DEF Commit, Inspect, DropBans, Drop
<1> QED BY <1>1, <1>2 DEF Harmless

LEMMA NoQuestion == \A statement : Stage(statement) # 0 => ~ IsQuestion(statement) /\ statement # Begin
BY DEF Stage, IsQuestion, Begin

LEMMA MostHarmless ==
  /\ Begin \notin {Inspect, DropBans} /\ Commit \notin {Inspect, DropBans}
  /\ \A version : Lacks(version) \notin {Inspect, DropBans}
  /\ \A column : AddColumn(column) \notin {Inspect, DropBans}
  /\ \A table, columns : /\ Create(table, columns) \notin {Inspect, DropBans}
                         /\ Rename(table, columns) \notin {Inspect, DropBans}
                         /\ Fill(table, columns) \notin {Inspect, DropBans}
  /\ \A from, to, columns : Copy(from, to, columns) \notin {Inspect, DropBans}
  /\ DropOld \notin {Inspect, DropBans}
BY DEF Begin, Commit, Inspect, DropBans, DropOld, Lacks, AddColumn, Create, Rename, Fill, Copy,
       Drop

LEMMA AnswersHarmless ==
  ASSUME NEW question \in Statements, IsQuestion(question), NEW d
  PROVE  \/ question = Inspect /\ Answer(question, d) = MigrateFromLegacyFormat
         \/ Harmless(Answer(question, d))
<1>1. Harmless(<<>>)
  BY DEF Harmless
<1>2. Harmless(InitDb)
  <2>1. ASSUME NEW i \in DOMAIN InitDb PROVE InitDb[i] \notin {Inspect, DropBans}
    BY InitDbScripted, StagesOfStatements DEF DropBans
  <2> QED BY <2>1 DEF Harmless
<1>3. CASE question.op = "lacks"
  <2>1. question.version \in 2..4 /\ question # Inspect
    BY <1>3 DEF Statements, Inspect
  <2>2. Harmless(MigrateActiveDrawingUsers) /\ Harmless(MigrateAllowWeb)
    BY MostHarmless DEF MigrateActiveDrawingUsers, MigrateAllowWeb, Harmless
  <2>3. Harmless(MigrateRoomcodeRemoval)
    BY MostHarmless DEF MigrateRoomcodeRemoval, CreateSessionsTable, DropOld, Harmless
  <2> QED BY <1>1, <2>1, <2>2, <2>3 DEF Answer, Migration
<1>4. CASE question.op = "inspect"
  <2>1. question = Inspect
    BY <1>4 DEF Statements, Inspect
  <2>2. Harmless(<<Lacks(2), Lacks(3), Lacks(4)>>)
    BY MostHarmless DEF Harmless
  <2> QED BY <1>2, <2>1, <2>2 DEF Answer
<1> QED BY <1>3, <1>4 DEF IsQuestion

LEMMA HarmlessRest ==
  ASSUME NEW s \in Seq(Statements), s # <<>>, Harmless(s)
  PROVE  Head(s) \notin {Inspect, DropBans} /\ Harmless(Tail(s))
<1>1. /\ 1 \in DOMAIN s /\ Head(s) = s[1]
      /\ \A i \in DOMAIN Tail(s) : i + 1 \in DOMAIN s /\ Tail(s)[i] = s[i + 1]
  OBVIOUS
<1> QED BY <1>1 DEF Harmless

LEMMA HarmlessTogether ==
  ASSUME NEW s \in Seq(Statements), NEW t \in Seq(Statements), Harmless(s), Harmless(t)
  PROVE  Harmless(s \o t)
BY ConcatElements DEF Harmless

\* What a statement of the scripts does to the rows of hostbans.
LEMMA ResultOnBans ==
  ASSUME NEW statement \in Statements, Occurs(statement), NEW d \in Databases,
         Prepares(statement, d)
  PROVE  LET r == Result(statement, d) IN
         /\ HasBans(d) /\ (statement = DropBans => AllBansCopied(d)) => HasBans(r)
         /\ statement = RenameBans => ~ Exists("hostbans_old", d)
         /\ statement = DropBans => Exists("hostbans_old", d)
         /\ statement = CopyBans /\ HasBans(d) => AllBansCopied(r)
         /\ statement \in {RenameSessions, DropOld} =>
              r["hostbans_old"] = d["hostbans_old"] /\ r["hostbans"] = d["hostbans"]
<1> DEFINE r == Result(statement, d)
<1>1. /\ DOMAIN d = Tables
      /\ "hostbans" \in Tables /\ "hostbans_old" \in Tables
      /\ "sessions" \in Tables /\ "sessions_old" \in Tables
      /\ \A table \in Tables : Exists(table, d) => d[table] \in TableStates
  BY DEF Databases, Tables, Exists
<1>2. /\ RenameBans.op = "rename" /\ RenameSessions.op = "rename" /\ CopyBans.op = "copy"
      /\ DropBans.op = "drop" /\ DropOld.op = "drop"
      /\ RenameBans.table = "hostbans" /\ RenameBans.new = "hostbans_old"
      /\ RenameSessions.table = "sessions" /\ RenameSessions.new = "sessions_old"
      /\ CopyBans.from = "hostbans_old" /\ CopyBans.to = "hostbans"
      /\ DropBans.table = "hostbans_old" /\ DropOld.table = "sessions_old"
  BY DEF RenameBans, RenameSessions, CopyBans, DropBans, DropOld, Rename, Copy, Drop
<1>3. CASE statement.op = "rename"
  <2>1. CASE statement = RenameSessions
    <3>1. r["hostbans"] = d["hostbans"] /\ r["hostbans_old"] = d["hostbans_old"]
      BY <1>1, <1>2, <2>1 DEF Result
    <3> QED BY <1>2, <2>1, <3>1 DEF HasBans, Exists
  <2>2. CASE statement.table = "hostbans" /\ statement.new = "hostbans_old"
    <3>1. Exists("hostbans", d) /\ ~ Exists("hostbans_old", d)
      BY <1>3, <2>2 DEF Prepares
    <3>2. r["hostbans_old"] = d["hostbans"]
      BY <1>1, <1>3, <2>2 DEF Result
    <3> QED BY <1>2, <1>3, <2>2, <3>1, <3>2 DEF HasBans, Exists
  <2> QED BY <1>3, <2>1, <2>2 DEF Occurs
<1>4. CASE statement.op = "create"
  <2>1. statement.table \in Tables /\ ~ Exists(statement.table, d)
    BY <1>4 DEF Statements, Prepares
  <2>2. \A table \in Tables : Exists(table, d) => r[table] = d[table]
    BY <1>1, <1>4, <2>1 DEF Result
  <2> QED BY <1>1, <1>2, <1>4, <2>2 DEF HasBans, Exists
<1>5. CASE statement.op = "add"
  <2>1. r["hostbans"] = d["hostbans"] /\ r["hostbans_old"] = d["hostbans_old"]
    BY <1>1, <1>5 DEF Result
  <2> QED BY <1>2, <1>5, <2>1 DEF HasBans, Exists
<1>6. CASE statement.op = "fill"
  <2>1. statement.table \in Tables /\ Exists(statement.table, d) /\ statement.rows \in SUBSET Rows
    BY <1>6 DEF Statements, Prepares
  <2>2. \A table \in Tables \ {statement.table} : r[table] = d[table]
    BY <1>1, <1>6, <2>1 DEF Result
  <2>3. /\ r[statement.table] \in TableStates
        /\ d[statement.table].rows \subseteq r[statement.table].rows
    <3>1. r[statement.table] = [d[statement.table] EXCEPT !.rows = @ \cup statement.rows]
      BY <1>1, <1>6, <2>1 DEF Result
    <3> QED BY <1>1, <2>1, <3>1 DEF TableStates
  <2>4. Exists(statement.table, r)
    BY <2>3, NoTableAssumption DEF Exists
  <2>5. \A table \in Tables : Exists(table, d) =>
          Exists(table, r) /\ d[table].rows \subseteq r[table].rows
    BY <2>2, <2>3, <2>4 DEF Exists
  <2> QED BY <1>1, <1>2, <1>6, <2>5 DEF HasBans
<1>7. CASE statement.op = "copy"
  <2>1. /\ statement.from \in Tables /\ Exists(statement.from, d)
        /\ statement.to \in Tables /\ Exists(statement.to, d)
    BY <1>7 DEF Statements, Prepares
  <2>2. \A table \in Tables \ {statement.to} : r[table] = d[table]
    BY <1>1, <1>7, <2>1 DEF Result
  <2>3. /\ r[statement.to] \in TableStates
        /\ r[statement.to].rows = d[statement.to].rows \cup d[statement.from].rows
    <3>1. r[statement.to] = [d[statement.to] EXCEPT !.rows = @ \cup d[statement.from].rows]
      BY <1>1, <1>7, <2>1 DEF Result
    <3> QED BY <1>1, <2>1, <3>1 DEF TableStates
  <2>4. Exists(statement.to, r)
    BY <2>3, NoTableAssumption DEF Exists
  <2>5. \A table \in Tables : Exists(table, d) =>
          Exists(table, r) /\ d[table].rows \subseteq r[table].rows
    BY <2>2, <2>3, <2>4 DEF Exists
  <2>6. HasBans(d) => HasBans(r)
    BY <1>1, <2>5 DEF HasBans
  <2>7. statement = CopyBans /\ HasBans(d) => AllBansCopied(r)
    BY <1>2, <2>3, <2>4 DEF HasBans, AllBansCopied
  <2> QED BY <1>2, <1>7, <2>6, <2>7
<1>8. CASE statement.op = "drop"
  <2>1. /\ statement.table \in {"sessions_old", "hostbans_old"}
        /\ Exists(statement.table, d)
    BY <1>8 DEF Occurs, Prepares
  <2>2. r["hostbans"] = d["hostbans"]
    BY <1>1, <1>8, <2>1 DEF Result
  <2>3. CASE statement.table = "sessions_old"
    <3>1. r["hostbans_old"] = d["hostbans_old"]
      BY <1>1, <1>8, <2>3 DEF Result
    <3> QED BY <1>2, <1>8, <2>2, <2>3, <3>1 DEF HasBans, Exists
  <2>4. CASE statement.table = "hostbans_old"
    <3>1. statement = DropBans
      BY <1>8, <2>4 DEF Statements, DropBans, Drop
    <3> QED BY <1>2, <2>1, <2>2, <3>1 DEF HasBans, AllBansCopied, Exists
  <2> QED BY <2>1, <2>3, <2>4
<1>9. CASE statement.op \in {"begin", "commit"}
  <2>1. r = d
    BY <1>9 DEF Result
  <2> QED BY <1>2, <1>9, <2>1
<1> QED BY <1>3, <1>4, <1>5, <1>6, <1>7, <1>8, <1>9 DEF Prepares

\* Where bans are dropped, and what the statement at the head may be.
LEMMA BansHead ==
  ASSUME TypeOK, RowsInv, BansInv, AtStatement
  PROVE  /\ Statement \in Statements /\ Occurs(Statement)
         /\ todo' = Tail(todo) =>
              \/ todo = <<Begin, Inspect, Commit>> /\ db = disk /\ Statement = Begin
                 /\ todo' = <<Inspect, Commit>>
              \/ Statement # DropBans /\ Harmless(todo')
              \/ \E k \in 1..14 : /\ LegacyAt(k) /\ BansOnTheWay(k)
                                  /\ Statement = LegacyScript[k] /\ LegacyAt(k + 1)'
<1>1. Statement \in Statements /\ Occurs(Statement)
  BY HeadGone DEF RowsInv
<1>2. todo \in Seq(Statements) /\ todo # <<>> /\ ~ IsQuestion(Statement)
  BY DEF TypeOK, AtStatement
<1>3. ASSUME todo = <<Begin, Inspect, Commit>>, db = disk, todo' = Tail(todo)
      PROVE  Statement = Begin /\ todo' = <<Inspect, Commit>>
  BY <1>3 DEF Statement
<1>4. todo # <<Inspect, Commit>>
  <2>1. Head(<<Inspect, Commit>>) = Inspect /\ IsQuestion(Inspect)
    BY DEF IsQuestion, Inspect
  <2> QED BY <1>2, <2>1 DEF Statement
<1>5. ASSUME Harmless(todo), todo' = Tail(todo) PROVE Statement # DropBans /\ Harmless(todo')
  BY <1>2, <1>5, HarmlessRest DEF Statement
<1>6. ASSUME NEW k \in 1..14, LegacyAt(k), BansOnTheWay(k), todo' = Tail(todo)
      PROVE  Statement = LegacyScript[k] /\ LegacyAt(k + 1)'
  BY <1>6, LegacyGoesOn DEF Statement
<1> QED BY <1>1, <1>3, <1>4, <1>5, <1>6 DEF BansInv

LEMMA AskKeepsBansInv == TypeOK /\ BansInv /\ Ask => BansInv'
<1> SUFFICES ASSUME TypeOK, BansInv, Ask PROVE BansInv'
  OBVIOUS
<1> DEFINE answer == Answer(Statement, db)
           rest == Tail(todo)
<1>1. /\ todo \in Seq(Statements) /\ todo # <<>> /\ IsQuestion(Statement)
      /\ todo' = answer \o rest
      /\ UNCHANGED <<disk, db, inTx, first, failed>>
  BY DEF TypeOK, Ask, Continue, bounds
<1>2. Statement \in Statements /\ rest \in Seq(Statements)
  BY <1>1 DEF Statement
<1>3. answer \in Seq(Statements)
  BY <1>1, <1>2, AnswerTyped
<1>4. \/ Statement = Inspect /\ answer = MigrateFromLegacyFormat
      \/ Harmless(answer)
  BY <1>1, <1>2, AnswersHarmless
<1> HIDE DEF answer
<1>5. (RowsKept => HasBans(disk) /\ HasBans(db))'
  BY <1>1 DEF BansInv, RowsKept
<1>6. todo # <<Begin, Inspect, Commit>>
  <2>1. Head(<<Begin, Inspect, Commit>>) = Begin /\ ~ IsQuestion(Begin)
    BY DEF IsQuestion, Begin
  <2> QED BY <1>1, <2>1 DEF Statement
<1>7. CASE todo = <<Inspect, Commit>> /\ db = disk
  <2>1. rest = <<Commit>> /\ Harmless(rest)
    BY <1>7, MostHarmless DEF Harmless
  <2>2. CASE Harmless(answer)
    BY <1>1, <1>2, <1>3, <1>5, <2>1, <2>2, HarmlessTogether DEF BansInv
  <2>3. CASE answer = MigrateFromLegacyFormat
    <3>1. todo' = LegacyScript
      BY <1>1, <2>1, <2>3 DEF LegacyScript
    <3>2. LegacyAt(1)'
      BY <3>1, LegacyInPlaces DEF LegacyAt
    <3>3. BansOnTheWay(1)'
      BY <1>1, <1>7 DEF BansOnTheWay
    <3> QED BY <1>5, <3>2, <3>3 DEF BansInv
  <2> QED BY <1>4, <2>2, <2>3
<1>8. CASE Harmless(todo)
  <2>1. Statement # Inspect /\ Harmless(rest)
    BY <1>1, <1>8, HarmlessRest DEF Statement
  <2> QED BY <1>1, <1>2, <1>3, <1>4, <1>5, <2>1, HarmlessTogether DEF BansInv
<1>9. ASSUME NEW k \in 1..14, LegacyAt(k) PROVE FALSE
  <2>1. todo[1] = LegacyScript[k]
    BY <1>9 DEF LegacyAt
  <2>2. Stage(LegacyScript[k]) # 0
    <3>1. CASE k \in 1..13
      <4>1. Stage(LegacyScript[k]) \in 1..5
        BY <3>1, LegacyInPlaces
      <4> QED BY <4>1
    <3>2. CASE k = 14
      <4>1. LegacyScript[k] = DropBans
        BY <3>2, LegacyInPlaces
      <4>2. Stage(DropBans) = 6
        BY StagesOfStatements DEF DropBans
      <4> QED BY <4>1, <4>2
    <3>3. k \in 1..13 \/ k = 14
      OBVIOUS
    <3> QED BY <3>1, <3>2, <3>3
  <2>3. Statement = todo[1]
    BY <1>1 DEF Statement
  <2> QED BY <1>1, <2>1, <2>2, <2>3, NoQuestion
<1> QED BY <1>6, <1>7, <1>8, <1>9 DEF BansInv

LEMMA DoneKeepsBansInv == TypeOK /\ TypeOK' /\ RowsInv /\ BansInv /\ SqliteExecDone => BansInv'
<1> SUFFICES ASSUME TypeOK, TypeOK', RowsInv, BansInv, SqliteExecDone PROVE BansInv'
  OBVIOUS
<1> DEFINE statement == Statement
<1>1. /\ AtStatement /\ Prepares(statement, db)
      /\ db' = Result(statement, db)
      /\ inTx' = (statement = Begin \/ (inTx /\ statement # Commit))
      /\ disk' = IF inTx /\ statement # Commit THEN disk ELSE db'
      /\ todo' = Tail(todo) /\ first' = first /\ failed' = failed
      /\ db \in Databases /\ (RowsKept' <=> RowsKept)
  BY DEF SqliteExecDone, Continue, bounds, TypeOK, RowsKept
<1>2. /\ statement \in Statements /\ Occurs(statement)
      /\ \/ todo = <<Begin, Inspect, Commit>> /\ db = disk /\ statement = Begin
            /\ todo' = <<Inspect, Commit>>
         \/ statement # DropBans /\ Harmless(todo')
         \/ \E k \in 1..14 : /\ LegacyAt(k) /\ BansOnTheWay(k)
                             /\ statement = LegacyScript[k] /\ LegacyAt(k + 1)'
  BY <1>1, BansHead
<1> HIDE DEF statement
<1>3. /\ HasBans(db) /\ (statement = DropBans => AllBansCopied(db)) => HasBans(db')
      /\ statement = RenameBans => ~ Exists("hostbans_old", db)
      /\ statement = DropBans => Exists("hostbans_old", db)
      /\ statement = CopyBans /\ HasBans(db) => AllBansCopied(db')
      /\ statement \in {RenameSessions, DropOld} =>
           db'["hostbans_old"] = db["hostbans_old"] /\ db'["hostbans"] = db["hostbans"]
  BY <1>1, <1>2, ResultOnBans
<1>4. Begin # DropBans /\ Result(Begin, db) = db /\ Begin # Commit
  BY DEF Begin, Commit, DropBans, Drop, Result
<1>5. ASSUME NEW k \in 1..14, LegacyAt(k), BansOnTheWay(k), RowsKept, statement = LegacyScript[k],
             statement = DropBans
      PROVE  AllBansCopied(db)
  <2>1. k = 14
    <3>1. Stage(DropBans) = 6
      BY StagesOfStatements DEF DropBans
    <3>2. Stage(LegacyScript[k]) = 6
      BY <1>5, <3>1
    <3>3. k \notin 1..13
      <4> SUFFICES ASSUME k \in 1..13 PROVE FALSE
        OBVIOUS
      <4>1. Stage(LegacyScript[k]) \in 1..5
        BY LegacyInPlaces
      <4> QED BY <3>2, <4>1
    <3> QED BY <3>3
  <2> QED BY <1>3, <1>5, <2>1 DEF BansOnTheWay
<1>6. ASSUME RowsKept PROVE HasBans(disk') /\ HasBans(db')
  <2>1. HasBans(disk) /\ HasBans(db)
    BY <1>6 DEF BansInv
  <2>2. statement = DropBans => AllBansCopied(db)
    BY <1>2, <1>4, <1>5, <1>6
  <2> QED BY <1>1, <1>3, <2>1, <2>2
<1>7. CASE /\ todo = <<Begin, Inspect, Commit>> /\ db = disk /\ statement = Begin
           /\ todo' = <<Inspect, Commit>>
  <2>1. db' = disk'
    BY <1>1, <1>4, <1>7
  <2> QED BY <1>1, <1>6, <1>7, <2>1 DEF BansInv
<1>8. CASE Harmless(todo')
  BY <1>1, <1>6, <1>8 DEF BansInv
<1>9. ASSUME NEW k \in 1..14, LegacyAt(k), BansOnTheWay(k), statement = LegacyScript[k],
             LegacyAt(k + 1)'
      PROVE  BansInv'
  <2>1. CASE k = 14
    <3>1. LegacyAt(15)'
      BY <1>9, <2>1
    <3> QED BY <1>8, <3>1, LegacyEnds
  <2>2. CASE k \in 1..13
    <3>1. statement # Begin /\ statement # DropBans
      <4>1. Stage(statement) \in 1..5 /\ Stage(DropBans) = 6
        BY <1>9, <2>2, LegacyInPlaces, StagesOfStatements DEF DropBans
      <4> QED BY <4>1, NoQuestion
    <3>2. inTx' => inTx /\ disk' = disk
      BY <1>1, <3>1
    <3>3. ASSUME inTx', k + 1 <= 2 PROVE db'["hostbans_old"] = disk'["hostbans_old"]
      <4>1. k = 1 /\ statement = RenameSessions
        BY <1>9, <3>3, LegacyInPlaces
      <4>2. db["hostbans_old"] = disk["hostbans_old"]
        BY <1>9, <3>2, <3>3, <4>1 DEF BansOnTheWay
      <4> QED BY <1>3, <3>2, <3>3, <4>1, <4>2
    <3>4. ASSUME inTx', k + 1 > 2 PROVE ~ Exists("hostbans_old", disk')
      <4>1. CASE k = 2
        <5>1. statement = RenameBans /\ db["hostbans_old"] = disk["hostbans_old"]
          BY <1>9, <3>2, <3>4, <4>1, LegacyInPlaces DEF BansOnTheWay
        <5> QED BY <1>3, <3>2, <3>4, <5>1 DEF Exists
      <4>2. CASE k > 2
        BY <1>9, <3>2, <3>4, <4>2 DEF BansOnTheWay
      <4> QED BY <3>4, <4>1, <4>2
    <3>5. ASSUME RowsKept, k + 1 \in {13, 14}
          PROVE  AllBansCopied(db') \/ ~ Exists("hostbans_old", db')
      <4>1. CASE k = 12
        <5>1. statement = CopyBans /\ HasBans(db)
          BY <1>9, <3>5, <4>1, LegacyInPlaces DEF BansInv
        <5> QED BY <1>3, <5>1
      <4>2. CASE k = 13
        <5>1. statement = DropOld /\ (AllBansCopied(db) \/ ~ Exists("hostbans_old", db))
          BY <1>9, <3>5, <4>2, LegacyInPlaces DEF BansOnTheWay
        <5> QED BY <1>3, <5>1 DEF AllBansCopied, Exists
      <4> QED BY <3>5, <4>1, <4>2
    <3>6. BansOnTheWay(k + 1)' /\ k + 1 \in 1..14
      BY <1>1, <2>2, <3>3, <3>4, <3>5 DEF BansOnTheWay
    <3> QED BY <1>1, <1>6, <1>9, <3>6 DEF BansInv
  <2> QED BY <2>1, <2>2
<1> QED BY <1>2, <1>7, <1>8, <1>9

LEMMA FailureKeepsBansInv ==
  TypeOK /\ TypeOK' /\ RowsInv /\ BansInv /\ (SqliteExecAborts \/ SqliteExecRollsBack) => BansInv'
<1> SUFFICES ASSUME TypeOK, TypeOK', RowsInv, BansInv, SqliteExecAborts \/ SqliteExecRollsBack
             PROVE  BansInv'
  OBVIOUS
<1> DEFINE statement == Statement
<1>1. /\ AtStatement /\ Prepares(statement, db) /\ db \in Databases
      /\ todo' = Tail(todo) /\ disk' = disk /\ first' = first
      /\ failed \subseteq failed' /\ (RowsKept' => RowsKept)
  BY DEF SqliteExecAborts, SqliteExecRollsBack, Continue, RowsKept, TypeOK
<1>2. /\ statement \in Statements /\ Occurs(statement)
      /\ \/ todo = <<Begin, Inspect, Commit>> /\ db = disk /\ statement = Begin
            /\ todo' = <<Inspect, Commit>>
         \/ statement # DropBans /\ Harmless(todo')
         \/ \E k \in 1..14 : /\ LegacyAt(k) /\ BansOnTheWay(k)
                             /\ statement = LegacyScript[k] /\ LegacyAt(k + 1)'
  BY <1>1, BansHead
<1>3. \/ SqliteExecRollsBack /\ inTx /\ db' = disk /\ inTx' = FALSE
      \/ /\ SqliteExecAborts /\ db' = db /\ inTx' = inTx
         /\ statement.op = "copy" => ~ RowsKept'
  BY DEF SqliteExecAborts, SqliteExecRollsBack, RowsKept
<1> HIDE DEF statement
<1>4. (RowsKept => HasBans(disk) /\ HasBans(db))'
  BY <1>1, <1>3 DEF BansInv
<1>5. CASE /\ todo = <<Begin, Inspect, Commit>> /\ db = disk /\ statement = Begin
           /\ todo' = <<Inspect, Commit>>
  <2>1. db' = disk'
    BY <1>1, <1>3, <1>5
  <2> QED BY <1>4, <1>5, <2>1 DEF BansInv
<1>6. CASE Harmless(todo')
  BY <1>4, <1>6 DEF BansInv
<1>7. ASSUME NEW k \in 1..14, LegacyAt(k), BansOnTheWay(k), statement = LegacyScript[k],
             LegacyAt(k + 1)'
      PROVE  BansInv'
  <2>1. CASE k = 14
    <3>1. LegacyAt(15)'
      BY <1>7, <2>1
    <3> QED BY <1>6, <3>1, LegacyEnds
  <2>2. CASE k \in 1..13
    <3>1. ASSUME inTx', k + 1 <= 2 PROVE db'["hostbans_old"] = disk'["hostbans_old"]
      <4>1. db' = db /\ inTx /\ disk' = disk
        BY <1>1, <1>3, <3>1
      <4>2. k <= 2
        BY <3>1
      <4>3. db["hostbans_old"] = disk["hostbans_old"]
        BY <1>7, <4>1, <4>2 DEF BansOnTheWay
      <4> QED BY <4>1, <4>3
    <3>2. ASSUME inTx, k >= 2 PROVE ~ Exists("hostbans_old", disk)
      <4>1. CASE k = 2
        <5>1. statement = RenameBans /\ db["hostbans_old"] = disk["hostbans_old"]
          BY <1>7, <3>2, <4>1, LegacyInPlaces DEF BansOnTheWay
        <5>2. ~ Exists("hostbans_old", db)
          BY <1>1, <1>2, <5>1, ResultOnBans
        <5> QED BY <5>1, <5>2 DEF Exists
      <4>2. CASE k > 2
        BY <1>7, <3>2, <4>2 DEF BansOnTheWay
      <4> QED BY <3>2, <4>1, <4>2
    <3>3. ASSUME RowsKept', k + 1 \in {13, 14}
          PROVE  AllBansCopied(db') \/ ~ Exists("hostbans_old", db')
      <4>1. CASE inTx /\ db' = disk
        BY <3>2, <3>3, <4>1
      <4>2. CASE db' = db /\ (statement.op = "copy" => ~ RowsKept')
        <5>1. CopyBans.op = "copy"
          BY DEF CopyBans, Copy
        <5>2. k = 13
          BY <1>7, <3>3, <4>2, <5>1, LegacyInPlaces
        <5> QED BY <1>1, <1>7, <3>3, <4>2, <5>2 DEF BansOnTheWay
      <4> QED BY <1>3, <4>1, <4>2
    <3>4. BansOnTheWay(k + 1)' /\ k + 1 \in 1..14
      BY <1>1, <1>3, <2>2, <3>1, <3>2, <3>3 DEF BansOnTheWay
    <3> QED BY <1>4, <1>7, <3>4 DEF BansInv
  <2> QED BY <2>1, <2>2
<1> QED BY <1>2, <1>5, <1>6, <1>7

LEMMA BansInvariant == Spec => []BansInv
<1>1. Init => BansInv
  <2> SUFFICES ASSUME Init PROVE BansInv
    OBVIOUS
  <2>1. "hostbans" \in Tables /\ first \in Firsts
    BY DEF Init, Tables
  <2>2. /\ \A version : Format(version, Sessions, Bans)["hostbans"] = Table({"id"}, Bans)
        /\ Legacy["hostbans"] = Table({}, Bans)
    BY <2>1 DEF Format, Legacy
  <2>3. \A columns \in SUBSET Columns : /\ Table(columns, Bans) \in TableStates
                                        /\ Table(columns, Bans).rows = Bans
    BY DEF Table, TableStates, Rows
  <2>4. {} \in SUBSET Columns /\ {"id"} \in SUBSET Columns
    BY DEF Columns
  <2>5. first # Empty => HasBans(first)
    BY <2>1, <2>2, <2>3, <2>4, NoTableAssumption DEF Firsts, HasBans, Exists
  <2>6. Harmless(<<>>)
    BY DEF Harmless
  <2> QED BY <2>5, <2>6 DEF Init, BansInv, RowsKept
<1>2. TypeOK /\ TypeOK' /\ RowsInv /\ BansInv /\ [Next]_vars => BansInv'
  <2> SUFFICES ASSUME TypeOK, TypeOK', RowsInv, BansInv, [Next]_vars PROVE BansInv'
    OBVIOUS
  <2>1. CASE Start \/ ServiceStep \/ UNCHANGED vars
    <3>1. UNCHANGED <<disk, db, inTx, todo, first, failed>>
      BY <2>1 DEF Start, ServiceStep, RunReadOnly, Migrated, StartListener, Notify, Listen,
             ListenFails, Interrupt, Accept, Finish, BeginShutdown, Wait, Drained, CloseDatabase,
             Continue, vars, database, bounds
    <3> QED BY <3>1 DEF BansInv, RowsKept, Harmless, LegacyAt, BansOnTheWay
  <2>2. CASE OpenDatabase
    BY <2>2 DEF OpenDatabase, Continue, bounds, BansInv, RowsKept
  <2>3. CASE EndStep
    <3>1. /\ db' = disk /\ disk' = disk /\ todo' = <<>>
          /\ first' = first /\ failed' = failed
      BY <2>3 DEF EndStep, DatabaseUnusable, SqliteExecPanics, ServerFails, CloseNothing, Exit,
             CleanupWithoutPool, Crash, Stop, bounds
    <3>2. Harmless(todo')
      BY <3>1 DEF Harmless
    <3> QED BY <3>1, <3>2 DEF BansInv, RowsKept
  <2> QED BY <2>1, <2>2, <2>3, AskKeepsBansInv, DoneKeepsBansInv, FailureKeepsBansInv, NextSteps
<1> QED BY <1>1, <1>2, LifeTypeCorrect, RowsInvariant, PTL DEF Spec

\* Whatever fails, and wherever the process is killed, sessions and bans are lost
\* only where a copy failed (db_sqlite.go:138-183).
THEOREM RowsAreKept == Spec => []RowsSurvive
<1>1. RowsInv /\ BansInv => RowsSurvive
  BY DEF RowsInv, BansInv, RowsKept, RowsSurvive
<1> QED BY <1>1, RowsInvariant, BansInvariant, PTL

=============================================================================
