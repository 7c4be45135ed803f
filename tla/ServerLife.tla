----------------------------- MODULE ServerLife -----------------------------
(***************************************************************************)
(* The life of the process: the warm-up, the database and its migrations,  *)
(* the listener, signals and the shutdown (listserver.go,                  *)
(* db/database.go, db/db_sqlite.go), from one start to the next.           *)
(*                                                                         *)
(* The migrations are a script of statements that runs in one transaction. *)
(* sqliteExec panics when a statement cannot be prepared and drops the     *)
(* error when one fails as it runs, so the script goes on. The process may *)
(* end between any two steps; what it had not committed is gone.           *)
(*                                                                         *)
(* Rows only keep their identity, and of the columns those that some       *)
(* migration is about. What requests do to the rows is ListServer's.       *)
(***************************************************************************)
EXTENDS Naturals, Sequences

CONSTANTS
  Requests,        \* requests in flight at a time
  Sessions, Bans,  \* rows of a database older than this version of the server
  NoTable,         \* no table of this name
  SessionTimeout,  \* the setting, here in seconds
  Modes,           \* "file": with a database, "none": in read-only mode
  MaxFailures,     \* bound: statements that fail
  MaxStarts        \* bound: starts of the process

Tables == {"migrations", "sessions", "sessions_old", "hostbans", "hostbans_old",
           "accesslevels", "roles", "users"}

\* The columns that came or went with a format: id with versions as such,
\* roomcode until version 4.
Columns == {"id", "roomcode", "active_drawing_users", "allow_web"}

Versions == 1..4

Rows == Sessions \cup Bans \cup 0..4

TableStates == [columns : SUBSET Columns, rows : SUBSET Rows]

Databases == [Tables -> TableStates \cup {NoTable}]

ASSUME NoTableAssumption == NoTable \notin TableStates
ASSUME SettingsAssumption == SessionTimeout \in Nat /\ Modes \subseteq {"file", "none"}
ASSUME BoundAssumption == MaxFailures \in Nat /\ MaxStarts \in Nat

Exists(table, d) == d[table] # NoTable

-----------------------------------------------------------------------------
(* Formats of the database.                                                *)

Table(columns, rows) == [columns |-> columns, rows |-> rows]

SessionColumns(version) ==
  {"id"} \cup (IF version < 4 THEN {"roomcode"} ELSE {})
         \cup (IF version > 1 THEN {"active_drawing_users"} ELSE {})
         \cup (IF version > 2 THEN {"allow_web"} ELSE {})

Format(version, sessions, bans) ==
  [table \in Tables |->
     CASE table = "migrations"        -> Table({}, 1..version)
       [] table = "sessions"          -> Table(SessionColumns(version), sessions)
       [] table = "hostbans"          -> Table({"id"}, bans)
       [] table = "accesslevels"      -> Table({}, 0..2)
       [] table \in {"roles", "users"} -> Table({}, {})
       [] OTHER                       -> NoTable]

Legacy ==
  [table \in Tables |->
     CASE table = "sessions" -> Table({"roomcode"}, Sessions)
       [] table = "hostbans" -> Table({}, Bans)
       [] OTHER              -> NoTable]

Empty == [table \in Tables |-> NoTable]

\* What a server may find at its first start.
Firsts == {Empty, Legacy} \cup {Format(version, Sessions, Bans) : version \in Versions}

Current(d) == IF d = Empty THEN Format(4, {}, {}) ELSE Format(4, Sessions, Bans)

-----------------------------------------------------------------------------
(* Statements and scripts.                                                 *)

Begin  == [op |-> "begin"]
Commit == [op |-> "commit"]
Rename(table, new)      == [op |-> "rename", table |-> table, new |-> new]
Create(table, columns)  == [op |-> "create", table |-> table, columns |-> columns]
AddColumn(column)       == [op |-> "add", column |-> column]
Fill(table, rows)       == [op |-> "fill", table |-> table, rows |-> rows]
Copy(from, to, columns) == [op |-> "copy", from |-> from, to |-> to, columns |-> columns]
Drop(table)             == [op |-> "drop", table |-> table]

\* Questions about the database, on which the script branches.
Inspect       == [op |-> "inspect"]
Lacks(version) == [op |-> "lacks", version |-> version]

CreateSessionsTable == Create("sessions", SessionColumns(4))

InitDb ==
  <<Create("migrations", {}), CreateSessionsTable, Create("hostbans", {"id"}),
    Create("accesslevels", {}), Fill("accesslevels", 0..2),
    Create("roles", {}), Create("users", {}), Fill("migrations", 1..4)>>

MigrateFromLegacyFormat ==
  <<Rename("sessions", "sessions_old"), Rename("hostbans", "hostbans_old")>>
    \o InitDb
    \o <<Copy("sessions_old", "sessions", {}), Copy("hostbans_old", "hostbans", {}),
         Drop("sessions_old"), Drop("hostbans_old")>>

MigrateActiveDrawingUsers ==
  <<AddColumn("active_drawing_users"), Fill("migrations", {2})>>

MigrateAllowWeb == <<AddColumn("allow_web"), Fill("migrations", {3})>>

MigrateRoomcodeRemoval ==
  <<Rename("sessions", "sessions_old"), CreateSessionsTable,
    Copy("sessions_old", "sessions", SessionColumns(4)),
    Drop("sessions_old"), Fill("migrations", {4})>>

Migration(version) ==
  CASE version = 2 -> MigrateActiveDrawingUsers
    [] version = 3 -> MigrateAllowWeb
    [] version = 4 -> MigrateRoomcodeRemoval

\* What a question puts before the rest of the script.
Answer(question, d) ==
  CASE question = Inspect ->
         IF Exists("migrations", d) THEN <<Lacks(2), Lacks(3), Lacks(4)>>
         ELSE IF Exists("sessions", d) THEN MigrateFromLegacyFormat
         ELSE InitDb
    [] OTHER ->
         IF question.version \in d["migrations"].rows THEN <<>>
         ELSE Migration(question.version)

IsQuestion(statement) == statement.op \in {"inspect", "lacks"}

\* SQLite compiles a statement: do the names in it resolve?
Prepares(statement, d) ==
  \/ statement.op \in {"begin", "commit"}
  \/ statement.op = "rename" /\ Exists(statement.table, d) /\ ~ Exists(statement.new, d)
  \/ statement.op = "create" /\ ~ Exists(statement.table, d)
  \/ /\ statement.op = "add"
     /\ Exists("sessions", d) /\ statement.column \notin d["sessions"].columns
  \/ statement.op \in {"fill", "drop"} /\ Exists(statement.table, d)
  \/ /\ statement.op = "copy"
     /\ Exists(statement.from, d) /\ statement.columns \subseteq d[statement.from].columns
     /\ Exists(statement.to, d)

\* The database after a statement other than BEGIN and COMMIT.
Result(statement, d) ==
  CASE statement.op = "rename" ->
         [d EXCEPT ![statement.new] = d[statement.table], ![statement.table] = NoTable]
    [] statement.op = "create" ->
         [d EXCEPT ![statement.table] = Table(statement.columns, {})]
    [] statement.op = "add" ->
         [d EXCEPT !["sessions"].columns = @ \cup {statement.column}]
    [] statement.op = "fill" ->
         [d EXCEPT ![statement.table].rows = @ \cup statement.rows]
    [] statement.op = "copy" ->
         [d EXCEPT ![statement.to].rows = @ \cup d[statement.from].rows]
    [] statement.op = "drop" ->
         [d EXCEPT ![statement.table] = NoTable]
    [] OTHER -> d

-----------------------------------------------------------------------------
VARIABLES
  phase,     \* where the main goroutine is
  mode,      \* with a database or in read-only mode
  first,     \* the database the first start found
  disk,      \* the database as a new process would find it
  db,        \* the database as the connection of the migrations sees it
  inTx,      \* that connection is in a transaction
  todo,      \* the rest of the script
  failed,    \* history: kinds of statements that failed
  failures,  \* bound: how many
  starts,    \* bound: starts of the process
  listener,  \* the goroutine in ListenAndServe
  signal,    \* the channel of signals, which holds one
  req,       \* requests in flight
  lost,      \* requests a shutdown left without an answer from the database
  waited,    \* seconds the shutdown has waited
  exit       \* how the last process ended

database == <<disk, db, inTx, todo>>
service  == <<listener, signal, req, lost, waited>>
bounds   == <<failed, failures, starts>>
vars     == <<phase, mode, first, database, service, bounds, exit>>

Phases == {"down", "warming", "migrating", "starting", "waiting", "draining",
           "closing", "closed"}

Statements ==
  [op : {"begin", "commit", "inspect"}]
    \cup [op : {"rename"}, table : Tables, new : Tables]
    \cup [op : {"create"}, table : Tables, columns : SUBSET Columns]
    \cup [op : {"add"}, column : Columns]
    \cup [op : {"fill"}, table : Tables, rows : SUBSET Rows]
    \cup [op : {"copy"}, from : Tables, to : Tables, columns : SUBSET Columns]
    \cup [op : {"drop"}, table : Tables]
    \cup [op : {"lacks"}, version : 2..4]

Kinds == {"begin", "commit", "copy", "other", "rollback"}

\* Every variable has its type; tables hold rows and columns they may have.
TypeOK ==
  /\ phase \in Phases /\ mode \in {"file", "none"}
  /\ first \in Firsts /\ disk \in Databases /\ db \in Databases
  /\ inTx \in BOOLEAN /\ todo \in Seq(Statements)
  /\ failed \subseteq Kinds /\ failures \in 0..MaxFailures /\ starts \in 0..MaxStarts
  /\ listener \in {"off", "trying", "accepting", "ended"}
  /\ signal \in {"none", "interrupt", "kill"}
  /\ req \in [Requests -> {"none", "running"}] /\ lost \subseteq Requests
  /\ waited \in 0..SessionTimeout
  /\ exit \in {"none", "clean", "error", "panic", "unprepared", "killed"}

Running == {r \in Requests : req[r] = "running"}

Init ==
  /\ phase = "down" /\ mode \in Modes
  /\ first \in Firsts /\ disk = first /\ db = first /\ inTx = FALSE /\ todo = <<>>
  /\ failed = {} /\ failures = 0 /\ starts = 0
  /\ listener = "off" /\ signal = "none"
  /\ req = [r \in Requests |-> "none"] /\ lost = {} /\ waited = 0
  /\ exit = "none"

\* The process ends: the transaction that is open, the listener and the
\* requests end with it.
Stop(how) ==
  /\ phase' = "down" /\ exit' = how
  /\ db' = disk /\ inTx' = FALSE /\ todo' = <<>>
  /\ listener' = "off" /\ signal' = "none" /\ req' = [r \in Requests |-> "none"]
  /\ UNCHANGED <<mode, first, disk, waited, bounds>>

Continue == UNCHANGED <<mode, first, exit>>

-----------------------------------------------------------------------------
(* From the start to the listener.                                         *)

\* Command line, settings, and the warm-up fetch of included lists.
Start ==
  /\ phase = "down" /\ starts < MaxStarts
  /\ phase' = "warming" /\ starts' = starts + 1
  /\ mode' \in Modes /\ lost' = {} /\ waited' = 0
  /\ UNCHANGED <<first, exit, database, failed, failures, listener, signal, req>>

OpenDatabaseBare ==
  /\ phase = "warming" /\ mode = "file" /\ SessionTimeout >= 2
  /\ phase' = "migrating" /\ db' = disk /\ todo' = <<Inspect>>
  /\ Continue /\ UNCHANGED <<disk, inTx, service, bounds>>

OpenDatabase ==
  /\ phase = "warming" /\ mode = "file" /\ SessionTimeout >= 2
  /\ phase' = "migrating" /\ db' = disk /\ todo' = <<Begin, Inspect, Commit>>
  /\ Continue /\ UNCHANGED <<disk, inTx, service, bounds>>

RunReadOnly ==
  /\ phase = "warming" /\ mode = "none"
  /\ phase' = "starting"
  /\ Continue /\ UNCHANGED <<database, service, bounds>>

\* A setting below two minutes, or a file that cannot be opened (log.Fatal).
DatabaseUnusable ==
  /\ phase = "warming" /\ mode = "file"
  /\ Stop("error") /\ UNCHANGED lost

\* What the migrations do next.
Statement == Head(todo)

Ask ==
  /\ phase = "migrating" /\ todo # <<>> /\ IsQuestion(Statement)
  /\ todo' = Answer(Statement, db) \o Tail(todo)
  /\ Continue /\ UNCHANGED <<phase, disk, db, inTx, service, bounds>>

AtStatement == phase = "migrating" /\ todo # <<>> /\ ~ IsQuestion(Statement)

SqliteExecGoesOn ==
  /\ AtStatement /\ ~ Prepares(Statement, db)
  /\ todo' = Tail(todo)
  /\ Continue /\ UNCHANGED <<phase, disk, db, inTx, service, bounds>>

SqliteExecPanics ==
  /\ AtStatement /\ ~ Prepares(Statement, db)
  /\ Stop("unprepared") /\ UNCHANGED lost

SqliteExecDone ==
  /\ AtStatement /\ Prepares(Statement, db)
  /\ db' = Result(Statement, db)
  /\ inTx' = (Statement = Begin \/ (inTx /\ Statement # Commit))
  /\ disk' = IF inTx /\ Statement # Commit THEN disk ELSE db'
  /\ todo' = Tail(todo)
  /\ Continue /\ UNCHANGED <<phase, service, bounds>>

\* The statement fails and the transaction stays as it is.
SqliteExecAborts ==
  /\ AtStatement /\ Prepares(Statement, db) /\ failures < MaxFailures
  /\ todo' = Tail(todo) /\ failures' = failures + 1
  /\ failed' = failed \cup
                 {IF Statement.op \in {"begin", "commit", "copy"} THEN Statement.op ELSE "other"}
  /\ Continue /\ UNCHANGED <<phase, disk, db, inTx, starts, service>>

\* The statement fails and SQLite ends the transaction (disk full, I/O
\* error); the rest of the script then runs without one.
SqliteExecRollsBack ==
  /\ AtStatement /\ Prepares(Statement, db) /\ inTx /\ failures < MaxFailures
  /\ db' = disk /\ inTx' = FALSE
  /\ todo' = Tail(todo) /\ failures' = failures + 1
  /\ failed' = failed \cup {"rollback"}
  /\ Continue /\ UNCHANGED <<phase, disk, starts, service>>

Migrated ==
  /\ phase = "migrating" /\ todo = <<>>
  /\ phase' = "starting"
  /\ Continue /\ UNCHANGED <<database, service, bounds>>

-----------------------------------------------------------------------------
(* The listener, signals and requests.                                     *)

StartListener ==
  /\ phase = "starting" /\ listener = "off"
  /\ listener' = "trying"
  /\ Continue /\ UNCHANGED <<phase, database, signal, req, lost, waited, bounds>>

\* From here on an interrupt is put in the channel.
Notify ==
  /\ phase = "starting" /\ listener # "off"
  /\ phase' = "waiting"
  /\ Continue /\ UNCHANGED <<database, service, bounds>>

Listen ==
  /\ listener = "trying"
  /\ listener' = "accepting"
  /\ Continue /\ UNCHANGED <<phase, database, signal, req, lost, waited, bounds>>

\* ListenAndServe returns: the address is in use, or accepting fails.
ListenFails ==
  /\ listener \in {"trying", "accepting"} /\ signal = "none"
  /\ listener' = "ended" /\ signal' = "kill"
  /\ Continue /\ UNCHANGED <<phase, database, req, lost, waited, bounds>>

\* Interrupts that find the channel full are dropped.
Interrupt ==
  /\ phase \in {"waiting", "draining", "closing", "closed"} /\ signal = "none"
  /\ signal' = "interrupt"
  /\ Continue /\ UNCHANGED <<phase, database, listener, req, lost, waited, bounds>>

Accept(r) ==
  /\ listener = "accepting" /\ req[r] = "none"
  /\ req' = [req EXCEPT ![r] = "running"]
  /\ Continue /\ UNCHANGED <<phase, database, listener, signal, lost, waited, bounds>>

\* A request that ends after the pool was closed had no database.
Finish(r) ==
  /\ req[r] = "running"
  /\ req' = [req EXCEPT ![r] = "none"]
  /\ lost' = IF phase = "closed" THEN lost \cup {r} ELSE lost
  /\ Continue /\ UNCHANGED <<phase, database, listener, signal, waited, bounds>>

-----------------------------------------------------------------------------
(* The end of the process.                                                 *)

BeginShutdownAbruptly ==
  /\ phase = "waiting" /\ signal = "interrupt"
  /\ phase' = "closing" /\ signal' = "none" /\ listener' = "ended"
  /\ Continue /\ UNCHANGED <<database, req, lost, waited, bounds>>

\* srv.Shutdown closes the listener first; what its goroutine sends then is
\* read by nobody.
BeginShutdown ==
  /\ phase = "waiting" /\ signal = "interrupt"
  /\ phase' = "draining" /\ signal' = "none" /\ listener' = "ended"
  /\ Continue /\ UNCHANGED <<database, req, lost, waited, bounds>>

ServerFails ==
  /\ phase = "waiting" /\ signal = "kill"
  /\ Stop("error") /\ UNCHANGED lost

WaitOn ==
  /\ phase = "draining"
  /\ waited' = waited + 1
  /\ Continue /\ UNCHANGED <<phase, database, listener, signal, req, lost, bounds>>

Wait ==
  /\ phase = "draining" /\ waited < SessionTimeout
  /\ waited' = waited + 1
  /\ Continue /\ UNCHANGED <<phase, database, listener, signal, req, lost, bounds>>

DrainedOfAll ==
  /\ phase = "draining"
  /\ Running = {}
  /\ phase' = "closing"
  /\ Continue /\ UNCHANGED <<database, service, bounds>>

\* All requests ended, or the limit of the wait passed.
Drained ==
  /\ phase = "draining"
  /\ Running = {} \/ waited = SessionTimeout
  /\ phase' = "closing"
  /\ Continue /\ UNCHANGED <<database, service, bounds>>

CloseDatabase ==
  /\ phase = "closing" /\ mode = "file"
  /\ phase' = "closed"
  /\ Continue /\ UNCHANGED <<database, service, bounds>>

\* In read-only mode there is no database to close: a nil pointer.
CloseNothing ==
  /\ phase = "closing" /\ mode = "none"
  /\ Stop("panic") /\ lost' = lost \cup Running

Exit ==
  /\ phase = "closed"
  /\ Stop("clean") /\ lost' = lost \cup Running

\* The cleanup is due in between and gets no connection from the pool.
CleanupWithoutPool ==
  /\ phase = "closed"
  /\ Stop("panic") /\ lost' = lost \cup Running

\* The machine or the process goes down; so does an interrupt before Notify.
Crash ==
  /\ phase # "down"
  /\ Stop("killed") /\ UNCHANGED lost

ShutDown == BeginShutdown \/ Wait \/ Drained \/ CloseDatabase \/ CloseNothing \/ Exit

Next ==
  \/ Start \/ OpenDatabase \/ RunReadOnly \/ DatabaseUnusable
  \/ Ask \/ SqliteExecPanics \/ SqliteExecDone \/ SqliteExecAborts \/ SqliteExecRollsBack
  \/ Migrated \/ StartListener \/ Notify \/ Listen \/ ListenFails \/ Interrupt
  \/ \E r \in Requests : Accept(r) \/ Finish(r)
  \/ ServerFails \/ CleanupWithoutPool \/ Crash
  \/ ShutDown

Spec == Init /\ [][Next]_vars

\* The main goroutine goes on with a shutdown; requests may hang.
FairSpec == Spec /\ WF_vars(ShutDown)

-----------------------------------------------------------------------------
(* Properties.                                                             *)

\* While no statement failed, and wherever the process was killed, the
\* database is as old as it was or has all migrations, with all its rows, and
\* no start stumbles over what an earlier one left (db_sqlite.go:211-232).
OldOrNew == failed = {} => disk \in {first, Current(first)} /\ exit # "unprepared"

HasRows(d) ==
  \E table \in {"sessions", "sessions_old"} :
    Exists(table, d) /\ Sessions \subseteq d[table].rows

HasBans(d) ==
  \E table \in {"hostbans", "hostbans_old"} :
    Exists(table, d) /\ Bans \subseteq d[table].rows

\* Whatever statements fail, roll back or stop the script, over any number of
\* starts, sessions and bans are lost only where copying rows failed: all other
\* holes are found by a later statement that cannot be prepared
\* (db_sqlite.go:138-183, sqliteExec 18-26).
RowsSurvive == first # Empty /\ "copy" \notin failed => HasRows(disk) /\ HasBans(disk)

\* A failed statement may leave out a table or a column, but then the version
\* is not recorded: the script panics on the gap before COMMIT, as long as
\* there was a transaction (db_sqlite.go:151-183).
VersionsTrue ==
  first # Empty /\ failed \cap {"begin", "rollback"} = {} /\ Exists("migrations", disk) =>
    /\ Exists("sessions", disk)
    /\ 2 \in disk["migrations"].rows => "active_drawing_users" \in disk["sessions"].columns
    /\ 3 \in disk["migrations"].rows => "allow_web" \in disk["sessions"].columns
    /\ 4 \in disk["migrations"].rows => "roomcode" \notin disk["sessions"].columns

\* A shutdown lets the requests it found end with the database open, and
\* gives up on them only after SessionTimeout seconds (listserver.go:225-234).
CutOnlyLate == lost # {} => waited = SessionTimeout

\* An interrupt ends the process, even if a request hangs (listserver.go:222-234).
InterruptEnds == phase = "waiting" /\ signal = "interrupt" ~> phase = "down"

=============================================================================
