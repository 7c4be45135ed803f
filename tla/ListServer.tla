----------------------------- MODULE ListServer -----------------------------
(***************************************************************************)
(* The list server as concurrent request handlers over one database.       *)
(*                                                                         *)
(* net/http runs every request in a goroutine of its own (a worker here).  *)
(* A handler takes a connection from the pool for each database call and   *)
(* gives it back, so other requests, the clock and the cleanup goroutine   *)
(* run between any two calls of one handler.  An action is one database    *)
(* call with the handler code up to the next one.                          *)
(*                                                                         *)
(* A refusal before the first database call (an unreadable body, a failed  *)
(* validation, an included host) changes nothing and is a stuttering step. *)
(***************************************************************************)
EXTENDS SessionTable

CONSTANTS
  Workers,                  \* request goroutines that may run at a time
  NamedHosts,               \* hosts given by name, not by address
  TrustedHosts,             \* trustedHosts of the config
  BannedHosts,              \* bannedHosts of the config
  MaxSessionsPerHost,       \* listings allowed per host address
  MaxSessionsPerNamedHost,  \* listings allowed per host name
  CheckServer,              \* connect to the announced host before listing
  Persistent,               \* the database is a file, not "memory"
  Announcements,            \* bound: the <<host, sid>> that get announced
  LostKeys,                 \* keys whose announcement's response got lost:
                            \* no client knows them
  MaxBatch,                 \* bound: refreshes in one request
  AdminRequests,            \* bound: the session updates admins send
  Bannable                  \* bound: hosts that get banned in the database

\* One element of a batch refresh, or the whole of a single refresh.
Items == [id : RowIds, key : Keys]

AdminUpdates == [ids : (SUBSET RowIds) \ {{}}, unlisted : BOOLEAN,
                 reason : {"empty", "text"}]

ASSUME HostAssumption ==
  /\ IsFiniteSet(Workers) /\ Workers # {}
  /\ NamedHosts \subseteq Hosts
  /\ TrustedHosts \subseteq Hosts
  /\ BannedHosts \subseteq Hosts
  /\ Bannable \subseteq Hosts
  /\ LostKeys \subseteq Keys
  /\ Announcements \subseteq Hosts \X SessionIds

ASSUME ConfigAssumption ==
  /\ MaxSessionsPerHost \in Nat
  /\ MaxSessionsPerNamedHost \in Nat
  /\ MaxSessionsPerHost <= MaxSessionsPerNamedHost  \* doNormalizations
  /\ CheckServer \in BOOLEAN
  /\ Persistent \in BOOLEAN
  /\ MaxBatch \in Nat
  /\ AdminRequests \subseteq AdminUpdates

VARIABLES
  sessions,  \* the sessions table
  issued,    \* update keys generated so far
  banned,    \* hosts with a ban in force in the hostbans table
  sleep,     \* ticks the cleanup goroutine has slept, at most Day
  req,       \* what the handler of each worker is about to do
  pardoned   \* history: keys of listings an administrator's update left
             \* on the list or without a reason

vars == <<sessions, issued, banned, sleep, req, pardoned>>

Idle == [pc |-> "idle"]

AnnounceSteps == {"ban", "active", "count", "login", "insert"}

Requests ==
  {Idle}
    \cup [pc : AnnounceSteps, host : Hosts, sid : SessionIds]
    \cup [pc : {"refresh"}, todo : SUBSET Items]
    \cup [pc : {"diagnose"}, item : Items, todo : SUBSET Items]
    \cup [pc : {"admin"}, todo : SUBSET RowIds, unlisted : BOOLEAN,
          reason : {"empty", "text"}]

\* Every variable holds a value of its kind: the columns that drive the
\* statements stay in range, and a handler is always at a step of its kind.
TypeOK ==
  /\ sessions \in Tables
  /\ issued \subseteq Keys
  /\ banned \subseteq Hosts
  /\ sleep \in 0..Day
  /\ req \in [Workers -> Requests]
  /\ pardoned \subseteq Keys

Init ==
  /\ sessions = EmptyTable
  /\ issued = {}
  /\ banned = {}
  /\ sleep = 0
  /\ req = [w \in Workers |-> Idle]
  /\ pardoned = {}

-----------------------------------------------------------------------------
(* The connection pool: five connections to a file, one to a database in   *)
(* memory.  A refresh keeps its connection from the UPDATE to the SELECT,  *)
(* a session update of an administrator over all of its statements.        *)

PoolSize == IF Persistent THEN 5 ELSE 1

Holding == {w \in Workers : req[w].pc \in {"diagnose", "admin"}}

ConnFree == Cardinality(Holding) < PoolSize

\* The handler of worker w goes to step pc of its announcement.
Goto(w, pc) == req' = [req EXCEPT ![w].pc = pc]

\* The handler of worker w has sent its response.
Respond(w) == req' = [req EXCEPT ![w] = Idle]

-----------------------------------------------------------------------------
(* POST /sessions/                                                         *)

AnnounceStart(w) ==
  /\ req[w] = Idle
  /\ \E a \in Announcements :
       req' = [req EXCEPT ![w] = [pc |-> "ban", host |-> a[1], sid |-> a[2]]]
  /\ UNCHANGED <<sessions, issued, banned, sleep, pardoned>>

BanRefusesDatabaseOnly(host) == host \in banned

\* A trusted host is not looked up here.
BanRefuses(host) == host \in banned \/ host \in BannedHosts

CheckBan(w) ==
  /\ req[w].pc = "ban"
  /\ ConnFree
  /\ IF BanRefuses(req[w].host) THEN Respond(w) ELSE Goto(w, "active")
  /\ UNCHANGED <<sessions, issued, banned, sleep, pardoned>>

CheckActive(w) ==
  /\ req[w].pc = "active"
  /\ ConnFree
  /\ IF IsActiveSession(sessions, req[w].host, req[w].sid)
       THEN Respond(w)
       ELSE Goto(w, IF req[w].host \in TrustedHosts THEN "insert" ELSE "count")
  /\ UNCHANGED <<sessions, issued, banned, sleep, pardoned>>

MaxSessions(host) ==
  IF host \in NamedHosts THEN MaxSessionsPerNamedHost ELSE MaxSessionsPerHost

LimitReachedOffByOne(host) == GetHostSessionCount(sessions, host) > MaxSessions(host)

LimitReached(host) == GetHostSessionCount(sessions, host) >= MaxSessions(host)

CheckCount(w) ==
  /\ req[w].pc = "count"
  /\ ConnFree
  /\ IF LimitReached(req[w].host)
       THEN Respond(w)
       ELSE Goto(w, IF CheckServer /\ req[w].host \notin NamedHosts
                      THEN "login" ELSE "insert")
  /\ UNCHANGED <<sessions, issued, banned, sleep, pardoned>>

\* The connection attempt gives up by itself: no answer is a failure.
TryDrawpileLogin(w) ==
  /\ req[w].pc = "login"
  /\ Respond(w) \/ Goto(w, "insert")
  /\ UNCHANGED <<sessions, issued, banned, sleep, pardoned>>

\* With a full table or no key left the INSERT fails and nothing changes.
Insert(w) ==
  /\ req[w].pc = "insert"
  /\ ConnFree
  /\ Respond(w)
  /\ \/ \E id \in RowIds, key \in Keys \ issued :
          /\ IsNextRowId(sessions, id)
          /\ sessions' = InsertSession(sessions, id, req[w].host, req[w].sid, key)
          /\ issued' = issued \cup {key}
     \/ /\ Keys \subseteq issued \/ \A id \in RowIds : ~ IsNextRowId(sessions, id)
        /\ UNCHANGED <<sessions, issued>>
  /\ UNCHANGED <<banned, sleep, pardoned>>

-----------------------------------------------------------------------------
(* PUT /sessions/ and PUT /sessions/:id/, DELETE /sessions/:id/            *)

\* After its last element a refresh request is answered.
ContinueRefresh(w, rest) ==
  req' = [req EXCEPT ![w] = IF rest = {} THEN Idle
                            ELSE [pc |-> "refresh", todo |-> rest]]

\* The UPDATE for one element; rest is what the batch still holds after it.
RefreshSession(w, item, rest) ==
  /\ ConnFree
  /\ IF RefreshMatches(sessions, item.id, item.key)
       THEN /\ sessions' = RefreshUpdate(sessions, item.id)
            /\ ContinueRefresh(w, rest)
       ELSE /\ sessions' = sessions
            /\ req' = [req EXCEPT ![w] = [pc |-> "diagnose", item |-> item,
                                          todo |-> rest]]
  /\ UNCHANGED <<issued, banned, sleep, pardoned>>

\* A client can only send keys that it has been given; with any id.
ClientItems == {i \in Items : i.key \in issued \ LostKeys}

Batches == {b \in SUBSET ClientItems :
              Cardinality(b) \in 1..MaxBatch}

RefreshStart(w) ==
  /\ req[w] = Idle
  /\ \E b \in Batches : \E item \in b : RefreshSession(w, item, b \ {item})

\* The elements come in the random order of a Go map.
RefreshNext(w) ==
  /\ req[w].pc = "refresh"
  /\ \E item \in req[w].todo : RefreshSession(w, item, req[w].todo \ {item})

\* The SELECT that finds out what to answer; it changes nothing.
RefreshDiagnose(w) ==
  /\ req[w].pc = "diagnose"
  /\ ContinueRefresh(w, req[w].todo)
  /\ UNCHANGED <<sessions, issued, banned, sleep, pardoned>>

Unlist(w) ==
  /\ req[w] = Idle
  /\ ConnFree
  /\ \E item \in ClientItems :
       /\ DeleteMatches(sessions, item.id, item.key)
       /\ sessions' = DeleteSession(sessions, item.id)
  /\ UNCHANGED <<issued, banned, sleep, req, pardoned>>

-----------------------------------------------------------------------------
(* PUT /admin/sessions/: one autocommitted UPDATE for each id.             *)

AdminUpdateOne(w, id, u, rest) ==
  /\ sessions' = AdminUpdate(sessions, id, u.unlisted, u.reason)
  /\ pardoned' = IF sessions[id] # NoRow /\ (~ u.unlisted \/ u.reason = "empty")
                   THEN pardoned \cup {sessions[id].key} ELSE pardoned
  /\ req' = [req EXCEPT ![w] =
               IF rest = {} THEN Idle
               ELSE [pc |-> "admin", todo |-> rest, unlisted |-> u.unlisted,
                     reason |-> u.reason]]
  /\ UNCHANGED <<issued, banned, sleep>>

AdminUpdateStart(w) ==
  /\ req[w] = Idle
  /\ ConnFree
  /\ \E u \in AdminRequests : \E id \in u.ids : AdminUpdateOne(w, id, u, u.ids \ {id})

AdminUpdateNextReconnects(w) ==
  /\ req[w].pc = "admin"
  /\ ConnFree
  /\ \E id \in req[w].todo : AdminUpdateOne(w, id, req[w], req[w].todo \ {id})

AdminUpdateNext(w) ==
  /\ req[w].pc = "admin"
  /\ \E id \in req[w].todo : AdminUpdateOne(w, id, req[w], req[w].todo \ {id})

-----------------------------------------------------------------------------
(* A request whose client goes away, or whose statement fails, is answered *)
(* with an error at any database call it has left to make.  A batch also   *)
(* stops at an element it cannot parse.  What was done before stands.      *)
DbError(w) ==
  /\ req[w].pc \in {"ban", "active", "count", "insert", "refresh", "diagnose", "admin"}
  /\ Respond(w)
  /\ UNCHANGED <<sessions, issued, banned, sleep, pardoned>>

\* Administrators create, edit and delete bans, and dates end them: HostBans
\* has what a ban is and how each of these changes the hosts that are banned.
BansChange ==
  /\ banned' \in SUBSET Bannable
  /\ UNCHANGED <<sessions, issued, sleep, req, pardoned>>

Tick ==
  /\ sessions' = Aged(sessions)
  /\ sleep' = IF sleep < Day THEN sleep + 1 ELSE sleep
  /\ UNCHANGED <<issued, banned, req, pardoned>>

\* The cleanup goroutine wakes up, deletes and goes back to sleep.
CleanupTask ==
  /\ sleep = Day
  /\ ConnFree
  /\ sessions' = Cleanup(sessions)
  /\ sleep' = 0
  /\ UNCHANGED <<issued, banned, req, pardoned>>

\* sqliteExec drops the error of a DELETE that fails: the next try is due
\* only after another full sleep.
CleanupFails ==
  /\ sleep = Day
  /\ ConnFree
  /\ sleep' = 0
  /\ UNCHANGED <<sessions, issued, banned, req, pardoned>>

\* The process ends, at any point, and starts again.
Restart ==
  /\ sessions' = IF Persistent THEN sessions ELSE EmptyTable
  /\ banned' = IF Persistent THEN banned ELSE {}
  /\ req' = [w \in Workers |-> Idle]
  /\ sleep' = 0
  /\ UNCHANGED <<issued, pardoned>>

\* What the handler of a request already accepted does next.
Work(w) ==
  \/ CheckBan(w) \/ CheckActive(w) \/ CheckCount(w) \/ TryDrawpileLogin(w)
  \/ Insert(w)
  \/ RefreshNext(w) \/ RefreshDiagnose(w)
  \/ AdminUpdateNext(w)

\* Everything but the passing of time.
Act ==
  \/ \E w \in Workers :
       \/ AnnounceStart(w) \/ RefreshStart(w) \/ Unlist(w) \/ AdminUpdateStart(w)
       \/ Work(w)
       \/ DbError(w)
  \/ BansChange
  \/ CleanupTask \/ CleanupFails \/ Restart

Next == Act \/ Tick

Spec == Init /\ [][Next]_vars

-----------------------------------------------------------------------------
(* Safety.                                                                 *)

\* Rows of a host on the public list that no administrator has put there.
OwnListings(host) ==
  {id \in QuerySessionList(sessions) :
     sessions[id].host = host /\ sessions[id].key \notin pardoned}

\* Announcements of a host that have passed the limit check.
Admitted(host) ==
  {w \in Workers : req[w].pc \in {"login", "insert"} /\ req[w].host = host}

\* The checks and the INSERT of an announcement are separate statements, so
\* concurrent announcements can overshoot the limit of a host; but by no more
\* than one listing for each other request in flight, whatever is refreshed,
\* unlisted, cleaned up, kicked or expires meanwhile (endpoints.go:158-185).
HostLimitOvershoot ==
  \A host \in Hosts \ TrustedHosts :
    Cardinality(OwnListings(host)) + Cardinality(Admitted(host))
      <= MaxSessions(host) + Cardinality(Workers) - 1

OwnCopies(host, sid) == {id \in OwnListings(host) : sessions[id].sid = sid}

\* Announcements of a session that have found it not to be active.
Announcing(host, sid) ==
  {w \in Workers : /\ req[w].pc \in {"count", "login", "insert"}
                   /\ req[w].host = host /\ req[w].sid = sid}

\* Likewise a session is listed, or about to be, at most once for every
\* request in flight (endpoints.go:149-185).
DuplicateBound ==
  \A host \in Hosts, sid \in SessionIds :
    Cardinality(OwnCopies(host, sid)) + Cardinality(Announcing(host, sid))
      <= Cardinality(Workers)

\* The UPDATE of a refresh and the SELECT that explains its failure see
\* different tables, and the id may have been given away in between.  Still a
\* refresh that was refused is not refused by mistake: while the answer is
\* being looked up, nobody but an administrator can make the listing
\* refreshable again, so what the client is told holds (db_sqlite.go:544-590).
RefusalStands ==
  \A w \in Workers :
    req[w].pc = "diagnose" =>
      LET i == req[w].item IN
        i.key \notin pardoned =>
          /\ ~ RefreshMatches(sessions, i.id, i.key)
          /\ RefreshDiagnosis(sessions, i.id, i.key) = "timed out" =>
               sessions[i.id] # NoRow /\ ~ Timely(sessions[i.id])

\* The listing, the duplicate check, the limit check and the administration's
\* list decide with four separately written conditions what is listed; they
\* agree on every table, also for rows exactly as old as the timeout
\* (db_sqlite.go:267, 351, 380, 655).
QueriesAgree ==
  LET listed == QuerySessionList(sessions) IN
    /\ \A id \in Used(sessions) :
         id \in listed <=> ~ AdminQuerySessions(sessions[id]).unlisted
    /\ \A host \in Hosts :
         /\ GetHostSessionCount(sessions, host) =
              Cardinality({id \in listed : sessions[id].host = host})
         /\ \A sid \in SessionIds :
              IsActiveSession(sessions, host, sid) <=>
                \E id \in listed : sessions[id].host = host /\ sessions[id].sid = sid

\* A host banned in the config never has a listing, and no request of it ever
\* gets past the ban check (endpoints.go:142; example.cfg:78).
BannedHostUnlisted ==
  /\ \A id \in Used(sessions) : sessions[id].host \notin BannedHosts
  /\ \A w \in Workers :
       req[w].pc \in AnnounceSteps \ {"ban"} => req[w].host \notin BannedHosts

KickedAt(id) ==
  sessions[id] # NoRow /\ sessions[id].unlisted /\ sessions[id].reason = "text"

\* A listing kicked with a reason is out of its owner's hands: until an
\* administrator changes it, it stays kicked and nothing renews it, even a
\* refresh accepted concurrently; it can only be cleaned up.  The owner's
\* unlisting does not clear the reason (db_sqlite.go:539, 602, 624).
KickSticks ==
  [][\A id \in RowIds :
       KickedAt(id) /\ sessions'[id] # NoRow /\ sessions'[id].key = sessions[id].key =>
         \/ KickedAt(id)' /\ sessions'[id].age >= sessions[id].age
         \/ sessions[id].key \in pardoned']_vars

\* Only who knows its key touches a listing: one whose announcement was
\* answered into the void is renewed by nobody, and withdrawn by nobody but
\* an administrator, although refreshes and unlistings name rows by ids that
\* are used again after a cleanup (db_sqlite.go:538, 602).
LostListingUntouched ==
  [][\A id \in RowIds :
       /\ sessions[id] # NoRow /\ sessions[id].key \in LostKeys
       /\ sessions'[id] # NoRow /\ sessions'[id].key = sessions[id].key
       => /\ sessions'[id].age >= sessions[id].age
          /\ sessions'[id].unlisted /\ ~ sessions[id].unlisted
               => sessions'[id].reason # "null"]_vars

-----------------------------------------------------------------------------
(* The listings as the abstract specification sees them.                   *)

RowsOf(key) == {id \in Used(sessions) : sessions[id].key = key}

RowPhase(row) ==
  CASE ~ Timely(row)                -> "expired"
    [] Timely(row) /\ row.unlisted   -> "hidden"
    [] Timely(row) /\ ~ row.unlisted -> "listed"

PhaseOf(key) ==
  IF key \notin issued THEN "unborn"
  ELSE IF RowsOf(key) = {} THEN "gone"
  ELSE RowPhase(sessions[CHOOSE id \in RowsOf(key) : TRUE])

Lifecycle ==
  INSTANCE ListingLifecycle WITH
    Listings <- Keys,
    Durable  <- Persistent /\ Timeout <= Day,
    phase    <- [key \in Keys |-> PhaseOf(key)]

\* Every step of the server is a step of the lifecycle or none: no listing is
\* revived by a refresh that raced its expiry, an id used again never makes
\* one listing continue another, and the cleanup and crashes take nothing
\* that is on the list.
ImplementsLifecycle == Lifecycle!LifecycleSpec

\* doc/api.md:152: "The `expires` value is the number of minutes after which the
\* listing will expire unless refreshed".  What is on the list of a server with
\* a file leaves it by being withdrawn or by expiring: no cleanup, crash or
\* restart takes it.  So it is as long as the timeout is at most the day of the
\* cleanup (db_sqlite.go:248).
NothingListedVanishes ==
  [][\A key \in Keys :
       PhaseOf(key) = "listed" => PhaseOf(key)' \in {"listed", "hidden", "expired"}]_vars

-----------------------------------------------------------------------------
(* Liveness.                                                               *)

(* Time passes.  Goroutines are scheduled, the calls they make return (the *)
(* connectivity check has deadlines), and the pool hands a connection to   *)
(* the goroutines in the order they asked: strong fairness, since the pool *)
(* may be empty time and again.                                            *)
Fairness ==
  /\ WF_vars(Tick)
  /\ SF_vars(CleanupTask)
  /\ \A w \in Workers : SF_vars(Work(w))

LiveSpec == Spec /\ Fairness

\* Every request gets its response.
EveryRequestAnswered == \A w \in Workers : req[w] # Idle ~> req[w] = Idle

\* Some row with this key has been refreshed to a younger age.
Renewed(key) ==
  \E id \in RowsOf(key) :
    /\ sessions'[id] # NoRow /\ sessions'[id].key = key
    /\ sessions'[id].age < sessions[id].age

\* A listing nobody refreshes leaves the public list (api.md: "If an
\* announcement is not refreshed within its expiration time, it is unlisted
\* automatically").
AbandonedLeavesList ==
  \A key \in Keys :
    []<>(PhaseOf(key) # "listed") \/ []<><<Renewed(key)>>_vars

\* A restart or a failing DELETE put the cleanup off while there was something
\* to clean up.
PutOff ==
  sleep' < sleep /\ sessions # Cleanup(sessions) /\ sessions' # Cleanup(sessions)

\* Unless it is put off again and again, the cleanup deletes everything that
\* has expired: the table does not grow without bound (db_sqlite.go:245-256).
ExpiredIsPurged ==
  (<>[][~ PutOff]_vars) =>
    \A key \in Keys : PhaseOf(key) = "expired" ~> PhaseOf(key) = "gone"

=============================================================================
