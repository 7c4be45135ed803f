# Verification of the Drawpile list server

TLA+ models of the list server in this repository (Go: `endpoints.go`,
`db/`, `inclsrv/`, `adminauth.go`, ...), the TLC configurations that
model-check them and theorems about them with proofs for TLAPS.

The list server keeps a public list of Drawpile sessions.  A session is
announced with `POST /sessions/`, kept on the list by refreshes
(`PUT /sessions/`, `PUT /sessions/:id/`), taken off by its owner
(`DELETE /sessions/:id/`) or by an administrator (`PUT /admin/sessions/`), and
forgotten by a daily cleanup.  Sessions of configured Drawpile servers are
fetched and merged into the list.

## Inventory

| Component | State | Operations | What is hard about it |
|---|---|---|---|
| Sessions table (`db/db_sqlite.go`) | rows: host, port and session id, update key, last_active, unlisted, unlist_reason; row ids | one autocommitted SQL statement each: list, duplicate check, count, INSERT, refresh UPDATE and diagnosis SELECT, unlist, admin update, admin list, cleanup | row ids are used again; four separate spellings of "is listed"; boundaries of the timeout |
| Request handlers (`endpoints.go:88-367`) | what each goroutine has read so far | announce (ban check, duplicate check, count, connectivity check, INSERT), refresh, batch refresh, unlist, session administration | checks and INSERT are not atomic; batches and updates stop half way; lost replies |
| Connection pool (`db_sqlite.go:185`) | free connections: 5, or 1 in memory | Get, Put around each database call | one connection held over several statements |
| Cleanup goroutine (`db_sqlite.go:245`) | its sleep | a DELETE once a day | restarts reset the timer, the error of the DELETE is dropped, one day against any timeout |
| Host bans (`db_sqlite.go:398, 715-812`) | hostbans table | create, edit, delete, list, lookup | expiry; a ban placed while an announcement is under way |
| Included servers (`inclsrv/queries.go`) | cache of lists, hosts and ports by URL | fetch, cache, filter, merge, list of included hosts | concurrent fetches of one URL, failures, two lifetimes, no timeout by default |
| Roles, users, authentication (`adminauth.go`, `db_sqlite.go:814-1126`) | roles and users tables, permissions of a request | create, edit, delete, list, own password, login | permissions read once for a request; look up, then write; ids used again |
| Validation, NSFM tagging (`validation/`, `config.go:49`) | none | predicates on an announcement | refreshes are not validated or tagged |
| Listing content and the public list (`endpoints.go:35, 134`, `db_sqlite.go:267, 487`, `inclsrv/queries.go:234-320`) | title, tag, protocol of rows; one request's lists | announce, refresh, query, filter, merge | two filters for one question; merging by a text; replies in any order |
| Connectivity check (`drawpile/`) | one connection | handshake with deadlines | slow or silent servers |
| Start, migrations, shutdown (`listserver.go`, `db_sqlite.go:18-243`) | the format of the database, the phase of the main goroutine, listener, signal channel | migrations in a transaction, listening, graceful shutdown | errors of statements are dropped, a rollback in the middle, a crash anywhere, requests in flight |
| Configuration (`config.go`) | settings | defaults, normalisation | relations between settings |

For each component, what makes it correct: a listing's life goes one way
(listed, hidden or expired, gone) and only its owner, who has the key, and
administrators move it; limits and uniqueness are kept up to the races of the
separate statements; a kick sticks; every request ends; the table is cleaned
up.  For included servers: nothing older than the cache lifetime is shown, a
host that is included cannot announce, the merged list has no duplicates.  For
accounts: a request acts with permissions its account had, on the account it
was for.  For bans: a ban holds until its date whatever the spelling of the host,
and an id never comes to stand for another ban than the one seen or a later one.
For the list: it depends on the sources, not on the order of their replies, and
shows NSFM sessions to those who ask.  For start and shutdown: the schema is old
or new, never between; no rows are lost; requests are cut off only after the
wait.

## Modules

| Module | What it is |
|---|---|
| `SessionTable` | the sessions table and one operator for each SQL statement on it |
| `ListServer` | the machine: concurrent request handlers, pool, cleanup, clock, restarts; its properties |
| `AdminSessions`, `MCAdminSessions` | the machine with an administrator who reads the list of all sessions and updates by its ids |
| `ListingLifecycle` | abstract specification: what is promised about one listing |
| `MCListServer` + `*.cfg` | instances for TLC |
| `ListServerProofs` | invariants and action properties proved |
| `ListServerRefinement` | proof that `ListServer` implements `ListingLifecycle` |
| `HostBans`, `MCHostBans` | bans in the database: ids, dates, spellings, the lookup of an announcement |
| `BanRegister` | abstract specification: bans that stand, and the hosts they ban |
| `HostBansProofs` | the properties of bans and the refinement, proved |
| `IncludeCache`, `MCIncludeCache` | fetching and caching the lists of included servers |
| `IncludeCacheProofs` | how old a list can be, and that known hosts stay known, proved |
| `Validation` | the checks and default values of an announcement |
| `SessionList`, `MCSessionList` | the content of listings, the two filters, the merge, one request for the list |
| `SessionListProofs` | what an answer contains, proved for any lists |
| `Accounts`, `MCAccounts` | roles, users, login and the handlers that change them |
| `AccountsProofs` | names, ids and authority, proved |
| `ServerLife`, `MCServerLife` | starts, migrations, listener, signals and shutdown of the process |
| `ServerLifeProofs` | sessions and bans kept by the migrations, requests cut off, proved |
| `MigrationProofs` | what the migrations make of a database, and what requests meet, proved |

How the machines meet.  Requests about sessions read the bans once
(`endpoints.go:142`): `ListServer` has them as a set `banned` that
changes arbitrarily, and `HostBans` implements `BanRegister`, whose `banned` is such
a set that changes with the bans it is made of; what `ListServer` shows therefore holds with
`HostBans` in its place.  They read the hosts of the cache only at the check of
`endpoints.go:137`; the promise about those hosts is `IncludedHostsKnown`.
Whether a listing is on the list is `ListServer`'s, what it says is
`SessionList`'s: there a listing comes and goes.  Replies of included servers are
any list to `SessionList`, and an age to `IncludeCache`.  Administrators' accounts
matter to the rest only by who may send an administrator's request.  A
`Restart` in `ListServer`, `HostBans` and `Accounts` is what a whole turn of
`ServerLife` from the end of a process to the listener of the next looks like to them.

### SessionTable

A table is a function from the row ids `1..MaxRows` to rows or `NoRow`.  A row
keeps the columns the statements decide by.  Port and session id are one value
(`sid`): every statement uses them together.  `last_active` is kept as the
number of ticks since it was set (`age`), saturated one past the larger of
`Timeout` and `Day`: no statement tells larger ages apart, so the clock runs on
for ever in a finite state space.  `unlist_reason` is NULL, empty or a text;
the refresh and the administration's list treat these three differently.

The id of a new row is the largest in the table plus one, as SQLite chooses it
for an `INTEGER PRIMARY KEY` without `AUTOINCREMENT`; so ids are used again
after the rows at the end have been deleted.  `MaxRows` bounds ids: with the
last one taken an INSERT fails (`Insert`), which the code answers like any
failed INSERT.

### ListServer

One action is one database call with the handler code up to the next one,
because a handler takes a connection from the pool for each call and gives it
back.  `req[w]` is what the goroutine `w` does next:

| `req[w].pc` | next action | code |
|---|---|---|
| `idle` | `AnnounceStart`, `RefreshStart`, `Unlist`, `AdminUpdateStart` | a request arrives |
| `ban` | `CheckBan` | `endpoints.go:142` |
| `active` | `CheckActive` | `endpoints.go:149` |
| `count` | `CheckCount` (not for trusted hosts) | `endpoints.go:158` |
| `login` | `TryDrawpileLogin` (addresses, if `CheckServer`) | `endpoints.go:176` |
| `insert` | `Insert` | `endpoints.go:185` |
| `refresh` | `RefreshNext`, the next element of a batch in any order | `endpoints.go:241` |
| `diagnose` | `RefreshDiagnose`, the SELECT after an UPDATE without effect | `db_sqlite.go:566` |
| `admin` | `AdminUpdateNext`, the next id | `db_sqlite.go:630` |

`DbError` ends a request at any database call: the client went away, the
statement failed, or an element of a batch could not be parsed.  A refresh and
an administrator's update hold their connection between their statements
(`Holding`), every other call takes one for a single step (`ConnFree`).  `sleep` is how
long the cleanup goroutine has slept; `CleanupFails` is a DELETE whose error
`sqliteExec` drops.  `Restart` ends the process at any point: requests in
flight, the cleanup's sleep and a database in memory are lost.

An update key is 128 random bits: a key is never generated twice (`issued`).
Clients send the keys they were given, with any id, and never guess one;
`LostKeys` are keys in responses that got lost.  `pardoned` is a history
variable: the listings an administrator has touched in a way that gives them
back to their owner, after which limits and kicks are the administrator's
doing.

Not in this machine: refusals before the first database call (they change
nothing; see `Validation`), the content of listings (`SessionList`), and the
permissions of administrators (`Accounts`).

### AdminSessions

An administrator's update names ids from a list read before (`endpoints.go:397`),
and an id may stand for another listing by then, since ids are used again.  In
`ListServer` an update takes any ids, which is right for the table and the other
clients; whether an update hits the listing that was meant is asked here.
`AdminSessionList` adds the reading: `seen` is the table as it was in the list, without
the listings that were unlisted in it or have been since, by anybody; `since` is the
ticks since then.  Both are history.  Every behaviour of `AdminSpec` is one of `Spec`
(`AdminIsServer`), so all invariants of `ListServer` hold here.

What the code promises (`SeenStands`) is a promise of the cleanup alone: it deletes
only what is unlisted or has not been refreshed for a day (`db_sqlite.go:248`), so until then the
id is taken.  It promises no more: once a listing is withdrawn, the next
cleanup may delete it and the next announcement get its id, even within a moment, and
an update by the old id then hits that listing.  Sessions of included servers,
which the list also shows, have no id to update by.

### HostBans

One action is one statement on the `hostbans` table with its handler
(`endpoints.go:431-532`, `db_sqlite.go:398-425, 715-779`).  A point in time is
what the database stores and compares, a text: creating a ban turns its date
into a date with a time, editing one keeps the date alone, and texts
compare so that a date sorts before the same date with a time (`After`).  Host
names are compared without case (`Fold`).  An administrator sees the list
(`AdminQueryHostBans`) and edits or deletes by the id of a row seen there,
whatever it stands for by then.  `req` is an announcement past its ban check,
for as long as its other checks take.  `birth` and `edit` number the INSERTs and
UPDATEs: they are history, and let the properties say which ban was seen and
which came later.  `Tick` moves the clock, first within a day and then to the
next.  In the register a row is a ban with its id for a name, its host
without case and the day it ends without the time (`Standing`); that the hosts
refused by comparing texts are those of the bans that stand, row by row, is
what `ImplementsRegister` asks.

| action | code |
|---|---|
| `AdminCreateHostBan` | `db_sqlite.go:715`, `endpoints.go:453` |
| `AdminUpdateHostBan`, `AdminRequestFails` | `db_sqlite.go:741`, `endpoints.go:483` |
| `AdminDeleteHostBan` | `db_sqlite.go:764`, `endpoints.go:515` |
| `CheckBan`, `Finish` | `endpoints.go:142`; 149-185 |

### Validation and SessionList

`Validation` has the checks of `validation/` on an announcement and what the
handler fills in.  A text is a model value; constants say what regular expressions
and the name server make of it.  A refused announcement is a stuttering step.

`SessionList` follows the content: `Announce` tags a listing by its title,
`RefreshSession` stores what it is given.  The content is title, tag, protocol
and the name (host, port, id); users and the rest are carried along by the code and decide nothing.  The query's WHERE clause (`RowMatches`) and the filter in Go
(`Passes`) are separate operators, as they are separate code.  For one request
for the list, `asyncFetchSessionList(u)` is a goroutine putting its filtered list
in the channel, `ReceiveList` the handler taking one out, `MergeResults` the merge
by a key (`MergeKey`): `MergeText` is the text of host, port and id joined by
dashes, the same for some names that differ.  Requests for the list share no state
but the cache, so one at a time is enough.


### IncludeCache

A request for the list starts one goroutine for each included server
(`inclsrv/queries.go:263`) and waits for all.  `task[r][u]` is the goroutine of
request `r` for server `u`, `cache` the map the mutex guards, `serving` whether
the HTTP server has started: `main` fetches all lists once before.

| `task[r][u].pc` | next action | code in `inclsrv/queries.go` |
|---|---|---|
| `idle` | `Begin`, for all servers at once | 263-279 |
| `lookup` | `LookUpCache`: fresh list, or known host, or nothing | 146-180 |
| `status` | `StatusReturns`, `FetchFails` | 108-115 |
| `sessions` | `SessionsReturn`, `FetchFails` | 117-143 |
| `store` | `Store`: replaces the entry, time now | 153-162, 185 |
| `forget` | `StoreFailure`, only without a lifetime | 187-190 |
| `done`, `failed` | `Respond`, when all are | 281-289 |

Only HTTP calls take time: `Tick` waits for every goroutine that could go on by
itself and for calls at the end of their timeout (`Urgent`).  Of a list and of a
host the model keeps the time since the included server gave them out, which
may be any time during the call.  Ages saturate one past the largest bound they
are compared with, so the clock has no end.  `Timeout` is not zero here; zero,
the default, means that a call may take for ever, and then no bound holds and a
silent server holds every request up.

A server's `/status/` may lack its address (`ext_host`); then the host stored is the
empty text, nothing is known of the server, and it is asked again at the next
fetch (`Nameless`).  What is said about known hosts is about the others (`Named`).

`ListBound` is what a list may be old when it is sent: it is stored at most one
timeout after it was made, served to the end of its lifetime, and then waits
for a slower server through two calls.  `FreshList` fails in `CacheOverlap`
with any smaller bound.

### Accounts

One action is one statement with the handler code up to the next, as in
`ListServer`; a handler that may manage is admitted by what its account's role
allowed when it logged in (`Manage`), and nothing looks at permissions again.

| `req[w].pc` | next action | code |
|---|---|---|
| `idle` | `CreateRole`, `EditRole`, `DeleteRole`, `CreateUser`, `EditUser`, `DeleteUser`, `ChangePassword` | login `adminauth.go:49`, then the handler's permission check |
| `roleName` | `CheckRoleName` | `endpoints.go:602`, `640` |
| `writeRole` | `AdminCreateRole`, `AdminUpdateRole`, `WriteRoleFails` | `db_sqlite.go:814`, `843` |
| `deleteRole` | `AdminDeleteRole`, `DeleteRoleFails` | `db_sqlite.go:874` |
| `findRole` | `FindRole` | `endpoints.go:734` |
| `userName` | `CheckUserName` | `endpoints.go:757`, `800` |
| `writeUser` | `AdminCreateUser`, `AdminUpdateUser`, `WriteUserFails` | `db_sqlite.go:966`, `988` |
| `deleteUser` | `AdminDeleteUser` | `db_sqlite.go:1035` |
| `password` | `AdminUpdateUserPassword` | `db_sqlite.go:1016` |

Foreign keys are enabled on each connection of the pool (`db_sqlite.go:173`), so
a DELETE of a role that is used and a write of a role that is gone fail.  Ids
are given as in `SessionTable`.  `birth` is history: it tells two rows apart that
had the same id one after the other; a birth no row and no request remembers is
taken again, so the model never runs out of them.  Passwords are compared, not
hashed; for every account there is a client that can log in.  Each call gives
its connection back, so the pool adds nothing here and is left out.  The
database is a file: one in memory loses all accounts with the process.

### ServerLife

The main goroutine and the database over several starts of the process.

| `phase` | next action | code |
|---|---|---|
| `down` | `Start`: settings, warm-up | `listserver.go:25-80` |
| `warming` | `OpenDatabase`, `RunReadOnly`, `DatabaseUnusable` | `db/database.go:39-58`, `db_sqlite.go:185-211` |
| `migrating` | `Ask`, `SqliteExecDone`, `SqliteExecPanics`, `SqliteExecAborts`, `SqliteExecRollsBack`, `Migrated` | `db_sqlite.go:18-28, 211-243` |
| `starting` | `StartListener`, `Notify` | `listserver.go:207-221` |
| `waiting` | `BeginShutdown`, `ServerFails` | `listserver.go:222-229`, 235 |
| `draining` | `Wait`, `Drained` | `srv.Shutdown`, `listserver.go:227-229` |
| `closing` | `CloseDatabase`, `CloseNothing` | `listserver.go:230` |
| `closed` | `Exit`, `CleanupWithoutPool` | `listserver.go:233` |

The migrations are a script of statements, `todo`, whose head is executed next.
A question (`Inspect`: which tables are there; `Lacks(v)`: is version v recorded)
puts its answer, a migration, before the rest.  `Prepares` is whether SQLite can
compile a statement, that is, whether its tables and columns exist: `sqliteExec`
panics if not (`SqliteExecPanics`).  When a statement fails as it runs,
`sqliteExec` drops the error and the script goes on, with the transaction as it
was (`SqliteExecAborts`) or, for the errors after which SQLite rolls back by
itself, with none and the old database (`SqliteExecRollsBack`).  A question that
fails panics; that is a `Crash`.  `db` is the database as the connection sees it
within its transaction, `disk` as the next process would.  Of tables the model
keeps which exist, which rows they have, and the columns that some migration is
about.  `first` is what the first start found: nothing, a
database of the server before there were versions, or one of version 1, 2, 3 or 4.
A database in memory is a start from nothing.

`signal` is the channel of signals with its one place: an interrupt, or what the
goroutine in `ListenAndServe` sends when it returns.  After an interrupt nothing
reads the channel.  `waited` counts seconds of `srv.Shutdown`; its limit is
`SessionTimeout` seconds, a setting in minutes meant for something else
(`listserver.go:227`; `shutdownTimeout` of `example.cfg:99` is read and not used).
`lost` are the requests that were still running when the pool was closed under
them: their next call gets no connection.

## Runs

Passing:

| Run | Properties | Question | Instance |
|---|---|---|---|
| `Announce` | `TypeOK`, `HostLimitOvershoot`, `DuplicateBound`, `BannedHostUnlisted`, `NothingListedVanishes` | How far can concurrent announcements exceed the limit and list a session twice, with trusted, banned and named hosts, bans set and lifted?  Does the cleanup take what is listed? | 2 requests, 3 hosts, one with 2 sessions, 3 rows and keys, limit 1, connectivity check, `Timeout` and `Day` both 1 |
| `Lifecycle` | `RefusalStands`, `QueriesAgree`, `KickSticks`, `ImplementsLifecycle` | Do batches, kicks, relisting, expiry, cleanup, restarts and ids used again keep the life of each listing in order? | 2 requests, batches of 2, 2 rows and keys |
| `MemoryDatabase` | `EveryRequestAnswered`, `LostListingUntouched` | Can requests wait for each other for ever with one connection?  Does anything reach a listing whose key nobody has? | 2 requests, nothing persistent, one key lost |
| `OldListings` | `SeenStands`, `AbandonedLeavesList`, `ExpiredIsPurged` | Do abandoned listings leave, and is the table cleaned up?  For how long does an id in an administrator's list stand for the listing seen there? | 1 request at a time, 2 sessions, 2 rows and keys, `Timeout` 1, `Day` 2, kicks |
| `HostBans` | `TypeOK`, `InForceUntilDate`, `LateBansOnly`, `SeenOrNewer`, `ImplementsRegister` | Do bans hold until their date, however stored, and what can edits by old ids do? | 2 administrators, 1 announcement, 2 hosts, one in 2 spellings, 2 dates, 3 days, 2 rows, 3 changes |
| `CacheOverlap` | `TypeOK`, `FreshList`, `IncludedHostsKnown` | How old can a list get when fetches overlap, and is a host ever forgotten? | 2 requests, 2 servers, one of which gives out no host, lifetimes 1 and 2, timeout 1 |
| `WithoutCache` | `FreshList`, `EveryListAnswered` | Is every request answered, slow and failing servers or not, when nothing is cached? | 1 request, 2 servers, no lifetime |
| `SessionList` | `TypeOK`, `MergedAnswer`, `OrderSettled`, `NsfmConsent`, `FiltersAgree` | What is in an answer merged from three sources that reply in any order? | 2 rows, 2 included servers, 7 announcements of which 5 are refused, 3 queries |
| `Accounts` | `TypeOK`, `NamesResolve`, `RoleAsNamed`, `OwnPasswordOnly`, `AuthorityNotGained` | What can concurrent requests of administrators do to each other's roles and users? | 2 requests, 2 roles, 2 users, 3 births |
| `ServerLife` | `TypeOK`, `OldOrNew`, `RowsSurvive`, `VersionsTrue`, `CutOnlyLate`, `InterruptEnds` | What do crashes and failing statements within the migrations leave, and what does a shutdown do to requests? | 3 starts, 2 failures, every old format, 2 requests, a wait of 2 seconds |

Violations (the code disagrees with the comments of its example configuration;
TLC finds the trace):

| Run | Property | What is said | What happens |
|---|---|---|---|
| `StaleHost` | `HostFresh` | `example.cfg:23`, how long to cache hostname and port | each fetch of the list renews their time too |
| `NsfmTitle` | `NsfmTitlesTagged` | `example.cfg:59`, any of these words in the title tags the session | titles are looked at when a session is announced, not when it is refreshed |

More disagreements, met while modelling, have no run of their own, since a
checked property already says how far the code goes:

- `doc/api.md:87`: host, port and id form a unique key.  Two announcements at
  once are both listed; `DuplicateBound` says how many can be.  Likewise the limit
  of `example.cfg:69` and `HostLimitOvershoot`.
- `doc/api.md:152`: a session is listed until `expires`.  With a session timeout over
  a day the cleanup deletes listed sessions, so `NothingListedVanishes` is about
  timeouts of at most a day; the lifecycle says so too (`Durable`).
- `example.cfg:98`: `shutdownTimeout` is how long a shutdown waits for open connections,
  in seconds.  It is read and not used: the wait is `SessionTimeout` seconds
  (`listserver.go:227`), which is what `CutOnlyLate` is about.
- `example.cfg:75`: trusted hosts are exempt from limits and bans.  They are exempt
  from limits only (`CheckBan`, `LimitReached`).
- `endpoints.go:136`: no listings on servers that are included anyway.  Without a cache
  lifetime, the default, one failed fetch makes a server unknown; so
  `IncludedHostsKnown` is about lifetimes greater than zero.
- `doc/api.md:94`, `db/models.go:62`: `protocol` may be a list of versions.  For included
  servers the code looks for the text of the whole list in one version
  (`inclsrv/queries.go:239`); so `FiltersAgree` is about one version, `Plain`.  The model has
  the set of the versions asked for, so a text that names one version twice is
  one version to it and none of the code's.
- `listserver.go:224`: an interrupt is a clean shutdown.  In read-only mode it ends in a
  nil pointer (`CloseNothing`).
- `db_sqlite.go:530`: a refresh does not look at `unlisted`, so the refresh of a listing
  its owner has unlisted succeeds, and the answer "already unlisted" of line 585 is
  given only when the row has expired as well.
- `validation/announcement.go:28`: the characters of a session id are never checked.
- Duplicates in the database are shown as such when no server is included:
  `MergeLists` is then not called; so `MergedAnswer` is about `IncludeServers > 0`.
- A migration whose last statement fails, and which is therefore not recorded, makes
  every later start panic (`RowsSurvive` holds all the same).

Bounds.  Two concurrent requests suffice for every race between two
statements; two or three rows for an id to be used again while another row
lives; `Timeout` 1 and `Day` 1 or 2 give rows that are fresh, exactly as old as the
timeout, expired, and old enough for the cleanup.  `HostLimitOvershoot` and
`DuplicateBound` depend on the number of requests, and are proved for any;
`Announce` has no refreshes, `Lifecycle` one session: that an overshoot does not
grow by a refresh is in the proof.  In `HostBans` three changes make two rows and an
edit, or a row, its deletion and another under its id; dates 1 and 2 and days 0 to 2
have the day before, the day of and the day after each ban's end.
In the cache two requests suffice for one fetch to store over another, lifetimes
of 1 and 2 ticks for an entry whose list is stale and whose host is not, and a
timeout of 1 for calls that return at once and late.  In `SessionList` two rows
can be the same session twice, two servers reply in both orders and know the same
sessions differently, and two names have the same key.  Two roles and two users
suffice for a rename, a clash of names and an id used again while another row
lives.  In `ServerLife` three starts let a migration be cut off, be cut off again
while it is repaired, and end; two failures let one statement fail and the one
that would have noticed fail too.  `MaxStarts` bounds the starts, so that run ends
with the process down for good, and does not look for deadlocks.
`SYMMETRY` permutes requests, keys and administrators, only in runs without
liveness, where no constant tells the permuted values apart.

Fairness.  In `ListServer` the clock runs (`WF_vars(Tick)`).  The Go scheduler runs
every goroutine, statements return, the connectivity check has deadlines
(`drawpile/protov4.go`), and the pool is a channel that serves waiting
goroutines in order; since the pool may be empty again and again before it is
a goroutine's turn, handlers and the cleanup get strong fairness.  Requests
need not come, refreshes need not come, and nothing is assumed about failures
and restarts, except in `ExpiredIsPurged`, whose premise is that they do not put
off the cleanup for ever.  In `IncludeCache` time passes, and every goroutine
goes on, since a call ends at the latest when the client's timeout does;
`EveryListAnswered` assumes nothing about the included servers.  In `ServerLife`
only the main goroutine is fair, and only once a shutdown has begun
(`WF_vars(ShutDown)`): requests may hang for ever, and an interrupt must end the
process all the same.

## Proofs

`ListServerProofs` and `ListServerRefinement` hold for every value of the
constants that satisfies the assumptions `TimeAssumption`, `RowAssumption`,
`HostAssumption` and `ConfigAssumption`: any hosts, sessions and keys, any
finite number of concurrent requests, any limits and timeouts.

| Theorem | Establishes |
|---|---|
| `TypeCorrect` | `Spec => []TypeOK` |
| `LimitOvershootBounded` | `Spec => []HostLimitOvershoot` |
| `DuplicatesBounded` | `Spec => []DuplicateBound` |
| `BannedNeverListed` | `Spec => []BannedHostUnlisted` |
| `RefusalsStand` | `Spec => []RefusalStands` |
| `KicksStick` | `Spec => KickSticks` |
| `LostListingsUntouched` | `Spec => LostListingUntouched` |
| `SeenListingsStand` | `AdminSpec => []SeenStands` |
| `QueriesAlwaysAgree` | `Spec => []QueriesAgree` |
| `ServerImplementsLifecycle` | `Spec => ImplementsLifecycle` |
| `OverForGood` | for each key: once expired or cleaned up, for ever so |
| `ListedDoesNotVanish` | with a file and `Timeout <= Day`: `Spec => NothingListedVanishes` |

The argument.  The base is `KeysOwned`, a key has at most one row and clients send
keys they were given, which is inductive with `TypeOK` (lemma `KeysAreOwned`): only
`Insert` makes a row, with a key not issued before.  Everything about a listing is then said of the
row with its key.  All other actions either keep the table, or keep each row's
host, session and key (`RowKept`), so what they can do to the table is one of
few shapes (`TableKept`, `TableInserted`), and each property is proved once for a
shape and not for each action.  For the two bounds the inductive invariant
counts together the listings of a host that no administrator gave back and the
requests that have passed the check: passing the check needs room, an INSERT
turns one of the second into one of the first, and nothing else makes either
grow, since a refresh cannot bring back what has expired and a client cannot
relist.  The
refinement maps each key to the phase of its row; a step of the server moves
one listing, or (clock, cleanup, restart) a set of them in one direction.
`SeenStands` is not inductive: that the cleanup keeps the row takes that the row is
on the list and not older than its age in the administrator's list and the time since
(`SeenKept`).  `OverForGood` and `ListedDoesNotVanish` are read off that lifecycle (`LifecycleMoves`) and hold of
the server because it implements it: they say of whole behaviours what no
invariant of one state can.  `ListedDoesNotVanish` needs its two hypotheses: a
database in memory is lost with the process, and with a timeout of more than the
cleanup's day (`db_sqlite.go:248`) the cleanup would take what is still listed.

`IncludeCacheProofs`, from `TtlAssumption`, `EntryAssumption` and
`NamelessAssumption`:

| Theorem | Establishes |
|---|---|
| `CacheTypeCorrect` | `Spec => []TypeOK`; among it that no call outlasts its timeout |
| `ListsFresh` | `Spec => []FreshList` |
| `IncludedAreKnown` | `CacheTtl > 0 => (Spec => []IncludedHostsKnown)` |
| `HostsAreKept` | `CacheTtl > 0 => (Spec => HostsStayKnown)` |

A list in the cache is at most its entry's age and one timeout old; but a list
that is done waits for others, and how long is not in its own state.  The
invariant says how old such a list may be by how far each other goroutine of
its request has come (`Budget`): the goroutines of a request begin together, so
the time another has used up is the time the list can have got older.
For the hosts:
with a lifetime only `Store` writes the cache, and with a known host, and a
goroutine is done only from an entry or after a `Store`.

`AccountsProofs`, from `BoundAssumption`, `InputAssumption` and
`NoRowAssumption`:

| Theorem | Establishes |
|---|---|
| `AccountsTypeCorrect` | `Spec => []TypeOK` |
| `NamesAlwaysResolve` | `Spec => []NamesResolve` |
| `RolesAsNamed` | `Spec => RoleAsNamed` |
| `PasswordsAreOwn` | `Spec => OwnPasswordOnly` |
| `AuthorityIsNotGained` | `Spec => AuthorityNotGained` |

The invariant says that names and births are unique in both tables, that every
user's role exists, and that the row a request remembers is under the id it
remembers or nowhere (`Remembered`): ids may come to stand for other rows, but a
row never moves.  Seven writes are two shapes (`RoleWritten`, `UserWritten`), and
each conjunct is proved once for a shape.

`HostBansProofs`, from `ClockAssumption`, `BanAssumption` and `NullAssumption`:

| Theorem | Establishes |
|---|---|
| `BansTypeCorrect` | `Spec => []TypeOK` |
| `ForceUntilDate` | `Spec => []InForceUntilDate` |
| `OnlyLateBans` | `Spec => []LateBansOnly` |
| `IdsSeenOrNewer` | `Spec => []SeenOrNewer` |
| `BansImplementRegister` | `Spec => ImplementsRegister` |

The invariant orders history: no row's `birth` or `edit` and nothing a view or an
announcement remembers is from the future, that is, above `changes`.  A row under a seen id is then the one seen, or was inserted
when `changes` was larger than at the view.  For the refinement, rows are named by
their ids, so a statement on one row is a step on one ban (`WrittenRegisters`,
`DeleteRegisters`); that a host is refused if and only if one of its bans stands is a fact
about every table of the right type (`RefusedAsRegistered`), from how the two formats of
dates compare (`TypedUntilDate`).

`SessionListProofs`, from `ValidationAssumption`, `ListAssumption` and
`SourceAssumption`:

| Theorem | Establishes |
|---|---|
| `ListTypeCorrect` | `Spec => []TypeOK` |
| `OrderIsSettled` | `Spec => []OrderSettled` |
| `AnswersAreMerged` | `Spec => []MergedAnswer` |
| `NsfmByConsent` | `Spec => []NsfmConsent` |
| `FiltersAgreeOnPlain` | `Spec => []FiltersAgree` |

They rest on lemmas about `Extract`, `filterSessionList` and `MergeLists`: the elements
of a finite set of positions have ranks that number them, the first position of a
key exists (the order of positions is well founded), so a merge has every key
once and its elements are those of the lists.  The invariant for the order says
that what was received of a server is what it sent, and the channel holds each
server that sent and was not yet received once.

`ServerLifeProofs`, from `NoTableAssumption`, `SettingsAssumption` and
`BoundAssumption`, for any rows, any number of requests, failures and starts:

| Theorem | Establishes |
|---|---|
| `LifeTypeCorrect` | `Spec => []TypeOK` |
| `RowsAreKept` | `Spec => []RowsSurvive` |
| `CutsAreLate` | `Spec => []CutOnlyLate` |

`CutsAreLate` needs that after the listener has ended nobody is accepted, so that
requests running when the pool is closed were running when the wait ended.
For `RowsAreKept` statements have stages: questions and columns, renaming
`sessions`, new tables, copying, other copies, dropping `sessions_old`, the rest.  What
is left of a script is in that order, and a drop that is to come has a copy before
it (`Scripted`).  Of the database the invariant (`RowsInv`) says that when only
later stages than the copy are left, `sessions` has the rows or there is no
`sessions_old` to drop; that once the renaming is past, within a transaction,
the database on disk has no `sessions_old`, so that after a rollback the drop cannot be
prepared and panics; and that until then both databases have the same
`sessions_old`.  Statements are classified once (`ResultOnRows`), and each way a step
ends is one lemma.
Bans are dropped by one script only, and its copy of them has no question before
it, so no stages are needed: the invariant (`BansInv`) says which of the 15
statements of that script is next (`LegacyAt`) and what is true there
(`BansOnTheWay`); every other script neither drops bans nor comes to the question
that would start that one (`Harmless`).

`MigrationProofs`, from the same assumptions:

| Theorem | Establishes |
|---|---|
| `RecordedVersionsTrue` | `Spec => []VersionsTrue` |
| `SessionsNeverHalfway` | `Spec => []SessionsWhole`: `sessions` is as found or as the last migration leaves it, and there |
| `MigrationsAtomic` | `Spec => []OldOrNew` |
| `OnlyCurrentServed` | `Spec => []ServesCurrent`: the listener starts over a database with all migrations |

The first two are about statements that fail in a transaction that goes on.  The
database on disk is the one that was found until `sessions` is as it is now
(`UpToDate`), and within a transaction what is left of the script says how far
`sessions` is (`VersionsInv`): while the last question is still to be asked it
exists, and a recorded version 4 is true of it; between creating and copying it
can be missing but not be half made; from the copy on it is there, since a
copy into a missing table cannot be prepared.  So a COMMIT is reached with
`UpToDate` only.

The other two are about runs in which no statement fails.  That a script takes a
database from one format to another is `Leads`: there is a sequence of databases,
each the result of one statement on the one before, and all statements prepare.  It
is stated with a sequence of states and not with a recursive operator, so that it
can be proved statement by statement (`LeadsOn`, `LeadsThrough`) and used from
any point of the script (`LeadsFurther`).  `EmptyLeads`, `LegacyLeads` and
`MigrationLeads` prove it of each script; `Upgraded(version)` names the formats between two
migrations.  The invariant (`NoFailureInv`) says that the main
goroutine is at one of four places (`OnCourse`): before the transaction, inspecting, in
a script that leads from here to the next format, or at the end with everything
committed.  A kill anywhere leaves the disk as it was.  `ListenerInv` adds that
the listener is off until the main goroutine is done with the migrations.

Only model-checked: the liveness properties (`EveryRequestAnswered`,
`AbandonedLeavesList`, `ExpiredIsPurged`, `EveryListAnswered`, `InterruptEnds`), which
need fairness and `ENABLED` and are out of the provers' reach.  Every invariant
and every action property of the passing runs is proved.

## Not modelled

- HTTP routing, CORS, the encoding of JSON and logging, the text of messages: no
  property is about them.
- The connectivity check's protocol: its outcome is a choice in `ListServer`,
  since all it does to the rest is to take time and to say yes or no.  That it
  ends is an assumption, justified by the deadlines it sets on its connection.
- Reading the configuration from a file or the environment: settings are constants,
  and what `doNormalizations` makes true of them is among the assumptions.
- The notes of bans, and the number of users, the owner and the start of a listing:
  carried along, and never decided by.
- The case of host names in statements on sessions (`db_sqlite.go:351, 380` compare
  exactly, bans do not): hosts in `ListServer` are what the database
  compares, so two spellings are two hosts there.
- That administrators edit roles and users by ids seen in an older list: nothing in
  the code ties the id to the row that was seen.  For sessions see `AdminSessions`, for
  bans `SeenOrNewer`.
- Bans put into the database by hand (`README.md`, "Banning hosts") with a time of day of their own: the
  model has the dates the handlers write, midnight or the date alone.
- `db/models.go`, test tools and build files: no behaviour.
