------------------------------ MODULE HostBans ------------------------------
(***************************************************************************)
(* Bans of hosts in the database: administrators create, edit and delete   *)
(* them by id, dates end them, and announcements look them up once, before *)
(* the rest of their checks.                                               *)
(*                                                                         *)
(* An action is one statement with the handler code around it.  Requests   *)
(* refused before it (no permission, a blank host, a date that cannot be   *)
(* parsed) change nothing and are stuttering steps.                        *)
(***************************************************************************)
EXTENDS Integers

CONSTANTS
  Spellings,    \* host names as they are written
  Fold,         \* each spelling in lower case
  Dates,        \* bound: dates that administrators give
  LastDay,      \* bound: the last day of the clock
  MaxBans,      \* bound: ids in the table
  MaxChanges,   \* bound: bans created and edited
  Admins,       \* administrators that look at the list of bans
  Workers,      \* announcements at a time
  Persistent,   \* the database is a file, not "memory"
  Never,        \* expires IS NULL
  NoBan,        \* no row with this id
  NoView        \* the administrator has not looked at the list

BanIds == 1..MaxBans

Days == 0..LastDay

Names == {Fold[s] : s \in Spellings}

ASSUME ClockAssumption == LastDay \in Nat /\ Dates \subseteq Nat

ASSUME BanAssumption ==
  /\ MaxBans \in Nat
  /\ MaxChanges \in Nat
  /\ Persistent \in BOOLEAN
  /\ DOMAIN Fold = Spellings

(* A point in time is a text that is compared as such: a date with a time  *)
(* of day, midnight or later, or a date alone, which is a prefix of the    *)
(* texts with its date and so sorts before them.                           *)
NoTime == -1

Midnight == 0

Later == 1

Stamps == [day : Dates, time : {NoTime, Midnight}]

Bans == [host : Spellings, expires : Stamps \cup {Never},
         birth : 1..MaxChanges, edit : 1..MaxChanges]

\* What an administrator remembers of a ban, and when the list was read.
Views == [id : BanIds, birth : 1..MaxChanges, asOf : 0..MaxChanges]

\* An announcement past the ban check.
Checks == [pc : {"checks"}, host : Spellings, asOf : 0..MaxChanges]

Idle == [pc |-> "idle"]

ASSUME NullAssumption ==
  /\ Never \notin Stamps /\ Never \notin Dates
  /\ NoBan \notin Bans /\ NoView \notin Views

VARIABLES
  bans,     \* the hostbans table
  now,      \* DATETIME('now')
  changes,  \* history: INSERTs and UPDATEs so far
  view,     \* the ban each administrator is going to edit or delete, as it
            \* was in the list
  req       \* announcements past the ban check

vars == <<bans, now, changes, view, req>>

\* Every variable holds a value of its kind.
TypeOK ==
  /\ bans \in [BanIds -> Bans \cup {NoBan}]
  /\ now \in [day : Days, time : {Midnight, Later}]
  /\ changes \in 0..MaxChanges
  /\ view \in [Admins -> Views \cup {NoView}]
  /\ req \in [Workers -> Checks \cup {Idle}]

Init ==
  /\ bans = [id \in BanIds |-> NoBan]
  /\ now = [day |-> 0, time |-> Midnight]
  /\ changes = 0
  /\ view = [a \in Admins |-> NoView]
  /\ req = [w \in Workers |-> Idle]

Used == {id \in BanIds : bans[id] # NoBan}

-----------------------------------------------------------------------------
(* The statements.                                                         *)

AfterInclusive(stamp, point) ==
  \/ stamp.day > point.day
  \/ stamp.day = point.day /\ stamp.time >= point.time

\* The texts compare as >.
After(stamp, point) ==
  \/ stamp.day > point.day
  \/ stamp.day = point.day /\ stamp.time > point.time

InForce(ban) == ban.expires = Never \/ After(ban.expires, now)

IsBannedHostExactly(host) ==
  \E id \in Used : bans[id].host = host /\ InForce(bans[id])

IsBannedHost(host) ==
  \E id \in Used : Fold[bans[id].host] = Fold[host] /\ InForce(bans[id])

\* A new row gets the largest id plus one.
IsNextBanId(id) ==
  /\ \A i \in Used : i < id
  /\ id = 1 \/ id - 1 \in Used

CreatedExpiryNow(date) ==
  IF date = Never THEN Never ELSE [day |-> date, time |-> now.time]

\* Creating turns a date into a date with a time, editing does not.
CreatedExpiry(date) ==
  IF date = Never THEN Never ELSE [day |-> date, time |-> Midnight]

UpdatedExpiry(date) ==
  IF date = Never THEN Never ELSE [day |-> date, time |-> NoTime]

-----------------------------------------------------------------------------
(* GET, POST, PUT and DELETE on /admin/bans/                               *)

Changed == changes < MaxChanges /\ changes' = changes + 1

AdminQueryHostBans(a) ==
  /\ \E id \in Used :
       view' = [view EXCEPT ![a] = [id |-> id, birth |-> bans[id].birth,
                                    asOf |-> changes]]
  /\ UNCHANGED <<bans, now, changes, req>>

AdminCreateHostBan(host, date) ==
  /\ Changed
  /\ \E id \in BanIds :
       /\ IsNextBanId(id)
       /\ bans' = [bans EXCEPT ![id] =
            [host |-> host, expires |-> CreatedExpiry(date),
             birth |-> changes', edit |-> changes']]
  /\ UNCHANGED <<now, view, req>>

AdminUpdateHostBanReplaces(a, host, date) ==
  /\ view[a] # NoView /\ view[a].id \in Used
  /\ Changed
  /\ \E id \in BanIds :
       /\ IsNextBanId(id)
       /\ bans' = [bans EXCEPT
            ![view[a].id] = NoBan,
            ![id] = [bans[view[a].id] EXCEPT !.host = host,
                       !.expires = UpdatedExpiry(date), !.edit = changes']]
  /\ view' = [view EXCEPT ![a] = NoView]
  /\ UNCHANGED <<now, req>>

\* The row with the id is edited, whether or not it is the one that was seen.
AdminUpdateHostBan(a, host, date) ==
  /\ view[a] # NoView /\ view[a].id \in Used
  /\ Changed
  /\ bans' = [bans EXCEPT ![view[a].id] =
       [@ EXCEPT !.host = host, !.expires = UpdatedExpiry(date), !.edit = changes']]
  /\ view' = [view EXCEPT ![a] = NoView]
  /\ UNCHANGED <<now, req>>

AdminDeleteHostBanAll(a) ==
  /\ view[a] # NoView /\ view[a].id \in Used
  /\ bans' = [id \in BanIds |-> NoBan]
  /\ view' = [view EXCEPT ![a] = NoView]
  /\ UNCHANGED <<now, changes, req>>

AdminDeleteHostBan(a) ==
  /\ view[a] # NoView /\ view[a].id \in Used
  /\ bans' = [bans EXCEPT ![view[a].id] = NoBan]
  /\ view' = [view EXCEPT ![a] = NoView]
  /\ UNCHANGED <<now, changes, req>>

\* "Hostban not found", or an error of the database.
AdminRequestFails(a) ==
  /\ view[a] # NoView
  /\ view' = [view EXCEPT ![a] = NoView]
  /\ UNCHANGED <<bans, now, changes, req>>

-----------------------------------------------------------------------------
(* POST /sessions/                                                         *)

\* Banned, or the lookup failed, an announcement ends here.
CheckBan(w, host) ==
  /\ req[w] = Idle
  /\ ~ IsBannedHost(host)
  /\ req' = [req EXCEPT ![w] = [pc |-> "checks", host |-> host, asOf |-> changes]]
  /\ UNCHANGED <<bans, now, changes, view>>

\* The duplicate check, the limit and the connection to the host are through:
\* the session is listed, or one of them refused it.
Finish(w) ==
  /\ req[w] # Idle
  /\ req' = [req EXCEPT ![w] = Idle]
  /\ UNCHANGED <<bans, now, changes, view>>

-----------------------------------------------------------------------------

Tick ==
  /\ \/ now.time = Midnight /\ now' = [now EXCEPT !.time = Later]
     \/ now.day < LastDay /\ now' = [day |-> now.day + 1, time |-> Midnight]
  /\ UNCHANGED <<bans, changes, view, req>>

\* The process ends and starts again; administrators keep what they saw.
Restart ==
  /\ bans' = IF Persistent THEN bans ELSE [id \in BanIds |-> NoBan]
  /\ req' = [w \in Workers |-> Idle]
  /\ UNCHANGED <<now, changes, view>>

AdminStep ==
  \/ \E a \in Admins :
       \/ AdminQueryHostBans(a) \/ AdminDeleteHostBan(a) \/ AdminRequestFails(a)
       \/ \E host \in Spellings, date \in Dates \cup {Never} :
            AdminUpdateHostBan(a, host, date)
  \/ \E host \in Spellings, date \in Dates \cup {Never} :
       AdminCreateHostBan(host, date)

AnnounceStep ==
  \E w \in Workers :
    \/ \E host \in Spellings : CheckBan(w, host)
    \/ Finish(w)

Next == AdminStep \/ AnnounceStep \/ Tick \/ Restart

Spec == Init /\ [][Next]_vars

-----------------------------------------------------------------------------
(* Properties.                                                             *)

\* Dates are stored with a time by a creation and without by an edit, and are
\* compared as texts.  Either way a ban is in force up to the midnight its date
\* begins with, and not in that second (db_sqlite.go:407, 726, 750).
InForceUntilDate ==
  \A id \in Used :
    InForce(bans[id]) <=>
      bans[id].expires = Never \/ now.day < bans[id].expires.day

\* An announcement looks bans up once and may then take seconds.  A ban of its
\* host that is in force while it does was placed or changed after the lookup:
\* no ban comes into force by itself, and none is overlooked because of the
\* spelling of the host (endpoints.go:142-185).
LateBansOnly ==
  \A w \in Workers :
    req[w] # Idle =>
      \A id \in Used :
        Fold[bans[id].host] = Fold[req[w].host] /\ InForce(bans[id])
          => bans[id].edit > req[w].asOf

\* Administrators edit and delete by an id from a list they read before, and
\* ids are used again.  A ban that was in the list under another id is never
\* hit instead: the id stands for the ban that was seen, for none, or for one
\* placed after the list was read (db_sqlite.go:748, 771).
SeenOrNewer ==
  \A a \in Admins :
    view[a] # NoView /\ view[a].id \in Used =>
      \/ bans[view[a].id].birth = view[a].birth
      \/ bans[view[a].id].birth > view[a].asOf

\* The hosts an announcement would be refused for.
BannedNames == {Fold[s] : s \in {host \in Spellings : IsBannedHost(host)}}

\* The row with this id as a ban of the register.
Standing(id) ==
  [name  |-> id,
   host  |-> Fold[bans[id].host],
   until |-> IF bans[id].expires = Never THEN Never ELSE bans[id].expires.day]

Register ==
  INSTANCE BanRegister WITH
    Never    <- Never,
    Durable  <- Persistent,
    standing <- {Standing(id) : id \in Used},
    banned   <- BannedNames,
    today    <- now.day

\* The table keeps a register of bans: a request places, changes or lifts one ban
\* and no other, and a host is refused if and only if one of its bans stands,
\* whatever spellings and formats of dates they have and whichever of several
\* has ended, was lifted or turned to another host (endpoints.go:453-532,
\* db_sqlite.go:404, 715-779).
ImplementsRegister == Register!RegisterSpec

=============================================================================
