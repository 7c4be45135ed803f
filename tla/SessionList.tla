----------------------------- MODULE SessionList -----------------------------
(***************************************************************************)
(* What the public list shows: the content of listings as announcements    *)
(* and refreshes leave it, and the answer to one GET /sessions/, put       *)
(* together from the database and the included servers.                    *)
(*                                                                         *)
(* Whether an announcement or a refresh is accepted, and when a listing    *)
(* leaves the list, is the subject of ListServer; what an included server  *)
(* is asked and how old the reply may be, that of IncludeCache.  Requests  *)
(* for the list share nothing else, so one at a time is enough.            *)
(***************************************************************************)
EXTENDS Validation, Sequences, FiniteSets

CONSTANTS
  Titles,           \* numbers: the place of a title in the order of titles
  NsfmTitles,       \* titles with one of the nsfmWords in them
  Subtexts,         \* texts that titles are searched for
  TitlesWith,       \* for each, the titles that contain it
  TitlesLike,       \* for each, those that contain it in any case
  VersionsWith,     \* for each version, those that contain its text
  NoFilter,         \* the filter is left out
  Pending,          \* nothing has been received yet
  NoRow,
  MaxRows,          \* bound: rows on the list
  Announced,        \* bound: what is announced
  Asked,            \* bound: the parameters of requests
  IncludeServers,   \* number of included servers
  Included,         \* bound: the lists each of them may reply with
  MergeText,        \* the text "host-port-id" of a session's name
  HasDatabase,      \* database # "none"
  Public            \* of the config

RowIds == 1..MaxRows

Servers == 1..IncludeServers

Announcements ==
  [host : Hosts \cup {NoHost}, port : Int, id : Ids, protocol : Versions,
   title : Titles, nsfm : BOOLEAN]

\* The source is history: where the title and the tag come from.
Sessions ==
  [host : Hosts, port : Ports, id : Ids, protocol : Versions, title : Titles,
   nsfm : BOOLEAN, source : {"announced", "refreshed", "included"}]

Name(session) == <<session.host, session.port, session.id>>

\* The parameters of a request; a list of protocols is the set of its parts, an
\* empty one when it is left out.
Options ==
  [title : Subtexts \cup {NoFilter}, nsfm : BOOLEAN,
   protocol : SUBSET Versions]

ASSUME ListAssumption ==
  /\ Titles \subseteq Int
  /\ NsfmTitles \subseteq Titles
  /\ TitlesWith \in [Subtexts -> SUBSET Titles]
  /\ TitlesLike \in [Subtexts -> SUBSET Titles]
  /\ \A text \in Subtexts : TitlesWith[text] \subseteq TitlesLike[text]
  /\ VersionsWith \in [Versions -> SUBSET Versions]
  /\ NoFilter \notin Subtexts
  /\ NoRow \notin Sessions
  /\ Pending \notin Seq(Sessions)

ASSUME SourceAssumption ==
  /\ MaxRows \in Nat
  /\ IncludeServers \in Nat
  /\ Announced \subseteq Clients \X Announcements
  /\ Asked \subseteq Options
  /\ Included \in [Servers -> SUBSET Seq({s \in Sessions : s.source = "included"})]
  /\ HasDatabase \in BOOLEAN
  /\ Public \in BOOLEAN

VARIABLES
  rows,   \* the rows of the sessions table that are on the list
  req     \* the request for the list

vars == <<rows, req>>

Idle == [pc |-> "idle"]

Requests ==
  [pc : {"wait", "answer"}, opts : Options, own : Seq(Sessions),
   sent : [Servers -> {Pending} \cup Seq(Sessions)],     \* by the goroutines
   channel : Seq(Servers),                               \* in this order
   results : [Servers -> {Pending} \cup Seq(Sessions)],  \* received
   answer : Seq(Sessions)]

\* Every variable holds a value of its kind: a row has a host and a port to
\* connect to, whatever the announcement left out.
TypeOK ==
  /\ rows \in [RowIds -> Sessions \cup {NoRow}]
  /\ req \in Requests \cup {Idle}

Init ==
  /\ rows = [id \in RowIds |-> NoRow]
  /\ req = Idle

Used == {id \in RowIds : rows[id] # NoRow}

-----------------------------------------------------------------------------
(* The content of listings.                                                *)

TagAsSent(info) == info.nsfm

Tag(info) == info.nsfm \/ info.title \in NsfmTitles

Announce(id, client, info) ==
  /\ HasDatabase /\ Public
  /\ rows[id] = NoRow
  /\ ValidateAnnouncement(info, client)
  /\ rows' = [rows EXCEPT ![id] =
       [host |-> HostOf(info, client), port |-> PortOf(info), id |-> info.id,
        protocol |-> info.protocol, title |-> info.title, nsfm |-> Tag(info),
        source |-> "announced"]]
  /\ UNCHANGED req

\* Each field may be given or left out, and is stored as it is.
RefreshSession(id, title, nsfm) ==
  /\ id \in Used
  /\ <<title, nsfm>> # <<rows[id].title, rows[id].nsfm>>
  /\ rows' = [rows EXCEPT ![id].title = title, ![id].nsfm = nsfm,
                          ![id].source = "refreshed"]
  /\ UNCHANGED req

\* Unlisted, kicked or timed out.
LeaveList(id) ==
  /\ id \in Used
  /\ rows' = [rows EXCEPT ![id] = NoRow]
  /\ UNCHANGED req

-----------------------------------------------------------------------------
(* The two filters.                                                        *)

RowMatchesNsfmOnly(session, opts) ==
  /\ opts.title # NoFilter => session.title \in TitlesLike[opts.title]
  /\ opts.nsfm = session.nsfm
  /\ opts.protocol # {} => session.protocol \in opts.protocol

\* The WHERE clause.
RowMatches(session, opts) ==
  /\ opts.title # NoFilter => session.title \in TitlesLike[opts.title]
  /\ opts.nsfm \/ ~ session.nsfm
  /\ opts.protocol # {} => session.protocol \in opts.protocol

\* A list of versions is not in the text of any version.
HasProtocol(session, protocol) ==
  \E version \in protocol :
    protocol = {version} /\ session.protocol \in VersionsWith[version]

PassesTitleOnly(session, opts) ==
  /\ opts.title # NoFilter => session.title \in TitlesWith[opts.title]
  /\ opts.protocol # {} => HasProtocol(session, opts.protocol)

Passes(session, opts) ==
  /\ opts.title # NoFilter => session.title \in TitlesWith[opts.title]
  /\ opts.nsfm \/ ~ session.nsfm
  /\ opts.protocol # {} => HasProtocol(session, opts.protocol)

\* The rows that match, by title; the order by users is left open.
QuerySessionList(opts) ==
  LET found == {id \in Used : RowMatches(rows[id], opts)} IN
    {[n \in 1..Cardinality(found) |-> rows[order[n]]] :
       order \in {o \in [1..Cardinality(found) -> found] :
                    \A m, n \in DOMAIN o : m < n =>
                      o[m] # o[n] /\ rows[o[m]].title <= rows[o[n]].title}}

-----------------------------------------------------------------------------
(* Filtering and merging of lists.  A position is a list and a place in it. *)

Positions(lists) ==
  UNION {{<<n, k>> : k \in DOMAIN lists[n]} : n \in DOMAIN lists}

Before(p, q) == p[1] < q[1] \/ (p[1] = q[1] /\ p[2] < q[2])

At(lists, p) == lists[p[1]][p[2]]

\* How many of a set of positions come up to and with p.
Rank(positions, p) == Cardinality({q \in positions : q = p \/ Before(q, p)})

\* What is at these positions, in their order.
Extract(lists, positions) ==
  [k \in 1..Cardinality(positions) |->
     At(lists, CHOOSE p \in positions : Rank(positions, p) = k)]

filterSessionList(sessions, opts) ==
  Extract(<<sessions>>,
          {p \in Positions(<<sessions>>) : Passes(At(<<sessions>>, p), opts)})

MergeKey(session) == MergeText[Name(session)]

FirstsInList(lists) ==
  {p \in Positions(lists) :
     \A q \in Positions(lists) :
       Before(q, p) /\ q[1] = p[1] => MergeKey(At(lists, q)) # MergeKey(At(lists, p))}

\* Where a key is met for the first time.
Firsts(lists) ==
  {p \in Positions(lists) :
     \A q \in Positions(lists) :
       Before(q, p) => MergeKey(At(lists, q)) # MergeKey(At(lists, p))}

MergeLists(lists) == Extract(lists, Firsts(lists))

-----------------------------------------------------------------------------
(* GET /sessions/                                                          *)

\* Refused without a database and included servers, or without public listings
\* and included servers.
ListStart(opts) ==
  /\ req = Idle
  /\ IncludeServers > 0 \/ (Public /\ HasDatabase)
  /\ \E own \in IF HasDatabase THEN QuerySessionList(opts) ELSE {<<>>} :
       req' = [pc      |-> IF IncludeServers > 0 THEN "wait" ELSE "answer",
               opts    |-> opts,
               own     |-> own,
               sent    |-> [u \in Servers |-> Pending],
               channel |-> <<>>,
               results |-> [u \in Servers |-> Pending],
               answer  |-> IF IncludeServers > 0 THEN <<>> ELSE own]
  /\ UNCHANGED rows

\* The goroutine of server u has its list, from the cache or fetched; or has
\* failed, and then it has none.
asyncFetchSessionList(u) ==
  /\ req.pc = "wait" /\ req.sent[u] = Pending
  /\ \E list \in {filterSessionList(l, req.opts) : l \in Included[u]} \cup {<<>>} :
       req' = [req EXCEPT !.sent[u] = list, !.channel = Append(@, u)]
  /\ UNCHANGED rows

Received == {u \in Servers : req.results[u] # Pending}

ReceiveInTurn ==
  /\ req.pc = "wait" /\ req.channel # <<>>
  /\ LET u == Head(req.channel) IN
       req' = [req EXCEPT !.results[Cardinality(Received) + 1] = req.sent[u],
                          !.channel = Tail(@)]
  /\ UNCHANGED rows

ReceiveList ==
  /\ req.pc = "wait" /\ req.channel # <<>>
  /\ LET u == Head(req.channel) IN
       req' = [req EXCEPT !.results[u] = req.sent[u], !.channel = Tail(@)]
  /\ UNCHANGED rows

AllLists(own, results) == [n \in 1..(IncludeServers + 1) |->
                             IF n = 1 THEN own ELSE results[n - 1]]

MergeResults ==
  /\ req.pc = "wait" /\ Received = Servers
  /\ req' = [req EXCEPT !.pc = "answer",
                        !.answer = MergeLists(AllLists(req.own, req.results))]
  /\ UNCHANGED rows

Respond ==
  /\ req.pc = "answer"
  /\ req' = Idle
  /\ UNCHANGED rows

Next ==
  \/ \E id \in RowIds :
       \/ \E a \in Announced : Announce(id, a[1], a[2])
       \/ \E title \in Titles, nsfm \in BOOLEAN : RefreshSession(id, title, nsfm)
       \/ LeaveList(id)
  \/ \E opts \in Asked : ListStart(opts)
  \/ \E u \in Servers : asyncFetchSessionList(u)
  \/ ReceiveList \/ MergeResults \/ Respond

Spec == Init /\ [][Next]_vars

-----------------------------------------------------------------------------
(* Properties.                                                             *)

Entries == {req.answer[i] : i \in DOMAIN req.answer}

Sent == UNION {{req.sent[u][k] : k \in DOMAIN req.sent[u]} : u \in Servers}

Own == {req.own[k] : k \in DOMAIN req.own}

\* With included servers the answer names no session twice, though it was
\* announced here twice or is known to several servers; and it misses none that
\* a source gave, a failed or late one apart, unless the name of another reads
\* the same with its dashes.  A listing of this server is shown as announced
\* here (inclsrv/queries.go:304-320).
MergedAnswer ==
  req.pc = "answer" /\ IncludeServers > 0 =>
    /\ \A i, j \in DOMAIN req.answer :
         Name(req.answer[i]) = Name(req.answer[j]) => i = j
    /\ \A session \in Own :
         \E entry \in Entries \cap Own : MergeKey(entry) = MergeKey(session)
    /\ \A session \in Sent :
         \E entry \in Entries : MergeKey(entry) = MergeKey(session)

\* The order in which the included servers reply is not to be seen in the
\* answer, neither in its order nor in which of two copies of a session it
\* shows (inclsrv/queries.go:281-299).
OrderSettled ==
  req.pc = "answer" /\ IncludeServers > 0 =>
    req.answer = MergeLists(AllLists(req.own, req.sent))

\* Who does not ask for NSFM sessions gets none that is tagged, of any source,
\* and of this server none that was announced under a title with one of the
\* words, unless its owner has refreshed it (endpoints.go:134, db_sqlite.go:274,
\* inclsrv/queries.go:238).
NsfmConsent ==
  req.pc = "answer" /\ ~ req.opts.nsfm =>
    \A entry \in Entries :
      /\ ~ entry.nsfm
      /\ entry.title \in NsfmTitles => entry.source # "announced"

\* Titles are searched for with their case, by one version in full.
Plain(opts) ==
  /\ opts.title # NoFilter => TitlesLike[opts.title] = TitlesWith[opts.title]
  /\ opts.protocol # {} =>
       \E version \in Versions :
         opts.protocol = {version} /\ VersionsWith[version] = {version}

\* The conditions of the query and those on included lists are written twice
\* and agree only on plain requests: the query ignores the case of the title,
\* and takes a list of versions in full where the other looks for one part
\* of a version (db_sqlite.go:270-289, inclsrv/queries.go:234-245).
FiltersAgree ==
  req # Idle /\ Plain(req.opts) =>
    \A id \in Used : RowMatches(rows[id], req.opts) <=> Passes(rows[id], req.opts)

\* example.cfg:59: "Any of these words in the title autotags the session as
\* NSFM".
NsfmTitlesTagged == \A id \in Used : rows[id].title \in NsfmTitles => rows[id].nsfm

=============================================================================
