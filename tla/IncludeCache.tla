---------------------------- MODULE IncludeCache ----------------------------
(***************************************************************************)
(* The lists of included servers and their cache (inclsrv/queries.go).     *)
(*                                                                         *)
(* A request for the session list starts one goroutine for each included   *)
(* server, waits for all of them and merges their lists.  A goroutine      *)
(* looks into the cache and, if it must, makes one or two HTTP calls; only *)
(* the lookup and the store hold the mutex, so goroutines of concurrent    *)
(* requests for the same server overlap and store in any order.            *)
(*                                                                         *)
(* Time is in ticks.  Only HTTP calls take time, at most Timeout each: a   *)
(* tick waits for every goroutine that could go on by itself.  Of a list   *)
(* and of a host name the model keeps how long ago the included server     *)
(* gave it out.  Ages saturate one past the largest value they are         *)
(* compared with.                                                          *)
(***************************************************************************)
EXTENDS Integers

CONSTANTS
  Urls,            \* includeServers of the config
  Nameless,        \* those of them that give out an empty host (no ext_host)
  Requests,        \* requests for the session list that may run at a time
  CacheTtl,        \* includeCacheTtl: lifetime of a cached list, 0 for none
  StatusCacheTtl,  \* includeStatusCacheTtl: lifetime of a host name
  Timeout,         \* includeTimeout: limit of one HTTP call
  NoEntry          \* not in the cache

ASSUME TtlAssumption ==
  /\ CacheTtl \in Nat
  /\ StatusCacheTtl \in Nat
  /\ CacheTtl <= StatusCacheTtl  \* doNormalizations
  /\ Timeout \in Nat \ {0}

ASSUME NamelessAssumption == Nameless \subseteq Urls

Named == Urls \ Nameless

\* What a list on its way to a client may be old: cached to the end of its
\* lifetime, stored one call late, and kept waiting for the slowest server.
ListBound == CacheTtl + 3 * Timeout

\* Likewise a host name, which takes one more call.
HostBound == StatusCacheTtl + 4 * Timeout

ListAges  == 0..(ListBound + 1)
HostAges  == 0..(HostBound + 1)
EntryAges == 0..(StatusCacheTtl + 1)

Older(age, bound) == IF age <= bound THEN age + 1 ELSE age

Entries == [age : EntryAges, known : BOOLEAN, hostAge : HostAges, listAge : ListAges]

ASSUME EntryAssumption == NoEntry \notin Entries

VARIABLES
  cache,    \* the cache: by url, when it was stored and what
  task,     \* the goroutine of each request for each url
  serving   \* the HTTP server is up; before, main warms the cache

vars == <<cache, task, serving>>

Idle     == [pc |-> "idle"]
Lookup   == [pc |-> "lookup"]
NoList   == [pc |-> "failed"]
Forget   == [pc |-> "forget"]

Tasks ==
  {Idle, Lookup, NoList, Forget}
    \cup [pc : {"status"}, wait : 0..Timeout]
    \cup [pc : {"sessions"}, wait : 0..Timeout, hostAge : HostAges]
    \cup [pc : {"store", "done"}, hostAge : HostAges, listAge : ListAges]

\* Every entry and every goroutine is of its kind, ages included: no call is
\* under way for longer than its timeout.
TypeOK ==
  /\ cache \in [Urls -> Entries \cup {NoEntry}]
  /\ task \in [Requests -> [Urls -> Tasks]]
  /\ serving \in BOOLEAN

\* main fetches all lists once before it starts the HTTP server.
Init ==
  /\ cache = [u \in Urls |-> NoEntry]
  /\ \E r0 \in Requests :
       task = [r \in Requests |-> [u \in Urls |-> IF r = r0 THEN Lookup ELSE Idle]]
  /\ serving = FALSE

Become(r, u, t) == task' = [task EXCEPT ![r][u] = t]

-----------------------------------------------------------------------------
(* One request for the session list.                                       *)

Begin(r) ==
  /\ serving
  /\ \A u \in Urls : task[r][u] = Idle
  /\ task' = [task EXCEPT ![r] = [u \in Urls |-> Lookup]]
  /\ UNCHANGED <<cache, serving>>

Finished(r) == \A u \in Urls : task[r][u].pc \in {"done", "failed"}

\* All goroutines have sent their results; the merged list is sent.
Respond(r) ==
  /\ Finished(r)
  /\ task' = [task EXCEPT ![r] = [u \in Urls |-> Idle]]
  /\ serving' = TRUE
  /\ UNCHANGED cache

-----------------------------------------------------------------------------
(* One goroutine: cachedFetchServerSessionList.                            *)

FreshEnoughStatus(u) == cache[u] # NoEntry /\ cache[u].age <= StatusCacheTtl

FreshEnough(u) == cache[u] # NoEntry /\ cache[u].age <= CacheTtl

\* Host and port are in the cache and need not be asked for; an empty host is.
HostKnown(u) ==
  cache[u] # NoEntry /\ cache[u].age <= StatusCacheTtl /\ cache[u].known

LookUpCacheForever(r, u) ==
  /\ task[r][u] = Lookup
  /\ Become(r, u,
       IF cache[u] # NoEntry
         THEN [pc |-> "done", hostAge |-> cache[u].hostAge, listAge |-> cache[u].listAge]
         ELSE [pc |-> "status", wait |-> 0])
  /\ UNCHANGED <<cache, serving>>

LookUpCache(r, u) ==
  /\ task[r][u] = Lookup
  /\ Become(r, u,
       CASE CacheTtl > 0 /\ FreshEnough(u) ->
              [pc |-> "done", hostAge |-> cache[u].hostAge, listAge |-> cache[u].listAge]
         [] CacheTtl > 0 /\ ~ FreshEnough(u) /\ HostKnown(u) ->
              [pc |-> "sessions", wait |-> 0, hostAge |-> cache[u].hostAge]
         [] OTHER -> [pc |-> "status", wait |-> 0])
  /\ UNCHANGED <<cache, serving>>

\* The answer to /status/: the server made it at some time during the call.
StatusReturns(r, u) ==
  /\ task[r][u].pc = "status"
  /\ \E age \in 0..task[r][u].wait :
       Become(r, u, [pc |-> "sessions", wait |-> 0, hostAge |-> age])
  /\ UNCHANGED <<cache, serving>>

\* The answer to /sessions/?listed=true.
SessionsReturn(r, u) ==
  /\ task[r][u].pc = "sessions"
  /\ \E age \in 0..task[r][u].wait :
       Become(r, u, [pc |-> "store", hostAge |-> task[r][u].hostAge, listAge |-> age])
  /\ UNCHANGED <<cache, serving>>

FetchFailsForgets(r, u) ==
  /\ task[r][u].pc \in {"status", "sessions"}
  /\ Become(r, u, Forget)
  /\ UNCHANGED <<cache, serving>>

FetchFailsSilently(r, u) ==
  /\ task[r][u].pc \in {"status", "sessions"}
  /\ Become(r, u, Idle)
  /\ UNCHANGED <<cache, serving>>

\* A failed or timed out call; the result is stored only without a lifetime.
FetchFails(r, u) ==
  /\ task[r][u].pc \in {"status", "sessions"}
  /\ Become(r, u, IF CacheTtl > 0 THEN NoList ELSE Forget)
  /\ UNCHANGED <<cache, serving>>

\* putCached: the whole entry is replaced, its time is now.
Store(r, u) ==
  /\ task[r][u].pc = "store"
  /\ cache' = [cache EXCEPT ![u] =
                 [age |-> 0, known |-> u \in Named, hostAge |-> task[r][u].hostAge,
                  listAge |-> task[r][u].listAge]]
  /\ Become(r, u, [task[r][u] EXCEPT !.pc = "done"])
  /\ UNCHANGED serving

\* Without a lifetime the outcome is stored, error or not: an empty host.
StoreFailure(r, u) ==
  /\ task[r][u] = Forget
  /\ cache' = [cache EXCEPT ![u] =
                 [age |-> 0, known |-> FALSE, hostAge |-> 0, listAge |-> 0]]
  /\ Become(r, u, NoList)
  /\ UNCHANGED serving

Step(r, u) ==
  \/ LookUpCache(r, u) \/ StatusReturns(r, u) \/ SessionsReturn(r, u)
  \/ FetchFails(r, u) \/ Store(r, u) \/ StoreFailure(r, u)

-----------------------------------------------------------------------------

AgedEntry(e) ==
  IF e = NoEntry THEN NoEntry
  ELSE [e EXCEPT !.age = Older(@, StatusCacheTtl), !.hostAge = Older(@, HostBound),
                 !.listAge = Older(@, ListBound)]

AgedTask(t) ==
  CASE t.pc = "status"   -> [t EXCEPT !.wait = @ + 1]
    [] t.pc = "sessions" -> [t EXCEPT !.wait = @ + 1, !.hostAge = Older(@, HostBound)]
    [] t.pc = "done"     -> [t EXCEPT !.hostAge = Older(@, HostBound),
                                      !.listAge = Older(@, ListBound)]
    [] OTHER             -> t

UrgentInSessions(t) ==
  \/ t.pc \in {"lookup", "store", "forget"}
  \/ t.pc = "sessions" /\ t.wait = Timeout

\* A goroutine that waits for nothing, or for a call at the end of its time.
Urgent(t) ==
  \/ t.pc \in {"lookup", "store", "forget"}
  \/ t.pc \in {"status", "sessions"} /\ t.wait = Timeout

Tick ==
  /\ \A r \in Requests : ~ Finished(r) /\ \A u \in Urls : ~ Urgent(task[r][u])
  /\ cache' = [u \in Urls |-> AgedEntry(cache[u])]
  /\ task' = [r \in Requests |-> [u \in Urls |-> AgedTask(task[r][u])]]
  /\ UNCHANGED serving

Next ==
  \/ \E r \in Requests : \/ Begin(r) \/ Respond(r)
                         \/ \E u \in Urls : Step(r, u)
  \/ Tick

Spec == Init /\ [][Next]_vars

(* The runtime schedules every goroutine; a call ends because its client   *)
(* has a timeout; time passes.                                             *)
Fairness ==
  /\ WF_vars(Tick)
  /\ \A r \in Requests : WF_vars(Respond(r)) /\ \A u \in Urls : WF_vars(Step(r, u))

LiveSpec == Spec /\ Fairness

-----------------------------------------------------------------------------
(* Correctness.                                                            *)

\* No list on its way to a client is older than the lifetime allows, whatever
\* goroutines store over each other: a goroutine that began earlier and ends
\* later puts an older list in the place of a younger one, under a new time
\* (inclsrv/queries.go:153-186).
FreshList ==
  \A r \in Requests, u \in Urls :
    task[r][u].pc = "done" => task[r][u].listAge <= ListBound

\* endpoints.go:136: "Don't allow listing sessions on servers that are
\* included anyway".  A server whose sessions are about to be shown is among
\* the hosts that IncludeHosts returns (inclsrv/queries.go:322), unless it gives
\* out no host at all.
IncludedHostsKnown ==
  \A r \in Requests, u \in Named :
    task[r][u].pc = "done" => cache[u] # NoEntry /\ cache[u].known

\* A host that has been included stays known for as long as the process
\* lives: no failure, timeout or concurrent fetch makes it forgotten
\* (inclsrv/queries.go:180-185).
HostsStayKnown ==
  [][\A u \in Named :
       cache[u] # NoEntry /\ cache[u].known => cache'[u] # NoEntry /\ cache'[u].known]_vars

\* Every request for the list is answered, though included servers are down
\* or silent (inclsrv/queries.go:72, 281).
EveryListAnswered ==
  \A r \in Requests : (\E u \in Urls : task[r][u] # Idle)
                        ~> (\A u \in Urls : task[r][u] = Idle)

\* example.cfg:23: includestatuscachettl is "How long to cache the hostname
\* and port of the included servers above, in seconds."
HostFresh ==
  \A r \in Requests, u \in Urls :
    task[r][u].pc = "done" => task[r][u].hostAge <= HostBound

=============================================================================
