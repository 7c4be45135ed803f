------------------------- MODULE IncludeCacheProofs -------------------------
(***************************************************************************)
(* Proofs about IncludeCache: ages of lists, and that included hosts are   *)
(* not forgotten, for any number of servers and requests and any lifetimes *)
(* and timeout.                                                            *)
(***************************************************************************)
EXTENDS IncludeCache, TLAPS

USE TtlAssumption DEF Named

-----------------------------------------------------------------------------
(* Ages.                                                                   *)

LEMMA OlderRange ==
  ASSUME NEW bound \in Nat, NEW age \in 0..(bound + 1)
  PROVE  /\ Older(age, bound) \in 0..(bound + 1)
         /\ Older(age, bound) <= age + 1
         /\ age <= bound => Older(age, bound) = age + 1
BY DEF Older

LEMMA BoundTypes == /\ ListBound \in Nat
                    /\ HostBound \in Nat
BY DEF ListBound, HostBound

\* What an entry and a goroutine become when time passes.
LEMMA AgedEntryType ==
  ASSUME NEW e \in Entries \cup {NoEntry}
  PROVE  /\ AgedEntry(e) \in Entries \cup {NoEntry}
         /\ AgedEntry(e) = NoEntry <=> e = NoEntry
         /\ e # NoEntry =>
              /\ AgedEntry(e).known = e.known
              /\ AgedEntry(e).age = Older(e.age, StatusCacheTtl)
              /\ AgedEntry(e).listAge = Older(e.listAge, ListBound)
<1>1. CASE e = NoEntry
  BY <1>1 DEF AgedEntry
<1>2. CASE e # NoEntry
  <2>1. e \in Entries
    BY <1>2
  <2>2. /\ Older(e.age, StatusCacheTtl) \in EntryAges
        /\ Older(e.hostAge, HostBound) \in HostAges
        /\ Older(e.listAge, ListBound) \in ListAges
    BY <2>1, OlderRange, BoundTypes DEF Entries, EntryAges, HostAges, ListAges
  <2>3. AgedEntry(e) = [age |-> Older(e.age, StatusCacheTtl), known |-> e.known,
                        hostAge |-> Older(e.hostAge, HostBound),
                        listAge |-> Older(e.listAge, ListBound)]
    BY <1>2, <2>1 DEF AgedEntry, Entries
  <2>4. AgedEntry(e) \in Entries
    BY <2>1, <2>2, <2>3 DEF Entries
  <2> QED BY <1>2, <2>3, <2>4, EntryAssumption
<1> QED BY <1>1, <1>2

LEMMA AgedTaskType ==
  ASSUME NEW t \in Tasks, ~ Urgent(t)
  PROVE  /\ AgedTask(t) \in Tasks
         /\ AgedTask(t).pc = t.pc
         /\ t.pc \in {"status", "sessions"} => AgedTask(t).wait = t.wait + 1
         /\ t.pc = "done" => AgedTask(t).listAge = Older(t.listAge, ListBound)
<1>1. CASE t \in {Idle, Lookup, NoList, Forget}
  BY <1>1 DEF AgedTask, Idle, Lookup, NoList, Forget, Tasks
<1>2. CASE t \in [pc : {"status"}, wait : 0..Timeout]
  <2>1. t.wait + 1 \in 0..Timeout
    BY <1>2 DEF Urgent
  <2>2. AgedTask(t) = [pc |-> "status", wait |-> t.wait + 1]
    BY <1>2 DEF AgedTask
  <2> QED BY <1>2, <2>1, <2>2 DEF Tasks
<1>3. CASE t \in [pc : {"sessions"}, wait : 0..Timeout, hostAge : HostAges]
  <2>1. t.wait + 1 \in 0..Timeout
    BY <1>3 DEF Urgent
  <2>3. Older(t.hostAge, HostBound) \in HostAges
    BY <1>3, OlderRange, BoundTypes DEF HostAges
  <2>2. AgedTask(t) = [pc |-> "sessions", wait |-> t.wait + 1,
                       hostAge |-> Older(t.hostAge, HostBound)]
    BY <1>3 DEF AgedTask
  <2> QED BY <1>3, <2>1, <2>2, <2>3 DEF Tasks
<1>4. CASE t \in [pc : {"store", "done"}, hostAge : HostAges, listAge : ListAges]
  <2>1. t.pc = "done"
    BY <1>4 DEF Urgent
  <2>2. /\ Older(t.hostAge, HostBound) \in HostAges
        /\ Older(t.listAge, ListBound) \in ListAges
    BY <1>4, OlderRange, BoundTypes DEF HostAges, ListAges
  <2>3. AgedTask(t) = [pc |-> "done", hostAge |-> Older(t.hostAge, HostBound),
                       listAge |-> Older(t.listAge, ListBound)]
    BY <1>4, <2>1 DEF AgedTask
  <2> QED BY <2>1, <2>2, <2>3 DEF Tasks
<1> QED BY <1>1, <1>2, <1>3, <1>4 DEF Tasks

-----------------------------------------------------------------------------
(* Types.                                                                  *)

LEMMA BecomeType ==
  ASSUME TypeOK, NEW r \in Requests, NEW u \in Urls, NEW t \in Tasks, Become(r, u, t)
  PROVE  /\ task' \in [Requests -> [Urls -> Tasks]]
         /\ task'[r][u] = t
         /\ \A q \in Requests, v \in Urls :
              q # r \/ v # u => task'[q][v] = task[q][v]
BY DEF TypeOK, Become

\* The values goroutines take are tasks.
LEMMA TaskValues ==
  /\ Idle \in Tasks /\ Lookup \in Tasks /\ NoList \in Tasks /\ Forget \in Tasks
  /\ [pc |-> "status", wait |-> 0] \in Tasks
  /\ \A h \in HostAges : [pc |-> "sessions", wait |-> 0, hostAge |-> h] \in Tasks
  /\ \A h \in HostAges, a \in ListAges, p \in {"store", "done"} :
       [pc |-> p, hostAge |-> h, listAge |-> a] \in Tasks
BY DEF Tasks

\* The fields of a goroutine are in range.
LEMMA TaskFields ==
  ASSUME NEW t \in Tasks
  PROVE  /\ t.pc \in {"idle", "lookup", "failed", "forget", "status", "sessions",
                      "store", "done"}
         /\ t.pc \in {"status", "sessions"} =>
              t.wait \in 0..Timeout /\ 0..t.wait \subseteq ListAges /\ 0..t.wait \subseteq HostAges
         /\ t.pc \in {"sessions", "store", "done"} => t.hostAge \in HostAges
         /\ t.pc \in {"store", "done"} =>
              /\ t.listAge \in ListAges
              /\ t = [pc |-> t.pc, hostAge |-> t.hostAge, listAge |-> t.listAge]
         /\ t.pc = "idle" <=> t = Idle
         /\ t.pc = "lookup" <=> t = Lookup
         /\ t.pc = "forget" <=> t = Forget
BY DEF Tasks, Idle, Lookup, NoList, Forget, ListAges, HostAges, ListBound, HostBound

-----------------------------------------------------------------------------
(* The inductive invariant.                                                *)

(* How old a list that waits in the same request as goroutine t may be.  A *)
(* request begins its goroutines together, so what t has left of its time  *)
(* is all that the list still has to wait for t.                           *)
Budget(t) ==
  IF t.pc = "lookup" THEN CacheTtl + Timeout
  ELSE IF t.pc = "status" THEN CacheTtl + Timeout + t.wait
  ELSE IF t.pc = "sessions" THEN CacheTtl + 2 * Timeout + t.wait
  ELSE ListBound

EntriesFresh ==
  \A u \in Urls :
    cache[u] # NoEntry /\ cache[u].age <= CacheTtl
      => cache[u].listAge <= cache[u].age + Timeout

StoresFresh ==
  \A r \in Requests, u \in Urls :
    task[r][u].pc = "store" => task[r][u].listAge <= Timeout

WaitingFresh ==
  \A r \in Requests : \A u, v \in Urls :
    task[r][u].pc = "done" => task[r][u].listAge <= Budget(task[r][v])

\* The goroutines of a request begin and end together.
Together ==
  \A r \in Requests :
    (\A u \in Urls : task[r][u] = Idle) \/ (\A u \in Urls : task[r][u] # Idle)

AgeInv == TypeOK /\ EntriesFresh /\ StoresFresh /\ WaitingFresh /\ Together

LEMMA BudgetRange ==
  ASSUME NEW t \in Tasks
  PROVE  /\ Budget(t) \in Nat
         /\ CacheTtl + Timeout <= Budget(t)
         /\ Budget(t) <= ListBound
BY TaskFields DEF Budget, ListBound

\* A goroutine goes on: what holds of lists in hand still holds, if it takes
\* no more time than it had, and no list that is too old.
LEMMA GoOn ==
  ASSUME AgeInv, NEW r \in Requests, NEW u \in Urls, NEW t \in Tasks,
         Become(r, u, t), task[r][u] # Idle, t # Idle,
         Budget(task[r][u]) <= Budget(t),
         t.pc = "store" => t.listAge <= Timeout,
         t.pc = "done" => t.listAge <= CacheTtl + Timeout
  PROVE  /\ task' \in [Requests -> [Urls -> Tasks]]
         /\ StoresFresh'
         /\ WaitingFresh'
         /\ Together'
<1> USE DEF AgeInv
<1>1. /\ task' \in [Requests -> [Urls -> Tasks]]
      /\ task'[r][u] = t
      /\ \A q \in Requests, v \in Urls : q # r \/ v # u => task'[q][v] = task[q][v]
  BY BecomeType
<1>2. StoresFresh'
  BY <1>1 DEF StoresFresh
<1>3. WaitingFresh'
  <2> SUFFICES ASSUME NEW q \in Requests, NEW v \in Urls, NEW x \in Urls,
                      task'[q][v].pc = "done"
               PROVE  task'[q][v].listAge <= Budget(task'[q][x])
    BY DEF WaitingFresh, Budget
  <2>1. /\ task[q][v] \in Tasks /\ task'[q][v] \in Tasks
        /\ task[q][x] \in Tasks /\ task'[q][x] \in Tasks
    BY <1>1 DEF TypeOK
  <2>2. /\ Budget(task[q][x]) \in Nat /\ Budget(task'[q][x]) \in Nat
        /\ CacheTtl + Timeout <= Budget(task'[q][x])
        /\ task'[q][v].listAge \in Nat
    BY <2>1, BudgetRange, TaskFields, BoundTypes DEF ListAges
  <2>3. Budget(task[q][x]) <= Budget(task'[q][x])
    BY <1>1, <2>2
  <2>4. CASE q = r /\ v = u
    BY <1>1, <2>2, <2>4
  <2>5. CASE q # r \/ v # u
    <3>1. task'[q][v] = task[q][v]
      BY <1>1, <2>5
    <3>2. task[q][v].listAge <= Budget(task[q][x])
      BY <3>1 DEF WaitingFresh
    <3> QED BY <3>1, <3>2, <2>2, <2>3
  <2> QED BY <2>4, <2>5
<1>4. Together'
  BY <1>1 DEF Together
<1> QED BY <1>1, <1>2, <1>3, <1>4

LEMMA InitAges == Init => AgeInv
<1> SUFFICES ASSUME Init PROVE AgeInv
  OBVIOUS
<1>1. PICK r0 \in Requests :
        task = [r \in Requests |-> [u \in Urls |-> IF r = r0 THEN Lookup ELSE Idle]]
  BY DEF Init
<1>2. /\ task \in [Requests -> [Urls -> Tasks]]
      /\ \A r \in Requests, u \in Urls : task[r][u].pc \in {"lookup", "idle"}
  BY <1>1, TaskValues DEF Lookup, Idle
<1>3. TypeOK
  BY <1>2 DEF TypeOK, Init
<1>4. EntriesFresh
  BY DEF EntriesFresh, Init
<1>5. StoresFresh /\ WaitingFresh
  BY <1>2 DEF StoresFresh, WaitingFresh
<1>6. Together
  BY <1>1 DEF Together, Lookup, Idle
<1> QED BY <1>3, <1>4, <1>5, <1>6 DEF AgeInv

\* Each step of a goroutine.
LEMMA StepAges ==
  ASSUME AgeInv, NEW r \in Requests, NEW u \in Urls, Step(r, u)
  PROVE  AgeInv'
<1> DEFINE t == task[r][u]
           e == cache[u]
<1>1. TypeOK /\ t \in Tasks /\ e \in Entries \cup {NoEntry}
  BY DEF AgeInv, TypeOK
<1>2. /\ Budget(t) \in Nat /\ CacheTtl + Timeout <= Budget(t) /\ Budget(t) <= ListBound
      /\ ListBound = CacheTtl + 3 * Timeout
  BY <1>1, BudgetRange DEF ListBound
<1>3. e # NoEntry => e.age \in Nat /\ e.listAge \in ListAges /\ e.hostAge \in HostAges
  BY <1>1 DEF Entries, EntryAges
<1>4. CASE LookUpCache(r, u)
  <2>1. t = Lookup /\ t.pc = "lookup" /\ t # Idle /\ cache' = cache /\ serving' = serving
    BY <1>4 DEF LookUpCache, Lookup, Idle
  <2>2. Budget(t) = CacheTtl + Timeout
    BY <2>1 DEF Budget
  <2> DEFINE served == [pc |-> "done", hostAge |-> e.hostAge, listAge |-> e.listAge]
             known  == [pc |-> "sessions", wait |-> 0, hostAge |-> e.hostAge]
             asked  == [pc |-> "status", wait |-> 0]
  <2>3. \/ FreshEnough(u) /\ Become(r, u, served)
        \/ HostKnown(u) /\ Become(r, u, known)
        \/ Become(r, u, asked)
    BY <1>4 DEF LookUpCache
  <2>4. CASE FreshEnough(u) /\ Become(r, u, served)
    <3>1. e # NoEntry /\ e.listAge <= CacheTtl + Timeout
      BY <2>4, <1>3 DEF FreshEnough, AgeInv, EntriesFresh, ListAges
    <3>2. served \in Tasks /\ served # Idle /\ Budget(served) = ListBound
      BY <3>1, <1>3, TaskValues DEF Budget, Idle
    <3> QED BY <2>1, <2>4, <3>1, <3>2, <1>2, GoOn DEF AgeInv, TypeOK, EntriesFresh
  <2>5. CASE HostKnown(u) /\ Become(r, u, known)
    <3>1. known \in Tasks /\ known # Idle
      BY <2>5, <1>3, TaskValues DEF HostKnown, Idle
    <3>2. CacheTtl + Timeout <= Budget(known)
      BY <3>1, BudgetRange
    <3> QED BY <2>1, <2>2, <2>5, <3>1, <3>2, GoOn DEF AgeInv, TypeOK, EntriesFresh
  <2>6. CASE Become(r, u, asked)
    <3>1. asked \in Tasks /\ asked # Idle
      BY TaskValues DEF Idle
    <3>2. CacheTtl + Timeout <= Budget(asked)
      BY <3>1, BudgetRange
    <3> QED BY <2>1, <2>2, <2>6, <3>1, <3>2, GoOn DEF AgeInv, TypeOK, EntriesFresh
  <2> QED BY <2>3, <2>4, <2>5, <2>6
<1>5. CASE StatusReturns(r, u)
  <2>1. PICK age \in 0..t.wait : Become(r, u, [pc |-> "sessions", wait |-> 0, hostAge |-> age])
    BY <1>5 DEF StatusReturns
  <2> DEFINE n == [pc |-> "sessions", wait |-> 0, hostAge |-> age]
  <2>2. t.pc = "status" /\ t # Idle /\ cache' = cache /\ serving' = serving
    BY <1>5 DEF StatusReturns, Idle
  <2>3. t.wait \in 0..Timeout /\ age \in HostAges
    BY <2>2, <1>1, TaskFields
  <2>4. n \in Tasks /\ n # Idle
    BY <2>3, TaskValues DEF Idle
  <2>5. Budget(n) = CacheTtl + 2 * Timeout /\ Budget(t) = CacheTtl + Timeout + t.wait
    BY <2>2 DEF Budget
  <2>6. Budget(t) <= Budget(n)
    BY <2>3, <2>5
  <2> QED BY <2>1, <2>2, <2>4, <2>6, GoOn DEF AgeInv, TypeOK, EntriesFresh
<1>6. CASE SessionsReturn(r, u)
  <2>1. PICK age \in 0..t.wait :
          Become(r, u, [pc |-> "store", hostAge |-> t.hostAge, listAge |-> age])
    BY <1>6 DEF SessionsReturn
  <2> DEFINE n == [pc |-> "store", hostAge |-> t.hostAge, listAge |-> age]
  <2>2. t.pc = "sessions" /\ t # Idle /\ cache' = cache /\ serving' = serving
    BY <1>6 DEF SessionsReturn, Idle
  <2>3. t.wait \in 0..Timeout /\ age \in ListAges /\ t.hostAge \in HostAges
    BY <2>2, <1>1, TaskFields
  <2>4. n \in Tasks /\ n # Idle
    BY <2>3, TaskValues DEF Idle
  <2>6. age <= Timeout
    BY <2>3
  <2>5. Budget(n) = ListBound
    BY DEF Budget
  <2> QED BY <1>2, <2>1, <2>2, <2>4, <2>5, <2>6, GoOn DEF AgeInv, TypeOK, EntriesFresh
<1>7. CASE FetchFails(r, u)
  <2>1. PICK n \in {NoList, Forget} : Become(r, u, n)
    BY <1>7 DEF FetchFails
  <2>2. t # Idle /\ cache' = cache /\ serving' = serving
    BY <1>7 DEF FetchFails, Idle
  <2>3. n \in Tasks /\ n # Idle /\ n.pc \in {"failed", "forget"} /\ Budget(n) = ListBound
    BY <2>1, TaskValues DEF NoList, Forget, Idle, Budget
  <2> QED BY <1>2, <2>1, <2>2, <2>3, GoOn DEF AgeInv, TypeOK, EntriesFresh
<1>8. CASE Store(r, u)
  <2> DEFINE n == [pc |-> "done", hostAge |-> t.hostAge, listAge |-> t.listAge]
             stored == [age |-> 0, known |-> u \in Named, hostAge |-> t.hostAge,
                        listAge |-> t.listAge]
  <2>1. t.pc = "store" /\ t # Idle /\ serving' = serving /\ cache' = [cache EXCEPT ![u] = stored]
    BY <1>8 DEF Store, Idle
  <2>2. /\ t.hostAge \in HostAges /\ t.listAge \in ListAges /\ t.listAge \in Nat
        /\ t = [pc |-> "store", hostAge |-> t.hostAge, listAge |-> t.listAge]
    BY <2>1, <1>1, TaskFields DEF ListAges
  <2>3. Become(r, u, n)
    <3>1. [t EXCEPT !.pc = "done"] = n
      BY <2>2
    <3> QED BY <1>8, <3>1 DEF Store
  <2>4. n \in Tasks /\ n # Idle /\ Budget(n) = ListBound
    BY <2>2, TaskValues DEF Idle, Budget
  <2>5. t.listAge <= Timeout
    BY <2>1 DEF AgeInv, StoresFresh
  <2>6. stored \in Entries
    BY <2>2 DEF Entries, EntryAges
  <2>7. cache' \in [Urls -> Entries \cup {NoEntry}] /\ EntriesFresh'
    BY <1>1, <2>1, <2>5, <2>6 DEF AgeInv, TypeOK, EntriesFresh
  <2> QED BY <1>2, <2>1, <2>2, <2>3, <2>4, <2>5, <2>7, GoOn DEF AgeInv, TypeOK
<1>9. CASE StoreFailure(r, u)
  <2> DEFINE stored == [age |-> 0, known |-> FALSE, hostAge |-> 0, listAge |-> 0]
  <2>1. /\ t = Forget /\ t # Idle /\ serving' = serving
        /\ cache' = [cache EXCEPT ![u] = stored] /\ Become(r, u, NoList)
    BY <1>9 DEF StoreFailure, Forget, Idle
  <2>2. NoList \in Tasks /\ NoList # Idle /\ NoList.pc = "failed" /\ Budget(NoList) = ListBound
    BY TaskValues DEF NoList, Idle, Budget
  <2>3. stored \in Entries
    BY BoundTypes DEF Entries, EntryAges, HostAges, ListAges
  <2>4. cache' \in [Urls -> Entries \cup {NoEntry}] /\ EntriesFresh'
    BY <1>1, <2>1, <2>3 DEF AgeInv, TypeOK, EntriesFresh
  <2> QED BY <1>2, <2>1, <2>2, <2>4, GoOn DEF AgeInv, TypeOK
<1> QED BY <1>4, <1>5, <1>6, <1>7, <1>8, <1>9 DEF Step

\* A tick: whoever waits has some of its time left, and a list that waits in
\* the same request grows no older than that allows.
LEMMA TickAges == AgeInv /\ Tick => AgeInv'
<1> SUFFICES ASSUME AgeInv, Tick PROVE AgeInv'
  OBVIOUS
<1>1. /\ cache' = [u \in Urls |-> AgedEntry(cache[u])]
      /\ task' = [r \in Requests |-> [u \in Urls |-> AgedTask(task[r][u])]]
      /\ serving' = serving
      /\ \A r \in Requests : ~ Finished(r) /\ \A u \in Urls : ~ Urgent(task[r][u])
  BY DEF Tick
<1>2. /\ \A u \in Urls : cache[u] \in Entries \cup {NoEntry}
      /\ \A r \in Requests, u \in Urls : task[r][u] \in Tasks
      /\ serving \in BOOLEAN
  BY DEF AgeInv, TypeOK
<1>3. ASSUME NEW r \in Requests, NEW u \in Urls
      PROVE  /\ task'[r][u] \in Tasks
             /\ task'[r][u].pc = task[r][u].pc
             /\ task[r][u].pc \in {"status", "sessions"} =>
                  task'[r][u].wait = task[r][u].wait + 1
             /\ task[r][u].pc = "done" =>
                  task'[r][u].listAge = Older(task[r][u].listAge, ListBound)
             /\ task[r][u].pc \notin {"lookup", "store", "forget"}
             /\ task[r][u].pc \in {"status", "sessions"} => task[r][u].wait # Timeout
  <2>1. task'[r][u] = AgedTask(task[r][u])
    BY <1>1
  <2> QED BY <2>1, <1>1, <1>2, AgedTaskType DEF Urgent
<1>4. TypeOK'
  <2>1. cache' \in [Urls -> Entries \cup {NoEntry}]
    BY <1>1, <1>2, AgedEntryType
  <2>2. task' \in [Requests -> [Urls -> Tasks]]
    BY <1>1, <1>3
  <2> QED BY <2>1, <2>2, <1>1, <1>2 DEF TypeOK
<1>5. EntriesFresh'
  <2> SUFFICES ASSUME NEW u \in Urls, cache'[u] # NoEntry, cache'[u].age <= CacheTtl
               PROVE  cache'[u].listAge <= cache'[u].age + Timeout
    BY DEF EntriesFresh
  <2> DEFINE e == cache[u]
  <2>1. cache'[u] = AgedEntry(e) /\ e \in Entries \cup {NoEntry}
    BY <1>1, <1>2
  <2>2. /\ e # NoEntry /\ e \in Entries
        /\ cache'[u].age = Older(e.age, StatusCacheTtl)
        /\ cache'[u].listAge = Older(e.listAge, ListBound)
    BY <2>1, AgedEntryType
  <2>3. e.age \in 0..(StatusCacheTtl + 1) /\ e.listAge \in 0..(ListBound + 1)
    BY <2>2 DEF Entries, EntryAges, ListAges
  <2>4. /\ Older(e.listAge, ListBound) <= e.listAge + 1
        /\ Older(e.listAge, ListBound) \in 0..(ListBound + 1)
    BY <2>3, BoundTypes, OlderRange
  <2>5. e.age <= CacheTtl /\ cache'[u].age = e.age + 1
    BY <2>2, <2>3 DEF Older
  <2>6. e.listAge <= e.age + Timeout
    BY <2>2, <2>5 DEF AgeInv, EntriesFresh
  <2> QED BY <2>2, <2>3, <2>4, <2>5, <2>6, BoundTypes
<1>6. StoresFresh'
  BY <1>3 DEF StoresFresh
<1>7. Together'
  <2>1. \A r \in Requests, u \in Urls : task'[r][u] = Idle <=> task[r][u] = Idle
    BY <1>2, <1>3, TaskFields
  <2> QED BY <2>1 DEF AgeInv, Together
<1>8. WaitingFresh'
  <2> SUFFICES ASSUME NEW r \in Requests, NEW u \in Urls, NEW v \in Urls,
                      task'[r][u].pc = "done"
               PROVE  task'[r][u].listAge <= Budget(task'[r][v])
    BY DEF WaitingFresh, Budget
  <2>1. /\ task[r][u].pc = "done"
        /\ task'[r][u].listAge = Older(task[r][u].listAge, ListBound)
    BY <1>3
  <2>2. task[r][u].listAge \in 0..(ListBound + 1)
    BY <2>1, <1>2, TaskFields DEF ListAges
  <2>3. /\ task'[r][u].listAge <= task[r][u].listAge + 1
        /\ task'[r][u].listAge \in 0..(ListBound + 1)
    BY <2>1, <2>2, BoundTypes, OlderRange
  <2>4. \A x \in Urls : task[r][u].listAge <= Budget(task[r][x])
    BY <2>1 DEF AgeInv, WaitingFresh
  \* A goroutine that holds the request up.
  <2>5. PICK x \in Urls : task[r][x].pc \in {"status", "sessions"}
    <3>1. PICK x \in Urls : task[r][x].pc \notin {"done", "failed"}
      BY <1>1 DEF Finished
    <3>2. task[r][u] # Idle
      BY <2>1 DEF Idle
    <3>3. task[r][x] # Idle
      BY <3>2 DEF AgeInv, Together
    <3>4. task[r][x].pc # "idle" /\ task[r][x].pc \notin {"lookup", "store", "forget"}
      BY <3>3, <1>2, <1>3, TaskFields
    <3> QED BY <3>1, <3>4, <1>2, TaskFields
  <2>6. task[r][x].wait \in 0..Timeout /\ task[r][x].wait # Timeout
    BY <2>5, <1>2, <1>3, TaskFields
  <2>7. Budget(task[r][x]) <= CacheTtl + 2 * Timeout + task[r][x].wait
    BY <2>5, <2>6 DEF Budget
  <2>8. Budget(task[r][x]) \in Nat
    BY <1>2, BudgetRange
  <2>9. task'[r][u].listAge <= ListBound
    BY <2>2, <2>3, <2>4, <2>6, <2>7, <2>8 DEF ListBound
  <2>10. CASE task[r][v].pc \in {"status", "sessions"}
    <3>1. /\ task'[r][v].pc = task[r][v].pc /\ task'[r][v].wait = task[r][v].wait + 1
          /\ task[r][v].wait \in 0..Timeout
      BY <2>10, <1>2, <1>3, TaskFields
    <3>2. Budget(task'[r][v]) = Budget(task[r][v]) + 1
      BY <2>10, <3>1 DEF Budget
    <3>3. Budget(task[r][v]) \in Nat /\ task[r][u].listAge <= Budget(task[r][v])
      BY <1>2, <2>4, BudgetRange
    <3> QED BY <2>2, <2>3, <3>2, <3>3
  <2>11. CASE task[r][v].pc \notin {"status", "sessions"}
    <3>1. Budget(task'[r][v]) = ListBound
      BY <2>11, <1>3 DEF Budget
    <3> QED BY <3>1, <2>9
  <2> QED BY <2>10, <2>11
<1> QED BY <1>4, <1>5, <1>6, <1>7, <1>8 DEF AgeInv

\* A request begins, or is answered.
LEMMA RequestAges ==
  ASSUME AgeInv, NEW r \in Requests, Begin(r) \/ Respond(r)
  PROVE  AgeInv'
<1>1. PICK t \in {Idle, Lookup} : task' = [task EXCEPT ![r] = [u \in Urls |-> t]]
  BY DEF Begin, Respond
<1>2. cache' = cache /\ serving' \in BOOLEAN
  BY DEF Begin, Respond, AgeInv, TypeOK
<1>3. t \in Tasks /\ t.pc \in {"idle", "lookup"}
  BY <1>1, TaskValues DEF Idle, Lookup
<1>4. TypeOK'
  BY <1>1, <1>2, <1>3 DEF AgeInv, TypeOK
<1>5. \A q \in Requests, u \in Urls :
        task'[q][u] = IF q = r THEN t ELSE task[q][u]
  BY <1>1 DEF AgeInv, TypeOK
<1>6. EntriesFresh' /\ StoresFresh'
  BY <1>2, <1>3, <1>5 DEF AgeInv, EntriesFresh, StoresFresh
<1>7. Together'
  BY <1>5 DEF AgeInv, Together
<1>8. WaitingFresh'
  <2> SUFFICES ASSUME NEW q \in Requests, NEW u \in Urls, NEW v \in Urls,
                      task'[q][u].pc = "done"
               PROVE  task'[q][u].listAge <= Budget(task'[q][v])
    BY DEF WaitingFresh, Budget
  <2>1. q # r
    BY <1>3, <1>5
  <2>2. task'[q][u] = task[q][u] /\ task'[q][v] = task[q][v]
    BY <1>5, <2>1
  <2> QED BY <2>2 DEF AgeInv, WaitingFresh
<1> QED BY <1>4, <1>6, <1>7, <1>8 DEF AgeInv

LEMMA NextAges == AgeInv /\ [Next]_vars => AgeInv'
<1> SUFFICES ASSUME AgeInv, [Next]_vars PROVE AgeInv'
  OBVIOUS
<1>1. ASSUME NEW r \in Requests, Begin(r) \/ Respond(r) PROVE AgeInv'
  BY <1>1, RequestAges
<1>2. ASSUME NEW r \in Requests, NEW u \in Urls, Step(r, u) PROVE AgeInv'
  BY <1>2, StepAges
<1>3. CASE Tick
  BY <1>3, TickAges
<1>4. CASE UNCHANGED vars
  BY <1>4 DEF vars, AgeInv, TypeOK, EntriesFresh, StoresFresh, WaitingFresh, Together, Budget
<1> QED BY <1>1, <1>2, <1>3, <1>4 DEF Next

LEMMA AgesInvariant == Spec => []AgeInv
BY InitAges, NextAges, PTL DEF Spec

\* Entries and goroutines keep their kind, and no call outlasts its timeout.
THEOREM CacheTypeCorrect == Spec => []TypeOK
<1>1. AgeInv => TypeOK
  BY DEF AgeInv
<1> QED BY <1>1, AgesInvariant, PTL

\* No list on its way to a client is older than the lifetime of the cache and
\* three calls, however the goroutines of requests overlap
\* (inclsrv/queries.go:153-186).
THEOREM ListsFresh == Spec => []FreshList
<1>1. AgeInv => FreshList
  <2> SUFFICES ASSUME AgeInv, NEW r \in Requests, NEW u \in Urls, task[r][u].pc = "done"
               PROVE  task[r][u].listAge <= ListBound
    BY DEF FreshList
  <2>1. task[r][u].listAge <= Budget(task[r][u])
    BY DEF AgeInv, WaitingFresh
  <2> QED BY <2>1 DEF Budget
<1> QED BY <1>1, AgesInvariant, PTL

-----------------------------------------------------------------------------
(* Hosts, with a lifetime.  The entries are made by stores of successful   *)
(* fetches alone, and never taken out.                                     *)

HostsInv ==
  /\ TypeOK
  /\ \A u \in Named : cache[u] # NoEntry => cache[u].known
  /\ \A r \in Requests, u \in Urls :
       /\ task[r][u] # Forget
       /\ task[r][u].pc = "done" => cache[u] # NoEntry

LEMMA InitHosts == Init => HostsInv
<1> SUFFICES ASSUME Init PROVE HostsInv
  OBVIOUS
<1>1. TypeOK
  BY InitAges DEF AgeInv
<1>4. PICK r0 \in Requests :
        task = [r \in Requests |-> [u \in Urls |-> IF r = r0 THEN Lookup ELSE Idle]]
  BY DEF Init
<1>2. \A r \in Requests, u \in Urls : task[r][u] \in {Lookup, Idle}
  BY <1>4
<1>3. \A u \in Urls : cache[u] = NoEntry
  BY DEF Init
<1> QED BY <1>1, <1>2, <1>3 DEF HostsInv, Lookup, Idle, Forget

LEMMA NextHosts ==
  ASSUME CacheTtl > 0, HostsInv, AgeInv, [Next]_vars
  PROVE  /\ HostsInv'
         /\ \A u \in Urls : cache[u] # NoEntry => cache'[u] # NoEntry
<1>1. TypeOK /\ TypeOK'
  BY NextAges DEF HostsInv, AgeInv
<1>2. ASSUME NEW r \in Requests, Begin(r) \/ Respond(r)
      PROVE  HostsInv' /\ cache' = cache
  <2>1. PICK t \in {Idle, Lookup} : task' = [task EXCEPT ![r] = [u \in Urls |-> t]]
    BY <1>2 DEF Begin, Respond
  <2>2. cache' = cache
    BY <1>2 DEF Begin, Respond
  <2>3. \A q \in Requests, u \in Urls : task'[q][u] = IF q = r THEN t ELSE task[q][u]
    BY <2>1, <1>1 DEF TypeOK
  <2>4. t # Forget /\ t.pc # "done"
    BY <2>1 DEF Idle, Lookup, Forget
  <2> QED BY <2>2, <2>3, <2>4, <1>1 DEF HostsInv
<1>3. ASSUME NEW r \in Requests, NEW u \in Urls, Step(r, u)
      PROVE  HostsInv' /\ (\A v \in Urls : cache[v] # NoEntry => cache'[v] # NoEntry)
  <2>1. CASE Store(r, u)
    <3>1. PICK n \in Entries : (u \in Named => n.known) /\ cache' = [cache EXCEPT ![u] = n]
      <4> DEFINE n == [age |-> 0, known |-> u \in Named,
                       hostAge |-> task[r][u].hostAge,
                       listAge |-> task[r][u].listAge]
      <4>1. task[r][u] \in Tasks /\ task[r][u].pc = "store"
        BY <2>1, <1>1 DEF Store, TypeOK
      <4>2. n \in Entries
        BY <4>1, TaskFields DEF Entries, EntryAges
      <4> QED BY <4>2, <2>1 DEF Store
    <3>2. \A v \in Urls : cache'[v] = IF v = u THEN n ELSE cache[v]
      BY <3>1, <1>1 DEF TypeOK
    <3>3. \A q \in Requests, v \in Urls :
            task'[q][v] = IF q = r /\ v = u THEN [task[r][u] EXCEPT !.pc = "done"]
                          ELSE task[q][v]
      BY <2>1, <1>1 DEF Store, Become, TypeOK
    <3>4. [task[r][u] EXCEPT !.pc = "done"] # Forget
      <4>1. task[r][u] \in Tasks /\ task[r][u].pc = "store"
        BY <2>1, <1>1 DEF Store, TypeOK
      <4>2. [task[r][u] EXCEPT !.pc = "done"].pc = "done"
        BY <4>1, TaskFields
      <4> QED BY <4>2 DEF Forget
    <3>5. /\ \A v \in Named : cache'[v] # NoEntry => cache'[v].known
          /\ \A v \in Urls : cache[v] # NoEntry => cache'[v] # NoEntry
      BY <3>1, <3>2, EntryAssumption DEF HostsInv
    <3>6. \A q \in Requests, v \in Urls :
            /\ task'[q][v] # Forget
            /\ task'[q][v].pc = "done" => cache'[v] # NoEntry
      BY <3>1, <3>2, <3>3, <3>4, EntryAssumption DEF HostsInv
    <3> QED BY <3>5, <3>6, <1>1 DEF HostsInv
  <2>2. CASE StoreFailure(r, u)
    BY <2>2 DEF StoreFailure, HostsInv
  <2>3. CASE ~ Store(r, u) /\ ~ StoreFailure(r, u)
    <3>1. /\ cache' = cache
          /\ \E t : /\ Become(r, u, t) /\ t # Forget
                    /\ t.pc = "done" => cache[u] # NoEntry
      <4>1. CASE LookUpCache(r, u)
        <5> DEFINE e == cache[u]
                   served == [pc |-> "done", hostAge |-> e.hostAge, listAge |-> e.listAge]
                   known  == [pc |-> "sessions", wait |-> 0, hostAge |-> e.hostAge]
                   asked  == [pc |-> "status", wait |-> 0]
        <5>1. \/ FreshEnough(u) /\ Become(r, u, served)
              \/ Become(r, u, known)
              \/ Become(r, u, asked)
          BY <4>1 DEF LookUpCache
        <5>2. served # Forget /\ known # Forget /\ asked # Forget
          BY DEF Forget
        <5>3. known.pc # "done" /\ asked.pc # "done"
          OBVIOUS
        <5>4. FreshEnough(u) => cache[u] # NoEntry
          BY DEF FreshEnough
        <5>5. cache' = cache
          BY <4>1 DEF LookUpCache
        <5> HIDE DEF served, known, asked
        <5> QED BY <5>1, <5>2, <5>3, <5>4, <5>5
      <4>2. CASE StatusReturns(r, u)
        <5>1. PICK age : Become(r, u, [pc |-> "sessions", wait |-> 0, hostAge |-> age])
          BY <4>2 DEF StatusReturns
        <5>2. [pc |-> "sessions", wait |-> 0, hostAge |-> age].pc = "sessions"
          OBVIOUS
        <5> QED BY <4>2, <5>1, <5>2 DEF StatusReturns, Forget
      <4>3. CASE SessionsReturn(r, u)
        <5> DEFINE n(age) == [pc |-> "store", hostAge |-> task[r][u].hostAge, listAge |-> age]
        <5>1. PICK age : Become(r, u, n(age))
          BY <4>3 DEF SessionsReturn
        <5>2. n(age).pc = "store" /\ Forget.pc = "forget"
          BY DEF Forget
        <5> HIDE DEF n
        <5> QED BY <4>3, <5>1, <5>2 DEF SessionsReturn
      <4>4. CASE FetchFails(r, u)
        <5>1. Become(r, u, NoList) /\ cache' = cache
          BY <4>4 DEF FetchFails
        <5>2. NoList.pc = "failed" /\ NoList # Forget
          BY DEF NoList, Forget
        <5> QED BY <5>1, <5>2
      <4>5. \/ LookUpCache(r, u) \/ StatusReturns(r, u)
            \/ SessionsReturn(r, u) \/ FetchFails(r, u)
        BY <1>3, <2>3 DEF Step
      <4> QED BY <4>1, <4>2, <4>3, <4>4, <4>5
    <3>2. PICK t : /\ Become(r, u, t) /\ t # Forget
                   /\ t.pc = "done" => cache[u] # NoEntry
      BY <3>1
    <3>3. \A q \in Requests, v \in Urls :
            task'[q][v] = IF q = r /\ v = u THEN t ELSE task[q][v]
      BY <3>2, <1>1 DEF Become, TypeOK
    <3> QED BY <3>1, <3>2, <3>3, <1>1 DEF HostsInv
  <2> QED BY <2>1, <2>2, <2>3
<1>4. CASE Tick
  <2>1. \A u \in Urls :
          /\ cache'[u] = NoEntry <=> cache[u] = NoEntry
          /\ cache[u] # NoEntry => cache'[u].known = cache[u].known
    BY <1>1, <1>4, AgedEntryType DEF Tick, TypeOK
  <2>2. \A r \in Requests, u \in Urls :
          /\ task[r][u] \in Tasks /\ task'[r][u] \in Tasks
          /\ task'[r][u].pc = task[r][u].pc
    BY <1>1, <1>4, AgedTaskType DEF Tick, TypeOK
  <2>3. \A r \in Requests, u \in Urls : task'[r][u] # Forget
    BY <2>2, TaskFields DEF HostsInv
  <2> QED BY <1>1, <2>1, <2>2, <2>3 DEF HostsInv
<1>5. CASE UNCHANGED vars
  BY <1>5, <1>1 DEF vars, HostsInv
<1> QED BY <1>2, <1>3, <1>4, <1>5 DEF Next

LEMMA HostsInvariant == ASSUME CacheTtl > 0 PROVE Spec => []HostsInv
<1>1. HostsInv /\ AgeInv /\ [Next]_vars => HostsInv'
  BY NextHosts
<1> QED BY <1>1, InitHosts, AgesInvariant, PTL DEF Spec

\* With a lifetime, a server whose sessions are about to be shown is known
\* to the announcements' check (endpoints.go:136).
THEOREM IncludedAreKnown == ASSUME CacheTtl > 0 PROVE Spec => []IncludedHostsKnown
<1>1. HostsInv => IncludedHostsKnown
  BY DEF HostsInv, IncludedHostsKnown
<1> QED BY <1>1, HostsInvariant, PTL

\* With a lifetime, no failure makes a host forgotten
\* (inclsrv/queries.go:180-185).
THEOREM HostsAreKept == ASSUME CacheTtl > 0 PROVE Spec => HostsStayKnown
<1> DEFINE Kept == \A u \in Named : cache[u] # NoEntry /\ cache[u].known
                                    => cache'[u] # NoEntry /\ cache'[u].known
<1>1. HostsInv /\ AgeInv /\ [Next]_vars => Kept
  <2> SUFFICES ASSUME HostsInv, AgeInv, [Next]_vars PROVE Kept
    OBVIOUS
  <2>1. HostsInv' /\ \A u \in Urls : cache[u] # NoEntry => cache'[u] # NoEntry
    BY NextHosts
  <2> QED BY <2>1 DEF HostsInv
<1>2. HostsInv /\ AgeInv /\ [Next]_vars => [Kept]_vars
  BY <1>1
<1> QED BY <1>2, HostsInvariant, AgesInvariant, PTL DEF Spec, HostsStayKnown

=============================================================================
