-------------------------- MODULE SessionListProofs --------------------------
(***************************************************************************)
(* Proofs about SessionList, for any titles, filters, hosts, rows and      *)
(* number of included servers, and any lists they reply with.              *)
(***************************************************************************)
EXTENDS SessionList, FiniteSetTheorems, SequenceTheorems, TLAPS

-----------------------------------------------------------------------------
(* Positions, and what is extracted at them.                               *)

Placed(S) == IsFiniteSet(S) /\ S \subseteq Int \X Int

UpTo(S, p) == {q \in S : q = p \/ Before(q, p)}

LEMMA BeforeOrders ==
  ASSUME NEW p \in Int \X Int, NEW q \in Int \X Int, NEW r \in Int \X Int
  PROVE  /\ p = q \/ Before(p, q) \/ Before(q, p)
         /\ ~ Before(p, p)
         /\ Before(p, q) => ~ Before(q, p)
         /\ Before(p, q) /\ Before(q, r) => Before(p, r)
<1>1. /\ p = <<p[1], p[2]>> /\ p[1] \in Int /\ p[2] \in Int
      /\ q = <<q[1], q[2]>> /\ q[1] \in Int /\ q[2] \in Int
      /\ r[1] \in Int /\ r[2] \in Int
  OBVIOUS
<1> QED BY <1>1 DEF Before

LEMMA RankIs ==
  ASSUME NEW S, Placed(S), NEW p \in S
  PROVE  /\ Rank(S, p) = Cardinality(UpTo(S, p))
         /\ IsFiniteSet(UpTo(S, p))
         /\ Cardinality(S) \in Nat
         /\ Rank(S, p) \in 1..Cardinality(S)
<1>1. UpTo(S, p) \in SUBSET S /\ p \in UpTo(S, p)
  BY DEF UpTo
<1>2. Rank(S, p) = Cardinality(UpTo(S, p))
  BY DEF Rank, UpTo
<1>3. IsFiniteSet(UpTo(S, p)) /\ Cardinality(UpTo(S, p)) <= Cardinality(S)
  BY <1>1, FS_Subset DEF Placed
<1>4. Cardinality(UpTo(S, p)) \in Nat /\ Cardinality(S) \in Nat
  BY <1>3, FS_CardinalityType DEF Placed
<1>5. Cardinality(UpTo(S, p)) # 0
  BY <1>1, <1>3, FS_EmptySet
<1> QED BY <1>2, <1>3, <1>4, <1>5

LEMMA RankGrows ==
  ASSUME NEW S, Placed(S), NEW p \in S, NEW q \in S, Before(p, q)
  PROVE  Rank(S, p) < Rank(S, q)
<1>1. UpTo(S, p) \in SUBSET UpTo(S, q)
  <2> SUFFICES ASSUME NEW r \in S, r = p \/ Before(r, p) PROVE Before(r, q)
    BY DEF UpTo
  <2>1. p \in Int \X Int /\ q \in Int \X Int /\ r \in Int \X Int
    BY DEF Placed
  <2> QED BY <2>1, BeforeOrders
<1>2. q \in UpTo(S, q) /\ q \notin UpTo(S, p)
  <2>1. p \in Int \X Int /\ q \in Int \X Int
    BY DEF Placed
  <2> QED BY <2>1, BeforeOrders DEF UpTo
<1>3. /\ Cardinality(UpTo(S, p)) <= Cardinality(UpTo(S, q))
      /\ Cardinality(UpTo(S, p)) # Cardinality(UpTo(S, q))
  BY <1>1, <1>2, RankIs, FS_Subset
<1>4. /\ Rank(S, p) = Cardinality(UpTo(S, p)) /\ Rank(S, q) = Cardinality(UpTo(S, q))
      /\ Rank(S, p) \in Int /\ Rank(S, q) \in Int
  BY RankIs
<1> QED BY <1>3, <1>4

LEMMA RankInjective ==
  ASSUME NEW S, Placed(S), NEW p \in S, NEW q \in S, Rank(S, p) = Rank(S, q)
  PROVE  p = q
<1>1. p \in Int \X Int /\ q \in Int \X Int
  BY DEF Placed
<1>2. Rank(S, p) \in Int
  BY RankIs
<1>3. ~ Before(p, q)
  <2> SUFFICES ASSUME Before(p, q) PROVE FALSE
    OBVIOUS
  <2>1. Rank(S, p) < Rank(S, q)
    BY RankGrows
  <2> QED BY <2>1, <1>2
<1>4. ~ Before(q, p)
  <2> SUFFICES ASSUME Before(q, p) PROVE FALSE
    OBVIOUS
  <2>1. Rank(S, q) < Rank(S, p)
    BY RankGrows
  <2> QED BY <2>1, <1>2
<1> QED BY <1>1, <1>3, <1>4, BeforeOrders

LEMMA RankOnto ==
  ASSUME NEW S, Placed(S), NEW k \in 1..Cardinality(S)
  PROVE  \E p \in S : Rank(S, p) = k
<1> DEFINE T == 1..Cardinality(S)
           f == [p \in S |-> Rank(S, p)]
<1>1. Cardinality(S) \in Nat
  BY FS_CardinalityType DEF Placed
<1>2. IsFiniteSet(T) /\ Cardinality(T) = Cardinality(S)
  <2>1. IsFiniteSet(T) /\ Cardinality(T) =
          IF 1 > Cardinality(S) THEN 0 ELSE Cardinality(S) - 1 + 1
    BY <1>1, FS_Interval
  <2> QED BY <1>1, <2>1
<1>3. f \in [S -> T]
  BY RankIs
<1>4. f \in Injection(S, T)
  <2>1. \A p, q \in S : f[p] = f[q] => p = q
    BY RankInjective
  <2> HIDE DEF f, T
  <2> QED BY <1>3, <2>1 DEF Injection, IsInjective
<1>5. f \in Surjection(S, T)
  <2> HIDE DEF f, T
  <2> QED BY <1>2, <1>4, FS_Injection
<1> QED BY <1>5 DEF Surjection

\* What is extracted is what is at the positions.
LEMMA ExtractEntries ==
  ASSUME NEW lists, NEW S, Placed(S)
  PROVE  /\ Cardinality(S) \in Nat
         /\ DOMAIN Extract(lists, S) = 1..Cardinality(S)
         /\ \A k \in 1..Cardinality(S) :
              \E p \in S : Rank(S, p) = k /\ Extract(lists, S)[k] = At(lists, p)
         /\ \A p \in S : /\ Rank(S, p) \in 1..Cardinality(S)
                         /\ Extract(lists, S)[Rank(S, p)] = At(lists, p)
<1>1. Cardinality(S) \in Nat
  BY FS_CardinalityType DEF Placed
<1>2. \A k \in 1..Cardinality(S) :
        \E p \in S : Rank(S, p) = k /\ Extract(lists, S)[k] = At(lists, p)
  <2> TAKE k \in 1..Cardinality(S)
  <2>1. PICK p \in S : p = CHOOSE q \in S : Rank(S, q) = k
    BY RankOnto
  <2>2. Rank(S, p) = k
    BY <2>1, RankOnto
  <2> QED BY <2>1, <2>2 DEF Extract
<1>3. \A p \in S : Rank(S, p) \in 1..Cardinality(S)
  BY RankIs
<1>4. \A p \in S : Extract(lists, S)[Rank(S, p)] = At(lists, p)
  BY <1>2, <1>3, RankInjective
<1>5. DOMAIN Extract(lists, S) = 1..Cardinality(S)
  BY DEF Extract
<1> QED BY <1>1, <1>2, <1>3, <1>4, <1>5

\* Lists of lists.
ListsOf(n, X) == [1..n -> Seq(X)]

LEMMA PositionsPlaced ==
  ASSUME NEW X, NEW n \in Nat, NEW lists \in ListsOf(n, X)
  PROVE  /\ Placed(Positions(lists))
         /\ \A p \in Positions(lists) :
              /\ p[1] \in 1..n /\ p[2] \in DOMAIN lists[p[1]] /\ p = <<p[1], p[2]>>
              /\ At(lists, p) \in X
         /\ \A i \in 1..n : \A k \in DOMAIN lists[i] : <<i, k>> \in Positions(lists)
<1>1. /\ DOMAIN lists = 1..n
      /\ \A i \in 1..n : lists[i] \in Seq(X) /\ Len(lists[i]) \in Nat
                         /\ DOMAIN lists[i] = 1..Len(lists[i])
  BY LenProperties DEF ListsOf
<1> DEFINE f == [i \in 1..n |-> 1..Len(lists[i])]
           T == {f[i] : i \in 1..n}
<1>2. IsFiniteSet(1..n)
  BY FS_Interval
<1>3. f \in Surjection(1..n, T)
  BY DEF Surjection
<1>4. IsFiniteSet(T)
  <2> HIDE DEF f, T
  <2> QED BY <1>2, <1>3, FS_Surjection
<1>5. \A D \in T : IsFiniteSet(D)
  BY <1>1, FS_Interval
<1>6. IsFiniteSet(UNION T)
  BY <1>4, <1>5, FS_UNION
<1>7. IsFiniteSet((1..n) \X UNION T)
  BY <1>2, <1>6, FS_Product
<1>8. \A p \in Positions(lists) :
        /\ p[1] \in 1..n /\ p[2] \in DOMAIN lists[p[1]] /\ p = <<p[1], p[2]>>
        /\ p[2] \in 1..Len(lists[p[1]])
  BY <1>1 DEF Positions
<1>9. \A p \in Positions(lists) : p \in (1..n) \X UNION T
  BY <1>8
<1>10. IsFiniteSet(Positions(lists))
  <2> HIDE DEF T
  <2> QED BY <1>7, <1>9, FS_Subset
<1>11. Positions(lists) \subseteq Int \X Int
  BY <1>8
<1>12. \A p \in Positions(lists) : At(lists, p) \in X
  BY <1>1, <1>8, ElementOfSeq DEF At
<1>13. \A i \in 1..n : \A k \in DOMAIN lists[i] : <<i, k>> \in Positions(lists)
  BY <1>1 DEF Positions
<1> QED BY <1>8, <1>10, <1>11, <1>12, <1>13 DEF Placed

LEMMA PlacedSubset ==
  ASSUME NEW S, Placed(S), NEW T \in SUBSET S
  PROVE  Placed(T)
BY FS_Subset DEF Placed

LEMMA ExtractTyped ==
  ASSUME NEW X, NEW n \in Nat, NEW lists \in ListsOf(n, X),
         NEW S \in SUBSET Positions(lists)
  PROVE  Extract(lists, S) \in Seq(X) /\ Placed(S)
<1>1. Placed(S)
  BY PositionsPlaced, PlacedSubset
<1>2. /\ Cardinality(S) \in Nat
      /\ DOMAIN Extract(lists, S) = 1..Cardinality(S)
      /\ \A k \in 1..Cardinality(S) : Extract(lists, S)[k] \in X
  BY <1>1, ExtractEntries, PositionsPlaced
<1>3. Extract(lists, S) \in [1..Cardinality(S) -> X]
  BY <1>2 DEF Extract
<1> QED BY <1>1, <1>2, <1>3, SeqDef

-----------------------------------------------------------------------------
(* Filtering, the query and merging.                                       *)

LEMMA FilterPasses ==
  ASSUME NEW X, NEW list \in Seq(X), NEW opts
  PROVE  /\ filterSessionList(list, opts) \in Seq(X)
         /\ \A k \in DOMAIN filterSessionList(list, opts) :
              Passes(filterSessionList(list, opts)[k], opts)
<1> DEFINE lists == <<list>>
           S == {p \in Positions(lists) : Passes(At(lists, p), opts)}
<1>1. lists \in ListsOf(1, X)
  BY DEF ListsOf
<1>2. Extract(lists, S) \in Seq(X) /\ Placed(S)
  BY <1>1, ExtractTyped
<1>3. \A k \in DOMAIN Extract(lists, S) : \E p \in S : Extract(lists, S)[k] = At(lists, p)
  <2> HIDE DEF S, lists
  <2> QED BY <1>2, ExtractEntries
<1> QED BY <1>2, <1>3 DEF filterSessionList

LEMMA QueryMatches ==
  ASSUME TypeOK, NEW opts, NEW own \in QuerySessionList(opts)
  PROVE  /\ own \in Seq(Sessions)
         /\ \A k \in DOMAIN own :
              \E id \in Used : own[k] = rows[id] /\ RowMatches(rows[id], opts)
<1> DEFINE found == {id \in Used : RowMatches(rows[id], opts)}
<1>1. PICK order \in [1..Cardinality(found) -> found] :
        own = [n \in 1..Cardinality(found) |-> rows[order[n]]]
  BY DEF QuerySessionList
<1>2. IsFiniteSet(RowIds) /\ found \in SUBSET RowIds
  BY SourceAssumption, FS_Interval DEF RowIds, Used
<1>3. Cardinality(found) \in Nat
  BY <1>2, FS_Subset, FS_CardinalityType
<1>4. \A id \in found : rows[id] \in Sessions
  BY DEF TypeOK, Used
<1>5. own \in [1..Cardinality(found) -> Sessions]
  BY <1>1, <1>4
<1>6. own \in Seq(Sessions)
  BY <1>3, <1>5, SeqDef
<1> QED BY <1>1, <1>6

\* For each position the key is first met there or before.
LEMMA FirstExists ==
  ASSUME NEW lists, Placed(Positions(lists)), NEW q \in Positions(lists)
  PROVE  \E p \in Firsts(lists) :
           /\ MergeKey(At(lists, p)) = MergeKey(At(lists, q))
           /\ p = q \/ Before(p, q)
<1> DEFINE M == {p \in Positions(lists) : MergeKey(At(lists, p)) = MergeKey(At(lists, q))}
<1>1. Placed(M)
  BY PlacedSubset
<1>2. Cardinality(M) \in Nat /\ Cardinality(M) # 0
  BY <1>1, FS_CardinalityType, FS_EmptySet DEF Placed
<1>3. PICK p \in M : Rank(M, p) = 1
  BY <1>1, <1>2, RankOnto
<1>4. \A r \in M : ~ Before(r, p)
  <2> SUFFICES ASSUME NEW r \in M, Before(r, p) PROVE FALSE
    OBVIOUS
  <2>1. Rank(M, r) < Rank(M, p) /\ Rank(M, r) \in 1..Cardinality(M)
    BY <1>1, RankGrows, RankIs
  <2> QED BY <1>3, <2>1
<1>5. p \in Firsts(lists)
  BY <1>4 DEF Firsts
<1>6. p = q \/ Before(p, q)
  <2>1. p \in Int \X Int /\ q \in Int \X Int
    BY DEF Placed
  <2> QED BY <1>4, <2>1, BeforeOrders
<1> QED BY <1>5, <1>6

\* What merging promises: no key twice, none missing, and a session of the
\* first list is represented by one of that list.
LEMMA MergePromises ==
  ASSUME NEW X, NEW n \in Nat, NEW lists \in ListsOf(n, X)
  PROVE  /\ MergeLists(lists) \in Seq(X)
         /\ \A i, j \in DOMAIN MergeLists(lists) :
              MergeKey(MergeLists(lists)[i]) = MergeKey(MergeLists(lists)[j]) => i = j
         /\ \A i \in DOMAIN MergeLists(lists) : \E p \in Positions(lists) :
              MergeLists(lists)[i] = At(lists, p)
         /\ \A q \in Positions(lists) :
              \E p \in Positions(lists), i \in DOMAIN MergeLists(lists) :
                /\ MergeLists(lists)[i] = At(lists, p)
                /\ MergeKey(At(lists, p)) = MergeKey(At(lists, q))
                /\ p = q \/ Before(p, q)
<1> DEFINE firsts == Firsts(lists)
           merged == Extract(lists, firsts)
<1>1. firsts \in SUBSET Positions(lists)
  BY DEF Firsts
<1>2. merged \in Seq(X) /\ Placed(firsts)
  BY <1>1, ExtractTyped
<1>3. /\ \A k \in DOMAIN merged :
           \E p \in firsts : Rank(firsts, p) = k /\ merged[k] = At(lists, p)
      /\ \A p \in firsts : /\ Rank(firsts, p) \in DOMAIN merged
                           /\ merged[Rank(firsts, p)] = At(lists, p)
  BY <1>2, ExtractEntries
<1>4. ASSUME NEW i \in DOMAIN merged, NEW j \in DOMAIN merged,
             MergeKey(merged[i]) = MergeKey(merged[j])
      PROVE  i = j
  <2>1. PICK p \in firsts : Rank(firsts, p) = i /\ merged[i] = At(lists, p)
    BY <1>3
  <2>2. PICK q \in firsts : Rank(firsts, q) = j /\ merged[j] = At(lists, q)
    BY <1>3
  <2>3. ~ Before(p, q) /\ ~ Before(q, p)
    BY <1>4, <2>1, <2>2 DEF Firsts
  <2>4. p = q
    BY <1>2, <2>3, BeforeOrders DEF Placed
  <2> QED BY <2>1, <2>2, <2>4
<1>5. ASSUME NEW q \in Positions(lists)
      PROVE  \E p \in Positions(lists), i \in DOMAIN merged :
               /\ merged[i] = At(lists, p)
               /\ MergeKey(At(lists, p)) = MergeKey(At(lists, q))
               /\ p = q \/ Before(p, q)
  <2>1. PICK p \in firsts :
          /\ MergeKey(At(lists, p)) = MergeKey(At(lists, q))
          /\ p = q \/ Before(p, q)
    BY PositionsPlaced, FirstExists
  <2> QED BY <1>1, <1>3, <2>1
<1> QED BY <1>1, <1>2, <1>3, <1>4, <1>5 DEF MergeLists

-----------------------------------------------------------------------------
(* Types.                                                                  *)

\* A request under way is a record.
LEMMA Underway ==
  ASSUME TypeOK, req # Idle
  PROVE  req \in Requests
BY DEF TypeOK

LEMMA IdleHasNoStep == Idle.pc = "idle" /\ Idle \notin Requests
<1>1. \A r \in Requests : r.pc # "idle"
  BY DEF Requests
<1> QED BY <1>1 DEF Idle

LEMMA ListsTyped ==
  ASSUME TypeOK, req \in Requests, Received = Servers
  PROVE  AllLists(req.own, req.results) \in ListsOf(IncludeServers + 1, Sessions)
<1>1. /\ req.own \in Seq(Sessions)
      /\ \A u \in Servers : req.results[u] \in Seq(Sessions)
  BY DEF Requests, Received
<1>2. \A n \in 1..(IncludeServers + 1) : n # 1 => n - 1 \in Servers
  BY SourceAssumption DEF Servers
<1> QED BY <1>1, <1>2 DEF AllLists, ListsOf

LEMMA InitTypeOK == Init => TypeOK
BY DEF Init, TypeOK

LEMMA AnnouncedTyped ==
  ASSUME NEW a \in Announced, ValidateAnnouncement(a[2], a[1])
  PROVE  [host |-> HostOf(a[2], a[1]), port |-> PortOf(a[2]), id |-> a[2].id,
          protocol |-> a[2].protocol, title |-> a[2].title, nsfm |-> Tag(a[2]),
          source |-> "announced"] \in Sessions
<1>1. a[1] \in Clients /\ a[2] \in Announcements
  BY SourceAssumption
<1>2. HostOf(a[2], a[1]) \in Hosts
  BY <1>1, ValidationAssumption DEF HostOf, ValidateAnnouncement, ValidateHostname
<1>3. PortOf(a[2]) \in Ports
  <2>1. a[2].port \in {0} \cup Ports
    BY DEF ValidateAnnouncement
  <2>2. CASE a[2].port = 0
    BY <2>2 DEF PortOf, DefaultPort, Ports
  <2>3. CASE a[2].port # 0
    BY <2>1, <2>3 DEF PortOf
  <2> QED BY <2>2, <2>3
<1>4. /\ a[2].id \in Ids /\ a[2].protocol \in Versions /\ a[2].title \in Titles
      /\ Tag(a[2]) \in BOOLEAN
  BY <1>1 DEF Announcements, Tag
<1> QED BY <1>2, <1>3, <1>4 DEF Sessions

LEMMA ReplyTyped ==
  ASSUME NEW u \in Servers, NEW opts,
         NEW list \in {filterSessionList(l, opts) : l \in Included[u]} \cup {<<>>}
  PROVE  /\ list \in Seq(Sessions)
         /\ \A k \in DOMAIN list : Passes(list[k], opts) /\ list[k].source = "included"
<1> DEFINE X == {s \in Sessions : s.source = "included"}
<1>1. CASE list = <<>>
  BY <1>1
<1>2. ASSUME NEW l \in Included[u], list = filterSessionList(l, opts)
      PROVE  /\ list \in Seq(Sessions)
             /\ \A k \in DOMAIN list : Passes(list[k], opts) /\ list[k].source = "included"
  <2>1. l \in Seq(X)
    BY SourceAssumption
  <2>2. list \in Seq(X) /\ \A k \in DOMAIN list : Passes(list[k], opts)
    BY <1>2, <2>1, FilterPasses
  <2>3. \A k \in DOMAIN list : list[k] \in X
    <3> HIDE DEF X
    <3> QED BY <2>2, ElementOfSeq, LenProperties
  <2>4. list \in Seq(Sessions)
    BY <2>2, <2>3, SeqDef
  <2> QED BY <2>2, <2>3, <2>4
<1> QED BY <1>1, <1>2

LEMMA NextTypeOK == TypeOK /\ [Next]_vars => TypeOK'
<1> SUFFICES ASSUME TypeOK, [Next]_vars PROVE TypeOK'
  OBVIOUS
<1> USE IdleHasNoStep
<1>1. ASSUME NEW id \in RowIds, NEW a \in Announced, Announce(id, a[1], a[2])
      PROVE  TypeOK'
  BY <1>1, AnnouncedTyped DEF Announce, TypeOK
<1>2. ASSUME NEW id \in RowIds, NEW title \in Titles, NEW nsfm \in BOOLEAN,
             RefreshSession(id, title, nsfm)
      PROVE  TypeOK'
  <2>1. rows[id] \in Sessions
    BY <1>2 DEF RefreshSession, Used, TypeOK
  <2>2. [rows[id] EXCEPT !.title = title, !.nsfm = nsfm, !.source = "refreshed"] \in Sessions
    BY <2>1 DEF Sessions
  <2>3. rows' = [rows EXCEPT ![id] =
                   [rows[id] EXCEPT !.title = title, !.nsfm = nsfm, !.source = "refreshed"]]
    BY <1>2, <2>1 DEF RefreshSession, TypeOK, Sessions
  <2> QED BY <1>2, <2>2, <2>3 DEF RefreshSession, TypeOK
<1>3. ASSUME NEW id \in RowIds, LeaveList(id) PROVE TypeOK'
  BY <1>3 DEF LeaveList, TypeOK
<1>4. ASSUME NEW opts \in Asked, ListStart(opts) PROVE TypeOK'
  <2>1. PICK own \in IF HasDatabase THEN QuerySessionList(opts) ELSE {<<>>} :
          req' = [pc      |-> IF IncludeServers > 0 THEN "wait" ELSE "answer",
                  opts    |-> opts,
                  own     |-> own,
                  sent    |-> [u \in Servers |-> Pending],
                  channel |-> <<>>,
                  results |-> [u \in Servers |-> Pending],
                  answer  |-> IF IncludeServers > 0 THEN <<>> ELSE own]
    BY <1>4 DEF ListStart
  <2>2. own \in Seq(Sessions)
    <3>1. own \in QuerySessionList(opts) \/ own = <<>>
      OBVIOUS
    <3>2. CASE own = <<>>
      BY <3>2
    <3> QED BY <3>1, <3>2, QueryMatches
  <2>3. opts \in Options
    BY SourceAssumption
  <2>4. req' \in Requests
    BY <2>1, <2>2, <2>3 DEF Requests
  <2> QED BY <1>4, <2>4 DEF ListStart, TypeOK
<1>5. ASSUME NEW u \in Servers, asyncFetchSessionList(u) PROVE TypeOK'
  <2>1. req \in Requests
    BY <1>5 DEF asyncFetchSessionList, TypeOK
  <2>2. PICK list \in {filterSessionList(l, req.opts) : l \in Included[u]} \cup {<<>>} :
          req' = [req EXCEPT !.sent[u] = list, !.channel = Append(@, u)]
    BY <1>5 DEF asyncFetchSessionList
  <2>3. list \in Seq(Sessions)
    BY ReplyTyped
  <2>4. Append(req.channel, u) \in Seq(Servers)
    BY <2>1, AppendProperties DEF Requests
  <2>5. req' \in Requests
    BY <2>1, <2>2, <2>3, <2>4 DEF Requests
  <2> QED BY <1>5, <2>5 DEF asyncFetchSessionList, TypeOK
<1>6. CASE ReceiveList
  <2>1. req \in Requests /\ req.channel \in Seq(Servers) /\ req.channel # <<>>
    BY <1>6 DEF ReceiveList, TypeOK, Requests
  <2>2. Head(req.channel) \in Servers /\ Tail(req.channel) \in Seq(Servers)
    BY <2>1, HeadTailProperties
  <2>3. req' \in Requests
    BY <1>6, <2>1, <2>2 DEF ReceiveList, Requests
  <2> QED BY <1>6, <2>3 DEF ReceiveList, TypeOK
<1>7. CASE MergeResults
  <2>1. req \in Requests
    BY <1>7 DEF MergeResults, TypeOK
  <2>2. MergeLists(AllLists(req.own, req.results)) \in Seq(Sessions)
    BY <1>7, <2>1, ListsTyped, MergePromises, SourceAssumption DEF MergeResults
  <2>3. req' \in Requests
    BY <1>7, <2>1, <2>2 DEF MergeResults, Requests
  <2> QED BY <1>7, <2>3 DEF MergeResults, TypeOK
<1>8. CASE Respond
  BY <1>8 DEF Respond, TypeOK
<1>9. CASE UNCHANGED vars
  BY <1>9 DEF vars, TypeOK
<1> QED BY <1>1, <1>2, <1>3, <1>4, <1>5, <1>6, <1>7, <1>8, <1>9 DEF Next

\* Rows have a host and a port to connect to, and a request under way holds
\* lists of sessions.
THEOREM ListTypeCorrect == Spec => []TypeOK
BY InitTypeOK, NextTypeOK, PTL DEF Spec

-----------------------------------------------------------------------------
(* From the sources to the answer.                                         *)

\* What a list may hold for somebody with these parameters.
Consented(list, opts) ==
  ~ opts.nsfm =>
    \A k \in DOMAIN list :
      /\ ~ list[k].nsfm
      /\ list[k].title \in NsfmTitles => list[k].source # "announced"

\* A title with one of the words is tagged as long as it is the announced one.
AnnouncedTagged ==
  \A id \in Used :
    rows[id].source = "announced" /\ rows[id].title \in NsfmTitles => rows[id].nsfm

\* What has been received is what was sent, whoever came first.
AsSent ==
  req # Idle =>
    /\ \A u \in Servers :
         req.results[u] # Pending => req.sent[u] # Pending /\ req.results[u] = req.sent[u]
    /\ \A k \in DOMAIN req.channel : req.sent[req.channel[k]] # Pending
    /\ req.pc = "wait" => IncludeServers > 0
    /\ req.pc = "answer" =>
         IF IncludeServers > 0
           THEN /\ \A u \in Servers : req.sent[u] # Pending
                /\ req.answer = MergeLists(AllLists(req.own, req.sent))
           ELSE req.answer = req.own

ListsConsented ==
  req # Idle =>
    /\ Consented(req.own, req.opts)
    /\ \A u \in Servers : req.sent[u] # Pending => Consented(req.sent[u], req.opts)

AnswerInv == TypeOK /\ AnnouncedTagged /\ AsSent /\ ListsConsented

LEMMA SameAnswer ==
  ASSUME AsSent, ListsConsented, UNCHANGED req
  PROVE  AsSent' /\ ListsConsented'
BY DEF AsSent, ListsConsented

LEMMA OwnConsented ==
  ASSUME TypeOK, AnnouncedTagged, NEW opts, NEW own \in QuerySessionList(opts)
  PROVE  Consented(own, opts)
<1>1. \A k \in DOMAIN own :
        \E id \in Used : own[k] = rows[id] /\ RowMatches(rows[id], opts)
  BY QueryMatches
<1> QED BY <1>1 DEF Consented, AnnouncedTagged, RowMatches

LEMMA InitAnswer == Init => AnswerInv
BY InitTypeOK DEF Init, AnswerInv, AnnouncedTagged, AsSent, ListsConsented, Used

LEMMA NextTagged ==
  ASSUME TypeOK, AnnouncedTagged, [Next]_vars
  PROVE  AnnouncedTagged'
<1>1. ASSUME NEW id \in RowIds, NEW a \in Announced, Announce(id, a[1], a[2])
      PROVE  AnnouncedTagged'
  <2>1. /\ rows'[id].title = a[2].title /\ rows'[id].nsfm = Tag(a[2])
        /\ \A i \in RowIds \ {id} : rows'[i] = rows[i]
    BY <1>1 DEF Announce, TypeOK
  <2> QED BY <2>1 DEF AnnouncedTagged, Used, Tag
<1>2. ASSUME NEW id \in RowIds, NEW title \in Titles, NEW nsfm \in BOOLEAN,
             RefreshSession(id, title, nsfm)
      PROVE  AnnouncedTagged'
  <2>1. rows[id] \in Sessions
    BY <1>2 DEF RefreshSession, Used, TypeOK
  <2>2. rows'[id].source = "refreshed" /\ \A i \in RowIds \ {id} : rows'[i] = rows[i]
    BY <1>2, <2>1 DEF RefreshSession, TypeOK, Sessions
  <2> QED BY <2>2 DEF AnnouncedTagged, Used
<1>3. ASSUME NEW id \in RowIds, LeaveList(id) PROVE AnnouncedTagged'
  BY <1>3 DEF LeaveList, AnnouncedTagged, Used, TypeOK
<1>4. CASE UNCHANGED rows
  BY <1>4 DEF AnnouncedTagged, Used
<1> QED BY <1>1, <1>2, <1>3, <1>4
        DEF Next, ListStart, asyncFetchSessionList, ReceiveList, MergeResults, Respond, vars

LEMMA NextAnswer == AnswerInv /\ [Next]_vars => AnswerInv'
<1> SUFFICES ASSUME AnswerInv, [Next]_vars PROVE AsSent' /\ ListsConsented'
  BY NextTypeOK, NextTagged DEF AnswerInv
<1> USE DEF AnswerInv
<1> USE IdleHasNoStep
<1>1. ASSUME NEW opts \in Asked, ListStart(opts) PROVE AsSent' /\ ListsConsented'
  <2>1. PICK own \in IF HasDatabase THEN QuerySessionList(opts) ELSE {<<>>} :
          req' = [pc      |-> IF IncludeServers > 0 THEN "wait" ELSE "answer",
                  opts    |-> opts,
                  own     |-> own,
                  sent    |-> [u \in Servers |-> Pending],
                  channel |-> <<>>,
                  results |-> [u \in Servers |-> Pending],
                  answer  |-> IF IncludeServers > 0 THEN <<>> ELSE own]
    BY <1>1 DEF ListStart
  <2>2. Consented(own, opts)
    <3>1. own \in QuerySessionList(opts) \/ own = <<>>
      OBVIOUS
    <3>2. CASE own = <<>>
      BY <3>2 DEF Consented
    <3> QED BY <3>1, <3>2, OwnConsented
  <2>3. AsSent'
    BY <2>1 DEF AsSent
  <2>4. ListsConsented'
    BY <2>1, <2>2 DEF ListsConsented
  <2> QED BY <2>3, <2>4
<1>2. ASSUME NEW u \in Servers, asyncFetchSessionList(u) PROVE AsSent' /\ ListsConsented'
  <2>1. req \in Requests /\ req.pc = "wait" /\ req.sent[u] = Pending
    BY <1>2 DEF asyncFetchSessionList, TypeOK
  <2>2. PICK list \in {filterSessionList(l, req.opts) : l \in Included[u]} \cup {<<>>} :
          req' = [req EXCEPT !.sent[u] = list, !.channel = Append(@, u)]
    BY <1>2 DEF asyncFetchSessionList
  <2>3. /\ list \in Seq(Sessions)
        /\ \A k \in DOMAIN list : Passes(list[k], req.opts) /\ list[k].source = "included"
    BY ReplyTyped
  <2>4. list # Pending
    BY <2>3, ListAssumption
  <2>5. /\ req'.pc = "wait" /\ req'.opts = req.opts /\ req'.own = req.own
        /\ req'.results = req.results /\ req'.channel = Append(req.channel, u)
        /\ req'.sent = [req.sent EXCEPT ![u] = list]
        /\ req.sent \in [Servers -> {Pending} \cup Seq(Sessions)]
        /\ req.channel \in Seq(Servers)
    BY <2>1, <2>2 DEF Requests
  <2>6. req'.sent[u] = list /\ \A v \in Servers \ {u} : req'.sent[v] = req.sent[v]
    BY <2>5
  <2>7. \A k \in DOMAIN req'.channel : req'.sent[req'.channel[k]] # Pending
    <3> TAKE k \in DOMAIN req'.channel
    <3>1. /\ DOMAIN req.channel = 1..Len(req.channel) /\ Len(req.channel) \in Nat
          /\ k \in 1..(Len(req.channel) + 1)
          /\ req'.channel[Len(req.channel) + 1] = u
          /\ \A j \in 1..Len(req.channel) : req'.channel[j] = req.channel[j]
      BY <2>5, AppendProperties, LenProperties
    <3>2. CASE k = Len(req.channel) + 1
      BY <3>1, <3>2, <2>4, <2>6
    <3>3. CASE k \in 1..Len(req.channel)
      <4>1. req.sent[req.channel[k]] # Pending /\ req.channel[k] \in Servers
        BY <3>1, <3>3, <2>1, <2>5, ElementOfSeq DEF AsSent
      <4> QED BY <4>1, <3>1, <3>3, <2>4, <2>6
    <3> QED BY <3>1, <3>2, <3>3
  <2>8. \A v \in Servers :
          req'.results[v] # Pending => req'.sent[v] # Pending /\ req'.results[v] = req'.sent[v]
    BY <2>1, <2>5, <2>6 DEF AsSent
  <2>9. Consented(list, req.opts)
    BY <2>3 DEF Consented, Passes
  <2>10. AsSent'
    BY <2>1, <2>5, <2>7, <2>8 DEF AsSent
  <2>11. ListsConsented'
    BY <2>1, <2>5, <2>6, <2>9 DEF ListsConsented
  <2> QED BY <2>10, <2>11
<1>3. CASE ReceiveList
  <2>1. /\ req \in Requests /\ req.pc = "wait"
        /\ req.channel \in Seq(Servers) /\ req.channel # <<>>
    BY <1>3 DEF ReceiveList, TypeOK, Requests
  <2> DEFINE u == Head(req.channel)
  <2>2. /\ req'.pc = "wait" /\ req'.opts = req.opts /\ req'.own = req.own
        /\ req'.sent = req.sent /\ req'.channel = Tail(req.channel)
        /\ req'.results = [req.results EXCEPT ![u] = req.sent[u]]
        /\ req.results \in [Servers -> {Pending} \cup Seq(Sessions)]
    BY <1>3, <2>1 DEF ReceiveList, Requests
  <2>3. /\ Len(req.channel) \in Nat /\ DOMAIN req.channel = 1..Len(req.channel)
        /\ Len(req.channel) # 0
    BY <2>1, LenProperties, EmptySeq
  <2>4. u \in Servers /\ u = req.channel[1]
    BY <2>1, HeadTailProperties
  <2>5. req.sent[u] # Pending
    BY <2>1, <2>3, <2>4 DEF AsSent
  <2>6. \A v \in Servers :
          req'.results[v] # Pending => req'.sent[v] # Pending /\ req'.results[v] = req'.sent[v]
    BY <2>1, <2>2, <2>4, <2>5 DEF AsSent
  <2>7. \A k \in DOMAIN req'.channel : req'.sent[req'.channel[k]] # Pending
    <3> TAKE k \in DOMAIN req'.channel
    <3>1. /\ k \in 1..(Len(req.channel) - 1) /\ k + 1 \in 1..Len(req.channel)
          /\ req'.channel[k] = req.channel[k + 1]
      BY <2>1, <2>2, <2>3, HeadTailProperties, LenProperties
    <3> QED BY <3>1, <2>1, <2>2, <2>3 DEF AsSent
  <2>8. AsSent'
    BY <2>1, <2>2, <2>6, <2>7 DEF AsSent
  <2>9. ListsConsented'
    BY <2>1, <2>2 DEF ListsConsented
  <2> QED BY <2>8, <2>9
<1>4. CASE MergeResults
  <2>1. req \in Requests /\ req.pc = "wait" /\ Received = Servers
    BY <1>4 DEF MergeResults, TypeOK
  <2>2. /\ req'.pc = "answer" /\ req'.opts = req.opts /\ req'.own = req.own
        /\ req'.sent = req.sent /\ req'.channel = req.channel
        /\ req'.results = req.results
        /\ req'.answer = MergeLists(AllLists(req.own, req.results))
    BY <1>4, <2>1 DEF MergeResults, Requests
  <2>3. \A u \in Servers : req.sent[u] # Pending /\ req.results[u] = req.sent[u]
    BY <2>1 DEF AsSent, Received
  <2>4. AllLists(req.own, req.results) = AllLists(req.own, req.sent)
    <3>1. \A n \in 1..(IncludeServers + 1) : n # 1 => n - 1 \in Servers
      BY SourceAssumption DEF Servers
    <3> QED BY <2>3, <3>1 DEF AllLists
  <2>5. IncludeServers > 0
    BY <2>1 DEF AsSent
  <2>6. AsSent'
    BY <2>1, <2>2, <2>3, <2>4, <2>5 DEF AsSent
  <2>7. ListsConsented'
    BY <2>1, <2>2 DEF ListsConsented
  <2> QED BY <2>6, <2>7
<1>5. CASE Respond
  BY <1>5 DEF Respond, AsSent, ListsConsented
<1>6. CASE UNCHANGED req
  BY <1>6, SameAnswer
<1> QED BY <1>1, <1>2, <1>3, <1>4, <1>5, <1>6
        DEF Next, Announce, RefreshSession, LeaveList, vars

LEMMA AnswerInvHolds == Spec => []AnswerInv
BY InitAnswer, NextAnswer, PTL DEF Spec

-----------------------------------------------------------------------------
(* The theorems.                                                           *)

\* The order of the replies is not to be seen (inclsrv/queries.go:281-299).
THEOREM OrderIsSettled == Spec => []OrderSettled
<1>1. AnswerInv => OrderSettled
  BY IdleHasNoStep DEF AnswerInv, AsSent, OrderSettled
<1> QED BY <1>1, AnswerInvHolds, PTL

\* With included servers no session comes twice, none is missing, and one of
\* this server is shown as announced here (inclsrv/queries.go:304-320).
THEOREM AnswersAreMerged == Spec => []MergedAnswer
<1>1. ASSUME AnswerInv, req.pc = "answer", IncludeServers > 0
      PROVE  /\ \A i, j \in DOMAIN req.answer :
                  Name(req.answer[i]) = Name(req.answer[j]) => i = j
             /\ \A session \in Own :
                  \E entry \in Entries \cap Own : MergeKey(entry) = MergeKey(session)
             /\ \A session \in Sent :
                  \E entry \in Entries : MergeKey(entry) = MergeKey(session)
  <2> DEFINE lists == AllLists(req.own, req.sent)
             n == IncludeServers + 1
  <2>1. req \in Requests /\ req # Idle
    BY <1>1, IdleHasNoStep DEF AnswerInv, TypeOK
  <2>2. req.answer = MergeLists(lists) /\ \A u \in Servers : req.sent[u] # Pending
    BY <1>1, <2>1 DEF AnswerInv, AsSent
  <2>3. /\ lists \in ListsOf(n, Sessions) /\ n \in Nat /\ 1 \in 1..n
        /\ lists[1] = req.own
        /\ \A u \in Servers : u + 1 \in 2..n /\ lists[u + 1] = req.sent[u]
    <3>1. /\ req.own \in Seq(Sessions)
          /\ \A u \in Servers : req.sent[u] \in Seq(Sessions)
      BY <2>1, <2>2 DEF Requests
    <3>2. /\ \A m \in 1..n : m # 1 => m - 1 \in Servers
          /\ \A u \in Servers : u + 1 \in 2..n /\ (u + 1) - 1 = u
          /\ n \in Nat /\ 1 \in 1..n
      BY SourceAssumption DEF Servers
    <3> QED BY <3>1, <3>2 DEF AllLists, ListsOf
  <2> HIDE DEF lists, n
  <2>4. \A i, j \in DOMAIN req.answer :
          MergeKey(req.answer[i]) = MergeKey(req.answer[j]) => i = j
    BY <2>2, <2>3, MergePromises
  <2>5. ASSUME NEW q \in Positions(lists)
        PROVE  \E p \in Positions(lists), i \in DOMAIN req.answer :
                 /\ req.answer[i] = At(lists, p)
                 /\ MergeKey(At(lists, p)) = MergeKey(At(lists, q))
                 /\ p = q \/ Before(p, q)
    BY <2>2, <2>3, MergePromises
  <2>6. ASSUME NEW session \in Own
        PROVE  \E entry \in Entries \cap Own : MergeKey(entry) = MergeKey(session)
    <3>1. PICK k \in DOMAIN req.own : session = req.own[k]
      BY DEF Own
    <3>2. 1 \in 1..n
      BY <2>3
    <3>3. <<1, k>> \in Positions(lists) /\ At(lists, <<1, k>>) = session
      BY <2>3, <3>1, <3>2, PositionsPlaced DEF At
    <3>4. PICK p \in Positions(lists), i \in DOMAIN req.answer :
            /\ req.answer[i] = At(lists, p)
            /\ MergeKey(At(lists, p)) = MergeKey(session)
            /\ p = <<1, k>> \/ Before(p, <<1, k>>)
      BY <2>5, <3>3
    <3>5. p[1] \in 1..n /\ p[2] \in DOMAIN lists[p[1]]
      BY <2>3, PositionsPlaced
    <3>6. p[1] = 1
      BY <3>4, <3>5, <2>3 DEF Before
    <3>7. At(lists, p) \in Own
      BY <2>3, <3>5, <3>6 DEF Own, At
    <3> QED BY <3>4, <3>7 DEF Entries
  <2>7. ASSUME NEW session \in Sent
        PROVE  \E entry \in Entries : MergeKey(entry) = MergeKey(session)
    <3>1. PICK u \in Servers : \E k \in DOMAIN req.sent[u] : session = req.sent[u][k]
      BY DEF Sent
    <3>2. PICK k \in DOMAIN req.sent[u] : session = req.sent[u][k]
      BY <3>1
    <3>3. u + 1 \in 1..n
      BY <2>3
    <3>4. <<u + 1, k>> \in Positions(lists) /\ At(lists, <<u + 1, k>>) = session
      BY <2>3, <3>2, <3>3, PositionsPlaced DEF At
    <3> QED BY <2>5, <3>4 DEF Entries
  <2> QED BY <2>4, <2>6, <2>7 DEF MergeKey
<1>2. AnswerInv => MergedAnswer
  BY <1>1 DEF MergedAnswer
<1> QED BY <1>2, AnswerInvHolds, PTL

\* NSFM sessions are for those who ask for them (endpoints.go:134,
\* inclsrv/queries.go:238).
THEOREM NsfmByConsent == Spec => []NsfmConsent
<1>1. ASSUME AnswerInv, req.pc = "answer", ~ req.opts.nsfm, NEW entry \in Entries
      PROVE  /\ ~ entry.nsfm
             /\ entry.title \in NsfmTitles => entry.source # "announced"
  <2>1. req \in Requests /\ req # Idle
    BY <1>1, IdleHasNoStep DEF AnswerInv, TypeOK
  <2>2. /\ Consented(req.own, req.opts)
        /\ \A u \in Servers : req.sent[u] # Pending => Consented(req.sent[u], req.opts)
    BY <1>1, <2>1 DEF AnswerInv, ListsConsented
  <2>3. CASE ~ (IncludeServers > 0)
    <3>1. req.answer = req.own
      BY <1>1, <2>1, <2>3 DEF AnswerInv, AsSent
    <3> QED BY <1>1, <2>2, <3>1 DEF Entries, Consented
  <2>4. CASE IncludeServers > 0
    <3> DEFINE lists == AllLists(req.own, req.sent)
               n == IncludeServers + 1
    <3>1. req.answer = MergeLists(lists) /\ \A u \in Servers : req.sent[u] # Pending
      BY <1>1, <2>1, <2>4 DEF AnswerInv, AsSent
    <3>2. /\ \A m \in 1..n : m # 1 => m - 1 \in Servers
          /\ n \in Nat
      BY SourceAssumption DEF Servers
    <3>3. lists \in ListsOf(n, Sessions)
      BY <2>1, <3>1, <3>2 DEF AllLists, ListsOf, Requests
    <3>4. \A m \in 1..n : Consented(lists[m], req.opts)
      BY <2>2, <3>1, <3>2 DEF AllLists
    <3> HIDE DEF lists, n
    <3>5. PICK p \in Positions(lists) : entry = At(lists, p)
      BY <3>1, <3>2, <3>3, MergePromises DEF Entries
    <3>6. p[1] \in 1..n /\ p[2] \in DOMAIN lists[p[1]]
      BY <3>2, <3>3, PositionsPlaced
    <3> QED BY <1>1, <3>4, <3>5, <3>6 DEF At, Consented
  <2> QED BY <2>3, <2>4
<1>2. AnswerInv => NsfmConsent
  BY <1>1 DEF NsfmConsent
<1> QED BY <1>2, AnswerInvHolds, PTL

\* On plain requests the query and the filter of included lists accept the same
\* sessions (db_sqlite.go:270-289, inclsrv/queries.go:234-245).
THEOREM FiltersAgreeOnPlain == Spec => []FiltersAgree
<1>1. ASSUME NEW session, NEW opts, Plain(opts)
      PROVE  RowMatches(session, opts) <=> Passes(session, opts)
  <2>1. opts.title # NoFilter => TitlesLike[opts.title] = TitlesWith[opts.title]
    BY <1>1 DEF Plain
  <2>2. opts.protocol # {} =>
          (session.protocol \in opts.protocol <=> HasProtocol(session, opts.protocol))
    BY <1>1 DEF Plain, HasProtocol
  <2> QED BY <2>1, <2>2 DEF RowMatches, Passes
<1>2. FiltersAgree
  BY <1>1 DEF FiltersAgree
<1> QED BY <1>2, PTL

=============================================================================
