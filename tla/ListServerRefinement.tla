------------------------ MODULE ListServerRefinement ------------------------
(***************************************************************************)
(* The list server implements the lifecycle of its listings, for every     *)
(* value of the constants.                                                 *)
(***************************************************************************)
EXTENDS ListServerProofs

-----------------------------------------------------------------------------
(* The phase of a listing is that of its row.                              *)

LEMMA PhaseOfRow ==
  ASSUME KeysOwned, NEW id \in Used(sessions)
  PROVE  PhaseOf(sessions[id].key) = RowPhase(sessions[id])
<1>1. RowsOf(sessions[id].key) = {id}
  BY DEF KeysOwned, RowsOf
<1>2. (CHOOSE i \in {id} : TRUE) = id
  OBVIOUS
<1>3. sessions[id].key \in issued
  BY DEF KeysOwned
<1> QED
  BY <1>1, <1>2, <1>3 DEF PhaseOf

LEMMA PhaseOfRowNext ==
  ASSUME KeysOwned', NEW id \in Used(sessions)', NEW key, sessions'[id].key = key
  PROVE  PhaseOf(key)' = RowPhase(sessions'[id])
<1>1. RowsOf(key)' = {id}
  BY DEF KeysOwned, RowsOf
<1>2. (CHOOSE i \in {id} : TRUE) = id
  OBVIOUS
<1>3. key \in issued'
  BY DEF KeysOwned
<1> QED
  BY <1>1, <1>2, <1>3 DEF PhaseOf

LEMMA RowPhaseIs ==
  ASSUME NEW row
  PROVE  /\ ~ Timely(row) => RowPhase(row) = "expired"
         /\ Timely(row) /\ row.unlisted => RowPhase(row) = "hidden"
         /\ Timely(row) /\ ~ row.unlisted => RowPhase(row) = "listed"
BY DEF RowPhase

\* When rows are only kept or deleted, the phase of a listing follows its row.
LEMMA PhaseFollows ==
  ASSUME TypeOK, KeysOwned, KeysOwned', TableKept, NEW key \in Keys
  PROVE  \/ PhaseOf(key)' = PhaseOf(key)
         \/ \E id \in Used(sessions) :
              /\ sessions[id].key = key
              /\ PhaseOf(key) = RowPhase(sessions[id])
              /\ sessions'[id] = NoRow => PhaseOf(key)' = "gone"
              /\ sessions'[id] # NoRow => PhaseOf(key)' = RowPhase(sessions'[id])
<1>1. issued' = issued
  BY DEF TableKept
<1>2. \A id \in Used(sessions)' : id \in Used(sessions) /\ sessions'[id].key = sessions[id].key
  BY DEF TableKept, RowKept, Used
<1>3. CASE RowsOf(key) = {}
  <2>1. RowsOf(key)' = {}
    BY <1>2, <1>3 DEF RowsOf
  <2> QED
    BY <1>1, <1>3, <2>1 DEF PhaseOf
<1>4. CASE RowsOf(key) # {}
  <2>1. PICK id \in Used(sessions) : sessions[id].key = key
    BY <1>4 DEF RowsOf
  <2>2. PhaseOf(key) = RowPhase(sessions[id])
    BY <2>1, PhaseOfRow
  <2>3. CASE sessions'[id] = NoRow
    <3>1. RowsOf(key)' = {}
      BY <1>2, <2>1, <2>3 DEF RowsOf, Used, KeysOwned
    <3>2. key \in issued'
      BY <1>1, <2>1 DEF KeysOwned
    <3>3. PhaseOf(key)' = "gone"
      BY <3>1, <3>2 DEF PhaseOf
    <3> QED
      BY <2>1, <2>2, <2>3, <3>3
  <2>4. CASE sessions'[id] # NoRow
    <3>1. id \in Used(sessions)' /\ sessions'[id].key = key
      BY <1>2, <2>1, <2>4 DEF Used
    <3>2. PhaseOf(key)' = RowPhase(sessions'[id])
      BY <3>1, PhaseOfRowNext
    <3> QED
      BY <2>1, <2>2, <2>4, <3>2
  <2> QED
    BY <2>3, <2>4
<1> QED
  BY <1>3, <1>4

-----------------------------------------------------------------------------
(* Steps of the lifecycle.                                                 *)

StepRefines ==
  Lifecycle!LifecycleNext \/ \A key \in Keys : PhaseOf(key)' = PhaseOf(key)

LEMMA BecomeBy ==
  ASSUME NEW S \in SUBSET Keys, NEW p,
         \A key \in S : PhaseOf(key)' = p,
         \A key \in Keys \ S : PhaseOf(key)' = PhaseOf(key)
  PROVE  Lifecycle!Become(S, p)
BY DEF Lifecycle!Become

\* One row is changed, neither made younger than its timeout nor older.
LEMMA OneRowRefines ==
  ASSUME TypeOK, TypeOK', KeysOwned, KeysOwned', TableKept,
         NEW i \in RowIds, sessions[i] # NoRow, sessions'[i] # NoRow,
         \A id \in RowIds \ {i} : sessions'[id] = sessions[id],
         Timely(sessions'[i]) <=> Timely(sessions[i])
  PROVE  StepRefines
<1>0. PICK k : k = sessions[i].key
  OBVIOUS
<1>1. i \in Used(sessions) /\ i \in Used(sessions)' /\ sessions'[i].key = k
  BY <1>0 DEF Used, TableKept, RowKept
<1>2. k \in Keys
  BY <1>0 DEF TypeOK, Tables, Rows
<1>3. PhaseOf(k) = RowPhase(sessions[i])
  BY <1>0, <1>1, PhaseOfRow
<1>4. PhaseOf(k)' = RowPhase(sessions'[i])
  BY <1>1, PhaseOfRowNext
<1>5. ASSUME NEW key \in Keys \ {k} PROVE PhaseOf(key)' = PhaseOf(key)
  <2>1. CASE \E id \in Used(sessions) :
               /\ sessions[id].key = key
               /\ PhaseOf(key) = RowPhase(sessions[id])
               /\ sessions'[id] = NoRow => PhaseOf(key)' = "gone"
               /\ sessions'[id] # NoRow => PhaseOf(key)' = RowPhase(sessions'[id])
    <3>1. PICK id \in Used(sessions) :
               /\ sessions[id].key = key
               /\ PhaseOf(key) = RowPhase(sessions[id])
               /\ sessions'[id] = NoRow => PhaseOf(key)' = "gone"
               /\ sessions'[id] # NoRow => PhaseOf(key)' = RowPhase(sessions'[id])
      BY <2>1
    <3>2. id # i /\ id \in RowIds /\ sessions[id] # NoRow
      BY <1>0, <1>5, <3>1 DEF Used
    <3> QED
      BY <3>1, <3>2
  <2> QED
    BY <2>1, PhaseFollows
<1>6. CASE PhaseOf(k)' = PhaseOf(k)
  BY <1>5, <1>6 DEF StepRefines
<1>7. CASE PhaseOf(k) = "listed" /\ PhaseOf(k)' = "hidden"
  <2>1. Lifecycle!Become({k}, "hidden")
    <3>1. {k} \in SUBSET Keys
      BY <1>2
    <3>2. \A key \in {k} : PhaseOf(key)' = "hidden"
      BY <1>7
    <3>3. \A key \in Keys \ {k} : PhaseOf(key)' = PhaseOf(key)
      BY <1>5
    <3> QED
      BY <3>1, <3>2, <3>3, BecomeBy
  <2>2. Lifecycle!Withdraw
    BY <1>2, <1>7, <2>1 DEF Lifecycle!Withdraw, Lifecycle!In
  <2> QED
    BY <2>2 DEF StepRefines, Lifecycle!LifecycleNext
<1>8. CASE PhaseOf(k) = "hidden" /\ PhaseOf(k)' = "listed"
  <2>1. Lifecycle!Become({k}, "listed")
    <3>1. {k} \in SUBSET Keys
      BY <1>2
    <3>2. \A key \in {k} : PhaseOf(key)' = "listed"
      BY <1>8
    <3>3. \A key \in Keys \ {k} : PhaseOf(key)' = PhaseOf(key)
      BY <1>5
    <3> QED
      BY <3>1, <3>2, <3>3, BecomeBy
  <2>2. Lifecycle!Relist
    BY <1>2, <1>8, <2>1 DEF Lifecycle!Relist, Lifecycle!In
  <2> QED
    BY <2>2 DEF StepRefines, Lifecycle!LifecycleNext
<1> QED
  BY <1>3, <1>4, <1>6, <1>7, <1>8, RowPhaseIs

LEMMA SameRowsRefine ==
  ASSUME TypeOK, KeysOwned, KeysOwned', sessions' = sessions, issued' = issued,
         pardoned' = pardoned
  PROVE  StepRefines
BY DEF StepRefines, PhaseOf, RowsOf, Used

LEMMA RefreshRefines ==
  ASSUME TypeOK, TypeOK', KeysOwned, KeysOwned', NEW w \in Workers,
         NEW item \in ClientItems, NEW rest, RefreshSession(w, item, rest)
  PROVE  StepRefines
<1>1. CASE RefreshMatches(sessions, item.id, item.key)
  <2>1. item.id \in RowIds /\ item \in Items /\ item.key \notin LostKeys
    BY DEF ClientItems, Items
  <2>2. TableKept
    BY <2>1, RefreshKeeps
  <2>3. sessions' = RefreshUpdate(sessions, item.id)
    BY <1>1 DEF RefreshSession
  <2>4. sessions[item.id] \in Rows /\ Timely(sessions[item.id]) /\ sessions[item.id] # NoRow
    BY <1>1, <2>1 DEF RefreshMatches, TypeOK, Tables
  <2>5. sessions'[item.id] = [sessions[item.id] EXCEPT !.age = 0]
    BY <2>1, <2>3 DEF RefreshUpdate, TypeOK, Tables
  <2>6. sessions'[item.id].age = 0
    BY <2>4, <2>5 DEF Rows
  <2>7. Timely(sessions'[item.id])
    BY <2>6, TimeAssumption DEF Timely
  <2>8. sessions'[item.id] # NoRow
    <3>1. sessions'[item.id] \in Rows
      BY <2>4, <2>5, OldAgeNat DEF Rows
    <3> QED
      BY <3>1, RowAssumption
  <2>9. \A id \in RowIds \ {item.id} : sessions'[id] = sessions[id]
    BY <2>1, <2>3 DEF RefreshUpdate, TypeOK, Tables
  <2> QED
    BY <2>1, <2>2, <2>4, <2>7, <2>8, <2>9, OneRowRefines
<1>2. CASE ~ RefreshMatches(sessions, item.id, item.key)
  BY <1>2, SameRowsRefine DEF RefreshSession
<1> QED
  BY <1>1, <1>2

LEMMA UnlistRefines ==
  ASSUME TypeOK, TypeOK', KeysOwned, KeysOwned', NEW w \in Workers, Unlist(w)
  PROVE  StepRefines
<1>1. PICK item \in ClientItems : /\ DeleteMatches(sessions, item.id, item.key)
                                  /\ sessions' = DeleteSession(sessions, item.id)
  BY DEF Unlist
<1>2. item.id \in RowIds /\ sessions[item.id] # NoRow
  BY <1>1 DEF ClientItems, Items, DeleteMatches
<1>3. sessions[item.id] \in Rows
  BY <1>2 DEF TypeOK, Tables
<1>4. sessions'[item.id] = [sessions[item.id] EXCEPT !.unlisted = TRUE]
  BY <1>1, <1>2 DEF DeleteSession, TypeOK, Tables
<1>5. sessions'[item.id] \in Rows /\ sessions'[item.id].age = sessions[item.id].age
  BY <1>3, <1>4 DEF Rows
<1>6. sessions'[item.id] # NoRow
  BY <1>5, RowAssumption
<1>7. \A id \in RowIds \ {item.id} : sessions'[id] = sessions[id]
  BY <1>1, <1>2 DEF DeleteSession, TypeOK, Tables
<1>8. Timely(sessions'[item.id]) <=> Timely(sessions[item.id])
  BY <1>5 DEF Timely
<1> QED
  BY <1>2, <1>6, <1>7, <1>8, UnlistKeeps, OneRowRefines

LEMMA AdminUpdateRefines ==
  ASSUME TypeOK, TypeOK', KeysOwned, KeysOwned', NEW w \in Workers, NEW i \in RowIds,
         NEW rest, NEW u, u.unlisted \in BOOLEAN, u.reason \in {"empty", "text"},
         AdminUpdateOne(w, i, u, rest)
  PROVE  StepRefines
<1>1. CASE sessions[i] = NoRow
  BY <1>1, SameRowsRefine DEF AdminUpdateOne, AdminUpdate
<1>2. CASE sessions[i] # NoRow
  <2>1. sessions[i] \in Rows
    BY <1>2 DEF TypeOK, Tables
  <2>2. sessions'[i] = [sessions[i] EXCEPT !.unlisted = u.unlisted, !.reason = u.reason]
    BY <1>2 DEF AdminUpdateOne, AdminUpdate, TypeOK, Tables
  <2>3. sessions'[i] \in Rows /\ sessions'[i].age = sessions[i].age
    BY <2>1, <2>2 DEF Rows, Reasons
  <2>4. sessions'[i] # NoRow
    BY <2>3, RowAssumption
  <2>5. \A id \in RowIds \ {i} : sessions'[id] = sessions[id]
    BY <1>2 DEF AdminUpdateOne, AdminUpdate, TypeOK, Tables
  <2>6. Timely(sessions'[i]) <=> Timely(sessions[i])
    BY <2>3 DEF Timely
  <2>7. TableKept
    BY AdminUpdateKeeps
  <2> QED
    BY <1>2, <2>4, <2>5, <2>6, <2>7, OneRowRefines
<1> QED
  BY <1>1, <1>2

\* A listing keeps its phase if its row is kept as it is.
LEMMA DeletionFollows ==
  ASSUME TypeOK, KeysOwned, KeysOwned', issued' = issued, pardoned' = pardoned,
         \A id \in RowIds : sessions'[id] = sessions[id] \/ sessions'[id] = NoRow,
         NEW key \in Keys
  PROVE  \/ PhaseOf(key)' = PhaseOf(key)
         \/ \E id \in Used(sessions) :
              /\ sessions[id].key = key
              /\ PhaseOf(key) = RowPhase(sessions[id])
              /\ sessions'[id] = NoRow
              /\ PhaseOf(key)' = "gone"
<1>1. TableKept
  BY DeletionKeeps
<1>2. Used(sessions) \subseteq RowIds
  BY DEF Used
<1> QED
  BY <1>1, <1>2, PhaseFollows

LEMMA LoseRefines ==
  ASSUME TypeOK, KeysOwned, KeysOwned', issued' = issued, pardoned' = pardoned,
         \A id \in RowIds : sessions'[id] = sessions[id] \/ sessions'[id] = NoRow,
         ~ (Persistent /\ Timeout <= Day)
  PROVE  StepRefines
<1>1. PICK S \in SUBSET Keys : S = {key \in Keys : PhaseOf(key)' # PhaseOf(key)}
  OBVIOUS
<1>2. \A key \in S : PhaseOf(key)' = "gone" /\ PhaseOf(key) # "unborn"
  BY <1>1, DeletionFollows, RowPhaseIs
<1>3. \A key \in Keys \ S : PhaseOf(key)' = PhaseOf(key)
  BY <1>1
<1>4. Lifecycle!Become(S, "gone")
  BY <1>2, <1>3, BecomeBy
<1>5. Lifecycle!Lose
  BY <1>2, <1>4 DEF Lifecycle!Lose
<1> QED
  BY <1>5 DEF StepRefines, Lifecycle!LifecycleNext

LEMMA CleanupRefines ==
  ASSUME TypeOK, KeysOwned, KeysOwned', CleanupTask
  PROVE  StepRefines
<1>1. /\ issued' = issued /\ pardoned' = pardoned
      /\ \A id \in RowIds : sessions'[id] = sessions[id] \/ sessions'[id] = NoRow
      /\ \A id \in Used(sessions) :
           sessions'[id] = IF CleanupKeeps(sessions[id]) THEN sessions[id] ELSE NoRow
  BY DEF CleanupTask, Cleanup, Used
<1>2. CASE ~ (Persistent /\ Timeout <= Day)
  BY <1>1, <1>2, LoseRefines
<1>3. CASE Persistent /\ Timeout <= Day
  <2>1. PICK S \in SUBSET Keys :
          S = {key \in Keys : PhaseOf(key) = "expired" /\ PhaseOf(key)' = "gone"}
    OBVIOUS
  <2>2. PICK H \in SUBSET Keys : H = {key \in Keys : PhaseOf(key) = "hidden"}
    OBVIOUS
  <2>3. ASSUME NEW key \in H PROVE PhaseOf(key)' = "gone"
    <3>1. PhaseOf(key) = "hidden" /\ key \in Keys
      BY <2>2
    <3>2. RowsOf(key) # {} /\ key \in issued
      BY <3>1 DEF PhaseOf
    <3>3. PICK id \in Used(sessions) : sessions[id].key = key
      BY <3>2 DEF RowsOf
    <3>4. RowPhase(sessions[id]) = "hidden"
      BY <3>1, <3>3, PhaseOfRow
    <3>5. sessions[id].unlisted
      BY <3>4, RowPhaseIs
    <3>6. sessions'[id] = NoRow
      BY <1>1, <3>5 DEF CleanupKeeps
    <3>7. RowsOf(key)' = {}
      BY <1>1, <3>3, <3>6 DEF RowsOf, Used, KeysOwned
    <3> QED
      BY <1>1, <3>2, <3>7 DEF PhaseOf
  <2>4. ASSUME NEW key \in Keys \ (S \cup H) PROVE PhaseOf(key)' = PhaseOf(key)
    <3> SUFFICES ASSUME PhaseOf(key)' # PhaseOf(key) PROVE FALSE
      OBVIOUS
    <3>1. PICK id \in Used(sessions) :
            /\ sessions[id].key = key
            /\ PhaseOf(key) = RowPhase(sessions[id])
            /\ sessions'[id] = NoRow
            /\ PhaseOf(key)' = "gone"
      BY <1>1, DeletionFollows
    <3>2. sessions[id] \in Rows /\ sessions[id] # NoRow
      BY DEF Used, TypeOK, Tables
    <3>3. ~ CleanupKeeps(sessions[id])
      BY <1>1, <3>1, <3>2
    <3>4. Timely(sessions[id]) => sessions[id].unlisted
      <4>1. sessions[id].age \in Int
        BY <3>2, OldAgeNat DEF Rows
      <4> QED
        BY <1>3, <3>3, <4>1, TimeAssumption DEF CleanupKeeps, Timely
    <3>5. PhaseOf(key) = "expired" \/ PhaseOf(key) = "hidden"
      BY <3>1, <3>4, RowPhaseIs
    <3> QED
      BY <2>1, <2>2, <2>4, <3>1, <3>5
  <2>5. \A key \in S \cup H : PhaseOf(key)' = "gone"
    BY <2>1, <2>3
  <2>6. Lifecycle!Become(S \cup H, "gone")
    BY <2>4, <2>5, BecomeBy
  <2>7. H = Lifecycle!In("hidden") /\ S \in SUBSET Lifecycle!In("expired")
    BY <2>1, <2>2 DEF Lifecycle!In
  <2>8. Lifecycle!Purge
    BY <2>6, <2>7 DEF Lifecycle!Purge
  <2> QED
    BY <2>8 DEF StepRefines, Lifecycle!LifecycleNext
<1> QED
  BY <1>2, <1>3

LEMMA TickRefines ==
  ASSUME TypeOK, KeysOwned, KeysOwned', Tick
  PROVE  StepRefines
<1>1. PICK S \in SUBSET Keys : S = {key \in Keys : PhaseOf(key)' # PhaseOf(key)}
  OBVIOUS
<1>2. ASSUME NEW key \in S
      PROVE  PhaseOf(key)' = "expired" /\ (PhaseOf(key) = "listed" \/ PhaseOf(key) = "hidden")
  <2>1. key \in Keys /\ PhaseOf(key)' # PhaseOf(key)
    BY <1>1
  <2>2. PICK id \in Used(sessions) :
          /\ PhaseOf(key) = RowPhase(sessions[id])
          /\ sessions'[id] # NoRow => PhaseOf(key)' = RowPhase(sessions'[id])
    BY <2>1, AgedKeeps, PhaseFollows
  <2>3. sessions[id] \in Rows /\ sessions[id] # NoRow /\ id \in RowIds
    BY DEF Used, TypeOK, Tables
  <2>4. sessions'[id] = [sessions[id] EXCEPT !.age = Older(sessions[id].age)]
    BY <2>3 DEF Tick, Aged
  <2>5. Older(sessions[id].age) \in 0..OldAge
    BY <2>3, OldAgeNat DEF Older, Rows
  <2>6. sessions'[id] \in Rows /\ sessions'[id].unlisted = sessions[id].unlisted
    BY <2>3, <2>4, <2>5 DEF Rows
  <2>7. PhaseOf(key)' = RowPhase(sessions'[id])
    BY <2>2, <2>6, RowAssumption
  <2>8. Timely(sessions'[id]) => Timely(sessions[id])
    <3>1. RowKept(id) /\ sessions'[id] # NoRow
      BY <2>3, <2>6, AgedKeeps, RowAssumption DEF TableKept
    <3> QED
      BY <3>1 DEF RowKept
  <2> QED
    BY <2>1, <2>2, <2>6, <2>7, <2>8, RowPhaseIs
<1>3. \A key \in Keys \ S : PhaseOf(key)' = PhaseOf(key)
  BY <1>1
<1>4. Lifecycle!Become(S, "expired")
  BY <1>2, <1>3, BecomeBy
<1>5. S \in SUBSET (Lifecycle!In("listed") \cup Lifecycle!In("hidden"))
  BY <1>2 DEF Lifecycle!In
<1>6. Lifecycle!Expire
  BY <1>4, <1>5 DEF Lifecycle!Expire
<1> QED
  BY <1>6 DEF StepRefines, Lifecycle!LifecycleNext

LEMMA InsertedRefines ==
  ASSUME TypeOK, KeysOwned, KeysOwned', NEW w \in Workers, NEW i \in RowIds,
         NEW k \in Keys, Inserted(w, i, k)
  PROVE  StepRefines
<1>1. PhaseOf(k) = "unborn"
  BY DEF Inserted, PhaseOf
<1>2. /\ sessions'[i].key = k /\ sessions'[i] # NoRow
      /\ sessions'[i].age = 0 /\ ~ sessions'[i].unlisted
      /\ \A id \in RowIds \ {i} : sessions'[id] = sessions[id]
  BY InsertedRows
<1>3. PhaseOf(k)' = "listed"
  <2>1. i \in Used(sessions)'
    BY <1>2 DEF Used
  <2>2. Timely(sessions'[i])
    BY <1>2, TimeAssumption DEF Timely
  <2> QED
    BY <1>2, <2>1, <2>2, PhaseOfRowNext, RowPhaseIs
<1>4. ASSUME NEW key \in Keys \ {k} PROVE PhaseOf(key)' = PhaseOf(key)
  <2>1. key \in issued' <=> key \in issued
    BY <1>4 DEF Inserted
  <2>2. sessions[i] = NoRow
    BY DEF Inserted
  <2>3. RowsOf(key)' = RowsOf(key)
    BY <1>2, <1>4, <2>2 DEF RowsOf, Used
  <2>4. CASE RowsOf(key) = {}
    BY <2>1, <2>3, <2>4 DEF PhaseOf
  <2>5. CASE RowsOf(key) # {}
    <3>1. PICK id \in Used(sessions) : sessions[id].key = key
      BY <2>5 DEF RowsOf
    <3>2. id # i /\ id \in RowIds
      BY <2>2, <3>1 DEF Used
    <3>3. sessions'[id] = sessions[id] /\ id \in Used(sessions)'
      BY <1>2, <3>1, <3>2 DEF Used
    <3>4. PhaseOf(key)' = RowPhase(sessions'[id])
      BY <3>1, <3>3, PhaseOfRowNext
    <3>5. PhaseOf(key) = RowPhase(sessions[id])
      BY <3>1, PhaseOfRow
    <3> QED
      BY <3>3, <3>4, <3>5
  <2> QED
    BY <2>4, <2>5
<1>5. Lifecycle!Become({k}, "listed")
  <2>1. {k} \in SUBSET Keys
    OBVIOUS
  <2>2. \A key \in {k} : PhaseOf(key)' = "listed"
    BY <1>3
  <2>3. \A key \in Keys \ {k} : PhaseOf(key)' = PhaseOf(key)
    BY <1>4
  <2> QED
    BY <2>1, <2>2, <2>3, BecomeBy
<1>6. Lifecycle!Announce
  BY <1>1, <1>5 DEF Lifecycle!Announce, Lifecycle!In
<1> QED
  BY <1>6 DEF StepRefines, Lifecycle!LifecycleNext

-----------------------------------------------------------------------------
(* The theorem.                                                            *)

LEMMA NextRefines ==
  ASSUME TypeOK, TypeOK', KeysOwned, KeysOwned', [Next]_vars
  PROVE  StepRefines
<1>1. CASE UNCHANGED <<sessions, issued, pardoned>>
  BY <1>1, SameRowsRefine
<1>2. ASSUME NEW w \in Workers,
             \/ AnnounceStart(w) \/ CheckBan(w) \/ CheckActive(w) \/ CheckCount(w)
             \/ TryDrawpileLogin(w) \/ RefreshDiagnose(w) \/ DbError(w)
      PROVE  UNCHANGED <<sessions, issued, pardoned>>
  BY <1>2 DEF AnnounceStart, CheckBan, CheckActive, CheckCount, TryDrawpileLogin,
              RefreshDiagnose, DbError
<1>3. ASSUME NEW w \in Workers, Insert(w) PROVE StepRefines
  <2>1. CASE \E id \in RowIds, key \in Keys \ issued :
               /\ IsNextRowId(sessions, id)
               /\ sessions' = InsertSession(sessions, id, req[w].host, req[w].sid, key)
               /\ issued' = issued \cup {key}
    <3>1. PICK id \in RowIds, key \in Keys \ issued :
               /\ IsNextRowId(sessions, id)
               /\ sessions' = InsertSession(sessions, id, req[w].host, req[w].sid, key)
               /\ issued' = issued \cup {key}
      BY <2>1
    <3>2. Inserted(w, id, key)
      BY <1>3, <3>1, NextRowIsFree DEF Inserted, Insert, Respond
    <3> QED
      BY <3>2, InsertedRefines
  <2>2. CASE UNCHANGED <<sessions, issued>>
    BY <1>1, <1>3, <2>2 DEF Insert
  <2> QED
    BY <1>3, <2>1, <2>2 DEF Insert
<1>4. ASSUME NEW w \in Workers, RefreshStart(w) PROVE StepRefines
  <2>1. PICK b \in Batches : \E item \in b : RefreshSession(w, item, b \ {item})
    BY <1>4 DEF RefreshStart
  <2>2. b \subseteq ClientItems
    BY DEF Batches
  <2> QED
    BY <2>1, <2>2, RefreshRefines
<1>5. ASSUME NEW w \in Workers, RefreshNext(w) PROVE StepRefines
  BY <1>5, RefreshRefines DEF RefreshNext, KeysOwned
<1>6. ASSUME NEW w \in Workers, Unlist(w) PROVE StepRefines
  BY <1>6, UnlistRefines
<1>7. ASSUME NEW w \in Workers, AdminUpdateStart(w) PROVE StepRefines
  <2>1. PICK u \in AdminRequests : \E id \in u.ids : AdminUpdateOne(w, id, u, u.ids \ {id})
    BY <1>7 DEF AdminUpdateStart
  <2>2. /\ u.ids \in SUBSET RowIds /\ u.unlisted \in BOOLEAN
        /\ u.reason \in {"empty", "text"}
    BY ConfigAssumption DEF AdminUpdates
  <2> QED
    BY <2>1, <2>2, AdminUpdateRefines
<1>8. ASSUME NEW w \in Workers, AdminUpdateNext(w) PROVE StepRefines
  <2>1. PICK id \in req[w].todo : AdminUpdateOne(w, id, req[w], req[w].todo \ {id})
    BY <1>8 DEF AdminUpdateNext
  <2>2. /\ req[w].todo \in SUBSET RowIds /\ req[w].unlisted \in BOOLEAN
        /\ req[w].reason \in {"empty", "text"}
    BY <1>8, RequestKinds DEF AdminUpdateNext, TypeOK
  <2> QED
    BY <2>1, <2>2, AdminUpdateRefines
<1>9. BansChange => UNCHANGED <<sessions, issued, pardoned>>
  BY DEF BansChange
<1>10. CASE Tick
  BY <1>10, TickRefines
<1>11. CASE CleanupTask
  BY <1>11, CleanupRefines
<1>12. CleanupFails \/ UNCHANGED vars => UNCHANGED <<sessions, issued, pardoned>>
  BY DEF CleanupFails, vars
<1>13. CASE Restart
  <2>1. CASE Persistent
    BY <1>1, <1>13, <2>1 DEF Restart
  <2>2. CASE ~ Persistent
    <3>1. /\ issued' = issued /\ pardoned' = pardoned
          /\ \A id \in RowIds : sessions'[id] = sessions[id] \/ sessions'[id] = NoRow
      BY <1>13, <2>2 DEF Restart, EmptyTable
    <3> QED
      BY <2>2, <3>1, LoseRefines
  <2> QED
    BY <2>1, <2>2
<1> QED
  BY <1>1, <1>2, <1>3, <1>4, <1>5, <1>6, <1>7, <1>8, <1>9, <1>10, <1>11, <1>12,
     <1>13 DEF Next, Act, Work

\* The server implements the lifecycle of its listings: see ImplementsLifecycle.
THEOREM ServerImplementsLifecycle == Spec => ImplementsLifecycle
<1>1. Init => Lifecycle!LifecycleInit
  BY DEF Init, Lifecycle!LifecycleInit, PhaseOf
<1>2. TypeOK /\ KeysOwned /\ TypeOK' /\ KeysOwned' /\ [Next]_vars =>
        [Lifecycle!LifecycleNext]_([key \in Keys |-> PhaseOf(key)])
  BY NextRefines DEF StepRefines
<1> QED
  BY <1>1, <1>2, KeysAreOwned, PTL DEF Spec, ImplementsLifecycle, Lifecycle!LifecycleSpec

-----------------------------------------------------------------------------
(* What the lifecycle promises, of the server.                             *)

Over == {"expired", "gone"}

LEMMA LifecycleMoves ==
  ASSUME [Lifecycle!LifecycleNext]_([key \in Keys |-> PhaseOf(key)]), NEW k \in Keys
  PROVE  /\ PhaseOf(k) \in Over => PhaseOf(k)' \in Over
         /\ Persistent /\ Timeout <= Day /\ PhaseOf(k) = "listed" =>
              PhaseOf(k)' \in {"listed", "hidden", "expired"}
<1> DEFINE f == [key \in Keys |-> PhaseOf(key)]
<1>1. f[k] = PhaseOf(k) /\ f'[k] = PhaseOf(k)'
  OBVIOUS
<1>2. ASSUME NEW S, NEW p, Lifecycle!Become(S, p)
      PROVE  PhaseOf(k)' = IF k \in S THEN p ELSE PhaseOf(k)
  BY <1>1, <1>2 DEF Lifecycle!Become
<1>3. \A p : k \in Lifecycle!In(p) <=> PhaseOf(k) = p
  BY <1>1 DEF Lifecycle!In
<1>4. CASE f' = f
  BY <1>1, <1>4 DEF Over
<1>5. CASE Lifecycle!Announce \/ Lifecycle!Withdraw \/ Lifecycle!Relist
  <2>1. PICK p \in {"listed", "hidden"},
             l \in Lifecycle!In("unborn") \cup Lifecycle!In("listed") \cup Lifecycle!In("hidden") :
          Lifecycle!Become({l}, p)
    BY <1>5 DEF Lifecycle!Announce, Lifecycle!Withdraw, Lifecycle!Relist
  <2>2. CASE k = l
    BY <1>2, <1>3, <2>1, <2>2 DEF Over
  <2>3. CASE k # l
    BY <1>2, <2>1, <2>3 DEF Over
  <2> QED BY <2>2, <2>3
<1>6. CASE Lifecycle!Expire
  BY <1>2, <1>3, <1>6 DEF Lifecycle!Expire, Over
<1>7. CASE Lifecycle!Purge
  BY <1>2, <1>3, <1>7 DEF Lifecycle!Purge, Over
<1>8. CASE Lifecycle!Lose
  BY <1>2, <1>8 DEF Lifecycle!Lose, Over
<1> QED BY <1>4, <1>5, <1>6, <1>7, <1>8 DEF Lifecycle!LifecycleNext

\* Once a listing has expired or been cleaned up it is never on the list again,
\* whatever refreshes, updates of administrators and restarts are under way
\* (db_sqlite.go:534, 624, 248; doc/api.md:233: it "is unlisted
\* automatically").
THEOREM OverForGood ==
  ASSUME NEW k \in Keys
  PROVE  Spec => [](PhaseOf(k) \in Over => [](PhaseOf(k) \in Over))
<1> DEFINE P == PhaseOf(k) \in Over
<1>1. P /\ [Lifecycle!LifecycleNext]_([key \in Keys |-> PhaseOf(key)]) => P'
  BY LifecycleMoves DEF Over
<1> HIDE DEF P
<1>2. Spec => [](P => []P)
  BY <1>1, ServerImplementsLifecycle, PTL DEF ImplementsLifecycle, Lifecycle!LifecycleSpec
<1> QED BY <1>2 DEF P

\* With a timeout of at most a day nothing takes a listing off the list but its
\* withdrawal and its expiry: see NothingListedVanishes.
THEOREM ListedDoesNotVanish ==
  ASSUME Persistent, Timeout <= Day
  PROVE  Spec => NothingListedVanishes
<1>1. [Lifecycle!LifecycleNext]_([key \in Keys |-> PhaseOf(key)]) =>
        [\A key \in Keys :
           PhaseOf(key) = "listed" => PhaseOf(key)' \in {"listed", "hidden", "expired"}]_vars
  BY LifecycleMoves
<1> QED
  BY <1>1, ServerImplementsLifecycle, PTL
  DEF ImplementsLifecycle, Lifecycle!LifecycleSpec, NothingListedVanishes

=============================================================================
