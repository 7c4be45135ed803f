--------------------------- MODULE HostBansProofs ---------------------------
(***************************************************************************)
(* Proofs about HostBans, for any hosts, dates, numbers of bans and of     *)
(* administrators and announcements at a time.                             *)
(***************************************************************************)
EXTENDS HostBans, TLAPS

-----------------------------------------------------------------------------
(* The shapes of a step.                                                   *)

\* A row is written: its id had one with the same birth, or its birth is new.
RowWritten(id) ==
  /\ changes < MaxChanges /\ changes' = changes + 1
  /\ bans' \in [BanIds -> Bans \cup {NoBan}]
  /\ bans'[id] \in Bans
  /\ bans'[id].edit = changes + 1
  /\ \/ bans'[id].birth = changes + 1
     \/ bans[id] \in Bans /\ bans'[id].birth = bans[id].birth
  /\ \A i \in BanIds \ {id} : bans'[i] = bans[i]

\* Rows are deleted or stay.
RowsCut ==
  /\ changes' = changes
  /\ bans' \in [BanIds -> Bans \cup {NoBan}]
  /\ \A i \in BanIds : bans'[i] = bans[i] \/ bans'[i] = NoBan

LEMMA UsedAreBans ==
  ASSUME TypeOK, NEW id \in Used
  PROVE  id \in BanIds /\ bans[id] \in Bans /\ bans[id].expires \in Stamps \cup {Never}
BY DEF TypeOK, Used, Bans

LEMMA StampParts ==
  ASSUME NEW stamp \in Stamps
  PROVE  stamp.day \in Int /\ stamp.time \in {-1, 0}
<1>1. stamp.day \in Dates /\ stamp.time \in {NoTime, Midnight}
  BY DEF Stamps
<1>2. stamp.day \in Nat
  BY <1>1, ClockAssumption, Zenon
<1>3. stamp.time = -1 \/ stamp.time = 0
  BY <1>1 DEF NoTime, Midnight
<1> QED BY <1>2, <1>3

LEMMA ExpiriesAreStamps ==
  ASSUME NEW date \in Dates \cup {Never}
  PROVE  /\ CreatedExpiry(date) \in Stamps \cup {Never}
         /\ UpdatedExpiry(date) \in Stamps \cup {Never}
BY DEF CreatedExpiry, UpdatedExpiry, Stamps, NoTime, Midnight

LEMMA CreateWrites ==
  ASSUME TypeOK, NEW host \in Spellings, NEW date \in Dates \cup {Never},
         AdminCreateHostBan(host, date)
  PROVE  \E id \in BanIds : bans[id] = NoBan /\ RowWritten(id) /\ bans'[id].host = host
<1> DEFINE row == [host |-> host, expires |-> CreatedExpiry(date),
                   birth |-> changes', edit |-> changes']
<1>1. PICK id \in BanIds : IsNextBanId(id) /\ bans' = [bans EXCEPT ![id] = row]
  BY DEF AdminCreateHostBan
<1>2. changes < MaxChanges /\ changes' = changes + 1 /\ changes' \in 1..MaxChanges
  BY BanAssumption DEF AdminCreateHostBan, Changed, TypeOK
<1>3. row \in Bans /\ row.birth = changes' /\ row.edit = changes' /\ row.host = host
  BY <1>2, ExpiriesAreStamps DEF Bans
<1>4. bans[id] = NoBan
  BY <1>1 DEF IsNextBanId, Used, BanIds
<1> HIDE DEF row
<1>5. RowWritten(id) /\ bans'[id].host = host
  BY <1>1, <1>2, <1>3 DEF RowWritten, TypeOK
<1> QED BY <1>4, <1>5

LEMMA UpdateWrites ==
  ASSUME TypeOK, NEW a \in Admins, NEW host \in Spellings,
         NEW date \in Dates \cup {Never}, AdminUpdateHostBan(a, host, date)
  PROVE  RowWritten(view[a].id) /\ view[a].id \in Used
<1> DEFINE id == view[a].id
           row == [bans[id] EXCEPT !.host = host, !.expires = UpdatedExpiry(date),
                                   !.edit = changes']
<1>1. id \in Used /\ bans[id] \in Bans
  BY UsedAreBans DEF AdminUpdateHostBan
<1>2. changes < MaxChanges /\ changes' = changes + 1 /\ changes' \in 1..MaxChanges
  BY BanAssumption DEF AdminUpdateHostBan, Changed, TypeOK
<1>3. row \in Bans /\ row.birth = bans[id].birth /\ row.edit = changes'
  BY <1>1, <1>2, ExpiriesAreStamps DEF Bans
<1>4. bans' = [bans EXCEPT ![id] = row]
  BY DEF AdminUpdateHostBan
<1>5. id \in BanIds
  BY <1>1 DEF Used
<1> HIDE DEF row
<1> QED BY <1>1, <1>2, <1>3, <1>4, <1>5 DEF RowWritten, TypeOK

LEMMA DeleteCuts ==
  ASSUME TypeOK, NEW a \in Admins, AdminDeleteHostBan(a)
  PROVE  RowsCut
BY DEF AdminDeleteHostBan, RowsCut, TypeOK

LEMMA RestartCuts ==
  ASSUME TypeOK, Restart
  PROVE  RowsCut
BY DEF Restart, RowsCut, TypeOK

\* Once over, a ban stays over.
LEMMA ForceEnds ==
  ASSUME TypeOK, Tick, NEW ban \in Bans, InForce(ban)'
  PROVE  InForce(ban)
<1> USE DEF NoTime, Midnight, Later, Days, After
<1>1. now.day \in Int /\ now.time \in {0, 1} /\ now'.day \in Int /\ now'.time \in {0, 1}
  BY ClockAssumption DEF TypeOK, Tick
<1>2. \/ now'.day > now.day
      \/ now'.day = now.day /\ now'.time >= now.time
  BY <1>1, ClockAssumption DEF TypeOK, Tick
<1>3. CASE ban.expires = Never
  BY <1>3 DEF InForce
<1>4. CASE ban.expires # Never
  <2>1. ban.expires \in Stamps
    BY <1>4 DEF Bans
  <2>2. ban.expires.day \in Int /\ ban.expires.time \in {-1, 0}
    BY <2>1, StampParts
  <2> QED BY <1>1, <1>2, <1>4, <2>2 DEF InForce
<1> QED BY <1>3, <1>4

-----------------------------------------------------------------------------
(* Types.                                                                  *)

LEMMA InitTypeOK == Init => TypeOK
BY ClockAssumption, BanAssumption DEF Init, TypeOK, Days, Midnight

LEMMA NextTypeOK == TypeOK /\ [Next]_vars => TypeOK'
<1> SUFFICES ASSUME TypeOK, [Next]_vars PROVE TypeOK'
  OBVIOUS
<1>1. ASSUME NEW a \in Admins, AdminQueryHostBans(a) PROVE TypeOK'
  <2>1. PICK id \in Used :
          view' = [view EXCEPT ![a] = [id |-> id, birth |-> bans[id].birth,
                                       asOf |-> changes]]
    BY <1>1 DEF AdminQueryHostBans
  <2>2. [id |-> id, birth |-> bans[id].birth, asOf |-> changes] \in Views
    BY UsedAreBans DEF Views, Bans, TypeOK
  <2> QED BY <1>1, <2>1, <2>2 DEF AdminQueryHostBans, TypeOK
<1>2. ASSUME NEW a \in Admins, AdminDeleteHostBan(a) PROVE TypeOK'
  BY <1>2, DeleteCuts DEF AdminDeleteHostBan, RowsCut, TypeOK
<1>3. ASSUME NEW a \in Admins, AdminRequestFails(a) PROVE TypeOK'
  BY <1>3 DEF AdminRequestFails, TypeOK
<1>4. ASSUME NEW a \in Admins, NEW host \in Spellings, NEW date \in Dates \cup {Never},
             AdminUpdateHostBan(a, host, date)
      PROVE  TypeOK'
  <2>1. changes' \in 0..MaxChanges
    BY <1>4, BanAssumption DEF AdminUpdateHostBan, Changed, TypeOK
  <2> QED BY <1>4, <2>1, UpdateWrites DEF AdminUpdateHostBan, RowWritten, TypeOK
<1>5. ASSUME NEW host \in Spellings, NEW date \in Dates \cup {Never},
             AdminCreateHostBan(host, date)
      PROVE  TypeOK'
  <2>1. changes' \in 0..MaxChanges
    BY <1>5, BanAssumption DEF AdminCreateHostBan, Changed, TypeOK
  <2> QED BY <1>5, <2>1, CreateWrites DEF AdminCreateHostBan, RowWritten, TypeOK
<1>6. ASSUME NEW w \in Workers, NEW host \in Spellings, CheckBan(w, host) PROVE TypeOK'
  BY <1>6 DEF CheckBan, TypeOK, Checks
<1>7. ASSUME NEW w \in Workers, Finish(w) PROVE TypeOK'
  BY <1>7 DEF Finish, TypeOK
<1>8. CASE Tick
  BY <1>8, ClockAssumption DEF Tick, TypeOK, Days, Midnight, Later
<1>9. CASE Restart
  BY <1>9, RestartCuts DEF Restart, RowsCut, TypeOK
<1>10. CASE UNCHANGED vars
  BY <1>10 DEF vars, TypeOK
<1> QED BY <1>1, <1>2, <1>3, <1>4, <1>5, <1>6, <1>7, <1>8, <1>9, <1>10
        DEF Next, AdminStep, AnnounceStep

\* The rows, what administrators remember and the announcements under way keep
\* their kind, among it the two formats of a date.
THEOREM BansTypeCorrect == Spec => []TypeOK
BY InitTypeOK, NextTypeOK, PTL DEF Spec

-----------------------------------------------------------------------------
(* What bans mean.                                                         *)

\* A ban counts up to its date, in whichever format it is stored
\* (db_sqlite.go:407).
LEMMA TypedUntilDate == TypeOK => InForceUntilDate
<1> SUFFICES ASSUME TypeOK, NEW id \in Used
             PROVE  InForce(bans[id]) <=>
                      bans[id].expires = Never \/ now.day < bans[id].expires.day
  BY DEF InForceUntilDate
<1>1. bans[id].expires \in Stamps \cup {Never}
  BY UsedAreBans
<1>2. CASE bans[id].expires = Never
  BY <1>2 DEF InForce
<1>3. CASE bans[id].expires \in Stamps /\ bans[id].expires # Never
  <2>1. bans[id].expires.day \in Int /\ bans[id].expires.time \in {-1, 0}
    BY <1>3, StampParts
  <2>2. now.day \in Int /\ now.time \in {0, 1}
    BY ClockAssumption DEF TypeOK, Days, Midnight, Later
  <2> QED BY <1>3, <2>1, <2>2 DEF InForce, After
<1> QED BY <1>1, <1>2, <1>3

\* A ban is in force until the day it names, however its date was stored
\* (db_sqlite.go:726, 750).
THEOREM ForceUntilDate == Spec => []InForceUntilDate
BY BansTypeCorrect, TypedUntilDate, PTL

-----------------------------------------------------------------------------
(* Bans against announcements and administrators under way.                *)

\* History numbers are of the past.
Stamped ==
  /\ \A id \in Used : bans[id].birth <= changes /\ bans[id].edit <= changes
  /\ \A w \in Workers : req[w] # Idle => req[w].asOf <= changes
  /\ \A a \in Admins : view[a] # NoView => view[a].asOf <= changes

BansInv == TypeOK /\ Stamped /\ LateBansOnly /\ SeenOrNewer

\* What the parts of a value are.
LEMMA PartsTyped ==
  ASSUME TypeOK
  PROVE  /\ changes \in Int
         /\ \A id \in Used : id \in BanIds /\ bans[id] \in Bans
                            /\ bans[id].birth \in Int /\ bans[id].edit \in Int
         /\ \A w \in Workers : req[w] # Idle =>
                               req[w] \in Checks /\ req[w].asOf \in Int
         /\ \A a \in Admins : view[a] # NoView =>
                              view[a] \in Views /\ view[a].asOf \in Int
<1>1. changes \in Int
  BY BanAssumption DEF TypeOK
<1>2. ASSUME NEW id \in Used
      PROVE  /\ id \in BanIds /\ bans[id] \in Bans
             /\ bans[id].birth \in Int /\ bans[id].edit \in Int
  BY <1>2, UsedAreBans, BanAssumption DEF Bans
<1>3. ASSUME NEW w \in Workers, req[w] # Idle
      PROVE  req[w] \in Checks /\ req[w].asOf \in Int
  BY <1>3, BanAssumption DEF TypeOK, Checks
<1>4. ASSUME NEW a \in Admins, view[a] # NoView
      PROVE  view[a] \in Views /\ view[a].asOf \in Int
  BY <1>4, BanAssumption DEF TypeOK, Views
<1> QED BY <1>1, <1>2, <1>3, <1>4

\* Rows in use after a write were in use before, but for the one written.
LEMMA WrittenUsed ==
  ASSUME TypeOK, NEW id \in BanIds, RowWritten(id)
  PROVE  Used' = Used \cup {id}
BY NullAssumption DEF RowWritten, Used

LEMMA CutUsed ==
  ASSUME TypeOK, RowsCut
  PROVE  Used' \subseteq Used /\ \A id \in Used' : bans'[id] = bans[id]
BY DEF RowsCut, Used

\* A write tells on nothing that is under way: its edit is the newest.
LEMMA WrittenKeeps ==
  ASSUME BansInv, NEW id \in BanIds, RowWritten(id), now' = now, req' = req,
         \A a \in Admins : view'[a] = view[a] \/ view'[a] = NoView
  PROVE  (Stamped /\ LateBansOnly /\ SeenOrNewer)'
<1> USE DEF BansInv
<1>1. /\ changes' = changes + 1 /\ changes \in Int
      /\ bans'[id].edit = changes + 1
      /\ \/ bans'[id].birth = changes + 1
         \/ id \in Used /\ bans'[id].birth = bans[id].birth
      /\ \A i \in BanIds \ {id} : bans'[i] = bans[i]
  BY PartsTyped, NullAssumption DEF RowWritten, Used
<1>2. \A i \in Used' : i = id \/ (i \in Used /\ i \in BanIds \ {id})
  BY WrittenUsed DEF Used
<1>3. \A ban : InForce(ban)' <=> InForce(ban)
  BY DEF InForce
<1>4. Stamped'
  BY <1>1, <1>2, PartsTyped DEF Stamped
<1>5. LateBansOnly'
  <2> SUFFICES ASSUME NEW w \in Workers, req[w] # Idle, NEW i \in Used',
                      Fold[bans'[i].host] = Fold[req[w].host], InForce(bans'[i])
               PROVE  bans'[i].edit > req[w].asOf
    BY <1>3 DEF LateBansOnly
  <2>1. CASE i = id
    BY <1>1, <2>1, PartsTyped DEF Stamped
  <2>2. CASE i # id
    BY <1>1, <1>2, <2>2 DEF LateBansOnly
  <2> QED BY <2>1, <2>2
<1>6. SeenOrNewer'
  <2> SUFFICES ASSUME NEW a \in Admins, view'[a] = view[a], view[a] # NoView,
                      view[a].id \in Used'
               PROVE  \/ bans'[view[a].id].birth = view[a].birth
                      \/ bans'[view[a].id].birth > view[a].asOf
    BY DEF SeenOrNewer
  <2>1. CASE view[a].id = id
    BY <1>1, <2>1, PartsTyped DEF Stamped, SeenOrNewer
  <2>2. CASE view[a].id # id
    BY <1>1, <1>2, <2>2 DEF SeenOrNewer
  <2> QED BY <2>1, <2>2
<1> QED BY <1>4, <1>5, <1>6

LEMMA CutKeeps ==
  ASSUME BansInv, RowsCut, now' = now,
         \A w \in Workers : req'[w] = req[w] \/ req'[w] = Idle,
         \A a \in Admins : view'[a] = view[a] \/ view'[a] = NoView
  PROVE  (Stamped /\ LateBansOnly /\ SeenOrNewer)'
<1> USE DEF BansInv
<1>1. changes' = changes /\ Used' \subseteq Used /\ \A id \in Used' : bans'[id] = bans[id]
  BY CutUsed DEF RowsCut
<1>2. \A ban : InForce(ban)' <=> InForce(ban)
  BY DEF InForce
<1>3. Stamped'
  BY <1>1 DEF Stamped
<1>4. LateBansOnly'
  <2> SUFFICES ASSUME NEW w \in Workers, req'[w] = req[w], req[w] # Idle, NEW i \in Used',
                      Fold[bans'[i].host] = Fold[req[w].host], InForce(bans'[i])
               PROVE  bans'[i].edit > req[w].asOf
    BY <1>2 DEF LateBansOnly
  <2> QED BY <1>1 DEF LateBansOnly
<1>5. SeenOrNewer'
  BY <1>1 DEF SeenOrNewer
<1> QED BY <1>3, <1>4, <1>5

LEMMA InitBansInv == Init => BansInv
BY InitTypeOK DEF Init, BansInv, Stamped, LateBansOnly, SeenOrNewer, Used

LEMMA NextBansInv == BansInv /\ [Next]_vars => BansInv'
<1> SUFFICES ASSUME BansInv, [Next]_vars PROVE (Stamped /\ LateBansOnly /\ SeenOrNewer)'
  BY NextTypeOK DEF BansInv
<1> USE DEF BansInv
<1>1. ASSUME NEW a \in Admins, AdminQueryHostBans(a)
      PROVE  (Stamped /\ LateBansOnly /\ SeenOrNewer)'
  <2>1. PICK id \in Used :
          view' = [view EXCEPT ![a] = [id |-> id, birth |-> bans[id].birth,
                                       asOf |-> changes]]
    BY <1>1 DEF AdminQueryHostBans
  <2>2. /\ view'[a] = [id |-> id, birth |-> bans[id].birth, asOf |-> changes]
        /\ \A b \in Admins \ {a} : view'[b] = view[b]
    BY <2>1 DEF TypeOK
  <2>3. UNCHANGED <<bans, now, changes, req>> /\ Used' = Used
    BY <1>1 DEF AdminQueryHostBans, Used
  <2>4. Stamped'
    BY <2>2, <2>3, PartsTyped DEF Stamped
  <2>5. LateBansOnly'
    BY <2>3 DEF LateBansOnly, InForce
  <2>6. SeenOrNewer'
    <3> SUFFICES ASSUME NEW b \in Admins, view'[b] # NoView, view'[b].id \in Used
                 PROVE  \/ bans[view'[b].id].birth = view'[b].birth
                        \/ bans[view'[b].id].birth > view'[b].asOf
      BY <2>3 DEF SeenOrNewer
    <3>1. CASE b = a
      BY <2>2, <3>1
    <3>2. CASE b # a
      BY <2>2, <3>2 DEF SeenOrNewer
    <3> QED BY <3>1, <3>2
  <2> QED BY <2>4, <2>5, <2>6
<1>2. ASSUME NEW a \in Admins, AdminDeleteHostBan(a)
      PROVE  (Stamped /\ LateBansOnly /\ SeenOrNewer)'
  BY <1>2, DeleteCuts, CutKeeps DEF AdminDeleteHostBan, TypeOK
<1>3. ASSUME NEW a \in Admins, AdminRequestFails(a)
      PROVE  (Stamped /\ LateBansOnly /\ SeenOrNewer)'
  <2>1. RowsCut
    BY <1>3 DEF AdminRequestFails, RowsCut, TypeOK
  <2> QED BY <1>3, <2>1, CutKeeps DEF AdminRequestFails, TypeOK
<1>4. ASSUME NEW a \in Admins, NEW host \in Spellings, NEW date \in Dates \cup {Never},
             AdminUpdateHostBan(a, host, date)
      PROVE  (Stamped /\ LateBansOnly /\ SeenOrNewer)'
  <2>1. RowWritten(view[a].id) /\ view[a].id \in BanIds
    BY <1>4, UpdateWrites DEF Used
  <2> QED BY <1>4, <2>1, WrittenKeeps DEF AdminUpdateHostBan, TypeOK
<1>5. ASSUME NEW host \in Spellings, NEW date \in Dates \cup {Never},
             AdminCreateHostBan(host, date)
      PROVE  (Stamped /\ LateBansOnly /\ SeenOrNewer)'
  BY <1>5, CreateWrites, WrittenKeeps DEF AdminCreateHostBan
<1>6. ASSUME NEW w \in Workers, NEW host \in Spellings, CheckBan(w, host)
      PROVE  (Stamped /\ LateBansOnly /\ SeenOrNewer)'
  <2>1. /\ req'[w] = [pc |-> "checks", host |-> host, asOf |-> changes]
        /\ \A v \in Workers \ {w} : req'[v] = req[v]
        /\ UNCHANGED <<bans, now, changes, view>> /\ Used' = Used
    BY <1>6 DEF CheckBan, TypeOK, Used
  <2>2. Stamped'
    BY <2>1, PartsTyped DEF Stamped
  <2>3. LateBansOnly'
    <3> SUFFICES ASSUME NEW v \in Workers, req'[v] # Idle, NEW i \in Used,
                        Fold[bans[i].host] = Fold[req'[v].host], InForce(bans[i])
                 PROVE  bans[i].edit > req'[v].asOf
      BY <2>1 DEF LateBansOnly, InForce
    <3>1. CASE v = w
      BY <1>6, <2>1, <3>1 DEF CheckBan, IsBannedHost
    <3>2. CASE v # w
      BY <2>1, <3>2 DEF LateBansOnly
    <3> QED BY <3>1, <3>2
  <2>4. SeenOrNewer'
    BY <2>1 DEF SeenOrNewer
  <2> QED BY <2>2, <2>3, <2>4
<1>7. ASSUME NEW w \in Workers, Finish(w)
      PROVE  (Stamped /\ LateBansOnly /\ SeenOrNewer)'
  <2>1. RowsCut
    BY <1>7 DEF Finish, RowsCut, TypeOK
  <2> QED BY <1>7, <2>1, CutKeeps DEF Finish, TypeOK
<1>8. CASE Tick
  <2>1. UNCHANGED <<bans, changes, view, req>> /\ Used' = Used
    BY <1>8 DEF Tick, Used
  <2>2. Stamped' /\ SeenOrNewer'
    BY <2>1 DEF Stamped, SeenOrNewer
  <2>3. LateBansOnly'
    BY <1>8, <2>1, ForceEnds, PartsTyped DEF LateBansOnly
  <2> QED BY <2>2, <2>3
<1>9. CASE Restart
  BY <1>9, RestartCuts, CutKeeps DEF Restart, TypeOK
<1>10. CASE UNCHANGED vars
  <2>1. RowsCut
    BY <1>10 DEF vars, RowsCut, TypeOK
  <2> QED BY <1>10, <2>1, CutKeeps DEF vars
<1> QED BY <1>1, <1>2, <1>3, <1>4, <1>5, <1>6, <1>7, <1>8, <1>9, <1>10
        DEF Next, AdminStep, AnnounceStep

\* A ban that stands against an announcement under way came after its lookup
\* (endpoints.go:142).
THEOREM OnlyLateBans == Spec => []LateBansOnly
<1>1. BansInv => LateBansOnly
  BY DEF BansInv
<1> QED BY <1>1, InitBansInv, NextBansInv, PTL DEF Spec

\* An administrator's id stands for the ban that was seen or a newer one
\* (db_sqlite.go:748, 771).
THEOREM IdsSeenOrNewer == Spec => []SeenOrNewer
<1>1. BansInv => SeenOrNewer
  BY DEF BansInv
<1> QED BY <1>1, InitBansInv, NextBansInv, PTL DEF Spec

-----------------------------------------------------------------------------
(* The table implements the register.                                      *)

Rows == {Standing(id) : id \in Used}

\* Refusing a host by its texts of dates is refusing it by the days of its bans.
BannedAsRegistered == BannedNames = Register!BannedBy(Rows, now.day)

LEMMA RefusedAsRegistered == TypeOK => BannedAsRegistered
<1> SUFFICES ASSUME TypeOK PROVE BannedAsRegistered
  OBVIOUS
<1> DEFINE Stands(ban) == ban.until = Never \/ now.day < ban.until
<1>1. \A id \in Used : bans[id].host \in Spellings
  BY PartsTyped DEF Bans
<1>2. ASSUME NEW id \in Used PROVE InForce(bans[id]) <=> Stands(Standing(id))
  <2>1. InForce(bans[id]) <=> bans[id].expires = Never \/ now.day < bans[id].expires.day
    BY TypedUntilDate DEF InForceUntilDate
  <2>2. Standing(id).until = IF bans[id].expires = Never THEN Never ELSE bans[id].expires.day
    BY DEF Standing
  <2>3. CASE bans[id].expires = Never
    BY <2>1, <2>2, <2>3
  <2>4. CASE bans[id].expires # Never
    <3>1. bans[id].expires.day # Never
      BY <2>4, UsedAreBans, NullAssumption DEF Stamps
    <3> QED BY <2>1, <2>2, <2>4, <3>1
  <2> QED BY <2>3, <2>4
<1> HIDE DEF Stands
<1>3. BannedNames = {Fold[bans[id].host] : id \in {i \in Used : InForce(bans[i])}}
  BY <1>1 DEF BannedNames, IsBannedHost
<1>4. \A id \in Used : Standing(id).host = Fold[bans[id].host]
  BY DEF Standing
<1>5. Register!BannedBy(Rows, now.day) = {ban.host : ban \in {b \in Rows : Stands(b)}}
  BY DEF Register!BannedBy, Stands
<1>6. {ban.host : ban \in {b \in Rows : Stands(b)}} = BannedNames
  <2>1. ASSUME NEW ban \in {b \in Rows : Stands(b)} PROVE ban.host \in BannedNames
    BY <1>2, <1>3, <1>4, <2>1 DEF Rows
  <2>2. ASSUME NEW id \in Used, InForce(bans[id])
        PROVE  Fold[bans[id].host] \in {ban.host : ban \in {b \in Rows : Stands(b)}}
    <3>1. Standing(id) \in Rows /\ Stands(Standing(id))
      BY <1>2, <2>2 DEF Rows
    <3> QED BY <1>4, <3>1
  <2> QED BY <1>3, <2>1, <2>2
<1> QED BY <1>5, <1>6 DEF BannedAsRegistered

LEMMA NamesAreIds == \A id : Standing(id).name = id
BY DEF Standing

\* Writing a row places a ban or changes one.
LEMMA WrittenRegisters ==
  ASSUME TypeOK, NEW id \in BanIds, RowWritten(id), now' = now
  PROVE  Register!Place \/ Register!Amend
<1>1. Used' = Used \cup {id} /\ \A i \in BanIds \ {id} : bans'[i] = bans[i]
  BY WrittenUsed DEF RowWritten
<1> DEFINE new == Standing(id)'
<1>2. \A i \in Used \ {id} : Standing(i)' = Standing(i)
  BY <1>1 DEF Standing, Used
<1>3. Rows' = {Standing(i) : i \in Used \ {id}} \cup {new}
  BY <1>1, <1>2 DEF Rows
<1>4. new.name = id
  BY DEF Standing
<1> HIDE DEF new
<1>5. new \in Rows'
  BY <1>3
<1>6. CASE id \in Used
  <2>1. {Standing(i) : i \in Used \ {id}} = Rows \ {Standing(id)}
    BY NamesAreIds DEF Rows
  <2>2. Standing(id) \in Rows /\ Standing(id).name = id
    BY <1>6, NamesAreIds DEF Rows
  <2>3. Rows' = (Rows \ {Standing(id)}) \cup {new}
    BY <1>3, <2>1
  <2> QED BY <1>4, <1>5, <2>2, <2>3 DEF Register!Amend, Rows
<1>7. CASE id \notin Used
  <2>1. Rows' = Rows \cup {new}
    BY <1>3, <1>7 DEF Rows
  <2>2. \A other \in Rows : other.name # id
    BY <1>7, NamesAreIds DEF Rows
  <2> QED BY <1>4, <1>5, <2>1, <2>2 DEF Register!Place, Rows
<1> QED BY <1>6, <1>7

LEMMA DeleteRegisters ==
  ASSUME TypeOK, NEW a \in Admins, AdminDeleteHostBan(a)
  PROVE  Register!Lift
<1> DEFINE id == view[a].id
<1>1. id \in Used /\ Used' = Used \ {id} /\ \A i \in Used' : bans'[i] = bans[i]
  BY DEF AdminDeleteHostBan, Used, TypeOK
<1>2. \A i \in Used' : Standing(i)' = Standing(i)
  BY <1>1 DEF Standing
<1>3. now' = now
  BY DEF AdminDeleteHostBan
<1> HIDE DEF id
<1>4. Rows' = Rows \ {Standing(id)} /\ Standing(id) \in Rows
  BY <1>1, <1>2, NamesAreIds DEF Rows
<1> QED BY <1>3, <1>4 DEF Register!Lift, Rows

LEMMA SameRows ==
  ASSUME bans' = bans
  PROVE  Rows' = Rows
BY DEF Rows, Standing, Used

LEMMA SameRowsSameNames ==
  ASSUME bans' = bans, now' = now
  PROVE  UNCHANGED <<Rows, BannedNames, now.day>>
BY SameRows DEF BannedNames, IsBannedHost, InForce, Used

LEMMA TickPasses ==
  ASSUME TypeOK, TypeOK', Tick, BannedAsRegistered, BannedAsRegistered'
  PROVE  Register!Pass \/ UNCHANGED <<Rows, BannedNames, now.day>>
<1>1. Rows' = Rows
  BY SameRows DEF Tick
<1>2. now'.day = now.day \/ now'.day > now.day
  BY ClockAssumption DEF Tick, TypeOK, Days
<1>3. CASE now'.day = now.day
  BY <1>1, <1>3 DEF BannedAsRegistered, Register!BannedBy
<1>4. CASE now'.day > now.day
  BY <1>1, <1>4 DEF Register!Pass, Rows
<1> QED BY <1>2, <1>3, <1>4

LEMMA RestartRegisters ==
  ASSUME Restart
  PROVE  Register!Lose \/ UNCHANGED <<Rows, BannedNames, now.day>>
<1>1. CASE Persistent
  BY <1>1, SameRowsSameNames DEF Restart
<1>2. CASE ~ Persistent
  <2>1. Used' = {} /\ now' = now
    BY <1>2 DEF Restart, Used
  <2>2. Rows' = {}
    BY <2>1 DEF Rows
  <2> QED BY <1>2, <2>1, <2>2 DEF Register!Lose, Rows
<1> QED BY <1>1, <1>2

LEMMA InitRegister == Init => Rows = {} /\ BannedNames = {}
BY DEF Init, Rows, BannedNames, IsBannedHost, Used

LEMMA NextRegister ==
  ASSUME TypeOK, TypeOK', BannedAsRegistered, BannedAsRegistered', [Next]_vars
  PROVE  [Register!RegisterNext]_<<Rows, BannedNames, now.day>>
<1> DEFINE Kept == UNCHANGED <<Rows, BannedNames, now.day>>
           Made == Register!Place \/ Register!Amend \/ Register!Lift
                     \/ Register!Pass \/ Register!Lose
<1>1. ASSUME NEW a \in Admins, AdminQueryHostBans(a) \/ AdminRequestFails(a)
      PROVE  Kept
  BY <1>1, SameRowsSameNames DEF AdminQueryHostBans, AdminRequestFails
<1>2. ASSUME NEW a \in Admins, AdminDeleteHostBan(a) PROVE Made
  BY <1>2, DeleteRegisters
<1>3. ASSUME NEW a \in Admins, NEW host \in Spellings, NEW date \in Dates \cup {Never},
             AdminUpdateHostBan(a, host, date)
      PROVE  Made
  <2>1. view[a].id \in BanIds /\ RowWritten(view[a].id)
    BY <1>3, UpdateWrites DEF Used
  <2> QED BY <1>3, <2>1, WrittenRegisters DEF AdminUpdateHostBan
<1>4. ASSUME NEW host \in Spellings, NEW date \in Dates \cup {Never},
             AdminCreateHostBan(host, date)
      PROVE  Made
  BY <1>4, CreateWrites, WrittenRegisters DEF AdminCreateHostBan
<1>5. ASSUME NEW w \in Workers,
             Finish(w) \/ \E host \in Spellings : CheckBan(w, host)
      PROVE  Kept
  BY <1>5, SameRowsSameNames DEF CheckBan, Finish
<1>6. ASSUME Tick PROVE Kept \/ Made
  BY <1>6, TickPasses
<1>7. ASSUME Restart PROVE Kept \/ Made
  BY <1>7, RestartRegisters
<1>8. ASSUME UNCHANGED vars PROVE Kept
  BY <1>8, SameRowsSameNames DEF vars
<1> HIDE DEF Kept, Made
<1>9. Kept \/ Made
  BY <1>1, <1>2, <1>3, <1>4, <1>5, <1>6, <1>7, <1>8 DEF Next, AdminStep, AnnounceStep
<1>10. BannedNames' = Register!BannedBy(Rows', now'.day)
  BY DEF BannedAsRegistered
<1>11. Made => Register!RegisterNext
  BY <1>10 DEF Made, Register!RegisterNext, Rows
<1> QED BY <1>9, <1>11 DEF Kept

\* A request places, changes or lifts one ban, and a host is refused if and only
\* if one of its bans stands (db_sqlite.go:404, 715-779): see ImplementsRegister.
THEOREM BansImplementRegister == Spec => ImplementsRegister
<1>1. TypeOK => BannedAsRegistered
  BY RefusedAsRegistered
<1>2. TypeOK /\ TypeOK' /\ BannedAsRegistered /\ BannedAsRegistered' /\ [Next]_vars =>
        [Register!RegisterNext]_<<Rows, BannedNames, now.day>>
  BY NextRegister
<1>3. Init => Rows = {} /\ BannedNames = {}
  BY InitRegister
<1> QED BY <1>1, <1>2, <1>3, BansTypeCorrect, PTL
        DEF Spec, ImplementsRegister, Register!RegisterSpec, Register!RegisterVars, Rows

=============================================================================
