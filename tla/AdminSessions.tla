--------------------------- MODULE AdminSessions ---------------------------
(***************************************************************************)
(* ListServer with an administrator who reads the list of all sessions and *)
(* later updates sessions by the ids that were in it.  The requests are    *)
(* those of ListServer; what is added is the reading, and what is needed   *)
(* to say whether an id still stands for the listing it stood for.         *)
(*                                                                         *)
(* Nothing in an update says which listing it is meant for, and ids are    *)
(* used again after a cleanup.                                             *)
(***************************************************************************)
EXTENDS ListServer

VARIABLES
  seen,   \* history: the table as the administrator saw it, without the
          \* listings that were unlisted then or have been since
  since   \* history: ticks since it was read, at most OldAge

adminVars == <<vars, seen, since>>

\* The table without the listings with these keys.
Without(t, keys) ==
  [id \in RowIds |-> IF t[id] # NoRow /\ t[id].key \in keys THEN NoRow ELSE t[id]]

UnlistedKeys(t) == {t[id].key : id \in {i \in Used(t) : t[i].unlisted}}

AdminInit == Init /\ seen = EmptyTable /\ since = 0

\* GET /admin/sessions/: one SELECT of every row, listed or not.
AdminSessionList ==
  /\ ConnFree
  /\ seen' = Without(sessions, UnlistedKeys(sessions))
  /\ since' = 0
  /\ UNCHANGED vars

\* The other requests, the cleanup, bans and restarts.
OthersAct ==
  /\ Act
  /\ seen' = Without(seen, UnlistedKeys(sessions'))
  /\ UNCHANGED since

TimePasses == Tick /\ since' = Older(since) /\ UNCHANGED seen

AdminNext == AdminSessionList \/ OthersAct \/ TimePasses

AdminSpec == AdminInit /\ [][AdminNext]_adminVars

AdminLiveSpec == AdminSpec /\ Fairness

\* An update by an id from the list hits the listing that was seen there, for as
\* long as that listing has not been withdrawn by anybody and no day has passed
\* since it was refreshed, whatever was cleaned up, refused, announced anew or
\* restarted meanwhile, and whatever the session timeout is.  Nothing else
\* protects the listing that gets the id next (db_sqlite.go:79, 248, 624).
SeenStands ==
  Persistent =>
    \A id \in RowIds :
      seen[id] # NoRow /\ seen[id].age + since <= Day =>
        sessions[id] # NoRow /\ sessions[id].key = seen[id].key

=============================================================================
