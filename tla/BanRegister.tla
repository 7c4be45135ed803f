----------------------------- MODULE BanRegister -----------------------------
(***************************************************************************)
(* Abstract specification of the bans in the database: each of them stands *)
(* until its day comes or it is lifted, and a host may not announce while  *)
(* one of its bans stands.                                                 *)
(***************************************************************************)
EXTENDS Integers

CONSTANTS
  Never,   \* no day
  Durable  \* a restart of the server loses nothing

VARIABLES
  standing,  \* bans: a name, a host without regard to case, the day it ends
  banned,    \* hosts that may not announce
  today

RegisterVars == <<standing, banned, today>>

\* The hosts of the bans that have not ended.
BannedBy(bans, day) ==
  {ban.host : ban \in {b \in bans : b.until = Never \/ day < b.until}}

Place ==
  \E ban \in standing' :
    /\ \A other \in standing : other.name # ban.name
    /\ standing' = standing \cup {ban}
    /\ today' = today

\* One ban becomes one of another host, or with another day.
Amend ==
  \E old \in standing, new \in standing' :
    /\ new.name = old.name
    /\ standing' = (standing \ {old}) \cup {new}
    /\ today' = today

Lift ==
  \E ban \in standing : standing' = standing \ {ban} /\ today' = today

Pass == today' > today /\ standing' = standing

Lose == ~ Durable /\ standing' = {} /\ today' = today

RegisterNext ==
  /\ Place \/ Amend \/ Lift \/ Pass \/ Lose
  /\ banned' = BannedBy(standing', today')

RegisterSpec ==
  standing = {} /\ banned = {} /\ [][RegisterNext]_RegisterVars

=============================================================================
