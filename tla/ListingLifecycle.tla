-------------------------- MODULE ListingLifecycle --------------------------
(***************************************************************************)
(* What the list server promises about one announced listing, whatever     *)
(* the interleaving of requests, administration, clock and cleanup.        *)
(*                                                                         *)
(* A listing is identified by its update key, not by its id: ids are used  *)
(* again.  It is listed by its announcement, and from then on can be       *)
(* withdrawn and put back while it is timely; once it has expired no       *)
(* refresh and no administrator brings it back, and what the cleanup has   *)
(* deleted stays gone.  A listing that is on the list does not vanish: it  *)
(* leaves by being withdrawn or by expiring.                               *)
(***************************************************************************)
CONSTANTS
  Listings,  \* identities of listings, their update keys
  Durable    \* the database outlives the process and the timeout one day

VARIABLE phase

Phases == {"unborn", "listed", "hidden", "expired", "gone"}

LifecycleInit == phase = [l \in Listings |-> "unborn"]

\* All the listings of S change to phase p, the others stay.
Become(S, p) == phase' = [l \in Listings |-> IF l \in S THEN p ELSE phase[l]]

In(p) == {l \in Listings : phase[l] = p}

Announce == \E l \in In("unborn") : Become({l}, "listed")

Withdraw == \E l \in In("listed") : Become({l}, "hidden")

Relist == \E l \in In("hidden") : Become({l}, "listed")

\* Time passes for many listings at once.
Expire == \E S \in SUBSET (In("listed") \cup In("hidden")) : Become(S, "expired")

\* The cleanup takes every hidden listing and those expired long enough.
Purge == \E S \in SUBSET In("expired") : Become(S \cup In("hidden"), "gone")

\* Without durability a listing may vanish in any phase.
Lose ==
  /\ ~ Durable
  /\ \E S \in SUBSET {l \in Listings : phase[l] # "unborn"} : Become(S, "gone")

LifecycleNext == Announce \/ Withdraw \/ Relist \/ Expire \/ Purge \/ Lose

LifecycleSpec == LifecycleInit /\ [][LifecycleNext]_phase

=============================================================================
