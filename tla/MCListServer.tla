---------------------------- MODULE MCListServer ----------------------------
(***************************************************************************)
(* Instances of ListServer for TLC.                                        *)
(***************************************************************************)
EXTENDS ListServer, TLC

CONSTANTS w1, w2, h1, h2, h3, s1, s2, k1, k2, k3

\* One session, announced over and over.
OneSession == {<<h1, s1>>}

\* Two sessions of one host, and one of each other host.
SeveralHosts == {<<h1, s1>>, <<h1, s2>>, <<h2, s1>>, <<h3, s1>>}

\* Two sessions of one host.
TwoSessions == {<<h1, s1>>, <<h1, s2>>}

\* Kick with a reason, kick without one, and put back on the list.
KickAndRelist ==
  {[ids |-> {1}, unlisted |-> TRUE, reason |-> "text"],
   [ids |-> {1, 2}, unlisted |-> TRUE, reason |-> "empty"],
   [ids |-> {1, 2}, unlisted |-> FALSE, reason |-> "empty"]}

KickOnly == {[ids |-> {1, 2}, unlisted |-> TRUE, reason |-> "text"]}

Symmetry == Permutations({w1, w2}) \cup Permutations({k1, k2, k3})

=============================================================================
