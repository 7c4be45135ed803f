----------------------------- MODULE MCHostBans -----------------------------
(***************************************************************************)
(* Instances of HostBans for TLC.                                          *)
(***************************************************************************)
EXTENDS HostBans, TLC

CONSTANTS a1, a2, w1, upper, lower, other

\* Two spellings of one host, and another host.
FoldCase == [s \in Spellings |-> IF s = upper THEN lower ELSE s]

Symmetry == Permutations({a1, a2})

=============================================================================
