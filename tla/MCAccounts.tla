----------------------------- MODULE MCAccounts -----------------------------
(***************************************************************************)
(* Instances of Accounts for TLC.                                          *)
(***************************************************************************)
EXTENDS Accounts, TLC

CONSTANTS w1, w2, admins, viewers, ann, bob, p1, p2, b1, b2, b3

\* Administrators and viewers; an edit makes one of the other.
SomeRoles ==
  {[name |-> admins, admin |-> TRUE, access |-> accessNone],
   [name |-> viewers, admin |-> FALSE, access |-> accessView]}

\* An administrator, a viewer, and a user renamed to the administrator.
SomeUsers ==
  {[name |-> ann, password |-> p1, role |-> admins],
   [name |-> bob, password |-> p1, role |-> viewers],
   [name |-> ann, password |-> KeepPassword, role |-> viewers]}

Symmetry == Permutations({w1, w2}) \cup Permutations({b1, b2, b3})

=============================================================================
