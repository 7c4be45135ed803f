--------------------------- MODULE MCIncludeCache ---------------------------
(***************************************************************************)
(* Instances of IncludeCache for TLC.                                      *)
(***************************************************************************)
EXTENDS IncludeCache, TLC

CONSTANTS r1, r2, r3, u1, u2

Symmetry == Permutations({r1, r2})

=============================================================================
