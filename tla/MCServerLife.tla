---------------------------- MODULE MCServerLife ----------------------------
(***************************************************************************)
(* An instance of ServerLife for TLC.                                      *)
(***************************************************************************)
EXTENDS ServerLife

CONSTANTS r1, r2, s1, b1

=============================================================================
