-------------------------- MODULE MCAdminSessions --------------------------
(***************************************************************************)
(* An instance of AdminSessions for TLC.                                   *)
(***************************************************************************)
EXTENDS AdminSessions, MCListServer

=============================================================================
