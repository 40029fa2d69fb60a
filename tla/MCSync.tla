------------------------------- MODULE MCSync -------------------------------
(***************************************************************************)
(* Model checking of SyncService: three tasks and the shell.               *)
(***************************************************************************)
EXTENDS SyncService
=============================================================================
