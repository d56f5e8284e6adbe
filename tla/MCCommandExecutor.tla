-------------------------- MODULE MCCommandExecutor --------------------------
(***************************************************************************)
(* Small instances of one command: output below, at and above the limit,   *)
(* and every kind of background child.                                     *)
(***************************************************************************)
EXTENDS CommandExecutor
=============================================================================
