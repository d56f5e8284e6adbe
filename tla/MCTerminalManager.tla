-------------------------- MODULE MCTerminalManager --------------------------
(***************************************************************************)
(* Small instances of the terminal manager.                                *)
(***************************************************************************)
EXTENDS TerminalManager, TLC

Interchangeable == Permutations(Shells) \cup Permutations(SessionIds)
=============================================================================
