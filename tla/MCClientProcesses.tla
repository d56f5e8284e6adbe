-------------------------- MODULE MCClientProcesses --------------------------
(***************************************************************************)
(* Small instances: a client, and processes that meet it.                  *)
(***************************************************************************)
EXTENDS ClientProcesses

NoFile == {File("absent")}
Prepared == {Whole(Blank)}
AnyFile == NoFile \cup Prepared
=============================================================================
