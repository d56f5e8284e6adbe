---------------------------- MODULE MCAgentSession ----------------------------
(***************************************************************************)
(* Small instances of the agent session: two tasks of each kind over one   *)
(* place (Session.cfg), and the reconnection alone with the durations of   *)
(* the code (BackoffReset.cfg).                                            *)
(***************************************************************************)
EXTENDS AgentSession
=============================================================================
