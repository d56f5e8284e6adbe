---------------------------- MODULE TerminalService ----------------------------
(***************************************************************************)
(* What the server and the user of a terminal page may rely on when they   *)
(* talk to Manager (internal/terminal/manager.go) over one connection: a   *)
(* number of slots, each with one shell, every shell announced before the  *)
(* next is opened, and reported closed only after it ended and gave its    *)
(* slot back.  TerminalManager implements this.                            *)
(***************************************************************************)
EXTENDS Naturals, FiniteSets

CONSTANTS
  Ids,       \* session IDs
  Sessions,  \* names of sessions, and of their shells
  Nobody,    \* in a free slot
  Limit      \* slots in use at a time

VARIABLES
  serving,  \* the read loop takes messages
  slot,     \* by ID: the session under it, or Nobody
  shell,    \* by session: "unborn", "running" or "dead"
  told      \* by session: "nothing", "opened" or "closed", as sent to the server

vars == <<serving, slot, shell, told>>

Holds(s) == \E id \in Ids : slot[id] = s
Taken == {id \in Ids : slot[id] # Nobody}

\* The server knows of every session that holds a slot.
AllAnnounced == \A s \in Sessions : Holds(s) => told[s] # "nothing"

Init ==
  /\ serving = TRUE
  /\ slot = [id \in Ids |-> Nobody]
  /\ shell = [s \in Sessions |-> "unborn"]
  /\ told = [s \in Sessions |-> "nothing"]

Open(id, s) ==
  /\ serving /\ AllAnnounced
  /\ slot[id] = Nobody /\ Cardinality(Taken) < Limit
  /\ shell[s] = "unborn"
  /\ slot' = [slot EXCEPT ![id] = s]
  /\ shell' = [shell EXCEPT ![s] = "running"]
  /\ UNCHANGED <<serving, told>>

Announce(s) ==
  /\ serving
  /\ Holds(s) /\ told[s] = "nothing"
  /\ told' = [told EXCEPT ![s] = "opened"]
  /\ UNCHANGED <<serving, slot, shell>>

ShellEnds(s) ==
  /\ shell[s] = "running"
  /\ shell' = [shell EXCEPT ![s] = "dead"]
  /\ UNCHANGED <<serving, slot, told>>

Free(id) ==
  /\ \E s \in Sessions : slot[id] = s /\ shell[s] = "dead" /\ told[s] = "opened"
  /\ slot' = [slot EXCEPT ![id] = Nobody]
  /\ UNCHANGED <<serving, shell, told>>

ReportClosed(s) ==
  /\ told[s] = "opened" /\ ~Holds(s)
  /\ told' = [told EXCEPT ![s] = "closed"]
  /\ UNCHANGED <<serving, slot, shell>>

Leave ==
  /\ serving' = FALSE
  /\ UNCHANGED <<slot, shell, told>>

Next ==
  \/ \E s \in Sessions :
       Announce(s) \/ ShellEnds(s) \/ ReportClosed(s) \/ \E id \in Ids : Open(id, s)
  \/ \E id \in Ids : Free(id)
  \/ Leave

Spec == Init /\ [][Next]_vars
=============================================================================
