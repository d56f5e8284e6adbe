---------------------------- MODULE RequestService -----------------------------
(***************************************************************************)
(* What the server may rely on when it sends commands and pairing requests *)
(* to an agent (internal/agent/agent.go): every message that was read is   *)
(* answered once, over the connection that brought it, or lost with that   *)
(* connection; and there is a next connection only when each message of    *)
(* the former one has met its fate.  AgentSession implements this.         *)
(***************************************************************************)
EXTENDS Naturals

CONSTANTS
  Messages  \* commands and pairing requests, each sent once

VARIABLES
  serving,  \* number of the connection
  link,     \* "up", "ending" (cancelled), "broken" (cannot be written) or "closed"
  fate      \* by message: "unread", "accepted", "answered" or "lost"

vars == <<serving, link, fate>>

Writable == link \in {"up", "ending"}
Worsens == \/ link = "up" /\ link' \in {"ending", "broken"}
           \/ link = "ending" /\ link' = "broken"

Init ==
  /\ serving = 1 /\ link = "up"
  /\ fate = [m \in Messages |-> "unread"]

Read(m) ==
  /\ link # "closed" /\ fate[m] = "unread"
  /\ fate' = [fate EXCEPT ![m] = "accepted"]
  /\ UNCHANGED <<serving, link>>

Answer(m) ==
  /\ Writable /\ fate[m] = "accepted"
  /\ fate' = [fate EXCEPT ![m] = "answered"]
  /\ UNCHANGED <<serving, link>>

\* A message is lost on a connection that has failed or that fails over it.
Lose(m) ==
  /\ link # "closed" /\ fate[m] \in {"unread", "accepted"}
  /\ fate' = [fate EXCEPT ![m] = "lost"]
  /\ Worsens \/ (link # "up" /\ UNCHANGED link)
  /\ UNCHANGED serving

Fail ==
  /\ Worsens
  /\ UNCHANGED <<serving, fate>>

Close ==
  /\ link \in {"ending", "broken"}
  /\ \A m \in Messages : fate[m] # "accepted"
  /\ link' = "closed"
  /\ UNCHANGED <<serving, fate>>

Reopen ==
  /\ link = "closed" /\ link' = "up"
  /\ serving' = serving + 1
  /\ UNCHANGED fate

Next ==
  \/ \E m \in Messages : Read(m) \/ Answer(m) \/ Lose(m)
  \/ Fail \/ Close \/ Reopen

Spec == Init /\ [][Next]_vars
=============================================================================
