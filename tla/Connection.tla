------------------------------ MODULE Connection ------------------------------
(***************************************************************************)
(* What the client of cmd/idata-client/main.go is to the server and to the *)
(* user: at most one connection, which is in the hands of one owner at a   *)
(* time, and one credential, which changes only with the consent of the    *)
(* server.  Controller, with its goroutines, its queues and its late       *)
(* events, implements this.                                                *)
(***************************************************************************)

CONSTANTS
  Addresses,    \* server addresses
  Credentials,  \* credentials a server may issue
  None          \* no credential

VARIABLES
  live,        \* a connection is wanted, and its context is not cancelled
  stopping,    \* the process is being interrupted
  owners,      \* who has the latest connection in hand, nobody or one: "enrollment",
               \* "agent", or the "approved" or "refused" credential on the way to the
               \* loop; each with its address and its credential
  credential   \* the credential in use, or None

vars == <<live, stopping, owners, credential>>

Init ==
  /\ live = FALSE /\ stopping = FALSE
  /\ owners = {}
  /\ credential \in Credentials \cup {None}

Owner(stage) == {o \in owners : o.stage = stage}

\* The one owner "o" has become another one, at the same address.
Becomes(o, stage, token) == owners' = {[stage |-> stage, url |-> o.url, token |-> token]}

\* Somebody owns the connection from now on, at an address the program can reach.
Starts(stage) ==
  \E o \in owners' :
    owners' = {o} /\ o = [stage |-> stage, url |-> o.url, token |-> credential] /\ o.url \in Addresses

\* A connect or a launch: enrol without a credential, else work with it, unless
\* the rest of the configuration forbids that.
Open ==
  /\ live' = TRUE
  /\ \/ credential = None /\ Starts("enrollment")
     \/ credential # None /\ (Starts("agent") \/ owners' = {})
  /\ UNCHANGED <<stopping, credential>>

\* A disconnection, an unusable address, the end of the program.
Close ==
  /\ live' = FALSE
  /\ owners' \in {owners, {}}
  /\ UNCHANGED <<stopping, credential>>

Interrupt == stopping' = TRUE /\ UNCHANGED <<live, owners, credential>>

Issue ==
  /\ \E o \in Owner("enrollment"), c \in Credentials : Becomes(o, "approved", c)
  /\ UNCHANGED <<live, stopping, credential>>

\* The approval reaches the loop; the agent starts if the credential was saved.
Accept ==
  /\ \E o \in Owner("approved") :
       /\ credential' = o.token
       /\ owners' = {} \/ (live /\ Becomes(o, "agent", o.token))
  /\ UNCHANGED <<live, stopping>>

\* The server refuses the credential in use ...
Refuse ==
  /\ \E o \in Owner("agent") : o.token = credential /\ Becomes(o, "refused", credential)
  /\ UNCHANGED <<live, stopping, credential>>

\* ... which is dropped, and a new one is asked for at the same address.
Renew ==
  /\ \E o \in Owner("refused") :
       /\ o.token = credential
       /\ IF live THEN Becomes(o, "enrollment", None) ELSE owners' = {}
  /\ credential' = None
  /\ UNCHANGED <<live, stopping>>

\* An enrollment may fail; anything else comes to nothing only when the
\* connection or the process is given up.
GiveUp ==
  /\ ~live \/ stopping \/ Owner("enrollment") # {}
  /\ owners' = {}
  /\ UNCHANGED <<live, stopping, credential>>

Next ==
  Open \/ Close \/ Interrupt \/ Issue \/ Accept \/ Refuse \/ Renew \/ GiveUp

Spec == Init /\ [][Next]_vars
=============================================================================
