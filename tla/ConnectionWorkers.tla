-------------------------- MODULE ConnectionWorkers --------------------------
(***************************************************************************)
(* The goroutines that main.go starts for a connection attempt, seen from  *)
(* the event loop: an enrollment goroutine (startEnrollment) or an agent   *)
(* goroutine (startAgent, running agent.Run).  Both report to the loop     *)
(* over the buffered channel "events", and every send is a select against  *)
(* the cancellation of the connection's context.                           *)
(*                                                                         *)
(* A connection context is named by the generation it was created in.  It  *)
(* is cancelled when it stops being the active one, or when the process is *)
(* interrupted, since every context is a child of the signal context.      *)
(***************************************************************************)
EXTENDS ServerAddress, Sequences, FiniteSets

CONSTANTS
  Tokens,     \* credentials a server may issue
  NoToken,    \* the empty credential
  EventCap,   \* capacity of the events channel (16 in the code)
  WorkerIds   \* names for concurrently running goroutines

ASSUME WorkersAssumption ==
  /\ EventCap \in Nat \ {0}
  /\ NoToken \notin Tokens

VARIABLES
  activeContext,  \* generation of the live connection context, 0 when nil
  interrupted,    \* the signal context is done (SIGINT or SIGTERM)
  workers,        \* the running goroutines
  events          \* channel events

workerVars == <<workers, events>>

MaybeToken == Tokens \cup {NoToken}

EventKinds ==
  {"connected", "disconnected", "retrying", "enrollment_pending",
   "enrollment_approved", "enrollment_error", "authentication_rejected"}

\* "url" and, in a rejection, "token" are history: what the reporting
\* goroutine used.  In an approval "token" is the credential issued.
Event == [generation : Nat, kind : EventKinds, url : URL, token : MaybeToken]

EnrollmentStages ==
  {"submitting", "report_pending", "polling", "report_approved", "report_error"}
AgentStages ==
  {"dialing", "report_up", "serving", "report_down_retry", "report_down_rejected",
   "report_retry", "waiting", "report_rejected"}

Worker == [id : WorkerIds, role : {"enrollment", "agent"}, generation : Nat,
           url : URL, token : MaybeToken, at : EnrollmentStages \cup AgentStages]

Cancelled(w) == interrupted \/ activeContext # w.generation

UsedIds == {w.id : w \in workers}
NewWorker(role, generation, url, token) ==
  [id |-> CHOOSE i \in WorkerIds : i \notin UsedIds, role |-> role,
   generation |-> generation, url |-> url, token |-> token,
   at |-> IF role = "enrollment" THEN "submitting" ELSE "dialing"]

Move(w, stage) == workers' = (workers \ {w}) \cup {[w EXCEPT !.at = stage]}
Exit(w) == workers' = workers \ {w}

\* A failed attempt of a cancelled connection is not reported at all.
MoveUnlessCancelled(w, stage) == IF Cancelled(w) THEN Exit(w) ELSE Move(w, stage)

EventOf(w, kind, token) ==
  [generation |-> w.generation, kind |-> kind, url |-> w.url, token |-> token]

\* select { case events <- e: case <-connectionCtx.Done(): }
Report(w, kind, token) ==
  \/ /\ Len(events) < EventCap
     /\ events' = Append(events, EventOf(w, kind, token))
  \/ /\ Cancelled(w)
     /\ UNCHANGED events

-----------------------------------------------------------------------------
(* The enrollment goroutine: submit, report "pending", poll until decided. *)

EnrollmentFails(w) == MoveUnlessCancelled(w, "report_error")

Submit(w) ==
  /\ w.at = "submitting"
  /\ \/ Move(w, "report_pending")
     \/ EnrollmentFails(w)
  /\ UNCHANGED events

ReportPending(w) ==
  /\ w.at = "report_pending"
  /\ Report(w, "enrollment_pending", NoToken)
  /\ Move(w, "polling")

\* Mutant: an approval without a credential is taken for one.
PollUnchecked(w) ==
  /\ w.at = "polling"
  /\ \/ \E t \in MaybeToken :
          workers' = (workers \ {w}) \cup {[w EXCEPT !.at = "report_approved", !.token = t]}
     \/ EnrollmentFails(w)
  /\ UNCHANGED events

\* Polls answered "pending" change nothing; the last one decides.
Poll(w) ==
  /\ w.at = "polling"
  /\ \/ \E t \in Tokens :
          workers' = (workers \ {w}) \cup {[w EXCEPT !.at = "report_approved", !.token = t]}
     \/ EnrollmentFails(w)
  /\ UNCHANGED events

ReportApproved(w) ==
  /\ w.at = "report_approved"
  /\ Report(w, "enrollment_approved", w.token)
  /\ Exit(w)

ReportError(w) ==
  /\ w.at = "report_error"
  /\ Report(w, "enrollment_error", NoToken)
  /\ Exit(w)

-----------------------------------------------------------------------------
(* The agent goroutine: connectAndServe in the reconnect loop of agent.Run. *)

Dial(w) ==
  /\ w.at = "dialing"
  /\ \/ Move(w, "report_up")
     \/ MoveUnlessCancelled(w, "report_retry")
     \/ MoveUnlessCancelled(w, "report_rejected")
  /\ UNCHANGED events

ReportUp(w) ==
  /\ w.at = "report_up"
  /\ Report(w, "connected", NoToken)
  /\ Move(w, "serving")

\* Mutant: no goroutine closes the connection of a cancelled context.
EndsByPeerOnly(w) ==
  /\ w.at = "serving" /\ ~Cancelled(w)
  /\ \/ Move(w, "report_down_retry")
     \/ Move(w, "report_down_rejected")
  /\ UNCHANGED events

\* The connection ends: lost, closed by cancellation, or closed by the server
\* with one of the two credential rejection texts.
ConnectionEnds(w) ==
  /\ w.at = "serving"
  /\ \/ Move(w, "report_down_retry")
     \/ Move(w, "report_down_rejected")
  /\ UNCHANGED events

ReportDown(w) ==
  /\ w.at \in {"report_down_retry", "report_down_rejected"}
  /\ Report(w, "disconnected", NoToken)
  /\ MoveUnlessCancelled(w, IF w.at = "report_down_retry" THEN "report_retry"
                                                          ELSE "report_rejected")

ReportRetry(w) ==
  /\ w.at = "report_retry"
  /\ Report(w, "retrying", NoToken)
  /\ Move(w, "waiting")

BackoffEnds(w) ==
  /\ w.at = "waiting"
  /\ MoveUnlessCancelled(w, "dialing")
  /\ UNCHANGED events

\* Mutant: agent.Run goes on trying after a rejection.
ReportRejectedAndRetry(w) ==
  /\ w.at = "report_rejected"
  /\ Report(w, "authentication_rejected", w.token)
  /\ Move(w, "waiting")

ReportRejected(w) ==
  /\ w.at = "report_rejected"
  /\ Report(w, "authentication_rejected", w.token)
  /\ Exit(w)

-----------------------------------------------------------------------------
EnrollmentStep(w) ==
  Submit(w) \/ ReportPending(w) \/ Poll(w) \/ ReportApproved(w) \/ ReportError(w)

AgentStep(w) ==
  \/ Dial(w) \/ ReportUp(w) \/ ConnectionEnds(w) \/ ReportDown(w)
  \/ ReportRetry(w) \/ BackoffEnds(w) \/ ReportRejected(w)

\* What a goroutine does by itself: a served connection of a live context may
\* last for ever, everything else ends by a timeout or a cancellation.
WorkerProgress(i) ==
  \E w \in workers :
    /\ w.id = i
    /\ w.at = "serving" => Cancelled(w)
    /\ EnrollmentStep(w) \/ AgentStep(w)

WorkersInit == workers = {} /\ events = <<>>

WorkersTypeOK ==
  /\ activeContext \in Nat
  /\ interrupted \in BOOLEAN
  /\ workers \subseteq Worker
  /\ \A w \in workers :
       /\ w.role = "agent" <=> w.at \in AgentStages
       /\ w.at = "report_approved" => w.token \in Tokens
  /\ events \in Seq(Event)
  /\ Len(events) <= EventCap
  /\ \A k \in 1..Len(events) :
       events[k].kind = "enrollment_approved" => events[k].token \in Tokens
=============================================================================
