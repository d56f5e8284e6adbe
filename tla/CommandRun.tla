------------------------------ MODULE CommandRun ------------------------------
(***************************************************************************)
(* What the agent, and through it the server, may rely on when it calls    *)
(* executor.Run (internal/executor/executor.go): one answer, that says of  *)
(* the command what is true of it, and that comes although the command has *)
(* no mind to end.  CommandExecutor implements this.                       *)
(***************************************************************************)

VARIABLES
  limit,   \* the context: "live", "passed" (its deadline) or "cancelled" (by the caller)
  ended,   \* the shell: "no", "zero", "nonzero" (by itself) or "killed"
  answer   \* the result of Run, or Unanswered

vars == <<limit, ended, answer>>

Unanswered == [exit |-> "none", timedOut |-> FALSE, error |-> "none"]

\* Field by field: exit code 0, another one, or -1; TimedOut; the text of Error.
Answers == [exit : {"zero", "nonzero", "minus_one"}, timedOut : BOOLEAN,
            error : {"none", "timed_out", "canceled", "other"}]

\* An exit code is that of the shell, 0 only when it ended with 0 by itself; a command is called timed out
\* when its time is over, and canceled when its caller has gone; a command that
\* went well is not reported otherwise without an error.
Truthful(a) ==
  /\ a.exit = "zero" => ended = "zero"
  /\ a.exit = "nonzero" => ended \in {"nonzero", "killed"}
  /\ a.timedOut <=> limit = "passed"
  /\ a.error = "timed_out" => a.timedOut
  /\ a.error = "canceled" => limit = "cancelled"
  /\ a.exit = "minus_one" /\ a.error = "none" => ended = "killed"

Init == limit = "live" /\ ended = "no" /\ answer = Unanswered

LimitComes ==
  /\ limit = "live"
  /\ limit' \in {"passed", "cancelled"}
  /\ UNCHANGED <<ended, answer>>

CommandEnds ==
  /\ ended = "no"
  /\ ended' \in {"zero", "nonzero", "killed"}
  /\ ended' = "killed" => limit # "live"
  /\ UNCHANGED <<limit, answer>>

Reply ==
  /\ answer = Unanswered
  /\ answer' \in Answers
  /\ Truthful(answer')
  /\ UNCHANGED <<limit, ended>>

Next == LimitComes \/ CommandEnds \/ Reply

Spec == Init /\ [][Next]_vars

\* Run comes back when the shell has ended or must be ended.
Returns == limit # "live" \/ ended # "no" ~> answer # Unanswered

LiveSpec == Spec /\ Returns
=============================================================================
