----------------------------- MODULE AgentSession -----------------------------
(***************************************************************************)
(* The agent of internal/agent/agent.go: Run connects again and again, and *)
(* connectAndServe serves one connection at a time.  Its read loop starts  *)
(* a goroutine per command and per pairing request; the goroutines of a    *)
(* connection share a semaphore for commands and one for prompts, write    *)
(* their answers to the connection themselves, and must all have ended     *)
(* before connectAndServe returns.  Terminal messages: TerminalManager.    *)
(***************************************************************************)
EXTENDS Naturals, FiniteSets

CONSTANTS
  Requests,        \* commands the server sends, each once
  Pairings,        \* pairing requests the server sends, each once
  NoTask,
  Parallel,        \* capacity of "semaphore" (4)
  MaxBackoff,      \* the longest back-off, in seconds (30)
  StableAfter,     \* an attempt this long starts the back-off again (30)
  DialLimit,       \* time limit of the handshake (10)
  MaxConnections   \* bound: connections explored

ASSUME SessionAssumption ==
  /\ IsFiniteSet(Requests)
  /\ Parallel \in Nat \ {0}
  /\ MaxBackoff \in Nat \ {0} /\ StableAfter \in Nat /\ DialLimit \in Nat
  /\ MaxConnections \in Nat \ {0}
  /\ Requests \cap Pairings = {} /\ NoTask \notin Requests \cup Pairings

VARIABLES
  connection,  \* number of the connection being served
  backoff,     \* Run's "backoff", in seconds
  failing,     \* the last attempt of Run to connect has failed
  reader,      \* its read loop: "reading", "refusing", "leaving", "gone"
  refused,     \* the task being refused
  conn,        \* "up", "mute" (a write failed, so will all later ones), "lost"
  ctxDone,     \* the connection's context is done
  stopped,     \* the parent context is done: Run will return
  at,          \* where each command and pairing is
  epoch,       \* the connection it was read from
  answers      \* history: how many answers to it the server was sent

runVars == <<connection, backoff, failing>>
vars == <<runVars, reader, refused, conn, ctxDone, stopped, at, epoch, answers>>
Tasks == Requests \cup Pairings

\* The context of a task is that of its own connection.
Cancelled(t) == epoch[t] < connection \/ ctxDone
Running == {"running", "answering", "releasing"}
Holding(tasks) == {t \in tasks : epoch[t] = connection /\ at[t] \in Running}

\* writeJSON on the connection a task belongs to.
WriteSucceeds(t) ==
  /\ epoch[t] = connection /\ conn = "up"
  /\ answers' = [answers EXCEPT ![t] = @ + 1]
  /\ UNCHANGED conn
WriteFails(t) ==
  /\ conn' = (IF epoch[t] = connection /\ conn = "up" THEN "mute" ELSE conn)
  /\ UNCHANGED answers

Advance(t, place) == at' = [at EXCEPT ![t] = place]

-----------------------------------------------------------------------------
(* The read loop of connectAndServe. *)

Reading == reader = "reading" /\ conn # "lost"

Accept(t, place) ==
  /\ at' = [at EXCEPT ![t] = place]
  /\ epoch' = [epoch EXCEPT ![t] = connection]

\* A valid command gets a goroutine at once, which then queues for a slot; an
\* invalid one is refused by the read loop itself.
ReadCommand(r) ==
  /\ Reading /\ at[r] = "new"
  /\ \/ Accept(r, "queued") /\ UNCHANGED <<reader, refused>>
     \/ Accept(r, "refused") /\ reader' = "refusing" /\ refused' = r
  /\ UNCHANGED <<runVars, conn, ctxDone, stopped, answers>>

\* Mutant: no return after the "busy" answer.
ReadPairingOnAndOn(p) ==
  /\ Reading /\ at[p] = "new"
  /\ \/ Holding(Pairings) = {} /\ UNCHANGED <<reader, refused>>
     \/ reader' = "refusing" /\ refused' = p
  /\ Accept(p, "running")
  /\ UNCHANGED <<runVars, conn, ctxDone, stopped, answers>>

\* handlePairingRequest: a valid request takes the only prompt; an invalid one,
\* or one that meets another prompt, is refused; with the context done it may
\* be dropped.
ReadPairing(p) ==
  /\ Reading /\ at[p] = "new"
  /\ \/ Holding(Pairings) = {} /\ Accept(p, "running") /\ UNCHANGED <<reader, refused>>
     \/ ctxDone /\ Accept(p, "done") /\ UNCHANGED <<reader, refused>>
     \/ Accept(p, "refused") /\ reader' = "refusing" /\ refused' = p
  /\ UNCHANGED <<runVars, conn, ctxDone, stopped, answers>>

\* Mutant: no "continue" after the refusal of a command.
RefuseThenRun ==
  /\ reader = "refusing"
  /\ \/ WriteSucceeds(refused) /\ reader' = "reading" /\ UNCHANGED ctxDone
     \/ WriteFails(refused) /\ reader' = "leaving" /\ ctxDone' = TRUE
  /\ Advance(refused, IF refused \in Requests THEN "queued" ELSE "done")
  /\ UNCHANGED <<runVars, refused, stopped, epoch>>

\* A command's refusal that cannot be written ends the connection (cancel, then
\* return); a pairing's is let go.
Refuse ==
  /\ reader = "refusing"
  /\ \/ WriteSucceeds(refused) /\ reader' = "reading" /\ UNCHANGED ctxDone
     \/ /\ WriteFails(refused)
        /\ IF refused \in Requests
           THEN reader' = "leaving" /\ ctxDone' = TRUE
           ELSE reader' = "reading" /\ UNCHANGED ctxDone
  /\ Advance(refused, "done")
  /\ UNCHANGED <<runVars, refused, stopped, epoch>>

\* Mutant: no cancel() before the return.
ReadFailsUncancelled ==
  /\ reader = "reading"
  /\ reader' = "leaving"
  /\ UNCHANGED <<runVars, refused, conn, ctxDone, stopped, at, epoch, answers>>

\* ReadJSON fails: the connection is lost, or the message is no valid JSON.
ReadFails ==
  /\ reader = "reading"
  /\ reader' = "leaving"
  /\ ctxDone' = TRUE
  /\ UNCHANGED <<runVars, refused, conn, stopped, at, epoch, answers>>

Idle(t) == at[t] \in {"new", "done"}

\* Mutant: no commands.Wait.
LeaveAtOnce ==
  /\ reader = "leaving"
  /\ reader' = "gone"
  /\ conn' = "lost"
  /\ UNCHANGED <<runVars, refused, ctxDone, stopped, at, epoch, answers>>

\* commands.Wait (deferred), then conn.Close.
Leave ==
  /\ reader = "leaving"
  /\ \A t \in Tasks : epoch[t] = connection => Idle(t)
  /\ reader' = "gone"
  /\ conn' = "lost"
  /\ UNCHANGED <<runVars, refused, ctxDone, stopped, at, epoch, answers>>

-----------------------------------------------------------------------------
(* Run: wait, then connect again.  The time that decides on the next back-off *)
(* is that since the attempt began, the wait included.                       *)

NextBackoff(elapsed) ==
  IF elapsed >= StableAfter THEN 1
  ELSE IF 2 * backoff > MaxBackoff THEN MaxBackoff ELSE 2 * backoff

\* The attempt that ended was a connection of any length or a dial within its
\* limit; the wait has up to a quarter of jitter.
BackOff ==
  \E attempt \in 0..(IF failing THEN DialLimit ELSE StableAfter), jitter \in 0..(backoff \div 4) :
    backoff' = NextBackoff(attempt + backoff + jitter)

\* A new connection has a context and semaphores of its own.
Reconnect ==
  /\ reader = "gone" /\ ~stopped /\ connection < MaxConnections
  /\ BackOff
  /\ failing' = FALSE
  /\ connection' = connection + 1
  /\ reader' = "reading"
  /\ conn' = "up"
  /\ ctxDone' = FALSE
  /\ UNCHANGED <<refused, stopped, at, epoch, answers>>

RetryFails ==
  /\ reader = "gone" /\ ~stopped
  /\ BackOff
  /\ failing' = TRUE
  /\ UNCHANGED <<connection, reader, refused, conn, ctxDone, stopped, at, epoch, answers>>

-----------------------------------------------------------------------------
(* The goroutine of a command. *)

AcquireSlot(r) ==
  /\ at[r] = "queued"
  /\ epoch[r] = connection => Cardinality(Holding(Requests)) < Parallel
  /\ Advance(r, "running")
  /\ UNCHANGED <<runVars, reader, refused, conn, ctxDone, stopped, epoch, answers>>

\* Mutant: a command is dropped when it does not get a slot at once.
GiveUpSlotEarly(r) ==
  /\ at[r] = "queued"
  /\ Advance(r, "done")
  /\ UNCHANGED <<runVars, reader, refused, conn, ctxDone, stopped, epoch, answers>>

GiveUpSlot(r) ==
  /\ at[r] = "queued" /\ Cancelled(r)
  /\ Advance(r, "done")
  /\ UNCHANGED <<runVars, reader, refused, conn, ctxDone, stopped, epoch, answers>>

\* executor.Run or the prompt returns, by itself, by its deadline or because it
\* is cancelled; a result is dropped when the context is done.
Finish(t) ==
  /\ at[t] = "running"
  /\ Advance(t, IF Cancelled(t) THEN "releasing" ELSE "answering")
  /\ UNCHANGED <<runVars, reader, refused, conn, ctxDone, stopped, epoch, answers>>

Answer(t) ==
  /\ at[t] = "answering"
  /\ WriteSucceeds(t) \/ WriteFails(t)
  /\ Advance(t, "releasing")
  /\ UNCHANGED <<runVars, reader, refused, ctxDone, stopped, epoch>>

Release(t) ==
  /\ at[t] = "releasing"
  /\ Advance(t, "done")
  /\ UNCHANGED <<runVars, reader, refused, conn, ctxDone, stopped, epoch, answers>>

-----------------------------------------------------------------------------
ConnectionLost ==
  /\ conn # "lost"
  /\ conn' = "lost"
  /\ UNCHANGED <<runVars, reader, refused, ctxDone, stopped, at, epoch, answers>>

\* The controller cancels the parent context.
Stop ==
  /\ ~stopped
  /\ stopped' = TRUE
  /\ ctxDone' = TRUE
  /\ UNCHANGED <<runVars, reader, refused, conn, at, epoch, answers>>

\* The goroutine of connectAndServe that closes conn when the parent is done.
Watcher == stopped /\ ConnectionLost

Init ==
  /\ connection = 1 /\ backoff = 1 /\ failing = FALSE /\ reader = "reading" /\ refused = NoTask
  /\ conn = "up" /\ ctxDone = FALSE /\ stopped = FALSE
  /\ at = [t \in Tasks |-> "new"]
  /\ epoch = [t \in Tasks |-> 0]
  /\ answers = [t \in Tasks |-> 0]

Next ==
  \/ \E r \in Requests : ReadCommand(r) \/ AcquireSlot(r) \/ GiveUpSlot(r)
  \/ \E p \in Pairings : ReadPairing(p)
  \/ Refuse \/ ReadFails \/ Leave \/ Reconnect \/ RetryFails
  \/ \E t \in Tasks : Finish(t) \/ Answer(t) \/ Release(t)
  \/ ConnectionLost \/ Stop

Spec == Init /\ [][Next]_vars

\* The read loop and every goroutine are scheduled.  A command or a prompt that
\* is not cancelled may take as long as it likes (up to 24 h in the code), and no
\* server has to send an invalid message.
Fairness ==
  /\ WF_vars(Refuse) /\ WF_vars(conn = "lost" /\ ReadFails) /\ WF_vars(Leave) /\ WF_vars(Watcher)
  /\ \A r \in Requests : SF_vars(AcquireSlot(r)) /\ WF_vars(GiveUpSlot(r))
  /\ \A t \in Tasks :
       WF_vars(Cancelled(t) /\ Finish(t)) /\ WF_vars(Answer(t)) /\ WF_vars(Release(t))

FairSpec == Spec /\ Fairness

\* The deadline of every command and of every prompt comes.
DeadlinesCome == \A t \in Tasks : WF_vars(Finish(t))

-----------------------------------------------------------------------------
(* Properties. *)

\* Types of the variables; a task that was read has the connection it came from,
\* and a refused task is not started as well.
TypeOK ==
  /\ connection \in 1..MaxConnections
  /\ backoff \in 1..MaxBackoff /\ failing \in BOOLEAN
  /\ reader \in {"reading", "refusing", "leaving", "gone"}
  /\ refused \in Tasks \cup {NoTask}
  /\ conn \in {"up", "mute", "lost"}
  /\ ctxDone \in BOOLEAN /\ stopped \in BOOLEAN
  /\ at \in [Tasks -> {"new", "refused", "queued", "done"} \cup Running]
  /\ epoch \in [Tasks -> 0..MaxConnections]
  /\ answers \in [Tasks -> Nat]
  /\ \A t \in Tasks : at[t] = "new" <=> epoch[t] = 0
  /\ \A t \in Tasks : at[t] = "refused" <=> reader = "refusing" /\ refused = t

\* At most "Parallel" commands run on this computer and at most one prompt is
\* open, counted over all connections: a reconnection does not start afresh
\* while goroutines of the former connection still work.
ParallelLimit ==
  /\ Cardinality({r \in Requests : at[r] = "running"}) <= Parallel
  /\ Cardinality({p \in Pairings : at[p] = "running"}) <= 1

\* No goroutine outlives its connection, so none ever works under an old one.
NothingOutlivesConnection ==
  \A t \in Tasks : ~Idle(t) => epoch[t] = connection /\ reader # "gone"

\* Nothing is answered twice; and only the end of its connection, or a write
\* that broke it, lets a command end without an answer.
CommandsAnsweredOnce ==
  /\ \A t \in Tasks : answers[t] <= 1
  /\ \A r \in Requests :
       at[r] = "done" /\ answers[r] = 0 => epoch[r] < connection \/ conn # "up" \/ ctxDone

\* How the server sees a message; an answer too many would be no fate of RequestService.
Fate(t) ==
  CASE at[t] = "new" -> "unread"
    [] answers[t] > 1 -> "answered again"
    [] answers[t] = 1 -> "answered"
    [] answers[t] = 0 /\ at[t] = "done" -> "lost"
    [] OTHER -> "accepted"

Link ==
  CASE reader = "gone" -> "closed"
    [] reader # "gone" /\ conn # "up" -> "broken"
    [] reader # "gone" /\ conn = "up" -> IF ctxDone THEN "ending" ELSE "up"

Service == INSTANCE RequestService
             WITH Messages <- Tasks, serving <- connection, link <- Link,
                  fate <- [t \in Tasks |-> Fate(t)]

\* The read loop, the goroutines of the commands and prompts and the reconnections
\* of Run are, for the server, one message service: each message is answered once
\* or lost with its connection, and none survives it (RequestService).
ServesRequests == Service!Spec

\* The end of a connection, or of the whole agent, always gets through: connectAndServe returns without
\* waiting for a command or a prompt to run its time.
ConnectionEndIsPrompt ==
  \A n \in 1..MaxConnections :
    connection = n /\ (conn = "lost" \/ stopped) ~> connection # n \/ reader = "gone"

\* While the server cannot be reached, Run never waits less than before
\* (README: it reconnects by exponential back-off).
BackoffGrows == [][failing /\ failing' => backoff' >= backoff]_vars

\* When commands end by their deadlines, every command that was accepted is
\* answered, or its connection has failed: commands that hold the slots never
\* starve the others for good.
AcceptedIsAnswered ==
  DeadlinesCome =>
    \A r \in Requests :
      at[r] = "queued" ~> answers[r] = 1 \/ epoch[r] < connection \/ conn # "up"
=============================================================================
