---------------------------- MODULE TerminalManager ----------------------------
(***************************************************************************)
(* The terminal sessions of one server connection: Manager of              *)
(* internal/terminal/manager.go, driven by the read loop of                *)
(* connectAndServe (internal/agent/agent.go).  Who acts:                   *)
(*   - the read loop, which opens, feeds and closes sessions and must not  *)
(*     block, since it is also what notices the end of the connection;     *)
(*   - per shell, two copyOutput goroutines and one wait goroutine;        *)
(*   - per shell, the watcher of os/exec that kills the process group when *)
(*     the session's context is done (shell_unix.go);                      *)
(*   - the shell, its background child, the network and the user.          *)
(***************************************************************************)
EXTENDS Naturals, FiniteSets

CONSTANTS
  SessionIds,   \* session IDs the server uses
  Shells,       \* names of shell processes; bound: how many are ever started
  NoShell,
  MaxSessions,  \* maxSessions, 4 in the code
  ChildKinds    \* background children explored, a subset of Children

\* In the shell's process group and holding its output, in the group with its
\* output redirected, or in a group of its own and holding the output.
Children == {"attached", "quiet", "escaped"}
Streams == {"stdout", "stderr"}

ASSUME TerminalAssumption ==
  /\ IsFiniteSet(SessionIds)
  /\ NoShell \notin Shells
  /\ MaxSessions \in Nat \ {0}
  /\ ChildKinds \subseteq Children

VARIABLES
  reader,    \* where the read loop is
  current,   \* the shell it is working on
  toClose,   \* snapshot of CloseAll
  conn,      \* "up", "mute" (a write failed: all later ones fail), "lost"
  ctxDone,   \* the connection's context is done
  sessions,  \* Manager.sessions
  proc,      \* the shell process: "unborn", "running", "dead"
  child,     \* its background child: a kind, or "none"
  pipe,      \* its output pipes: "empty", "unread", or "lost" (history): some
             \* output of the stream was written and will never be sent
  stdin,     \* its input pipe: "space", "full", "closed"
  closing,   \* session.closeOnce: "no", "started", "done" (context cancelled)
  killed,    \* the watcher of os/exec has run cmd.Cancel
  copier,    \* the copyOutput goroutines
  waiter,    \* the wait goroutine
  sent       \* history: "nothing", "opened" or "closed" was sent last

readerVars == <<reader, current, toClose>>
shellVars == <<proc, child, killed, pipe>>
vars == <<readerVars, conn, ctxDone, sessions, shellVars, stdin, closing, copier, waiter, sent>>

Registered(s) == \E id \in SessionIds : sessions[id] = s
OpenCount == Cardinality({id \in SessionIds : sessions[id] # NoShell})

\* writeJSON: a write that fails, if only by its 10 s deadline, breaks the
\* connection for every later write; reading goes on.
WriteSucceeds == conn = "up" /\ UNCHANGED conn
WriteFails == conn' = (IF conn = "up" THEN "mute" ELSE conn)

\* Output reaches end of file when nobody holds the pipe.
OutputHeld(s) == proc[s] = "running" \/ child[s] \in {"attached", "escaped"}

-----------------------------------------------------------------------------
(* session.close: closeOnce closes the input, then cancels; whoever calls   *)
(* it meanwhile waits for the one that runs it.                             *)

BeginClose(s) ==
  /\ closing[s] = "no"
  /\ closing' = [closing EXCEPT ![s] = "started"]
  /\ stdin' = [stdin EXCEPT ![s] = "closed"]

FinishClose(s) ==
  /\ closing[s] = "started"
  /\ closing' = [closing EXCEPT ![s] = "done"]
  /\ UNCHANGED stdin

Close(s) ==
  /\ BeginClose(s) \/ FinishClose(s)
  /\ UNCHANGED <<readerVars, conn, ctxDone, sessions, shellVars, copier, waiter, sent>>

-----------------------------------------------------------------------------
(* The read loop. *)

Reading == reader = "reading" /\ conn # "lost"

\* The limit and the ID are checked before the start and again at registration;
\* only the read loop registers, so the second check cannot fail.
ReadOpen(id) ==
  /\ Reading
  /\ \/ /\ sessions[id] # NoShell \/ OpenCount >= MaxSessions
        /\ reader' = "refusing"
        /\ UNCHANGED <<current, sessions, proc>>
     \/ /\ sessions[id] = NoShell /\ OpenCount < MaxSessions
        /\ \/ \E s \in Shells :
                /\ proc[s] = "unborn"
                /\ proc' = [proc EXCEPT ![s] = "running"]
                /\ sessions' = [sessions EXCEPT ![id] = s]
                /\ current' = s
                /\ reader' = "opened"
           \/ reader' = "refusing" /\ UNCHANGED <<current, sessions, proc>>
  /\ UNCHANGED <<toClose, conn, ctxDone, child, killed, pipe, stdin, closing, copier, waiter,
                 sent>>

\* Mutant: the goroutines of a session are started before "opened" is sent.
SendOpenedLate ==
  /\ reader = "opened"
  /\ \/ WriteSucceeds /\ sent' = [sent EXCEPT ![current] = "opened"] /\ reader' = "reading"
     \/ WriteFails /\ reader' = "open_failed" /\ UNCHANGED sent
  /\ copier' = [copier EXCEPT ![current] = [stream \in Streams |-> "reading"]]
  /\ waiter' = [waiter EXCEPT ![current] = "output"]
  /\ UNCHANGED <<current, toClose, ctxDone, sessions, shellVars, stdin, closing>>

\* The goroutines of a session are started only after "opened" was sent.
SendOpened ==
  /\ reader = "opened"
  /\ \/ /\ WriteSucceeds
        /\ sent' = [sent EXCEPT ![current] = "opened"]
        /\ copier' = [copier EXCEPT ![current] = [stream \in Streams |-> "reading"]]
        /\ waiter' = [waiter EXCEPT ![current] = "output"]
        /\ reader' = "reading"
     \/ /\ WriteFails
        /\ reader' = "open_failed"
        /\ UNCHANGED <<sent, copier, waiter>>
  /\ UNCHANGED <<current, toClose, ctxDone, sessions, shellVars, stdin, closing>>

\* item.close() has returned: Open fails and the loop reports it.
OpenFailed ==
  /\ reader = "open_failed" /\ closing[current] = "done"
  /\ reader' = "refusing"
  /\ UNCHANGED <<current, toClose, conn, ctxDone, sessions, shellVars, stdin, closing,
                 copier, waiter, sent>>

Refuse ==
  /\ reader = "refusing"
  /\ \/ WriteSucceeds /\ reader' = "reading" /\ UNCHANGED ctxDone
     \/ WriteFails /\ reader' = "leaving" /\ ctxDone' = TRUE
  /\ UNCHANGED <<current, toClose, sessions, shellVars, stdin, closing, copier, waiter, sent>>

ReadInput(id) ==
  /\ Reading /\ sessions[id] # NoShell
  /\ current' = sessions[id]
  /\ reader' = "writing"
  /\ UNCHANGED <<toClose, conn, ctxDone, sessions, shellVars, stdin, closing, copier, waiter,
                 sent>>

\* The write blocks while the pipe is full; it fails when the pipe is closed or
\* nobody can read it any more.  A message is no larger than a pipe: it blocks at
\* most once, here for the second of two parts.
WriteInput ==
  /\ reader \in {"writing", "writing_rest"}
  /\ \/ /\ stdin[current] = "space"
        /\ \/ reader' = "reading" /\ UNCHANGED stdin
           \/ /\ reader' \in {"reading"} \cup IF reader = "writing" THEN {"writing_rest"} ELSE {}
              /\ stdin' = [stdin EXCEPT ![current] = "full"]
     \/ /\ stdin[current] = "closed" \/ proc[current] = "dead"
        /\ reader' = "reading"
        /\ UNCHANGED stdin
  /\ UNCHANGED <<current, toClose, conn, ctxDone, sessions, shellVars, closing, copier, waiter,
                 sent>>

ReadClose(id) ==
  /\ Reading /\ sessions[id] # NoShell
  /\ current' = sessions[id]
  /\ reader' = "closing"
  /\ UNCHANGED <<toClose, conn, ctxDone, sessions, shellVars, stdin, closing, copier, waiter,
                 sent>>

CloseReturns ==
  /\ reader = "closing" /\ closing[current] = "done"
  /\ reader' = "reading"
  /\ UNCHANGED <<current, toClose, conn, ctxDone, sessions, shellVars, stdin, closing, copier,
                 waiter, sent>>

\* ReadJSON fails: the connection is lost, or the message is no valid JSON and
\* the goroutines may still write while the loop leaves.
ReadFails ==
  /\ reader = "reading"
  /\ reader' = "leaving"
  /\ ctxDone' = TRUE
  /\ UNCHANGED <<current, toClose, conn, sessions, shellVars, stdin, closing, copier, waiter,
                 sent>>

\* Mutant: sessions that somebody is closing already are left to him.
CloseAllOpen ==
  /\ reader = "leaving"
  /\ toClose' = {s \in Shells : Registered(s) /\ closing[s] = "no"}
  /\ reader' = "closing_all"
  /\ UNCHANGED <<current, conn, ctxDone, sessions, shellVars, stdin, closing, copier, waiter,
                 sent>>

\* CloseAll (deferred): a snapshot, then one close after the other; conn.Close.
CloseAll ==
  /\ reader = "leaving"
  /\ toClose' = {s \in Shells : Registered(s)}
  /\ reader' = "closing_all"
  /\ UNCHANGED <<current, conn, ctxDone, sessions, shellVars, stdin, closing, copier, waiter,
                 sent>>

CloseNext ==
  /\ reader = "closing_all"
  /\ \/ /\ \E s \in toClose : closing[s] = "done" /\ toClose' = toClose \ {s}
        /\ UNCHANGED <<reader, conn>>
     \/ /\ toClose = {}
        /\ reader' = "gone"
        /\ conn' = "lost"
        /\ UNCHANGED toClose
  /\ UNCHANGED <<current, ctxDone, sessions, shellVars, stdin, closing, copier, waiter, sent>>

\* What the loop does by itself: no server has to send an invalid message.
ReaderStep ==
  \/ SendOpened \/ OpenFailed \/ Refuse \/ WriteInput \/ CloseReturns
  \/ (conn = "lost" /\ ReadFails) \/ CloseAll \/ CloseNext

-----------------------------------------------------------------------------
(* The goroutines of a session. *)

MoveCopier(s, stream, at) == copier' = [copier EXCEPT ![s][stream] = at]
FillPipe(s, stream, with) == pipe' = [pipe EXCEPT ![s][stream] = with]

\* A chunk is all the pipe holds.
ReadOutput(s, stream) ==
  /\ copier[s][stream] = "reading" /\ pipe[s][stream] = "unread"
  /\ MoveCopier(s, stream, "sending")
  /\ FillPipe(s, stream, "empty")
  /\ UNCHANGED <<readerVars, conn, ctxDone, sessions, proc, child, killed, stdin, closing,
                 waiter, sent>>

\* A chunk that cannot be written is lost, and the session is closed.
SendOutput(s, stream) ==
  /\ copier[s][stream] = "sending"
  /\ \/ WriteSucceeds /\ MoveCopier(s, stream, "reading") /\ UNCHANGED pipe
     \/ WriteFails /\ MoveCopier(s, stream, "closing") /\ FillPipe(s, stream, "lost")
  /\ UNCHANGED <<readerVars, ctxDone, sessions, proc, child, killed, stdin, closing, waiter,
                 sent>>

OutputEnds(s, stream) ==
  /\ \/ copier[s][stream] = "reading" /\ ~OutputHeld(s) /\ pipe[s][stream] # "unread"
     \/ copier[s][stream] = "closing" /\ closing[s] = "done"
  /\ MoveCopier(s, stream, "done")
  /\ UNCHANGED <<readerVars, conn, ctxDone, sessions, shellVars, stdin, closing, waiter, sent>>

\* Mutant: the session is deleted before its process was waited for.
DeleteAfterOutput(s) ==
  /\ waiter[s] = "output"
  /\ \A stream \in Streams : copier[s][stream] = "done"
  /\ waiter' = [waiter EXCEPT ![s] = "deleting"]
  /\ UNCHANGED <<readerVars, conn, ctxDone, sessions, shellVars, stdin, closing, copier, sent>>

\* Mutant: cmd.Wait comes before output.Wait.
ProcessFirst(s) ==
  /\ waiter[s] = "output"
  /\ waiter' = [waiter EXCEPT ![s] = "process"]
  /\ UNCHANGED <<readerVars, conn, ctxDone, sessions, shellVars, stdin, closing, copier, sent>>

\* Mutant: one of the two streams is not waited for.
OneStreamDone(s) ==
  /\ waiter[s] = "output"
  /\ \E stream \in Streams : copier[s][stream] = "done"
  /\ waiter' = [waiter EXCEPT ![s] = "process"]
  /\ UNCHANGED <<readerVars, conn, ctxDone, sessions, shellVars, stdin, closing, copier, sent>>

\* output.Wait
OutputDone(s) ==
  /\ waiter[s] = "output"
  /\ \A stream \in Streams : copier[s][stream] = "done"
  /\ waiter' = [waiter EXCEPT ![s] = "process"]
  /\ UNCHANGED <<readerVars, conn, ctxDone, sessions, shellVars, stdin, closing, copier, sent>>

\* cmd.Wait reaps the process, dismisses the watcher and closes the pipes; what
\* they still hold is lost.
Reap(s) ==
  /\ waiter[s] = "process" /\ proc[s] = "dead"
  /\ waiter' = [waiter EXCEPT ![s] = "deleting"]
  /\ stdin' = [stdin EXCEPT ![s] = "closed"]
  /\ pipe' = [pipe EXCEPT ![s] =
                 [stream \in Streams |-> IF @[stream] = "unread" THEN "lost" ELSE @[stream]]]
  /\ UNCHANGED <<readerVars, conn, ctxDone, sessions, proc, child, killed, closing, copier, sent>>

\* Mutant: the session stays in the registry.
KeepRegistered(s) ==
  /\ waiter[s] = "deleting"
  /\ waiter' = [waiter EXCEPT ![s] = "sending"]
  /\ UNCHANGED <<readerVars, conn, ctxDone, sessions, shellVars, stdin, closing, copier, sent>>

Unregister(s) ==
  /\ waiter[s] = "deleting"
  /\ sessions' = [id \in SessionIds |-> IF sessions[id] = s THEN NoShell ELSE sessions[id]]
  /\ waiter' = [waiter EXCEPT ![s] = "sending"]
  /\ UNCHANGED <<readerVars, conn, ctxDone, shellVars, stdin, closing, copier, sent>>

SendClosed(s) ==
  /\ waiter[s] = "sending"
  /\ waiter' = [waiter EXCEPT ![s] = "done"]
  /\ \/ WriteSucceeds /\ sent' = [sent EXCEPT ![s] = "closed"]
     \/ WriteFails /\ UNCHANGED sent
  /\ UNCHANGED <<readerVars, ctxDone, sessions, shellVars, stdin, closing, copier>>

goroutineVars == <<readerVars, conn, ctxDone, sessions, pipe, stdin, closing, copier, waiter, sent>>

\* Mutant: the process is started under the connection's context.
KillOnLossOnly(s) ==
  /\ ctxDone
  /\ proc[s] # "unborn" /\ ~killed[s]
  /\ waiter[s] \in {"none", "output", "process"}
  /\ killed' = [killed EXCEPT ![s] = TRUE]
  /\ proc' = [proc EXCEPT ![s] = "dead"]
  /\ child' = [child EXCEPT ![s] = IF @ = "escaped" THEN @ ELSE "none"]
  /\ UNCHANGED goroutineVars

\* Mutant: only the wait goroutine minds the context.
KillByWaiter(s) ==
  /\ ctxDone \/ closing[s] = "done"
  /\ proc[s] # "unborn" /\ ~killed[s]
  /\ waiter[s] \in {"output", "process"}
  /\ killed' = [killed EXCEPT ![s] = TRUE]
  /\ proc' = [proc EXCEPT ![s] = "dead"]
  /\ child' = [child EXCEPT ![s] = IF @ = "escaped" THEN @ ELSE "none"]
  /\ UNCHANGED goroutineVars

\* Mutant: only the shell is killed, not its process group.
KillShellOnly(s) ==
  /\ ctxDone \/ closing[s] = "done"
  /\ proc[s] # "unborn" /\ ~killed[s]
  /\ waiter[s] \in {"none", "output", "process"}
  /\ killed' = [killed EXCEPT ![s] = TRUE]
  /\ proc' = [proc EXCEPT ![s] = "dead"]
  /\ UNCHANGED <<child, goroutineVars>>

\* os/exec: when the session's context is done before cmd.Wait has returned,
\* cmd.Cancel kills the process group, once.
Kill(s) ==
  /\ ctxDone \/ closing[s] = "done"
  /\ proc[s] # "unborn" /\ ~killed[s]
  /\ waiter[s] \in {"none", "output", "process"}
  /\ killed' = [killed EXCEPT ![s] = TRUE]
  /\ proc' = [proc EXCEPT ![s] = "dead"]
  /\ child' = [child EXCEPT ![s] = IF @ = "escaped" THEN @ ELSE "none"]
  /\ UNCHANGED goroutineVars

CopierStep(s, stream) ==
  ReadOutput(s, stream) \/ SendOutput(s, stream) \/ OutputEnds(s, stream)
WaiterStep(s) == OutputDone(s) \/ Reap(s) \/ Unregister(s) \/ SendClosed(s)

\* Somebody is inside session.close.
CloseCalled(s) ==
  \/ reader \in {"open_failed", "closing"} /\ current = s
  \/ reader = "closing_all" /\ s \in toClose
  \/ \E stream \in Streams : copier[s][stream] = "closing"

SessionStep(s) ==
  \/ CloseCalled(s) /\ Close(s)
  \/ \E stream \in Streams : CopierStep(s, stream)
  \/ WaiterStep(s)
  \/ Kill(s)

-----------------------------------------------------------------------------
(* The shell, the network and the controller. *)

goVars == <<readerVars, ctxDone, sessions, closing, copier, waiter, sent>>

ShellReads(s) ==
  /\ proc[s] = "running" /\ stdin[s] = "full"
  /\ stdin' = [stdin EXCEPT ![s] = "space"]
  /\ UNCHANGED <<goVars, conn, shellVars>>

\* The shell, or a child that shares its output, writes; bound: a pipe holds one
\* chunk.  Nothing counts after cmd.Wait has closed the pipe, or once some is lost.
WriteOutput(s, stream) ==
  /\ OutputHeld(s) /\ pipe[s][stream] = "empty"
  /\ waiter[s] \in {"none", "output", "process"}
  /\ FillPipe(s, stream, "unread")
  /\ UNCHANGED <<goVars, conn, proc, child, killed, stdin>>

ShellExits(s) ==
  /\ proc[s] = "running"
  /\ proc' = [proc EXCEPT ![s] = "dead"]
  /\ UNCHANGED <<goVars, conn, child, killed, pipe, stdin>>

ShellForks(s) ==
  /\ proc[s] = "running" /\ child[s] = "none"
  /\ \E kind \in ChildKinds : child' = [child EXCEPT ![s] = kind]
  /\ UNCHANGED <<goVars, conn, proc, killed, pipe, stdin>>

ChildExits(s) ==
  /\ child[s] # "none"
  /\ child' = [child EXCEPT ![s] = "none"]
  /\ UNCHANGED <<goVars, conn, proc, killed, pipe, stdin>>

ConnectionLost ==
  /\ conn # "lost"
  /\ conn' = "lost"
  /\ UNCHANGED <<goVars, shellVars, stdin>>

\* The connection's context is cancelled by its parent.
ParentCancel ==
  /\ ~ctxDone
  /\ ctxDone' = TRUE
  /\ UNCHANGED <<readerVars, conn, sessions, closing, copier, waiter, sent, shellVars, stdin>>

\* The goroutine of connectAndServe that closes conn when the parent is done.
Watcher == ctxDone /\ ConnectionLost

Environment ==
  \/ \E s \in Shells : ShellReads(s) \/ ShellExits(s) \/ ShellForks(s) \/ ChildExits(s)
  \/ \E s \in Shells, stream \in Streams : WriteOutput(s, stream)
  \/ ConnectionLost \/ ParentCancel

-----------------------------------------------------------------------------
Init ==
  /\ reader = "reading" /\ current = NoShell /\ toClose = {}
  /\ conn = "up" /\ ctxDone = FALSE
  /\ sessions = [id \in SessionIds |-> NoShell]
  /\ proc = [s \in Shells |-> "unborn"]
  /\ child = [s \in Shells |-> "none"]
  /\ pipe = [s \in Shells |-> [stream \in Streams |-> "empty"]]
  /\ stdin = [s \in Shells |-> "space"]
  /\ closing = [s \in Shells |-> "no"]
  /\ killed = [s \in Shells |-> FALSE]
  /\ copier = [s \in Shells |-> [stream \in Streams |-> "none"]]
  /\ waiter = [s \in Shells |-> "none"]
  /\ sent = [s \in Shells |-> "nothing"]

Next ==
  \/ \E id \in SessionIds : ReadOpen(id) \/ ReadInput(id) \/ ReadClose(id)
  \/ ReaderStep \/ ReadFails
  \/ \E s \in Shells : SessionStep(s)
  \/ Environment

Spec == Init /\ [][Next]_vars

\* Every goroutine is scheduled; nothing is assumed of shells and network.  Each
\* subscript is a variable that every step of its goroutine changes.
Fairness ==
  /\ WF_readerVars(ReaderStep) /\ WF_conn(Watcher)
  /\ \A s \in Shells :
       /\ WF_closing(CloseCalled(s) /\ Close(s))
       /\ WF_killed(Kill(s))
       /\ WF_waiter(WaiterStep(s))
       /\ \A stream \in Streams : WF_copier(CopierStep(s, stream))

FairSpec == Spec /\ Fairness

\* Shells that read their input sooner or later.
FairReadingSpec == FairSpec /\ \A s \in Shells : SF_stdin(ShellReads(s))

-----------------------------------------------------------------------------
(* Properties. *)

\* Types of the variables; only an announced session has goroutines, and whoever
\* was killed is dead.
TypeOK ==
  /\ reader \in {"reading", "opened", "open_failed", "refusing", "writing",
                 "writing_rest", "closing", "leaving", "closing_all", "gone"}
  /\ current \in Shells \cup {NoShell}
  /\ toClose \subseteq Shells
  /\ conn \in {"up", "mute", "lost"}
  /\ ctxDone \in BOOLEAN
  /\ sessions \in [SessionIds -> Shells \cup {NoShell}]
  /\ proc \in [Shells -> {"unborn", "running", "dead"}]
  /\ child \in [Shells -> Children \cup {"none"}]
  /\ pipe \in [Shells -> [Streams -> {"empty", "unread", "lost"}]]
  /\ stdin \in [Shells -> {"space", "full", "closed"}]
  /\ closing \in [Shells -> {"no", "started", "done"}]
  /\ killed \in [Shells -> BOOLEAN]
  /\ copier \in [Shells -> [Streams -> {"none", "reading", "sending", "closing", "done"}]]
  /\ waiter \in [Shells -> {"none", "output", "process", "deleting", "sending", "done"}]
  /\ sent \in [Shells -> {"nothing", "opened", "closed"}]
  /\ \A s \in Shells :
       /\ waiter[s] # "none" => sent[s] # "nothing"
       /\ killed[s] => proc[s] = "dead"

\* A running shell is always registered, so that the limit counts it and CloseAll
\* finds it, whatever the goroutines are doing (wait deletes after cmd.Wait).
RunningIsRegistered == \A s \in Shells : proc[s] = "running" => Registered(s)

Service == INSTANCE TerminalService
             WITH Ids <- SessionIds, Sessions <- Shells, Nobody <- NoShell, Limit <- MaxSessions,
                  serving <- reader \notin {"leaving", "closing_all", "gone"},
                  slot <- sessions, shell <- proc, told <- sent

\* Whatever the read loop, the goroutines of the sessions and the processes do to
\* each other, the server sees slots with one shell each, every one announced
\* before the next is opened and closed after it ended and left its slot
\* (TerminalService).
ServesTerminals == Service!Spec

\* The limit on sessions is one on processes: no interleaving of an open with the
\* end of another session lets more than maxSessions shells run.
ProcessLimit == Cardinality({s \in Shells : proc[s] = "running"}) <= MaxSessions

\* The server sees a session's output between its "opened" and its "closed":
\* the copyOutput goroutines and wait never race with each other.
OutputInOrder ==
  [][\A s \in Shells, stream \in Streams : SendOutput(s, stream) => sent[s] = "opened"]_vars

\* Once the read loop has left, every session it knew is cancelled: a shell that
\* still runs is about to be killed.
TeardownReachesAll ==
  reader = "gone" => ctxDone /\ \A s \in Shells : Registered(s) => closing[s] = "done"

\* A page that is closed frees its slot, as long as the connection serves and no
\* child that left the process group keeps the output.
CloseFreesSlot ==
  \A s \in Shells :
    closing[s] = "started" ~> ~Registered(s) \/ reader = "gone" \/ child[s] = "escaped"

\* Who closes a session, for whatever reason and with whatever else under way,
\* ends its shell and what is in the shell's process group, save when the shell
\* ended by itself and was reaped before the kill
\* (README: closing the page ends the shell and its process tree).
CloseEndsTree ==
  \A s \in Shells :
    closing[s] = "started" ~>
      /\ proc[s] = "dead"
      /\ \/ child[s] \in {"none", "escaped"}
         \/ waiter[s] \in {"deleting", "sending", "done"} /\ ~killed[s]

\* The loss of the connection ends every shell
\* (README: when the connection breaks the client ends the shell).
LossEndsShells ==
  conn = "lost" ~> \A s \in Shells : proc[s] # "running"

\* After the connection is given up, all goroutines of a session end, but for two
\* cases: a child that left the process group with the output keeps copyOutput and
\* wait waiting; a session that was never announced has no goroutines, and no one
\* waits for its shell, which is killed all the same.
GoroutinesEnd ==
  \A s \in Shells :
    reader = "gone" ~>
      \/ waiter[s] = "done" /\ \A stream \in Streams : copier[s][stream] = "done"
      \/ waiter[s] = "none" /\ proc[s] # "running"
      \/ child[s] = "escaped"

\* Once "closed" was sent, the server has been sent all the output there will ever
\* be of the session: nobody can write more, and no chunk is in a pipe, with a
\* copyOutput goroutine, or lost on the way.
ClosedIsComplete ==
  \A s \in Shells, stream \in Streams :
    sent[s] = "closed" =>
      ~OutputHeld(s) /\ pipe[s][stream] = "empty" /\ copier[s][stream] # "sending"
=============================================================================
