------------------------- MODULE TerminalServiceProofs -------------------------
(***************************************************************************)
(* The terminal manager implements TerminalService, for every set of       *)
(* session IDs and of shells and for every limit.                          *)
(***************************************************************************)
EXTENDS TerminalManagerProofs

USE DEF readerVars, shellVars, goroutineVars, goVars

-----------------------------------------------------------------------------
(* The inductive invariant that relates the registry, the goroutines and   *)
(* what was sent.                                                          *)

AllTold == \A s \in Shells : Registered(s) => sent[s] # "nothing"

\* The places the read loop can be in after the write of "opened" has failed.
AfterFailure == {"open_failed", "refusing", "leaving", "closing_all", "gone"}

\* A session is under one ID, and only after its shell was started.
OneIdEach ==
  /\ \A i, j \in SessionIds : sessions[i] = sessions[j] /\ sessions[i] # NoShell => i = j
  /\ \A s \in Shells : Registered(s) => proc[s] # "unborn"

\* The wait goroutine exists from "opened" on; it gives the slot back between
\* cmd.Wait and "closed".
WaiterHoldsSlot ==
  \A s \in Shells :
    /\ waiter[s] = "none" <=> sent[s] = "nothing"
    /\ waiter[s] \in {"output", "process", "deleting"} => Registered(s) /\ sent[s] = "opened"
    /\ waiter[s] \in {"sending", "done"} => ~Registered(s)
    /\ waiter[s] = "sending" => sent[s] = "opened"

\* A registered session that the server has not been told of is the one being
\* opened, or the connection cannot be written to and the read loop is giving up.
ToldInTurn ==
  /\ reader = "opened" =>
       current \in Shells /\ Registered(current) /\ sent[current] = "nothing"
  /\ \A s \in Shells : Registered(s) /\ sent[s] = "nothing" =>
       \/ reader = "opened" /\ s = current
       \/ conn # "up" /\ reader \in AfterFailure

SlotInv == OneIdEach /\ WaiterHoldsSlot /\ ToldInTurn

LEMMA NobodyUntold ==
  ASSUME SlotInv, reader # "opened", conn = "up" \/ reader \notin AfterFailure
  PROVE  AllTold
  BY DEF SlotInv, ToldInTurn, AllTold

\* A step that leaves the registry, the wait goroutines and what was sent alone.
LEMMA SlotUndisturbed ==
  ASSUME SlotInv, UNCHANGED <<sessions, waiter, sent>>,
         \A s \in Shells : proc[s] # "unborn" => proc'[s] # "unborn",
         conn' = conn \/ conn' # "up",
         \/ UNCHANGED <<reader, current>>
         \/ reader' # "opened" /\ AllTold
         \/ reader' \in AfterFailure /\ conn' # "up"
  PROVE  SlotInv'
<1>1. \A s \in Shells : Registered(s)' <=> Registered(s)
  BY DEF Registered
<1>2. OneIdEach' /\ WaiterHoldsSlot'
  BY <1>1 DEF SlotInv, OneIdEach, WaiterHoldsSlot
<1>3. ToldInTurn'
  BY <1>1 DEF SlotInv, ToldInTurn, AllTold, AfterFailure
<1> QED
  BY <1>2, <1>3 DEF SlotInv

\* An "open" registers a shell that was not running before under a free ID.
LEMMA SlotOpened ==
  ASSUME TypeOK, EndInv, SlotInv, NEW id \in SessionIds, NEW s \in Shells, Reading,
         sessions[id] = NoShell, proc[s] = "unborn",
         sessions' = [sessions EXCEPT ![id] = s], proc' = [proc EXCEPT ![s] = "running"],
         current' = s, reader' = "opened", UNCHANGED <<conn, waiter, sent>>
  PROVE  SlotInv'
<1> USE TerminalAssumption
<1>1. /\ \A i \in SessionIds : sessions[i] # s
      /\ sent[s] = "nothing" /\ waiter[s] = "none"
  <2>1. \A stream \in Streams : sent[s] = "nothing"
    BY DEF EndInv, StartedOnly
  <2>2. sent[s] = "nothing"
    BY <2>1 DEF Streams
  <2> QED
    BY <2>2 DEF SlotInv, OneIdEach, Registered, WaiterHoldsSlot
<1>2. sessions'[id] = s /\ \A i \in SessionIds : i # id => sessions'[i] = sessions[i]
  BY DEF TypeOK
<1>3. Registered(s)' /\ \A other \in Shells : other # s => (Registered(other)' <=> Registered(other))
  BY <1>2 DEF Registered
<1>4. OneIdEach'
  <2>1. \A i, j \in SessionIds : sessions'[i] = sessions'[j] /\ sessions'[i] # NoShell => i = j
    BY <1>1, <1>2 DEF SlotInv, OneIdEach
  <2>2. \A other \in Shells : Registered(other)' => proc'[other] # "unborn"
    BY <1>3 DEF SlotInv, OneIdEach, TypeOK
  <2> QED
    BY <2>1, <2>2 DEF OneIdEach
<1>5. WaiterHoldsSlot'
  BY <1>1, <1>3 DEF SlotInv, WaiterHoldsSlot
<1>6. ToldInTurn'
  <2>1. AllTold
    BY NobodyUntold DEF Reading, AfterFailure
  <2> QED
    BY <1>1, <1>3, <2>1 DEF ToldInTurn, AllTold
<1> QED
  BY <1>4, <1>5, <1>6 DEF SlotInv

\* The wait goroutine of an ended session gives back the one slot that it holds.
LEMMA SlotFreed ==
  ASSUME TypeOK, SlotInv, NEW s \in Shells, Unregister(s)
  PROVE  /\ SlotInv'
         /\ \E id \in SessionIds :
              sessions[id] = s /\ sessions' = [sessions EXCEPT ![id] = NoShell]
<1> USE TerminalAssumption
<1>1. /\ waiter[s] = "deleting" /\ waiter' = [waiter EXCEPT ![s] = "sending"]
      /\ sessions' = [id \in SessionIds |-> IF sessions[id] = s THEN NoShell ELSE sessions[id]]
      /\ UNCHANGED <<reader, current, conn, proc, sent>>
  BY DEF Unregister
<1>2. sent[s] = "opened"
  BY <1>1 DEF SlotInv, WaiterHoldsSlot
<1>3. PICK id \in SessionIds : sessions[id] = s
  BY <1>1 DEF SlotInv, WaiterHoldsSlot, Registered
<1>4. \A i \in SessionIds : sessions[i] = s <=> i = id
  BY <1>3 DEF SlotInv, OneIdEach
<1>5. sessions' = [sessions EXCEPT ![id] = NoShell]
  BY <1>1, <1>4 DEF TypeOK
<1>6. ~Registered(s)' /\ \A other \in Shells : other # s => (Registered(other)' <=> Registered(other))
  BY <1>1 DEF Registered
<1>7. OneIdEach'
  <2>1. \A i \in SessionIds : sessions'[i] = NoShell \/ sessions'[i] = sessions[i]
    BY <1>1
  <2>2. \A i, j \in SessionIds : sessions'[i] = sessions'[j] /\ sessions'[i] # NoShell => i = j
    BY <2>1 DEF SlotInv, OneIdEach
  <2> QED
    BY <1>1, <1>6, <2>2 DEF SlotInv, OneIdEach
<1>8. WaiterHoldsSlot'
  BY <1>1, <1>2, <1>6 DEF SlotInv, WaiterHoldsSlot, TypeOK
<1>9. ToldInTurn'
  BY <1>1, <1>2, <1>6 DEF SlotInv, ToldInTurn
<1> QED
  BY <1>3, <1>5, <1>7, <1>8, <1>9 DEF SlotInv

\* "opened" is sent, and the goroutines of the session start.
LEMMA SlotAnnounced ==
  ASSUME TypeOK, SlotInv, reader = "opened", reader' = "reading",
         sent' = [sent EXCEPT ![current] = "opened"],
         waiter' = [waiter EXCEPT ![current] = "output"],
         UNCHANGED <<sessions, proc, conn, current>>
  PROVE  SlotInv'
<1>1. current \in Shells /\ Registered(current) /\ sent[current] = "nothing"
  BY DEF SlotInv, ToldInTurn
<1>2. \A s \in Shells : Registered(s)' <=> Registered(s)
  BY DEF Registered
<1>3. OneIdEach'
  BY <1>2 DEF SlotInv, OneIdEach
<1>4. WaiterHoldsSlot'
  BY <1>1, <1>2 DEF SlotInv, WaiterHoldsSlot, TypeOK
<1>5. ToldInTurn'
  BY <1>1, <1>2 DEF SlotInv, ToldInTurn, TypeOK, AfterFailure
<1> QED
  BY <1>3, <1>4, <1>5 DEF SlotInv

\* A step of the wait goroutine that leaves its slot as it is.
LEMMA SlotWaiter ==
  ASSUME TypeOK, SlotInv, NEW s \in Shells, OutputDone(s) \/ Reap(s) \/ SendClosed(s)
  PROVE  SlotInv'
<1>1. /\ UNCHANGED <<sessions, proc, reader, current>>
      /\ conn' = conn \/ conn' # "up"
  BY DEF OutputDone, Reap, SendClosed, WriteSucceeds, WriteFails
<1>2. \A other \in Shells : Registered(other)' <=> Registered(other)
  BY <1>1 DEF Registered
<1>3. \A other \in Shells : other # s => waiter'[other] = waiter[other] /\ sent'[other] = sent[other]
  BY DEF OutputDone, Reap, SendClosed, TypeOK
<1>4. \/ /\ waiter[s] \in {"output", "process"} /\ waiter'[s] \in {"process", "deleting"}
         /\ sent'[s] = sent[s]
      \/ /\ waiter[s] = "sending" /\ waiter'[s] = "done"
         /\ sent'[s] \in {sent[s], "closed"}
  BY DEF OutputDone, Reap, SendClosed, TypeOK
<1>5. sent[s] = "opened" /\ sent'[s] # "nothing"
  BY <1>4 DEF SlotInv, WaiterHoldsSlot
<1>6. OneIdEach'
  BY <1>1, <1>2 DEF SlotInv, OneIdEach
<1>7. WaiterHoldsSlot'
  BY <1>2, <1>3, <1>4, <1>5 DEF SlotInv, WaiterHoldsSlot
<1>8. ToldInTurn'
  BY <1>1, <1>2, <1>3, <1>5 DEF SlotInv, ToldInTurn
<1> QED
  BY <1>6, <1>7, <1>8 DEF SlotInv

\* One step of Next keeps the invariant.
LEMMA SlotStep ==
  ASSUME TypeOK, EndInv, SlotInv, [Next]_vars
  PROVE  SlotInv'
<1>1. ASSUME NEW id \in SessionIds, ReadOpen(id)
      PROVE  SlotInv'
  <2>1. CASE reader' = "refusing" /\ UNCHANGED <<current, sessions, proc>>
    <3>1. AllTold
      BY <1>1, NobodyUntold DEF ReadOpen, Reading, AfterFailure
    <3> QED
      BY <1>1, <2>1, <3>1, SlotUndisturbed DEF ReadOpen
  <2>2. ASSUME NEW s \in Shells, sessions[id] = NoShell, proc[s] = "unborn",
               sessions' = [sessions EXCEPT ![id] = s],
               proc' = [proc EXCEPT ![s] = "running"],
               current' = s, reader' = "opened"
        PROVE  SlotInv'
    BY <1>1, <2>2, SlotOpened DEF ReadOpen
  <2> QED
    BY <1>1, <2>1, <2>2 DEF ReadOpen
<1>2. ASSUME NEW id \in SessionIds, ReadInput(id) \/ ReadClose(id)
      PROVE  SlotInv'
  <2>1. AllTold
    BY <1>2, NobodyUntold DEF ReadInput, ReadClose, Reading, AfterFailure
  <2> QED
    BY <1>2, <2>1, SlotUndisturbed DEF ReadInput, ReadClose
<1>3. CASE SendOpened
  <2>1. CASE reader' = "open_failed"
    BY <1>3, <2>1, SlotUndisturbed DEF SendOpened, WriteFails, AfterFailure
  <2>2. CASE reader' = "reading"
    BY <1>3, <2>2, SlotAnnounced DEF SendOpened, WriteSucceeds
  <2> QED
    BY <1>3, <2>1, <2>2 DEF SendOpened
<1>4. CASE OpenFailed \/ Refuse \/ CloseAll \/ CloseNext
  <2>1. /\ UNCHANGED <<sessions, waiter, sent, proc>>
        /\ conn' = conn \/ conn' # "up"
        /\ reader # "opened" /\ reader' # "opened"
        /\ reader' \in AfterFailure \/ conn = "up"
    BY <1>4 DEF OpenFailed, Refuse, CloseAll, CloseNext, WriteSucceeds, WriteFails, AfterFailure
  <2>2. CASE AllTold
    BY <2>1, <2>2, SlotUndisturbed
  <2>3. CASE ~AllTold
    BY <2>1, <2>3, SlotUndisturbed, NobodyUntold
  <2> QED
    BY <2>2, <2>3
<1>5. CASE WriteInput \/ CloseReturns \/ ReadFails
  <2>1. AllTold
    BY <1>5, NobodyUntold DEF WriteInput, CloseReturns, ReadFails, AfterFailure
  <2>2. /\ UNCHANGED <<sessions, waiter, sent, proc, conn>>
        /\ reader' # "opened"
    BY <1>5 DEF WriteInput, CloseReturns, ReadFails
  <2> QED
    BY <2>1, <2>2, SlotUndisturbed
<1>6. ASSUME NEW s \in Shells, Close(s)
      PROVE  SlotInv'
  BY <1>6, SlotUndisturbed DEF Close
<1>7. ASSUME NEW s \in Shells, NEW stream \in Streams,
             ReadOutput(s, stream) \/ SendOutput(s, stream) \/ OutputEnds(s, stream)
      PROVE  SlotInv'
  BY <1>7, SlotUndisturbed DEF ReadOutput, SendOutput, OutputEnds, WriteSucceeds, WriteFails
<1>8. ASSUME NEW s \in Shells, OutputDone(s) \/ Reap(s) \/ SendClosed(s)
      PROVE  SlotInv'
  BY <1>8, SlotWaiter
<1>9. ASSUME NEW s \in Shells, Unregister(s)
      PROVE  SlotInv'
  BY <1>9, SlotFreed
<1>10. ASSUME NEW s \in Shells, Kill(s) \/ ShellExits(s)
       PROVE  SlotInv'
  <2>1. UNCHANGED <<sessions, waiter, sent, reader, current, conn>>
    BY <1>10 DEF Kill, ShellExits
  <2>2. \A other \in Shells : proc[other] # "unborn" => proc'[other] # "unborn"
    BY <1>10 DEF Kill, ShellExits, TypeOK
  <2> QED
    BY <2>1, <2>2, SlotUndisturbed
<1>11. ASSUME NEW s \in Shells,
              \/ ShellReads(s) \/ ShellForks(s) \/ ChildExits(s)
              \/ \E stream \in Streams : WriteOutput(s, stream)
       PROVE  SlotInv'
  BY <1>11, SlotUndisturbed DEF ShellReads, WriteOutput, ShellForks, ChildExits
<1>12. CASE ConnectionLost \/ ParentCancel \/ UNCHANGED vars
  BY <1>12, SlotUndisturbed DEF ConnectionLost, ParentCancel, vars
<1> QED
  BY <1>1, <1>2, <1>3, <1>4, <1>5, <1>6, <1>7, <1>8, <1>9, <1>10, <1>11, <1>12
     DEF Next, ReaderStep, SessionStep, CopierStep, WaiterStep, Environment

\* The invariant holds in every reachable state.
LEMMA SlotCorrect == Spec => []SlotInv
<1>1. Init => SlotInv
  BY TerminalAssumption DEF Init, SlotInv, OneIdEach, WaiterHoldsSlot, ToldInTurn, Registered
<1>2. TypeOK /\ EndInv /\ SlotInv /\ [Next]_vars => SlotInv'
  BY SlotStep
<1> QED
  BY <1>1, <1>2, TypeCorrect, EndCorrect, PTL DEF Spec

-----------------------------------------------------------------------------
(* The steps. *)

serviceVars == Service!vars

\* A step that the server, the slots and the shells do not notice.
LEMMA Unnoticed ==
  ASSUME UNCHANGED <<sessions, proc, sent>>,
         reader' \in {"leaving", "closing_all", "gone"}
           <=> reader \in {"leaving", "closing_all", "gone"}
  PROVE  [Service!Next]_serviceVars
  BY DEF serviceVars, Service!vars

\* The read loop gives up.
LEMMA LoopLeaves ==
  ASSUME UNCHANGED <<sessions, proc, sent>>, reader' = "leaving"
  PROVE  [Service!Next]_serviceVars
  BY DEF Service!Next, Service!Leave

\* A shell that is over, by itself or killed.
LEMMA ShellIsOver ==
  ASSUME TypeOK, NEW s \in Shells, proc[s] # "unborn", proc' = [proc EXCEPT ![s] = "dead"],
         UNCHANGED <<sessions, sent, reader>>
  PROVE  [Service!Next]_serviceVars
<1>1. CASE proc[s] = "running"
  BY <1>1 DEF Service!Next, Service!ShellEnds
<1>2. CASE proc[s] = "dead"
  <2>1. proc' = proc
    BY <1>2 DEF TypeOK
  <2> QED
    BY <2>1 DEF serviceVars, Service!vars
<1> QED
  BY <1>1, <1>2 DEF TypeOK

LEMMA OpenSimulated ==
  ASSUME TypeOK, SlotInv, NEW id \in SessionIds, ReadOpen(id)
  PROVE  [Service!Next]_serviceVars
<1>1. CASE UNCHANGED <<current, sessions, proc>>
  BY <1>1, Unnoticed DEF ReadOpen, Reading
<1>2. ASSUME NEW s \in Shells, sessions[id] = NoShell, OpenCount < MaxSessions,
             proc[s] = "unborn", proc' = [proc EXCEPT ![s] = "running"],
             sessions' = [sessions EXCEPT ![id] = s], reader' = "opened"
      PROVE  [Service!Next]_serviceVars
  <2>1. AllTold /\ reader = "reading" /\ UNCHANGED sent
    BY NobodyUntold DEF ReadOpen, Reading, AfterFailure
  <2>2. Service!AllAnnounced
    BY <2>1 DEF AllTold, Registered, Service!AllAnnounced, Service!Holds
  <2>3. Service!Cardinality(Service!Taken) < MaxSessions
    BY <1>2 DEF OpenCount, Service!Taken, Cardinality, Service!Cardinality
  <2>4. Service!Open(id, s)
    BY <1>2, <2>1, <2>2, <2>3 DEF Service!Open
  <2> QED
    BY <2>4 DEF Service!Next
<1> QED
  BY <1>1, <1>2 DEF ReadOpen

LEMMA AnnounceSimulated ==
  ASSUME TypeOK, SlotInv, SendOpened
  PROVE  [Service!Next]_serviceVars
<1>1. CASE reader' = "open_failed"
  BY <1>1, Unnoticed DEF SendOpened
<1>2. CASE reader' = "reading"
  <2>1. current \in Shells /\ Registered(current) /\ sent[current] = "nothing"
    BY DEF SendOpened, SlotInv, ToldInTurn
  <2>2. /\ sent' = [sent EXCEPT ![current] = "opened"] /\ reader = "opened"
        /\ UNCHANGED <<sessions, proc>>
    BY <1>2 DEF SendOpened
  <2>3. Service!Announce(current)
    BY <1>2, <2>1, <2>2 DEF Service!Announce, Service!Holds, Registered
  <2> QED
    BY <2>1, <2>3 DEF Service!Next
<1> QED
  BY <1>1, <1>2 DEF SendOpened

LEMMA FreeSimulated ==
  ASSUME TypeOK, IInv, SlotInv, NEW s \in Shells, Unregister(s)
  PROVE  [Service!Next]_serviceVars
<1>1. PICK id \in SessionIds :
        sessions[id] = s /\ sessions' = [sessions EXCEPT ![id] = NoShell]
  BY SlotFreed
<1>2. proc[s] = "dead" /\ sent[s] = "opened" /\ UNCHANGED <<reader, proc, sent>>
  BY DEF Unregister, IInv, ReapedIsDead, SlotInv, WaiterHoldsSlot
<1>3. Service!Free(id)
  BY <1>1, <1>2 DEF Service!Free
<1> QED
  BY <1>3 DEF Service!Next

LEMMA ClosedSimulated ==
  ASSUME TypeOK, SlotInv, NEW s \in Shells, SendClosed(s)
  PROVE  [Service!Next]_serviceVars
<1>1. sent[s] = "opened" /\ ~Registered(s)
  BY DEF SendClosed, SlotInv, WaiterHoldsSlot
<1>2. UNCHANGED <<reader, sessions, proc>>
  BY DEF SendClosed
<1>3. CASE UNCHANGED sent
  BY <1>2, <1>3, Unnoticed
<1>4. CASE sent' = [sent EXCEPT ![s] = "closed"]
  <2>1. Service!ReportClosed(s)
    BY <1>1, <1>2, <1>4 DEF Service!ReportClosed, Service!Holds, Registered
  <2> QED
    BY <2>1 DEF Service!Next
<1> QED
  BY <1>3, <1>4 DEF SendClosed

\* Every step of the manager and of its environment is one of the service, or is
\* not seen from outside.
LEMMA StepSimulated ==
  ASSUME TypeOK, IInv, EndInv, SlotInv, [Next]_vars
  PROVE  [Service!Next]_serviceVars
<1>1. ASSUME NEW id \in SessionIds, ReadInput(id) \/ ReadClose(id)
      PROVE  [Service!Next]_serviceVars
  BY <1>1, Unnoticed DEF ReadInput, ReadClose, Reading
<1>2. CASE OpenFailed \/ WriteInput \/ CloseReturns \/ CloseAll \/ CloseNext
  BY <1>2, Unnoticed DEF OpenFailed, WriteInput, CloseReturns, CloseAll, CloseNext
<1>3. CASE Refuse \/ ReadFails
  <2>1. CASE reader' = "leaving"
    BY <1>3, <2>1, LoopLeaves DEF Refuse, ReadFails
  <2>2. CASE reader' # "leaving"
    BY <1>3, <2>2, Unnoticed DEF Refuse, ReadFails
  <2> QED
    BY <2>1, <2>2
<1>4. ASSUME NEW s \in Shells, Close(s) \/ OutputDone(s) \/ Reap(s)
      PROVE  [Service!Next]_serviceVars
  BY <1>4, Unnoticed DEF Close, OutputDone, Reap
<1>5. ASSUME NEW s \in Shells, NEW stream \in Streams,
             ReadOutput(s, stream) \/ SendOutput(s, stream) \/ OutputEnds(s, stream)
      PROVE  [Service!Next]_serviceVars
  BY <1>5, Unnoticed DEF ReadOutput, SendOutput, OutputEnds
<1>6. ASSUME NEW s \in Shells, Kill(s) \/ ShellExits(s)
      PROVE  [Service!Next]_serviceVars
  <2>1. /\ proc[s] # "unborn" /\ proc' = [proc EXCEPT ![s] = "dead"]
        /\ UNCHANGED <<sessions, sent, reader>>
    BY <1>6 DEF Kill, ShellExits
  <2> QED
    BY <2>1, ShellIsOver
<1>7. ASSUME NEW s \in Shells,
             \/ ShellReads(s) \/ ShellForks(s) \/ ChildExits(s)
             \/ \E stream \in Streams : WriteOutput(s, stream)
      PROVE  [Service!Next]_serviceVars
  BY <1>7, Unnoticed DEF ShellReads, WriteOutput, ShellForks, ChildExits
<1>8. CASE ConnectionLost \/ ParentCancel \/ UNCHANGED vars
  BY <1>8, Unnoticed DEF ConnectionLost, ParentCancel, vars
<1> QED
  BY <1>1, <1>2, <1>3, <1>4, <1>5, <1>6, <1>7, <1>8, OpenSimulated, AnnounceSimulated,
     FreeSimulated, ClosedSimulated
     DEF Next, ReaderStep, SessionStep, CopierStep, WaiterStep, Environment

\* The manager implements the service: whatever its goroutines, the processes, the
\* network and the messages do to each other, every ID names one shell, a shell runs
\* only in a slot, and the server is told of every session in order.
THEOREM ImplementsService == Spec => ServesTerminals
<1>1. Init => Service!Init
  BY DEF Init, Service!Init
<1>2. TypeOK /\ IInv /\ EndInv /\ SlotInv /\ [Next]_vars => [Service!Next]_serviceVars
  BY StepSimulated
<1> QED
  BY <1>1, <1>2, TypeCorrect, InvariantCorrect, EndCorrect, SlotCorrect, PTL
     DEF Spec, ServesTerminals, Service!Spec, serviceVars

-----------------------------------------------------------------------------
(* Who gives a slot back, and who is inside session.close.                 *)

\* A session under an ID has a wait goroutine on its way to the delete, or is the
\* one being opened, or could not be announced on a connection that is given up.
SlotOwned ==
  \A s \in Shells : Registered(s) =>
    \/ waiter[s] \in {"output", "process", "deleting"}
    \/ reader = "opened" /\ s = current
    \/ conn # "up" /\ reader \in AfterFailure

\* While the connection can be written to, no slot is forgotten: the goroutine that
\* will free it exists.  Only a session whose "opened" failed has none, and keeps its
\* slot until the read loop is gone.
THEOREM SlotsAreOwned == Spec => []SlotOwned
<1>1. TypeOK /\ SlotInv => SlotOwned
  <2>1. ASSUME TypeOK, SlotInv, NEW s \in Shells, Registered(s)
        PROVE  \/ waiter[s] \in {"output", "process", "deleting"}
               \/ reader = "opened" /\ s = current
               \/ conn # "up" /\ reader \in AfterFailure
    BY <2>1 DEF TypeOK, SlotInv, WaiterHoldsSlot, ToldInTurn
  <2> QED
    BY <2>1 DEF SlotOwned
<1> QED
  BY <1>1, TypeCorrect, SlotCorrect, PTL

CloserPresent == \A s \in Shells : closing[s] = "started" => CloseCalled(s)

LEMMA CloserStep ==
  ASSUME TypeOK, IInv, SlotInv, CloserPresent, [Next]_vars
  PROVE  CloserPresent'
<1> USE DEF CloserPresent, CloseCalled
<1>1. ASSUME NEW s \in Shells, CloseCalled(s), Close(s)
      PROVE  CloserPresent'
  BY <1>1 DEF Close, BeginClose, FinishClose, TypeOK
<1>2. CASE UNCHANGED <<readerVars, closing, copier>>
  BY <1>2
<1>3. CASE ReaderStep \/ ReadFails
  <2>1. CASE SendOpened
    <3>1. \A stream \in Streams : copier[current][stream] # "closing"
      BY <2>1 DEF SendOpened, IInv, CopiersHoldWaiter, SlotInv, ToldInTurn, WaiterHoldsSlot
    <3> QED
      BY <2>1, <3>1 DEF SendOpened, TypeOK
  <2>2. CASE OpenFailed \/ CloseReturns
    BY <2>2 DEF OpenFailed, CloseReturns
  <2>3. CASE Refuse \/ WriteInput \/ ReadFails \/ CloseAll
    BY <2>3 DEF Refuse, WriteInput, ReadFails, CloseAll
  <2>4. CASE CloseNext
    BY <2>4 DEF CloseNext
  <2> QED
    BY <1>3, <2>1, <2>2, <2>3, <2>4 DEF ReaderStep
<1>4. ASSUME NEW s \in Shells, NEW stream \in Streams, CopierStep(s, stream)
      PROVE  CloserPresent'
  BY <1>4 DEF CopierStep, ReadOutput, SendOutput, OutputEnds, MoveCopier, TypeOK
<1>5. ASSUME NEW id \in SessionIds, ReadOpen(id) \/ ReadInput(id) \/ ReadClose(id)
      PROVE  CloserPresent'
  BY <1>5 DEF ReadOpen, ReadInput, ReadClose, Reading
<1>6. ASSUME NEW s \in Shells, WaiterStep(s) \/ Kill(s)
      PROVE  CloserPresent'
  BY <1>2, <1>6 DEF WaiterStep, Kill, OutputDone, Reap, Unregister, SendClosed
<1>7. CASE Environment
  BY <1>2, <1>7 DEF Environment, ShellReads, WriteOutput, ShellExits, ShellForks, ChildExits,
                    ConnectionLost, ParentCancel
<1>8. CASE UNCHANGED vars
  BY <1>2, <1>8 DEF vars
<1> QED
  BY <1>1, <1>3, <1>4, <1>5, <1>6, <1>7, <1>8 DEF Next, SessionStep

\* closeOnce is never held by nobody: as long as the input is closed and the context
\* is not yet cancelled, one of the read loop and the copiers is inside session.close,
\* so whoever calls it meanwhile waits for a goroutine that moves.
THEOREM CloserIsPresent == Spec => []CloserPresent
<1>1. Init => CloserPresent
  BY DEF Init, CloserPresent
<1>2. TypeOK /\ IInv /\ SlotInv /\ CloserPresent /\ [Next]_vars => CloserPresent'
  BY CloserStep
<1> QED
  BY <1>1, <1>2, TypeCorrect, InvariantCorrect, SlotCorrect, PTL DEF Spec
=============================================================================
