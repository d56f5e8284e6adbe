------------------------- MODULE TerminalManagerProofs -------------------------
(***************************************************************************)
(* Theorems about the terminal manager, for every set of session IDs, of   *)
(* shells and of children they may leave.                                  *)
(***************************************************************************)
EXTENDS TerminalManager, FiniteSetTheorems, TLAPS

USE DEF readerVars, shellVars, goroutineVars, goVars

-----------------------------------------------------------------------------
(* Type correctness, which is inductive as it stands. *)

\* A copyOutput goroutine that moves on stays among its places.
LEMMA MoveCopierTyped ==
  ASSUME TypeOK, NEW s \in Shells, NEW stream \in Streams,
         NEW place \in {"none", "reading", "sending", "closing", "done"},
         MoveCopier(s, stream, place)
  PROVE  copier' \in [Shells -> [Streams -> {"none", "reading", "sending", "closing", "done"}]]
<1> DEFINE moved == [copier[s] EXCEPT ![stream] = place]
<1>1. moved \in [Streams -> {"none", "reading", "sending", "closing", "done"}]
  BY DEF TypeOK
<1>2. copier' = [copier EXCEPT ![s] = moved]
  BY DEF MoveCopier
<1> QED
  BY <1>1, <1>2 DEF TypeOK

\* So does a pipe.
LEMMA FillPipeTyped ==
  ASSUME TypeOK, NEW s \in Shells, NEW stream \in Streams,
         NEW content \in {"empty", "unread", "lost"},
         FillPipe(s, stream, content)
  PROVE  pipe' \in [Shells -> [Streams -> {"empty", "unread", "lost"}]]
<1> DEFINE filled == [pipe[s] EXCEPT ![stream] = content]
<1>1. filled \in [Streams -> {"empty", "unread", "lost"}]
  BY DEF TypeOK
<1>2. pipe' = [pipe EXCEPT ![s] = filled]
  BY DEF FillPipe
<1> QED
  BY <1>1, <1>2 DEF TypeOK

\* One step of Next keeps the types.
LEMMA TypeStep ==
  ASSUME TypeOK, [Next]_vars
  PROVE  TypeOK'
<1> USE TerminalAssumption DEF TypeOK
<1>1. ASSUME NEW id \in SessionIds, ReadOpen(id)
      PROVE  TypeOK'
  <2>1. /\ proc' \in [Shells -> {"unborn", "running", "dead"}]
        /\ sessions' \in [SessionIds -> Shells \cup {NoShell}]
        /\ current' \in Shells \cup {NoShell}
        /\ reader' \in {"opened", "refusing"}
        /\ \A s \in Shells : proc[s] = "dead" => proc'[s] = "dead"
    <3>1. CASE UNCHANGED <<current, sessions, proc>>
      BY <1>1, <3>1 DEF ReadOpen
    <3>2. ASSUME NEW s \in Shells,
                 proc[s] = "unborn",
                 proc' = [proc EXCEPT ![s] = "running"],
                 sessions' = [sessions EXCEPT ![id] = s],
                 current' = s,
                 reader' = "opened"
          PROVE  /\ proc' \in [Shells -> {"unborn", "running", "dead"}]
                 /\ sessions' \in [SessionIds -> Shells \cup {NoShell}]
                 /\ \A other \in Shells : proc[other] = "dead" => proc'[other] = "dead"
      BY <3>2
    <3> QED
      BY <1>1, <3>1, <3>2 DEF ReadOpen
  <2> QED
    BY <1>1, <2>1 DEF ReadOpen
<1>2. ASSUME NEW id \in SessionIds, ReadInput(id) \/ ReadClose(id)
      PROVE  TypeOK'
  BY <1>2 DEF ReadInput, ReadClose, Reading
<1>3. CASE SendOpened
  <2>3. reader' \in {"reading", "open_failed"} /\ conn' \in {"up", "mute", "lost"}
    BY <1>3 DEF SendOpened, WriteSucceeds, WriteFails
  <2>1. /\ sent' \in [Shells -> {"nothing", "opened", "closed"}]
        /\ waiter' \in [Shells -> {"none", "output", "process", "deleting", "sending", "done"}]
        /\ \A s \in Shells : waiter'[s] # "none" => sent'[s] # "nothing"
    <3>1. CASE UNCHANGED <<sent, waiter>>
      BY <3>1
    <3>2. CASE /\ sent' = [sent EXCEPT ![current] = "opened"]
               /\ waiter' = [waiter EXCEPT ![current] = "output"]
      <4>1. sent' \in [Shells -> {"nothing", "opened", "closed"}]
        BY <3>2
      <4>2. waiter' \in [Shells -> {"none", "output", "process", "deleting", "sending", "done"}]
        BY <3>2
      <4> QED
        BY <3>2, <4>1, <4>2
    <3> QED
      BY <1>3, <3>1, <3>2 DEF SendOpened
  <2>2. copier' \in [Shells -> [Streams -> {"none", "reading", "sending", "closing", "done"}]]
    <3>1. [stream \in Streams |-> "reading"]
            \in [Streams -> {"none", "reading", "sending", "closing", "done"}]
      OBVIOUS
    <3>2. CASE copier' = copier
      BY <3>2
    <3>3. CASE copier' = [copier EXCEPT ![current] = [stream \in Streams |-> "reading"]]
      BY <3>1, <3>3
    <3> QED
      BY <1>3, <3>2, <3>3 DEF SendOpened
  <2> QED
    BY <1>3, <2>1, <2>2, <2>3 DEF SendOpened
<1>4. CASE OpenFailed
  BY <1>4 DEF OpenFailed
<1>5. CASE Refuse
  BY <1>5 DEF Refuse, WriteSucceeds, WriteFails
<1>6. CASE WriteInput
  BY <1>6 DEF WriteInput
<1>7. CASE CloseReturns
  BY <1>7 DEF CloseReturns
<1>8. CASE ReadFails
  BY <1>8 DEF ReadFails
<1>9. CASE CloseAll
  BY <1>9 DEF CloseAll
<1>10. CASE CloseNext
  BY <1>10 DEF CloseNext
<1>11. ASSUME NEW s \in Shells, Close(s)
       PROVE  TypeOK'
  BY <1>11 DEF Close, BeginClose, FinishClose
<1>12. ASSUME NEW s \in Shells, NEW stream \in Streams, ReadOutput(s, stream)
       PROVE  TypeOK'
  <2>1. copier' \in [Shells -> [Streams -> {"none", "reading", "sending", "closing", "done"}]]
    BY <1>12, MoveCopierTyped DEF ReadOutput
  <2>2. pipe' \in [Shells -> [Streams -> {"empty", "unread", "lost"}]]
    BY <1>12, FillPipeTyped DEF ReadOutput
  <2> QED
    BY <1>12, <2>1, <2>2 DEF ReadOutput
<1>13. ASSUME NEW s \in Shells, NEW stream \in Streams, SendOutput(s, stream)
       PROVE  TypeOK'
  <2>1. copier' \in [Shells -> [Streams -> {"none", "reading", "sending", "closing", "done"}]]
    BY <1>13, MoveCopierTyped DEF SendOutput
  <2>2. conn' \in {"up", "mute", "lost"}
    BY <1>13 DEF SendOutput, WriteSucceeds, WriteFails
  <2>3. pipe' \in [Shells -> [Streams -> {"empty", "unread", "lost"}]]
    BY <1>13, FillPipeTyped DEF SendOutput
  <2> QED
    BY <1>13, <2>1, <2>2, <2>3 DEF SendOutput
<1>14. ASSUME NEW s \in Shells, NEW stream \in Streams, OutputEnds(s, stream)
       PROVE  TypeOK'
  BY <1>14 DEF OutputEnds, MoveCopier
<1>15. ASSUME NEW s \in Shells, OutputDone(s)
       PROVE  TypeOK'
  BY <1>15 DEF OutputDone
<1>16. ASSUME NEW s \in Shells, Reap(s)
       PROVE  TypeOK'
  <2> DEFINE left == [stream \in Streams |->
                        IF pipe[s][stream] = "unread" THEN "lost" ELSE pipe[s][stream]]
  <2>1. left \in [Streams -> {"empty", "unread", "lost"}]
    OBVIOUS
  <2>2. pipe' = [pipe EXCEPT ![s] = left]
    BY <1>16 DEF Reap
  <2>3. pipe' \in [Shells -> [Streams -> {"empty", "unread", "lost"}]]
    BY <2>1, <2>2
  <2> QED
    BY <1>16, <2>3 DEF Reap
<1>17. ASSUME NEW s \in Shells, Unregister(s)
       PROVE  TypeOK'
  BY <1>17 DEF Unregister
<1>18. ASSUME NEW s \in Shells, SendClosed(s)
       PROVE  TypeOK'
  <2>1. conn' \in {"up", "mute", "lost"}
    BY <1>18 DEF SendClosed, WriteSucceeds, WriteFails
  <2>2. waiter' \in [Shells -> {"none", "output", "process", "deleting", "sending", "done"}]
    BY <1>18 DEF SendClosed
  <2>3. /\ sent' \in [Shells -> {"nothing", "opened", "closed"}]
        /\ \A other \in Shells : waiter'[other] # "none" => sent'[other] # "nothing"
    BY <1>18 DEF SendClosed
  <2>4. UNCHANGED <<reader, current, toClose, ctxDone, sessions, proc, child, killed, pipe,
                    stdin, closing, copier>>
    BY <1>18 DEF SendClosed
  <2> QED
    BY <2>1, <2>2, <2>3, <2>4
<1>19. ASSUME NEW s \in Shells, Kill(s)
       PROVE  TypeOK'
  <2>1. /\ killed' \in [Shells -> BOOLEAN]
        /\ proc' \in [Shells -> {"unborn", "running", "dead"}]
        /\ killed'[s] = TRUE /\ proc'[s] = "dead"
        /\ \A other \in Shells \ {s} :
             killed'[other] = killed[other] /\ proc'[other] = proc[other]
    BY <1>19 DEF Kill
  <2>2. child' \in [Shells -> Children \cup {"none"}]
    BY <1>19 DEF Kill
  <2>3. UNCHANGED <<reader, current, toClose, conn, ctxDone, sessions, pipe, stdin, closing,
                    copier, waiter, sent>>
    BY <1>19 DEF Kill
  <2> QED
    BY <2>1, <2>2, <2>3
<1>20. ASSUME NEW s \in Shells, ShellReads(s)
       PROVE  TypeOK'
  BY <1>20 DEF ShellReads
<1>21. ASSUME NEW s \in Shells, ShellForks(s) \/ ChildExits(s)
       PROVE  TypeOK'
  <2>1. child' \in [Shells -> Children \cup {"none"}]
    BY <1>21 DEF ShellForks, ChildExits
  <2> QED
    BY <1>21, <2>1 DEF ShellForks, ChildExits
<1>22. ASSUME NEW s \in Shells, ShellExits(s)
       PROVE  TypeOK'
  <2>1. proc' \in [Shells -> {"unborn", "running", "dead"}]
    BY <1>22 DEF ShellExits
  <2>2. \A other \in Shells : proc[other] = "dead" => proc'[other] = "dead"
    BY <1>22 DEF ShellExits
  <2> QED
    BY <1>22, <2>1, <2>2 DEF ShellExits
<1>23. CASE ConnectionLost \/ ParentCancel
  <2>1. /\ conn' \in {"up", "mute", "lost"} /\ ctxDone' \in BOOLEAN
        /\ UNCHANGED <<reader, current, toClose, sessions, proc, child, killed, pipe>>
        /\ UNCHANGED <<stdin, closing, copier, waiter, sent>>
    BY <1>23 DEF ConnectionLost, ParentCancel
  <2> QED
    BY <2>1
<1>24. CASE UNCHANGED vars
  <2>1. /\ UNCHANGED <<reader, current, toClose, conn, ctxDone, sessions, proc, child, killed>>
        /\ UNCHANGED <<pipe, stdin, closing, copier, waiter, sent>>
    BY <1>24 DEF vars
  <2> QED
    BY <2>1
<1>25. ASSUME NEW s \in Shells, NEW stream \in Streams, WriteOutput(s, stream)
       PROVE  TypeOK'
  <2>1. pipe' \in [Shells -> [Streams -> {"empty", "unread", "lost"}]]
    BY <1>25, FillPipeTyped DEF WriteOutput
  <2> QED
    BY <1>25, <2>1 DEF WriteOutput
<1> QED
  BY <1>1, <1>2, <1>3, <1>4, <1>5, <1>6, <1>7, <1>8, <1>9, <1>10, <1>11, <1>12, <1>13,
     <1>14, <1>15, <1>16, <1>17, <1>18, <1>19, <1>20, <1>21, <1>22, <1>23, <1>24, <1>25
     DEF Next, ReaderStep, SessionStep, CopierStep, WaiterStep, Environment

\* The variables keep their types; goroutines run for announced sessions only.
THEOREM TypeCorrect == Spec => []TypeOK
<1>1. Init => TypeOK
  <2> SUFFICES ASSUME Init
               PROVE  TypeOK
    OBVIOUS
  <2>1. copier \in [Shells -> [Streams -> {"none", "reading", "sending", "closing", "done"}]]
    BY DEF Init
  <2>2. /\ sessions \in [SessionIds -> Shells \cup {NoShell}]
        /\ child \in [Shells -> Children \cup {"none"}]
    BY DEF Init
  <2>3. /\ proc \in [Shells -> {"unborn", "running", "dead"}]
        /\ pipe \in [Shells -> [Streams -> {"empty", "unread", "lost"}]]
        /\ stdin \in [Shells -> {"space", "full", "closed"}]
        /\ closing \in [Shells -> {"no", "started", "done"}]
        /\ killed \in [Shells -> BOOLEAN]
        /\ waiter \in [Shells -> {"none", "output", "process", "deleting", "sending", "done"}]
        /\ sent \in [Shells -> {"nothing", "opened", "closed"}]
    BY DEF Init
  <2> QED
    BY <2>1, <2>2, <2>3 DEF Init, TypeOK
<1>2. TypeOK /\ [Next]_vars => TypeOK'
  BY TypeStep
<1> QED
  BY <1>1, <1>2, PTL DEF Spec

-----------------------------------------------------------------------------
(* The inductive invariant. *)

\* The wait goroutine comes past cmd.Wait only with the process dead.
ReapedIsDead ==
  \A s \in Shells : waiter[s] \in {"deleting", "sending", "done"} => proc[s] = "dead"

\* While a copyOutput goroutine works, the wait goroutine is in output.Wait.
CopiersHoldWaiter ==
  \A s \in Shells, stream \in Streams :
    copier[s][stream] \in {"reading", "sending", "closing"} =>
      sent[s] = "opened" /\ waiter[s] = "output"

\* CloseAll, step by step: the context first, then every session of the snapshot,
\* and no session is registered after the snapshot.
TeardownUnderWay ==
  /\ reader \in {"leaving", "closing_all", "gone"} => ctxDone
  /\ reader = "gone" => toClose = {}
  /\ reader \in {"closing_all", "gone"} =>
       \A s \in Shells : Registered(s) => s \in toClose \/ closing[s] = "done"

IInv == ReapedIsDead /\ CopiersHoldWaiter /\ TeardownUnderWay /\ RunningIsRegistered

\* One step of Next keeps the invariant.
LEMMA InvariantStep ==
  ASSUME TypeOK, IInv, [Next]_vars
  PROVE  IInv'
<1> USE TerminalAssumption DEF TypeOK, IInv, ReapedIsDead, CopiersHoldWaiter, TeardownUnderWay,
        RunningIsRegistered, Registered
<1>1. ASSUME NEW id \in SessionIds, ReadOpen(id)
      PROVE  IInv'
  BY <1>1 DEF ReadOpen, Reading
<1>2. ASSUME NEW id \in SessionIds, ReadInput(id) \/ ReadClose(id)
      PROVE  IInv'
  BY <1>2 DEF ReadInput, ReadClose, Reading
<1>3. CASE SendOpened
  <2>1. /\ ReapedIsDead'
        /\ TeardownUnderWay'
        /\ RunningIsRegistered'
    BY <1>3 DEF SendOpened
  <2>2. CopiersHoldWaiter'
    <3>1. CASE UNCHANGED <<sent, copier, waiter>>
      BY <3>1
    <3>2. CASE /\ sent' = [sent EXCEPT ![current] = "opened"]
               /\ copier' = [copier EXCEPT ![current] = [stream \in Streams |-> "reading"]]
               /\ waiter' = [waiter EXCEPT ![current] = "output"]
      <4>1. \A s \in Shells : s # current =>
               copier'[s] = copier[s] /\ sent'[s] = sent[s] /\ waiter'[s] = waiter[s]
        BY <3>2
      <4>2. current \in Shells => sent'[current] = "opened" /\ waiter'[current] = "output"
        BY <3>2
      <4> QED
        BY <4>1, <4>2
    <3> QED
      BY <1>3, <3>1, <3>2 DEF SendOpened
  <2> QED
    BY <2>1, <2>2
<1>4. CASE OpenFailed
  BY <1>4 DEF OpenFailed
<1>5. CASE Refuse
  BY <1>5 DEF Refuse, WriteSucceeds, WriteFails
<1>6. CASE WriteInput
  BY <1>6 DEF WriteInput
<1>7. CASE CloseReturns
  BY <1>7 DEF CloseReturns
<1>8. CASE ReadFails
  BY <1>8 DEF ReadFails
<1>9. CASE CloseAll
  BY <1>9 DEF CloseAll
<1>10. CASE CloseNext
  BY <1>10 DEF CloseNext
<1>11. ASSUME NEW s \in Shells, Close(s)
       PROVE  IInv'
  <2>1. \A other \in Shells : closing[other] = "done" => closing'[other] = "done"
    BY <1>11 DEF Close, BeginClose, FinishClose
  <2> QED
    BY <1>11, <2>1 DEF Close
<1>12. ASSUME NEW s \in Shells, NEW stream \in Streams, ReadOutput(s, stream)
       PROVE  IInv'
  BY <1>12 DEF ReadOutput, MoveCopier
<1>13. ASSUME NEW s \in Shells, NEW stream \in Streams, SendOutput(s, stream)
       PROVE  IInv'
  <2>1. /\ copier[s][stream] = "sending"
        /\ \A other \in Shells : other # s => copier'[other] = copier[other]
    BY <1>13 DEF SendOutput, MoveCopier
  <2>2. UNCHANGED <<sent, waiter>>
    BY <1>13 DEF SendOutput
  <2>3. CopiersHoldWaiter'
    <3> SUFFICES ASSUME NEW other \in Shells, NEW any \in Streams,
                        copier'[other][any] \in {"reading", "sending", "closing"}
                 PROVE  sent[other] = "opened" /\ waiter[other] = "output"
      BY <2>2
    <3>1. CASE other = s
      BY <2>1, <3>1
    <3>2. CASE other # s
      BY <2>1, <3>2
    <3> QED
      BY <3>1, <3>2
  <2> QED
    BY <1>13, <2>3 DEF SendOutput
<1>14. ASSUME NEW s \in Shells, NEW stream \in Streams, OutputEnds(s, stream)
       PROVE  IInv'
  BY <1>14 DEF OutputEnds, MoveCopier
<1>15. ASSUME NEW s \in Shells, OutputDone(s)
       PROVE  IInv'
  BY <1>15 DEF OutputDone
<1>16. ASSUME NEW s \in Shells, Reap(s)
       PROVE  IInv'
  BY <1>16 DEF Reap
<1>17. ASSUME NEW s \in Shells, Unregister(s)
       PROVE  IInv'
  BY <1>17 DEF Unregister
<1>18. ASSUME NEW s \in Shells, SendClosed(s)
       PROVE  IInv'
  BY <1>18 DEF SendClosed, WriteSucceeds, WriteFails
<1>19. ASSUME NEW s \in Shells, Kill(s)
       PROVE  IInv'
  BY <1>19 DEF Kill
<1>20. ASSUME NEW s \in Shells, ShellReads(s) \/ ShellExits(s)
       PROVE  IInv'
  BY <1>20 DEF ShellReads, ShellExits
<1>21. ASSUME NEW s \in Shells, ShellForks(s) \/ ChildExits(s)
       PROVE  IInv'
  BY <1>21 DEF ShellForks, ChildExits
<1>22. CASE ConnectionLost \/ ParentCancel \/ UNCHANGED vars
  BY <1>22 DEF ConnectionLost, ParentCancel, vars
<1>23. ASSUME NEW s \in Shells, NEW stream \in Streams, WriteOutput(s, stream)
       PROVE  IInv'
  BY <1>23 DEF WriteOutput
<1> QED
  BY <1>1, <1>2, <1>3, <1>4, <1>5, <1>6, <1>7, <1>8, <1>9, <1>10, <1>11, <1>12,
     <1>13, <1>14, <1>15, <1>16, <1>17, <1>18, <1>19, <1>20, <1>21, <1>22, <1>23
     DEF Next, ReaderStep, SessionStep, CopierStep, WaiterStep, Environment

\* The invariant holds in every reachable state.
LEMMA InvariantCorrect == Spec => []IInv
<1>1. Init => IInv
  BY TerminalAssumption DEF Init, IInv, ReapedIsDead, CopiersHoldWaiter, TeardownUnderWay,
     RunningIsRegistered, Registered
<1>2. TypeOK /\ IInv /\ [Next]_vars => IInv'
  BY InvariantStep
<1> QED
  BY <1>1, <1>2, TypeCorrect, PTL DEF Spec

-----------------------------------------------------------------------------
(* The limit. *)

OpenIds == {id \in SessionIds : sessions[id] # NoShell}

\* Only an "open" below the limit adds a session to the registry.
LEMMA OpenCountStep ==
  ASSUME TypeOK, OpenCount <= MaxSessions, [Next]_vars
  PROVE  OpenCount' <= MaxSessions
<1>1. IsFiniteSet(OpenIds) /\ OpenCount = Cardinality(OpenIds)
  BY TerminalAssumption, FS_Subset DEF OpenIds, OpenCount
<1>2. OpenCount' = Cardinality(OpenIds')
  BY DEF OpenIds, OpenCount
<1>3. Cardinality(OpenIds) \in Nat /\ MaxSessions \in Nat
  BY <1>1, FS_CardinalityType, TerminalAssumption
<1>4. ASSUME OpenIds' \subseteq OpenIds
      PROVE  OpenCount' <= MaxSessions
  <2>1. Cardinality(OpenIds') <= Cardinality(OpenIds) /\ IsFiniteSet(OpenIds')
    BY <1>1, <1>4, FS_Subset
  <2>2. Cardinality(OpenIds') \in Nat
    BY <2>1, FS_CardinalityType
  <2> QED
    BY <1>1, <1>2, <1>3, <2>1, <2>2
<1>5. ASSUME NEW id \in SessionIds, ReadOpen(id), sessions' # sessions
      PROVE  OpenCount' <= MaxSessions
  <2> DEFINE before == OpenIds
             after == OpenIds'
  <2>1. OpenCount < MaxSessions /\ after \subseteq before \cup {id}
    BY <1>5 DEF ReadOpen, OpenIds, TypeOK
  <2> HIDE DEF before, after
  <2>2. IsFiniteSet(before) /\ Cardinality(before) = OpenCount /\ OpenCount' = Cardinality(after)
    BY <1>1, <1>2 DEF before, after
  <2>3. /\ IsFiniteSet(before \cup {id})
        /\ Cardinality(before \cup {id})
             = IF id \in before THEN Cardinality(before) ELSE Cardinality(before) + 1
    BY <2>2, FS_AddElement
  <2>4. Cardinality(after) <= Cardinality(before \cup {id}) /\ IsFiniteSet(after)
    BY <2>1, <2>3, FS_Subset
  <2>5. Cardinality(after) \in Nat /\ Cardinality(before) \in Nat
    BY <2>2, <2>4, FS_CardinalityType
  <2> QED
    BY <1>3, <2>1, <2>2, <2>3, <2>4, <2>5
<1>6. ASSUME NEW s \in Shells, Unregister(s)
      PROVE  OpenIds' \subseteq OpenIds
  BY <1>6, TerminalAssumption DEF Unregister, OpenIds, TypeOK
<1>7. CASE UNCHANGED sessions
  BY <1>4, <1>7 DEF OpenIds
<1>8. \/ UNCHANGED sessions
      \/ \E id \in SessionIds : ReadOpen(id) /\ sessions' # sessions
      \/ \E s \in Shells : Unregister(s)
  BY DEF Next, ReaderStep, SessionStep, CopierStep, WaiterStep, Environment, ReadInput, ReadClose,
     SendOpened, OpenFailed, Refuse, WriteInput, CloseReturns, ReadFails, CloseAll, CloseNext,
     Close, ReadOutput, SendOutput, OutputEnds, OutputDone, Reap, SendClosed, Kill,
     ShellReads, WriteOutput, ShellExits, ShellForks, ChildExits, ConnectionLost, ParentCancel, vars
<1> QED
  BY <1>4, <1>5, <1>6, <1>7, <1>8

\* A registry below the limit bounds the processes, since a running shell is
\* registered and an entry is for one shell.
LEMMA RegistryBoundsProcesses ==
  ASSUME TypeOK, RunningIsRegistered, OpenCount <= MaxSessions
  PROVE  ProcessLimit
<1> DEFINE running == {s \in Shells : proc[s] = "running"}
           known == {s \in Shells : Registered(s)}
           shellOf == [id \in OpenIds |-> sessions[id]]
<1>1. IsFiniteSet(OpenIds) /\ OpenCount = Cardinality(OpenIds)
  BY TerminalAssumption, FS_Subset DEF OpenIds, OpenCount
<1>2. shellOf \in Surjection(OpenIds, known)
  <2>1. \A id \in OpenIds : sessions[id] \in known
    BY DEF OpenIds, TypeOK, Registered
  <2>2. \A s \in known : \E id \in OpenIds : sessions[id] = s
    BY TerminalAssumption DEF OpenIds, Registered
  <2> QED
    BY <2>1, <2>2 DEF Surjection
<1>3. IsFiniteSet(known) /\ Cardinality(known) <= Cardinality(OpenIds)
  BY <1>1, <1>2, FS_Surjection
<1>4. running \subseteq known
  BY DEF RunningIsRegistered
<1>5. IsFiniteSet(running) /\ Cardinality(running) <= Cardinality(known)
  BY <1>3, <1>4, FS_Subset
<1>6. Cardinality(running) \in Nat /\ Cardinality(known) \in Nat /\ Cardinality(OpenIds) \in Nat
  BY <1>1, <1>3, <1>5, FS_CardinalityType
<1>7. Cardinality(running) <= MaxSessions
  BY <1>1, <1>3, <1>5, <1>6, TerminalAssumption
<1> QED
  BY <1>7 DEF ProcessLimit

-----------------------------------------------------------------------------
(* The properties. *)

\* The registry that CloseAll works from holds every running shell.
THEOREM RegistryCorrect == Spec => []RunningIsRegistered
<1>1. IInv => RunningIsRegistered
  BY DEF IInv
<1> QED
  BY <1>1, InvariantCorrect, PTL

\* No interleaving of opens and ends runs more shells than maxSessions.
THEOREM LimitCorrect == Spec => []ProcessLimit
<1> DEFINE Below == OpenCount <= MaxSessions
<1>1. Init => Below
  <2>1. ASSUME Init
        PROVE  {id \in SessionIds : sessions[id] # NoShell} = {}
    BY <2>1 DEF Init
  <2>2. ASSUME Init
        PROVE  OpenCount = 0
    BY <2>1, <2>2, FS_EmptySet, Zenon DEF OpenCount
  <2> QED
    BY <2>2, TerminalAssumption
<1>2. TypeOK /\ Below /\ [Next]_vars => Below'
  BY OpenCountStep
<1>3. TypeOK /\ RunningIsRegistered /\ Below => ProcessLimit
  BY RegistryBoundsProcesses
<1> QED
  BY <1>1, <1>2, <1>3, TypeCorrect, RegistryCorrect, PTL DEF Spec

\* When CloseAll has returned, every session that is left is cancelled.
THEOREM TeardownCorrect == Spec => []TeardownReachesAll
<1>1. IInv => TeardownReachesAll
  BY DEF IInv, TeardownUnderWay, TeardownReachesAll
<1> QED
  BY <1>1, InvariantCorrect, PTL

\* Output is sent after "opened" and before "closed".
THEOREM OutputCorrect == Spec => OutputInOrder
<1> DEFINE InOrder ==
      \A s \in Shells, stream \in Streams : SendOutput(s, stream) => sent[s] = "opened"
<1>1. IInv => InOrder
  BY DEF IInv, CopiersHoldWaiter, SendOutput
<1>2. IInv /\ [Next]_vars => [InOrder]_vars
  BY <1>1
<1> QED
  BY <1>2, InvariantCorrect, PTL DEF Spec, OutputInOrder

-----------------------------------------------------------------------------
(* What the server has been sent of a session when it ends. *)

\* Only a shell that was started has been announced or has goroutines.
StartedOnly ==
  /\ reader = "opened" => current \in Shells /\ proc[current] # "unborn"
  /\ \A s \in Shells, stream \in Streams :
       copier[s][stream] # "none" \/ sent[s] # "nothing" => proc[s] # "unborn"

\* All that was written to a stream, and ever will be, has been sent.
Drained(s, stream) == ~OutputHeld(s) /\ pipe[s][stream] = "empty"

\* A copyOutput goroutine ends with all sent, or after a failed write, which fails
\* every later one as well; nothing is lost in any other way.
CopiersEndWithOutput ==
  \A s \in Shells, stream \in Streams :
    /\ copier[s][stream] = "closing" \/ pipe[s][stream] = "lost" => conn # "up"
    /\ copier[s][stream] = "done" => Drained(s, stream) \/ conn # "up"

\* The wait goroutine comes past output.Wait only with both of them ended.
WaiterAfterCopiers ==
  \A s \in Shells, stream \in Streams :
    waiter[s] \in {"process", "deleting", "sending", "done"} => copier[s][stream] = "done"

EndInv == StartedOnly /\ CopiersEndWithOutput /\ WaiterAfterCopiers /\ ClosedIsComplete

\* A step that leaves the goroutines and the output of all sessions alone.
LEMMA EndUndisturbed ==
  ASSUME EndInv, UNCHANGED <<proc, child, pipe, copier, waiter, sent>>,
         conn' = conn \/ conn' # "up", reader' # "opened" \/ UNCHANGED <<reader, current>>
  PROVE  EndInv'
BY DEF EndInv, StartedOnly, CopiersEndWithOutput, WaiterAfterCopiers, Drained,
       ClosedIsComplete, OutputHeld

\* A step of the shells: output that nobody holds stays so, and what was drained
\* stays drained.
LEMMA EndUnheld ==
  ASSUME EndInv, UNCHANGED <<reader, current, conn, pipe, copier, waiter, sent>>,
         \A s \in Shells : proc[s] # "unborn" => proc'[s] # "unborn",
         \A s \in Shells : proc[s] # "unborn" /\ ~OutputHeld(s) => ~OutputHeld(s)'
  PROVE  EndInv'
<1> USE DEF EndInv, StartedOnly
<1>1. StartedOnly' /\ WaiterAfterCopiers'
  BY DEF WaiterAfterCopiers
<1>2. ASSUME NEW s \in Shells, NEW stream \in Streams,
             copier[s][stream] = "done" \/ sent[s] = "closed"
      PROVE  Drained(s, stream) => Drained(s, stream)'
  BY <1>2 DEF Drained
<1>3. CopiersEndWithOutput'
  BY <1>2 DEF CopiersEndWithOutput
<1>4. ClosedIsComplete'
  BY <1>2 DEF ClosedIsComplete, Drained
<1> QED
  BY <1>1, <1>3, <1>4

\* One step of Next keeps that invariant.
LEMMA EndStep ==
  ASSUME TypeOK, IInv, EndInv, [Next]_vars
  PROVE  EndInv'
<1> USE TerminalAssumption DEF TypeOK, EndInv, StartedOnly, CopiersEndWithOutput,
        WaiterAfterCopiers, ClosedIsComplete, OutputHeld, Drained
<1>1. ASSUME NEW id \in SessionIds, ReadOpen(id)
      PROVE  EndInv'
  <2>1. CASE proc' = proc
    BY <1>1, <2>1 DEF ReadOpen, Reading
  <2>2. ASSUME NEW s \in Shells,
               proc[s] = "unborn", proc' = [proc EXCEPT ![s] = "running"], current' = s
        PROVE  EndInv'
    <3>1. UNCHANGED <<conn, child, killed, pipe, copier, waiter, sent>>
      BY <1>1 DEF ReadOpen
    <3>2. \A stream \in Streams : copier[s][stream] = "none" /\ sent[s] = "nothing"
      BY <2>2
    <3>3. \A other \in Shells : other # s => (OutputHeld(other)' <=> OutputHeld(other))
      BY <2>2, <3>1
    <3>4. StartedOnly'
      BY <2>2, <3>1
    <3>5. CopiersEndWithOutput' /\ ClosedIsComplete'
      BY <3>1, <3>2, <3>3 DEF Streams
    <3> QED
      BY <3>1, <3>4, <3>5
  <2> QED
    BY <1>1, <2>1, <2>2 DEF ReadOpen
<1>2. ASSUME NEW id \in SessionIds, ReadInput(id) \/ ReadClose(id)
      PROVE  EndInv'
  BY <1>2, EndUndisturbed DEF ReadInput, ReadClose, Reading
<1>3. CASE SendOpened
  <2>1. CASE UNCHANGED <<sent, copier, waiter>>
    BY <1>3, <2>1, EndUndisturbed DEF SendOpened, WriteSucceeds, WriteFails
  <2>2. CASE /\ WriteSucceeds
             /\ sent' = [sent EXCEPT ![current] = "opened"]
             /\ copier' = [copier EXCEPT ![current] = [stream \in Streams |-> "reading"]]
             /\ waiter' = [waiter EXCEPT ![current] = "output"]
    <3>1. current \in Shells
      BY <1>3 DEF SendOpened
    <3>2. \A s \in Shells : s # current =>
            sent'[s] = sent[s] /\ copier'[s] = copier[s] /\ waiter'[s] = waiter[s]
      BY <2>2
    <3>3. /\ sent'[current] = "opened" /\ waiter'[current] = "output"
          /\ \A stream \in Streams : copier'[current][stream] = "reading"
      BY <2>2, <3>1
    <3>4. UNCHANGED <<proc, child, pipe, conn>> /\ reader' \in {"reading", "open_failed"}
      BY <1>3, <2>2 DEF SendOpened, WriteSucceeds
    <3>5. StartedOnly'
      <4>1. proc[current] # "unborn"
        BY <1>3 DEF SendOpened
      <4> QED
        BY <3>2, <3>4, <4>1
    <3>6. WaiterAfterCopiers'
      BY <3>2, <3>3
    <3>7. CopiersEndWithOutput' /\ ClosedIsComplete'
      BY <3>1, <3>2, <3>3, <3>4
    <3> QED
      BY <3>5, <3>6, <3>7
  <2> QED
    BY <1>3, <2>1, <2>2 DEF SendOpened
<1>4. CASE OpenFailed \/ Refuse \/ WriteInput \/ CloseReturns \/ ReadFails \/ CloseAll \/ CloseNext
  <2>1. /\ UNCHANGED <<proc, child, pipe, copier, waiter, sent>>
        /\ conn' = conn \/ conn' # "up"
        /\ reader' # "opened"
    BY <1>4 DEF OpenFailed, Refuse, WriteInput, CloseReturns, ReadFails, CloseAll, CloseNext,
       WriteSucceeds, WriteFails
  <2> QED
    BY <2>1, EndUndisturbed
<1>5. ASSUME NEW s \in Shells, Close(s)
      PROVE  EndInv'
  BY <1>5, EndUndisturbed DEF Close
<1>6. ASSUME NEW s \in Shells, NEW stream \in Streams,
             ReadOutput(s, stream) \/ SendOutput(s, stream) \/ OutputEnds(s, stream)
      PROVE  EndInv'
  <2>1. /\ UNCHANGED <<proc, child, waiter, sent, reader, current>>
        /\ conn' = conn \/ conn' # "up"
    BY <1>6 DEF ReadOutput, SendOutput, OutputEnds, WriteSucceeds, WriteFails
  <2>2. \A other \in Shells, any \in Streams :
          \/ copier'[other][any] = copier[other][any] /\ pipe'[other][any] = pipe[other][any]
          \/ other = s /\ any = stream
    BY <1>6 DEF ReadOutput, SendOutput, OutputEnds, MoveCopier, FillPipe
  <2>3. /\ copier[s][stream] \in {"reading", "sending", "closing"}
        /\ copier'[s][stream] \in {"reading", "sending", "closing", "done"}
        /\ copier'[s][stream] = "closing" \/ pipe'[s][stream] = "lost" => conn' # "up"
        /\ copier'[s][stream] = "done" => Drained(s, stream)' \/ conn' # "up"
    <3>1. CASE ReadOutput(s, stream)
      BY <3>1 DEF ReadOutput, MoveCopier, FillPipe
    <3>2. CASE SendOutput(s, stream)
      BY <3>2 DEF SendOutput, MoveCopier, FillPipe, WriteFails, WriteSucceeds
    <3>3. CASE OutputEnds(s, stream)
      BY <3>3 DEF OutputEnds, MoveCopier
    <3> QED
      BY <1>6, <3>1, <3>2, <3>3
  <2>4. waiter[s] = "output" /\ sent[s] = "opened"
    BY <2>3 DEF IInv, CopiersHoldWaiter
  <2>5. \A other \in Shells : OutputHeld(other)' <=> OutputHeld(other)
    BY <2>1
  <2>6. StartedOnly'
    <3>1. proc[s] # "unborn"
      BY <2>3
    <3>2. ASSUME NEW other \in Shells, NEW any \in Streams,
                 copier'[other][any] # "none" \/ sent'[other] # "nothing"
          PROVE  proc'[other] # "unborn"
      <4>1. CASE other = s
        BY <2>1, <3>1, <4>1
      <4>2. CASE other # s
        BY <2>1, <2>2, <3>2, <4>2
      <4> QED
        BY <4>1, <4>2
    <3> QED
      BY <2>1, <3>2 DEF StartedOnly
  <2>7. ClosedIsComplete'
    <3> SUFFICES ASSUME NEW other \in Shells, NEW any \in Streams, sent[other] = "closed"
                 PROVE  /\ ~OutputHeld(other)' /\ pipe'[other][any] = "empty"
                        /\ copier'[other][any] # "sending"
      BY <2>1 DEF ClosedIsComplete
    <3>1. other # s
      BY <2>4
    <3> QED
      BY <2>2, <2>5, <3>1
  <2>8. WaiterAfterCopiers'
    BY <2>1, <2>2, <2>4
  <2>9. CopiersEndWithOutput'
    <3> SUFFICES ASSUME NEW other \in Shells, NEW any \in Streams
                 PROVE  /\ copier'[other][any] = "closing" \/ pipe'[other][any] = "lost"
                             => conn' # "up"
                        /\ copier'[other][any] = "done" => Drained(other, any)' \/ conn' # "up"
      BY DEF CopiersEndWithOutput
    <3>1. CASE copier'[other][any] = copier[other][any] /\ pipe'[other][any] = pipe[other][any]
      BY <2>1, <2>5, <3>1
    <3>2. CASE other = s /\ any = stream
      BY <2>3, <3>2
    <3> QED
      BY <2>2, <3>1, <3>2
  <2> QED
    BY <2>6, <2>7, <2>8, <2>9
<1>7. ASSUME NEW s \in Shells, OutputDone(s) \/ Unregister(s)
      PROVE  EndInv'
  <2>1. /\ UNCHANGED <<proc, child, pipe, copier, sent, conn, reader, current>>
        /\ \A other \in Shells : waiter'[other] = waiter[other] \/ other = s
        /\ \A stream \in Streams : copier[s][stream] = "done"
    BY <1>7 DEF OutputDone, Unregister
  <2> QED
    BY <2>1
<1>8. ASSUME NEW s \in Shells, Reap(s)
      PROVE  EndInv'
  <2>1. /\ UNCHANGED <<proc, child, copier, sent, conn, reader, current>>
        /\ \A other \in Shells : waiter'[other] = waiter[other] \/ other = s
        /\ \A stream \in Streams : copier[s][stream] = "done"
    BY <1>8 DEF Reap
  <2>2. \A other \in Shells, stream \in Streams :
          \/ pipe'[other][stream] = pipe[other][stream]
          \/ other = s /\ pipe[s][stream] = "unread"
    BY <1>8 DEF Reap
  <2>3. \A stream \in Streams : pipe[s][stream] = "unread" => conn # "up" /\ sent[s] # "closed"
    BY <2>1
  <2> QED
    BY <2>1, <2>2, <2>3
<1>9. ASSUME NEW s \in Shells, SendClosed(s)
      PROVE  EndInv'
  <2>1. \A stream \in Streams : copier[s][stream] = "done"
    BY <1>9 DEF SendClosed
  <2>2. conn = "up" => \A stream \in Streams : Drained(s, stream)
    BY <2>1
  <2> QED
    BY <1>9, <2>1, <2>2 DEF SendClosed, WriteSucceeds, WriteFails
<1>10. ASSUME NEW s \in Shells, Kill(s)
       PROVE  EndInv'
  BY <1>10, EndUnheld DEF Kill
<1>11. ASSUME NEW s \in Shells,
              ShellReads(s) \/ ShellExits(s) \/ ShellForks(s) \/ ChildExits(s)
       PROVE  EndInv'
  <2>1. UNCHANGED <<reader, current, conn, pipe, copier, waiter, sent>>
    BY <1>11 DEF ShellReads, ShellExits, ShellForks, ChildExits
  <2>2. \A other \in Shells : proc[other] # "unborn" => proc'[other] # "unborn"
    BY <1>11 DEF ShellReads, ShellExits, ShellForks, ChildExits
  <2>3. \A other \in Shells :
          proc[other] # "unborn" /\ ~OutputHeld(other) => ~OutputHeld(other)'
    BY <1>11 DEF ShellReads, ShellExits, ShellForks, ChildExits
  <2> QED
    BY <2>1, <2>2, <2>3, EndUnheld
<1>12. ASSUME NEW s \in Shells, NEW stream \in Streams, WriteOutput(s, stream)
       PROVE  EndInv'
  <2>1. UNCHANGED <<proc, child, copier, waiter, sent, conn, reader, current>>
    BY <1>12 DEF WriteOutput
  <2>2. \A other \in Shells, any \in Streams :
          pipe'[other][any] = pipe[other][any] \/ (other = s /\ pipe'[other][any] = "unread")
    BY <1>12 DEF WriteOutput, FillPipe
  <2>3. OutputHeld(s)
    BY <1>12 DEF WriteOutput
  <2>4. StartedOnly' /\ WaiterAfterCopiers'
    BY <2>1
  <2>5. CopiersEndWithOutput'
    <3> SUFFICES ASSUME NEW other \in Shells, NEW any \in Streams
                 PROVE  /\ copier'[other][any] = "closing" \/ pipe'[other][any] = "lost"
                             => conn' # "up"
                        /\ copier'[other][any] = "done" => Drained(other, any)' \/ conn' # "up"
      BY DEF CopiersEndWithOutput
    <3>1. CASE pipe'[other][any] = pipe[other][any]
      BY <2>1, <3>1
    <3>2. CASE other = s /\ pipe'[other][any] = "unread"
      BY <2>1, <2>3, <3>2
    <3> QED
      BY <2>2, <3>1, <3>2
  <2>6. ClosedIsComplete'
    <3> SUFFICES ASSUME NEW other \in Shells, NEW any \in Streams, sent[other] = "closed"
                 PROVE  /\ ~OutputHeld(other)' /\ pipe'[other][any] = "empty"
                        /\ copier'[other][any] # "sending"
      BY <2>1 DEF ClosedIsComplete
    <3>1. other # s
      BY <2>3
    <3> QED
      BY <2>1, <2>2, <3>1
  <2> QED
    BY <2>4, <2>5, <2>6
<1>13. CASE ConnectionLost \/ ParentCancel \/ UNCHANGED vars
  BY <1>13, EndUndisturbed DEF ConnectionLost, ParentCancel, vars
<1> QED
  BY <1>1, <1>2, <1>3, <1>4, <1>5, <1>6, <1>7, <1>8, <1>9, <1>10, <1>11, <1>12, <1>13
     DEF Next, ReaderStep, SessionStep, CopierStep, WaiterStep, Environment

\* The invariant about ends holds in every reachable state.
LEMMA EndCorrect == Spec => []EndInv
<1>1. Init => EndInv
  BY TerminalAssumption DEF Init, EndInv, StartedOnly, CopiersEndWithOutput, WaiterAfterCopiers,
     ClosedIsComplete
<1>2. TypeOK /\ IInv /\ EndInv /\ [Next]_vars => EndInv'
  BY EndStep
<1> QED
  BY <1>1, <1>2, TypeCorrect, InvariantCorrect, PTL DEF Spec

\* Whatever was written to a session's output before its "closed" was sent has
\* been sent as well, and nobody can write any more.
THEOREM ClosedCorrect == Spec => []ClosedIsComplete
<1>1. EndInv => ClosedIsComplete
  BY DEF EndInv
<1> QED
  BY <1>1, EndCorrect, PTL
=============================================================================
