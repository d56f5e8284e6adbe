------------------------- MODULE CommandExecutorProofs -------------------------
(***************************************************************************)
(* Theorems about one run of a command, for both builds, every output      *)
(* limit and every amount of output; and that CommandExecutor implements   *)
(* CommandRun, step by step.                                               *)
(***************************************************************************)
EXTENDS CommandExecutor, TLAPS

USE ExecutorAssumption
USE DEF mainVars, watchVars, processVars, pipeVars, bufferVars, Started, Alive, Held, Reaped,
        Killed, Survivor

-----------------------------------------------------------------------------
(* Types and the buffer. *)

\* The types without the link between "returned" and the result.
Typed ==
  /\ platform \in Platforms
  /\ ctx \in {"live", "passed", "cancelled"}
  /\ main \in {"starting", "waiting", "watching", "piping", "draining", "collected", "returned"}
  /\ err \in {"nil", "context", "start", "exit", "cancel", "wait_delay"}
  /\ watcher \in {"none", "armed", "cancelling", "offering", "overrun", "done"}
  /\ watchErr \in {"nil", "context", "cancel"}
  /\ timer \in BOOLEAN
  /\ shell \in {"no", "zero", "nonzero", "killed"}
  /\ child \in Children \cup {"none"}
  /\ pipes \in {"open", "closed"}
  /\ copier \in {"none", "reading", "done"}
  /\ inPipe \in Nat /\ written \in Nat /\ treeLost \in BOOLEAN

BufferTyped ==
  received \in Nat /\ remaining \in Nat /\ kept \in Nat /\ truncated \in BOOLEAN

\* What the buffer has kept and what it still takes are the limit; it keeps what
\* fits, and is marked when it was given more.
KeepsWhatFits ==
  /\ kept = (IF received > OutputLimit THEN OutputLimit ELSE received)
  /\ truncated <=> received > OutputLimit

BufferInv == BufferTyped /\ kept + remaining = OutputLimit /\ KeepsWhatFits

\* One write of limitedBuffer keeps its books, whatever its length.
LEMMA WriteKeepsBooks ==
  ASSUME BufferInv, NEW n \in Nat \ {0}, Write(n)
  PROVE  BufferInv'
<1> USE DEF BufferInv, BufferTyped, KeepsWhatFits
<1>1. CASE n > remaining
  <2>1. truncated' = TRUE
    BY <1>1, Zenon DEF Write
  <2>2. kept' = OutputLimit /\ remaining' = 0 /\ received' = received + n
    BY <1>1 DEF Write
  <2>3. received + n > OutputLimit
    BY <1>1
  <2> QED
    BY <2>1, <2>2, <2>3
<1>2. CASE ~(n > remaining)
  BY <1>2 DEF Write
<1> QED
  BY <1>1, <1>2

\* Nothing else touches the buffer.
LEMMA BufferStep ==
  ASSUME Typed, BufferInv, [Next]_vars
  PROVE  BufferInv'
<1>1. CASE UNCHANGED bufferVars
  BY <1>1 DEF BufferInv, BufferTyped, KeepsWhatFits
<1>2. CASE CopyChunk
  <2>1. PICK n \in 1..inPipe : Write(n)
    BY <1>2 DEF CopyChunk
  <2>2. n \in Nat \ {0}
    BY <2>1 DEF Typed
  <2> QED
    BY <2>1, <2>2, WriteKeepsBooks
<1>3. UNCHANGED bufferVars \/ CopyChunk
  BY DEF Next, MainStep, WatcherStep, CopierStep, Environment, Start, ProcessWait, TakeWatch,
     PipesEnd, PipesExpire, Drained, Return, Fire, Cancel, Overrun, CopyEnds, Emit, ShellExits,
     ShellForks, ChildExits, ContextEnds, vars
<1> QED
  BY <1>1, <1>2, <1>3

-----------------------------------------------------------------------------
(* The inductive invariant. *)

\* How far Run is and what has been started.
Stages ==
  /\ copier = "none" <=> watcher = "none"
  /\ copier = "none" => main \in {"starting", "collected", "returned"} /\ shell = "no"
                         /\ child = "none" /\ pipes = "open" /\ inPipe = 0
  /\ main = "starting" => copier = "none"
  /\ main \in {"waiting", "watching"} => watcher # "done"
  /\ main \in {"piping", "draining"} => watcher = "done"
  /\ main \in {"collected", "returned"} => watcher \in {"none", "done"} /\ copier # "reading"
  /\ Started /\ Reaped => shell # "no"
  /\ watcher \in {"offering", "overrun"} => shell # "no" /\ watchErr # "nil"

\* Why the error of cmd.Run is what it is.
Errors ==
  /\ main \in {"starting", "waiting"} => err = "nil"
  /\ Reaped /\ err = "nil" => shell = "zero"
  /\ err = "exit" => shell \in {"nonzero", "killed"}
  /\ err = "context" => ctx # "live"
  /\ main \in {"piping", "draining", "collected", "returned"} /\ err = "nil" => watchErr = "nil"
  /\ main = "draining" => err # "nil"

\* The context is done whenever the watcher has acted.
Watching ==
  /\ watcher \in {"cancelling", "offering", "overrun"} \/ watchErr # "nil" \/ shell = "killed"
       => ctx # "live"
  /\ watcher \in {"none", "armed", "cancelling"} => watchErr = "nil"

\* Where the output is; the pipes are closed under an error only.
Output ==
  /\ written = received + inPipe
  /\ copier = "done" /\ pipes = "open" => inPipe = 0 /\ ~Held
  /\ pipes = "closed" => watchErr # "nil" \/ err # "nil"

KilledTree == shell = "killed" /\ ~treeLost => child \in {"none", "escaped"}

\* The result is that of the error and of the context; the context may not change later.
Results ==
  /\ main # "returned" => result = Run!Unanswered
  /\ main = "returned" => result \in Run!Answers /\ (result.exit = "zero" => err = "nil")

IInv == Typed /\ BufferInv /\ Stages /\ Errors /\ Watching /\ Output /\ KilledTree /\ Results

\* One step keeps the types.
LEMMA TypedStep ==
  ASSUME IInv, [Next]_vars
  PROVE  Typed'
<1> USE DEF Typed, IInv
<1>1. CASE CopyChunk
  BY <1>1 DEF CopyChunk
<1>2. CASE \E n \in 1..MaxOutput : Emit(n)
  BY <1>2 DEF Emit
<1>3. CASE ShellForks
  BY <1>3 DEF ShellForks
<1>4. CASE ShellExits \/ ChildExits \/ ContextEnds
  BY <1>4 DEF ShellExits, ChildExits, ContextEnds
<1>5. CASE Start \/ ProcessWait \/ PipesEnd
  BY <1>5 DEF Start, ProcessWait, PipesEnd
<1>6. CASE TakeWatch
  BY <1>6 DEF TakeWatch
<1>7. CASE PipesExpire \/ Drained \/ Return
  BY <1>7 DEF PipesExpire, Drained, Return
<1>8. CASE Fire \/ Overrun
  <2>1. timer' \in BOOLEAN
    BY <1>8, Zenon DEF Fire, Overrun
  <2> QED
    BY <1>8, <2>1 DEF Fire, Overrun
<1>9. CASE Cancel
  <2>1. CASE KillTree
    BY <1>9, <2>1 DEF Cancel, KillTree
  <2>2. CASE KillGroup
    BY <1>9, <2>2 DEF Cancel, KillGroup
  <2> QED
    BY <1>9, <2>1, <2>2 DEF Cancel
<1>10. CASE CopyEnds \/ UNCHANGED vars
  BY <1>10 DEF CopyEnds, vars
<1> QED
  BY <1>1, <1>2, <1>3, <1>4, <1>5, <1>6, <1>7, <1>8, <1>9, <1>10
     DEF Next, MainStep, WatcherStep, CopierStep, Environment

\* One step keeps the parts that do not speak of numbers.
LEMMA ControlStep ==
  ASSUME IInv, [Next]_vars
  PROVE  Stages' /\ Errors' /\ Watching' /\ KilledTree'
<1> USE DEF IInv, Typed, Stages, Errors, Watching, KilledTree
<1>1. CASE Start
  BY <1>1 DEF Start
<1>2. CASE ProcessWait
  BY <1>2 DEF ProcessWait
<1>3. CASE TakeWatch
  BY <1>3 DEF TakeWatch
<1>4. CASE PipesEnd \/ PipesExpire \/ Drained \/ Return
  BY <1>4 DEF PipesEnd, PipesExpire, Drained, Return
<1>5. CASE Fire
  BY <1>5 DEF Fire
<1>6. CASE Cancel
  BY <1>6 DEF Cancel, KillTree, KillGroup
<1>7. CASE Overrun
  BY <1>7 DEF Overrun
<1>8. CASE CopyChunk \/ CopyEnds
  <2>1. UNCHANGED <<platform, ctx, main, err, watcher, watchErr, treeLost, shell, child, pipes>>
    BY <1>8 DEF CopyChunk, CopyEnds
  <2>2. copier # "none" /\ copier' # "none" /\ (copier' = "reading" => copier = "reading")
    BY <1>8 DEF CopyChunk, CopyEnds
  <2> QED
    BY <2>1, <2>2
<1>9. CASE \E n \in 1..MaxOutput : Emit(n)
  BY <1>9 DEF Emit
<1>10. CASE ShellExits
  BY <1>10 DEF ShellExits
<1>11. CASE ShellForks \/ ChildExits
  BY <1>11 DEF ShellForks, ChildExits
<1>12. CASE ContextEnds \/ UNCHANGED vars
  BY <1>12 DEF ContextEnds, vars
<1> QED
  BY <1>1, <1>2, <1>3, <1>4, <1>5, <1>6, <1>7, <1>8, <1>9, <1>10, <1>11, <1>12
     DEF Next, MainStep, WatcherStep, CopierStep, Environment

\* One step loses no output but by closing the pipes under an error.
LEMMA OutputStep ==
  ASSUME IInv, [Next]_vars
  PROVE  Output'
<1> USE DEF IInv, Typed, Stages, Errors, Watching, Output
<1>1. CASE CopyChunk
  <2>1. PICK n \in 1..inPipe : Write(n) /\ inPipe' = inPipe - n
    BY <1>1 DEF CopyChunk
  <2>2. received' = received + n
    BY <2>1 DEF Write
  <2> QED
    BY <1>1, <2>1, <2>2 DEF CopyChunk, BufferInv, BufferTyped
<1>2. ASSUME NEW n \in 1..MaxOutput, Emit(n)
      PROVE  Output'
  BY <1>2 DEF Emit, BufferInv, BufferTyped
<1>3. CASE CopyEnds
  BY <1>3 DEF CopyEnds
<1>4. CASE MainStep
  BY <1>4 DEF MainStep, Start, ProcessWait, TakeWatch, PipesEnd, PipesExpire, Drained, Return
<1>5. CASE WatcherStep
  BY <1>5 DEF WatcherStep, Fire, Cancel, KillTree, KillGroup, Overrun
<1>6. CASE ShellExits \/ ShellForks \/ ChildExits \/ ContextEnds \/ UNCHANGED vars
  BY <1>6 DEF ShellExits, ShellForks, ChildExits, ContextEnds, vars
<1> QED
  BY <1>1, <1>2, <1>3, <1>4, <1>5, <1>6 DEF Next, CopierStep, Environment

\* Only Return makes a result, once.
LEMMA ResultStep ==
  ASSUME IInv, [Next]_vars
  PROVE  Results'
<1> USE DEF IInv, Results
<1>1. CASE Return
  BY <1>1 DEF Return, Run!Answers
<1>2. CASE UNCHANGED <<main, err, result>>
  BY <1>2
<1>3. CASE Start \/ ProcessWait \/ TakeWatch \/ PipesEnd \/ PipesExpire \/ Drained
  BY <1>3 DEF Start, ProcessWait, TakeWatch, PipesEnd, PipesExpire, Drained
<1> QED
  BY <1>1, <1>2, <1>3
     DEF Next, MainStep, WatcherStep, CopierStep, Environment, Fire, Cancel, Overrun, CopyChunk,
         CopyEnds, Emit, ShellExits, ShellForks, ChildExits, ContextEnds, vars

\* The invariant holds in every reachable state.
LEMMA InvariantCorrect == Spec => []IInv
<1>1. Init => IInv
  <2> SUFFICES ASSUME Init PROVE IInv
    OBVIOUS
  <2> USE DEF Init
  <2>1. Typed
    BY DEF Typed
  <2>2. BufferInv
    <3>1. ~(received > OutputLimit) /\ kept + remaining = OutputLimit
      BY DEF ExecutorAssumption
    <3>2. truncated \in BOOLEAN /\ (truncated <=> received > OutputLimit)
      BY <3>1, Zenon
    <3> QED
      BY <3>1, <3>2 DEF BufferInv, BufferTyped, KeepsWhatFits
  <2>3. Stages
    BY DEF Stages
  <2>4. Errors /\ Watching /\ Output /\ KilledTree /\ Results
    BY DEF Errors, Watching, Output, KilledTree, Results
  <2> QED
    BY <2>1, <2>2, <2>3, <2>4 DEF IInv
<1>2. IInv /\ [Next]_vars => IInv'
  <2>1. ASSUME IInv, [Next]_vars
        PROVE  Typed' /\ BufferInv' /\ Results' /\ Output'
    BY <2>1, TypedStep, BufferStep, OutputStep, ResultStep DEF IInv
  <2> QED
    BY <2>1, ControlStep DEF IInv
<1> QED
  BY <1>1, <1>2, PTL DEF Spec

-----------------------------------------------------------------------------
(* The properties. *)

\* The variables keep their types, and there is a result when Run has returned.
THEOREM TypeCorrect == Spec => []TypeOK
<1>1. Run!Unanswered \notin Run!Answers
  BY DEF Run!Unanswered, Run!Answers
<1>2. IInv => TypeOK
  BY <1>1 DEF IInv, Typed, BufferInv, BufferTyped, Results, TypeOK
<1> QED
  BY <1>2, InvariantCorrect, PTL

\* Exit code 0 is never reported of a command whose output was cut off.
THEOREM ZeroCorrect == Spec => []ZeroMeansComplete
<1>1. ASSUME IInv, result.exit = "zero"
      PROVE  shell = "zero" /\ ~Held /\ received = written
  <2>1. main = "returned"
    BY <1>1 DEF IInv, Results, Run!Unanswered
  <2>2. err = "nil" /\ watchErr = "nil" /\ shell = "zero"
    BY <1>1, <2>1 DEF IInv, Results, Errors
  <2>3. copier = "done" /\ pipes = "open"
    BY <1>1, <2>1, <2>2 DEF IInv, Typed, Stages, Output
  <2> QED
    BY <1>1, <2>2, <2>3 DEF IInv, Output, BufferInv, BufferTyped
<1>2. IInv => ZeroMeansComplete
  BY <1>1 DEF ZeroMeansComplete
<1> QED
  BY <1>2, InvariantCorrect, PTL

\* The mark is never set without a cause and, with exit code 0, never missing, for
\* every limit and in whatever pieces the output comes.
THEOREM TruncationCorrect == Spec => []TruncationExact
<1>1. ASSUME IInv, truncated
      PROVE  kept < written
  BY <1>1 DEF IInv, BufferInv, BufferTyped, KeepsWhatFits, Typed, Output
<1>2. ASSUME IInv, ZeroMeansComplete, result.exit = "zero", ~truncated
      PROVE  kept = written
  BY <1>2 DEF IInv, BufferInv, BufferTyped, KeepsWhatFits, ZeroMeansComplete
<1>3. IInv => KeepsWhatFits
  BY DEF IInv, BufferInv
<1>4. IInv /\ ZeroMeansComplete => TruncationExact
  BY <1>1, <1>2, <1>3 DEF TruncationExact, KeepsWhatFits
<1> QED
  BY <1>4, InvariantCorrect, ZeroCorrect, PTL

\* A kill by the time limit reaches the whole group, unless taskkill fails.
THEOREM TimeoutCorrect == Spec => []TimeoutStopsTree
<1>1. IInv => TimeoutStopsTree
  BY DEF IInv, KilledTree, TimeoutStopsTree
<1> QED
  BY <1>1, InvariantCorrect, PTL

-----------------------------------------------------------------------------
(* The refinement. *)

\* A step of the executor is a step of CommandRun or changes nothing it speaks of.
LEMMA StepSimulation ==
  ASSUME IInv, [Next]_vars
  PROVE  [Run!Next]_Run!vars
<1> USE DEF Run!vars, Run!Next, IInv, Typed
<1>1. CASE Return
  <2>1. result = Run!Unanswered /\ result' \in Run!Answers /\ UNCHANGED <<ctx, shell>>
    BY <1>1 DEF Return, Results, Run!Answers
  <2>2. Run!Truthful(result')
    <3>1. err = "nil" => shell = "zero"
      BY <1>1 DEF Return, Errors
    <3>2. err = "context" => ctx # "live"
      BY DEF Errors
    <3>3. err = "exit" => shell \in {"nonzero", "killed"}
      BY DEF Errors
    <3> QED
      BY <1>1, <3>1, <3>2, <3>3 DEF Return, Run!Truthful
  <2> QED
    BY <2>1, <2>2 DEF Run!Reply
<1>2. CASE ContextEnds
  BY <1>2 DEF ContextEnds, Run!LimitComes
<1>3. CASE ShellExits
  BY <1>3 DEF ShellExits, Run!CommandEnds
<1>4. CASE Cancel
  <2>1. ctx # "live" /\ shell' \in {shell, "killed"} /\ (shell' # shell => shell = "no")
    BY <1>4 DEF Cancel, KillTree, KillGroup, Watching
  <2> QED
    BY <1>4, <2>1 DEF Cancel, Run!CommandEnds
<1>5. CASE Overrun
  BY <1>5 DEF Overrun, Stages
<1>6. CASE UNCHANGED <<ctx, shell, result>>
  BY <1>6
<1> QED
  BY <1>1, <1>2, <1>3, <1>4, <1>5, <1>6
     DEF Next, MainStep, WatcherStep, CopierStep, Environment, Start, ProcessWait, TakeWatch,
         PipesEnd, PipesExpire, Drained, Fire, CopyChunk, CopyEnds, Emit, ShellForks, ChildExits,
         vars

\* executor.Run does what CommandRun promises, as far as safety goes.
THEOREM ImplementsCommandRun == Spec => Run!Spec
<1>1. Init => Run!Init
  BY DEF Init, Run!Init
<1>2. IInv /\ [Next]_vars => [Run!Next]_Run!vars
  BY StepSimulation
<1> QED
  BY <1>1, <1>2, InvariantCorrect, PTL DEF Spec, Run!Spec

-----------------------------------------------------------------------------
(* Run comes to its end: what the promise to return rests on.              *)

\* What Wait waits for after the process is there, or on its way.
Awaited ==
  /\ main = "piping" => timer
  /\ main = "draining" => pipes = "closed"
  /\ watcher = "overrun" => copier = "done" \/ pipes = "closed"

LEMMA AwaitedStep ==
  ASSUME IInv, Awaited, [Next]_vars
  PROVE  Awaited'
<1> USE DEF IInv, Typed, Awaited
<1>1. CASE TakeWatch
  BY <1>1 DEF TakeWatch
<1>2. CASE PipesExpire \/ Overrun
  BY <1>2 DEF PipesExpire, Overrun, Stages
<1>3. CASE Start \/ ProcessWait \/ PipesEnd \/ Drained \/ Return
  BY <1>3 DEF Start, ProcessWait, PipesEnd, Drained, Return, Stages
<1>4. CASE Fire \/ Cancel
  BY <1>4 DEF Fire, Cancel, Stages
<1>5. CASE CopyChunk \/ CopyEnds
  BY <1>5 DEF CopyChunk, CopyEnds
<1>6. CASE Environment
  BY <1>6 DEF Environment, Emit, ShellExits, ShellForks, ChildExits, ContextEnds
<1>7. CASE UNCHANGED vars
  BY <1>7 DEF vars
<1> QED
  BY <1>1, <1>2, <1>3, <1>4, <1>5, <1>6, <1>7 DEF Next, MainStep, WatcherStep, CopierStep

MustReturn == main # "returned" /\ (ctx # "live" \/ shell # "no")

\* The guards of the steps that the caller, the watcher and the copier have left.
CallerMoves ==
  \/ main \in {"starting", "collected"}
  \/ main = "waiting" /\ ~Alive
  \/ main = "watching" /\ watcher \in {"armed", "offering"}
  \/ main = "watching" /\ watcher = "overrun" /\ copier = "done"
  \/ main = "piping" /\ WaitDelayOver
  \/ main = "draining" /\ copier = "done"
WatcherMoves == watcher = "cancelling" \/ (watcher = "armed" /\ ctx # "live")
CopierMoves == copier = "reading" /\ pipes = "closed"

NobodyStuck == MustReturn => CallerMoves \/ WatcherMoves \/ CopierMoves

\* Once the shell has ended or the context is done, the caller, the watcher and the
\* copier never all wait for each other, for the shell or for a child of it.
THEOREM NoDeadlock == Spec => []NobodyStuck
<1>1. Init => Awaited
  BY DEF Init, Awaited
<1>2. IInv /\ Awaited /\ [Next]_vars => Awaited'
  BY AwaitedStep
<1>3. ASSUME IInv, Awaited, MustReturn
      PROVE  CallerMoves \/ WatcherMoves \/ CopierMoves
  <2> USE <1>3 DEF IInv, Typed, CallerMoves, WatcherMoves, CopierMoves
  <2>1. CASE main = "waiting"
    <3>1. copier # "none" /\ watcher \in {"armed", "cancelling", "offering", "overrun"}
      BY <2>1 DEF Stages
    <3>2. watcher \in {"offering", "overrun"} => shell # "no"
      BY DEF Stages
    <3> QED
      BY <2>1, <3>1, <3>2 DEF MustReturn, Alive
  <2>2. CASE main = "watching"
    <3>1. copier # "none" /\ watcher \in {"armed", "cancelling", "offering", "overrun"}
      BY <2>2 DEF Stages
    <3> QED
      BY <2>2, <3>1 DEF Awaited
  <2>3. CASE main \in {"piping", "draining"}
    <3>1. copier # "none"
      BY <2>3 DEF Stages
    <3> QED
      BY <2>3, <3>1 DEF Awaited, WaitDelayOver
  <2> QED
    BY <2>1, <2>2, <2>3 DEF MustReturn
<1>4. IInv /\ Awaited => NobodyStuck
  BY <1>3 DEF NobodyStuck
<1> QED
  BY <1>1, <1>2, <1>4, InvariantCorrect, PTL DEF Spec

\* Steps of the caller, the watcher and the copier that lie ahead, at most; reading a
\* piece of output is not counted.
StepsLeft ==
  LET caller == [starting |-> 10, waiting |-> 5, watching |-> 4, piping |-> 3, draining |-> 2,
                 collected |-> 1, returned |-> 0]
      waits == [armed |-> 3, cancelling |-> 2, offering |-> 1]
  IN caller[main] + (IF watcher \in DOMAIN waits THEN waits[watcher] ELSE 0)
       + (IF copier = "reading" THEN 1 ELSE 0)

RunsDown == UNCHANGED <<main, watcher, copier>> \/ StepsLeft' < StepsLeft

\* No call of Run takes more than ten steps besides the reading of output, whatever
\* the shell, its child and the deadline do; with NoDeadlock this is the promise to
\* return, but for the scheduling.
THEOREM RunIsBounded == Spec => [][RunsDown]_vars
<1>1. ASSUME IInv, [Next]_vars
      PROVE  RunsDown
  <2> USE <1>1 DEF RunsDown, StepsLeft, IInv, Typed
  <2>1. CASE Start
    BY <2>1 DEF Start, Stages
  <2>2. CASE ProcessWait \/ PipesEnd \/ PipesExpire
    BY <2>2 DEF ProcessWait, PipesEnd, PipesExpire
  <2>3. CASE TakeWatch
    BY <2>3 DEF TakeWatch
  <2>4. CASE Drained \/ Return
    BY <2>4 DEF Drained, Return
  <2>5. CASE Fire \/ Cancel \/ Overrun
    BY <2>5 DEF Fire, Cancel, Overrun
  <2>6. CASE CopyEnds
    BY <2>6 DEF CopyEnds
  <2>7. CASE UNCHANGED <<main, watcher, copier>>
    BY <2>7
  <2> QED
    BY <2>1, <2>2, <2>3, <2>4, <2>5, <2>6, <2>7
       DEF Next, MainStep, WatcherStep, CopierStep, Environment, CopyChunk, Emit, ShellExits,
           ShellForks, ChildExits, ContextEnds, vars
<1>2. IInv /\ [Next]_vars => [RunsDown]_vars
  BY <1>1
<1> QED
  BY <1>2, InvariantCorrect, PTL DEF Spec
=============================================================================
