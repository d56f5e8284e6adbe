---------------------------- MODULE CommandExecutor ----------------------------
(***************************************************************************)
(* One call of executor.Run: the caller's goroutine ("main") in cmd.Run,   *)
(* the watcher goroutine of os/exec that calls cmd.Cancel when the context *)
(* is done, the goroutine that copies the output into a limitedBuffer, the *)
(* shell and a background child it may leave.  os/exec is modelled as      *)
(* process_unix.go and process_windows.go use it, with Cancel and          *)
(* WaitDelay.  Standard output and standard error are alike: one is        *)
(* modelled.                                                               *)
(***************************************************************************)
EXTENDS Naturals

CONSTANTS
  Platforms,    \* builds explored: "posix" (process_unix.go), "windows"
  OutputLimit,  \* outputLimit, in chunks
  MaxOutput,    \* bound: chunks a command writes
  ChildKinds    \* background children explored, a subset of Children

\* In the shell's process group (its tree, on Windows) and holding its output, in
\* the group with its output redirected, or outside it and holding the output.
Children == {"attached", "quiet", "escaped"}

ASSUME ExecutorAssumption ==
  /\ Platforms \subseteq {"posix", "windows"}
  /\ OutputLimit \in Nat \ {0} /\ MaxOutput \in Nat
  /\ ChildKinds \subseteq Children

VARIABLES
  platform,   \* the build that runs
  ctx,        \* "live", "passed" (deadline exceeded), "cancelled"
  main,       \* Run: "starting", "waiting", "watching", "piping", "draining",
              \* "collected", "returned"
  err,        \* the error of cmd.Run so far
  watcher,    \* "none", "armed", "cancelling", "offering", "overrun", "done"
  watchErr,   \* the error it will hand over
  timer,      \* the timer of WaitDelay runs
  shell,      \* "no" (not ended, or not started); "zero", "nonzero" (by itself, or by
              \* a signal from elsewhere, code -1); "killed" (by Cancel)
  child,      \* its background child: a kind, or "none"
  pipes,      \* this process's end of the output pipe: "open" or "closed"
  copier,     \* the copying goroutine: "none", "reading", "done"
  inPipe,     \* chunks written and not read
  received,   \* history: chunks the buffer was given
  written,    \* history: chunks the command has written
  remaining,  \* limitedBuffer.remaining
  kept,       \* length of limitedBuffer.buffer
  truncated,  \* limitedBuffer.truncated
  treeLost,   \* history: taskkill failed, only the shell was killed
  result      \* the Result returned

mainVars == <<main, err, result>>
watchVars == <<watcher, watchErr, timer, treeLost>>
processVars == <<shell, child>>
pipeVars == <<pipes, inPipe, written>>
bufferVars == <<received, remaining, kept, truncated>>
vars == <<platform, ctx, mainVars, watchVars, processVars, copier, pipeVars, bufferVars>>

Run == INSTANCE CommandRun WITH limit <- ctx, ended <- shell, answer <- result

Started == copier # "none"
Alive == Started /\ shell = "no"
Held == Alive \/ child \in {"attached", "escaped"}

\* Process.Wait has returned: nobody can signal the shell any more.
Reaped == main \notin {"starting", "waiting"}

-----------------------------------------------------------------------------
(* limitedBuffer. *)

\* Mutant: the whole write is counted, not what was kept of it.
WriteOverdrawn(n) ==
  LET taken == IF n > remaining THEN remaining ELSE n
  IN /\ kept' = kept + taken
     /\ remaining' = remaining - n
     /\ truncated' = (truncated \/ n > remaining)
     /\ received' = received + n

\* Mutant: a write that just fits is called truncated.
WriteFull(n) ==
  /\ kept' = kept + (IF n >= remaining THEN remaining ELSE n)
  /\ remaining' = remaining - (IF n >= remaining THEN remaining ELSE n)
  /\ truncated' = (truncated \/ n >= remaining)
  /\ received' = received + n

\* Write takes what still fits and claims to have taken all.
Write(n) ==
  LET taken == IF n > remaining THEN remaining ELSE n
  IN /\ kept' = kept + taken
     /\ remaining' = remaining - taken
     /\ truncated' = (truncated \/ n > remaining)
     /\ received' = received + n

-----------------------------------------------------------------------------
(* The goroutine that copies the output. *)

CopyChunk ==
  /\ copier = "reading" /\ pipes = "open"
  /\ \E n \in 1..inPipe : Write(n) /\ inPipe' = inPipe - n
  /\ UNCHANGED <<platform, ctx, mainVars, watchVars, processVars, copier, pipes, written>>

\* End of file: the pipe is empty and nobody holds the other end; or this end
\* was closed under it.
CopyEnds ==
  /\ copier = "reading"
  /\ (inPipe = 0 /\ ~Held) \/ pipes = "closed"
  /\ copier' = "done"
  /\ UNCHANGED <<platform, ctx, mainVars, watchVars, processVars, pipeVars, bufferVars>>

-----------------------------------------------------------------------------
(* cmd.Run in the caller's goroutine. *)

\* Start: not at all when the context is done already; it may fail; else the
\* watcher and the copying goroutine are started with the shell.
Start ==
  /\ main = "starting"
  /\ \/ /\ ctx # "live"
        /\ main' = "collected" /\ err' = "context"
        /\ UNCHANGED <<watcher, copier>>
     \/ /\ ctx = "live"
        /\ main' = "collected" /\ err' = "start"
        /\ UNCHANGED <<watcher, copier>>
     \/ /\ ctx = "live"
        /\ main' = "waiting" /\ watcher' = "armed" /\ copier' = "reading"
        /\ UNCHANGED err
  /\ UNCHANGED <<platform, ctx, result, watchErr, timer, treeLost, processVars, pipeVars,
                bufferVars>>

ProcessWait ==
  /\ main = "waiting" /\ ~Alive
  /\ main' = "watching"
  /\ err' = IF shell = "zero" THEN "nil" ELSE "exit"
  /\ UNCHANGED <<platform, ctx, result, watchVars, processVars, copier, pipeVars, bufferVars>>

\* The watcher hands over: nothing when it was not needed, its error and its
\* running timer, or its error after it has seen to the output itself.  Without
\* a timer Wait starts one now.
TakeWatch ==
  /\ main = "watching"
  /\ \/ watcher \in {"armed", "offering"}
     \/ watcher = "overrun" /\ copier = "done"
  /\ watcher' = "done"
  /\ main' = IF copier = "done" /\ ~timer THEN "collected" ELSE "piping"
  /\ timer' = (timer \/ copier # "done")
  /\ err' = IF err = "nil" THEN watchErr ELSE err
  /\ UNCHANGED <<platform, ctx, result, watchErr, treeLost, processVars, copier, pipeVars,
                bufferVars>>

PipesEnd ==
  /\ main = "piping" /\ copier = "done"
  /\ main' = "collected"
  /\ UNCHANGED <<platform, ctx, err, result, watchVars, processVars, copier, pipeVars, bufferVars>>

\* Mutant: without a WaitDelay the end of the output is awaited.
NeverOver == FALSE

\* configureCommand sets cmd.WaitDelay, on both platforms: two seconds after its
\* timer was started.
WaitDelayOver == timer

\* WaitDelay is over: the pipes are closed, ErrWaitDelay unless there is an error.
PipesExpire ==
  /\ main = "piping" /\ WaitDelayOver
  /\ main' = "draining"
  /\ pipes' = "closed"
  /\ err' = IF err = "nil" THEN "wait_delay" ELSE err
  /\ UNCHANGED <<platform, ctx, result, watchVars, processVars, copier, inPipe, written,
                bufferVars>>

Drained ==
  /\ main = "draining" /\ copier = "done"
  /\ main' = "collected"
  /\ UNCHANGED <<platform, ctx, err, result, watchVars, processVars, copier, pipeVars, bufferVars>>

\* Mutant: an output that was cut off is no error.
ReturnTolerant ==
  /\ main = "collected"
  /\ main' = "returned"
  /\ result' =
       [exit |-> IF err \in {"nil", "wait_delay"} THEN "zero"
                 ELSE IF err = "exit" /\ (shell = "nonzero" \/ platform = "windows")
                 THEN "nonzero" ELSE "minus_one",
        timedOut |-> ctx = "passed",
        error |-> IF err \in {"nil", "wait_delay"} THEN "none"
                  ELSE IF ctx = "passed" THEN "timed_out"
                  ELSE IF err = "exit" THEN "none"
                  ELSE IF ctx = "cancelled" THEN "canceled" ELSE "other"]
  /\ UNCHANGED <<platform, ctx, err, watchVars, processVars, copier, pipeVars, bufferVars>>

\* The result of Run: the context is looked at after the command is over, so a
\* deadline that has come meanwhile counts; an ExitError brings its code (for a
\* shell that was killed -1, on Windows 1); other errors bring -1 and the context's
\* reason first.
Return ==
  /\ main = "collected"
  /\ main' = "returned"
  /\ result' =
       [exit |-> IF err = "nil" THEN "zero"
                 ELSE IF err = "exit" /\ (shell = "nonzero" \/ platform = "windows")
                 THEN "nonzero" ELSE "minus_one",
        timedOut |-> ctx = "passed",
        error |-> IF err = "nil" THEN "none"
                  ELSE IF ctx = "passed" THEN "timed_out"
                  ELSE IF err = "exit" THEN "none"
                  ELSE IF ctx = "cancelled" THEN "canceled" ELSE "other"]
  /\ UNCHANGED <<platform, ctx, err, watchVars, processVars, copier, pipeVars, bufferVars>>

-----------------------------------------------------------------------------
(* The watcher goroutine of os/exec and the Cancel functions of this program. *)

Fire ==
  /\ watcher = "armed" /\ ctx # "live"
  /\ watcher' = "cancelling"
  /\ UNCHANGED <<platform, ctx, mainVars, watchErr, timer, treeLost, processVars, copier,
                pipeVars, bufferVars>>

Killed == IF Alive THEN "killed" ELSE shell
Survivor == IF child = "escaped" THEN child ELSE "none"

\* Mutant: kill(pid).
KillShell ==
  /\ shell' = Killed
  /\ watchErr' = IF Reaped THEN "cancel" ELSE "context"
  /\ UNCHANGED <<child, treeLost>>

\* kill(-pid): the whole group; an error when nobody is left in it.
KillGroup ==
  /\ shell' = Killed /\ child' = Survivor
  /\ watchErr' = IF Reaped /\ child \notin {"attached", "quiet"} THEN "cancel" ELSE "context"
  /\ UNCHANGED treeLost

\* taskkill /T /F: the tree under the shell; when it fails, as it does for a
\* shell that is gone, at least the shell.  Killing one that is gone is no error.
KillTree ==
  /\ shell' = Killed /\ watchErr' = "context"
  /\ \/ Alive /\ child' = Survivor /\ UNCHANGED treeLost
     \/ treeLost' = TRUE /\ UNCHANGED child

Cancel ==
  /\ watcher = "cancelling"
  /\ IF platform = "windows" THEN KillTree ELSE KillGroup
  /\ watcher' = "offering"
  /\ timer' = TRUE
  /\ UNCHANGED <<platform, ctx, mainVars, copier, pipeVars, bufferVars>>

\* WaitDelay is over before Wait has come for the result: kill the shell, if it is
\* still there, and close the pipes.
Overrun ==
  /\ watcher = "offering" /\ WaitDelayOver /\ main \in {"waiting", "watching"}
  /\ watcher' = "overrun"
  /\ shell' = Killed
  /\ pipes' = IF copier = "done" THEN pipes ELSE "closed"
  /\ timer' = FALSE
  /\ UNCHANGED <<platform, ctx, mainVars, watchErr, treeLost, child, copier, inPipe, written,
                bufferVars>>

-----------------------------------------------------------------------------
(* The shell, its child, and the caller. *)

Emit(n) ==
  /\ Started /\ Held /\ pipes = "open"
  /\ written + n <= MaxOutput
  /\ written' = written + n /\ inPipe' = inPipe + n
  /\ UNCHANGED <<platform, ctx, mainVars, watchVars, processVars, copier, pipes, bufferVars>>

ShellExits ==
  /\ Alive
  /\ shell' \in {"zero", "nonzero"}
  /\ UNCHANGED <<platform, ctx, mainVars, watchVars, child, copier, pipeVars, bufferVars>>

ShellForks ==
  /\ Alive /\ child = "none"
  /\ child' \in ChildKinds
  /\ UNCHANGED <<platform, ctx, mainVars, watchVars, shell, copier, pipeVars, bufferVars>>

ChildExits ==
  /\ child # "none"
  /\ child' = "none"
  /\ UNCHANGED <<platform, ctx, mainVars, watchVars, shell, copier, pipeVars, bufferVars>>

\* The timeout comes, or the agent's context is cancelled.
ContextEnds ==
  /\ ctx = "live" /\ main # "returned"
  /\ ctx' \in {"passed", "cancelled"}
  /\ UNCHANGED <<platform, mainVars, watchVars, processVars, copier, pipeVars, bufferVars>>

-----------------------------------------------------------------------------
Init ==
  /\ platform \in Platforms
  /\ ctx = "live" /\ main = "starting" /\ err = "nil"
  /\ watcher = "none" /\ watchErr = "nil" /\ timer = FALSE
  /\ shell = "no" /\ child = "none"
  /\ pipes = "open" /\ copier = "none" /\ inPipe = 0 /\ written = 0
  /\ received = 0 /\ remaining = OutputLimit /\ kept = 0 /\ truncated = FALSE
  /\ treeLost = FALSE
  /\ result = Run!Unanswered

MainStep ==
  Start \/ ProcessWait \/ TakeWatch \/ PipesEnd \/ PipesExpire \/ Drained \/ Return
WatcherStep == Fire \/ Cancel \/ Overrun
CopierStep == CopyChunk \/ CopyEnds
Environment ==
  \/ \E n \in 1..MaxOutput : Emit(n)
  \/ ShellExits \/ ShellForks \/ ChildExits \/ ContextEnds

Next == MainStep \/ WatcherStep \/ CopierStep \/ Environment

Spec == Init /\ [][Next]_vars

\* The goroutines are scheduled and the timer fires; nothing is assumed of the
\* shell, of its child and of the caller.  taskkill returns.
Fairness == WF_vars(MainStep) /\ WF_vars(WatcherStep) /\ WF_vars(CopierStep)

FairSpec == Spec /\ Fairness

-----------------------------------------------------------------------------
(* Properties. *)

\* Types of the variables; a result stands when Run has returned.
TypeOK ==
  /\ platform \in Platforms
  /\ ctx \in {"live", "passed", "cancelled"}
  /\ main \in {"starting", "waiting", "watching", "piping", "draining", "collected", "returned"}
  /\ err \in {"nil", "context", "start", "exit", "cancel", "wait_delay"}
  /\ watcher \in {"none", "armed", "cancelling", "offering", "overrun", "done"}
  /\ watchErr \in {"nil", "context", "cancel"}
  /\ timer \in BOOLEAN
  /\ shell \in {"no", "zero", "nonzero", "killed"}
  /\ child \in Children \cup {"none"}
  /\ pipes \in {"open", "closed"}
  /\ copier \in {"none", "reading", "done"}
  /\ inPipe \in Nat /\ written \in Nat /\ received \in Nat
  /\ remaining \in Nat /\ kept \in Nat
  /\ truncated \in BOOLEAN /\ treeLost \in BOOLEAN
  /\ result \in Run!Answers \cup {Run!Unanswered}
  /\ main = "returned" <=> result # Run!Unanswered

\* Of what the buffer was given the server gets all that fits, however it came in
\* pieces, and the mark says whether there was more.  Set, the mark is true: the
\* command has written more than the server gets.  Not set, it is to be trusted
\* with exit code 0 only: then the server gets every chunk that was written.  With
\* another exit code WaitDelay may have cut the output off, which no mark tells.
TruncationExact ==
  /\ kept = (IF received > OutputLimit THEN OutputLimit ELSE received)
  /\ truncated <=> received > OutputLimit
  /\ truncated => kept < written
  /\ result.exit = "zero" /\ ~truncated => kept = written

\* Exit code 0 means that the shell ended by itself with 0 and that its output was
\* collected to the end: nobody can add to it and nothing of it was lost.
ZeroMeansComplete ==
  result.exit = "zero" => shell = "zero" /\ ~Held /\ received = written

\* Whatever of the command's process group outlives the answer was left by a shell
\* that had ended by itself, or taskkill has failed
\* (process_unix.go: a timeout stops the complete command).
TimeoutStopsTree ==
  main = "returned" /\ shell = "killed" /\ ~treeLost => child \in {"none", "escaped"}

\* Run keeps the promise of CommandRun, the promise to return included.
KeepsPromise == Run!LiveSpec
=============================================================================
