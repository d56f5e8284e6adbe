# A TLA+ model of idata-client

idata-client is a desktop agent: it keeps one WebSocket connection to a server,
runs commands and shells for it, and lets a user (through a native window on
Windows, from a console elsewhere) choose, cancel and end that connection.
These modules model the parts of it in which several things happen at once.

## 1. The system

| component | where | state | operations | modelled in |
|---|---|---|---|---|
| event loop | `cmd/idata-client/main.go`, `run` | connection generation, live context, active URL, base URL, credential, saved configuration | one handler per branch of the `select` | `Controller` |
| connection goroutines | `startEnrollment`, `startAgent`, `agent.Run`, `enrollment.Request` | stage of each goroutine, channel `events` | submit, poll, dial, serve, report, back off | `ConnectionWorkers` |
| front end | `config_ui_windows.go`, `config_ui_other.go` | channel `actions`, pending updates, panel, `connecting` | clicks, close, `update` | `ClientUI` |
| server addresses | `main.go:426-618` | none | port choice, URL building, validation | `ServerAddress` |
| agent connection | `internal/agent/agent.go` | read loop, context, command and pairing semaphores, wait group | read, refuse, run, answer, tear down, reconnect | `AgentSession` |
| terminal sessions | `internal/terminal` | session registry, per shell: process, pipes, close state, three goroutines | open, input, close, close all, copy, wait, kill | `TerminalManager` |
| command executor | `internal/executor`, os/exec as it is used | process, watcher, timer of WaitDelay, bounded buffer | run with deadline | `CommandExecutor`, what it promises in `CommandRun` |
| browser bridge | `internal/browserbridge`, `startBrowserBridge` | listener, bind attempts, pending launch | identity, launch, bind, shut down | port and launches between processes in `ClientProcesses`, the launch request in `Controller` |
| configuration file | `loadFileConfig`, `saveFileConfig` | `idata-client.json` | load, save | the copy in memory in `Controller`, the file in `ClientProcesses` |
| start and hand-over to a running client | `main.go:73-180`, `localClientRunning`, `ForwardLaunch` | stage of the start | load, name, probe, forward | `ClientProcesses` |
| pairing prompt | `internal/pairingprompt` | dialog | confirm, expire | as a task of `AgentSession` |
| messages, logging, identity, URL protocol, fatal dialog | rest | none of interest | I/O | no |

How they interact. The event loop is the only goroutine that touches the
generation, the credential and the configuration. It starts one goroutine per
connection (enrolment first when there is no credential), under a context of
that connection; the goroutines report over the buffered channel `events`, and
every event carries the generation of its connection. The window runs on a
thread of its own, sends wishes over `actions` without blocking, and receives
updates as closures that it runs later. The bridge's HTTP handlers put launch
URLs into a channel of one place; the bridge lives as long as the context of a
connection. Several processes of the same executable share the configuration
file and the bridge's port: one started by a link looks for a bridge, hands its
launch over and ends. Under an agent connection one read loop starts
goroutines for commands, prompts and shells, which write to the connection
themselves and must be gone before the next connection.

What is hard: late events of a cancelled connection; a `select` that picks any
ready branch; updates applied after the user did something else; channels at
their capacity; a save that fails half-way through a handler; the order of
deferred calls at the end of a connection; a session that is closed, killed,
reaped and unregistered by different goroutines; a write that blocks the only
goroutine that could end it; a deadline, a `taskkill` and the end of a command
that meet; a file that is overwritten in place; a probe that is not yet the
start. `PROJECT.json` lists these hazards at their lines.

## 2. Modules

```
ServerAddress ---- ConnectionWorkers ---+
       |                                +--- Controller --- MCController
       +---------- ClientUI ------------+         |
Connection <====================================  +--- ControllerProofs --- WindowProofs
                                                              +------------ ConnectionProofs
RequestService <=== AgentSession --- MCAgentSession              (<== is implemented by)
                         +---------- AgentSessionProofs
TerminalService <== TerminalManager --- MCTerminalManager
                         +------------- TerminalManagerProofs --- TerminalServiceProofs
CommandRun <======= CommandExecutor --- MCCommandExecutor
                         +------------- CommandExecutorProofs
ClientProcesses --- MCClientProcesses
     +------------- ClientProcessesProofs
```

**ServerAddress** computes with parsed URLs (scheme, host, port). The path is
constant and left out.

**ConnectionWorkers** has a set of goroutine records; `at` is the point of the
code a goroutine has reached. A context is identified by the generation it was
created for; it is cancelled when it is not `activeContext` any more or the
process is interrupted. `Report` is the `select` between the send and the
cancellation: both branches are possible when both are ready. The URL in an
event and the credential in a rejection are not in the code's event; they are
history, for the properties only.

**ClientUI** is the window. `Emit` drops an action when the channel is full.
`updates` is walk's queue of closures: `ApplyUpdate` runs one. `TrayExit` is the
menu of the tray icon: it sends `quit` and leaves the window open. The action
`ready`, which the loop only logs, is left out. Without a window (`HasWindow`
FALSE) there is one queued `connect` and updates are prints. The window's own
thread applies updates in order; closing the window drops those that wait.

**Controller** is `run`: one action per branch of the `select`, with everything
the handler does, saving included. `SaveOutcomes` is the result of
`saveFileConfig`. The credential is kept only in the two copies the code has
(`agentToken`, `fileConfig.agentToken`); `wish` is history. A launch passes
through `inflightLaunch` (an HTTP handler of the bridge) and `launchRequests`.

**Connection** is the client as the user and the server see it, without goroutines,
queues and generations: is a connection wanted (`live`), who has it in hand
(`owners`: nobody, an enrollment, an agent, or an approved or refused credential
on its way between them), and with which credential. A credential changes only
in `Accept`, by what the server issued to the owner, and in `Renew`, after the
server refused the very credential in use; an owner hands over at the address it
was given; an agent comes to nothing only when the connection or the process is
given up. `Controller` implements it with `live <- activeContext # 0` and
`owners <- Owners`, computed from the goroutines and the events of the current
generation: whatever belongs to a former one must not show.

**RequestService** is the agent as the server sees it: each message it sent is
unread, accepted, answered or lost; the link is up, ending, broken or closed. A
message is lost only on a link that has failed, or that fails over it; an answer
needs a link that can be written; the link closes only when no accepted message
is open. `AgentSession` implements it: `Fate` and `Link` compute both from the places
of the goroutines, the history of answers, the context and the connection. A goroutine
whose answer could not be written is still *accepted* until it gave its slot back.

**AgentSession** is one `connectAndServe` after the other. A task (command or
pairing) moves `new -> queued -> running -> answering -> releasing -> done`, or
is refused by the read loop. `epoch` is the connection that it was read from;
its context is done when that connection is over or `ctxDone`. `conn` is `mute`
after a failed write: the library fails every later write, reading goes on. `ReadFails`
needs no lost connection, malformed JSON ends the loop as well (`agent.go:188`). The
watcher goroutine of `connectAndServe` is an action of its own, `Watcher`.
`BackOff` is the arithmetic of `Run` between two attempts, in seconds: the time
since the attempt began, which includes the wait with its jitter, decides on the
next wait. `RetryFails` is an attempt that does not get a connection.

**TerminalService** is the terminal sessions as the server sees them: slots named by
IDs, one shell in each, `told` what was sent about it. A shell is opened only when
all that hold a slot were announced, is announced while the read loop serves,
frees its slot only dead and announced, and is reported closed after that.
`TerminalManager` implements it: `slot <- sessions`, `shell <- proc`, `told <- sent`,
and the read loop serves until it leaves.

**TerminalManager** is `Manager` with its driver. Per shell: the process, one
background child, the input pipe, `closing` (the `sync.Once` and its body),
two `copier` and one `waiter` goroutine, and `killed`, the watcher that os/exec
runs for `exec.CommandContext`. A child is *attached* (group and output of the
shell), *quiet* (output redirected) or *escaped* (a group of its own, output
kept). `WriteOutput` is the shell or a child writing to one of the two output pipes;
`pipe` says whether a chunk waits there, and remembers (history) that one was lost:
in a failed write to the server, or when `cmd.Wait` closed a pipe that was not read to
its end. `ReadFails` is any failing `ReadJSON`: the connection is gone, or the server
sent something that is not JSON, and then the goroutines can still write while the
loop leaves. The POSIX build is modelled. The second check of `Open` at registration
cannot fail, since only the read loop opens; what remains of it is a comment.

**CommandRun** says what a caller of `executor.Run` may rely on, in three
variables: the context, the end of the shell, the answer. `Truthful` relates a
result to the other two; `Returns` says that it comes.

**CommandExecutor** is the whole of one `executor.Run`: the caller's goroutine
inside `cmd.Run` (`main`), the goroutine that copies the output, the watcher of
os/exec that calls this program's `Cancel`, the timer of `WaitDelay`, the shell
and a child of it. `KillGroup` is `process_unix.go`, `KillTree` is
`process_windows.go`; `platform` is chosen at the beginning. os/exec is
library code: it is modelled from the fields this program sets and marked
external in the map. Stdout and stderr are alike and are one stream here.
`CommandRun` is implemented under the mapping `limit <- ctx, ended <- shell,
answer <- result`.

**ClientProcesses** is the executable started again and again. A process
moves `off -> naming -> checking -> forwarding | client -> off`: it loads the
file, saves an identity if it has none, asks for a bridge if a link started it,
and hands its launch over or becomes a client. `os.WriteFile` is two steps, the
truncating open and the write; between them a process can die, the disk can fill
and another process can load or save. `config` is a process's copy of the file;
a credential is named after the identity it was issued to. `port` is the
listener of the bridge and whether the connection it belongs to still lives. What
a client does with its connection is the controller's: here it is online or not.

The modules **MC...** give constants values and symmetry; the modules
**...Proofs** hold the theorems. A definition whose comment begins with
`Mutant` is a wrong version of the definition that follows it; no action
uses it. It is there to show that the properties can fail.

## 3. Runs

| run | specification | checks |
|---|---|---|
| `ControllerCLI` | `Controller!Spec`, console | `TypeOK`, `OneOwner`, `CredentialAgreement`, `DroppedTokenWasRejected`, `SavedAddressWasReached`, `LaunchHonoured`, `ServesOneConnection` (the refinement of `Connection`) |
| `ControllerWindow` | `Controller!Spec`, window | `DisconnectIsFinal`, `CloseIsClean`, `StatusPageHasConnection`, `OnlineUnlessRefused`, `ConnectedOnlyWhenLive` |
| `ControllerLive` | `Controller!FairSpec`, window | `CancelledWorkersFinish`, `RejectionLeadsToEnrollment`, `DisconnectTakesEffect` |
| `Session` | `AgentSession!FairSpec` | `TypeOK`, `ParallelLimit`, `NothingOutlivesConnection`, `ServesRequests` (the refinement of `RequestService`), `ConnectionEndIsPrompt`, `AcceptedIsAnswered` |
| `Terminal` | `TerminalManager!Spec` | `TypeOK`, `ProcessLimit`, `TeardownReachesAll`, `ClosedIsComplete`, `OutputInOrder`, `ServesTerminals` (the refinement of `TerminalService`) |
| `TerminalLive` | `TerminalManager!FairReadingSpec` | `CloseFreesSlot`, `CloseEndsTree`, `LossEndsShells`, `GoroutinesEnd` |
| `Executor` | `CommandExecutor!FairSpec` | `TypeOK`, `TruncationExact`, `ZeroMeansComplete`, `TimeoutStopsTree`, `KeepsPromise` (the refinement of `CommandRun`) |
| `Processes` | `ClientProcesses!Spec` | `TypeOK`, `CredentialIsForDevice`, `BrokenFileHasCause`, `BridgeYieldsToClient` |

All of these pass. `ServesRequests` contains `CommandsAnsweredOnce`, and `ServesTerminals` contains
`RunningIsRegistered`: these two are stated and proved, and have no run of their own.
`ConnectedOnlyWhenLive` holds in `ControllerWindow` because
that run accepts every typed address, and `LossEndsShells` in `TerminalLive`
because its shells read their input; two runs below lift these restrictions.
`DisconnectIsFinal` is about the user alone: with `Launches <- OneLaunch` it fails,
since a launch queued before the user's disconnection connects after it.

### Runs that end in a counterexample

| run | what the code does | what is written |
|---|---|---|
| `InsecureConnect` | a connect to a refused address cancels the connection and keeps its generation: the queued "connected" of the cancelled connection opens the status page and is saved (`main.go:268-277`) | README.md:62, the window switches once the connection is really established |
| `TerminalBlocked` | input for a shell that does not read blocks the read loop for good (`manager.go:133`) | README.md:103-104, the shell ends when the connection breaks |
| `BackoffReset` | a failed attempt counts as a stable connection once its wait is long enough: the back-off falls from its cap to one second (`agent.go:93`) | README.md:121, reconnects by exponential back-off |
| `SecondClient` | a running client without a connection has no bridge, so a link starts a second client (`main.go:148`, `665-672`) | README.md:84-86, the new process exits and makes no second agent connection |

### Bounds

- `MaxGeneration` (3): connects, disconnects and launches together. A stale
  event needs two generations, a stale event that meets a third connection with
  another credential needs three. `InsecureConnect` needs one more click.
- `EventCap` (2, in `ControllerLive` 1; 16 in the code): full channels are then
  common. `WorkerIds` (3) bounds goroutines alive at once; `UpdateCap` (3) how far
  the window lags. `Turn` waits at these two bounds; the fairness below is on the
  actions with these guards, and a worker or the window always moves on.
- `ActionCap` is that of the build (16 with a window). `Backlog` (15) bounds how many
  actions may be waiting when the user asks for one more; it is there for the
  theorems. `MaxGeneration` counts waiting actions too, so the clicks of these runs
  never fill the queue. With two places instead of 16 and `Backlog` at 2, TLC finds
  `CloseIsClean` violated, with `Backlog` at 3 and `MaxGeneration` at 4
  `DisconnectIsFinal`: a full queue drops the user's action.
- Two credentials, two or three hosts (loopback, other, the one with a port of
  its own), one saved configuration with and one without credential.
- `Session`: two commands over one slot and two pairings over one prompt, so
  that each limit has one task too many, and two connections, so that tasks of
  the first could meet those of the second. The durations are cut to one second
  there and have no part in its properties; `BackoffReset` has those of the code.
- `Terminal`: two shells and two IDs over one slot. An ID can be opened while
  its former shell still dies, and one open too many is always there. A pipe holds one
  chunk: what matters is whether something is left in it.
- `TerminalLive`: one shell with every kind of child; two are too many for the liveness
  check in reasonable time. It opens, closes, fails and is torn down as in `Terminal`, where
  two shells meet in one registry; with one slot, a second shell starts only after
  the first has left it. What shells share (registry, connection, read loop) is covered by
  `Terminal` and the theorems, for safety.
- `Executor`: a buffer of two chunks and a command that writes up to four, in pieces
  of any size: below, at and above the limit, in one piece and across it.
- `Processes`: two processes, as many starts as one likes, three bind attempts (an attempt
  that meets a closing listener, one that meets another client, and one more);
  `SecondClient` has the 20 of the code.
- Symmetry (permutations of shells and of session IDs) is used in `Terminal` only.

### Fairness

The `select` of the loop picks uniformly among ready branches, so a branch
that is ready again and again is taken: strong fairness per branch. The three
actions of the user's channel are one branch. Goroutines and the window's thread
are scheduled: weak fairness; a served connection may last for ever while it is
not cancelled, and the user, the signal and the server owe nothing. In
`AgentSession` the slot is granted fairly (the channel's queue is first in, first
out), tasks end only when cancelled; `AcceptedIsAnswered` has the premise
`DeadlinesCome`, that their time limit comes. In `TerminalManager` nothing is assumed
of shells, children and network. The read loop is taken to leave when the connection is
lost, and not because of a malformed message, which no server owes. `FairReadingSpec` adds that a running shell reads
its input now and then. In `CommandExecutor` the three goroutines are scheduled, the timer
of `WaitDelay` fires and `taskkill` returns (it has no time limit of its own);
nothing is assumed of the shell, its child and the caller. `ClientProcesses` has
safety properties only.

`CHECK_DEADLOCK FALSE` is set for the agent, the terminal and the executor: when the
parent is cancelled or the answer is given they stop for good, as intended; and for
the processes: a broken file lets none start. The controller has the
stuttering step `Ended` for that and is checked for deadlock.

## 4. What is correct, part by part

- *Event loop*: one owner per connection at any time (`OneOwner`, and the theorem about
  `OneLiveWorker`); stale events change nothing, so what the loop remembers agrees with
  what the live connection uses (`CredentialAgreement`); all of it together is one
  connection, step by step (`ServesOneConnection`); a
  credential is given up only because that credential was refused
  (`DroppedTokenWasRejected`); an address is remembered only after the server
  answered a session or an application under it (`SavedAddressWasReached`); a launch goes where it says (`LaunchHonoured`).
- *Window and loop together*: after the user disconnects or closes nothing
  connects for him (`DisconnectIsFinal`, `CloseIsClean`); when all has settled the
  status page is about the connection that exists (`StatusPageHasConnection`), and it
  says "online" of a connection that is down only when its credential was refused
  (`OnlineUnlessRefused`); only live connections are shown as established
  (`ConnectedOnlyWhenLive`); his wish takes effect whatever else is queued
  (`DisconnectTakesEffect`).
- *Goroutines*: a cancelled one ends although nobody may read its last report
  (`CancelledWorkersFinish`); a refused credential leads to a new enrolment
  (`RejectionLeadsToEnrollment`).
- *Agent connection*: the limits hold over reconnections (`ParallelLimit`,
  `NothingOutlivesConnection`); a message is answered once or lost with its connection
  (`ServesRequests`); the end of a connection is never held up, and what was
  accepted is answered (`ConnectionEndIsPrompt`, `AcceptedIsAnswered`).
- *Terminal*: the server sees slots with one shell each, announced in turn and closed
  after they are free (`ServesTerminals`); the limit and the teardown find every shell;
  output stays within its session (`OutputInOrder`), and "closed" is sent when all the
  output there will be was sent: no one can add to it, none is in a pipe or in flight, none was lost
  (`ClosedIsComplete`); a closed page ends the shell's process group, unless the shell ended by itself
  and was reaped before the kill (`CloseEndsTree`); slots come back, shells and goroutines end,
  unless a child outside the group keeps the output (`CloseFreesSlot`, `LossEndsShells`,
  `GoroutinesEnd`; the last also leaves out the session whose "opened" failed, which has no goroutines).
- *Executor*: an answer always comes when the shell has ended or must be ended, and is
  true of the command (`KeepsPromise`); exit code 0 stands for complete output
  (`ZeroMeansComplete`); the answer holds all that fits, the truncation flag says whether
  the buffer was given more, is true when set, and with exit code 0 is true when not set
  (`TruncationExact`; with another exit code `WaitDelay` may cut the output without a flag); a
  timeout ends the process group, unless `taskkill` fails (`TimeoutStopsTree`).
- *Processes*: however many processes write the one file, the credential in it was
  issued to the identity in it (`CredentialIsForDevice`); the file is unreadable only
  because a save was cut short or met another one (`BrokenFileHasCause`); the bridge
  of a new connection survives the listener of the former one (`BridgeYieldsToClient`).

## 5. Proofs

`tlapm` checks all of it with Z3, Zenon and LS4. The theorems hold for all values
of the constants that satisfy the assumptions in the modules: capacities and
bounds are positive, sets of names are finite where they are counted, marks such
as `NoTask` are not members of the sets they extend, and the configured URLs are
URLs over `Hosts`.

**ControllerProofs.** None of the safety invariants is inductive alone. That at most
one owner exists after a report depends on whose context is cancelled, hence on
`ContextIsCurrent`; that an approval or a rejection is handed over depends on what
the events in the channel say, hence on `CredentialAgreement`. The inductive
invariant is their conjunction,

    IInv == TypeOK /\ ContextIsCurrent /\ OneOwner /\ CredentialAgreement /\ AddressAgreement

Every step of `Next` is one of six kinds, as far as the connection is concerned: it
opens a generation, cancels the live one, consumes an event, hands a connection
over from an event to a new goroutine, is work of one goroutine, or
changes nothing (`StepKinds`). Each invariant is proved once per kind, not
once per action. `OneLiveWorker` follows from `IInv`, `AddressAgreement` is part of it; `DroppedTokenWasRejected`
and `SavedAddressWasReached` are action properties read off the events under
`IInv`: what an event says was true when it was sent, and `AddressAgreement` carries the
address of the goroutine that had the answer to the handler that saves `activeURL`. `LaunchHonoured` needs one more invariant, that the URLs queued by
the bridge were validated there (`QueuedLaunchesValid`), and a computation on URLs
(`LaunchCandidate`). `RememberedReconnects` is about the same computation applied twice: what
`CandidateURL` makes of a host is what it makes of its own result (`CandidateStable`), so a
saved address leads back to itself after a restart, the special port included.

Three theorems about goroutines that were cancelled contain all of
`CancelledWorkersFinish` but the scheduling: a cancelled context never comes back
(`CancellationIsFinal`), since generations only grow; each further step of such a
goroutine lowers `StepsLeft`, which is at most five (`CancelledDescends`), since none of
them leads back to dialling or polling; and no goroutine starts cancelled
(`NoneStartsCancelled`).

**ConnectionProofs** proves from `IInv` that each of the six kinds is a step of
`Connection` or a stutter: opening is `Open`, cancelling `Close`, handing over `Accept` or
`Renew`, the work of a goroutine `Issue`, `Refuse`, `GiveUp` or nothing. Each part of
`IInv` has its use: `OneOwner` makes `Owners` a set of at most one element and excludes
that a step of one owner leaves another; `AddressAgreement` and
`CredentialAgreement` are what lets the handler of an event, which reads
`activeURL` and `agentToken`, act for the owner that sent it; `ContextIsCurrent` that
a new generation starts without owners. `ControllerIsOneConnection` concludes.

**WindowProofs** builds on it and proves what the window and the loop agree on. Three
facts of the surroundings are hypotheses, each of the theorems that fail without it:

- `Backlog < ActionCap` (`CloseCorrect`), `Backlog <= ActionCap` (`DisconnectCorrect`): the user
  is never as far ahead of the loop as the queue is long. A full queue drops a
  `quit` or a `disconnect`.
- `UsersAlone` (`DisconnectCorrect` only): no launch link arrives. One that was queued
  before the disconnection connects after it.
- `AddressesUsable` (`StatusCorrect`, `ConnectedCorrect`, `OnlineCorrect`): every address that
  can be entered or launched passes validation, as in the default configuration,
  which allows insecure addresses. The run `InsecureConnect` is the counterexample
  without it. Launches may arrive at any time.

`CloseInv` says that a closed window leaves a `quit` in the queue until the loop ends;
`WishInv` that the last action in the queue, or else the context, is what the user
wished for. `WishesKeepTheirTurn` has no hypothesis: a `disconnect` or `quit` that got into the
queue is not overtaken before the connection is down, which is the part of
`DisconnectTakesEffect` that does not depend on the `select`.

For the pages the argument is about the queues between the goroutines, the loop and
the screen: while no connection is live, nothing that runs or waits in `events` is
current (`NothingCurrent`), and what waits in `updates` ends with the login page
(`LoginInTheEnd`). `OnlineUnlessRefused` is about a live connection that nobody serves
(`Deserted`: its goroutine waits to dial again, and no approval or refusal is on its way).
`PageInv` says that "online" is then taken back (`OfflineInTheEnd`): behind every "connected"
that waits in `events` comes a "retrying" or an error of the same connection, and one of
these is still in `events` (`RetractionArrives`) or behind every "online" in `updates` and on
the page (`PageRetracted`). That an approval or refusal is the last event of its connection
(`BatonIsLast`) keeps the handler that consumes one from leaving a connection deserted with
a "connected" still to come.

**AgentSessionProofs.** `IInv` adds to `NothingOutlivesConnection` that tasks come from no
later connection, what the history of answers says of each stage, and that
each semaphore of *this* connection is within its capacity. `ParallelLimit`, which
counts over all connections, then follows: whoever runs belongs to this connection.
`ImplementsRequestService` is the step simulation of `RequestService`. It rests on
`NothingOutlivesConnection` (a link that closes has nothing open), on what the history of
answers says (a goroutine that ends unanswered ends on a failed link) and on
`LeavingIsCancelled` (a link that closes has failed before). `WaitIsBounded` is
`ConnectionEndIsPrompt` without fairness: in `commands.Wait` nobody joins, and each goroutine has at
most four steps left, none of which waits for a command to end by itself.

**TerminalManagerProofs.** `RunningIsRegistered` needs that the wait goroutine passes
`cmd.Wait` only with the process dead; `OutputInOrder` that the wait goroutine is in
`output.Wait` while a copier works; `TeardownReachesAll` the snapshot
of `CloseAll` followed step by step. `ProcessLimit` follows from the size of the
registry: the map from entries to shells is onto the running ones. `ClosedIsComplete` is
not inductive: that a copier leaves only a pipe that nobody holds and that is empty, or else
a connection that cannot be written (`CopiersEndWithOutput`), and that the wait goroutine
passes them all (`WaiterAfterCopiers`) makes it so. A chunk that was lost means a connection that
is not up any more, over which no "closed" is sent.

**TerminalServiceProofs.** `SlotInv` relates three things that different goroutines write:
one ID per session (`OneIdEach`); the wait goroutine exists from "opened" on and is what
holds the slot (`WaiterHoldsSlot`); a session that holds a slot unannounced is the one
being opened, or its "opened" could not be written (`ToldInTurn`). The last part is why
`Open` of the service may ask that all are announced: after a failed write the
connection is mute, so the read loop cannot get past the refusal and opens nothing
more. `ImplementsService` concludes. `SlotsAreOwned` and `CloserIsPresent` are what
`CloseFreesSlot` rests on besides fairness: every slot has a goroutine that will free
it, and a close that has begun has a goroutine inside it.

**CommandExecutorProofs.** `IInv` relates the caller's stage to the watcher, the copier and
the timer (`Stages`, `Watching`), the error to the end of the shell (`Errors`), and the
output to the buffer (`BufferInv`, `Output`). `ImplementsCommandRun` is the
safety part of the refinement: under `IInv` every step is a `LimitComes`, a
`CommandEnds`, a `Reply` or leaves the three mapped variables alone. The promise to return is
liveness; what it rests on is proved: when the shell has ended or must end, one of
caller, watcher and copier can move without waiting for the shell or its child
(`NoDeadlock`, from what `Wait` waits for, `Awaited`), and there are at most ten such steps
(`RunIsBounded`).

**ClientProcessesProofs.** The inductive invariant says that every copy of the configuration, in
the file or in a process, matches its identity (`CopiesMatch`), and that who saves alone
writes over an empty file (`SavesAlone`). `BridgeCorrect` needs at least two attempts: the
first may meet the closing listener.

**Only model-checked**: everything under fairness (the `...Live` runs, `ConnectionEndIsPrompt`,
`AcceptedIsAnswered`, the promise to return in `KeepsPromise`), which
the prover does not cover; the counterexample runs. Every safety property of a
passing run has a theorem. Of the liveness properties, the parts that need no
fairness are proved for cancelled goroutines, the queue of wishes, the end of a
connection, the slots of the terminal and the return of a command; that scheduled
steps are taken, and with it the properties themselves, is TLC's. The variants are
defined case by case and not by recursion, so no induction over data is needed.

## 6. Disagreements that no run reports

Seen while modelling, and left out of the runs because they repeat a run's
question, concern one line, or contradict nothing that is written:

- A credential revoked during a connection leaves "online" on the status page until
  the new enrolment ends (`main.go:387-394`; README.md:121, an unexpected end is shown
  there). `OnlineUnlessRefused` says that this is the only such case.
- A late "idle" update resets the page of a connection that is already under way again
  (`config_ui_windows.go:370`; README.md:60, cancel or disconnect first).
- A shell that ends by itself, also on the end of input that `close` causes before it
  cancels, is reaped before its group is killed, so its quiet background processes live
  on (`manager.go:178-180`, `201-206`; README.md:103-104, a closed page ends the process
  tree). `CloseEndsTree` exempts this case; without the exemption TLC finds it.
- A background process that left the shell's group and kept its output outlives the
  close of the page, and holds the slot and the goroutines of the session for as
  long as it lives, also after the connection (`manager.go:178`; README.md:103-104).
  `CloseFreesSlot`, `CloseEndsTree` and `GoroutinesEnd` exempt it.
- A session whose "opened" event failed has neither `copyOutput` nor `wait`
  (`manager.go:101-104`): its shell is killed but stays unreaped and in the registry.
- The address is saved when the application for enrolment is pending (`main.go:367-371`) or
  approved, before any connection; README.md:40 says 成功连接后自动记住, remembered after a
  successful connection. `SavedAddressWasReached` asks for an answer of the server, of
  either kind.
- A launch that was queued before the user's disconnect connects afterwards, since
  the `select` may take the disconnect first (`main.go:305`; README.md:121).
- A launch for the dedicated host gets the dedicated port, whatever port the link
  names (`main.go:587-601`; README.md:85-86 against 67-69). `LaunchHonoured` exempts it.
- The rejection of a token from the environment deletes the token of the
  configuration file as well (`main.go:387-391`; README.md:76).
- A command that ends by itself at its deadline is answered with exit code 0 and
  `timedOut` (`executor.go:51`).
- A background child that keeps the output turns exit code 0 into -1 with "WaitDelay
  expired"; one whose shell ends by itself lives on, past the deadline as well
  (`process_unix.go:13-14` speaks of the complete command). With a
  non-zero exit code the same cut of the output goes unreported.
- A bridge that has failed its 20 attempts stays off until the next connection.
- Two first starts at the same time give themselves different identities, and the
  file keeps one of them. A start that meets a save reads an empty file and ends.

## 7. What is not modelled, and why

- Parsing of URL texts and `idata://` links: characters; the model starts from
  scheme, host and port. Whether a client accepts a forwarded launch is
  `HandleLaunch` of `Controller`; `ClientProcesses` forwards accepted ones.
- The identity endpoint of the bridge and a bridge that is switched off: answers from
  constants under an origin check, no state.
- The Windows terminal shell: its `taskkill` is the one `KillTree` models for a command.
- A `Process.Kill` that fails on a live process after `taskkill` has failed
  (`process_windows.go:30-31`): `KillTree` takes it to end the shell.
- The prompt dialog of a pairing and the window's layout: Win32 calls; URL
  protocol registration, logging, fatal dialog and the reading of the hardware
  identity: I/O without state that another part reads.
- Time: a deadline is an event that may come at any moment; only the back-off counts
  seconds. `Bind` takes one thing from the clock: attempts are 100 ms apart, and a
  listener that has to close is in the way of the first one only.
- Message contents: a message is its request. The argument checks at the head of `Run`
  return at once and are left out, as is the measured duration.

## 8. Plan

1. `AgentSession` and `TerminalManager` composed over one connection and one
   read loop, with a shared `mute` connection, implementing `RequestService` and
   `TerminalService` at the same time.
2. `TerminalManager` with the Windows shell.
3. Proofs: the parts of `LossEndsShells`, `GoroutinesEnd` and `RejectionLeadsToEnrollment` that need no
   fairness; the refinements of item 1.
