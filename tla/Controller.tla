------------------------------ MODULE Controller ------------------------------
(***************************************************************************)
(* The event loop of cmd/idata-client/main.go (function run): the only     *)
(* owner of the connection generation, of the credential and of the saved  *)
(* configuration.  It selects over the interrupt, the end of the window,   *)
(* the user's actions, the launch requests of the browser bridge and the   *)
(* events of the connection goroutines, and a ready branch is picked at    *)
(* random.  One action below is one branch with its whole handler.         *)
(***************************************************************************)
EXTENDS ConnectionWorkers, ClientUI

CONSTANTS
  AllowInsecure,   \* flag --allow-insecure
  ConfigComplete,  \* agent.New accepts the rest of the configuration
  SaveMayFail,     \* writing idata-client.json can fail
  EnvToken,        \* IDATA_AGENT_TOKEN, or NoToken
  Launches,        \* URLs forwarded from idata:// links; empty: bridge "off"
  NoURL,           \* "no URL": nothing saved, no handler in flight
  InitialURLs,     \* values of the flag -server after parsing
  SavedConfigs,    \* contents of idata-client.json at the start
  MaxGeneration,   \* bound: connections and disconnections explored
  UpdateCap,       \* bound: updates the window may lag behind
  Backlog          \* bound: actions that wait when the user asks for one more

MaybeURL == URL \cup {NoURL}
Config == [serverURL : MaybeURL, agentToken : MaybeToken]

ASSUME ControllerAssumption ==
  /\ AllowInsecure \in BOOLEAN /\ ConfigComplete \in BOOLEAN /\ SaveMayFail \in BOOLEAN
  /\ EnvToken \in MaybeToken
  /\ NoURL \notin URL
  /\ Launches \subseteq URL /\ InitialURLs \subseteq URL
  /\ SavedConfigs \subseteq Config
  /\ MaxGeneration \in Nat /\ UpdateCap \in Nat /\ Backlog \in Nat \ {0}

VARIABLES
  generation,      \* counter, bumped by every connect and disconnect
  activeURL,       \* URL of the latest connection
  serverURL,       \* flag variable *serverURL: the base of the next candidate
  agentToken,      \* credential in use, NoToken: enrol first
  fileConfig,      \* in-memory copy of idata-client.json
  launchRequests,  \* channel launchRequests, capacity 1
  inflightLaunch,  \* launch URL held by a bridge handler, or NoURL
  loop,            \* "running", or how run ended: "returned" or "failed"
  wish             \* history: the last thing the user asked for

loopVars == <<generation, activeContext, activeURL, serverURL, agentToken, fileConfig>>
bridgeVars == <<launchRequests, inflightLaunch>>
vars == <<loopVars, bridgeVars, workerVars, uiVars, interrupted, loop, wish>>

LaunchCap == 1

-----------------------------------------------------------------------------
(* The closures of run. *)

\* saveFileConfig: the in-memory copy changes whether or not the write works.
SaveOutcomes == IF SaveMayFail THEN BOOLEAN ELSE {TRUE}

Spawn(role, context, url, token) ==
  workers' = workers \cup {NewWorker(role, context, url, token)}

\* "shown": updates the handler has sent already.
StartEnrollment(context, url, shown) ==
  /\ Spawn("enrollment", context, url, NoToken)
  /\ updates' = PendingAfter(Append(shown, "enrolling"))

StartAgent(context, url, token, shown) ==
  IF ConfigComplete
  THEN Spawn("agent", context, url, token) /\ updates' = PendingAfter(shown)
  ELSE UNCHANGED workers /\ updates' = PendingAfter(Append(shown, "error"))

\* Mutant: the active address is not replaced.
StartSameAddress(ip, previous) ==
  LET candidate == CandidateURL(ip, previous)
      next == generation + 1
  IN IF BuildableURL(candidate) /\ ValidServerURL(candidate, AllowInsecure)
     THEN /\ generation' = next
          /\ activeContext' = next
          /\ IF agentToken = NoToken
             THEN StartEnrollment(next, candidate, <<>>)
             ELSE StartAgent(next, candidate, agentToken, <<>>)
          /\ UNCHANGED activeURL
     ELSE /\ activeContext' = 0
          /\ updates' = PendingAfter(<<"error">>)
          /\ UNCHANGED <<generation, activeURL, workers>>

\* The running connection is cancelled first, also when the new address turns
\* out to be unusable; the generation is bumped only when it is usable.
StartConnection(ip, previous) ==
  LET candidate == CandidateURL(ip, previous)
      next == generation + 1
  IN IF BuildableURL(candidate) /\ ValidServerURL(candidate, AllowInsecure)
     THEN /\ generation' = next
          /\ activeContext' = next
          /\ activeURL' = candidate
          /\ IF agentToken = NoToken
             THEN StartEnrollment(next, candidate, <<>>)
             ELSE StartAgent(next, candidate, agentToken, <<>>)
     ELSE /\ activeContext' = 0
          /\ updates' = PendingAfter(<<"error">>)
          /\ UNCHANGED <<generation, activeURL, workers>>

Stop(outcome) ==
  /\ loop' = outcome
  /\ activeContext' = 0

-----------------------------------------------------------------------------
(* One iteration of the loop.  Bounds: a free name for a goroutine, and a  *)
(* window that has not fallen too far behind.                              *)

Turn ==
  /\ loop = "running"
  /\ UsedIds # WorkerIds
  /\ Len(updates) + 2 <= UpdateCap

OnInterrupt ==
  /\ Turn /\ interrupted
  /\ Stop("returned")
  /\ UNCHANGED <<generation, activeURL, serverURL, agentToken, fileConfig, bridgeVars,
                 workerVars, uiVars, interrupted, wish>>

\* case <-ui.done: drain the actions, look for the "quit" of an orderly close.
OnWindowDone ==
  /\ Turn /\ ~windowOpen
  /\ Stop(IF \E k \in 1..Len(actions) : actions[k].action = "quit"
          THEN "returned" ELSE "failed")
  /\ actions' = <<>>
  /\ UNCHANGED <<generation, activeURL, serverURL, agentToken, fileConfig, bridgeVars,
                 workerVars, updates, screenVars, windowOpen, interrupted, wish>>

TakeAction(kind) ==
  /\ Turn /\ actions # <<>> /\ Head(actions).action = kind
  /\ actions' = Tail(actions)
  /\ UNCHANGED <<serverURL, agentToken, fileConfig, bridgeVars, events, screenVars,
                 windowOpen, interrupted, wish>>

OnConnect ==
  /\ TakeAction("connect")
  /\ StartConnection(Head(actions).ip, serverURL)
  /\ UNCHANGED loop

\* Mutant: the events of the connection are disowned, its context lives on.
DisconnectWithoutCancel ==
  /\ TakeAction("disconnect")
  /\ generation' = generation + 1
  /\ updates' = PendingAfter(<<"idle">>)
  /\ UNCHANGED <<activeContext, activeURL, workers, loop>>

\* Mutant: the context is cancelled, its events stay current.
DisconnectSameGeneration ==
  /\ TakeAction("disconnect")
  /\ activeContext' = 0
  /\ updates' = PendingAfter(<<"idle">>)
  /\ UNCHANGED <<generation, activeURL, workers, loop>>

\* Mutant: the window is not told.
DisconnectSilently ==
  /\ TakeAction("disconnect")
  /\ activeContext' = 0
  /\ generation' = generation + 1
  /\ UNCHANGED <<activeURL, workers, updates, loop>>

OnDisconnect ==
  /\ TakeAction("disconnect")
  /\ activeContext' = 0
  /\ generation' = generation + 1
  /\ updates' = PendingAfter(<<"idle">>)
  /\ UNCHANGED <<activeURL, workers, loop>>

OnQuit ==
  /\ TakeAction("quit")
  /\ Stop("returned")
  /\ UNCHANGED <<generation, activeURL, workers, updates>>

\* Mutant: the candidate is computed from the base URL of before.
LaunchFromOldBase ==
  /\ Turn /\ launchRequests # <<>>
  /\ serverURL' = Head(launchRequests)
  /\ launchRequests' = Tail(launchRequests)
  /\ StartConnection(Head(launchRequests).host, serverURL)
  /\ UNCHANGED <<agentToken, fileConfig, inflightLaunch, events, actions, screenVars,
                 windowOpen, interrupted, loop, wish>>

\* The launch URL becomes the base URL before the candidate is computed.
OnLaunch ==
  /\ Turn /\ launchRequests # <<>>
  /\ serverURL' = Head(launchRequests)
  /\ launchRequests' = Tail(launchRequests)
  /\ StartConnection(Head(launchRequests).host, Head(launchRequests))
  /\ UNCHANGED <<agentToken, fileConfig, inflightLaunch, events, actions, screenVars,
                 windowOpen, interrupted, loop, wish>>

-----------------------------------------------------------------------------
(* The branch of the goroutines' events. *)

TakeEvent ==
  /\ Turn /\ events # <<>>
  /\ events' = Tail(events)
  /\ UNCHANGED <<generation, activeContext, activeURL, serverURL, bridgeVars, actions,
                 screenVars, windowOpen, interrupted, loop, wish>>

\* Mutant: events of former connections are handled too.
AnyGeneration == events # <<>>

Current == Head(events).generation = generation

DropStale ==
  /\ TakeEvent /\ ~Current
  /\ UNCHANGED <<agentToken, fileConfig, workers, updates>>

TakeCurrent(kind) == TakeEvent /\ Current /\ Head(events).kind = kind

OnConnected ==
  /\ TakeCurrent("connected")
  /\ fileConfig' = [fileConfig EXCEPT !.serverURL = activeURL]
  /\ updates' = PendingAfter(<<"connected">>)
  /\ UNCHANGED <<agentToken, workers>>

\* "disconnected" has no case in the switch.
OnDisconnected ==
  /\ TakeCurrent("disconnected")
  /\ UNCHANGED <<agentToken, fileConfig, workers, updates>>

\* Mutant: the window is not told that the connection ended.
RetrySilently ==
  /\ TakeCurrent("retrying")
  /\ UNCHANGED <<agentToken, fileConfig, workers, updates>>

OnRetrying ==
  /\ TakeCurrent("retrying")
  /\ updates' = PendingAfter(<<"retrying">>)
  /\ UNCHANGED <<agentToken, fileConfig, workers>>

OnPending ==
  /\ TakeCurrent("enrollment_pending")
  /\ fileConfig' = [fileConfig EXCEPT !.serverURL = activeURL]
  /\ updates' = PendingAfter(<<"enrolling">>)
  /\ UNCHANGED <<agentToken, workers>>

\* A credential that cannot be saved is kept in memory but not used now.
OnApproved ==
  /\ TakeCurrent("enrollment_approved")
  /\ agentToken' = Head(events).token
  /\ fileConfig' = [serverURL |-> activeURL, agentToken |-> Head(events).token]
  /\ \E saved \in SaveOutcomes :
       IF ~saved THEN UNCHANGED workers /\ updates' = PendingAfter(<<"error">>)
       ELSE IF activeContext # 0
            THEN StartAgent(activeContext, activeURL, Head(events).token, <<"enrolling">>)
            ELSE UNCHANGED workers /\ updates' = PendingAfter(<<"enrolling">>)

\* Mutant: an address that answered nothing is remembered like one that did.
RememberOnError ==
  /\ TakeCurrent("enrollment_error")
  /\ fileConfig' = [fileConfig EXCEPT !.serverURL = activeURL]
  /\ updates' = PendingAfter(<<"error">>)
  /\ UNCHANGED <<agentToken, workers>>

OnEnrollmentError ==
  /\ TakeCurrent("enrollment_error")
  /\ updates' = PendingAfter(<<"error">>)
  /\ UNCHANGED <<agentToken, fileConfig, workers>>

\* Mutant: the credential is dropped, enrolment is left to the user.
RejectAndWait ==
  /\ TakeCurrent("authentication_rejected")
  /\ agentToken' = NoToken
  /\ fileConfig' = [fileConfig EXCEPT !.agentToken = NoToken]
  /\ UNCHANGED <<workers, updates>>

OnRejected ==
  /\ TakeCurrent("authentication_rejected")
  /\ agentToken' = NoToken
  /\ fileConfig' = [fileConfig EXCEPT !.agentToken = NoToken]
  /\ IF activeContext # 0
     THEN StartEnrollment(activeContext, activeURL, <<>>)
     ELSE UNCHANGED <<workers, updates>>

OnEvent ==
  \/ DropStale \/ OnConnected \/ OnDisconnected \/ OnRetrying
  \/ OnPending \/ OnApproved \/ OnEnrollmentError \/ OnRejected

-----------------------------------------------------------------------------
(* The browser bridge of the live connection and its onLaunch callback.    *)

\* Bound: what was asked for and not handled yet fits below MaxGeneration.
Budget ==
  generation + Len(actions) + Len(launchRequests) + (IF inflightLaunch = NoURL THEN 0 ELSE 1)
    < MaxGeneration

\* The bridge listens while a connection context is live.
ReceiveLaunch ==
  /\ loop = "running" /\ Budget
  /\ activeContext # 0 /\ ~interrupted
  /\ inflightLaunch = NoURL
  /\ inflightLaunch' \in Launches
  /\ wish' = "online"
  /\ UNCHANGED <<loopVars, launchRequests, workerVars, uiVars, interrupted, loop>>

\* A handler runs on when the context is cancelled under it (Shutdown waits).
HandleLaunch ==
  /\ loop = "running" /\ inflightLaunch # NoURL
  /\ launchRequests' =
       IF /\ ValidLaunchServerURL(inflightLaunch)
          /\ ValidServerURL(inflightLaunch, AllowInsecure)
          /\ Len(launchRequests) < LaunchCap
       THEN Append(launchRequests, inflightLaunch) ELSE launchRequests
  /\ inflightLaunch' = NoURL
  /\ UNCHANGED <<loopVars, workerVars, uiVars, interrupted, loop, wish>>

-----------------------------------------------------------------------------
(* The user, the operating system, the window thread and the goroutines.   *)

User ==
  /\ loop = "running"
  /\ \/ /\ Budget /\ Len(actions) < Backlog
        /\ \/ \E ip \in Hosts : ClickConnect(ip) /\ wish' = "online"
           \/ ClickDisconnect /\ wish' = "offline"
           \/ TrayExit /\ UNCHANGED wish
     \/ CloseWindow /\ UNCHANGED wish
  /\ UNCHANGED <<loopVars, bridgeVars, workerVars, interrupted, loop>>

Interrupt ==
  /\ loop = "running" /\ ~interrupted
  /\ interrupted' = TRUE
  /\ UNCHANGED <<loopVars, bridgeVars, workerVars, uiVars, loop, wish>>

WindowUpdate ==
  /\ loop = "running" /\ ApplyUpdate
  /\ UNCHANGED <<loopVars, bridgeVars, workerVars, interrupted, loop, wish>>

Goroutine ==
  /\ loop = "running"
  /\ \E w \in workers : EnrollmentStep(w) \/ AgentStep(w)
  /\ UNCHANGED <<loopVars, bridgeVars, uiVars, interrupted, loop, wish>>

\* The process is gone; so are its goroutines.
Ended == loop # "running" /\ UNCHANGED vars

-----------------------------------------------------------------------------
Init ==
  /\ fileConfig \in SavedConfigs
  /\ serverURL \in InitialURLs
  /\ agentToken = IF EnvToken # NoToken THEN EnvToken ELSE fileConfig.agentToken
  /\ generation = 0
  /\ activeContext = 0
  /\ activeURL = NoURL
  /\ launchRequests = <<>>
  /\ inflightLaunch = NoURL
  /\ interrupted = FALSE
  /\ loop = "running"
  /\ wish = "online"
  /\ WorkersInit
  /\ UIInit(serverURL.host)

Next ==
  \/ OnInterrupt \/ OnWindowDone \/ OnConnect \/ OnDisconnect \/ OnQuit
  \/ OnLaunch \/ OnEvent
  \/ ReceiveLaunch \/ HandleLaunch
  \/ User \/ Interrupt \/ WindowUpdate \/ Goroutine \/ Ended

Spec == Init /\ [][Next]_vars

\* A ready branch of the select is picked at random, hence in the end: strong
\* fairness per branch.  Goroutines and the window thread are scheduled.
Fairness ==
  /\ SF_vars(OnInterrupt) /\ SF_vars(OnWindowDone) /\ SF_vars(OnLaunch) /\ SF_vars(OnEvent)
  /\ SF_vars(OnConnect \/ OnDisconnect \/ OnQuit)
  /\ WF_vars(HandleLaunch) /\ WF_vars(WindowUpdate)
  /\ \A i \in WorkerIds : WF_vars(Goroutine /\ WorkerProgress(i))

FairSpec == Spec /\ Fairness

-----------------------------------------------------------------------------
(* Properties. *)

\* Type invariant of the event loop with its goroutines and its window.
TypeOK ==
  /\ WorkersTypeOK /\ UITypeOK
  /\ generation \in Nat
  /\ activeURL \in IF activeContext = 0 THEN MaybeURL ELSE URL
  /\ serverURL \in URL
  /\ agentToken \in MaybeToken
  /\ fileConfig \in Config
  /\ launchRequests \in Seq(URL)
  /\ Len(launchRequests) <= LaunchCap
  /\ inflightLaunch \in MaybeURL
  /\ loop \in {"running", "returned", "failed"}
  /\ wish \in {"online", "offline"}

BatonKinds == {"enrollment_approved", "authentication_rejected"}

\* The live context is that of the latest generation, and nothing that runs or
\* is queued belongs to a generation that does not exist yet.
ContextIsCurrent ==
  /\ activeContext \in {0, generation}
  /\ \A w \in workers : w.generation \in 1..generation
  /\ \A k \in 1..Len(events) : events[k].generation \in 1..generation

\* A connection has one owner: its enrollment goroutine, its agent goroutine, or
\* the approval or rejection that is on its way from one to the next.  So a
\* device never holds two agent connections of one context.
OneOwner ==
  /\ \A v, w \in workers : v.generation = w.generation => v = w
  /\ \A k \in 1..Len(events) : events[k].kind \in BatonKinds =>
       /\ \A w \in workers : w.generation # events[k].generation
       /\ \A j \in 1..Len(events) :
            events[j].kind \in BatonKinds /\ events[j].generation = events[k].generation
              => j = k

\* At most one goroutine of the whole process is working for a live context.
OneLiveWorker ==
  \A v, w \in workers : ~Cancelled(v) /\ ~Cancelled(w) => v = w

\* What the current generation runs with, or has been refused with, is the
\* credential in memory: a late event never meets another credential.
CredentialAgreement ==
  /\ \A w \in workers :
       w.generation = generation /\ w.role = "agent" => w.token = agentToken
  /\ \A k \in 1..Len(events) :
       events[k].generation = generation /\ events[k].kind = "authentication_rejected"
         => events[k].token = agentToken

\* What the current generation runs or reports was done at the active address.
AddressAgreement ==
  /\ \A w \in workers : w.generation = generation => w.url = activeURL
  /\ \A k \in 1..Len(events) : events[k].generation = generation => events[k].url = activeURL

\* Who owns the connection of the current generation: its goroutine, or the event
\* that carries its result from one goroutine to the next.
WorkerOwner(w) ==
  [stage |-> w.role, url |-> w.url, token |-> IF w.role = "agent" THEN w.token ELSE NoToken]
EventOwner(e) ==
  [stage |-> IF e.kind = "enrollment_approved" THEN "approved" ELSE "refused",
   url |-> e.url, token |-> e.token]
CurrentWorkers == {w \in workers : w.generation = generation}
Batons == {k \in 1..Len(events) : events[k].generation = generation /\ events[k].kind \in BatonKinds}
Owners == {WorkerOwner(w) : w \in CurrentWorkers} \cup {EventOwner(events[k]) : k \in Batons}

Life == INSTANCE Connection
          WITH Addresses <- URL, Credentials <- Tokens, None <- NoToken,
               live <- activeContext # 0, stopping <- interrupted,
               owners <- Owners, credential <- agentToken

\* Whatever is late, cancelled, queued or interleaved in run, what it does is one
\* connection with one owner and one credential, step by step (Connection).
ServesOneConnection == Life!Spec

\* The credential in memory is dropped only because the server refused that very
\* credential, whatever connections were opened and cancelled meanwhile.
DroppedTokenWasRejected ==
  [][agentToken' = NoToken /\ agentToken # NoToken =>
       /\ events # <<>>
       /\ Head(events).kind = "authentication_rejected"
       /\ Head(events).token = agentToken]_vars

\* What a goroutine reports only after the server under its address answered: it
\* accepted the session, or it returned a status for the application.
AnsweredKinds == {"connected", "enrollment_pending", "enrollment_approved"}

\* An address is remembered only when a goroutine of the current connection has
\* had an answer under that very address, to a session or to an application for
\* enrolment (README remembers it after a successful connection: the code
\* already does so while the application is pending).
SavedAddressWasReached ==
  [][fileConfig'.serverURL # fileConfig.serverURL =>
       /\ events # <<>>
       /\ Head(events).generation = generation
       /\ Head(events).kind \in AnsweredKinds
       /\ Head(events).url = fileConfig'.serverURL]_vars

\* "Connected" is shown and remembered only while that connection's context is
\* live (README: the status page comes once the connection is established).
ConnectedOnlyWhenLive ==
  [][OnConnected => activeContext = generation]_vars

\* Once the user's last wish to be offline has been handled, no connection
\* is opened (README: no reconnection after the user disconnects).
DisconnectIsFinal ==
  wish = "offline" /\ actions = <<>> => activeContext = 0

\* run ends with an error only when the window died without being closed.
CloseIsClean == loop # "failed"

\* A launched connection goes to exactly the launched host, port and scheme,
\* except that the special host keeps its dedicated port
\* (README: the running client switches to the link's IP, port and WS/WSS mode).
LaunchHonoured ==
  [][OnLaunch /\ activeContext' # 0 =>
       LET launched == Head(launchRequests)
       IN activeURL' = IF launched.host = SpecialHost
                       THEN [launched EXCEPT !.port = SpecialPort] ELSE launched]_vars

\* Nothing is on its way between the loop, the window and the goroutines.
Quiet ==
  /\ loop = "running" /\ windowOpen /\ ~interrupted
  /\ actions = <<>> /\ updates = <<>> /\ events = <<>>
  /\ launchRequests = <<>> /\ inflightLaunch = NoURL

\* When everything has settled, the status page stands for a connection of a
\* live context, never for one that was cancelled.
StatusPageHasConnection == Quiet /\ panel = "status" => activeContext # 0

\* When everything has settled and the goroutines only wait for a server or a
\* timer, "online" on the status page is true, unless the server has refused the
\* credential since and a new one is being asked for
\* (README: an unexpected disconnection is announced on the status page).
OnlineUnlessRefused ==
  /\ Quiet /\ \A w \in workers : w.at \in {"serving", "waiting", "polling"}
  /\ panel = "status" /\ banner = "online"
  => \E w \in workers : w.generation = activeContext /\ w.at \in {"serving", "polling"}

\* Every goroutine of a cancelled context ends: none stays blocked on a full
\* events channel, on a connection or on a timer.
CancelledWorkersFinish ==
  \A i \in WorkerIds :
    (\E w \in workers : w.id = i /\ Cancelled(w))
      ~> (loop # "running" \/ ~\E w \in workers : w.id = i /\ Cancelled(w))

\* A refused credential leads to a new enrollment on the same connection, unless
\* the connection is given up or the process ends.
RejectionLeadsToEnrollment ==
  \A g \in 1..MaxGeneration :
    (generation = g /\ \E w \in workers : w.generation = g /\ w.at = "report_rejected")
      ~> (\/ loop # "running" \/ interrupted \/ activeContext # g
          \/ \E w \in workers : w.generation = g /\ w.role = "enrollment")

\* A queued wish of the user to be offline is carried out in the end.
DisconnectTakesEffect ==
  (\E k \in 1..Len(actions) : actions[k].action = "disconnect")
    ~> (loop # "running" \/ activeContext = 0)
=============================================================================
