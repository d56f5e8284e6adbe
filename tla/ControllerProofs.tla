--------------------------- MODULE ControllerProofs ---------------------------
(***************************************************************************)
(* Theorems about the controller, for every value of its constants.        *)
(***************************************************************************)
EXTENDS Controller, SequenceTheorems, TLAPS

USE DEF MaybeToken, MaybeURL

-----------------------------------------------------------------------------
(* Lemmas about the helpers. *)

\* serverURLFromEndpoint applied to an IP of a known host yields a URL.
LEMMA CandidateTyped ==
  ASSUME NEW ip \in Hosts, NEW previous \in URL
  PROVE  CandidateURL(ip, previous) \in URL
<1>1. previous.scheme \in {"ws", "wss"} /\ previous.port \in Int
  BY DEF URL
<1>2. ServerPortForHost(ip, previous) \in Int
  BY <1>1 DEF ServerPortForHost, EndpointPort, SpecialPort
<1> QED
  BY <1>1, <1>2 DEF CandidateURL, URL

\* The window's queue receives only update states.
LEMMA PendingTyped ==
  ASSUME updates \in Seq(UpdateStates), NEW shown \in Seq(UpdateStates)
  PROVE  PendingAfter(shown) \in Seq(UpdateStates)
  BY ConcatProperties DEF PendingAfter

\* A sent action is a prefix of the queue or is lost; the capacity is kept.
LEMMA EmitTyped ==
  ASSUME actions \in Seq(UIAction), Len(actions) <= ActionCap,
         NEW action \in UIAction, Emit(action)
  PROVE  actions' \in Seq(UIAction) /\ Len(actions') <= ActionCap
<1>1. CASE Len(actions) < ActionCap
  <2>1. actions' = Append(actions, action)
    BY <1>1 DEF Emit
  <2> QED
    BY <1>1, <2>1, AppendProperties, WindowAssumption
<1>2. CASE ~(Len(actions) < ActionCap)
  BY <1>2 DEF Emit
<1> QED
  BY <1>1, <1>2

\* A new goroutine gets a name that no running one has.
LEMMA NewWorkerTyped ==
  ASSUME WorkersTypeOK, UsedIds # WorkerIds,
         NEW role \in {"enrollment", "agent"}, NEW context \in Nat,
         NEW url \in URL, NEW token \in MaybeToken
  PROVE  /\ NewWorker(role, context, url, token) \in Worker
         /\ NewWorker(role, context, url, token).role = role
         /\ NewWorker(role, context, url, token).generation = context
         /\ NewWorker(role, context, url, token).url = url
         /\ NewWorker(role, context, url, token).token = token
         /\ NewWorker(role, context, url, token).role = "agent"
              <=> NewWorker(role, context, url, token).at \in AgentStages
         /\ NewWorker(role, context, url, token).at # "report_approved"
<1> DEFINE new == NewWorker(role, context, url, token)
           free == CHOOSE i \in WorkerIds : i \notin UsedIds
<1>1. UsedIds \subseteq WorkerIds
  BY DEF UsedIds, WorkersTypeOK, Worker
<1>2. \E i \in WorkerIds : i \notin UsedIds
  BY <1>1
<1>3. free \in WorkerIds
  BY <1>2
<1>4. new = [id |-> free, role |-> role, generation |-> context, url |-> url,
             token |-> token,
             at |-> IF role = "enrollment" THEN "submitting" ELSE "dialing"]
  BY DEF NewWorker
<1> HIDE DEF free
<1>5. new \in Worker
  BY <1>3, <1>4 DEF Worker, EnrollmentStages, AgentStages
<1>6. (new.role = "agent" <=> new.at \in AgentStages) /\ new.at # "report_approved"
  BY <1>4 DEF AgentStages
<1> QED
  BY <1>4, <1>5, <1>6

-----------------------------------------------------------------------------
(* What a step of a goroutine can do to the goroutines and to the events.  *)

\* "v" is the goroutine "w" after a step of it.
Succeeds(v, w) ==
  /\ v \in Worker
  /\ v.generation = w.generation /\ v.url = w.url /\ v.role = w.role
  /\ v.role = "agent" => v.token = w.token
  /\ v.role = "agent" <=> v.at \in AgentStages
  /\ v.at = "report_approved" => v.token \in Tokens

\* The goroutine leaves, or goes on under the same generation and address.
StaysOrExits(w) ==
  \/ Exit(w)
  \/ \E v : Succeeds(v, w) /\ workers' = (workers \ {w}) \cup {v}

\* At most one event is sent; a baton is the last thing a goroutine sends.
Sends(w) ==
  \/ UNCHANGED events
  \/ \E e \in Event :
       /\ Len(events) < EventCap
       /\ events' = Append(events, e)
       /\ e.generation = w.generation /\ e.url = w.url
       /\ e.kind \in BatonKinds => Exit(w)
       /\ e.kind = "authentication_rejected" => w.role = "agent" /\ e.token = w.token
       /\ e.kind = "enrollment_approved" => w.role # "agent" /\ e.token \in Tokens

LEMMA MoveSucceeds ==
  ASSUME WorkersTypeOK, NEW w \in workers, NEW stage, stage # "report_approved",
         \/ w.role = "agent" /\ stage \in AgentStages
         \/ w.role # "agent" /\ stage \in EnrollmentStages,
         Move(w, stage)
  PROVE  \E v : Succeeds(v, w) /\ workers' = (workers \ {w}) \cup {v}
<1> DEFINE v == [w EXCEPT !.at = stage]
<1>1. w \in Worker
  BY DEF WorkersTypeOK
<1>2. stage \in EnrollmentStages \cup AgentStages
  OBVIOUS
<1>3. v \in Worker /\ v.at = stage
  BY <1>1, <1>2 DEF Worker
<1>4. v.generation = w.generation /\ v.url = w.url /\ v.role = w.role /\ v.token = w.token
  BY <1>1 DEF Worker
<1>5. v.role = "agent" <=> v.at \in AgentStages
  BY <1>3, <1>4 DEF AgentStages, EnrollmentStages
<1>6. Succeeds(v, w)
  BY <1>3, <1>4, <1>5 DEF Succeeds
<1> QED
  BY <1>6 DEF Move

LEMMA MoveStays ==
  ASSUME WorkersTypeOK, NEW w \in workers, NEW stage, stage # "report_approved",
         \/ w.role = "agent" /\ stage \in AgentStages
         \/ w.role # "agent" /\ stage \in EnrollmentStages,
         Move(w, stage) \/ MoveUnlessCancelled(w, stage)
  PROVE  StaysOrExits(w)
  BY MoveSucceeds DEF MoveUnlessCancelled, StaysOrExits

LEMMA ReportSends ==
  ASSUME WorkersTypeOK, NEW w \in workers, NEW kind \in EventKinds, NEW token \in MaybeToken,
         Report(w, kind, token),
         kind \in BatonKinds => Exit(w),
         kind = "authentication_rejected" => w.role = "agent" /\ token = w.token,
         kind = "enrollment_approved" => w.role # "agent" /\ token \in Tokens
  PROVE  Sends(w)
<1>1. w \in Worker
  BY DEF WorkersTypeOK
<1>2. CASE UNCHANGED events
  BY <1>2 DEF Sends
<1>3. CASE Len(events) < EventCap /\ events' = Append(events, EventOf(w, kind, token))
  <2> DEFINE e == EventOf(w, kind, token)
  <2>1. e = [generation |-> w.generation, kind |-> kind, url |-> w.url, token |-> token]
    BY DEF EventOf
  <2>2. e \in Event
    BY <1>1, <2>1 DEF Event, Worker
  <2>3. /\ e.generation = w.generation /\ e.url = w.url
        /\ e.kind = kind /\ e.token = token
    BY <2>1
  <2> HIDE DEF e
  <2> QED
    BY <1>3, <2>2, <2>3 DEF Sends, e
<1> QED
  BY <1>2, <1>3 DEF Report

LEMMA GoroutineEffect ==
  ASSUME WorkersTypeOK, NEW w \in workers, EnrollmentStep(w) \/ AgentStep(w)
  PROVE  StaysOrExits(w) /\ Sends(w)
<1> USE DEF EnrollmentStages, AgentStages, EventKinds, BatonKinds
<1>0. /\ w \in Worker
      /\ w.role = "agent" <=> w.at \in AgentStages
      /\ w.at = "report_approved" => w.token \in Tokens
  BY DEF WorkersTypeOK
<1>a. NoToken \in MaybeToken /\ w.token \in MaybeToken
  BY <1>0 DEF Worker
<1>1. CASE Submit(w)
  BY <1>0, <1>1, MoveStays DEF Submit, EnrollmentFails, Sends
<1>2. CASE ReportPending(w)
  BY <1>0, <1>a, <1>2, MoveStays, ReportSends DEF ReportPending
<1>3. CASE Poll(w)
  <2>1. CASE EnrollmentFails(w)
    BY <1>0, <1>3, <2>1, MoveStays DEF Poll, EnrollmentFails, Sends
  <2>2. ASSUME NEW t \in Tokens,
               workers' = (workers \ {w}) \cup
                            {[w EXCEPT !.at = "report_approved", !.token = t]}
        PROVE  StaysOrExits(w)
    <3> DEFINE v == [w EXCEPT !.at = "report_approved", !.token = t]
    <3>1. v \in Worker /\ v.at = "report_approved"
      BY <1>0 DEF Worker
    <3>2. v.generation = w.generation /\ v.url = w.url /\ v.role = w.role
      BY <1>0 DEF Worker
    <3>3. w.role # "agent"
      BY <1>0, <1>3 DEF Poll
    <3>4. v.token \in Tokens
      BY <1>0, <2>2 DEF Worker
    <3>5. Succeeds(v, w)
      BY <3>1, <3>2, <3>3, <3>4 DEF Succeeds
    <3> QED
      BY <2>2, <3>5 DEF StaysOrExits
  <2> QED
    BY <1>3, <2>1, <2>2 DEF Poll, Sends
<1>4. CASE ReportApproved(w)
  BY <1>0, <1>a, <1>4, ReportSends DEF ReportApproved, StaysOrExits
<1>5. CASE ReportError(w)
  BY <1>0, <1>a, <1>5, ReportSends DEF ReportError, StaysOrExits
<1>6. CASE Dial(w)
  BY <1>0, <1>6, MoveStays DEF Dial, Sends
<1>7. CASE ReportUp(w)
  BY <1>0, <1>a, <1>7, MoveStays, ReportSends DEF ReportUp
<1>8. CASE ConnectionEnds(w)
  BY <1>0, <1>8, MoveStays DEF ConnectionEnds, Sends
<1>9. CASE ReportDown(w)
  BY <1>0, <1>a, <1>9, MoveStays, ReportSends DEF ReportDown
<1>10. CASE ReportRetry(w)
  BY <1>0, <1>a, <1>10, MoveStays, ReportSends DEF ReportRetry
<1>11. CASE BackoffEnds(w)
  BY <1>0, <1>11, MoveStays DEF BackoffEnds, Sends
<1>12. CASE ReportRejected(w)
  BY <1>0, <1>a, <1>12, ReportSends DEF ReportRejected, StaysOrExits
<1> QED
  BY <1>1, <1>2, <1>3, <1>4, <1>5, <1>6, <1>7, <1>8, <1>9, <1>10, <1>11, <1>12
     DEF EnrollmentStep, AgentStep

-----------------------------------------------------------------------------
(* What starting a goroutine, and a connection, can do. *)

\* At most one goroutine is started; it works in "context" at "url": an agent that
\* uses "token", or an enrollment when there is none.
Starts(context, url, token) ==
  \/ token # NoToken /\ UNCHANGED workers
  \/ \E v \in Worker :
       /\ v.generation = context /\ v.url = url
       /\ v.role = (IF token = NoToken THEN "enrollment" ELSE "agent")
       /\ v.role = "agent" => v.token = token
       /\ v.role = "agent" <=> v.at \in AgentStages
       /\ v.at # "report_approved"
       /\ workers' = workers \cup {v}

LEMMA SpawnStarts ==
  ASSUME WorkersTypeOK, UsedIds # WorkerIds, updates \in Seq(UpdateStates),
         NEW context \in Nat, NEW url \in URL, NEW token \in MaybeToken,
         NEW shown \in Seq(UpdateStates),
         \/ token = NoToken /\ StartEnrollment(context, url, shown)
         \/ token # NoToken /\ StartAgent(context, url, token, shown)
  PROVE  Starts(context, url, token) /\ updates' \in Seq(UpdateStates)
<1>1. /\ Append(shown, "enrolling") \in Seq(UpdateStates)
      /\ Append(shown, "error") \in Seq(UpdateStates)
  BY AppendProperties DEF UpdateStates
<1>2. CASE token = NoToken /\ StartEnrollment(context, url, shown)
  <2> DEFINE v == NewWorker("enrollment", context, url, NoToken)
  <2>1. /\ v \in Worker /\ v.role = "enrollment" /\ v.generation = context /\ v.url = url
        /\ v.role = "agent" <=> v.at \in AgentStages
        /\ v.at # "report_approved"
    BY NewWorkerTyped
  <2>2. workers' = workers \cup {v}
    BY <1>2 DEF StartEnrollment, Spawn
  <2> HIDE DEF v
  <2>3. Starts(context, url, token)
    BY <1>2, <2>1, <2>2 DEF Starts
  <2> QED
    BY <1>1, <1>2, <2>3, PendingTyped DEF StartEnrollment
<1>3. CASE token # NoToken /\ StartAgent(context, url, token, shown)
  <2>1. CASE ~ConfigComplete
    BY <1>1, <1>3, <2>1, PendingTyped DEF StartAgent, Starts
  <2>2. CASE ConfigComplete
    <3> DEFINE v == NewWorker("agent", context, url, token)
    <3>1. /\ v \in Worker /\ v.token = token /\ v.generation = context /\ v.url = url
          /\ v.role = "agent"
          /\ v.role = "agent" <=> v.at \in AgentStages
          /\ v.at # "report_approved"
      BY NewWorkerTyped
    <3>2. workers' = workers \cup {v}
      BY <1>3, <2>2 DEF StartAgent, Spawn
    <3> HIDE DEF v
    <3>3. Starts(context, url, token)
      BY <1>3, <3>1, <3>2 DEF Starts
    <3> QED
      BY <1>3, <2>2, <3>3, PendingTyped DEF StartAgent
  <2> QED
    BY <2>1, <2>2
<1> QED
  BY <1>2, <1>3

\* Either a new generation with its own context, or no context at all.
Reconnects ==
  \/ /\ generation' = generation + 1 /\ activeContext' = generation + 1
     /\ activeURL' \in URL
     /\ Starts(generation + 1, activeURL', agentToken)
  \/ /\ activeContext' = 0
     /\ UNCHANGED <<generation, activeURL, workers>>

LEMMA StartConnectionEffect ==
  ASSUME TypeOK, UsedIds # WorkerIds, NEW ip \in Hosts, NEW previous \in URL,
         StartConnection(ip, previous)
  PROVE  Reconnects /\ updates' \in Seq(UpdateStates)
<1> DEFINE candidate == CandidateURL(ip, previous)
           usable == BuildableURL(candidate) /\ ValidServerURL(candidate, AllowInsecure)
<1>1. candidate \in URL /\ generation + 1 \in Nat
  BY CandidateTyped DEF TypeOK
<1>2. <<>> \in Seq(UpdateStates) /\ <<"error">> \in Seq(UpdateStates)
  BY DEF UpdateStates
<1>3. /\ WorkersTypeOK /\ updates \in Seq(UpdateStates)
      /\ agentToken \in MaybeToken /\ NoToken \in MaybeToken
  BY DEF TypeOK, UITypeOK
<1>4. CASE usable
  <2>1. /\ generation' = generation + 1 /\ activeContext' = generation + 1
        /\ activeURL' = candidate
        /\ \/ agentToken = NoToken /\ StartEnrollment(generation + 1, candidate, <<>>)
           \/ agentToken # NoToken /\ StartAgent(generation + 1, candidate, agentToken, <<>>)
    BY <1>4 DEF StartConnection
  <2> HIDE DEF candidate
  <2>2. Starts(generation + 1, candidate, agentToken) /\ updates' \in Seq(UpdateStates)
    BY <1>1, <1>2, <1>3, <2>1, SpawnStarts
  <2> QED
    BY <1>1, <2>1, <2>2 DEF Reconnects
<1>5. CASE ~usable
  BY <1>2, <1>3, <1>5, PendingTyped DEF StartConnection, Reconnects
<1> QED
  BY <1>4, <1>5

-----------------------------------------------------------------------------
(* Type correctness. *)

\* The part of TypeOK about the loop's own variables.
LoopTypeOK ==
  /\ generation \in Nat
  /\ activeURL \in IF activeContext = 0 THEN MaybeURL ELSE URL
  /\ serverURL \in URL
  /\ agentToken \in MaybeToken
  /\ fileConfig \in Config
  /\ launchRequests \in Seq(URL)
  /\ Len(launchRequests) <= LaunchCap
  /\ inflightLaunch \in MaybeURL
  /\ loop \in {"running", "returned", "failed"}
  /\ wish \in {"online", "offline"}

LEMMA TypeParts == TypeOK <=> WorkersTypeOK /\ UITypeOK /\ LoopTypeOK
  BY DEF TypeOK, LoopTypeOK

\* poll accepts no approval without a credential.
ApprovalsCarryTokens ==
  \A k \in 1..Len(events) :
    events[k].kind = "enrollment_approved" => events[k].token \in Tokens

LEMMA StartsTyped ==
  ASSUME WorkersTypeOK, NEW context, NEW url, NEW token, Starts(context, url, token),
         activeContext' \in Nat, interrupted' \in BOOLEAN,
         events' \in Seq(Event), Len(events') <= EventCap, ApprovalsCarryTokens'
  PROVE  WorkersTypeOK'
  BY DEF Starts, WorkersTypeOK, ApprovalsCarryTokens

LEMMA InitTyped == Init => TypeOK
<1> SUFFICES ASSUME Init PROVE TypeOK
  OBVIOUS
<1>0. serverURL \in URL /\ fileConfig \in Config
  BY ControllerAssumption DEF Init
<1>1. WorkersTypeOK
  <2>1. workers = {} /\ events = <<>> /\ activeContext = 0 /\ interrupted = FALSE
    BY DEF Init, WorkersInit
  <2>2. events \in Seq(Event) /\ Len(events) <= EventCap
    BY <2>1, WorkersAssumption
  <2>3. activeContext \in Nat /\ interrupted \in BOOLEAN /\ workers \subseteq Worker
    BY <2>1
  <2>4. \A w \in workers :
          /\ w.role = "agent" <=> w.at \in AgentStages
          /\ w.at = "report_approved" => w.token \in Tokens
    BY <2>1
  <2>5. \A k \in 1..Len(events) :
          events[k].kind = "enrollment_approved" => events[k].token \in Tokens
    BY <2>1
  <2> QED
    BY <2>2, <2>3, <2>4, <2>5 DEF WorkersTypeOK
<1>2. UITypeOK
  <2>1. serverURL.host \in Hosts
    BY <1>0 DEF URL
  <2> DEFINE first == [action |-> "connect", ip |-> serverURL.host]
  <2>2. first \in UIAction
    BY <2>1 DEF UIAction
  <2>3. actions = <<first>> /\ updates = <<>> /\ panel = "login" /\ connecting = HasWindow
        /\ banner = "online" /\ windowOpen = TRUE
    BY DEF Init, UIInit
  <2> HIDE DEF first
  <2>4. actions \in Seq(UIAction) /\ Len(actions) = 1
    BY <2>2, <2>3
  <2>5. updates \in Seq(UpdateStates)
    BY <2>3
  <2> QED
    BY <2>3, <2>4, <2>5, WindowAssumption DEF UITypeOK
<1>3. LoopTypeOK
  BY <1>0, ControllerAssumption DEF Init, LoopTypeOK, Config, LaunchCap
<1> QED
  BY <1>1, <1>2, <1>3, TypeParts

\* Taking the head of the action queue.
LEMMA TakeActionTyped ==
  ASSUME TypeOK, NEW kind, TakeAction(kind), updates' \in Seq(UpdateStates)
  PROVE  UITypeOK' /\ Head(actions) \in UIAction /\ Head(actions).action = kind
<1>1. actions \in Seq(UIAction) /\ actions # <<>> /\ Len(actions) <= ActionCap
  BY DEF TakeAction, TypeOK, UITypeOK
<1>2. /\ Head(actions) \in UIAction /\ Tail(actions) \in Seq(UIAction)
      /\ Len(Tail(actions)) <= ActionCap
  BY <1>1, HeadTailProperties, WindowAssumption
<1> QED
  BY <1>2 DEF TakeAction, TypeOK, UITypeOK, screenVars

\* After the head is taken, position k holds what position k + 1 held.
LEMMA TailShifts ==
  ASSUME TypeOK, events # <<>>, events' = Tail(events)
  PROVE  /\ Len(events) \in Nat /\ 1 \in 1..Len(events) /\ Head(events) = events[1]
         /\ \A k \in 1..Len(events') :
              /\ k + 1 \in 1..Len(events) /\ k + 1 # 1
              /\ events'[k] = events[k + 1]
         /\ \A j, k \in 1..Len(events') : j + 1 = k + 1 => j = k
<1>1. events \in Seq(Event)
  BY DEF TypeOK, WorkersTypeOK
<1>2. /\ Len(events) \in Nat /\ Len(events) # 0 /\ Len(Tail(events)) = Len(events) - 1
      /\ Head(events) = events[1]
      /\ \A k \in 1..Len(Tail(events)) : Tail(events)[k] = events[k + 1]
  BY <1>1, HeadTailProperties, LenProperties, EmptySeq
<1> QED
  BY <1>2

\* What is in the queue after a goroutine's step was there before, or is its report.
LEMMA SendsShifts ==
  ASSUME TypeOK, NEW w \in workers, Sends(w)
  PROVE  /\ Len(events) \in Nat
         /\ \/ UNCHANGED events
            \/ /\ Len(events') = Len(events) + 1
               /\ \A k \in 1..Len(events) : events'[k] = events[k]
               /\ \E e \in Event :
                    /\ events'[Len(events) + 1] = e
                    /\ e.generation = w.generation /\ e.url = w.url
                    /\ e.kind \in BatonKinds => Exit(w)
                    /\ e.kind = "authentication_rejected" =>
                         w.role = "agent" /\ e.token = w.token
                    /\ e.kind = "enrollment_approved" => w.role # "agent" /\ e.token \in Tokens
<1>1. events \in Seq(Event) /\ Len(events) \in Nat
  BY LenProperties DEF TypeOK, WorkersTypeOK
<1>2. CASE UNCHANGED events
  BY <1>1, <1>2
<1>3. ASSUME NEW e \in Event, events' = Append(events, e)
      PROVE  /\ Len(events') = Len(events) + 1
             /\ \A k \in 1..Len(events) : events'[k] = events[k]
             /\ events'[Len(events) + 1] = e
  BY <1>1, <1>3, AppendProperties
<1> QED
  BY <1>1, <1>2, <1>3 DEF Sends

\* Taking the head of the event queue.
LEMMA TakeEventTyped ==
  ASSUME TypeOK, TakeEvent
  PROVE  /\ Head(events) \in Event /\ events' \in Seq(Event) /\ Len(events') <= EventCap
         /\ updates' \in Seq(UpdateStates) => UITypeOK'
         /\ interrupted' \in BOOLEAN /\ activeContext' \in Nat
         /\ ApprovalsCarryTokens'
<1>1. events \in Seq(Event) /\ events # <<>> /\ Len(events) <= EventCap
  BY DEF TakeEvent, TypeOK, WorkersTypeOK
<1>2. /\ Head(events) \in Event /\ Tail(events) \in Seq(Event)
      /\ Len(Tail(events)) <= EventCap
  BY <1>1, HeadTailProperties, WorkersAssumption
<1>3. ApprovalsCarryTokens'
  BY TailShifts DEF TakeEvent, ApprovalsCarryTokens, TypeOK, WorkersTypeOK
<1> QED
  BY <1>2, <1>3 DEF TakeEvent, TypeOK, UITypeOK, WorkersTypeOK, screenVars

\* The branch of the events.
LEMMA EventTyped ==
  ASSUME TypeOK, OnEvent
  PROVE  /\ updates' \in Seq(UpdateStates) /\ WorkersTypeOK'
         /\ agentToken' \in MaybeToken /\ fileConfig' \in Config
<1>0. WorkersTypeOK /\ UITypeOK /\ LoopTypeOK
  BY TypeParts
<1>1. TakeEvent
  BY DEF OnEvent, DropStale, OnConnected, OnDisconnected, OnRetrying, OnPending,
     OnApproved, OnEnrollmentError, OnRejected, TakeCurrent
<1>2. /\ Head(events) \in Event /\ Head(events).token \in MaybeToken
      /\ events' \in Seq(Event) /\ Len(events') <= EventCap
      /\ interrupted' \in BOOLEAN /\ activeContext' \in Nat
      /\ ApprovalsCarryTokens'
  BY <1>1, TakeEventTyped DEF Event
<1>3. UNCHANGED workers => WorkersTypeOK'
  BY <1>0, <1>2 DEF WorkersTypeOK, ApprovalsCarryTokens
<1>4. \A s \in UpdateStates : PendingAfter(<<s>>) \in Seq(UpdateStates)
  <2> SUFFICES ASSUME NEW s \in UpdateStates PROVE PendingAfter(<<s>>) \in Seq(UpdateStates)
    OBVIOUS
  <2>1. <<s>> \in Seq(UpdateStates)
    OBVIOUS
  <2> QED
    BY <1>0, <2>1, PendingTyped DEF UITypeOK
<1>5. /\ fileConfig \in Config /\ activeURL \in MaybeURL
      /\ [fileConfig EXCEPT !.serverURL = activeURL] \in Config
      /\ [fileConfig EXCEPT !.agentToken = NoToken] \in Config
      /\ \A t \in MaybeToken : [serverURL |-> activeURL, agentToken |-> t] \in Config
  BY <1>0 DEF LoopTypeOK, Config
<1>6. /\ activeContext # 0 => activeURL \in URL
      /\ activeContext \in Nat
      /\ updates \in Seq(UpdateStates) /\ agentToken \in MaybeToken
      /\ UsedIds # WorkerIds
  BY <1>0, <1>1 DEF LoopTypeOK, UITypeOK, WorkersTypeOK, TakeEvent, Turn
<1>7. CASE DropStale \/ OnDisconnected
  BY <1>3, <1>5, <1>6, <1>7 DEF DropStale, OnDisconnected
<1>8. CASE OnConnected \/ OnRetrying \/ OnPending \/ OnEnrollmentError
  BY <1>3, <1>4, <1>5, <1>6, <1>8
     DEF OnConnected, OnRetrying, OnPending, OnEnrollmentError, UpdateStates
<1>9. CASE OnApproved
  <2> DEFINE token == Head(events).token
  <2>1. agentToken' \in MaybeToken /\ fileConfig' \in Config
    BY <1>2, <1>5, <1>9 DEF OnApproved
  <2>2. CASE /\ activeContext # 0
             /\ StartAgent(activeContext, activeURL, token, <<"enrolling">>)
    <3>1. <<"enrolling">> \in Seq(UpdateStates)
      BY DEF UpdateStates
    <3>2. token # NoToken
      BY <1>1, <1>9, TailShifts, WorkersAssumption
         DEF OnApproved, TakeCurrent, TakeEvent, TypeOK, WorkersTypeOK
    <3>3. Starts(activeContext, activeURL, token) /\ updates' \in Seq(UpdateStates)
      BY <1>0, <1>2, <1>6, <2>2, <3>1, <3>2, SpawnStarts
    <3> QED
      BY <1>0, <1>2, <2>1, <3>3, StartsTyped
  <2>3. CASE /\ UNCHANGED workers
             /\ updates' = PendingAfter(<<"error">>) \/ updates' = PendingAfter(<<"enrolling">>)
    BY <1>3, <1>4, <2>1, <2>3 DEF UpdateStates
  <2> QED
    BY <1>9, <2>2, <2>3 DEF OnApproved
<1>10. CASE OnRejected
  <2>1. agentToken' \in MaybeToken /\ fileConfig' \in Config
    BY <1>5, <1>10 DEF OnRejected
  <2>2. CASE activeContext # 0 /\ StartEnrollment(activeContext, activeURL, <<>>)
    <3>1. <<>> \in Seq(UpdateStates) /\ NoToken \in MaybeToken
      OBVIOUS
    <3>2. Starts(activeContext, activeURL, NoToken) /\ updates' \in Seq(UpdateStates)
      BY <1>0, <1>2, <1>6, <2>2, <3>1, SpawnStarts
    <3> QED
      BY <1>0, <1>2, <2>1, <3>2, StartsTyped
  <2>3. CASE UNCHANGED <<workers, updates>>
    BY <1>3, <1>6, <2>1, <2>3
  <2> QED
    BY <1>10, <2>2, <2>3 DEF OnRejected
<1> QED
  BY <1>7, <1>8, <1>9, <1>10 DEF OnEvent

LEMMA UserTyped ==
  ASSUME UITypeOK, User
  PROVE  UITypeOK' /\ wish' \in {"online", "offline"} \cup {wish}
<1>1. ASSUME NEW ip \in Hosts, ClickConnect(ip) PROVE UITypeOK'
  <2> DEFINE a == [action |-> "connect", ip |-> ip]
  <2>1. a \in UIAction
    BY DEF UIAction
  <2>2. actions' \in Seq(UIAction) /\ Len(actions') <= ActionCap
    BY <1>1, <2>1, EmitTyped DEF ClickConnect, UITypeOK
  <2> QED
    BY <1>1, <2>2 DEF ClickConnect, UITypeOK
<1>2. [action |-> "disconnect"] \in UIAction /\ [action |-> "quit"] \in UIAction
  BY DEF UIAction
<1>3. ASSUME ClickDisconnect PROVE UITypeOK'
  <2>1. actions' \in Seq(UIAction) /\ Len(actions') <= ActionCap
    BY <1>2, <1>3, EmitTyped DEF ClickDisconnect, UITypeOK
  <2> QED
    BY <1>3, <2>1 DEF ClickDisconnect, ShowLogin, UITypeOK
<1>4. ASSUME CloseWindow PROVE UITypeOK'
  <2>1. actions' \in Seq(UIAction) /\ Len(actions') <= ActionCap
    BY <1>2, <1>4, EmitTyped DEF CloseWindow, UITypeOK
  <2>2. updates' \in Seq(UpdateStates)
    BY <1>4 DEF CloseWindow
  <2> QED
    BY <1>4, <2>1, <2>2 DEF CloseWindow, screenVars, UITypeOK
<1>5. ASSUME TrayExit PROVE UITypeOK'
  <2>1. actions' \in Seq(UIAction) /\ Len(actions') <= ActionCap
    BY <1>2, <1>5, EmitTyped DEF TrayExit, UITypeOK
  <2> QED
    BY <1>5, <2>1 DEF TrayExit, screenVars, UITypeOK
<1> QED
  BY <1>1, <1>3, <1>4, <1>5 DEF User

LEMMA ApplyUpdateTyped ==
  ASSUME UITypeOK, ApplyUpdate
  PROVE  UITypeOK'
<1>1. updates' \in Seq(UpdateStates)
  BY HeadTailProperties DEF ApplyUpdate, UITypeOK
<1> QED
  BY <1>1 DEF ApplyUpdate, UITypeOK, ShowLogin, screenVars

\* Every step preserves the types: one case per branch of the loop and per step
\* of its environment.
LEMMA NextTyped == TypeOK /\ [Next]_vars => TypeOK'
<1> SUFFICES ASSUME TypeOK, [Next]_vars PROVE TypeOK'
  OBVIOUS
<1> USE DEF LaunchCap
<1>0. WorkersTypeOK /\ UITypeOK /\ LoopTypeOK
  BY TypeParts
<1>t. WorkersTypeOK' /\ UITypeOK' /\ LoopTypeOK' => TypeOK'
  BY TypeParts, PTL
<1>1. CASE OnInterrupt
  BY <1>0, <1>1, <1>t DEF OnInterrupt, Stop, bridgeVars, workerVars, uiVars,
     WorkersTypeOK, UITypeOK, LoopTypeOK
<1>2. CASE OnWindowDone
  <2>1. actions' \in Seq(UIAction) /\ Len(actions') <= ActionCap
    BY <1>2, WindowAssumption DEF OnWindowDone
  <2>2. UITypeOK'
    BY <1>0, <1>2, <2>1 DEF OnWindowDone, UITypeOK, screenVars
  <2> QED
    BY <1>0, <1>2, <1>t, <2>2 DEF OnWindowDone, Stop, bridgeVars, workerVars,
       WorkersTypeOK, LoopTypeOK
<1>3. CASE OnConnect
  <2>1. TakeAction("connect") /\ UsedIds # WorkerIds /\ UNCHANGED loop
    BY <1>3 DEF OnConnect, TakeAction, Turn
  <2>2. Head(actions).ip \in Hosts
    <3>1. actions \in Seq(UIAction) /\ actions # <<>>
      BY <1>0, <2>1 DEF TakeAction, UITypeOK
    <3>2. Head(actions) \in UIAction /\ Head(actions).action = "connect"
      BY <2>1, <3>1, HeadTailProperties DEF TakeAction
    <3> QED
      BY <3>2 DEF UIAction
  <2>3. Reconnects /\ updates' \in Seq(UpdateStates)
    BY <1>0, <1>3, <2>1, <2>2, StartConnectionEffect DEF OnConnect, LoopTypeOK
  <2>4. UITypeOK'
    BY <2>1, <2>3, TakeActionTyped
  <2>5. LoopTypeOK' /\ activeContext' \in Nat
    BY <1>0, <2>1, <2>3 DEF Reconnects, LoopTypeOK, TakeAction, bridgeVars
  <2>6. /\ interrupted' \in BOOLEAN /\ events' \in Seq(Event) /\ Len(events') <= EventCap
        /\ ApprovalsCarryTokens'
    BY <1>0, <2>1 DEF TakeAction, WorkersTypeOK, ApprovalsCarryTokens
  <2>7. WorkersTypeOK'
    <3>1. CASE UNCHANGED workers
      BY <1>0, <2>5, <2>6, <3>1 DEF WorkersTypeOK, ApprovalsCarryTokens
    <3>2. CASE Starts(generation + 1, activeURL', agentToken)
      BY <1>0, <2>5, <2>6, <3>2, StartsTyped
    <3> QED
      BY <2>3, <3>1, <3>2 DEF Reconnects
  <2> QED
    BY <1>t, <2>4, <2>5, <2>7
<1>4. CASE OnDisconnect
  <2>1. TakeAction("disconnect")
    BY <1>4 DEF OnDisconnect
  <2>2. updates' \in Seq(UpdateStates)
    <3>1. <<"idle">> \in Seq(UpdateStates)
      BY DEF UpdateStates
    <3> QED
      BY <1>0, <1>4, <3>1, PendingTyped DEF OnDisconnect, UITypeOK
  <2>3. UITypeOK'
    BY <2>1, <2>2, TakeActionTyped
  <2> QED
    BY <1>0, <1>4, <1>t, <2>1, <2>3 DEF OnDisconnect, TakeAction, bridgeVars,
       WorkersTypeOK, LoopTypeOK
<1>5. CASE OnQuit
  <2>1. TakeAction("quit")
    BY <1>5 DEF OnQuit
  <2>2. UITypeOK'
    BY <1>0, <1>5, <2>1, TakeActionTyped DEF OnQuit, UITypeOK
  <2> QED
    BY <1>0, <1>5, <1>t, <2>1, <2>2 DEF OnQuit, Stop, TakeAction, bridgeVars,
       WorkersTypeOK, LoopTypeOK
<1>6. CASE OnLaunch
  <2>1. /\ Head(launchRequests) \in URL /\ Tail(launchRequests) \in Seq(URL)
        /\ Len(Tail(launchRequests)) <= LaunchCap
    BY <1>0, <1>6, HeadTailProperties DEF OnLaunch, LoopTypeOK
  <2>2. Head(launchRequests).host \in Hosts
    BY <2>1 DEF URL
  <2>3. Reconnects /\ updates' \in Seq(UpdateStates)
    BY <1>6, <2>1, <2>2, StartConnectionEffect DEF OnLaunch, Turn
  <2>4. UITypeOK'
    BY <1>0, <1>6, <2>3 DEF OnLaunch, UITypeOK, screenVars
  <2>5. LoopTypeOK' /\ activeContext' \in Nat
    BY <1>0, <1>6, <2>1, <2>3 DEF OnLaunch, Reconnects, LoopTypeOK
  <2>6. /\ interrupted' \in BOOLEAN /\ events' \in Seq(Event) /\ Len(events') <= EventCap
        /\ ApprovalsCarryTokens'
    BY <1>0, <1>6 DEF OnLaunch, WorkersTypeOK, ApprovalsCarryTokens
  <2>7. WorkersTypeOK'
    <3>1. CASE UNCHANGED workers
      BY <1>0, <2>5, <2>6, <3>1 DEF WorkersTypeOK, ApprovalsCarryTokens
    <3>2. CASE Starts(generation + 1, activeURL', agentToken)
      BY <1>0, <2>5, <2>6, <3>2, StartsTyped
    <3> QED
      BY <2>3, <3>1, <3>2 DEF Reconnects
  <2> QED
    BY <1>t, <2>4, <2>5, <2>7
<1>7. CASE OnEvent
  <2>1. TakeEvent
    BY <1>7 DEF OnEvent, DropStale, OnConnected, OnDisconnected, OnRetrying, OnPending,
       OnApproved, OnEnrollmentError, OnRejected, TakeCurrent
  <2>2. updates' \in Seq(UpdateStates) /\ WorkersTypeOK' /\ agentToken' \in MaybeToken
        /\ fileConfig' \in Config
    BY <1>7, EventTyped
  <2>3. UITypeOK'
    BY <2>1, <2>2, TakeEventTyped
  <2>4. LoopTypeOK'
    BY <1>0, <2>1, <2>2 DEF LoopTypeOK, TakeEvent, bridgeVars
  <2> QED
    BY <1>t, <2>2, <2>3, <2>4
<1>8. CASE ReceiveLaunch
  <2>1. LoopTypeOK'
    BY <1>0, <1>8, ControllerAssumption DEF ReceiveLaunch, loopVars, LoopTypeOK
  <2> QED
    BY <1>0, <1>8, <1>t, <2>1 DEF ReceiveLaunch, loopVars, workerVars, uiVars,
       WorkersTypeOK, UITypeOK
<1>9. CASE HandleLaunch
  <2>1. inflightLaunch \in URL
    BY <1>0, <1>9 DEF HandleLaunch, LoopTypeOK
  <2>2. launchRequests' \in Seq(URL) /\ Len(launchRequests') <= LaunchCap
    BY <1>0, <1>9, <2>1, AppendProperties DEF HandleLaunch, LoopTypeOK
  <2>3. LoopTypeOK'
    BY <1>0, <1>9, <2>2 DEF HandleLaunch, loopVars, LoopTypeOK
  <2> QED
    BY <1>0, <1>9, <1>t, <2>3 DEF HandleLaunch, loopVars, workerVars, uiVars,
       WorkersTypeOK, UITypeOK
<1>10. CASE User
  <2>1. UITypeOK' /\ wish' \in {"online", "offline"}
    BY <1>0, <1>10, UserTyped DEF LoopTypeOK
  <2> QED
    BY <1>0, <1>10, <1>t, <2>1 DEF User, loopVars, bridgeVars, workerVars,
       WorkersTypeOK, LoopTypeOK
<1>11. CASE Interrupt
  BY <1>0, <1>11, <1>t DEF Interrupt, loopVars, bridgeVars, workerVars, uiVars,
     WorkersTypeOK, UITypeOK, LoopTypeOK
<1>12. CASE WindowUpdate
  <2>1. UITypeOK'
    BY <1>0, <1>12, ApplyUpdateTyped DEF WindowUpdate
  <2> QED
    BY <1>0, <1>12, <1>t, <2>1 DEF WindowUpdate, loopVars, bridgeVars, workerVars,
       WorkersTypeOK, LoopTypeOK
<1>13. CASE Goroutine
  <2>1. PICK w \in workers : EnrollmentStep(w) \/ AgentStep(w)
    BY <1>13 DEF Goroutine
  <2>2. StaysOrExits(w) /\ Sends(w)
    BY <1>0, <2>1, GoroutineEffect
  <2>3. events' \in Seq(Event) /\ Len(events') <= EventCap
    BY <1>0, <2>2, AppendProperties, WorkersAssumption DEF Sends, WorkersTypeOK
  <2>4. /\ workers' \subseteq Worker
        /\ \A v \in workers' :
             /\ v.role = "agent" <=> v.at \in AgentStages
             /\ v.at = "report_approved" => v.token \in Tokens
    BY <1>0, <2>2 DEF StaysOrExits, Exit, Succeeds, WorkersTypeOK
  <2>5. \A k \in 1..Len(events') :
          events'[k].kind = "enrollment_approved" => events'[k].token \in Tokens
    BY <1>0, <2>2, SendsShifts DEF WorkersTypeOK
  <2> QED
    BY <1>0, <1>13, <1>t, <2>3, <2>4, <2>5 DEF Goroutine, loopVars, bridgeVars, uiVars,
       WorkersTypeOK, UITypeOK, LoopTypeOK
<1>14. CASE Ended \/ UNCHANGED vars
  BY <1>0, <1>14, <1>t DEF Ended, vars, loopVars, bridgeVars, workerVars, uiVars,
     WorkersTypeOK, UITypeOK, LoopTypeOK
<1> QED
  BY <1>1, <1>2, <1>3, <1>4, <1>5, <1>6, <1>7, <1>8, <1>9, <1>10, <1>11, <1>12, <1>13,
     <1>14 DEF Next

\* The types of all variables are right in every reachable state.
THEOREM TypeCorrect == Spec => []TypeOK
  BY InitTyped, NextTyped, PTL DEF Spec

-----------------------------------------------------------------------------
(* Ownership.  Seen from the generation, the credential, the goroutines    *)
(* and the events, the many actions are steps of six kinds.                *)

ownership == <<generation, activeContext, activeURL, agentToken, workers, events>>

Opens ==
  /\ generation' = generation + 1 /\ activeContext' = generation + 1
  /\ Starts(generation + 1, activeURL', agentToken)
  /\ UNCHANGED <<agentToken, events>>

Cancels ==
  /\ activeContext' = 0 /\ generation' \in {generation, generation + 1}
  /\ UNCHANGED <<activeURL, agentToken, workers, events>>

Consumes ==
  /\ events # <<>> /\ events' = Tail(events)
  /\ Head(events).generation = generation => Head(events).kind \notin BatonKinds
  /\ UNCHANGED <<generation, activeContext, activeURL, agentToken, workers>>

HandsOver ==
  /\ events # <<>> /\ events' = Tail(events)
  /\ Head(events).generation = generation /\ Head(events).kind \in BatonKinds
  /\ agentToken' =
       IF Head(events).kind = "enrollment_approved" THEN Head(events).token ELSE NoToken
  /\ UNCHANGED <<generation, activeContext, activeURL>>
  /\ \/ UNCHANGED workers /\ (Head(events).kind = "enrollment_approved" \/ activeContext = 0)
     \/ activeContext # 0 /\ Starts(activeContext, activeURL, agentToken')

Works ==
  /\ \E w \in workers :
       StaysOrExits(w) /\ Sends(w) /\ (EnrollmentStep(w) \/ AgentStep(w))
  /\ UNCHANGED <<generation, activeContext, activeURL, agentToken>>

LEMMA ReconnectKinds ==
  ASSUME Reconnects, UNCHANGED <<agentToken, events>>
  PROVE  Opens \/ Cancels
  BY DEF Reconnects, Opens, Cancels

LEMMA EventStepKinds ==
  ASSUME TypeOK, OnEvent
  PROVE  Consumes \/ HandsOver
<1>1. TakeEvent
  BY DEF OnEvent, DropStale, OnConnected, OnDisconnected, OnRetrying, OnPending,
     OnApproved, OnEnrollmentError, OnRejected, TakeCurrent
<1>2. /\ events # <<>> /\ events' = Tail(events)
      /\ UNCHANGED <<generation, activeContext, activeURL>>
  BY <1>1 DEF TakeEvent
<1>3. /\ Head(events).token \in MaybeToken /\ NoToken \in MaybeToken
      /\ WorkersTypeOK /\ UsedIds # WorkerIds /\ updates \in Seq(UpdateStates)
      /\ activeContext \in Nat /\ (activeContext # 0 => activeURL \in URL)
  BY <1>1, TakeEventTyped DEF Event, TypeOK, WorkersTypeOK, UITypeOK, TakeEvent, Turn
<1>4. CASE \/ DropStale \/ OnConnected \/ OnDisconnected \/ OnRetrying
           \/ OnPending \/ OnEnrollmentError
  BY <1>2, <1>4 DEF DropStale, OnConnected, OnDisconnected, OnRetrying, OnPending,
     OnEnrollmentError, TakeCurrent, Current, BatonKinds, Consumes
<1>5. CASE OnApproved
  <2>1. /\ Head(events).generation = generation
        /\ Head(events).kind = "enrollment_approved"
        /\ agentToken' = Head(events).token
    BY <1>5 DEF OnApproved, TakeCurrent, Current
  <2>2. \/ UNCHANGED workers
        \/ /\ activeContext # 0
           /\ StartAgent(activeContext, activeURL, Head(events).token, <<"enrolling">>)
    BY <1>5 DEF OnApproved
  <2>3. <<"enrolling">> \in Seq(UpdateStates)
    BY DEF UpdateStates
  <2>4. UNCHANGED workers \/ (activeContext # 0 /\ Starts(activeContext, activeURL, agentToken'))
    <3>1. Head(events).token \in Tokens
      BY <1>2, <2>1, TailShifts DEF TypeOK, WorkersTypeOK
    <3> QED
      BY <1>3, <2>1, <2>2, <2>3, <3>1, SpawnStarts, WorkersAssumption
  <2> QED
    BY <1>2, <2>1, <2>4 DEF HandsOver, BatonKinds
<1>6. CASE OnRejected
  <2>1. /\ Head(events).generation = generation
        /\ Head(events).kind = "authentication_rejected"
        /\ agentToken' = NoToken
    BY <1>6 DEF OnRejected, TakeCurrent, Current
  <2>2. \/ UNCHANGED workers /\ activeContext = 0
        \/ activeContext # 0 /\ StartEnrollment(activeContext, activeURL, <<>>)
    BY <1>6 DEF OnRejected
  <2>3. <<>> \in Seq(UpdateStates)
    OBVIOUS
  <2>4. \/ UNCHANGED workers /\ activeContext = 0
        \/ activeContext # 0 /\ Starts(activeContext, activeURL, agentToken')
    BY <1>3, <2>1, <2>2, <2>3, SpawnStarts
  <2> QED
    BY <1>2, <2>1, <2>4 DEF HandsOver, BatonKinds
<1> QED
  BY <1>4, <1>5, <1>6 DEF OnEvent

\* Every step is of one of the six kinds.
LEMMA StepKinds ==
  ASSUME TypeOK, [Next]_vars
  PROVE  Opens \/ Cancels \/ Consumes \/ HandsOver \/ Works \/ UNCHANGED ownership
<1>1. CASE OnInterrupt \/ OnWindowDone \/ OnDisconnect \/ OnQuit
  BY <1>1 DEF OnInterrupt, OnWindowDone, OnDisconnect, OnQuit, Stop, TakeAction, workerVars,
     Cancels
<1>2. CASE OnConnect
  <2>1. TakeAction("connect") /\ UsedIds # WorkerIds
    BY <1>2 DEF OnConnect, TakeAction, Turn
  <2>2. Head(actions).ip \in Hosts
    <3>1. actions \in Seq(UIAction) /\ actions # <<>>
      BY <2>1 DEF TakeAction, TypeOK, UITypeOK
    <3>2. Head(actions) \in UIAction /\ Head(actions).action = "connect"
      BY <2>1, <3>1, HeadTailProperties DEF TakeAction
    <3> QED
      BY <3>2 DEF UIAction
  <2>3. Reconnects
    BY <1>2, <2>1, <2>2, StartConnectionEffect DEF OnConnect, TypeOK
  <2> QED
    BY <2>1, <2>3, ReconnectKinds DEF TakeAction
<1>3. CASE OnLaunch
  <2>1. Head(launchRequests) \in URL
    BY <1>3, HeadTailProperties DEF OnLaunch, TypeOK
  <2>2. Head(launchRequests).host \in Hosts
    BY <2>1 DEF URL
  <2>3. Reconnects
    BY <1>3, <2>1, <2>2, StartConnectionEffect DEF OnLaunch, Turn
  <2> QED
    BY <1>3, <2>3, ReconnectKinds DEF OnLaunch
<1>4. CASE OnEvent
  BY <1>4, EventStepKinds
<1>5. CASE Goroutine
  <2>1. PICK w \in workers : EnrollmentStep(w) \/ AgentStep(w)
    BY <1>5 DEF Goroutine
  <2>2. StaysOrExits(w) /\ Sends(w)
    BY <2>1, GoroutineEffect DEF TypeOK
  <2> QED
    BY <1>5, <2>1, <2>2 DEF Goroutine, Works, loopVars
<1>6. CASE ReceiveLaunch \/ HandleLaunch \/ User \/ Interrupt \/ WindowUpdate
  BY <1>6 DEF ReceiveLaunch, HandleLaunch, User, Interrupt, WindowUpdate, loopVars,
     workerVars, ownership
<1>7. CASE Ended \/ UNCHANGED vars
  BY <1>7 DEF Ended, vars, loopVars, workerVars, ownership
<1> QED
  BY <1>1, <1>2, <1>3, <1>4, <1>5, <1>6, <1>7 DEF Next

-----------------------------------------------------------------------------
(* The inductive invariant. *)

IInv == TypeOK /\ ContextIsCurrent /\ OneOwner /\ CredentialAgreement /\ AddressAgreement

LEMMA ContextStep ==
  ASSUME TypeOK, TypeOK', ContextIsCurrent, [Next]_vars
  PROVE  ContextIsCurrent'
<1>0. generation \in Nat /\ generation' \in Nat
  BY DEF TypeOK
<1> USE DEF ContextIsCurrent
<1>1. CASE Opens
  BY <1>0, <1>1 DEF Opens, Starts
<1>2. CASE Cancels
  BY <1>0, <1>2 DEF Cancels
<1>3. CASE Consumes
  BY <1>0, <1>3, TailShifts DEF Consumes
<1>4. CASE HandsOver
  <2>1. \A k \in 1..Len(events') : events'[k].generation \in 1..generation'
    BY <1>0, <1>4, TailShifts DEF HandsOver
  <2>2. \A w \in workers' : w.generation \in 1..generation'
    BY <1>0, <1>4 DEF HandsOver, Starts
  <2> QED
    BY <1>4, <2>1, <2>2 DEF HandsOver
<1>5. CASE Works
  <2>1. PICK w \in workers : StaysOrExits(w) /\ Sends(w)
    BY <1>5 DEF Works
  <2>2. UNCHANGED <<generation, activeContext>>
    BY <1>5 DEF Works
  <2>3. \A v \in workers' : v.generation \in 1..generation
    BY <2>1 DEF StaysOrExits, Exit, Succeeds
  <2>4. \A k \in 1..Len(events') : events'[k].generation \in 1..generation
    BY <2>1, SendsShifts
  <2> QED
    BY <2>2, <2>3, <2>4
<1>6. CASE UNCHANGED ownership
  BY <1>6 DEF ownership
<1> QED
  BY <1>1, <1>2, <1>3, <1>4, <1>5, <1>6, StepKinds

LEMMA OwnerStep ==
  ASSUME TypeOK, ContextIsCurrent, OneOwner, [Next]_vars
  PROVE  OneOwner'
<1>0. generation \in Nat
  BY DEF TypeOK
<1>1. CASE Opens
  <2>1. \A v, w \in workers' : v.generation = w.generation => v = w
    BY <1>0, <1>1 DEF Opens, Starts, OneOwner, ContextIsCurrent
  <2>2. \A k \in 1..Len(events) : events[k].kind \in BatonKinds =>
          \A w \in workers' : w.generation # events[k].generation
    BY <1>0, <1>1 DEF Opens, Starts, OneOwner, ContextIsCurrent
  <2> QED
    BY <1>1, <2>1, <2>2 DEF Opens, OneOwner
<1>2. CASE Cancels
  BY <1>2 DEF Cancels, OneOwner
<1>3. CASE Consumes
  BY <1>3, TailShifts DEF Consumes, OneOwner
<1>4. CASE HandsOver
  <2>1. /\ events # <<>> /\ events' = Tail(events)
        /\ events[1].generation = generation /\ events[1].kind \in BatonKinds
    BY <1>4, TailShifts DEF HandsOver
  <2>2. /\ \A w \in workers : w.generation # generation
        /\ \A k \in 1..Len(events') :
             events'[k].kind \in BatonKinds => events'[k].generation # generation
    BY <2>1, TailShifts DEF OneOwner
  <2>3. \A v, w \in workers' : v.generation = w.generation => v = w
    BY <1>4, <2>2 DEF HandsOver, Starts, OneOwner, ContextIsCurrent
  <2>4. \A k \in 1..Len(events') : events'[k].kind \in BatonKinds =>
          \A w \in workers' : w.generation # events'[k].generation
    <3> SUFFICES ASSUME NEW k \in 1..Len(events'), events'[k].kind \in BatonKinds,
                        NEW w \in workers'
                 PROVE  w.generation # events'[k].generation
      OBVIOUS
    <3>1. CASE w \in workers
      BY <2>1, <3>1, TailShifts DEF OneOwner
    <3>2. CASE w \notin workers
      <4>1. w.generation = generation
        BY <1>4, <3>2 DEF HandsOver, Starts, ContextIsCurrent
      <4> QED
        BY <2>2, <4>1
    <3> QED
      BY <3>1, <3>2
  <2>5. \A j, k \in 1..Len(events') :
          events'[j].kind \in BatonKinds /\ events'[k].kind \in BatonKinds
            /\ events'[j].generation = events'[k].generation => j = k
    BY <2>1, TailShifts DEF OneOwner
  <2> QED
    BY <2>3, <2>4, <2>5 DEF OneOwner
<1>5. CASE Works
  <2>1. PICK w \in workers : StaysOrExits(w) /\ Sends(w)
    BY <1>5 DEF Works
  <2>2. \A v \in workers' : \E u \in workers :
          u.generation = v.generation /\ (u # w => v = u) /\ (Exit(w) => u # w)
    BY <2>1 DEF StaysOrExits, Exit, Succeeds
  <2>3. \A u, v \in workers' : u.generation = v.generation => u = v
    BY <2>1 DEF StaysOrExits, Exit, Succeeds, OneOwner
  <2>4. CASE UNCHANGED events
    BY <2>2, <2>3, <2>4 DEF OneOwner
  <2>5. CASE ~UNCHANGED events
    <3> DEFINE n == Len(events) + 1
    <3>1. /\ Len(events) \in Nat /\ Len(events') = n
          /\ \A k \in 1..Len(events) : events'[k] = events[k]
          /\ events'[n].generation = w.generation
          /\ events'[n].kind \in BatonKinds => Exit(w)
      BY <2>1, <2>5, SendsShifts
    <3>2. \A k \in 1..Len(events) : events'[k].kind \in BatonKinds =>
            /\ events'[k].generation # w.generation
            /\ \A v \in workers' : v.generation # events'[k].generation
      BY <2>2, <3>1 DEF OneOwner
    <3>3. events'[n].kind \in BatonKinds =>
            \A v \in workers' : v.generation # events'[n].generation
      BY <2>2, <3>1 DEF OneOwner
    <3>4. \A k \in 1..Len(events') : k \in 1..Len(events) \/ k = n
      BY <3>1
    <3> HIDE DEF n
    <3>5. \A k \in 1..Len(events') : events'[k].kind \in BatonKinds =>
            \A v \in workers' : v.generation # events'[k].generation
      BY <3>2, <3>3, <3>4
    <3>6. \A j, k \in 1..Len(events) :
            events'[j].kind \in BatonKinds /\ events'[k].kind \in BatonKinds
              /\ events'[j].generation = events'[k].generation => j = k
      BY <3>1 DEF OneOwner
    <3>7. \A j, k \in 1..Len(events') :
            events'[j].kind \in BatonKinds /\ events'[k].kind \in BatonKinds
              /\ events'[j].generation = events'[k].generation => j = k
      BY <3>1, <3>2, <3>4, <3>6
    <3> QED
      BY <2>3, <3>5, <3>7 DEF OneOwner
  <2> QED
    BY <2>4, <2>5
<1>6. CASE UNCHANGED ownership
  BY <1>6 DEF ownership, OneOwner
<1> QED
  BY <1>1, <1>2, <1>3, <1>4, <1>5, <1>6, StepKinds

LEMMA CredentialStep ==
  ASSUME TypeOK, ContextIsCurrent, OneOwner, CredentialAgreement, [Next]_vars
  PROVE  CredentialAgreement'
<1>0. generation \in Nat
  BY DEF TypeOK
<1>1. CASE Opens
  BY <1>0, <1>1 DEF Opens, Starts, CredentialAgreement, ContextIsCurrent
<1>2. CASE Cancels
  BY <1>0, <1>2 DEF Cancels, CredentialAgreement, ContextIsCurrent
<1>3. CASE Consumes
  BY <1>3, TailShifts DEF Consumes, CredentialAgreement
<1>4. CASE HandsOver
  <2>1. /\ events # <<>> /\ events' = Tail(events) /\ generation' = generation
        /\ events[1].generation = generation /\ events[1].kind \in BatonKinds
    BY <1>4, TailShifts DEF HandsOver
  <2>2. /\ \A w \in workers : w.generation # generation
        /\ \A k \in 1..Len(events') :
             events'[k].kind \in BatonKinds => events'[k].generation # generation
    BY <2>1, TailShifts DEF OneOwner
  <2>3. \A w \in workers' :
          w.generation = generation /\ w.role = "agent" => w.token = agentToken'
    BY <1>4, <2>2 DEF HandsOver, Starts
  <2> QED
    BY <2>1, <2>2, <2>3 DEF CredentialAgreement, BatonKinds
<1>5. CASE Works
  <2>1. PICK w \in workers : StaysOrExits(w) /\ Sends(w)
    BY <1>5 DEF Works
  <2>2. generation' = generation /\ agentToken' = agentToken
    BY <1>5 DEF Works
  <2>3. \A v \in workers' :
          v.generation = generation /\ v.role = "agent" => v.token = agentToken
    BY <2>1 DEF StaysOrExits, Exit, Succeeds, CredentialAgreement
  <2>4. \A k \in 1..Len(events') :
          events'[k].generation = generation /\ events'[k].kind = "authentication_rejected"
            => events'[k].token = agentToken
    BY <2>1, SendsShifts DEF CredentialAgreement
  <2> QED
    BY <2>2, <2>3, <2>4 DEF CredentialAgreement
<1>6. CASE UNCHANGED ownership
  BY <1>6 DEF ownership, CredentialAgreement
<1> QED
  BY <1>1, <1>2, <1>3, <1>4, <1>5, <1>6, StepKinds

LEMMA AddressStep ==
  ASSUME TypeOK, ContextIsCurrent, AddressAgreement, [Next]_vars
  PROVE  AddressAgreement'
<1>0. generation \in Nat
  BY DEF TypeOK
<1>1. CASE Opens
  BY <1>0, <1>1 DEF Opens, Starts, AddressAgreement, ContextIsCurrent
<1>2. CASE Cancels
  BY <1>0, <1>2 DEF Cancels, AddressAgreement, ContextIsCurrent
<1>3. CASE Consumes
  BY <1>3, TailShifts DEF Consumes, AddressAgreement
<1>4. CASE HandsOver
  <2>1. \A k \in 1..Len(events') : events'[k].generation = generation => events'[k].url = activeURL
    BY <1>4, TailShifts DEF HandsOver, AddressAgreement
  <2>2. \A w \in workers' : w.generation = generation => w.url = activeURL
    BY <1>4 DEF HandsOver, Starts, AddressAgreement
  <2> QED
    BY <1>4, <2>1, <2>2 DEF HandsOver, AddressAgreement
<1>5. CASE Works
  <2>1. PICK w \in workers : StaysOrExits(w) /\ Sends(w)
    BY <1>5 DEF Works
  <2>2. generation' = generation /\ activeURL' = activeURL
    BY <1>5 DEF Works
  <2>3. \A v \in workers' : v.generation = generation => v.url = activeURL
    BY <2>1 DEF StaysOrExits, Exit, Succeeds, AddressAgreement
  <2>4. \A k \in 1..Len(events') : events'[k].generation = generation => events'[k].url = activeURL
    BY <2>1, SendsShifts DEF AddressAgreement
  <2> QED
    BY <2>2, <2>3, <2>4 DEF AddressAgreement
<1>6. CASE UNCHANGED ownership
  BY <1>6 DEF ownership, AddressAgreement
<1> QED
  BY <1>1, <1>2, <1>3, <1>4, <1>5, <1>6, StepKinds

LEMMA InitIInv == Init => IInv
<1> SUFFICES ASSUME Init PROVE IInv
  OBVIOUS
<1>1. workers = {} /\ events = <<>> /\ generation = 0 /\ activeContext = 0
  BY DEF Init, WorkersInit
<1>2. \A k : k \notin 1..Len(events)
  BY <1>1
<1> QED
  BY <1>1, <1>2, InitTyped
     DEF IInv, ContextIsCurrent, OneOwner, CredentialAgreement, AddressAgreement

LEMMA NextIInv == IInv /\ [Next]_vars => IInv'
  BY NextTyped, ContextStep, OwnerStep, CredentialStep, AddressStep DEF IInv

\* The inductive invariant holds in every reachable state.
LEMMA Inductive == Spec => []IInv
  BY InitIInv, NextIInv, PTL DEF Spec

-----------------------------------------------------------------------------
(* What follows from it. *)

\* The live context is the latest one and everything alive or queued is of a
\* generation that was created (startConnection and stopConnection in run).
THEOREM ContextCorrect == Spec => []ContextIsCurrent
<1>1. IInv => ContextIsCurrent
  BY DEF IInv
<1> QED
  BY <1>1, Inductive, PTL

\* Enrollment goroutine, agent goroutine, approval and rejection of a connection
\* pass its ownership on and never hold it together.
THEOREM OwnerUnique == Spec => []OneOwner
<1>1. IInv => OneOwner
  BY DEF IInv
<1> QED
  BY <1>1, Inductive, PTL

\* The process never works for two connections at once: two goroutines that are
\* not cancelled are the same goroutine.
THEOREM LiveWorkerUnique == Spec => []OneLiveWorker
<1>1. IInv => OneLiveWorker
  BY DEF IInv, OneOwner, OneLiveWorker, Cancelled
<1> QED
  BY <1>1, Inductive, PTL

\* The agents and rejections of the current connection are those of the
\* credential in memory.
THEOREM CredentialCorrect == Spec => []CredentialAgreement
<1>1. IInv => CredentialAgreement
  BY DEF IInv
<1> QED
  BY <1>1, Inductive, PTL

\* What the current connection runs, reports and remembers is about the address
\* of the last startConnection.
THEOREM AddressCorrect == Spec => []AddressAgreement
<1>1. IInv => AddressAgreement
  BY DEF IInv
<1> QED
  BY <1>1, Inductive, PTL

\* The handler of authentication_rejected drops the very credential that the
\* server refused, and nothing else drops a credential.
THEOREM DropJustified == Spec => DroppedTokenWasRejected
<1>1. ASSUME IInv, [Next]_vars, agentToken' = NoToken, agentToken # NoToken
      PROVE  /\ events # <<>>
             /\ Head(events).kind = "authentication_rejected"
             /\ Head(events).token = agentToken
  <2>1. TypeOK
    BY <1>1 DEF IInv
  <2>2. HandsOver
    BY <1>1, <2>1, StepKinds DEF Opens, Cancels, Consumes, Works, ownership
  <2>3. Head(events) = events[1] /\ 1 \in 1..Len(events)
    BY <2>1, <2>2, TailShifts DEF HandsOver
  <2>4. Head(events).kind = "authentication_rejected"
    <3>1. Head(events).kind = "enrollment_approved" => Head(events).token \in Tokens
      BY <2>1, <2>3 DEF TypeOK, WorkersTypeOK
    <3> QED
      BY <1>1, <2>2, <3>1, WorkersAssumption DEF HandsOver, BatonKinds
  <2> QED
    BY <1>1, <2>2, <2>3, <2>4 DEF HandsOver, IInv, CredentialAgreement
<1> QED
  BY <1>1, Inductive, PTL DEF Spec, DroppedTokenWasRejected

\* An address gets into the saved configuration only after a goroutine of the
\* current connection reported an answer of the server under that address.
THEOREM SavedAddressJustified == Spec => SavedAddressWasReached
<1>1. ASSUME IInv, [Next]_vars, fileConfig'.serverURL # fileConfig.serverURL
      PROVE  /\ events # <<>>
             /\ Head(events).generation = generation
             /\ Head(events).kind \in AnsweredKinds
             /\ Head(events).url = fileConfig'.serverURL
  <2>1. TypeOK /\ AddressAgreement
    BY <1>1 DEF IInv
  <2>2. OnConnected \/ OnPending \/ OnApproved
    BY <1>1, <2>1 DEF Next, OnInterrupt, OnWindowDone, OnConnect, OnDisconnect, OnQuit,
       TakeAction, OnLaunch, OnEvent, DropStale, OnDisconnected, OnRetrying,
       OnEnrollmentError, OnRejected, ReceiveLaunch, HandleLaunch, User, Interrupt,
       WindowUpdate, Goroutine, Ended, vars, loopVars, TypeOK, Config
  <2>3. /\ events # <<>> /\ Head(events).generation = generation
        /\ Head(events).kind \in AnsweredKinds
        /\ events' = Tail(events)
        /\ fileConfig'.serverURL = activeURL
    BY <2>1, <2>2 DEF OnConnected, OnPending, OnApproved, TakeCurrent, TakeEvent, Current,
       AnsweredKinds, TypeOK, Config
  <2>4. Head(events) = events[1] /\ 1 \in 1..Len(events)
    BY <2>1, <2>3, TailShifts
  <2> QED
    BY <2>1, <2>3, <2>4 DEF AddressAgreement
<1> QED
  BY <1>1, Inductive, PTL DEF Spec, SavedAddressWasReached

-----------------------------------------------------------------------------
(* Launches. *)

\* The queue holds only URLs that the launch callback has let through.
QueuedLaunchesValid ==
  \A k \in 1..Len(launchRequests) : ValidLaunchServerURL(launchRequests[k])

\* A URL with a port of its own is its own candidate, but for the special port.
LEMMA LaunchCandidate ==
  ASSUME NEW url \in URL, ValidLaunchServerURL(url)
  PROVE  CandidateURL(url.host, url) =
           IF url.host = SpecialHost THEN [url EXCEPT !.port = SpecialPort] ELSE url
<1>1. PICK scheme \in {"ws", "wss"}, host \in Hosts, port \in Int :
        url = [scheme |-> scheme, host |-> host, port |-> port]
  BY DEF URL
<1>2. url.port = port /\ url.host = host /\ url.scheme = scheme
  BY <1>1
<1>3. port \in PortNumbers
  BY <1>2 DEF ValidLaunchServerURL
<1>4. port # NoPort
  BY <1>3 DEF PortNumbers, NoPort
<1>5. ServerPortForHost(host, url) = IF host = SpecialHost THEN SpecialPort ELSE port
  BY <1>2, <1>4 DEF ServerPortForHost, EndpointPort
<1>6. CandidateURL(host, url) = [scheme |-> scheme, host |-> host,
                                 port |-> ServerPortForHost(host, url)]
  BY <1>2 DEF CandidateURL
<1> QED
  BY <1>1, <1>2, <1>5, <1>6

LEMMA QueuedLaunchesStep ==
  ASSUME TypeOK, QueuedLaunchesValid, [Next]_vars
  PROVE  QueuedLaunchesValid'
<1>0. launchRequests \in Seq(URL) /\ Len(launchRequests) \in Nat
  BY LenProperties DEF TypeOK
<1>1. CASE UNCHANGED launchRequests
  BY <1>1 DEF QueuedLaunchesValid
<1>2. CASE OnLaunch
  <2>1. launchRequests # <<>> /\ launchRequests' = Tail(launchRequests)
    BY <1>2 DEF OnLaunch
  <2>2. /\ Len(launchRequests') = Len(launchRequests) - 1
        /\ \A k \in 1..Len(launchRequests') : launchRequests'[k] = launchRequests[k + 1]
    BY <1>0, <2>1, HeadTailProperties
  <2>3. \A k \in 1..Len(launchRequests') : k + 1 \in 1..Len(launchRequests)
    BY <1>0, <2>2
  <2> QED
    BY <2>2, <2>3 DEF QueuedLaunchesValid
<1>3. CASE HandleLaunch
  <2>1. CASE launchRequests' = launchRequests
    BY <2>1 DEF QueuedLaunchesValid
  <2>2. CASE launchRequests' # launchRequests
    <3>1. /\ launchRequests' = Append(launchRequests, inflightLaunch)
          /\ ValidLaunchServerURL(inflightLaunch) /\ inflightLaunch \in URL
      BY <1>3, <2>2 DEF HandleLaunch, TypeOK
    <3>2. /\ Len(launchRequests') = Len(launchRequests) + 1
          /\ \A k \in 1..Len(launchRequests) : launchRequests'[k] = launchRequests[k]
          /\ launchRequests'[Len(launchRequests) + 1] = inflightLaunch
      BY <1>0, <3>1, AppendProperties
    <3>3. \A k \in 1..Len(launchRequests') :
            k \in 1..Len(launchRequests) \/ k = Len(launchRequests) + 1
      BY <1>0, <3>2
    <3> QED
      BY <3>1, <3>2, <3>3 DEF QueuedLaunchesValid
  <2> QED
    BY <2>1, <2>2
<1>4. \/ OnLaunch \/ HandleLaunch \/ UNCHANGED launchRequests
  BY DEF Next, OnInterrupt, OnWindowDone, OnConnect, OnDisconnect, OnQuit, TakeAction,
     OnEvent, DropStale, OnConnected, OnDisconnected, OnRetrying, OnPending, OnApproved,
     OnEnrollmentError, OnRejected, TakeCurrent, TakeEvent, ReceiveLaunch, User, Interrupt,
     WindowUpdate, Goroutine, Ended, vars, bridgeVars
<1> QED
  BY <1>1, <1>2, <1>3, <1>4

\* A launch goes to the address it names, whatever the base URL was before: the
\* handler of launchRequests replaces *serverURL before it builds the candidate.
THEOREM LaunchKept == Spec => LaunchHonoured
<1> DEFINE launched == Head(launchRequests)
           honoured == activeURL' = IF launched.host = SpecialHost
                                    THEN [launched EXCEPT !.port = SpecialPort] ELSE launched
<1>1. Init => QueuedLaunchesValid
  BY DEF Init, QueuedLaunchesValid
<1>2. ASSUME TypeOK, QueuedLaunchesValid, OnLaunch, activeContext' # 0
      PROVE  honoured
  <2>1. launchRequests \in Seq(URL) /\ launchRequests # <<>>
    BY <1>2 DEF TypeOK, OnLaunch
  <2>2. launched \in URL /\ launched = launchRequests[1] /\ 1 \in 1..Len(launchRequests)
    BY <2>1, HeadTailProperties, EmptySeq, LenProperties
  <2>3. ValidLaunchServerURL(launched)
    BY <1>2, <2>2 DEF QueuedLaunchesValid
  <2>4. activeURL' = CandidateURL(launched.host, launched)
    BY <1>2 DEF OnLaunch, StartConnection
  <2> QED
    BY <2>2, <2>3, <2>4, LaunchCandidate
<1>3. TypeOK /\ QueuedLaunchesValid /\ [Next]_vars => QueuedLaunchesValid'
  BY QueuedLaunchesStep
<1>4. Spec => []QueuedLaunchesValid
  BY <1>1, <1>3, TypeCorrect, PTL DEF Spec
<1>5. TypeOK /\ QueuedLaunchesValid /\ [Next]_vars => [OnLaunch /\ activeContext' # 0 => honoured]_vars
  BY <1>2
<1> QED
  BY <1>4, <1>5, TypeCorrect, PTL DEF Spec, LaunchHonoured

-----------------------------------------------------------------------------
(* Remembered addresses. *)

\* The candidate for the URL's own host is the URL itself.
Stable(url) == CandidateURL(url.host, url) = url

\* Building a candidate a second time changes nothing more.
LEMMA CandidateStable ==
  ASSUME NEW ip \in Hosts, NEW previous \in URL, BuildableURL(CandidateURL(ip, previous))
  PROVE  Stable(CandidateURL(ip, previous))
<1> DEFINE port == ServerPortForHost(ip, previous)
           url == [scheme |-> previous.scheme, host |-> ip, port |-> port]
<1>1. CandidateURL(ip, previous) = url
  BY DEF CandidateURL
<1>2. url.scheme = previous.scheme /\ url.host = ip /\ url.port = port
  OBVIOUS
<1>3. port # NoPort
  <2>1. CandidateURL(ip, previous).port \in PortNumbers
    BY DEF BuildableURL
  <2> HIDE DEF port
  <2>2. port \in PortNumbers
    BY <1>1, <1>2, <2>1
  <2> QED
    BY <2>2 DEF PortNumbers, NoPort
<1>4. ip = SpecialHost => port = SpecialPort
  BY DEF ServerPortForHost
<1> HIDE DEF port, url
<1>5. ServerPortForHost(ip, url) = port
  BY <1>2, <1>3, <1>4 DEF ServerPortForHost, EndpointPort
<1>6. CandidateURL(ip, url) = [scheme |-> previous.scheme, host |-> ip, port |-> port]
  BY <1>2, <1>5 DEF CandidateURL
<1> QED
  BY <1>1, <1>2, <1>6 DEF Stable, url

ActiveStable == activeURL # NoURL => Stable(activeURL)

LEMMA ConnectionStable ==
  ASSUME ActiveStable, NEW ip \in Hosts, NEW previous \in URL, StartConnection(ip, previous)
  PROVE  ActiveStable'
<1>1. CASE activeURL' = activeURL
  BY <1>1 DEF ActiveStable
<1>2. CASE activeURL' # activeURL
  <2>1. /\ activeURL' = CandidateURL(ip, previous)
        /\ BuildableURL(CandidateURL(ip, previous))
    BY <1>2 DEF StartConnection
  <2>2. Stable(CandidateURL(ip, previous))
    BY <2>1, CandidateStable
  <2> QED
    BY <2>1, <2>2 DEF ActiveStable
<1> QED
  BY <1>1, <1>2

LEMMA ActiveStableStep ==
  ASSUME TypeOK, ActiveStable, [Next]_vars
  PROVE  ActiveStable'
<1>1. CASE OnConnect
  <2>1. actions \in Seq(UIAction) /\ actions # <<>> /\ Head(actions).action = "connect"
    BY <1>1 DEF OnConnect, TakeAction, TypeOK, UITypeOK
  <2>2. Head(actions).ip \in Hosts
    <3>1. Head(actions) \in UIAction
      BY <2>1, HeadTailProperties
    <3> QED
      BY <2>1, <3>1 DEF UIAction
  <2> QED
    BY <1>1, <2>2, ConnectionStable DEF OnConnect, TypeOK
<1>2. CASE OnLaunch
  <2>1. Head(launchRequests) \in URL
    BY <1>2, HeadTailProperties DEF OnLaunch, TypeOK
  <2>2. Head(launchRequests).host \in Hosts
    BY <2>1 DEF URL
  <2> QED
    BY <1>2, <2>1, <2>2, ConnectionStable DEF OnLaunch
<1>3. CASE UNCHANGED activeURL
  BY <1>3 DEF ActiveStable
<1>4. OnConnect \/ OnLaunch \/ UNCHANGED activeURL
  BY DEF Next, OnInterrupt, OnWindowDone, OnDisconnect, OnQuit, TakeAction, OnEvent,
     DropStale, OnConnected, OnDisconnected, OnRetrying, OnPending, OnApproved,
     OnEnrollmentError, OnRejected, TakeCurrent, TakeEvent, ReceiveLaunch, HandleLaunch,
     User, Interrupt, WindowUpdate, Goroutine, Ended, vars, loopVars
<1> QED
  BY <1>1, <1>2, <1>3, <1>4

\* An address that gets into the saved configuration reconnects to itself: when the
\* client starts again and serverURLFromEndpoint is applied to the host of the saved
\* URL, scheme, host and port come out as they were, the special port included.
THEOREM RememberedReconnects ==
  Spec => [][fileConfig'.serverURL # fileConfig.serverURL
               => Stable(fileConfig'.serverURL)]_vars
<1>1. Init => ActiveStable
  BY DEF Init, ActiveStable
<1>2. TypeOK /\ ActiveStable /\ [Next]_vars => ActiveStable'
  BY ActiveStableStep
<1>3. Spec => []ActiveStable
  BY <1>1, <1>2, TypeCorrect, PTL DEF Spec
<1>4. ASSUME IInv, ActiveStable, [Next]_vars, fileConfig'.serverURL # fileConfig.serverURL
      PROVE  Stable(fileConfig'.serverURL)
  <2>1. TypeOK /\ AddressAgreement
    BY <1>4 DEF IInv
  <2>2. OnConnected \/ OnPending \/ OnApproved
    BY <1>4, <2>1 DEF Next, OnInterrupt, OnWindowDone, OnConnect, OnDisconnect, OnQuit,
       TakeAction, OnLaunch, OnEvent, DropStale, OnDisconnected, OnRetrying,
       OnEnrollmentError, OnRejected, ReceiveLaunch, HandleLaunch, User, Interrupt,
       WindowUpdate, Goroutine, Ended, vars, loopVars, TypeOK, Config
  <2>3. /\ events # <<>> /\ Head(events).generation = generation
        /\ events' = Tail(events)
        /\ fileConfig'.serverURL = activeURL
    BY <2>1, <2>2 DEF OnConnected, OnPending, OnApproved, TakeCurrent, TakeEvent, Current,
       TypeOK, Config
  <2>4. Head(events).url = activeURL
    BY <2>1, <2>3, TailShifts DEF AddressAgreement
  <2>5. Head(events) \in Event
    BY <2>1, <2>3, HeadTailProperties DEF TypeOK, WorkersTypeOK
  <2>6. activeURL \in URL
    BY <2>4, <2>5 DEF Event
  <2>7. activeURL # NoURL
    BY <2>6, ControllerAssumption
  <2> QED
    BY <1>4, <2>3, <2>7 DEF ActiveStable
<1> QED
  BY <1>3, <1>4, Inductive, PTL DEF Spec

-----------------------------------------------------------------------------
(* Cancelled goroutines. *)

StayCancelled == \A w \in workers : Cancelled(w) => Cancelled(w)'

\* A context that has been cancelled never becomes live again: generations are not
\* used twice, and nothing undoes an interrupt.
THEOREM CancellationIsFinal == Spec => [][StayCancelled]_vars
<1>1. ASSUME IInv, [Next]_vars, NEW w \in workers, Cancelled(w)
      PROVE  Cancelled(w)'
  <2>1. TypeOK /\ w.generation \in 1..generation /\ generation \in Nat
    BY <1>1 DEF IInv, ContextIsCurrent, TypeOK
  <2>2. activeContext' \in {activeContext, 0, generation + 1}
    BY <1>1, <2>1, StepKinds DEF Opens, Cancels, Consumes, HandsOver, Works, ownership
  <2>3. interrupted' = interrupted \/ interrupted'
    BY <1>1 DEF Next, OnInterrupt, OnWindowDone, OnConnect, OnDisconnect, OnQuit, TakeAction,
       OnLaunch, OnEvent, DropStale, OnConnected, OnDisconnected, OnRetrying, OnPending,
       OnApproved, OnEnrollmentError, OnRejected, TakeCurrent, TakeEvent, ReceiveLaunch,
       HandleLaunch, User, Interrupt, WindowUpdate, Goroutine, Ended, vars
  <2>4. CASE interrupted
    BY <2>3, <2>4 DEF Cancelled
  <2>5. CASE activeContext # w.generation
    BY <2>1, <2>2, <2>5 DEF Cancelled
  <2> QED
    BY <1>1, <2>4, <2>5 DEF Cancelled
<1>2. IInv /\ [Next]_vars => StayCancelled
  BY <1>1 DEF StayCancelled
<1> QED
  BY <1>2, Inductive, PTL DEF Spec

\* Steps that a goroutine of a cancelled context can still take from a stage.
StepsLeft(stage) ==
  CASE stage = "dialing" -> 5
    [] stage \in {"submitting", "report_up"} -> 4
    [] stage \in {"report_pending", "serving"} -> 3
    [] stage \in {"polling", "report_down_retry", "report_down_rejected", "report_retry"} -> 2
    [] OTHER -> 1

LEMMA CancelledMove ==
  ASSUME WorkersTypeOK, NEW w \in workers, Cancelled(w), NEW stage \in EnrollmentStages \cup AgentStages,
         Move(w, stage), StepsLeft(stage) < StepsLeft(w.at)
  PROVE  \A v \in workers' \ workers :
           v.generation = w.generation /\ v.role = w.role /\ StepsLeft(v.at) < StepsLeft(w.at)
<1>1. w \in Worker
  BY DEF WorkersTypeOK
<1>2. \A v \in workers' \ workers : v = [w EXCEPT !.at = stage]
  BY DEF Move
<1>3. /\ [w EXCEPT !.at = stage].generation = w.generation
      /\ [w EXCEPT !.at = stage].role = w.role
      /\ [w EXCEPT !.at = stage].at = stage
  BY <1>1 DEF Worker
<1> QED
  BY <1>2, <1>3

Descend ==
  \A w \in workers \ workers' : Cancelled(w) =>
    \A v \in workers' \ workers :
      v.generation = w.generation /\ v.role = w.role /\ StepsLeft(v.at) < StepsLeft(w.at)

\* Every step of a goroutine of a cancelled context brings it nearer to its end: it
\* never goes round the reconnect loop of agent.Run or the polling loop again, so at
\* most five steps of it are left, and whoever waits for it waits for these only.
THEOREM CancelledDescends == Spec => [][Descend]_vars
<1>1. ASSUME IInv, [Next]_vars, NEW w \in workers \ workers', Cancelled(w)
      PROVE  \A v \in workers' \ workers :
               v.generation = w.generation /\ v.role = w.role /\ StepsLeft(v.at) < StepsLeft(w.at)
  <2>1. TypeOK /\ WorkersTypeOK
    BY <1>1 DEF IInv, TypeOK
  <2>2. Works
    BY <1>1, <2>1, StepKinds DEF Opens, Starts, Cancels, Consumes, HandsOver, ownership
  <2>3. PICK u \in workers : StaysOrExits(u) /\ (EnrollmentStep(u) \/ AgentStep(u))
    BY <2>2 DEF Works
  <2>4. u = w
    BY <1>1, <2>3 DEF StaysOrExits, Exit
  <2>5. CASE Exit(w)
    BY <2>5 DEF Exit
  <2>6. CASE EnrollmentStep(w) /\ ~Exit(w)
    <3>1. CASE w.at = "polling"
      <4>1. PICK t \in Tokens :
              workers' = (workers \ {w}) \cup {[w EXCEPT !.at = "report_approved", !.token = t]}
        <5>1. Poll(w)
          BY <2>6, <3>1 DEF EnrollmentStep, Submit, ReportPending, ReportApproved, ReportError
        <5>2. ~EnrollmentFails(w)
          BY <1>1, <2>6 DEF EnrollmentFails, MoveUnlessCancelled
        <5> QED
          BY <5>1, <5>2 DEF Poll
      <4> DEFINE v == [w EXCEPT !.at = "report_approved", !.token = t]
      <4>2. v.generation = w.generation /\ v.role = w.role /\ v.at = "report_approved"
        BY <2>1 DEF WorkersTypeOK, Worker
      <4> HIDE DEF v
      <4>3. \A x \in workers' \ workers : x = v
        BY <4>1 DEF v
      <4> QED
        BY <3>1, <4>2, <4>3 DEF StepsLeft
    <3>2. CASE w.at # "polling"
      <4>1. \E stage \in EnrollmentStages \cup AgentStages :
              Move(w, stage) /\ StepsLeft(stage) < StepsLeft(w.at)
        <5>1. ~EnrollmentFails(w)
          BY <1>1, <2>6 DEF EnrollmentFails, MoveUnlessCancelled
        <5>2. \/ w.at = "submitting" /\ Move(w, "report_pending")
              \/ w.at = "report_pending" /\ Move(w, "polling")
          BY <2>6, <3>2, <5>1 DEF EnrollmentStep, Submit, ReportPending, Poll,
             ReportApproved, ReportError
        <5> QED
          BY <5>2 DEF StepsLeft, EnrollmentStages
      <4> QED
        BY <1>1, <2>1, <4>1, CancelledMove
    <3> QED
      BY <3>1, <3>2
  <2>7. CASE AgentStep(w) /\ ~Exit(w)
    <3>1. \E stage \in EnrollmentStages \cup AgentStages :
            Move(w, stage) /\ StepsLeft(stage) < StepsLeft(w.at)
      BY <1>1, <2>7 DEF AgentStep, Dial, ReportUp, ConnectionEnds, ReportDown, ReportRetry,
         BackoffEnds, ReportRejected, MoveUnlessCancelled, StepsLeft, AgentStages
    <3> QED
      BY <1>1, <2>1, <3>1, CancelledMove
  <2> QED
    BY <2>3, <2>4, <2>5, <2>6, <2>7
<1>2. IInv /\ [Next]_vars => Descend
  BY <1>1 DEF Descend
<1> QED
  BY <1>2, Inductive, PTL DEF Spec

StartLive ==
  \A v \in workers' :
    (\A w \in workers : w.generation # v.generation) => activeContext' = v.generation

\* A goroutine is started for the live context only: the handlers that hand a
\* connection over look at activeContext, so a cancelled connection gets no successor.
THEOREM NoneStartsCancelled == Spec => [][StartLive]_vars
<1>1. ASSUME IInv, [Next]_vars, NEW v \in workers',
             \A w \in workers : w.generation # v.generation
      PROVE  activeContext' = v.generation
  <2>1. TypeOK /\ v \notin workers
    BY <1>1 DEF IInv
  <2>2. ~Works
    BY <1>1, <2>1 DEF Works, StaysOrExits, Exit, Succeeds
  <2> QED
    BY <2>1, <2>2, <1>1, StepKinds DEF Opens, Starts, Cancels, Consumes, HandsOver, ownership
<1>2. IInv /\ [Next]_vars => StartLive
  BY <1>1 DEF StartLive
<1> QED
  BY <1>2, Inductive, PTL DEF Spec
=============================================================================
