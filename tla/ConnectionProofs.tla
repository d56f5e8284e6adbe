--------------------------- MODULE ConnectionProofs ---------------------------
(***************************************************************************)
(* The controller implements Connection: every step of run, of its         *)
(* goroutines and of its window is a step of the one connection described  *)
(* there, or changes nothing of it.                                        *)
(***************************************************************************)
EXTENDS ControllerProofs

\* Owners, of any goroutines, events and generation.
OwnersOf(ws, es, g) ==
  {WorkerOwner(w) : w \in {v \in ws : v.generation = g}} \cup
  {EventOwner(es[k]) : k \in {j \in 1..Len(es) :
                                es[j].generation = g /\ es[j].kind \in BatonKinds}}

LEMMA OwnersAre ==
  /\ Owners = OwnersOf(workers, events, generation)
  /\ Owners' = OwnersOf(workers', events', generation')
  BY DEF Owners, CurrentWorkers, Batons, OwnersOf, WorkerOwner, EventOwner, BatonKinds

LEMMA OwnersMember ==
  ASSUME NEW ws, NEW es, NEW g, NEW o
  PROVE  o \in OwnersOf(ws, es, g) <=>
           \/ \E w \in ws : w.generation = g /\ o = WorkerOwner(w)
           \/ \E k \in 1..Len(es) :
                /\ es[k].generation = g /\ es[k].kind \in BatonKinds
                /\ o = EventOwner(es[k])
  BY DEF OwnersOf

LEMMA OwnersNow ==
  ASSUME NEW o
  PROVE  o \in Owners <=>
           \/ \E w \in workers : w.generation = generation /\ o = WorkerOwner(w)
           \/ \E k \in 1..Len(events) :
                /\ events[k].generation = generation /\ events[k].kind \in BatonKinds
                /\ o = EventOwner(events[k])
  BY OwnersAre, OwnersMember

LEMMA OwnersNext ==
  ASSUME NEW o
  PROVE  o \in Owners' <=>
           \/ \E w \in workers' : w.generation = generation' /\ o = WorkerOwner(w)
           \/ \E k \in 1..Len(events') :
                /\ events'[k].generation = generation' /\ events'[k].kind \in BatonKinds
                /\ o = EventOwner(events'[k])
  BY OwnersAre, OwnersMember

\* A generation that was not created yet has no owner.
LEMMA NobodyAhead ==
  ASSUME TypeOK, ContextIsCurrent
  PROVE  /\ generation \in Nat /\ Len(events) \in Nat
         /\ \A w \in workers : w.generation # generation + 1
         /\ \A k \in 1..Len(events) : events[k].generation # generation + 1
  BY LenProperties DEF TypeOK, WorkersTypeOK, ContextIsCurrent

-----------------------------------------------------------------------------
(* The event loop. *)

LEMMA OpensSimulated ==
  ASSUME IInv, Opens, UNCHANGED interrupted
  PROVE  Life!Open
<1>0. TypeOK /\ ContextIsCurrent
  BY DEF IInv
<1>1. /\ (activeContext' # 0) = TRUE
      /\ generation' = generation + 1 /\ UNCHANGED <<events, agentToken>>
  BY <1>0, NobodyAhead DEF Opens
<1>2. CASE agentToken # NoToken /\ UNCHANGED workers
  <2>1. \A o : o \notin Owners'
    BY <1>0, <1>1, <1>2, NobodyAhead, OwnersNext
  <2> QED
    BY <1>1, <1>2, <2>1 DEF Life!Open
<1>3. ASSUME NEW v \in Worker,
             v.generation = generation + 1,
             v.role = (IF agentToken = NoToken THEN "enrollment" ELSE "agent"),
             v.role = "agent" => v.token = agentToken,
             workers' = workers \cup {v}
      PROVE  Life!Open
  <2> DEFINE o == WorkerOwner(v)
  <2>1. o = [stage |-> v.role, url |-> v.url, token |-> agentToken] /\ o.url \in URL
    BY <1>3 DEF WorkerOwner, Worker
  <2>2. \A p : p \in Owners' <=> p = o
    BY <1>0, <1>1, <1>3, NobodyAhead, OwnersNext
  <2> HIDE DEF o
  <2>3. o \in Owners' /\ Owners' = {o} /\ o.url = v.url
    BY <2>1, <2>2
  <2>4. Life!Starts(v.role)
    BY <2>1, <2>3 DEF Life!Starts
  <2> QED
    BY <1>1, <1>3, <2>4 DEF Life!Open
<1> QED
  BY <1>2, <1>3 DEF Opens, Starts

LEMMA CancelsSimulated ==
  ASSUME IInv, Cancels, UNCHANGED interrupted
  PROVE  Life!Close
<1>0. TypeOK /\ ContextIsCurrent
  BY DEF IInv
<1>1. (activeContext' # 0) = FALSE
  BY DEF Cancels
<1>2. CASE generation' = generation
  BY <1>1, <1>2, OwnersAre DEF Cancels, Life!Close
<1>3. CASE generation' = generation + 1
  <2>1. \A o : o \notin Owners'
    BY <1>0, <1>3, NobodyAhead, OwnersNext DEF Cancels
  <2> QED
    BY <1>1, <2>1 DEF Cancels, Life!Close
<1> QED
  BY <1>2, <1>3 DEF Cancels

\* An event that hands nothing over is nobody's.
LEMMA ConsumesSimulated ==
  ASSUME IInv, Consumes, UNCHANGED interrupted
  PROVE  UNCHANGED Life!vars
<1>0. TypeOK
  BY DEF IInv
<1>1. /\ events # <<>> /\ events' = Tail(events)
      /\ UNCHANGED <<generation, activeContext, agentToken, workers>>
      /\ events[1].generation = generation => events[1].kind \notin BatonKinds
  BY <1>0, TailShifts DEF Consumes
<1>2. ASSUME NEW k \in 1..Len(events), k # 1
      PROVE  \E j \in 1..Len(events') : events'[j] = events[k]
  <2>1. events \in Seq(Event)
    BY <1>0 DEF TypeOK, WorkersTypeOK
  <2>2. /\ Len(events) \in Nat /\ Len(events') = Len(events) - 1
        /\ \A j \in 1..Len(events') : events'[j] = events[j + 1]
    BY <1>1, <2>1, HeadTailProperties, LenProperties
  <2>3. k - 1 \in 1..Len(events') /\ (k - 1) + 1 = k
    BY <1>2, <2>2
  <2> QED
    BY <2>2, <2>3
<1>3. \A o : o \in Owners' => o \in Owners
  BY <1>0, <1>1, TailShifts, OwnersNow, OwnersNext
<1>4. ASSUME NEW o, o \in Owners
      PROVE  o \in Owners'
  <2>1. CASE \E w \in workers : w.generation = generation /\ o = WorkerOwner(w)
    BY <1>1, <2>1, OwnersNext
  <2>2. ASSUME NEW k \in 1..Len(events),
               events[k].generation = generation, events[k].kind \in BatonKinds,
               o = EventOwner(events[k])
        PROVE  o \in Owners'
    <3>1. PICK j \in 1..Len(events') : events'[j] = events[k]
      BY <1>1, <1>2, <2>2
    <3> QED
      BY <1>1, <2>2, <3>1, OwnersNext
  <2> QED
    BY <1>4, <2>1, <2>2, OwnersNow
<1>5. Owners' = Owners
  BY <1>3, <1>4
<1> QED
  BY <1>1, <1>5 DEF Life!vars

LEMMA HandsOverSimulated ==
  ASSUME IInv, HandsOver, UNCHANGED interrupted
  PROVE  Life!Accept \/ Life!Renew
<1>e. PICK e : e = events[1]
  OBVIOUS
<1>0. TypeOK /\ ContextIsCurrent /\ OneOwner /\ CredentialAgreement /\ AddressAgreement
  BY DEF IInv
<1>1. /\ events # <<>> /\ events' = Tail(events) /\ Head(events) = e /\ 1 \in 1..Len(events)
      /\ e.generation = generation /\ e.kind \in BatonKinds
      /\ agentToken' = IF e.kind = "enrollment_approved" THEN e.token ELSE NoToken
      /\ generation' = generation /\ activeContext' = activeContext
  BY <1>e, <1>0, TailShifts DEF HandsOver
<1>2. \A w \in workers : w.generation # generation
  BY <1>e, <1>0, <1>1 DEF OneOwner
<1>3. \A k \in 1..Len(events') :
        events'[k].kind \in BatonKinds => events'[k].generation # generation
  BY <1>e, <1>0, <1>1, TailShifts DEF OneOwner
<1>4. EventOwner(e) \in Owners
  BY <1>e, <1>1, OwnersNow
<1>5. e.url = activeURL
  BY <1>e, <1>0, <1>1 DEF AddressAgreement
<1>6. UNCHANGED workers => Owners' = {}
  <2>1. UNCHANGED workers => \A o : o \notin Owners'
    BY <1>1, <1>2, <1>3, OwnersNext
  <2> QED
    BY <2>1
<1>7. ASSUME activeContext # 0, Starts(activeContext, activeURL, agentToken')
      PROVE  \/ agentToken' # NoToken /\ UNCHANGED workers
             \/ Owners' = {[stage |-> IF agentToken' = NoToken THEN "enrollment" ELSE "agent",
                            url |-> e.url, token |-> agentToken']}
  <2> SUFFICES ASSUME NEW v \in Worker,
                      v.generation = activeContext, v.url = activeURL,
                      v.role = (IF agentToken' = NoToken THEN "enrollment" ELSE "agent"),
                      v.role = "agent" => v.token = agentToken',
                      workers' = workers \cup {v}
               PROVE  Owners' = {[stage |-> v.role, url |-> e.url, token |-> agentToken']}
    BY <1>7 DEF Starts
  <2>1. v.generation = generation
    BY <1>0, <1>7 DEF ContextIsCurrent
  <2>2. WorkerOwner(v) = [stage |-> v.role, url |-> e.url, token |-> agentToken']
    BY <1>5 DEF WorkerOwner
  <2>3. \A o : o \in Owners' <=> o = WorkerOwner(v)
    BY <1>1, <1>2, <1>3, <2>1, OwnersNext
  <2> QED
    BY <2>2, <2>3
<1>8. CASE e.kind = "enrollment_approved"
  <2>1. e.token \in Tokens
    BY <1>e, <1>0, <1>1, <1>8 DEF TypeOK, WorkersTypeOK
  <2>2. EventOwner(e) = [stage |-> "approved", url |-> e.url, token |-> e.token]
    BY <1>8 DEF EventOwner
  <2>3. EventOwner(e) \in Life!Owner("approved")
    BY <1>4, <2>2 DEF Life!Owner
  <2>4. \/ Owners' = {}
        \/ activeContext # 0 /\ Owners' = {[stage |-> "agent", url |-> e.url, token |-> e.token]}
    BY <1>1, <1>6, <1>7, <1>8, <2>1, WorkersAssumption DEF HandsOver
  <2> QED
    BY <1>1, <1>8, <2>2, <2>3, <2>4 DEF Life!Accept, Life!Becomes
<1>9. CASE e.kind = "authentication_rejected"
  <2>1. e.token = agentToken /\ agentToken' = NoToken
    BY <1>e, <1>0, <1>1, <1>9 DEF CredentialAgreement
  <2>2. EventOwner(e) = [stage |-> "refused", url |-> e.url, token |-> e.token]
    BY <1>9 DEF EventOwner
  <2>3. EventOwner(e) \in Life!Owner("refused")
    BY <1>4, <2>2 DEF Life!Owner
  <2>4. IF activeContext # 0
        THEN Owners' = {[stage |-> "enrollment", url |-> e.url, token |-> NoToken]}
        ELSE Owners' = {}
    BY <1>1, <1>6, <1>7, <1>9, <2>1 DEF HandsOver
  <2> QED
    BY <1>1, <2>1, <2>2, <2>3, <2>4 DEF Life!Renew, Life!Becomes
<1> QED
  BY <1>1, <1>8, <1>9 DEF BatonKinds

-----------------------------------------------------------------------------
(* The goroutines. *)

\* Who moves on is still there.
LEMMA MoveIsNoExit ==
  ASSUME TypeOK, OneOwner, NEW w \in workers, NEW stage, Move(w, stage)
  PROVE  ~Exit(w)
<1> DEFINE v == [w EXCEPT !.at = stage]
<1>1. w \in Worker
  BY DEF TypeOK, WorkersTypeOK
<1>2. v.generation = w.generation
  BY <1>1 DEF Worker
<1>3. v \in workers'
  BY DEF Move
<1> HIDE DEF v
<1> QED
  BY <1>2, <1>3 DEF Exit, OneOwner

\* An agent goroutine leaves without a word only when its context is cancelled.
LEMMA AgentExits ==
  ASSUME TypeOK, OneOwner, NEW w \in workers, w.role = "agent", Exit(w),
         EnrollmentStep(w) \/ AgentStep(w)
  PROVE  \/ Cancelled(w)
         \/ events' = Append(events, EventOf(w, "authentication_rejected", w.token))
<1> SUFFICES ASSUME ~Cancelled(w)
             PROVE  events' = Append(events, EventOf(w, "authentication_rejected", w.token))
  OBVIOUS
<1>1. w.at \in AgentStages
  BY DEF TypeOK, WorkersTypeOK
<1>2. \A stage : ~Move(w, stage) /\ ~MoveUnlessCancelled(w, stage)
  BY MoveIsNoExit DEF MoveUnlessCancelled
<1>3. AgentStep(w)
  BY <1>1 DEF EnrollmentStep, Submit, ReportPending, Poll, ReportApproved, ReportError,
     AgentStages
<1>4. ReportRejected(w)
  BY <1>2, <1>3 DEF AgentStep, Dial, ReportUp, ConnectionEnds, ReportDown, ReportRetry,
     BackoffEnds
<1> QED
  BY <1>4 DEF ReportRejected, Report

\* A step of a goroutine of a former connection.
LEMMA FormerSimulated ==
  ASSUME IInv, UNCHANGED <<generation, activeContext, agentToken, interrupted>>,
         NEW w \in workers, w.generation # generation, StaysOrExits(w), Sends(w)
  PROVE  UNCHANGED Life!vars
<1>0. TypeOK
  BY DEF IInv
<1>1. \A v : v.generation = generation => (v \in workers' <=> v \in workers)
  BY DEF StaysOrExits, Exit, Succeeds
<1>2. \A k \in 1..Len(events') : events'[k].generation = generation =>
        k \in 1..Len(events) /\ events'[k] = events[k]
  BY <1>0, SendsShifts
<1>3. \A k \in 1..Len(events) : k \in 1..Len(events') /\ events'[k] = events[k]
  BY <1>0, SendsShifts
<1>4. \A o : o \in Owners' => o \in Owners
  BY <1>1, <1>2, OwnersNow, OwnersNext
<1>5. \A o : o \in Owners => o \in Owners'
  BY <1>1, <1>3, OwnersNow, OwnersNext
<1>6. Owners' = Owners
  BY <1>4, <1>5
<1> QED
  BY <1>6 DEF Life!vars

\* A step of the goroutine that has the connection.
LEMMA OwnerSimulated ==
  ASSUME IInv, IInv', UNCHANGED <<generation, activeContext, agentToken, interrupted>>,
         NEW w \in workers, w.generation = generation, StaysOrExits(w), Sends(w),
         EnrollmentStep(w) \/ AgentStep(w)
  PROVE  Life!Issue \/ Life!Refuse \/ Life!GiveUp \/ UNCHANGED Life!vars
<1> DEFINE o == WorkerOwner(w)
<1>0. /\ TypeOK /\ ContextIsCurrent /\ OneOwner /\ CredentialAgreement
      /\ w \in Worker /\ OneOwner'
  BY DEF IInv, TypeOK, WorkersTypeOK
<1>1. o.stage = w.role /\ o.url = w.url /\ w.role \in {"enrollment", "agent"}
  BY <1>0 DEF WorkerOwner, Worker
<1>2. w.role = "agent" => o.token = agentToken /\ w.token = agentToken
  BY <1>0 DEF WorkerOwner, CredentialAgreement
<1>3. \A p : p \in Owners <=> p = o
  BY <1>0, OwnersNow DEF OneOwner
<1> HIDE DEF o
<1>4. Owners = {o}
  BY <1>3
<1>5. ASSUME NEW v, Succeeds(v, w), workers' = (workers \ {w}) \cup {v}
      PROVE  UNCHANGED Life!vars
  <2>1. WorkerOwner(v) = o /\ v.generation = generation /\ v \in workers'
    BY <1>5 DEF WorkerOwner, Succeeds, o
  <2>2. \A u \in workers' : u.generation = generation' => u = v
    BY <1>0, <2>1 DEF OneOwner
  <2>3. \A k \in 1..Len(events') :
          events'[k].generation = generation' => events'[k].kind \notin BatonKinds
    BY <1>0, <2>1 DEF OneOwner
  <2>4. \A p : p \in Owners' <=> p = o
    BY <2>1, <2>2, <2>3, OwnersNext
  <2> QED
    BY <1>3, <2>4 DEF Life!vars
<1>6. CASE Exit(w)
  <2>1. \A u \in workers' : u.generation # generation'
    BY <1>0, <1>6 DEF Exit, OneOwner
  <2>2. \A k \in 1..Len(events) :
          events[k].generation = generation => events[k].kind \notin BatonKinds
    BY <1>0 DEF OneOwner
  <2>3. ASSUME NEW e, e.generation = generation, e.kind \in BatonKinds, e.url = w.url,
               Len(events') = Len(events) + 1, events'[Len(events) + 1] = e,
               \A k \in 1..Len(events) : events'[k] = events[k]
        PROVE  Owners' = {EventOwner(e)}
    <3>1. Len(events) \in Nat
      BY <1>0, SendsShifts
    <3>2. \A k \in 1..Len(events') : k \in 1..Len(events) \/ k = Len(events')
      BY <2>3, <3>1
    <3>3. \A p : p \in Owners' => p = EventOwner(e)
      BY <2>1, <2>2, <2>3, <3>2, OwnersNext
    <3>4. EventOwner(e) \in Owners'
      BY <2>3, <3>1, OwnersNext
    <3> QED
      BY <3>3, <3>4
  <2>4. ASSUME NEW e \in Event, e.generation = generation, e.url = w.url,
               e.kind = "enrollment_approved", w.role # "agent", e.token \in Tokens,
               Owners' = {EventOwner(e)}
        PROVE  Life!Issue
    <3>1. EventOwner(e) = [stage |-> "approved", url |-> o.url, token |-> e.token]
      BY <1>1, <2>4 DEF EventOwner
    <3>2. o \in Life!Owner("enrollment")
      BY <1>1, <1>4, <2>4 DEF Life!Owner
    <3> QED
      BY <2>4, <3>1, <3>2 DEF Life!Issue, Life!Becomes
  <2>5. ASSUME NEW e \in Event, e.generation = generation, e.url = w.url,
               e.kind = "authentication_rejected", w.role = "agent", e.token = w.token,
               Owners' = {EventOwner(e)}
        PROVE  Life!Refuse
    <3>1. EventOwner(e) = [stage |-> "refused", url |-> o.url, token |-> agentToken]
      BY <1>1, <1>2, <2>5 DEF EventOwner
    <3>2. o \in Life!Owner("agent")
      BY <1>1, <1>4, <2>5 DEF Life!Owner
    <3> QED
      BY <1>2, <2>5, <3>1, <3>2 DEF Life!Refuse, Life!Becomes
  <2>6. ASSUME \A k \in 1..Len(events') :
                 events'[k].generation = generation => events'[k].kind \notin BatonKinds
        PROVE  Life!GiveUp
    <3>1. \A p : p \notin Owners'
      BY <2>1, <2>6, OwnersNext
    <3>2. CASE w.role = "agent"
      <4>1. events' # Append(events, EventOf(w, "authentication_rejected", w.token))
        <5> DEFINE e == EventOf(w, "authentication_rejected", w.token)
        <5>1. e.generation = generation /\ e.kind \in BatonKinds
          BY DEF EventOf, BatonKinds
        <5>2. e \in Event /\ events \in Seq(Event) /\ Len(events) \in Nat
          BY <1>0, SendsShifts DEF EventOf, Event, EventKinds, Worker, TypeOK, WorkersTypeOK
        <5> HIDE DEF e
        <5>3. events' = Append(events, e) =>
                Len(events') = Len(events) + 1 /\ events'[Len(events) + 1] = e
          BY <5>2, AppendProperties
        <5> QED
          BY <2>6, <5>1, <5>2, <5>3 DEF e
      <4>2. Cancelled(w)
        BY <1>0, <1>6, <3>2, <4>1, AgentExits
      <4>3. (activeContext # 0) = FALSE \/ interrupted
        BY <1>0, <4>2 DEF Cancelled, ContextIsCurrent
      <4> QED
        BY <3>1, <4>3 DEF Life!GiveUp
    <3>3. CASE w.role = "enrollment"
      <4>1. o \in Life!Owner("enrollment")
        BY <1>1, <1>4, <3>3 DEF Life!Owner
      <4> QED
        BY <3>1, <4>1 DEF Life!GiveUp
    <3> QED
      BY <1>1, <3>2, <3>3
  <2>7. CASE UNCHANGED events
    BY <2>2, <2>6, <2>7
  <2>8. ASSUME NEW e \in Event, Len(events') = Len(events) + 1, events'[Len(events) + 1] = e,
               \A k \in 1..Len(events) : events'[k] = events[k],
               e.generation = w.generation, e.url = w.url,
               e.kind = "authentication_rejected" => w.role = "agent" /\ e.token = w.token,
               e.kind = "enrollment_approved" => w.role # "agent" /\ e.token \in Tokens
        PROVE  Life!Issue \/ Life!Refuse \/ Life!GiveUp
    <3>1. CASE e.kind \in BatonKinds
      <4>1. Owners' = {EventOwner(e)}
        BY <2>3, <2>8, <3>1
      <4> QED
        BY <2>4, <2>5, <2>8, <3>1, <4>1 DEF BatonKinds
    <3>2. CASE e.kind \notin BatonKinds
      <4>1. \A k \in 1..Len(events') : k \in 1..Len(events) \/ k = Len(events) + 1
        BY <1>0, <2>8, SendsShifts
      <4> QED
        BY <2>2, <2>6, <2>8, <3>2, <4>1
    <3> QED
      BY <3>1, <3>2
  <2> QED
    BY <1>0, <2>7, <2>8, SendsShifts
<1> QED
  BY <1>5, <1>6 DEF StaysOrExits

LEMMA WorksSimulated ==
  ASSUME IInv, IInv', Works, UNCHANGED interrupted
  PROVE  Life!Issue \/ Life!Refuse \/ Life!GiveUp \/ UNCHANGED Life!vars
<1>1. PICK w \in workers : StaysOrExits(w) /\ Sends(w) /\ (EnrollmentStep(w) \/ AgentStep(w))
  BY DEF Works
<1>2. UNCHANGED <<generation, activeContext, agentToken, interrupted>>
  BY DEF Works
<1>3. CASE w.generation = generation
  BY <1>1, <1>2, <1>3, OwnerSimulated
<1>4. CASE w.generation # generation
  BY <1>1, <1>2, <1>4, FormerSimulated
<1> QED
  BY <1>3, <1>4

-----------------------------------------------------------------------------
(* The implementation. *)

LEMMA InitSimulated == Init => Life!Init
<1> SUFFICES ASSUME Init PROVE Life!Init
  OBVIOUS
<1>1. workers = {} /\ events = <<>> /\ activeContext = 0 /\ interrupted = FALSE
  BY DEF Init, WorkersInit
<1>2. \A o : o \notin Owners
  BY <1>1, OwnersNow
<1>3. agentToken \in Tokens \cup {NoToken}
  BY InitTyped DEF TypeOK, MaybeToken
<1> QED
  BY <1>1, <1>2, <1>3 DEF Life!Init

LEMMA StepSimulated ==
  ASSUME IInv, IInv', [Next]_vars
  PROVE  [Life!Next]_(Life!vars)
<1>1. TypeOK
  BY DEF IInv
<1>2. CASE Interrupt
  <2>1. Owners' = Owners /\ UNCHANGED <<activeContext, agentToken>> /\ interrupted' = TRUE
    BY <1>2, OwnersAre DEF Interrupt, loopVars, workerVars
  <2> QED
    BY <2>1 DEF Life!Next, Life!Interrupt
<1>3. CASE ~Interrupt
  <2>1. UNCHANGED interrupted
    BY <1>3 DEF Next, OnInterrupt, OnWindowDone, OnConnect, OnDisconnect, OnQuit, TakeAction,
       OnLaunch, OnEvent, DropStale, OnConnected, OnDisconnected, OnRetrying, OnPending,
       OnApproved, OnEnrollmentError, OnRejected, TakeCurrent, TakeEvent, ReceiveLaunch,
       HandleLaunch, User, WindowUpdate, Goroutine, Ended, vars
  <2>2. UNCHANGED ownership => UNCHANGED Life!vars
    BY <2>1, OwnersAre DEF ownership, Life!vars
  <2> QED
    BY <1>1, <2>1, <2>2, StepKinds, OpensSimulated, CancelsSimulated, ConsumesSimulated,
       HandsOverSimulated, WorksSimulated DEF Life!Next
<1> QED
  BY <1>2, <1>3

\* The event loop with its goroutines and queues implements the one connection of
\* Connection: no late event, cancelled goroutine, launch or rejection makes it
\* serve two connections or change its credential without the server's consent.
THEOREM ControllerIsOneConnection == Spec => ServesOneConnection
<1>1. IInv /\ IInv' /\ [Next]_vars => [Life!Next]_(Life!vars)
  BY StepSimulated
<1> QED
  BY <1>1, InitSimulated, Inductive, PTL DEF Spec, ServesOneConnection, Life!Spec
=============================================================================
