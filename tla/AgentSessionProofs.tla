-------------------------- MODULE AgentSessionProofs --------------------------
(***************************************************************************)
(* Theorems about the agent session, for every number of requests,         *)
(* pairings, slots and connections.                                        *)
(***************************************************************************)
EXTENDS AgentSession, FiniteSetTheorems, TLAPS

USE DEF Tasks, Running, runVars

-----------------------------------------------------------------------------
(* Type correctness, which is inductive as it stands. *)

\* The wait of Run stays between a second and the cap.
LEMMA BackoffBounded ==
  ASSUME backoff \in 1..MaxBackoff, BackOff
  PROVE  backoff' \in 1..MaxBackoff
<1>1. PICK elapsed : backoff' = NextBackoff(elapsed)
  BY DEF BackOff
<1> QED
  BY <1>1, SessionAssumption DEF NextBackoff

\* One step of Next keeps the types.
LEMMA TypeStep ==
  ASSUME TypeOK, [Next]_vars
  PROVE  TypeOK'
<1> USE SessionAssumption DEF TypeOK
<1>1. ASSUME NEW r \in Requests, ReadCommand(r)
      PROVE  TypeOK'
  BY <1>1 DEF ReadCommand, Reading, Accept
<1>2. ASSUME NEW p \in Pairings, ReadPairing(p)
      PROVE  TypeOK'
  BY <1>2 DEF ReadPairing, Reading, Accept
<1>3. CASE Refuse
  <2>1. answers' \in [Tasks -> Nat] /\ conn' \in {"up", "mute", "lost"}
    <3>1. CASE WriteSucceeds(refused)
      <4>1. answers' = [answers EXCEPT ![refused] = @ + 1] /\ conn' = conn
        BY <3>1 DEF WriteSucceeds
      <4>2. \A t \in Tasks : answers[t] \in Nat /\ answers[t] + 1 \in Nat
        OBVIOUS
      <4> QED
        BY <4>1, <4>2
    <3>2. CASE WriteFails(refused)
      BY <3>2 DEF WriteFails
    <3> QED
      BY <1>3, <3>1, <3>2 DEF Refuse
  <2>3. reader' \in {"reading", "leaving"} /\ ctxDone' \in BOOLEAN
    BY <1>3 DEF Refuse
  <2>2. /\ at' \in [Tasks -> {"new", "refused", "queued", "done"} \cup Running]
        /\ \A t \in Tasks : at'[t] = IF t = refused THEN "done" ELSE at[t]
        /\ \A t \in Tasks : at[t] = "refused" => t = refused
        /\ refused \in Tasks => at[refused] = "refused"
    BY <1>3 DEF Refuse, Advance
  <2> QED
    BY <1>3, <2>1, <2>2, <2>3 DEF Refuse
<1>4. CASE ReadFails \/ Leave \/ ConnectionLost \/ Stop
  BY <1>4 DEF ReadFails, Leave, ConnectionLost, Stop
<1>10. CASE Reconnect \/ RetryFails
  <2>1. connection' \in 1..MaxConnections
    BY <1>10 DEF Reconnect, RetryFails
  <2>2. backoff' \in 1..MaxBackoff
    BY <1>10, BackoffBounded DEF Reconnect, RetryFails
  <2> QED
    BY <1>10, <2>1, <2>2 DEF Reconnect, RetryFails
<1>5. ASSUME NEW r \in Requests, AcquireSlot(r) \/ GiveUpSlot(r)
      PROVE  TypeOK'
  BY <1>5 DEF AcquireSlot, GiveUpSlot, Advance
<1>6. ASSUME NEW t \in Tasks, Finish(t)
      PROVE  TypeOK'
  BY <1>6 DEF Finish, Advance
<1>7. ASSUME NEW t \in Tasks, Answer(t)
      PROVE  TypeOK'
  BY <1>7 DEF Answer, WriteSucceeds, WriteFails, Advance
<1>8. ASSUME NEW t \in Tasks, Release(t)
      PROVE  TypeOK'
  BY <1>8 DEF Release, Advance
<1>9. CASE UNCHANGED vars
  BY <1>9 DEF vars
<1> QED
  BY <1>1, <1>2, <1>3, <1>4, <1>5, <1>6, <1>7, <1>8, <1>9, <1>10 DEF Next

\* The variables keep their types; a task is refused or started, never both.
THEOREM TypeCorrect == Spec => []TypeOK
<1>1. Init => TypeOK
  <2>1. 1 \in 1..MaxConnections /\ 0 \in 0..MaxConnections /\ NoTask \notin Tasks
       /\ 1 \in 1..MaxBackoff
    BY SessionAssumption
  <2>2. Init => at \in [Tasks -> {"new", "refused", "queued", "done"} \cup Running]
    BY DEF Init
  <2>3. Init => epoch \in [Tasks -> 0..MaxConnections] /\ answers \in [Tasks -> Nat]
    BY <2>1 DEF Init
  <2> QED
    BY <2>1, <2>2, <2>3 DEF Init, TypeOK
<1>2. TypeOK /\ [Next]_vars => TypeOK'
  BY TypeStep
<1> QED
  BY <1>1, <1>2, PTL DEF Spec

-----------------------------------------------------------------------------
(* The inductive invariant.                                                *)

\* No task comes from a connection that is still to be made.
EpochsArePast == \A t \in Tasks : epoch[t] <= connection

\* What the history says of a task at each stage of its goroutine.
AnswersFollowStages ==
  /\ \A t \in Tasks :
       /\ answers[t] <= 1
       /\ at[t] \notin {"releasing", "done"} => answers[t] = 0
  /\ \A t \in Tasks :
       at[t] \in {"releasing", "done"} /\ answers[t] = 0 =>
         epoch[t] < connection \/ conn # "up" \/ ctxDone

\* Whoever is in commands.Wait has called cancel.
LeavingIsCancelled == reader = "leaving" => ctxDone

\* The semaphores: slots are held from the acquisition to the deferred release.
SlotsSuffice ==
  /\ Cardinality(Holding(Requests)) <= Parallel
  /\ \A p, q \in Holding(Pairings) : p = q

IInv ==
  /\ EpochsArePast /\ NothingOutlivesConnection
  /\ AnswersFollowStages /\ LeavingIsCancelled /\ SlotsSuffice

\* A step that gives nobody a slot keeps the counts.
LEMMA NoNewHolder ==
  ASSUME SlotsSuffice,
         Holding(Requests)' \subseteq Holding(Requests),
         Holding(Pairings)' \subseteq Holding(Pairings)
  PROVE  SlotsSuffice'
<1>1. IsFiniteSet(Holding(Requests))
  BY SessionAssumption, FS_Subset DEF Holding
<1>2. Cardinality(Holding(Requests)') <= Cardinality(Holding(Requests))
  BY <1>1, FS_Subset
<1>3. IsFiniteSet(Holding(Requests)')
  BY <1>1, FS_Subset
<1>4. Cardinality(Holding(Requests)) \in Nat /\ Cardinality(Holding(Requests)') \in Nat
  BY <1>1, <1>3, FS_CardinalityType
<1> QED
  BY <1>2, <1>4, SessionAssumption DEF SlotsSuffice

\* A command that takes a slot of the semaphore when one is free keeps the count.
LEMMA OneNewHolder ==
  ASSUME NEW r \in Requests,
         Cardinality(Holding(Requests)) < Parallel,
         Holding(Requests)' \subseteq Holding(Requests) \cup {r}
  PROVE  Cardinality(Holding(Requests)') <= Parallel
<1>1. IsFiniteSet(Holding(Requests))
  BY SessionAssumption, FS_Subset DEF Holding
<1>2. /\ IsFiniteSet(Holding(Requests) \cup {r})
      /\ Cardinality(Holding(Requests) \cup {r}) <= Cardinality(Holding(Requests)) + 1
  <2> DEFINE holders == Holding(Requests)
  <2> HIDE DEF holders
  <2>1. IsFiniteSet(holders)
    BY <1>1 DEF holders
  <2>2. IsFiniteSet(holders \cup {r}) /\ Cardinality(holders) \in Nat
    BY <2>1, FS_AddElement, FS_CardinalityType
  <2>3. Cardinality(holders \cup {r})
          = IF r \in holders THEN Cardinality(holders) ELSE Cardinality(holders) + 1
    BY <2>1, FS_AddElement
  <2> QED
    BY <2>2, <2>3 DEF holders
<1>3. Cardinality(Holding(Requests)') <= Cardinality(Holding(Requests) \cup {r})
  BY <1>2, FS_Subset
<1>4. /\ Cardinality(Holding(Requests)) \in Nat
      /\ Cardinality(Holding(Requests) \cup {r}) \in Nat
      /\ IsFiniteSet(Holding(Requests)')
  BY <1>1, <1>2, FS_Subset, FS_CardinalityType
<1>5. Cardinality(Holding(Requests)') \in Nat
  BY <1>4, FS_CardinalityType
<1> QED
  BY <1>2, <1>3, <1>4, <1>5, SessionAssumption

\* One step of Next keeps the invariant.
LEMMA InvariantStep ==
  ASSUME TypeOK, TypeOK', IInv, [Next]_vars
  PROVE  IInv'
<1> USE SessionAssumption DEF TypeOK
<1> DEFINE Work == /\ EpochsArePast /\ NothingOutlivesConnection
                   /\ AnswersFollowStages /\ LeavingIsCancelled
<1> SUFFICES Work' /\ SlotsSuffice'
  BY DEF IInv
<1> USE DEF IInv, EpochsArePast, NothingOutlivesConnection, AnswersFollowStages,
            LeavingIsCancelled, Idle
<1>1. ASSUME NEW r \in Requests, ReadCommand(r)
      PROVE  Work' /\ SlotsSuffice'
  <2>1. Work'
    BY <1>1 DEF ReadCommand, Reading, Accept
  <2>2. Holding(Requests)' \subseteq Holding(Requests) /\ Holding(Pairings)' \subseteq Holding(Pairings)
    BY <1>1 DEF ReadCommand, Reading, Accept, Holding
  <2> QED
    BY <2>1, <2>2, NoNewHolder
<1>2. ASSUME NEW p \in Pairings, ReadPairing(p)
      PROVE  Work' /\ SlotsSuffice'
  <2>1. Work'
    BY <1>2 DEF ReadPairing, Reading, Accept
  <2>2. CASE Holding(Pairings) = {}
    <3>1. Holding(Requests)' \subseteq Holding(Requests) /\ Holding(Pairings)' \subseteq {p}
      BY <1>2, <2>2 DEF ReadPairing, Reading, Accept, Holding
    <3>2. Holding(Pairings) \subseteq {p} /\ Cardinality(Holding(Requests)') <= Parallel
      <4>1. IsFiniteSet(Holding(Requests))
        BY FS_Subset DEF Holding
      <4>2. Cardinality(Holding(Requests)') <= Cardinality(Holding(Requests))
        BY <3>1, <4>1, FS_Subset
      <4>3. Cardinality(Holding(Requests)) \in Nat /\ Cardinality(Holding(Requests)') \in Nat
        BY <3>1, <4>1, FS_Subset, FS_CardinalityType
      <4> QED
        BY <2>2, <4>2, <4>3 DEF SlotsSuffice
    <3> QED
      BY <2>1, <3>1, <3>2 DEF SlotsSuffice
  <2>3. CASE Holding(Pairings) # {}
    <3>1. Holding(Requests)' \subseteq Holding(Requests) /\ Holding(Pairings)' \subseteq Holding(Pairings)
      BY <1>2, <2>3 DEF ReadPairing, Reading, Accept, Holding
    <3> QED
      BY <2>1, <3>1, NoNewHolder
  <2> QED
    BY <2>2, <2>3
<1>3. CASE Refuse
  <2>1. Work'
    BY <1>3 DEF Refuse, WriteSucceeds, WriteFails, Advance
  <2>2. Holding(Requests)' \subseteq Holding(Requests) /\ Holding(Pairings)' \subseteq Holding(Pairings)
    BY <1>3 DEF Refuse, Advance, Holding
  <2> QED
    BY <2>1, <2>2, NoNewHolder
<1>4. CASE Leave
  <2>1. Work'
    BY <1>4 DEF Leave
  <2>2. Holding(Requests)' \subseteq Holding(Requests) /\ Holding(Pairings)' \subseteq Holding(Pairings)
    BY <1>4 DEF Leave, Holding
  <2> QED
    BY <2>1, <2>2, NoNewHolder
<1>5. CASE Reconnect \/ RetryFails
  <2>1. Work'
    BY <1>5 DEF Reconnect, RetryFails
  <2>2. Holding(Requests)' \subseteq Holding(Requests) /\ Holding(Pairings)' \subseteq Holding(Pairings)
    BY <1>5 DEF Reconnect, RetryFails, Holding
  <2> QED
    BY <2>1, <2>2, NoNewHolder
<1>6. CASE ReadFails \/ ConnectionLost \/ Stop
  <2>1. Work'
    BY <1>6 DEF ReadFails, ConnectionLost, Stop
  <2>2. Holding(Requests)' \subseteq Holding(Requests) /\ Holding(Pairings)' \subseteq Holding(Pairings)
    BY <1>6 DEF ReadFails, ConnectionLost, Stop, Holding
  <2> QED
    BY <2>1, <2>2, NoNewHolder
<1>7. ASSUME NEW r \in Requests, AcquireSlot(r)
      PROVE  Work' /\ SlotsSuffice'
  <2>1. Work'
    BY <1>7 DEF AcquireSlot, Advance
  <2>2. /\ Cardinality(Holding(Requests)) < Parallel
        /\ Holding(Requests)' \subseteq Holding(Requests) \cup {r}
        /\ Holding(Pairings)' \subseteq Holding(Pairings)
    BY <1>7 DEF AcquireSlot, Advance, Holding
  <2>3. Cardinality(Holding(Requests)') <= Parallel
    BY <2>2, OneNewHolder
  <2> QED
    BY <2>1, <2>2, <2>3 DEF SlotsSuffice
<1>8. ASSUME NEW r \in Requests, GiveUpSlot(r)
      PROVE  Work' /\ SlotsSuffice'
  <2>1. Work'
    BY <1>8 DEF GiveUpSlot, Advance, Cancelled
  <2>2. Holding(Requests)' \subseteq Holding(Requests) /\ Holding(Pairings)' \subseteq Holding(Pairings)
    BY <1>8 DEF GiveUpSlot, Advance, Holding
  <2> QED
    BY <2>1, <2>2, NoNewHolder
<1>9. ASSUME NEW t \in Tasks, Finish(t)
      PROVE  Work' /\ SlotsSuffice'
  <2>1. Work'
    BY <1>9 DEF Finish, Advance, Cancelled
  <2>2. Holding(Requests)' \subseteq Holding(Requests) /\ Holding(Pairings)' \subseteq Holding(Pairings)
    BY <1>9 DEF Finish, Advance, Holding
  <2> QED
    BY <2>1, <2>2, NoNewHolder
<1>10. ASSUME NEW t \in Tasks, Answer(t)
       PROVE  Work' /\ SlotsSuffice'
  <2>1. Work'
    BY <1>10 DEF Answer, WriteSucceeds, WriteFails, Advance
  <2>2. Holding(Requests)' \subseteq Holding(Requests) /\ Holding(Pairings)' \subseteq Holding(Pairings)
    BY <1>10 DEF Answer, Advance, Holding
  <2> QED
    BY <2>1, <2>2, NoNewHolder
<1>11. ASSUME NEW t \in Tasks, Release(t)
       PROVE  Work' /\ SlotsSuffice'
  <2>1. Work'
    BY <1>11 DEF Release, Advance
  <2>2. Holding(Requests)' \subseteq Holding(Requests) /\ Holding(Pairings)' \subseteq Holding(Pairings)
    BY <1>11 DEF Release, Advance, Holding
  <2> QED
    BY <2>1, <2>2, NoNewHolder
<1>12. CASE UNCHANGED vars
  <2>1. Work'
    BY <1>12 DEF vars
  <2>2. Holding(Requests)' \subseteq Holding(Requests) /\ Holding(Pairings)' \subseteq Holding(Pairings)
    BY <1>12 DEF vars, Holding
  <2> QED
    BY <2>1, <2>2, NoNewHolder
<1> QED
  BY <1>1, <1>2, <1>3, <1>4, <1>5, <1>6, <1>7, <1>8, <1>9, <1>10, <1>11, <1>12 DEF Next

\* The invariant holds in every reachable state.
LEMMA InvariantCorrect == Spec => []IInv
<1>1. Init => IInv
  <2>1. ASSUME Init
        PROVE  Holding(Requests) = {} /\ Holding(Pairings) = {}
    BY <2>1 DEF Init, Holding
  <2>2. Init => SlotsSuffice
    <3> HIDE DEF Init
    <3>1. Init => Cardinality(Holding(Requests)) = 0
      BY <2>1, FS_EmptySet, Zenon
    <3> QED
      BY <2>1, <3>1, SessionAssumption DEF SlotsSuffice
  <2>3. Init => /\ EpochsArePast /\ NothingOutlivesConnection
                /\ AnswersFollowStages /\ LeavingIsCancelled
    BY DEF Init, EpochsArePast, NothingOutlivesConnection, Idle, AnswersFollowStages,
           LeavingIsCancelled
  <2> QED
    BY <2>2, <2>3 DEF IInv
<1>2. TypeOK /\ TypeOK' /\ IInv /\ [Next]_vars => IInv'
  BY InvariantStep
<1> QED
  BY <1>1, <1>2, TypeCorrect, PTL DEF Spec

-----------------------------------------------------------------------------
(* The properties. *)

\* The goroutines of a connection have all ended before the next one is made.
THEOREM OutlivingCorrect == Spec => []NothingOutlivesConnection
<1>1. IInv => NothingOutlivesConnection
  BY DEF IInv
<1> QED
  BY <1>1, InvariantCorrect, PTL

\* No message is answered twice, and no accepted command is dropped silently.
THEOREM AnswersCorrect == Spec => []CommandsAnsweredOnce
<1>1. IInv => CommandsAnsweredOnce
  BY DEF IInv, AnswersFollowStages, CommandsAnsweredOnce
<1> QED
  BY <1>1, InvariantCorrect, PTL

\* The semaphores of one connection bound what runs over all connections, since
\* nothing outlives its connection.
THEOREM LimitCorrect == Spec => []ParallelLimit
<1>1. ASSUME TypeOK, IInv
      PROVE  ParallelLimit
  <2> DEFINE commands == {r \in Requests : at[r] = "running"}
             prompts == {p \in Pairings : at[p] = "running"}
  <2>1. commands \subseteq Holding(Requests) /\ prompts \subseteq Holding(Pairings)
    BY <1>1 DEF IInv, NothingOutlivesConnection, Idle, Holding
  <2>2. IsFiniteSet(Holding(Requests)) /\ IsFiniteSet(commands)
    BY SessionAssumption, FS_Subset DEF Holding
  <2>3. Cardinality(commands) <= Cardinality(Holding(Requests))
    BY <2>1, <2>2, FS_Subset
  <2>4. Cardinality(commands) <= Parallel
    BY <1>1, <2>2, <2>3, FS_CardinalityType, SessionAssumption DEF IInv, SlotsSuffice
  <2>5. prompts = {} \/ \E p : prompts = {p}
    BY <1>1, <2>1 DEF IInv, SlotsSuffice
  <2>6. Cardinality(prompts) <= 1
    <3> HIDE DEF prompts
    <3>1. CASE prompts = {}
      BY <3>1, FS_EmptySet
    <3>2. ASSUME NEW p, prompts = {p}
          PROVE  Cardinality(prompts) = 1
      BY <3>2, FS_Singleton, Zenon
    <3> QED
      BY <2>5, <3>1, <3>2
  <2> QED
    BY <2>4, <2>6 DEF ParallelLimit
<1> QED
  BY <1>1, TypeCorrect, InvariantCorrect, PTL

-----------------------------------------------------------------------------
(* The session implements RequestService.                                  *)

Fates == [t \in Tasks |-> Fate(t)]
serviceVars == <<connection, Link, Fates>>

\* Nobody but t is concerned by the step.
OnlyTask(t) == \A u \in Tasks \ {t} : at'[u] = at[u] /\ answers'[u] = answers[u]

\* The fates, as the stages and answers that IInv allows determine them.
FateOf(t) ==
  /\ at[t] = "new" => answers[t] = 0 /\ Fate(t) = "unread"
  /\ answers[t] \in {0, 1}
  /\ answers[t] = 1 => Fate(t) = "answered"
  /\ answers[t] = 0 /\ at[t] = "done" => Fate(t) = "lost"
  /\ answers[t] = 0 /\ at[t] \notin {"new", "done"} => Fate(t) = "accepted"

LEMMA FatesKnown ==
  ASSUME TypeOK, IInv, NEW t \in Tasks
  PROVE  FateOf(t)
<1>1. answers[t] \in {0, 1} /\ (at[t] = "new" => answers[t] = 0)
  BY DEF TypeOK, IInv, AnswersFollowStages
<1> QED
  BY <1>1 DEF FateOf, Fate

LEMMA FatesKnownNext ==
  ASSUME TypeOK', IInv', NEW t \in Tasks
  PROVE  FateOf(t)'
<1>1. answers'[t] \in {0, 1} /\ (at'[t] = "new" => answers'[t] = 0)
  BY DEF TypeOK, IInv, AnswersFollowStages
<1> QED
  BY <1>1 DEF FateOf, Fate

\* What a step does to one message.
LEMMA OneFate ==
  ASSUME NEW t \in Tasks, OnlyTask(t)
  PROVE  Fates' = [Fates EXCEPT ![t] = Fate(t)']
<1>1. \A u \in Tasks \ {t} : Fate(u)' = Fate(u)
  BY DEF OnlyTask, Fate
<1> QED
  BY <1>1 DEF Fates

LEMMA SameFates ==
  ASSUME UNCHANGED <<at, answers>>
  PROVE  UNCHANGED Fates
BY DEF Fates, Fate

LEMMA SameFate ==
  ASSUME NEW t \in Tasks, OnlyTask(t), UNCHANGED Fate(t)
  PROVE  UNCHANGED Fates
BY OneFate DEF Fates

\* A message is lost only when its connection is over or cannot be written.
LEMMA LostWithConnection ==
  ASSUME TypeOK, IInv, NEW t \in Tasks, at[t] = "releasing", answers[t] = 0
  PROVE  Link \in {"ending", "broken"}
BY DEF TypeOK, IInv, AnswersFollowStages, NothingOutlivesConnection, Idle, Link

LEMMA ReadSimulated ==
  ASSUME TypeOK, IInv, TypeOK', IInv', NEW t \in Tasks, Reading, at[t] = "new",
         OnlyTask(t), UNCHANGED <<connection, conn, ctxDone, answers>>, reader' # "gone",
         at'[t] \notin {"new", "done"}
  PROVE  Service!Read(t)
<1>1. Fate(t) = "unread" /\ Fate(t)' = "accepted"
  BY FatesKnown, FatesKnownNext DEF FateOf
<1>2. Link # "closed" /\ UNCHANGED Link
  BY DEF Reading, Link, TypeOK
<1> QED
  BY <1>1, <1>2, OneFate DEF Service!Read, Fates

\* The loss of t, with or without the write that breaks the connection.
LEMMA LoseSimulated ==
  ASSUME TypeOK, IInv, TypeOK', IInv', NEW t \in Tasks, at[t] # "done", answers[t] = 0,
         OnlyTask(t), at'[t] = "done", answers'[t] = 0, UNCHANGED connection,
         Link # "closed",
         \/ Link # "up" /\ UNCHANGED Link
         \/ Link \in {"up", "ending"} /\ Link' = "broken"
  PROVE  Service!Lose(t)
<1>1. Fate(t) \in {"unread", "accepted"} /\ Fate(t)' = "lost"
  BY FatesKnown, FatesKnownNext DEF FateOf
<1> QED
  BY <1>1, OneFate DEF Service!Lose, Service!Worsens, Fates

\* An answer that is written, to a task that goes on to a stage that is not "new".
LEMMA AnswerSimulated ==
  ASSUME TypeOK, IInv, TypeOK', IInv', NEW t \in Tasks, at[t] \in {"refused", "answering"},
         WriteSucceeds(t), OnlyTask(t), UNCHANGED <<connection, ctxDone>>,
         reader # "gone", reader' # "gone"
  PROVE  Service!Answer(t)
<1>1. answers[t] = 0 /\ answers'[t] = 1
  BY DEF TypeOK, IInv, AnswersFollowStages, WriteSucceeds
<1>2. Fate(t) = "accepted" /\ Fate(t)' = "answered"
  BY <1>1, FatesKnown, FatesKnownNext DEF FateOf
<1>3. Link \in {"up", "ending"} /\ UNCHANGED Link
  BY DEF WriteSucceeds, Link
<1> QED
  BY <1>2, <1>3, OneFate DEF Service!Answer, Service!Writable, Fates

\* A step that answers and moves nobody leaves the link alone or makes it worse.
LEMMA FailSimulated ==
  ASSUME UNCHANGED <<connection, Fates>>, UNCHANGED Link \/ Service!Worsens
  PROVE  [Service!Next]_serviceVars
BY DEF Service!Fail, Service!Next, serviceVars, Fates

\* One step of the session is a step of the service, or is not seen by the server.
LEMMA StepSimulated ==
  ASSUME TypeOK, IInv, TypeOK', IInv', [Next]_vars
  PROVE  [Service!Next]_serviceVars
<1> DEFINE Simulated == [Service!Next]_serviceVars
<1>1. ASSUME NEW r \in Requests, ReadCommand(r)
      PROVE  Simulated
  <2>1. OnlyTask(r) /\ at'[r] \notin {"new", "done"} /\ reader' # "gone"
    BY <1>1 DEF ReadCommand, Reading, Accept, OnlyTask, TypeOK
  <2>2. Service!Read(r)
    BY <1>1, <2>1, ReadSimulated DEF ReadCommand
  <2> QED
    BY <2>2 DEF Service!Next
<1>2. ASSUME NEW p \in Pairings, ReadPairing(p)
      PROVE  Simulated
  <2>1. /\ OnlyTask(p) /\ reader' # "gone"
        /\ at'[p] \in {"running", "refused"} \/ (ctxDone /\ at'[p] = "done" /\ UNCHANGED reader)
    BY <1>2 DEF ReadPairing, Reading, Accept, OnlyTask, TypeOK
  <2>2. CASE at'[p] \in {"running", "refused"}
    <3>1. Service!Read(p)
      BY <1>2, <2>1, <2>2, ReadSimulated DEF ReadPairing
    <3> QED
      BY <3>1 DEF Service!Next
  <2>3. CASE ctxDone /\ at'[p] = "done" /\ UNCHANGED reader
    <3>1. Link \in {"ending", "broken"} /\ UNCHANGED Link
      BY <1>2, <2>3 DEF ReadPairing, Reading, Link, TypeOK
    <3>2. answers[p] = 0 /\ answers'[p] = 0
      BY <1>2 DEF ReadPairing, IInv, AnswersFollowStages
    <3>3. Service!Lose(p)
      BY <1>2, <2>1, <2>3, <3>1, <3>2, LoseSimulated DEF ReadPairing, runVars
    <3> QED
      BY <3>3 DEF Service!Next
  <2> QED
    BY <2>1, <2>2, <2>3
<1>3. CASE Refuse
  <2>1. /\ refused \in Tasks /\ at[refused] = "refused" /\ answers[refused] = 0
        /\ reader' \in {"reading", "leaving"} /\ UNCHANGED connection
        /\ at' = [at EXCEPT ![refused] = "done"]
    BY <1>3 DEF Refuse, Advance, TypeOK, IInv, AnswersFollowStages
  <2>2. ASSUME WriteSucceeds(refused), UNCHANGED ctxDone
        PROVE  Simulated
    <3>1. OnlyTask(refused)
      BY <2>1, <2>2 DEF WriteSucceeds, OnlyTask, TypeOK
    <3>2. Service!Answer(refused)
      BY <1>3, <2>1, <2>2, <3>1, AnswerSimulated DEF Refuse
    <3> QED
      BY <2>1, <3>2 DEF Service!Next
  <2>3. ASSUME WriteFails(refused)
        PROVE  Simulated
    <3>1. OnlyTask(refused) /\ answers'[refused] = 0 /\ at'[refused] = "done"
      BY <2>1, <2>3 DEF WriteFails, OnlyTask, TypeOK
    <3>2. epoch[refused] = connection /\ reader = "refusing"
      BY <1>3, <2>1 DEF Refuse, IInv, NothingOutlivesConnection, Idle
    <3>3. conn' = IF conn = "up" THEN "mute" ELSE conn
      BY <2>3, <3>2 DEF WriteFails
    <3>4. Link' = "broken" /\ Link \in {"up", "ending", "broken"}
      BY <2>1, <3>2, <3>3 DEF Link, TypeOK
    <3>5. Service!Lose(refused)
      BY <2>1, <3>1, <3>4, LoseSimulated
    <3> QED
      BY <2>1, <3>5 DEF Service!Next
  <2> QED
    BY <1>3, <2>2, <2>3 DEF Refuse
<1>4. CASE ReadFails
  <2>1. UNCHANGED <<connection, Link>>
    BY <1>4 DEF ReadFails, Link
  <2> QED
    BY <1>4, <2>1, SameFates, FailSimulated DEF ReadFails
<1>5. CASE Leave
  <2>1. Link \in {"ending", "broken"} /\ Link' = "closed"
    BY <1>5 DEF Leave, Link, TypeOK, IInv, LeavingIsCancelled
  <2>2. \A t \in Tasks : Idle(t)
    BY <1>5 DEF Leave, IInv, NothingOutlivesConnection
  <2>3. \A t \in Tasks : Fate(t) # "accepted"
    BY <2>2, FatesKnown DEF FateOf, Idle
  <2>4. Service!Close
    BY <1>5, <2>1, <2>3, SameFates DEF Leave, Service!Close, Fates
  <2> QED
    BY <2>4 DEF Service!Next
<1>6. CASE Reconnect
  <2>1. Link = "closed" /\ Link' = "up"
    BY <1>6 DEF Reconnect, Link
  <2>2. Service!Reopen
    BY <1>6, <2>1, SameFates DEF Reconnect, Service!Reopen, Fates
  <2> QED
    BY <2>2 DEF Service!Next
<1>7. CASE RetryFails
  <2>1. UNCHANGED Link
    BY <1>7 DEF RetryFails, Link
  <2> QED
    BY <1>7, <2>1, SameFates, FailSimulated DEF RetryFails
<1>8. ASSUME NEW t \in Tasks, AcquireSlot(t) \/ Finish(t)
      PROVE  Simulated
  <2>1. /\ at[t] \in {"queued", "running"} /\ at'[t] \in Running
        /\ OnlyTask(t) /\ UNCHANGED <<connection, reader, conn, ctxDone, answers>>
    BY <1>8 DEF AcquireSlot, Finish, Advance, OnlyTask, TypeOK
  <2>2. answers[t] = 0
    BY <2>1 DEF IInv, AnswersFollowStages
  <2>3. UNCHANGED Fate(t)
    BY <2>1, <2>2, FatesKnown, FatesKnownNext DEF FateOf
  <2>4. UNCHANGED Link
    BY <2>1 DEF Link
  <2> QED
    BY <2>1, <2>3, <2>4, SameFate, FailSimulated
<1>9. ASSUME NEW r \in Requests, GiveUpSlot(r)
      PROVE  Simulated
  <2>1. /\ at[r] = "queued" /\ at'[r] = "done" /\ OnlyTask(r)
        /\ UNCHANGED <<connection, reader, conn, ctxDone, answers>>
    BY <1>9 DEF GiveUpSlot, Advance, OnlyTask, TypeOK
  <2>2. answers[r] = 0 /\ answers'[r] = 0
    BY <2>1 DEF IInv, AnswersFollowStages
  <2>3. ctxDone /\ reader # "gone"
    BY <1>9, <2>1 DEF GiveUpSlot, Cancelled, IInv, NothingOutlivesConnection, Idle, TypeOK
  <2>4. Link \in {"ending", "broken"} /\ UNCHANGED Link
    BY <2>1, <2>3 DEF Link, TypeOK
  <2>5. Service!Lose(r)
    BY <2>1, <2>2, <2>4, LoseSimulated
  <2> QED
    BY <2>5 DEF Service!Next
<1>10. ASSUME NEW t \in Tasks, Answer(t)
       PROVE  Simulated
  <2>1. /\ at[t] = "answering" /\ at' = [at EXCEPT ![t] = "releasing"] /\ answers[t] = 0
        /\ UNCHANGED <<connection, reader, ctxDone>>
    BY <1>10 DEF Answer, Advance, TypeOK, IInv, AnswersFollowStages, runVars
  <2>2. reader # "gone" /\ epoch[t] = connection
    BY <2>1 DEF IInv, NothingOutlivesConnection, Idle
  <2>3. CASE WriteSucceeds(t)
    <3>1. OnlyTask(t)
      BY <2>1, <2>3 DEF WriteSucceeds, OnlyTask, TypeOK
    <3>2. Service!Answer(t)
      BY <2>1, <2>2, <2>3, <3>1, AnswerSimulated
    <3> QED
      BY <3>2 DEF Service!Next
  <2>4. CASE WriteFails(t)
    <3>1. OnlyTask(t) /\ answers' = answers /\ at'[t] = "releasing"
      BY <2>1, <2>4 DEF WriteFails, OnlyTask, TypeOK
    <3>2. UNCHANGED Fate(t)
      BY <2>1, <3>1, FatesKnown, FatesKnownNext DEF FateOf
    <3>3. conn' = IF conn = "up" THEN "mute" ELSE conn
      BY <2>2, <2>4 DEF WriteFails
    <3>4. UNCHANGED Link \/ Service!Worsens
      BY <2>1, <2>2, <3>3 DEF Link, TypeOK, Service!Worsens
    <3> QED
      BY <2>1, <3>1, <3>2, <3>4, SameFate, FailSimulated
  <2> QED
    BY <1>10, <2>3, <2>4 DEF Answer
<1>11. ASSUME NEW t \in Tasks, Release(t)
       PROVE  Simulated
  <2>1. /\ at[t] = "releasing" /\ at'[t] = "done" /\ OnlyTask(t)
        /\ UNCHANGED <<connection, reader, conn, ctxDone, answers>>
    BY <1>11 DEF Release, Advance, OnlyTask, TypeOK, runVars
  <2>2. UNCHANGED Link
    BY <2>1 DEF Link
  <2>3. CASE answers[t] = 0
    <3>1. Service!Lose(t)
      BY <2>1, <2>2, <2>3, LostWithConnection, LoseSimulated
    <3> QED
      BY <3>1 DEF Service!Next
  <2>4. CASE answers[t] = 1
    <3>1. UNCHANGED Fate(t)
      BY <2>1, <2>4, FatesKnown, FatesKnownNext DEF FateOf
    <3> QED
      BY <2>1, <2>2, <3>1, SameFate, FailSimulated
  <2> QED
    BY <2>3, <2>4, FatesKnown DEF FateOf
<1>12. CASE ConnectionLost \/ Stop
  <2>1. UNCHANGED Link \/ Service!Worsens
    BY <1>12 DEF ConnectionLost, Stop, Link, TypeOK, Service!Worsens
  <2> QED
    BY <1>12, <2>1, SameFates, FailSimulated DEF ConnectionLost, Stop, runVars
<1>13. CASE UNCHANGED vars
  <2>1. UNCHANGED Link
    BY <1>13 DEF vars, Link
  <2> QED
    BY <1>13, <2>1, SameFates, FailSimulated DEF vars
<1> QED
  BY <1>1, <1>2, <1>3, <1>4, <1>5, <1>6, <1>7, <1>8, <1>9, <1>10, <1>11, <1>12, <1>13 DEF Next

\* For the server the agent is RequestService: whatever the read loop, the goroutines
\* and the network do to each other, a message is answered once, over the connection
\* that brought it, or lost with that connection, and none is left for the next one.
THEOREM ImplementsRequestService == Spec => ServesRequests
<1>1. Init => Service!Init
  BY DEF Init, Service!Init, Fate, Link
<1>2. TypeOK /\ IInv /\ TypeOK' /\ IInv' /\ [Next]_vars => [Service!Next]_serviceVars
  BY StepSimulated
<1> QED
  BY <1>1, <1>2, TypeCorrect, InvariantCorrect, PTL
     DEF Spec, ServesRequests, Service!Spec, Service!vars, serviceVars, Fates

-----------------------------------------------------------------------------
(* The end of a connection.                                                *)

\* How many steps the goroutine of a message has before it at most.
StepsLeft(t) ==
  CASE at[t] = "queued" -> 4
    [] at[t] = "running" -> 3
    [] at[t] = "answering" -> 2
    [] at[t] = "releasing" -> 1
    [] OTHER -> 0

\* While commands.Wait waits, the context is done, nobody joins the wait group, and
\* whoever is in it only gets nearer to its end.
WaitShrinks ==
  reader = "leaving" =>
    /\ ctxDone
    /\ \A t \in Tasks :
         IF Idle(t) THEN UNCHANGED at[t]
         ELSE UNCHANGED at[t] \/ StepsLeft(t)' < StepsLeft(t)

\* The wait at the end of connectAndServe is for at most four steps of each goroutine
\* that was there when it began, all of them cancelled: what ConnectionEndIsPrompt
\* says, but for the scheduling of these steps.
THEOREM WaitIsBounded == Spec => [][WaitShrinks]_vars
<1>1. ASSUME TypeOK, IInv, [Next]_vars, reader = "leaving"
      PROVE  ctxDone /\ \A t \in Tasks :
               IF Idle(t) THEN UNCHANGED at[t]
               ELSE UNCHANGED at[t] \/ StepsLeft(t)' < StepsLeft(t)
  <2>1. ctxDone
    BY <1>1 DEF IInv, LeavingIsCancelled
  <2>2. \/ UNCHANGED at
        \/ \E r \in Requests : AcquireSlot(r) \/ GiveUpSlot(r)
        \/ \E t \in Tasks : Finish(t) \/ Answer(t) \/ Release(t)
    BY <1>1 DEF Next, vars, ReadCommand, ReadPairing, Reading, Refuse, ReadFails, Leave,
                Reconnect, RetryFails, ConnectionLost, Stop
  <2>3. ASSUME NEW t \in Tasks, NEW place, Advance(t, place), ~Idle(t),
               StepsLeft(t)' < StepsLeft(t), NEW u \in Tasks
        PROVE  IF Idle(u) THEN UNCHANGED at[u]
               ELSE UNCHANGED at[u] \/ StepsLeft(u)' < StepsLeft(u)
    BY <1>1, <2>3 DEF Advance, TypeOK, Idle
  <2>4. ASSUME NEW r \in Requests, AcquireSlot(r) \/ GiveUpSlot(r)
        PROVE  /\ Advance(r, "running") \/ Advance(r, "done")
               /\ ~Idle(r) /\ StepsLeft(r)' < StepsLeft(r)
    BY <1>1, <2>4 DEF AcquireSlot, GiveUpSlot, Advance, TypeOK, Idle, StepsLeft
  <2>5. ASSUME NEW t \in Tasks, Finish(t) \/ Answer(t) \/ Release(t)
        PROVE  /\ \E place : Advance(t, place)
               /\ ~Idle(t) /\ StepsLeft(t)' < StepsLeft(t)
    BY <1>1, <2>5 DEF Finish, Answer, Release, Advance, TypeOK, Idle, StepsLeft
  <2>6. CASE UNCHANGED at
    BY <2>1, <2>6
  <2> QED
    BY <2>1, <2>2, <2>3, <2>4, <2>5, <2>6
<1>2. TypeOK /\ IInv /\ [Next]_vars => [WaitShrinks]_vars
  BY <1>1 DEF WaitShrinks
<1> QED
  BY <1>2, TypeCorrect, InvariantCorrect, PTL DEF Spec
=============================================================================
