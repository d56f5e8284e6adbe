----------------------------- MODULE WindowProofs -----------------------------
(***************************************************************************)
(* Theorems about the agreement of the window and the event loop.  Facts   *)
(* of the surroundings enter some of them as hypotheses: the queue of      *)
(* actions (16 places) holds the user's lead over the loop, no launch link *)
(* arrives, or every address that can be entered is usable                 *)
(* (--allow-insecure, wss, or loopback).                                   *)
(***************************************************************************)
EXTENDS ControllerProofs

UsersAlone == Launches = {}

AddressesUsable ==
  \A url \in InitialURLs \cup Launches, ip \in Hosts :
    /\ BuildableURL(CandidateURL(ip, url))
    /\ ValidServerURL(CandidateURL(ip, url), AllowInsecure)

-----------------------------------------------------------------------------
(* The steps, seen from the actions of the user. *)

\* The loop takes the oldest action.
Takes ==
  /\ loop = "running" /\ actions # <<>> /\ actions' = Tail(actions)
  /\ Head(actions).action \in {"disconnect", "quit"} => activeContext' = 0
  /\ Head(actions).action = "quit" => loop' = "returned"
  /\ loop' \in {"running", "returned"}
  /\ UNCHANGED <<windowOpen, wish>>

\* The user asks for one more thing.
Asks(action) ==
  /\ loop = "running" /\ windowOpen /\ Len(actions) < Backlog
  /\ Emit(action)
  /\ action.action = "connect" => wish' = "online"
  /\ action.action = "quit" => wish' = wish
  /\ UNCHANGED <<windowOpen, activeContext, loop>>

Closes ==
  /\ loop = "running" /\ windowOpen /\ ~windowOpen'
  /\ Emit([action |-> "quit"])
  /\ UNCHANGED <<wish, activeContext, loop>>

\* The loop ends without an action.
Ends ==
  /\ loop = "running" /\ activeContext' = 0
  /\ \/ loop' = "returned" /\ (UNCHANGED actions \/ actions' = <<>>)
     \/ /\ loop' = "failed" /\ ~windowOpen /\ actions' = <<>>
        /\ ~\E k \in 1..Len(actions) : actions[k].action = "quit"
  /\ UNCHANGED <<windowOpen, wish>>

Elsewhere ==
  /\ UNCHANGED <<actions, windowOpen, loop>>
  /\ wish' \in {wish, "online"}
  /\ OnLaunch \/ UNCHANGED activeContext

LEMMA ActionSteps ==
  ASSUME TypeOK, [Next]_vars
  PROVE  \/ Takes \/ Closes \/ Ends \/ Elsewhere
         \/ \E action \in UIAction : Asks(action)
<1>1. CASE OnInterrupt \/ OnWindowDone
  BY <1>1 DEF OnInterrupt, OnWindowDone, Turn, Stop, uiVars, Ends
<1>2. CASE OnConnect \/ OnDisconnect \/ OnQuit
  BY <1>2 DEF OnConnect, OnDisconnect, OnQuit, TakeAction, Turn, Stop, Takes
<1>3. CASE OnLaunch \/ OnEvent \/ ReceiveLaunch \/ HandleLaunch
  BY <1>3 DEF OnLaunch, OnEvent, DropStale, OnConnected, OnDisconnected, OnRetrying, OnPending,
     OnApproved, OnEnrollmentError, OnRejected, TakeCurrent, TakeEvent, ReceiveLaunch,
     HandleLaunch, uiVars, loopVars, Elsewhere
<1>4. CASE User
  <2>1. ASSUME NEW ip \in Hosts, Len(actions) < Backlog, ClickConnect(ip), wish' = "online"
        PROVE  Asks([action |-> "connect", ip |-> ip])
    BY <1>4, <2>1 DEF User, ClickConnect, loopVars, Asks
  <2>2. ASSUME Len(actions) < Backlog, ClickDisconnect, wish' = "offline"
        PROVE  Asks([action |-> "disconnect"])
    BY <1>4, <2>2 DEF User, ClickDisconnect, loopVars, Asks
  <2>3. ASSUME Len(actions) < Backlog, TrayExit, UNCHANGED wish
        PROVE  Asks([action |-> "quit"])
    BY <1>4, <2>3 DEF User, TrayExit, loopVars, Asks
  <2>4. CASE CloseWindow /\ UNCHANGED wish
    BY <1>4, <2>4 DEF User, CloseWindow, loopVars, Closes
  <2>5. /\ [action |-> "disconnect"] \in UIAction /\ [action |-> "quit"] \in UIAction
        /\ \A ip \in Hosts : [action |-> "connect", ip |-> ip] \in UIAction
    BY DEF UIAction
  <2> QED
    BY <1>4, <2>1, <2>2, <2>3, <2>4, <2>5 DEF User
<1>5. CASE Interrupt \/ WindowUpdate \/ Goroutine \/ Ended \/ UNCHANGED vars
  BY <1>5 DEF Interrupt, WindowUpdate, ApplyUpdate, Goroutine, Ended, vars, uiVars, loopVars,
     Elsewhere
<1> QED
  BY <1>1, <1>2, <1>3, <1>4, <1>5 DEF Next

\* What an action sent or taken does to the queue.
LEMMA EmitAppends ==
  ASSUME TypeOK, NEW action \in UIAction, Emit(action), Len(actions) < ActionCap
  PROVE  /\ Len(actions) \in Nat /\ Len(actions') = Len(actions) + 1
         /\ \A k \in 1..Len(actions) : actions'[k] = actions[k]
         /\ actions'[Len(actions')] = action
<1>1. actions \in Seq(UIAction) /\ actions' = Append(actions, action)
  BY DEF TypeOK, UITypeOK, Emit
<1> QED
  BY <1>1, AppendProperties, LenProperties

LEMMA TakeShifts ==
  ASSUME TypeOK, actions # <<>>, actions' = Tail(actions)
  PROVE  /\ Len(actions) \in Nat \ {0} /\ Len(actions') = Len(actions) - 1
         /\ Head(actions) = actions[1]
         /\ \A k \in 1..Len(actions') : actions'[k] = actions[k + 1]
         /\ Len(actions') # 0 => actions'[Len(actions')] = actions[Len(actions)]
<1>1. actions \in Seq(UIAction)
  BY DEF TypeOK, UITypeOK
<1>2. /\ Len(actions) \in Nat \ {0} /\ Len(actions') = Len(actions) - 1
      /\ Head(actions) = actions[1]
      /\ \A k \in 1..Len(actions') : actions'[k] = actions[k + 1]
  BY <1>1, HeadTailProperties, EmptySeq
<1> QED
  BY <1>2

-----------------------------------------------------------------------------
(* Closing the window. *)

\* The lead of the user is bounded, and the 'quit' of a closed window waits until
\* the loop ends.
CloseInv ==
  /\ windowOpen => Len(actions) <= Backlog
  /\ loop = "running" /\ ~windowOpen => \E k \in 1..Len(actions) : actions[k].action = "quit"
  /\ CloseIsClean

LEMMA CloseStep ==
  ASSUME Backlog < ActionCap, TypeOK, CloseInv, [Next]_vars
  PROVE  CloseInv'
<1>0. Backlog \in Nat /\ ActionCap \in Nat /\ Len(actions) \in Nat
  BY ControllerAssumption, WindowAssumption, LenProperties DEF TypeOK, UITypeOK
<1> USE DEF CloseInv, CloseIsClean
<1>1. CASE Takes
  <2>1. /\ Len(actions') = Len(actions) - 1 /\ Head(actions) = actions[1]
        /\ \A k \in 1..Len(actions') : actions'[k] = actions[k + 1]
    BY <1>1, TakeShifts DEF Takes
  <2>2. ASSUME loop' = "running", NEW k \in 1..Len(actions), actions[k].action = "quit"
        PROVE  \E j \in 1..Len(actions') : actions'[j].action = "quit"
    <3>1. k # 1
      BY <1>1, <2>1, <2>2 DEF Takes
    <3>2. k - 1 \in 1..Len(actions') /\ actions'[k - 1] = actions[k]
      BY <1>0, <2>1, <3>1
    <3> QED
      BY <2>2, <3>2
  <2> QED
    BY <1>0, <1>1, <2>1, <2>2 DEF Takes
<1>2. ASSUME NEW action \in UIAction, Asks(action)
      PROVE  CloseInv'
  <2>1. Len(actions') = Len(actions) + 1
    BY <1>0, <1>2, EmitAppends DEF Asks
  <2> QED
    BY <1>0, <1>2, <2>1 DEF Asks
<1>3. CASE Closes
  <2>1. /\ Len(actions') = Len(actions) + 1
        /\ actions'[Len(actions')] = [action |-> "quit"]
    BY <1>0, <1>3, EmitAppends DEF Closes, UIAction
  <2> QED
    BY <1>0, <1>3, <2>1 DEF Closes
<1>4. CASE Ends
  <2>1. loop' = "returned" /\ (actions' = actions \/ actions' = <<>>)
    BY <1>4 DEF Ends
  <2> QED
    BY <1>0, <1>4, <2>1 DEF Ends
<1>5. CASE Elsewhere
  BY <1>5 DEF Elsewhere
<1> QED
  BY <1>1, <1>2, <1>3, <1>4, <1>5, ActionSteps

\* run does not take an orderly close, from the window or from the tray, for a
\* crash of the window, as long as the queue is longer than the user's lead.
THEOREM CloseCorrect == Backlog < ActionCap => (Spec => []CloseIsClean)
<1> SUFFICES ASSUME Backlog < ActionCap PROVE Spec => []CloseIsClean
  OBVIOUS
<1>1. Init => CloseInv
  BY ControllerAssumption DEF Init, UIInit, CloseInv, CloseIsClean
<1>2. TypeOK /\ CloseInv /\ [Next]_vars => CloseInv'
  BY CloseStep
<1>3. CloseInv => CloseIsClean
  BY DEF CloseInv
<1> QED
  BY <1>1, <1>2, <1>3, TypeCorrect, PTL DEF Spec

-----------------------------------------------------------------------------
(* The user's last wish. *)

\* Without launch links nothing but the user changes the wish.
NoLaunchComes == launchRequests = <<>> /\ inflightLaunch = NoURL

\* The last action that waits, or the state of the connection, is the last wish.
WishInv ==
  /\ windowOpen => Len(actions) <= Backlog
  /\ wish = "offline" => IF actions = <<>> THEN activeContext = 0
                         ELSE actions[Len(actions)].action \in {"disconnect", "quit"}

LEMMA LaunchStep ==
  ASSUME UsersAlone, TypeOK, NoLaunchComes, [Next]_vars
  PROVE  NoLaunchComes' /\ ~OnLaunch
<1>1. ~OnLaunch /\ ~ReceiveLaunch /\ ~HandleLaunch
  BY DEF NoLaunchComes, UsersAlone, OnLaunch, ReceiveLaunch, HandleLaunch
<1>2. UNCHANGED <<launchRequests, inflightLaunch>>
  BY <1>1 DEF Next, OnInterrupt, OnWindowDone, OnConnect, OnDisconnect, OnQuit, TakeAction,
     OnEvent, DropStale, OnConnected, OnDisconnected, OnRetrying, OnPending, OnApproved,
     OnEnrollmentError, OnRejected, TakeCurrent, TakeEvent, User, Interrupt, WindowUpdate,
     Goroutine, Ended, vars, loopVars, bridgeVars
<1> QED
  BY <1>1, <1>2 DEF NoLaunchComes

LEMMA WishStep ==
  ASSUME Backlog <= ActionCap, TypeOK, WishInv, ~OnLaunch, [Next]_vars
  PROVE  WishInv'
<1>0. Backlog \in Nat /\ ActionCap \in Nat /\ Len(actions) \in Nat
      /\ actions \in Seq(UIAction) /\ actions' \in Seq(UIAction)
  BY ControllerAssumption, WindowAssumption, LenProperties, NextTyped DEF TypeOK, UITypeOK
<1> USE DEF WishInv
<1>1. CASE Takes
  <2>1. /\ Len(actions) \in Nat \ {0} /\ Len(actions') = Len(actions) - 1
        /\ Head(actions) = actions[1]
        /\ Len(actions') # 0 => actions'[Len(actions')] = actions[Len(actions)]
    BY <1>1, TakeShifts DEF Takes
  <2>2. actions' = <<>> <=> Len(actions') = 0
    BY <1>0, EmptySeq
  <2>3. actions' = <<>> /\ wish' = "offline" => activeContext' = 0
    BY <1>1, <2>1, <2>2 DEF Takes
  <2> QED
    BY <1>0, <1>1, <2>1, <2>2, <2>3 DEF Takes
<1>2. ASSUME NEW action \in UIAction, Asks(action)
      PROVE  WishInv'
  <2>1. /\ Len(actions') = Len(actions) + 1
        /\ actions'[Len(actions')] = action
    BY <1>0, <1>2, EmitAppends DEF Asks
  <2>2. action.action \in {"connect", "disconnect", "quit"}
    BY DEF UIAction
  <2>3. actions' # <<>>
    BY <1>0, <2>1, EmptySeq
  <2> QED
    BY <1>0, <1>2, <2>1, <2>2, <2>3 DEF Asks
<1>3. CASE Closes
  <2>1. CASE Len(actions) < ActionCap
    <3>1. /\ Len(actions') = Len(actions) + 1
          /\ actions'[Len(actions')] = [action |-> "quit"]
      BY <1>0, <1>3, <2>1, EmitAppends DEF Closes, UIAction
    <3>2. actions' # <<>>
      BY <1>0, <3>1, EmptySeq
    <3> QED
      BY <1>0, <1>3, <3>1, <3>2 DEF Closes
  <2>2. CASE ~(Len(actions) < ActionCap)
    BY <1>3, <2>2 DEF Closes, Emit
  <2> QED
    BY <2>1, <2>2
<1>4. CASE Ends
  BY <1>0, <1>4 DEF Ends
<1>5. CASE Elsewhere
  BY <1>5 DEF Elsewhere
<1> QED
  BY <1>1, <1>2, <1>3, <1>4, <1>5, ActionSteps

\* A disconnection that the loop has carried out is final: no late event and no
\* retry opens a connection for a user who wants none.
THEOREM DisconnectCorrect ==
  Backlog <= ActionCap /\ UsersAlone => (Spec => []DisconnectIsFinal)
<1> SUFFICES ASSUME Backlog <= ActionCap, UsersAlone PROVE Spec => []DisconnectIsFinal
  OBVIOUS
<1>1. Init => NoLaunchComes /\ WishInv
  BY ControllerAssumption DEF Init, UIInit, NoLaunchComes, WishInv
<1>2. TypeOK /\ NoLaunchComes /\ WishInv /\ [Next]_vars => NoLaunchComes' /\ WishInv'
  BY LaunchStep, WishStep
<1>3. WishInv => DisconnectIsFinal
  BY DEF WishInv, DisconnectIsFinal
<1> QED
  BY <1>1, <1>2, <1>3, TypeCorrect, PTL DEF Spec

-----------------------------------------------------------------------------
(* The way of a wish through the queue. *)

\* What was queued to end the connection keeps its place or moves up by one.
KeepsItsTurn ==
  \A k \in 1..Len(actions) : actions[k].action \in {"disconnect", "quit"} =>
    \/ loop' # "running" \/ activeContext' = 0
    \/ \E j \in {k - 1, k} : j \in 1..Len(actions') /\ actions'[j] = actions[k]

\* A "disconnect" or "quit" that got into the queue stays there until there is no
\* connection any more, and nothing overtakes it: what DisconnectTakesEffect says,
\* but for the loop's choice of the branch.
THEOREM WishesKeepTheirTurn == Spec => [][KeepsItsTurn]_vars
<1>1. ASSUME TypeOK, [Next]_vars, NEW k \in 1..Len(actions),
             actions[k].action \in {"disconnect", "quit"}
      PROVE  \/ loop' # "running" \/ activeContext' = 0
             \/ \E j \in {k - 1, k} : j \in 1..Len(actions') /\ actions'[j] = actions[k]
  <2>0. Len(actions) \in Nat
    BY <1>1, LenProperties DEF TypeOK, UITypeOK
  <2>1. CASE Takes
    <3>1. /\ Len(actions') = Len(actions) - 1 /\ Head(actions) = actions[1]
          /\ \A j \in 1..Len(actions') : actions'[j] = actions[j + 1]
      BY <1>1, <2>1, TakeShifts DEF Takes
    <3>2. CASE k = 1
      BY <1>1, <2>1, <3>1, <3>2 DEF Takes
    <3>3. CASE k # 1
      <4>1. k - 1 \in 1..Len(actions') /\ actions'[k - 1] = actions[k]
        BY <2>0, <3>1, <3>3
      <4> QED
        BY <4>1
    <3> QED
      BY <3>2, <3>3
  <2>2. ASSUME NEW action \in UIAction, Emit(action)
        PROVE  k \in 1..Len(actions') /\ actions'[k] = actions[k]
    <3>1. CASE Len(actions) < ActionCap
      BY <1>1, <2>0, <2>2, <3>1, EmitAppends
    <3>2. CASE ~(Len(actions) < ActionCap)
      BY <2>2, <3>2 DEF Emit
    <3> QED
      BY <3>1, <3>2
  <2>3. CASE Closes \/ \E action \in UIAction : Asks(action)
    <3>1. [action |-> "quit"] \in UIAction
      BY DEF UIAction
    <3>2. k \in 1..Len(actions') /\ actions'[k] = actions[k]
      BY <2>2, <2>3, <3>1 DEF Closes, Asks
    <3> QED
      BY <3>2
  <2>4. CASE Ends
    BY <2>4 DEF Ends
  <2>5. CASE Elsewhere
    BY <2>5 DEF Elsewhere
  <2> QED
    BY <1>1, <2>1, <2>3, <2>4, <2>5, ActionSteps
<1>2. TypeOK /\ [Next]_vars => [KeepsItsTurn]_vars
  BY <1>1 DEF KeepsItsTurn
<1> QED
  BY <1>2, TypeCorrect, PTL DEF Spec

-----------------------------------------------------------------------------
(* The status page. *)

\* While there is no connection nothing that runs or waits counts as current.
NothingCurrent ==
  loop = "running" /\ activeContext = 0 =>
    /\ \A w \in workers : w.generation # generation
    /\ \A k \in 1..Len(events) : events[k].generation # generation

\* The base of the next candidate came from the start or from a launch link.
BaseIsKnown ==
  /\ serverURL \in InitialURLs \cup Launches
  /\ inflightLaunch \in Launches \cup {NoURL}
  /\ launchRequests \in Seq(Launches)

LEMMA BaseStep ==
  ASSUME BaseIsKnown, [Next]_vars
  PROVE  BaseIsKnown'
<1> USE DEF BaseIsKnown
<1>1. CASE OnLaunch
  <2>1. launchRequests # <<>> /\ serverURL' = Head(launchRequests)
        /\ launchRequests' = Tail(launchRequests) /\ UNCHANGED inflightLaunch
    BY <1>1 DEF OnLaunch
  <2> QED
    BY <2>1, HeadTailProperties
<1>2. CASE ReceiveLaunch
  BY <1>2 DEF ReceiveLaunch, loopVars
<1>3. CASE HandleLaunch
  <2>1. inflightLaunch \in Launches /\ inflightLaunch' = NoURL /\ UNCHANGED serverURL
    BY <1>3 DEF HandleLaunch, loopVars
  <2>2. launchRequests' \in Seq(Launches)
    BY <1>3, <2>1, AppendProperties DEF HandleLaunch
  <2> QED
    BY <2>1, <2>2
<1>4. CASE ~(OnLaunch \/ ReceiveLaunch \/ HandleLaunch)
  <2>1. UNCHANGED <<launchRequests, inflightLaunch, serverURL>>
    BY <1>4 DEF Next, OnInterrupt, OnWindowDone, OnConnect, OnDisconnect, OnQuit, TakeAction,
       OnEvent, DropStale, OnConnected, OnDisconnected, OnRetrying, OnPending, OnApproved,
       OnEnrollmentError, OnRejected, TakeCurrent, TakeEvent, User, Interrupt, WindowUpdate,
       Goroutine, Ended, vars, loopVars, bridgeVars
  <2> QED
    BY <2>1
<1> QED
  BY <1>1, <1>2, <1>3, <1>4

\* A context that ends while the loop runs ends with its generation.
LEMMA ContextSteps ==
  ASSUME AddressesUsable, TypeOK, BaseIsKnown, [Next]_vars, loop' = "running"
  PROVE  /\ loop = "running"
         /\ activeContext' # activeContext => generation' = generation + 1
         /\ activeContext' # activeContext /\ activeContext' = 0 => OnDisconnect
         /\ OnConnect \/ OnLaunch => activeContext' # 0
<1>0. generation \in Nat
  BY DEF TypeOK
<1>1. ASSUME NEW ip \in Hosts, NEW previous \in InitialURLs \cup Launches,
             StartConnection(ip, previous)
      PROVE  generation' = generation + 1 /\ activeContext' = generation + 1
  BY <1>1 DEF StartConnection, AddressesUsable
<1>2. CASE OnConnect
  <2>1. TakeAction("connect") /\ UNCHANGED loop /\ StartConnection(Head(actions).ip, serverURL)
    BY <1>2 DEF OnConnect
  <2>2. Head(actions) \in UIAction /\ Head(actions).action = "connect"
    BY <2>1, HeadTailProperties DEF TakeAction, TypeOK, UITypeOK
  <2>3. Head(actions).ip \in Hosts /\ serverURL \in InitialURLs \cup Launches
    BY <2>2 DEF UIAction, BaseIsKnown
  <2> QED
    BY <1>0, <1>1, <2>1, <2>3
<1>3. CASE OnLaunch
  <2>1. UNCHANGED loop /\ launchRequests # <<>>
        /\ StartConnection(Head(launchRequests).host, Head(launchRequests))
    BY <1>3 DEF OnLaunch
  <2>2. Head(launchRequests) \in Launches
    BY <2>1, HeadTailProperties DEF BaseIsKnown
  <2>3. Head(launchRequests).host \in Hosts
    BY <2>2, ControllerAssumption DEF URL
  <2> QED
    BY <1>0, <1>1, <2>1, <2>2, <2>3
<1>4. CASE OnDisconnect
  BY <1>4 DEF OnDisconnect, OnConnect, OnLaunch, TakeAction
<1>5. CASE OnInterrupt \/ OnWindowDone \/ OnQuit
  BY <1>5 DEF OnInterrupt, OnWindowDone, OnQuit, Stop
<1>6. CASE ~OnConnect /\ ~OnLaunch
             /\ (OnEvent \/ ReceiveLaunch \/ HandleLaunch \/ User \/ Interrupt
                   \/ WindowUpdate \/ Goroutine \/ Ended \/ UNCHANGED vars)
  <2>1. UNCHANGED <<activeContext, loop>>
    BY <1>6 DEF OnEvent, DropStale, OnConnected, OnDisconnected, OnRetrying, OnPending,
       OnApproved, OnEnrollmentError, OnRejected, TakeCurrent, TakeEvent, ReceiveLaunch,
       HandleLaunch, User, Interrupt, WindowUpdate, Goroutine, Ended, vars, loopVars
  <2> QED
    BY <1>6, <2>1
<1> QED
  BY <1>2, <1>3, <1>4, <1>5, <1>6 DEF Next

LEMMA CurrentStep ==
  ASSUME AddressesUsable, IInv, NothingCurrent, BaseIsKnown, [Next]_vars
  PROVE  NothingCurrent'
<1> SUFFICES ASSUME loop' = "running", activeContext' = 0
             PROVE  /\ \A w \in workers' : w.generation # generation'
                    /\ \A k \in 1..Len(events') : events'[k].generation # generation'
  BY DEF NothingCurrent
<1>0. TypeOK /\ ContextIsCurrent /\ generation \in Nat
  BY DEF IInv, TypeOK
<1>1. /\ loop = "running"
      /\ activeContext # 0 => generation' = generation + 1
  BY <1>0, ContextSteps
<1>2. CASE Opens
  BY <1>0, <1>2 DEF Opens
<1>3. CASE Cancels
  <2>1. CASE generation' = generation + 1
    BY <1>0, <1>3, <2>1 DEF Cancels, ContextIsCurrent
  <2>2. CASE generation' = generation
    BY <1>0, <1>1, <1>3, <2>2 DEF Cancels, NothingCurrent
  <2> QED
    BY <1>3, <2>1, <2>2 DEF Cancels
<1>4. CASE Consumes
  <2>1. activeContext = 0 /\ generation' = generation /\ workers' = workers
    BY <1>4 DEF Consumes
  <2>2. \A k \in 1..Len(events') : k + 1 \in 1..Len(events) /\ events'[k] = events[k + 1]
    BY <1>0, <1>4, TailShifts DEF Consumes
  <2> QED
    BY <1>1, <2>1, <2>2 DEF NothingCurrent
<1>5. CASE HandsOver
  <2>1. activeContext = 0 /\ Head(events).generation = generation
    BY <1>5 DEF HandsOver
  <2>2. Head(events) = events[1] /\ 1 \in 1..Len(events)
    BY <1>0, <1>5, TailShifts DEF HandsOver
  <2> QED
    BY <1>1, <2>1, <2>2 DEF NothingCurrent
<1>6. CASE Works
  <2>1. PICK w \in workers : StaysOrExits(w) /\ Sends(w)
    BY <1>6 DEF Works
  <2>2. activeContext = 0 /\ generation' = generation
    BY <1>6 DEF Works
  <2>3. \A v \in workers : v.generation # generation
    BY <1>1, <2>2 DEF NothingCurrent
  <2>4. \A v \in workers' : v.generation # generation
    BY <2>1, <2>3 DEF StaysOrExits, Exit, Succeeds
  <2>5. \A k \in 1..Len(events) : events[k].generation # generation
    BY <1>1, <2>2 DEF NothingCurrent
  <2>6. \A k \in 1..Len(events') : events'[k].generation # generation
    BY <1>0, <2>1, <2>3, <2>5, SendsShifts
  <2> QED
    BY <2>2, <2>4, <2>6
<1>7. CASE UNCHANGED ownership
  BY <1>1, <1>7 DEF ownership, NothingCurrent
<1> QED
  BY <1>0, <1>2, <1>3, <1>4, <1>5, <1>6, <1>7, StepKinds

\* After the updates that wait, the window shows the login page.
LoginInTheEnd ==
  /\ panel = "status" => \E j \in 1..Len(updates) : updates[j] \in {"idle", "error"}
  /\ \A k \in 1..Len(updates) : updates[k] = "connected" =>
       \E j \in 1..Len(updates) : j > k /\ updates[j] \in {"idle", "error"}

StatusInv ==
  /\ ~HasWindow => panel = "login" /\ updates = <<>>
  /\ loop = "running" /\ windowOpen /\ activeContext = 0 => LoginInTheEnd

\* Outside Windows nothing is shown.
LEMMA ConsoleStep ==
  ASSUME ~HasWindow, panel = "login", updates = <<>>, [Next]_vars
  PROVE  panel' = "login" /\ updates' = <<>>
<1>1. \A shown : PendingAfter(shown) = <<>>
  BY DEF PendingAfter
<1>2. ASSUME NEW ip, NEW previous, StartConnection(ip, previous) PROVE updates' = <<>>
  BY <1>1, <1>2 DEF StartConnection, StartEnrollment, StartAgent
<1>3. CASE OnInterrupt \/ OnWindowDone \/ OnQuit \/ OnDisconnect
  BY <1>1, <1>3 DEF OnInterrupt, OnWindowDone, OnQuit, OnDisconnect, TakeAction, uiVars, screenVars
<1>4. CASE OnConnect \/ OnLaunch
  BY <1>2, <1>4 DEF OnConnect, OnLaunch, TakeAction, screenVars
<1>5. CASE OnEvent
  <2>1. panel' = "login"
    BY <1>5 DEF OnEvent, DropStale, OnConnected, OnDisconnected, OnRetrying, OnPending,
       OnApproved, OnEnrollmentError, OnRejected, TakeCurrent, TakeEvent, screenVars
  <2>2. updates' = <<>>
    BY <1>1, <1>5 DEF OnEvent, DropStale, OnConnected, OnDisconnected, OnRetrying, OnPending,
       OnApproved, OnEnrollmentError, OnRejected, StartEnrollment, StartAgent
  <2> QED
    BY <2>1, <2>2
<1>6. CASE ReceiveLaunch \/ HandleLaunch \/ User \/ Interrupt \/ WindowUpdate \/ Goroutine
           \/ Ended \/ UNCHANGED vars
  BY <1>6 DEF ReceiveLaunch, HandleLaunch, User, ClickConnect, ClickDisconnect, TrayExit,
     CloseWindow, Interrupt, WindowUpdate, ApplyUpdate, Goroutine, Ended, vars, uiVars
<1> QED
  BY <1>3, <1>4, <1>5, <1>6 DEF Next

\* The window thread runs the update at the head of its queue.
LEMMA UpdateStep ==
  ASSUME updates \in Seq(UpdateStates), LoginInTheEnd, ApplyUpdate
  PROVE  LoginInTheEnd'
<1>1. /\ Len(updates) \in Nat \ {0} /\ Len(updates') = Len(updates) - 1
      /\ Head(updates) = updates[1] /\ Head(updates) \in UpdateStates
      /\ \A k \in 1..Len(updates') : updates'[k] = updates[k + 1]
  BY HeadTailProperties, EmptySeq DEF ApplyUpdate
<1>2. \A j \in 1..Len(updates) : j > 1 => j - 1 \in 1..Len(updates') /\ updates'[j - 1] = updates[j]
  BY <1>1
<1>3. ASSUME NEW k \in 1..Len(updates'), updates'[k] = "connected"
      PROVE  \E j \in 1..Len(updates') : j > k /\ updates'[j] \in {"idle", "error"}
  <2>1. k + 1 \in 1..Len(updates) /\ updates[k + 1] = "connected"
    BY <1>1, <1>3
  <2>2. PICK j \in 1..Len(updates) : j > k + 1 /\ updates[j] \in {"idle", "error"}
    BY <2>1 DEF LoginInTheEnd
  <2>3. j - 1 > k /\ j > 1
    BY <2>2
  <2> QED
    BY <1>2, <2>2, <2>3
<1>4. ASSUME panel' = "status"
      PROVE  \E j \in 1..Len(updates') : updates'[j] \in {"idle", "error"}
  <2>1. CASE updates[1] = "connected"
    <3>1. PICK j \in 1..Len(updates) : j > 1 /\ updates[j] \in {"idle", "error"}
      BY <1>1, <2>1 DEF LoginInTheEnd
    <3> QED
      BY <1>2, <3>1
  <2>2. CASE updates[1] \in {"retrying", "enrolling"}
    <3>1. panel = "status"
      BY <1>1, <1>4, <2>2 DEF ApplyUpdate, screenVars
    <3>2. PICK j \in 1..Len(updates) : updates[j] \in {"idle", "error"}
      BY <3>1 DEF LoginInTheEnd
    <3>3. j > 1
      BY <2>2, <3>2
    <3> QED
      BY <1>2, <3>2, <3>3
  <2>3. CASE updates[1] \in {"idle", "error"}
    BY <1>1, <1>4, <2>3 DEF ApplyUpdate, ShowLogin
  <2> QED
    BY <1>1, <2>1, <2>2, <2>3 DEF UpdateStates
<1> QED
  BY <1>3, <1>4 DEF LoginInTheEnd

\* The handler of "disconnect" has the last word.
LEMMA IdleStep ==
  ASSUME TypeOK, OnDisconnect, HasWindow, windowOpen
  PROVE  LoginInTheEnd'
<1>1. updates \in Seq(UpdateStates) /\ <<"idle">> \in Seq(UpdateStates)
  BY DEF TypeOK, UITypeOK, UpdateStates
<1>2. updates' = updates \o <<"idle">>
  BY DEF OnDisconnect, PendingAfter
<1> DEFINE n == Len(updates) + 1
<1>3. n \in Nat /\ Len(updates') = n /\ updates'[n] = "idle" /\ n \in 1..Len(updates')
  BY <1>1, <1>2, ConcatProperties, LenProperties
<1> HIDE DEF n
<1>4. \A k \in 1..Len(updates') : updates'[k] = "connected" => n > k
  BY <1>3
<1> QED
  BY <1>3, <1>4 DEF LoginInTheEnd

LEMMA StatusStep ==
  ASSUME AddressesUsable, IInv, NothingCurrent, BaseIsKnown, StatusInv, [Next]_vars
  PROVE  StatusInv'
<1>0. TypeOK /\ updates \in Seq(UpdateStates)
  BY DEF IInv, TypeOK, UITypeOK
<1>1. CASE ~HasWindow
  <2>1. panel' = "login" /\ updates' = <<>>
    BY <1>1, ConsoleStep DEF StatusInv
  <2> QED
    BY <2>1 DEF StatusInv, LoginInTheEnd
<1>2. CASE HasWindow
  <2> SUFFICES ASSUME loop' = "running", windowOpen', activeContext' = 0
               PROVE  LoginInTheEnd'
    BY <1>2 DEF StatusInv
  <2>1. /\ loop = "running" /\ ~OnConnect /\ ~OnLaunch
        /\ OnDisconnect \/ activeContext = 0
    BY <1>0, ContextSteps
  <2>2. windowOpen
    BY DEF Next, OnInterrupt, OnWindowDone, OnConnect, OnDisconnect, OnQuit, TakeAction, OnLaunch,
       OnEvent, DropStale, OnConnected, OnDisconnected, OnRetrying, OnPending, OnApproved,
       OnEnrollmentError, OnRejected, TakeCurrent, TakeEvent, ReceiveLaunch, HandleLaunch,
       User, ClickConnect, ClickDisconnect, TrayExit, CloseWindow, Interrupt, WindowUpdate,
       ApplyUpdate, Goroutine, Ended, vars, uiVars
  <2>3. CASE OnDisconnect
    BY <1>0, <1>2, <2>2, <2>3, IdleStep
  <2>4. CASE ~OnDisconnect
    <3>1. LoginInTheEnd /\ activeContext = 0
      BY <2>1, <2>2, <2>4 DEF StatusInv
    <3>2. CASE WindowUpdate
      BY <1>0, <3>1, <3>2, UpdateStep DEF WindowUpdate
    <3>3. CASE OnEvent
      <4>1. Head(events).generation # generation
        <5>1. events # <<>> /\ events' = Tail(events)
          BY <3>3 DEF OnEvent, DropStale, OnConnected, OnDisconnected, OnRetrying, OnPending,
             OnApproved, OnEnrollmentError, OnRejected, TakeCurrent, TakeEvent
        <5>2. Head(events) = events[1] /\ 1 \in 1..Len(events)
          BY <1>0, <5>1, TailShifts
        <5> QED
          BY <2>1, <3>1, <5>2 DEF NothingCurrent
      <4>2. DropStale
        BY <3>3, <4>1 DEF OnEvent, OnConnected, OnDisconnected, OnRetrying, OnPending,
           OnApproved, OnEnrollmentError, OnRejected, TakeCurrent, Current
      <4> QED
        BY <3>1, <4>2 DEF DropStale, TakeEvent, screenVars, LoginInTheEnd
    <3>4. CASE ReceiveLaunch \/ HandleLaunch \/ User \/ Interrupt \/ Goroutine
               \/ Ended \/ UNCHANGED vars
      <4>1. updates' = updates /\ panel' \in {panel, "login"}
        BY <3>4 DEF ReceiveLaunch, HandleLaunch, User, ClickConnect, ClickDisconnect, TrayExit,
           CloseWindow, ShowLogin, Interrupt, Goroutine, Ended, vars, uiVars, screenVars
      <4> QED
        BY <3>1, <4>1 DEF LoginInTheEnd
    <3>5. ~(OnInterrupt \/ OnWindowDone \/ OnQuit)
      BY DEF OnInterrupt, OnWindowDone, OnQuit, Stop
    <3> QED
      BY <2>1, <2>4, <3>2, <3>3, <3>4, <3>5 DEF Next
  <2> QED
    BY <2>3, <2>4
<1> QED
  BY <1>1, <1>2

\* What the theorems about the status page rest on.
LEMMA WindowInductive ==
  ASSUME AddressesUsable
  PROVE  Spec => [](NothingCurrent /\ StatusInv)
<1>1. Init => BaseIsKnown /\ NothingCurrent /\ StatusInv
  BY DEF Init, WorkersInit, UIInit, BaseIsKnown, NothingCurrent, StatusInv, LoginInTheEnd
<1>2. IInv /\ BaseIsKnown /\ NothingCurrent /\ StatusInv /\ [Next]_vars
        => BaseIsKnown' /\ NothingCurrent' /\ StatusInv'
  BY BaseStep, CurrentStep, StatusStep
<1> QED
  BY <1>1, <1>2, Inductive, PTL DEF Spec

\* When everything has settled the status page stands for a live connection: the
\* loop's 'idle' comes last, and no event of an ended connection is current.
THEOREM StatusCorrect == AddressesUsable => (Spec => []StatusPageHasConnection)
<1> SUFFICES ASSUME AddressesUsable PROVE Spec => []StatusPageHasConnection
  OBVIOUS
<1>1. StatusInv => StatusPageHasConnection
  BY DEF StatusInv, LoginInTheEnd, StatusPageHasConnection, Quiet
<1> QED
  BY <1>1, WindowInductive, PTL

\* A connection is shown and remembered as established only while its context is
\* live.  The hypothesis about the addresses is needed: startConnection cancels
\* before it looks at the new address.
THEOREM ConnectedCorrect == AddressesUsable => (Spec => ConnectedOnlyWhenLive)
<1> SUFFICES ASSUME AddressesUsable PROVE Spec => ConnectedOnlyWhenLive
  OBVIOUS
<1>1. ASSUME IInv, NothingCurrent, OnConnected PROVE activeContext = generation
  <2>1. /\ loop = "running" /\ events # <<>> /\ events' = Tail(events)
        /\ Head(events).generation = generation
    BY <1>1 DEF OnConnected, TakeCurrent, TakeEvent, Turn, Current
  <2>2. Head(events) = events[1] /\ 1 \in 1..Len(events)
    BY <1>1, <2>1, TailShifts DEF IInv
  <2>3. activeContext # 0
    BY <1>1, <2>1, <2>2 DEF NothingCurrent
  <2> QED
    BY <1>1, <2>3 DEF IInv, ContextIsCurrent
<1>2. IInv /\ NothingCurrent => [OnConnected => activeContext = generation]_vars
  BY <1>1
<1> QED
  BY <1>2, WindowInductive, Inductive, PTL DEF ConnectedOnlyWhenLive

-----------------------------------------------------------------------------
(* "Online" on the status page. *)

\* The approval or the refusal that ends a goroutine is the last event of its
\* generation until the loop has handled it.
BatonIsLast ==
  \A j, k \in 1..Len(events) :
    j < k /\ events[j].kind \in BatonKinds => events[k].generation # events[j].generation

LEMMA BatonStep ==
  ASSUME IInv, BatonIsLast, [Next]_vars
  PROVE  BatonIsLast'
<1>0. TypeOK /\ OneOwner
  BY DEF IInv
<1>1. CASE Opens \/ Cancels \/ UNCHANGED ownership
  BY <1>1 DEF Opens, Cancels, ownership, BatonIsLast
<1>2. CASE Consumes \/ HandsOver
  <2>1. \A k \in 1..Len(events') : k + 1 \in 1..Len(events) /\ events'[k] = events[k + 1]
    BY <1>0, <1>2, TailShifts DEF Consumes, HandsOver
  <2> QED
    BY <2>1 DEF BatonIsLast
<1>3. CASE Works
  <2>1. PICK w \in workers : Sends(w)
    BY <1>3 DEF Works
  <2>2. \/ UNCHANGED events
        \/ /\ Len(events) \in Nat /\ Len(events') = Len(events) + 1
           /\ \A k \in 1..Len(events) : events'[k] = events[k]
           /\ events'[Len(events) + 1].generation = w.generation
    BY <1>0, <2>1, SendsShifts
  <2>3. \A j \in 1..Len(events) : events[j].kind \in BatonKinds => w.generation # events[j].generation
    BY <1>0 DEF OneOwner
  <2> QED
    BY <2>2, <2>3 DEF BatonIsLast
<1> QED
  BY <1>0, <1>1, <1>2, <1>3, StepKinds

\* The updates that take "online" off the page, and the events that lead to one.
Retracting == {"retrying", "idle", "error"}
RetractingEvents == {"retrying", "enrollment_error"}

RetractionArrives ==
  \E k \in 1..Len(events) :
    events[k].generation = generation /\ events[k].kind \in RetractingEvents

\* Every "connected" that waits, as an event or as an update, and the one on the
\* page are taken back by what comes after them.
EventsRetracted ==
  \A k \in 1..Len(events) : events[k].generation = generation /\ events[k].kind = "connected" =>
    \E j \in 1..Len(events) :
      j > k /\ events[j].generation = generation /\ events[j].kind \in RetractingEvents
PageRetracted ==
  /\ \A k \in 1..Len(updates) : updates[k] = "connected" =>
       \E j \in 1..Len(updates) : j > k /\ updates[j] \in Retracting
  /\ panel = "status" /\ banner = "online" =>
       \E j \in 1..Len(updates) : updates[j] \in Retracting

OfflineInTheEnd == EventsRetracted /\ (RetractionArrives \/ PageRetracted)

\* A live connection whose goroutine, if there is one, waits to dial again, and
\* nobody is about to start another one.
Deserted ==
  /\ HasWindow /\ loop = "running" /\ windowOpen /\ ~interrupted /\ activeContext # 0
  /\ \A w \in workers : w.generation = generation => w.at = "waiting"
  /\ \A k \in 1..Len(events) : events[k].generation = generation => events[k].kind \notin BatonKinds

PageInv == Deserted => OfflineInTheEnd

\* A handler that ends with a retraction has the last word.
LEMMA RetractionAppended ==
  ASSUME updates \in Seq(UpdateStates), NEW shown \in Seq(UpdateStates), Len(shown) # 0,
         shown[Len(shown)] \in Retracting, updates' = updates \o shown
  PROVE  PageRetracted'
<1> DEFINE n == Len(updates) + Len(shown)
<1>1. /\ Len(shown) \in Nat \ {0} /\ Len(updates) \in Nat
      /\ Len(updates') = n /\ updates'[n] = shown[Len(shown)]
  BY ConcatProperties, LenProperties
<1>2. n \in 1..Len(updates')
  BY <1>1
<1> HIDE DEF n
<1>3. \A k \in 1..Len(updates') : updates'[k] = "connected" => n > k
  BY <1>1, <1>2 DEF Retracting
<1> QED
  BY <1>1, <1>2, <1>3 DEF PageRetracted

LEMMA WordAppended ==
  ASSUME updates \in Seq(UpdateStates), NEW state \in Retracting, updates' = updates \o <<state>>
  PROVE  PageRetracted'
<1> DEFINE shown == <<state>>
<1>1. shown \in Seq(UpdateStates) /\ Len(shown) = 1 /\ shown[1] \in Retracting
  BY DEF Retracting, UpdateStates
<1>2. updates' = updates \o shown
  OBVIOUS
<1> HIDE DEF shown
<1> QED
  BY <1>1, <1>2, RetractionAppended

LEMMA EnrollingAppended ==
  ASSUME updates \in Seq(UpdateStates), PageRetracted, updates' = updates \o <<"enrolling">>,
         UNCHANGED screenVars
  PROVE  PageRetracted'
<1>1. <<"enrolling">> \in Seq(UpdateStates)
  BY DEF UpdateStates
<1>2. /\ Len(updates) \in Nat /\ Len(updates') = Len(updates) + 1
      /\ \A k \in 1..Len(updates) : updates'[k] = updates[k]
      /\ updates'[Len(updates) + 1] = "enrolling"
  BY <1>1, ConcatProperties, LenProperties
<1>3. \A k \in 1..Len(updates') : k \in 1..Len(updates) \/ updates'[k] = "enrolling"
  BY <1>2
<1>4. \A j \in 1..Len(updates) : j \in 1..Len(updates')
  BY <1>2
<1> QED
  BY <1>2, <1>3, <1>4 DEF PageRetracted, screenVars

\* The window thread runs the update at the head of its queue.
LEMMA UpdateRetracts ==
  ASSUME updates \in Seq(UpdateStates), PageRetracted, ApplyUpdate
  PROVE  PageRetracted'
<1>1. /\ Len(updates) \in Nat \ {0} /\ Len(updates') = Len(updates) - 1
      /\ Head(updates) = updates[1] /\ Head(updates) \in UpdateStates
      /\ \A k \in 1..Len(updates') : updates'[k] = updates[k + 1]
  BY HeadTailProperties, EmptySeq DEF ApplyUpdate
<1>2. \A j \in 1..Len(updates) : j > 1 => j - 1 \in 1..Len(updates') /\ updates'[j - 1] = updates[j]
  BY <1>1
<1>3. ASSUME NEW k \in 1..Len(updates'), updates'[k] = "connected"
      PROVE  \E j \in 1..Len(updates') : j > k /\ updates'[j] \in Retracting
  <2>1. k + 1 \in 1..Len(updates) /\ updates[k + 1] = "connected"
    BY <1>1, <1>3
  <2>2. PICK j \in 1..Len(updates) : j > k + 1 /\ updates[j] \in Retracting
    BY <2>1 DEF PageRetracted
  <2>3. j - 1 > k /\ j > 1
    BY <2>2
  <2> QED
    BY <1>2, <2>2, <2>3
<1>4. ASSUME panel' = "status", banner' = "online"
      PROVE  \E j \in 1..Len(updates') : updates'[j] \in Retracting
  <2>1. CASE updates[1] = "connected"
    <3>1. PICK j \in 1..Len(updates) : j > 1 /\ updates[j] \in Retracting
      BY <1>1, <2>1 DEF PageRetracted
    <3> QED
      BY <1>2, <3>1
  <2>2. CASE updates[1] = "enrolling"
    <3>1. panel = "status" /\ banner = "online"
      BY <1>1, <1>4, <2>2 DEF ApplyUpdate, screenVars
    <3>2. PICK j \in 1..Len(updates) : updates[j] \in Retracting
      BY <3>1 DEF PageRetracted
    <3>3. j > 1
      BY <2>2, <3>2 DEF Retracting
    <3> QED
      BY <1>2, <3>2, <3>3
  <2>3. CASE updates[1] = "retrying"
    BY <1>1, <1>4, <2>3 DEF ApplyUpdate
  <2>4. CASE updates[1] \in {"idle", "error"}
    BY <1>1, <1>4, <2>4 DEF ApplyUpdate, ShowLogin
  <2> QED
    BY <1>1, <2>1, <2>2, <2>3, <2>4 DEF UpdateStates
<1> QED
  BY <1>3, <1>4 DEF PageRetracted

\* A goroutine that was just started, or that moves anywhere but to its wait, is
\* trying.
LEMMA SpawnTries ==
  ASSUME NEW role, NEW url, NEW token, Spawn(role, generation', url, token)
  PROVE  ~Deserted'
<1> DEFINE new == NewWorker(role, generation', url, token)
<1>1. new.generation = generation' /\ new.at \in {"submitting", "dialing"}
  BY DEF NewWorker
<1>2. new \in workers'
  BY DEF Spawn
<1> HIDE DEF new
<1> QED
  BY <1>1, <1>2 DEF Deserted

LEMMA MoveTries ==
  ASSUME TypeOK, NEW w \in workers, w.generation = generation, ~Cancelled(w),
         NEW stage \in (EnrollmentStages \cup AgentStages) \ {"waiting"},
         Move(w, stage) \/ MoveUnlessCancelled(w, stage), generation' = generation
  PROVE  ~Deserted'
<1> DEFINE v == [w EXCEPT !.at = stage]
<1>1. v.generation = generation /\ v.at # "waiting"
  BY DEF TypeOK, WorkersTypeOK, Worker
<1>2. v \in workers'
  BY DEF Move, MoveUnlessCancelled
<1> HIDE DEF v
<1> QED
  BY <1>1, <1>2 DEF Deserted
\* What the current goroutine reports when it gives up or starts to wait.
LEMMA ReportArrives ==
  ASSUME TypeOK, NEW w \in workers, w.generation = generation, ~Cancelled(w),
         NEW kind \in EventKinds, NEW token, Report(w, kind, token), generation' = generation
  PROVE  /\ kind \in BatonKinds => ~Deserted'
         /\ kind \in RetractingEvents => OfflineInTheEnd'
<1> DEFINE e == EventOf(w, kind, token)
           n == Len(events) + 1
<1>1. e.kind = kind /\ e.generation = generation
  BY DEF EventOf
<1>2. events' = Append(events, e) /\ events \in Seq(Event) /\ Len(events) \in Nat
  BY LenProperties DEF Report, TypeOK, WorkersTypeOK
<1>3. Len(events') = n /\ events'[n] = e
  BY <1>2, AppendProperties
<1>4. n \in 1..Len(events') /\ \A k \in 1..Len(events') : k = n \/ n > k
  BY <1>2, <1>3
<1> HIDE DEF n, e
<1>5. kind \in BatonKinds => ~Deserted'
  BY <1>1, <1>3, <1>4 DEF Deserted
<1>6. kind \in RetractingEvents => RetractionArrives'
  BY <1>1, <1>3, <1>4 DEF RetractionArrives
<1>7. kind \in RetractingEvents => EventsRetracted'
  BY <1>1, <1>3, <1>4 DEF EventsRetracted, RetractingEvents
<1> QED
  BY <1>5, <1>6, <1>7 DEF OfflineInTheEnd

\* The goroutine of the current connection takes "online" back before it waits.
LEMMA CurrentGoroutinePage ==
  ASSUME TypeOK, NEW w \in workers, w.generation = generation, ~Cancelled(w),
         EnrollmentStep(w) \/ AgentStep(w), generation' = generation, Deserted'
  PROVE  OfflineInTheEnd'
<1> USE DEF EventKinds, BatonKinds, RetractingEvents, EnrollmentStages, AgentStages
<1>1. CASE Submit(w) \/ ReportPending(w)
  BY <1>1, MoveTries DEF Submit, EnrollmentFails, ReportPending
<1>2. CASE Poll(w)
  <2>1. ASSUME NEW t \in Tokens,
               workers' = (workers \ {w}) \cup
                            {[w EXCEPT !.at = "report_approved", !.token = t]}
        PROVE  FALSE
    <3> DEFINE v == [w EXCEPT !.at = "report_approved", !.token = t]
    <3>1. v.generation = generation /\ v.at # "waiting"
      BY DEF TypeOK, WorkersTypeOK, Worker
    <3>2. v \in workers'
      BY <2>1
    <3> HIDE DEF v
    <3> QED
      BY <3>1, <3>2 DEF Deserted
  <2> QED
    BY <1>2, <2>1, MoveTries DEF Poll, EnrollmentFails
<1>3. CASE ReportApproved(w) \/ ReportRejected(w)
  BY <1>3, ReportArrives DEF ReportApproved, ReportRejected
<1>4. CASE ReportError(w) \/ ReportRetry(w)
  BY <1>4, ReportArrives DEF ReportError, ReportRetry
<1>5. CASE Dial(w)
  BY <1>5, MoveTries DEF Dial
<1>6. CASE ReportUp(w) \/ ConnectionEnds(w)
  BY <1>6, MoveTries DEF ReportUp, ConnectionEnds
<1>7. CASE ReportDown(w)
  BY <1>7, MoveTries DEF ReportDown
<1>8. CASE BackoffEnds(w)
  BY <1>8, MoveTries DEF BackoffEnds
<1> QED
  BY <1>1, <1>2, <1>3, <1>4, <1>5, <1>6, <1>7, <1>8 DEF EnrollmentStep, AgentStep

LEMMA GoroutinePage ==
  ASSUME IInv, PageInv, Goroutine, Deserted'
  PROVE  OfflineInTheEnd'
<1>0. /\ TypeOK /\ ContextIsCurrent
      /\ UNCHANGED <<generation, activeContext, updates, panel, banner, windowOpen>>
      /\ UNCHANGED <<interrupted, loop>>
  BY DEF IInv, Goroutine, loopVars, uiVars
<1>1. PICK w \in workers : EnrollmentStep(w) \/ AgentStep(w)
  BY DEF Goroutine
<1>2. StaysOrExits(w) /\ Sends(w)
  BY <1>0, <1>1, GoroutineEffect DEF TypeOK
<1>3. CASE w.generation = generation
  <2>1. ~Cancelled(w)
    BY <1>0, <1>3 DEF Deserted, Cancelled, ContextIsCurrent
  <2> QED
    BY <1>0, <1>1, <1>3, <2>1, CurrentGoroutinePage
<1>4. CASE w.generation # generation
  <2>1. \A v \in workers : v.generation = generation => v \in workers'
    BY <1>2, <1>4 DEF StaysOrExits, Exit
  <2>2. \/ UNCHANGED events
        \/ /\ Len(events) \in Nat /\ Len(events') = Len(events) + 1
           /\ \A k \in 1..Len(events) : events'[k] = events[k]
           /\ events'[Len(events) + 1].generation = w.generation
    BY <1>0, <1>2, SendsShifts
  <2>3. /\ \A k \in 1..Len(events) : k \in 1..Len(events') /\ events'[k] = events[k]
        /\ \A k \in 1..Len(events') : events'[k].generation = generation => k \in 1..Len(events)
    BY <1>4, <2>2
  <2>4. Deserted
    BY <1>0, <2>1, <2>3 DEF Deserted
  <2>5. EventsRetracted /\ (RetractionArrives \/ PageRetracted)
    BY <2>4 DEF PageInv, OfflineInTheEnd
  <2>6. EventsRetracted'
    BY <1>0, <2>3, <2>5 DEF EventsRetracted
  <2>7. RetractionArrives => RetractionArrives'
    BY <1>0, <2>3 DEF RetractionArrives
  <2>8. PageRetracted => PageRetracted'
    BY <1>0 DEF PageRetracted
  <2> QED
    BY <2>5, <2>6, <2>7, <2>8 DEF OfflineInTheEnd
<1> QED
  BY <1>3, <1>4

\* A connection that cannot even be started shows an error.
LEMMA StartPage ==
  ASSUME TypeOK, ContextIsCurrent, NEW ip, NEW previous, StartConnection(ip, previous),
         UNCHANGED <<events, windowOpen>>, Deserted'
  PROVE  OfflineInTheEnd'
<1>1. generation' = generation + 1 /\ generation \in Nat
  BY DEF TypeOK, StartConnection, Deserted
<1>2. \A k \in 1..Len(events') : events'[k].generation # generation'
  BY <1>1 DEF ContextIsCurrent
<1>3. agentToken # NoToken /\ ~ConfigComplete
  BY <1>1, SpawnTries DEF StartConnection, StartEnrollment, StartAgent, Deserted
<1>4. updates' = PendingAfter(Append(<<>>, "error"))
  BY <1>1, <1>3 DEF StartConnection, StartAgent, Deserted
<1>5. Append(<<>>, "error") = <<"error">>
  OBVIOUS
<1>6. updates' = updates \o <<"error">> /\ updates \in Seq(UpdateStates)
  BY <1>4, <1>5 DEF PendingAfter, Deserted, TypeOK, UITypeOK
<1>7. PageRetracted'
  BY <1>6, WordAppended DEF Retracting
<1> QED
  BY <1>2, <1>7 DEF OfflineInTheEnd, EventsRetracted
\* A result that starts no other goroutine leaves an error behind.
LEMMA HandOverPage ==
  ASSUME IInv, BatonIsLast, OnApproved \/ OnRejected, Deserted'
  PROVE  OfflineInTheEnd'
<1>0. /\ TypeOK /\ events # <<>> /\ events' = Tail(events)
      /\ UNCHANGED <<generation, activeContext, windowOpen>>
      /\ Head(events).generation = generation /\ Head(events).kind \in BatonKinds
  BY DEF IInv, OnApproved, OnRejected, TakeCurrent, TakeEvent, Current, BatonKinds
<1>1. /\ Head(events) = events[1] /\ 1 \in 1..Len(events)
      /\ \A k \in 1..Len(events') : k + 1 \in 1..Len(events) /\ 1 < k + 1 /\ events'[k] = events[k + 1]
  BY <1>0, TailShifts
<1>2. \A k \in 1..Len(events') : events'[k].generation # generation'
  BY <1>0, <1>1 DEF BatonIsLast
<1>3. /\ activeContext = generation /\ activeContext # 0
      /\ updates \in Seq(UpdateStates)
      /\ \A shown : PendingAfter(shown) = updates \o shown
  BY <1>0 DEF Deserted, IInv, ContextIsCurrent, TypeOK, UITypeOK, PendingAfter
<1>4. CASE OnRejected
  BY <1>0, <1>3, <1>4, SpawnTries DEF OnRejected, StartEnrollment
<1>5. CASE OnApproved
  <2>1. ASSUME updates' = PendingAfter(<<"error">>)
        PROVE  PageRetracted'
    BY <1>3, <2>1, WordAppended DEF Retracting
  <2>2. ASSUME StartAgent(activeContext, activeURL, Head(events).token, <<"enrolling">>)
        PROVE  PageRetracted'
    <3> DEFINE shown == Append(<<"enrolling">>, "error")
    <3>1. ~ConfigComplete
      BY <1>0, <1>3, <2>2, SpawnTries DEF StartAgent
    <3>2. shown \in Seq(UpdateStates) /\ Len(shown) # 0 /\ shown[Len(shown)] \in Retracting
      BY DEF UpdateStates, Retracting
    <3>3. updates' = updates \o shown
      BY <1>3, <2>2, <3>1 DEF StartAgent
    <3> HIDE DEF shown
    <3> QED
      BY <1>3, <3>2, <3>3, RetractionAppended
  <2>3. PageRetracted'
    BY <1>3, <1>5, <2>1, <2>2 DEF OnApproved
  <2> QED
    BY <1>2, <2>3 DEF OfflineInTheEnd, EventsRetracted
<1> QED
  BY <1>4, <1>5

\* The handlers pass on what they are told, in order.
LEMMA HandledPage ==
  ASSUME IInv, PageInv, OnEvent, ~OnApproved, ~OnRejected, Deserted'
  PROVE  OfflineInTheEnd'
<1>0. TypeOK /\ TakeEvent /\ UNCHANGED workers
  BY DEF IInv, OnEvent, DropStale, OnConnected, OnDisconnected, OnRetrying, OnPending,
     OnEnrollmentError, TakeCurrent
<1>1. /\ events # <<>> /\ events' = Tail(events)
      /\ UNCHANGED <<generation, activeContext, windowOpen, interrupted, loop, screenVars>>
  BY <1>0 DEF TakeEvent
<1>2. /\ Len(events) \in Nat /\ Head(events) = events[1] /\ 1 \in 1..Len(events)
      /\ \A k \in 1..Len(events') : k + 1 \in 1..Len(events) /\ events'[k] = events[k + 1]
      /\ \A k \in 1..Len(events) : k > 1 => k - 1 \in 1..Len(events') /\ events'[k - 1] = events[k]
  <2>1. events \in Seq(Event) /\ Len(events') = Len(events) - 1
    BY <1>0, <1>1, HeadTailProperties DEF TypeOK, WorkersTypeOK
  <2> QED
    BY <1>0, <1>1, <2>1, TailShifts
<1>3. events[1].generation = generation => events[1].kind \notin BatonKinds
  BY <1>2 DEF OnEvent, DropStale, OnConnected, OnDisconnected, OnRetrying, OnPending,
     OnEnrollmentError, TakeCurrent, Current, BatonKinds
<1>4. Deserted
  <2>1. ASSUME NEW k \in 1..Len(events), events[k].generation = generation
        PROVE  events[k].kind \notin BatonKinds
    <3>1. CASE k > 1
      <4>1. k - 1 \in 1..Len(events') /\ events'[k - 1] = events[k]
        BY <1>2, <3>1
      <4> QED
        BY <1>1, <2>1, <4>1 DEF Deserted
    <3>2. CASE k = 1
      BY <1>3, <2>1, <3>2
    <3> QED
      BY <3>1, <3>2
  <2> QED
    BY <1>0, <1>1, <2>1 DEF Deserted
<1>5. EventsRetracted /\ (RetractionArrives \/ PageRetracted)
  BY <1>4 DEF PageInv, OfflineInTheEnd
<1>6. EventsRetracted'
  <2> SUFFICES ASSUME NEW k \in 1..Len(events'),
                      events'[k].generation = generation, events'[k].kind = "connected"
               PROVE  \E j \in 1..Len(events') :
                        /\ j > k /\ events'[j].generation = generation
                        /\ events'[j].kind \in RetractingEvents
    BY <1>1 DEF EventsRetracted
  <2>1. PICK j \in 1..Len(events) :
          j > k + 1 /\ events[j].generation = generation /\ events[j].kind \in RetractingEvents
    BY <1>2, <1>5 DEF EventsRetracted
  <2>2. j - 1 > k /\ j > 1
    BY <2>1
  <2> QED
    BY <1>2, <2>1, <2>2
<1>7. /\ updates \in Seq(UpdateStates)
      /\ \A shown : PendingAfter(shown) = updates \o shown
  BY <1>0, <1>4 DEF Deserted, TypeOK, UITypeOK, PendingAfter
<1>8. ASSUME NEW j \in 1..Len(events), j > 1,
             events[j].generation = generation, events[j].kind \in RetractingEvents
      PROVE  RetractionArrives'
  <2>1. j - 1 \in 1..Len(events') /\ events'[j - 1] = events[j]
    BY <1>2, <1>8
  <2> QED
    BY <1>1, <1>8, <2>1 DEF RetractionArrives
<1>9. CASE OnRetrying \/ OnEnrollmentError
  <2>1. updates' = updates \o <<"retrying">> \/ updates' = updates \o <<"error">>
    BY <1>7, <1>9 DEF OnRetrying, OnEnrollmentError
  <2>2. PageRetracted'
    BY <1>7, <2>1, WordAppended DEF Retracting
  <2> QED
    BY <1>6, <2>2 DEF OfflineInTheEnd
<1>10. CASE OnConnected
  <2>1. events[1].generation = generation /\ events[1].kind = "connected"
    BY <1>2, <1>10 DEF OnConnected, TakeCurrent, Current
  <2>2. PICK j \in 1..Len(events) :
          j > 1 /\ events[j].generation = generation /\ events[j].kind \in RetractingEvents
    BY <1>2, <1>5, <2>1 DEF EventsRetracted
  <2>3. RetractionArrives'
    BY <1>8, <2>2
  <2> QED
    BY <1>6, <2>3 DEF OfflineInTheEnd
<1>11. CASE DropStale \/ OnDisconnected \/ OnPending
  <2>1. ~(events[1].generation = generation /\ events[1].kind \in RetractingEvents)
    BY <1>2, <1>11 DEF DropStale, OnDisconnected, OnPending, TakeCurrent, Current,
       RetractingEvents
  <2>2. CASE RetractionArrives
    <3>1. PICK j \in 1..Len(events) :
            events[j].generation = generation /\ events[j].kind \in RetractingEvents
      BY <2>2 DEF RetractionArrives
    <3>2. j > 1
      BY <2>1, <3>1
    <3> QED
      BY <1>6, <1>8, <3>1, <3>2 DEF OfflineInTheEnd
  <2>3. CASE PageRetracted
    <3>1. ASSUME updates' = updates PROVE PageRetracted'
      BY <1>1, <2>3, <3>1 DEF PageRetracted, screenVars
    <3>2. ASSUME updates' = updates \o <<"enrolling">> PROVE PageRetracted'
      BY <1>1, <1>7, <2>3, <3>2, EnrollingAppended
    <3>3. PageRetracted'
      BY <1>7, <1>11, <3>1, <3>2 DEF DropStale, OnDisconnected, OnPending
    <3> QED
      BY <1>6, <3>3 DEF OfflineInTheEnd
  <2> QED
    BY <1>5, <2>2, <2>3
<1> QED
  BY <1>9, <1>10, <1>11 DEF OnEvent

LEMMA PageStep ==
  ASSUME IInv, BatonIsLast, PageInv, [Next]_vars
  PROVE  PageInv'
<1> SUFFICES ASSUME Deserted' PROVE OfflineInTheEnd'
  BY DEF PageInv
<1>0. TypeOK /\ ContextIsCurrent
  BY DEF IInv
<1>1. CASE OnConnect
  BY <1>0, <1>1, StartPage DEF OnConnect, TakeAction
<1>2. CASE OnLaunch
  BY <1>0, <1>2, StartPage DEF OnLaunch
<1>3. CASE OnEvent
  BY <1>3, HandOverPage, HandledPage
<1>4. CASE Goroutine
  BY <1>4, GoroutinePage
<1>5. CASE WindowUpdate
  <2>1. /\ ApplyUpdate /\ UNCHANGED <<loopVars, workerVars, interrupted, loop, windowOpen>>
    BY <1>5 DEF WindowUpdate, ApplyUpdate
  <2>2. Deserted
    BY <2>1 DEF Deserted, loopVars, workerVars
  <2>3. EventsRetracted /\ (RetractionArrives \/ PageRetracted)
    BY <2>2 DEF PageInv, OfflineInTheEnd
  <2>4. EventsRetracted' /\ (RetractionArrives => RetractionArrives')
    BY <2>1, <2>3 DEF EventsRetracted, RetractionArrives, loopVars, workerVars
  <2>5. PageRetracted => PageRetracted'
    BY <1>0, <2>1, UpdateRetracts DEF TypeOK, UITypeOK
  <2> QED
    BY <2>3, <2>4, <2>5 DEF OfflineInTheEnd
<1>6. CASE User \/ ReceiveLaunch \/ HandleLaunch \/ UNCHANGED vars
  <2>1. /\ UNCHANGED <<generation, activeContext, workers, events, interrupted, loop, updates>>
        /\ windowOpen /\ panel' \in {panel, "login"} /\ UNCHANGED banner
    BY <1>6 DEF User, ClickConnect, ClickDisconnect, TrayExit, CloseWindow, ShowLogin,
       ReceiveLaunch, HandleLaunch, vars, loopVars, workerVars, uiVars, screenVars, Deserted
  <2>2. Deserted
    BY <2>1 DEF Deserted
  <2>3. EventsRetracted /\ (RetractionArrives \/ PageRetracted)
    BY <2>2 DEF PageInv, OfflineInTheEnd
  <2> QED
    BY <2>1, <2>3 DEF OfflineInTheEnd, EventsRetracted, RetractionArrives, PageRetracted
<1>7. ~(OnInterrupt \/ OnWindowDone \/ OnQuit \/ OnDisconnect \/ Interrupt \/ Ended)
  BY DEF OnInterrupt, OnWindowDone, OnQuit, OnDisconnect, Stop, Interrupt, Ended, vars, Deserted
<1> QED
  BY <1>1, <1>2, <1>3, <1>4, <1>5, <1>6, <1>7 DEF Next

\* "Online" on the page of a settled program is true, unless the credential has
\* been refused since: whoever ends or loses the connection says so after the
\* "connected" it takes back, and the updates are applied in order.
THEOREM OnlineCorrect == AddressesUsable => (Spec => []OnlineUnlessRefused)
<1> SUFFICES ASSUME AddressesUsable PROVE Spec => []OnlineUnlessRefused
  OBVIOUS
<1>1. Init => BatonIsLast /\ PageInv
  BY DEF Init, WorkersInit, BatonIsLast, PageInv, Deserted
<1>2. IInv /\ BatonIsLast /\ PageInv /\ [Next]_vars => BatonIsLast' /\ PageInv'
  BY BatonStep, PageStep
<1>3. IInv /\ StatusInv /\ PageInv => OnlineUnlessRefused
  <2> SUFFICES ASSUME IInv, StatusInv, PageInv, Quiet, panel = "status", banner = "online",
                      \A w \in workers : w.at \in {"serving", "waiting", "polling"}
               PROVE  \E w \in workers :
                        w.generation = activeContext /\ w.at \in {"serving", "polling"}
    BY DEF OnlineUnlessRefused
  <2>1. HasWindow /\ activeContext # 0 /\ activeContext = generation
    BY DEF StatusInv, LoginInTheEnd, Quiet, IInv, ContextIsCurrent
  <2>2. ~OfflineInTheEnd
    BY DEF Quiet, OfflineInTheEnd, RetractionArrives, PageRetracted
  <2>3. ~Deserted
    BY <2>2 DEF PageInv
  <2>4. \E w \in workers : w.generation = generation /\ w.at # "waiting"
    BY <2>1, <2>3 DEF Quiet, Deserted
  <2> QED
    BY <2>1, <2>4
<1> QED
  BY <1>1, <1>2, <1>3, WindowInductive, Inductive, PTL DEF Spec
=============================================================================
