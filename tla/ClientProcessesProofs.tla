------------------------- MODULE ClientProcessesProofs -------------------------
(***************************************************************************)
(* Theorems about any number of processes that share the configuration     *)
(* file and the bridge's port.                                             *)
(***************************************************************************)
EXTENDS ClientProcesses, TLAPS

USE DEF diskVars, bridgeVars, startVars, Running, LaunchCap

Stages == {"off", "naming", "checking", "forwarding", "client"}

-----------------------------------------------------------------------------
(* The inductive invariant, by topic. *)

\* Types of the variables about the file and the start.
StartTyped ==
  /\ file \in Files /\ mishap \in BOOLEAN
  /\ stage \in [Processes -> Stages]
  /\ kind \in [Processes -> StartKinds] /\ override \in [Processes -> BOOLEAN]
  /\ config \in [Processes -> Config]
  /\ saving \in [Processes -> BOOLEAN]

\* Types of the variables about connections and bridges.
BridgeTyped ==
  /\ online \in [Processes -> BOOLEAN]
  /\ tries \in [Processes -> 0..Attempts]
  /\ queue \in [Processes -> 0..LaunchCap]
  /\ port \in {Free} \cup [by : Processes, live : BOOLEAN]

\* Only a client is online, listens or has a launch waiting.
ClientsOnly == \A p \in Processes \ Running : ~online[p] /\ queue[p] = 0 /\ port.by # p

\* The credential of a configuration belongs to its device, or to the environment's.
Matches(c) == c.credential \in {None, c.device, EnvDevice}

\* That holds of the file and of every copy in memory.
CopiesMatch == Matches(file.config) /\ \A p \in Processes : Matches(config[p])

\* Without a mishap one process saves at a time, and the file is unreadable only
\* between its two steps.
SavesAlone ==
  ~mishap =>
    /\ \A p, q \in Processes : saving[p] /\ saving[q] => p = q
    /\ (\E p \in Processes : saving[p]) => file.state = "empty"
    /\ file.state \in {"empty", "broken"} => \E p \in Processes : saving[p]

IInv ==
  StartTyped /\ BridgeTyped /\ ClientsOnly /\ CopiesMatch /\ SavesAlone

-----------------------------------------------------------------------------
(* What the helpers of the model do. *)

\* The configurations and files that are written down in the model have their types.
LEMMA Constructors ==
  /\ Blank \in Config /\ Matches(Blank)
  /\ \A s \in {"absent", "empty", "whole", "broken"} :
       File(s) \in Files /\ File(s).state = s /\ Matches(File(s).config)
  /\ \A c \in Config :
       Whole(c) \in Files /\ Whole(c).state = "whole" /\ Whole(c).config = c
  BY DEF Blank, Config, File, Files, Whole, Matches

\* A process that ends keeps the types and leaves nothing that does not match.
LEMMA EndsKeeps ==
  ASSUME StartTyped, NEW p \in Processes, Ends(p)
  PROVE  /\ stage' \in [Processes -> Stages] /\ stage'[p] = "off"
         /\ \A q \in Processes \ {p} : stage'[q] = stage[q]
         /\ kind' \in [Processes -> StartKinds] /\ override' \in [Processes -> BOOLEAN]
         /\ config' \in [Processes -> Config]
         /\ (\A q \in Processes : Matches(config[q])) => \A q \in Processes : Matches(config'[q])
<1>1. Blank \in Config /\ Matches(Blank)
  BY Constructors
<1>2. config' \in [Processes -> Config]
  BY <1>1 DEF Ends, StartTyped
<1>3. \A q \in Processes : config'[q] = IF q = p THEN Blank ELSE config[q]
  BY DEF Ends, StartTyped
<1>4. stage' \in [Processes -> Stages] /\ \A q \in Processes : stage'[q] = IF q = p THEN "off" ELSE stage[q]
  BY DEF Ends, StartTyped, Stages
<1>5. kind' \in [Processes -> StartKinds] /\ override' \in [Processes -> BOOLEAN]
  BY DEF Ends, StartTyped, StartKinds
<1> QED
  BY <1>1, <1>2, <1>3, <1>4, <1>5

\* Opening the file for a save.
LEMMA OpenKeeps ==
  ASSUME StartTyped, NEW p \in Processes, Open(p)
  PROVE  /\ file' \in Files /\ Matches(file'.config) /\ mishap' \in BOOLEAN
         /\ saving' \in [Processes -> BOOLEAN]
         /\ SavesAlone => SavesAlone'
<1>1. file' \in Files /\ Matches(file'.config) /\ file'.state = "empty"
  BY Constructors DEF Open
<1>2. saving' \in [Processes -> BOOLEAN]
      /\ \A q \in Processes : saving'[q] = (IF q = p THEN TRUE ELSE saving[q])
  BY DEF Open, StartTyped
<1>3. mishap' \in BOOLEAN
  BY DEF Open, StartTyped
<1>4. ASSUME SavesAlone, ~mishap' PROVE SavesAlone'
  <2>1. ~mishap /\ \A q \in Processes : ~saving[q]
    BY <1>4 DEF Open
  <2>2. \A q \in Processes : saving'[q] => q = p
    BY <1>2, <2>1
  <2> QED
    BY <1>1, <1>2, <2>2 DEF SavesAlone
<1>5. mishap' => SavesAlone'
  BY DEF SavesAlone
<1> QED
  BY <1>1, <1>2, <1>3, <1>4, <1>5

-----------------------------------------------------------------------------
(* The file and the copies in memory. *)

\* A file that is written holds the writer's copy, or nothing that can be read.
LEMMA WrittenKeeps ==
  ASSUME StartTyped, CopiesMatch, NEW p \in Processes,
         file' \in Written(config[p]) \cup {file, File("broken")}
  PROVE  file' \in Files /\ Matches(file'.config)
<1>1. config[p] \in Config /\ Matches(config[p])
  BY DEF StartTyped, CopiesMatch
<1>2. file' \in {Whole(config[p]), File("broken"), file}
  BY DEF Written
<1> QED
  BY <1>1, <1>2, Constructors DEF StartTyped, CopiesMatch

\* A complete save ends the time in which the file cannot be read.
LEMMA WriteFileKeeps ==
  ASSUME StartTyped, CopiesMatch, SavesAlone, NEW p \in Processes, WriteFile(p)
  PROVE  StartTyped' /\ CopiesMatch' /\ SavesAlone'
<1>1. file' \in Files /\ Matches(file'.config)
  BY WrittenKeeps DEF WriteFile
<1>2. \A q \in Processes : saving'[q] = IF q = p THEN FALSE ELSE saving[q]
  BY DEF WriteFile, StartTyped
<1>3. StartTyped'
  BY <1>1 DEF WriteFile, StartTyped, Stages
<1>4. CopiesMatch'
  BY <1>1 DEF WriteFile, CopiesMatch, Matches
<1>5. ASSUME ~mishap' PROVE SavesAlone'
  <2>1. ~mishap /\ file.state = "empty" /\ \A q \in Processes : saving[q] => q = p
    BY <1>5 DEF WriteFile, SavesAlone
  <2>2. file' = Whole(config[p])
    BY <2>1 DEF WriteFile, Written
  <2>3. file'.state = "whole"
    BY <2>2, Constructors DEF StartTyped
  <2> QED
    BY <1>2, <2>1, <2>3 DEF SavesAlone
<1> QED
  BY <1>3, <1>4, <1>5 DEF SavesAlone

\* A save that fails is a mishap.
LEMMA WriteFailsKeeps ==
  ASSUME StartTyped, CopiesMatch, NEW p \in Processes, WriteFails(p)
  PROVE  StartTyped' /\ CopiesMatch' /\ SavesAlone'
<1>1. file' \in Files /\ Matches(file'.config) /\ mishap' = TRUE
  BY WrittenKeeps DEF WriteFails
<1>2. saving' \in [Processes -> BOOLEAN]
  BY DEF WriteFails, StartTyped
<1>3. SavesAlone'
  BY <1>1 DEF SavesAlone
<1>4. CASE Ends(p)
  BY <1>1, <1>2, <1>3, <1>4, EndsKeeps DEF StartTyped, CopiesMatch
<1>5. CASE UNCHANGED <<stage, startVars, config>>
  BY <1>1, <1>2, <1>3, <1>5 DEF StartTyped, CopiesMatch, Matches
<1> QED
  BY <1>4, <1>5 DEF WriteFails

\* A process starts with a copy of the file, named if it had no name.
LEMMA StartKeeps ==
  ASSUME StartTyped, CopiesMatch, SavesAlone, NEW p \in Processes, Start(p)
  PROVE  StartTyped' /\ CopiesMatch' /\ SavesAlone'
<1> USE ProcessesAssumption DEF ProcessesAssumption
<1>1. PICK o \in Overrides :
        LET known == file.config.device # None
            named == [file.config EXCEPT !.device = IF o THEN EnvDevice ELSE p]
        IN /\ override' = [override EXCEPT ![p] = o]
           /\ config' = [config EXCEPT ![p] = IF known THEN file.config ELSE named]
           /\ stage' = [stage EXCEPT ![p] = IF known \/ o THEN "checking" ELSE "naming"]
  BY DEF Start
<1> DEFINE named == [file.config EXCEPT !.device = IF o THEN EnvDevice ELSE p]
<1>2. file.config \in Config /\ Matches(file.config)
  BY DEF StartTyped, Files, CopiesMatch
<1>3. named \in Config
  BY <1>2 DEF Config, Devices
<1>4. file.config.device = None => Matches(named)
  BY <1>2 DEF Matches, Config
<1>5. PICK c \in Config : config' = [config EXCEPT ![p] = c] /\ Matches(c)
  BY <1>1, <1>2, <1>3, <1>4
<1>6. kind' \in [Processes -> StartKinds]
  BY DEF Start, StartTyped
<1>7. override' \in [Processes -> BOOLEAN]
  BY <1>1 DEF StartTyped
<1>8. stage' \in [Processes -> Stages]
  BY <1>1 DEF StartTyped, Stages
<1>9. UNCHANGED <<file, mishap, saving>>
  BY DEF Start
<1> QED
  BY <1>5, <1>6, <1>7, <1>8, <1>9 DEF StartTyped, CopiesMatch, SavesAlone, Matches

\* The first save of a generated identity.
LEMMA NameKeeps ==
  ASSUME StartTyped, CopiesMatch, SavesAlone, NEW p \in Processes, Name(p)
  PROVE  StartTyped' /\ CopiesMatch' /\ SavesAlone'
<1>1. CASE Open(p) /\ UNCHANGED <<stage, startVars, config>>
  BY <1>1, OpenKeeps DEF StartTyped, CopiesMatch, Matches
<1>2. CASE Ends(p) /\ UNCHANGED <<file, saving, mishap>>
  BY <1>2, EndsKeeps DEF StartTyped, CopiesMatch, SavesAlone
<1> QED
  BY <1>1, <1>2 DEF Name

\* A process that ends, or goes on without touching the file.
LEMMA CheckKeeps ==
  ASSUME StartTyped, CopiesMatch, SavesAlone, NEW p \in Processes,
         BecomeClient(p) \/ HandOver(p) \/ CheckFails(p) \/ Forward(p)
  PROVE  StartTyped' /\ CopiesMatch' /\ SavesAlone'
<1>1. UNCHANGED <<file, mishap, saving>>
  BY DEF BecomeClient, HandOver, CheckFails, Forward
<1>2. SavesAlone'
  BY <1>1 DEF SavesAlone
<1>3. CASE Ends(p)
  BY <1>1, <1>2, <1>3, EndsKeeps DEF StartTyped, CopiesMatch
<1>4. CASE BecomeClient(p)
  BY <1>1, <1>2, <1>4 DEF BecomeClient, StartTyped, Stages, StartKinds, CopiesMatch, Matches
<1>5. CASE HandOver(p) /\ ~Ends(p)
  BY <1>1, <1>2, <1>5 DEF HandOver, StartTyped, Stages, CopiesMatch, Matches
<1> QED
  BY <1>3, <1>4, <1>5 DEF CheckFails, Forward

\* The copy of a client changes in its credential only, and is saved as it is.
LEMMA ClientSaveKeeps ==
  ASSUME StartTyped, CopiesMatch, SavesAlone, NEW p \in Processes,
         Approve(p) \/ Reject(p) \/ Remember(p)
  PROVE  StartTyped' /\ CopiesMatch' /\ SavesAlone'
<1>1. UNCHANGED <<stage, startVars>> /\ Save(p)
  BY DEF Approve, Reject, Remember
<1>2. config' \in [Processes -> Config] /\ \A q \in Processes : Matches(config'[q])
  <2>1. config[p] \in Config /\ Matches(config[p])
    BY DEF StartTyped, CopiesMatch
  <2>2. CASE Approve(p)
    <3>1. Device(p) \in Devices \cup {None} /\ Device(p) \in {config[p].device, EnvDevice}
      BY <2>1 DEF Device, Config, Devices
    <3> DEFINE c == [config[p] EXCEPT !.credential = Device(p)]
    <3>2. c \in Config /\ Matches(c)
      BY <2>1, <3>1 DEF Config, Matches
    <3>3. config' = [config EXCEPT ![p] = c]
      BY <2>2 DEF Approve
    <3> QED
      BY <3>2, <3>3 DEF StartTyped, CopiesMatch
  <2>3. CASE Reject(p)
    <3> DEFINE c == [config[p] EXCEPT !.credential = None]
    <3>1. c \in Config /\ Matches(c)
      BY <2>1 DEF Config, Matches
    <3>2. config' = [config EXCEPT ![p] = c]
      BY <2>3 DEF Reject
    <3> QED
      BY <3>1, <3>2 DEF StartTyped, CopiesMatch
  <2>4. CASE Remember(p)
    BY <2>4 DEF Remember, StartTyped, CopiesMatch
  <2> QED
    BY <2>2, <2>3, <2>4
<1>3. CASE Open(p)
  BY <1>1, <1>2, <1>3, OpenKeeps DEF StartTyped, CopiesMatch
<1>4. CASE UNCHANGED <<file, saving, mishap>>
  BY <1>1, <1>2, <1>4 DEF StartTyped, CopiesMatch, SavesAlone
<1> QED
  BY <1>1, <1>3, <1>4 DEF Save

\* A process that dies in the middle of a save is a mishap.
LEMMA DieKeepsFile ==
  ASSUME StartTyped, CopiesMatch, SavesAlone, NEW p \in Processes, Die(p)
  PROVE  StartTyped' /\ CopiesMatch' /\ SavesAlone'
<1>1. \A q \in Processes : saving'[q] = IF q = p THEN FALSE ELSE saving[q]
  BY DEF Die, StartTyped
<1>2. saving' \in [Processes -> BOOLEAN] /\ mishap' \in BOOLEAN
  BY DEF Die, StartTyped
<1>3. file' = file /\ Ends(p)
  BY DEF Die
<1>4. ASSUME ~mishap' PROVE SavesAlone'
  <2>1. ~mishap /\ ~saving[p]
    BY <1>4 DEF Die
  <2>2. \A q \in Processes : saving'[q] <=> saving[q]
    BY <1>1, <2>1
  <2> QED
    BY <1>3, <2>1, <2>2 DEF SavesAlone
<1>5. SavesAlone'
  BY <1>4 DEF SavesAlone
<1> QED
  BY <1>2, <1>3, <1>5, EndsKeeps DEF StartTyped, CopiesMatch

\* Every step keeps what concerns the file.
LEMMA FileStep ==
  ASSUME IInv, [Next]_vars
  PROVE  StartTyped' /\ CopiesMatch' /\ SavesAlone'
<1> USE DEF IInv
<1>1. ASSUME UNCHANGED <<diskVars, stage, startVars>>
      PROVE  StartTyped' /\ CopiesMatch' /\ SavesAlone'
  BY <1>1 DEF StartTyped, CopiesMatch, SavesAlone, Matches
<1>2. ASSUME NEW p \in Processes,
             Connect(p) \/ Disconnect(p) \/ TakeLaunch(p) \/ Bind(p)
      PROVE  UNCHANGED <<diskVars, stage, startVars>>
  BY <1>2 DEF Connect, Disconnect, TakeLaunch, Bind
<1>3. CloseListener \/ UNCHANGED vars => UNCHANGED <<diskVars, stage, startVars>>
  BY DEF CloseListener, vars
<1> QED
  BY <1>1, <1>2, <1>3, StartKeeps, NameKeeps, WriteFileKeeps, WriteFailsKeeps, CheckKeeps,
     ClientSaveKeeps, DieKeepsFile DEF Next

-----------------------------------------------------------------------------
(* Connections, bridges and launches. *)

BridgeInv == BridgeTyped /\ ClientsOnly

\* Steps that leave the bridges alone and stop no client keep all that.
LEMMA NoBridgeStep ==
  ASSUME BridgeInv, UNCHANGED <<bridgeVars, queue>>,
         \A p \in Processes : stage[p] = "client" => stage'[p] = "client"
  PROVE  BridgeInv'
<1>1. BridgeTyped'
  BY DEF BridgeInv, BridgeTyped
<1>2. ClientsOnly'
  BY DEF BridgeInv, ClientsOnly
<1> QED
  BY <1>1, <1>2 DEF BridgeInv

\* Only processes that are no clients end in these steps.
LEMMA OthersKeepBridges ==
  ASSUME StartTyped, BridgeInv, NEW p \in Processes,
         \/ Start(p) \/ Name(p) \/ WriteFile(p) \/ WriteFails(p) \/ BecomeClient(p)
         \/ HandOver(p) \/ CheckFails(p) \/ Approve(p) \/ Reject(p) \/ Remember(p)
  PROVE  BridgeInv'
<1>1. UNCHANGED <<bridgeVars, queue>>
  BY DEF Start, Name, WriteFile, WriteFails, BecomeClient, HandOver, CheckFails, Approve,
     Reject, Remember
<1>2. ASSUME NEW q \in Processes, stage[q] = "client"
      PROVE  stage'[q] = "client"
  <2>1. CASE Ends(p) /\ stage[p] # "client"
    BY <1>2, <2>1, EndsKeeps
  <2>2. CASE UNCHANGED stage
    BY <1>2, <2>2
  <2>3. CASE Start(p) \/ WriteFile(p) \/ BecomeClient(p)
    BY <1>2, <2>3 DEF Start, WriteFile, BecomeClient, StartTyped
  <2>4. CASE HandOver(p) /\ ~Ends(p)
    BY <1>2, <2>4 DEF HandOver, StartTyped
  <2> QED
    BY <2>1, <2>2, <2>3, <2>4
       DEF Name, WriteFails, HandOver, CheckFails, Approve, Reject, Remember
<1> QED
  BY <1>1, <1>2, NoBridgeStep

\* What a port may be.
LEMMA PortValues ==
  /\ Free.by = None /\ None \notin Processes
  /\ \A q \in Processes, b \in BOOLEAN :
       /\ [by |-> q, live |-> b].by = q /\ [by |-> q, live |-> b] # Free
       /\ [by |-> q, live |-> b] \in [by : Processes, live : BOOLEAN]
  BY ProcessesAssumption DEF ProcessesAssumption, Free, Devices

\* Cancelling a connection leaves the port to the same process.
LEMMA CancelledKeepsHolder ==
  ASSUME BridgeTyped, NEW p \in Processes
  PROVE  /\ Cancelled(p) \in {Free} \cup [by : Processes, live : BOOLEAN]
         /\ Cancelled(p).by = port.by
  BY PortValues DEF BridgeTyped, Cancelled

\* A connection is opened or closed by a client.
LEMMA ConnectionKeepsBridges ==
  ASSUME StartTyped, BridgeInv, NEW p \in Processes,
         Connect(p) \/ Disconnect(p) \/ TakeLaunch(p)
  PROVE  BridgeInv'
<1> USE DEF BridgeInv
<1>1. stage[p] = "client" /\ UNCHANGED stage /\ port' = Cancelled(p)
  BY DEF Connect, Disconnect, TakeLaunch, NewConnection, Idle
<1>2. port' \in {Free} \cup [by : Processes, live : BOOLEAN] /\ port'.by = port.by
  BY <1>1, CancelledKeepsHolder
<1>3. tries' \in [Processes -> 0..Attempts]
  BY ProcessesAssumption
     DEF ProcessesAssumption, Connect, Disconnect, TakeLaunch, NewConnection, BridgeTyped
<1>4. PICK b \in BOOLEAN : online' = [online EXCEPT ![p] = b]
  BY DEF Connect, Disconnect, TakeLaunch, NewConnection
<1>5. /\ queue' \in [Processes -> 0..LaunchCap]
      /\ \A q \in Processes \ {p} : queue'[q] = queue[q]
  <2>1. CASE TakeLaunch(p)
    BY <2>1 DEF TakeLaunch, BridgeTyped
  <2>2. CASE UNCHANGED queue
    BY <2>2 DEF BridgeTyped
  <2> QED
    BY <2>1, <2>2 DEF Connect, Disconnect
<1>6. online' \in [Processes -> BOOLEAN] /\ \A q \in Processes \ {p} : online'[q] = online[q]
  BY <1>4 DEF BridgeTyped
<1>7. ClientsOnly'
  BY <1>1, <1>2, <1>5, <1>6 DEF ClientsOnly
<1> QED
  BY <1>2, <1>3, <1>5, <1>6, <1>7 DEF BridgeTyped

\* A launch is put in the queue of the client that listens.
LEMMA ForwardKeepsBridges ==
  ASSUME StartTyped, BridgeInv, NEW p \in Processes, Forward(p)
  PROVE  BridgeInv'
<1> USE DEF BridgeInv
<1>1. /\ stage[p] = "forwarding" /\ UNCHANGED bridgeVars
      /\ \A q \in Processes : stage[q] = "client" => stage'[q] = "client"
  BY EndsKeeps DEF Forward
<1>2. CASE UNCHANGED queue
  BY <1>1, <1>2, NoBridgeStep
<1>3. CASE port # Free /\ queue[port.by] < LaunchCap
  <2>1. port.by \in Processes
    BY <1>3 DEF BridgeTyped
  <2>2. stage[port.by] = "client"
    BY <2>1 DEF ClientsOnly
  <2>3. /\ queue' = [queue EXCEPT ![port.by] = @ + 1]
    BY <1>3 DEF Forward
  <2>4. BridgeTyped'
    BY <1>1, <1>3, <2>1, <2>3 DEF BridgeTyped
  <2>5. ClientsOnly'
    BY <1>1, <2>1, <2>2, <2>3 DEF ClientsOnly, BridgeTyped
  <2> QED
    BY <2>4, <2>5
<1> QED
  BY <1>2, <1>3 DEF Forward

\* A dead process leaves nothing behind but the file.
LEMMA DieKeepsBridges ==
  ASSUME StartTyped, BridgeInv, NEW p \in Processes, Die(p)
  PROVE  BridgeInv'
<1> USE DEF BridgeInv
<1>1. BridgeTyped'
  BY ProcessesAssumption
     DEF ProcessesAssumption, Die, BridgeTyped
<1>2. port'.by # p /\ \A q \in Processes : port'.by = q => port.by = q
  BY PortValues DEF Die
<1>3. /\ ~online'[p] /\ queue'[p] = 0
      /\ \A q \in Processes \ {p} : online'[q] = online[q] /\ queue'[q] = queue[q]
  BY DEF Die, BridgeTyped
<1>4. \A q \in Processes \ {p} : stage'[q] = stage[q]
  BY EndsKeeps DEF Die
<1>5. ClientsOnly'
  BY <1>2, <1>3, <1>4 DEF ClientsOnly
<1> QED
  BY <1>1, <1>5

\* The bridge binds its port, or counts one more failure.
LEMMA BindKeepsBridges ==
  ASSUME StartTyped, BridgeInv, NEW p \in Processes, Bind(p)
  PROVE  BridgeInv'
<1> USE DEF BridgeInv
<1>1. UNCHANGED <<stage, online, queue>> /\ online[p] /\ tries[p] < Attempts
  BY DEF Bind
<1>2. stage[p] = "client"
  BY <1>1 DEF ClientsOnly
<1>3. CASE port' = [by |-> p, live |-> TRUE] /\ UNCHANGED tries
  <2>1. port' \in {Free} \cup [by : Processes, live : BOOLEAN] /\ port'.by = p
    BY <1>3, PortValues
  <2> QED
    BY <1>1, <1>2, <1>3, <2>1 DEF BridgeTyped, ClientsOnly
<1>4. CASE tries' = [tries EXCEPT ![p] = @ + 1] /\ UNCHANGED port
  <2>1. tries' \in [Processes -> 0..Attempts]
    BY <1>1, <1>4, ProcessesAssumption DEF ProcessesAssumption, BridgeTyped
  <2> QED
    BY <1>1, <1>4, <2>1 DEF BridgeTyped, ClientsOnly
<1> QED
  BY <1>3, <1>4 DEF Bind

\* The invariant holds in every reachable state.
LEMMA InvariantCorrect == Spec => []IInv
<1> USE DEF IInv
<1>1. ASSUME Init PROVE IInv
  <2>1. file \in Files /\ Matches(file.config) /\ file.state \in {"absent", "whole"}
    <3>1. file \in {File("absent"), Whole(Blank)}
      BY <1>1, ProcessesAssumption DEF Init, ProcessesAssumption
    <3>2. File("absent") \in Files /\ File("absent").state = "absent"
          /\ Matches(File("absent").config)
      BY Constructors
    <3>3. Whole(Blank) \in Files /\ Whole(Blank).state = "whole" /\ Matches(Whole(Blank).config)
      BY Constructors
    <3> QED
      BY <3>1, <3>2, <3>3
  <2>2. StartTyped /\ CopiesMatch
    BY <1>1, <2>1, Constructors DEF Init, StartTyped, Stages, StartKinds, CopiesMatch
  <2>3. SavesAlone
    BY <1>1, <2>1 DEF Init, SavesAlone
  <2>4. BridgeTyped
    BY <1>1, ProcessesAssumption
       DEF Init, BridgeTyped, ProcessesAssumption
  <2>5. ClientsOnly
    BY <1>1, PortValues DEF Init, ClientsOnly
  <2> QED
    BY <2>2, <2>3, <2>4, <2>5
<1>2. ASSUME IInv, [Next]_vars PROVE IInv'
  <2>1. BridgeInv
    BY <1>2 DEF BridgeInv
  <2>2. ASSUME CloseListener PROVE BridgeInv'
    BY <2>1, <2>2, PortValues
       DEF CloseListener, BridgeInv, BridgeTyped, ClientsOnly
  <2>3. ASSUME UNCHANGED vars PROVE BridgeInv'
    BY <2>1, <2>3, NoBridgeStep DEF vars
  <2>4. BridgeInv'
    BY <1>2, <2>1, <2>2, <2>3, OthersKeepBridges, ConnectionKeepsBridges, ForwardKeepsBridges,
       DieKeepsBridges, BindKeepsBridges DEF Next
  <2> QED
    BY <1>2, <2>4, FileStep DEF BridgeInv
<1> QED
  BY <1>1, <1>2, PTL DEF Spec

-----------------------------------------------------------------------------
(* The properties. *)

\* The variables keep their types, and only a client is online, listens or is
\* handed launches.
THEOREM TypeCorrect == Spec => []TypeOK
<1>1. IInv => TypeOK
  BY DEF IInv, StartTyped, Stages, BridgeTyped, ClientsOnly, TypeOK
<1> QED
  BY <1>1, InvariantCorrect, PTL

\* The credential in the file belongs to the identity in the file or to that of
\* the environment, however many processes write their copies.
THEOREM CredentialCorrect == Spec => []CredentialIsForDevice
<1>1. IInv => CredentialIsForDevice
  BY DEF IInv, CopiesMatch, Matches, CredentialIsForDevice
<1> QED
  BY <1>1, InvariantCorrect, PTL

\* Complete saves that do not overlap never leave a file that cannot be read.
THEOREM FileCorrect == Spec => []BrokenFileHasCause
<1>1. IInv => BrokenFileHasCause
  BY DEF IInv, SavesAlone, BrokenFileHasCause
<1> QED
  BY <1>1, InvariantCorrect, PTL

\* With two attempts or more, a bridge is given up only to another running client.
THEOREM BridgeCorrect == Spec => BridgeYieldsToClient
<1> DEFINE Yields(p) == tries'[p] = Attempts /\ tries[p] # Attempts
                          => port.live /\ port.by \in Running \ {p}
<1>1. ASSUME IInv, [Next]_vars, NEW p \in Processes
      PROVE  Yields(p)
  <2> USE <1>1 DEF IInv
  <2>1. ASSUME NEW q \in Processes, Bind(q), tries'[p] = Attempts, tries[p] # Attempts
        PROVE  port.live /\ port.by \in Running \ {p}
    <3>1. q = p /\ tries'[p] = tries[p] + 1 /\ port # Free /\ (port.live \/ tries[p] = 0)
          /\ ~Up(p)
      BY <2>1 DEF Bind, BridgeTyped
    <3>2. tries[p] # 0 /\ port.live
      BY <2>1, <3>1, ProcessesAssumption DEF ProcessesAssumption
    <3>3. port \in [by : Processes, live : BOOLEAN]
      BY <3>1 DEF BridgeTyped
    <3>4. port.by # p
      BY <3>1, <3>2, <3>3 DEF Up
    <3> QED
      BY <3>2, <3>3, <3>4 DEF ClientsOnly
  <2>2. ASSUME NEW q \in Processes,
               Connect(q) \/ Disconnect(q) \/ TakeLaunch(q) \/ Die(q)
        PROVE  tries'[p] = Attempts => tries[p] = Attempts
    BY <2>2, ProcessesAssumption
       DEF ProcessesAssumption, Connect, Disconnect, TakeLaunch, NewConnection, Die, BridgeTyped
  <2>3. ASSUME NEW q \in Processes,
               \/ Start(q) \/ Name(q) \/ WriteFile(q) \/ WriteFails(q) \/ BecomeClient(q)
               \/ HandOver(q) \/ CheckFails(q) \/ Forward(q) \/ Approve(q) \/ Reject(q)
               \/ Remember(q)
        PROVE  tries' = tries
    BY <2>3 DEF Start, Name, WriteFile, WriteFails, BecomeClient, HandOver, CheckFails, Forward,
       Approve, Reject, Remember
  <2>4. CloseListener \/ UNCHANGED vars => tries' = tries
    BY DEF CloseListener, vars
  <2> QED
    BY <2>1, <2>2, <2>3, <2>4 DEF Next
<1>2. IInv /\ [Next]_vars => [\A p \in Processes : Yields(p)]_vars
  BY <1>1
<1> QED
  BY <1>2, InvariantCorrect, PTL DEF Spec, BridgeYieldsToClient
=============================================================================
