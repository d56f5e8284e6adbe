---------------------------- MODULE ClientProcesses ----------------------------
(***************************************************************************)
(* The processes started from one idata-client executable, by the user or  *)
(* by idata:// links, and the two things they share: the configuration     *)
(* file beside the executable (loadFileConfig and saveFileConfig of        *)
(* main.go) and the loopback port of the browser bridge (startBrowserBridge *)
(* and internal/browserbridge), over which a process started by a link     *)
(* hands its launch to the client that runs.  What a client does with a    *)
(* connection is Controller's; here it is only online or not.              *)
(***************************************************************************)
EXTENDS Naturals

CONSTANTS
  Processes,   \* the processes that run at the same time; each is started again and again
  None,        \* nobody, nothing
  EnvDevice,   \* the identity in IDATA_DEVICE_TOKEN, where it is set
  Kinds,       \* ways of starting explored, a subset of StartKinds
  Overrides,   \* whether IDATA_DEVICE_TOKEN is set, the cases explored
  FaultyDisk,  \* saving can fail
  FirstFiles,  \* configuration files at the beginning, a subset of Files
  Attempts     \* attempts to bind the bridge (20)

\* By hand, by a link that names a server, or by one that names none.
StartKinds == {"manual", "launch", "wake"}

\* The identity generated by a process is named after it.
Devices == Processes \cup {EnvDevice}

\* clientFileConfig: a credential is named after the device it was issued to.
Config == [device : Devices \cup {None}, credential : Devices \cup {None}]
Blank == [device |-> None, credential |-> None]

Files == [state : {"absent", "empty", "whole", "broken"}, config : Config]
File(state) == [state |-> state, config |-> Blank]
Whole(config) == [state |-> "whole", config |-> config]

ASSUME ProcessesAssumption ==
  /\ None \notin Devices /\ EnvDevice \notin Processes
  /\ Kinds \subseteq StartKinds /\ Overrides \subseteq BOOLEAN /\ FaultyDisk \in BOOLEAN
  /\ FirstFiles \subseteq {File("absent"), Whole(Blank)}
  /\ Attempts \in Nat \ {0, 1}

VARIABLES
  file,      \* idata-client.json
  mishap,    \* history: a save was cut short, or two saves overlapped
  stage,     \* per process: "off", "naming", "checking", "forwarding", "client"
  kind,      \* how it was started
  override,  \* whether IDATA_DEVICE_TOKEN is set for it
  config,    \* its fileConfig
  saving,    \* it has opened the file and not written yet
  online,    \* it has a live connection
  tries,     \* attempts that the bridge of that connection has failed
  queue,     \* launches that wait in its launchRequests
  port       \* who listens on the bridge's port, and whether for a live connection

diskVars == <<file, mishap, config, saving>>
bridgeVars == <<online, tries, port>>
startVars == <<kind, override>>
vars == <<diskVars, stage, startVars, bridgeVars, queue>>

LaunchCap == 1
Free == [by |-> None, live |-> FALSE]
Device(p) == IF override[p] THEN EnvDevice ELSE config[p].device
Running == {p \in Processes : stage[p] = "client"}

\* A process ends, with or without an error, and what it had in memory is gone.
Ends(p) ==
  /\ stage' = [stage EXCEPT ![p] = "off"]
  /\ kind' = [kind EXCEPT ![p] = "manual"]
  /\ override' = [override EXCEPT ![p] = FALSE]
  /\ config' = [config EXCEPT ![p] = Blank]

\* The event loop of a client between two events: it waits for its own save.
Idle(p) == stage[p] = "client" /\ ~saving[p]

-----------------------------------------------------------------------------
(* The configuration file: os.WriteFile opens and truncates, then writes from *)
(* the beginning.                                                          *)

\* Mutant: the file is not truncated.
OpenInPlace(p) ==
  /\ file' = IF file.state = "absent" THEN File("empty") ELSE file
  /\ saving' = [saving EXCEPT ![p] = TRUE]
  /\ mishap' = (mishap \/ \E q \in Processes : saving[q])

Open(p) ==
  /\ file' = File("empty")
  /\ saving' = [saving EXCEPT ![p] = TRUE]
  /\ mishap' = (mishap \/ \E q \in Processes : saving[q])

\* A save that cannot even open the file leaves it alone.
Save(p) == Open(p) \/ (FaultyDisk /\ UNCHANGED <<file, saving, mishap>>)

\* Over what another process has written meanwhile: a longer text shows behind ours.
Written(c) == {Whole(c)} \cup (IF file.state = "empty" THEN {} ELSE {File("broken")})

WriteFile(p) ==
  /\ saving[p]
  /\ file' \in Written(config[p])
  /\ saving' = [saving EXCEPT ![p] = FALSE]
  /\ stage' = [stage EXCEPT ![p] = IF @ = "naming" THEN "checking" ELSE @]
  /\ UNCHANGED <<mishap, config, startVars, bridgeVars, queue>>

\* The write fails, at once or after a part; at the start that is fatal.
WriteFails(p) ==
  /\ FaultyDisk /\ saving[p]
  /\ file' \in {file, File("broken")}
  /\ saving' = [saving EXCEPT ![p] = FALSE]
  /\ mishap' = TRUE
  /\ IF stage[p] = "naming" THEN Ends(p) ELSE UNCHANGED <<stage, startVars, config>>
  /\ UNCHANGED <<bridgeVars, queue>>

-----------------------------------------------------------------------------
(* The start of a process. *)

\* Load the configuration; without an identity take that of the environment or
\* generate one.  A process that finds a file it cannot parse ends at once.
Start(p) ==
  /\ stage[p] = "off" /\ file.state \in {"absent", "whole"}
  /\ kind' \in {[kind EXCEPT ![p] = k] : k \in Kinds}
  /\ \E o \in Overrides :
       LET known == file.config.device # None
           named == [file.config EXCEPT !.device = IF o THEN EnvDevice ELSE p]
       IN /\ override' = [override EXCEPT ![p] = o]
          /\ config' = [config EXCEPT ![p] = IF known THEN file.config ELSE named]
          /\ stage' = [stage EXCEPT ![p] = IF known \/ o THEN "checking" ELSE "naming"]
  /\ UNCHANGED <<file, mishap, saving, bridgeVars, queue>>

\* A generated identity is saved before anything else is done with it.
Name(p) ==
  /\ stage[p] = "naming" /\ ~saving[p]
  /\ \/ Open(p) /\ UNCHANGED <<stage, startVars, config>>
     \/ FaultyDisk /\ Ends(p) /\ UNCHANGED <<file, saving, mishap>>
  /\ UNCHANGED <<bridgeVars, queue>>

\* Only a process started by a link asks whether somebody listens.
Alone(p) == kind[p] = "manual" \/ port = Free

\* How it was started is not looked at again.
BecomeClient(p) ==
  /\ stage[p] = "checking" /\ Alone(p)
  /\ stage' = [stage EXCEPT ![p] = "client"]
  /\ kind' = [kind EXCEPT ![p] = "manual"]
  /\ UNCHANGED <<diskVars, override, bridgeVars, queue>>

HandOver(p) ==
  /\ stage[p] = "checking" /\ ~Alone(p)
  /\ IF kind[p] = "launch"
     THEN stage' = [stage EXCEPT ![p] = "forwarding"] /\ UNCHANGED <<config, startVars>>
     ELSE Ends(p)
  /\ UNCHANGED <<file, mishap, saving, bridgeVars, queue>>

\* The registration of the URL protocol or the window fails.
CheckFails(p) ==
  /\ stage[p] = "checking"
  /\ Ends(p)
  /\ UNCHANGED <<file, mishap, saving, bridgeVars, queue>>

\* ForwardLaunch: the client that listens now takes the launch, if there is a
\* place for it.  The process ends whatever comes of it.
Forward(p) ==
  /\ stage[p] = "forwarding"
  /\ Ends(p)
  /\ IF port # Free /\ queue[port.by] < LaunchCap
     THEN queue' = [queue EXCEPT ![port.by] = @ + 1]
     ELSE UNCHANGED queue
  /\ UNCHANGED <<file, mishap, saving, bridgeVars>>

-----------------------------------------------------------------------------
(* A running client. *)

\* The context of the connection is cancelled: its listener has to close.
Cancelled(p) == IF port.by = p THEN [port EXCEPT !.live = FALSE] ELSE port

NewConnection(p) ==
  /\ online' = [online EXCEPT ![p] = TRUE]
  /\ tries' = [tries EXCEPT ![p] = 0]
  /\ port' = Cancelled(p)

Connect(p) ==
  /\ Idle(p)
  /\ NewConnection(p)
  /\ UNCHANGED <<diskVars, stage, startVars, queue>>

Disconnect(p) ==
  /\ Idle(p) /\ online[p]
  /\ online' = [online EXCEPT ![p] = FALSE]
  /\ tries' = [tries EXCEPT ![p] = 0]
  /\ port' = Cancelled(p)
  /\ UNCHANGED <<diskVars, stage, startVars, queue>>

TakeLaunch(p) ==
  /\ Idle(p) /\ queue[p] > 0
  /\ NewConnection(p)
  /\ queue' = [queue EXCEPT ![p] = @ - 1]
  /\ UNCHANGED <<diskVars, stage, startVars>>

\* Mutant: the credential is put into what the file holds now.
ApproveInFile(p) ==
  /\ Idle(p) /\ online[p] /\ config[p].credential = None
  /\ config' = [config EXCEPT ![p] = [device |-> IF file.config.device = None THEN @.device
                                                 ELSE file.config.device,
                                      credential |-> Device(p)]]
  /\ Save(p)
  /\ UNCHANGED <<stage, startVars, bridgeVars, queue>>

\* The server issues a credential for the device in use ...
Approve(p) ==
  /\ Idle(p) /\ online[p] /\ config[p].credential = None
  /\ config' = [config EXCEPT ![p].credential = Device(p)]
  /\ Save(p)
  /\ UNCHANGED <<stage, startVars, bridgeVars, queue>>

\* ... or refuses the one presented.
Reject(p) ==
  /\ Idle(p) /\ online[p] /\ config[p].credential # None
  /\ config' = [config EXCEPT ![p].credential = None]
  /\ Save(p)
  /\ UNCHANGED <<stage, startVars, bridgeVars, queue>>

\* The server address is remembered once it was reached.
Remember(p) ==
  /\ Idle(p) /\ online[p]
  /\ Save(p)
  /\ UNCHANGED <<config, stage, startVars, bridgeVars, queue>>

\* A process is killed at any time, or a client is closed.
Die(p) ==
  /\ stage[p] # "off"
  /\ Ends(p)
  /\ saving' = [saving EXCEPT ![p] = FALSE]
  /\ mishap' = (mishap \/ saving[p])
  /\ online' = [online EXCEPT ![p] = FALSE]
  /\ tries' = [tries EXCEPT ![p] = 0]
  /\ queue' = [queue EXCEPT ![p] = 0]
  /\ port' = IF port.by = p THEN Free ELSE port
  /\ UNCHANGED file

-----------------------------------------------------------------------------
(* The bridge of a connection: startBrowserBridge and Bridge.Run. *)

Up(p) == port = [by |-> p, live |-> TRUE]

\* Mutant: one attempt only.
BindOnce(p) ==
  /\ online[p] /\ ~Up(p) /\ tries[p] < Attempts
  /\ IF port = Free
     THEN port' = [by |-> p, live |-> TRUE] /\ UNCHANGED tries
     ELSE tries' = [tries EXCEPT ![p] = Attempts] /\ UNCHANGED port
  /\ UNCHANGED <<diskVars, stage, startVars, online, queue>>

\* Mutant: one attempt too many.
BindOnceMore(p) ==
  /\ online[p] /\ ~Up(p) /\ tries[p] <= Attempts
  /\ \/ /\ port = Free
        /\ port' = [by |-> p, live |-> TRUE] /\ UNCHANGED tries
     \/ /\ port # Free /\ (port.live \/ tries[p] = 0)
        /\ tries' = [tries EXCEPT ![p] = @ + 1] /\ UNCHANGED port
  /\ UNCHANGED <<diskVars, stage, startVars, online, queue>>

\* Attempts are 100 ms apart: a listener that has to close is in the way of the
\* first one only.
Bind(p) ==
  /\ online[p] /\ ~Up(p) /\ tries[p] < Attempts
  /\ \/ /\ port = Free
        /\ port' = [by |-> p, live |-> TRUE] /\ UNCHANGED tries
     \/ /\ port # Free /\ (port.live \/ tries[p] = 0)
        /\ tries' = [tries EXCEPT ![p] = @ + 1] /\ UNCHANGED port
  /\ UNCHANGED <<diskVars, stage, startVars, online, queue>>

\* Shutdown, in a goroutine of its own.
CloseListener ==
  /\ port # Free /\ ~port.live
  /\ port' = Free
  /\ UNCHANGED <<diskVars, stage, startVars, online, tries, queue>>

-----------------------------------------------------------------------------
Init ==
  /\ file \in FirstFiles /\ mishap = FALSE
  /\ stage = [p \in Processes |-> "off"]
  /\ kind = [p \in Processes |-> "manual"]
  /\ override = [p \in Processes |-> FALSE]
  /\ config = [p \in Processes |-> Blank]
  /\ saving = [p \in Processes |-> FALSE]
  /\ online = [p \in Processes |-> FALSE]
  /\ tries = [p \in Processes |-> 0]
  /\ queue = [p \in Processes |-> 0]
  /\ port = Free

Next ==
  \/ \E p \in Processes :
       \/ Start(p) \/ Name(p) \/ WriteFile(p) \/ WriteFails(p)
       \/ BecomeClient(p) \/ HandOver(p) \/ CheckFails(p) \/ Forward(p)
       \/ Connect(p) \/ Disconnect(p) \/ TakeLaunch(p)
       \/ Approve(p) \/ Reject(p) \/ Remember(p) \/ Die(p) \/ Bind(p)
  \/ CloseListener

Spec == Init /\ [][Next]_vars

-----------------------------------------------------------------------------
(* Properties. *)

\* Types; only a client is online, listens or has a launch waiting.
TypeOK ==
  /\ file \in Files /\ mishap \in BOOLEAN
  /\ stage \in [Processes -> {"off", "naming", "checking", "forwarding", "client"}]
  /\ kind \in [Processes -> StartKinds] /\ override \in [Processes -> BOOLEAN]
  /\ config \in [Processes -> Config]
  /\ saving \in [Processes -> BOOLEAN] /\ online \in [Processes -> BOOLEAN]
  /\ tries \in [Processes -> 0..Attempts]
  /\ queue \in [Processes -> 0..LaunchCap]
  /\ port \in {Free} \cup [by : Processes, live : BOOLEAN]
  /\ \A p \in Processes \ Running : ~online[p] /\ queue[p] = 0 /\ port.by # p

\* The credential in the file was issued to the identity in the same file, or to
\* the one of the environment, however many processes write their copies.
CredentialIsForDevice ==
  file.state = "whole" /\ file.config.credential # None
    => file.config.credential \in {file.config.device, EnvDevice}

\* The file is unreadable only while it is being saved, or since a save was cut
\* short or met another one: no sequence of complete saves leaves it so.
BrokenFileHasCause ==
  file.state \in {"empty", "broken"} => mishap \/ \E p \in Processes : saving[p]

\* A connection goes without a bridge only because another running client holds the
\* port, never because of the listener of a former connection.
BridgeYieldsToClient ==
  [][\A p \in Processes :
       tries'[p] = Attempts /\ tries[p] # Attempts
         => port.live /\ port.by \in Running \ {p}]_vars

\* A process started by a link does not become a second client beside one that
\* runs (README: it hands over and exits, there is no second agent connection).
LaunchYields ==
  [][\A p \in Processes : BecomeClient(p) /\ kind[p] # "manual" => Running = {}]_vars
=============================================================================
