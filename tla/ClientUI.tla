------------------------------- MODULE ClientUI -------------------------------
(***************************************************************************)
(* The window of config_ui_windows.go.  It runs on a thread of its own: it *)
(* sends the user's wishes to the event loop over the channel "actions",   *)
(* without ever blocking, and applies the loop's updates in order, later,  *)
(* on its own thread (walk's Synchronize).  Outside Windows there is no    *)
(* window: config_ui_other.go queues one "connect" and prints the updates. *)
(***************************************************************************)
EXTENDS ServerAddress, Sequences

CONSTANTS
  HasWindow,   \* a Windows build
  ActionCap    \* capacity of ui.actions (16; 2 outside Windows)

ASSUME WindowAssumption == HasWindow \in BOOLEAN /\ ActionCap \in Nat \ {0}

VARIABLES
  actions,      \* channel ui.actions
  updates,      \* updates handed to Synchronize and not applied yet
  panel,        \* the visible panel: "login" or "status"
  connecting,   \* ui.connecting: the login button says "cancel"
  banner,       \* text of connectedStatus on the status panel
  windowOpen    \* mainWindow.Run has not returned

uiVars == <<actions, updates, panel, connecting, banner, windowOpen>>
screenVars == <<panel, connecting, banner>>

UIAction == [action : {"connect"}, ip : Hosts] \cup [action : {"disconnect", "quit"}]
UpdateStates == {"connected", "retrying", "enrolling", "idle", "error"}

\* emit: the action is lost when the channel is full.
Emit(action) ==
  actions' = IF Len(actions) < ActionCap THEN Append(actions, action) ELSE actions

\* update: nothing is shown once the window is gone.
PendingAfter(states) ==
  IF HasWindow /\ windowOpen THEN updates \o states ELSE updates

ShowLogin ==
  /\ panel' = "login"
  /\ connecting' = FALSE
  /\ UNCHANGED banner

-----------------------------------------------------------------------------
(* What the user can click. *)

ClickConnect(ip) ==
  /\ HasWindow /\ windowOpen /\ panel = "login" /\ ~connecting
  /\ connecting' = TRUE
  /\ Emit([action |-> "connect", ip |-> ip])
  /\ UNCHANGED <<updates, panel, banner, windowOpen>>

\* "Cancel" on the login panel, "disconnect" on the status panel.
ClickDisconnect ==
  /\ HasWindow /\ windowOpen /\ (panel = "status" \/ connecting)
  /\ Emit([action |-> "disconnect"])
  /\ ShowLogin
  /\ UNCHANGED <<updates, windowOpen>>

\* Mutant: closing the window tells nobody.
CloseWindowSilently ==
  /\ HasWindow /\ windowOpen
  /\ windowOpen' = FALSE
  /\ updates' = <<>>
  /\ UNCHANGED <<actions, screenVars>>

\* Updates still waiting for the window thread are never run.
CloseWindow ==
  /\ HasWindow /\ windowOpen
  /\ Emit([action |-> "quit"])
  /\ windowOpen' = FALSE
  /\ updates' = <<>>
  /\ UNCHANGED screenVars

\* "Exit" in the menu of the tray icon leaves the window to the end of the process.
TrayExit ==
  /\ HasWindow /\ windowOpen
  /\ Emit([action |-> "quit"])
  /\ UNCHANGED <<updates, screenVars, windowOpen>>

-----------------------------------------------------------------------------
(* The closure an update runs on the window thread. *)

ApplyUpdate ==
  /\ windowOpen /\ updates # <<>>
  /\ updates' = Tail(updates)
  /\ CASE Head(updates) = "connected" ->
            panel' = "status" /\ connecting' = FALSE /\ banner' = "online"
       [] Head(updates) = "retrying" ->
            /\ banner' = IF panel = "status" THEN "retrying" ELSE banner
            /\ UNCHANGED <<panel, connecting>>
       [] Head(updates) = "enrolling" -> UNCHANGED screenVars
       [] OTHER -> ShowLogin
  /\ UNCHANGED <<actions, windowOpen>>

\* The window auto-connects to the address it starts with.
UIInit(ip) ==
  /\ actions = <<[action |-> "connect", ip |-> ip]>>
  /\ updates = <<>>
  /\ panel = "login"
  /\ connecting = HasWindow
  /\ banner = "online"
  /\ windowOpen = TRUE

UITypeOK ==
  /\ actions \in Seq(UIAction)
  /\ Len(actions) <= ActionCap
  /\ updates \in Seq(UpdateStates)
  /\ panel \in {"login", "status"}
  /\ connecting \in BOOLEAN
  /\ banner \in {"online", "retrying"}
  /\ windowOpen \in BOOLEAN
=============================================================================
