----------------------------- MODULE Connection -----------------------------
(***************************************************************************)
(* The package networkconnection, with the calls Shmoose makes to it:      *)
(* ConnectionHandler, the 30 seconds of ReConnectionHandler and the        *)
(* heartbeat of IpHeartBeatWatcher (every 20 minutes; a QTimer where the   *)
(* program is not built for Sailfish OS).                                  *)
(*                                                                         *)
(* Swift::Client and the network are external.  A session is "stale" when  *)
(* its network has gone without anybody noticing, and "failing" when       *)
(* something was sent on it since, so that TCP will notice.                *)
(***************************************************************************)
EXTENDS Naturals

CONSTANTS SFOS,         \* built for Sailfish OS
          MaxTrouble    \* bound: how often the network or the user interferes

ASSUME ConnectionAssumption == SFOS \in BOOLEAN /\ MaxTrouble \in Nat

VARIABLES client,       \* Swift::Client
          connected,    \* connected_
          initialConnectionSuccessfull,
          hasInetConnection,
          appIsActive,
          activated,    \* ReConnectionHandler::activated_
          timer,        \* its timer: "off", "on", "beat" if a heartbeat started it
          inetSignal,   \* the value signalHasInetConnection last carried
          byUser,       \* history: the user ended the last session
          trouble       \* how often the environment has interfered

handler == <<connected, initialConnectionSuccessfull, hasInetConnection,
             appIsActive, activated, timer, inetSignal>>
vars == <<client, handler, byUser, trouble>>

ClientState == {"none", "idle", "connecting", "up", "stale", "failing"}
Active == client \in {"connecting", "up", "stale", "failing"}   \* isActive()
InSession == client \in {"up", "stale", "failing"}

Init == /\ client = "none"
        /\ connected = FALSE
        /\ initialConnectionSuccessfull = FALSE
        /\ hasInetConnection = FALSE
        /\ appIsActive = FALSE
        /\ activated = FALSE
        /\ timer = "off"
        /\ inetSignal = "none"
        /\ byUser = FALSE
        /\ trouble = 0

Interferes == trouble < MaxTrouble /\ trouble' = trouble + 1

-----------------------------------------------------------------------------
(* Faulty variant: the timer also starts before the first login. *)
TimerAlways(inet, started) == IF inet THEN started ELSE "off"

(* ReConnectionHandler::isConnected: start or stop the timer. *)
TimerAfter(inet, started) ==
    IF ~activated THEN timer ELSE IF inet THEN started ELSE "off"

(* Faulty variant: an error does not start the timer. *)
HandleErrorSilently ==
    /\ connected' = FALSE
    /\ UNCHANGED <<initialConnectionSuccessfull, hasInetConnection, appIsActive,
                   activated, timer, inetSignal>>

(* handleDisconnected, with an error *)
HandleDisconnectedByError ==
    /\ connected' = FALSE
    /\ timer' = IF initialConnectionSuccessfull
                THEN TimerAfter(hasInetConnection, "on") ELSE timer
    /\ UNCHANGED <<initialConnectionSuccessfull, hasInetConnection, appIsActive,
                   activated, inetSignal>>

(* Faulty variant: a reconnect is not noted. *)
HandleFirstConnectedOnly ==
    /\ client = "connecting" /\ hasInetConnection
    /\ client' = "up"
    /\ connected' = (connected \/ ~initialConnectionSuccessfull)
    /\ initialConnectionSuccessfull' = TRUE
    /\ activated' = TRUE
    /\ byUser' = FALSE
    /\ UNCHANGED <<hasInetConnection, appIsActive, timer, inetSignal, trouble>>

(* handleConnected.  The presence and the carbons request that follow      *)
(* change no state.                                                        *)
HandleConnected ==
    /\ client = "connecting" /\ hasInetConnection
    /\ client' = "up"
    /\ connected' = TRUE
    /\ initialConnectionSuccessfull' = TRUE
    /\ activated' = TRUE
    /\ byUser' = FALSE
    /\ UNCHANGED <<hasInetConnection, appIsActive, timer, inetSignal, trouble>>

(* A connection attempt that fails: for want of a network, or otherwise.   *)
ConnectFails ==
    /\ client = "connecting"
    /\ IF hasInetConnection THEN Interferes ELSE UNCHANGED trouble
    /\ client' = "idle"
    /\ byUser' = FALSE
    /\ HandleDisconnectedByError

(* The server or the network ends the session, and the client notices. *)
SessionEnds ==
    /\ \/ client = "up" /\ Interferes
       \/ client = "failing" /\ UNCHANGED trouble
    /\ client' = "idle"
    /\ byUser' = FALSE
    /\ HandleDisconnectedByError

(* The session's network goes without a trace. *)
SessionStalls ==
    /\ client = "up" /\ Interferes
    /\ client' = "stale"
    /\ UNCHANGED <<handler, byUser>>

-----------------------------------------------------------------------------
(* tryReconnect: disconnect, then connect.  The client drops the old       *)
(* session while it starts the new one, so that handleDisconnected may or  *)
(* may not be called for it, without an error.  That it is not called      *)
(* later, for a session already forgotten, is an assumption about the      *)
(* client of the library.                                                  *)
TryReconnect ==
    /\ timer # "off"
    /\ timer' = "off"
    /\ IF initialConnectionSuccessfull /\ hasInetConnection
       THEN /\ client' = "connecting"
            /\ connected' \in {connected, FALSE}
            /\ byUser' = FALSE
       ELSE UNCHANGED <<client, connected, byUser>>
    /\ UNCHANGED <<initialConnectionSuccessfull, hasInetConnection, appIsActive,
                   activated, inetSignal, trouble>>

(* Faulty variant: there is nothing but the ping. *)
HeartBeatOnlyPings ==
    /\ client # "none" /\ timer # "beat" /\ client # "connecting"
    /\ IF hasInetConnection /\ Active
       THEN client' = IF client = "stale" THEN "failing" ELSE client
       ELSE UNCHANGED client
    /\ UNCHANGED <<handler, byUser, trouble>>

(* tryStablishServerConnection.  It comes so rarely that the timer it      *)
(* started, and the connection attempt after it, have ended before.        *)
TryStablishServerConnection ==
    /\ client # "none" /\ timer # "beat" /\ client # "connecting"
    /\ IF hasInetConnection /\ Active /\ ~(SFOS /\ appIsActive)
       THEN /\ client' = IF client = "stale" THEN "failing" ELSE client
            /\ UNCHANGED timer
       ELSE /\ timer' = TimerAfter(hasInetConnection, "beat")
            /\ UNCHANGED client
    /\ UNCHANGED <<connected, initialConnectionSuccessfull, hasInetConnection,
                   appIsActive, activated, inetSignal, byUser, trouble>>

(* setHasInetConnection, which the ui calls when a network technology      *)
(* changes: the network an existing session uses may have gone, and has,   *)
(* if there is no other.                                                   *)
SetHasInetConnection(inet) ==
    /\ Interferes
    /\ hasInetConnection' = inet
    /\ timer' = TimerAfter(inet, "on")
    /\ inetSignal' = "false"
    /\ \/ client' = IF InSession THEN "stale" ELSE client
       \/ inet /\ UNCHANGED client
    /\ UNCHANGED <<connected, initialConnectionSuccessfull, appIsActive,
                   activated, byUser>>

AppGetsActive(active) ==
    /\ appIsActive' = active /\ active # appIsActive
    /\ UNCHANGED <<client, connected, initialConnectionSuccessfull,
                   hasInetConnection, activated, timer, inetSignal, byUser, trouble>>

-----------------------------------------------------------------------------
(* Shmoose::mainConnect: the login page offers it while no session or      *)
(* attempt exists and none has succeeded.                                  *)
MainConnect ==
    /\ client \in {"none", "idle"} /\ ~initialConnectionSuccessfull
    /\ client' = "connecting"
    /\ byUser' = FALSE
    /\ IF SFOS THEN UNCHANGED <<hasInetConnection, timer, inetSignal>>
       ELSE /\ hasInetConnection' = TRUE
            /\ timer' = TimerAfter(TRUE, "on")
            /\ inetSignal' = "false"
    /\ UNCHANGED <<connected, initialConnectionSuccessfull, appIsActive,
                   activated, trouble>>

(* Shmoose::mainDisconnect: handleDisconnected is called without an error. *)
MainDisconnect ==
    /\ connected /\ Active /\ Interferes
    /\ client' = "idle" /\ connected' = FALSE
    /\ byUser' = TRUE
    /\ UNCHANGED <<initialConnectionSuccessfull, hasInetConnection, appIsActive,
                   activated, timer, inetSignal>>

(* Shmoose::reConnect *)
ReConnect ==
    /\ client # "none" /\ Interferes
    /\ client' = "connecting"
    /\ byUser' = FALSE
    /\ UNCHANGED handler

Next == \/ HandleConnected
        \/ ConnectFails
        \/ SessionEnds
        \/ SessionStalls
        \/ TryReconnect
        \/ TryStablishServerConnection
        \/ \E inet \in BOOLEAN : SetHasInetConnection(inet)
        \/ \E active \in BOOLEAN : AppGetsActive(active)
        \/ MainConnect
        \/ MainDisconnect
        \/ ReConnect

Spec == Init /\ [][Next]_vars

(* The timers of Qt and of the system come; an attempt for which there is  *)
(* a network ends, and so does one without; TCP gives a failing session    *)
(* up.  Nothing is assumed of the user.                                    *)
FairSpec == /\ Spec
            /\ WF_vars(HandleConnected) /\ WF_vars(ConnectFails)
            /\ WF_vars(client = "failing" /\ SessionEnds)
            /\ WF_vars(TryReconnect)
            /\ WF_vars(TryStablishServerConnection)

-----------------------------------------------------------------------------
(* The types; the timer does not run before the first login. *)
TypeOK == /\ client \in ClientState
          /\ connected \in BOOLEAN
          /\ initialConnectionSuccessfull \in BOOLEAN
          /\ hasInetConnection \in BOOLEAN
          /\ appIsActive \in BOOLEAN
          /\ activated \in BOOLEAN
          /\ timer \in {"off", "on", "beat"}
          /\ inetSignal \in {"none", "false", "true"}
          /\ byUser \in BOOLEAN
          /\ trouble \in 0 .. MaxTrouble
          /\ activated = initialConnectionSuccessfull
          /\ timer # "off" => activated

(* After the first login, a client that has lost its session or failed to  *)
(* get one, and has a network, waits for the timer, in whatever order the  *)
(* errors and the changes of the network came.                             *)
RetryIsPending ==
    initialConnectionSuccessfull /\ hasInetConnection /\ client = "idle" /\ ~byUser
    => timer # "off"

(* A session in use is never shown as none (connectionState), not even     *)
(* when the client has dropped the session before it.                      *)
SessionIsShown == InSession => connected

(* After the first login the client always gets a session again, once      *)
(* there is a network: from an error, a dead session nobody noticed, or a  *)
(* disconnect.                                                             *)
Recovers ==
    initialConnectionSuccessfull /\ client # "up"
    ~> client = "up" \/ ~hasInetConnection

(* "Connection wont be droped if app is in use": the client does not end a *)
(* working session while the app is active.                                *)
KeptWhileInUse ==
    [][SFOS /\ appIsActive /\ client = "up" /\ client' = "connecting"
       => trouble' # trouble]_vars

(* "signalHasInetConnection(true) will be send in                          *)
(* ConnectionHandler::handleConnected()".                                  *)
ConnectedIsSignalled ==
    [][~connected /\ connected' => inetSignal' = "true"]_vars

=============================================================================
