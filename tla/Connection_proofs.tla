-------------------------- MODULE Connection_proofs --------------------------
(***************************************************************************)
(* Proofs about Connection, for both builds and however often the network  *)
(* and the user interfere.                                                 *)
(***************************************************************************)
EXTENDS Connection, TLAPS

-----------------------------------------------------------------------------
(* The timer: as isConnected leaves it.                                    *)

LEMMA TimerType ==
  ASSUME TypeOK, NEW inet \in BOOLEAN, NEW started \in {"on", "beat"}
  PROVE  /\ TimerAfter(inet, started) \in {"off", "on", "beat"}
         /\ TimerAfter(inet, started) # "off" => activated
BY DEF TimerAfter, TypeOK

LEMMA ErrorType ==
  ASSUME TypeOK, HandleDisconnectedByError
  PROVE  /\ connected' = FALSE
         /\ timer' \in {"off", "on", "beat"} /\ (timer' # "off" => activated)
         /\ initialConnectionSuccessfull /\ hasInetConnection => timer' # "off"
BY TimerType DEF HandleDisconnectedByError, TimerAfter, TypeOK

LEMMA TypeInit == Init => TypeOK
<1>1. Init => trouble \in 0 .. MaxTrouble
  BY ConnectionAssumption DEF ConnectionAssumption, Init
<1>2. Init => activated = initialConnectionSuccessfull
  BY DEF Init
<1>3. QED
  BY <1>1, <1>2 DEF Init, TypeOK, ClientState

LEMMA TypeStep == TypeOK /\ [Next]_vars => TypeOK'
<1> SUFFICES ASSUME TypeOK, [Next]_vars PROVE TypeOK'
  OBVIOUS
<1> USE ConnectionAssumption DEF ConnectionAssumption
<1>1. CASE HandleConnected
  BY <1>1 DEF HandleConnected, TypeOK, ClientState
<1>2. CASE ConnectFails
  <2>1. trouble' \in 0 .. MaxTrouble
    BY <1>2 DEF ConnectFails, Interferes, TypeOK
  <2>2. QED
    BY <1>2, <2>1, ErrorType
       DEF ConnectFails, HandleDisconnectedByError, TypeOK, ClientState
<1>3. CASE SessionEnds
  <2>1. trouble' \in 0 .. MaxTrouble
    BY <1>3 DEF SessionEnds, Interferes, TypeOK
  <2>2. QED
    BY <1>3, <2>1, ErrorType
       DEF SessionEnds, HandleDisconnectedByError, TypeOK, ClientState
<1>4. CASE SessionStalls
  BY <1>4 DEF SessionStalls, Interferes, handler, TypeOK, ClientState
<1>5. CASE TryReconnect
  BY <1>5 DEF TryReconnect, TypeOK, ClientState
<1>6. CASE TryStablishServerConnection
  BY <1>6, TimerType DEF TryStablishServerConnection, TypeOK, ClientState
<1>7. ASSUME NEW inet \in BOOLEAN, SetHasInetConnection(inet)
      PROVE  TypeOK'
  BY <1>7, TimerType DEF SetHasInetConnection, Interferes, TypeOK, ClientState
<1>8. ASSUME NEW active \in BOOLEAN, AppGetsActive(active)
      PROVE  TypeOK'
  BY <1>8 DEF AppGetsActive, TypeOK
<1>9. CASE MainConnect
  BY <1>9, TimerType DEF MainConnect, TypeOK, ClientState
<1>10. CASE MainDisconnect
  <2>1. trouble' \in 0 .. MaxTrouble
    BY <1>10 DEF MainDisconnect, Interferes, TypeOK
  <2>2. QED
    BY <1>10, <2>1 DEF MainDisconnect, TypeOK, ClientState
<1>11. CASE ReConnect
  <2>1. trouble' \in 0 .. MaxTrouble
    BY <1>11 DEF ReConnect, Interferes, TypeOK
  <2>2. QED
    BY <1>11, <2>1 DEF ReConnect, handler, TypeOK, ClientState
<1>12. CASE UNCHANGED vars
  BY <1>12 DEF vars, handler, TypeOK
<1>13. QED
  BY <1>1, <1>2, <1>3, <1>4, <1>5, <1>6, <1>7, <1>8, <1>9, <1>10, <1>11, <1>12
     DEF Next

(* Every variable keeps its type; the timer runs only after a login.       *)
THEOREM TypeCorrect == Spec => []TypeOK
BY TypeInit, TypeStep, PTL DEF Spec

-----------------------------------------------------------------------------
(* RetryIsPending is inductive with the types: whatever makes a session    *)
(* end leaves the timer running or has no network, and what stops the      *)
(* timer starts an attempt or tells that the network is gone.              *)

LEMMA RetryStep == TypeOK /\ RetryIsPending /\ [Next]_vars => RetryIsPending'
<1> SUFFICES ASSUME TypeOK, RetryIsPending, [Next]_vars PROVE RetryIsPending'
  OBVIOUS
<1>1. CASE HandleConnected
  BY <1>1 DEF HandleConnected, RetryIsPending
<1>2. CASE ConnectFails
  BY <1>2, ErrorType DEF ConnectFails, HandleDisconnectedByError, RetryIsPending
<1>3. CASE SessionEnds
  BY <1>3, ErrorType DEF SessionEnds, HandleDisconnectedByError, RetryIsPending
<1>4. CASE SessionStalls
  BY <1>4 DEF SessionStalls, handler, RetryIsPending
<1>5. CASE TryReconnect
  BY <1>5 DEF TryReconnect, RetryIsPending
<1>6. CASE TryStablishServerConnection
  <2>1. client' = "idle" => client = "idle"
    BY <1>6 DEF TryStablishServerConnection
  <2>2. hasInetConnection => timer' = timer \/ timer' = "beat"
    BY <1>6 DEF TryStablishServerConnection, TimerAfter, TypeOK
  <2>3. QED
    BY <1>6, <2>1, <2>2 DEF TryStablishServerConnection, RetryIsPending
<1>7. ASSUME NEW inet \in BOOLEAN, SetHasInetConnection(inet)
      PROVE  RetryIsPending'
  BY <1>7 DEF SetHasInetConnection, TimerAfter, InSession, TypeOK, RetryIsPending
<1>8. ASSUME NEW active \in BOOLEAN, AppGetsActive(active)
      PROVE  RetryIsPending'
  BY <1>8 DEF AppGetsActive, RetryIsPending
<1>9. CASE MainConnect
  BY <1>9 DEF MainConnect, RetryIsPending
<1>10. CASE MainDisconnect
  BY <1>10 DEF MainDisconnect, RetryIsPending
<1>11. CASE ReConnect
  BY <1>11 DEF ReConnect, RetryIsPending
<1>12. CASE UNCHANGED vars
  BY <1>12 DEF vars, handler, RetryIsPending
<1>13. QED
  BY <1>1, <1>2, <1>3, <1>4, <1>5, <1>6, <1>7, <1>8, <1>9, <1>10, <1>11, <1>12
     DEF Next

(* After the first login, a client without a session that has a network    *)
(* always has its timer running.                                           *)
THEOREM RetryAlwaysPending == Spec => []RetryIsPending
<1>1. Init => RetryIsPending
  BY DEF Init, RetryIsPending
<1>2. QED
  BY <1>1, TypeInit, TypeStep, RetryStep, PTL DEF Spec

-----------------------------------------------------------------------------
LEMMA ShownStep == SessionIsShown /\ [Next]_vars => SessionIsShown'
<1> SUFFICES ASSUME SessionIsShown, [Next]_vars PROVE SessionIsShown'
  OBVIOUS
<1>1. CASE \/ HandleConnected \/ ConnectFails \/ SessionEnds \/ SessionStalls
           \/ TryReconnect \/ TryStablishServerConnection
  BY <1>1 DEF HandleConnected, ConnectFails, SessionEnds, SessionStalls, TryReconnect,
     TryStablishServerConnection, HandleDisconnectedByError, handler, InSession,
     SessionIsShown
<1>2. ASSUME NEW inet \in BOOLEAN, SetHasInetConnection(inet)
      PROVE  SessionIsShown'
  BY <1>2 DEF SetHasInetConnection, InSession, SessionIsShown
<1>3. ASSUME NEW active \in BOOLEAN, AppGetsActive(active)
      PROVE  SessionIsShown'
  BY <1>3 DEF AppGetsActive, InSession, SessionIsShown
<1>4. CASE MainConnect \/ MainDisconnect \/ ReConnect
  BY <1>4 DEF MainConnect, MainDisconnect, ReConnect, handler, InSession, SessionIsShown
<1>5. CASE UNCHANGED vars
  BY <1>5 DEF vars, handler, InSession, SessionIsShown
<1>6. QED
  BY <1>1, <1>2, <1>3, <1>4, <1>5 DEF Next

(* A session the client has is never shown as none.                        *)
THEOREM SessionAlwaysShown == Spec => []SessionIsShown
<1>1. Init => SessionIsShown
  BY DEF Init, InSession, SessionIsShown
<1>2. QED
  BY <1>1, ShownStep, PTL DEF Spec

=============================================================================
