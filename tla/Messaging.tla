----------------------------- MODULE Messaging ------------------------------
(***************************************************************************)
(* MessageHandler, ChatMarkers and the chat functions of Shmoose, over the *)
(* store: what becomes of a message this user sends, and what the client   *)
(* tells others about the messages it receives.                            *)
(*                                                                         *)
(* Each handler runs to its end in the Qt event loop and makes several     *)
(* calls of the store, so the store's operations are composed here within  *)
(* one step.  The server, the peers and the archive (XEP-0313) are the     *)
(* environment.  They may repeat a stanza (room history, archive), but     *)
(* answer only for messages they really got.                               *)
(***************************************************************************)
EXTENDS MessageTable, FiniteSets

CONSTANTS Members, NoJid, MaxUnread,    \* as in MessageStore
          OwnIds,       \* ids this client generates
          PeerIds,      \* ids of messages others send
          CarbonIds,    \* ids the user's other client generates
          Sender,       \* PeerIds -> the conversation of the message
          Groups,       \* the jids that the roster holds as rooms
          SendReadNotifications,    \* the setting
          HasArchive    \* the server answers archive queries

ASSUME MessagingAssumption ==
    /\ Ids = OwnIds \cup PeerIds \cup CarbonIds
    /\ OwnIds \cap (PeerIds \cup CarbonIds) = {}
    /\ PeerIds \cap CarbonIds = {}
    /\ Sender \in [PeerIds -> Jids]
    /\ Groups \subseteq Jids
    /\ NoJid \notin Jids /\ MaxUnread \in Nat
    /\ SendReadNotifications \in BOOLEAN /\ HasArchive \in BOOLEAN

VARIABLES messages, sessions, markers,    \* the tables, as in MessageStore
          partner,      \* currentChatPartner_ of Persistence and SessionController
          appIsActive,  \* MessageHandler::appIsActive_
          online,       \* the client has a session with the server
          unAcked,      \* unAckedMessageIds_
          stanza,       \* where the stanza of an own message is
          to,           \* history: whom an own message was sent to
          peer,         \* 0, 1, 2: no peer has it, one has received, displayed it
          reports,      \* history: displayed markers sent for a message, up to 2
          now           \* the clock, in seconds

vars == <<messages, sessions, markers, partner, appIsActive, online, unAcked,
          stanza, to, peer, reports, now>>

tables == <<messages, sessions, markers>>
environment == <<online, stanza, to, peer>>

Store == INSTANCE MessageStore
            WITH valid <- TRUE, chatPartner <- partner, sessionPartner <- partner

(* "unsent"; "wire": given to the connection; "server": the server has it; *)
(* "acked": and the client knows; "settled": the server has it, but the    *)
(* ack is lost; "lost": the connection broke first; "dropped": there was   *)
(* no connection to give it to.                                            *)
Place == {"unsent", "wire", "server", "acked", "settled", "lost", "dropped"}
AtServer(id) == stanza[id] \in {"server", "acked", "settled"}

Init == /\ messages = EmptyTable
        /\ sessions = EmptyTable
        /\ markers = [m \in Ids \X Members |-> 0]
        /\ partner = NoJid
        /\ appIsActive = TRUE
        /\ online = FALSE
        /\ unAcked = {}
        /\ stanza = [id \in OwnIds |-> "unsent"]
        /\ to = [id \in OwnIds |-> NoJid]
        /\ peer = [id \in OwnIds |-> 0]
        /\ reports = [id \in Ids |-> 0]
        /\ now \in Times /\ \A t \in Times : now <= t

-----------------------------------------------------------------------------
(* Persistence::addMessage, for the table of sessions. *)
SessionsWith(id, jid) ==
    IF IsMessageIdForJid(messages, id, jid) THEN sessions
    ELSE Store!UpdateSession(sessions, jid, partner)

MayGrow(jid) == Store!MayGrow(messages, sessions, jid)

Min2(n) == IF n < 2 THEN n ELSE 2

(* Faulty variant: the message that was reported is not marked. *)
SendDisplayedUnmarked(t, jid) ==
    /\ messages' = t
    /\ LET newest == IF SendReadNotifications THEN NewestReceivedRows(t, jid) ELSE {}
       IN  \/ /\ newest = {} \/ \E r \in newest : t[r].state = DISPLAYED_CONFIRMED
              /\ UNCHANGED reports
           \/ \E r \in newest :
                 /\ t[r].state # DISPLAYED_CONFIRMED
                 /\ reports' = [reports EXCEPT ![t[r].id] = Min2(@ + 1)]

(* sendDisplayedForJid of MessageHandler and ChatMarkers, on a table t:    *)
(* the newest message received from jid is reported as displayed and       *)
(* marked, unless it is marked already.  Whether the client is online is   *)
(* not asked.                                                              *)
SendDisplayedForJid(t, jid) ==
    LET newest == IF SendReadNotifications THEN NewestReceivedRows(t, jid) ELSE {}
    IN  \/ /\ newest = {} \/ \E r \in newest : t[r].state = DISPLAYED_CONFIRMED
           /\ messages' = t
           /\ UNCHANGED reports
        \/ \E r \in newest :
              /\ t[r].state # DISPLAYED_CONFIRMED
              /\ messages' = SetMessageStateOfId(t, t[r].id, DISPLAYED_CONFIRMED)
              /\ reports' = [reports EXCEPT ![t[r].id] = Min2(@ + 1)]

-----------------------------------------------------------------------------
(* The user *)

(* Faulty variant: the id is not remembered for the ack. *)
SendMessageUnlisted(id, jid) ==
    /\ stanza[id] = "unsent" /\ MayGrow(jid)
    /\ stanza' = [stanza EXCEPT ![id] = IF online THEN "wire" ELSE "dropped"]
    /\ to' = [to EXCEPT ![id] = jid]
    /\ messages' = AddMessage(messages, id, jid, "out", now)
    /\ sessions' = SessionsWith(id, jid)
    /\ UNCHANGED <<markers, partner, appIsActive, online, unAcked, peer, reports, now>>

(* Shmoose::sendMessage, MessageHandler::sendMessage of a plain text: the  *)
(* stanza goes to the connection, which drops it when there is none; the   *)
(* row and the id to wait for are added in any case.                       *)
SendMessage(id, jid) ==
    /\ stanza[id] = "unsent" /\ MayGrow(jid)
    /\ stanza' = [stanza EXCEPT ![id] = IF online THEN "wire" ELSE "dropped"]
    /\ to' = [to EXCEPT ![id] = jid]
    /\ messages' = AddMessage(messages, id, jid, "out", now)
    /\ sessions' = SessionsWith(id, jid)
    /\ unAcked' = unAcked \cup {id}
    /\ UNCHANGED <<markers, partner, appIsActive, online, peer, reports, now>>

(* Faulty variant: opening a chat does not report what is in it. *)
SetCurrentChatPartnerSilently(jid) ==
    /\ partner' = jid
    /\ sessions' = Store!UpdateNumberOfUnreadMessages(sessions, jid, 0)
    /\ UNCHANGED <<messages, reports, markers, appIsActive, environment, unAcked, now>>

(* Shmoose::setCurrentChatPartner, which calls sendReadNotification(true). *)
SetCurrentChatPartner(jid) ==
    /\ partner' = jid
    /\ sessions' = Store!UpdateNumberOfUnreadMessages(sessions, jid, 0)
    /\ IF jid = NoJid THEN UNCHANGED <<messages, reports>>
       ELSE SendDisplayedForJid(messages, jid)
    /\ UNCHANGED <<markers, appIsActive, environment, unAcked, now>>

(* setAppIsActive: the signal goes to sendReadNotification, then to        *)
(* slotAppGetsActive.                                                      *)
AppGetsActive(active) ==
    /\ IF active /\ partner # NoJid THEN SendDisplayedForJid(messages, partner)
       ELSE UNCHANGED <<messages, reports>>
    /\ appIsActive' = active
    /\ UNCHANGED <<sessions, markers, partner, environment, unAcked, now>>

(* Persistence::removeConversation.  What is received again later is, for  *)
(* the client, a message it never reported.                                *)
RemoveConversation(jid) ==
    /\ messages' = RemoveMessagesFromJid(messages, jid)
    /\ sessions' = Store!RemoveSession(sessions, jid)
    /\ reports' = [id \in Ids |-> IF IsMessageIdForJid(messages, id, jid)
                                  THEN 0 ELSE reports[id]]
    /\ UNCHANGED <<markers, partner, appIsActive, environment, unAcked, now>>

-----------------------------------------------------------------------------
(* What the server delivers *)

(* Faulty variant: the ack is taken for everything that waits. *)
StanzaAckedForAll(id) ==
    /\ online /\ stanza[id] = "server"
    /\ stanza' = [stanza EXCEPT ![id] = "acked"]
    /\ messages' = [r \in DOMAIN messages |->
                       IF messages[r].id \in unAcked /\ messages[r].state = DEFAULT
                       THEN [messages[r] EXCEPT !.state = SENT] ELSE messages[r]]
    /\ unAcked' = {}
    /\ UNCHANGED <<sessions, markers, partner, appIsActive, online, to, peer, reports, now>>

(* handleStanzaAcked *)
HandleStanzaAcked(id) ==
    /\ online /\ stanza[id] = "server"
    /\ stanza' = [stanza EXCEPT ![id] = "acked"]
    /\ IF id \in unAcked
       THEN /\ unAcked' = unAcked \ {id}
            /\ messages' = SetMessageStateOfId(messages, id, SENT)
       ELSE UNCHANGED <<unAcked, messages>>
    /\ UNCHANGED <<sessions, markers, partner, appIsActive, online, to, peer, reports, now>>

(* Faulty variant: whatever arrives is reported. *)
ReceiveFromAlwaysRead(id, jid) ==
    /\ online /\ MayGrow(jid)
    /\ sessions' = SessionsWith(id, jid)
    /\ SendDisplayedForJid(AddMessage(messages, id, jid, "in", now), jid)
    /\ UNCHANGED <<markers, partner, appIsActive, environment, unAcked, now>>

(* handleMessageReceived of a body, directly or as the carbon of a         *)
(* received message.  It is reported as displayed at once if its chat is   *)
(* open and the app is active.  The answer to a receipt request changes    *)
(* nothing here.                                                           *)
ReceiveFrom(id, jid) ==
    /\ online /\ MayGrow(jid)
    /\ sessions' = SessionsWith(id, jid)
    /\ LET t == AddMessage(messages, id, jid, "in", now)
       IN  IF partner = jid /\ appIsActive THEN SendDisplayedForJid(t, jid)
           ELSE messages' = t /\ UNCHANGED reports
    /\ UNCHANGED <<markers, partner, appIsActive, environment, unAcked, now>>

HandleMessageReceived(id) == ReceiveFrom(id, Sender[id])

(* A room sends a message to everyone, its author included. *)
HandleOwnGroupMessage(id) ==
    /\ to[id] \in Groups /\ AtServer(id)
    /\ ReceiveFrom(id, to[id])

(* handleMessageReceived of the carbon of a message that the user's other  *)
(* client sent to jid.  The sender it compares with the open chat is the   *)
(* user, so nothing is reported.                                           *)
HandleSentCarbon(id, jid) ==
    /\ online /\ MayGrow(jid)
    /\ messages' = AddMessage(messages, id, jid, "out", now)
    /\ sessions' = SessionsWith(id, jid)
    /\ UNCHANGED <<markers, partner, appIsActive, environment, unAcked, reports, now>>

(* ChatMarkers::handleMessageReceived of a receipt or a displayed marker:  *)
(* in a room it is the mark of a member, else it is the message's state.   *)
MarkedByMember(id, member, mark) ==
    [markers EXCEPT ![<<id, member>>] = IF mark = 1 /\ @ >= 1 THEN @ ELSE mark]

HandleMarker(id, mark) ==
    /\ online /\ mark \in 1 .. peer[id]
    /\ IF to[id] \in Groups
       THEN /\ \E member \in Members : markers' = MarkedByMember(id, member, mark)
            /\ UNCHANGED messages
       ELSE /\ messages' = SetMessageStateOfId(messages, id,
                               IF mark = 1 THEN RECEIVED ELSE DISPLAYED)
            /\ UNCHANGED markers
    /\ UNCHANGED <<sessions, partner, appIsActive, environment, unAcked, reports, now>>

-----------------------------------------------------------------------------
(* MamManager::processMamMessage *)

(* A message with a body, with the time it was sent at. *)
ProcessArchivedMessage(id, jid, direction, time) ==
    /\ online /\ HasArchive /\ time <= now /\ MayGrow(jid)
    /\ messages' = AddMessage(messages, id, jid, direction, time)
    /\ sessions' = SessionsWith(id, jid)
    /\ UNCHANGED <<markers, partner, appIsActive, environment, unAcked, reports, now>>

(* The messages the archive may hold: of others, of this client as far as  *)
(* the server has them, and of the user's other client.                    *)
InArchive ==
    {[id |-> p, jid |-> Sender[p], direction |-> "in"] : p \in PeerIds}
    \cup {[id |-> o, jid |-> to[o], direction |-> "out"] : o \in {q \in OwnIds : AtServer(q)}}
    \cup [id : CarbonIds, jid : Jids, direction : {"out"}]

ArchivedMessage(time) ==
    \E m \in InArchive : ProcessArchivedMessage(m.id, m.jid, m.direction, time)

(* A receipt or a displayed marker for a message of conversation jid: that *)
(* of a peer for an own message, or that of one of the user's clients for  *)
(* a message from a peer.  A room sends markers of type groupchat but      *)
(* hands receipts on as chat messages, which count as the peer's own.      *)
ProcessArchivedMarker(id, jid, mark) ==
    /\ online /\ HasArchive
    /\ IF jid \in Groups /\ mark = 2
       THEN /\ \E member \in Members : markers' = MarkedByMember(id, member, mark)
            /\ UNCHANGED messages
       ELSE /\ messages' = SetMessageStateOfId(messages, id,
                               IF mark = 1 THEN RECEIVED ELSE DISPLAYED)
            /\ UNCHANGED markers
    /\ UNCHANGED <<sessions, partner, appIsActive, environment, unAcked, reports, now>>

ArchivedMarker(mark) ==
    \E m \in InArchive :
       /\ m.id \in PeerIds \/ (m.id \in OwnIds /\ mark <= peer[m.id])
       /\ ProcessArchivedMarker(m.id, m.jid, mark)

-----------------------------------------------------------------------------
(* The environment *)

ServerAccepts(id) ==
    /\ stanza[id] = "wire"
    /\ stanza' = [stanza EXCEPT ![id] = "server"]
    /\ UNCHANGED <<tables, partner, appIsActive, online, unAcked, to, peer, reports, now>>

PeerGets(id) ==
    /\ AtServer(id) /\ peer[id] < 2
    /\ \E p \in peer[id] + 1 .. 2 : peer' = [peer EXCEPT ![id] = p]
    /\ UNCHANGED <<tables, partner, appIsActive, online, unAcked, stanza, to, reports, now>>

AfterDisconnect ==
    [id \in OwnIds |-> CASE stanza[id] = "wire"   -> "lost"
                         [] stanza[id] = "server" -> "settled"
                         [] OTHER                 -> stanza[id]]

Connect ==
    /\ ~online /\ online' = TRUE
    /\ UNCHANGED <<tables, partner, appIsActive, unAcked, stanza, to, peer, reports, now>>

Disconnect ==
    /\ online /\ online' = FALSE
    /\ stanza' = AfterDisconnect
    /\ UNCHANGED <<tables, partner, appIsActive, unAcked, to, peer, reports, now>>

(* The program ends and is started again, up to the opened database.  It   *)
(* ends between two handlers: what it leaves when it ends within one is in *)
(* MessageStore.                                                           *)
Restart ==
    /\ partner' = NoJid /\ appIsActive' = TRUE /\ online' = FALSE /\ unAcked' = {}
    /\ stanza' = AfterDisconnect
    /\ messages' = FailInterruptedUploads(messages)
    /\ UNCHANGED <<sessions, markers, to, peer, reports, now>>

Tick ==
    /\ now' \in Times /\ now' > now
    /\ UNCHANGED <<tables, partner, appIsActive, environment, unAcked, reports>>

-----------------------------------------------------------------------------
Next ==
    \/ \E id \in OwnIds, jid \in Jids : SendMessage(id, jid)
    \/ \E jid \in Jids \cup {NoJid} : SetCurrentChatPartner(jid)
    \/ \E active \in BOOLEAN : AppGetsActive(active)
    \/ \E jid \in Jids : RemoveConversation(jid)
    \/ \E id \in OwnIds : HandleStanzaAcked(id)
    \/ \E id \in PeerIds : HandleMessageReceived(id)
    \/ \E id \in OwnIds : HandleOwnGroupMessage(id)
    \/ \E id \in CarbonIds, jid \in Jids : HandleSentCarbon(id, jid)
    \/ \E id \in OwnIds, mark \in 1 .. 2 : HandleMarker(id, mark)
    \/ \E time \in Times : ArchivedMessage(time)
    \/ \E mark \in 1 .. 2 : ArchivedMarker(mark)
    \/ \E id \in OwnIds : ServerAccepts(id)
    \/ \E id \in OwnIds : PeerGets(id)
    \/ Connect
    \/ Disconnect
    \/ Restart
    \/ Tick

Spec == Init /\ [][Next]_vars

(* The server reads what is on a connection and acknowledges it, and the   *)
(* client connects again when it can.  Nothing is assumed of the user, the *)
(* peers or the connection's life.                                         *)
FairSpec == /\ Spec
            /\ WF_vars(Connect)
            /\ \A id \in OwnIds : /\ WF_vars(ServerAccepts(id))
                                  /\ WF_vars(HandleStanzaAcked(id))

-----------------------------------------------------------------------------
TypeOK == /\ Store!TypeOK
          /\ appIsActive \in BOOLEAN
          /\ online \in BOOLEAN
          /\ unAcked \subseteq OwnIds
          /\ stanza \in [OwnIds -> Place]
          /\ to \in [OwnIds -> Jids \cup {NoJid}]
          /\ peer \in [OwnIds -> 0 .. 2]
          /\ reports \in [Ids -> 0 .. 2]
          /\ now \in Times

(* The status the user sees of a message is never better than the truth:   *)
(* sent only if the server has it, received or displayed only if a peer    *)
(* did ("The client shall display the status of a sent message"), through  *)
(* reconnects, restarts, room echoes and repeated stanzas.                 *)
StatusIsTrue ==
    \A r \in DOMAIN messages :
       messages[r].id \in OwnIds /\ messages[r].direction = "out"
       => LET id == messages[r].id  state == messages[r].state
          IN  /\ state = SENT => AtServer(id)
              /\ state = RECEIVED => peer[id] >= 1
              /\ state = DISPLAYED => peer[id] = 2

(* Each message the user sends is delivered and shown as Delivery says:    *)
(* what is shown of it follows, in whatever order acks, receipts, markers, *)
(* echoes and the archive bring it, and is never better than the truth.    *)
Mail == [id \in OwnIds |->
            [reached |-> IF stanza[id] = "unsent" THEN -1
                         ELSE IF AtServer(id) THEN 1 + peer[id] ELSE 0,
             shown |-> StateOfMessage(messages, id, to[id])]]

Deliveries == INSTANCE Delivery WITH Messages <- OwnIds, mail <- Mail
ShownAsDelivered == Deliveries!Spec

(* "mark msg as confirmed. no further confirms of that msg": a message     *)
(* this client holds is reported as displayed at most once.                *)
ReportedOnce == \A id \in Ids : reports[id] <= 1

(* A displayed marker names a message of the open chat, received in the    *)
(* newest second that chat holds.                                          *)
OnlyTheOpenChatIsReported ==
    [][\A id \in Ids : reports'[id] > reports[id] =>
          \E r \in NewestReceivedRows(messages', partner') : messages'[r].id = id]_vars

(* While the user looks at a chat, the newest it received is reported,     *)
(* whether it arrived before the chat was opened, while it was open or     *)
(* while the app was in the background.                                    *)
OpenChatIsReported ==
    SendReadNotifications /\ partner # NoJid /\ appIsActive
    => LET newest == NewestReceivedRows(messages, partner)
       IN  newest # {} => \E r \in newest : messages[r].state = DISPLAYED_CONFIRMED

(* The number of unread messages of a conversation is at most the number   *)
(* of messages received in it.                                             *)
UnreadWereReceived ==
    \A j \in DOMAIN sessions :
       sessions[j] <= Cardinality({r \in DOMAIN messages :
                          messages[r].jid = j /\ messages[r].direction = "in"})

(* A message given to a connection that holds is shown as sent in the end, *)
(* or as something later, unless the user removes it.                      *)
AcceptedIsShown ==
    \A id \in OwnIds :
       stanza[id] = "wire" ~>
          \/ stanza[id] \in {"lost", "settled"}
          \/ stanza[id] = "acked" /\ (RowsOfId(messages, id) # {}
                                      => StateOfMessageId(messages, id) # DEFAULT)

(* "Each sent message must be guaranteed to be delivered to the receiver": *)
(* at least the server gets every message the user sent and keeps.         *)
SentIsDelivered ==
    \A id \in OwnIds :
       stanza[id] # "unsent" ~> AtServer(id) \/ RowsOfId(messages, id) = {}

=============================================================================
