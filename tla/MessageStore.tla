---------------------------- MODULE MessageStore ----------------------------
(***************************************************************************)
(* The component persistence: Persistence and its MessageController,       *)
(* SessionController and GcmController over one sqlite database.           *)
(*                                                                         *)
(* Every caller runs in the one Qt event loop, so an operation is one      *)
(* step; what is not settled is the order of the operations and where the  *)
(* program ends and is started again: between two operations, or between   *)
(* the two statements of those that commit two.  sqlite's tables outlive   *)
(* that, everything else does not.                                         *)
(***************************************************************************)
EXTENDS MessageTable, FiniteSets

CONSTANTS Members,    \* nicknames of room members
          NoJid,      \* the empty QString: no chat is open
          MaxUnread   \* bound: largest unread number of a session

ASSUME StoreAssumption == /\ NoJid \notin Jids
                          /\ MaxUnread \in Nat

VARIABLES messages,        \* table messages
          sessions,        \* table sessions: jid -> unreadmessages
          markers,         \* table groupchatmarkers: <<id, member>> -> msgstate, 0 if no row
          valid,           \* Persistence::persistenceValid_
          chatPartner,     \* Persistence::currentChatPartner_
          sessionPartner   \* SessionController::currentChatPartner_

vars == <<messages, sessions, markers, valid, chatPartner, sessionPartner>>

Init == /\ messages = EmptyTable
        /\ sessions = EmptyTable
        /\ markers = [m \in Ids \X Members |-> 0]
        /\ valid = FALSE
        /\ chatPartner = NoJid
        /\ sessionPartner = NoJid

-----------------------------------------------------------------------------
(* The sessions table *)

UnreadOf(s, jid) == IF jid \in DOMAIN s THEN s[jid] ELSE 0

(* updateSession: REPLACE of the jid's row; outgoing messages count too. *)
UpdateSession(s, jid, partner) ==
    [j \in DOMAIN s \cup {jid} |->
        IF j # jid THEN s[j]
        ELSE IF jid = partner THEN UnreadOf(s, jid) ELSE UnreadOf(s, jid) + 1]

(* updateNumberOfUnreadMessages: UPDATE, which adds no row. *)
UpdateNumberOfUnreadMessages(s, jid, n) ==
    [j \in DOMAIN s |-> IF j = jid THEN n ELSE s[j]]

RemoveSession(s, jid) == [j \in DOMAIN s \ {jid} |-> s[j]]

(* The bounds, for an operation that adds a message to jid. *)
MayGrow(t, s, jid) == NextRow(t) <= MaxRow /\ UnreadOf(s, jid) < MaxUnread

-----------------------------------------------------------------------------
(* Persistence *)

(* openDatabaseForJid, when the database opens; when it does not, nothing  *)
(* changes.  mainConnect calls it, so it may run again at a later login.   *)
OpenDatabaseForJid ==
    /\ messages' = FailInterruptedUploads(messages)
    /\ valid' = TRUE
    /\ UNCHANGED <<sessions, markers, chatPartner, sessionPartner>>

(* addMessage: the session is updated only when the message is new. *)
PersistMessage(id, jid, direction, time) ==
    /\ valid
    /\ MayGrow(messages, sessions, jid)
    /\ messages' = AddMessage(messages, id, jid, direction, time)
    /\ sessions' = IF IsMessageIdForJid(messages, id, jid) THEN sessions
                   ELSE UpdateSession(sessions, jid, sessionPartner)
    /\ UNCHANGED <<markers, valid, chatPartner, sessionPartner>>

(* addMessage without its second statement: a new message is inserted and  *)
(* committed, its session is not written.                                  *)
InsertOnly(id, jid, direction, time) ==
    /\ valid
    /\ NextRow(messages) <= MaxRow
    /\ ~ IsMessageIdForJid(messages, id, jid)
    /\ messages' = AddMessage(messages, id, jid, direction, time)
    /\ UNCHANGED <<sessions, markers>>

(* updateSession pastes the text into its REPLACE: for a text with a       *)
(* quotation mark sqlite refuses the statement, which is only logged.      *)
PersistQuotedMessage(id, jid, direction, time) ==
    /\ InsertOnly(id, jid, direction, time)
    /\ UNCHANGED <<valid, chatPartner, sessionPartner>>

(* removeMessage: the session keeps its unread number. *)
ForgetMessage(id, jid) ==
    /\ valid
    /\ messages' = RemoveMessage(messages, id, jid)
    /\ UNCHANGED <<sessions, markers, valid, chatPartner, sessionPartner>>

(* The six markMessage... operations, one for each state but DEFAULT. *)
MarkMessage(id, state) ==
    /\ valid
    /\ messages' = SetMessageStateOfId(messages, id, state)
    /\ UNCHANGED <<sessions, markers, valid, chatPartner, sessionPartner>>

(* Faulty variant: the chat that is left is the one that counts as read. *)
SetCurrentChatPartnerReadsOld(jid) ==
    /\ chatPartner' = jid
    /\ IF valid
       THEN /\ sessionPartner' = jid
            /\ sessions' = UpdateNumberOfUnreadMessages(sessions, sessionPartner, 0)
       ELSE UNCHANGED <<sessionPartner, sessions>>
    /\ UNCHANGED <<messages, markers, valid>>

(* setCurrentChatPartner: Persistence notes the jid even before the        *)
(* database is open, the session controller only afterwards.               *)
SetCurrentChatPartner(jid) ==
    /\ chatPartner' = jid
    /\ IF valid
       THEN /\ sessionPartner' = jid
            /\ sessions' = UpdateNumberOfUnreadMessages(sessions, jid, 0)
       ELSE UNCHANGED <<sessionPartner, sessions>>
    /\ UNCHANGED <<messages, markers, valid>>

(* markGroupMessageReceivedByMember: only if the member has no mark yet. *)
MarkGroupMessageReceivedByMember(id, member) ==
    /\ valid
    /\ markers' = IF markers[<<id, member>>] < 1
                  THEN [markers EXCEPT ![<<id, member>>] = 1]
                  ELSE markers
    /\ UNCHANGED <<messages, sessions, valid, chatPartner, sessionPartner>>

MarkGroupMessageDisplayedByMember(id, member) ==
    /\ valid
    /\ markers' = [markers EXCEPT ![<<id, member>>] = 2]
    /\ UNCHANGED <<messages, sessions, valid, chatPartner, sessionPartner>>

(* removeConversation: the marks of the members stay. *)
RemoveConversation(jid) ==
    /\ valid
    /\ messages' = RemoveMessagesFromJid(messages, jid)
    /\ sessions' = RemoveSession(sessions, jid)
    /\ UNCHANGED <<markers, valid, chatPartner, sessionPartner>>

(* The program ends, in whatever way, and is started again: the members of *)
(* the freshly constructed Persistence and SessionController.              *)
Ended ==
    /\ valid' = FALSE
    /\ chatPartner' = NoJid
    /\ sessionPartner' = NoJid

Restart == Ended /\ UNCHANGED <<messages, sessions, markers>>

(* It ends in addMessage: the INSERT is committed, the session's REPLACE   *)
(* is not written any more.                                                *)
EndsInPersistMessage(id, jid, direction, time) ==
    /\ InsertOnly(id, jid, direction, time)
    /\ Ended

(* It ends in removeConversation: the messages are gone, the session stays *)
(* in the list with its unread number.                                     *)
EndsInRemoveConversation(jid) ==
    /\ valid
    /\ messages' = RemoveMessagesFromJid(messages, jid)
    /\ Ended
    /\ UNCHANGED <<sessions, markers>>

Next ==
    \/ OpenDatabaseForJid
    \/ \E id \in Ids, jid \in Jids, direction \in Direction, time \in Times :
          PersistMessage(id, jid, direction, time)
    \/ \E id \in Ids, jid \in Jids, direction \in Direction, time \in Times :
          PersistQuotedMessage(id, jid, direction, time)
    \/ \E id \in Ids, jid \in Jids : ForgetMessage(id, jid)
    \/ \E id \in Ids, state \in MessageState \ {DEFAULT} : MarkMessage(id, state)
    \/ \E jid \in Jids \cup {NoJid} : SetCurrentChatPartner(jid)
    \/ \E id \in Ids, member \in Members :
          MarkGroupMessageReceivedByMember(id, member)
    \/ \E id \in Ids, member \in Members :
          MarkGroupMessageDisplayedByMember(id, member)
    \/ \E jid \in Jids : RemoveConversation(jid)
    \/ Restart
    \/ \E id \in Ids, jid \in Jids, direction \in Direction, time \in Times :
          EndsInPersistMessage(id, jid, direction, time)
    \/ \E jid \in Jids : EndsInRemoveConversation(jid)

Spec == Init /\ [][Next]_vars

-----------------------------------------------------------------------------
(* Every table and every variable has its type. *)
TypeOK == /\ IsTable(messages)
          /\ DOMAIN sessions \subseteq Jids
          /\ sessions = [j \in DOMAIN sessions |-> sessions[j]]
          /\ \A j \in DOMAIN sessions : sessions[j] \in 0 .. MaxUnread
          /\ markers \in [Ids \X Members -> 0 .. 2]
          /\ valid \in BOOLEAN
          /\ chatPartner \in Jids \cup {NoJid}
          /\ sessionPartner \in Jids \cup {NoJid}

(* A conversation never shows the same message twice, however often the    *)
(* archive, a carbon or a room history delivers it (the comment at the     *)
(* head of MessageController::addMessage).                                 *)
NoMessageTwice == HoldsEachOnce(messages)

(* Rows of different conversations may carry the same id, and every mark   *)
(* is checked against the first of them but written to all of them.  They  *)
(* still never drift apart: a row is in the state of every earlier row     *)
(* with its id, or has had no mark yet.                                    *)
SameIdSameState == AgreesById(messages)

(* A chat the user looks at counts unread messages only if it was opened   *)
(* before the database was: then only Persistence's copy of the open chat  *)
(* names it and SessionController's names none.  Once the database is open *)
(* the two copies agree, and a restart or a second login changes nothing.  *)
OnlyAnEarlyChatCounts ==
    chatPartner \in DOMAIN sessions /\ sessions[chatPartner] > 0
       => sessionPartner = NoJid

(* The messages that are in no conversation of the list: nothing shows     *)
(* them, and a second delivery is refused as a known id.                   *)
Hidden == {r \in DOMAIN messages : messages[r].jid \notin DOMAIN sessions}

(* A message becomes hidden only by its own INSERT, when the REPLACE of    *)
(* its session was refused or the program ended before it; no operation    *)
(* hides a message that was there, whatever it removes or marks.           *)
OnlyItsInsertHides ==
    [][\A r \in Hidden' : \/ r \in Hidden
                          \/ r \notin DOMAIN messages /\ sessions' = sessions]_vars

(* Not so: no message is ever hidden.                                      *)
EveryMessageHasASession == Hidden = {}

(* Not so: the open chat, as Persistence knows it, counts nothing.         *)
OpenChatHasNoUnread ==
    chatPartner \in DOMAIN sessions => sessions[chatPartner] = 0

(* Every row, not just the first one with its id, changes its state only   *)
(* as the comment above setMessageStateOfId allows.                        *)
OnlyValidStateChanges ==
    [][\A r \in DOMAIN messages \cap DOMAIN messages' :
          messages'[r].state # messages[r].state
            => ValidStateChange(messages[r].state, messages'[r].state)]_vars

(* A member's mark is never taken back ("only if msg is not already marked *)
(* as displayed", GcmController.cpp): a late receipt does not undo it.     *)
MemberMarksOnlyGrow ==
    [][\A m \in Ids \X Members : markers[m] <= markers'[m]]_vars

(* Each message of each conversation lives as MessageLife says: entered in *)
(* state DEFAULT, changed only validly, never in two states at once.       *)
LifeStatus == [m \in Ids \X Jids |-> StateOfMessage(messages, m[1], m[2])]

Life == INSTANCE MessageLife WITH status <- LifeStatus
MessagesLiveAsPromised == Life!Spec

=============================================================================
