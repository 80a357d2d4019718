-------------------------- MODULE Messaging_proofs --------------------------
(***************************************************************************)
(* Proofs about Messaging, for every set of messages, conversations and    *)
(* members and every bound: the types; that what is shown of the own       *)
(* messages is what Delivery promises; what is reported as displayed; that *)
(* the handlers keep the promises of the store, and what the unread number *)
(* counts; and the way of a message to its ack.                            *)
(*                                                                         *)
(* The lemmas on the table are those of MessageStore_proofs, which extends *)
(* MessageStore and so has other variables than this module.               *)
(***************************************************************************)
EXTENDS Messaging, FiniteSetTheorems, WellFoundedInduction, TLAPS

LEMMA LeastNumber ==
  ASSUME NEW S \in SUBSET Nat, S # {}
  PROVE  \E m \in S : \A n \in S : m <= n
<1> DEFINE R == {ss \in Nat \X Nat : ss[1] < ss[2]}
<1>1. IsWellFoundedOn(R, Nat)
  BY NatLessThanWellFounded DEF OpToRel
<1>2. PICK m \in S : \A n \in S : <<n, m>> \notin R
  BY <1>1, WFMin
<1>3. \A n \in S : m <= n
  <2> TAKE n \in S
  <2>1. n \in Nat /\ m \in Nat
    OBVIOUS
  <2>2. <<n, m>> \in Nat \X Nat /\ <<n, m>>[1] = n /\ <<n, m>>[2] = m
    BY <2>1
  <2>3. ~ (n < m)
    BY <1>2, <2>2
  <2>4. QED
    BY <2>1, <2>3
<1>4. QED
  BY <1>3

LEMMA LastRow ==
  ASSUME NEW t, IsTable(t)
  PROVE  /\ NextRow(t) \in Nat \ {0}
         /\ \A r \in DOMAIN t : r < NextRow(t)
<1>1. CASE DOMAIN t = {}
  BY <1>1 DEF NextRow
<1>2. CASE DOMAIN t # {}
  <2> DEFINE Up == {MaxRow - r : r \in DOMAIN t}
  <2>1. Up \in SUBSET Nat /\ Up # {}
    BY <1>2, TableAssumption DEF IsTable
  <2>2. PICK m \in Up : \A n \in Up : m <= n
    BY <2>1, LeastNumber
  <2>3. PICK r \in DOMAIN t : m = MaxRow - r
    BY <2>2
  <2>4. \A s \in DOMAIN t : s <= r
    <3> TAKE s \in DOMAIN t
    <3>1. MaxRow - r <= MaxRow - s
      BY <2>2, <2>3
    <3>2. r \in Int /\ s \in Int
      BY DEF IsTable
    <3>3. QED
      BY <3>1, <3>2, TableAssumption
  <2>5. QED
    BY <1>2, <2>4 DEF NextRow, IsTable
<1>3. QED
  BY <1>1, <1>2

LEMMA EmptyFunction ==
  /\ DOMAIN EmptyTable = {}
  /\ EmptyTable = [r \in DOMAIN EmptyTable |-> EmptyTable[r]]
<1>1. DOMAIN EmptyTable = {}
  BY DEF EmptyTable
<1>2. [r \in {} |-> EmptyTable[r]] = [r \in {} |-> r]
  OBVIOUS
<1>3. QED
  BY <1>1, <1>2 DEF EmptyTable

LEMMA AddMessageType ==
  ASSUME NEW t, IsTable(t), NextRow(t) <= MaxRow, NEW id \in Ids, NEW jid \in Jids,
         NEW direction \in Direction, NEW time \in Times
  PROVE  IsTable(AddMessage(t, id, jid, direction, time))
<1> DEFINE row == [id |-> id, jid |-> jid, direction |-> direction,
                   state |-> DEFAULT, time |-> time]
           u == [r \in DOMAIN t \cup {NextRow(t)} |->
                    IF r = NextRow(t) THEN row ELSE t[r]]
<1>1. NextRow(t) \in 1 .. MaxRow
  BY LastRow, TableAssumption
<1>2. row \in Row
  BY DEF Row, MessageState, DEFAULT
<1>3. IsTable(u)
  <2> HIDE DEF row
  <2> QED BY <1>1, <1>2 DEF IsTable
<1>4. AddMessage(t, id, jid, direction, time) \in {t, u}
  BY DEF AddMessage
<1>5. QED
  BY <1>3, <1>4

LEMMA SetStateType ==
  ASSUME NEW t, IsTable(t), NEW id, NEW state \in MessageState
  PROVE  IsTable(SetMessageStateOfId(t, id, state))
BY DEF SetMessageStateOfId, IsTable, Row

LEMMA RemoveType ==
  ASSUME NEW t, IsTable(t), NEW id, NEW jid
  PROVE  /\ IsTable(RemoveMessage(t, id, jid))
         /\ IsTable(RemoveMessagesFromJid(t, jid))
BY DEF RemoveMessage, RemoveMessagesFromJid, IsTable

LEMMA FailUploadsType ==
  ASSUME NEW t, IsTable(t)
  PROVE  IsTable(FailInterruptedUploads(t))
BY DEF FailInterruptedUploads, IsTable, Row, MessageState, SEND_FAILED

LEMMA OperationsHoldEachOnce ==
  ASSUME NEW t, IsTable(t), HoldsEachOnce(t), NEW id, NEW jid, NEW direction,
         NEW time, NEW state
  PROVE  /\ HoldsEachOnce(AddMessage(t, id, jid, direction, time))
         /\ HoldsEachOnce(SetMessageStateOfId(t, id, state))
         /\ HoldsEachOnce(RemoveMessage(t, id, jid))
         /\ HoldsEachOnce(RemoveMessagesFromJid(t, jid))
         /\ HoldsEachOnce(FailInterruptedUploads(t))
<1>1. HoldsEachOnce(AddMessage(t, id, jid, direction, time))
  BY DEF HoldsEachOnce, AddMessage, IsMessageIdForJid
<1>2. HoldsEachOnce(SetMessageStateOfId(t, id, state))
  BY DEF HoldsEachOnce, SetMessageStateOfId, IsTable, Row
<1>3. HoldsEachOnce(FailInterruptedUploads(t))
  BY DEF HoldsEachOnce, FailInterruptedUploads, IsTable, Row
<1>4. QED
  BY <1>1, <1>2, <1>3
     DEF HoldsEachOnce, RemoveMessage, RemoveMessagesFromJid

LEMMA ShownState ==
  ASSUME NEW t, HoldsEachOnce(t), NEW r \in DOMAIN t
  PROVE  StateOfMessage(t, t[r].id, t[r].jid) = t[r].state
<1>1. \A s \in DOMAIN t : t[s].id = t[r].id /\ t[s].jid = t[r].jid <=> s = r
  BY DEF HoldsEachOnce
<1>2. QED
  BY <1>1 DEF StateOfMessage, IsMessageIdForJid

-----------------------------------------------------------------------------
(* The types.  Messaging takes the operators on sessions from an instance  *)
(* of MessageStore, whose operators on the table are those of this module. *)

LEMMA SameTable ==
  ASSUME NEW t
  PROVE  /\ Store!IsTable(t) <=> IsTable(t)
         /\ Store!NextRow(t) = NextRow(t)
BY DEF Store!IsTable, IsTable, Store!Row, Row, Store!MessageState, MessageState,
       Store!Direction, Direction, Store!NextRow, NextRow

IsSessions(s) == /\ DOMAIN s \subseteq Jids
                 /\ s = [j \in DOMAIN s |-> s[j]]
                 /\ \A j \in DOMAIN s : s[j] \in 0 .. MaxUnread

TablesOK == IsTable(messages) /\ IsSessions(sessions)
MarksOK == markers \in [Ids \X Members -> 0 .. 2]
ChatOK == /\ partner \in Jids \cup {NoJid}
          /\ appIsActive \in BOOLEAN
          /\ reports \in [Ids -> 0 .. 2]
MailOK == /\ online \in BOOLEAN
          /\ unAcked \subseteq OwnIds
          /\ stanza \in [OwnIds -> Place]
          /\ to \in [OwnIds -> Jids \cup {NoJid}]
          /\ peer \in [OwnIds -> 0 .. 2]
          /\ \A id \in OwnIds : stanza[id] # "unsent" => to[id] \in Jids
Types == TablesOK /\ MarksOK /\ ChatOK /\ MailOK /\ now \in Times

LEMMA TypesAre == (Types => TypeOK) /\ (Types' => TypeOK')
BY SameTable DEF Types, TablesOK, MarksOK, ChatOK, MailOK, TypeOK, Store!TypeOK, IsSessions

LEMMA SessionsType ==
  ASSUME NEW s, IsSessions(s), NEW jid \in Jids, NEW p
  PROVE  /\ Store!UnreadOf(s, jid) < MaxUnread => IsSessions(Store!UpdateSession(s, jid, p))
         /\ IsSessions(Store!RemoveSession(s, jid))
BY MessagingAssumption DEF MessagingAssumption, IsSessions, Store!UpdateSession,
   Store!RemoveSession, Store!UnreadOf

LEMMA ReadType ==
  ASSUME NEW s, IsSessions(s), NEW jid
  PROVE  IsSessions(Store!UpdateNumberOfUnreadMessages(s, jid, 0))
BY MessagingAssumption DEF MessagingAssumption, IsSessions, Store!UpdateNumberOfUnreadMessages

(* A message more: MayGrow keeps both tables within their bounds.          *)
LEMMA GrowType ==
  ASSUME Types, NEW id \in Ids, NEW jid \in Jids, MayGrow(jid),
         NEW direction \in Direction, NEW time \in Times
  PROVE  /\ IsTable(AddMessage(messages, id, jid, direction, time))
         /\ IsSessions(SessionsWith(id, jid))
<1>1. NextRow(messages) <= MaxRow /\ Store!UnreadOf(sessions, jid) < MaxUnread
  BY SameTable DEF MayGrow, Store!MayGrow
<1>2. QED
  BY <1>1, AddMessageType, SessionsType DEF Types, TablesOK, SessionsWith

LEMMA ReportType ==
  ASSUME NEW t, IsTable(t), reports \in [Ids -> 0 .. 2], NEW jid, SendDisplayedForJid(t, jid)
  PROVE  IsTable(messages') /\ reports' \in [Ids -> 0 .. 2]
<1>1. CASE messages' = t /\ UNCHANGED reports
  BY <1>1
<1>2. ASSUME NEW r \in DOMAIN t,
             messages' = SetMessageStateOfId(t, t[r].id, DISPLAYED_CONFIRMED),
             reports' = [reports EXCEPT ![t[r].id] = Min2(@ + 1)]
      PROVE  IsTable(messages') /\ reports' \in [Ids -> 0 .. 2]
  <2>1. t[r].id \in Ids
    BY DEF IsTable, Row
  <2>2. Min2(reports[t[r].id] + 1) \in 0 .. 2
    BY <2>1 DEF Min2
  <2>3. QED
    BY <1>2, <2>1, <2>2, SetStateType DEF MessageState, DISPLAYED_CONFIRMED
<1>3. QED
  BY <1>1, <1>2 DEF SendDisplayedForJid, NewestReceivedRows

LEMMA IdsAre == OwnIds \subseteq Ids /\ PeerIds \subseteq Ids /\ CarbonIds \subseteq Ids
BY MessagingAssumption DEF MessagingAssumption

LEMMA ReceiveType ==
  ASSUME Types, NEW id \in Ids, NEW jid \in Jids, ReceiveFrom(id, jid)
  PROVE  Types'
<1> DEFINE t == AddMessage(messages, id, jid, "in", now)
<1>1. IsTable(t) /\ IsSessions(sessions')
  BY GrowType DEF ReceiveFrom, Types, Direction
<1> HIDE DEF t
<1>2. IsTable(messages') /\ reports' \in [Ids -> 0 .. 2]
  <2>1. SendDisplayedForJid(t, jid) \/ (messages' = t /\ UNCHANGED reports)
    BY DEF ReceiveFrom, t
  <2>2. QED
    BY <1>1, <2>1, ReportType DEF Types, ChatOK
<1>3. QED
  BY <1>1, <1>2 DEF ReceiveFrom, Types, TablesOK, MarksOK, ChatOK, MailOK, environment

LEMMA MarkType ==
  ASSUME Types, NEW id \in Ids, NEW mark \in 1 .. 2,
         \/ UNCHANGED messages /\ \E member \in Members : markers' = MarkedByMember(id, member, mark)
         \/ /\ UNCHANGED markers
            /\ messages' = SetMessageStateOfId(messages, id, IF mark = 1 THEN RECEIVED ELSE DISPLAYED)
  PROVE  IsTable(messages') /\ MarksOK'
<1>1. ASSUME NEW member \in Members, markers' = MarkedByMember(id, member, mark)
      PROVE  MarksOK'
  BY <1>1 DEF Types, MarksOK, MarkedByMember
<1>2. QED
  BY <1>1, SetStateType DEF Types, TablesOK, MarksOK, MessageState, RECEIVED, DISPLAYED

LEMMA TypesInit == Init => Types
<1> SUFFICES ASSUME Init PROVE Types
  OBVIOUS
<1>1. TablesOK
  BY EmptyFunction DEF Init, TablesOK, IsTable, IsSessions
<1>2. MarksOK /\ ChatOK
  BY DEF Init, MarksOK, ChatOK
<1>3. MailOK
  <2>1. online \in BOOLEAN
    BY DEF Init
  <2>2. stanza \in [OwnIds -> Place] /\ to \in [OwnIds -> Jids \cup {NoJid}]
    BY DEF Init, Place
  <2>3. peer \in [OwnIds -> 0 .. 2] /\ unAcked \subseteq OwnIds
    BY DEF Init
  <2>4. \A id \in OwnIds : stanza[id] = "unsent"
    BY DEF Init
  <2>5. QED
    BY <2>1, <2>2, <2>3, <2>4 DEF MailOK
<1>4. QED
  BY <1>1, <1>2, <1>3 DEF Init, Types

(* What the archive may bring is a message of a conversation; an own one   *)
(* only if the server has it.                                              *)
LEMMA ArchiveType ==
  ASSUME MailOK, NEW m \in InArchive
  PROVE  /\ m.id \in Ids /\ m.jid \in Jids /\ m.direction \in Direction
         /\ m.id \in OwnIds => AtServer(m.id) /\ m.jid = to[m.id]
<1>1. ASSUME NEW p \in PeerIds, m = [id |-> p, jid |-> Sender[p], direction |-> "in"]
      PROVE  /\ m.id \in Ids /\ m.jid \in Jids /\ m.direction \in Direction
             /\ m.id \notin OwnIds
  BY <1>1, MessagingAssumption DEF MessagingAssumption, Direction
<1>2. ASSUME NEW o \in OwnIds, AtServer(o),
             m = [id |-> o, jid |-> to[o], direction |-> "out"]
      PROVE  /\ m.id \in Ids /\ m.jid \in Jids /\ m.direction \in Direction
             /\ AtServer(m.id) /\ m.jid = to[m.id]
  BY <1>2, IdsAre DEF MailOK, AtServer, Direction
<1>3. ASSUME m \in [id : CarbonIds, jid : Jids, direction : {"out"}]
      PROVE  /\ m.id \in Ids /\ m.jid \in Jids /\ m.direction \in Direction
             /\ m.id \notin OwnIds
  BY <1>3, MessagingAssumption DEF MessagingAssumption, Direction
<1>4. QED
  BY <1>1, <1>2, <1>3 DEF InArchive

LEMMA TypesStep == Types /\ [Next]_vars => Types'
<1> SUFFICES ASSUME Types, [Next]_vars PROVE Types'
  OBVIOUS
<1> USE DEF tables, environment
<1>1. ASSUME NEW id \in OwnIds, NEW jid \in Jids, SendMessage(id, jid) PROVE Types'
  <2>1. TablesOK'
    BY <1>1, IdsAre, GrowType DEF SendMessage, TablesOK, Types, Direction
  <2>2. MailOK'
    BY <1>1 DEF SendMessage, Types, MailOK, Place
  <2>3. QED
    BY <1>1, <2>1, <2>2 DEF SendMessage, Types, MarksOK, ChatOK
<1>2. ASSUME NEW jid \in Jids \cup {NoJid}, SetCurrentChatPartner(jid) PROVE Types'
  <2>1. IsSessions(sessions')
    BY <1>2, ReadType DEF SetCurrentChatPartner, Types, TablesOK
  <2>2. IsTable(messages') /\ reports' \in [Ids -> 0 .. 2]
    BY <1>2, ReportType DEF SetCurrentChatPartner, Types, TablesOK, ChatOK
  <2>3. QED
    BY <1>2, <2>1, <2>2 DEF SetCurrentChatPartner, Types, TablesOK, MarksOK, ChatOK, MailOK
<1>3. ASSUME NEW active \in BOOLEAN, AppGetsActive(active) PROVE Types'
  <2>1. IsTable(messages') /\ reports' \in [Ids -> 0 .. 2]
    BY <1>3, ReportType DEF AppGetsActive, Types, TablesOK, ChatOK
  <2>2. QED
    BY <1>3, <2>1 DEF AppGetsActive, Types, TablesOK, MarksOK, ChatOK, MailOK
<1>4. ASSUME NEW jid \in Jids, RemoveConversation(jid) PROVE Types'
  <2>1. TablesOK'
    BY <1>4, RemoveType, SessionsType DEF RemoveConversation, Types, TablesOK
  <2>2. reports' \in [Ids -> 0 .. 2]
    BY <1>4 DEF RemoveConversation, Types, ChatOK
  <2>3. QED
    BY <1>4, <2>1, <2>2 DEF RemoveConversation, Types, MarksOK, ChatOK, MailOK
<1>5. ASSUME NEW id \in OwnIds, HandleStanzaAcked(id) PROVE Types'
  <2>1. TablesOK'
    BY <1>5, SetStateType DEF HandleStanzaAcked, Types, TablesOK, MessageState, SENT
  <2>2. MailOK'
    BY <1>5 DEF HandleStanzaAcked, Types, MailOK, Place
  <2>3. QED
    BY <1>5, <2>1, <2>2 DEF HandleStanzaAcked, Types, MarksOK, ChatOK
<1>6. ASSUME NEW id \in PeerIds, HandleMessageReceived(id) PROVE Types'
  BY <1>6, IdsAre, ReceiveType, MessagingAssumption
     DEF HandleMessageReceived, MessagingAssumption
<1>7. ASSUME NEW id \in OwnIds, HandleOwnGroupMessage(id) PROVE Types'
  BY <1>7, IdsAre, ReceiveType, MessagingAssumption
     DEF HandleOwnGroupMessage, MessagingAssumption
<1>8. ASSUME NEW id \in CarbonIds, NEW jid \in Jids, HandleSentCarbon(id, jid) PROVE Types'
  BY <1>8, IdsAre, GrowType
     DEF HandleSentCarbon, Types, TablesOK, MarksOK, ChatOK, MailOK, Direction
<1>9. ASSUME NEW id \in OwnIds, NEW mark \in 1 .. 2, HandleMarker(id, mark) PROVE Types'
  <2>1. IsTable(messages') /\ MarksOK'
    BY <1>9, IdsAre, MarkType DEF HandleMarker
  <2>2. QED
    BY <1>9, <2>1 DEF HandleMarker, Types, TablesOK, ChatOK, MailOK
<1>10. ASSUME NEW time \in Times, ArchivedMessage(time) PROVE Types'
  <2>1. PICK m \in InArchive : ProcessArchivedMessage(m.id, m.jid, m.direction, time)
    BY <1>10 DEF ArchivedMessage
  <2>2. m.id \in Ids /\ m.jid \in Jids /\ m.direction \in Direction
    BY ArchiveType DEF Types
  <2>3. IsTable(messages') /\ IsSessions(sessions')
    BY <2>1, <2>2, GrowType DEF ProcessArchivedMessage
  <2>4. QED
    BY <2>1, <2>3 DEF ProcessArchivedMessage, Types, TablesOK, MarksOK, ChatOK, MailOK
<1>11. ASSUME NEW mark \in 1 .. 2, ArchivedMarker(mark) PROVE Types'
  <2>1. PICK m \in InArchive : ProcessArchivedMarker(m.id, m.jid, mark)
    BY <1>11 DEF ArchivedMarker
  <2>2. m.id \in Ids
    BY ArchiveType DEF Types
  <2>3. IsTable(messages') /\ MarksOK'
    BY <2>1, <2>2, MarkType DEF ProcessArchivedMarker
  <2>4. QED
    BY <2>1, <2>3 DEF ProcessArchivedMarker, Types, TablesOK, ChatOK, MailOK
<1>12. ASSUME NEW id \in OwnIds, ServerAccepts(id) \/ PeerGets(id) PROVE Types'
  BY <1>12 DEF ServerAccepts, PeerGets, Types, TablesOK, MarksOK, ChatOK, MailOK, Place
<1>13. CASE Connect \/ Disconnect
  BY <1>13 DEF Connect, Disconnect, AfterDisconnect, Types, TablesOK, MarksOK, ChatOK,
     MailOK, Place
<1>14. CASE Restart
  <2>1. IsTable(messages')
    BY <1>14, FailUploadsType DEF Restart, Types, TablesOK
  <2>2. MailOK'
    BY <1>14 DEF Restart, AfterDisconnect, Types, MailOK, Place
  <2>3. QED
    BY <1>14, <2>1, <2>2 DEF Restart, Types, TablesOK, MarksOK, ChatOK
<1>15. CASE Tick
  BY <1>15 DEF Tick, Types, TablesOK, MarksOK, ChatOK, MailOK
<1>16. CASE UNCHANGED vars
  BY <1>16 DEF vars, Types, TablesOK, MarksOK, ChatOK, MailOK
<1>17. QED
  BY <1>1, <1>2, <1>3, <1>4, <1>5, <1>6, <1>7, <1>8, <1>9, <1>10, <1>11, <1>12, <1>13,
     <1>14, <1>15, <1>16 DEF Next

(* Every table and every variable keeps its type. *)
THEOREM TypeCorrect == Spec => []TypeOK
BY TypesInit, TypesStep, TypesAre, PTL DEF Spec

-----------------------------------------------------------------------------
(* What is shown of an own message, and how far it has come.               *)
ShownOf(t, id) == StateOfMessage(t, id, to[id])
HowFar(id) == IF stanza[id] = "unsent" THEN -1 ELSE IF AtServer(id) THEN 1 + peer[id] ELSE 0

(* The rows of own messages: each in the conversation it was sent to; one  *)
(* that counts as received came back from a room.                          *)
OwnRows(t) ==
    \A r \in DOMAIN t :
       t[r].id \in OwnIds => /\ stanza[t[r].id] # "unsent"
                             /\ t[r].jid = to[t[r].id]
                             /\ t[r].direction = "in" => AtServer(t[r].id)

Good(t) == IsTable(t) /\ HoldsEachOnce(t) /\ OwnRows(t)

LEMMA ShownRow ==
  ASSUME NEW t, Good(t), NEW r \in DOMAIN t, t[r].id \in OwnIds
  PROVE  ShownOf(t, t[r].id) = t[r].state
BY ShownState DEF Good, OwnRows, ShownOf

LEMMA NotShown ==
  ASSUME NEW t, NEW id, ~ \E r \in DOMAIN t : t[r].id = id
  PROVE  ShownOf(t, id) = -2
BY DEF ShownOf, StateOfMessage, IsMessageIdForJid

(* The state of an own message is that of its only row, whatever else is   *)
(* in the table: tables that agree on its row show the same of it.         *)
LEMMA SameRowSameShown ==
  ASSUME NEW t, Good(t), NEW u, Good(u), NEW id \in OwnIds,
         \A r \in DOMAIN t : t[r].id = id => r \in DOMAIN u /\ u[r].id = id /\ u[r].state = t[r].state,
         \A r \in DOMAIN u : u[r].id = id => r \in DOMAIN t /\ t[r].id = id
  PROVE  ShownOf(u, id) = ShownOf(t, id)
<1>1. CASE \E r \in DOMAIN t : t[r].id = id
  <2>1. PICK r \in DOMAIN t : t[r].id = id
    BY <1>1
  <2>2. r \in DOMAIN u /\ u[r].id = id /\ u[r].state = t[r].state
    BY <2>1
  <2>3. ShownOf(t, id) = t[r].state /\ ShownOf(u, id) = u[r].state
    BY <2>1, <2>2, ShownRow
  <2>4. QED
    BY <2>2, <2>3
<1>2. CASE ~ \E r \in DOMAIN t : t[r].id = id
  BY <1>2, NotShown
<1>3. QED
  BY <1>1, <1>2

(* A message more: an own one appears only if it is not shown yet.         *)
LEMMA AddKeeps ==
  ASSUME NEW t, Good(t), NEW id \in Ids, NEW jid \in Jids, NEW direction \in Direction,
         NEW time, id \in OwnIds => AtServer(id) /\ jid = to[id],
         IsTable(AddMessage(t, id, jid, direction, time))
  PROVE  /\ Good(AddMessage(t, id, jid, direction, time))
         /\ \A i \in OwnIds :
               \/ ShownOf(AddMessage(t, id, jid, direction, time), i) = ShownOf(t, i)
               \/ /\ AtServer(i) /\ ShownOf(t, i) = -2
                  /\ ShownOf(AddMessage(t, id, jid, direction, time), i) = 0
<1> DEFINE u == AddMessage(t, id, jid, direction, time)
           n == NextRow(t)
<1>1. CASE IsMessageIdForJid(t, id, jid)
  BY <1>1 DEF AddMessage
<1>2. CASE ~ IsMessageIdForJid(t, id, jid)
  <2>1. /\ DOMAIN u = DOMAIN t \cup {n} /\ \A r \in DOMAIN t : r # n => u[r] = t[r]
        /\ u[n] = [id |-> id, jid |-> jid, direction |-> direction, state |-> 0, time |-> time]
    BY <1>2 DEF AddMessage, DEFAULT
  <2>2. n \notin DOMAIN t
    BY LastRow DEF Good, IsTable
  <2>3. IsTable(u) /\ HoldsEachOnce(u)
    BY OperationsHoldEachOnce DEF Good
  <2> HIDE DEF u, n
  <2>4. OwnRows(u)
    BY <2>1, <2>2 DEF Good, OwnRows, AtServer
  <2>5. Good(u)
    BY <2>3, <2>4 DEF Good
  <2>6. ASSUME NEW i \in OwnIds, i # id PROVE ShownOf(u, i) = ShownOf(t, i)
    BY <2>1, <2>2, <2>5, <2>6, SameRowSameShown
  <2>7. ASSUME id \in OwnIds PROVE ShownOf(t, id) = -2 /\ ShownOf(u, id) = 0
    <3>1. ~ \E r \in DOMAIN t : t[r].id = id
      BY <1>2, <2>7 DEF IsMessageIdForJid, Good, OwnRows
    <3>2. n \in DOMAIN u /\ u[n].id = id /\ u[n].state = 0
      BY <2>1
    <3>3. QED
      BY <2>5, <2>7, <3>1, <3>2, NotShown, ShownRow
  <2>8. QED
    BY <2>5, <2>6, <2>7 DEF u
<1>3. QED
  BY <1>1, <1>2

(* A mark changes what is shown of an own message only if it is meant for  *)
(* it, as a valid change of its only row.                                  *)
LEMMA MarkKeeps ==
  ASSUME NEW t, Good(t), NEW id, NEW state \in MessageState
  PROVE  /\ Good(SetMessageStateOfId(t, id, state))
         /\ \A i \in OwnIds :
               \/ ShownOf(SetMessageStateOfId(t, id, state), i) = ShownOf(t, i)
               \/ /\ i = id /\ ShownOf(t, i) \in MessageState
                  /\ ValidStateChange(ShownOf(t, i), state)
                  /\ ShownOf(SetMessageStateOfId(t, id, state), i) = state
<1> DEFINE u == SetMessageStateOfId(t, id, state)
<1>1. CASE u = t
  BY <1>1
<1>2. CASE u # t
  <2>1. /\ ValidStateChange(StateOfMessageId(t, id), state)
        /\ DOMAIN u = DOMAIN t
        /\ \A r \in DOMAIN t : /\ u[r].id = t[r].id /\ u[r].jid = t[r].jid
                               /\ u[r].direction = t[r].direction
                               /\ u[r].state = IF t[r].id = id THEN state ELSE t[r].state
    BY <1>2 DEF SetMessageStateOfId, Good, IsTable, Row
  <2>2. IsTable(u) /\ HoldsEachOnce(u)
    BY SetStateType, OperationsHoldEachOnce DEF Good
  <2> HIDE DEF u
  <2>3. OwnRows(u)
    BY <2>1 DEF Good, OwnRows
  <2>4. Good(u)
    BY <2>2, <2>3 DEF Good
  <2>5. ASSUME NEW i \in OwnIds, i # id PROVE ShownOf(u, i) = ShownOf(t, i)
    BY <2>1, <2>4, <2>5, SameRowSameShown
  <2>6. ASSUME id \in OwnIds, NEW r \in DOMAIN t, t[r].id = id
        PROVE  /\ ShownOf(t, id) \in MessageState
               /\ ValidStateChange(ShownOf(t, id), state)
               /\ ShownOf(u, id) = state
    <3>1. ShownOf(t, id) = t[r].state /\ ShownOf(u, id) = u[r].state
      BY <2>1, <2>4, <2>6, ShownRow
    <3>2. RowsOfId(t, id) = {r}
      BY <2>6 DEF RowsOfId, Good, OwnRows, HoldsEachOnce
    <3>3. StateOfMessageId(t, id) = t[r].state
      <4>1. r <= r
        BY DEF Good, IsTable
      <4>2. \E q \in {r} : \A s \in {r} : q <= s
        BY <4>1
      <4>3. FirstRowOfId(t, id) = r
        BY <3>2, <4>2 DEF FirstRowOfId
      <4>4. QED
        BY <3>2, <4>3 DEF StateOfMessageId
    <3>4. t[r].state \in MessageState
      BY DEF Good, IsTable, Row
    <3>5. QED
      BY <2>1, <2>6, <3>1, <3>3, <3>4
  <2>7. ASSUME id \in OwnIds, ~ \E r \in DOMAIN t : t[r].id = id
        PROVE  ShownOf(u, id) = ShownOf(t, id)
    BY <2>1, <2>4, <2>7, SameRowSameShown
  <2>8. QED
    BY <2>4, <2>5, <2>6, <2>7 DEF u
<1>3. QED
  BY <1>1, <1>2

LEMMA RemoveKeeps ==
  ASSUME NEW t, Good(t), NEW jid
  PROVE  /\ Good(RemoveMessagesFromJid(t, jid))
         /\ \A i \in OwnIds : ShownOf(RemoveMessagesFromJid(t, jid), i) \in {ShownOf(t, i), -2}
<1> DEFINE u == RemoveMessagesFromJid(t, jid)
<1>1. DOMAIN u = {r \in DOMAIN t : t[r].jid # jid} /\ \A r \in DOMAIN u : u[r] = t[r]
  BY DEF RemoveMessagesFromJid
<1>2. IsTable(u) /\ HoldsEachOnce(u)
  BY RemoveType, OperationsHoldEachOnce DEF Good
<1> HIDE DEF u
<1>3. Good(u)
  BY <1>1, <1>2 DEF Good, OwnRows
<1>4. ASSUME NEW i \in OwnIds PROVE ShownOf(u, i) \in {ShownOf(t, i), -2}
  <2>1. CASE to[i] = jid
    <3>1. ~ \E r \in DOMAIN u : u[r].id = i
      BY <1>1, <2>1 DEF Good, OwnRows
    <3>2. QED
      BY <3>1, NotShown
  <2>2. CASE to[i] # jid
    BY <1>1, <1>3, <2>2, SameRowSameShown DEF Good, OwnRows
  <2>3. QED
    BY <2>1, <2>2
<1>5. QED
  BY <1>3, <1>4 DEF u

LEMMA FailKeeps ==
  ASSUME NEW t, Good(t), \A i \in OwnIds : ShownOf(t, i) # UPLOADING_ATTACHMENT
  PROVE  /\ Good(FailInterruptedUploads(t))
         /\ \A i \in OwnIds : ShownOf(FailInterruptedUploads(t), i) = ShownOf(t, i)
<1> DEFINE u == FailInterruptedUploads(t)
<1>1. /\ DOMAIN u = DOMAIN t
      /\ \A r \in DOMAIN t :
            /\ u[r].id = t[r].id /\ u[r].jid = t[r].jid /\ u[r].direction = t[r].direction
            /\ t[r].state # UPLOADING_ATTACHMENT => u[r].state = t[r].state
  BY DEF FailInterruptedUploads, Good, IsTable, Row
<1>2. IsTable(u) /\ HoldsEachOnce(u)
  BY FailUploadsType, OperationsHoldEachOnce DEF Good
<1> HIDE DEF u
<1>3. Good(u)
  BY <1>1, <1>2 DEF Good, OwnRows
<1>4. \A r \in DOMAIN t : t[r].id \in OwnIds => t[r].state # UPLOADING_ATTACHMENT
  BY ShownRow
<1>5. ASSUME NEW i \in OwnIds PROVE ShownOf(u, i) = ShownOf(t, i)
  BY <1>1, <1>3, <1>4, <1>5, SameRowSameShown
<1>6. QED
  BY <1>3, <1>5 DEF u

-----------------------------------------------------------------------------
(* The inductive invariant: what is shown of an own message is never       *)
(* better than the truth, no peer has what the server has not, and the     *)
(* rows of own messages are as OwnRows says.                               *)
True(r, s) == /\ r \in -1 .. 3 /\ s \in -2 .. 3
              /\ s >= 1 => s <= r
              /\ r = -1 => s = -2

IInv == /\ Types
        /\ Good(messages)
        /\ \A id \in OwnIds : /\ peer[id] >= 1 => AtServer(id)
                              /\ True(HowFar(id), ShownOf(messages, id))

(* The steps of Delivery, on the two numbers.                              *)
Follows(r, s, rr, ss) ==
    \/ rr = r /\ ss = s
    \/ r = -1 /\ s = -2 /\ rr = 0 /\ ss = 0
    \/ r >= 0 /\ rr \in r + 1 .. 3 /\ ss = s
    \/ rr = r /\ s # -2 /\ ss > s /\ ss \in 1 .. r
    \/ rr = r /\ ss = -2
    \/ rr = r /\ r >= 1 /\ s = 0 /\ ss = -1
    \/ rr = r /\ r >= 1 /\ s = -2 /\ ss \in {0, -1}

LEMMA FollowsIsStep ==
  ASSUME NEW r \in Int, NEW s \in Int, NEW rr \in Int, NEW ss \in Int, Follows(r, s, rr, ss)
  PROVE  Deliveries!Step([reached |-> r, shown |-> s], [reached |-> rr, shown |-> ss])
BY DEF Follows, Deliveries!Step, Deliveries!Send, Deliveries!Advance, Deliveries!Learn,
   Deliveries!Remove, Deliveries!Confirm, Deliveries!ComeBack, Deliveries!NotSent,
   Deliveries!Absent

LEMMA FollowsKeepsTrue ==
  ASSUME NEW r, NEW s, NEW rr, NEW ss, True(r, s), Follows(r, s, rr, ss)
  PROVE  True(rr, ss)
BY DEF True, Follows

LEMMA Moves ==
  ASSUME IInv, Types', Good(messages)',
         \A id \in OwnIds :
            /\ peer'[id] >= 1 => AtServer(id)'
            /\ Follows(HowFar(id), ShownOf(messages, id), HowFar(id)', ShownOf(messages, id)')
  PROVE  IInv' /\ \A id \in OwnIds : Deliveries!Step(Mail[id], Mail'[id])
<1>1. ASSUME NEW id \in OwnIds
      PROVE  True(HowFar(id)', ShownOf(messages, id)')
  BY FollowsKeepsTrue DEF IInv
<1>2. ASSUME NEW id \in OwnIds
      PROVE  Deliveries!Step(Mail[id], Mail'[id])
  <2>1. /\ Mail[id] = [reached |-> HowFar(id), shown |-> ShownOf(messages, id)]
        /\ Mail'[id] = [reached |-> HowFar(id)', shown |-> ShownOf(messages, id)']
    BY DEF Mail, HowFar, ShownOf, AtServer
  <2>2. /\ HowFar(id) \in Int /\ ShownOf(messages, id) \in Int
        /\ HowFar(id)' \in Int /\ ShownOf(messages, id)' \in Int
    BY <1>1 DEF IInv, True
  <2>3. Follows(HowFar(id), ShownOf(messages, id), HowFar(id)', ShownOf(messages, id)')
    OBVIOUS
  <2>4. QED
    BY <2>1, <2>2, <2>3, FollowsIsStep
<1>3. QED
  BY <1>1, <1>2 DEF IInv

(* With every message at its place, only what is shown changes.            *)
Shows(t, id) == Follows(HowFar(id), ShownOf(messages, id), HowFar(id), ShownOf(t, id))

LEMMA Stays ==
  ASSUME IInv, Types', UNCHANGED <<to, stanza, peer>>, Good(messages'),
         \A id \in OwnIds : Shows(messages', id)
  PROVE  IInv' /\ \A id \in OwnIds : Deliveries!Step(Mail[id], Mail'[id])
<1>1. Good(messages)'
  BY DEF Good, OwnRows, AtServer
<1>2. ASSUME NEW id \in OwnIds
      PROVE  /\ HowFar(id)' = HowFar(id) /\ (AtServer(id)' <=> AtServer(id))
             /\ ShownOf(messages, id)' = ShownOf(messages', id)
  BY DEF HowFar, AtServer, ShownOf
<1>3. ASSUME NEW id \in OwnIds
      PROVE  /\ peer'[id] >= 1 => AtServer(id)'
             /\ Follows(HowFar(id), ShownOf(messages, id), HowFar(id)', ShownOf(messages, id)')
  BY <1>2 DEF IInv, Shows
<1>4. QED
  BY <1>1, <1>3, Moves

LEMMA ServerFar ==
  ASSUME IInv, NEW id \in OwnIds, AtServer(id)
  PROVE  HowFar(id) = 1 + peer[id] /\ HowFar(id) >= 1
BY DEF IInv, Types, MailOK, HowFar, AtServer

LEMMA AddShows ==
  ASSUME IInv, NEW id \in Ids, NEW jid \in Jids, NEW direction \in Direction,
         NEW time \in Times, MayGrow(jid), id \in OwnIds => AtServer(id) /\ jid = to[id]
  PROVE  /\ Good(AddMessage(messages, id, jid, direction, time))
         /\ \A i \in OwnIds : Shows(AddMessage(messages, id, jid, direction, time), i)
         /\ \A i \in OwnIds :
               ShownOf(AddMessage(messages, id, jid, direction, time), i) # ShownOf(messages, i)
               => /\ AtServer(i) /\ ShownOf(messages, i) = -2
                  /\ ShownOf(AddMessage(messages, id, jid, direction, time), i) = 0
<1> DEFINE u == AddMessage(messages, id, jid, direction, time)
<1>1. IsTable(u)
  BY GrowType DEF IInv
<1>2. Good(u) /\ \A i \in OwnIds : \/ ShownOf(u, i) = ShownOf(messages, i)
                                  \/ /\ AtServer(i) /\ ShownOf(messages, i) = -2
                                     /\ ShownOf(u, i) = 0
  BY <1>1, AddKeeps DEF IInv
<1> HIDE DEF u
<1>3. \A i \in OwnIds : Shows(u, i)
  BY <1>2, ServerFar DEF Shows, Follows
<1>4. QED
  BY <1>2, <1>3 DEF u

(* An own message is reported as displayed only if it came back as one     *)
(* that was received.                                                      *)
LEMMA ReportShows ==
  ASSUME IInv, NEW t, Good(t),
         \A i \in OwnIds : ShownOf(t, i) # ShownOf(messages, i)
                            => AtServer(i) /\ ShownOf(messages, i) = -2 /\ ShownOf(t, i) = 0,
         NEW jid, SendDisplayedForJid(t, jid)
  PROVE  Good(messages') /\ \A i \in OwnIds : Shows(messages', i)
<1>1. CASE messages' = t
  BY <1>1, ServerFar DEF Shows, Follows
<1>2. ASSUME NEW r \in DOMAIN t, t[r].direction = "in",
             messages' = SetMessageStateOfId(t, t[r].id, DISPLAYED_CONFIRMED)
      PROVE  Good(messages') /\ \A i \in OwnIds : Shows(messages', i)
  <2>1. /\ Good(messages')
        /\ \A i \in OwnIds :
              \/ ShownOf(messages', i) = ShownOf(t, i)
              \/ /\ i = t[r].id /\ ShownOf(t, i) \in MessageState
                 /\ ValidStateChange(ShownOf(t, i), DISPLAYED_CONFIRMED)
                 /\ ShownOf(messages', i) = DISPLAYED_CONFIRMED
    BY <1>2, MarkKeeps DEF MessageState, DISPLAYED_CONFIRMED
  <2>2. ASSUME NEW i \in OwnIds PROVE Shows(messages', i)
    <3>1. CASE ShownOf(messages', i) = ShownOf(t, i)
      BY <3>1, ServerFar DEF Shows, Follows
    <3>2. CASE ShownOf(messages', i) # ShownOf(t, i)
      <4>1. /\ i = t[r].id /\ ShownOf(t, i) \in -1 .. 5
            /\ ShownOf(messages', i) = -1
            /\ ValidStateChange(ShownOf(t, i), -1)
        BY <2>1, <3>2 DEF MessageState, DISPLAYED_CONFIRMED
      <4>2. AtServer(i) /\ HowFar(i) >= 1
        BY <1>2, <4>1, ServerFar DEF Good, OwnRows
      <4>3. ShownOf(t, i) \in {0, ShownOf(messages, i)} /\ ShownOf(messages, i) \in -2 .. 3
        BY DEF IInv, True
      <4>4. ShownOf(t, i) = 0
        BY <4>1, <4>3 DEF ValidStateChange, DEFAULT, UPLOADING_ATTACHMENT
      <4>5. ShownOf(messages, i) \in {0, -2}
        BY <4>4
      <4>6. QED
        BY <4>1, <4>2, <4>5 DEF Shows, Follows
    <3>3. QED
      BY <3>1, <3>2
  <2>3. QED
    BY <2>1, <2>2
<1>3. QED
  BY <1>1, <1>2 DEF SendDisplayedForJid, NewestReceivedRows

(* A status mark is shown only of a message that has come as far.          *)
LEMMA MarkShows ==
  ASSUME IInv, NEW id, NEW state \in 1 .. 3, id \in OwnIds => state <= HowFar(id),
         messages' = SetMessageStateOfId(messages, id, state)
  PROVE  Good(messages') /\ \A i \in OwnIds : Shows(messages', i)
<1>1. /\ Good(messages')
      /\ \A i \in OwnIds :
            \/ ShownOf(messages', i) = ShownOf(messages, i)
            \/ /\ i = id /\ ShownOf(messages, i) \in MessageState
               /\ ValidStateChange(ShownOf(messages, i), state)
               /\ ShownOf(messages', i) = state
  BY MarkKeeps DEF IInv, MessageState
<1>2. ASSUME NEW i \in OwnIds PROVE Shows(messages', i)
  <2>1. HowFar(i) \in -1 .. 3 /\ ShownOf(messages, i) \in -2 .. 3
    BY DEF IInv, True
  <2>2. QED
    BY <1>1, <2>1 DEF Shows, Follows, MessageState, ValidStateChange, DEFAULT,
       DISPLAYED_CONFIRMED, UPLOADING_ATTACHMENT
<1>3. QED
  BY <1>1, <1>2

LEMMA SameShows ==
  ASSUME IInv, messages' = messages
  PROVE  Good(messages') /\ \A i \in OwnIds : Shows(messages', i)
BY DEF IInv, Shows, Follows

Goal == IInv' /\ \A id \in OwnIds : Deliveries!Step(Mail[id], Mail'[id])

LEMMA DeliveryInit == Init => IInv /\ \A id \in OwnIds : Mail[id] = [reached |-> -1, shown |-> -2]
<1> SUFFICES ASSUME Init
             PROVE  IInv /\ \A id \in OwnIds : Mail[id] = [reached |-> -1, shown |-> -2]
  OBVIOUS
<1>1. Types /\ DOMAIN messages = {}
  BY TypesInit, EmptyFunction DEF Init
<1>2. Good(messages)
  BY <1>1 DEF Good, Types, TablesOK, HoldsEachOnce, OwnRows
<1>3. ASSUME NEW id \in OwnIds
      PROVE  HowFar(id) = -1 /\ ShownOf(messages, id) = -2 /\ peer[id] = 0
  BY <1>1, NotShown DEF Init, HowFar
<1>4. QED
  BY <1>1, <1>2, <1>3 DEF IInv, True, Mail, HowFar, ShownOf

LEMMA SendStep ==
  ASSUME IInv, Types', NEW id \in OwnIds, NEW jid \in Jids, SendMessage(id, jid)
  PROVE  Goal
<1> DEFINE n == NextRow(messages)
<1>1. ~ \E r \in DOMAIN messages : messages[r].id = id
  BY DEF SendMessage, IInv, Good, OwnRows
<1>2. /\ DOMAIN messages' = DOMAIN messages \cup {n}
      /\ \A r \in DOMAIN messages : r # n => messages'[r] = messages[r]
      /\ messages'[n] = [id |-> id, jid |-> jid, direction |-> "out", state |-> 0, time |-> now]
  BY <1>1 DEF SendMessage, AddMessage, IsMessageIdForJid, DEFAULT
<1>3. n \notin DOMAIN messages
  BY LastRow DEF IInv, Good, IsTable
<1> HIDE DEF n
<1>4. /\ to' = [to EXCEPT ![id] = jid] /\ peer' = peer /\ stanza[id] = "unsent"
      /\ \A i \in OwnIds : i # id => stanza'[i] = stanza[i] /\ to'[i] = to[i]
      /\ stanza'[id] \in {"wire", "dropped"} /\ to'[id] = jid
  BY DEF SendMessage, IInv, Types, MailOK
<1>5. OwnRows(messages)'
  BY <1>1, <1>2, <1>3, <1>4 DEF IInv, Good, OwnRows, AtServer
<1>6. Good(messages)'
  BY <1>5, OperationsHoldEachOnce DEF IInv, Good, Types, TablesOK, SendMessage
<1>7. ASSUME NEW i \in OwnIds, i # id
      PROVE  HowFar(i)' = HowFar(i) /\ (AtServer(i)' <=> AtServer(i))
             /\ ShownOf(messages, i)' = ShownOf(messages, i)
  <2>1. HowFar(i)' = HowFar(i) /\ (AtServer(i)' <=> AtServer(i))
    BY <1>4, <1>7 DEF HowFar, AtServer
  <2>2. \A r \in DOMAIN messages' : r # n => messages'[r] = messages[r]
    BY <1>2
  <2>3. IsMessageIdForJid(messages', i, to[i]) <=> IsMessageIdForJid(messages, i, to[i])
    BY <1>2, <1>3, <1>7 DEF IsMessageIdForJid
  <2>4. \A r \in DOMAIN messages : messages[r].id = i => StateOfMessage(messages, i, to[i]) = messages[r].state
    BY ShownRow DEF IInv, ShownOf
  <2>5. \A r \in DOMAIN messages' : messages'[r].id = i
           => StateOfMessage(messages', i, to'[i]) = messages'[r].state
    BY <1>6, ShownState DEF Good, OwnRows
  <2>6. StateOfMessage(messages', i, to[i]) = StateOfMessage(messages, i, to[i])
    <3>1. CASE IsMessageIdForJid(messages, i, to[i])
      BY <1>2, <1>3, <1>4, <1>7, <2>4, <2>5, <3>1 DEF IsMessageIdForJid
    <3>2. CASE ~ IsMessageIdForJid(messages, i, to[i])
      BY <2>3, <3>2 DEF StateOfMessage
    <3>3. QED
      BY <3>1, <3>2
  <2>7. QED
    BY <1>4, <1>7, <2>1, <2>6 DEF ShownOf
<1>8. /\ HowFar(id) = -1 /\ ShownOf(messages, id) = -2
      /\ HowFar(id)' = 0 /\ peer[id] = 0
  BY <1>1, <1>4, NotShown DEF HowFar, AtServer, IInv, Types, MailOK
<1>9. ShownOf(messages, id)' = 0
  <2>1. StateOfMessage(messages', id, jid) = 0
    BY <1>2, <1>6, ShownState DEF Good
  <2>2. QED
    BY <1>4, <2>1 DEF ShownOf
<1>10. ASSUME NEW i \in OwnIds
       PROVE  /\ peer'[i] >= 1 => AtServer(i)'
              /\ Follows(HowFar(i), ShownOf(messages, i), HowFar(i)', ShownOf(messages, i)')
  BY <1>4, <1>7, <1>8, <1>9 DEF IInv, Follows
<1>11. QED
  BY <1>6, <1>10, Moves DEF Goal

(* The server, the peers and the connection: how far a message has come    *)
(* only grows, and the table is as it was.                                 *)
LEMMA WayStep ==
  ASSUME IInv, Types', \A id \in OwnIds : ShownOf(messages', id) = ShownOf(messages, id),
         UNCHANGED to, Good(messages'),
         \A id \in OwnIds : /\ AtServer(id) => AtServer(id)'
                            /\ stanza'[id] = "unsent" <=> stanza[id] = "unsent"
                            /\ peer'[id] = peer[id] \/ (AtServer(id) /\ peer'[id] > peer[id])
  PROVE  Goal
<1>1. Good(messages)'
  BY DEF Good, OwnRows
<1>2. ASSUME NEW id \in OwnIds
      PROVE  /\ peer'[id] >= 1 => AtServer(id)'
             /\ Follows(HowFar(id), ShownOf(messages, id), HowFar(id)', ShownOf(messages, id)')
  <2>1. ShownOf(messages, id)' = ShownOf(messages, id)
    BY DEF ShownOf
  <2>2. /\ peer[id] \in 0 .. 2 /\ peer'[id] \in 0 .. 2
        /\ peer[id] >= 1 => AtServer(id)
    BY DEF IInv, Types, MailOK
  <2>3. /\ AtServer(id) => stanza[id] # "unsent"
        /\ AtServer(id)' => stanza'[id] # "unsent"
    BY DEF AtServer
  <2>4. QED
    BY <2>1, <2>2, <2>3 DEF HowFar, Follows
<1>3. QED
  BY <1>1, <1>2, Moves DEF Goal

LEMMA StaysGoal ==
  ASSUME IInv, Types', UNCHANGED <<to, stanza, peer>>, Good(messages'),
         \A id \in OwnIds : Shows(messages', id)
  PROVE  Goal
BY Stays DEF Goal

LEMMA ReceiveStep ==
  ASSUME IInv, Types', NEW id \in Ids, NEW jid \in Jids, ReceiveFrom(id, jid),
         id \in OwnIds => AtServer(id) /\ jid = to[id]
  PROVE  Goal
<1> DEFINE t == AddMessage(messages, id, jid, "in", now)
<1>1. /\ Good(t) /\ \A i \in OwnIds : Shows(t, i)
      /\ \A i \in OwnIds : ShownOf(t, i) # ShownOf(messages, i)
                           => AtServer(i) /\ ShownOf(messages, i) = -2 /\ ShownOf(t, i) = 0
  BY AddShows DEF ReceiveFrom, Direction, IInv, Types
<1>2. SendDisplayedForJid(t, jid) \/ messages' = t
  BY DEF ReceiveFrom
<1> HIDE DEF t
<1>3. Good(messages') /\ \A i \in OwnIds : Shows(messages', i)
  BY <1>1, <1>2, ReportShows
<1>4. QED
  BY <1>3, StaysGoal DEF ReceiveFrom, environment

LEMMA DeliveryStep == IInv /\ [Next]_vars => Goal
<1> SUFFICES ASSUME IInv, [Next]_vars PROVE Goal
  OBVIOUS
<1> USE DEF tables, environment
<1>0. Types'
  BY TypesStep DEF IInv
<1>1. ASSUME NEW id \in OwnIds, NEW jid \in Jids, SendMessage(id, jid) PROVE Goal
  BY <1>0, <1>1, SendStep
<1>2. ASSUME NEW jid, SendDisplayedForJid(messages, jid), UNCHANGED <<to, stanza, peer>>
      PROVE  Goal
  <2>1. Good(messages') /\ \A i \in OwnIds : Shows(messages', i)
    BY <1>2, ReportShows DEF IInv
  <2>2. QED
    BY <1>0, <1>2, <2>1, StaysGoal
<1>3. ASSUME UNCHANGED <<messages, to, stanza, peer>> PROVE Goal
  BY <1>0, <1>3, SameShows, StaysGoal
<1>4. ASSUME NEW jid \in Jids, RemoveConversation(jid) PROVE Goal
  <2>1. Good(messages') /\ \A i \in OwnIds : ShownOf(messages', i) \in {ShownOf(messages, i), -2}
    BY <1>4, RemoveKeeps DEF RemoveConversation, IInv
  <2>2. \A i \in OwnIds : Shows(messages', i)
    BY <2>1 DEF Shows, Follows
  <2>3. QED
    BY <1>0, <1>4, <2>1, <2>2, StaysGoal DEF RemoveConversation
<1>5. ASSUME NEW id \in OwnIds, HandleStanzaAcked(id) PROVE Goal
  <2>1. AtServer(id) /\ 1 <= HowFar(id)
    BY <1>5, ServerFar DEF HandleStanzaAcked, AtServer
  <2>2. Good(messages') /\ \A i \in OwnIds : Shows(messages', i)
    BY <1>5, <2>1, MarkShows, SameShows DEF HandleStanzaAcked, SENT
  <2>3. /\ stanza' = [stanza EXCEPT ![id] = "acked"] /\ UNCHANGED <<to, peer>>
        /\ stanza[id] = "server" /\ stanza \in [OwnIds -> Place]
    BY <1>5 DEF HandleStanzaAcked, IInv, Types, MailOK
  <2>4. Good(messages)'
    BY <2>2, <2>3 DEF Good, OwnRows, AtServer
  <2>5. ASSUME NEW i \in OwnIds
        PROVE  /\ HowFar(i)' = HowFar(i) /\ (AtServer(i)' <=> AtServer(i))
               /\ ShownOf(messages, i)' = ShownOf(messages', i)
    BY <2>3 DEF HowFar, AtServer, ShownOf
  <2>6. ASSUME NEW i \in OwnIds
        PROVE  /\ peer'[i] >= 1 => AtServer(i)'
               /\ Follows(HowFar(i), ShownOf(messages, i), HowFar(i)', ShownOf(messages, i)')
    BY <2>2, <2>3, <2>5 DEF IInv, Shows
  <2>7. QED
    BY <1>0, <2>4, <2>6, Moves DEF Goal
<1>6. ASSUME NEW id \in PeerIds, HandleMessageReceived(id) PROVE Goal
  <2>1. id \in Ids /\ id \notin OwnIds /\ Sender[id] \in Jids
    BY MessagingAssumption DEF MessagingAssumption
  <2>2. QED
    BY <1>0, <1>6, <2>1, ReceiveStep DEF HandleMessageReceived
<1>7. ASSUME NEW id \in OwnIds, HandleOwnGroupMessage(id) PROVE Goal
  BY <1>0, <1>7, IdsAre, ReceiveStep, MessagingAssumption
     DEF HandleOwnGroupMessage, MessagingAssumption
<1>8. ASSUME NEW id \in Ids, NEW jid \in Jids, NEW direction \in Direction, NEW time \in Times,
             id \in OwnIds => AtServer(id) /\ jid = to[id], MayGrow(jid),
             messages' = AddMessage(messages, id, jid, direction, time),
             UNCHANGED <<to, stanza, peer>>
      PROVE  Goal
  <2>1. Good(messages') /\ \A i \in OwnIds : Shows(messages', i)
    BY <1>8, AddShows
  <2>2. QED
    BY <1>0, <1>8, <2>1, StaysGoal
<1>9. ASSUME NEW id \in CarbonIds, NEW jid \in Jids, HandleSentCarbon(id, jid) PROVE Goal
  <2>1. id \in Ids /\ id \notin OwnIds /\ now \in Times /\ "out" \in Direction
    BY MessagingAssumption DEF MessagingAssumption, IInv, Types, Direction
  <2>2. QED
    BY <1>8, <1>9, <2>1 DEF HandleSentCarbon
<1>10. ASSUME NEW time \in Times, ArchivedMessage(time) PROVE Goal
  <2>1. PICK m \in InArchive : ProcessArchivedMessage(m.id, m.jid, m.direction, time)
    BY <1>10 DEF ArchivedMessage
  <2>2. /\ m.id \in Ids /\ m.jid \in Jids /\ m.direction \in Direction
        /\ m.id \in OwnIds => AtServer(m.id) /\ m.jid = to[m.id]
    BY ArchiveType DEF IInv, Types
  <2>3. QED
    BY <1>8, <2>1, <2>2 DEF ProcessArchivedMessage
<1>11. ASSUME NEW id, NEW mark \in 1 .. 2,
              id \in OwnIds => AtServer(id) /\ mark <= peer[id],
              \/ UNCHANGED messages
              \/ messages' = SetMessageStateOfId(messages, id, IF mark = 1 THEN RECEIVED ELSE DISPLAYED),
              UNCHANGED <<to, stanza, peer>>
       PROVE  Goal
  <2>1. id \in OwnIds => mark + 1 <= HowFar(id)
    BY <1>11, ServerFar DEF IInv, Types, MailOK
  <2>2. (IF mark = 1 THEN RECEIVED ELSE DISPLAYED) = mark + 1
    BY DEF RECEIVED, DISPLAYED
  <2>3. Good(messages') /\ \A i \in OwnIds : Shows(messages', i)
    BY <1>11, <2>1, <2>2, MarkShows, SameShows
  <2>4. QED
    BY <1>0, <1>11, <2>3, StaysGoal
<1>12. ASSUME NEW id \in OwnIds, NEW mark \in 1 .. 2, HandleMarker(id, mark) PROVE Goal
  <2>1. mark <= peer[id] /\ AtServer(id)
    BY <1>12 DEF HandleMarker, IInv, Types, MailOK
  <2>2. QED
    BY <1>11, <1>12, <2>1 DEF HandleMarker
<1>13. ASSUME NEW mark \in 1 .. 2, ArchivedMarker(mark) PROVE Goal
  <2>1. PICK m \in InArchive : /\ m.id \in PeerIds \/ (m.id \in OwnIds /\ mark <= peer[m.id])
                               /\ ProcessArchivedMarker(m.id, m.jid, mark)
    BY <1>13 DEF ArchivedMarker
  <2>2. m.id \in OwnIds => AtServer(m.id) /\ mark <= peer[m.id]
    BY <2>1, ArchiveType, MessagingAssumption DEF MessagingAssumption, IInv, Types
  <2>3. QED
    BY <1>11, <2>1, <2>2 DEF ProcessArchivedMarker
<1>14. ASSUME NEW id \in OwnIds, ServerAccepts(id) PROVE Goal
  <2>1. \A i \in OwnIds : /\ AtServer(i) => AtServer(i)'
                          /\ stanza'[i] = "unsent" <=> stanza[i] = "unsent"
    BY <1>14 DEF ServerAccepts, AtServer, IInv, Types, MailOK
  <2>2. QED
    BY <1>0, <1>14, <2>1, WayStep DEF ServerAccepts, IInv
<1>15. ASSUME NEW id \in OwnIds, PeerGets(id) PROVE Goal
  <2>1. \A i \in OwnIds : /\ AtServer(i)' <=> AtServer(i)
                          /\ peer'[i] = peer[i] \/ (AtServer(i) /\ peer'[i] > peer[i])
    BY <1>15 DEF PeerGets, AtServer, IInv, Types, MailOK
  <2>2. QED
    BY <1>0, <1>15, <2>1, WayStep DEF PeerGets, IInv
<1>16. ASSUME stanza' = AfterDisconnect, UNCHANGED <<to, peer>>,
              \/ UNCHANGED messages
              \/ messages' = FailInterruptedUploads(messages)
       PROVE  Goal
  <2>1. \A i \in OwnIds : ShownOf(messages, i) # UPLOADING_ATTACHMENT
    BY DEF IInv, True, UPLOADING_ATTACHMENT
  <2>2. Good(messages') /\ \A i \in OwnIds : ShownOf(messages', i) = ShownOf(messages, i)
    BY <1>16, <2>1, FailKeeps DEF IInv
  <2>3. \A i \in OwnIds : /\ AtServer(i) => AtServer(i)'
                          /\ stanza'[i] = "unsent" <=> stanza[i] = "unsent"
    BY <1>16 DEF AfterDisconnect, AtServer
  <2>4. QED
    BY <1>0, <1>16, <2>2, <2>3, WayStep
<1>17. QED
  BY <1>1, <1>2, <1>3, <1>4, <1>5, <1>6, <1>7, <1>9, <1>10, <1>12, <1>13, <1>14, <1>15, <1>16
     DEF Next, vars, SetCurrentChatPartner, AppGetsActive, Connect, Disconnect, Restart, Tick

(* Every message the user sends is shown as Delivery promises: in whatever *)
(* order acks, receipts, markers, echoes and the archive come.             *)
THEOREM DeliveryImplemented == Spec => ShownAsDelivered
<1>1. Init => Deliveries!Init
  BY DeliveryInit DEF Deliveries!Init, Deliveries!NotSent, Deliveries!Absent, Mail
<1>2. IInv /\ [Next]_vars => [Deliveries!Next]_Mail
  <2> SUFFICES ASSUME IInv, [Next]_vars PROVE Deliveries!Next
    OBVIOUS
  <2>1. Mail' = [id \in OwnIds |-> Mail'[id]]
    BY DEF Mail
  <2>2. QED
    BY <2>1, DeliveryStep DEF Goal, Deliveries!Next
<1>3. Init => IInv
  BY DeliveryInit
<1>4. IInv /\ [Next]_vars => IInv'
  BY DeliveryStep DEF Goal
<1>5. QED
  BY <1>1, <1>2, <1>3, <1>4, PTL DEF Spec, ShownAsDelivered, Deliveries!Spec

(* The status shown of an own message is never better than the truth.      *)
THEOREM StatusAlwaysTrue == Spec => []StatusIsTrue
<1>1. IInv => StatusIsTrue
  <2> SUFFICES ASSUME IInv, NEW r \in DOMAIN messages, messages[r].id \in OwnIds
               PROVE  /\ messages[r].state = SENT => AtServer(messages[r].id)
                      /\ messages[r].state = RECEIVED => peer[messages[r].id] >= 1
                      /\ messages[r].state = DISPLAYED => peer[messages[r].id] = 2
    BY DEF StatusIsTrue
  <2>1. True(HowFar(messages[r].id), messages[r].state)
    BY ShownRow DEF IInv
  <2>2. peer[messages[r].id] \in 0 .. 2
    BY DEF IInv, Types, MailOK
  <2>3. QED
    BY <2>1, <2>2 DEF True, HowFar, SENT, RECEIVED, DISPLAYED
<1>2. QED
  BY <1>1, DeliveryInit, DeliveryStep, PTL DEF Spec, Goal
-----------------------------------------------------------------------------
(* Reports without an archive and without rooms: nothing but the client's  *)
(* own report changes the state of a received message, so that the note    *)
(* DISPLAYED_CONFIRMED in its only row tells what was reported.            *)
NoneElseMarks == ~HasArchive /\ Groups = {}

Received(t) ==
    \A r \in DOMAIN t :
       t[r].id \in PeerIds \/ t[r].direction = "in"
       => /\ t[r].id \in PeerIds /\ t[r].direction = "in" /\ t[r].jid = Sender[t[r].id]
          /\ t[r].state \in {0, -1}

Reported(t, n) ==
    \A id \in Ids : n[id] > 0 => /\ n[id] = 1
                                 /\ \E r \in DOMAIN t : /\ t[r].id = id /\ t[r].direction = "in"
                                                        /\ t[r].state = -1

(* The newest message received in jid, if there is one, was reported.      *)
Seen(t, jid) == LET newest == NewestReceivedRows(t, jid)
                IN  newest = {} \/ \E r \in newest : t[r].state = -1

Noted(t, n) == IsTable(t) /\ HoldsEachOnce(t) /\ Received(t) /\ Reported(t, n)

OnceInv == /\ Types /\ Noted(messages, reports)
           /\ SendReadNotifications /\ partner # NoJid /\ appIsActive => Seen(messages, partner)

LEMMA SameReceivedSeen ==
  ASSUME NEW t, NEW u, NEW jid, Seen(t, jid),
         \A r : r \in DOMAIN u /\ u[r].jid = jid /\ u[r].direction = "in"
                <=> r \in DOMAIN t /\ t[r].jid = jid /\ t[r].direction = "in",
         \A r \in DOMAIN t : t[r].jid = jid /\ t[r].direction = "in"
                             => u[r].time = t[r].time /\ u[r].state = t[r].state
  PROVE  Seen(u, jid)
<1>1. NewestReceivedRows(u, jid) = NewestReceivedRows(t, jid)
  BY DEF NewestReceivedRows
<1>2. \A r \in NewestReceivedRows(t, jid) : u[r].state = t[r].state
  BY DEF NewestReceivedRows
<1>3. QED
  BY <1>1, <1>2 DEF Seen

(* A message more, of a peer in its own conversation, or not of a peer.    *)
LEMMA AddNotes ==
  ASSUME NEW t, NEW n, Noted(t, n), NEW id \in Ids, NEW jid \in Jids,
         NEW direction \in Direction, NEW time,
         IsTable(AddMessage(t, id, jid, direction, time)),
         IF direction = "in" THEN id \in PeerIds /\ jid = Sender[id] ELSE id \notin PeerIds
  PROVE  /\ Noted(AddMessage(t, id, jid, direction, time), n)
         /\ \A j : direction = "out" \/ j # jid
                   => (Seen(t, j) => Seen(AddMessage(t, id, jid, direction, time), j))
<1> DEFINE u == AddMessage(t, id, jid, direction, time)
           last == NextRow(t)
<1>1. CASE IsMessageIdForJid(t, id, jid)
  BY <1>1 DEF AddMessage
<1>2. CASE ~ IsMessageIdForJid(t, id, jid)
  <2>1. /\ DOMAIN u = DOMAIN t \cup {last} /\ \A r \in DOMAIN t : r # last => u[r] = t[r]
        /\ u[last] = [id |-> id, jid |-> jid, direction |-> direction, state |-> 0, time |-> time]
    BY <1>2 DEF AddMessage, DEFAULT
  <2>2. last \notin DOMAIN t
    BY LastRow DEF Noted, IsTable
  <2>3. IsTable(u) /\ HoldsEachOnce(u)
    BY OperationsHoldEachOnce DEF Noted
  <2> HIDE DEF u, last
  <2>4. Received(u)
    <3> SUFFICES ASSUME NEW r \in DOMAIN u, u[r].id \in PeerIds \/ u[r].direction = "in"
                 PROVE  /\ u[r].id \in PeerIds /\ u[r].direction = "in"
                        /\ u[r].jid = Sender[u[r].id] /\ u[r].state \in {0, -1}
      BY DEF Received
    <3>1. CASE r = last
      BY <2>1, <3>1 DEF Direction
    <3>2. CASE r # last
      BY <2>1, <3>2 DEF Noted, Received
    <3>3. QED
      BY <3>1, <3>2
  <2>5. \A r \in DOMAIN t : r \in DOMAIN u /\ u[r] = t[r]
    BY <2>1, <2>2
  <2>6. Reported(u, n)
    BY <2>5 DEF Noted, Reported
  <2>7. ASSUME NEW j, direction = "out" \/ j # jid, Seen(t, j) PROVE Seen(u, j)
    <3>1. \A r : r \in DOMAIN u /\ u[r].jid = j /\ u[r].direction = "in"
                 <=> r \in DOMAIN t /\ t[r].jid = j /\ t[r].direction = "in"
      BY <2>1, <2>2, <2>7
    <3>2. QED
      BY <2>5, <2>7, <3>1, SameReceivedSeen
  <2>8. QED
    BY <2>3, <2>4, <2>6, <2>7 DEF Noted, u
<1>3. QED
  BY <1>1, <1>2

(* A mark on a message that is not a peer's.                               *)
LEMMA MarkNotes ==
  ASSUME NEW t, NEW n, Noted(t, n), NEW id, id \notin PeerIds, NEW state \in MessageState
  PROVE  /\ Noted(SetMessageStateOfId(t, id, state), n)
         /\ \A j : Seen(t, j) => Seen(SetMessageStateOfId(t, id, state), j)
<1> DEFINE u == SetMessageStateOfId(t, id, state)
<1>1. /\ DOMAIN u = DOMAIN t
      /\ \A r \in DOMAIN t :
            /\ u[r].id = t[r].id /\ u[r].jid = t[r].jid
            /\ u[r].direction = t[r].direction /\ u[r].time = t[r].time
            /\ t[r].id # id => u[r].state = t[r].state
  BY DEF SetMessageStateOfId, Noted, IsTable, Row
<1>2. IsTable(u) /\ HoldsEachOnce(u)
  BY SetStateType, OperationsHoldEachOnce DEF Noted
<1> HIDE DEF u
<1>3. \A r \in DOMAIN t : t[r].direction = "in" => t[r].id # id
  BY DEF Noted, Received
<1>4. Received(u)
  BY <1>1 DEF Noted, Received
<1>5. Reported(u, n)
  BY <1>1, <1>3 DEF Noted, Reported
<1>6. ASSUME NEW j, Seen(t, j) PROVE Seen(u, j)
  BY <1>1, <1>3, <1>6, SameReceivedSeen
<1>7. QED
  BY <1>2, <1>4, <1>5, <1>6 DEF Noted, u

(* The opening of the database: no received message is being uploaded.     *)
LEMMA FailNotes ==
  ASSUME NEW t, NEW n, Noted(t, n)
  PROVE  Noted(FailInterruptedUploads(t), n)
<1> DEFINE u == FailInterruptedUploads(t)
<1>1. /\ DOMAIN u = DOMAIN t
      /\ \A r \in DOMAIN t :
            /\ u[r].id = t[r].id /\ u[r].jid = t[r].jid /\ u[r].direction = t[r].direction
            /\ t[r].state # UPLOADING_ATTACHMENT => u[r].state = t[r].state
  BY DEF FailInterruptedUploads, Noted, IsTable, Row
<1>2. IsTable(u) /\ HoldsEachOnce(u)
  BY FailUploadsType, OperationsHoldEachOnce DEF Noted
<1> HIDE DEF u
<1>3. \A r \in DOMAIN t : t[r].direction = "in" \/ t[r].id \in PeerIds
                          => t[r].state # UPLOADING_ATTACHMENT
  BY DEF Noted, Received, UPLOADING_ATTACHMENT
<1>4. Received(u)
  BY <1>1, <1>3 DEF Noted, Received
<1>5. Reported(u, n)
  BY <1>1, <1>3 DEF Noted, Reported
<1>6. QED
  BY <1>2, <1>4, <1>5 DEF Noted, u

LEMMA RemoveNotes ==
  ASSUME NEW t, NEW n, Noted(t, n), NEW jid
  PROVE  /\ Noted(RemoveMessagesFromJid(t, jid),
                  [id \in Ids |-> IF IsMessageIdForJid(t, id, jid) THEN 0 ELSE n[id]])
         /\ \A j : Seen(t, j) => Seen(RemoveMessagesFromJid(t, jid), j)
<1> DEFINE u == RemoveMessagesFromJid(t, jid)
           k == [id \in Ids |-> IF IsMessageIdForJid(t, id, jid) THEN 0 ELSE n[id]]
<1>1. DOMAIN u = {r \in DOMAIN t : t[r].jid # jid} /\ \A r \in DOMAIN u : u[r] = t[r]
  BY DEF RemoveMessagesFromJid
<1>2. IsTable(u) /\ HoldsEachOnce(u)
  BY RemoveType, OperationsHoldEachOnce DEF Noted
<1> HIDE DEF u
<1>3. Received(u)
  BY <1>1 DEF Noted, Received
<1>4. Reported(u, k)
  <2> SUFFICES ASSUME NEW id \in Ids, k[id] > 0
               PROVE  /\ k[id] = 1
                      /\ \E r \in DOMAIN u : /\ u[r].id = id /\ u[r].direction = "in"
                                             /\ u[r].state = -1
    BY DEF Reported
  <2>1. ~ IsMessageIdForJid(t, id, jid) /\ k[id] = n[id]
    OBVIOUS
  <2>2. PICK r \in DOMAIN t : t[r].id = id /\ t[r].direction = "in" /\ t[r].state = -1
    BY <2>1 DEF Noted, Reported
  <2>3. t[r].jid # jid
    BY <2>1, <2>2 DEF IsMessageIdForJid
  <2>4. n[id] = 1
    BY <2>1 DEF Noted, Reported
  <2>5. QED
    BY <1>1, <2>1, <2>2, <2>3, <2>4
<1>5. ASSUME NEW j, Seen(t, j) PROVE Seen(u, j)
  <2>1. CASE j = jid
    <3>1. NewestReceivedRows(u, j) = {}
      BY <1>1, <2>1 DEF NewestReceivedRows
    <3>2. QED
      BY <3>1 DEF Seen
  <2>2. CASE j # jid
    BY <1>1, <1>5, <2>2, SameReceivedSeen
  <2>3. QED
    BY <2>1, <2>2
<1>6. QED
  BY <1>2, <1>3, <1>4, <1>5 DEF Noted, u

(* A report: of a message that was not reported, and then it is noted.     *)
LEMMA ReportNotes ==
  ASSUME NEW t, reports \in [Ids -> 0 .. 2], Noted(t, reports), NEW jid,
         SendDisplayedForJid(t, jid)
  PROVE  Noted(messages', reports') /\ (SendReadNotifications => Seen(messages', jid))
<1> DEFINE newest == NewestReceivedRows(t, jid)
<1>1. CASE /\ messages' = t /\ UNCHANGED reports
           /\ SendReadNotifications
              => newest = {} \/ \E r \in newest : t[r].state = DISPLAYED_CONFIRMED
  BY <1>1 DEF Seen, DISPLAYED_CONFIRMED
<1>2. ASSUME NEW r \in newest, t[r].state # DISPLAYED_CONFIRMED,
             messages' = SetMessageStateOfId(t, t[r].id, DISPLAYED_CONFIRMED),
             reports' = [reports EXCEPT ![t[r].id] = Min2(@ + 1)]
      PROVE  Noted(messages', reports') /\ (SendReadNotifications => Seen(messages', jid))
  <2> DEFINE id == t[r].id
  <2>1. /\ r \in DOMAIN t /\ t[r].jid = jid /\ t[r].direction = "in"
        /\ \A s \in DOMAIN t : t[s].jid = jid /\ t[s].direction = "in" => t[s].time <= t[r].time
    BY DEF NewestReceivedRows
  <2>2. id \in PeerIds /\ id \in Ids /\ t[r].jid = Sender[id] /\ t[r].state = 0
    BY <1>2, <2>1, IdsAre DEF Noted, Received, DISPLAYED_CONFIRMED
  <2>3. RowsOfId(t, id) = {r}
    BY <2>1, <2>2 DEF RowsOfId, Noted, Received, HoldsEachOnce
  <2>4. StateOfMessageId(t, id) = 0
    <3>1. r <= r
      BY <2>1 DEF Noted, IsTable
    <3>2. \E q \in {r} : \A s \in {r} : q <= s
      BY <3>1
    <3>3. FirstRowOfId(t, id) = r
      BY <2>3, <3>2 DEF FirstRowOfId
    <3>4. QED
      BY <2>2, <2>3, <3>3 DEF StateOfMessageId
  <2>5. ValidStateChange(StateOfMessageId(t, id), DISPLAYED_CONFIRMED)
    BY <2>4 DEF ValidStateChange, DEFAULT
  <2>6. /\ DOMAIN messages' = DOMAIN t
        /\ \A s \in DOMAIN t :
              /\ messages'[s].id = t[s].id /\ messages'[s].jid = t[s].jid
              /\ messages'[s].direction = t[s].direction /\ messages'[s].time = t[s].time
              /\ messages'[s].state = IF s = r THEN -1 ELSE t[s].state
    <3>1. \A s \in DOMAIN t : t[s].id = id <=> s = r
      BY <2>1, <2>3 DEF RowsOfId
    <3>2. \A s \in DOMAIN t : t[s] \in Row
      BY DEF Noted, IsTable
    <3>3. messages' = [s \in DOMAIN t |-> IF t[s].id = id
                                          THEN [t[s] EXCEPT !.state = DISPLAYED_CONFIRMED]
                                          ELSE t[s]]
      BY <1>2, <2>5 DEF SetMessageStateOfId
    <3> HIDE DEF id
    <3>4. QED
      BY <3>1, <3>2, <3>3 DEF Row, DISPLAYED_CONFIRMED
  <2>7. IsTable(messages') /\ HoldsEachOnce(messages')
    BY <1>2, SetStateType, OperationsHoldEachOnce DEF Noted, MessageState, DISPLAYED_CONFIRMED
  <2>8. Received(messages')
    BY <2>1, <2>6 DEF Noted, Received
  <2>9. reports[id] = 0
    <3>1. ASSUME reports[id] > 0 PROVE FALSE
      <4>1. PICK s \in DOMAIN t : t[s].id = id /\ t[s].direction = "in" /\ t[s].state = -1
        BY <2>2, <3>1 DEF Noted, Reported
      <4>2. s = r
        BY <2>3, <4>1 DEF RowsOfId
      <4>3. QED
        BY <2>2, <4>1, <4>2
    <3>2. QED
      BY <2>2, <3>1
  <2>10. Reported(messages', reports')
    <3> SUFFICES ASSUME NEW i \in Ids, reports'[i] > 0
                 PROVE  /\ reports'[i] = 1
                        /\ \E s \in DOMAIN messages' :
                              /\ messages'[s].id = i /\ messages'[s].direction = "in"
                              /\ messages'[s].state = -1
      BY DEF Reported
    <3>1. CASE i = id
      <4>1. reports'[i] = 1
        BY <1>2, <2>2, <2>9, <3>1 DEF Min2
      <4>2. QED
        BY <2>1, <2>6, <3>1, <4>1
    <3>2. CASE i # id
      <4>1. reports'[i] = reports[i]
        BY <1>2, <3>2
      <4>2. QED
        BY <2>6, <4>1 DEF Noted, Reported
    <3>3. QED
      BY <3>1, <3>2
  <2>11. Seen(messages', jid)
    <3>1. r \in NewestReceivedRows(messages', jid)
      BY <2>1, <2>6 DEF NewestReceivedRows
    <3>2. messages'[r].state = -1
      BY <2>1, <2>6
    <3>3. QED
      BY <3>1, <3>2 DEF Seen
  <2>12. QED
    BY <2>7, <2>8, <2>10, <2>11 DEF Noted
<1>3. QED
  BY <1>1, <1>2 DEF SendDisplayedForJid

LEMMA ReceiveNotes ==
  ASSUME OnceInv, NEW id \in PeerIds, ReceiveFrom(id, Sender[id])
  PROVE  OnceInv'
<1> DEFINE jid == Sender[id]
           t == AddMessage(messages, id, jid, "in", now)
<1>1. id \in Ids /\ jid \in Jids
  BY IdsAre, MessagingAssumption DEF MessagingAssumption
<1>2. Types'
  BY <1>1, ReceiveType DEF OnceInv
<1>3. IsTable(t) /\ "in" \in Direction
  BY <1>1, GrowType DEF ReceiveFrom, OnceInv, Types, Direction
<1>4. Noted(t, reports) /\ \A j : j # jid => (Seen(messages, j) => Seen(t, j))
  BY <1>1, <1>3, AddNotes DEF OnceInv
<1> HIDE DEF t
<1>5. CASE partner = jid /\ appIsActive
  <2>1. SendDisplayedForJid(t, jid) /\ UNCHANGED <<partner, appIsActive>>
    BY <1>5 DEF ReceiveFrom, t
  <2>2. Noted(messages', reports') /\ (SendReadNotifications => Seen(messages', jid))
    BY <1>4, <2>1, ReportNotes DEF OnceInv, Types, ChatOK
  <2>3. QED
    BY <1>2, <1>5, <2>1, <2>2 DEF OnceInv
<1>6. CASE ~ (partner = jid /\ appIsActive)
  <2>1. messages' = t /\ UNCHANGED <<reports, partner, appIsActive>>
    BY <1>6 DEF ReceiveFrom, t
  <2>2. QED
    BY <1>2, <1>4, <1>6, <2>1 DEF OnceInv
<1>7. QED
  BY <1>5, <1>6

LEMMA OnceInit == Init => OnceInv
<1> SUFFICES ASSUME Init PROVE OnceInv
  OBVIOUS
<1>1. Types
  BY TypesInit
<1>2. IsTable(messages) /\ HoldsEachOnce(messages) /\ Received(messages)
  BY <1>1, EmptyFunction DEF Init, Types, TablesOK, HoldsEachOnce, Received
<1>3. Reported(messages, reports)
  BY DEF Init, Reported
<1>4. QED
  BY <1>1, <1>2, <1>3 DEF Init, OnceInv, Noted

LEMMA OnceStep == NoneElseMarks /\ OnceInv /\ [Next]_vars => OnceInv'
<1> SUFFICES ASSUME NoneElseMarks, OnceInv, [Next]_vars PROVE OnceInv'
  OBVIOUS
<1> USE DEF tables, environment
<1>0. Types'
  BY TypesStep DEF OnceInv
<1>1. ASSUME NEW id \in OwnIds, NEW jid \in Jids, SendMessage(id, jid) PROVE OnceInv'
  <2>1. id \in Ids /\ id \notin PeerIds /\ "out" \in Direction /\ "out" # "in"
    BY IdsAre, MessagingAssumption DEF MessagingAssumption, Direction
  <2>2. IsTable(AddMessage(messages, id, jid, "out", now))
    BY <1>1, <2>1, GrowType DEF SendMessage, OnceInv, Types
  <2>3. Noted(messages', reports) /\ \A j : Seen(messages, j) => Seen(messages', j)
    BY <1>1, <2>1, <2>2, AddNotes DEF SendMessage, OnceInv
  <2>4. QED
    BY <1>0, <1>1, <2>3 DEF SendMessage, OnceInv
<1>2. ASSUME NEW jid \in Jids \cup {NoJid}, SetCurrentChatPartner(jid) PROVE OnceInv'
  <2>1. CASE jid = NoJid
    BY <1>0, <1>2, <2>1 DEF SetCurrentChatPartner, OnceInv
  <2>2. CASE jid # NoJid
    <3>1. Noted(messages', reports') /\ (SendReadNotifications => Seen(messages', jid))
      BY <1>2, <2>2, ReportNotes DEF SetCurrentChatPartner, OnceInv, Types, ChatOK
    <3>2. QED
      BY <1>0, <1>2, <3>1 DEF SetCurrentChatPartner, OnceInv
  <2>3. QED
    BY <2>1, <2>2
<1>3. ASSUME NEW active \in BOOLEAN, AppGetsActive(active) PROVE OnceInv'
  <2>1. CASE active /\ partner # NoJid
    <3>1. Noted(messages', reports') /\ (SendReadNotifications => Seen(messages', partner))
      BY <1>3, <2>1, ReportNotes DEF AppGetsActive, OnceInv, Types, ChatOK
    <3>2. QED
      BY <1>0, <1>3, <3>1 DEF AppGetsActive, OnceInv
  <2>2. CASE ~ (active /\ partner # NoJid)
    BY <1>0, <1>3, <2>2 DEF AppGetsActive, OnceInv
  <2>3. QED
    BY <2>1, <2>2
<1>4. ASSUME NEW jid \in Jids, RemoveConversation(jid) PROVE OnceInv'
  <2>1. Noted(messages', reports') /\ \A j : Seen(messages, j) => Seen(messages', j)
    BY <1>4, RemoveNotes DEF RemoveConversation, OnceInv
  <2>2. QED
    BY <1>0, <1>4, <2>1 DEF RemoveConversation, OnceInv
<1>5. ASSUME NEW id \in OwnIds, NEW state \in MessageState,
             messages' = SetMessageStateOfId(messages, id, state),
             UNCHANGED <<reports, partner, appIsActive>>
      PROVE  OnceInv'
  <2>1. id \notin PeerIds
    BY MessagingAssumption DEF MessagingAssumption
  <2>2. Noted(messages', reports) /\ \A j : Seen(messages, j) => Seen(messages', j)
    BY <1>5, <2>1, MarkNotes DEF OnceInv
  <2>3. QED
    BY <1>0, <1>5, <2>2 DEF OnceInv
<1>6. ASSUME UNCHANGED <<messages, reports, partner, appIsActive>> PROVE OnceInv'
  BY <1>0, <1>6 DEF OnceInv
<1>7. ASSUME NEW id \in OwnIds, HandleStanzaAcked(id) PROVE OnceInv'
  BY <1>5, <1>6, <1>7 DEF HandleStanzaAcked, MessageState, SENT
<1>8. ASSUME NEW id \in PeerIds, HandleMessageReceived(id) PROVE OnceInv'
  BY <1>8, ReceiveNotes DEF HandleMessageReceived
<1>9. ASSUME NEW id \in OwnIds, HandleOwnGroupMessage(id) PROVE FALSE
  BY <1>9 DEF HandleOwnGroupMessage, NoneElseMarks
<1>10. ASSUME NEW id \in CarbonIds, NEW jid \in Jids, HandleSentCarbon(id, jid) PROVE OnceInv'
  <2>1. id \in Ids /\ id \notin PeerIds /\ "out" \in Direction /\ "out" # "in"
    BY IdsAre, MessagingAssumption DEF MessagingAssumption, Direction
  <2>2. IsTable(AddMessage(messages, id, jid, "out", now))
    BY <1>10, <2>1, GrowType DEF HandleSentCarbon, OnceInv, Types
  <2>3. Noted(messages', reports) /\ \A j : Seen(messages, j) => Seen(messages', j)
    BY <1>10, <2>1, <2>2, AddNotes DEF HandleSentCarbon, OnceInv
  <2>4. QED
    BY <1>0, <1>10, <2>3 DEF HandleSentCarbon, OnceInv
<1>11. ASSUME NEW id \in OwnIds, NEW mark \in 1 .. 2, HandleMarker(id, mark) PROVE OnceInv'
  <2>1. messages' = SetMessageStateOfId(messages, id, IF mark = 1 THEN RECEIVED ELSE DISPLAYED)
    BY <1>11 DEF HandleMarker, NoneElseMarks
  <2>2. (IF mark = 1 THEN RECEIVED ELSE DISPLAYED) \in MessageState
    BY DEF MessageState, RECEIVED, DISPLAYED
  <2>3. QED
    BY <1>5, <1>11, <2>1, <2>2 DEF HandleMarker
<1>12. ASSUME NEW time \in Times, ArchivedMessage(time) PROVE FALSE
  BY <1>12 DEF ArchivedMessage, ProcessArchivedMessage, NoneElseMarks
<1>13. ASSUME NEW mark \in 1 .. 2, ArchivedMarker(mark) PROVE FALSE
  BY <1>13 DEF ArchivedMarker, ProcessArchivedMarker, NoneElseMarks
<1>14. ASSUME NEW id \in OwnIds, ServerAccepts(id) \/ PeerGets(id) PROVE OnceInv'
  BY <1>6, <1>14 DEF ServerAccepts, PeerGets
<1>15. CASE Connect \/ Disconnect \/ Tick \/ UNCHANGED vars
  BY <1>6, <1>15 DEF Connect, Disconnect, Tick, vars
<1>16. CASE Restart
  BY <1>0, <1>16, FailNotes DEF Restart, OnceInv
<1>17. QED
  BY <1>1, <1>2, <1>3, <1>4, <1>7, <1>8, <1>9, <1>10, <1>11, <1>12, <1>13, <1>14, <1>15,
     <1>16 DEF Next

(* Without an archive and without rooms a message is reported at most      *)
(* once, for every order of opening, receiving, removing and restarting.   *)
THEOREM NeverReportedTwice == NoneElseMarks => (Spec => []ReportedOnce)
<1> SUFFICES ASSUME NoneElseMarks PROVE Spec => []ReportedOnce
  OBVIOUS
<1>1. OnceInv => ReportedOnce
  <2> SUFFICES ASSUME OnceInv, NEW id \in Ids PROVE reports[id] <= 1
    BY DEF ReportedOnce
  <2>1. reports[id] \in 0 .. 2
    BY DEF OnceInv, Types, ChatOK
  <2>2. QED
    BY <2>1 DEF OnceInv, Noted, Reported
<1>2. OnceInv /\ [Next]_vars => OnceInv'
  BY OnceStep
<1>3. QED
  BY <1>1, <1>2, OnceInit, PTL DEF Spec

(* And the newest message of the chat the user looks at was reported.      *)
THEOREM OpenChatAlwaysReported == NoneElseMarks => (Spec => []OpenChatIsReported)
<1> SUFFICES ASSUME NoneElseMarks PROVE Spec => []OpenChatIsReported
  OBVIOUS
<1>1. OnceInv => OpenChatIsReported
  BY DEF OnceInv, Seen, OpenChatIsReported, DISPLAYED_CONFIRMED
<1>2. OnceInv /\ [Next]_vars => OnceInv'
  BY OnceStep
<1>3. QED
  BY <1>1, <1>2, OnceInit, PTL DEF Spec


-----------------------------------------------------------------------------
(* What is reported.                                                       *)
LEMMA ReportNames ==
  ASSUME Types, NEW t, IsTable(t), NEW jid, SendDisplayedForJid(t, jid), NEW id \in Ids,
         reports'[id] > reports[id]
  PROVE  \E r \in NewestReceivedRows(messages', jid) : messages'[r].id = id
<1>1. reports[id] \in 0 .. 2
  BY DEF Types, ChatOK
<1>2. PICK r \in NewestReceivedRows(t, jid) :
         /\ messages' = SetMessageStateOfId(t, t[r].id, DISPLAYED_CONFIRMED)
         /\ reports' = [reports EXCEPT ![t[r].id] = Min2(@ + 1)]
  BY <1>1 DEF SendDisplayedForJid
<1>3. id = t[r].id
  BY <1>1, <1>2 DEF Types, ChatOK
<1>4. /\ DOMAIN messages' = DOMAIN t
      /\ \A s \in DOMAIN t : /\ messages'[s].id = t[s].id /\ messages'[s].jid = t[s].jid
                             /\ messages'[s].direction = t[s].direction
                             /\ messages'[s].time = t[s].time
  BY <1>2 DEF SetMessageStateOfId, IsTable, Row
<1>5. r \in NewestReceivedRows(messages', jid)
  BY <1>2, <1>4 DEF NewestReceivedRows
<1>6. QED
  BY <1>2, <1>3, <1>4, <1>5 DEF NewestReceivedRows

(* A displayed marker goes out for nothing but the newest message that was *)
(* received in the open chat, with an archive and rooms or without.        *)
THEOREM OnlyOpenChatReported == Spec => OnlyTheOpenChatIsReported
<1>1. Types /\ [Next]_vars =>
         [\A id \in Ids : reports'[id] > reports[id] =>
             \E r \in NewestReceivedRows(messages', partner') : messages'[r].id = id]_vars
  <2> SUFFICES ASSUME Types, [Next]_vars, NEW id \in Ids, reports'[id] > reports[id]
               PROVE  \E r \in NewestReceivedRows(messages', partner') : messages'[r].id = id
    OBVIOUS
  <2> USE DEF tables, environment
  <2>1. reports[id] \in 0 .. 2 /\ ~ UNCHANGED reports
    BY DEF Types, ChatOK
  <2>2. ASSUME NEW jid \in Jids \cup {NoJid}, SetCurrentChatPartner(jid)
        PROVE  \E r \in NewestReceivedRows(messages', partner') : messages'[r].id = id
    BY <2>1, <2>2, ReportNames DEF SetCurrentChatPartner, Types, TablesOK
  <2>3. ASSUME NEW active \in BOOLEAN, AppGetsActive(active)
        PROVE  \E r \in NewestReceivedRows(messages', partner') : messages'[r].id = id
    BY <2>1, <2>3, ReportNames DEF AppGetsActive, Types, TablesOK
  <2>4. ASSUME NEW jid \in Jids, RemoveConversation(jid) PROVE FALSE
    BY <2>1, <2>4 DEF RemoveConversation
  <2>5. ASSUME NEW m \in Ids, NEW jid \in Jids, ReceiveFrom(m, jid)
        PROVE  \E r \in NewestReceivedRows(messages', partner') : messages'[r].id = id
    <3>1. IsTable(AddMessage(messages, m, jid, "in", now))
      BY <2>5, GrowType DEF ReceiveFrom, Types, Direction
    <3>2. /\ SendDisplayedForJid(AddMessage(messages, m, jid, "in", now), jid)
          /\ partner' = jid
      BY <2>1, <2>5 DEF ReceiveFrom
    <3>3. QED
      BY <3>1, <3>2, ReportNames
  <2>6. ASSUME NEW m \in PeerIds, HandleMessageReceived(m)
        PROVE  \E r \in NewestReceivedRows(messages', partner') : messages'[r].id = id
    BY <2>5, <2>6, IdsAre, MessagingAssumption DEF HandleMessageReceived, MessagingAssumption
  <2>7. ASSUME NEW m \in OwnIds, HandleOwnGroupMessage(m)
        PROVE  \E r \in NewestReceivedRows(messages', partner') : messages'[r].id = id
    BY <2>5, <2>7, IdsAre, MessagingAssumption DEF HandleOwnGroupMessage, MessagingAssumption
  <2>8. QED
    BY <2>1, <2>2, <2>3, <2>4, <2>6, <2>7
       DEF Next, vars, SendMessage, HandleStanzaAcked, HandleSentCarbon, HandleMarker,
           ArchivedMessage, ProcessArchivedMessage, ArchivedMarker, ProcessArchivedMarker,
           ServerAccepts, PeerGets, Connect, Disconnect, Restart, Tick
<1>2. QED
  BY <1>1, TypesInit, TypesStep, PTL DEF Spec, OnlyTheOpenChatIsReported


-----------------------------------------------------------------------------
(* The store.  MessageStore_proofs shows that the store keeps its promises *)
(* when each of its operations is a step of its own.  Here a handler makes *)
(* several of them within one step, on tables the others have not seen; so *)
(* the promises are proved again, of Messaging's instance Store.           *)

LEMMA FirstRow ==
  ASSUME NEW t, IsTable(t), NEW id, RowsOfId(t, id) # {}
  PROVE  /\ FirstRowOfId(t, id) \in DOMAIN t
         /\ t[FirstRowOfId(t, id)].id = id
         /\ \A s \in DOMAIN t : t[s].id = id => FirstRowOfId(t, id) <= s
<1>1. RowsOfId(t, id) \in SUBSET Nat
  BY TableAssumption DEF IsTable, RowsOfId
<1>2. \E r \in RowsOfId(t, id) : \A s \in RowsOfId(t, id) : r <= s
  BY <1>1, LeastNumber
<1>3. QED
  BY <1>2 DEF FirstRowOfId, RowsOfId

LEMMA OperationsAgree ==
  ASSUME NEW t, IsTable(t), AgreesById(t), NEW id, NEW jid, NEW direction, NEW time,
         NEW state
  PROVE  /\ AgreesById(AddMessage(t, id, jid, direction, time))
         /\ AgreesById(SetMessageStateOfId(t, id, state))
         /\ AgreesById(RemoveMessagesFromJid(t, jid))
         /\ AgreesById(FailInterruptedUploads(t))
<1>1. AgreesById(AddMessage(t, id, jid, direction, time))
  <2>1. \A r \in DOMAIN t : r \in Nat /\ r < NextRow(t) /\ NextRow(t) \in Nat
    BY LastRow DEF IsTable
  <2>2. QED
    BY <2>1 DEF AddMessage, AgreesById
<1>2. AgreesById(SetMessageStateOfId(t, id, state))
  BY DEF SetMessageStateOfId, AgreesById, IsTable, Row
<1>3. AgreesById(RemoveMessagesFromJid(t, jid))
  BY DEF RemoveMessagesFromJid, AgreesById
<1>4. AgreesById(FailInterruptedUploads(t))
  BY DEF FailInterruptedUploads, AgreesById, IsTable, Row, DEFAULT, UPLOADING_ATTACHMENT
<1>5. QED
  BY <1>1, <1>2, <1>3, <1>4

(* The check against the first row with the id decides right for each.     *)
LEMMA MarkIsValid ==
  ASSUME NEW t, IsTable(t), AgreesById(t), NEW id,
         NEW state \in MessageState \ {DEFAULT}, NEW r \in DOMAIN t,
         SetMessageStateOfId(t, id, state)[r].state # t[r].state
  PROVE  ValidStateChange(t[r].state, SetMessageStateOfId(t, id, state)[r].state)
<1> DEFINE f == FirstRowOfId(t, id)
<1>1. ValidStateChange(StateOfMessageId(t, id), state) /\ t[r].id = id
  BY DEF SetMessageStateOfId
<1>2. SetMessageStateOfId(t, id, state)[r].state = state
  BY <1>1 DEF SetMessageStateOfId, IsTable, Row
<1>3. RowsOfId(t, id) # {}
  BY <1>1 DEF RowsOfId
<1>4. f \in DOMAIN t /\ t[f].id = id /\ f <= r
  BY <1>1, <1>3, FirstRow
<1>5. ValidStateChange(t[f].state, state)
  BY <1>1, <1>3 DEF StateOfMessageId
<1>6. t[r].state \in {t[f].state, DEFAULT}
  BY <1>1, <1>4 DEF AgreesById, IsTable
<1>7. t[f].state \in MessageState
  BY <1>4 DEF IsTable, Row
<1>8. QED
  BY <1>2, <1>5, <1>6, <1>7 DEF ValidStateChange, MessageState, DEFAULT,
     DISPLAYED_CONFIRMED, UPLOADING_ATTACHMENT

LEMMA MarksKeepRows ==
  ASSUME NEW t, IsTable(t), NEW id, NEW state
  PROVE  /\ DOMAIN SetMessageStateOfId(t, id, state) = DOMAIN t
         /\ \A r \in DOMAIN t : SetMessageStateOfId(t, id, state)[r].jid = t[r].jid
         /\ DOMAIN FailInterruptedUploads(t) = DOMAIN t
         /\ \A r \in DOMAIN t : FailInterruptedUploads(t)[r].jid = t[r].jid
BY DEF SetMessageStateOfId, FailInterruptedUploads, IsTable, Row

-----------------------------------------------------------------------------
(* What a step does to the tables: at most two operations of the store on  *)
(* the messages and one on the sessions, or one on the members' marks.     *)
Adds == \E id \in Ids, jid \in Jids, direction \in Direction, time \in Times :
           /\ messages' = AddMessage(messages, id, jid, direction, time)
           /\ sessions' = SessionsWith(id, jid) /\ MayGrow(jid)
           /\ UNCHANGED <<partner, markers>>
AddsAndReports == \E id \in Ids, jid \in Jids :
           /\ partner = jid /\ appIsActive /\ MayGrow(jid)
           /\ SendDisplayedForJid(AddMessage(messages, id, jid, "in", now), jid)
           /\ sessions' = SessionsWith(id, jid)
           /\ UNCHANGED <<partner, markers>>
Opens == \E jid \in Jids \cup {NoJid} :
           /\ SendDisplayedForJid(messages, jid) \/ UNCHANGED messages
           /\ sessions' = Store!UpdateNumberOfUnreadMessages(sessions, jid, 0)
           /\ partner' = jid /\ UNCHANGED markers
Reports == SendDisplayedForJid(messages, partner) /\ UNCHANGED <<sessions, partner, markers>>
Marks == \E id \in Ids, state \in {SENT, RECEIVED, DISPLAYED} :
           /\ messages' = SetMessageStateOfId(messages, id, state)
           /\ UNCHANGED <<sessions, partner, markers>>
MarksMember == \E id \in Ids, member \in Members, mark \in 1 .. 2 :
           /\ markers' = MarkedByMember(id, member, mark)
           /\ UNCHANGED <<messages, sessions, partner>>
Removes == \E jid \in Jids :
           /\ messages' = RemoveMessagesFromJid(messages, jid)
           /\ sessions' = Store!RemoveSession(sessions, jid)
           /\ UNCHANGED <<partner, markers>>
Rests == UNCHANGED <<messages, sessions, partner, markers>>

OperatesOnStore == Adds \/ AddsAndReports \/ Opens \/ Reports \/ Marks \/ MarksMember
                     \/ Removes \/ Restart \/ Rests

LEMMA ReceiveOperates ==
  ASSUME Types, NEW id \in Ids, NEW jid \in Jids, ReceiveFrom(id, jid)
  PROVE  Adds \/ AddsAndReports
<1>1. now \in Times /\ "in" \in Direction
  BY DEF Types, Direction
<1>2. CASE partner = jid /\ appIsActive
  BY <1>2 DEF ReceiveFrom, AddsAndReports
<1>3. CASE ~(partner = jid /\ appIsActive)
  BY <1>1, <1>3 DEF ReceiveFrom, Adds
<1>4. QED
  BY <1>2, <1>3

LEMMA StoreOperations == Types /\ [Next]_vars => OperatesOnStore
<1> SUFFICES ASSUME Types, [Next]_vars PROVE OperatesOnStore
  OBVIOUS
<1> USE DEF tables
<1>1. ASSUME NEW id \in OwnIds, NEW jid \in Jids, SendMessage(id, jid) PROVE Adds
  <2>1. id \in Ids /\ now \in Times /\ "out" \in Direction
    BY IdsAre DEF Types, Direction
  <2>2. QED
    BY <1>1, <2>1 DEF SendMessage, Adds
<1>2. ASSUME NEW jid \in Jids \cup {NoJid}, SetCurrentChatPartner(jid) PROVE Opens
  BY <1>2 DEF SetCurrentChatPartner, Opens
<1>3. ASSUME NEW active \in BOOLEAN, AppGetsActive(active) PROVE Reports \/ Rests
  BY <1>3 DEF AppGetsActive, Reports, Rests
<1>4. ASSUME NEW jid \in Jids, RemoveConversation(jid) PROVE Removes
  BY <1>4 DEF RemoveConversation, Removes
<1>5. ASSUME NEW id \in OwnIds, HandleStanzaAcked(id) PROVE Marks \/ Rests
  BY <1>5, IdsAre DEF HandleStanzaAcked, Marks, Rests
<1>6. ASSUME NEW id \in PeerIds, HandleMessageReceived(id) PROVE Adds \/ AddsAndReports
  BY <1>6, IdsAre, ReceiveOperates, MessagingAssumption
     DEF HandleMessageReceived, MessagingAssumption
<1>7. ASSUME NEW id \in OwnIds, HandleOwnGroupMessage(id) PROVE Adds \/ AddsAndReports
  BY <1>7, IdsAre, ReceiveOperates, MessagingAssumption
     DEF HandleOwnGroupMessage, MessagingAssumption
<1>8. ASSUME NEW id \in CarbonIds, NEW jid \in Jids, HandleSentCarbon(id, jid) PROVE Adds
  <2>1. id \in Ids /\ now \in Times /\ "out" \in Direction
    BY IdsAre DEF Types, Direction
  <2>2. QED
    BY <1>8, <2>1 DEF HandleSentCarbon, Adds
<1>9. ASSUME NEW id \in OwnIds, NEW mark \in 1 .. 2, HandleMarker(id, mark)
      PROVE  Marks \/ MarksMember
  BY <1>9, IdsAre DEF HandleMarker, Marks, MarksMember
<1>10. ASSUME NEW time \in Times, ArchivedMessage(time) PROVE Adds
  <2>1. PICK m \in InArchive : ProcessArchivedMessage(m.id, m.jid, m.direction, time)
    BY <1>10 DEF ArchivedMessage
  <2>2. m.id \in Ids /\ m.jid \in Jids /\ m.direction \in Direction
    BY ArchiveType DEF Types
  <2>3. QED
    BY <2>1, <2>2 DEF ProcessArchivedMessage, Adds
<1>11. ASSUME NEW mark \in 1 .. 2, ArchivedMarker(mark) PROVE Marks \/ MarksMember
  <2>1. PICK m \in InArchive : ProcessArchivedMarker(m.id, m.jid, mark)
    BY <1>11 DEF ArchivedMarker
  <2>2. m.id \in Ids
    BY ArchiveType DEF Types
  <2>3. QED
    BY <2>1, <2>2 DEF ProcessArchivedMarker, Marks, MarksMember
<1>12. ASSUME NEW id \in OwnIds, ServerAccepts(id) \/ PeerGets(id) PROVE Rests
  BY <1>12 DEF ServerAccepts, PeerGets, Rests
<1>13. CASE Connect \/ Disconnect \/ Tick \/ UNCHANGED vars
  BY <1>13 DEF Connect, Disconnect, Tick, vars, Rests, OperatesOnStore
<1>14. QED
  BY <1>1, <1>2, <1>3, <1>4, <1>5, <1>6, <1>7, <1>8, <1>9, <1>10, <1>11, <1>12, <1>13
     DEF Next, OperatesOnStore

-----------------------------------------------------------------------------
(* The messages and the sessions.  That each message has its session, and  *)
(* that the open chat counts nothing, is so here, where a handler comes to *)
(* its end before the program does; MessageStore has the other case, and   *)
(* what is promised below leaves the sessions out.                         *)
Kept(t, s) == /\ IsTable(t) /\ HoldsEachOnce(t) /\ AgreesById(t)
              /\ \A r \in DOMAIN t : t[r].jid \in DOMAIN s
IsRead(s, p) == p \in DOMAIN s => s[p] = 0

(* How the rows may change; a new one is shown as displayed at once only   *)
(* if the user looks at its chat.                                          *)
Changes(t, u) ==
    /\ \A r \in DOMAIN t \cap DOMAIN u :
          u[r].state # t[r].state => ValidStateChange(t[r].state, u[r].state)
    /\ \A r \in DOMAIN u \ DOMAIN t :
          \/ u[r].state = DEFAULT
          \/ /\ u[r].state = DISPLAYED_CONFIRMED /\ u[r].direction = "in"
             /\ u[r].jid = partner /\ appIsActive /\ SendReadNotifications

StoreInv == Types /\ Kept(messages, sessions) /\ IsRead(sessions, partner)

LEMMA AddKept ==
  ASSUME StoreInv, NEW id \in Ids, NEW jid \in Jids, MayGrow(jid),
         NEW direction \in Direction, NEW time \in Times
  PROVE  LET t == AddMessage(messages, id, jid, direction, time)
         IN  /\ Kept(t, SessionsWith(id, jid)) /\ IsRead(SessionsWith(id, jid), partner)
             /\ DOMAIN messages \subseteq DOMAIN t
             /\ \A r \in DOMAIN messages : t[r] = messages[r]
             /\ \A r \in DOMAIN t \ DOMAIN messages :
                   t[r].state = DEFAULT /\ t[r].jid = jid /\ t[r].direction = direction
<1> DEFINE t == AddMessage(messages, id, jid, direction, time)
           s == SessionsWith(id, jid)
<1>1. IsTable(t) /\ HoldsEachOnce(t) /\ AgreesById(t)
  BY GrowType, OperationsHoldEachOnce, OperationsAgree DEF StoreInv, Kept
<1>2. /\ DOMAIN messages \subseteq DOMAIN t
      /\ \A r \in DOMAIN messages : t[r] = messages[r]
      /\ \A r \in DOMAIN t \ DOMAIN messages :
            t[r].state = DEFAULT /\ t[r].jid = jid /\ t[r].direction = direction
  <2>1. NextRow(messages) \notin DOMAIN messages
    BY LastRow DEF StoreInv, Kept, IsTable
  <2>2. QED
    BY <2>1 DEF AddMessage
<1>3. \A r \in DOMAIN t : t[r].jid \in DOMAIN s
  BY DEF StoreInv, Kept, AddMessage, SessionsWith, Store!UpdateSession
<1>4. IsRead(s, partner)
  BY DEF StoreInv, IsRead, SessionsWith, Store!UpdateSession, Store!UnreadOf
<1>5. QED
  BY <1>1, <1>2, <1>3, <1>4 DEF Kept

LEMMA MarkKept ==
  ASSUME NEW t, NEW s, Kept(t, s), NEW id, NEW state \in MessageState \ {DEFAULT}
  PROVE  LET u == SetMessageStateOfId(t, id, state)
         IN  /\ Kept(u, s)
             /\ DOMAIN u = DOMAIN t
             /\ \A r \in DOMAIN t :
                   /\ u[r].jid = t[r].jid /\ u[r].direction = t[r].direction
                   /\ u[r].state \in {t[r].state, state}
                   /\ u[r].state # t[r].state => ValidStateChange(t[r].state, u[r].state)
<1> DEFINE u == SetMessageStateOfId(t, id, state)
<1>1. IsTable(u) /\ HoldsEachOnce(u) /\ AgreesById(u)
  BY SetStateType, OperationsHoldEachOnce, OperationsAgree DEF Kept
<1>2. DOMAIN u = DOMAIN t /\ \A r \in DOMAIN t : u[r].jid = t[r].jid
  BY MarksKeepRows DEF Kept
<1>3. \A r \in DOMAIN t : u[r].direction = t[r].direction /\ u[r].state \in {t[r].state, state}
  BY DEF SetMessageStateOfId, Kept, IsTable, Row
<1>4. \A r \in DOMAIN t : u[r].state # t[r].state => ValidStateChange(t[r].state, u[r].state)
  BY MarkIsValid DEF Kept
<1>5. QED
  BY <1>1, <1>2, <1>3, <1>4 DEF Kept

(* A report, of the messages as they are or with the one just added.       *)
LEMMA ReportKept ==
  ASSUME NEW t, NEW s, Kept(t, s), NEW jid, SendDisplayedForJid(t, jid)
  PROVE  /\ Kept(messages', s)
         /\ DOMAIN messages' = DOMAIN t
         /\ \A r \in DOMAIN t :
               /\ messages'[r].jid = t[r].jid /\ messages'[r].direction = t[r].direction
               /\ messages'[r].state # t[r].state
                  => /\ ValidStateChange(t[r].state, messages'[r].state)
                     /\ messages'[r].state = DISPLAYED_CONFIRMED /\ SendReadNotifications
<1>1. CASE messages' = t
  BY <1>1
<1>2. ASSUME SendReadNotifications, NEW id,
             messages' = SetMessageStateOfId(t, id, DISPLAYED_CONFIRMED)
      PROVE  /\ Kept(messages', s)
             /\ DOMAIN messages' = DOMAIN t
             /\ \A r \in DOMAIN t :
                   /\ messages'[r].jid = t[r].jid /\ messages'[r].direction = t[r].direction
                   /\ messages'[r].state # t[r].state
                      => /\ ValidStateChange(t[r].state, messages'[r].state)
                         /\ messages'[r].state = DISPLAYED_CONFIRMED /\ SendReadNotifications
  <2>1. DISPLAYED_CONFIRMED \in MessageState \ {DEFAULT}
    BY DEF DISPLAYED_CONFIRMED, MessageState, DEFAULT
  <2>2. QED
    BY <1>2, <2>1, MarkKept
<1>3. QED
  BY <1>1, <1>2 DEF SendDisplayedForJid

LEMMA StoreInit == Init => StoreInv
<1> SUFFICES ASSUME Init PROVE StoreInv
  OBVIOUS
<1>1. Types
  BY TypesInit
<1>2. DOMAIN messages = {} /\ DOMAIN sessions = {}
  BY EmptyFunction DEF Init
<1>3. QED
  BY <1>1, <1>2 DEF StoreInv, Kept, IsRead, HoldsEachOnce, AgreesById, Types, TablesOK

LEMMA StoreStep == StoreInv /\ [Next]_vars => StoreInv' /\ Changes(messages, messages')
<1> SUFFICES ASSUME StoreInv, [Next]_vars
             PROVE  Kept(messages', sessions') /\ IsRead(sessions', partner')
                    /\ Changes(messages, messages')
  BY TypesStep DEF StoreInv
<1>0. Kept(messages, sessions) /\ IsRead(sessions, partner) /\ OperatesOnStore
  BY StoreOperations DEF StoreInv
<1>1. CASE Adds
  <2>1. PICK id \in Ids, jid \in Jids, direction \in Direction, time \in Times :
           /\ messages' = AddMessage(messages, id, jid, direction, time)
           /\ sessions' = SessionsWith(id, jid) /\ MayGrow(jid)
           /\ partner' = partner
    BY <1>1 DEF Adds
  <2>2. /\ Kept(messages', sessions') /\ IsRead(sessions', partner)
        /\ \A r \in DOMAIN messages : messages'[r] = messages[r]
        /\ \A r \in DOMAIN messages' \ DOMAIN messages : messages'[r].state = DEFAULT
    BY <2>1, AddKept
  <2>3. QED
    BY <2>1, <2>2 DEF Changes
<1>2. CASE AddsAndReports
  <2>1. PICK id \in Ids, jid \in Jids :
           /\ partner = jid /\ appIsActive /\ MayGrow(jid)
           /\ SendDisplayedForJid(AddMessage(messages, id, jid, "in", now), jid)
           /\ sessions' = SessionsWith(id, jid)
           /\ partner' = partner
    BY <1>2 DEF AddsAndReports
  <2> DEFINE t == AddMessage(messages, id, jid, "in", now)
  <2>2. now \in Times /\ "in" \in Direction
    BY DEF StoreInv, Types, Direction
  <2>3. /\ Kept(t, sessions') /\ IsRead(sessions', partner)
        /\ DOMAIN messages \subseteq DOMAIN t
        /\ \A r \in DOMAIN messages : t[r] = messages[r]
        /\ \A r \in DOMAIN t \ DOMAIN messages :
              t[r].state = DEFAULT /\ t[r].jid = jid /\ t[r].direction = "in"
    BY <2>1, <2>2, AddKept
  <2>4. SendDisplayedForJid(t, jid)
    BY <2>1
  <2> HIDE DEF t
  <2>5. /\ Kept(messages', sessions')
        /\ DOMAIN messages' = DOMAIN t
        /\ \A r \in DOMAIN t :
              /\ messages'[r].jid = t[r].jid /\ messages'[r].direction = t[r].direction
              /\ messages'[r].state # t[r].state
                 => /\ ValidStateChange(t[r].state, messages'[r].state)
                    /\ messages'[r].state = DISPLAYED_CONFIRMED /\ SendReadNotifications
    BY <2>3, <2>4, ReportKept
  <2>6. Changes(messages, messages')
    <3>1. ASSUME NEW r \in DOMAIN messages \cap DOMAIN messages',
                 messages'[r].state # messages[r].state
          PROVE  ValidStateChange(messages[r].state, messages'[r].state)
      BY <2>3, <2>5, <3>1
    <3>2. ASSUME NEW r \in DOMAIN messages' \ DOMAIN messages
          PROVE  \/ messages'[r].state = DEFAULT
                 \/ /\ messages'[r].state = DISPLAYED_CONFIRMED
                    /\ messages'[r].direction = "in"
                    /\ messages'[r].jid = partner /\ appIsActive /\ SendReadNotifications
      BY <2>1, <2>3, <2>5
    <3>3. QED
      BY <3>1, <3>2 DEF Changes
  <2>7. QED
    BY <2>1, <2>3, <2>5, <2>6
<1>3. CASE Opens
  <2>1. PICK jid \in Jids \cup {NoJid} :
           /\ SendDisplayedForJid(messages, jid) \/ messages' = messages
           /\ sessions' = Store!UpdateNumberOfUnreadMessages(sessions, jid, 0)
           /\ partner' = jid
    BY <1>3 DEF Opens
  <2>2. Kept(messages', sessions) /\ Changes(messages, messages')
    BY <1>0, <2>1, ReportKept DEF Changes
  <2>3. DOMAIN sessions' = DOMAIN sessions /\ IsRead(sessions', jid)
    BY <2>1 DEF IsRead, Store!UpdateNumberOfUnreadMessages
  <2>4. QED
    BY <2>1, <2>2, <2>3 DEF Kept
<1>4. CASE Reports
  <2>1. Kept(messages', sessions) /\ Changes(messages, messages')
    BY <1>0, <1>4, ReportKept DEF Reports, Changes
  <2>2. QED
    BY <1>0, <1>4, <2>1 DEF Reports
<1>5. CASE Marks
  <2>1. PICK id \in Ids, state \in {SENT, RECEIVED, DISPLAYED} :
           messages' = SetMessageStateOfId(messages, id, state)
    BY <1>5 DEF Marks
  <2>2. state \in MessageState \ {DEFAULT}
    BY DEF SENT, RECEIVED, DISPLAYED, MessageState, DEFAULT
  <2>3. Kept(messages', sessions) /\ Changes(messages, messages')
    BY <1>0, <2>1, <2>2, MarkKept DEF Changes
  <2>4. QED
    BY <1>0, <1>5, <2>3 DEF Marks
<1>6. CASE Removes
  <2>1. PICK jid \in Jids :
           /\ messages' = RemoveMessagesFromJid(messages, jid)
           /\ sessions' = Store!RemoveSession(sessions, jid)
           /\ partner' = partner
    BY <1>6 DEF Removes
  <2>2. IsTable(messages') /\ HoldsEachOnce(messages') /\ AgreesById(messages')
    BY <1>0, <2>1, RemoveType, OperationsHoldEachOnce, OperationsAgree DEF Kept
  <2>3. \A r \in DOMAIN messages' :
           r \in DOMAIN messages /\ messages'[r] = messages[r] /\ messages[r].jid # jid
    BY <2>1 DEF RemoveMessagesFromJid
  <2>4. /\ DOMAIN sessions' = DOMAIN sessions \ {jid}
        /\ \A j \in DOMAIN sessions' : sessions'[j] = sessions[j]
    BY <2>1 DEF Store!RemoveSession
  <2>5. QED
    BY <1>0, <2>1, <2>2, <2>3, <2>4 DEF Kept, IsRead, Changes
<1>7. CASE Restart
  <2>1. Kept(messages', sessions')
    BY <1>0, <1>7, FailUploadsType, OperationsHoldEachOnce, OperationsAgree, MarksKeepRows
       DEF Kept, Restart
  <2>2. NoJid \notin DOMAIN sessions
    BY MessagingAssumption DEF MessagingAssumption, StoreInv, Types, TablesOK, IsSessions
  <2>3. Changes(messages, messages')
    BY <1>0, <1>7 DEF Restart, FailInterruptedUploads, Kept, IsTable, Row, Changes,
       ValidStateChange
  <2>4. QED
    BY <1>7, <2>1, <2>2, <2>3 DEF IsRead, Restart
<1>8. CASE MarksMember \/ Rests
  BY <1>0, <1>8 DEF MarksMember, Rests, Changes
<1>9. QED
  BY <1>0, <1>1, <1>2, <1>3, <1>4, <1>5, <1>6, <1>7, <1>8 DEF OperatesOnStore

LEMMA StoreInvariant == Spec => []StoreInv
BY StoreInit, StoreStep, PTL DEF Spec

(* The names of MessageStore for what Kept and Changes say.                *)
LEMMA SamePromises ==
  /\ StoreInv => Store!NoMessageTwice /\ Store!SameIdSameState
  /\ Changes(messages, messages')
     => \A r \in DOMAIN messages \cap DOMAIN messages' :
           messages'[r].state # messages[r].state
           => Store!ValidStateChange(messages[r].state, messages'[r].state)
BY DEF StoreInv, Kept, Store!NoMessageTwice, Store!HoldsEachOnce, HoldsEachOnce,
   Store!SameIdSameState, Store!AgreesById, AgreesById, Changes,
   Store!ValidStateChange, ValidStateChange,
   Store!DEFAULT, DEFAULT, Store!DISPLAYED_CONFIRMED, DISPLAYED_CONFIRMED,
   Store!UPLOADING_ATTACHMENT, UPLOADING_ATTACHMENT

(* However the handlers combine the operations of the store, it keeps what *)
(* it promises of its messages: none twice, rows with one id in one state. *)
THEOREM StoreStaysSafe ==
  Spec => [](Store!NoMessageTwice /\ Store!SameIdSameState)
BY StoreInvariant, SamePromises, PTL

(* A message that is added and reported in one step, too, changes its      *)
(* state only as the comment above setMessageStateOfId allows.             *)
THEOREM StoreChangesValidly == Spec => Store!OnlyValidStateChanges
<1>1. StoreInv /\ [Next]_vars
      => [\A r \in DOMAIN messages \cap DOMAIN messages' :
             messages'[r].state # messages[r].state
             => Store!ValidStateChange(messages[r].state, messages'[r].state)]_Store!vars
  BY StoreStep, SamePromises
<1>2. QED
  BY <1>1, StoreInvariant, PTL DEF Spec, Store!OnlyValidStateChanges

(* A message enters the list of its chat as new.  It is shown as displayed *)
(* at once only if the user looks at the chat and lets others know.        *)
EntersAsNew ==
    [][\A r \in DOMAIN messages' \ DOMAIN messages :
          \/ messages'[r].state = DEFAULT
          \/ /\ messages'[r].state = DISPLAYED_CONFIRMED /\ messages'[r].direction = "in"
             /\ messages'[r].jid = partner /\ appIsActive /\ SendReadNotifications]_vars

THEOREM MessagesEnterAsNew == Spec => EntersAsNew
<1>1. StoreInv /\ [Next]_vars => Changes(messages, messages')
  BY StoreStep
<1>2. QED
  BY <1>1, StoreInvariant, PTL DEF Spec, EntersAsNew, Changes

(* What a member of a room has seen stays seen, whether its marks come     *)
(* live or from the archive.                                               *)
MarksGrow == \A m \in Ids \X Members : markers[m] <= markers'[m]

THEOREM MemberMarksStay == Spec => Store!MemberMarksOnlyGrow
<1>1. Types /\ [Next]_vars => [MarksGrow]_Store!vars
  <2> SUFFICES ASSUME Types, [Next]_vars PROVE MarksGrow
    OBVIOUS
  <2>1. markers \in [Ids \X Members -> 0 .. 2]
    BY DEF Types, MarksOK
  <2>2. CASE MarksMember
    <3>1. PICK id \in Ids, member \in Members, mark \in 1 .. 2 :
             markers' = MarkedByMember(id, member, mark)
      BY <2>2 DEF MarksMember
    <3>2. ASSUME NEW m \in Ids \X Members PROVE markers[m] <= markers'[m]
      BY <2>1, <3>1 DEF MarkedByMember
    <3>3. QED
      BY <3>2 DEF MarksGrow
  <2>3. CASE UNCHANGED markers
    BY <2>1, <2>3 DEF MarksGrow
  <2>4. QED
    BY <2>2, <2>3, StoreOperations DEF OperatesOnStore, Adds, AddsAndReports, Opens,
       Reports, Marks, Removes, Restart, Rests
<1>2. QED
  BY <1>1, TypesInit, TypesStep, PTL DEF Spec, Store!MemberMarksOnlyGrow, MarksGrow

-----------------------------------------------------------------------------
(* The number of unread messages: whatever is added, it counts rows that   *)
(* the conversation holds.                                                 *)
HeldIn(t, j) == {r \in DOMAIN t : t[r].jid = j}
Counts(s, t) == \A j \in DOMAIN s : s[j] <= Cardinality(HeldIn(t, j))
UnreadAreHeld == Counts(sessions, messages)

LEMMA HeldCount ==
  ASSUME NEW t, IsTable(t), NEW j
  PROVE  IsFiniteSet(HeldIn(t, j)) /\ Cardinality(HeldIn(t, j)) \in Nat
<1>1. HeldIn(t, j) \subseteq 1 .. MaxRow /\ IsFiniteSet(1 .. MaxRow)
  BY TableAssumption, FS_Interval DEF HeldIn, IsTable
<1>2. IsFiniteSet(HeldIn(t, j))
  BY <1>1, FS_Subset
<1>3. QED
  BY <1>2, FS_CardinalityType

LEMMA AddCounts ==
  ASSUME StoreInv, UnreadAreHeld, NEW id \in Ids, NEW jid \in Jids, MayGrow(jid),
         NEW direction \in Direction, NEW time \in Times
  PROVE  Counts(SessionsWith(id, jid), AddMessage(messages, id, jid, direction, time))
<1> DEFINE t == AddMessage(messages, id, jid, direction, time)
           s == SessionsWith(id, jid)
           row == NextRow(messages)
<1>1. CASE IsMessageIdForJid(messages, id, jid)
  BY <1>1 DEF UnreadAreHeld, AddMessage, SessionsWith
<1>2. CASE ~IsMessageIdForJid(messages, id, jid)
  <2>1. IsTable(messages) /\ row \notin DOMAIN messages
    BY LastRow DEF StoreInv, Kept, IsTable
  <2>2. /\ DOMAIN t = DOMAIN messages \cup {row} /\ t[row].jid = jid
        /\ \A r \in DOMAIN messages : t[r] = messages[r]
    BY <1>2, <2>1 DEF AddMessage
  <2> HIDE DEF t, row
  <2>3. HeldIn(t, jid) = HeldIn(messages, jid) \cup {row} /\ row \notin HeldIn(messages, jid)
    BY <2>1, <2>2 DEF HeldIn
  <2>4. Cardinality(HeldIn(t, jid)) = Cardinality(HeldIn(messages, jid)) + 1
    BY <2>1, <2>3, HeldCount, FS_AddElement
  <2>5. \A j : j # jid => HeldIn(t, j) = HeldIn(messages, j)
    BY <2>1, <2>2 DEF HeldIn
  <2>6. /\ DOMAIN s = DOMAIN sessions \cup {jid}
        /\ \A j \in DOMAIN sessions : j # jid => s[j] = sessions[j]
        /\ s[jid] \in {Store!UnreadOf(sessions, jid), Store!UnreadOf(sessions, jid) + 1}
    BY <1>2 DEF SessionsWith, Store!UpdateSession
  <2> HIDE DEF s
  <2>7. /\ Store!UnreadOf(sessions, jid) \in Nat
        /\ Store!UnreadOf(sessions, jid) <= Cardinality(HeldIn(messages, jid))
    <3>1. Cardinality(HeldIn(messages, jid)) \in Nat
      BY <2>1, HeldCount
    <3>2. CASE jid \in DOMAIN sessions
      BY <3>2 DEF Store!UnreadOf, UnreadAreHeld, Counts, StoreInv, Types, TablesOK, IsSessions
    <3>3. CASE jid \notin DOMAIN sessions
      BY <3>1, <3>3 DEF Store!UnreadOf
    <3>4. QED
      BY <3>2, <3>3
  <2>8. s[jid] <= Cardinality(HeldIn(t, jid))
    BY <2>1, <2>4, <2>6, <2>7, HeldCount
  <2>9. Counts(s, t)
    BY <2>5, <2>6, <2>8 DEF Counts, UnreadAreHeld
  <2>10. QED
    BY <2>9 DEF s, t
<1>3. QED
  BY <1>1, <1>2

LEMMA SameHeld ==
  ASSUME NEW t, NEW u, DOMAIN u = DOMAIN t, \A r \in DOMAIN t : u[r].jid = t[r].jid, NEW s,
         Counts(s, t)
  PROVE  Counts(s, u)
BY DEF Counts, HeldIn

LEMMA ReportCounts ==
  ASSUME NEW t, NEW s, Kept(t, s), Counts(s, t), NEW jid, SendDisplayedForJid(t, jid)
  PROVE  Counts(s, messages')
BY ReportKept, SameHeld

LEMMA HeldStep == StoreInv /\ UnreadAreHeld /\ [Next]_vars => UnreadAreHeld'
<1> SUFFICES ASSUME StoreInv, UnreadAreHeld, [Next]_vars
             PROVE  Counts(sessions', messages')
  BY DEF UnreadAreHeld
<1>0. Kept(messages, sessions) /\ Counts(sessions, messages) /\ OperatesOnStore
  BY StoreOperations DEF StoreInv, UnreadAreHeld
<1>1. CASE Adds
  BY <1>1, AddCounts DEF Adds
<1>2. CASE AddsAndReports
  <2>1. PICK id \in Ids, jid \in Jids :
           /\ partner = jid /\ appIsActive /\ MayGrow(jid)
           /\ SendDisplayedForJid(AddMessage(messages, id, jid, "in", now), jid)
           /\ sessions' = SessionsWith(id, jid)
    BY <1>2 DEF AddsAndReports
  <2>2. now \in Times /\ "in" \in Direction
    BY DEF StoreInv, Types, Direction
  <2> DEFINE t == AddMessage(messages, id, jid, "in", now)
  <2>3. Kept(t, sessions') /\ Counts(sessions', t)
    BY <2>1, <2>2, AddKept, AddCounts
  <2>4. QED
    BY <2>1, <2>3, ReportCounts
<1>3. CASE Opens
  <2>1. PICK jid \in Jids \cup {NoJid} :
           /\ SendDisplayedForJid(messages, jid) \/ messages' = messages
           /\ sessions' = Store!UpdateNumberOfUnreadMessages(sessions, jid, 0)
    BY <1>3 DEF Opens
  <2>2. Counts(sessions, messages') /\ Kept(messages', sessions)
    BY <1>0, <2>1, ReportKept, ReportCounts
  <2>3. \A j : Cardinality(HeldIn(messages', j)) \in Nat
    BY <2>2, HeldCount DEF Kept
  <2>4. /\ DOMAIN sessions' = DOMAIN sessions
        /\ \A j \in DOMAIN sessions : sessions'[j] = IF j = jid THEN 0 ELSE sessions[j]
    BY <2>1 DEF Store!UpdateNumberOfUnreadMessages
  <2>5. ASSUME NEW j \in DOMAIN sessions'
        PROVE  sessions'[j] <= Cardinality(HeldIn(messages', j))
    <3>1. CASE j = jid
      BY <2>3, <2>4, <3>1
    <3>2. CASE j # jid
      BY <2>2, <2>4, <3>2 DEF Counts
    <3>3. QED
      BY <3>1, <3>2
  <2>6. QED
    BY <2>5 DEF Counts
<1>4. CASE Reports
  BY <1>0, <1>4, ReportCounts DEF Reports
<1>5. CASE Marks
  BY <1>0, <1>5, MarksKeepRows, SameHeld DEF Marks, Kept
<1>6. CASE Removes
  <2>1. PICK jid \in Jids :
           /\ messages' = RemoveMessagesFromJid(messages, jid)
           /\ sessions' = Store!RemoveSession(sessions, jid)
    BY <1>6 DEF Removes
  <2>2. \A j : j # jid => HeldIn(messages', j) = HeldIn(messages, j)
    BY <2>1 DEF RemoveMessagesFromJid, HeldIn
  <2>3. /\ DOMAIN sessions' = DOMAIN sessions \ {jid}
        /\ \A j \in DOMAIN sessions' : sessions'[j] = sessions[j]
    BY <2>1 DEF Store!RemoveSession
  <2>4. QED
    BY <1>0, <2>2, <2>3 DEF Counts
<1>7. CASE Restart
  BY <1>0, <1>7, MarksKeepRows, SameHeld DEF Restart, Kept
<1>8. CASE MarksMember \/ Rests
  BY <1>0, <1>8 DEF MarksMember, Rests
<1>9. QED
  BY <1>0, <1>1, <1>2, <1>3, <1>4, <1>5, <1>6, <1>7, <1>8 DEF OperatesOnStore

(* The unread number of a conversation is never more than the messages it  *)
(* holds, as long as the program does not end within removeConversation.   *)
(* What the user may take it for, messages that were received and not      *)
(* seen, it is not: updateSession counts every new row.                    *)
THEOREM UnreadAlwaysHeld == Spec => []UnreadAreHeld
<1>1. Init => UnreadAreHeld
  BY EmptyFunction DEF Init, UnreadAreHeld, Counts
<1>2. QED
  BY <1>1, StoreInvariant, HeldStep, PTL DEF Spec

-----------------------------------------------------------------------------
(* The way of a sent message to its ack.  AcceptedIsShown needs fairness;  *)
(* what follows is all of it that does not: a message on its way is waited *)
(* for, it never leaves the way but to an end that AcceptedIsShown names,  *)
(* and its ack is shown.                                                   *)

OnItsWay(id) == stanza[id] \in {"wire", "server"}
OnItsWayIsAwaited == \A id \in OwnIds : OnItsWay(id) => online /\ id \in unAcked

StateIsShown(t, id) == RowsOfId(t, id) # {} => StateOfMessageId(t, id) # DEFAULT

GoesOn(id) ==
    /\ stanza[id] = "wire" => stanza'[id] \in {"wire", "server", "lost"}
    /\ stanza[id] = "server" => \/ stanza'[id] \in {"server", "settled"}
                                \/ stanza'[id] = "acked" /\ StateIsShown(messages', id)

WayInv == Types /\ OnItsWayIsAwaited

(* The mark of an ack is never refused for a row that shows nothing yet.   *)
LEMMA AckIsShown ==
  ASSUME NEW t, IsTable(t), NEW id
  PROVE  StateIsShown(SetMessageStateOfId(t, id, SENT), id)
<1> DEFINE u == SetMessageStateOfId(t, id, SENT)
           f == FirstRowOfId(u, id)
<1> SUFFICES ASSUME RowsOfId(u, id) # {} PROVE u[f].state # DEFAULT
  BY DEF StateIsShown, StateOfMessageId
<1>1. SENT \in MessageState
  BY DEF SENT, MessageState
<1>2. IsTable(u)
  BY <1>1, SetStateType
<1>3. f \in DOMAIN u /\ u[f].id = id
  BY <1>2, FirstRow
<1>4. CASE ValidStateChange(StateOfMessageId(t, id), SENT)
  <2>1. DOMAIN u = DOMAIN t /\ u[f] = IF t[f].id = id THEN [t[f] EXCEPT !.state = SENT]
                                      ELSE t[f]
    BY <1>3, <1>4 DEF SetMessageStateOfId
  <2>2. t[f] \in Row
    BY <1>3, <2>1 DEF IsTable
  <2>3. u[f].state = SENT
    BY <1>3, <2>1, <2>2 DEF Row
  <2>4. QED
    BY <2>3 DEF SENT, DEFAULT
<1>5. CASE ~ValidStateChange(StateOfMessageId(t, id), SENT)
  <2>1. u = t
    BY <1>5 DEF SetMessageStateOfId
  <2>2. StateOfMessageId(t, id) = u[f].state
    BY <2>1 DEF StateOfMessageId
  <2>3. ValidStateChange(DEFAULT, SENT)
    BY DEF ValidStateChange, DEFAULT, SENT
  <2>4. QED
    BY <1>5, <2>2, <2>3
<1>6. QED
  BY <1>4, <1>5

(* The steps that touch the way.                                           *)
Untouched == UNCHANGED <<online, unAcked, stanza>>

LEMMA WayOfSteps ==
  ASSUME [Next]_vars
  PROVE  \/ \E id \in OwnIds, jid \in Jids : SendMessage(id, jid)
         \/ \E id \in OwnIds : HandleStanzaAcked(id) \/ ServerAccepts(id)
         \/ Connect \/ Disconnect \/ Restart
         \/ Untouched
<1> USE DEF Untouched, environment
<1>1. ASSUME NEW id, NEW jid, ReceiveFrom(id, jid) PROVE Untouched
  BY <1>1 DEF ReceiveFrom
<1>2. (\E jid \in Jids \cup {NoJid} : SetCurrentChatPartner(jid)) => Untouched
  BY DEF SetCurrentChatPartner
<1>3. (\E active \in BOOLEAN : AppGetsActive(active)) => Untouched
  BY DEF AppGetsActive
<1>4. (\E jid \in Jids : RemoveConversation(jid)) => Untouched
  BY DEF RemoveConversation
<1>5. (\E id \in CarbonIds, jid \in Jids : HandleSentCarbon(id, jid)) => Untouched
  BY DEF HandleSentCarbon
<1>6. (\E id \in OwnIds, mark \in 1 .. 2 : HandleMarker(id, mark)) => Untouched
  BY DEF HandleMarker
<1>7. (\E time \in Times : ArchivedMessage(time)) => Untouched
  BY DEF ArchivedMessage, ProcessArchivedMessage
<1>8. (\E mark \in 1 .. 2 : ArchivedMarker(mark)) => Untouched
  BY DEF ArchivedMarker, ProcessArchivedMarker
<1>9. (\E id \in OwnIds : PeerGets(id)) => Untouched
  BY DEF PeerGets
<1>10. Tick \/ UNCHANGED vars => Untouched
  BY DEF Tick, vars
<1>11. QED
  BY <1>1, <1>2, <1>3, <1>4, <1>5, <1>6, <1>7, <1>8, <1>9, <1>10
     DEF Next, HandleMessageReceived, HandleOwnGroupMessage

LEMMA WayStepsOn ==
  WayInv /\ [Next]_vars => WayInv' /\ \A id \in OwnIds : GoesOn(id)
<1> SUFFICES ASSUME WayInv, [Next]_vars
             PROVE  OnItsWayIsAwaited' /\ \A id \in OwnIds : GoesOn(id)
  BY TypesStep DEF WayInv
<1>0. stanza \in [OwnIds -> Place] /\ IsTable(messages)
  BY DEF WayInv, Types, TablesOK, MailOK
<1>1. ASSUME NEW id \in OwnIds, NEW jid \in Jids, SendMessage(id, jid)
      PROVE  OnItsWayIsAwaited' /\ \A q \in OwnIds : GoesOn(q)
  BY <1>0, <1>1 DEF SendMessage, WayInv, OnItsWayIsAwaited, OnItsWay, GoesOn
<1>2. ASSUME NEW id \in OwnIds, HandleStanzaAcked(id)
      PROVE  OnItsWayIsAwaited' /\ \A q \in OwnIds : GoesOn(q)
  <2>1. /\ stanza' = [stanza EXCEPT ![id] = "acked"] /\ online' = online
        /\ stanza[id] = "server" /\ id \in unAcked
        /\ unAcked' = unAcked \ {id}
        /\ messages' = SetMessageStateOfId(messages, id, SENT)
    BY <1>2 DEF HandleStanzaAcked, WayInv, OnItsWayIsAwaited, OnItsWay
  <2>2. StateIsShown(messages', id)
    BY <1>0, <2>1, AckIsShown
  <2>3. OnItsWayIsAwaited'
    BY <1>0, <2>1 DEF WayInv, OnItsWayIsAwaited, OnItsWay
  <2>4. ASSUME NEW q \in OwnIds PROVE GoesOn(q)
    BY <1>0, <2>1, <2>2 DEF GoesOn
  <2>5. QED
    BY <2>3, <2>4
<1>3. ASSUME NEW id \in OwnIds, ServerAccepts(id)
      PROVE  OnItsWayIsAwaited' /\ \A q \in OwnIds : GoesOn(q)
  BY <1>0, <1>3 DEF ServerAccepts, WayInv, OnItsWayIsAwaited, OnItsWay, GoesOn
<1>4. CASE Disconnect \/ Restart
  <2>1. \A q \in OwnIds : stanza'[q] = CASE stanza[q] = "wire"   -> "lost"
                                         [] stanza[q] = "server" -> "settled"
                                         [] OTHER                -> stanza[q]
    BY <1>4 DEF Disconnect, Restart, AfterDisconnect
  <2>2. QED
    BY <2>1 DEF OnItsWayIsAwaited, OnItsWay, GoesOn
<1>5. CASE Connect
  BY <1>5 DEF Connect, WayInv, OnItsWayIsAwaited, OnItsWay, GoesOn
<1>6. CASE Untouched
  BY <1>6 DEF Untouched, WayInv, OnItsWayIsAwaited, OnItsWay, GoesOn
<1>7. QED
  BY <1>1, <1>2, <1>3, <1>4, <1>5, <1>6, WayOfSteps

LEMMA WayInit == Init => WayInv
BY TypesInit DEF Init, WayInv, OnItsWayIsAwaited, OnItsWay

(* A message given to a connection is waited for as long as the connection *)
(* holds, whatever else the user, the peers and the server do.             *)
THEOREM AcksAreAwaited == Spec => []OnItsWayIsAwaited
BY WayInit, WayStepsOn, PTL DEF Spec, WayInv

(* It goes on to the server and to its ack, or the connection breaks; and  *)
(* with the ack its row, if the user kept it, shows more than nothing.     *)
THEOREM SentGoesOn == Spec => [][\A id \in OwnIds : GoesOn(id)]_vars
<1>1. WayInv /\ [Next]_vars => [\A id \in OwnIds : GoesOn(id)]_vars
  BY WayStepsOn
<1>2. QED
  BY <1>1, WayInit, WayStepsOn, PTL DEF Spec

=============================================================================
