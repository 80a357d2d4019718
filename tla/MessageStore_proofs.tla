------------------------ MODULE MessageStore_proofs -------------------------
(***************************************************************************)
(* Proofs about MessageStore, for every set of ids, conversations and      *)
(* members and every bound.                                                *)
(***************************************************************************)
EXTENDS MessageStore, WellFoundedInduction, TLAPS

-----------------------------------------------------------------------------
(* Rowids: a non-empty set of rows has a first and a last one. *)

LEMMA LeastNumber ==
  ASSUME NEW S \in SUBSET Nat, S # {}
  PROVE  \E m \in S : \A n \in S : m <= n
<1> DEFINE R == {ss \in Nat \X Nat : ss[1] < ss[2]}
<1>1. IsWellFoundedOn(R, Nat)
  BY NatLessThanWellFounded DEF OpToRel
<1>2. PICK m \in S : \A n \in S : <<n, m>> \notin R
  BY <1>1, WFMin
<1>3. \A n \in S : m <= n
  <2> TAKE n \in S
  <2>1. n \in Nat /\ m \in Nat
    OBVIOUS
  <2>2. <<n, m>> \in Nat \X Nat /\ <<n, m>>[1] = n /\ <<n, m>>[2] = m
    BY <2>1
  <2>3. ~ (n < m)
    BY <1>2, <2>2
  <2>4. QED
    BY <2>1, <2>3
<1>4. QED
  BY <1>3

LEMMA FirstRow ==
  ASSUME NEW t, IsTable(t), NEW id, RowsOfId(t, id) # {}
  PROVE  /\ FirstRowOfId(t, id) \in DOMAIN t
         /\ t[FirstRowOfId(t, id)].id = id
         /\ \A s \in DOMAIN t : t[s].id = id => FirstRowOfId(t, id) <= s
<1>1. RowsOfId(t, id) \in SUBSET Nat
  BY TableAssumption DEF IsTable, RowsOfId
<1>2. \E r \in RowsOfId(t, id) : \A s \in RowsOfId(t, id) : r <= s
  BY <1>1, LeastNumber
<1>3. QED
  BY <1>2 DEF FirstRowOfId, RowsOfId

LEMMA LastRow ==
  ASSUME NEW t, IsTable(t)
  PROVE  /\ NextRow(t) \in Nat \ {0}
         /\ \A r \in DOMAIN t : r < NextRow(t)
<1>1. CASE DOMAIN t = {}
  BY <1>1 DEF NextRow
<1>2. CASE DOMAIN t # {}
  <2> DEFINE Up == {MaxRow - r : r \in DOMAIN t}
  <2>1. Up \in SUBSET Nat /\ Up # {}
    BY <1>2, TableAssumption DEF IsTable
  <2>2. PICK m \in Up : \A n \in Up : m <= n
    BY <2>1, LeastNumber
  <2>3. PICK r \in DOMAIN t : m = MaxRow - r
    BY <2>2
  <2>4. \A s \in DOMAIN t : s <= r
    <3> TAKE s \in DOMAIN t
    <3>1. MaxRow - r <= MaxRow - s
      BY <2>2, <2>3
    <3>2. r \in Int /\ s \in Int
      BY DEF IsTable
    <3>3. QED
      BY <3>1, <3>2, TableAssumption
  <2>5. QED
    BY <1>2, <2>4 DEF NextRow, IsTable
<1>3. QED
  BY <1>1, <1>2

-----------------------------------------------------------------------------
(* The operations keep a table a table. *)

LEMMA StateType ==
  ASSUME NEW t, IsTable(t), NEW id
  PROVE  StateOfMessageId(t, id) \in MessageState
BY FirstRow DEF StateOfMessageId, IsTable, Row, MessageState, DEFAULT

LEMMA AddMessageType ==
  ASSUME NEW t, IsTable(t), NextRow(t) <= MaxRow, NEW id \in Ids, NEW jid \in Jids,
         NEW direction \in Direction, NEW time \in Times
  PROVE  IsTable(AddMessage(t, id, jid, direction, time))
<1> DEFINE row == [id |-> id, jid |-> jid, direction |-> direction,
                   state |-> DEFAULT, time |-> time]
           u == [r \in DOMAIN t \cup {NextRow(t)} |->
                    IF r = NextRow(t) THEN row ELSE t[r]]
<1>1. NextRow(t) \in 1 .. MaxRow
  BY LastRow, TableAssumption
<1>2. row \in Row
  BY DEF Row, MessageState, DEFAULT
<1>3. IsTable(u)
  <2> HIDE DEF row
  <2> QED BY <1>1, <1>2 DEF IsTable
<1>4. AddMessage(t, id, jid, direction, time) \in {t, u}
  BY DEF AddMessage
<1>5. QED
  BY <1>3, <1>4

LEMMA SetStateType ==
  ASSUME NEW t, IsTable(t), NEW id, NEW state \in MessageState
  PROVE  IsTable(SetMessageStateOfId(t, id, state))
BY DEF SetMessageStateOfId, IsTable, Row

LEMMA RemoveType ==
  ASSUME NEW t, IsTable(t), NEW id, NEW jid
  PROVE  /\ IsTable(RemoveMessage(t, id, jid))
         /\ IsTable(RemoveMessagesFromJid(t, jid))
BY DEF RemoveMessage, RemoveMessagesFromJid, IsTable

LEMMA FailUploadsType ==
  ASSUME NEW t, IsTable(t)
  PROVE  IsTable(FailInterruptedUploads(t))
BY DEF FailInterruptedUploads, IsTable, Row, MessageState, SEND_FAILED

-----------------------------------------------------------------------------
(* The operations keep rows with one id in one state. *)

LEMMA AddMessageAgrees ==
  ASSUME NEW t, IsTable(t), AgreesById(t), NEW id, NEW jid, NEW direction, NEW time
  PROVE  AgreesById(AddMessage(t, id, jid, direction, time))
<1>1. \A r \in DOMAIN t : r \in Nat /\ r < NextRow(t) /\ NextRow(t) \in Nat
  BY LastRow DEF IsTable
<1>2. QED
  BY <1>1 DEF AddMessage, AgreesById

LEMMA SetStateAgrees ==
  ASSUME NEW t, IsTable(t), AgreesById(t), NEW id, NEW state
  PROVE  AgreesById(SetMessageStateOfId(t, id, state))
BY DEF SetMessageStateOfId, AgreesById, IsTable, Row

LEMMA RemoveAgrees ==
  ASSUME NEW t, AgreesById(t), NEW id, NEW jid
  PROVE  /\ AgreesById(RemoveMessage(t, id, jid))
         /\ AgreesById(RemoveMessagesFromJid(t, jid))
BY DEF RemoveMessage, RemoveMessagesFromJid, AgreesById

LEMMA FailUploadsAgrees ==
  ASSUME NEW t, IsTable(t), AgreesById(t)
  PROVE  AgreesById(FailInterruptedUploads(t))
BY DEF FailInterruptedUploads, AgreesById, IsTable, Row, DEFAULT, UPLOADING_ATTACHMENT

(* The check against the first row with the id decides right for each of   *)
(* them: this is where AgreesById is needed.                               *)
LEMMA FirstRowDecides ==
  ASSUME NEW t, IsTable(t), AgreesById(t), NEW id,
         NEW state \in MessageState \ {DEFAULT},
         ValidStateChange(StateOfMessageId(t, id), state),
         NEW r \in DOMAIN t, t[r].id = id
  PROVE  ValidStateChange(t[r].state, state)
<1> DEFINE f == FirstRowOfId(t, id)
<1>1. RowsOfId(t, id) # {}
  BY DEF RowsOfId
<1>2. f \in DOMAIN t /\ t[f].id = id /\ f <= r
  BY <1>1, FirstRow
<1>3. ValidStateChange(t[f].state, state)
  BY <1>1 DEF StateOfMessageId
<1>4. t[r].state \in {t[f].state, DEFAULT}
  BY <1>2 DEF AgreesById, IsTable
<1>5. t[f].state \in MessageState
  BY <1>2 DEF IsTable, Row
<1>6. QED
  BY <1>3, <1>4, <1>5 DEF ValidStateChange, MessageState, DEFAULT,
     DISPLAYED_CONFIRMED, UPLOADING_ATTACHMENT

-----------------------------------------------------------------------------
(* The types of all variables, from the lemmas on the table and, for the   *)
(* sessions, from the bound MayGrow keeps.                                 *)
SessionsOK == /\ DOMAIN sessions \subseteq Jids
              /\ sessions = [j \in DOMAIN sessions |-> sessions[j]]
              /\ \A j \in DOMAIN sessions : sessions[j] \in 0 .. MaxUnread

LEMMA SessionsStep ==
  ASSUME SessionsOK, NEW jid \in Jids, NEW partner
  PROVE  /\ UnreadOf(sessions, jid) < MaxUnread /\ sessions' = UpdateSession(sessions, jid, partner)
              => SessionsOK'
         /\ sessions' = RemoveSession(sessions, jid) => SessionsOK'
BY StoreAssumption DEF SessionsOK, UpdateSession, RemoveSession, UnreadOf

LEMMA ReadStep ==
  ASSUME SessionsOK, NEW jid,
         sessions' = UpdateNumberOfUnreadMessages(sessions, jid, 0)
  PROVE  SessionsOK'
BY StoreAssumption DEF SessionsOK, UpdateNumberOfUnreadMessages

LEMMA EmptyFunction ==
  /\ DOMAIN EmptyTable = {}
  /\ EmptyTable = [r \in DOMAIN EmptyTable |-> EmptyTable[r]]
<1>1. DOMAIN EmptyTable = {}
  BY DEF EmptyTable
<1>2. [r \in {} |-> EmptyTable[r]] = [r \in {} |-> r]
  OBVIOUS
<1>3. QED
  BY <1>1, <1>2 DEF EmptyTable

LEMMA TypeInit == Init => TypeOK
<1> SUFFICES ASSUME Init PROVE TypeOK
  OBVIOUS
<1>1. IsTable(messages)
  BY EmptyFunction DEF Init, IsTable
<1>2. SessionsOK
  BY EmptyFunction DEF Init, SessionsOK
<1>3. markers \in [Ids \X Members -> 0 .. 2]
  BY DEF Init
<1>4. QED
  BY <1>1, <1>2, <1>3 DEF Init, TypeOK, SessionsOK

LEMMA TypeStep == TypeOK /\ [Next]_vars => TypeOK'
<1> SUFFICES ASSUME TypeOK, [Next]_vars PROVE TypeOK'
  OBVIOUS
<1>0. SessionsOK
  BY DEF TypeOK, SessionsOK
<1>1. CASE OpenDatabaseForJid
  BY <1>1, FailUploadsType DEF TypeOK, OpenDatabaseForJid
<1>2. ASSUME NEW id \in Ids, NEW jid \in Jids, NEW direction \in Direction,
             NEW time \in Times, PersistMessage(id, jid, direction, time)
      PROVE  TypeOK'
  <2>1. IsTable(messages')
    BY <1>2, AddMessageType DEF TypeOK, PersistMessage, MayGrow
  <2>2. SessionsOK'
    BY <1>0, <1>2, SessionsStep DEF PersistMessage, MayGrow, SessionsOK
  <2>3. QED
    BY <1>2, <2>1, <2>2 DEF TypeOK, PersistMessage, SessionsOK
<1>3. ASSUME NEW id \in Ids, NEW jid \in Jids, ForgetMessage(id, jid)
      PROVE  TypeOK'
  BY <1>3, RemoveType DEF TypeOK, ForgetMessage
<1>4. ASSUME NEW id \in Ids, NEW state \in MessageState \ {DEFAULT},
             MarkMessage(id, state)
      PROVE  TypeOK'
  BY <1>4, SetStateType DEF TypeOK, MarkMessage
<1>5. ASSUME NEW jid \in Jids \cup {NoJid}, SetCurrentChatPartner(jid)
      PROVE  TypeOK'
  <2>1. SessionsOK'
    BY <1>0, <1>5, ReadStep DEF SetCurrentChatPartner, SessionsOK
  <2>2. QED
    BY <1>5, <2>1 DEF TypeOK, SetCurrentChatPartner, SessionsOK
<1>6. ASSUME NEW id \in Ids, NEW member \in Members,
             \/ MarkGroupMessageReceivedByMember(id, member)
             \/ MarkGroupMessageDisplayedByMember(id, member)
      PROVE  TypeOK'
  BY <1>6 DEF TypeOK, MarkGroupMessageReceivedByMember,
              MarkGroupMessageDisplayedByMember
<1>7. ASSUME NEW jid \in Jids, RemoveConversation(jid)
      PROVE  TypeOK'
  <2>1. SessionsOK'
    BY <1>0, <1>7, SessionsStep DEF RemoveConversation
  <2>2. QED
    BY <1>7, <2>1, RemoveType DEF TypeOK, RemoveConversation, SessionsOK
<1>8. CASE Restart
  BY <1>8 DEF TypeOK, Restart, Ended
<1>9. ASSUME NEW id \in Ids, NEW jid \in Jids, NEW direction \in Direction,
             NEW time \in Times,
             \/ PersistQuotedMessage(id, jid, direction, time)
             \/ EndsInPersistMessage(id, jid, direction, time)
      PROVE  TypeOK'
  <2>1. IsTable(messages')
    BY <1>9, AddMessageType
       DEF TypeOK, PersistQuotedMessage, EndsInPersistMessage, InsertOnly
  <2>2. QED
    BY <1>9, <2>1 DEF TypeOK, PersistQuotedMessage, EndsInPersistMessage,
       InsertOnly, Ended
<1>10. ASSUME NEW jid \in Jids, EndsInRemoveConversation(jid)
       PROVE  TypeOK'
  BY <1>10, RemoveType DEF TypeOK, EndsInRemoveConversation, Ended
<1>11. CASE UNCHANGED vars
  BY <1>11 DEF TypeOK, vars
<1>12. QED
  BY <1>1, <1>2, <1>3, <1>4, <1>5, <1>6, <1>7, <1>8, <1>9, <1>10, <1>11 DEF Next

(* Every table and variable has its type in every reachable state. *)
THEOREM TypeCorrect == Spec => []TypeOK
BY TypeInit, TypeStep, PTL DEF Spec

-----------------------------------------------------------------------------
(* The safety invariants.  NoMessageTwice and SameIdSameState are kept by  *)
(* every operation on the table and need its type; CopiesAgree is what     *)
(* OnlyAnEarlyChatCounts needs to be inductive: while the database is not  *)
(* open SessionController knows of no open chat, the chat it knows of is   *)
(* Persistence's, and that one counts nothing.                             *)
CopiesAgree ==
    /\ valid \/ sessionPartner = NoJid
    /\ sessionPartner \in {chatPartner, NoJid}
    /\ sessionPartner \in DOMAIN sessions => sessions[sessionPartner] = 0

Safety == NoMessageTwice /\ SameIdSameState /\ CopiesAgree

LEMMA SafetyInit == Init => Safety
BY EmptyFunction
   DEF Init, Safety, NoMessageTwice, HoldsEachOnce, SameIdSameState, AgreesById,
       CopiesAgree

(* The operations on the table add no second row for a message. *)
LEMMA OperationsHoldEachOnce ==
  ASSUME NEW t, IsTable(t), HoldsEachOnce(t), NEW id, NEW jid, NEW direction,
         NEW time, NEW state
  PROVE  /\ HoldsEachOnce(AddMessage(t, id, jid, direction, time))
         /\ HoldsEachOnce(SetMessageStateOfId(t, id, state))
         /\ HoldsEachOnce(RemoveMessage(t, id, jid))
         /\ HoldsEachOnce(RemoveMessagesFromJid(t, jid))
         /\ HoldsEachOnce(FailInterruptedUploads(t))
<1>1. HoldsEachOnce(AddMessage(t, id, jid, direction, time))
  BY DEF HoldsEachOnce, AddMessage, IsMessageIdForJid
<1>2. HoldsEachOnce(SetMessageStateOfId(t, id, state))
  BY DEF HoldsEachOnce, SetMessageStateOfId, IsTable, Row
<1>3. HoldsEachOnce(FailInterruptedUploads(t))
  BY DEF HoldsEachOnce, FailInterruptedUploads, IsTable, Row
<1>4. QED
  BY <1>1, <1>2, <1>3
     DEF HoldsEachOnce, RemoveMessage, RemoveMessagesFromJid

(* Marks and the fix-up at opening change no row's conversation. *)
LEMMA MarksKeepRows ==
  ASSUME NEW t, IsTable(t), NEW id, NEW state
  PROVE  /\ DOMAIN SetMessageStateOfId(t, id, state) = DOMAIN t
         /\ \A r \in DOMAIN t : SetMessageStateOfId(t, id, state)[r].jid = t[r].jid
         /\ \A r \in DOMAIN t : SetMessageStateOfId(t, id, state)[r].id = t[r].id
         /\ DOMAIN FailInterruptedUploads(t) = DOMAIN t
         /\ \A r \in DOMAIN t : FailInterruptedUploads(t)[r].jid = t[r].jid
         /\ \A r \in DOMAIN t : FailInterruptedUploads(t)[r].id = t[r].id
BY DEF SetMessageStateOfId, FailInterruptedUploads, IsTable, Row

LEMMA SafetyStep == TypeOK /\ Safety /\ [Next]_vars => Safety'
<1> SUFFICES ASSUME TypeOK, Safety, [Next]_vars PROVE Safety'
  OBVIOUS
<1> USE DEF NoMessageTwice, SameIdSameState
<1>0. /\ IsTable(messages) /\ HoldsEachOnce(messages) /\ AgreesById(messages)
      /\ CopiesAgree
  BY DEF TypeOK, Safety
<1>1. CASE OpenDatabaseForJid
  BY <1>0, <1>1, OperationsHoldEachOnce, FailUploadsAgrees
     DEF OpenDatabaseForJid, Safety, CopiesAgree
<1>2. ASSUME NEW id \in Ids, NEW jid \in Jids, NEW direction \in Direction,
             NEW time \in Times, PersistMessage(id, jid, direction, time)
      PROVE  Safety'
  <2>1. NoMessageTwice' /\ SameIdSameState'
    BY <1>0, <1>2, OperationsHoldEachOnce, AddMessageAgrees DEF PersistMessage
  <2>2. CopiesAgree'
    BY <1>0, <1>2 DEF PersistMessage, CopiesAgree, UpdateSession, UnreadOf
  <2>3. QED
    BY <2>1, <2>2 DEF Safety
<1>3. ASSUME NEW id \in Ids, NEW jid \in Jids, ForgetMessage(id, jid)
      PROVE  Safety'
  BY <1>0, <1>3, OperationsHoldEachOnce, RemoveAgrees
     DEF ForgetMessage, Safety, CopiesAgree
<1>4. ASSUME NEW id \in Ids, NEW state \in MessageState \ {DEFAULT},
             MarkMessage(id, state)
      PROVE  Safety'
  BY <1>0, <1>4, OperationsHoldEachOnce, SetStateAgrees
     DEF MarkMessage, Safety, CopiesAgree
<1>5. ASSUME NEW jid \in Jids \cup {NoJid}, SetCurrentChatPartner(jid)
      PROVE  Safety'
  BY <1>0, <1>5 DEF SetCurrentChatPartner, Safety, CopiesAgree,
     UpdateNumberOfUnreadMessages
<1>6. ASSUME NEW id \in Ids, NEW member \in Members,
             \/ MarkGroupMessageReceivedByMember(id, member)
             \/ MarkGroupMessageDisplayedByMember(id, member)
      PROVE  Safety'
  BY <1>0, <1>6 DEF MarkGroupMessageReceivedByMember,
     MarkGroupMessageDisplayedByMember, Safety, CopiesAgree
<1>7. ASSUME NEW jid \in Jids, RemoveConversation(jid)
      PROVE  Safety'
  <2>1. NoMessageTwice' /\ SameIdSameState'
    BY <1>0, <1>7, OperationsHoldEachOnce, RemoveAgrees DEF RemoveConversation
  <2>2. QED
    BY <1>0, <1>7, <2>1 DEF RemoveConversation, Safety, RemoveSession, CopiesAgree
<1>8. ASSUME Ended, UNCHANGED sessions
      PROVE  CopiesAgree'
  BY <1>8, StoreAssumption DEF Ended, TypeOK, CopiesAgree
<1>9. CASE Restart
  BY <1>0, <1>8, <1>9 DEF Restart, Safety
<1>10. ASSUME NEW id \in Ids, NEW jid \in Jids, NEW direction \in Direction,
              NEW time \in Times,
              \/ PersistQuotedMessage(id, jid, direction, time)
              \/ EndsInPersistMessage(id, jid, direction, time)
       PROVE  Safety'
  <2>1. NoMessageTwice' /\ SameIdSameState'
    BY <1>0, <1>10, OperationsHoldEachOnce, AddMessageAgrees
       DEF PersistQuotedMessage, EndsInPersistMessage, InsertOnly
  <2>2. CopiesAgree'
    BY <1>0, <1>8, <1>10
       DEF PersistQuotedMessage, EndsInPersistMessage, InsertOnly, CopiesAgree
  <2>3. QED
    BY <2>1, <2>2 DEF Safety
<1>11. ASSUME NEW jid \in Jids, EndsInRemoveConversation(jid)
       PROVE  Safety'
  BY <1>0, <1>8, <1>11, OperationsHoldEachOnce, RemoveAgrees
     DEF EndsInRemoveConversation, Safety
<1>12. CASE UNCHANGED vars
  BY <1>0, <1>12 DEF vars, Safety, CopiesAgree
<1>13. QED
  BY <1>1, <1>2, <1>3, <1>4, <1>5, <1>6, <1>7, <1>9, <1>10, <1>11, <1>12 DEF Next

(* In every reachable state: no conversation shows a message twice.        *)
THEOREM NeverTwice == Spec => []NoMessageTwice
BY TypeInit, TypeStep, SafetyInit, SafetyStep, PTL DEF Spec, Safety

(* Rows that share an id never drift apart. *)
THEOREM IdsAgree == Spec => []SameIdSameState
BY TypeInit, TypeStep, SafetyInit, SafetyStep, PTL DEF Spec, Safety

(* The open chat counts unread messages only if it was opened before the   *)
(* database was.                                                           *)
THEOREM OpenChatIsRead == Spec => []OnlyAnEarlyChatCounts
<1>1. TypeOK /\ Safety => OnlyAnEarlyChatCounts
  BY StoreAssumption DEF TypeOK, Safety, CopiesAgree, OnlyAnEarlyChatCounts
<1>2. QED
  BY <1>1, TypeInit, TypeStep, SafetyInit, SafetyStep, PTL DEF Spec

-----------------------------------------------------------------------------
(* What hides a message: not the removal of a conversation, which takes    *)
(* its messages with it, nor a mark, which leaves rows their conversation. *)
HidesByInsertOnly ==
    \A r \in Hidden' : \/ r \in Hidden
                       \/ r \notin DOMAIN messages /\ sessions' = sessions

LEMMA HiddenStep == TypeOK /\ [Next]_vars => HidesByInsertOnly
<1> SUFFICES ASSUME TypeOK, [Next]_vars PROVE HidesByInsertOnly
  OBVIOUS
<1>0. IsTable(messages)
  BY DEF TypeOK
<1> USE DEF HidesByInsertOnly, Hidden
<1>1. CASE OpenDatabaseForJid
  BY <1>0, <1>1, MarksKeepRows DEF OpenDatabaseForJid
<1>2. ASSUME NEW id \in Ids, NEW state, MarkMessage(id, state)
      PROVE  HidesByInsertOnly
  BY <1>0, <1>2, MarksKeepRows DEF MarkMessage
<1>3. ASSUME NEW id \in Ids, NEW jid \in Jids, NEW direction \in Direction,
             NEW time \in Times, PersistMessage(id, jid, direction, time)
      PROVE  HidesByInsertOnly
  <2>1. CASE IsMessageIdForJid(messages, id, jid)
    BY <1>3, <2>1 DEF PersistMessage, AddMessage
  <2>2. CASE ~ IsMessageIdForJid(messages, id, jid)
    <3>1. \A r \in DOMAIN messages' :
             \/ messages'[r].jid = jid
             \/ r \in DOMAIN messages /\ messages'[r] = messages[r]
      BY <1>3, <2>2 DEF PersistMessage, AddMessage
    <3>2. DOMAIN sessions' = DOMAIN sessions \cup {jid}
      BY <1>3, <2>2 DEF PersistMessage, UpdateSession
    <3>3. QED
      BY <3>1, <3>2
  <2>3. QED
    BY <2>1, <2>2
<1>4. ASSUME NEW id \in Ids, NEW jid \in Jids, NEW direction \in Direction,
             NEW time \in Times, InsertOnly(id, jid, direction, time)
      PROVE  HidesByInsertOnly
  <2>1. \A r \in DOMAIN messages : r # NextRow(messages)
    BY <1>0, LastRow DEF IsTable
  <2>2. QED
    BY <1>4, <2>1 DEF InsertOnly, AddMessage
<1>5. ASSUME NEW id \in Ids, NEW jid \in Jids, ForgetMessage(id, jid)
      PROVE  HidesByInsertOnly
  BY <1>5 DEF ForgetMessage, RemoveMessage
<1>6. ASSUME NEW jid \in Jids, RemoveConversation(jid)
      PROVE  HidesByInsertOnly
  <2>1. DOMAIN sessions' = DOMAIN sessions \ {jid}
    BY <1>6 DEF RemoveConversation, RemoveSession
  <2>2. \A r \in DOMAIN messages' : /\ messages'[r].jid # jid
                                    /\ r \in DOMAIN messages
                                    /\ messages'[r] = messages[r]
    BY <1>6 DEF RemoveConversation, RemoveMessagesFromJid
  <2>3. QED
    BY <2>1, <2>2
<1>7. ASSUME NEW jid \in Jids, EndsInRemoveConversation(jid)
      PROVE  HidesByInsertOnly
  BY <1>7 DEF EndsInRemoveConversation, RemoveMessagesFromJid
<1>8. ASSUME NEW jid \in Jids \cup {NoJid}, SetCurrentChatPartner(jid)
      PROVE  HidesByInsertOnly
  <2>1. messages' = messages /\ DOMAIN sessions' = DOMAIN sessions
    BY <1>8 DEF SetCurrentChatPartner, UpdateNumberOfUnreadMessages
  <2>2. QED
    BY <2>1
<1>9. CASE UNCHANGED <<messages, sessions>>
  BY <1>9
<1>10. QED
  BY <1>1, <1>2, <1>3, <1>4, <1>5, <1>6, <1>7, <1>8, <1>9
     DEF Next, vars, MarkGroupMessageReceivedByMember,
         MarkGroupMessageDisplayedByMember, Restart, PersistQuotedMessage,
         EndsInPersistMessage

(* Nothing but its own INSERT, left without its session by a refused       *)
(* statement or the program's end, puts a message where no list shows it.  *)
THEOREM OnlyInsertsHide == Spec => OnlyItsInsertHides
<1>1. TypeOK /\ [Next]_vars
      => [\A r \in Hidden' : \/ r \in Hidden
                             \/ r \notin DOMAIN messages /\ sessions' = sessions]_vars
  BY HiddenStep DEF HidesByInsertOnly
<1>2. QED
  BY <1>1, TypeInit, TypeStep, PTL DEF Spec, OnlyItsInsertHides

-----------------------------------------------------------------------------
(* The comment above setMessageStateOfId holds of every row, although the  *)
(* code checks only the first row with the id.                             *)
RowsChangeValidly ==
    \A r \in DOMAIN messages \cap DOMAIN messages' :
       messages'[r].state # messages[r].state
         => ValidStateChange(messages[r].state, messages'[r].state)

LEMMA MarksAreValid ==
  ASSUME NEW t, IsTable(t), AgreesById(t), NEW id,
         NEW state \in MessageState \ {DEFAULT}, NEW r \in DOMAIN t,
         SetMessageStateOfId(t, id, state)[r].state # t[r].state
  PROVE  ValidStateChange(t[r].state, SetMessageStateOfId(t, id, state)[r].state)
<1>1. ValidStateChange(StateOfMessageId(t, id), state) /\ t[r].id = id
  BY DEF SetMessageStateOfId
<1>2. SetMessageStateOfId(t, id, state)[r].state = state
  BY <1>1 DEF SetMessageStateOfId, IsTable, Row
<1>3. QED
  BY <1>1, <1>2, FirstRowDecides

LEMMA RowsStep == TypeOK /\ Safety /\ [Next]_vars => RowsChangeValidly
<1> SUFFICES ASSUME TypeOK, Safety, [Next]_vars PROVE RowsChangeValidly
  OBVIOUS
<1>0. IsTable(messages) /\ AgreesById(messages)
  BY DEF TypeOK, Safety, SameIdSameState
<1>1. CASE OpenDatabaseForJid
  BY <1>0, <1>1 DEF OpenDatabaseForJid, FailInterruptedUploads, IsTable, Row,
     RowsChangeValidly, ValidStateChange
<1>2. ASSUME NEW id \in Ids, NEW state \in MessageState \ {DEFAULT},
             MarkMessage(id, state)
      PROVE  RowsChangeValidly
  BY <1>0, <1>2, MarksAreValid DEF MarkMessage, RowsChangeValidly
<1>3. ASSUME NEW id \in Ids, NEW jid \in Jids, NEW direction \in Direction,
             NEW time \in Times,
             \/ PersistMessage(id, jid, direction, time)
             \/ InsertOnly(id, jid, direction, time)
      PROVE  RowsChangeValidly
  <2>1. NextRow(messages) \notin DOMAIN messages
    BY <1>0, LastRow DEF IsTable
  <2>2. messages' = AddMessage(messages, id, jid, direction, time)
    BY <1>3 DEF PersistMessage, InsertOnly
  <2>3. QED
    BY <2>1, <2>2 DEF AddMessage, RowsChangeValidly
<1>4. ASSUME NEW id \in Ids, NEW jid \in Jids, ForgetMessage(id, jid)
      PROVE  RowsChangeValidly
  BY <1>4 DEF ForgetMessage, RemoveMessage, RowsChangeValidly
<1>5. ASSUME NEW jid \in Jids, RemoveConversation(jid) \/ EndsInRemoveConversation(jid)
      PROVE  RowsChangeValidly
  BY <1>5 DEF RemoveConversation, EndsInRemoveConversation, RemoveMessagesFromJid,
     RowsChangeValidly
<1>6. CASE UNCHANGED messages
  BY <1>6 DEF RowsChangeValidly
<1>7. QED
  BY <1>1, <1>2, <1>3, <1>4, <1>5, <1>6
     DEF Next, vars, SetCurrentChatPartner, MarkGroupMessageReceivedByMember,
         MarkGroupMessageDisplayedByMember, Restart, PersistQuotedMessage,
         EndsInPersistMessage

(* No step ever changes the state of a message in a way the comment above  *)
(* MessageController::setMessageStateOfId does not allow.                  *)
THEOREM StateChangesAreValid == Spec => OnlyValidStateChanges
<1>1. TypeOK /\ Safety /\ [Next]_vars
        => [RowsChangeValidly]_vars
  BY RowsStep
<1>2. QED
  BY <1>1, TypeInit, TypeStep, SafetyInit, SafetyStep, PTL
     DEF Spec, OnlyValidStateChanges, RowsChangeValidly

(* What a member of a room has seen stays seen: a receipt that comes after *)
(* the displayed marker, and a restart, leave the mark as it is.           *)
MarksGrow == \A m \in Ids \X Members : markers[m] <= markers'[m]

THEOREM MarksNeverGoBack == Spec => MemberMarksOnlyGrow
<1>1. TypeOK /\ [Next]_vars => [MarksGrow]_vars
  <2> SUFFICES ASSUME TypeOK, Next PROVE MarksGrow
    OBVIOUS
  <2>1. markers \in [Ids \X Members -> 0 .. 2]
    BY DEF TypeOK
  <2>2. ASSUME NEW id \in Ids, NEW member \in Members,
               MarkGroupMessageReceivedByMember(id, member)
        PROVE  MarksGrow
    BY <2>1, <2>2 DEF MarkGroupMessageReceivedByMember, MarksGrow
  <2>3. ASSUME NEW id \in Ids, NEW member \in Members,
               MarkGroupMessageDisplayedByMember(id, member)
        PROVE  MarksGrow
    BY <2>1, <2>3 DEF MarkGroupMessageDisplayedByMember, MarksGrow
  <2>4. CASE UNCHANGED markers
    BY <2>1, <2>4 DEF MarksGrow
  <2>5. QED
    BY <2>2, <2>3, <2>4
       DEF Next, OpenDatabaseForJid, PersistMessage, ForgetMessage, MarkMessage,
           SetCurrentChatPartner, RemoveConversation, Restart, PersistQuotedMessage,
           EndsInPersistMessage, EndsInRemoveConversation, InsertOnly
<1>2. QED
  BY <1>1, TypeInit, TypeStep, PTL DEF Spec, MemberMarksOnlyGrow, MarksGrow

-----------------------------------------------------------------------------
(* The store implements MessageLife.                                       *)

LEMMA ShownState ==
  ASSUME NEW t, HoldsEachOnce(t), NEW r \in DOMAIN t
  PROVE  StateOfMessage(t, t[r].id, t[r].jid) = t[r].state
<1>1. \A s \in DOMAIN t : t[s].id = t[r].id /\ t[s].jid = t[r].jid <=> s = r
  BY DEF HoldsEachOnce
<1>2. QED
  BY <1>1 DEF StateOfMessage, IsMessageIdForJid

(* What a step may do to the rows as such: keep them under their names,    *)
(* add one in state DEFAULT, or remove some.                               *)
RowsKeepNames ==
    /\ \A r \in DOMAIN messages \cap DOMAIN messages' :
          /\ messages'[r].id = messages[r].id
          /\ messages'[r].jid = messages[r].jid
    /\ \A r \in DOMAIN messages' \ DOMAIN messages : messages'[r].state = DEFAULT
    /\ DOMAIN messages \subseteq DOMAIN messages' \/ DOMAIN messages' \subseteq DOMAIN messages

LEMMA NamesStep == TypeOK /\ [Next]_vars => RowsKeepNames
<1> SUFFICES ASSUME TypeOK, [Next]_vars PROVE RowsKeepNames
  OBVIOUS
<1>0. IsTable(messages)
  BY DEF TypeOK
<1>1. CASE OpenDatabaseForJid
  BY <1>0, <1>1, MarksKeepRows DEF OpenDatabaseForJid, RowsKeepNames
<1>2. ASSUME NEW id \in Ids, NEW state \in MessageState \ {DEFAULT},
             MarkMessage(id, state)
      PROVE  RowsKeepNames
  BY <1>0, <1>2, MarksKeepRows DEF MarkMessage, RowsKeepNames
<1>3. ASSUME NEW id \in Ids, NEW jid \in Jids, NEW direction \in Direction,
             NEW time \in Times,
             \/ PersistMessage(id, jid, direction, time)
             \/ InsertOnly(id, jid, direction, time)
      PROVE  RowsKeepNames
  <2>1. NextRow(messages) \notin DOMAIN messages
    BY <1>0, LastRow DEF IsTable
  <2>2. messages' = AddMessage(messages, id, jid, direction, time)
    BY <1>3 DEF PersistMessage, InsertOnly
  <2>3. QED
    BY <2>1, <2>2 DEF AddMessage, RowsKeepNames
<1>4. ASSUME NEW id \in Ids, NEW jid \in Jids, ForgetMessage(id, jid)
      PROVE  RowsKeepNames
  BY <1>4 DEF ForgetMessage, RemoveMessage, RowsKeepNames
<1>5. ASSUME NEW jid \in Jids, RemoveConversation(jid) \/ EndsInRemoveConversation(jid)
      PROVE  RowsKeepNames
  BY <1>5 DEF RemoveConversation, EndsInRemoveConversation, RemoveMessagesFromJid,
     RowsKeepNames
<1>6. CASE UNCHANGED messages
  BY <1>6 DEF RowsKeepNames
<1>7. QED
  BY <1>1, <1>2, <1>3, <1>4, <1>5, <1>6
     DEF Next, vars, SetCurrentChatPartner, MarkGroupMessageReceivedByMember,
         MarkGroupMessageDisplayedByMember, Restart, PersistQuotedMessage,
         EndsInPersistMessage

LEMMA LifeStep ==
  ASSUME TypeOK, Safety, Safety', [Next]_vars, NEW id \in Ids, NEW jid \in Jids
  PROVE  Life!Change(StateOfMessage(messages, id, jid),
                     StateOfMessage(messages', id, jid))
<1>0. /\ RowsKeepNames /\ RowsChangeValidly
      /\ HoldsEachOnce(messages) /\ HoldsEachOnce(messages')
  BY NamesStep, RowsStep DEF Safety, NoMessageTwice
<1>1. CASE ~ IsMessageIdForJid(messages', id, jid)
  BY <1>1 DEF StateOfMessage, Life!Change, Life!Absent
<1>2. CASE IsMessageIdForJid(messages', id, jid)
  <2>1. PICK r \in DOMAIN messages' : messages'[r].id = id /\ messages'[r].jid = jid
    BY <1>2 DEF IsMessageIdForJid
  <2>2. StateOfMessage(messages', id, jid) = messages'[r].state
    BY <1>0, <2>1, ShownState
  <2>3. CASE r \in DOMAIN messages
    <3>1. messages[r].id = id /\ messages[r].jid = jid
      BY <1>0, <2>1, <2>3 DEF RowsKeepNames
    <3>2. StateOfMessage(messages, id, jid) = messages[r].state
      BY <1>0, <2>3, <3>1, ShownState
    <3>3. messages[r].state \in MessageState
      BY <2>3 DEF TypeOK, IsTable, Row
    <3>4. \/ messages'[r].state = messages[r].state
          \/ ValidStateChange(messages[r].state, messages'[r].state)
      BY <1>0, <2>3 DEF RowsChangeValidly
    <3>5. TypeOK'
      BY TypeStep
    <3>6. messages'[r].state \in MessageState
      BY <2>1, <3>5 DEF TypeOK, IsTable, Row
    <3>7. QED
      BY <2>2, <3>2, <3>3, <3>4, <3>6
         DEF Life!Change, Life!ValidChange, Life!Absent, ValidStateChange,
             MessageState, DEFAULT, DISPLAYED_CONFIRMED, UPLOADING_ATTACHMENT
  <2>4. CASE r \notin DOMAIN messages
    <3>1. messages'[r].state = 0
      BY <1>0, <2>1, <2>4 DEF RowsKeepNames, DEFAULT
    <3>2. DOMAIN messages \subseteq DOMAIN messages'
      BY <1>0, <2>1, <2>4 DEF RowsKeepNames
    <3>3. ~ IsMessageIdForJid(messages, id, jid)
      BY <1>0, <2>1, <2>4, <3>2
         DEF IsMessageIdForJid, RowsKeepNames, HoldsEachOnce
    <3>4. QED
      BY <2>2, <3>1, <3>3 DEF StateOfMessage, Life!Change, Life!Absent
  <2>5. QED
    BY <2>3, <2>4
<1>3. QED
  BY <1>1, <1>2

(* Each message of each conversation lives as MessageLife promises: the    *)
(* store, with its checks by id alone, implements it.                      *)
THEOREM StoreImplementsLife == Spec => MessagesLiveAsPromised
<1>1. Init => Life!Init
  BY EmptyFunction DEF Init, Life!Init, Life!Messages, Life!Absent, LifeStatus,
     StateOfMessage, IsMessageIdForJid
<1>2. TypeOK /\ Safety /\ Safety' /\ [Next]_vars => [Life!Next]_LifeStatus
  <2> SUFFICES ASSUME TypeOK, Safety, Safety', [Next]_vars PROVE Life!Next
    OBVIOUS
  <2>1. ASSUME NEW m \in Ids \X Jids
        PROVE  Life!Change(LifeStatus[m], LifeStatus'[m])
    <3>1. m[1] \in Ids /\ m[2] \in Jids
      OBVIOUS
    <3>2. Life!Change(StateOfMessage(messages, m[1], m[2]),
                      StateOfMessage(messages', m[1], m[2]))
      BY <3>1, LifeStep
    <3>3. QED
      BY <3>2 DEF LifeStatus
  <2>2. LifeStatus' = [m \in Ids \X Jids |-> LifeStatus'[m]]
    BY DEF LifeStatus
  <2>3. QED
    BY <2>1, <2>2 DEF Life!Next, Life!Messages
<1>3. QED
  BY <1>1, <1>2, TypeInit, TypeStep, SafetyInit, SafetyStep, PTL
     DEF Spec, MessagesLiveAsPromised, Life!Spec

=============================================================================
