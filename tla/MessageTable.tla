---------------------------- MODULE MessageTable ----------------------------
(***************************************************************************)
(* The sqlite table "messages" and the operations MessageController makes  *)
(* on it, as operators on the table's contents.  A table is a function     *)
(* from rowids to rows: the table has no primary key, so sqlite scans it   *)
(* by rowid, gives an inserted row one more than the largest rowid, and    *)
(* "the first row found" is the one with the smallest rowid.               *)
(*                                                                         *)
(* Bodies, resources and types are left out: no property reads them.       *)
(* Each operation here is one statement, committed at once (submitAll,     *)
(* commit): a crash falls between two of them and never inside one.        *)
(***************************************************************************)
EXTENDS Integers

CONSTANTS Ids,      \* message ids
          Jids,     \* bare jids of contacts and rooms
          Times,    \* values of the timestamp column (seconds)
          MaxRow    \* bound: largest rowid the table can reach

ASSUME TableAssumption == /\ Times \subseteq Nat
                          /\ MaxRow \in Nat

(* MessageController.h: the values of the column msgstate. *)
DISPLAYED_CONFIRMED  == -1
DEFAULT              == 0
SENT                 == 1
RECEIVED             == 2
DISPLAYED            == 3
UPLOADING_ATTACHMENT == 4
SEND_FAILED          == 5

MessageState == -1 .. 5
Direction == {"in", "out"}

Row == [id : Ids, jid : Jids, direction : Direction,
        state : MessageState, time : Times]

(* A table: finitely many rows, numbered within the bound. *)
IsTable(t) == /\ DOMAIN t \subseteq 1 .. MaxRow
              /\ t = [r \in DOMAIN t |-> t[r]]
              /\ \A r \in DOMAIN t : t[r] \in Row

EmptyTable == [r \in {} |-> r]

-----------------------------------------------------------------------------
RowsOfId(t, id) == {r \in DOMAIN t : t[r].id = id}

FirstRowOfId(t, id) ==
    CHOOSE r \in RowsOfId(t, id) : \A s \in RowsOfId(t, id) : r <= s

(* Faulty variant: the state of the newest row with the id. *)
StateOfNewestRow(t, id) ==
    IF RowsOfId(t, id) = {} THEN DEFAULT
    ELSE t[CHOOSE r \in RowsOfId(t, id) : \A s \in RowsOfId(t, id) : s <= r].state

(* getStateOfMessageId: the state of the first row that carries the id,    *)
(* whatever conversation it belongs to.  No row counts as DEFAULT.         *)
StateOfMessageId(t, id) ==
    IF RowsOfId(t, id) = {} THEN DEFAULT ELSE t[FirstRowOfId(t, id)].state

(* Faulty variant: an own message, which the archive delivers as well, is  *)
(* not looked for.                                                         *)
IsReceivedIdForJid(t, id, jid) ==
    \E r \in DOMAIN t : t[r].id = id /\ t[r].jid = jid /\ t[r].direction = "in"

(* isMessageIdForJidInDatabase *)
IsMessageIdForJid(t, id, jid) ==
    \E r \in DOMAIN t : t[r].id = id /\ t[r].jid = jid

(* The comment above setMessageStateOfId, and its condition. *)
ValidStateChange(current, new) ==
    \/ current = DEFAULT /\ new = DISPLAYED_CONFIRMED
    \/ current = UPLOADING_ATTACHMENT
    \/ new > current

(* Faulty variant: every row is checked for itself, none for all. *)
SetEachMessageState(t, id, state) ==
    [r \in DOMAIN t |-> IF t[r].id = id /\ ValidStateChange(t[r].state, state)
                        THEN [t[r] EXCEPT !.state = state]
                        ELSE t[r]]

(* setMessageStateOfId: one check, against the first row with this id, and *)
(* one UPDATE of every row with this id.                                   *)
SetMessageStateOfId(t, id, state) ==
    IF ValidStateChange(StateOfMessageId(t, id), state)
    THEN [r \in DOMAIN t |-> IF t[r].id = id
                             THEN [t[r] EXCEPT !.state = state]
                             ELSE t[r]]
    ELSE t

NextRow(t) ==
    IF DOMAIN t = {} THEN 1
    ELSE 1 + (CHOOSE r \in DOMAIN t : \A s \in DOMAIN t : s <= r)

(* Faulty variant: REPLACE, as the other two tables do it. *)
ReplaceMessage(t, id, jid, direction, time) ==
    [r \in (IF IsMessageIdForJid(t, id, jid) THEN DOMAIN t
            ELSE DOMAIN t \cup {NextRow(t)}) |->
       IF r \notin DOMAIN t \/ (t[r].id = id /\ t[r].jid = jid)
       THEN [id |-> id, jid |-> jid, direction |-> direction,
             state |-> DEFAULT, time |-> time]
       ELSE t[r]]

(* addMessage: an id that the conversation already holds is not added      *)
(* again.  The column msgstate of a new row is NULL, which reads as 0.     *)
AddMessage(t, id, jid, direction, time) ==
    IF IsMessageIdForJid(t, id, jid) THEN t
    ELSE [r \in DOMAIN t \cup {NextRow(t)} |->
             IF r = NextRow(t)
             THEN [id |-> id, jid |-> jid, direction |-> direction,
                   state |-> DEFAULT, time |-> time]
             ELSE t[r]]

(* removeMessage *)
RemoveMessage(t, id, jid) ==
    [r \in {s \in DOMAIN t : ~ (t[s].id = id /\ t[s].jid = jid)} |-> t[r]]

(* Faulty variant: only what was received is removed. *)
RemoveReceivedFromJid(t, jid) ==
    [r \in {s \in DOMAIN t : ~ (t[s].jid = jid /\ t[s].direction = "in")} |-> t[r]]

(* removeMessagesFromJid; the attachments' files are not modelled here. *)
RemoveMessagesFromJid(t, jid) ==
    [r \in {s \in DOMAIN t : t[s].jid # jid} |-> t[r]]

(* setup, on opening the database: an upload that was running when the     *)
(* program ended is a failed one.                                          *)
FailInterruptedUploads(t) ==
    [r \in DOMAIN t |-> IF t[r].state = UPLOADING_ATTACHMENT
                        THEN [t[r] EXCEPT !.state = SEND_FAILED]
                        ELSE t[r]]

(* getNewestReceivedMessageIdAndStateOfJid: ORDER BY timestamp DESC LIMIT  *)
(* 1, in which any of the rows that tie on the newest second may come      *)
(* first.                                                                  *)
NewestReceivedRows(t, jid) ==
    {r \in DOMAIN t :
        /\ t[r].jid = jid /\ t[r].direction = "in"
        /\ \A s \in DOMAIN t :
              t[s].jid = jid /\ t[s].direction = "in" => t[s].time <= t[r].time}

(* The state of the message of a conversation, -2 if there is none. *)
StateOfMessage(t, id, jid) ==
    IF IsMessageIdForJid(t, id, jid)
    THEN t[CHOOSE r \in DOMAIN t : t[r].id = id /\ t[r].jid = jid].state
    ELSE -2

-----------------------------------------------------------------------------
(* No conversation of the table holds an id twice. *)
HoldsEachOnce(t) ==
    \A r, s \in DOMAIN t : t[r].id = t[s].id /\ t[r].jid = t[s].jid => r = s

(* A row is in the state of every earlier row with its id, or still in     *)
(* DEFAULT.                                                                *)
AgreesById(t) ==
    \A r, s \in DOMAIN t :
       t[r].id = t[s].id /\ r < s => t[s].state \in {t[r].state, DEFAULT}

=============================================================================
