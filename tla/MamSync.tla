------------------------------- MODULE MamSync -------------------------------
(***************************************************************************)
(* How the archives of the server are fetched: MamManager (package         *)
(* xep/mam) with what triggers it, DiscoInfoHandler and MucManager.        *)
(* There is one archive of the user and one of each room.  A request is    *)
(* answered by the messages of a page, a stanza each, and a fin stanza     *)
(* that says whether the archive ends there and which message was last.    *)
(* Messages are numbered as the archive has them; what is done with one is *)
(* modelled in Messaging (ProcessArchivedMessage).                         *)
(*                                                                         *)
(* The client does not see stanzas: handleDataReceived is given what one   *)
(* read from the socket returned, and reads of it the first stanza only    *)
(* (XmlProcessor ends at the second root element).                         *)
(***************************************************************************)
EXTENDS Naturals, Sequences, FiniteSets

CONSTANTS Own,         \* the user's archive
          Rooms,       \* the archives of rooms
          PageSize,    \* how many messages the server puts into a page
          ReadSizes,   \* how many stanzas one read from the socket may return
          Anonymous,   \* the archives whose answers do not say "from": XMPP
                       \* lets a server leave it out for the user's own
          MaxMessages, \* bound: messages in an archive
          MaxFound,    \* bound: entities of the server with the feature
          MaxConnects  \* bound: sessions

ASSUME MamSyncAssumption ==
    /\ Own \notin Rooms /\ Anonymous \subseteq {Own} /\ PageSize \in Nat \ {0} /\ ReadSizes \subseteq Nat \ {0}
    /\ MaxMessages \in Nat \ {0} /\ MaxFound \in Nat /\ MaxConnects \in Nat

VARIABLES serverHasFeature, \* serverHasFeature_
          queridJids,       \* queridJids_
          online,           \* in a session
          requests,         \* requests the server has to answer, oldest first
          wire,             \* stanzas on their way to the client
          size,             \* archive -> number of messages it holds
          fetched,          \* archive -> the messages processMamMessage was given
          owed,             \* archive -> what it held when it was asked for
          asks,             \* room -> how often it was asked for from its start
          found, connects   \* for the bounds

client == <<serverHasFeature, queridJids>>
bounds == <<found, connects>>
vars == <<client, online, requests, wire, size, fetched, owed, asks, bounds>>

Archives == Rooms \cup {Own}
Request == [jid : Archives, after : 0 .. MaxMessages - 1]
Stanza == [kind : {"message"}, jid : Archives, n : Nat \ {0}]
          \cup [kind : {"fin"}, jid : Archives, complete : BOOLEAN, last : Nat]

Init == /\ serverHasFeature = FALSE /\ queridJids = {}
        /\ online = FALSE /\ requests = <<>> /\ wire = <<>>
        /\ size \in [Archives -> 0 .. MaxMessages]
        /\ fetched = [a \in Archives |-> {}] /\ owed = [a \in Archives |-> {}]
        /\ asks = [r \in Rooms |-> 0] /\ found = 0 /\ connects = 0

-----------------------------------------------------------------------------
(* requestArchiveForJid from the start: nothing without the feature. *)
RequestArchiveForJid(jid, has) ==
    IF has /\ online
    THEN /\ requests' = Append(requests, [jid |-> jid, after |-> 0])
         /\ owed' = [owed EXCEPT ![jid] = 1 .. size[jid]]
    ELSE UNCHANGED <<requests, owed>>

(* setServerHasFeatureMam *)
SetServerHasFeatureMam ==
    /\ serverHasFeature' = TRUE
    /\ RequestArchiveForJid(Own, TRUE)

(* DiscoInfoHandler::handleDiscoServiceWalker: the walk through the        *)
(* server's services, begun in the first session, finds an entity with the *)
(* feature.                                                                *)
HandleDiscoServiceWalker ==
    /\ online /\ connects = 1 /\ found < MaxFound
    /\ found' = found + 1
    /\ SetServerHasFeatureMam
    /\ UNCHANGED <<queridJids, online, wire, size, fetched, asks, connects>>

(* Faulty variant: the room is not noted. *)
AddJidforArchiveQueryUnnoted(room) ==
    /\ online /\ room \notin queridJids /\ UNCHANGED queridJids
    /\ RequestArchiveForJid(room, serverHasFeature)
    /\ asks' = IF serverHasFeature /\ asks[room] < 2 THEN [asks EXCEPT ![room] = @ + 1]
               ELSE asks
    /\ UNCHANGED <<serverHasFeature, online, wire, size, fetched, bounds>>

(* addJidforArchiveQuery, for a room of the bookmarks or a new bookmark    *)
(* (receiveRoomWithName).  A reconnect does not announce the bookmarks     *)
(* again (triggerNewMucSignal_): then the room has a bookmark added, its   *)
(* first one or another (RoomsAreBookmarkedOnce of Contacts).              *)
AddJidforArchiveQuery(room) ==
    /\ online /\ room \notin queridJids
    /\ queridJids' = queridJids \cup {room}
    /\ RequestArchiveForJid(room, serverHasFeature)
    /\ asks' = IF serverHasFeature THEN [asks EXCEPT ![room] = @ + 1] ELSE asks
    /\ UNCHANGED <<serverHasFeature, online, wire, size, fetched, bounds>>

(* processMamMessage *)
ProcessMamMessage(stanza) ==
    /\ fetched' = [fetched EXCEPT ![stanza.jid] = @ \cup {stanza.n}]
    /\ UNCHANGED requests

(* processFinIq asks for another page of an archive it is told the name of. *)
AsksOn(stanza) == ~stanza.complete /\ stanza.jid \notin Anonymous

(* Faulty variant: the next page is asked for from the start. *)
ProcessFinIqFromStart(stanza) ==
    /\ requests' = IF AsksOn(stanza)
                   THEN Append(requests, [jid |-> stanza.jid, after |-> 0]) ELSE requests
    /\ UNCHANGED fetched

(* Faulty variant: the page is asked for from one message further on. *)
ProcessFinIqOneTooFar(stanza) ==
    /\ requests' = IF AsksOn(stanza)
                   THEN Append(requests, [jid |-> stanza.jid, after |-> stanza.last + 1])
                   ELSE requests
    /\ UNCHANGED fetched

(* processFinIq: asks for the page after the last message. *)
ProcessFinIq(stanza) ==
    /\ requests' = IF AsksOn(stanza)
                   THEN Append(requests, [jid |-> stanza.jid, after |-> stanza.last])
                   ELSE requests
    /\ UNCHANGED fetched

(* What XmlProcessor finds in a read of several stanzas. *)
FirstStanza(read) == read[1]

(* handleDataReceived with the next stanzas. *)
HandleDataReceived ==
    /\ online
    /\ \E k \in ReadSizes \cap 1 .. Len(wire) :
          /\ wire' = SubSeq(wire, k + 1, Len(wire))
          /\ LET stanza == FirstStanza(SubSeq(wire, 1, k))
             IN  IF stanza.kind = "fin" THEN ProcessFinIq(stanza)
                 ELSE ProcessMamMessage(stanza)
    /\ UNCHANGED <<client, online, size, owed, asks, bounds>>

-----------------------------------------------------------------------------
(* The server and the connection *)

Least(m, n) == IF m < n THEN m ELSE n

(* The answer to a request: a page and its end. *)
Page(jid, after) ==
    LET last == Least(after + PageSize, size[jid])
    IN  [i \in 1 .. (last - after) |-> [kind |-> "message", jid |-> jid, n |-> after + i]]
        \o <<[kind |-> "fin", jid |-> jid, complete |-> last = size[jid], last |-> last]>>

Answer ==
    /\ online /\ requests # <<>>
    /\ wire' = wire \o Page(requests[1].jid, requests[1].after)
    /\ requests' = Tail(requests)
    /\ UNCHANGED <<client, online, size, fetched, owed, asks, bounds>>

(* Another message gets into an archive. *)
Arrives(jid) ==
    /\ size[jid] < MaxMessages
    /\ size' = [size EXCEPT ![jid] = @ + 1]
    /\ UNCHANGED <<client, online, requests, wire, fetched, owed, asks, bounds>>

(* Faulty variant: the rooms asked for before are still noted. *)
ConnectKeepsQueried ==
    /\ ~online /\ connects < MaxConnects
    /\ online' = TRUE /\ connects' = connects + 1
    /\ asks' = [r \in Rooms |-> 0]
    /\ UNCHANGED <<client, requests, wire, size, fetched, owed, found>>

(* handleConnected *)
Connect ==
    /\ ~online /\ connects < MaxConnects
    /\ online' = TRUE /\ connects' = connects + 1
    /\ queridJids' = {}
    /\ asks' = [r \in Rooms |-> 0]
    /\ UNCHANGED <<serverHasFeature, requests, wire, size, fetched, owed, found>>

(* Unanswered requests and stanzas on their way are lost. *)
Disconnect ==
    /\ online /\ online' = FALSE
    /\ requests' = <<>> /\ wire' = <<>>
    /\ owed' = [a \in Archives |-> {}]
    /\ UNCHANGED <<client, size, fetched, asks, bounds>>

Next ==
    \/ HandleDiscoServiceWalker
    \/ \E room \in Rooms : AddJidforArchiveQuery(room)
    \/ HandleDataReceived
    \/ Answer
    \/ \E jid \in Archives : Arrives(jid)
    \/ Connect
    \/ Disconnect

Spec == Init /\ [][Next]_vars

(* The server answers, and what it sends is read. *)
FairSpec == Spec /\ WF_vars(Answer) /\ WF_vars(HandleDataReceived)

-----------------------------------------------------------------------------
TypeOK == /\ serverHasFeature \in BOOLEAN /\ queridJids \subseteq Rooms
          /\ online \in BOOLEAN
          /\ requests \in Seq(Request) /\ wire \in Seq(Stanza)
          /\ size \in [Archives -> 0 .. MaxMessages]
          /\ fetched \in [Archives -> SUBSET (1 .. MaxMessages)]
          /\ owed \in [Archives -> SUBSET (1 .. MaxMessages)]
          /\ asks \in [Rooms -> Nat]
          /\ found \in 0 .. MaxFound /\ connects \in 0 .. MaxConnects

(* "adds all bookmarks to the jids list to only query the archive one      *)
(* time": in one session a room is asked for from its start once, however  *)
(* often it is announced.                                                  *)
AskedOnce == \A room \in Rooms : asks[room] <= 1

(* "reset on each new connect": in a later session, too, a room that is    *)
(* announced is asked for, although an earlier session asked for it.       *)
LaterSessionsAsk ==
    connects > 1 /\ online /\ serverHasFeature => \A room \in queridJids : asks[room] > 0

(* Pages are asked for in order: a request goes on after a message only    *)
(* when that message and all before it have been processed.                *)
NothingIsSkipped ==
    \A i \in DOMAIN requests : 1 .. requests[i].after \subseteq fetched[requests[i].jid]

(* Every message an archive held when it was asked for is processed,       *)
(* unless the session ends first; when answers come in reads of one stanza *)
(* and say where they are from.                                            *)
ArchiveIsFetched ==
    \A a \in Archives, n \in 1 .. MaxMessages :
       n \in owed[a] ~> n \in fetched[a] \/ ~online

(* "requests mam for the jids in that list" *)
QueriedAreAsked ==
    online /\ serverHasFeature => \A room \in queridJids : asks[room] > 0

=============================================================================
