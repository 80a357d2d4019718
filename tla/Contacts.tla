------------------------------ MODULE Contacts ------------------------------
(***************************************************************************)
(* The list of contacts and rooms: RosterController and PresenceHandler    *)
(* (package contacts) and MucManager (package room).  Both write to the    *)
(* one list rosterList_: the server's roster, the bookmarks and every      *)
(* presence add to it.                                                     *)
(*                                                                         *)
(* Swiften and the server are external: Swiften's XMPPRoster and           *)
(* MUCBookmarkManager are what they are used for in the code.  A MUC that  *)
(* is not kept in mucCollection_ is destroyed at once, so that only the    *)
(* join of a room that was not bookmarked is ever completed for the        *)
(* client.  A MUC that is kept waits for the server to let the client into *)
(* its room, whoever asked for that and in whichever session.              *)
(*                                                                         *)
(* The server does not put the client out of a room within a session.      *)
(***************************************************************************)
EXTENDS RosterList, Naturals

CONSTANTS People,         \* bare jids of other users
          Rooms,          \* bare jids of rooms
          StoredByOthers, \* what other clients of the account may have stored
          Joins,          \* bound: how often the user joins in one program run
          MaxChanges      \* bound: disconnects, restarts and changes of the roster

Bookmark == [room : Rooms, autojoin : BOOLEAN]

ASSUME ContactsAssumption ==
    /\ People \cap Rooms = {} /\ StoredByOthers \subseteq Seq(Bookmark)
    /\ Joins \in Nat /\ MaxChanges \in Nat

VARIABLES mucCollection,  \* mucCollection_: its rooms
          joining,        \* room -> how many of these MUCs await handleJoinComplete
          asked, has,     \* what the server was asked for, what it has answered
          started,        \* there has been a session in this program run
          contacts,       \* the server's roster
          online,         \* in a session
          entering,       \* rooms the server was asked to enter
          occupied,       \* rooms the client is in
          leaving,        \* who will be seen to go offline
          away,           \* rooms refused or left since they were last asked for
          joins, changes  \* for the bounds

list == <<roster, mucCollection, joining>>
swiften == <<bookmarks, told, asked, has, started>>
presences == <<entering, occupied, leaving, away>>
vars == <<list, swiften, storage, contacts, online, presences, joins, changes>>

Jids == People \cup Rooms
Lists == {"roster", "bookmarks"}
NoneJoining == [room \in Rooms |-> 0]

Init == /\ roster = <<>> /\ mucCollection = <<>> /\ joining = NoneJoining
        /\ bookmarks = <<>> /\ told = {} /\ asked = {} /\ has = {} /\ started = FALSE
        /\ storage \in StoredByOthers /\ contacts \in SUBSET People /\ online = FALSE
        /\ entering = {} /\ occupied = {} /\ leaving = {} /\ away = {}
        /\ joins = 0 /\ changes = 0

Changes == changes < MaxChanges /\ changes' = changes + 1

-----------------------------------------------------------------------------
(* RosterController *)

(* Faulty variant: the roster is expected to come before any presence. *)
HandleRosterReceivedIntoEmptyList ==
    /\ online /\ "roster" \in asked \ has
    /\ has' = has \cup {"roster"}
    /\ told' = contacts
    /\ roster' = IF roster = <<>> THEN AppendToRoster(roster, contacts) ELSE roster
    /\ UNCHANGED <<mucCollection, joining, bookmarks, asked, started, storage, contacts,
                   online, presences, joins, changes>>

(* handleRosterReceived, through updateNameForJid and the like;            *)
(* bindJidUpdateMethodes came just before.                                 *)
HandleRosterReceived ==
    /\ online /\ "roster" \in asked \ has
    /\ has' = has \cup {"roster"}
    /\ told' = contacts
    /\ roster' = AppendToRoster(roster, contacts)
    /\ UNCHANGED <<mucCollection, joining, bookmarks, asked, started, storage, contacts,
                   online, presences, joins, changes>>

(* The server reports a change of the roster, which it need not do after a *)
(* reconnect, as the roster was not asked for in that session.             *)
Push(jid) == online /\ "roster" \in has /\ jid \in People

(* handleJidAdded: a jid the list holds already keeps its entry. *)
HandleJidAdded(jid) ==
    /\ Push(jid) /\ jid \in contacts \ told
    /\ told' = told \cup {jid}
    /\ roster' = AppendToRoster(roster, {jid})
    /\ UNCHANGED <<mucCollection, joining, bookmarks, asked, has, started, storage,
                   contacts, online, presences, joins, changes>>

(* handleJidUpdated *)
HandleJidUpdated(jid) ==
    /\ Push(jid) /\ jid \in told \cap contacts
    /\ roster' = AppendToRoster(roster, {jid})
    /\ UNCHANGED <<mucCollection, joining, swiften, storage, contacts, online, presences,
                   joins, changes>>

(* handleJidRemoved.  The server of the contact sends afterwards that the  *)
(* contact is unavailable.                                                 *)
HandleJidRemoved(jid) ==
    /\ Push(jid) /\ jid \in told \ contacts
    /\ told' = told \ {jid}
    /\ roster' = WithoutEntry(roster, jid)
    /\ leaving' = leaving \cup {jid}
    /\ UNCHANGED <<mucCollection, joining, bookmarks, asked, has, started, storage,
                   contacts, online, entering, occupied, away, joins, changes>>

(* addContact: refused for a jid that is in the list. *)
AddContact(jid) ==
    /\ online /\ Changes /\ jid \notin DOMAIN roster
    /\ contacts' = contacts \cup {jid}
    /\ UNCHANGED <<list, swiften, storage, online, presences, joins>>

(* removeContact; the ui offers it for an entry that is not a group. *)
RemoveContact(jid) ==
    /\ online /\ Changes /\ jid \in DOMAIN roster /\ ~roster[jid]
    /\ contacts' = contacts \ {jid}
    /\ UNCHANGED <<list, swiften, storage, online, presences, joins>>

(* PresenceHandler::handlePresenceChanged of a contact, which may come     *)
(* before the roster does, of an occupant of a room, or of a contact or a  *)
(* room that was removed.                                                  *)
HandlePresenceChanged(jid) ==
    /\ online
    /\ \/ /\ jid \in contacts \cup entering \cup occupied
          /\ UNCHANGED leaving
       \/ /\ jid \in leaving
          /\ leaving' = leaving \ {jid}
    /\ roster' = UpdateAvailability(roster, jid)
    /\ UNCHANGED <<mucCollection, joining, swiften, storage, contacts, online, entering,
                   occupied, away, joins, changes>>

-----------------------------------------------------------------------------
(* MucManager *)

IsRoomAlreadyBookmarked(room) == room \in RoomsOf(bookmarks)

(* handleBookmarksReady: every room is listed, and joined if configured.   *)
HandleBookmarksReady ==
    /\ online /\ "bookmarks" \in asked \ has
    /\ has' = has \cup {"bookmarks"}
    /\ bookmarks' = storage
    /\ roster' = AddGroupsAsContacts(roster, RoomsOf(storage))
    /\ entering' = entering \cup RoomsToJoin(storage)
    /\ away' = away \ RoomsToJoin(storage)
    /\ UNCHANGED <<mucCollection, joining, told, asked, started, storage, contacts,
                   online, occupied, leaving, joins, changes>>

(* addRoom, for Shmoose::joinRoom or an invitation.  A MUC is kept for     *)
(* each call.  Without a session nothing is sent.                          *)
AddRoom(room) ==
    /\ started /\ joins < Joins
    /\ joins' = joins + 1
    /\ entering' = IF online THEN entering \cup {room} ELSE entering
    /\ away' = away \ {room}
    /\ IF IsRoomAlreadyBookmarked(room) THEN UNCHANGED <<mucCollection, joining>>
       ELSE /\ mucCollection' = Append(mucCollection, room)
            /\ joining' = [joining EXCEPT ![room] = @ + 1]
    /\ UNCHANGED <<roster, swiften, storage, contacts, online, occupied, leaving, changes>>

(* Faulty variant: a bookmarked room is not put into the list. *)
HandleBookmarkAddedUnlisted(room, waiting) ==
    /\ entering' = waiting \cup {room}
    /\ away' = away \ {room}
    /\ UNCHANGED roster

(* handleBookmarkAdded: the room is listed and, as addRoom's bookmarks say *)
(* so, joined once more.                                                   *)
HandleBookmarkAdded(room, waiting) ==
    /\ entering' = waiting \cup {room}
    /\ away' = away \ {room}
    /\ roster' = AddGroupsAsContacts(roster, {room})

(* handleJoinComplete, for n MUCs: each bookmarks the first room of        *)
(* mucCollection_ with the nickname.  The nickname is the same for all     *)
(* rooms, and nothing is ever taken out of mucCollection_.                 *)
HandleJoinComplete(room, n) ==
    LET head == Head(mucCollection)
        added == [k \in 1 .. n |-> [room |-> head, autojoin |-> TRUE]]
    IN  /\ bookmarks' = bookmarks \o added
        /\ storage' = bookmarks \o added
        /\ HandleBookmarkAdded(head, entering \ {room})

(* The server lets the client in, which completes the join of every MUC of *)
(* the room.  Without the server's bookmarks addBookmark does nothing.     *)
Entered(room) ==
    /\ online /\ room \in entering
    /\ occupied' = occupied \cup {room}
    /\ joining' = [joining EXCEPT ![room] = 0]
    /\ IF joining[room] > 0 /\ "bookmarks" \in has
       THEN HandleJoinComplete(room, joining[room])
       ELSE /\ entering' = entering \ {room}
            /\ UNCHANGED <<bookmarks, storage, roster, away>>
    /\ UNCHANGED <<mucCollection, told, asked, has, started, contacts, online, leaving,
                   joins, changes>>

(* The server does not let the client in: handleJoinFailed tells the user, *)
(* and the MUC, if one is kept, keeps waiting.                             *)
HandleJoinFailed(room) ==
    /\ online /\ room \in entering
    /\ entering' = entering \ {room}
    /\ away' = away \cup {room}
    /\ UNCHANGED <<list, swiften, storage, contacts, online, occupied, leaving, joins, changes>>

(* handleBookmarkRemoved leaves the room, if it can. *)
LeaveRoom(room) ==
    /\ occupied' = occupied \ {room} /\ entering' = entering \ {room}
    /\ leaving' = IF online THEN leaving \cup {room} ELSE leaving
    /\ away' = IF online THEN away \cup {room} ELSE away

(* The first bookmark of the room goes. *)
WithoutFirst(list_, room) == RemoveFirstMatch(list_, LAMBDA bookmark : bookmark.room = room)

(* Faulty variant: the room stays in the list. *)
RemoveRoomKeepsEntry(room) ==
    /\ room \in DOMAIN roster /\ roster[room] /\ room \in RoomsOf(bookmarks)
    /\ bookmarks' = WithoutFirst(bookmarks, room)
    /\ storage' = IF online THEN WithoutFirst(bookmarks, room) ELSE storage
    /\ LeaveRoom(room)
    /\ UNCHANGED <<list, told, asked, has, started, contacts, online, joins, changes>>

(* removeRoom and, through removeBookmark, handleBookmarkRemoved.  The ui  *)
(* offers it for an entry that is a group.                                 *)
RemoveRoom(room) ==
    /\ room \in DOMAIN roster /\ roster[room] /\ room \in RoomsOf(bookmarks)
    /\ bookmarks' = WithoutFirst(bookmarks, room)
    /\ storage' = IF online THEN WithoutFirst(bookmarks, room) ELSE storage
    /\ roster' = WithoutEntry(roster, room)
    /\ LeaveRoom(room)
    /\ UNCHANGED <<mucCollection, joining, told, asked, has, started, contacts, online,
                   joins, changes>>

-----------------------------------------------------------------------------
(* Faulty variant: the rooms are not joined again. *)
ConnectOnly ==
    /\ ~online /\ online' = TRUE /\ started' = TRUE
    /\ asked' = IF started THEN asked ELSE Lists
    /\ UNCHANGED <<list, bookmarks, told, has, storage, contacts, presences, joins, changes>>

(* A session: the first one asks for the roster and the bookmarks          *)
(* (intialSetupOnFirstConnection), a later one joins the rooms again       *)
(* (MucManager::handleConnected).                                          *)
Connect ==
    /\ ~online /\ online' = TRUE /\ started' = TRUE
    /\ asked' = IF started THEN asked ELSE Lists
    /\ entering' = RoomsToJoin(bookmarks)
    /\ UNCHANGED <<list, bookmarks, told, has, storage, contacts, occupied, leaving, away,
                   joins, changes>>

NoSession ==
    online' = FALSE /\ entering' = {} /\ occupied' = {} /\ leaving' = {} /\ away' = {}

(* What was not answered before never will be. *)
Disconnect ==
    /\ online /\ Changes /\ NoSession
    /\ asked' = has
    /\ UNCHANGED <<list, bookmarks, told, has, started, storage, contacts, joins>>

(* The program ends and is started again. *)
Restart ==
    /\ Changes /\ NoSession
    /\ roster' = <<>> /\ mucCollection' = <<>> /\ joining' = NoneJoining /\ joins' = 0
    /\ bookmarks' = <<>> /\ told' = {} /\ asked' = {} /\ has' = {} /\ started' = FALSE
    /\ UNCHANGED <<storage, contacts>>

Next ==
    \/ HandleRosterReceived
    \/ \E jid \in People : \/ HandleJidAdded(jid)
                           \/ HandleJidUpdated(jid)
                           \/ HandleJidRemoved(jid)
                           \/ AddContact(jid)
    \/ \E jid \in Jids : RemoveContact(jid)
    \/ \E jid \in Jids : HandlePresenceChanged(jid)
    \/ HandleBookmarksReady
    \/ \E room \in Rooms : AddRoom(room)
    \/ \E room \in Rooms : Entered(room)
    \/ \E room \in Rooms : HandleJoinFailed(room)
    \/ \E room \in Rooms : RemoveRoom(room)
    \/ Connect
    \/ Disconnect
    \/ Restart

Spec == Init /\ [][Next]_vars

(* The client connects again when it can, and the server answers a request *)
(* to enter a room, in one way or the other.                               *)
FairSpec == /\ Spec
            /\ WF_vars(Connect)
            /\ \A room \in Rooms : WF_vars(Entered(room))

-----------------------------------------------------------------------------
TypeOK == /\ DOMAIN roster \subseteq Jids
          /\ roster \in [DOMAIN roster -> BOOLEAN]
          /\ mucCollection \in Seq(Rooms) /\ joining \in [Rooms -> Nat]
          /\ bookmarks \in Seq(Bookmark) /\ storage \in Seq(Bookmark)
          /\ told \subseteq People /\ contacts \subseteq People
          /\ asked \subseteq Lists /\ has \subseteq asked
          /\ started \in BOOLEAN /\ online \in BOOLEAN
          /\ entering \subseteq Rooms /\ occupied \subseteq Rooms
          /\ away \subseteq Rooms /\ leaving \subseteq Jids
          /\ joins \in 0 .. Joins /\ changes \in 0 .. MaxChanges

(* "It will rejoin to the rooms from the bookmarks": as long as a session  *)
(* lasts, the client is or gets into every room whose bookmark says so,    *)
(* unless the server refuses it or the user has left it.                   *)
RoomsAreJoinedAgain ==
    \A room \in Rooms :
       room \in RoomsToJoin(bookmarks)
       ~> room \in occupied \cup away \/ ~online \/ room \notin RoomsToJoin(bookmarks)

(* "try to join. onJoinComplete, add to bookmark" *)
JoinedIsBookmarked ==
    [][\A room \in Rooms :
          joining[room] > 0 /\ "bookmarks" \in has /\ room \in occupied' \ occupied
          => room \in RoomsOf(bookmarks')]_vars

(* "1 to many communication (aka rooms in XMPP)": what is sent to a        *)
(* bookmarked room is sent to a room (RosterController::isGroup).          *)
BookmarkedIsGroup ==
    \A jid \in DOMAIN roster : jid \in RoomsOf(bookmarks) => roster[jid]

(* "The client shall be able to add, edit and delete contacts": nobody     *)
(* enters the list who is not a contact, a deleted one least of all.       *)
OnlyContactsEnter ==
    [][\A jid \in People :
          jid \in DOMAIN roster' \ DOMAIN roster => jid \in contacts \cup told]_vars

=============================================================================
