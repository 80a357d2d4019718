----------------------------- MODULE RosterList -----------------------------
(***************************************************************************)
(* rosterList_ of RosterController, what can be done with it, and what it  *)
(* has to agree with: the server's roster and the bookmarks, which others  *)
(* keep.  The list is sorted by name; as it holds a jid only once, it is a *)
(* function here, which says of an entry only if it is a group: names,     *)
(* subscriptions, availability and avatars decide nothing.                 *)
(***************************************************************************)
EXTENDS SequencesExt

VARIABLES roster,     \* rosterList_: jid -> isGroup
          told,       \* Swiften's XMPPRoster
          bookmarks,  \* the bookmarks Swiften has, in their order: [room, autojoin]
          storage     \* the bookmarks the server stores

(* A jid the list holds (isJidInRoster) keeps its entry. *)
WithEntries(list_, jids, group) ==
    [j \in DOMAIN list_ \cup jids |-> IF j \in DOMAIN list_ THEN list_[j] ELSE group]

WithoutEntry(list_, jid) == [j \in DOMAIN list_ \ {jid} |-> list_[j]]

(* appendToRosterIfNotAlreadyIn *)
AppendToRoster(list_, jids) == WithEntries(list_, jids, FALSE)

(* addGroupAsContact *)
AddGroupsAsContacts(list_, rooms) == WithEntries(list_, rooms, TRUE)

(* updateAvailabilityForJid: what a presence does to the list. *)
UpdateAvailability(list_, jid) == AppendToRoster(list_, {jid})

-----------------------------------------------------------------------------
RoomsOf(list_) == {list_[i].room : i \in DOMAIN list_}

(* joinRoomIfConfigured: a bookmark of another client need not say that    *)
(* its room is joined.                                                     *)
RoomsToJoin(list_) ==
    {list_[i].room : i \in {k \in DOMAIN list_ : list_[k].autojoin}}

BookmarkedTwice(list_, room) ==
    \E i, j \in DOMAIN list_ : i # j /\ list_[i].room = room /\ list_[j].room = room

-----------------------------------------------------------------------------
(* Whoever the server's roster is known to hold is in the list, however    *)
(* roster, pushes and presences are interleaved: "In real world updated    *)
(* from presence will arrive before the roster is received".               *)
ContactsAreListed ==
    \A jid \in told : jid \in DOMAIN roster

(* A room is shown as a room, and can be removed as one, only while it is  *)
(* bookmarked.                                                             *)
GroupsAreBookmarked ==
    \A jid \in DOMAIN roster : roster[jid] => jid \in RoomsOf(bookmarks)

(* No step takes a room from the list and leaves it bookmarked, nor adds a *)
(* bookmark and leaves the room unlisted.  The exception is a room that    *)
(* was bookmarked twice, as an early or repeated join may do: removeRoom   *)
(* removes one bookmark, handleBookmarkRemoved the entry, and the room,    *)
(* which the user cannot remove any more, comes back with the next start.  *)
BookmarksStayListed ==
    [][\A room \in RoomsOf(bookmarks') :
          \/ room \in DOMAIN roster'
          \/ room \in RoomsOf(bookmarks) \ DOMAIN roster
          \/ BookmarkedTwice(bookmarks, room)]_<<roster, bookmarks>>

(* "save as bookmark if not already in": no room is bookmarked twice.  Not *)
(* so: addRoom looks long before the bookmark is added, and a MUC that has *)
(* waited over a disconnect is completed together with the next one.       *)
RoomsAreBookmarkedOnce == \A room \in RoomsOf(bookmarks) : ~BookmarkedTwice(bookmarks, room)

=============================================================================
