SPECIFICATION FairSpec
CONSTANTS
    alice = alice
    bob = bob
    room1 = room1
    room2 = room2
    People = {alice}
    Rooms = {room1, room2}
    StoredByOthers <- MCStored
    Joins = 2
    MaxChanges = 2
CHECK_DEADLOCK FALSE
INVARIANTS
    ContactsAreListed
    GroupsAreBookmarked
PROPERTIES
    BookmarksStayListed
    RoomsAreJoinedAgain
