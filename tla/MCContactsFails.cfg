\* Statements that do not hold: one is checked, the others take its place.
SPECIFICATION Spec
CONSTANTS
    alice = alice
    bob = bob
    room1 = room1
    room2 = room2
    People = {alice}
    Rooms = {room1}
    StoredByOthers <- NothingStored
    Joins = 2
    MaxChanges = 1
CHECK_DEADLOCK FALSE
INVARIANTS
    BookmarkedIsGroup
\* PROPERTIES OnlyContactsEnter
\* INVARIANTS RoomsAreBookmarkedOnce
