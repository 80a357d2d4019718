SPECIFICATION Spec
CONSTANTS
    alice = alice
    bob = bob
    room1 = room1
    room2 = room2
    People = {alice}
    Rooms = {room1, room2}
    StoredByOthers <- NothingStored
    Joins = 2
    MaxChanges = 1
CHECK_DEADLOCK FALSE
PROPERTIES
    JoinedIsBookmarked
