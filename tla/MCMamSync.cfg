SPECIFICATION FairSpec
CONSTANTS
    me = me
    room1 = room1
    Own = me
    Rooms = {room1}
    PageSize = 1
    ReadSizes = {1}
    Anonymous = {}
    MaxMessages = 3
    MaxFound = 2
    MaxConnects = 2
CHECK_DEADLOCK FALSE
INVARIANTS
    AskedOnce
    LaterSessionsAsk
    NothingIsSkipped
PROPERTIES
    ArchiveIsFetched
