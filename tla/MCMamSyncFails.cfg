\* Statements that do not hold: one is checked, the others take its place.
SPECIFICATION FairSpec
CONSTANTS
    me = me
    room1 = room1
    Own = me
    Rooms = {room1}
    PageSize = 1
    ReadSizes = {1, 2}
    Anonymous = {}
    MaxMessages = 1
    MaxFound = 2
    MaxConnects = 1
CHECK_DEADLOCK FALSE
PROPERTIES
    ArchiveIsFetched
\* INVARIANTS QueriedAreAsked
\* PROPERTIES ArchiveIsFetched, with ReadSizes = {1}, Anonymous = {me} and MaxMessages = 2
