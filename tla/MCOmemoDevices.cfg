SPECIFICATION FairSpec
CONSTANTS
    phone = phone
    tablet = tablet
    NoItems = NoItems
    Devices = {phone, tablet}
    Others = {}
    MaxSessions = 2
    MaxTroubles = 1
INVARIANTS
    QuietIsSettled
PROPERTIES
    EverybodySettles
CHECK_DEADLOCK FALSE
