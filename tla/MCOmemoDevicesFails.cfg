\* Statements that do not hold: one is checked, the others take its place.
SPECIFICATION FairSpec
CONSTANTS
    phone = phone
    tablet = tablet
    NoItems = NoItems
    Devices = {phone, tablet}
    Others = {}
    MaxSessions = 2
    MaxTroubles = 1
CHECK_DEADLOCK FALSE
INVARIANTS
    OnlineIsListed
\* PROPERTIES DevicesStayListed
\* INVARIANTS UninstalledIsUnlisted
\* INVARIANTS RefusedIsSettled
