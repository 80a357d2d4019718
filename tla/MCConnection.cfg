SPECIFICATION FairSpec
CONSTANTS
    SFOS = TRUE
    MaxTrouble = 6
INVARIANTS
    RetryIsPending
    SessionIsShown
PROPERTIES
    Recovers
