\* Statements that do not hold: one is checked, the others take its place.
SPECIFICATION Spec
CONSTANTS
    SFOS = TRUE
    MaxTrouble = 1
PROPERTIES
    KeptWhileInUse
\* PROPERTIES ConnectedIsSignalled
