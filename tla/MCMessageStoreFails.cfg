\* Statements that do not hold: one is checked, the others take its place.
SPECIFICATION Spec
CONSTANTS
    id1 = id1
    id2 = id2
    alice = alice
    room = room
    nick1 = nick1
    nick2 = nick2
    NoJid = NoJid
    Ids <- MCIds
    Jids <- MCJids
    Members = {nick1}
    Times <- MCTimes
    MaxRow = 2
    MaxUnread = 1
INVARIANTS
    EveryMessageHasASession
\* INVARIANTS OpenChatHasNoUnread
