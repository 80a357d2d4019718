\* Statements that do not hold: one is checked, the others take its place.
SPECIFICATION FairSpec
CONSTANTS
    own1 = own1
    own2 = own2
    peer1 = peer1
    peer2 = peer2
    carbon1 = carbon1
    alice = alice
    room = room
    nick1 = nick1
    NoJid = NoJid
    Ids <- MCIds
    OwnIds = {own1}
    PeerIds = {peer1}
    CarbonIds = {carbon1}
    Sender <- MCFromAlice
    Jids = {alice}
    Groups = {}
    Members = {}
    Times <- OneSecond
    MaxRow = 2
    MaxUnread = 1
    SendReadNotifications = TRUE
    HasArchive = TRUE
INVARIANTS
    UnreadWereReceived
\* INVARIANTS ReportedOnce
\* PROPERTIES SentIsDelivered
