SPECIFICATION Spec
CONSTANTS
    own1 = own1
    own2 = own2
    peer1 = peer1
    peer2 = peer2
    carbon1 = carbon1
    alice = alice
    room = room
    nick1 = nick1
    NoJid = NoJid
    Ids <- MCIds
    OwnIds = {own1, own2}
    PeerIds = {}
    CarbonIds = {}
    Sender <- MCFromAlice
    Jids = {alice, room}
    Groups = {room}
    Members = {}
    Times <- OneSecond
    MaxRow = 2
    MaxUnread = 2
    SendReadNotifications = TRUE
    HasArchive = TRUE
SYMMETRY MCOwnSymmetry
PROPERTIES
    ShownAsDelivered
