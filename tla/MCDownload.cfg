SPECIFICATION Spec
CONSTANTS
    shared1 = shared1
    shared2 = shared2
    secret = secret
    other = other
    alice = alice
    bob = bob
    Messages <- MCMessages
    Url <- MCUrl
    Jid <- MCJid
    Encrypted = {"aesgcm", "aesgcm8"}
    Supported = {"aesgcm"}
    Payload <- MCPayload
    TagSize = 2
    MaxRunning = 2
    MaxFaults = 2
INVARIANTS
    OneWriter
    ShownIsLocal
    ShownIsReadable
PROPERTIES
    WholeStaysWhole
