\* Statements that do not hold: one is checked, the others take its place.
SPECIFICATION FairSpec
CONSTANTS
    file1 = file1
    file2 = file2
    file3 = file3
    url1 = url1
    url2 = url2
    url3 = url3
    alice = alice
    bob = bob
    NoJid = NoJid
    NoId = NoId
    Ids <- MCIds
    FileIds = {file1, file2}
    Url <- MCUrl
    Jids = {alice, bob}
    Members = {}
    Times <- MCTimes
    MaxRow = 4
    MaxUnread = 4
    FileSize <- MCFileSize
    TagSize = 2
    ReadSizes = {2, 3}
    OpenChat = alice
INVARIANTS
    UploadingIsRunningIfHasty
\* INVARIANTS AnnouncedIsSent
\* INVARIANTS ResentIsReadable
\* PROPERTIES UploadAlwaysEnds
