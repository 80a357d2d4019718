# harbour-shmoose in TLA+

Shmoose is an XMPP client for Sailfish OS: Swiften below, QML above, and in
between the C++ of `source/` that this project is about. One Qt event loop runs
all of it, so a handler is never interrupted. What is hard is everything around
the handlers: the order in which the server's answers, the user's choices,
network changes and timers reach them; sessions that break between a request and
its answer; the program ending and starting again over tables that survive it;
and state that several handlers share.

## 1. The system

| component | state | operations | talks to |
|---|---|---|---|
| persistence (`persistence/`) | sqlite tables messages, sessions, groupchatmarkers; `persistenceValid_`, the open chat twice (`Persistence`, `SessionController`) | open, add, mark, remove, open a chat | called by all below |
| message handling, chat markers (`base/MessageHandler`, `xep/chatMarkers`) | `unAckedMessageIds_`, `appIsActive_` | send, ack, receive, carbon, receipt, displayed marker | persistence, omemo, Swiften |
| message archive (`xep/mam`) | `serverHasFeature_`, `queridJids_` | ask for an archive, page through it, process what it holds | discovery, rooms, persistence |
| file upload (`xep/httpFileUpload`, `Shmoose::sendFile`) | `busy_`, `file_`, `jid_`, `getUrl_`; `Shmoose::notSentMsgId_` | ask for a slot, put, send the url | persistence, message handling |
| network connection (`networkconnection/`, `Shmoose`) | `connected_`, `initialConnectionSuccessfull_`, `hasInetConnection_`, `appIsActive_`, the reconnect timer | connect, disconnect, reconnect, heartbeat | Swiften, ping |
| omemo (`xep/omemo`) | device lists, sessions, blacklist (databases); queued messages, `uninstall` (memory); the user's list and bundles at the server | encrypt, queue, ask for bundles, finish; decrypt; publish list and bundle, commands | message handling, settings, other clients |
| contacts and rooms (`contacts/`, `room/`) | `rosterList_`, `mucCollection_`; Swiften's roster and bookmarks | roster, pushes, presences; bookmarks, join, leave | archive, Swiften |
| file download (`DownloadManager`, two of them) | files on disk, running requests; `askBeforeDownloading_` | download, decrypt, remove with a conversation | persistence, message handling, archive |
| file encryption, images (`FileWithCypher`, `ImageProcessing`) | one file object with its cipher, position, tag | read and encrypt, write and decrypt; resize | upload, download |
| settings, discovery, stanza ids, dbus, xml, user interface | plain values | - | all |

The components meet in three places. All write to the persistence, and what they
write meets there by message id, which two conversations may share. Most hold a
reference to the one `Swift::Client` and assume a session that may have gone.
And rooms, contacts and the archive react to the same bookmarks and presences.

Hard behaviour, by component, and what makes it correct:

* **persistence**: a mark is checked against the first row with an id and
  written to every row with it; messages come more than once. Correct if no
  conversation shows a message twice, rows of one id never drift apart, states
  change only as the source allows, a message is without a session only through
  the statement that inserted it, the open chat counts nothing unless it was opened
  before the database, a member's mark never goes back; all of it through
  restarts, within an operation too.
* **messaging**: acks, receipts, markers, echoes and archived copies come in any
  order over sessions that break. Correct if the status shown is never better
  than the truth, what is on a connection that holds is shown as sent in the
  end, and only messages the user has seen are reported, once each.
* **file upload**: five members are reused for the next file while a request
  runs; every step may fail. Correct if uploads do not overlap, a url goes to
  the chat the file was chosen for, and an upload ends. The one file object is
  read in pieces of the network's choice: correct if it is used in turns, and all
  it gives is what the receiver can decrypt, tag included.
* **connection**: errors, network changes, the timer and the heartbeat cross.
  Correct if a lost session is always followed by a new one once there is a
  network.
* **omemo**: bundles answer in any order while device lists change. Correct if a
  message goes out only when every device can read it, is freed only when no
  request points to it, and does go out. A message comes in several copies, of
  which one can be decrypted, once: correct if what is shown as secure was
  encrypted, and what was decrypted stays. The user's own list is written back as a
  whole by each client: correct if no client rests that is not in it or stores
  another one, unless the server refused what it published, which the program
  does not look at; and the clients come to an end of it.
* **contacts and rooms**: three sources add to one list. Correct if list,
  bookmarks and rooms agree whatever came first, and rooms whose bookmark says so
  are joined again.
* **archive**: pages chained over asynchronous answers, triggered by discovery
  and bookmarks in any order. Correct if each archive is asked for once in a
  session, and is processed from its start to its end.
* **download**: two managers and all messages with one url write to one file
  name, while conversations are removed with their files. Correct if a file has
  one writer, what came whole stays, and what a row offers is there, and is the
  attachment exactly if its answer could be decrypted and checked.

`PROJECT.json` lists these hazards at their lines, each with the properties
that would catch it, or with a note why there is none.

## 2. Modules

A module `MC<X>` only declares model values and small sets for TLC; the values
are in the `.cfg` files.

| module | models | extends / instantiates |
|---|---|---|
| `MessageTable` | the table messages and `MessageController`'s statements on it, as operators on a function rowid -> row | - |
| `MessageLife` | abstract: what a user may rely on for one message of one conversation, from absent through its states to removed | - |
| `MessageStore` | the component persistence: three tables, every operation, the program's end between operations and between the statements of one | extends `MessageTable`; implements `MessageLife` |
| `MessageStore_proofs` | theorems about `MessageStore` | extends it |
| `Delivery` | abstract: of each message the user sends, how far it has come and what is shown of it | - |
| `Messaging` | `MessageHandler`, `ChatMarkers`, `MamManager::processMamMessage`, the chat functions of `Shmoose`, with server, peers and archive | extends `MessageTable`, instantiates `MessageStore` for the session rules; implements `Delivery` |
| `Messaging_proofs` | theorems about `Messaging` | extends it |
| `CypherTag` | where the bytes of a file end and those of its tag begin, in what is read and in what is downloaded | - |
| `FileCypher` | `FileWithCypher` as the network reads it: name, cipher, position, tag, what was sent | extends `CypherTag` |
| `FileUpload` | `Shmoose::sendFile`, `HttpFileUploadManager`, `HttpFileUploader` | extends `MessageTable` and `CypherTag`, instantiates `MessageStore` as above and `FileCypher` for the one file object; implements `FileCypher` |
| `FileUpload_proofs` | theorems about `FileUpload`, those about `FileCypher` among them | extends it |
| `Connection` | `ConnectionHandler`, `ReConnectionHandler`, heartbeat, with `Swift::Client` and the network | - |
| `Connection_proofs` | theorems about `Connection` | extends it |
| `OmemoQueue` | sending to a contact that may use OMEMO, and the messages that wait for bundles | - |
| `OmemoReceive` | receiving beside the queue: what can be decrypted, the row all copies of a message write to, requests for a key transport | extends `OmemoQueue` |
| `OmemoQueue_proofs` | theorems about `OmemoQueue` and `OmemoReceive` | extends `OmemoReceive` |
| `OmemoDevices` | the user's own device list and bundles, as several clients publish them | - |
| `OmemoDevices_proofs` | theorems about `OmemoDevices` | extends it |
| `RosterList` | the list of `RosterController`, what is done with it, and what it has to agree with | - |
| `Contacts` | `RosterController`, `PresenceHandler`, `MucManager`, with Swiften's roster and bookmarks | extends `RosterList` |
| `MamSync` | how archives are asked for and paged | - |
| `Rooms_proofs` | theorems about `MamSync` and `Contacts` | extends `MamSync` and `RosterList`, instantiates `Contacts` over the same rooms and sessions |
| `Download` | `DownloadManager`, what `FileWithCypher` writes, the files of attachments and what a message's row offers | extends `CypherTag` |
| `Download_proofs` | theorems about `Download` | extends it |

Variables carry the names of the members they stand for; actions carry the names
of the handlers. A handler is one step, with every call it makes: so
`Messaging!ReceiveFrom` is `handleMessageReceived` with the row, the session and
the displayed marker it may send. Names that begin with a comment "Faulty
variant" are not part of the specifications: each is a definition with a
plausible mistake in it, and replaces the right one to show that a property
notices (`mutants` in `PROJECT.json`).

What the modules abstract from, beyond wording and layout:

* Message bodies, resources, types, names and avatars do not appear. A message
  is its id, conversation, direction, state and second.
* sqlite is its tables, and every statement is committed at once. In `MessageStore`
  the program may end between the INSERT and the REPLACE of an operation that adds
  a message (`EndsInPersistMessage`) and between the two removals of
  `removeConversation`, and the REPLACE of a text with a quotation mark is refused
  (`PersistQuotedMessage`); in `Messaging` and `FileUpload` it ends between two
  handlers. `ORDER BY timestamp DESC LIMIT 1` is a choice among the rows that tie.
* In `Messaging`, a stanza of an own message is at one place: given to the
  connection, at the server, acknowledged, or lost in one of three ways.
* In `Connection`, the ping of `XmppPingController` and TCP are one thing: a dead
  session is noticed after something was sent on it. `Swift::Client::connect` drops
  the old session: that nothing is reported of it later is assumed.
* In `OmemoQueue`, reading a freed key is a choice: found or not. A session comes
  from a bundle or from a device's first message (`MessageDecrypt`), and stays:
  the one place that deletes sessions, `lurch_pep_bundle_for_keytransport`, is
  reached with an answer it cannot read, and the program ends there
  (`PepBundleForKeytransport` of `OmemoReceive`).
* In `OmemoReceive`, a text is what the sender wrote, the fallback for other
  clients, nothing, or lurch's note of an error. The library's ratchet is that a
  key is used once, and that decryption may fail.
* In `FileCypher`, what is sent is a sequence of bytes, each known by its place in
  the file, in the encrypted file, or in the tag of so many encrypted bytes.
* In `OmemoDevices`, every client runs this program, an id is its client, and a
  bundle is there or not. The server reads a client's stanzas in order, and may
  refuse a list or a bundle; the answer is not looked at (`LurchAdapter.cpp:427`), so
  it is in no queue: `refused` remembers the client for the properties.
* In `RosterList`, the sorted list is a function, as it holds a jid once; in
  `Contacts`, Swiften's MUCs are what becomes of their three signals. Each call of
  `addRoom` makes a MUC that stays in `mucCollection_`, over a disconnect too;
  `joining` counts those of a room that wait for their signal, which all of them give
  when the room is entered. A bookmark is its room and its autojoin. That the server
  puts the client out of a room within a session, and availability, are left out.
* In `MamSync`, an archive is the numbers 1, 2, ... of its messages, and one read
  from the socket is a run of stanzas, of which `XmlProcessor` sees the first. An
  answer says where it is from, except those of `Anonymous`, after which
  `processFinIq` asks for no further page. `MucManager` does not
  announce its bookmarks again on a reconnect (`triggerNewMucSignal_`); here any room may
  be announced in any session, as one whose bookmark is added is: more than it does.
* In `Download`, a file is what is in it: nothing, the attachment, what was decrypted
  but not checked by its tag, or what was sent, not decrypted. An answer
  states its length or not, and ends in the tag, in a wrong one or in none; an iv has
  a size that `initDecryptionOnWrite` supports or not, which nobody looks at. A
  file removed while it is open keeps its writer and loses its name, so what is
  written to it is gone.

External, and modelled from how the code uses them: `Swift::Client`, its roster,
bookmarks and MUCs, the server and its archive, the peers, the http server, TCP.

## 3. Runs

`tlc -config <run>.cfg <module>.tla`; every run ends within three minutes on
two workers.

| run | specification and bounds | shows |
|---|---|---|
| `MCMessageStore` | two ids, two conversations, two rows, one room member, unread up to 1; symmetric in ids and conversations | `NoMessageTwice`, `SameIdSameState`, `OnlyAnEarlyChatCounts`, `OnlyItsInsertHides`, `OnlyValidStateChanges`, and that the store implements `MessageLife` (`MessagesLiveAsPromised`) |
| `MCMessaging` | one own message, two of a peer, a carbon, a contact and another chat, two seconds, two rows, no archive; fair | `ReportedOnce`, `OpenChatIsReported`, `OnlyTheOpenChatIsReported`, and `AcceptedIsShown` (liveness) |
| `MCStatus` | two own messages, a contact and a room, two rows, archive; symmetric in the messages | that the messaging implements `Delivery` (`ShownAsDelivered`) |
| `MCFileUpload` | three files of up to three bytes, a tag of two, reads of two or three, encrypted or not; two chats, every fault, a request sent twice; fair | `OneUploadAtATime`, `UrlGoesToTheChosenChat`, `UploadingIsRunning` for a user who waits, `UploadIsReadable`, that the file object is used as `FileCypher` says (`FileIsUsedInTurn`), `UploadEnds` (liveness) while requests are answered |
| `MCConnection` | the Sailfish OS build, the environment interferes six times; fair | `RetryIsPending`, `SessionIsShown`, `Recovers` (liveness) |
| `MCOmemoQueue` | a message to send, an encrypted one from the user's tablet and a plain one from the contact, two devices of the contact and the tablet, which has no bundle; lists, blacklist and settings change, requests are lost, copies come in any order, restarts | `Accounted`, `EncryptedForAll`, `FreedWhenAllAnswered`, `SecureIsOmemo`, `DecryptedStays` |
| `MCOmemoStuck` | one message, two devices of the contact, nothing changes or is lost; fair | violates `QueuedIsSent` |
| `MCOmemoDevices` | two clients, two sessions, a command, an error or a refused publication; fair | `QuietIsSettled`, `EverybodySettles` (liveness) |
| `MCContacts` | a contact, two rooms, one bookmarked by another client with or without autojoin; two joins, early or repeated or not, two disconnects, restarts or roster changes; fair | `ContactsAreListed`, `GroupsAreBookmarked`, `BookmarksStayListed`, `RoomsAreJoinedAgain` (liveness) |
| `MCSecondRoom` | two rooms, two joins | violates `JoinedIsBookmarked` |
| `MCMamSync` | the user's archive and a room's, three messages each, pages of one, two entities with the feature, two sessions, a stanza to a read, answers that say where they are from; fair | `AskedOnce`, `LaterSessionsAsk`, `NothingIsSkipped`, `ArchiveIsFetched` (liveness) |
| `MCDownload` | four messages, two with one url in two conversations, two encrypted, one of these with an iv that is not supported; a tag of two bytes, answers with and without length, with a right, a wrong or no tag; two downloads at a time, two failures or restarts | `OneWriter`, `ShownIsLocal`, `WholeStaysWhole`, `ShownIsReadable` |

`TypeOK` of each module is in no run, as it is proved.

Why the bounds are enough. A row's fate depends on the first row with its id and
on rows of the same conversation, so two rows hold every pattern of the store
(an id shared by two conversations, a row added after its namesake was marked, a
first row removed), and the theorems of section 4 hold for every number. In
`Messaging`, reports depend on the two newest messages of the open chat and on
another one; two seconds make messages that tie and messages that do not. The reports
are checked without rooms and archive, because with them `ReportedOnce` does not
hold: an own message's echo from a room is noted as confirmed, which its ack
overwrites with "sent", so that it would be reported again. `MCStatus` has both;
a room member's marks, which change no row, are left to the proof. Uploads
interact through single members, so a running one, a second and a third that
overwrites the second's trace suffice. In `Connection`, six interferences allow any
two of {error, network lost, network back, stall, disconnect by the user} around
a reconnect; the graph of states no longer grows in the handler's part. In the
queue, three devices of two owners are the least with which keys collide and do
not collide; messages do not meet in it but through the sessions, which change at
any time, and two received ones make one that is a copy to the user and one that
is plain. A file of three bytes is read in one piece or in two, with reads as small
as the tag, and the third file finds what two uploads left of the object. In `Contacts` and `MamSync` two rooms and two sessions show what a
session leaves to the next. Two joins are what it
takes to bookmark a room twice, and to match another room by the nickname all share.
In `Download`, two downloads at a time are a removed file's writer and the one of the
file that took its name, or those of the two managers; what an answer leaves
depends on itself and the file alone. In
`OmemoDevices`, two clients are enough to overwrite each other's list; the theorem
covers more, and more sessions. Liveness is for a time when sessions no longer
begin and the user is quiet, which the bounds bring about.

Deadlock is checked, except where a bound is all that stops the system:
`MCContacts`, `MCSecondRoom` (changes), `MCMamSync`, `MCOmemoDevices` (sessions)
and `MCOmemoStuck` (the messages to send).

### Fairness

* `Messaging`: the server reads and acknowledges what is on a connection
  (XEP-0198), and the client connects again (this is what `Connection` shows). No
  fairness for the user, the peers or the ends of sessions.
* `FileUpload`: a request that is not lost is answered, and the network ends a
  transfer (`QNetworkReply::finished` is always emitted).
* `Connection`: Qt's timer and the system's heartbeat fire; an attempt ends, with
  a session or an error; TCP gives up a session it cannot send on.
* `OmemoQueue`: the server answers every request that is not lost.
* `OmemoDevices`: the server reads and the client processes, while a session lasts.
* `Contacts`: the client connects again; the server lets it into a room.
* `MamSync`: the server answers and the client reads, while a session lasts.

All of it is weak fairness: none of these steps needs to be taken if it is
disabled again and again.

## 4. Proofs

`tlapm <module>.tla`. What the runs show for small instances, these show for every
value of the constants, from the assumptions the modules state about them.

**`MessageStore_proofs`** (assumed: times are natural numbers, the empty jid is no
conversation). `TypeCorrect` carries the bounds in the guards. `NeverTwice`, `IdsAgree` and `OpenChatIsRead` are
proved together as `Safety`, because `SameIdSameState` decides
whether a check against the first row is right for the others. The key
lemma is `FirstRowDecides`: if rows with an id agree up to DEFAULT, a change that
is valid for the first is valid for each. It gives `StateChangesAreValid` of every
row although the code reads one, and `IdsAgree` for insertions (a new row is the
last and in DEFAULT) and removals. `OpenChatIsRead` is about both copies of the open
chat: it is read where they agree, and they differ only when the chat was opened before
the database. `OnlyInsertsHide` is an action property: no removal, mark or restart leaves
a message without the session that lists it, only the end of the statement pair, or the
refused half of it, that inserted the message. `MarksNeverGoBack` is the marks of room members.
`StoreImplementsLife` maps a conversation's message to
`LifeStatus` and shows every step to be one of `MessageLife` or a stutter.

**`Messaging_proofs`** (assumed: what the module states of its ids, and that seconds are
natural numbers). A theorem about the store cannot be used here, as
`MessageStore_proofs` extends that module and so speaks of its variables; the few
lemmas on the table are stated again. `DeliveryImplemented` shows each step to be
one of `Delivery` for each own message at once. Its inductive invariant is `IInv`:
the types, to which belongs that a message which was sent has an addressee; `Good`,
that a conversation holds a message once and that the rows of an own message are
its addressee's, and count as received only when they came back from a room; and `True`, that what is shown
is no better than how far the message has come (`HowFar`). `Follows` states the
steps of `Delivery` on the two numbers, and a lemma for each operation of the table
(`AddShows`, `MarkShows`, `ReportShows`) shows that it takes one of them. `StatusIsTrue`
follows. `NeverReportedTwice` and `OpenChatAlwaysReported` assume `NoneElseMarks`, that
there is no room and no archive, for the reason section 3 gives; their invariant
`OnceInv` relates the counts of reports to the rows (`Noted`: a message in no row, or
in one that is not confirmed, was not reported) and the newest messages of the open
chat to what the app has seen. They hold for any number of chats, messages and
messages in one second.
`StoreStaysSafe` and `StoreChangesValidly` are the store's own promises about messages
(`Store!NoMessageTwice`, `Store!SameIdSameState`, `Store!OnlyValidStateChanges`, through
the instance `Store`), proved of this
module's steps: a handler calls several operations of the store in one step, so
theorems about one operation a step do not give them. `StoreInv`, the invariant behind
them, also has that every row has a session and the current partner's chat is read.
This is so here because a handler comes to its end before the program does, and is
therefore not claimed of the program.
`MemberMarksStay` is `Store!MemberMarksOnlyGrow`. `MessagesEnterAsNew` states what is true instead of a
step-by-step refinement of `MessageLife`: a received message may be added and
confirmed as displayed in one step, two steps of `MessageLife`. `UnreadAlwaysHeld` is
all that holds of the unread number, which counts rows of either direction, as long as
the program does not end within `removeConversation`.
`AcksAreAwaited` and `SentGoesOn` are the part of `AcceptedIsShown` that needs no
fairness: a stanza on its way is in `unAcked` of a session that lasts, it leaves
the way only to an end that the property names, and `AckIsShown`: the mark of an ack
is never refused for a row that shows nothing yet.

**`FileUpload_proofs`** (assumed: the ids of files and urls differ; sizes are natural
numbers). The module holds two layers. `FileInv` is inductive for `FileCypher`: the
cipher has encrypted what was read (`CipherFollows`), unless the file was read
again, and a tag is read as a whole; so a read of any length appends what is
wanted, and a read returns nothing only at the size that was promised. `IInv` is
inductive for the manager: `Turn` (a running request is the members', and `busy_`
holds), `OpenIsPut` (the file is open only while its request is put), `Rows` (the
rows of a file and of its url are in the chosen chat) and `ShownRuns`. From `OpenIsPut`
follows `UsedInTurn`: each step of the manager is one of `FileCypher`, whose guard
that nobody reads the file is nowhere in the code. Hence `FileInv` holds of the
composed system, and with it `UploadsAreReadable`.
`StoreStaysSafe` shows the store's promises here, too. Its promise on changes of
state is stated by message instead of by row (`MessagesChangeValidly`): the message of the url may get
the rowid of the file's message, which `removeMessage` freed in the same step, so by
rowid `Store!OnlyValidStateChanges` is false. Nor is the unread number bounded by the rows: that
removal leaves it. `BusyForARequest` and `RequestsGoOn` are the part of
`UploadEnds` that needs no fairness: `busy_` is set for a request that runs or one in `Stuck`,
and stages are taken in their order.

**`Connection_proofs`** (assumed: the build is a boolean, the bound a natural number).
`TypeCorrect` is stronger than types: the timer runs only after a first login
(`activated`). On it, `RetryAlwaysPending` is inductive: each way to lose the
session, and each way to get the network back, starts the timer or finds it
running. `SessionAlwaysShown` is inductive alone.

**`OmemoQueue_proofs`** (assumed: the devices are finite, the ids' keys as the
module states them). The inductive invariant `IInv` adds `Untouched`, that a
message which was not sent yet waits for nothing, to the four invariants. The code
decides "all devices have answered" by comparing two sizes; `OneMoreAnswer`
shows by cardinalities that the smaller table can only be as large as the other
when every device has answered. So collisions of keys make messages wait
(`MCOmemoStuck`), and never make the program free a message in use or send it
without a key for one of its devices. `ReceivingKeepsQueue` shows that receiving is, for the
queue, a first message of a device, a restart or nothing, so that all of this holds
beside it. `SecureAlwaysOmemo` and `DecryptedAlwaysStays` follow from the rows alone: a
copy of any kind leaves a row that is there.
Two theorems bound what the violation runs find. `WaitingIsAwaited`: when every device has a bundle,
no two share an owner, and lists and settings do not change and nothing is lost
(`AllAnswerApart`), the size of the table is the number of answers, and a message that
waits has a request to wait for; so in `MCOmemoStuck`, where every device has a bundle, it is the key two devices of
the contact share that strands the message, and in `MCOmemoSkipped` the missing bundle.
`OnlyWaitingHidesSecurity`: an encrypted
message lacks its sign exactly if it had to wait. `EndsAreFinal` needs
`AskedAreQueued`: a request that outlived its message would send it again.

**`Rooms_proofs`**, archives (assumed: the user's archive is not a room's, pages and reads
are not empty). Types need `Within`: no request and no stanza on its way goes beyond
its archive, which only grows. `RoomsAskedOnce` needs `Noted`: a room not noted was
not asked for in this session. `NothingSkipped`, for a connection that gives one
stanza to a read, needs `Covered`: before a fin stanza on the wire come all
messages up to its last, or they are processed. It holds for every page size,
with any number of chains of pages at once; `MCMamSyncFails` shows that the
assumption on reads is needed for the archive to be fetched.
Under it, and if every answer says where it is from, `OwedAlwaysComing` is the part of `ArchiveIsFetched` that
needs no fairness: for each message that was in the archive when it was asked for,
the message, a request that covers it, or a fin stanza the client goes on from is on
its way (`IsComing`), until it is processed or the session ends.

**`Rooms_proofs`**, the list (assumed: `ListAssumption`, that no room is a person and
the bounds are natural numbers, which is what `Contacts` states of its constants). The
module instantiates `Contacts`, so its theorems are about `List!Spec`.
`ListInv` is inductive: the types, to which belongs that a room with a MUC that waits
is kept in `mucCollection_`; `Listed`, that whoever the roster told of is listed; `Grouped`,
that a listed room is bookmarked; and `NotYet`, that nothing is bookmarked before the
bookmarks are in, for `handleBookmarksReady` replaces them. From it follow
`ContactsAlwaysListed` and `GroupsAlwaysBookmarked`, the latter although a room may be
bookmarked twice: removing one of its bookmarks leaves the other (`RemovedRooms`).
`BookmarksAlwaysStayListed` is for each step: a room leaves the list only with its
bookmark, and is bookmarked only with its entry, unless it was bookmarked twice
(`RemovedFirst`, `AppendedRooms`). No number of joins, early or repeated, is excluded.
`BookmarksArePending` is the part of `RoomsAreJoinedAgain` that needs no fairness: in a
session each room whose bookmark has autojoin is entered, or asked for, or was refused
or left since it was last asked for.

**`Download_proofs`** (assumed: the bounds are natural numbers). `OneWriter` is not
inductive: nothing in it keeps a second download from beginning. `EmptyWhileWritten`
does, which says that a file with a writer is empty: the code looks only whether
there is a file with the name. From it also follow that no answer is written over
another (`WholeStays`) and that a row's file does not change below it
(`ShownIsThere`). A file that is removed keeps its writer and loses its name, so the
next download of its url meets no other. `ShownReadable` adds what the writer left, for
every answer and every size of file and tag: a file that is not empty is the checked
attachment if and only if its answer could be decrypted and its tag was right
(`WrittenIsSound`, from `StatedIsWhole`, `UnstatedIsKept` and `UntaggedIsKept`); `sound`
remembers which answers those were.

**`OmemoDevices_proofs`** (assumed: an answer without a list is not a list).
`QuietIsSettled` speaks of clients with empty queues whose last publication was not
refused. Inductive is what each client's queues owe (`Known`): whoever has something to hear
hears the published list, or an error, last (`Told`); and a client that was not refused
rests with the published list, or has something to hear, or a list on its way to the server
(`Tracked`), and likewise its bundle (`Bundled`). `ProcessedIsKnown` is the heart of
it: a client that processes an old list either publishes another, which all will be
told, or has the newest still before it. A refusal leaves the published list as it
is, so that the other clients stay known.

Out of this prover's reach, and model-checked only: liveness (fairness and
ENABLED), and anything by induction over data, so what recursive definitions and
folds compute. Of `AcceptedIsShown`, `UploadEnds`, `ArchiveIsFetched`, `RoomsAreJoinedAgain` and
`Recovers` the part that needs no fairness is proved: that what must happen is pending
(`AcksAreAwaited`, `BusyForARequest`, `OwedAlwaysComing`, `BookmarksArePending`,
`RetryAlwaysPending`) and, for the first two, that each step goes forward. That the pending
step is taken, and the last step is reached, is what TLC checks. Of
`EverybodySettles` `QuietAlwaysSettled` is the end state; that the clients stop
overwriting each other's list needs a measure over their queues, and stays with TLC.
Every other property of the passing runs is proved.

## 5. Where the code does not do what it says

Two runs end in a counterexample on purpose:

* `MCOmemoStuck`: a message that waits is sent *"at a later time"*
  (`lurch.c:1294`). `LurchAdapter.cpp:330` passes an id from which lurch reads the
  device id "bar" for every device: two devices of a contact get one key, the
  table of handled devices stays too small, and the message waits for ever.
* `MCSecondRoom`: *"onJoinComplete, add to bookmark"* (`MucManager.cpp:190`). The
  joined room is looked up by the nickname all rooms share: the second room joined
  is not bookmarked, the first is once more.

Further statements of the repository that do not hold of the models. Each is a
definition of the module named. Its configuration ends in a counterexample; where
one configuration serves several statements, one is active in it and the others
are comments, each of which may take its place:

| configuration (module) | statement | what the code does |
|---|---|---|
| `MCMessageStoreFails` (`MCMessageStore`) | `EveryMessageHasASession`: a message is written with the session that lists its chat (`Persistence.cpp:51`) | these are two statements, each committed by itself: the program may end between them, and a text with a quotation mark has the second refused; the message that comes again is refused by `isMessageIdForJid` and repairs nothing |
| `MCMessageStoreFails` (`MCMessageStore`) | `OpenChatHasNoUnread`: of the open chat nothing is counted (`if (jid != currentChatPartner_)`, `SessionController.cpp:122`) | a chat that is opened before the database is noted by `Persistence` and not by `SessionController`, which then counts its messages |
| `MCMessagingFails` (`MCMessaging`) | `UnreadWereReceived`: *"number of unread messages"* (`Database.cpp:22`) | `updateSession` counts the user's own messages, such as carbons |
| `MCMessagingFails` (`MCMessaging`) | `SentIsDelivered`: *"Each sent message must be guaranteed to be delivered"* (architecture, 01) | a message given to no session is dropped, its row kept, and never sent again |
| `MCFileUploadFails` (`MCFileUpload`) | `UploadingIsRunningIfHasty`: the same for a user who does not wait | the second file overwrites and resets `notSentMsgId_`: the first stays "uploading" |
| `MCFileUploadFails` (`MCFileUpload`) | `UploadAlwaysEnds`, with every fault | an error answer, an invalid url, a failed rename or a lost answer leave `busy_` set until the program is restarted |
| `MCFileUploadFails` (`MCFileUpload`) | `AnnouncedIsSent`: *"increase its size to send authentication tag, this is requested by xep-0454"* (`FileWithCypher.cpp:202`) | the slot is asked for with the cipher the object has from the last upload: the announced size is wrong by the tag when a chat with encryption follows one without, or the reverse |
| `MCFileUploadFails` (`MCFileUpload`) | `ResentIsReadable`: the same file, sent once more | the cipher is not reset when the network reads the file again: the bytes are encrypted with another part of its stream |
| `MCConnectionFails` (`MCConnection`) | `KeptWhileInUse`: *"Connection wont be droped if app is in use"* (`ConnectionHandler.cpp:130`) | the heartbeat of an active app starts the timer that disconnects |
| `MCConnectionFails` (`MCConnection`) | `ConnectedIsSignalled`: *"signalHasInetConnection(true) will be send"* (`ConnectionHandler.cpp:169`) | only `false` is ever sent |
| `MCOmemoSkipped` (`MCOmemoQueue`) | `QueuedIsSent`: a device without a bundle *"will be skipped"* (`lurch.c:634`) | the message waits for it for ever |
| `MCOmemoQueueFails` (`MCOmemoQueue`) | `EncryptedIsSecure`: *"0: non (plain), 1: omemo"* (`Database.cpp:17`) | a message encrypted after it waited is stored as plain |
| `MCOmemoQueueFails` (`MCOmemoQueue`) | `BlacklistedIsSentTo`: *"it will not be used"* (`lurch.c:2267`) | a message to a blacklisted contact is not sent at all |
| `MCOmemoQueueFails` (`MCOmemoQueue`) | `SecureWasDecrypted`: *"0: success on decryption, ... 2: error during decryption"* (`MessageHandler.cpp:72`) | lurch leaves a stanza it cannot decrypt as it is, and the fallback body is shown as if it were the decrypted one |
| `MCOmemoQueueFails` (`MCOmemoQueue`) | `OpenedIsShown`: *"FIXME check if this is an omemo msg!"* (`MamManager.cpp:216`) | the archived copy is not decrypted, and when it came first the decrypted one finds its row taken |
| `MCOmemoQueueFails` (`MCOmemoQueue`) | `TransportMakesSession`: *"so that a session can still be established"* (`lurch.c:791`) | the answer's handler is given the wrong element and reads a node that is not there: the program ends |
| `MCOmemoDevicesFails` (`MCOmemoDevices`) | `OnlineIsListed`: *"check if own id is in my device list. update if necessary"* (`LurchAdapter.cpp:26`) | the list is asked for in the first session of a program run only: with that request lost, and no list to be told of, none is made |
| `MCOmemoDevicesFails` (`MCOmemoDevices`) | `DevicesStayListed`: *"own id was missing, adding it"* (`lurch.c:1060`) | a list made or changed from an old one overwrites the other client's; that one enters itself again |
| `MCOmemoDevicesFails` (`MCOmemoDevices`) | `RefusedIsSettled`: *"check if own id is in my device list. update if necessary"* (`LurchAdapter.cpp:26`), for a client whose publication was refused | the answer to a publication is not looked at (`LurchAdapter.cpp:427`), and nothing is published again: the client stays unlisted, or without a bundle |
| `MCOmemoDevicesFails` (`MCOmemoDevices`) | `UninstalledIsUnlisted`: *"removing its device ID from the devicelist"* (`lurch.c:2253`) | the list without the id is published once and lost if the session ends; an answer without a list enters the id again |
| `MCContactsFails` (`MCContacts`) | `BookmarkedIsGroup` (architecture, 01: rooms) | an occupant's presence before the join is complete lists the room as a contact |
| `MCContactsFails` (`MCContacts`) | `OnlyContactsEnter` (architecture, 01: delete contacts) | the last presence of a deleted contact lists it again |
| `MCContactsFails` (`MCContacts`) | `RoomsAreBookmarkedOnce`: *"save as bookmark if not already in"* (`MucManager.cpp:177`) | `addRoom` looks long before the bookmark is added: a room joined before the bookmarks are in, or twice before the first join is complete, over a disconnect too, is bookmarked twice; removing it removes one of the two |
| `MCMessagingFails` (`MCMessaging`) | `ReportedOnce` with an archive: *"mark msg as confirmed. no further confirms of that msg"* (`ChatMarkers.cpp:155`) | an archived marker, the user's own too, overwrites the note (`MamManager.cpp:291`), and the message is confirmed again |
| `MCDownloadFails` (`MCDownload`) | `ExistingIsDownloaded`: *"check if file from that url is already local downloaded"* (`DownloadManager.cpp:67`) | the file is created with the request and stays, empty, when the download fails: it is never fetched again |
| `MCDownloadFails` (`MCDownload`) | `AskedBefore`: *"Ask before downloading attachments"* (`PreferencesPage.qml:55`) | `MessageHandler` asks by the setting; `MamManager` downloads what archived messages link to without asking |
| `MCDownloadFails` (`MCDownload`) | `ShownIsWhole`: *"don't decrypt the authentication tag"* (`FileWithCypher.cpp:172`), so that what a row offers is the attachment | of an answer without a length nothing is decrypted; one whose tag is wrong or missing is kept (`FileWithCypher.cpp:227`); an iv of another size fails `initDecryptionOnWrite`, which `DownloadManager.cpp:95` does not look at |
| `MCMamSyncFails` (`MCMamSync`) | `ArchiveIsFetched` with two stanzas to a read | `XmlProcessor` reads the first only: messages, or the end of a page, are passed over |
| `MCMamSyncFails` (`MCMamSync`) | `ArchiveIsFetched` with answers of the user's archive that do not say where they are from | `processFinIq` asks for the next page only of an archive it is told (`MamManager.cpp:150`): the archive is fetched up to its first page |
| `MCMamSyncFails` (`MCMamSync`) | `QueriedAreAsked`: *"requests mam for the jids in that list"* (`MamManager.h:15`) | a room noted before the feature was discovered is never asked for |

Met while reading, and in no model: an archived message does not cause a
displayed marker although its chat is open; the roster is asked for in the first session only, and never again if that
session ends before the answer; `FileWithCypher` that fails to start is read
anyway.

## 6. What is left out, and the plan

Not modelled, and why: `ImageProcessing`, whose loop halves an image at most fifteen
times; the pre-keys of a bundle and failures of the cipher libraries; OMEMO for
groups, which lurch has and the program does not use; settings beyond two flags,
dbus, stanza ids, xml writing and payload parsers, which keep no state; names,
subscriptions, status texts and avatars of contacts, and their vCards; the server putting the client out of a room, and
the availability of contacts; QML, which gives some guards: what a menu offers; vendored and mocked code of lurch (libpurple,
mxml). In `FileUpload`, `busy_` as it starts when the attachment directory
cannot be created, and the progress bar.

The order was: the store everything writes to, with its abstract specification
and proofs; what the user sees of messages (`Messaging`, `FileUpload`); the
connection all of it rests on; the protocols with state of their own
(`OmemoQueue`, `OmemoDevices`, `Contacts`, `MamSync`, `Download`); then what lies
between them: `FileCypher` below the upload, `OmemoReceive` beside the queue, `Delivery`
above the messaging, and their proofs. What would come next:

1. `Contacts` and `MamSync` over one list of bookmarks, so that it shows which
   rooms are asked for their archive in a session: on a reconnect `MucManager` does not
   announce its bookmarks again (`triggerNewMucSignal_`), and `MamManager` has forgotten
   whom it asked.
2. `Delivery` over `OmemoQueue`, where a message that waits for bundles is neither
   with the server nor lost.
