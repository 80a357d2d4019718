---------------------------- MODULE OmemoDevices ----------------------------
(***************************************************************************)
(* The user's own device list (XEP-0384): a PEP node at the server that    *)
(* every client of the user reads, changes and writes back as a whole, and *)
(* of which each keeps a copy to encrypt for the user's other devices.     *)
(* Every client is this program: LurchAdapter and, of lurch, the handler   *)
(* of the own list, the publication of the bundle and the commands that    *)
(* change the list.                                                        *)
(*                                                                         *)
(* Nothing tells a client that its list was overwritten but the event each *)
(* publication causes, and nothing orders two publications but the server. *)
(***************************************************************************)
EXTENDS Naturals, Sequences

CONSTANTS Devices,      \* the user's clients, and their ids
          Others,       \* ids of clients that are no longer used
          NoItems,      \* the node does not exist; an answer without a list
          MaxSessions,  \* bound: logins of all clients
          MaxTroubles   \* bound: lists changed by users, and requests and
                        \* publications answered with an error, together

Ids == Devices \cup Others

ASSUME DevicesAssumption == /\ \A ids \in SUBSET Ids : ids # NoItems
                            /\ MaxSessions \in Nat /\ MaxTroubles \in Nat

VARIABLES node,         \* the published list
          bundles,      \* the devices whose bundle is published
          online,       \* the clients that have a session
          setup,        \* the clients that had one in this program run
          installed,    \* the clients whose axc database holds an id
          uninstalled,  \* uninstall: the clients whose user said so in this run
          stored,       \* the own list in each client's omemo database
          outbox,       \* what a client sent and the server has not read
          inbox,        \* answers and events a client has not processed
          refused,      \* history: the clients a publication of which was
                        \* answered with an error since they processed a list
          sessions, commands, errors  \* for the bounds

client == <<online, setup, installed, uninstalled, stored>>
vars == <<node, bundles, client, outbox, inbox, refused, sessions, commands, errors>>

(* What clients send. *)
List(devices) == [kind |-> "list", devices |-> devices]
Bundle == [kind |-> "bundle", devices |-> {}]
Request == [kind |-> "request", devices |-> {}]
Stanzas == [kind : {"list", "bundle", "request"}, devices : SUBSET Ids]

Init == /\ node \in {NoItems} \cup SUBSET Others
        /\ bundles = {} /\ online = {} /\ setup = {}
        /\ installed = {} /\ uninstalled = {}
        /\ stored = [d \in Devices |-> {}]
        /\ outbox = [d \in Devices |-> <<>>]
        /\ inbox = [d \in Devices |-> <<>>] /\ refused = {}
        /\ sessions = 0 /\ commands = 0 /\ errors = 0

-----------------------------------------------------------------------------
(* A session begins.  As the client announces "+notify", the server sends  *)
(* it the list there is.  In the first session of a program run,           *)
(* LurchAdapter::setupWithClient asks for the list as well.                *)
Connect(d) ==
    /\ d \notin online /\ sessions < MaxSessions
    /\ sessions' = sessions + 1
    /\ online' = online \cup {d} /\ setup' = setup \cup {d}
    /\ inbox' = [inbox EXCEPT ![d] = IF node = NoItems THEN <<>> ELSE <<node>>]
    /\ outbox' = [outbox EXCEPT ![d] = IF d \in setup THEN <<>> ELSE <<Request>>]
    /\ UNCHANGED <<node, bundles, installed, uninstalled, stored, refused, commands, errors>>

(* What is on its way is lost with the session. *)
Offline(d) ==
    /\ online' = online \ {d}
    /\ inbox' = [inbox EXCEPT ![d] = <<>>]
    /\ outbox' = [outbox EXCEPT ![d] = <<>>]
    /\ refused' = refused \ {d}
    /\ UNCHANGED <<node, bundles, installed, stored, sessions, commands, errors>>

Disconnect(d) == d \in online /\ Offline(d) /\ UNCHANGED <<setup, uninstalled>>

(* The databases outlive the program, uninstall does not. *)
Restart(d) ==
    /\ d \in setup
    /\ Offline(d)
    /\ setup' = setup \ {d} /\ uninstalled' = uninstalled \ {d}

-----------------------------------------------------------------------------
(* The list as lurch_pep_own_devicelist_request_handler leaves it. *)
OwnList(d, list) ==
    IF list = NoItems THEN {d}
    ELSE IF d \in uninstalled THEN list ELSE list \cup {d}

(* Faulty variant: a list that exists is never written back. *)
PublicationsIfNone(d, list) ==
    (IF list # NoItems THEN <<>> ELSE <<List(OwnList(d, list))>>) \o <<Bundle>>

(* Faulty variant: the list is published whether or not it changed. *)
PublicationsAlways(d, list) == <<List(OwnList(d, list)), Bundle>>

(* needs_publishing; the bundle is published in any case, after the list.  *)
Publications(d, list) ==
    (IF OwnList(d, list) = list THEN <<>> ELSE <<List(OwnList(d, list))>>) \o <<Bundle>>

(* Appends to what was sent.  A bundle after a bundle changes nothing.     *)
Send(sent, stanzas) ==
    IF sent # <<>> /\ sent[Len(sent)] = Bundle /\ stanzas = <<Bundle>>
    THEN sent ELSE sent \o stanzas

(* lurch_pep_own_devicelist_request_handler for an answer or an event:     *)
(* lurch_axc_prepare makes an id if there is none, what changed is         *)
(* published, and lurch_devicelist_process stores the list.                *)
HandleOwnDevicelist(d) ==
    /\ inbox[d] # <<>>
    /\ inbox' = [inbox EXCEPT ![d] = Tail(@)]
    /\ outbox' = [outbox EXCEPT ![d] = Send(@, Publications(d, Head(inbox[d])))]
    /\ installed' = IF d \in uninstalled THEN installed ELSE installed \cup {d}
    /\ stored' = [stored EXCEPT ![d] = OwnList(d, Head(inbox[d]))]
    /\ refused' = refused \ {d}
    /\ UNCHANGED <<node, bundles, online, setup, uninstalled, sessions, commands, errors>>

(* A command of the user publishes the stored list without an id, which    *)
(* goes nowhere if there is no session.                                    *)
PublishWithout(d, id) ==
    /\ d \in installed \cap setup
    /\ commands + errors < MaxTroubles /\ commands' = commands + 1
    /\ outbox' = IF d \in online
                 THEN [outbox EXCEPT ![d] = Append(@, List(stored[d] \ {id}))]
                 ELSE outbox
    /\ UNCHANGED <<node, bundles, online, setup, installed, stored, inbox, refused,
                   sessions, errors>>

(* "/lurch remove id <id>" *)
RemoveId(d, id) == id \in stored[d] /\ PublishWithout(d, id) /\ UNCHANGED uninstalled

(* "/lurch uninstall yes" *)
Uninstall(d) == PublishWithout(d, d) /\ uninstalled' = uninstalled \cup {d}

-----------------------------------------------------------------------------
ServerReads(d, kind) ==
    /\ outbox[d] # <<>> /\ Head(outbox[d]).kind = kind
    /\ outbox' = [outbox EXCEPT ![d] = Tail(@)]
    /\ UNCHANGED <<client, sessions, commands>>

(* The list replaces the one there was, and every client that is online is *)
(* told, the one it is from as well.                                       *)
ListIsPublished(d) ==
    /\ ServerReads(d, "list")
    /\ node' = Head(outbox[d]).devices
    /\ inbox' = [e \in Devices |-> IF e \in online THEN Append(inbox[e], node') ELSE inbox[e]]
    /\ UNCHANGED <<bundles, refused, errors>>

BundleIsPublished(d) ==
    /\ ServerReads(d, "bundle")
    /\ bundles' = bundles \cup {d}
    /\ UNCHANGED <<node, inbox, refused, errors>>

(* The answer to a publication is an error, which publishedDeviceList and  *)
(* publishedBundle do not look at.                                         *)
PublicationIsRefused(d) ==
    /\ \E kind \in {"list", "bundle"} : ServerReads(d, kind)
    /\ commands + errors < MaxTroubles /\ errors' = errors + 1
    /\ refused' = refused \cup {d}
    /\ UNCHANGED <<node, bundles, inbox>>

(* handleDeviceListResponse takes any error for a list that does not exist. *)
RequestIsAnswered(d) ==
    /\ ServerReads(d, "request")
    /\ \/ inbox' = [inbox EXCEPT ![d] = Append(@, node)] /\ UNCHANGED errors
       \/ /\ commands + errors < MaxTroubles /\ errors' = errors + 1
          /\ inbox' = [inbox EXCEPT ![d] = Append(@, NoItems)]
    /\ UNCHANGED <<node, bundles, refused>>

Next ==
    \E d \in Devices :
       \/ Connect(d)
       \/ Disconnect(d)
       \/ Restart(d)
       \/ HandleOwnDevicelist(d)
       \/ Uninstall(d)
       \/ \E id \in Ids : RemoveId(d, id)
       \/ ListIsPublished(d)
       \/ BundleIsPublished(d)
       \/ PublicationIsRefused(d)
       \/ RequestIsAnswered(d)

Spec == Init /\ [][Next]_vars

(* The server reads and the client processes what comes, while a session   *)
(* lasts; nobody has to connect, disconnect or uninstall.                  *)
FairSpec == /\ Spec
            /\ \A d \in Devices :
                  /\ WF_vars(HandleOwnDevicelist(d))
                  /\ WF_vars(\/ ListIsPublished(d) \/ BundleIsPublished(d)
                             \/ PublicationIsRefused(d) \/ RequestIsAnswered(d))

-----------------------------------------------------------------------------
TypeOK == /\ node \in {NoItems} \cup SUBSET Ids
          /\ bundles \subseteq Devices /\ online \subseteq Devices /\ setup \subseteq Devices
          /\ installed \subseteq Devices /\ uninstalled \subseteq Devices
          /\ stored \in [Devices -> SUBSET Ids]
          /\ outbox \in [Devices -> Seq(Stanzas)]
          /\ inbox \in [Devices -> Seq({NoItems} \cup SUBSET Ids)]
          /\ refused \subseteq Devices
          /\ sessions \in Nat /\ commands \in Nat /\ errors \in Nat

(* A client that has nothing to expect and nothing to say. *)
Quiet(d) == d \in online /\ inbox[d] = <<>> /\ outbox[d] = <<>>

(* The published list is what the client wants it to be and knows it to be. *)
Settled(d) == /\ d \in node \/ d \in uninstalled
              /\ stored[d] = node
              /\ d \in bundles

(* However the publications of several clients overwrite each other, once  *)
(* there is a list, no client rests that is missing in it, has no bundle,  *)
(* or would encrypt for other devices than are listed; but for one that    *)
(* was refused a publication and has not heard of a list since.            *)
QuietIsSettled ==
    \A d \in Devices \ refused : Quiet(d) /\ node # NoItems => Settled(d)

(* The clients do not overwrite each other for ever: when sessions begin,  *)
(* commands and errors come to an end (the bounds see to it), those that   *)
(* are online and were not refused at last end up in the list, store it    *)
(* and have a bundle.                                                      *)
EverybodySettles ==
    <>[](node # NoItems => \A d \in online \ refused : Settled(d))

(* Not so: whoever was refused, "check if own id is in my device list.     *)
(* update if necessary" (LurchAdapter.cpp:26).                             *)
RefusedIsSettled == \A d \in refused : Quiet(d) /\ node # NoItems => Settled(d)

(* "check if own id is in my device list. update if necessary"             *)
(* (LurchAdapter.cpp:26): who had a session long enough made a list.       *)
OnlineIsListed == \A d \in Devices : Quiet(d) => node # NoItems

(* "own id was missing, adding it" (lurch.c:1060): without a command, a    *)
(* publication removes no device.                                          *)
DevicesStayListed ==
    [][commands = 0 /\ node # NoItems => node \subseteq node']_vars

(* "Uninstalls this device from OMEMO by removing its device ID from the   *)
(* devicelist." (lurch.c:2253)                                             *)
UninstalledIsUnlisted ==
    \A d \in uninstalled : Quiet(d) /\ node # NoItems => d \notin node

=============================================================================
