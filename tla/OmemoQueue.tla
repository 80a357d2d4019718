----------------------------- MODULE OmemoQueue -----------------------------
(***************************************************************************)
(* Sending to a contact that may use OMEMO: the choice in                  *)
(* MessageHandler::sendMessage, LurchAdapter, and the messages lurch keeps *)
(* back until it has a session with every device they are meant for.       *)
(*                                                                         *)
(* The device lists, the sessions and the blacklist are in lurch's         *)
(* databases and outlive the program; a message that waits is in memory    *)
(* only.                                                                   *)
(***************************************************************************)
EXTENDS Naturals, FiniteSets

CONSTANTS Messages,     \* the messages the user will send to the contact
          Devices,      \* devices of the contact and other devices of the user
          Owner,        \* Devices -> the bare jid of the device's owner
          Contact,      \* the contact's bare jid
          NoBundle,     \* the devices the server has no usable bundle of
          Settled       \* device lists and settings do not change, nothing is lost

ASSUME OmemoAssumption == /\ IsFiniteSet(Devices)
                          /\ NoBundle \subseteq Devices
                          /\ Settled \in BOOLEAN

VARIABLES listed,     \* the devices in the stored device lists
          ownList,    \* the own device list is stored
          session,    \* the devices there is a session with
          blacklist,  \* the contact is on lurch's blacklist
          sendPlain,  \* the contact is on the list Settings::getSendPlainText
          feature,    \* Settings::getSoftwareFeatureOmemoEnabled
          status,     \* Messages -> what became of the message
          security,   \* Messages -> the column security of its row
          addrs,      \* Messages -> recipient_addr_l_p
          noSess,     \* Messages -> no_sess_l_p
          keys,       \* Messages -> the jids whose key was put into sess_handled_p
          handled,    \* Messages -> the size of sess_handled_p
          recipients, \* Messages -> the devices its key was encrypted for
          good,       \* history: Messages -> the devices that gave a bundle
          asked       \* outstanding bundle requests: <<message, device>>

stored == <<listed, ownList, session, blacklist, sendPlain, feature>>
queue == <<addrs, noSess, keys, handled, recipients, good>>
vars == <<stored, status, security, queue, asked>>

(* "never": neither sent nor kept; "lost": kept when the program ended. *)
Status == {"new", "plain", "encrypted", "queued", "never", "lost"}

Init == /\ listed \in IF Settled THEN {Devices} ELSE {{}}
        /\ ownList = Settled
        /\ session = {}
        /\ blacklist = FALSE
        /\ sendPlain = FALSE
        /\ feature = TRUE
        /\ status = [m \in Messages |-> "new"]
        /\ security = [m \in Messages |-> 0]
        /\ addrs = [m \in Messages |-> {}]
        /\ noSess = [m \in Messages |-> {}]
        /\ keys = [m \in Messages |-> {}]
        /\ handled = [m \in Messages |-> 0]
        /\ recipients = [m \in Messages |-> {}]
        /\ good = [m \in Messages |-> {}]
        /\ asked = {}

-----------------------------------------------------------------------------
DevicesOfContact == {d \in listed : Owner[d] = Contact}
OwnDevices == listed \ DevicesOfContact

(* LurchAdapter::isOmemoUser *)
IsOmemoUser == DevicesOfContact # {}

(* lurch_addr_list_add, for the own list without this device and for the   *)
(* list of the contact *)
Addressed == OwnDevices \cup DevicesOfContact

(* Faulty variant: one bundle is enough. *)
IsHandledByOne(m, size) == size >= 1

(* lurch_queued_msg_is_handled *)
IsHandled(m, size) == size = Cardinality(noSess[m])

(* lurch_axc_sessions_exist *)
WithoutSession(devices) == devices \ session

(* lurch_bundle_request_do and LurchAdapter::sendBundleRequest, for each   *)
(* of the devices                                                          *)
BundleRequestDo(m, devices) == asked' = asked \cup ({m} \X devices)

(* lurch_bundle_create_session *)
CreateSession(d) == session' = session \cup {d}

(* lurch_msg_encrypt_for_addrs and lurch_key_encrypt: a device without a   *)
(* session is skipped. *)
EncryptForAddrs(m, devices, sessions) ==
    recipients' = [recipients EXCEPT ![m] = devices \cap sessions]

(* lurch_msg_finalize_encryption: the message is encrypted at once (and    *)
(* its row gets security 1), or it is kept until every bundle has come.    *)
MsgFinalizeEncryption(m) ==
    LET missing == WithoutSession(Addressed)
    IN  /\ status' = [status EXCEPT ![m] = IF missing = {} THEN "encrypted" ELSE "queued"]
        /\ security' = [security EXCEPT ![m] = IF missing = {} THEN 1 ELSE 0]
        /\ addrs' = [addrs EXCEPT ![m] = Addressed]
        /\ noSess' = [noSess EXCEPT ![m] = missing]
        /\ IF missing = {} THEN EncryptForAddrs(m, Addressed, session)
           ELSE UNCHANGED recipients
        /\ BundleRequestDo(m, missing)

NotQueued(m, result) ==
    /\ status' = [status EXCEPT ![m] = result]
    /\ UNCHANGED <<security, addrs, noSess, recipients, asked>>

(* lurch_message_encrypt_im: a message to a blacklisted contact is left as *)
(* it is, without an own device list encryption fails; the adapter finds   *)
(* no <encrypted> in either case, and the message is not sent.             *)
MessageEncryptIm(m) ==
    IF blacklist \/ ~ownList THEN NotQueued(m, "never") ELSE MsgFinalizeEncryption(m)

(* MessageHandler::sendMessage: plain text with the feature switched off,  *)
(* for a contact without devices or on the user's list of plain text       *)
(* contacts.                                                               *)
SendMessage(m) ==
    /\ status[m] = "new"
    /\ IF feature /\ IsOmemoUser /\ ~sendPlain THEN MessageEncryptIm(m) ELSE NotQueued(m, "plain")
    /\ UNCHANGED <<stored, keys, handled, good>>

(* The end of lurch_bundle_request_cb: the device is put into              *)
(* sess_handled_p.  The adapter passes "foo#bar#<id>", so that every       *)
(* device of a jid has the key "<jid>/bar"; and a key is freed once it is  *)
(* in the table, so that finding it again means to read freed memory and   *)
(* may succeed or fail.  When as many keys are in the table as devices     *)
(* were without a session, the message is encrypted, sent and freed.       *)
SessionHandled(m, d, sessions) ==
    /\ good' = [good EXCEPT ![m] = @ \cup {d}]
    /\ keys' = [keys EXCEPT ![m] = @ \cup {Owner[d]}]
    /\ \E size \in IF Owner[d] \in keys[m] THEN {handled[m], handled[m] + 1}
                   ELSE {handled[m] + 1} :
          /\ handled' = [handled EXCEPT ![m] = size]
          /\ IF IsHandled(m, size)
             THEN /\ status' = [status EXCEPT ![m] = "encrypted"]
                  /\ EncryptForAddrs(m, addrs[m], sessions)
             ELSE UNCHANGED <<status, recipients>>

(* Faulty variant: the bundle counts before its session exists. *)
BundleRequestCbWithoutSession(m, d) ==
    /\ <<m, d>> \in asked /\ d \notin NoBundle
    /\ asked' = asked \ {<<m, d>>}
    /\ SessionHandled(m, d, session)
    /\ UNCHANGED <<stored, security, addrs, noSess>>

(* Faulty variant: the answered request may be answered again. *)
BundleRequestCbKept(m, d) ==
    /\ <<m, d>> \in asked /\ d \notin NoBundle
    /\ CreateSession(d)
    /\ SessionHandled(m, d, session')
    /\ UNCHANGED <<listed, ownList, blacklist, sendPlain, feature, security, addrs, noSess,
                   asked>>

(* requestBundleHandler and lurch_bundle_request_cb with a bundle *)
BundleRequestCb(m, d) ==
    /\ <<m, d>> \in asked /\ d \notin NoBundle
    /\ asked' = asked \ {<<m, d>>}
    /\ CreateSession(d)
    /\ SessionHandled(m, d, session')
    /\ UNCHANGED <<listed, ownList, blacklist, sendPlain, feature, security, addrs, noSess>>

(* The same with an answer that holds no bundle: an error (the adapter     *)
(* never passes JABBER_IQ_ERROR, it finds no <pubsub>) or a bundle that    *)
(* cannot be used.  The device is not put into the table.                  *)
BundleRequestCbFails(m, d) ==
    /\ <<m, d>> \in asked /\ d \in NoBundle
    /\ asked' = asked \ {<<m, d>>}
    /\ UNCHANGED <<stored, status, security, queue>>

(* A request or its answer is lost with the connection. *)
BundleRequestLost(m, d) ==
    /\ ~Settled /\ <<m, d>> \in asked
    /\ asked' = asked \ {<<m, d>>}
    /\ UNCHANGED <<stored, status, security, queue>>

(* lurch_message_decrypt: the first message of a device, a prekey message, *)
(* makes a session, also while bundles of the device are asked for.  (The  *)
(* bundle that is published then is in OmemoDevices.)                      *)
MessageDecrypt(d) ==
    /\ session' = session \cup {d}
    /\ UNCHANGED <<listed, ownList, blacklist, sendPlain, feature, status, security, queue,
                   asked>>

-----------------------------------------------------------------------------
(* lurch_devicelist_process: the stored list becomes the received one. *)
DevicelistProcess(owner, devices) ==
    /\ ~Settled
    /\ listed' = {d \in listed : Owner[d] # owner} \cup devices
    /\ UNCHANGED <<ownList, session, blacklist, sendPlain, feature, status, security, queue,
                   asked>>

(* lurch_pep_own_devicelist_request_handler: the own list is stored, with  *)
(* this device in it.                                                      *)
OwnDevicelist(devices) ==
    /\ ~Settled
    /\ listed' = {d \in listed : Owner[d] = Contact} \cup devices
    /\ ownList' = TRUE
    /\ UNCHANGED <<session, blacklist, sendPlain, feature, status, security, queue, asked>>

(* lurch_cmd_func: blacklist add and remove *)
ChangeBlacklist ==
    /\ ~Settled
    /\ blacklist' = ~blacklist
    /\ UNCHANGED <<listed, ownList, session, sendPlain, feature, status, security, queue,
                   asked>>

(* Settings::addForcePlainTextSending, removeForcePlainTextSending *)
ChangeSendPlain ==
    /\ ~Settled
    /\ sendPlain' = ~sendPlain
    /\ UNCHANGED <<listed, ownList, session, blacklist, feature, status, security, queue,
                   asked>>

(* Settings::setSoftwareFeatureOmemoEnabled, after the adapter was set up. *)
ChangeFeature ==
    /\ ~Settled
    /\ feature' = ~feature
    /\ UNCHANGED <<listed, ownList, session, blacklist, sendPlain, status, security, queue,
                   asked>>

Restart ==
    /\ ~Settled
    /\ status' = [m \in Messages |-> IF status[m] = "queued" THEN "lost" ELSE status[m]]
    /\ asked' = {}
    /\ UNCHANGED <<stored, security, queue>>

Steps ==
    \/ \E m \in Messages : SendMessage(m)
    \/ \E m \in Messages, d \in Devices : BundleRequestCb(m, d)
    \/ \E m \in Messages, d \in Devices : BundleRequestCbFails(m, d)
    \/ \E m \in Messages, d \in Devices : BundleRequestLost(m, d)
    \/ \E d \in Devices : MessageDecrypt(d)
    \/ \E devices \in SUBSET {d \in Devices : Owner[d] = Contact} :
          DevicelistProcess(Contact, devices)
    \/ \E devices \in SUBSET {d \in Devices : Owner[d] # Contact} :
          OwnDevicelist(devices)
    \/ ChangeBlacklist
    \/ ChangeSendPlain
    \/ ChangeFeature

Next == Steps \/ Restart

Spec == Init /\ [][Next]_vars

(* The server answers every bundle request that is not lost. *)
FairSpec == /\ Spec
            /\ \A m \in Messages, d \in Devices :
                  /\ WF_vars(BundleRequestCb(m, d))
                  /\ WF_vars(BundleRequestCbFails(m, d))

-----------------------------------------------------------------------------
TypeOK == /\ listed \subseteq Devices
          /\ ownList \in BOOLEAN
          /\ session \subseteq Devices
          /\ blacklist \in BOOLEAN
          /\ sendPlain \in BOOLEAN
          /\ feature \in BOOLEAN
          /\ status \in [Messages -> Status]
          /\ security \in [Messages -> 0 .. 1]
          /\ addrs \in [Messages -> SUBSET Devices]
          /\ noSess \in [Messages -> SUBSET Devices]
          /\ keys \in [Messages -> SUBSET {Owner[d] : d \in Devices}]
          /\ handled \in [Messages -> 0 .. Cardinality(Devices)]
          /\ recipients \in [Messages -> SUBSET Devices]
          /\ good \in [Messages -> SUBSET Devices]
          /\ asked \subseteq Messages \X Devices

(* The bookkeeping of the queue: a device gives its bundle at most once    *)
(* per message, only when it was missing, and has a session then; the      *)
(* table of handled devices never holds more than those.                   *)
Accounted ==
    \A m \in Messages :
       /\ good[m] \subseteq noSess[m] \cap session
       /\ addrs[m] \subseteq noSess[m] \cup session
       /\ handled[m] <= Cardinality(good[m])
       /\ \A d \in Devices : <<m, d>> \in asked => d \in noSess[m] \ good[m]

(* An encrypted message holds the key for every device that was listed     *)
(* when the user sent it, the own ones included, whatever happened to      *)
(* lists and sessions while it waited: lurch leaves out a device without   *)
(* a session silently, so it must not encrypt before all have answered.    *)
EncryptedForAll ==
    \A m \in Messages : status[m] = "encrypted" => recipients[m] = addrs[m]

(* A message that waits is freed when it is sent.  No request that still   *)
(* points to it is outstanding then, in whatever order the answers come    *)
(* and whether or not a freed key is found again.                          *)
FreedWhenAllAnswered ==
    \A m \in Messages : status[m] = "encrypted" =>
       \A d \in Devices : <<m, d>> \notin asked

(* A message shown as secure was encrypted. *)
SecureIsEncrypted ==
    \A m \in Messages : security[m] = 1 => status[m] = "encrypted"

(* "If not, saves it and sends bundle request to the missing devices so    *)
(* that the message can be sent at a later time"; a device without a       *)
(* bundle "will be skipped".                                               *)
QueuedIsSent == \A m \in Messages : status[m] = "queued" ~> status[m] = "encrypted"

(* "Added %s to your blacklist. Even if OMEMO is available, it will not be *)
(* used": the message is sent, then, as it is to any other contact; it is  *)
(* given up only for want of an own device list.                           *)
BlacklistedIsSentTo ==
    [][\A m \in Messages :
          status[m] = "new" /\ status'[m] = "never" => ~ownList]_vars

(* The column security tells an encrypted message from a plain one.        *)
EncryptedIsSecure ==
    \A m \in Messages : status[m] = "encrypted" => security[m] = 1

=============================================================================
