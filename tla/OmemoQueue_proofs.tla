-------------------------- MODULE OmemoQueue_proofs --------------------------
(***************************************************************************)
(* Proofs about OmemoQueue and OmemoReceive, for all sets of messages and  *)
(* every finite set of devices, whoever owns them and whichever have a     *)
(* bundle.                                                                 *)
(***************************************************************************)
EXTENDS OmemoReceive, FiniteSetTheorems, TLAPS

-----------------------------------------------------------------------------
(* The table of handled devices is compared by its size alone.  It never   *)
(* holds more entries than devices have answered; so when it is as large   *)
(* as the set of devices without session, all of them have.                *)

LEMMA OneMoreAnswer ==
  ASSUME NEW N \in SUBSET Devices, NEW g \in SUBSET N, NEW d \in N \ g,
         NEW size, NEW old \in Nat, old <= Cardinality(g), size \in {old, old + 1}
  PROVE  /\ size \in 0 .. Cardinality(Devices)
         /\ size <= Cardinality(g \cup {d})
         /\ size = Cardinality(N) => g \cup {d} = N
<1>1. IsFiniteSet(N) /\ Cardinality(N) <= Cardinality(Devices)
  BY OmemoAssumption, FS_Subset DEF OmemoAssumption
<1>2. IsFiniteSet(g)
  BY <1>1, FS_Subset
<1>3. /\ Cardinality(g) \in Nat /\ Cardinality(N) \in Nat
      /\ Cardinality(Devices) \in Nat
  BY <1>1, <1>2, OmemoAssumption, FS_CardinalityType DEF OmemoAssumption
<1>4. Cardinality(g \cup {d}) = Cardinality(g) + 1
  BY <1>2, FS_AddElement
<1>5. g \cup {d} \in SUBSET N
  OBVIOUS
<1>6. /\ Cardinality(g \cup {d}) <= Cardinality(N)
      /\ Cardinality(N) = Cardinality(g \cup {d}) => N = g \cup {d}
  BY <1>1, <1>5, FS_Subset
<1>7. size <= Cardinality(g) + 1 /\ size \in Nat
  BY <1>3
<1>8. QED
  BY <1>1, <1>3, <1>4, <1>6, <1>7

-----------------------------------------------------------------------------
(* What is inductive: the bookkeeping, with the fact that a message that   *)
(* was not yet given to sendMessage has no devices to wait for.            *)

Untouched == \A m \in Messages : status[m] = "new" => noSess[m] = {}

IInv == /\ TypeOK
        /\ Accounted
        /\ Untouched
        /\ EncryptedForAll
        /\ FreedWhenAllAnswered
        /\ SecureIsEncrypted

LEMMA IInvInit == Init => IInv
<1> SUFFICES ASSUME Init PROVE IInv
  OBVIOUS
<1>1. Cardinality(Devices) \in Nat /\ Cardinality({}) = 0
  BY OmemoAssumption, FS_CardinalityType, FS_EmptySet DEF OmemoAssumption
<1>2. TypeOK
  <2>1. listed \subseteq Devices /\ ownList \in BOOLEAN
    BY OmemoAssumption DEF OmemoAssumption, Init
  <2>2. handled \in [Messages -> 0 .. Cardinality(Devices)]
    <3>1. 0 \in 0 .. Cardinality(Devices)
      BY <1>1
    <3>2. QED
      BY <3>1 DEF Init
  <2>3. security \in [Messages -> 0 .. 1]
    BY DEF Init
  <2>4. QED
    BY <2>1, <2>2, <2>3 DEF Init, TypeOK, Status
<1>3. Accounted
  <2>1. ASSUME NEW m \in Messages PROVE handled[m] <= Cardinality(good[m])
    <3>1. handled[m] = 0 /\ good[m] = {}
      BY DEF Init
    <3>2. Cardinality(good[m]) = 0
      BY <1>1, <3>1
    <3>3. QED
      BY <3>1, <3>2
  <2>2. QED
    BY <2>1 DEF Init, Accounted
<1>4. QED
  BY <1>2, <1>3 DEF Init, IInv, Untouched, EncryptedForAll, FreedWhenAllAnswered,
                    SecureIsEncrypted

(* sendMessage: a message that is sent as plain text, or not at all, has   *)
(* no devices to wait for.                                                 *)
LEMMA NotQueuedStep ==
  ASSUME IInv, NEW m \in Messages, NEW result \in {"plain", "never"}, status[m] = "new",
         NotQueued(m, result), UNCHANGED <<stored, keys, handled, good>>
  PROVE  IInv'
<1>1. TypeOK'
  BY DEF IInv, NotQueued, TypeOK, Status, stored
<1>2. Accounted'
  BY DEF IInv, NotQueued, Accounted, stored
<1>3. QED
  BY <1>1, <1>2 DEF IInv, NotQueued, TypeOK, stored, Untouched, EncryptedForAll,
                    FreedWhenAllAnswered, SecureIsEncrypted

(* lurch_msg_finalize_encryption: it is encrypted at once for devices that *)
(* all have a session, or waits for those that have none.                  *)
LEMMA FinalizeStep ==
  ASSUME IInv, NEW m \in Messages, status[m] = "new",
         MsgFinalizeEncryption(m), UNCHANGED <<stored, keys, handled, good>>
  PROVE  IInv'
<1> DEFINE missing == WithoutSession(Addressed)
<1>0. /\ TypeOK /\ Accounted
      /\ \A d \in Devices : <<m, d>> \notin asked
      /\ good[m] = {} /\ noSess[m] = {}
      /\ missing \subseteq Devices /\ missing \cap session = {}
      /\ Addressed \subseteq Devices /\ Addressed \subseteq missing \cup session
      /\ missing = {} => Addressed \cap session = Addressed
  BY DEF IInv, Accounted, Untouched, WithoutSession, Addressed, OwnDevices,
         DevicesOfContact, TypeOK
<1>1. /\ status' = [status EXCEPT ![m] = IF missing = {} THEN "encrypted" ELSE "queued"]
      /\ security' = [security EXCEPT ![m] = IF missing = {} THEN 1 ELSE 0]
      /\ addrs' = [addrs EXCEPT ![m] = Addressed]
      /\ noSess' = [noSess EXCEPT ![m] = missing]
      /\ recipients' = IF missing = {}
                       THEN [recipients EXCEPT ![m] = Addressed \cap session]
                       ELSE recipients
      /\ asked' = asked \cup ({m} \X missing)
      /\ UNCHANGED <<stored, keys, handled, good>>
  BY DEF MsgFinalizeEncryption, BundleRequestDo, EncryptForAddrs
<1> HIDE DEF missing
<1>2. TypeOK'
  BY <1>0, <1>1 DEF TypeOK, Status, stored
<1>3. Accounted'
  <2> SUFFICES ASSUME NEW q \in Messages
               PROVE  /\ good'[q] \subseteq noSess'[q] \cap session'
                      /\ addrs'[q] \subseteq noSess'[q] \cup session'
                      /\ handled'[q] <= Cardinality(good'[q])
                      /\ \A d \in Devices :
                            <<q, d>> \in asked' => d \in noSess'[q] \ good'[q]
    BY DEF Accounted
  <2>1. CASE q = m
    BY <1>0, <1>1, <2>1 DEF Accounted, TypeOK, stored
  <2>2. CASE q # m
    BY <1>0, <1>1, <2>2 DEF Accounted, TypeOK, stored
  <2>3. QED
    BY <2>1, <2>2
<1>4. EncryptedForAll' /\ FreedWhenAllAnswered'
  BY <1>0, <1>1 DEF IInv, TypeOK, EncryptedForAll, FreedWhenAllAnswered, stored
<1>5. SecureIsEncrypted' /\ Untouched'
  BY <1>0, <1>1 DEF IInv, TypeOK, SecureIsEncrypted, Untouched
<1>6. QED
  BY <1>2, <1>3, <1>4, <1>5 DEF IInv

(* lurch_bundle_request_cb with a bundle. *)
LEMMA BundleStep ==
  ASSUME IInv, NEW m \in Messages, NEW d \in Devices, BundleRequestCb(m, d)
  PROVE  IInv'
<1>0. /\ TypeOK /\ Accounted /\ <<m, d>> \in asked
      /\ d \in noSess[m] \ good[m]
      /\ noSess[m] \in SUBSET Devices /\ good[m] \in SUBSET noSess[m]
      /\ handled[m] \in Nat /\ handled[m] <= Cardinality(good[m])
  BY DEF IInv, TypeOK, Accounted, BundleRequestCb
<1>1. PICK size \in {handled[m], handled[m] + 1} :
         /\ handled' = [handled EXCEPT ![m] = size]
         /\ status' = IF size = Cardinality(noSess[m])
                      THEN [status EXCEPT ![m] = "encrypted"] ELSE status
         /\ recipients' = IF size = Cardinality(noSess[m])
                          THEN [recipients EXCEPT ![m] = addrs[m] \cap session']
                          ELSE recipients
  BY DEF BundleRequestCb, SessionHandled, EncryptForAddrs, IsHandled
<1>2. /\ size \in 0 .. Cardinality(Devices)
      /\ size <= Cardinality(good[m] \cup {d})
      /\ size = Cardinality(noSess[m]) => good[m] \cup {d} = noSess[m]
  BY <1>0, <1>1, OneMoreAnswer
<1>3. /\ asked' = asked \ {<<m, d>>}
      /\ session' = session \cup {d}
      /\ good' = [good EXCEPT ![m] = @ \cup {d}]
      /\ keys' = [keys EXCEPT ![m] = @ \cup {Owner[d]}]
      /\ UNCHANGED <<listed, ownList, blacklist, sendPlain, feature, security, addrs, noSess>>
  BY DEF BundleRequestCb, CreateSession, SessionHandled
<1>4. TypeOK'
  <2>1. status' \in [Messages -> Status]
    BY <1>0, <1>1 DEF TypeOK, Status
  <2>2. handled' \in [Messages -> 0 .. Cardinality(Devices)]
    BY <1>0, <1>1, <1>2 DEF TypeOK
  <2>3. recipients' \in [Messages -> SUBSET Devices]
    BY <1>0, <1>1 DEF TypeOK
  <2>4. QED
    BY <1>0, <1>3, <2>1, <2>2, <2>3 DEF TypeOK
<1>5. Accounted'
  <2> SUFFICES ASSUME NEW q \in Messages
               PROVE  /\ good'[q] \subseteq noSess'[q] \cap session'
                      /\ addrs'[q] \subseteq noSess'[q] \cup session'
                      /\ handled'[q] <= Cardinality(good'[q])
                      /\ \A e \in Devices :
                            <<q, e>> \in asked' => e \in noSess'[q] \ good'[q]
    BY DEF Accounted
  <2>1. CASE q = m
    BY <1>0, <1>1, <1>2, <1>3, <2>1 DEF Accounted, TypeOK
  <2>2. CASE q # m
    BY <1>0, <1>1, <1>3, <2>2 DEF Accounted, TypeOK
  <2>3. QED
    BY <2>1, <2>2
<1>6. Untouched' /\ SecureIsEncrypted'
  <2>1. \A q \in Messages : status'[q] \in {status[q], "encrypted"}
    BY <1>0, <1>1 DEF TypeOK
  <2>2. QED
    BY <1>3, <2>1 DEF IInv, Untouched, SecureIsEncrypted
<1>7. EncryptedForAll' /\ FreedWhenAllAnswered'
  <2> SUFFICES ASSUME NEW q \in Messages, status'[q] = "encrypted"
               PROVE  /\ recipients'[q] = addrs'[q]
                      /\ \A e \in Devices : <<q, e>> \notin asked'
    BY DEF EncryptedForAll, FreedWhenAllAnswered
  <2>1. CASE status[q] = "encrypted"
    <3>1. q # m
      BY <1>0, <2>1 DEF IInv, FreedWhenAllAnswered
    <3>2. QED
      BY <1>0, <1>1, <1>3, <2>1, <3>1
      DEF IInv, TypeOK, EncryptedForAll, FreedWhenAllAnswered
  <2>2. CASE status[q] # "encrypted"
    <3>1. q = m /\ size = Cardinality(noSess[m])
      BY <1>0, <1>1, <2>2 DEF TypeOK
    <3>2. good'[q] = noSess'[q]
      BY <1>0, <1>2, <1>3, <3>1 DEF TypeOK
    <3>3. addrs'[q] \subseteq session'
      BY <1>5, <3>2 DEF Accounted
    <3>4. recipients'[q] = addrs[q] \cap session'
      BY <1>0, <1>1, <3>1 DEF TypeOK
    <3>5. QED
      BY <1>3, <1>5, <3>2, <3>3, <3>4 DEF Accounted
  <2>3. QED
    BY <2>1, <2>2
<1>8. QED
  BY <1>4, <1>5, <1>6, <1>7 DEF IInv

LEMMA IInvStep == IInv /\ [Next]_vars => IInv'
<1> SUFFICES ASSUME IInv, [Next]_vars PROVE IInv'
  OBVIOUS
<1>1. ASSUME NEW m \in Messages, SendMessage(m)
      PROVE  IInv'
  BY <1>1, NotQueuedStep, FinalizeStep DEF SendMessage, MessageEncryptIm
<1>2. ASSUME NEW m \in Messages, NEW d \in Devices, BundleRequestCb(m, d)
      PROVE  IInv'
  BY <1>2, BundleStep
<1>3. ASSUME NEW m \in Messages, NEW d \in Devices,
             BundleRequestCbFails(m, d) \/ BundleRequestLost(m, d)
      PROVE  IInv'
  BY <1>3 DEF BundleRequestCbFails, BundleRequestLost, stored, queue, IInv, TypeOK,
     Accounted, Untouched, EncryptedForAll, FreedWhenAllAnswered, SecureIsEncrypted
<1>4. ASSUME NEW devices \in SUBSET Devices,
             DevicelistProcess(Contact, devices) \/ OwnDevicelist(devices)
      PROVE  IInv'
  <2>1. listed' \subseteq Devices /\ ownList' \in BOOLEAN
    BY <1>4 DEF DevicelistProcess, OwnDevicelist, IInv, TypeOK
  <2>2. UNCHANGED <<session, blacklist, sendPlain, feature, status, security, queue, asked>>
    BY <1>4 DEF DevicelistProcess, OwnDevicelist
  <2>3. QED
    BY <2>1, <2>2 DEF queue, IInv, TypeOK,
       Accounted, Untouched, EncryptedForAll, FreedWhenAllAnswered, SecureIsEncrypted
<1>5. ASSUME NEW d \in Devices, MessageDecrypt(d)
      PROVE  IInv'
  BY <1>5 DEF MessageDecrypt, queue, IInv, TypeOK,
     Accounted, Untouched, EncryptedForAll, FreedWhenAllAnswered, SecureIsEncrypted
<1>6. CASE ChangeBlacklist \/ ChangeSendPlain \/ ChangeFeature
  BY <1>6 DEF ChangeBlacklist, ChangeSendPlain, ChangeFeature, queue, IInv, TypeOK,
     Accounted, Untouched, EncryptedForAll, FreedWhenAllAnswered, SecureIsEncrypted
<1>7. CASE Restart
  <2>1. \A m \in Messages : /\ status'[m] = "encrypted" <=> status[m] = "encrypted"
                            /\ status'[m] = "new" <=> status[m] = "new"
    BY <1>7 DEF Restart, IInv, TypeOK
  <2>2. TypeOK'
    BY <1>7 DEF Restart, stored, queue, IInv, TypeOK, Status
  <2>3. QED
    BY <1>7, <2>1, <2>2 DEF Restart, stored, queue, IInv,
       Accounted, Untouched, EncryptedForAll, FreedWhenAllAnswered, SecureIsEncrypted
<1>8. CASE UNCHANGED vars
  BY <1>8 DEF vars, stored, queue, IInv, TypeOK,
     Accounted, Untouched, EncryptedForAll, FreedWhenAllAnswered, SecureIsEncrypted
<1>9. QED
  BY <1>1, <1>2, <1>3, <1>4, <1>5, <1>6, <1>7, <1>8 DEF Next, Steps

-----------------------------------------------------------------------------
(* Every variable keeps its type. *)
THEOREM TypeCorrect == Spec => []TypeOK
BY IInvInit, IInvStep, PTL DEF Spec, IInv

(* The bookkeeping of the queue holds for every message and device.        *)
THEOREM QueueAccounted == Spec => []Accounted
BY IInvInit, IInvStep, PTL DEF Spec, IInv

(* What is encrypted can be read by every device it is meant for.          *)
THEOREM ReadableByAll == Spec => []EncryptedForAll
BY IInvInit, IInvStep, PTL DEF Spec, IInv

(* A queued message is freed only when no request points to it, although   *)
(* the table it is decided by is compared by its size, and reading a freed *)
(* key may or may not find it.                                             *)
THEOREM FreedSafely == Spec => []FreedWhenAllAnswered
BY IInvInit, IInvStep, PTL DEF Spec, IInv

(* What is shown as secure was encrypted.                                  *)
THEOREM SecureTruly == Spec => []SecureIsEncrypted
BY IInvInit, IInvStep, PTL DEF Spec, IInv

-----------------------------------------------------------------------------
(* QueuedIsSent is violated: a device without a usable bundle is never put *)
(* into the table, and the devices of one jid share a key there.  As long  *)
(* as lists and settings do not change and nothing is lost, these are the  *)
(* only reasons: when every device has a bundle and no two have the same   *)
(* owner, the size of the table is the number of answers, and a message    *)
(* that waits has a request to wait for.                                   *)

AllAnswerApart == /\ Settled
                  /\ NoBundle = {}
                  /\ \A d, e \in Devices : Owner[d] = Owner[e] => d = e

QueuedHasRequest ==
    \A m \in Messages : status[m] = "queued" => \E d \in Devices : <<m, d>> \in asked

AskedOf(m) == {d \in Devices : <<m, d>> \in asked}

Awaited(m) == /\ handled[m] = Cardinality(good[m])
              /\ keys[m] = {Owner[d] : d \in good[m]}
              /\ status[m] = "queued" => /\ noSess[m] = good[m] \cup AskedOf(m)
                                         /\ good[m] # noSess[m]

AllAwaited == \A m \in Messages : Awaited(m)

LEMMA AwaitedInit == Init => AllAwaited
<1>1. Cardinality({}) = 0
  BY FS_EmptySet
<1>2. QED
  BY <1>1 DEF Init, AllAwaited, Awaited

LEMMA AwaitedSend ==
  ASSUME IInv, AllAwaited, NEW m \in Messages, SendMessage(m)
  PROVE  AllAwaited'
<1> SUFFICES ASSUME NEW q \in Messages PROVE Awaited(q)'
  BY DEF AllAwaited
<1>0. /\ UNCHANGED <<handled, good, keys>> /\ status[m] = "new"
      /\ good[m] = {} /\ Awaited(q)
      /\ status \in [Messages -> Status] /\ noSess \in [Messages -> SUBSET Devices]
  BY DEF SendMessage, IInv, Untouched, Accounted, AllAwaited, TypeOK
<1>1. CASE \E result \in {"plain", "never"} : NotQueued(m, result)
  BY <1>0, <1>1 DEF NotQueued, Awaited, AskedOf
<1>2. CASE MsgFinalizeEncryption(m)
  <2> DEFINE missing == WithoutSession(Addressed)
  <2>1. /\ status' = [status EXCEPT ![m] = IF missing = {} THEN "encrypted" ELSE "queued"]
        /\ noSess' = [noSess EXCEPT ![m] = missing]
        /\ asked' = asked \cup ({m} \X missing)
        /\ missing \subseteq Devices
    BY <1>2 DEF MsgFinalizeEncryption, BundleRequestDo, IInv, TypeOK, WithoutSession,
                Addressed, OwnDevices, DevicesOfContact
  <2> HIDE DEF missing
  <2>2. CASE q = m
    <3>1. \A d \in Devices : <<m, d>> \notin asked
      BY <1>0 DEF IInv, Accounted, Untouched
    <3>2. AskedOf(q)' = missing
      BY <2>1, <2>2, <3>1 DEF AskedOf
    <3>3. noSess'[q] = missing /\ (status'[q] = "queued" => missing # {})
      BY <1>0, <2>1, <2>2
    <3>4. QED
      BY <1>0, <2>2, <3>2, <3>3 DEF Awaited
  <2>3. CASE q # m
    <3>1. AskedOf(q)' = AskedOf(q)
      BY <2>1, <2>3 DEF AskedOf
    <3>2. noSess'[q] = noSess[q] /\ status'[q] = status[q]
      BY <1>0, <2>1, <2>3
    <3>3. QED
      BY <1>0, <3>1, <3>2 DEF Awaited
  <2>4. QED
    BY <2>2, <2>3
<1>3. QED
  BY <1>1, <1>2 DEF SendMessage, MessageEncryptIm

LEMMA AwaitedBundle ==
  ASSUME AllAnswerApart, IInv, AllAwaited, NEW m \in Messages, NEW d \in Devices,
         BundleRequestCb(m, d)
  PROVE  AllAwaited'
<1> SUFFICES ASSUME NEW q \in Messages PROVE Awaited(q)'
  BY DEF AllAwaited
<1>0. /\ TypeOK /\ <<m, d>> \in asked /\ Awaited(q) /\ Awaited(m)
      /\ d \in noSess[m] /\ d \notin good[m]
      /\ noSess[m] \in SUBSET Devices /\ good[m] \in SUBSET noSess[m]
  BY DEF IInv, TypeOK, Accounted, BundleRequestCb, AllAwaited
<1>1. Owner[d] \notin keys[m]
  BY <1>0 DEF Awaited, AllAnswerApart
<1> DEFINE size == handled[m] + 1
<1>2. /\ handled' = [handled EXCEPT ![m] = size]
      /\ status' = IF size = Cardinality(noSess[m])
                   THEN [status EXCEPT ![m] = "encrypted"] ELSE status
  BY <1>1 DEF BundleRequestCb, SessionHandled, IsHandled
<1>3. /\ asked' = asked \ {<<m, d>>} /\ UNCHANGED noSess
      /\ good' = [good EXCEPT ![m] = @ \cup {d}]
      /\ keys' = [keys EXCEPT ![m] = @ \cup {Owner[d]}]
  BY DEF BundleRequestCb, SessionHandled
<1>4. size = Cardinality(good[m] \cup {d})
  <2>1. IsFiniteSet(good[m])
    BY <1>0, OmemoAssumption, FS_Subset DEF OmemoAssumption
  <2>2. d \notin good[m] /\ handled[m] = Cardinality(good[m])
    BY <1>0 DEF Awaited
  <2>3. Cardinality(good[m] \cup {d}) = Cardinality(good[m]) + 1
    BY <2>1, <2>2, FS_AddElement
  <2>4. QED
    BY <2>2, <2>3
<1> HIDE DEF size
<1>5. CASE q = m
  <2>1. handled'[q] = Cardinality(good'[q]) /\ good'[q] = good[m] \cup {d}
    BY <1>0, <1>2, <1>3, <1>4, <1>5 DEF TypeOK
  <2>2. keys'[q] = {Owner[e] : e \in good'[q]}
    <3>1. keys'[q] = keys[m] \cup {Owner[d]}
      BY <1>0, <1>3, <1>5 DEF TypeOK
    <3>2. QED
      BY <1>0, <2>1, <3>1 DEF Awaited
  <2>3. ASSUME status'[q] = "queued"
        PROVE  noSess'[q] = good'[q] \cup AskedOf(q)' /\ good'[q] # noSess'[q]
    <3>1. size # Cardinality(noSess[m]) /\ status[m] = "queued"
      BY <1>0, <1>2, <1>5, <2>3 DEF TypeOK
    <3>2. good'[q] # noSess'[q]
      BY <1>3, <1>4, <1>5, <2>1, <3>1
    <3>3. noSess[m] = good[m] \cup AskedOf(m)
      BY <1>0, <3>1 DEF Awaited
    <3>4. AskedOf(q)' = AskedOf(m) \ {d}
      BY <1>3, <1>5 DEF AskedOf
    <3>5. QED
      BY <1>0, <1>3, <1>5, <2>1, <3>2, <3>3, <3>4
  <2>4. QED
    BY <2>1, <2>2, <2>3 DEF Awaited
<1>6. CASE q # m
  <2>1. AskedOf(q)' = AskedOf(q)
    BY <1>3, <1>6 DEF AskedOf
  <2>2. /\ handled'[q] = handled[q] /\ good'[q] = good[q] /\ keys'[q] = keys[q]
        /\ status'[q] = status[q]
    BY <1>0, <1>2, <1>3, <1>6 DEF TypeOK
  <2>3. QED
    BY <1>0, <1>3, <2>1, <2>2 DEF Awaited
<1>7. QED
  BY <1>5, <1>6

LEMMA AwaitedStep ==
  ASSUME AllAnswerApart, IInv, AllAwaited, [Next]_vars
  PROVE  AllAwaited'
<1>1. ASSUME NEW m \in Messages, NEW d \in Devices,
             BundleRequestCbFails(m, d) \/ BundleRequestLost(m, d)
      PROVE  FALSE
  BY <1>1 DEF BundleRequestCbFails, BundleRequestLost, AllAnswerApart
<1>2. CASE UNCHANGED <<status, noSess, keys, handled, good, asked>>
  BY <1>2 DEF AllAwaited, Awaited, AskedOf
<1>3. ~Restart
  BY DEF Restart, AllAnswerApart
<1>4. QED
  BY <1>1, <1>2, <1>3, AwaitedSend, AwaitedBundle DEF Next, Steps, vars, queue, stored,
     MessageDecrypt, DevicelistProcess, OwnDevicelist, ChangeBlacklist, ChangeSendPlain,
     ChangeFeature

(* A message that waits for devices that all have a bundle, each of an     *)
(* account of its own, is never left without a request: the answers the    *)
(* server owes are all it takes until lurch sends it.                      *)
THEOREM WaitingIsAwaited == AllAnswerApart => (Spec => []QueuedHasRequest)
<1> SUFFICES ASSUME AllAnswerApart PROVE Spec => []QueuedHasRequest
  OBVIOUS
<1>1. IInv /\ AllAwaited /\ [Next]_vars => AllAwaited'
  BY AwaitedStep
<1>2. IInv /\ AllAwaited => QueuedHasRequest
  BY DEF AllAwaited, Awaited, AskedOf, QueuedHasRequest
<1>3. QED
  BY <1>1, <1>2, IInvInit, IInvStep, AwaitedInit, PTL DEF Spec

-----------------------------------------------------------------------------
(* What becomes of a message is final, and what is sent of it is fixed     *)
(* then: lurch_bundle_request_cb ends with sending, so a request that      *)
(* outlived its message would send it again, or one that Restart lost.     *)
(* It is the requests that keep a message from it: none is outstanding but *)
(* for a message that waits.                                               *)

AskedAreQueued == \A m \in Messages, d \in Devices : <<m, d>> \in asked => status[m] = "queued"

(* EncryptedIsSecure is violated: only lurch_msg_finalize_encryption says  *)
(* that a message is secure, and it says so when nothing was missing.      *)
SecureUnlessQueued ==
    \A m \in Messages : status[m] = "encrypted" => (security[m] = 1 <=> noSess[m] = {})

Ends == {"plain", "encrypted", "never", "lost"}
StaysEnded(m) == status[m] \in Ends => /\ status'[m] = status[m]
                                       /\ recipients'[m] = recipients[m]
                                       /\ security'[m] = security[m]

EndInv == IInv /\ AskedAreQueued /\ SecureUnlessQueued
            /\ \A m \in Messages : status[m] = "queued" => security[m] = 0 /\ noSess[m] # {}
EndGoal == EndInv' /\ \A m \in Messages : StaysEnded(m)

LEMMA EndInit == Init => EndInv
BY IInvInit DEF Init, EndInv, AskedAreQueued, SecureUnlessQueued

LEMMA EndSend ==
  ASSUME EndInv, NEW m \in Messages, SendMessage(m), IInv'
  PROVE  EndGoal
<1>0. /\ status[m] = "new" /\ status \in [Messages -> Status]
      /\ noSess \in [Messages -> SUBSET Devices] /\ security \in [Messages -> 0 .. 1]
      /\ recipients \in [Messages -> SUBSET Devices]
  BY DEF SendMessage, EndInv, IInv, TypeOK
<1>1. CASE \E result \in {"plain", "never"} : NotQueued(m, result)
  BY <1>0, <1>1 DEF NotQueued, EndGoal, EndInv, AskedAreQueued, SecureUnlessQueued,
     StaysEnded, Ends
<1>2. CASE MsgFinalizeEncryption(m)
  <2> DEFINE missing == WithoutSession(Addressed)
  <2>1. /\ status' = [status EXCEPT ![m] = IF missing = {} THEN "encrypted" ELSE "queued"]
        /\ security' = [security EXCEPT ![m] = IF missing = {} THEN 1 ELSE 0]
        /\ noSess' = [noSess EXCEPT ![m] = missing]
        /\ asked' = asked \cup ({m} \X missing)
        /\ \A q \in Messages \ {m} : recipients'[q] = recipients[q]
    BY <1>0, <1>2 DEF MsgFinalizeEncryption, BundleRequestDo, EncryptForAddrs
  <2> HIDE DEF missing
  <2>2. AskedAreQueued'
    BY <1>0, <2>1 DEF EndInv, AskedAreQueued
  <2>3. /\ SecureUnlessQueued'
        /\ \A q \in Messages : status'[q] = "queued" => security'[q] = 0 /\ noSess'[q] # {}
    BY <1>0, <2>1 DEF EndInv, SecureUnlessQueued
  <2>4. \A q \in Messages : StaysEnded(q)
    BY <1>0, <2>1 DEF StaysEnded, Ends
  <2>5. QED
    BY <2>2, <2>3, <2>4 DEF EndGoal, EndInv
<1>3. QED
  BY <1>1, <1>2 DEF SendMessage, MessageEncryptIm

LEMMA EndBundle ==
  ASSUME EndInv, NEW m \in Messages, NEW d \in Devices, BundleRequestCb(m, d), IInv'
  PROVE  EndGoal
<1>0. /\ status[m] = "queued" /\ status \in [Messages -> Status]
      /\ recipients \in [Messages -> SUBSET Devices]
  BY DEF BundleRequestCb, EndInv, AskedAreQueued, IInv, TypeOK
<1>1. /\ status' = status \/ status' = [status EXCEPT ![m] = "encrypted"]
      /\ asked' = asked \ {<<m, d>>} /\ UNCHANGED <<security, noSess>>
      /\ \A q \in Messages \ {m} : recipients'[q] = recipients[q]
  BY <1>0 DEF BundleRequestCb, SessionHandled, EncryptForAddrs
<1>2. AskedAreQueued'
  <2> SUFFICES ASSUME NEW q \in Messages, NEW e \in Devices, <<q, e>> \in asked'
               PROVE  status'[q] = "queued"
    BY DEF AskedAreQueued
  <2>1. status'[q] # "encrypted"
    BY DEF IInv, FreedWhenAllAnswered
  <2>2. status[q] = "queued"
    BY <1>1 DEF EndInv, AskedAreQueued
  <2>3. QED
    BY <1>0, <1>1, <2>1, <2>2
<1>3. /\ SecureUnlessQueued'
      /\ \A q \in Messages : status'[q] = "queued" => security'[q] = 0 /\ noSess'[q] # {}
  BY <1>0, <1>1 DEF EndInv, SecureUnlessQueued
<1>4. \A q \in Messages : StaysEnded(q)
  BY <1>0, <1>1 DEF StaysEnded, Ends
<1>5. QED
  BY <1>2, <1>3, <1>4 DEF EndGoal, EndInv

LEMMA EndStep == EndInv /\ [Next]_vars => EndGoal
<1> SUFFICES ASSUME EndInv, [Next]_vars PROVE EndGoal
  OBVIOUS
<1>1. IInv'
  BY IInvStep DEF EndInv
<1>2. CASE Restart
  <2>1. \A m \in Messages : status'[m] = IF status[m] = "queued" THEN "lost" ELSE status[m]
    BY <1>2 DEF Restart
  <2>2. asked' = {} /\ UNCHANGED <<security, noSess, recipients>>
    BY <1>2 DEF Restart, queue
  <2>3. QED
    BY <1>1, <2>1, <2>2 DEF EndGoal, EndInv, AskedAreQueued, SecureUnlessQueued, StaysEnded, Ends
<1>3. CASE UNCHANGED <<status, security, noSess, recipients>> /\ asked' \subseteq asked
  BY <1>1, <1>3 DEF EndGoal, EndInv, AskedAreQueued, SecureUnlessQueued, StaysEnded
<1>4. QED
  BY <1>1, <1>2, <1>3, EndSend, EndBundle DEF Next, Steps, vars, queue, stored,
     BundleRequestCbFails, BundleRequestLost, MessageDecrypt, DevicelistProcess,
     OwnDevicelist, ChangeBlacklist, ChangeSendPlain, ChangeFeature

(* No message is sent twice, or after it was lost or given up; and nobody  *)
(* is added to those who can read it.                                      *)
THEOREM EndsAreFinal == Spec => [][\A m \in Messages : StaysEnded(m)]_vars
<1>1. EndInv /\ [Next]_vars => [\A m \in Messages : StaysEnded(m)]_vars
  BY EndStep DEF EndGoal
<1>2. EndInv /\ [Next]_vars => EndInv'
  BY EndStep DEF EndGoal
<1>3. QED
  BY <1>1, <1>2, EndInit, PTL DEF Spec

(* An encrypted message lacks its sign exactly when it had to wait.        *)
THEOREM OnlyWaitingHidesSecurity == Spec => []SecureUnlessQueued
<1>1. EndInv /\ [Next]_vars => EndInv'
  BY EndStep DEF EndGoal
<1>2. EndInv => SecureUnlessQueued
  BY DEF EndInv
<1>3. QED
  BY <1>1, <1>2, EndInit, PTL DEF Spec

-----------------------------------------------------------------------------
(* Receiving.  Every step of it is one of the queue, or none for it.       *)
LEMMA ReceiveStep == [ReceiveNext]_allVars => [Next]_vars
<1> SUFFICES ASSUME ReceiveNext PROVE Next \/ UNCHANGED vars
  BY DEF allVars
<1>1. ASSUME NEW r \in Received, HandleMessageReceived(r)
      PROVE  Next \/ UNCHANGED vars
  <2>1. MessageDecrypt(From[r]) => Next
    BY ReceiveAssumption DEF ReceiveAssumption, Next, Steps
  <2>2. QED
    BY <1>1, <2>1 DEF HandleMessageReceived, Decrypted, NotDecrypted, DuplicateToSelf
<1>2. QED
  BY <1>1 DEF ReceiveNext, HandleCarbon, ProcessMamMessage, RemoveConversation,
     PepBundleForKeytransport, TransportLost, ProgramEnds, Next

(* What is proved of the queue holds while messages are received, too.     *)
THEOREM ReceivingKeepsQueue == ReceiveSpec => Spec
BY ReceiveStep, PTL DEF ReceiveSpec, ReceiveInit, Spec

(* A row is left as it is, removed, or made; a secure one is made only of  *)
(* an encrypted message.                                                   *)
RowsOK == rows \in [Received -> RowType]
          /\ \A r \in Received : rows[r].security = 1 => Form[r] # "plain"

LEMMA AddRowOK ==
  ASSUME RowsOK, NEW r \in Received, NEW text \in Text, NEW secure \in 0 .. 1,
         secure = 1 => Form[r] # "plain", AddRow(r, text, secure)
  PROVE  RowsOK' /\ \A q \in Received : rows[q] # NoRow => rows'[q] = rows[q]
<1>1. CASE rows[r] = NoRow
  <2>1. rows' = [rows EXCEPT ![r] = [text |-> text, security |-> secure]]
    BY <1>1 DEF AddRow
  <2>2. QED
    BY <1>1, <2>1 DEF RowsOK, RowType
<1>2. CASE rows[r] # NoRow
  BY <1>2 DEF AddRow, RowsOK
<1>3. QED
  BY <1>1, <1>2

LEMMA AddUndecryptedOK ==
  ASSUME RowsOK, NEW r \in Received, AddUndecrypted(r)
  PROVE  RowsOK' /\ \A q \in Received : rows[q] # NoRow => rows'[q] = rows[q]
<1>1. 0 \in 0 .. 1 /\ 0 # 1 /\ "clear" \in Text /\ "fallback" \in Text
  BY DEF Text
<1>2. \/ AddRow(r, "clear", 0)
      \/ AddRow(r, "fallback", 0)
      \/ UNCHANGED rows
  BY DEF AddUndecrypted
<1>3. QED
  BY <1>1, <1>2, AddRowOK DEF RowsOK

LEMMA ReceivedOK ==
  ASSUME RowsOK, NEW r \in Received, HandleMessageReceived(r)
  PROVE  RowsOK' /\ \A q \in Received : rows[q] # NoRow => rows'[q] = rows[q]
<1>1. /\ 0 \in 0 .. 1 /\ 1 \in 0 .. 1 /\ 0 # 1
      /\ "clear" \in Text /\ AsItCame(r) \in Text /\ "error" \in Text
  BY DEF Text, AsItCame
<1>2. CASE feature /\ Form[r] # "plain"
  <2>1. \/ AddRow(r, "clear", 1)
        \/ AddRow(r, AsItCame(r), 1)
        \/ AddRow(r, "error", 0)
    BY <1>2 DEF HandleMessageReceived, Decrypted, NotDecrypted, DuplicateToSelf
  <2>2. QED
    BY <1>1, <1>2, <2>1, AddRowOK
<1>3. CASE ~(feature /\ Form[r] # "plain")
  BY <1>3, AddUndecryptedOK DEF HandleMessageReceived
<1>4. QED
  BY <1>2, <1>3

LEMMA RowsStep ==
  ASSUME RowsOK, [ReceiveNext]_allVars
  PROVE  /\ RowsOK'
         /\ \A r \in Received : rows[r] # NoRow =>
               \/ rows'[r] = rows[r]
               \/ RemoveConversation(Owner[From[r]])
<1>1. ASSUME NEW r \in Received,
             HandleMessageReceived(r) \/ HandleCarbon(r) \/ ProcessMamMessage(r)
      PROVE  RowsOK' /\ \A q \in Received : rows[q] # NoRow => rows'[q] = rows[q]
  BY <1>1, ReceivedOK, AddUndecryptedOK DEF HandleCarbon, ProcessMamMessage
<1>2. ASSUME NEW r \in Received, RemoveConversation(Owner[From[r]])
      PROVE  /\ RowsOK'
             /\ \A q \in Received : \/ rows'[q] = rows[q]
                                    \/ RemoveConversation(Owner[From[q]])
  <2>1. rows' = [q \in Received |-> IF Owner[From[q]] = Owner[From[r]]
                                    THEN NoRow ELSE rows[q]]
    BY <1>2 DEF RemoveConversation
  <2>2. RowsOK'
    BY <2>1 DEF RowsOK, RowType, NoRow
  <2>3. ASSUME NEW q \in Received, rows'[q] # rows[q]
        PROVE  RemoveConversation(Owner[From[q]])
    <3>1. Owner[From[q]] = Owner[From[r]]
      BY <2>1, <2>3
    <3>2. QED
      BY <1>2, <3>1
  <2>4. QED
    BY <2>2, <2>3
<1>3. ASSUME UNCHANGED rows
      PROVE  RowsOK' /\ \A r \in Received : rows'[r] = rows[r]
  BY <1>3 DEF RowsOK
<1>4. QED
  BY <1>1, <1>2, <1>3 DEF ReceiveNext, allVars, received, ProgramEnds,
     PepBundleForKeytransport, TransportLost

LEMMA RowsInit == ReceiveInit => RowsOK
<1>1. 0 # 1
  OBVIOUS
<1>2. QED
  BY <1>1 DEF ReceiveInit, RowsOK, RowType, NoRow

LEMMA RowsAlwaysOK == ReceiveSpec => []RowsOK
<1>1. RowsOK /\ [ReceiveNext]_allVars => RowsOK'
  BY RowsStep
<1>2. QED
  BY <1>1, RowsInit, PTL DEF ReceiveSpec

(* A row that is shown as secure, sent or received, is of a message that   *)
(* was encrypted.                                                          *)
THEOREM SecureAlwaysOmemo == ReceiveSpec => []SecureIsOmemo
<1>1. RowsOK /\ SecureIsEncrypted => SecureIsOmemo
  BY DEF RowsOK, SecureIsOmemo
<1>2. QED
  BY <1>1, RowsAlwaysOK, ReceivingKeepsQueue, SecureTruly, PTL

(* A message shown decrypted stays so, in whatever order the copies of it  *)
(* come, until its conversation is removed.                                *)
THEOREM DecryptedAlwaysStays == ReceiveSpec => DecryptedStays
<1>1. RowsOK /\ [ReceiveNext]_allVars =>
         [\A r \in Received :
             rows[r] = [text |-> "clear", security |-> 1] =>
                \/ rows'[r] = rows[r]
                \/ RemoveConversation(Owner[From[r]])]_allVars
  <2> SUFFICES ASSUME RowsOK, [ReceiveNext]_allVars, NEW r \in Received,
                      rows[r] = [text |-> "clear", security |-> 1]
               PROVE  rows'[r] = rows[r] \/ RemoveConversation(Owner[From[r]])
    OBVIOUS
  <2>1. rows[r] # NoRow
    BY DEF NoRow
  <2>2. QED
    BY <2>1, RowsStep
<1>2. QED
  BY <1>1, RowsAlwaysOK, PTL DEF ReceiveSpec, DecryptedStays

(* Receiving keeps every variable's type.                                  *)
THEOREM ReceiveTypeCorrect == ReceiveSpec => []ReceiveTypeOK
<1> DEFINE Own == opened \subseteq Received /\ transports \subseteq Devices
<1>1. ReceiveInit => Own
  BY DEF ReceiveInit
<1>2. Own /\ [ReceiveNext]_allVars => Own'
  <2> SUFFICES ASSUME Own, [ReceiveNext]_allVars PROVE Own'
    OBVIOUS
  <2>1. ASSUME NEW r \in Received, HandleMessageReceived(r) PROVE Own'
    BY <2>1, ReceiveAssumption DEF ReceiveAssumption, HandleMessageReceived, Decrypted,
       NotDecrypted, DuplicateToSelf
  <2>2. QED
    BY <2>1 DEF ReceiveNext, allVars, received, HandleCarbon, ProcessMamMessage,
       RemoveConversation, ProgramEnds, PepBundleForKeytransport, TransportLost
<1>3. ReceiveSpec => []Own
  BY <1>1, <1>2, PTL DEF ReceiveSpec
<1>4. TypeOK /\ RowsOK /\ Own => ReceiveTypeOK
  BY DEF RowsOK, ReceiveTypeOK
<1>5. QED
  BY <1>3, <1>4, RowsAlwaysOK, ReceivingKeepsQueue, TypeCorrect, PTL

=============================================================================
