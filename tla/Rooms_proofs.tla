----------------------------- MODULE Rooms_proofs -----------------------------
(***************************************************************************)
(* Proofs about the rooms: about MamSync, which reads their archives, for  *)
(* every number of rooms, every page size and every bound; and about       *)
(* Contacts, which lists them next to the contacts, for all people, rooms  *)
(* and bounds.                                                             *)
(***************************************************************************)
EXTENDS MamSync, RosterList, SequenceTheorems, WellFoundedInduction, TLAPS

USE MamSyncAssumption DEF MamSyncAssumption

-----------------------------------------------------------------------------
(* A page holds the next messages of an archive in their order, and then   *)
(* the stanza that says how far it went.                                   *)

Message(jid, n) == [kind |-> "message", jid |-> jid, n |-> n]
Fin(jid, last, total) ==
    [kind |-> "fin", jid |-> jid, complete |-> last = total, last |-> last]

LEMMA StanzaTypes ==
  ASSUME NEW jid \in Archives
  PROVE  /\ \A n \in Nat \ {0} : Message(jid, n) \in Stanza
         /\ \A last, total \in Nat : Fin(jid, last, total) \in Stanza
BY DEF Stanza, Message, Fin

LEMMA PageProperties ==
  ASSUME NEW jid \in Archives, size \in [Archives -> 0 .. MaxMessages],
         NEW after \in Nat, after <= size[jid]
  PROVE  \E last \in after .. size[jid] :
            /\ Page(jid, after) \in Seq(Stanza)
            /\ Len(Page(jid, after)) = last - after + 1
            /\ \A i \in 1 .. last - after :
                  Page(jid, after)[i] = Message(jid, after + i)
            /\ Page(jid, after)[last - after + 1] = Fin(jid, last, size[jid])
<1> DEFINE last == Least(after + PageSize, size[jid])
           messages == [i \in 1 .. (last - after) |-> Message(jid, after + i)]
           fin == <<Fin(jid, last, size[jid])>>
<1>1. size[jid] \in Nat /\ last \in after .. size[jid]
  BY DEF Least
<1> HIDE DEF last
<1>2. messages \in Seq(Stanza) /\ Len(messages) = last - after
  <2>1. last - after \in Nat
    BY <1>1
  <2>2. \A i \in 1 .. (last - after) : Message(jid, after + i) \in Stanza
    BY <1>1, StanzaTypes
  <2>3. messages \in [1 .. (last - after) -> Stanza]
    BY <2>2
  <2> HIDE DEF messages
  <2>4. QED
    BY <2>1, <2>3
<1>3. fin \in Seq(Stanza) /\ Len(fin) = 1 /\ fin[1] = Fin(jid, last, size[jid])
  BY <1>1, StanzaTypes
<1>4. Page(jid, after) = messages \o fin
  BY DEF Page, last, Message, Fin
<1>5. \A i \in 1 .. last - after : messages[i] = Message(jid, after + i)
  OBVIOUS
<1> HIDE DEF messages, fin
<1>6. last - after \in Nat
  BY <1>1
<1>7. /\ messages \o fin \in Seq(Stanza)
      /\ Len(messages \o fin) = (last - after) + 1
      /\ \A i \in 1 .. (last - after) + 1 :
            (messages \o fin)[i] = IF i <= last - after THEN messages[i]
                                   ELSE fin[i - (last - after)]
  <2>1. /\ messages \o fin \in Seq(Stanza)
        /\ Len(messages \o fin) = Len(messages) + Len(fin)
        /\ \A i \in 1 .. Len(messages) + Len(fin) :
              (messages \o fin)[i] = IF i <= Len(messages) THEN messages[i]
                                     ELSE fin[i - Len(messages)]
    BY <1>2, <1>3, ConcatProperties
  <2>2. Len(messages) = last - after /\ Len(fin) = 1
    BY <1>2, <1>3
  <2>3. QED
    BY <2>1, <2>2
<1>8. \A i \in 1 .. last - after : (messages \o fin)[i] = Message(jid, after + i)
  <2> TAKE i \in 1 .. last - after
  <2>1. i \in 1 .. (last - after) + 1 /\ i <= last - after
    BY <1>6
  <2>2. QED
    BY <1>5, <1>7, <2>1
<1>9. (messages \o fin)[last - after + 1] = Fin(jid, last, size[jid])
  <2> DEFINE n == last - after
  <2>1. n + 1 \in 1 .. n + 1 /\ ~ (n + 1 <= n) /\ (n + 1) - n = 1
    BY <1>6
  <2>2. (messages \o fin)[n + 1] = fin[(n + 1) - n]
    BY <1>7, <2>1
  <2>3. QED
    BY <1>3, <2>1, <2>2
<1>10. QED
  BY <1>1, <1>4, <1>7, <1>8, <1>9

-----------------------------------------------------------------------------
(* The types need that no request goes beyond its archive, which needs     *)
(* that no stanza on its way does.  Archives only grow.                    *)

Within ==
    /\ \A i \in 1 .. Len(requests) : requests[i].after <= size[requests[i].jid]
    /\ \A i \in 1 .. Len(wire) :
          /\ wire[i].kind = "message" => wire[i].n <= size[wire[i].jid]
          /\ wire[i].kind = "fin" /\ ~ wire[i].complete
                => wire[i].last < size[wire[i].jid]

Sound == TypeOK /\ Within

LEMMA SoundInit == Init => Sound
<1> SUFFICES ASSUME Init PROVE Sound
  OBVIOUS
<1>1. requests \in Seq(Request) /\ wire \in Seq(Stanza)
  BY DEF Init
<1>2. found \in 0 .. MaxFound /\ connects \in 0 .. MaxConnects
  BY DEF Init
<1>3. TypeOK
  BY <1>1, <1>2 DEF Init, TypeOK
<1>4. Len(requests) = 0 /\ Len(wire) = 0
  BY DEF Init
<1>5. QED
  BY <1>3, <1>4 DEF Sound, Within

LEMMA RequestStep ==
  ASSUME Sound, NEW jid \in Archives, NEW has \in BOOLEAN,
         RequestArchiveForJid(jid, has)
  PROVE  /\ requests' \in Seq(Request)
         /\ owed' \in [Archives -> SUBSET (1 .. MaxMessages)]
         /\ \A i \in 1 .. Len(requests') :
               requests'[i].after <= size[requests'[i].jid]
<1> DEFINE new == [jid |-> jid, after |-> 0]
<1>1. new \in Request /\ 0 <= size[jid]
  BY DEF Request, Sound, TypeOK
<1>2. CASE has /\ online
  <2>1. requests' = Append(requests, new)
    BY <1>2 DEF RequestArchiveForJid
  <2>2. /\ requests' \in Seq(Request) /\ Len(requests') = Len(requests) + 1
        /\ \A i \in 1 .. Len(requests) : requests'[i] = requests[i]
        /\ requests'[Len(requests) + 1] = new
    BY <1>1, <2>1, AppendProperties DEF Sound, TypeOK
  <2>3. size[jid] \in 0 .. MaxMessages
    BY DEF Sound, TypeOK
  <2>4. owed' \in [Archives -> SUBSET (1 .. MaxMessages)]
    <3>1. (1 .. size[jid]) \in SUBSET (1 .. MaxMessages)
      BY <2>3
    <3>2. owed' = [owed EXCEPT ![jid] = 1 .. size[jid]]
      BY <1>2 DEF RequestArchiveForJid
    <3>3. QED
      BY <3>1, <3>2 DEF Sound, TypeOK
  <2>5. ASSUME NEW i \in 1 .. Len(requests')
        PROVE  requests'[i].after <= size[requests'[i].jid]
    <3>1. Len(requests) \in Nat
      BY DEF Sound, TypeOK
    <3>2. CASE i \in 1 .. Len(requests)
      BY <2>2, <3>2 DEF Sound, Within
    <3>3. CASE i = Len(requests) + 1
      BY <1>1, <2>2, <3>3
    <3>4. QED
      BY <2>2, <3>1, <3>2, <3>3
  <2>6. QED
    BY <2>2, <2>4, <2>5
<1>3. CASE ~ (has /\ online)
  BY <1>3 DEF RequestArchiveForJid, Sound, TypeOK, Within
<1>4. QED
  BY <1>2, <1>3

(* A read: its first stanza is the first on the wire, whatever the read    *)
(* took with it.                                                           *)
LEMMA ReadProperties ==
  ASSUME TypeOK, NEW k \in 1 .. Len(wire)
  PROVE  /\ FirstStanza(SubSeq(wire, 1, k)) = wire[1] /\ wire[1] \in Stanza
         /\ SubSeq(wire, k + 1, Len(wire)) \in Seq(Stanza)
         /\ Len(SubSeq(wire, k + 1, Len(wire))) = Len(wire) - k
         /\ \A i \in 1 .. Len(wire) - k : SubSeq(wire, k + 1, Len(wire))[i] = wire[i + k]
BY DEF TypeOK, FirstStanza

LEMMA SoundStep == Sound /\ [Next]_vars => Sound'
<1> SUFFICES ASSUME Sound, [Next]_vars PROVE Sound'
  OBVIOUS
<1>1. CASE HandleDiscoServiceWalker
  <2>1. RequestArchiveForJid(Own, TRUE) /\ Own \in Archives
    BY <1>1 DEF HandleDiscoServiceWalker, SetServerHasFeatureMam, Archives
  <2>2. found' \in 0 .. MaxFound
    BY <1>1 DEF HandleDiscoServiceWalker, Sound, TypeOK
  <2>3. TypeOK'
    BY <1>1, <2>1, <2>2, RequestStep
       DEF HandleDiscoServiceWalker, SetServerHasFeatureMam, Sound, TypeOK
  <2>4. Within'
    BY <1>1, <2>1, RequestStep DEF HandleDiscoServiceWalker, Sound, Within
  <2>5. QED
    BY <2>3, <2>4 DEF Sound
<1>2. ASSUME NEW room \in Rooms, AddJidforArchiveQuery(room)
      PROVE  Sound'
  <2>1. /\ RequestArchiveForJid(room, serverHasFeature) /\ room \in Archives
        /\ serverHasFeature \in BOOLEAN
    BY <1>2 DEF AddJidforArchiveQuery, Archives, Sound, TypeOK
  <2>2. asks' \in [Rooms -> Nat]
    BY <1>2 DEF AddJidforArchiveQuery, Sound, TypeOK
  <2>3. TypeOK'
    BY <1>2, <2>1, <2>2, RequestStep DEF AddJidforArchiveQuery, bounds, Sound, TypeOK
  <2>4. Within'
    BY <1>2, <2>1, RequestStep DEF AddJidforArchiveQuery, Sound, Within
  <2>5. QED
    BY <2>3, <2>4 DEF Sound
<1>3. CASE HandleDataReceived
  <2>1. PICK k \in 1 .. Len(wire) :
           /\ wire' = SubSeq(wire, k + 1, Len(wire))
           /\ LET stanza == FirstStanza(SubSeq(wire, 1, k))
              IN  IF stanza.kind = "fin" THEN ProcessFinIq(stanza)
                  ELSE ProcessMamMessage(stanza)
    BY <1>3 DEF HandleDataReceived
  <2>2. /\ wire' \in Seq(Stanza) /\ Len(wire') = Len(wire) - k
        /\ \A i \in 1 .. Len(wire') : wire'[i] = wire[i + k]
        /\ IF wire[1].kind = "fin" THEN ProcessFinIq(wire[1])
           ELSE ProcessMamMessage(wire[1])
        /\ wire[1] \in Stanza /\ 1 \in 1 .. Len(wire) /\ Len(wire) \in Nat
    BY <2>1, ReadProperties DEF Sound, TypeOK
  <2>3. UNCHANGED <<client, online, size, owed, asks, bounds>>
    BY <1>3 DEF HandleDataReceived
  <2>4. \A i \in 1 .. Len(wire') :
           /\ wire'[i].kind = "message" => wire'[i].n <= size'[wire'[i].jid]
           /\ wire'[i].kind = "fin" /\ ~ wire'[i].complete
                 => wire'[i].last < size'[wire'[i].jid]
    <3>1. \A i \in 1 .. Len(wire') : i + k \in 1 .. Len(wire)
      <4>1. Len(wire') = Len(wire) - k /\ Len(wire) \in Nat
        BY <2>2
      <4>2. QED
        BY <4>1
    <3>2. QED
      BY <2>2, <2>3, <3>1 DEF Sound, Within
  <2>5. CASE wire[1].kind = "fin"
    <3>1. UNCHANGED fetched
      BY <2>2, <2>5 DEF ProcessFinIq, AsksOn
    <3>2. CASE ~ AsksOn(wire[1])
      <4>1. requests' = requests
        BY <2>2, <2>5, <3>2 DEF ProcessFinIq
      <4>2. QED
        BY <2>2, <2>3, <2>4, <3>1, <4>1 DEF Sound, TypeOK, Within, client, bounds
    <3>3. CASE AsksOn(wire[1])
      <4> DEFINE new == [jid |-> wire[1].jid, after |-> wire[1].last]
      <4>1. requests' = Append(requests, new)
        BY <2>2, <2>5, <3>3 DEF ProcessFinIq
      <4>2. wire[1].jid \in Archives /\ wire[1].last \in Nat
        BY <2>2, <2>5 DEF Stanza
      <4>3. wire[1].last < size[wire[1].jid] /\ size[wire[1].jid] \in 0 .. MaxMessages
        BY <2>2, <2>5, <3>3, <4>2 DEF Sound, Within, TypeOK, AsksOn
      <4>4. new \in Request
        BY <4>2, <4>3 DEF Request
      <4>5. /\ requests' \in Seq(Request) /\ Len(requests') = Len(requests) + 1
            /\ \A i \in 1 .. Len(requests) : requests'[i] = requests[i]
            /\ requests'[Len(requests) + 1] = new
        BY <4>1, <4>4, AppendProperties DEF Sound, TypeOK
      <4>6. \A i \in 1 .. Len(requests') :
               requests'[i].after <= size'[requests'[i].jid]
        <5>1. new.after <= size[new.jid]
          BY <4>2, <4>3
        <5>2. Len(requests) \in Nat
          BY DEF Sound, TypeOK
        <5>3. QED
          BY <2>3, <4>5, <5>1, <5>2 DEF Sound, Within
      <4>7. QED
        BY <2>2, <2>3, <2>4, <3>1, <4>5, <4>6 DEF Sound, TypeOK, Within, client, bounds
    <3>4. QED
      BY <3>2, <3>3
  <2>6. CASE wire[1].kind # "fin"
    <3>1. UNCHANGED requests
      BY <2>2, <2>6 DEF ProcessMamMessage
    <3>2. /\ wire[1].jid \in Archives /\ wire[1].n \in Nat \ {0}
          /\ wire[1].kind = "message"
      BY <2>2, <2>6 DEF Stanza
    <3>3. wire[1].n \in 1 .. MaxMessages
      BY <2>2, <3>2 DEF Sound, Within, TypeOK
    <3>4. fetched' \in [Archives -> SUBSET (1 .. MaxMessages)]
      <4>1. fetched \in [Archives -> SUBSET (1 .. MaxMessages)]
        BY DEF Sound, TypeOK
      <4>2. fetched[wire[1].jid] \cup {wire[1].n} \in SUBSET (1 .. MaxMessages)
        BY <3>2, <3>3, <4>1
      <4>3. fetched' = [fetched EXCEPT ![wire[1].jid] =
                          fetched[wire[1].jid] \cup {wire[1].n}]
        BY <2>2, <2>6 DEF ProcessMamMessage
      <4>4. QED
        BY <3>2, <4>1, <4>2, <4>3
    <3>5. QED
      BY <2>2, <2>3, <2>4, <3>1, <3>4 DEF Sound, TypeOK, Within, client, bounds
  <2>7. QED
    BY <2>5, <2>6
<1>4. CASE Answer
  <2> DEFINE jid == requests[1].jid
             after == requests[1].after
  <2>1. /\ requests # <<>> /\ Len(requests) \in Nat \ {0} /\ requests[1] \in Request
        /\ wire' = wire \o Page(jid, after) /\ requests' = Tail(requests)
        /\ UNCHANGED <<client, online, size, fetched, owed, asks, bounds>>
    BY <1>4 DEF Answer, Sound, TypeOK
  <2>2. jid \in Archives /\ after \in Nat /\ after <= size[jid]
    BY <2>1 DEF Request, Sound, Within
  <2>3. size \in [Archives -> 0 .. MaxMessages]
    BY DEF Sound, TypeOK
  <2> HIDE DEF jid, after
  <2>4. PICK last \in after .. size[jid] :
            /\ Page(jid, after) \in Seq(Stanza)
            /\ Len(Page(jid, after)) = last - after + 1
            /\ \A i \in 1 .. last - after :
                  Page(jid, after)[i] = Message(jid, after + i)
            /\ Page(jid, after)[last - after + 1] = Fin(jid, last, size[jid])
    BY <2>2, <2>3, PageProperties
  <2>5. /\ wire' \in Seq(Stanza) /\ Len(wire') = Len(wire) + (last - after + 1)
        /\ \A i \in 1 .. Len(wire') :
              wire'[i] = IF i <= Len(wire) THEN wire[i]
                         ELSE Page(jid, after)[i - Len(wire)]
    <3>1. wire \in Seq(Stanza)
      BY DEF Sound, TypeOK
    <3>2. /\ wire' \in Seq(Stanza) /\ Len(wire') = Len(wire) + Len(Page(jid, after))
          /\ \A i \in 1 .. Len(wire) + Len(Page(jid, after)) :
                wire'[i] = IF i <= Len(wire) THEN wire[i]
                           ELSE Page(jid, after)[i - Len(wire)]
      BY <2>1, <2>4, <3>1, ConcatProperties
    <3>3. QED
      BY <2>4, <3>2
  <2>6. /\ requests' \in Seq(Request) /\ Len(requests') = Len(requests) - 1
        /\ \A i \in 1 .. Len(requests') : requests'[i] = requests[i + 1]
    BY <2>1, HeadTailProperties DEF Sound, TypeOK
  <2>7. ASSUME NEW i \in 1 .. Len(wire')
        PROVE  /\ wire'[i].kind = "message" => wire'[i].n <= size[wire'[i].jid]
               /\ wire'[i].kind = "fin" /\ ~ wire'[i].complete
                     => wire'[i].last < size[wire'[i].jid]
    <3>0. Len(wire) \in Nat /\ size[jid] \in Nat /\ last \in Nat
      BY <2>2, <2>3 DEF Sound, TypeOK
    <3>1. CASE i <= Len(wire)
      BY <2>5, <3>0, <3>1 DEF Sound, Within
    <3>2. CASE i - Len(wire) \in 1 .. last - after
      <4>1. wire'[i] = Message(jid, after + (i - Len(wire)))
        BY <2>2, <2>4, <2>5, <3>0, <3>2
      <4>2. after + (i - Len(wire)) <= size[jid]
        BY <2>2, <2>4, <3>0, <3>2
      <4>3. QED
        BY <4>1, <4>2 DEF Message
    <3>3. CASE i - Len(wire) = last - after + 1
      <4>1. wire'[i] = Fin(jid, last, size[jid])
        BY <2>2, <2>4, <2>5, <3>0, <3>3
      <4>2. QED
        <5>1. /\ wire'[i].kind = "fin" /\ wire'[i].jid = jid /\ wire'[i].last = last
              /\ wire'[i].complete = (last = size[jid])
          BY <4>1 DEF Fin
        <5>2. last # size[jid] => last < size[jid]
          BY <2>2, <2>4, <3>0
        <5>3. QED
          BY <5>1, <5>2
    <3>4. i \in 1 .. Len(wire) + (last - after + 1)
      BY <2>5
    <3>5. \/ i <= Len(wire) \/ i - Len(wire) \in 1 .. last - after
          \/ i - Len(wire) = last - after + 1
      BY <2>2, <3>0, <3>4
    <3>6. QED
      BY <3>1, <3>2, <3>3, <3>5
  <2>8. TypeOK'
    BY <2>1, <2>5, <2>6 DEF Sound, TypeOK, client, bounds
  <2>9. \A i \in 1 .. Len(requests') : requests'[i].after <= size[requests'[i].jid]
    BY <2>1, <2>6 DEF Sound, Within
  <2>10. QED
    BY <2>1, <2>7, <2>8, <2>9 DEF Sound, Within
<1>5. ASSUME NEW jid \in Archives, Arrives(jid)
      PROVE  Sound'
  <2>1. /\ size' \in [Archives -> 0 .. MaxMessages]
        /\ \A a \in Archives : size[a] <= size'[a] /\ size[a] \in Nat /\ size'[a] \in Nat
    BY <1>5 DEF Arrives, Sound, TypeOK
  <2>2. UNCHANGED <<client, online, requests, wire, fetched, owed, asks, bounds>>
    BY <1>5 DEF Arrives
  <2>3. TypeOK'
    BY <2>1, <2>2 DEF Sound, TypeOK, client, bounds
  <2>4. \A i \in 1 .. Len(requests) : requests[i] \in Request
    BY DEF Sound, TypeOK
  <2>5. \A i \in 1 .. Len(wire) : wire[i] \in Stanza
    BY DEF Sound, TypeOK
  <2>6. \A i \in 1 .. Len(requests) : requests[i].after <= size'[requests[i].jid]
    BY <2>1, <2>4 DEF Sound, Within, Request
  <2>7. ASSUME NEW i \in 1 .. Len(wire)
        PROVE  /\ wire[i].kind = "message" => wire[i].n <= size'[wire[i].jid]
               /\ wire[i].kind = "fin" /\ ~ wire[i].complete
                     => wire[i].last < size'[wire[i].jid]
    <3>1. wire[i].jid \in Archives
      BY <2>5 DEF Stanza
    <3>2. wire[i].kind = "message" => wire[i].n \in Nat
      BY <2>5 DEF Stanza
    <3>3. wire[i].kind = "fin" => wire[i].last \in Nat
      BY <2>5 DEF Stanza
    <3>4. QED
      BY <2>1, <3>1, <3>2, <3>3 DEF Sound, Within
  <2>8. QED
    BY <2>2, <2>3, <2>6, <2>7 DEF Sound, Within
<1>6. CASE Connect
  BY <1>6 DEF Connect, Sound, TypeOK, Within
<1>7. CASE Disconnect
  <2>1. requests' = <<>> /\ wire' = <<>> /\ owed' = [a \in Archives |-> {}]
    BY <1>7 DEF Disconnect
  <2>2. requests' \in Seq(Request) /\ wire' \in Seq(Stanza)
    BY <2>1
  <2>3. TypeOK'
    BY <1>7, <2>1, <2>2 DEF Disconnect, client, bounds, Sound, TypeOK
  <2>4. Len(requests') = 0 /\ Len(wire') = 0
    BY <2>1
  <2>5. QED
    BY <2>3, <2>4 DEF Sound, Within
<1>8. CASE UNCHANGED vars
  BY <1>8 DEF vars, client, bounds, Sound, TypeOK, Within
<1>9. QED
  BY <1>1, <1>2, <1>3, <1>4, <1>5, <1>6, <1>7, <1>8 DEF Next

(* Every variable keeps its type: no request and no stanza goes beyond its *)
(* archive, whatever a read returns.                                       *)
THEOREM TypeCorrect == Spec => []TypeOK
BY SoundInit, SoundStep, PTL DEF Spec, Sound

-----------------------------------------------------------------------------
(* A room that is not noted has not been asked for in this session, so     *)
(* asking for it is the first time.                                        *)
Noted ==
    \A room \in Rooms : asks[room] <= 1 /\ (room \notin queridJids => asks[room] = 0)

LEMMA NotedStep == TypeOK /\ Noted /\ [Next]_vars => Noted'
<1> SUFFICES ASSUME TypeOK, Noted, [Next]_vars PROVE Noted'
  OBVIOUS
<1>1. ASSUME NEW room \in Rooms, AddJidforArchiveQuery(room)
      PROVE  Noted'
  BY <1>1 DEF AddJidforArchiveQuery, TypeOK, Noted
<1>2. CASE Connect
  BY <1>2 DEF Connect, Noted
<1>3. CASE UNCHANGED <<queridJids, asks>>
  BY <1>3 DEF Noted
<1>4. QED
  BY <1>1, <1>2, <1>3 DEF Next, vars, client, HandleDiscoServiceWalker,
     SetServerHasFeatureMam, HandleDataReceived, Answer, Arrives, Disconnect

(* In one session a room is asked for from its start at most once, however *)
(* often it is announced and whenever the feature is found.                *)
THEOREM RoomsAskedOnce == Spec => []AskedOnce
<1>1. Init => Noted
  BY DEF Init, Noted
<1>2. Noted => AskedOnce
  BY DEF Noted, AskedOnce
<1>3. QED
  BY TypeCorrect, <1>1, <1>2, NotedStep, PTL DEF Spec

(* In every session but the first a room that is announced is asked for:   *)
(* only the first session can learn of the feature too late.               *)
THEOREM SessionsAsk == Spec => []LaterSessionsAsk
<1>1. Init => LaterSessionsAsk
  BY DEF Init, LaterSessionsAsk
<1>2. TypeOK /\ LaterSessionsAsk /\ [Next]_vars => LaterSessionsAsk'
  <2> SUFFICES ASSUME TypeOK, LaterSessionsAsk, [Next]_vars
               PROVE  LaterSessionsAsk'
    OBVIOUS
  <2>1. CASE HandleDiscoServiceWalker
    BY <2>1 DEF HandleDiscoServiceWalker, TypeOK, LaterSessionsAsk
  <2>2. ASSUME NEW room \in Rooms, AddJidforArchiveQuery(room)
        PROVE  LaterSessionsAsk'
    BY <2>2 DEF AddJidforArchiveQuery, TypeOK, LaterSessionsAsk, bounds
  <2>3. CASE Connect
    BY <2>3 DEF Connect, LaterSessionsAsk
  <2>4. CASE Disconnect
    BY <2>4 DEF Disconnect, LaterSessionsAsk
  <2>5. CASE UNCHANGED <<client, online, asks, bounds>>
    BY <2>5 DEF LaterSessionsAsk, client, bounds
  <2>6. QED
    BY <2>1, <2>2, <2>3, <2>4, <2>5
       DEF Next, vars, HandleDataReceived, Answer, Arrives
<1>3. QED
  BY TypeCorrect, <1>1, <1>2, PTL DEF Spec

-----------------------------------------------------------------------------
(* A fin stanza on its way has before it, or already processed, every      *)
(* message up to its last.  When it is read first, all are processed.      *)
Covered ==
    \A i \in 1 .. Len(wire) : wire[i].kind = "fin" =>
       \A n \in 1 .. wire[i].last :
          \/ n \in fetched[wire[i].jid]
          \/ \E j \in 1 .. i - 1 : wire[j] = Message(wire[i].jid, n)
LEMMA CoveredInit == Init => NothingIsSkipped /\ Covered
<1> SUFFICES ASSUME Init PROVE NothingIsSkipped /\ Covered
  OBVIOUS
<1>1. Len(wire) = 0 /\ DOMAIN requests = {}
  BY DEF Init
<1>2. QED
  BY <1>1 DEF NothingIsSkipped, Covered

(* What a request from the start adds. *)
LEMMA RequestSkipsNothing ==
  ASSUME TypeOK, NothingIsSkipped, UNCHANGED fetched,
         NEW jid \in Archives, NEW has \in BOOLEAN, RequestArchiveForJid(jid, has)
  PROVE  NothingIsSkipped'
<1> DEFINE new == [jid |-> jid, after |-> 0]
<1>1. CASE requests' = requests
  BY <1>1 DEF NothingIsSkipped
<1>2. CASE requests' = Append(requests, new)
  <2>1. new \in Request
    BY DEF Request
  <2>2. /\ Len(requests') = Len(requests) + 1 /\ Len(requests) \in Nat
        /\ \A i \in 1 .. Len(requests) : requests'[i] = requests[i]
        /\ requests'[Len(requests) + 1] = new
        /\ DOMAIN requests' = 1 .. Len(requests) + 1
        /\ DOMAIN requests = 1 .. Len(requests)
    BY <1>2, <2>1, AppendProperties DEF TypeOK
  <2>3. 1 .. new.after = {}
    OBVIOUS
  <2>4. QED
    BY <2>2, <2>3 DEF NothingIsSkipped
<1>3. QED
  BY <1>1, <1>2 DEF RequestArchiveForJid

LEMMA CoveredStep ==
  ASSUME ReadSizes = {1}
  PROVE  Sound /\ NothingIsSkipped /\ Covered /\ [Next]_vars
            => NothingIsSkipped' /\ Covered'
<1> SUFFICES ASSUME Sound, NothingIsSkipped, Covered, [Next]_vars
             PROVE  NothingIsSkipped' /\ Covered'
  OBVIOUS
<1>1. CASE HandleDiscoServiceWalker
  <2>1. RequestArchiveForJid(Own, TRUE) /\ Own \in Archives /\ UNCHANGED <<wire, fetched>>
    BY <1>1 DEF HandleDiscoServiceWalker, SetServerHasFeatureMam, Archives
  <2>2. QED
    BY <2>1, RequestSkipsNothing DEF Sound, Covered
<1>2. ASSUME NEW room \in Rooms, AddJidforArchiveQuery(room)
      PROVE  NothingIsSkipped' /\ Covered'
  <2>1. /\ RequestArchiveForJid(room, serverHasFeature) /\ room \in Archives
        /\ serverHasFeature \in BOOLEAN /\ UNCHANGED <<wire, fetched>>
    BY <1>2 DEF AddJidforArchiveQuery, Archives, Sound, TypeOK
  <2>2. QED
    BY <2>1, RequestSkipsNothing DEF Sound, Covered
<1>3. CASE HandleDataReceived
  <2>1. /\ 1 \in 1 .. Len(wire) /\ wire' = SubSeq(wire, 2, Len(wire))
        /\ LET stanza == FirstStanza(SubSeq(wire, 1, 1))
           IN  IF stanza.kind = "fin" THEN ProcessFinIq(stanza)
               ELSE ProcessMamMessage(stanza)
    BY <1>3 DEF HandleDataReceived
  <2>2. /\ Len(wire') = Len(wire) - 1 /\ Len(wire) \in Nat
        /\ \A i \in 1 .. Len(wire') : wire'[i] = wire[i + 1]
        /\ IF wire[1].kind = "fin" THEN ProcessFinIq(wire[1])
           ELSE ProcessMamMessage(wire[1])
        /\ wire[1] \in Stanza
    <3>1. /\ FirstStanza(SubSeq(wire, 1, 1)) = wire[1] /\ wire[1] \in Stanza
          /\ Len(SubSeq(wire, 1 + 1, Len(wire))) = Len(wire) - 1
          /\ \A i \in 1 .. Len(wire) - 1 : SubSeq(wire, 1 + 1, Len(wire))[i] = wire[i + 1]
      BY <2>1, ReadProperties DEF Sound
    <3>2. 1 + 1 = 2 /\ Len(wire) \in Nat
      BY DEF Sound, TypeOK
    <3>3. wire' = SubSeq(wire, 1 + 1, Len(wire))
      BY <2>1, <3>2
    <3>4. QED
      BY <2>1, <3>1, <3>2, <3>3
  <2>3. \A a \in Archives : fetched[a] \subseteq fetched'[a]
    <3>1. fetched' = fetched
             \/ fetched' = [fetched EXCEPT ![wire[1].jid] = @ \cup {wire[1].n}]
      BY <2>2 DEF ProcessFinIq, AsksOn, ProcessMamMessage
    <3>2. fetched \in [Archives -> SUBSET (1 .. MaxMessages)]
      BY DEF Sound, TypeOK
    <3>3. CASE fetched' = [fetched EXCEPT ![wire[1].jid] = @ \cup {wire[1].n}]
      <4>1. \A a \in Archives :
               fetched'[a] = IF a = wire[1].jid THEN fetched[a] \cup {wire[1].n}
                             ELSE fetched[a]
        BY <3>2, <3>3
      <4>2. QED
        BY <4>1
    <3>4. QED
      BY <3>1, <3>3
  <2>4. \A n \in Nat, a \in Archives : wire[1] = Message(a, n) => n \in fetched'[a]
    <3> SUFFICES ASSUME NEW n \in Nat, NEW a \in Archives, wire[1] = Message(a, n)
                 PROVE  n \in fetched'[a]
      OBVIOUS
    <3>1. fetched' = [fetched EXCEPT ![a] = @ \cup {n}]
      BY <2>2 DEF Message, ProcessMamMessage
    <3>2. QED
      BY <3>1 DEF Sound, TypeOK
  <2>5. Covered'
    <3> SUFFICES ASSUME NEW i \in 1 .. Len(wire'), wire'[i].kind = "fin",
                        NEW n \in 1 .. wire'[i].last
                 PROVE  \/ n \in fetched'[wire'[i].jid]
                        \/ \E j \in 1 .. i - 1 : wire'[j] = Message(wire'[i].jid, n)
      BY DEF Covered
    <3>1. /\ i + 1 \in 1 .. Len(wire) /\ wire'[i] = wire[i + 1] /\ i \in Nat
          /\ wire[i + 1] \in Stanza
      BY <2>2 DEF Sound, TypeOK
    <3>2. wire'[i].jid \in Archives /\ n \in Nat
      BY <3>1 DEF Stanza
    <3>3. CASE n \in fetched[wire'[i].jid]
      BY <2>3, <3>2, <3>3
    <3>4. CASE \E j \in 1 .. i : wire[j] = Message(wire'[i].jid, n)
      <4>1. PICK j \in 1 .. i : wire[j] = Message(wire'[i].jid, n)
        BY <3>4
      <4>2. CASE j = 1
        BY <2>4, <3>2, <4>1, <4>2
      <4>3. CASE j # 1
        <5>1. j - 1 \in 1 .. i - 1 /\ j - 1 \in 1 .. Len(wire') /\ (j - 1) + 1 = j
          BY <2>2, <3>1, <4>3
        <5>2. wire'[j - 1] = wire[j]
          BY <2>2, <5>1
        <5>3. QED
          BY <4>1, <5>1, <5>2
      <4>4. QED
        BY <4>2, <4>3
    <3>5. (i + 1) - 1 = i
      BY <3>1
    <3>6. \/ n \in fetched[wire'[i].jid]
          \/ \E j \in 1 .. (i + 1) - 1 : wire[j] = Message(wire'[i].jid, n)
      <4>1. i + 1 \in 1 .. Len(wire) /\ wire[i + 1] = wire'[i]
        BY <3>1
      <4>2. wire[i + 1].kind = "fin" /\ n \in 1 .. wire[i + 1].last
        BY <4>1
      <4>3. QED
        BY <4>1, <4>2 DEF Covered
    <3>7. QED
      BY <3>3, <3>4, <3>5, <3>6
  <2>6. NothingIsSkipped'
    <3>1. \A i \in DOMAIN requests :
             /\ requests[i].jid \in Archives
             /\ 1 .. requests[i].after \subseteq fetched'[requests[i].jid]
      <4>1. \A i \in DOMAIN requests : requests[i] \in Request
        BY DEF Sound, TypeOK
      <4>2. \A i \in DOMAIN requests : requests[i].jid \in Archives
        BY <4>1 DEF Request
      <4>3. QED
        BY <2>3, <4>2 DEF NothingIsSkipped
    <3>2. CASE requests' = requests
      BY <3>1, <3>2 DEF NothingIsSkipped
    <3>3. CASE /\ wire[1].kind = "fin"
               /\ requests' = Append(requests, [jid |-> wire[1].jid, after |-> wire[1].last])
      <4> DEFINE new == [jid |-> wire[1].jid, after |-> wire[1].last]
      <4>1. /\ Len(requests') = Len(requests) + 1 /\ Len(requests) \in Nat
            /\ \A i \in 1 .. Len(requests) : requests'[i] = requests[i]
            /\ requests'[Len(requests) + 1] = new
            /\ DOMAIN requests' = 1 .. Len(requests) + 1
            /\ DOMAIN requests = 1 .. Len(requests)
        BY <3>3 DEF Sound, TypeOK
      <4>2. 1 .. new.after \subseteq fetched'[new.jid]
        <5>1. wire[1].jid \in Archives /\ 1 .. 1 - 1 = {}
          BY <2>2, <3>3 DEF Stanza
        <5>2. \A n \in 1 .. wire[1].last : n \in fetched[wire[1].jid]
          BY <2>1, <3>3, <5>1 DEF Covered
        <5>3. QED
          BY <2>3, <5>1, <5>2
      <4>3. QED
        BY <3>1, <4>1, <4>2 DEF NothingIsSkipped
    <3>4. QED
      BY <2>2, <3>2, <3>3 DEF ProcessFinIq, AsksOn, ProcessMamMessage
  <2>7. QED
    BY <2>5, <2>6
<1>4. CASE Answer
  <2> DEFINE jid == requests[1].jid
             after == requests[1].after
  <2>1. /\ requests # <<>> /\ Len(requests) \in Nat \ {0} /\ requests[1] \in Request
        /\ wire' = wire \o Page(jid, after) /\ requests' = Tail(requests)
        /\ UNCHANGED fetched
    BY <1>4 DEF Answer, Sound, TypeOK
  <2>2. /\ jid \in Archives /\ after \in Nat /\ after <= size[jid]
        /\ 1 .. after \subseteq fetched[jid]
    BY <2>1 DEF Request, Sound, Within, NothingIsSkipped
  <2>3. size \in [Archives -> 0 .. MaxMessages] /\ wire \in Seq(Stanza)
    BY DEF Sound, TypeOK
  <2>4. NothingIsSkipped'
    <3>1. /\ DOMAIN requests' = 1 .. Len(requests) - 1
          /\ DOMAIN requests = 1 .. Len(requests)
          /\ \A i \in 1 .. Len(requests) - 1 : requests'[i] = requests[i + 1]
      BY <2>1, HeadTailProperties DEF Sound, TypeOK
    <3>2. \A i \in 1 .. Len(requests) - 1 : i + 1 \in 1 .. Len(requests)
      BY <2>1
    <3>3. QED
      BY <2>1, <3>1, <3>2 DEF NothingIsSkipped
  <2> HIDE DEF jid, after
  <2>5. PICK last \in after .. size[jid] :
            /\ Page(jid, after) \in Seq(Stanza)
            /\ Len(Page(jid, after)) = last - after + 1
            /\ \A i \in 1 .. last - after :
                  Page(jid, after)[i] = Message(jid, after + i)
            /\ Page(jid, after)[last - after + 1] = Fin(jid, last, size[jid])
    BY <2>2, <2>3, PageProperties
  <2>6. last \in Nat /\ Len(wire) \in Nat /\ size[jid] \in Nat
    BY <2>2, <2>3
  <2>7. /\ Len(wire') = Len(wire) + (last - after + 1)
        /\ \A i \in 1 .. Len(wire) : wire'[i] = wire[i]
        /\ \A i \in 1 .. last - after : wire'[Len(wire) + i] = Message(jid, after + i)
        /\ wire'[Len(wire) + (last - after + 1)] = Fin(jid, last, size[jid])
    <3>1. /\ Len(wire') = Len(wire) + Len(Page(jid, after))
          /\ \A i \in 1 .. Len(wire) + Len(Page(jid, after)) :
                wire'[i] = IF i <= Len(wire) THEN wire[i]
                           ELSE Page(jid, after)[i - Len(wire)]
      BY <2>1, <2>3, <2>5, ConcatProperties
    <3>2. \A k \in 1 .. last - after + 1 :
             /\ Len(wire) + k \in 1 .. Len(wire) + Len(Page(jid, after))
             /\ ~ (Len(wire) + k <= Len(wire)) /\ (Len(wire) + k) - Len(wire) = k
      BY <2>2, <2>5, <2>6
    <3>3. \A k \in 1 .. last - after + 1 : wire'[Len(wire) + k] = Page(jid, after)[k]
      <4> TAKE k \in 1 .. last - after + 1
      <4>1. wire'[Len(wire) + k] = Page(jid, after)[(Len(wire) + k) - Len(wire)]
        BY <3>1, <3>2
      <4>2. QED
        BY <3>2, <4>1
    <3>4. \A i \in 1 .. Len(wire) : wire'[i] = wire[i]
      <4> TAKE i \in 1 .. Len(wire)
      <4>1. i \in 1 .. Len(wire) + Len(Page(jid, after)) /\ i <= Len(wire)
        BY <2>2, <2>5, <2>6
      <4>2. QED
        BY <3>1, <4>1
    <3>5. /\ last - after + 1 \in 1 .. last - after + 1
          /\ 1 .. last - after \subseteq 1 .. last - after + 1
      BY <2>2, <2>6
    <3>6. QED
      BY <2>5, <3>1, <3>3, <3>4, <3>5
  <2>8. Covered'
    <3> SUFFICES ASSUME NEW i \in 1 .. Len(wire'), wire'[i].kind = "fin",
                        NEW n \in 1 .. wire'[i].last
                 PROVE  \/ n \in fetched[wire'[i].jid]
                        \/ \E j \in 1 .. i - 1 : wire'[j] = Message(wire'[i].jid, n)
      BY <2>1 DEF Covered
    <3>1. CASE i \in 1 .. Len(wire)
      <4>1. wire'[i] = wire[i]
        BY <2>7, <3>1
      <4>2. \A j \in 1 .. i - 1 : j \in 1 .. Len(wire) /\ wire'[j] = wire[j]
        BY <2>6, <2>7, <3>1
      <4>3. QED
        BY <3>1, <4>1, <4>2 DEF Covered
    <3>2. CASE i - Len(wire) \in 1 .. last - after
      <4>1. wire'[Len(wire) + (i - Len(wire))] = Message(jid, after + (i - Len(wire)))
        BY <2>7, <3>2
      <4>2. Len(wire) + (i - Len(wire)) = i
        BY <2>6, <3>2
      <4>3. wire'[i].kind = "message"
        BY <4>1, <4>2 DEF Message
      <4>4. QED
        BY <4>3
    <3>3. CASE i = Len(wire) + (last - after + 1)
      <4>1. wire'[i].last = last /\ wire'[i].jid = jid
        BY <2>7, <3>3 DEF Fin
      <4>2. CASE n \in 1 .. after
        BY <2>2, <4>1, <4>2
      <4>3. CASE n - after \in 1 .. last - after
        <5> DEFINE j == Len(wire) + (n - after)
        <5>1. wire'[j] = Message(jid, after + (n - after))
          BY <2>7, <4>3
        <5>2. after + (n - after) = n
          BY <2>2, <4>1
        <5>3. j \in 1 .. i - 1
          BY <2>2, <2>6, <3>3, <4>1, <4>3
        <5> HIDE DEF j
        <5>4. wire'[j] = Message(wire'[i].jid, n)
          BY <4>1, <5>1, <5>2
        <5>5. QED
          BY <5>3, <5>4
      <4>4. n \in 1 .. last
        BY <4>1
      <4>5. n \in 1 .. after \/ n - after \in 1 .. last - after
        BY <2>2, <2>6, <4>4
      <4>6. QED
        BY <4>2, <4>3, <4>5
    <3>4. \/ i \in 1 .. Len(wire) \/ i - Len(wire) \in 1 .. last - after
          \/ i = Len(wire) + (last - after + 1)
      <4>1. i \in 1 .. Len(wire) + (last - after + 1)
        BY <2>7
      <4>2. QED
        BY <2>2, <2>6, <4>1
    <3>5. QED
      BY <3>1, <3>2, <3>3, <3>4
  <2>9. QED
    BY <2>4, <2>8
<1>5. CASE Disconnect
  <2>1. requests' = <<>> /\ wire' = <<>>
    BY <1>5 DEF Disconnect
  <2>2. Len(wire') = 0 /\ DOMAIN requests' = {}
    BY <2>1
  <2>3. QED
    BY <2>2 DEF NothingIsSkipped, Covered
<1>6. CASE UNCHANGED <<requests, wire, fetched>>
  BY <1>6 DEF NothingIsSkipped, Covered
<1>7. QED
  BY <1>1, <1>2, <1>3, <1>4, <1>5, <1>6 DEF Next, vars, Arrives, Connect

(* When every read from the socket returns one stanza, a page is asked for *)
(* after a message only when that one and all before it are processed, for *)
(* every page size, whatever arrives meanwhile and however often the same  *)
(* archive is asked for at once.                                           *)
THEOREM NothingSkipped == ReadSizes = {1} => (Spec => []NothingIsSkipped)
<1> SUFFICES ASSUME ReadSizes = {1} PROVE Spec => []NothingIsSkipped
  OBVIOUS
<1>1. QED
  BY SoundInit, SoundStep, CoveredInit, CoveredStep, PTL DEF Spec

-----------------------------------------------------------------------------
(* ArchiveIsFetched needs fairness; what follows is all of it that does    *)
(* not: a message that is owed is processed, or a request or a stanza is   *)
(* on its way that brings it or asks for it.                               *)

Asks(q, a, n) == \E i \in 1 .. Len(q) : q[i].jid = a /\ q[i].after < n

(* The message itself, or the end of a page that the client goes on from.  *)
IsBroughtBy(stanza, a, n) ==
    \/ stanza = Message(a, n)
    \/ stanza.kind = "fin" /\ stanza.jid = a /\ ~ stanza.complete /\ stanza.last < n
Brings(w, a, n) == \E i \in 1 .. Len(w) : IsBroughtBy(w[i], a, n)

IsComing(a, n) == n \in fetched[a] \/ Asks(requests, a, n) \/ Brings(wire, a, n)
OwedIsComing == \A a \in Archives : \A n \in owed[a] : IsComing(a, n)
OwedIsThere == \A a \in Archives : owed[a] \subseteq 1 .. size[a]

LEMMA AppendAsks ==
  ASSUME NEW q \in Seq(Request), NEW new \in Request, NEW a, NEW n
  PROVE  /\ Asks(q, a, n) => Asks(Append(q, new), a, n)
         /\ new.jid = a /\ new.after < n => Asks(Append(q, new), a, n)
<1>1. /\ Len(Append(q, new)) = Len(q) + 1 /\ Len(q) \in Nat
      /\ \A i \in 1 .. Len(q) : Append(q, new)[i] = q[i]
      /\ Append(q, new)[Len(q) + 1] = new
  BY AppendProperties
<1>2. /\ \A i \in 1 .. Len(q) : i \in 1 .. Len(Append(q, new))
      /\ Len(q) + 1 \in 1 .. Len(Append(q, new))
  BY <1>1
<1>3. QED
  BY <1>1, <1>2 DEF Asks

LEMMA TailAsks ==
  ASSUME NEW q \in Seq(Request), q # <<>>, NEW a, NEW n, Asks(q, a, n)
  PROVE  Asks(Tail(q), a, n) \/ (q[1].jid = a /\ q[1].after < n)
<1>1. PICK i \in 1 .. Len(q) : q[i].jid = a /\ q[i].after < n
  BY DEF Asks
<1>2. /\ Len(Tail(q)) = Len(q) - 1 /\ Len(q) \in Nat
      /\ \A j \in 1 .. Len(q) - 1 : Tail(q)[j] = q[j + 1]
  OBVIOUS
<1>3. CASE i # 1
  <2>1. i - 1 \in 1 .. Len(q) - 1 /\ (i - 1) + 1 = i
    BY <1>2, <1>3
  <2>2. Tail(q)[i - 1] = q[i]
    BY <1>2, <2>1
  <2>3. QED
    BY <1>1, <1>2, <2>1, <2>2 DEF Asks
<1>4. QED
  BY <1>1, <1>3

LEMMA ReadBrings ==
  ASSUME TypeOK, 1 \in 1 .. Len(wire), NEW a, NEW n, Brings(wire, a, n)
  PROVE  Brings(SubSeq(wire, 2, Len(wire)), a, n) \/ IsBroughtBy(wire[1], a, n)
<1>1. PICK i \in 1 .. Len(wire) : IsBroughtBy(wire[i], a, n)
  BY DEF Brings
<1>2. /\ Len(SubSeq(wire, 1 + 1, Len(wire))) = Len(wire) - 1
      /\ \A j \in 1 .. Len(wire) - 1 : SubSeq(wire, 1 + 1, Len(wire))[j] = wire[j + 1]
  BY ReadProperties
<1>3. 1 + 1 = 2 /\ Len(wire) \in Nat
  BY DEF TypeOK
<1>4. CASE i # 1
  <2>1. i - 1 \in 1 .. Len(wire) - 1 /\ (i - 1) + 1 = i
    BY <1>3, <1>4
  <2>2. SubSeq(wire, 2, Len(wire))[i - 1] = wire[i]
    BY <1>2, <1>3, <2>1
  <2>3. Len(SubSeq(wire, 2, Len(wire))) = Len(wire) - 1
    BY <1>2, <1>3
  <2>4. QED
    BY <1>1, <2>1, <2>2, <2>3 DEF Brings
<1>5. QED
  BY <1>1, <1>4

LEMMA JoinedBrings ==
  ASSUME NEW w \in Seq(Stanza), NEW p \in Seq(Stanza), NEW a, NEW n,
         Brings(w, a, n) \/ Brings(p, a, n)
  PROVE  Brings(w \o p, a, n)
<1>1. /\ Len(w \o p) = Len(w) + Len(p) /\ Len(w) \in Nat /\ Len(p) \in Nat
      /\ \A i \in 1 .. Len(w) : (w \o p)[i] = w[i]
      /\ \A i \in 1 .. Len(p) : (w \o p)[Len(w) + i] = p[i]
  <2>1. Len(w \o p) = Len(w) + Len(p) /\ Len(w) \in Nat /\ Len(p) \in Nat
    OBVIOUS
  <2>2. \A i \in 1 .. Len(w) + Len(p) :
           (w \o p)[i] = IF i <= Len(w) THEN w[i] ELSE p[i - Len(w)]
    OBVIOUS
  <2>3. ASSUME NEW i \in 1 .. Len(p) PROVE (w \o p)[Len(w) + i] = p[i]
    <3>1. /\ Len(w) + i \in 1 .. Len(w) + Len(p)
          /\ ~ (Len(w) + i <= Len(w)) /\ (Len(w) + i) - Len(w) = i
      BY <2>1
    <3>2. QED
      BY <2>2, <3>1
  <2>4. ASSUME NEW i \in 1 .. Len(w) PROVE (w \o p)[i] = w[i]
    BY <2>1, <2>2
  <2>5. QED
    BY <2>1, <2>3, <2>4
<1>2. /\ \A i \in 1 .. Len(w) : i \in 1 .. Len(w \o p)
      /\ \A i \in 1 .. Len(p) : Len(w) + i \in 1 .. Len(w \o p)
  BY <1>1
<1>3. QED
  BY <1>1, <1>2 DEF Brings

(* A page brings every message after the one it was asked for: those it    *)
(* holds, and the others with its end, which is not that of the archive.   *)
LEMMA PageBrings ==
  ASSUME NEW a \in Archives, size \in [Archives -> 0 .. MaxMessages],
         NEW after \in Nat, after <= size[a], NEW n \in 1 .. size[a], after < n
  PROVE  Page(a, after) \in Seq(Stanza) /\ Brings(Page(a, after), a, n)
<1>1. PICK last \in after .. size[a] :
         /\ Page(a, after) \in Seq(Stanza)
         /\ Len(Page(a, after)) = last - after + 1
         /\ \A i \in 1 .. last - after : Page(a, after)[i] = Message(a, after + i)
         /\ Page(a, after)[last - after + 1] = Fin(a, last, size[a])
  BY PageProperties
<1>2. size[a] \in Nat /\ last \in Nat /\ n \in Nat
  <2>1. size[a] \in Nat
    OBVIOUS
  <2>2. QED
    BY <2>1
<1>3. CASE n <= last
  <2>1. n - after \in 1 .. last - after /\ after + (n - after) = n
    BY <1>2, <1>3
  <2>2. Page(a, after)[n - after] = Message(a, n)
    BY <1>1, <2>1
  <2>3. n - after \in 1 .. Len(Page(a, after))
    BY <1>1, <1>2, <2>1
  <2>4. QED
    BY <1>1, <2>2, <2>3 DEF Brings, IsBroughtBy
<1>4. CASE last < n
  <2>1. last # size[a] /\ last - after + 1 \in 1 .. Len(Page(a, after))
    BY <1>1, <1>2, <1>4
  <2>2. IsBroughtBy(Page(a, after)[last - after + 1], a, n)
    <3>1. /\ Fin(a, last, size[a]).kind = "fin" /\ Fin(a, last, size[a]).jid = a
          /\ Fin(a, last, size[a]).last = last
          /\ Fin(a, last, size[a]).complete <=> last = size[a]
      BY DEF Fin
    <3>2. IsBroughtBy(Fin(a, last, size[a]), a, n)
      BY <1>4, <2>1, <3>1 DEF IsBroughtBy
    <3>3. QED
      BY <1>1, <3>2
  <2>3. QED
    BY <1>1, <2>1, <2>2 DEF Brings
<1>5. QED
  BY <1>2, <1>3, <1>4

LEMMA ComingInit == Init => OwedIsThere /\ OwedIsComing
BY DEF Init, OwedIsThere, OwedIsComing

(* Another archive is asked for, or the same one again.                    *)
LEMMA RequestComes ==
  ASSUME Sound, OwedIsThere, OwedIsComing, UNCHANGED <<fetched, wire, size>>,
         NEW jid \in Archives, NEW has \in BOOLEAN, RequestArchiveForJid(jid, has)
  PROVE  OwedIsThere' /\ OwedIsComing'
<1> DEFINE new == [jid |-> jid, after |-> 0]
<1>0. /\ requests \in Seq(Request) /\ new \in Request
      /\ size \in [Archives -> 0 .. MaxMessages]
      /\ owed \in [Archives -> SUBSET (1 .. MaxMessages)]
  BY DEF Sound, TypeOK, Request
<1>1. CASE UNCHANGED <<requests, owed>>
  BY <1>1 DEF OwedIsThere, OwedIsComing, IsComing
<1>2. CASE /\ requests' = Append(requests, new)
           /\ owed' = [owed EXCEPT ![jid] = 1 .. size[jid]]
  <2>1. \A a \in Archives : owed'[a] = IF a = jid THEN 1 .. size[a] ELSE owed[a]
    BY <1>0, <1>2
  <2>2. OwedIsThere'
    BY <2>1 DEF OwedIsThere
  <2>3. ASSUME NEW a \in Archives, NEW n \in owed'[a] PROVE IsComing(a, n)'
    <3>1. CASE a = jid
      <4>1. n \in 1 .. size[a] /\ size[a] \in Nat
        BY <1>0, <2>1, <3>1
      <4>2. new.jid = a /\ new.after < n
        BY <3>1, <4>1
      <4>3. QED
        BY <1>0, <1>2, <4>2, AppendAsks DEF IsComing
    <3>2. CASE a # jid
      <4>1. IsComing(a, n)
        BY <2>1, <3>2 DEF OwedIsComing
      <4>2. QED
        BY <1>0, <1>2, <4>1, AppendAsks DEF IsComing
    <3>3. QED
      BY <3>1, <3>2
  <2>4. QED
    BY <2>2, <2>3 DEF OwedIsComing
<1>3. QED
  BY <1>1, <1>2 DEF RequestArchiveForJid

(* A stanza that is read does what it was on its way for.                  *)
LEMMA ReadComes ==
  ASSUME ReadSizes = {1}, Anonymous = {}, Sound, OwedIsThere, OwedIsComing, HandleDataReceived
  PROVE  OwedIsThere' /\ OwedIsComing'
<1>1. /\ 1 \in 1 .. Len(wire) /\ wire' = SubSeq(wire, 2, Len(wire))
      /\ LET stanza == FirstStanza(SubSeq(wire, 1, 1))
         IN  IF stanza.kind = "fin" THEN ProcessFinIq(stanza)
             ELSE ProcessMamMessage(stanza)
      /\ UNCHANGED <<owed, size>>
  BY DEF HandleDataReceived
<1>2. /\ wire[1] \in Stanza
      /\ IF wire[1].kind = "fin" THEN ProcessFinIq(wire[1]) ELSE ProcessMamMessage(wire[1])
  <2>1. FirstStanza(SubSeq(wire, 1, 1)) = wire[1] /\ wire[1] \in Stanza
    BY <1>1, ReadProperties DEF Sound
  <2>2. QED
    BY <1>1, <2>1
<1>3. requests \in Seq(Request) /\ fetched \in [Archives -> SUBSET (1 .. MaxMessages)]
  BY DEF Sound, TypeOK
<1> DEFINE new == [jid |-> wire[1].jid, after |-> wire[1].last]
<1>4. CASE wire[1].kind = "fin" /\ ~ wire[1].complete
  <2>1. requests' = Append(requests, new) /\ fetched' = fetched
    BY <1>2, <1>4 DEF ProcessFinIq, AsksOn
  <2>2. new \in Request
    <3>1. wire[1].jid \in Archives /\ wire[1].last \in Nat
      BY <1>2, <1>4 DEF Stanza
    <3>2. wire[1].last < size[wire[1].jid] /\ size[wire[1].jid] \in 0 .. MaxMessages
      BY <1>1, <1>4, <3>1 DEF Sound, Within, TypeOK
    <3>3. QED
      BY <3>1, <3>2 DEF Request
  <2>3. ASSUME NEW a, NEW n, IsComing(a, n) PROVE IsComing(a, n)'
    <3>1. IsBroughtBy(wire[1], a, n) => new.jid = a /\ new.after < n
      BY <1>4 DEF IsBroughtBy, Message
    <3>2. Asks(requests, a, n) \/ IsBroughtBy(wire[1], a, n) => Asks(requests', a, n)
      BY <1>3, <2>1, <2>2, <3>1, AppendAsks
    <3>3. Brings(wire, a, n) => Brings(wire', a, n) \/ IsBroughtBy(wire[1], a, n)
      BY <1>1, ReadBrings DEF Sound
    <3>4. QED
      BY <2>1, <2>3, <3>2, <3>3 DEF IsComing
  <2>4. QED
    BY <1>1, <2>3 DEF OwedIsThere, OwedIsComing
<1>5. CASE wire[1].kind = "fin" /\ wire[1].complete
  <2>1. requests' = requests /\ fetched' = fetched
    BY <1>2, <1>5 DEF ProcessFinIq, AsksOn
  <2>2. ASSUME NEW a, NEW n, IsComing(a, n) PROVE IsComing(a, n)'
    <3>1. ~IsBroughtBy(wire[1], a, n)
      BY <1>5 DEF IsBroughtBy, Message
    <3>2. Brings(wire, a, n) => Brings(wire', a, n)
      BY <1>1, <3>1, ReadBrings DEF Sound
    <3>3. QED
      BY <2>1, <2>2, <3>2 DEF IsComing
  <2>3. QED
    BY <1>1, <2>2 DEF OwedIsThere, OwedIsComing
<1>6. CASE wire[1].kind # "fin"
  <2>1. /\ requests' = requests
        /\ fetched' = [fetched EXCEPT ![wire[1].jid] = @ \cup {wire[1].n}]
    BY <1>2, <1>6 DEF ProcessMamMessage
  <2>2. ASSUME NEW a \in Archives, NEW n, IsComing(a, n) PROVE IsComing(a, n)'
    <3>1. fetched'[a] = IF a = wire[1].jid THEN fetched[a] \cup {wire[1].n} ELSE fetched[a]
      BY <1>3, <2>1
    <3>2. IsBroughtBy(wire[1], a, n) => a = wire[1].jid /\ n = wire[1].n
      BY <1>6 DEF IsBroughtBy, Message
    <3>3. Brings(wire, a, n) => Brings(wire', a, n) \/ IsBroughtBy(wire[1], a, n)
      BY <1>1, ReadBrings DEF Sound
    <3>4. QED
      BY <2>1, <2>2, <3>1, <3>2, <3>3 DEF IsComing
  <2>3. QED
    BY <1>1, <2>2 DEF OwedIsThere, OwedIsComing
<1>7. QED
  BY <1>4, <1>5, <1>6

(* A request is answered by what it asked for.                             *)
LEMMA AnswerComes ==
  ASSUME Sound, OwedIsThere, OwedIsComing, Answer
  PROVE  OwedIsThere' /\ OwedIsComing'
<1> DEFINE first == requests[1]
           page == Page(first.jid, first.after)
<1>1. /\ requests # <<>> /\ wire' = wire \o page /\ requests' = Tail(requests)
      /\ UNCHANGED <<size, fetched, owed>>
  BY DEF Answer
<1>2. /\ requests \in Seq(Request) /\ wire \in Seq(Stanza)
      /\ size \in [Archives -> 0 .. MaxMessages]
      /\ owed \in [Archives -> SUBSET (1 .. MaxMessages)]
  BY DEF Sound, TypeOK
<1>3. 1 \in 1 .. Len(requests) /\ first \in Request
  BY <1>1, <1>2
<1>4. first.jid \in Archives /\ first.after \in Nat /\ first.after <= size[first.jid]
  BY <1>3 DEF Request, Sound, Within
<1>5. page \in Seq(Stanza)
  BY <1>2, <1>4, PageProperties
<1> HIDE DEF page
<1>6. ASSUME NEW a \in Archives, NEW n \in owed[a], IsComing(a, n) PROVE IsComing(a, n)'
  <2>1. Brings(wire, a, n) => Brings(wire', a, n)
    BY <1>1, <1>2, <1>5, JoinedBrings
  <2>2. CASE first.jid = a /\ first.after < n
    <3>1. n \in 1 .. size[a]
      BY <1>6 DEF OwedIsThere
    <3>2. Brings(page, a, n)
      BY <1>2, <1>4, <2>2, <3>1, PageBrings DEF page
    <3>3. QED
      BY <1>1, <1>2, <1>5, <3>2, JoinedBrings DEF IsComing
  <2>3. CASE ~ (first.jid = a /\ first.after < n)
    <3>1. Asks(requests, a, n) => Asks(requests', a, n)
      BY <1>1, <1>2, <2>3, TailAsks
    <3>2. QED
      BY <1>1, <1>6, <2>1, <3>1 DEF IsComing
  <2>4. QED
    BY <2>2, <2>3
<1>7. QED
  BY <1>1, <1>6 DEF OwedIsThere, OwedIsComing

LEMMA ComingStep ==
  ASSUME ReadSizes = {1}, Anonymous = {}, Sound, OwedIsThere, OwedIsComing, [Next]_vars
  PROVE  OwedIsThere' /\ OwedIsComing'
<1>1. CASE HandleDiscoServiceWalker
  <2>1. RequestArchiveForJid(Own, TRUE) /\ Own \in Archives
        /\ UNCHANGED <<fetched, wire, size>>
    BY <1>1 DEF HandleDiscoServiceWalker, SetServerHasFeatureMam, Archives
  <2>2. QED
    BY <2>1, RequestComes
<1>2. ASSUME NEW room \in Rooms, AddJidforArchiveQuery(room)
      PROVE  OwedIsThere' /\ OwedIsComing'
  <2>1. /\ RequestArchiveForJid(room, serverHasFeature) /\ room \in Archives
        /\ serverHasFeature \in BOOLEAN /\ UNCHANGED <<fetched, wire, size>>
    BY <1>2 DEF AddJidforArchiveQuery, Archives, Sound, TypeOK
  <2>2. QED
    BY <2>1, RequestComes
<1>3. ASSUME NEW jid \in Archives, Arrives(jid)
      PROVE  OwedIsThere' /\ OwedIsComing'
  <2>1. UNCHANGED <<requests, wire, fetched, owed>>
    BY <1>3 DEF Arrives
  <2>2. OwedIsThere'
    <3>1. \A a \in Archives : size[a] \in Nat /\ size'[a] \in {size[a], size[a] + 1}
      BY <1>3 DEF Arrives, Sound, TypeOK
    <3>2. \A a \in Archives : 1 .. size[a] \subseteq 1 .. size'[a]
      BY <3>1
    <3>3. QED
      BY <2>1, <3>2 DEF OwedIsThere
  <2>3. QED
    BY <2>1, <2>2 DEF OwedIsComing, IsComing
<1>4. CASE Disconnect
  BY <1>4 DEF Disconnect, OwedIsThere, OwedIsComing
<1>5. CASE UNCHANGED <<requests, wire, fetched, owed, size>>
  BY <1>5 DEF OwedIsThere, OwedIsComing, IsComing
<1>6. QED
  BY <1>1, <1>2, <1>3, <1>4, <1>5, ReadComes, AnswerComes DEF Next, vars, Connect

(* When every read from the socket returns one stanza and answers say      *)
(* where they are from, what an archive held when it was asked for is      *)
(* never forgotten: as long as the session lasts, something is on its way  *)
(* for every message that is owed.                                         *)
THEOREM OwedAlwaysComing ==
    ReadSizes = {1} /\ Anonymous = {} => (Spec => []OwedIsComing)
<1> SUFFICES ASSUME ReadSizes = {1}, Anonymous = {} PROVE Spec => []OwedIsComing
  OBVIOUS
<1>1. Sound /\ OwedIsThere /\ OwedIsComing /\ [Next]_vars => OwedIsThere' /\ OwedIsComing'
  BY ComingStep
<1>2. QED
  BY <1>1, SoundInit, SoundStep, ComingInit, PTL DEF Spec

-----------------------------------------------------------------------------
(* Contacts: the list of contacts and rooms.  Its sessions are those in    *)
(* which the archives are asked for, and its rooms are those with archives.*)
HIDE MamSyncAssumption DEF MamSyncAssumption

CONSTANTS People, StoredByOthers, Joins, MaxChanges

VARIABLES mucCollection, joining, asked, has, started, contacts,
          entering, occupied, leaving, away, joins, changes

List == INSTANCE Contacts

(* What Contacts assumes of its constants.                                 *)
ListAssumption ==
    /\ People \cap Rooms = {} /\ StoredByOthers \subseteq Seq(List!Bookmark)
    /\ Joins \in Nat /\ MaxChanges \in Nat

LEMMA LeastPlace ==
  ASSUME NEW S \in SUBSET Nat, S # {}
  PROVE  \E m \in S : \A n \in S : m <= n
<1> DEFINE R == {ss \in Nat \X Nat : ss[1] < ss[2]}
<1>1. IsWellFoundedOn(R, Nat)
  BY NatLessThanWellFounded DEF OpToRel
<1>2. PICK m \in S : \A n \in S : <<n, m>> \notin R
  BY <1>1, WFMin
<1>3. \A n \in S : m <= n
  <2> TAKE n \in S
  <2>1. n \in Nat /\ m \in Nat
    OBVIOUS
  <2>2. <<n, m>> \in Nat \X Nat /\ <<n, m>>[1] = n /\ <<n, m>>[2] = m
    BY <2>1
  <2>3. ~ (n < m)
    BY <1>2, <2>2
  <2>4. QED
    BY <2>1, <2>3
<1>4. QED
  BY <1>3

(* Removing the first bookmark of a room closes the gap.                   *)
LEMMA RemovedFirst ==
  ASSUME NEW s \in Seq(List!Bookmark), NEW room \in List!RoomsOf(s)
  PROVE  \E i \in 1 .. Len(s) :
            /\ s[i].room = room
            /\ List!WithoutFirst(s, room) \in Seq(List!Bookmark)
            /\ Len(List!WithoutFirst(s, room)) = Len(s) - 1
            /\ \A k \in 1 .. Len(s) - 1 :
                  List!WithoutFirst(s, room)[k] = IF k < i THEN s[k] ELSE s[k + 1]
<1> DEFINE I == {k \in 1 .. Len(s) : s[k].room = room}
           i == List!SelectInSeq(s, LAMBDA bookmark : bookmark.room = room)
<1>1. I # {} /\ \E k \in 1 .. Len(s) : s[k].room = room
  BY DEF List!RoomsOf
<1>2. i = List!Min(I)
  BY <1>1 DEF List!SelectInSeq
<1>3. \E m \in I : \A n \in I : m <= n
  <2>1. I \in SUBSET Nat
    OBVIOUS
  <2> HIDE DEF I
  <2>2. QED
    BY <1>1, <2>1, LeastPlace
<1>4. i \in I
  BY <1>2, <1>3 DEF List!Min
<1> HIDE DEF i
<1>5. i \in 1 .. Len(s) /\ s[i].room = room /\ Len(s) \in Nat
  BY <1>4
<1>6. List!WithoutFirst(s, room) = SubSeq(s, 1, i - 1) \o SubSeq(s, i + 1, Len(s))
  BY <1>1 DEF List!WithoutFirst, List!RemoveFirstMatch, List!RemoveAt, i
<1> DEFINE a == SubSeq(s, 1, i - 1)
           b == SubSeq(s, i + 1, Len(s))
<1>7. /\ a \in Seq(List!Bookmark) /\ Len(a) = i - 1
      /\ \A k \in 1 .. i - 1 : a[k] = s[k]
  <2>1. \A k \in 1 .. i - 1 : s[k] \in List!Bookmark
    BY <1>5
  <2>2. QED
    BY <1>5, <2>1, SubSeqProperties
<1>8. /\ b \in Seq(List!Bookmark) /\ Len(b) = Len(s) - i
      /\ \A k \in 1 .. Len(s) - i : b[k] = s[i + k]
  <2>1. \A k \in i + 1 .. Len(s) : s[k] \in List!Bookmark
    BY <1>5
  <2>2. QED
    BY <1>5, <2>1, SubSeqProperties
<1> HIDE DEF a, b
<1>9. /\ a \o b \in Seq(List!Bookmark) /\ Len(a \o b) = Len(s) - 1
      /\ \A k \in 1 .. Len(s) - 1 :
            (a \o b)[k] = IF k < i THEN s[k] ELSE s[k + 1]
  <2>1. /\ a \o b \in Seq(List!Bookmark) /\ Len(a \o b) = Len(a) + Len(b)
        /\ \A k \in 1 .. Len(a) + Len(b) :
              (a \o b)[k] = IF k <= Len(a) THEN a[k] ELSE b[k - Len(a)]
    BY <1>7, <1>8, ConcatProperties
  <2>2. Len(a) + Len(b) = Len(s) - 1
    BY <1>5, <1>7, <1>8
  <2>3. ASSUME NEW k \in 1 .. Len(s) - 1
        PROVE  (a \o b)[k] = IF k < i THEN s[k] ELSE s[k + 1]
    <3>1. (a \o b)[k] = IF k <= i - 1 THEN a[k] ELSE b[k - (i - 1)]
      BY <1>7, <2>1, <2>2
    <3>2. CASE k < i
      BY <1>5, <1>7, <3>1, <3>2
    <3>3. CASE ~ (k < i)
      <4>1. k - (i - 1) \in 1 .. Len(s) - i /\ i + (k - (i - 1)) = k + 1
        BY <1>5, <3>3
      <4>2. QED
        BY <1>5, <1>8, <3>1, <3>3, <4>1
    <3>4. QED
      BY <3>2, <3>3
  <2>4. QED
    BY <2>1, <2>2, <2>3
<1>10. QED
  BY <1>5, <1>6, <1>9 DEF a, b

LEMMA RoomsInSeq ==
  ASSUME NEW s \in Seq(List!Bookmark)
  PROVE  List!RoomsOf(s) \subseteq Rooms /\ List!RoomsToJoin(s) \subseteq List!RoomsOf(s)
<1>1. \A i \in DOMAIN s : s[i].room \in Rooms
  <2> TAKE i \in DOMAIN s
  <2>1. s[i] \in List!Bookmark
    OBVIOUS
  <2>2. QED
    BY <2>1 DEF List!Bookmark
<1>2. List!RoomsOf(s) \subseteq Rooms
  BY <1>1 DEF List!RoomsOf
<1>3. List!RoomsToJoin(s) \subseteq List!RoomsOf(s)
  BY DEF List!RoomsOf, List!RoomsToJoin
<1>4. QED
  BY <1>2, <1>3

(* Copies of one bookmark add its room.                                    *)
LEMMA AppendedRooms ==
  ASSUME NEW s \in Seq(List!Bookmark), NEW head \in Rooms, NEW n \in Nat \ {0}
  PROVE  LET t == s \o [k \in 1 .. n |-> [room |-> head, autojoin |-> TRUE]]
         IN  /\ t \in Seq(List!Bookmark)
             /\ List!RoomsOf(t) = List!RoomsOf(s) \cup {head}
             /\ List!RoomsToJoin(t) \subseteq List!RoomsToJoin(s) \cup {head}
<1> DEFINE bookmark == [room |-> head, autojoin |-> TRUE]
           added == [k \in 1 .. n |-> bookmark]
           t == s \o added
<1>1. bookmark \in List!Bookmark /\ bookmark.room = head
  BY DEF List!Bookmark
<1> HIDE DEF bookmark
<1>2. added \in Seq(List!Bookmark) /\ Len(added) = n
  BY <1>1
<1>3. \A k \in 1 .. n : added[k] = bookmark
  OBVIOUS
<1> HIDE DEF added
<1>4. /\ t \in Seq(List!Bookmark) /\ Len(t) = Len(s) + n
      /\ \A k \in 1 .. Len(s) + n :
            t[k] = IF k <= Len(s) THEN s[k] ELSE added[k - Len(s)]
  BY <1>2, ConcatProperties
<1> HIDE DEF t
<1>5. Len(s) \in Nat /\ DOMAIN s = 1 .. Len(s) /\ DOMAIN t = 1 .. Len(s) + n
  BY <1>4
<1>6. \A k \in DOMAIN t : \/ k \in DOMAIN s /\ t[k] = s[k]
                         \/ t[k] = bookmark
  <2> TAKE k \in DOMAIN t
  <2>1. CASE k <= Len(s)
    BY <1>4, <1>5, <2>1
  <2>2. CASE ~ (k <= Len(s))
    <3>1. k - Len(s) \in 1 .. n /\ t[k] = added[k - Len(s)]
      BY <1>4, <1>5, <2>2
    <3>2. QED
      BY <1>3, <3>1
  <2>3. QED
    BY <2>1, <2>2
<1>7. \A k \in DOMAIN s : k \in DOMAIN t /\ t[k] = s[k]
  BY <1>4, <1>5
<1>8. Len(s) + 1 \in DOMAIN t /\ t[Len(s) + 1] = bookmark
  <2>1. Len(s) + 1 \in 1 .. Len(s) + n /\ ~ (Len(s) + 1 <= Len(s)) /\ (Len(s) + 1) - Len(s) = 1
    BY <1>5
  <2>2. t[Len(s) + 1] = added[1]
    BY <1>4, <2>1
  <2>3. QED
    BY <1>3, <1>5, <2>1, <2>2
<1>9. List!RoomsOf(t) = List!RoomsOf(s) \cup {head}
  <2>1. \A r \in List!RoomsOf(t) : r \in List!RoomsOf(s) \cup {head}
    BY <1>1, <1>6 DEF List!RoomsOf
  <2>2. \A r \in List!RoomsOf(s) : r \in List!RoomsOf(t)
    BY <1>7 DEF List!RoomsOf
  <2>3. head \in List!RoomsOf(t)
    BY <1>1, <1>8 DEF List!RoomsOf
  <2>4. QED
    BY <2>1, <2>2, <2>3
<1>10. \A r \in List!RoomsToJoin(t) : r \in List!RoomsToJoin(s) \cup {head}
  BY <1>1, <1>6 DEF List!RoomsToJoin
<1>11. QED
  BY <1>4, <1>9, <1>10 DEF t, added, bookmark

(* Only the room itself may go, when one of its bookmarks is removed, and  *)
(* it does not go if it has another.                                       *)
LEMMA RemovedRooms ==
  ASSUME NEW s \in Seq(List!Bookmark), NEW room \in List!RoomsOf(s)
  PROVE  LET r == List!WithoutFirst(s, room)
         IN  /\ r \in Seq(List!Bookmark)
             /\ List!RoomsOf(r) \subseteq List!RoomsOf(s)
             /\ List!RoomsOf(s) \ {room} \subseteq List!RoomsOf(r)
             /\ List!RoomsToJoin(r) \subseteq List!RoomsToJoin(s)
             /\ room \in List!RoomsOf(r) => List!BookmarkedTwice(s, room)
<1> DEFINE r == List!WithoutFirst(s, room)
<1>1. PICK i \in 1 .. Len(s) :
         /\ s[i].room = room /\ r \in Seq(List!Bookmark) /\ Len(r) = Len(s) - 1
         /\ \A k \in 1 .. Len(s) - 1 : r[k] = IF k < i THEN s[k] ELSE s[k + 1]
  BY RemovedFirst
<1> HIDE DEF r
<1>2. DOMAIN s = 1 .. Len(s) /\ DOMAIN r = 1 .. Len(s) - 1 /\ Len(s) \in Nat
  BY <1>1
<1>3. ASSUME NEW k \in DOMAIN r PROVE \E j \in DOMAIN s : j # i /\ s[j] = r[k]
  <2>1. k \in 1 .. Len(s) /\ k + 1 \in 1 .. Len(s) /\ i \in Nat
    BY <1>2
  <2>2. CASE k < i
    BY <1>1, <1>2, <2>1, <2>2
  <2>3. CASE ~ (k < i)
    <3>1. k + 1 # i /\ r[k] = s[k + 1]
      BY <1>1, <1>2, <2>1, <2>3
    <3>2. QED
      BY <1>2, <2>1, <3>1
  <2>4. QED
    BY <2>2, <2>3
<1>4. ASSUME NEW j \in DOMAIN s, s[j].room # room PROVE \E k \in DOMAIN r : r[k] = s[j]
  <2>1. j # i /\ j \in 1 .. Len(s)
    BY <1>1, <1>2, <1>4
  <2>2. CASE j < i
    BY <1>1, <1>2, <2>1, <2>2
  <2>3. CASE j > i
    <3>1. j - 1 \in 1 .. Len(s) - 1 /\ ~ (j - 1 < i) /\ (j - 1) + 1 = j
      BY <1>1, <1>2, <2>1, <2>3
    <3>2. r[j - 1] = s[(j - 1) + 1]
      BY <1>1, <3>1
    <3>3. QED
      BY <1>2, <3>1, <3>2
  <2>4. QED
    BY <1>1, <1>2, <2>1, <2>2, <2>3
<1>5. \A x \in List!RoomsOf(r) : x \in List!RoomsOf(s)
  BY <1>3 DEF List!RoomsOf
<1>6. \A x \in List!RoomsOf(s) \ {room} : x \in List!RoomsOf(r)
  BY <1>4 DEF List!RoomsOf
<1>7. \A x \in List!RoomsToJoin(r) : x \in List!RoomsToJoin(s)
  BY <1>3 DEF List!RoomsToJoin
<1>8. ASSUME room \in List!RoomsOf(r) PROVE List!BookmarkedTwice(s, room)
  <2>1. PICK k \in DOMAIN r : r[k].room = room
    BY <1>8 DEF List!RoomsOf
  <2>2. PICK j \in DOMAIN s : j # i /\ s[j] = r[k]
    BY <1>3
  <2>3. i \in DOMAIN s /\ s[i].room = room /\ s[j].room = room
    BY <1>1, <1>2, <2>1, <2>2
  <2>4. QED
    BY <2>2, <2>3 DEF List!BookmarkedTwice
<1>9. QED
  BY <1>1, <1>5, <1>6, <1>7, <1>8 DEF r

-----------------------------------------------------------------------------
(* The list.                                                               *)

IsList(l) == DOMAIN l \subseteq List!Jids /\ l \in [DOMAIN l -> BOOLEAN]

(* Whoever is added gets in, and who was there keeps the entry.            *)
LEMMA Entries ==
  ASSUME NEW l, IsList(l), NEW jids \in SUBSET List!Jids, NEW group \in BOOLEAN
  PROVE  LET u == List!WithEntries(l, jids, group)
         IN  /\ IsList(u)
             /\ DOMAIN u = DOMAIN l \cup jids
             /\ \A j \in DOMAIN l : u[j] = l[j]
             /\ \A j \in jids \ DOMAIN l : u[j] = group
<1> DEFINE u == List!WithEntries(l, jids, group)
<1>1. u = [j \in DOMAIN l \cup jids |-> IF j \in DOMAIN l THEN l[j] ELSE group]
  BY DEF List!WithEntries
<1> HIDE DEF u
<1>2. /\ DOMAIN u = DOMAIN l \cup jids
      /\ \A j \in DOMAIN l : u[j] = l[j]
      /\ \A j \in jids \ DOMAIN l : u[j] = group
  BY <1>1
<1>3. \A j \in DOMAIN u : u[j] \in BOOLEAN
  BY <1>2 DEF IsList
<1>4. u \in [DOMAIN u -> BOOLEAN]
  BY <1>1, <1>2, <1>3
<1>5. IsList(u)
  BY <1>2, <1>4 DEF IsList
<1>6. QED
  BY <1>2, <1>5 DEF u

LEMMA Without ==
  ASSUME NEW l, NEW jid
  PROVE  /\ DOMAIN List!WithoutEntry(l, jid) = DOMAIN l \ {jid}
         /\ \A j \in DOMAIN l \ {jid} : List!WithoutEntry(l, jid)[j] = l[j]
         /\ IsList(l) => IsList(List!WithoutEntry(l, jid))
<1>1. /\ DOMAIN List!WithoutEntry(l, jid) = DOMAIN l \ {jid}
      /\ \A j \in DOMAIN l \ {jid} : List!WithoutEntry(l, jid)[j] = l[j]
  BY DEF List!WithoutEntry
<1>2. IsList(l) => IsList(List!WithoutEntry(l, jid))
  BY DEF IsList, List!WithoutEntry
<1>3. QED
  BY <1>1, <1>2

(* The inductive invariant: types, to which belongs that a MUC that waits  *)
(* is kept; who the roster told of is listed; and a listed room is         *)
(* bookmarked, for which nothing is bookmarked before the bookmarks are in.*)
MembersOK == /\ mucCollection \in Seq(Rooms) /\ bookmarks \in Seq(List!Bookmark)
             /\ storage \in Seq(List!Bookmark)
             /\ told \subseteq People /\ contacts \subseteq People
             /\ asked \subseteq List!Lists /\ has \subseteq asked
             /\ started \in BOOLEAN /\ online \in BOOLEAN
             /\ joins \in 0 .. Joins /\ changes \in 0 .. MaxChanges
JoiningOK == /\ joining \in [Rooms -> Nat]
             /\ \A room \in Rooms : joining[room] > 0 => mucCollection # <<>>
RoomsOK == /\ entering \subseteq Rooms /\ occupied \subseteq Rooms
           /\ away \subseteq Rooms /\ leaving \subseteq List!Jids
NotYet == "bookmarks" \notin has => bookmarks = <<>>
Listed(l) == IsList(l) /\ told \subseteq DOMAIN l
Grouped(l) == \A j \in DOMAIN l : l[j] => j \in List!RoomsOf(bookmarks)

ListInv == /\ MembersOK /\ JoiningOK /\ RoomsOK /\ NotYet
           /\ Listed(roster) /\ Grouped(roster)

LEMMA EmptyList == \A l : l = <<>> => IsList(l) /\ DOMAIN l = {}
<1> SUFFICES ASSUME NEW l, l = <<>> PROVE IsList(l) /\ DOMAIN l = {}
  OBVIOUS
<1>1. l \in Seq({}) /\ Len(l) = 0
  OBVIOUS
<1>2. DOMAIN l = {} /\ l = [j \in DOMAIN l |-> l[j]]
  BY <1>1
<1>3. l \in [DOMAIN l -> BOOLEAN]
  BY <1>2
<1>4. QED
  BY <1>2, <1>3 DEF IsList

LEMMA NoneJoins == List!NoneJoining \in [Rooms -> Nat]
                   /\ \A room \in Rooms : ~ (List!NoneJoining[room] > 0)
BY DEF List!NoneJoining

LEMMA ListInit == ListAssumption /\ List!Init => ListInv
<1> SUFFICES ASSUME ListAssumption, List!Init PROVE ListInv
  OBVIOUS
<1>1. 0 \in 0 .. Joins /\ 0 \in 0 .. MaxChanges /\ storage \in Seq(List!Bookmark)
  BY DEF ListAssumption, List!Init
<1>2. <<>> \in Seq(Rooms) /\ <<>> \in Seq(List!Bookmark)
  OBVIOUS
<1>3. MembersOK
  BY <1>1, <1>2 DEF List!Init, MembersOK
<1>4. JoiningOK
  BY NoneJoins DEF List!Init, JoiningOK
<1>5. RoomsOK /\ NotYet
  BY DEF List!Init, RoomsOK, NotYet
<1>6. IsList(roster) /\ DOMAIN roster = {} /\ told = {}
  BY EmptyList DEF List!Init
<1>7. Listed(roster) /\ Grouped(roster)
  BY <1>6 DEF Listed, Grouped
<1>8. QED
  BY <1>3, <1>4, <1>5, <1>7 DEF ListInv

(* People and rooms that are added keep who is listed, and a listed room's *)
(* entry.                                                                  *)
LEMMA PeopleAdded ==
  ASSUME ListInv, NEW jids \in SUBSET List!Jids
  PROVE  LET l == List!AppendToRoster(roster, jids)
         IN  /\ Listed(l) /\ Grouped(l)
             /\ jids \subseteq DOMAIN l /\ DOMAIN roster \subseteq DOMAIN l
<1> DEFINE l == List!WithEntries(roster, jids, FALSE)
<1>1. /\ IsList(l) /\ DOMAIN l = DOMAIN roster \cup jids
      /\ \A j \in DOMAIN roster : l[j] = roster[j]
      /\ \A j \in jids \ DOMAIN roster : l[j] = FALSE
  BY Entries DEF ListInv, Listed
<1>2. l = List!AppendToRoster(roster, jids)
  BY DEF List!AppendToRoster
<1> HIDE DEF l
<1>3. Listed(l) /\ jids \subseteq DOMAIN l /\ DOMAIN roster \subseteq DOMAIN l
  BY <1>1 DEF ListInv, Listed
<1>4. Grouped(l)
  BY <1>1 DEF ListInv, Grouped
<1>5. QED
  BY <1>2, <1>3, <1>4

LEMMA RoomsAdded ==
  ASSUME ListInv, NEW rooms \in SUBSET Rooms
  PROVE  LET l == List!AddGroupsAsContacts(roster, rooms)
         IN  /\ Listed(l) /\ rooms \subseteq DOMAIN l /\ DOMAIN roster \subseteq DOMAIN l
             /\ \A j \in DOMAIN l : l[j] => j \in List!RoomsOf(bookmarks) \cup rooms
<1> DEFINE l == List!WithEntries(roster, rooms, TRUE)
<1>1. rooms \in SUBSET List!Jids
  BY DEF List!Jids
<1>2. /\ IsList(l) /\ DOMAIN l = DOMAIN roster \cup rooms
      /\ \A j \in DOMAIN roster : l[j] = roster[j]
  BY <1>1, Entries DEF ListInv, Listed
<1>3. l = List!AddGroupsAsContacts(roster, rooms)
  BY DEF List!AddGroupsAsContacts
<1> HIDE DEF l
<1>4. Listed(l) /\ rooms \subseteq DOMAIN l /\ DOMAIN roster \subseteq DOMAIN l
  BY <1>2 DEF ListInv, Listed
<1>5. \A j \in DOMAIN l : l[j] => j \in List!RoomsOf(bookmarks) \cup rooms
  BY <1>2 DEF ListInv, Grouped
<1>6. QED
  BY <1>3, <1>4, <1>5

(* What a step leaves alone.                                               *)
LEMMA ListKept ==
  ASSUME ListInv, UNCHANGED <<roster, bookmarks>>, told' \subseteq told
  PROVE  Listed(roster)' /\ Grouped(roster)'
BY DEF ListInv, Listed, Grouped, IsList

LEMMA PresenceOK ==
  ASSUME ListInv, NEW jid \in List!Jids, List!HandlePresenceChanged(jid)
  PROVE  ListInv' /\ DOMAIN roster \subseteq DOMAIN roster'
<1>1. /\ UNCHANGED <<mucCollection, joining, bookmarks, told, asked, has, started, storage,
                    contacts, online, entering, occupied, away, joins, changes>>
      /\ leaving' \subseteq leaving
      /\ roster' = List!AppendToRoster(roster, {jid})
  BY DEF List!HandlePresenceChanged, List!swiften, List!UpdateAvailability
<1>2. Listed(roster') /\ Grouped(roster') /\ DOMAIN roster \subseteq DOMAIN roster'
  BY <1>1, PeopleAdded
<1>3. Listed(roster)' /\ Grouped(roster)'
  BY <1>1, <1>2 DEF Listed, Grouped, IsList
<1>4. QED
  BY <1>1, <1>2, <1>3 DEF ListInv, MembersOK, JoiningOK, RoomsOK, NotYet

LEMMA RosterOK ==
  ASSUME ListInv,
         \/ List!HandleRosterReceived
         \/ \E jid \in People : List!HandleJidAdded(jid) \/ List!HandleJidUpdated(jid)
  PROVE  ListInv' /\ DOMAIN roster \subseteq DOMAIN roster'
<1>1. PICK jids \in SUBSET People :
         /\ roster' = List!AppendToRoster(roster, jids)
         /\ told' \subseteq told \cup jids \/ told' \subseteq jids
  <2>1. CASE List!HandleRosterReceived
    BY <2>1 DEF List!HandleRosterReceived, ListInv, MembersOK
  <2>2. ASSUME NEW jid \in People, List!HandleJidAdded(jid) \/ List!HandleJidUpdated(jid)
        PROVE  /\ roster' = List!AppendToRoster(roster, {jid})
               /\ told' \subseteq told \cup {jid}
    BY <2>2 DEF List!HandleJidAdded, List!HandleJidUpdated, List!swiften
  <2>3. \A jid \in People : {jid} \in SUBSET People
    OBVIOUS
  <2>4. QED
    BY <2>1, <2>2, <2>3
<1>2. /\ UNCHANGED <<mucCollection, joining, bookmarks, storage, contacts, asked, started,
                    online, entering, occupied, leaving, away, joins, changes>>
      /\ has' \subseteq asked /\ has \subseteq has'
  BY DEF List!HandleRosterReceived, List!HandleJidAdded, List!HandleJidUpdated, ListInv,
     MembersOK, List!swiften, List!presences
<1>3. /\ Listed(roster') /\ Grouped(roster')
      /\ jids \subseteq DOMAIN roster' /\ DOMAIN roster \subseteq DOMAIN roster'
  <2>1. jids \in SUBSET List!Jids
    BY DEF List!Jids
  <2>2. QED
    BY <1>1, <2>1, PeopleAdded
<1>4. Listed(roster)' /\ Grouped(roster)'
  BY <1>1, <1>2, <1>3 DEF Listed, Grouped, IsList
<1>5. told' \subseteq People
  BY <1>1 DEF ListInv, MembersOK
<1>6. QED
  BY <1>2, <1>3, <1>4, <1>5 DEF ListInv, MembersOK, JoiningOK, RoomsOK, NotYet

(* The handlers that remove an entry.                                      *)
LEMMA JidRemovedOK ==
  ASSUME ListInv, NEW jid \in People, List!HandleJidRemoved(jid)
  PROVE  ListInv' /\ DOMAIN roster \ {jid} \subseteq DOMAIN roster'
<1>1. /\ UNCHANGED <<mucCollection, joining, bookmarks, storage, contacts, asked, has, started,
                    online, entering, occupied, away, joins, changes>>
      /\ told' = told \ {jid} /\ roster' = List!WithoutEntry(roster, jid)
      /\ leaving' = leaving \cup {jid} /\ jid \in List!Jids
  BY DEF List!HandleJidRemoved, List!Jids
<1>2. /\ DOMAIN roster' = DOMAIN roster \ {jid}
      /\ \A j \in DOMAIN roster \ {jid} : roster'[j] = roster[j]
      /\ IsList(roster')
  BY <1>1, Without DEF ListInv, Listed
<1>3. Listed(roster)'
  BY <1>1, <1>2 DEF ListInv, Listed, IsList
<1>4. Grouped(roster)'
  BY <1>1, <1>2 DEF ListInv, Grouped
<1>5. QED
  BY <1>1, <1>2, <1>3, <1>4 DEF ListInv, MembersOK, JoiningOK, RoomsOK, NotYet

LEMMA RoomRemovedOK ==
  ASSUME ListAssumption, ListInv, NEW room \in Rooms, List!RemoveRoom(room)
  PROVE  ListInv' /\ DOMAIN roster \ {room} \subseteq DOMAIN roster'
<1>1. /\ UNCHANGED <<mucCollection, joining, told, asked, has, started, contacts, online, joins,
                    changes>>
      /\ roster' = List!WithoutEntry(roster, room)
      /\ occupied' \subseteq occupied /\ entering' \subseteq entering
      /\ leaving' \subseteq leaving \cup {room} /\ room \in List!Jids
      /\ away' \subseteq away \cup {room}
      /\ room \in List!RoomsOf(bookmarks)
      /\ bookmarks' = List!WithoutFirst(bookmarks, room)
      /\ storage' \in {storage, List!WithoutFirst(bookmarks, room)}
  BY DEF List!RemoveRoom, List!LeaveRoom, List!Jids
<1>2. /\ DOMAIN roster' = DOMAIN roster \ {room}
      /\ \A j \in DOMAIN roster \ {room} : roster'[j] = roster[j]
      /\ IsList(roster')
  BY <1>1, Without DEF ListInv, Listed
<1>3. /\ bookmarks' \in Seq(List!Bookmark)
      /\ List!RoomsOf(bookmarks) \ {room} \subseteq List!RoomsOf(bookmarks')
  BY <1>1, RemovedRooms DEF ListInv, MembersOK
<1>4. storage' \in Seq(List!Bookmark)
  BY <1>1, <1>3 DEF ListInv, MembersOK
<1>5. NotYet'
  <2>1. bookmarks # <<>>
    BY <1>1 DEF List!RoomsOf
  <2>2. QED
    BY <1>1, <2>1 DEF ListInv, NotYet
<1>6. Listed(roster)'
  BY <1>1, <1>2 DEF ListAssumption, ListInv, Listed, IsList, MembersOK
<1>7. Grouped(roster)'
  BY <1>2, <1>3 DEF ListInv, Grouped, List!RoomsOf
<1>8. MembersOK' /\ JoiningOK' /\ RoomsOK'
  BY <1>1, <1>3, <1>4 DEF ListInv, MembersOK, JoiningOK, RoomsOK
<1>9. QED
  BY <1>2, <1>5, <1>6, <1>7, <1>8 DEF ListInv

(* Those that add rooms.                                                   *)
LEMMA BookmarksReadyOK ==
  ASSUME ListInv, List!HandleBookmarksReady
  PROVE  ListInv' /\ List!RoomsOf(bookmarks') \subseteq DOMAIN roster'
<1>1. /\ UNCHANGED <<mucCollection, joining, told, asked, started, storage, contacts, online,
                    occupied, leaving, joins, changes>>
      /\ "bookmarks" \in asked \ has /\ has' = has \cup {"bookmarks"}
      /\ bookmarks' = storage /\ entering' = entering \cup List!RoomsToJoin(storage)
      /\ away' \subseteq away
      /\ roster' = List!AddGroupsAsContacts(roster, List!RoomsOf(storage))
  BY DEF List!HandleBookmarksReady
<1>2. List!RoomsOf(storage) \in SUBSET Rooms /\ List!RoomsToJoin(storage) \in SUBSET Rooms
  BY RoomsInSeq DEF ListInv, MembersOK
<1>3. List!RoomsOf(bookmarks) = {}
  BY <1>1 DEF ListInv, NotYet, List!RoomsOf
<1>4. /\ Listed(roster') /\ List!RoomsOf(storage) \subseteq DOMAIN roster'
      /\ \A j \in DOMAIN roster' : roster'[j] => j \in List!RoomsOf(storage)
  BY <1>1, <1>2, <1>3, RoomsAdded
<1>5. List!RoomsOf(bookmarks') = List!RoomsOf(storage)
  BY <1>1 DEF List!RoomsOf
<1>6. Listed(roster)' /\ Grouped(roster)'
  BY <1>1, <1>4, <1>5 DEF Listed, Grouped, IsList, List!RoomsOf
<1>7. MembersOK' /\ JoiningOK'
  BY <1>1 DEF ListInv, MembersOK, JoiningOK
<1>8. RoomsOK' /\ NotYet'
  BY <1>1, <1>2 DEF ListInv, RoomsOK, NotYet
<1>9. QED
  BY <1>4, <1>5, <1>6, <1>7, <1>8 DEF ListInv

LEMMA AddRoomOK ==
  ASSUME ListAssumption, ListInv, NEW room \in Rooms, List!AddRoom(room)
  PROVE  ListInv'
<1>1. /\ UNCHANGED <<roster, bookmarks, told, asked, has, started, storage, contacts, online,
                    occupied, leaving, changes>>
      /\ joins' = joins + 1 /\ joins < Joins
      /\ entering' \subseteq entering \cup {room} /\ away' \subseteq away
      /\ \/ UNCHANGED <<mucCollection, joining>>
         \/ /\ mucCollection' = Append(mucCollection, room)
            /\ joining' = [joining EXCEPT ![room] = @ + 1]
  BY DEF List!AddRoom, List!swiften
<1>2. joins' \in 0 .. Joins
  BY <1>1 DEF ListAssumption, ListInv, MembersOK
<1>3. mucCollection' \in Seq(Rooms) /\ JoiningOK'
  <2>1. /\ Append(mucCollection, room) \in Seq(Rooms)
        /\ Append(mucCollection, room) # <<>>
    BY DEF ListInv, MembersOK
  <2>2. [joining EXCEPT ![room] = @ + 1] \in [Rooms -> Nat]
    BY DEF ListInv, JoiningOK
  <2>3. QED
    BY <1>1, <2>1, <2>2 DEF ListInv, MembersOK, JoiningOK
<1>4. MembersOK'
  BY <1>1, <1>2, <1>3 DEF ListInv, MembersOK
<1>5. RoomsOK' /\ NotYet'
  BY <1>1 DEF ListInv, RoomsOK, NotYet
<1>6. Listed(roster)' /\ Grouped(roster)'
  BY <1>1, ListKept
<1>7. QED
  BY <1>3, <1>4, <1>5, <1>6 DEF ListInv

(* The room that is bookmarked is one that was joined.                     *)
LEMMA JoinCompleteOK ==
  ASSUME ListInv, NEW room \in Rooms, joining[room] > 0, "bookmarks" \in has,
         List!HandleJoinComplete(room, joining[room]),
         UNCHANGED <<mucCollection, told, has>>
  PROVE  /\ bookmarks' \in Seq(List!Bookmark) /\ storage' \in Seq(List!Bookmark)
         /\ entering' \subseteq Rooms /\ away' \subseteq Rooms /\ NotYet'
         /\ Listed(roster)' /\ Grouped(roster)'
         /\ List!RoomsOf(bookmarks') \subseteq List!RoomsOf(bookmarks) \cup DOMAIN roster'
         /\ DOMAIN roster \subseteq DOMAIN roster'
         /\ List!RoomsToJoin(bookmarks') \ entering' \subseteq List!RoomsToJoin(bookmarks)
         /\ entering \ {room} \subseteq entering' /\ away \ entering' \subseteq away'
<1> DEFINE head == Head(mucCollection)
           after == bookmarks \o
                       [k \in 1 .. joining[room] |-> [room |-> head, autojoin |-> TRUE]]
<1>1. head \in Rooms /\ joining[room] \in Nat \ {0}
  BY DEF ListInv, MembersOK, JoiningOK
<1>2. /\ bookmarks' = after /\ storage' = after
      /\ entering' = (entering \ {room}) \cup {head} /\ away' = away \ {head}
      /\ roster' = List!AddGroupsAsContacts(roster, {head})
  BY DEF List!HandleJoinComplete, List!HandleBookmarkAdded
<1> HIDE DEF head
<1>3. /\ after \in Seq(List!Bookmark)
      /\ List!RoomsOf(after) = List!RoomsOf(bookmarks) \cup {head}
      /\ List!RoomsToJoin(after) \subseteq List!RoomsToJoin(bookmarks) \cup {head}
  BY <1>1, AppendedRooms DEF ListInv, MembersOK
<1> HIDE DEF after
<1>4. {head} \in SUBSET Rooms
  BY <1>1
<1>5. /\ Listed(roster') /\ head \in DOMAIN roster' /\ DOMAIN roster \subseteq DOMAIN roster'
      /\ \A j \in DOMAIN roster' : roster'[j] => j \in List!RoomsOf(bookmarks) \cup {head}
  BY <1>2, <1>4, RoomsAdded
<1>6. /\ List!RoomsOf(bookmarks') = List!RoomsOf(after)
      /\ List!RoomsToJoin(bookmarks') = List!RoomsToJoin(after)
  BY <1>2 DEF List!RoomsOf, List!RoomsToJoin
<1>7. Listed(roster)'
  BY <1>5 DEF Listed, IsList
<1>8. Grouped(roster)'
  BY <1>3, <1>5, <1>6 DEF Grouped, List!RoomsOf
<1>9. NotYet' /\ entering' \subseteq Rooms /\ away' \subseteq Rooms
  BY <1>2, <1>4 DEF ListInv, NotYet, RoomsOK
<1>10. /\ List!RoomsOf(bookmarks') \subseteq List!RoomsOf(bookmarks) \cup DOMAIN roster'
       /\ List!RoomsToJoin(bookmarks') \ entering' \subseteq List!RoomsToJoin(bookmarks)
  BY <1>2, <1>3, <1>5, <1>6
<1>11. entering \ {room} \subseteq entering' /\ away \ entering' \subseteq away'
  BY <1>2
<1>12. QED
  BY <1>2, <1>3, <1>5, <1>7, <1>8, <1>9, <1>10, <1>11

LEMMA EnteredOK ==
  ASSUME ListInv, NEW room \in Rooms, List!Entered(room)
  PROVE  /\ ListInv'
         /\ List!RoomsOf(bookmarks') \subseteq List!RoomsOf(bookmarks) \cup DOMAIN roster'
         /\ DOMAIN roster \subseteq DOMAIN roster'
<1>1. /\ UNCHANGED <<mucCollection, told, asked, has, started, contacts, online, leaving, joins,
                    changes>>
      /\ occupied' = occupied \cup {room} /\ joining' = [joining EXCEPT ![room] = 0]
  BY DEF List!Entered
<1>2. JoiningOK'
  BY <1>1 DEF ListInv, JoiningOK
<1>3. CASE joining[room] > 0 /\ "bookmarks" \in has
  <2>1. List!HandleJoinComplete(room, joining[room])
    BY <1>3 DEF List!Entered
  <2>2. /\ bookmarks' \in Seq(List!Bookmark) /\ storage' \in Seq(List!Bookmark)
        /\ entering' \subseteq Rooms /\ away' \subseteq Rooms /\ NotYet'
        /\ Listed(roster)' /\ Grouped(roster)'
        /\ List!RoomsOf(bookmarks') \subseteq List!RoomsOf(bookmarks) \cup DOMAIN roster'
        /\ DOMAIN roster \subseteq DOMAIN roster'
    BY <1>1, <1>3, <2>1, JoinCompleteOK
  <2>3. MembersOK'
    BY <1>1, <2>2 DEF ListInv, MembersOK
  <2>4. RoomsOK'
    BY <1>1, <2>2 DEF ListInv, RoomsOK
  <2>5. QED
    BY <1>2, <2>2, <2>3, <2>4 DEF ListInv
<1>4. CASE ~ (joining[room] > 0 /\ "bookmarks" \in has)
  <2>1. UNCHANGED <<bookmarks, storage, roster, away>> /\ entering' = entering \ {room}
    BY <1>4 DEF List!Entered
  <2>2. Listed(roster)' /\ Grouped(roster)'
    BY <1>1, <2>1, ListKept
  <2>3. List!RoomsOf(bookmarks') = List!RoomsOf(bookmarks)
    BY <2>1 DEF List!RoomsOf
  <2>4. QED
    BY <1>1, <1>2, <2>1, <2>2, <2>3 DEF ListInv, MembersOK, RoomsOK, NotYet
<1>5. QED
  BY <1>3, <1>4

(* Sessions, and the bounds.                                               *)
LEMMA SessionOK ==
  ASSUME ListAssumption, ListInv, List!Connect \/ List!Disconnect \/ List!Restart
  PROVE  ListInv'
<1>1. CASE List!Connect
  <2>1. /\ UNCHANGED <<roster, mucCollection, joining, bookmarks, told, has, storage, contacts,
                      occupied, leaving, away, joins, changes>>
        /\ online' = TRUE /\ started' = TRUE /\ asked' \in {asked, List!Lists}
        /\ entering' = List!RoomsToJoin(bookmarks)
    BY <1>1 DEF List!Connect, List!list
  <2>2. asked' \subseteq List!Lists /\ has \subseteq asked'
    BY <2>1 DEF ListInv, MembersOK
  <2>3. entering' \subseteq Rooms
    BY <2>1, RoomsInSeq DEF ListInv, MembersOK
  <2>4. Listed(roster)' /\ Grouped(roster)'
    BY <2>1, ListKept
  <2>5. QED
    BY <2>1, <2>2, <2>3, <2>4 DEF ListInv, MembersOK, JoiningOK, RoomsOK, NotYet
<1>2. ASSUME List!Changes PROVE changes' \in 0 .. MaxChanges
  BY <1>2 DEF List!Changes, ListAssumption, ListInv, MembersOK
<1>3. CASE List!Disconnect
  <2>1. /\ UNCHANGED <<roster, mucCollection, joining, bookmarks, told, has, started, storage,
                      contacts, joins>>
        /\ online' = FALSE /\ entering' = {} /\ occupied' = {}
        /\ leaving' = {} /\ away' = {} /\ asked' = has /\ List!Changes
    BY <1>3 DEF List!Disconnect, List!NoSession, List!list
  <2>2. Listed(roster)' /\ Grouped(roster)'
    BY <2>1, ListKept
  <2>3. MembersOK'
    BY <1>2, <2>1 DEF ListInv, MembersOK
  <2>4. QED
    BY <2>1, <2>2, <2>3 DEF ListInv, JoiningOK, RoomsOK, NotYet
<1>4. CASE List!Restart
  <2>1. /\ UNCHANGED <<storage, contacts>> /\ roster' = <<>> /\ mucCollection' = <<>>
        /\ joining' = List!NoneJoining
        /\ joins' = 0 /\ bookmarks' = <<>> /\ told' = {} /\ asked' = {} /\ has' = {}
        /\ started' = FALSE /\ online' = FALSE /\ entering' = {}
        /\ occupied' = {} /\ leaving' = {} /\ away' = {} /\ List!Changes
    BY <1>4 DEF List!Restart, List!NoSession
  <2>2. <<>> \in Seq(Rooms) /\ <<>> \in Seq(List!Bookmark) /\ 0 \in 0 .. Joins
    BY DEF ListAssumption
  <2>3. MembersOK'
    BY <1>2, <2>1, <2>2 DEF ListInv, MembersOK
  <2>4. IsList(roster') /\ DOMAIN roster' = {}
    BY <2>1, EmptyList
  <2>5. Listed(roster)' /\ Grouped(roster)'
    BY <2>1, <2>4 DEF Listed, Grouped, IsList
  <2>6. JoiningOK'
    BY <2>1, NoneJoins DEF JoiningOK
  <2>7. QED
    BY <2>1, <2>3, <2>5, <2>6 DEF ListInv, RoomsOK, NotYet
<1>5. QED
  BY <1>1, <1>3, <1>4

LEMMA ContactOK ==
  ASSUME ListAssumption, ListInv,
         \/ \E jid \in People : List!AddContact(jid)
         \/ \E jid \in List!Jids : List!RemoveContact(jid)
  PROVE  ListInv'
<1>1. /\ UNCHANGED <<roster, mucCollection, joining, bookmarks, told, asked, has, started,
                    storage, online, entering, occupied, leaving, away, joins>>
      /\ contacts' \subseteq contacts \cup People /\ List!Changes
  BY DEF List!AddContact, List!RemoveContact, List!list, List!swiften, List!presences
<1>2. changes' \in 0 .. MaxChanges
  BY <1>1 DEF List!Changes, ListAssumption, ListInv, MembersOK
<1>3. Listed(roster)' /\ Grouped(roster)'
  BY <1>1, ListKept
<1>4. MembersOK'
  BY <1>1, <1>2 DEF ListInv, MembersOK
<1>5. QED
  BY <1>1, <1>3, <1>4 DEF ListInv, JoiningOK, RoomsOK, NotYet

LEMMA ListStep == ListAssumption /\ ListInv /\ [List!Next]_List!vars => ListInv'
<1> SUFFICES ASSUME ListAssumption, ListInv, [List!Next]_List!vars PROVE ListInv'
  OBVIOUS
<1>1. ASSUME NEW room \in Rooms, List!HandleJoinFailed(room) PROVE ListInv'
  <2>1. /\ UNCHANGED <<roster, mucCollection, joining, bookmarks, told, asked, has, started,
                      storage, contacts, online, occupied, leaving, joins, changes>>
        /\ entering' = entering \ {room} /\ away' = away \cup {room}
    BY <1>1 DEF List!HandleJoinFailed, List!list, List!swiften
  <2>2. Listed(roster)' /\ Grouped(roster)'
    BY <2>1, ListKept
  <2>3. QED
    BY <2>1, <2>2 DEF ListInv, MembersOK, JoiningOK, RoomsOK, NotYet
<1>2. CASE UNCHANGED List!vars
  <2>1. UNCHANGED <<roster, mucCollection, joining, bookmarks, told, asked, has, started,
                   storage, contacts, online, entering, occupied, leaving, away, joins, changes>>
    BY <1>2 DEF List!vars, List!list, List!swiften, List!presences
  <2>2. Listed(roster)' /\ Grouped(roster)'
    BY <2>1, ListKept
  <2>3. QED
    BY <2>1, <2>2 DEF ListInv, MembersOK, JoiningOK, RoomsOK, NotYet
<1>3. QED
  BY <1>1, <1>2, PresenceOK, RosterOK, JidRemovedOK, RoomRemovedOK, BookmarksReadyOK, AddRoomOK,
     EnteredOK, SessionOK, ContactOK DEF List!Next

-----------------------------------------------------------------------------
(* The state of the list and of the rooms has its type, whatever roster,   *)
(* presences, bookmarks, the user and sessions do, in any order.           *)
THEOREM ListTypeCorrect == ListAssumption => (List!Spec => []List!TypeOK)
<1> SUFFICES ASSUME ListAssumption PROVE List!Spec => []List!TypeOK
  OBVIOUS
<1>1. ListInv => List!TypeOK
  BY DEF ListInv, MembersOK, JoiningOK, RoomsOK, Listed, IsList, List!TypeOK
<1>2. ListInv /\ [List!Next]_List!vars => ListInv'
  BY ListStep
<1>3. QED
  BY <1>1, <1>2, ListInit, PTL DEF List!Spec

(* Whoever the server's roster is known to hold is listed, in whichever    *)
(* order handleRosterReceived, handleJidAdded, handleJidRemoved and the    *)
(* presences come.                                                         *)
THEOREM ContactsAlwaysListed == ListAssumption => (List!Spec => []ContactsAreListed)
<1> SUFFICES ASSUME ListAssumption PROVE List!Spec => []ContactsAreListed
  OBVIOUS
<1>1. ListInv => ContactsAreListed
  BY DEF ListInv, Listed, ContactsAreListed
<1>2. ListInv /\ [List!Next]_List!vars => ListInv'
  BY ListStep
<1>3. QED
  BY <1>1, <1>2, ListInit, PTL DEF List!Spec

(* What the list shows as a room is bookmarked: removeRoom, bookmarks that *)
(* arrive, joins that are completed, and restarts leave no other.          *)
THEOREM GroupsAlwaysBookmarked ==
  ListAssumption => (List!Spec => []GroupsAreBookmarked)
<1> SUFFICES ASSUME ListAssumption PROVE List!Spec => []GroupsAreBookmarked
  OBVIOUS
<1>1. ListInv => GroupsAreBookmarked
  BY DEF ListInv, Grouped, GroupsAreBookmarked, List!RoomsOf, RoomsOf
<1>2. ListInv /\ [List!Next]_List!vars => ListInv'
  BY ListStep
<1>3. QED
  BY <1>1, <1>2, ListInit, PTL DEF List!Spec

-----------------------------------------------------------------------------
(* Which rooms a step leaves bookmarked and unlisted.                      *)
LEMMA StayListed ==
  ASSUME ListAssumption, ListInv, List!Next, NEW room \in List!RoomsOf(bookmarks')
  PROVE  \/ room \in DOMAIN roster'
         \/ room \in List!RoomsOf(bookmarks) \ DOMAIN roster
         \/ List!BookmarkedTwice(bookmarks, room)
<1> DEFINE Goal == \/ room \in DOMAIN roster'
                   \/ room \in List!RoomsOf(bookmarks) \ DOMAIN roster
                   \/ List!BookmarkedTwice(bookmarks, room)
<1>1. ASSUME bookmarks' = bookmarks PROVE room \in List!RoomsOf(bookmarks)
  BY <1>1 DEF List!RoomsOf
<1>2. ASSUME bookmarks' = bookmarks, DOMAIN roster \subseteq DOMAIN roster' PROVE Goal
  BY <1>1, <1>2
<1>3. CASE \/ List!HandleRosterReceived
           \/ \E jid \in People : List!HandleJidAdded(jid) \/ List!HandleJidUpdated(jid)
  <2>1. bookmarks' = bookmarks
    BY <1>3 DEF List!HandleRosterReceived, List!HandleJidAdded, List!HandleJidUpdated,
       List!swiften
  <2>2. QED
    BY <1>2, <1>3, <2>1, RosterOK
<1>4. ASSUME NEW jid \in People, List!HandleJidRemoved(jid) PROVE Goal
  <2>1. bookmarks' = bookmarks /\ DOMAIN roster \ {jid} \subseteq DOMAIN roster'
    BY <1>4, JidRemovedOK DEF List!HandleJidRemoved
  <2>2. room \in List!RoomsOf(bookmarks) /\ room \in Rooms
    BY <1>1, <2>1, RoomsInSeq DEF ListInv, MembersOK
  <2>3. room # jid
    BY <2>2 DEF ListAssumption
  <2>4. QED
    BY <2>1, <2>2, <2>3
<1>5. ASSUME NEW jid \in List!Jids, List!HandlePresenceChanged(jid) PROVE Goal
  <2>1. bookmarks' = bookmarks
    BY <1>5 DEF List!HandlePresenceChanged, List!swiften
  <2>2. QED
    BY <1>2, <1>5, <2>1, PresenceOK
<1>6. ASSUME NEW other \in Rooms, List!RemoveRoom(other) PROVE Goal
  <2>1. /\ other \in List!RoomsOf(bookmarks)
        /\ bookmarks' = List!WithoutFirst(bookmarks, other)
        /\ DOMAIN roster \ {other} \subseteq DOMAIN roster'
    BY <1>6, RoomRemovedOK DEF List!RemoveRoom
  <2>2. /\ room \in List!RoomsOf(bookmarks)
        /\ room = other => List!BookmarkedTwice(bookmarks, other)
    <3>1. room \in List!RoomsOf(List!WithoutFirst(bookmarks, other))
      BY <2>1 DEF List!RoomsOf
    <3>2. QED
      BY <2>1, <3>1, RemovedRooms DEF ListInv, MembersOK
  <2>3. QED
    BY <2>1, <2>2
<1>7. CASE List!HandleBookmarksReady
  BY <1>7, BookmarksReadyOK
<1>8. ASSUME NEW other \in Rooms, List!Entered(other) PROVE Goal
  BY <1>8, EnteredOK
<1>9. CASE \/ \E jid \in People : List!AddContact(jid)
           \/ \E jid \in List!Jids : List!RemoveContact(jid)
           \/ \E other \in Rooms : List!AddRoom(other) \/ List!HandleJoinFailed(other)
           \/ List!Connect
           \/ List!Disconnect
  <2>1. UNCHANGED <<bookmarks, roster>>
    BY <1>9 DEF List!AddContact, List!RemoveContact, List!AddRoom, List!HandleJoinFailed,
       List!Connect, List!Disconnect, List!list, List!swiften
  <2>2. QED
    BY <1>2, <2>1
<1>10. CASE List!Restart
  <2>1. bookmarks' = <<>>
    BY <1>10 DEF List!Restart
  <2>2. List!RoomsOf(bookmarks') = {}
    BY <2>1 DEF List!RoomsOf
  <2>3. QED
    BY <2>2
<1>11. QED
  BY <1>3, <1>4, <1>5, <1>6, <1>7, <1>8, <1>9, <1>10 DEF List!Next

(* No step takes a bookmarked room from the list, or bookmarks one that is *)
(* not listed, unless the room was bookmarked twice: with any number of    *)
(* joins, early, repeated, refused or over a disconnect, and with whatever *)
(* other clients have stored.                                              *)
THEOREM BookmarksAlwaysStayListed ==
  ListAssumption => (List!Spec => BookmarksStayListed)
<1> SUFFICES ASSUME ListAssumption PROVE List!Spec => BookmarksStayListed
  OBVIOUS
<1>1. ListInv /\ [List!Next]_List!vars =>
         [\A room \in RoomsOf(bookmarks') :
             \/ room \in DOMAIN roster'
             \/ room \in RoomsOf(bookmarks) \ DOMAIN roster
             \/ BookmarkedTwice(bookmarks, room)]_<<roster, bookmarks>>
  <2>1. CASE List!Next
    <3> SUFFICES ASSUME ListInv, NEW room \in RoomsOf(bookmarks')
                 PROVE  \/ room \in DOMAIN roster'
                        \/ room \in RoomsOf(bookmarks) \ DOMAIN roster
                        \/ BookmarkedTwice(bookmarks, room)
      OBVIOUS
    <3>1. room \in List!RoomsOf(bookmarks')
      BY DEF RoomsOf, List!RoomsOf
    <3>2. \/ room \in DOMAIN roster'
          \/ room \in List!RoomsOf(bookmarks) \ DOMAIN roster
          \/ List!BookmarkedTwice(bookmarks, room)
      BY <2>1, <3>1, StayListed
    <3>3. QED
      BY <3>2 DEF RoomsOf, List!RoomsOf, BookmarkedTwice, List!BookmarkedTwice
  <2>2. CASE UNCHANGED List!vars
    BY <2>2 DEF List!vars, List!list, List!swiften
  <2>3. QED
    BY <2>1, <2>2
<1>2. ListInv /\ [List!Next]_List!vars => ListInv'
  BY ListStep
<1>3. QED
  BY <1>1, <1>2, ListInit, PTL DEF List!Spec, BookmarksStayListed

-----------------------------------------------------------------------------
(* RoomsAreJoinedAgain needs fairness; what follows is all of it that does *)
(* not: as long as a session lasts, a room whose bookmark says so is       *)
(* entered, or about to be, or was refused or left.                        *)
JoinsArePending ==
    online => List!RoomsToJoin(bookmarks) \subseteq occupied \cup entering \cup away

LEMMA EnteredPending ==
  ASSUME ListInv, JoinsArePending, NEW room \in Rooms, List!Entered(room)
  PROVE  JoinsArePending'
<1>1. online /\ occupied' = occupied \cup {room} /\ UNCHANGED <<mucCollection, told, has>>
  BY DEF List!Entered
<1>2. CASE joining[room] > 0 /\ "bookmarks" \in has
  <2>1. List!HandleJoinComplete(room, joining[room])
    BY <1>2 DEF List!Entered
  <2>2. /\ List!RoomsToJoin(bookmarks') \ entering' \subseteq List!RoomsToJoin(bookmarks)
        /\ entering \ {room} \subseteq entering' /\ away \ entering' \subseteq away'
    BY <1>1, <1>2, <2>1, JoinCompleteOK
  <2>3. List!RoomsToJoin(bookmarks') \subseteq occupied' \cup entering' \cup away'
    BY <1>1, <2>2 DEF JoinsArePending
  <2>4. QED
    BY <2>3 DEF JoinsArePending, List!RoomsToJoin
<1>3. CASE ~ (joining[room] > 0 /\ "bookmarks" \in has)
  <2>1. UNCHANGED <<bookmarks, away>> /\ entering' = entering \ {room}
    BY <1>3 DEF List!Entered
  <2>2. QED
    BY <1>1, <2>1 DEF JoinsArePending, List!RoomsToJoin
<1>4. QED
  BY <1>2, <1>3

LEMMA RoomRemovedPending ==
  ASSUME ListInv, JoinsArePending, NEW room \in Rooms, List!RemoveRoom(room)
  PROVE  JoinsArePending'
<1>1. /\ room \in List!RoomsOf(bookmarks)
      /\ bookmarks' = List!WithoutFirst(bookmarks, room)
      /\ online' = online /\ occupied' = occupied \ {room} /\ entering' = entering \ {room}
      /\ online => away' = away \cup {room}
  BY DEF List!RemoveRoom, List!LeaveRoom
<1>2. List!RoomsToJoin(List!WithoutFirst(bookmarks, room)) \subseteq List!RoomsToJoin(bookmarks)
  BY <1>1, RemovedRooms DEF ListInv, MembersOK
<1>3. List!RoomsToJoin(bookmarks') \subseteq List!RoomsToJoin(bookmarks)
  BY <1>1, <1>2 DEF List!RoomsToJoin
<1>4. online' => List!RoomsToJoin(bookmarks') \subseteq occupied' \cup entering' \cup away'
  BY <1>1, <1>3 DEF JoinsArePending
<1>5. QED
  BY <1>4 DEF JoinsArePending, List!RoomsToJoin

LEMMA PendingStep ==
  ASSUME ListInv, JoinsArePending, [List!Next]_List!vars
  PROVE  JoinsArePending'
<1>1. ASSUME bookmarks' = bookmarks,
             online' => online /\ occupied \cup entering \cup away
                                  \subseteq occupied' \cup entering' \cup away'
      PROVE  JoinsArePending'
  BY <1>1 DEF JoinsArePending, List!RoomsToJoin
<1>2. CASE \/ List!HandleRosterReceived
           \/ \E jid \in People : \/ List!HandleJidAdded(jid) \/ List!HandleJidUpdated(jid)
                                  \/ List!HandleJidRemoved(jid) \/ List!AddContact(jid)
           \/ \E jid \in List!Jids : List!RemoveContact(jid) \/ List!HandlePresenceChanged(jid)
           \/ UNCHANGED List!vars
  <2>1. UNCHANGED <<bookmarks, online, occupied, entering, away>>
    BY <1>2 DEF List!HandleRosterReceived, List!HandleJidAdded, List!HandleJidUpdated,
       List!HandleJidRemoved, List!AddContact, List!RemoveContact,
       List!HandlePresenceChanged, List!vars, List!list, List!swiften, List!presences
  <2>2. QED
    BY <1>1, <2>1
<1>3. ASSUME NEW room \in Rooms, List!AddRoom(room) \/ List!HandleJoinFailed(room)
      PROVE  JoinsArePending'
  <2>1. /\ UNCHANGED <<bookmarks, online, occupied>>
        /\ online => entering \cup away \subseteq entering' \cup away'
    BY <1>3 DEF List!AddRoom, List!HandleJoinFailed, List!swiften
  <2>2. QED
    BY <1>1, <2>1
<1>4. CASE List!HandleBookmarksReady
  <2>1. bookmarks' = storage /\ entering' = entering \cup List!RoomsToJoin(storage)
    BY <1>4 DEF List!HandleBookmarksReady
  <2>2. QED
    BY <2>1 DEF JoinsArePending, List!RoomsToJoin
<1>5. CASE List!Connect
  <2>1. bookmarks' = bookmarks /\ entering' = List!RoomsToJoin(bookmarks)
    BY <1>5 DEF List!Connect
  <2>2. QED
    BY <2>1 DEF JoinsArePending, List!RoomsToJoin
<1>6. CASE List!Disconnect \/ List!Restart
  BY <1>6 DEF List!Disconnect, List!Restart, List!NoSession, JoinsArePending
<1>7. QED
  BY <1>2, <1>3, <1>4, <1>5, <1>6, EnteredPending, RoomRemovedPending DEF List!Next

LEMMA PendingInit == List!Init => JoinsArePending
BY DEF List!Init, JoinsArePending

(* Until the server has answered, it is asked to let the client in, for    *)
(* every room whose bookmark says so and in every session, whatever is     *)
(* joined, bookmarked or removed meanwhile.                                *)
THEOREM BookmarksArePending == ListAssumption => (List!Spec => []JoinsArePending)
<1> SUFFICES ASSUME ListAssumption PROVE List!Spec => []JoinsArePending
  OBVIOUS
<1>1. ListInv /\ [List!Next]_List!vars => ListInv'
  BY ListStep
<1>2. ListInv /\ JoinsArePending /\ [List!Next]_List!vars => JoinsArePending'
  BY PendingStep
<1>3. QED
  BY <1>1, <1>2, ListInit, PendingInit, PTL DEF List!Spec

=============================================================================
