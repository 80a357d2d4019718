------------------------ MODULE OmemoDevices_proofs -------------------------
(* Theorems about OmemoDevices. *)
EXTENDS OmemoDevices, SequenceTheorems, TLAPS

Answers == {NoItems} \cup SUBSET Ids

(* What a client sent holds a stanza of a kind. *)
Says(sent, kind) == \E i \in 1 .. Len(sent) : sent[i].kind = kind

(* A list that makes the client publish its own. *)
Provokes(d, list) == list = NoItems \/ (d \notin list /\ d \notin uninstalled)

AtRest(d) == stored[d] = node /\ (d \in node \/ d \in uninstalled)

(* What a client hears last is the published list, or an error. *)
LastIs(s, list) == s # <<>> /\ s[Len(s)] = list

Told(d) == LastIs(inbox[d], node) \/ LastIs(inbox[d], NoItems)

(* Who is online knows the list, is going to hear of it, or will replace   *)
(* it, ...                                                                 *)
Tracked(d) == AtRest(d) \/ inbox[d] # <<>> \/ Says(outbox[d], "list")

(* ... and has a bundle, or is going to send it. *)
Bundled(d) == d \in bundles \/ inbox[d] # <<>> \/ Says(outbox[d], "bundle")

(* A refused publication is gone: nothing is known of its client but what  *)
(* it is going to hear.                                                    *)
Known(d) == /\ inbox[d] # <<>> => Told(d)
            /\ d \notin refused => Tracked(d) /\ Bundled(d)

IInv == node # NoItems => \A d \in online : Known(d)

-----------------------------------------------------------------------------
(* What is sent stays sent: more is appended ... *)
LEMMA SaysMore ==
    ASSUME NEW s \in Seq(Stanzas), NEW t \in Seq(Stanzas), NEW kind,
           Says(s, kind) \/ Says(t, kind)
    PROVE  Says(s \o t, kind)
<1>1. CASE Says(s, kind)
  <2>1. PICK i \in 1 .. Len(s) : s[i].kind = kind
    BY <1>1 DEF Says
  <2>2. i \in 1 .. Len(s \o t) /\ (s \o t)[i] = s[i]
    BY <2>1
  <2> QED BY <2>1, <2>2 DEF Says
<1>2. CASE Says(t, kind)
  <2>1. PICK i \in 1 .. Len(t) : t[i].kind = kind
    BY <1>2 DEF Says
  <2>2. Len(s) + i \in 1 .. Len(s \o t) /\ (s \o t)[Len(s) + i] = t[i]
    BY <2>1
  <2> QED BY <2>1, <2>2 DEF Says
<1> QED BY <1>1, <1>2

(* ... and what is read is one stanza. *)
LEMMA SaysTail ==
    ASSUME NEW s \in Seq(Stanzas), s # <<>>, NEW kind,
           Says(s, kind), Head(s).kind # kind
    PROVE  Says(Tail(s), kind)
<1>1. PICK i \in 1 .. Len(s) : s[i].kind = kind
  BY DEF Says
<1>2. i # 1
  BY <1>1
<1>3. i - 1 \in 1 .. Len(Tail(s)) /\ Tail(s)[i - 1] = s[i]
  BY <1>1, <1>2
<1> QED BY <1>1, <1>3 DEF Says

(* The lists and stanzas are what they should be. *)
LEMMA StanzaTypes ==
    /\ Bundle \in Stanzas /\ Request \in Stanzas
    /\ \A devices \in SUBSET Ids : List(devices) \in Stanzas
BY DEF Stanzas, Bundle, Request, List

LEMMA OwnListType ==
    ASSUME NEW d \in Devices, NEW list \in Answers
    PROVE  OwnList(d, list) \in SUBSET Ids
BY DEF OwnList, Answers, Ids

LEMMA PublicationsType ==
    ASSUME NEW d \in Devices, NEW list \in Answers
    PROVE  Publications(d, list) \in Seq(Stanzas)
<1>1. <<List(OwnList(d, list))>> \in Seq(Stanzas) /\ <<Bundle>> \in Seq(Stanzas)
  BY StanzaTypes, OwnListType
<1> QED BY <1>1, EmptySeq, ConcatProperties DEF Publications

LEMMA SendType ==
    ASSUME NEW sent \in Seq(Stanzas), NEW stanzas \in Seq(Stanzas)
    PROVE  Send(sent, stanzas) \in Seq(Stanzas)
BY ConcatProperties DEF Send

(* Sending loses nothing, and says what is sent. *)
LEMMA SendSays ==
    ASSUME NEW sent \in Seq(Stanzas), NEW stanzas \in Seq(Stanzas), NEW kind,
           Says(sent, kind) \/ Says(stanzas, kind)
    PROVE  Says(Send(sent, stanzas), kind)
<1>1. CASE sent # <<>> /\ sent[Len(sent)] = Bundle /\ stanzas = <<Bundle>>
  <2>1. Send(sent, stanzas) = sent
    BY <1>1 DEF Send
  <2>2. ASSUME Says(stanzas, kind) PROVE Says(sent, kind)
    <3>1. kind = Bundle.kind
      BY <1>1, <2>2 DEF Says
    <3>2. Len(sent) \in 1 .. Len(sent)
      BY <1>1, EmptySeq, LenProperties
    <3> QED BY <1>1, <3>1, <3>2 DEF Says
  <2> QED BY <2>1, <2>2
<1>2. CASE ~(sent # <<>> /\ sent[Len(sent)] = Bundle /\ stanzas = <<Bundle>>)
  BY <1>2, SaysMore DEF Send
<1> QED BY <1>1, <1>2

-----------------------------------------------------------------------------
(* The list, the tables and the queues keep their types.                   *)
THEOREM TypeCorrect == Spec => []TypeOK
<1>1. Init => TypeOK
  BY DevicesAssumption, EmptySeq DEF Init, TypeOK, Ids
<1>2. ASSUME TypeOK, [Next]_vars PROVE TypeOK'
  <2> USE <1>2
  <2>0. node \in Answers /\ inbox \in [Devices -> Seq(Answers)]
    BY DEF TypeOK, Answers
  <2>1. CASE UNCHANGED vars
    BY <2>1 DEF TypeOK, vars, client
  <2>2. ASSUME NEW d \in Devices, Connect(d) PROVE TypeOK'
    <3>0. <<>> \in Seq(Answers) /\ <<node>> \in Seq(Answers)
      BY <2>0
    <3>1. inbox' \in [Devices -> Seq(Answers)]
      BY <2>0, <2>2, <3>0 DEF Connect
    <3>2. outbox' \in [Devices -> Seq(Stanzas)]
      BY <2>2, EmptySeq, StanzaTypes DEF TypeOK, Connect
    <3> QED BY <2>2, <3>1, <3>2 DEF TypeOK, Connect, Answers
  <2>3. ASSUME NEW d \in Devices, Offline(d), setup' \subseteq setup,
               uninstalled' \subseteq uninstalled
        PROVE  TypeOK'
    <3>1. inbox' \in [Devices -> Seq(Answers)] /\ outbox' \in [Devices -> Seq(Stanzas)]
      BY <2>0, <2>3, EmptySeq DEF TypeOK, Offline
    <3> QED BY <2>3, <3>1 DEF TypeOK, Offline, Answers
  <2>4. ASSUME NEW d \in Devices, HandleOwnDevicelist(d) PROVE TypeOK'
    <3>1. inbox[d] \in Seq(Answers) /\ inbox[d] # <<>>
      BY <2>0, <2>4 DEF HandleOwnDevicelist
    <3>2. Head(inbox[d]) \in Answers /\ Tail(inbox[d]) \in Seq(Answers)
      BY <3>1, HeadTailProperties
    <3>3. Send(outbox[d], Publications(d, Head(inbox[d]))) \in Seq(Stanzas)
      BY <3>2, PublicationsType, SendType DEF TypeOK
    <3>4. OwnList(d, Head(inbox[d])) \in SUBSET Ids
      BY <3>2, OwnListType
    <3>5. inbox' \in [Devices -> Seq(Answers)]
      BY <2>0, <2>4, <3>2 DEF HandleOwnDevicelist
    <3>6. outbox' \in [Devices -> Seq(Stanzas)]
      BY <2>4, <3>3 DEF TypeOK, HandleOwnDevicelist
    <3>7. stored' \in [Devices -> SUBSET Ids]
      BY <2>4, <3>4 DEF TypeOK, HandleOwnDevicelist
    <3> QED BY <2>4, <3>5, <3>6, <3>7 DEF TypeOK, HandleOwnDevicelist, Answers
  <2>5. ASSUME NEW d \in Devices, NEW id, PublishWithout(d, id),
               uninstalled' \subseteq Devices
        PROVE  TypeOK'
    <3>1. List(stored[d] \ {id}) \in Stanzas
      BY StanzaTypes DEF TypeOK
    <3>2. outbox' \in [Devices -> Seq(Stanzas)]
      BY <2>5, <3>1 DEF TypeOK, PublishWithout
    <3>3. commands' \in Nat
      BY <2>5 DEF TypeOK, PublishWithout
    <3> QED BY <2>5, <3>2, <3>3 DEF TypeOK, PublishWithout
  <2>6. ASSUME NEW d \in Devices, NEW kind, ServerReads(d, kind)
        PROVE  outbox' \in [Devices -> Seq(Stanzas)] /\ Head(outbox[d]) \in Stanzas
    BY <2>6, HeadTailProperties DEF TypeOK, ServerReads
  <2>7. ASSUME NEW d \in Devices, ListIsPublished(d) PROVE TypeOK'
    <3>1. node' \in SUBSET Ids
      BY <2>6, <2>7 DEF ListIsPublished, Stanzas
    <3>2. inbox' \in [Devices -> Seq(Answers)]
      <4>1. \A e \in Devices : Append(inbox[e], node') \in Seq(Answers)
        BY <2>0, <3>1, AppendProperties DEF Answers
      <4> QED BY <2>0, <2>7, <4>1 DEF ListIsPublished
    <3> QED BY <2>6, <2>7, <3>1, <3>2
            DEF TypeOK, ListIsPublished, ServerReads, client, Answers
  <2>8. ASSUME NEW d \in Devices, BundleIsPublished(d) PROVE TypeOK'
    BY <2>6, <2>8 DEF TypeOK, BundleIsPublished, ServerReads, client
  <2>9. ASSUME NEW d \in Devices, RequestIsAnswered(d) PROVE TypeOK'
    <3>0. Append(inbox[d], node) \in Seq(Answers) /\ Append(inbox[d], NoItems) \in Seq(Answers)
      <4>1. NoItems \in Answers
        BY DEF Answers
      <4> QED BY <2>0, <4>1, AppendProperties
    <3>1. inbox' \in [Devices -> Seq(Answers)]
      BY <2>0, <2>9, <3>0 DEF RequestIsAnswered
    <3>2. errors' \in Nat
      BY <2>9 DEF TypeOK, RequestIsAnswered
    <3> QED BY <2>6, <2>9, <3>1, <3>2
            DEF TypeOK, RequestIsAnswered, ServerReads, client, Answers
  <2>10. ASSUME NEW d \in Devices, PublicationIsRefused(d) PROVE TypeOK'
    <3>1. outbox' \in [Devices -> Seq(Stanzas)]
      BY <2>6, <2>10 DEF PublicationIsRefused
    <3>2. errors' \in Nat /\ refused' \subseteq Devices
      BY <2>10 DEF TypeOK, PublicationIsRefused
    <3> QED BY <2>10, <3>1, <3>2 DEF TypeOK, PublicationIsRefused, ServerReads, client
  <2> QED
    <3>1. ASSUME NEW d \in Devices, Disconnect(d) \/ Restart(d) PROVE TypeOK'
      BY <2>3, <3>1 DEF Disconnect, Restart
    <3>2. ASSUME NEW d \in Devices, Uninstall(d) \/ \E id \in Ids : RemoveId(d, id)
          PROVE  TypeOK'
      <4>1. uninstalled' \subseteq Devices
        BY <3>2 DEF TypeOK, Uninstall, RemoveId
      <4> QED BY <2>5, <3>2, <4>1 DEF Uninstall, RemoveId
    <3> QED BY <2>1, <2>2, <2>4, <2>7, <2>8, <2>9, <2>10, <3>1, <3>2 DEF Next
<1> QED BY <1>1, <1>2, PTL DEF Spec

-----------------------------------------------------------------------------
(* What a step leaves alone stays known. *)
LEMMA OthersStayKnown ==
    ASSUME NEW e \in Devices, Known(e), node' = node, inbox'[e] = inbox[e],
           outbox'[e] = outbox[e], stored'[e] = stored[e],
           (e \in uninstalled') <=> (e \in uninstalled),
           (e \in refused') <=> (e \in refused), bundles \subseteq bundles'
    PROVE  Known(e)'
<1>1. AtRest(e) => AtRest(e)'
  BY DEF AtRest
<1>2. Told(e) => Told(e)'
  BY DEF Told
<1>3. Tracked(e) => Tracked(e)'
  BY <1>1 DEF Tracked
<1>4. Bundled(e) => Bundled(e)'
  BY DEF Bundled
<1> QED BY <1>2, <1>3, <1>4 DEF Known

(* The event of a publication reaches everybody, as an answer does the one *)
(* who asked.                                                              *)
LEMMA TheToldAreKnown ==
    ASSUME NEW e \in Devices, NEW s \in Seq(Answers), NEW list \in Answers,
           list = NoItems \/ node' = list, inbox'[e] = Append(s, list)
    PROVE  Known(e)'
<1>1. LastIs(Append(s, list), list)
  BY AppendProperties DEF LastIs
<1>2. LastIs(inbox'[e], list) /\ inbox'[e] # <<>>
  BY <1>1 DEF LastIs
<1>3. Told(e)'
  BY <1>2 DEF Told
<1> QED BY <1>2, <1>3 DEF Known, Tracked, Bundled

(* What a client publishes when it processes a list. *)
LEMMA PublicationsSay ==
    ASSUME NEW d \in Devices, NEW list \in Answers
    PROVE  /\ Says(Publications(d, list), "bundle")
           /\ Provokes(d, list) => Says(Publications(d, list), "list")
           /\ ~Provokes(d, list) => OwnList(d, list) = list
<1>1. <<List(OwnList(d, list))>> \in Seq(Stanzas) /\ <<Bundle>> \in Seq(Stanzas)
  BY StanzaTypes, OwnListType
<1>2. Says(<<Bundle>>, "bundle")
  BY DEF Says, Bundle
<1>3. Says(<<List(OwnList(d, list))>>, "list")
  BY DEF Says, List
<1>4. Says(Publications(d, list), "bundle")
  BY <1>1, <1>2, EmptySeq, SaysMore DEF Publications
<1>5. ASSUME Provokes(d, list) PROVE Says(Publications(d, list), "list")
  <2>1. OwnList(d, list) # list
    BY <1>5, DevicesAssumption DEF Provokes, OwnList, DevicesAssumption, Ids
  <2> QED BY <1>1, <1>3, <2>1, SaysMore DEF Publications
<1>6. ~Provokes(d, list) => OwnList(d, list) = list
  BY DEF Provokes, OwnList, Answers
<1> QED BY <1>4, <1>5, <1>6

(* Who processed a list published its own, or has what is to come or the   *)
(* published list itself, refused before or not.                           *)
LEMMA ProcessedIsKnown ==
    ASSUME TypeOK, NEW d \in Devices, Known(d), HandleOwnDevicelist(d)
    PROVE  Known(d)'
<1> DEFINE first == Head(inbox[d])
           rest  == Tail(inbox[d])
<1>1. inbox \in [Devices -> Seq(Answers)] /\ outbox \in [Devices -> Seq(Stanzas)]
  BY DEF TypeOK, Answers
<1>2. inbox[d] \in Seq(Answers) /\ inbox[d] # <<>> /\ outbox[d] \in Seq(Stanzas)
  BY <1>1 DEF HandleOwnDevicelist
<1>3. first \in Answers /\ rest \in Seq(Answers)
  BY <1>2, HeadTailProperties
<1>4. inbox'[d] = rest /\ outbox'[d] = Send(outbox[d], Publications(d, first))
  BY <1>1 DEF HandleOwnDevicelist
<1>5. stored'[d] = OwnList(d, first) /\ node' = node /\ uninstalled' = uninstalled
  BY DEF HandleOwnDevicelist, TypeOK
<1>6. Publications(d, first) \in Seq(Stanzas)
  BY <1>3, PublicationsType
<1>7. Bundled(d)'
  BY <1>2, <1>3, <1>4, <1>6, PublicationsSay, SendSays DEF Bundled
<1>8. rest # <<>> => rest[Len(rest)] = inbox[d][Len(inbox[d])]
  BY <1>2
<1>9. rest = <<>> => first = inbox[d][Len(inbox[d])]
  <2> SUFFICES ASSUME rest = <<>> PROVE first = inbox[d][Len(inbox[d])]
    OBVIOUS
  <2>1. Len(rest) = 0
    BY <1>3, EmptySeq
  <2>2. Len(inbox[d]) \in Nat /\ Len(rest) = Len(inbox[d]) - 1
    BY <1>2, HeadTailProperties, LenProperties
  <2>3. Len(inbox[d]) = 1
    <3> HIDE DEF rest
    <3> QED BY <2>1, <2>2
  <2> QED BY <1>2, <2>3
<1>10. inbox[d][Len(inbox[d])] \in {node, NoItems}
  BY <1>2 DEF Known, Told, LastIs
<1>11. inbox'[d] # <<>> => Told(d)'
  BY <1>4, <1>5, <1>8, <1>10 DEF Told, LastIs
<1>12. Tracked(d)'
  <2>1. CASE Provokes(d, first)
    <3>1. Says(outbox'[d], "list")
      BY <1>2, <1>3, <1>4, <1>6, <2>1, PublicationsSay, SendSays
    <3> QED BY <3>1 DEF Tracked
  <2>2. CASE rest # <<>>
    BY <1>4, <2>2 DEF Tracked
  <2>3. CASE rest = <<>> /\ ~Provokes(d, first)
    <3>1. first = node
      BY <1>9, <1>10, <2>3 DEF Provokes
    <3>2. stored'[d] = node'
      BY <1>3, <1>5, <2>3, <3>1, PublicationsSay
    <3>3. d \in node \/ d \in uninstalled
      BY <2>3, <3>1 DEF Provokes
    <3> QED BY <1>5, <3>2, <3>3 DEF Tracked, AtRest
  <2> QED BY <2>1, <2>2, <2>3
<1> QED BY <1>7, <1>11, <1>12 DEF Known

(* A client whose stanza was read: a bundle is there, a request is         *)
(* answered, nothing more is known of who is refused.                      *)
LEMMA ReadIsKnown ==
    ASSUME TypeOK, NEW d \in Devices, Known(d),
           BundleIsPublished(d) \/ RequestIsAnswered(d) \/ PublicationIsRefused(d)
    PROVE  Known(d)'
<1>1. inbox \in [Devices -> Seq(Answers)] /\ outbox \in [Devices -> Seq(Stanzas)]
      /\ node \in Answers /\ NoItems \in Answers
  BY DEF TypeOK, Answers
<1>2. outbox[d] \in Seq(Stanzas) /\ outbox[d] # <<>> /\ outbox'[d] = Tail(outbox[d])
  BY <1>1 DEF BundleIsPublished, RequestIsAnswered, PublicationIsRefused, ServerReads
<1>3. node' = node /\ stored' = stored /\ uninstalled' = uninstalled
  BY DEF BundleIsPublished, RequestIsAnswered, PublicationIsRefused, ServerReads, client
<1>4. CASE BundleIsPublished(d)
  <2>1. inbox' = inbox /\ d \in bundles' /\ refused' = refused
    BY <1>4 DEF BundleIsPublished
  <2>2. Told(d) => Told(d)'
    BY <1>3, <2>1 DEF Told
  <2>3. Head(outbox[d]).kind = "bundle"
    BY <1>4 DEF BundleIsPublished, ServerReads
  <2>4. Says(outbox[d], "list") => Says(outbox'[d], "list")
    BY <1>2, <2>3, SaysTail
  <2>5. Tracked(d) => Tracked(d)'
    BY <1>3, <2>1, <2>4 DEF Tracked, AtRest
  <2> QED BY <2>1, <2>2, <2>5 DEF Known, Bundled
<1>5. CASE RequestIsAnswered(d)
  <2>1. inbox[d] \in Seq(Answers)
    BY <1>1
  <2>2. inbox'[d] = Append(inbox[d], node) \/ inbox'[d] = Append(inbox[d], NoItems)
    BY <1>1, <1>5 DEF RequestIsAnswered
  <2> QED BY <1>1, <1>3, <2>1, <2>2, TheToldAreKnown
<1>6. CASE PublicationIsRefused(d)
  <2>1. inbox' = inbox /\ d \in refused'
    BY <1>6 DEF PublicationIsRefused
  <2>2. Told(d) => Told(d)'
    BY <1>3, <2>1 DEF Told
  <2> QED BY <2>1, <2>2 DEF Known
<1> QED BY <1>4, <1>5, <1>6

(* A command replaces the list, or is given by a client without session. *)
LEMMA CommandIsKnown ==
    ASSUME TypeOK, NEW d \in Devices, NEW id, d \in online, Known(d), PublishWithout(d, id)
    PROVE  Known(d)'
<1>1. outbox[d] \in Seq(Stanzas) /\ List(stored[d] \ {id}) \in Stanzas
  BY StanzaTypes DEF TypeOK
<1>2. outbox'[d] = Append(outbox[d], List(stored[d] \ {id}))
  BY DEF TypeOK, PublishWithout
<1>3. Append(outbox[d], List(stored[d] \ {id})) = outbox[d] \o <<List(stored[d] \ {id})>>
  BY <1>1, AppendIsConcat
<1>4. <<List(stored[d] \ {id})>> \in Seq(Stanzas) /\ Says(<<List(stored[d] \ {id})>>, "list")
  BY <1>1 DEF Says, List
<1>5. Says(outbox'[d], "list")
  BY <1>1, <1>2, <1>3, <1>4, SaysMore
<1>6. Says(outbox[d], "bundle") => Says(outbox'[d], "bundle")
  BY <1>1, <1>2, <1>3, <1>4, SaysMore
<1>7. inbox' = inbox /\ bundles' = bundles /\ refused' = refused /\ node' = node
  BY DEF PublishWithout
<1>8. Told(d) => Told(d)'
  BY <1>7 DEF Told
<1>9. Bundled(d) => Bundled(d)'
  BY <1>6, <1>7 DEF Bundled
<1> QED BY <1>5, <1>7, <1>8, <1>9 DEF Known, Tracked

-----------------------------------------------------------------------------
(* However clients overwrite each other's list, once there is one, who has *)
(* nothing to expect and nothing to say, and was not refused at last, is   *)
(* in it, unless uninstalled, has a bundle, and encrypts for the devices   *)
(* that are listed.                                                        *)
THEOREM QuietAlwaysSettled == Spec => []QuietIsSettled
<1>1. Init => IInv
  BY DEF Init, IInv
<1>2. ASSUME TypeOK, IInv, [Next]_vars PROVE IInv'
  <2>1. SUFFICES ASSUME NEW e \in Devices, node' # NoItems, e \in online' PROVE Known(e)'
    <3>1. online' \subseteq Devices
      BY <1>2 DEF TypeOK, Next, vars, client, Connect, Disconnect, Restart, Offline,
                  HandleOwnDevicelist, Uninstall, RemoveId, PublishWithout, ServerReads,
                  ListIsPublished, BundleIsPublished, PublicationIsRefused,
                  RequestIsAnswered
    <3> QED BY <3>1, <2>1 DEF IInv
  <2>2. inbox \in [Devices -> Seq(Answers)] /\ node \in Answers
    BY <1>2 DEF TypeOK, Answers
  <2>3. node # NoItems /\ e \in online => Known(e)
    BY <1>2 DEF IInv
  <2>4. CASE UNCHANGED vars
    BY <2>1, <2>3, <2>4, OthersStayKnown DEF vars, client
  <2>5. ASSUME NEW d \in Devices, Connect(d) PROVE Known(e)'
    <3>1. node' = node /\ bundles' = bundles /\ stored' = stored /\ uninstalled' = uninstalled
          /\ refused' = refused
      BY <2>5 DEF Connect
    <3>2. CASE e = d
      <4>1. inbox'[e] = <<node>>
        BY <2>1, <2>2, <2>5, <3>1, <3>2 DEF Connect
      <4>2. inbox'[e] = Append(<<>>, node) /\ <<>> \in Seq(Answers)
        BY <2>2, <4>1, EmptySeq
      <4> QED BY <2>2, <3>1, <4>2, TheToldAreKnown
    <3>3. CASE e # d
      <4>1. inbox'[e] = inbox[e] /\ outbox'[e] = outbox[e] /\ e \in online
        BY <1>2, <2>1, <2>5, <3>3 DEF TypeOK, Connect
      <4> QED BY <2>1, <2>3, <3>1, <4>1, OthersStayKnown
    <3> QED BY <3>2, <3>3
  <2>6. ASSUME NEW d \in Devices, Disconnect(d) \/ Restart(d) PROVE Known(e)'
    <3>1. node' = node /\ bundles' = bundles /\ stored' = stored
      BY <2>6 DEF Disconnect, Restart, Offline
    <3>2. e # d /\ e \in online
      BY <2>1, <2>6 DEF Disconnect, Restart, Offline
    <3>3. inbox'[e] = inbox[e] /\ outbox'[e] = outbox[e]
      BY <1>2, <2>6, <3>2 DEF TypeOK, Disconnect, Restart, Offline
    <3>4. (e \in uninstalled' <=> e \in uninstalled) /\ (e \in refused' <=> e \in refused)
      BY <2>6, <3>2 DEF Disconnect, Restart, Offline
    <3> QED BY <2>1, <2>3, <3>1, <3>2, <3>3, <3>4, OthersStayKnown
  <2>7. ASSUME NEW d \in Devices, HandleOwnDevicelist(d) PROVE Known(e)'
    <3>1. node' = node /\ bundles' = bundles /\ uninstalled' = uninstalled /\ e \in online
      BY <2>1, <2>7 DEF HandleOwnDevicelist
    <3>2. CASE e = d
      BY <1>2, <2>1, <2>3, <2>7, <3>1, <3>2, ProcessedIsKnown
    <3>3. CASE e # d
      <4>1. inbox'[e] = inbox[e] /\ outbox'[e] = outbox[e] /\ stored'[e] = stored[e]
        BY <1>2, <2>7, <3>3 DEF TypeOK, HandleOwnDevicelist
      <4>2. e \in refused' <=> e \in refused
        BY <2>7, <3>3 DEF HandleOwnDevicelist
      <4> QED BY <2>1, <2>3, <3>1, <4>1, <4>2, OthersStayKnown
    <3> QED BY <3>2, <3>3
  <2>8. ASSUME NEW d \in Devices, Uninstall(d) \/ \E id \in Ids : RemoveId(d, id)
        PROVE  Known(e)'
    <3>1. PICK id : PublishWithout(d, id)
      BY <2>8 DEF Uninstall, RemoveId
    <3>2. node' = node /\ bundles' = bundles /\ inbox' = inbox /\ stored' = stored /\ e \in online
          /\ refused' = refused
      BY <2>1, <3>1 DEF PublishWithout
    <3>3. CASE e = d
      BY <1>2, <2>1, <2>3, <3>1, <3>2, <3>3, CommandIsKnown
    <3>4. CASE e # d
      <4>1. outbox'[e] = outbox[e]
        BY <1>2, <3>1, <3>4 DEF TypeOK, PublishWithout
      <4>2. e \in uninstalled' <=> e \in uninstalled
        BY <2>8, <3>4 DEF Uninstall, RemoveId
      <4> QED BY <2>1, <2>3, <3>2, <4>1, <4>2, OthersStayKnown
    <3> QED BY <3>3, <3>4
  <2>9. ASSUME NEW d \in Devices, ListIsPublished(d) PROVE Known(e)'
    <3>1. e \in online
      BY <2>1, <2>9 DEF ListIsPublished, ServerReads, client
    <3>2. inbox'[e] = Append(inbox[e], node') /\ inbox[e] \in Seq(Answers)
      BY <2>2, <2>9, <3>1 DEF ListIsPublished
    <3>3. node' \in Answers
      <4>1. Head(outbox[d]) \in Stanzas
        BY <1>2, <2>9, HeadTailProperties DEF TypeOK, ListIsPublished, ServerReads
      <4> QED BY <2>9, <4>1 DEF ListIsPublished, Stanzas, Answers
    <3> QED BY <3>2, <3>3, TheToldAreKnown
  <2>10. ASSUME NEW d \in Devices,
                BundleIsPublished(d) \/ RequestIsAnswered(d) \/ PublicationIsRefused(d)
         PROVE  Known(e)'
    <3>1. node' = node /\ bundles \subseteq bundles' /\ stored' = stored
          /\ uninstalled' = uninstalled /\ e \in online
      BY <2>1, <2>10
         DEF BundleIsPublished, RequestIsAnswered, PublicationIsRefused, ServerReads, client
    <3>2. CASE e = d
      BY <1>2, <2>1, <2>3, <2>10, <3>1, <3>2, ReadIsKnown
    <3>3. CASE e # d
      <4>1. inbox'[e] = inbox[e] /\ outbox'[e] = outbox[e]
        BY <1>2, <2>10, <3>3 DEF TypeOK, BundleIsPublished, RequestIsAnswered,
                                 PublicationIsRefused, ServerReads
      <4>2. e \in refused' <=> e \in refused
        BY <2>10, <3>3 DEF BundleIsPublished, RequestIsAnswered, PublicationIsRefused
      <4> QED BY <2>1, <2>3, <3>1, <4>1, <4>2, OthersStayKnown
    <3> QED BY <3>2, <3>3
  <2> QED BY <1>2, <2>4, <2>5, <2>6, <2>7, <2>8, <2>9, <2>10 DEF Next
<1>3. TypeOK /\ IInv => QuietIsSettled
  <2>1. SUFFICES ASSUME NEW d \in Devices \ refused, Known(d), Quiet(d) PROVE Settled(d)
    BY DEF IInv, QuietIsSettled, Quiet
  <2>2. inbox[d] = <<>> /\ outbox[d] = <<>> /\ Len(<<>>) = 0
    BY <2>1, EmptySeq DEF Quiet
  <2>3. ~Says(outbox[d], "list") /\ ~Says(outbox[d], "bundle")
    BY <2>2 DEF Says
  <2> QED BY <2>1, <2>2, <2>3 DEF Known, Tracked, Bundled, AtRest, Settled
<1> QED BY <1>1, <1>2, <1>3, TypeCorrect, PTL DEF Spec

=============================================================================
