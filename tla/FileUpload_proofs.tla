-------------------------- MODULE FileUpload_proofs --------------------------
(***************************************************************************)
(* Theorems about FileUpload and FileCypher, for every set of files and    *)
(* conversations, for files and tags of any size and reads of any size.    *)
(*                                                                         *)
(* FileCypher is FileUpload's instance File, so its theorems are stated of *)
(* that; the lemmas on the table are those of MessageStore_proofs, which   *)
(* extends MessageStore and so has other variables than this module.       *)
(***************************************************************************)
EXTENDS FileUpload, SequenceTheorems, WellFoundedInduction, FiniteSetTheorems, TLAPS

-----------------------------------------------------------------------------
(* FileCypher: the file as the network reads it.                           *)

FileSizes == {FileSize[f] : f \in FileIds}

LEMMA SizesOK == FileSizes \subseteq Nat /\ ReadSizes \subseteq Nat
BY UploadAssumption DEF UploadAssumption, FileSizes

(* What the cipher has encrypted is what was read, until the file is read  *)
(* again; and a tag is read as a whole.                                    *)
CipherFollows ==
    /\ open /\ cipher /\ ~resent => encrypted = IF pos < fileSize THEN pos ELSE fileSize
    /\ pos > fileSize => cipher /\ pos = fileSize + TagSize

Closed == ~open => pos = 0 /\ sent = <<>> /\ eof = FALSE

FileInv == /\ File!TypeOK /\ pos = Len(sent) /\ Closed /\ CipherFollows
           /\ File!SentIsWanted
           /\ eof => pos = File!Size

-----------------------------------------------------------------------------
LEMMA FileInit == File!Init => FileInv
<1> SUFFICES ASSUME File!Init PROVE FileInv
    OBVIOUS
<1>1. sent \in Seq(File!Sent) /\ Len(sent) = 0
    BY EmptySeq DEF File!Init
<1>2. File!TypeOK
    BY <1>1 DEF File!Init, File!TypeOK
<1> QED
    BY <1>1, <1>2 DEF File!Init, FileInv, Closed, CipherFollows, File!SentIsWanted

(* When the next n bytes that are handed out are the wanted ones, or the   *)
(* file is read again with its old cipher, what was sent stays as wanted.  *)
LEMMA AppendsWanted ==
    ASSUME FileInv, NEW n \in Nat, NEW bytes \in Seq(File!Sent), Len(bytes) = n, File!Reads(bytes),
           UNCHANGED <<fileSize, cipher, resent>>,
           ~(cipher /\ resent) => \A i \in 1 .. n : bytes[i] = File!Wanted(pos + i)
    PROVE  /\ sent' \in Seq(File!Sent) /\ pos' = pos + n /\ pos' = Len(sent')
           /\ File!SentIsWanted'
<1>1. sent \in Seq(File!Sent) /\ pos = Len(sent) /\ pos \in Nat
    BY DEF FileInv, File!TypeOK
<1>2. sent' = sent \o bytes /\ pos' = pos + n
    BY DEF File!Reads
<1>3. /\ sent' \in Seq(File!Sent) /\ Len(sent') = pos + n
      /\ \A j \in 1 .. pos + n :
            sent'[j] = IF j <= pos THEN sent[j] ELSE bytes[j - pos]
    BY <1>1, <1>2, ConcatProperties
<1>4. ASSUME ~(cipher /\ resent), NEW j \in 1 .. pos + n
      PROVE  sent'[j] = File!Wanted(j)
    <2>1. CASE j <= pos
        <3>1. \A k \in 1 .. Len(sent) : sent[k] = File!Wanted(k)
            BY <1>4 DEF FileInv, File!SentIsWanted
        <3>2. j \in 1 .. Len(sent) /\ sent'[j] = sent[j]
            BY <1>1, <1>3, <2>1
        <3> QED
            BY <3>1, <3>2
    <2>2. CASE ~(j <= pos)
        <3>1. j - pos \in 1 .. n /\ pos + (j - pos) = j
            BY <1>1, <2>2
        <3>2. bytes[j - pos] = File!Wanted(pos + (j - pos))
            BY <1>4, <3>1
        <3> QED
            BY <1>3, <2>2, <3>1, <3>2
    <2> QED
        BY <2>1, <2>2
<1>5. \A j : File!Wanted(j)' = File!Wanted(j)
    BY DEF File!Wanted
<1> QED
    BY <1>2, <1>3, <1>4, <1>5 DEF File!SentIsWanted

-----------------------------------------------------------------------------
(* readData while the file lasts. *)
LEMMA ReadsData ==
    ASSUME FileInv, open, NEW n \in Nat \ {0}, pos + n <= fileSize,
           encrypted' = IF cipher THEN encrypted + n ELSE encrypted,
           File!Reads(File!NextBytes(n)), UNCHANGED <<fileSize, cipher, open, resent>>
    PROVE  FileInv'
<1>1. /\ pos \in Nat /\ fileSize \in Nat /\ encrypted \in Nat
      /\ cipher \in BOOLEAN /\ resent \in BOOLEAN /\ open \in BOOLEAN
    BY DEF FileInv, File!TypeOK
<1> DEFINE bytes == File!NextBytes(n)
<1>2. bytes \in Seq(File!Sent) /\ Len(bytes) = n
    <2>1. \A i \in 1 .. n : File!Data(pos + i, IF cipher THEN encrypted + i ELSE 0) \in File!Sent
        BY <1>1 DEF File!Data, File!Sent
    <2> QED
        BY <2>1 DEF File!NextBytes
<1>3. ASSUME ~(cipher /\ resent), NEW i \in 1 .. n
      PROVE  bytes[i] = File!Wanted(pos + i)
    <2>1. cipher => encrypted = pos
        BY <1>1, <1>3 DEF FileInv, CipherFollows
    <2>2. pos + i <= fileSize
        BY <1>1
    <2> QED
        BY <2>1, <2>2 DEF File!NextBytes, File!Wanted
<1>4. sent' \in Seq(File!Sent) /\ pos' = pos + n /\ pos' = Len(sent') /\ File!SentIsWanted'
    BY <1>2, <1>3, AppendsWanted
<1>5. eof' = FALSE
    <2>1. bytes # <<>>
        BY <1>2, EmptySeq
    <2> QED
        BY <2>1 DEF File!Reads
<1>6. CipherFollows'
    <2>1. open /\ cipher /\ ~resent => encrypted' = pos + n
        BY <1>1 DEF FileInv, CipherFollows
    <2> QED
        BY <1>1, <1>4, <2>1 DEF CipherFollows
<1>7. File!TypeOK'
    <2>1. encrypted' \in Nat /\ pos' \in Nat
        BY <1>1, <1>4
    <2> QED
        BY <1>1, <1>4, <1>5, <2>1 DEF File!TypeOK
<1> QED
    BY <1>4, <1>5, <1>6, <1>7 DEF FileInv, Closed

(* readData when the file has been read: the tag, once.                    *)
LEMMA ReadsTag ==
    ASSUME FileInv, open, File!TagIsDue, File!Reads([i \in 1 .. TagSize |-> File!Tag(i, encrypted)]),
           UNCHANGED <<fileSize, cipher, encrypted, open, resent>>
    PROVE  FileInv'
<1> TagSize \in Nat \ {0}
    BY TagAssumption DEF TagAssumption
<1>1. /\ pos \in Nat /\ fileSize \in Nat /\ encrypted \in Nat
      /\ cipher \in BOOLEAN /\ resent \in BOOLEAN /\ open \in BOOLEAN
    BY DEF FileInv, File!TypeOK
<1>2. cipher /\ pos = fileSize
    BY <1>1 DEF File!TagIsDue, File!Size
<1> DEFINE bytes == [i \in 1 .. TagSize |-> File!Tag(i, encrypted)]
<1>3. bytes \in Seq(File!Sent) /\ Len(bytes) = TagSize
    <2>1. \A i \in 1 .. TagSize : File!Tag(i, encrypted) \in File!Sent
        BY <1>1 DEF File!Tag, File!Sent
    <2> QED
        BY <2>1
<1>4. ASSUME ~(cipher /\ resent), NEW i \in 1 .. TagSize
      PROVE  bytes[i] = File!Wanted(pos + i)
    <2>1. encrypted = fileSize
        BY <1>1, <1>2, <1>4 DEF FileInv, CipherFollows
    <2>2. ~(pos + i <= fileSize) /\ (pos + i) - fileSize = i
        BY <1>1, <1>2
    <2> QED
        BY <2>1, <2>2 DEF File!Wanted
<1>5. sent' \in Seq(File!Sent) /\ pos' = pos + TagSize /\ pos' = Len(sent') /\ File!SentIsWanted'
    BY <1>3, <1>4, AppendsWanted
<1>6. eof' = FALSE
    <2>1. bytes # <<>>
        BY <1>3, EmptySeq
    <2> QED
        BY <2>1 DEF File!Reads
<1>7. CipherFollows'
    <2>1. open /\ cipher /\ ~resent => encrypted = fileSize
        BY <1>1, <1>2 DEF FileInv, CipherFollows
    <2> QED
        BY <1>1, <1>2, <1>5, <2>1 DEF CipherFollows
<1>8. File!TypeOK'
    <2>1. pos' \in Nat /\ encrypted' \in Nat
        BY <1>1, <1>5
    <2> QED
        BY <1>1, <1>5, <1>6, <2>1 DEF File!TypeOK
<1> QED
    BY <1>5, <1>6, <1>7, <1>8 DEF FileInv, Closed

(* readData at the end. *)
LEMMA ReadsNothing ==
    ASSUME FileInv, open, ~File!TagIsDue, pos >= fileSize, File!Reads(<<>>),
           UNCHANGED <<fileSize, cipher, encrypted, open, resent>>
    PROVE  FileInv'
<1> TagSize \in Nat \ {0}
    BY TagAssumption DEF TagAssumption
<1>1. /\ pos \in Nat /\ fileSize \in Nat /\ cipher \in BOOLEAN
      /\ sent \in Seq(File!Sent) /\ pos = Len(sent)
    BY DEF FileInv, File!TypeOK
<1>2. sent' = sent /\ pos' = pos /\ eof' = TRUE
    BY <1>1, ConcatEmptySeq, EmptySeq DEF File!Reads
<1>3. pos = File!Size
    BY <1>1 DEF FileInv, CipherFollows, File!TagIsDue, File!Size
<1>4. File!Size' = File!Size
    BY DEF File!Size
<1>5. File!TypeOK'
    BY <1>2 DEF FileInv, File!TypeOK
<1>6. Closed' /\ CipherFollows'
    BY <1>2 DEF FileInv, Closed, CipherFollows
<1>7. File!SentIsWanted'
    BY <1>2 DEF FileInv, File!SentIsWanted, File!Wanted
<1> QED
    BY <1>1, <1>2, <1>3, <1>4, <1>5, <1>6, <1>7 DEF FileInv

LEMMA ReadDataOK ==
    ASSUME FileInv, NEW maxSize \in Nat, File!ReadData(maxSize)
    PROVE  FileInv'
<1> TagSize \in Nat \ {0}
    BY TagAssumption DEF TagAssumption
<1> DEFINE left == IF pos < fileSize THEN fileSize - pos ELSE 0
           n == IF maxSize < left THEN maxSize ELSE left
<1>1. pos \in Nat /\ fileSize \in Nat /\ open /\ maxSize >= TagSize
      /\ UNCHANGED <<fileSize, cipher, open, resent>>
    BY DEF FileInv, File!TypeOK, File!ReadData
<1>2. n \in Nat /\ (n > 0 => pos + n <= fileSize) /\ (n = 0 => pos >= fileSize)
    BY <1>1
<1>3. \/ /\ n > 0
         /\ encrypted' = IF cipher THEN encrypted + n ELSE encrypted
         /\ File!Reads(File!NextBytes(n))
      \/ /\ n = 0 /\ File!TagIsDue
         /\ File!Reads([i \in 1 .. TagSize |-> File!Tag(i, encrypted)])
         /\ UNCHANGED encrypted
      \/ /\ n = 0 /\ ~File!TagIsDue
         /\ File!Reads(<<>>)
         /\ UNCHANGED encrypted
    BY DEF File!ReadData
<1> HIDE DEF n
<1>4. n > 0 => n \in Nat \ {0}
    BY <1>2
<1> QED
    BY <1>1, <1>2, <1>3, <1>4, ReadsData, ReadsTag, ReadsNothing

-----------------------------------------------------------------------------
(* A file nothing was read of yet. *)
LEMMA NothingRead ==
    ASSUME fileSize' \in Nat, cipher' \in BOOLEAN, encrypted' \in Nat, open' \in BOOLEAN,
           resent' \in BOOLEAN, sent' = <<>>, pos' = 0, eof' = FALSE,
           open' /\ cipher' /\ ~resent' => encrypted' = 0
    PROVE  FileInv'
<1>0. Len(sent') = 0 /\ sent' \in Seq(File!Sent)
    BY EmptySeq
<1>1. File!TypeOK'
    BY <1>0 DEF File!TypeOK
<1>2. Closed' /\ CipherFollows'
    BY DEF Closed, CipherFollows
<1>3. File!SentIsWanted'
    BY <1>0 DEF File!SentIsWanted
<1> QED
    BY <1>0, <1>1, <1>2, <1>3 DEF FileInv

LEMMA FileNext == FileInv /\ [File!Next]_File!vars => FileInv'
<1> SUFFICES ASSUME FileInv, [File!Next]_File!vars PROVE FileInv'
    OBVIOUS
<1>0. /\ fileSize \in Nat /\ cipher \in BOOLEAN /\ encrypted \in Nat /\ open \in BOOLEAN
      /\ resent \in BOOLEAN
      /\ ~open => sent = <<>> /\ pos = 0 /\ eof = FALSE
    BY DEF FileInv, File!TypeOK, Closed
<1>1. ASSUME NEW n \in FileSizes, File!SetFileName(n) PROVE FileInv'
    BY <1>0, <1>1, SizesOK, NothingRead DEF File!SetFileName, File!NewName
<1>2. ASSUME NEW encrypt \in BOOLEAN, File!InitEncryptionOnRead(encrypt) PROVE FileInv'
    BY <1>0, <1>2, NothingRead DEF File!InitEncryptionOnRead, File!NewCipher
<1>3. ASSUME NEW n \in ReadSizes, File!ReadData(n) PROVE FileInv'
    BY <1>3, SizesOK, ReadDataOK
<1>4. CASE File!Reset
    <2>1. resent' \in BOOLEAN /\ (~resent' => encrypted' = 0)
        <3>1. encrypted' = encrypted /\ resent' = (resent \/ encrypted > 0)
            BY <1>4 DEF File!Reset
        <3>2. CASE encrypted > 0
            <4>1. resent' = TRUE
                BY <3>1, <3>2, Zenon
            <4> QED
                BY <4>1
        <3>3. CASE ~(encrypted > 0)
            <4>1. resent' = resent
                BY <1>0, <3>1, <3>3, Zenon
            <4>2. encrypted = 0
                BY <1>0, <3>3
            <4> QED
                BY <1>0, <3>1, <4>1, <4>2
        <3> QED
            BY <3>2, <3>3
    <2> QED
        BY <1>0, <1>4, <2>1, NothingRead DEF File!Reset
<1>5. CASE File!Close
    BY <1>0, <1>5, NothingRead DEF File!Close
<1>6. CASE File!Restart
    BY <1>6, NothingRead DEF File!Restart
<1>7. CASE UNCHANGED File!vars
    BY <1>7 DEF File!vars, FileInv, File!TypeOK, Closed, CipherFollows, File!SentIsWanted, File!Wanted, File!Size
<1> QED
    BY <1>1, <1>2, <1>3, <1>4, <1>5, <1>6, <1>7 DEF File!Next, FileSizes

LEMMA FileInvariant == File!Spec => []FileInv
BY FileInit, FileNext, PTL DEF File!Spec

-----------------------------------------------------------------------------
-----------------------------------------------------------------------------
(* The tables.                                                             *)

LEMMA LeastNumber ==
  ASSUME NEW S \in SUBSET Nat, S # {}
  PROVE  \E m \in S : \A n \in S : m <= n
<1> DEFINE R == {ss \in Nat \X Nat : ss[1] < ss[2]}
<1>1. IsWellFoundedOn(R, Nat)
  BY NatLessThanWellFounded DEF OpToRel
<1>2. PICK m \in S : \A n \in S : <<n, m>> \notin R
  BY <1>1, WFMin
<1>3. \A n \in S : m <= n
  <2> TAKE n \in S
  <2>1. n \in Nat /\ m \in Nat
    OBVIOUS
  <2>2. <<n, m>> \in Nat \X Nat /\ <<n, m>>[1] = n /\ <<n, m>>[2] = m
    BY <2>1
  <2>3. ~ (n < m)
    BY <1>2, <2>2
  <2>4. QED
    BY <2>1, <2>3
<1>4. QED
  BY <1>3

LEMMA LastRow ==
  ASSUME NEW t, IsTable(t)
  PROVE  /\ NextRow(t) \in Nat \ {0}
         /\ \A r \in DOMAIN t : r < NextRow(t)
<1>1. CASE DOMAIN t = {}
  BY <1>1 DEF NextRow
<1>2. CASE DOMAIN t # {}
  <2> DEFINE Up == {MaxRow - r : r \in DOMAIN t}
  <2>1. Up \in SUBSET Nat /\ Up # {}
    BY <1>2, TableAssumption DEF IsTable
  <2>2. PICK m \in Up : \A n \in Up : m <= n
    BY <2>1, LeastNumber
  <2>3. PICK r \in DOMAIN t : m = MaxRow - r
    BY <2>2
  <2>4. \A s \in DOMAIN t : s <= r
    <3> TAKE s \in DOMAIN t
    <3>1. MaxRow - r <= MaxRow - s
      BY <2>2, <2>3
    <3>2. r \in Int /\ s \in Int
      BY DEF IsTable
    <3>3. QED
      BY <3>1, <3>2, TableAssumption
  <2>5. QED
    BY <1>2, <2>4 DEF NextRow, IsTable
<1>3. QED
  BY <1>1, <1>2

LEMMA EmptyFunction ==
  /\ DOMAIN EmptyTable = {}
  /\ EmptyTable = [r \in DOMAIN EmptyTable |-> EmptyTable[r]]
<1>1. DOMAIN EmptyTable = {}
  BY DEF EmptyTable
<1>2. [r \in {} |-> EmptyTable[r]] = [r \in {} |-> r]
  OBVIOUS
<1>3. QED
  BY <1>1, <1>2 DEF EmptyTable

LEMMA AddMessageType ==
  ASSUME NEW t, IsTable(t), NextRow(t) <= MaxRow, NEW id \in Ids, NEW jid \in Jids,
         NEW direction \in Direction, NEW time \in Times
  PROVE  IsTable(AddMessage(t, id, jid, direction, time))
<1> DEFINE row == [id |-> id, jid |-> jid, direction |-> direction,
                   state |-> DEFAULT, time |-> time]
           u == [r \in DOMAIN t \cup {NextRow(t)} |->
                    IF r = NextRow(t) THEN row ELSE t[r]]
<1>1. NextRow(t) \in 1 .. MaxRow
  BY LastRow, TableAssumption
<1>2. row \in Row
  BY DEF Row, MessageState, DEFAULT
<1>3. IsTable(u)
  <2> HIDE DEF row
  <2> QED BY <1>1, <1>2 DEF IsTable
<1>4. AddMessage(t, id, jid, direction, time) \in {t, u}
  BY DEF AddMessage
<1>5. QED
  BY <1>3, <1>4

LEMMA SetStateType ==
  ASSUME NEW t, IsTable(t), NEW id, NEW state \in MessageState
  PROVE  IsTable(SetMessageStateOfId(t, id, state))
BY DEF SetMessageStateOfId, IsTable, Row

LEMMA RemoveType ==
  ASSUME NEW t, IsTable(t), NEW id, NEW jid
  PROVE  /\ IsTable(RemoveMessage(t, id, jid))
         /\ IsTable(RemoveMessagesFromJid(t, jid))
BY DEF RemoveMessage, RemoveMessagesFromJid, IsTable

LEMMA FailUploadsType ==
  ASSUME NEW t, IsTable(t)
  PROVE  IsTable(FailInterruptedUploads(t))
BY DEF FailInterruptedUploads, IsTable, Row, MessageState, SEND_FAILED

LEMMA OperationsHoldEachOnce ==
  ASSUME NEW t, IsTable(t), HoldsEachOnce(t), NEW id, NEW jid, NEW direction,
         NEW time, NEW state
  PROVE  /\ HoldsEachOnce(AddMessage(t, id, jid, direction, time))
         /\ HoldsEachOnce(SetMessageStateOfId(t, id, state))
         /\ HoldsEachOnce(RemoveMessage(t, id, jid))
         /\ HoldsEachOnce(RemoveMessagesFromJid(t, jid))
         /\ HoldsEachOnce(FailInterruptedUploads(t))
<1>1. HoldsEachOnce(AddMessage(t, id, jid, direction, time))
  BY DEF HoldsEachOnce, AddMessage, IsMessageIdForJid
<1>2. HoldsEachOnce(SetMessageStateOfId(t, id, state))
  BY DEF HoldsEachOnce, SetMessageStateOfId, IsTable, Row
<1>3. HoldsEachOnce(FailInterruptedUploads(t))
  BY DEF HoldsEachOnce, FailInterruptedUploads, IsTable, Row
<1>4. QED
  BY <1>1, <1>2, <1>3
     DEF HoldsEachOnce, RemoveMessage, RemoveMessagesFromJid

LEMMA SameTable ==
  ASSUME NEW t
  PROVE  /\ Store!IsTable(t) <=> IsTable(t)
         /\ Store!NextRow(t) = NextRow(t)
BY DEF Store!IsTable, IsTable, Store!Row, Row, Store!MessageState, MessageState,
       Store!Direction, Direction, Store!NextRow, NextRow

IsSessions(s) == /\ DOMAIN s \subseteq Jids
                 /\ s = [j \in DOMAIN s |-> s[j]]
                 /\ \A j \in DOMAIN s : s[j] \in 0 .. MaxUnread

LEMMA UpdatedType ==
  ASSUME NEW s, IsSessions(s), NEW jid \in Jids, NEW p, Store!UnreadOf(s, jid) < MaxUnread
  PROVE  IsSessions(Store!UpdateSession(s, jid, p))
BY UploadAssumption DEF UploadAssumption, IsSessions, Store!UpdateSession, Store!UnreadOf

LEMMA RemovedType ==
  ASSUME NEW s, IsSessions(s), NEW jid
  PROVE  IsSessions(Store!RemoveSession(s, jid))
BY DEF IsSessions, Store!RemoveSession

-----------------------------------------------------------------------------
(* The manager and the row of a file.                                      *)

(* The row of a file has an id no other message has, in the chat it was    *)
(* chosen for; so has that of its url, which comes later.                  *)
Rows(t) ==
    \A r \in DOMAIN t, f \in FileIds :
       t[r].id \in {f, Url[f]} => stage[f] # "unsent" /\ t[r].jid = chosen[f]

(* The members are those of the request that runs; notSentMsgId_ only for  *)
(* a user who waits.                                                       *)
Turn ==
    \A f \in Running :
       /\ busy /\ file_ = f /\ jid_ = chosen[f]
       /\ mishaps = {} => notSentMsgId = f
       /\ stage[f] = "slot" => fileSize = FileSize[f]

(* The file is open only while its request is on its way.                  *)
OpenIsPut ==
    open => /\ file_ \in FileIds /\ stage[file_] = "put"
            /\ fileSize = FileSize[file_] /\ cipher = encryptFile_

MembersOK == /\ encryptFile_ \in BOOLEAN
             /\ notSentMsgId \in FileIds \cup {NoId}
             /\ busy \in BOOLEAN
             /\ jid_ \in Jids \cup {NoJid}
             /\ file_ \in FileIds \cup {NoId}
             /\ stage \in [FileIds -> Stage]
             /\ chosen \in [FileIds -> Jids \cup {NoJid}]
             /\ \A f \in FileIds : stage[f] # "unsent" => chosen[f] \in Jids
             /\ mishaps \subseteq Mishap

TablesOK == IsTable(messages) /\ IsSessions(sessions) /\ HoldsEachOnce(messages)

(* No row is shown as uploading but that of a running request.             *)
ShownRuns(t) == \A r \in DOMAIN t : t[r].state = 4 => t[r].id \in Running

IInv == /\ TablesOK /\ MembersOK /\ Rows(messages) /\ Turn /\ OpenIsPut
        /\ mishaps = {} => ShownRuns(messages)

LEMMA Uploading == UploadingIsRunning <=> (mishaps = {} => ShownRuns(messages))
BY DEF UploadingIsRunning, ShownAsUploading, ShownRuns, UPLOADING_ATTACHMENT

LEMMA UrlsAre ==
  ASSUME NEW f \in FileIds
  PROVE  f \in Ids /\ Url[f] \in Ids /\ \A g \in FileIds : Url[f] # g /\ (Url[g] = Url[f] => g = f)
BY UploadAssumption DEF UploadAssumption

(* What a mark does to the rows: nothing, or it changes all with the id.   *)
LEMMA MarkedRows ==
  ASSUME NEW t, IsTable(t), HoldsEachOnce(t), NEW id, NEW state \in MessageState
  PROVE  LET u == SetMessageStateOfId(t, id, state)
         IN  /\ IsTable(u) /\ HoldsEachOnce(u) /\ DOMAIN u = DOMAIN t
             /\ \A r \in DOMAIN t : /\ u[r].id = t[r].id /\ u[r].jid = t[r].jid
                                    /\ t[r].id # id => u[r] = t[r]
<1> DEFINE u == SetMessageStateOfId(t, id, state)
<1>1. IsTable(u) /\ HoldsEachOnce(u)
  BY SetStateType, OperationsHoldEachOnce
<1>2. DOMAIN u = DOMAIN t /\ \A r \in DOMAIN t : /\ u[r].id = t[r].id /\ u[r].jid = t[r].jid
                                                 /\ t[r].id # id => u[r] = t[r]
  BY DEF SetMessageStateOfId, IsTable, Row
<1>3. QED
  BY <1>1, <1>2

(* A file's only row, marked as failed, is not shown as uploading.         *)
LEMMA FailedIsNotShown ==
  ASSUME NEW t, IsTable(t), NEW id, \A r, s \in DOMAIN t : t[r].id = id /\ t[s].id = id => r = s
  PROVE  LET u == SetMessageStateOfId(t, id, SEND_FAILED)
         IN  \A r \in DOMAIN u : u[r].id = id => u[r].state # 4
<1> DEFINE u == SetMessageStateOfId(t, id, SEND_FAILED)
<1> SUFFICES ASSUME NEW r \in DOMAIN u, u[r].id = id, u[r].state = 4 PROVE FALSE
  OBVIOUS
<1>1. DOMAIN u = DOMAIN t /\ t[r].id = id
  BY DEF SetMessageStateOfId, IsTable, Row
<1>2. CASE ValidStateChange(StateOfMessageId(t, id), SEND_FAILED)
  <2>1. u[r].state = SEND_FAILED
    BY <1>1, <1>2 DEF SetMessageStateOfId, IsTable, Row
  <2>2. QED
    BY <2>1 DEF SEND_FAILED
<1>3. CASE ~ ValidStateChange(StateOfMessageId(t, id), SEND_FAILED)
  <2>1. u = t
    BY <1>3 DEF SetMessageStateOfId
  <2>2. RowsOfId(t, id) = {r}
    BY <1>1 DEF RowsOfId
  <2>3. FirstRowOfId(t, id) = r
    <3>1. r <= r
      BY <1>1 DEF IsTable
    <3>2. \E q \in {r} : \A s \in {r} : q <= s
      BY <3>1
    <3>3. QED
      BY <2>2, <3>2 DEF FirstRowOfId
  <2>4. StateOfMessageId(t, id) = 4
    BY <2>1, <2>2, <2>3 DEF StateOfMessageId
  <2>5. QED
    BY <1>3, <2>4 DEF ValidStateChange, UPLOADING_ATTACHMENT
<1>4. QED
  BY <1>2, <1>3

LEMMA AddedRow ==
  ASSUME NEW t, IsTable(t), HoldsEachOnce(t), NEW id \in Ids, NEW jid \in Jids,
         NextRow(t) <= MaxRow
  PROVE  LET u == AddMessage(t, id, jid, "out", 1)
         IN  /\ IsTable(u) /\ HoldsEachOnce(u)
             /\ \A r \in DOMAIN u :
                   \/ r \in DOMAIN t /\ u[r] = t[r]
                   \/ r \notin DOMAIN t /\ u[r].id = id /\ u[r].jid = jid /\ u[r].state = 0
<1> DEFINE u == AddMessage(t, id, jid, "out", 1)
<1>1. IsTable(u) /\ HoldsEachOnce(u)
  BY AddMessageType, OperationsHoldEachOnce, UploadAssumption
     DEF UploadAssumption, Direction
<1>2. NextRow(t) \notin DOMAIN t
  BY LastRow DEF IsTable
<1>3. \A r \in DOMAIN u :
         \/ r \in DOMAIN t /\ u[r] = t[r]
         \/ r \notin DOMAIN t /\ u[r].id = id /\ u[r].jid = jid /\ u[r].state = 0
  BY <1>2 DEF AddMessage, DEFAULT
<1>4. QED
  BY <1>1, <1>3

(* The row of a running file, in a table whose rows are in order.          *)
LEMMA OneRow ==
  ASSUME NEW t, HoldsEachOnce(t), Rows(t), NEW f \in FileIds
  PROVE  \A r, s \in DOMAIN t : t[r].id = f /\ t[s].id = f => r = s
BY DEF HoldsEachOnce, Rows

LEMMA GrowOK ==
  ASSUME IInv, NEW t, NEW id, NEW jid \in Jids, Store!MayGrow(t, sessions, jid)
  PROVE  NextRow(t) <= MaxRow /\ IsSessions(SessionsWith(id, jid))
BY SameTable, UpdatedType DEF Store!MayGrow, SessionsWith, IInv, TablesOK

-----------------------------------------------------------------------------
LEMMA ManagerInit == Init => IInv
<1> SUFFICES ASSUME Init PROVE IInv
  OBVIOUS
<1>1. TablesOK
  BY EmptyFunction DEF Init, TablesOK, IsTable, IsSessions, HoldsEachOnce
<1>2. MembersOK
  <2>1. \A f \in FileIds : stage[f] = "unsent"
    BY DEF Init
  <2>2. stage \in [FileIds -> Stage] /\ chosen \in [FileIds -> Jids \cup {NoJid}]
    BY DEF Init, Stage
  <2>3. QED
    BY <2>1, <2>2 DEF Init, MembersOK
<1>3. Rows(messages) /\ ShownRuns(messages)
  BY EmptyFunction DEF Init, Rows, ShownRuns
<1>4. Turn
  BY DEF Init, Turn, Running
<1>5. OpenIsPut
  BY DEF Init, File!Init, OpenIsPut
<1>6. QED
  BY <1>1, <1>2, <1>3, <1>4, <1>5 DEF IInv

(* The request for a file: no other runs, as busy_ was not set.            *)
LEMMA SendFileOK ==
  ASSUME IInv, NEW id \in FileIds, NEW jid \in Jids, SendFile(id, jid)
  PROVE  IInv'
<1> DEFINE a == AddMessage(messages, id, jid, "out", 1)
           t == SetMessageStateOfId(a, id, UPLOADING_ATTACHMENT)
           v == SetMessageStateOfId(t, id, SEND_FAILED)
<1>1. /\ stage[id] = "unsent" /\ chosen' = [chosen EXCEPT ![id] = jid]
      /\ notSentMsgId' = id /\ sessions' = SessionsWith(id, jid)
      /\ mishaps' = IF busy THEN mishaps \cup {"hasty"} ELSE mishaps
      /\ Store!MayGrow(messages, sessions, jid)
  BY DEF SendFile
<1>2. IsTable(messages) /\ HoldsEachOnce(messages) /\ Rows(messages)
  BY DEF IInv, TablesOK
<1>3. NextRow(messages) <= MaxRow /\ IsSessions(sessions')
  BY <1>1, GrowOK
<1>4. id \in Ids /\ UPLOADING_ATTACHMENT \in MessageState /\ SEND_FAILED \in MessageState
  BY UrlsAre DEF MessageState, UPLOADING_ATTACHMENT, SEND_FAILED
<1>5. /\ IsTable(a) /\ HoldsEachOnce(a)
      /\ \A r \in DOMAIN a :
            \/ r \in DOMAIN messages /\ a[r] = messages[r]
            \/ r \notin DOMAIN messages /\ a[r].id = id /\ a[r].jid = jid /\ a[r].state = 0
  BY <1>2, <1>3, <1>4, AddedRow
<1> HIDE DEF a
<1>6. /\ IsTable(t) /\ HoldsEachOnce(t) /\ DOMAIN t = DOMAIN a
      /\ \A r \in DOMAIN a : /\ t[r].id = a[r].id /\ t[r].jid = a[r].jid
                             /\ a[r].id # id => t[r] = a[r]
  BY <1>4, <1>5, MarkedRows
<1> HIDE DEF t
<1>7. /\ IsTable(v) /\ HoldsEachOnce(v) /\ DOMAIN v = DOMAIN t
      /\ \A r \in DOMAIN t : /\ v[r].id = t[r].id /\ v[r].jid = t[r].jid
                             /\ t[r].id # id => v[r] = t[r]
  BY <1>4, <1>6, MarkedRows
<1>8. stage \in [FileIds -> Stage] /\ chosen \in [FileIds -> Jids \cup {NoJid}] /\ id \notin Running
  BY <1>1 DEF IInv, MembersOK, Running
<1>9. \A r \in DOMAIN t : /\ t[r].id = id => t[r].jid = jid
                          /\ t[r].id # id => r \in DOMAIN messages /\ t[r] = messages[r]
  BY <1>1, <1>2, <1>5, <1>6 DEF Rows
<1>10. ASSUME NEW u, u \in {t, v}, messages' = u, stage' \in [FileIds -> Stage],
              stage'[id] # "unsent", \A f \in FileIds \ {id} : stage'[f] = stage[f]
       PROVE  Rows(messages)' /\ IsTable(messages') /\ HoldsEachOnce(messages')
  <2>1. \A r \in DOMAIN u : /\ r \in DOMAIN t /\ u[r].id = t[r].id /\ u[r].jid = t[r].jid
    BY <1>6, <1>7, <1>10
  <2>2. ASSUME NEW r \in DOMAIN u, NEW f \in FileIds, u[r].id \in {f, Url[f]}
        PROVE  stage'[f] # "unsent" /\ u[r].jid = chosen'[f]
    <3>1. CASE u[r].id = id
      <4>1. f = id
        BY <2>2, <3>1, UrlsAre
      <4>2. QED
        BY <1>1, <1>8, <1>9, <1>10, <2>1, <3>1, <4>1
    <3>2. CASE u[r].id # id
      <4>1. r \in DOMAIN messages /\ messages[r].id \in {f, Url[f]} /\ messages[r].jid = u[r].jid
        BY <1>9, <2>1, <2>2, <3>2
      <4>2. stage[f] # "unsent" /\ messages[r].jid = chosen[f]
        BY <1>2, <4>1 DEF Rows
      <4>3. f # id
        BY <1>1, <4>2
      <4>4. QED
        BY <1>1, <1>8, <1>10, <4>1, <4>2, <4>3
    <3>3. QED
      BY <3>1, <3>2
  <2>3. QED
    BY <1>6, <1>7, <1>10, <2>2 DEF Rows
<1>11. mishaps' \subseteq Mishap /\ (mishaps' = {} => mishaps = {} /\ ~busy)
  BY <1>1 DEF IInv, MembersOK, Mishap, Stuck
<1>12. ASSUME NEW encrypt \in BOOLEAN, RequestToUploadFileForJid(id, jid, encrypt), messages' = t
       PROVE  IInv'
  <2>1. /\ ~busy /\ busy' = TRUE /\ jid_' = jid /\ file_' = id /\ encryptFile_' = encrypt
        /\ stage' = [stage EXCEPT ![id] = "slot"]
        /\ fileSize' = FileSize[id] /\ UNCHANGED <<cipher, open>>
    BY <1>12 DEF RequestToUploadFileForJid, RequestHttpUploadSlot, File!NewName
  <2>2. /\ stage' \in [FileIds -> Stage] /\ stage'[id] = "slot"
        /\ \A f \in FileIds \ {id} : stage'[f] = stage[f]
    BY <1>8, <2>1 DEF Stage
  <2>3. Running = {} /\ ~open
    BY <2>1 DEF IInv, Turn, OpenIsPut, Running
  <2>4. Running' = {id}
    BY <1>8, <2>2, <2>3 DEF Running
  <2>5. Rows(messages)' /\ TablesOK'
    BY <1>3, <1>10, <1>12, <2>2 DEF TablesOK
  <2>6. MembersOK'
    BY <1>1, <1>8, <1>11, <2>1, <2>2 DEF IInv, MembersOK
  <2>7. Turn'
    BY <1>1, <1>8, <2>1, <2>2, <2>4 DEF Turn
  <2>8. OpenIsPut'
    BY <2>1, <2>3 DEF OpenIsPut
  <2>9. mishaps' = {} => ShownRuns(messages)'
    BY <1>9, <1>11, <1>12, <2>3, <2>4 DEF IInv, ShownRuns
  <2>10. QED
    BY <2>5, <2>6, <2>7, <2>8, <2>9 DEF IInv
<1>13. ASSUME messages' = v, stage' = [stage EXCEPT ![id] = "ended"],
              UNCHANGED <<busy, jid_, file_, request>>
       PROVE  IInv'
  <2>1. UNCHANGED <<encryptFile_, fileSize, cipher, open>>
    BY <1>13 DEF request, file
  <2>2. /\ stage' \in [FileIds -> Stage] /\ stage'[id] = "ended"
        /\ \A f \in FileIds \ {id} : stage'[f] = stage[f]
    BY <1>8, <1>13 DEF Stage
  <2>3. Running' = Running
    BY <1>8, <2>2 DEF Running
  <2>4. Rows(messages)' /\ TablesOK'
    BY <1>3, <1>10, <1>13, <2>2 DEF TablesOK
  <2>5. MembersOK'
    BY <1>1, <1>8, <1>11, <1>13, <2>1, <2>2 DEF IInv, MembersOK
  <2>6. Turn'
    <3> SUFFICES ASSUME NEW f \in Running
                 PROVE  /\ busy /\ file_ = f /\ jid_ = chosen'[f]
                        /\ mishaps' = {} => notSentMsgId' = f
                        /\ stage'[f] = "slot" => fileSize = FileSize[f]
      BY <1>13, <2>1, <2>3 DEF Turn
    <3>1. f # id /\ f \in FileIds /\ busy
      BY <1>8 DEF Running, IInv, Turn
    <3>2. QED
      BY <1>1, <1>8, <1>11, <2>2, <3>1 DEF IInv, Turn
  <2>7. OpenIsPut'
    BY <1>1, <1>13, <2>1, <2>2 DEF IInv, OpenIsPut
  <2>8. mishaps' = {} => ShownRuns(messages)'
    <3>1. \A r, s \in DOMAIN t : t[r].id = id /\ t[s].id = id => r = s
      BY <1>6, <1>9 DEF HoldsEachOnce
    <3>2. \A r \in DOMAIN v : v[r].id = id => v[r].state # 4
      BY <1>6, <3>1, FailedIsNotShown
    <3> HIDE DEF v
    <3>3. \A r \in DOMAIN v : v[r].id # id => r \in DOMAIN messages /\ v[r] = messages[r]
      BY <1>7, <1>9
    <3>4. QED
      BY <1>11, <1>13, <2>3, <3>2, <3>3 DEF IInv, ShownRuns
  <2>9. QED
    BY <2>4, <2>5, <2>6, <2>7, <2>8 DEF IInv
<1>14. QED
  BY <1>12, <1>13 DEF SendFile, a, t, v

(* The end of the request that runs, the only one: nothing is shown as     *)
(* uploading any more, if its row was marked or removed.                   *)
LEMMA RequestEnds ==
  ASSUME IInv, NEW id \in Running, stage' = [stage EXCEPT ![id] = "ended"],
         UNCHANGED <<jid_, file_, encryptFile_, chosen>>,
         ~open', busy' \in BOOLEAN, notSentMsgId' \in FileIds \cup {NoId},
         mishaps' \subseteq Mishap, mishaps' = {} => mishaps = {}, TablesOK',
         \A r \in DOMAIN messages' :
            \/ \E s \in DOMAIN messages : /\ messages'[r].id = messages[s].id
                                          /\ messages'[r].jid = messages[s].jid
            \/ messages'[r].id = Url[id] /\ messages'[r].jid = chosen[id],
         mishaps' = {} => \A r \in DOMAIN messages' : messages'[r].state # 4
  PROVE  IInv'
<1>1. stage \in [FileIds -> Stage] /\ id \in FileIds /\ stage[id] \in {"slot", "put"}
  BY DEF IInv, MembersOK, Running
<1>2. /\ stage' \in [FileIds -> Stage] /\ stage'[id] = "ended"
      /\ \A f \in FileIds \ {id} : stage'[f] = stage[f]
  BY <1>1 DEF Stage
<1>3. Running' = {}
  <2>1. Running \subseteq {id}
    BY DEF IInv, Turn
  <2>2. QED
    BY <1>2, <2>1 DEF Running
<1>4. Rows(messages)'
  <2> SUFFICES ASSUME NEW r \in DOMAIN messages', NEW f \in FileIds,
                      messages'[r].id \in {f, Url[f]}
               PROVE  stage'[f] # "unsent" /\ messages'[r].jid = chosen[f]
    BY DEF Rows
  <2>1. ASSUME NEW s \in DOMAIN messages, messages'[r].id = messages[s].id,
               messages'[r].jid = messages[s].jid
        PROVE  stage'[f] # "unsent" /\ messages'[r].jid = chosen[f]
    BY <1>2, <2>1 DEF IInv, Rows
  <2>2. ASSUME messages'[r].id = Url[id], messages'[r].jid = chosen[id]
        PROVE  stage'[f] # "unsent" /\ messages'[r].jid = chosen[f]
    BY <1>1, <1>2, <2>2, UrlsAre
  <2>3. QED
    BY <2>1, <2>2
<1>5. MembersOK'
  BY <1>1, <1>2 DEF IInv, MembersOK
<1>6. QED
  BY <1>3, <1>4, <1>5 DEF IInv, Turn, OpenIsPut, ShownRuns

LEMMA RunningIs ==
  ASSUME IInv, NEW id \in Running
  PROVE  /\ id \in FileIds /\ id = file_ /\ jid_ = chosen[id] /\ jid_ \in Jids
         /\ Running = {id} /\ (mishaps = {} => notSentMsgId = id)
         /\ stage[id] = "slot" => ~open /\ fileSize = FileSize[id]
BY DEF IInv, MembersOK, Turn, OpenIsPut, Running

(* attachmentUploadFailed marks the row of the file.                       *)
LEMMA FailedEnds ==
  ASSUME IInv, NEW id \in Running, AttachmentUploadFailed
  PROVE  /\ TablesOK' /\ notSentMsgId' = NoId
         /\ \A r \in DOMAIN messages' :
               \E s \in DOMAIN messages : /\ messages'[r].id = messages[s].id
                                          /\ messages'[r].jid = messages[s].jid
         /\ mishaps = {} => \A r \in DOMAIN messages' : messages'[r].state # 4
<1> DEFINE u == SetMessageStateOfId(messages, notSentMsgId, SEND_FAILED)
<1>1. messages' = u /\ notSentMsgId' = NoId /\ sessions' = sessions
  BY DEF AttachmentUploadFailed
<1>2. IsTable(messages) /\ HoldsEachOnce(messages) /\ SEND_FAILED \in MessageState
  BY DEF IInv, TablesOK, MessageState, SEND_FAILED
<1>3. /\ IsTable(u) /\ HoldsEachOnce(u) /\ DOMAIN u = DOMAIN messages
      /\ \A r \in DOMAIN messages : /\ u[r].id = messages[r].id /\ u[r].jid = messages[r].jid
                                    /\ messages[r].id # notSentMsgId => u[r] = messages[r]
  BY <1>2, MarkedRows
<1>4. ASSUME mishaps = {} PROVE \A r \in DOMAIN u : u[r].state # 4
  <2>1. notSentMsgId = id /\ id \in FileIds /\ Running = {id}
    BY <1>4, RunningIs
  <2>2. \A r, s \in DOMAIN messages : messages[r].id = id /\ messages[s].id = id => r = s
    BY <2>1, OneRow DEF IInv, TablesOK
  <2>3. \A r \in DOMAIN u : u[r].id = id => u[r].state # 4
    BY <1>2, <2>1, <2>2, FailedIsNotShown
  <2> HIDE DEF u
  <2>4. \A r \in DOMAIN messages : messages[r].state = 4 => messages[r].id = id
    BY <1>4, <2>1 DEF IInv, ShownRuns
  <2>5. QED
    BY <1>3, <2>1, <2>3, <2>4
<1> HIDE DEF u
<1>5. TablesOK'
  BY <1>1, <1>3 DEF IInv, TablesOK
<1>6. QED
  BY <1>1, <1>3, <1>4, <1>5

(* fileUploaded removes it and adds that of the url, in the same chat.     *)
LEMMA UploadedEnds ==
  ASSUME IInv, NEW id \in Running, FileUploaded
  PROVE  /\ TablesOK' /\ notSentMsgId' = NoId
         /\ \A r \in DOMAIN messages' :
               \/ \E s \in DOMAIN messages : /\ messages'[r].id = messages[s].id
                                             /\ messages'[r].jid = messages[s].jid
               \/ messages'[r].id = Url[id] /\ messages'[r].jid = chosen[id]
         /\ mishaps = {} => \A r \in DOMAIN messages' : messages'[r].state # 4
<1> DEFINE t == RemoveMessage(messages, notSentMsgId, jid_)
           u == AddMessage(t, Url[id], jid_, "out", 1)
<1>1. /\ id \in FileIds /\ id = file_ /\ jid_ = chosen[id] /\ jid_ \in Jids
      /\ Running = {id} /\ (mishaps = {} => notSentMsgId = id)
  BY RunningIs
<1>2. /\ messages' = u /\ sessions' = SessionsWith(Url[id], jid_) /\ notSentMsgId' = NoId
      /\ Store!MayGrow(t, sessions, jid_)
  BY <1>1 DEF FileUploaded
<1>3. NextRow(t) <= MaxRow /\ IsSessions(sessions')
  BY <1>1, <1>2, GrowOK
<1>4. IsTable(messages) /\ HoldsEachOnce(messages) /\ Rows(messages)
  BY DEF IInv, TablesOK
<1>5. IsTable(t) /\ HoldsEachOnce(t)
  BY <1>4, RemoveType, OperationsHoldEachOnce
<1>6. /\ DOMAIN t = {s \in DOMAIN messages : ~ (messages[s].id = notSentMsgId
                                                /\ messages[s].jid = jid_)}
      /\ \A r \in DOMAIN t : t[r] = messages[r]
  BY DEF RemoveMessage
<1> HIDE DEF t
<1>7. Url[id] \in Ids
  BY <1>1, UrlsAre
<1>8. /\ IsTable(u) /\ HoldsEachOnce(u)
      /\ \A r \in DOMAIN u :
            \/ r \in DOMAIN t /\ u[r] = t[r]
            \/ r \notin DOMAIN t /\ u[r].id = Url[id] /\ u[r].jid = jid_ /\ u[r].state = 0
  BY <1>1, <1>3, <1>5, <1>7, AddedRow
<1> HIDE DEF u
<1>9. ASSUME mishaps = {}, NEW r \in DOMAIN t PROVE t[r].state # 4
  <2>1. messages[r].state = 4 => messages[r].id = id
    BY <1>1, <1>6, <1>9 DEF IInv, ShownRuns
  <2>2. messages[r].id = id => messages[r].jid = jid_
    BY <1>1, <1>4, <1>6 DEF Rows
  <2>3. QED
    BY <1>1, <1>6, <1>9, <2>1, <2>2
<1>10. QED
  BY <1>1, <1>2, <1>3, <1>6, <1>8, <1>9 DEF TablesOK

LEMMA ResponseOK ==
  ASSUME IInv, NEW id \in FileIds, HandleHttpUploadResponse(id)
  PROVE  IInv'
<1>1. /\ stage[id] = "slot" /\ id \in Running /\ File!NewCipher(encryptFile_)
      /\ UNCHANGED <<jid_, file_, encryptFile_, announced, chosen>>
  BY DEF HandleHttpUploadResponse, Upload, Running
<1>2. Running = {id} /\ id = file_ /\ ~open /\ fileSize = FileSize[id]
  BY <1>1, RunningIs
<1>3. cipher' = encryptFile_ /\ fileSize' = fileSize /\ open' \in BOOLEAN
  BY <1>1 DEF File!NewCipher
<1>4. CASE /\ open' /\ stage' = [stage EXCEPT ![id] = "put"]
           /\ UNCHANGED <<messages, sessions, notSentMsgId, busy, mishaps>>
  <2>1. /\ stage' \in [FileIds -> Stage] /\ stage'[id] = "put"
        /\ \A f \in FileIds \ {id} : stage'[f] = stage[f]
    BY <1>4 DEF IInv, MembersOK, Stage
  <2>2. Running' = Running
    BY <1>1, <2>1 DEF Running
  <2>3. TablesOK' /\ MembersOK'
    BY <1>1, <1>4, <2>1 DEF IInv, TablesOK, MembersOK
  <2>4. Rows(messages)'
    BY <1>1, <1>4, <2>1 DEF IInv, Rows
  <2>5. Turn'
    BY <1>1, <1>2, <1>4, <2>1, <2>2 DEF IInv, Turn
  <2>6. OpenIsPut'
    BY <1>1, <1>2, <1>3, <2>1 DEF OpenIsPut
  <2>7. QED
    BY <1>4, <2>2, <2>3, <2>4, <2>5, <2>6 DEF IInv, ShownRuns
<1>5. CASE /\ ~open' /\ AttachmentUploadFailed /\ stage' = [stage EXCEPT ![id] = "ended"]
           /\ mishaps' \in {mishaps, mishaps \cup {"rename"}} /\ busy' \in BOOLEAN
  <2>1. mishaps' \subseteq Mishap /\ (mishaps' = {} => mishaps = {})
    BY <1>5 DEF IInv, MembersOK, Mishap, Stuck
  <2>2. QED
    BY <1>1, <1>5, <2>1, FailedEnds, RequestEnds
<1>6. busy \in BOOLEAN
  BY DEF IInv, MembersOK
<1>7. QED
  BY <1>4, <1>5, <1>6 DEF HandleHttpUploadResponse, Upload, ErrorReceived

LEMMA NoSlotOK ==
  ASSUME IInv, NEW id \in FileIds, HandleInvalidResponse(id) \/ SlotUnanswered(id)
  PROVE  IInv'
<1>1. id \in Running /\ ~open
  <2>1. id \in Running
    BY DEF HandleInvalidResponse, SlotUnanswered, Running
  <2>2. QED
    BY <2>1, RunningIs DEF HandleInvalidResponse, SlotUnanswered
<1>2. /\ stage' = [stage EXCEPT ![id] = "ended"]
      /\ mishaps' \in {mishaps \cup {"invalid"}, mishaps \cup {"unanswered"}}
      /\ UNCHANGED <<messages, sessions, notSentMsgId, busy, jid_, file_, encryptFile_, open, chosen>>
  BY DEF HandleInvalidResponse, SlotUnanswered, request, file
<1>3. mishaps' \subseteq Mishap /\ mishaps' # {}
  BY <1>2 DEF IInv, MembersOK, Mishap, Stuck
<1>4. TablesOK' /\ busy' \in BOOLEAN /\ notSentMsgId' \in FileIds \cup {NoId}
  BY <1>2 DEF IInv, TablesOK, MembersOK
<1>5. QED
  BY <1>1, <1>2, <1>3, <1>4, RequestEnds

LEMMA PutFinishedOK ==
  ASSUME IInv, NEW id \in FileIds, PutFinished(id)
  PROVE  IInv'
<1>1. /\ id \in Running /\ ~open' /\ stage' = [stage EXCEPT ![id] = "ended"]
      /\ UNCHANGED <<jid_, file_, encryptFile_, chosen, mishaps>>
  BY DEF PutFinished, File!Close, Running
<1>2. busy' = FALSE /\ (FileUploaded \/ AttachmentUploadFailed)
  BY DEF PutFinished, SuccessReceived, ErrorReceived
<1>3. mishaps' \subseteq Mishap
  BY <1>1 DEF IInv, MembersOK
<1>4. CASE FileUploaded
  BY <1>1, <1>2, <1>3, <1>4, UploadedEnds, RequestEnds
<1>5. CASE AttachmentUploadFailed
  BY <1>1, <1>2, <1>3, <1>5, FailedEnds, RequestEnds
<1>6. QED
  BY <1>2, <1>4, <1>5

LEMMA RemoveOK ==
  ASSUME IInv, NEW jid, RemoveConversation(jid)
  PROVE  IInv'
<1>1. /\ DOMAIN messages' \subseteq DOMAIN messages
      /\ \A r \in DOMAIN messages' : messages'[r] = messages[r]
  BY DEF RemoveConversation, RemoveMessagesFromJid
<1>2. TablesOK'
  <2>1. IsSessions(sessions')
    BY RemovedType DEF IInv, TablesOK, RemoveConversation
  <2>2. IsTable(messages') /\ HoldsEachOnce(messages')
    BY RemoveType, OperationsHoldEachOnce DEF IInv, TablesOK, RemoveConversation
  <2>3. QED
    BY <2>1, <2>2 DEF TablesOK
<1>3. UNCHANGED <<notSentMsgId, busy, jid_, file_, encryptFile_, fileSize, cipher, open, stage,
                  chosen, mishaps>>
  BY DEF RemoveConversation, request, file
<1>4. MembersOK' /\ OpenIsPut'
  BY <1>3 DEF IInv, MembersOK, OpenIsPut
<1>5. Running' = Running /\ Turn'
  BY <1>3 DEF IInv, Turn, Running
<1>6. Rows(messages)' /\ (mishaps' = {} => ShownRuns(messages)')
  BY <1>1, <1>3, <1>5 DEF IInv, Rows, ShownRuns
<1>7. QED
  BY <1>2, <1>4, <1>5, <1>6 DEF IInv

LEMMA RestartOK ==
  ASSUME IInv, Restart
  PROVE  IInv'
<1>1. /\ notSentMsgId' = NoId /\ busy' = FALSE /\ jid_' = NoJid /\ file_' = NoId
      /\ encryptFile_' = FALSE /\ ~open' /\ mishaps' = {}
      /\ stage' = [f \in FileIds |-> IF f \in Running THEN "ended" ELSE stage[f]]
      /\ messages' = FailInterruptedUploads(messages)
      /\ UNCHANGED <<sessions, chosen>>
  BY DEF Restart, File!Restart
<1>2. /\ DOMAIN messages' = DOMAIN messages
      /\ \A r \in DOMAIN messages : /\ messages'[r].id = messages[r].id
                                    /\ messages'[r].jid = messages[r].jid
                                    /\ messages'[r].state # 4
  BY <1>1 DEF FailInterruptedUploads, IInv, TablesOK, IsTable, Row, UPLOADING_ATTACHMENT,
     SEND_FAILED
<1>3. TablesOK'
  BY <1>1, FailUploadsType, OperationsHoldEachOnce DEF IInv, TablesOK
<1>4. /\ stage' \in [FileIds -> Stage] /\ Running' = {}
      /\ \A f \in FileIds : stage'[f] = "unsent" <=> stage[f] = "unsent"
  BY <1>1 DEF IInv, MembersOK, Stage, Running
<1>5. MembersOK'
  BY <1>1, <1>4 DEF IInv, MembersOK
<1>6. Rows(messages)'
  BY <1>1, <1>2, <1>4 DEF IInv, Rows
<1>7. QED
  BY <1>1, <1>2, <1>3, <1>4, <1>5, <1>6 DEF IInv, Turn, OpenIsPut, ShownRuns

LEMMA ManagerStep == IInv /\ [Next]_vars => IInv'
<1> SUFFICES ASSUME IInv, [Next]_vars PROVE IInv'
  OBVIOUS
<1>1. ASSUME UNCHANGED <<messages, sessions, notSentMsgId, busy, jid_, file_, encryptFile_,
                         fileSize, cipher, open, stage, chosen, mishaps>>
      PROVE  IInv'
  BY <1>1 DEF IInv, TablesOK, MembersOK, Rows, Turn, OpenIsPut, ShownRuns, Running
<1>2. ASSUME NEW n \in ReadSizes, NetworkReads(n) PROVE IInv'
  BY <1>1, <1>2 DEF NetworkReads, File!ReadData, manager
<1>3. CASE NetworkResends
  BY <1>1, <1>3 DEF NetworkResends, File!Reset, manager
<1>4. CASE UNCHANGED vars
  BY <1>1, <1>4 DEF vars, request, file
<1>5. QED
  BY <1>2, <1>3, <1>4, SendFileOK, ResponseOK, NoSlotOK, PutFinishedOK, RemoveOK, RestartOK
     DEF Next

-----------------------------------------------------------------------------
(* One file at a time, for the object that is read: it is given a new name *)
(* and a new cipher only while nobody reads it.                            *)
LEMMA FileStep == IInv /\ [Next]_vars => [File!Next]_File!vars
<1> SUFFICES ASSUME IInv, [Next]_vars, ~ UNCHANGED File!vars PROVE File!Next
  OBVIOUS
<1>1. ASSUME NEW id \in FileIds, NEW jid \in Jids, SendFile(id, jid) PROVE File!Next
  <2>1. UNCHANGED request => UNCHANGED File!vars
    BY DEF request, file, File!vars
  <2>2. ~busy /\ File!NewName(FileSize[id])
    BY <1>1, <2>1 DEF SendFile, RequestToUploadFileForJid, RequestHttpUploadSlot
  <2>3. ~open
    BY <2>2 DEF IInv, OpenIsPut, Turn, Running
  <2>4. QED
    BY <2>2, <2>3 DEF File!Next, File!SetFileName
<1>2. ASSUME NEW id \in FileIds, HandleHttpUploadResponse(id) PROVE File!Next
  <2>1. stage[id] = "slot" /\ id \in Running /\ File!NewCipher(encryptFile_)
    BY <1>2 DEF HandleHttpUploadResponse, Upload, Running
  <2>2. ~open /\ encryptFile_ \in BOOLEAN
    BY <2>1, RunningIs DEF IInv, MembersOK
  <2>3. QED
    BY <2>1, <2>2 DEF File!Next, File!InitEncryptionOnRead
<1>3. ASSUME NEW id \in FileIds,
             HandleInvalidResponse(id) \/ SlotUnanswered(id)
      PROVE  FALSE
  BY <1>3 DEF HandleInvalidResponse, SlotUnanswered, request, file, File!vars
<1>4. ASSUME NEW n \in ReadSizes, NetworkReads(n) PROVE File!Next
  BY <1>4 DEF NetworkReads, File!Next
<1>5. CASE NetworkResends
  BY <1>5 DEF NetworkResends, File!Next
<1>6. ASSUME NEW id \in FileIds, PutFinished(id) PROVE File!Next
  BY <1>6 DEF PutFinished, File!Next
<1>7. ASSUME NEW jid \in Jids, RemoveConversation(jid) PROVE FALSE
  BY <1>7 DEF RemoveConversation, request, file, File!vars
<1>8. CASE Restart
  BY <1>8 DEF Restart, File!Next
<1>9. CASE UNCHANGED vars
  BY <1>9 DEF vars, request, file, File!vars
<1>10. QED
  BY <1>1, <1>2, <1>3, <1>4, <1>5, <1>6, <1>7, <1>8, <1>9 DEF Next

(* The one FileWithCypher is used in turns, so that what is proved of      *)
(* FileCypher holds of it.                                                 *)
THEOREM UsedInTurn == Spec => FileIsUsedInTurn
<1>1. Init => IInv /\ File!Init
  BY ManagerInit DEF Init
<1>2. QED
  BY <1>1, ManagerStep, FileStep, PTL DEF Spec, FileIsUsedInTurn, File!Spec

LEMMA Invariants == Spec => [](IInv /\ FileInv)
<1>1. Spec => []IInv
  BY ManagerInit, ManagerStep, PTL DEF Spec
<1>2. Spec => File!Spec
  BY UsedInTurn DEF FileIsUsedInTurn
<1>3. QED
  BY <1>1, <1>2, FileInvariant, PTL

(* One upload runs at a time, and it is the one the members belong to.     *)
THEOREM NeverTwoUploads == Spec => []OneUploadAtATime
<1>1. IInv => OneUploadAtATime
  <2> SUFFICES ASSUME IInv PROVE OneUploadAtATime
    OBVIOUS
  <2>1. Running = {} \/ Running = {file_}
    BY DEF IInv, Turn
  <2>2. Cardinality({}) = 0 /\ Cardinality({file_}) = 1
    BY FS_EmptySet, FS_Singleton
  <2>3. QED
    BY <2>1, <2>2 DEF OneUploadAtATime, IInv, Turn
<1>2. QED
  BY <1>1, Invariants, PTL

(* A url goes to the chat its file was chosen for, whatever was refused    *)
(* meanwhile.                                                              *)
THEOREM UrlsGoHome == Spec => []UrlGoesToTheChosenChat
<1>1. IInv => UrlGoesToTheChosenChat
  BY DEF IInv, Rows, UrlGoesToTheChosenChat
<1>2. QED
  BY <1>1, Invariants, PTL

(* What is shown as uploading is uploading, for a user who waits.          *)
THEOREM ShownIsRunning == Spec => []UploadingIsRunning
<1>1. IInv => UploadingIsRunning
  BY Uploading DEF IInv
<1>2. QED
  BY <1>1, Invariants, PTL

(* A file of any size, read in pieces of any sizes by an object that       *)
(* served other files, encrypting or not, is sent as its receiver can      *)
(* decrypt it, and ends at the size that size() tells the network.         *)
THEOREM UploadsAreReadable == Spec => []UploadIsReadable
<1>1. IInv /\ FileInv => UploadIsReadable
  <2> SUFFICES ASSUME IInv, FileInv PROVE UploadIsReadable
    OBVIOUS
  <2> TagSize \in Nat \ {0}
    BY TagAssumption DEF TagAssumption
  <2>1. open => fileSize = FileSize[file_] /\ cipher = encryptFile_
    BY DEF IInv, OpenIsPut
  <2>2. pos \in Nat /\ fileSize \in Nat /\ pos = Len(sent)
    BY DEF FileInv, File!TypeOK
  <2>3. pos <= File!Size
    BY <2>2 DEF FileInv, CipherFollows, File!Size
  <2>4. File!EndsAtItsSize
    BY <2>2, <2>3 DEF FileInv, File!EndsAtItsSize
  <2>5. QED
    BY <2>1, <2>4 DEF FileInv, UploadIsReadable
<1>2. QED
  BY <1>1, Invariants, PTL

AnnouncedOK == announced \in Nat

(* The variables have their types, the size that is announced included.    *)
THEOREM TypeCorrect == Spec => []TypeOK
<1>1. Init => AnnouncedOK
  BY DEF Init, AnnouncedOK
<1>2. FileInv' /\ AnnouncedOK /\ [Next]_vars => AnnouncedOK'
  <2> SUFFICES ASSUME FileInv', AnnouncedOK, [Next]_vars PROVE AnnouncedOK'
    OBVIOUS
  <2>1. fileSize' \in Nat
    BY DEF FileInv, File!TypeOK
  <2>2. \A n \in Nat : n + TagSize \in Nat
    BY TagAssumption DEF TagAssumption
  <2>3. fileSize' + TagSize \in Nat
    BY <2>1, <2>2
  <2>4. announced' \in {0, announced, fileSize' + TagSize, fileSize'}
    <3>1. announced' \in {0, announced, File!Size'}
      BY DEF Next, vars, request, manager, SendFile, RequestToUploadFileForJid,
         RequestHttpUploadSlot, HandleHttpUploadResponse, HandleInvalidResponse,
         SlotUnanswered, NetworkReads, NetworkResends, PutFinished, RemoveConversation, Restart
    <3>2. File!Size' \in {fileSize' + TagSize, fileSize'}
      BY DEF File!Size
    <3>3. QED
      BY <3>1, <3>2
  <2>5. QED
    BY <2>1, <2>3, <2>4 DEF AnnouncedOK
<1>3. IInv /\ FileInv /\ AnnouncedOK => TypeOK
  BY DEF IInv, TablesOK, MembersOK, IsSessions, FileInv, TypeOK, AnnouncedOK
<1>4. QED
  BY <1>1, <1>2, <1>3, Invariants, PTL DEF Spec


-----------------------------------------------------------------------------
(* The store.  sendFile and fileUploaded make several of its operations in *)
(* one step, on a table that only they see, and fileUploaded may give the  *)
(* url's message the rowid the file's had: so the store's promises are     *)
(* proved here of the instance Store, and what happens to a message is     *)
(* stated of the message, not of its row.                                  *)

LEMMA FirstRow ==
  ASSUME NEW t, IsTable(t), NEW id, RowsOfId(t, id) # {}
  PROVE  /\ FirstRowOfId(t, id) \in DOMAIN t
         /\ t[FirstRowOfId(t, id)].id = id
         /\ \A s \in DOMAIN t : t[s].id = id => FirstRowOfId(t, id) <= s
<1>1. RowsOfId(t, id) \in SUBSET Nat
  BY TableAssumption DEF IsTable, RowsOfId
<1>2. \E r \in RowsOfId(t, id) : \A s \in RowsOfId(t, id) : r <= s
  BY <1>1, LeastNumber
<1>3. QED
  BY <1>2 DEF FirstRowOfId, RowsOfId

LEMMA OperationsAgree ==
  ASSUME NEW t, IsTable(t), AgreesById(t), NEW id, NEW jid, NEW direction, NEW time,
         NEW state
  PROVE  /\ AgreesById(AddMessage(t, id, jid, direction, time))
         /\ AgreesById(SetMessageStateOfId(t, id, state))
         /\ AgreesById(RemoveMessage(t, id, jid))
         /\ AgreesById(RemoveMessagesFromJid(t, jid))
         /\ AgreesById(FailInterruptedUploads(t))
<1>1. AgreesById(AddMessage(t, id, jid, direction, time))
  <2>1. \A r \in DOMAIN t : r \in Nat /\ r < NextRow(t) /\ NextRow(t) \in Nat
    BY LastRow DEF IsTable
  <2>2. QED
    BY <2>1 DEF AddMessage, AgreesById
<1>2. AgreesById(SetMessageStateOfId(t, id, state))
  BY DEF SetMessageStateOfId, AgreesById, IsTable, Row
<1>3. AgreesById(RemoveMessage(t, id, jid)) /\ AgreesById(RemoveMessagesFromJid(t, jid))
  BY DEF RemoveMessage, RemoveMessagesFromJid, AgreesById
<1>4. AgreesById(FailInterruptedUploads(t))
  BY DEF FailInterruptedUploads, AgreesById, IsTable, Row, DEFAULT, UPLOADING_ATTACHMENT
<1>5. QED
  BY <1>1, <1>2, <1>3, <1>4

(* The messages and the sessions of the store, of any two tables.  What it *)
(* says of the sessions is so while the program ends between two handlers  *)
(* only, and no part of the promises below.                                *)
Kept(t, s) == /\ IsTable(t) /\ HoldsEachOnce(t) /\ AgreesById(t)
              /\ \A r \in DOMAIN t : t[r].jid \in DOMAIN s
IsRead(s) == OpenChat \in DOMAIN s => s[OpenChat] = 0
StoreInv == IInv /\ Kept(messages, sessions) /\ IsRead(sessions)

(* How a message may change between two tables, wherever its row is.       *)
Changes(t, u) ==
    \A r \in DOMAIN t, q \in DOMAIN u :
       u[q].id = t[r].id /\ u[q].jid = t[r].jid /\ u[q].state # t[r].state
       => ValidStateChange(t[r].state, u[q].state)

(* A mark: the check against the first row with the id decides right for   *)
(* each of them.                                                           *)
LEMMA MarkKept ==
  ASSUME NEW t, NEW s, Kept(t, s), NEW id, NEW state \in MessageState \ {DEFAULT}
  PROVE  LET u == SetMessageStateOfId(t, id, state) IN Kept(u, s) /\ Changes(t, u)
<1> DEFINE u == SetMessageStateOfId(t, id, state)
           f == FirstRowOfId(t, id)
<1>1. /\ IsTable(u) /\ HoldsEachOnce(u) /\ DOMAIN u = DOMAIN t
      /\ \A r \in DOMAIN t : u[r].id = t[r].id /\ u[r].jid = t[r].jid
  BY MarkedRows DEF Kept
<1>2. AgreesById(u)
  BY OperationsAgree DEF Kept
<1>3. ASSUME NEW r \in DOMAIN t, u[r].state # t[r].state
      PROVE  ValidStateChange(t[r].state, u[r].state)
  <2>1. ValidStateChange(StateOfMessageId(t, id), state) /\ t[r].id = id
    BY <1>3 DEF SetMessageStateOfId
  <2>2. u[r].state = state
    BY <2>1 DEF SetMessageStateOfId, Kept, IsTable, Row
  <2>3. RowsOfId(t, id) # {}
    BY <2>1 DEF RowsOfId
  <2>4. f \in DOMAIN t /\ t[f].id = id /\ f <= r
    BY <2>1, <2>3, FirstRow DEF Kept
  <2>5. ValidStateChange(t[f].state, state)
    BY <2>1, <2>3 DEF StateOfMessageId
  <2>6. t[r].state \in {t[f].state, DEFAULT}
    BY <2>1, <2>4 DEF AgreesById, Kept, IsTable
  <2>7. t[f].state \in MessageState
    BY <2>4 DEF Kept, IsTable, Row
  <2>8. QED
    BY <2>2, <2>5, <2>6, <2>7 DEF ValidStateChange, MessageState, DEFAULT,
       DISPLAYED_CONFIRMED, UPLOADING_ATTACHMENT
<1>4. Changes(t, u)
  <2> SUFFICES ASSUME NEW r \in DOMAIN t, NEW q \in DOMAIN u,
                      u[q].id = t[r].id, u[q].jid = t[r].jid, u[q].state # t[r].state
               PROVE  ValidStateChange(t[r].state, u[q].state)
    BY DEF Changes
  <2>1. q = r
    BY <1>1 DEF Kept, HoldsEachOnce
  <2>2. QED
    BY <1>3, <2>1
<1>5. QED
  BY <1>1, <1>2, <1>4 DEF Kept

(* A message more, in a chat that has its session afterwards.              *)
LEMMA AddKept ==
  ASSUME NEW t, NEW s, Kept(t, s), NextRow(t) <= MaxRow, NEW id \in Ids, NEW jid \in Jids,
         NEW ss, DOMAIN s \subseteq DOMAIN ss,
         IsMessageIdForJid(t, id, jid) \/ jid \in DOMAIN ss
  PROVE  LET u == AddMessage(t, id, jid, "out", 1)
         IN  /\ Kept(u, ss)
             /\ \A r \in DOMAIN u :
                   \/ r \in DOMAIN t /\ u[r] = t[r]
                   \/ u[r].id = id /\ u[r].jid = jid /\ ~IsMessageIdForJid(t, id, jid)
<1> DEFINE u == AddMessage(t, id, jid, "out", 1)
<1>0. AgreesById(u)
  BY OperationsAgree DEF Kept
<1>1. /\ IsTable(u) /\ HoldsEachOnce(u)
      /\ \A r \in DOMAIN u :
            \/ r \in DOMAIN t /\ u[r] = t[r]
            \/ r \notin DOMAIN t /\ u[r].id = id /\ u[r].jid = jid /\ u[r].state = 0
  BY AddedRow DEF Kept
<1>2. IsMessageIdForJid(t, id, jid) => u = t
  BY DEF AddMessage
<1> HIDE DEF u
<1>3. \A r \in DOMAIN u :
         \/ r \in DOMAIN t /\ u[r] = t[r]
         \/ u[r].id = id /\ u[r].jid = jid /\ ~IsMessageIdForJid(t, id, jid)
  BY <1>1, <1>2
<1>4. \A r \in DOMAIN u : u[r].jid \in DOMAIN ss
  BY <1>3 DEF Kept
<1>5. Kept(u, ss)
  BY <1>0, <1>1, <1>4 DEF Kept
<1>6. QED
  BY <1>3, <1>5 DEF u

(* Changes one after the other, if nothing is removed and added again.     *)
LEMMA SameRowsChange ==
  ASSUME NEW t, HoldsEachOnce(t), NEW u, HoldsEachOnce(u),
         \A q \in DOMAIN u : \/ \E r \in DOMAIN t : u[q] = t[r]
                             \/ ~IsMessageIdForJid(t, u[q].id, u[q].jid)
  PROVE  Changes(t, u)
<1> SUFFICES ASSUME NEW r \in DOMAIN t, NEW q \in DOMAIN u,
                    u[q].id = t[r].id, u[q].jid = t[r].jid
             PROVE  u[q].state = t[r].state
  BY DEF Changes
<1>1. IsMessageIdForJid(t, u[q].id, u[q].jid)
  BY DEF IsMessageIdForJid
<1>2. PICK p \in DOMAIN t : u[q] = t[p]
  BY <1>1
<1>3. p = r
  BY <1>2 DEF HoldsEachOnce
<1>4. QED
  BY <1>2, <1>3

LEMMA SessionGrows ==
  ASSUME NEW id, NEW jid
  PROVE  /\ DOMAIN sessions \subseteq DOMAIN SessionsWith(id, jid)
         /\ IsMessageIdForJid(messages, id, jid) \/ jid \in DOMAIN SessionsWith(id, jid)
         /\ IsRead(sessions) => IsRead(SessionsWith(id, jid))
<1>1. CASE IsMessageIdForJid(messages, id, jid)
  BY <1>1 DEF SessionsWith
<1>2. CASE ~IsMessageIdForJid(messages, id, jid)
  <2>1. SessionsWith(id, jid) = Store!UpdateSession(sessions, jid, OpenChat)
    BY <1>2 DEF SessionsWith
  <2>2. QED
    BY <2>1 DEF Store!UpdateSession, Store!UnreadOf, IsRead
<1>3. QED
  BY <1>1, <1>2

StoreGoal == /\ Kept(messages', sessions') /\ IsRead(sessions')
             /\ Changes(messages, messages')

LEMMA FailedKeeps == StoreInv /\ AttachmentUploadFailed => StoreGoal
<1> SUFFICES ASSUME StoreInv, AttachmentUploadFailed PROVE StoreGoal
  OBVIOUS
<1>1. messages' = SetMessageStateOfId(messages, notSentMsgId, SEND_FAILED) /\ sessions' = sessions
  BY DEF AttachmentUploadFailed
<1>2. SEND_FAILED \in MessageState \ {DEFAULT}
  BY DEF SEND_FAILED, MessageState, DEFAULT
<1>3. QED
  BY <1>1, <1>2, MarkKept DEF StoreInv, StoreGoal

LEMMA SendFileKeeps ==
  ASSUME StoreInv, NEW id \in FileIds, NEW jid \in Jids, SendFile(id, jid)
  PROVE  StoreGoal
<1> DEFINE a == AddMessage(messages, id, jid, "out", 1)
           t == SetMessageStateOfId(a, id, UPLOADING_ATTACHMENT)
           u == SetMessageStateOfId(t, id, SEND_FAILED)
<1>1. /\ stage[id] = "unsent" /\ Store!MayGrow(messages, sessions, jid)
      /\ sessions' = SessionsWith(id, jid) /\ messages' \in {t, u}
  BY DEF SendFile
<1>2. NextRow(messages) <= MaxRow /\ id \in Ids
  BY <1>1, GrowOK, UrlsAre DEF StoreInv
<1>3. Kept(messages, sessions) /\ IsRead(sessions) /\ IInv
  BY DEF StoreInv
<1>4. /\ DOMAIN sessions \subseteq DOMAIN sessions' /\ IsRead(sessions')
      /\ IsMessageIdForJid(messages, id, jid) \/ jid \in DOMAIN sessions'
  BY <1>1, <1>3, SessionGrows
<1>5. /\ Kept(a, sessions')
      /\ \A r \in DOMAIN a : \/ r \in DOMAIN messages /\ a[r] = messages[r]
                             \/ a[r].id = id
  BY <1>2, <1>3, <1>4, AddKept
<1>6. /\ UPLOADING_ATTACHMENT \in MessageState \ {DEFAULT}
      /\ SEND_FAILED \in MessageState \ {DEFAULT}
  BY DEF UPLOADING_ATTACHMENT, SEND_FAILED, MessageState, DEFAULT
<1>7. \A r \in DOMAIN messages : messages[r].id # id
  BY <1>1, <1>3 DEF IInv, Rows
<1> HIDE DEF a
<1>8. /\ Kept(t, sessions') /\ DOMAIN t = DOMAIN a
      /\ \A r \in DOMAIN a : t[r].id = a[r].id /\ (a[r].id # id => t[r] = a[r])
  BY <1>5, <1>6, MarkKept, MarkedRows DEF Kept
<1> HIDE DEF t
<1>9. /\ Kept(u, sessions') /\ DOMAIN u = DOMAIN t
      /\ \A r \in DOMAIN t : u[r].id = t[r].id /\ (t[r].id # id => u[r] = t[r])
  BY <1>6, <1>8, MarkKept, MarkedRows DEF Kept
<1> HIDE DEF u
<1>10. /\ Kept(messages', sessions')
       /\ \A r \in DOMAIN messages' : messages'[r].id = id
                                      \/ (r \in DOMAIN messages /\ messages'[r] = messages[r])
  BY <1>1, <1>5, <1>8, <1>9
<1>11. Changes(messages, messages')
  <2> SUFFICES ASSUME NEW r \in DOMAIN messages, NEW q \in DOMAIN messages',
                      messages'[q].id = messages[r].id, messages'[q].jid = messages[r].jid
               PROVE  messages'[q].state = messages[r].state
    BY DEF Changes
  <2>1. q \in DOMAIN messages /\ messages'[q] = messages[q]
    BY <1>7, <1>10
  <2>2. q = r
    BY <1>3, <2>1 DEF Kept, HoldsEachOnce
  <2>3. QED
    BY <2>1, <2>2
<1>12. QED
  BY <1>4, <1>10, <1>11 DEF StoreGoal

LEMMA UploadedKeeps ==
  ASSUME StoreInv, NEW id \in Running, FileUploaded
  PROVE  StoreGoal
<1> DEFINE t == RemoveMessage(messages, notSentMsgId, jid_)
           u == AddMessage(t, Url[id], jid_, "out", 1)
<1>1. Kept(messages, sessions) /\ IsRead(sessions) /\ IInv
  BY DEF StoreInv
<1>2. id \in FileIds /\ id = file_ /\ jid_ \in Jids
  BY <1>1, RunningIs
<1>3. /\ messages' = u /\ sessions' = SessionsWith(Url[id], jid_)
      /\ Store!MayGrow(t, sessions, jid_)
  BY <1>2 DEF FileUploaded
<1>4. NextRow(t) <= MaxRow /\ Url[id] \in Ids
  BY <1>1, <1>2, <1>3, GrowOK, UrlsAre
<1>5. notSentMsgId # Url[id]
  BY <1>1, <1>2, UrlsAre, UploadAssumption DEF UploadAssumption, IInv, MembersOK
<1>6. /\ DOMAIN t \subseteq DOMAIN messages /\ \A r \in DOMAIN t : t[r] = messages[r]
      /\ IsMessageIdForJid(messages, Url[id], jid_) => IsMessageIdForJid(t, Url[id], jid_)
  BY <1>5 DEF RemoveMessage, IsMessageIdForJid
<1>7. IsTable(t) /\ HoldsEachOnce(t) /\ AgreesById(t)
  BY <1>1, RemoveType, OperationsHoldEachOnce, OperationsAgree DEF Kept
<1> HIDE DEF t
<1>8. Kept(t, sessions)
  BY <1>1, <1>6, <1>7 DEF Kept
<1>9. /\ DOMAIN sessions \subseteq DOMAIN sessions' /\ IsRead(sessions')
      /\ IsMessageIdForJid(messages, Url[id], jid_) \/ jid_ \in DOMAIN sessions'
  BY <1>1, <1>3, SessionGrows
<1>10. /\ Kept(u, sessions')
       /\ \A r \in DOMAIN u :
             \/ r \in DOMAIN t /\ u[r] = t[r]
             \/ u[r].id = Url[id] /\ u[r].jid = jid_ /\ ~IsMessageIdForJid(t, Url[id], jid_)
  BY <1>2, <1>4, <1>6, <1>8, <1>9, AddKept
<1> HIDE DEF u
<1>11. \A q \in DOMAIN u : \/ \E r \in DOMAIN messages : u[q] = messages[r]
                           \/ ~IsMessageIdForJid(messages, u[q].id, u[q].jid)
  BY <1>6, <1>10
<1>12. Changes(messages, u)
  BY <1>1, <1>10, <1>11, SameRowsChange DEF Kept
<1>13. QED
  BY <1>3, <1>9, <1>10, <1>12 DEF StoreGoal

LEMMA StoreStep == StoreInv /\ [Next]_vars => StoreInv' /\ StoreGoal
<1> SUFFICES ASSUME StoreInv, [Next]_vars PROVE StoreGoal
  BY ManagerStep DEF StoreInv, StoreGoal
<1>0. Kept(messages, sessions) /\ IsRead(sessions) /\ IInv
  BY DEF StoreInv
<1>1. ASSUME messages' = messages, sessions' = sessions PROVE StoreGoal
  BY <1>0, <1>1, SameRowsChange DEF StoreGoal, Kept
<1>2. ASSUME NEW id \in FileIds, HandleHttpUploadResponse(id) PROVE StoreGoal
  BY <1>1, <1>2, FailedKeeps DEF HandleHttpUploadResponse, Upload, ErrorReceived
<1>3. ASSUME NEW id \in FileIds, HandleInvalidResponse(id) \/ SlotUnanswered(id) PROVE StoreGoal
  BY <1>1, <1>3 DEF HandleInvalidResponse, SlotUnanswered
<1>4. ASSUME NEW id \in FileIds, PutFinished(id) PROVE StoreGoal
  <2>1. id \in Running
    BY <1>4 DEF PutFinished, Running
  <2>2. QED
    BY <1>4, <2>1, FailedKeeps, UploadedKeeps DEF PutFinished, SuccessReceived, ErrorReceived
<1>5. ASSUME NEW jid \in Jids, RemoveConversation(jid) PROVE StoreGoal
  <2>1. IsTable(messages') /\ HoldsEachOnce(messages') /\ AgreesById(messages')
    BY <1>0, <1>5, RemoveType, OperationsHoldEachOnce, OperationsAgree
       DEF Kept, RemoveConversation
  <2>2. \A r \in DOMAIN messages' :
           r \in DOMAIN messages /\ messages'[r] = messages[r] /\ messages[r].jid # jid
    BY <1>5 DEF RemoveConversation, RemoveMessagesFromJid
  <2>3. /\ DOMAIN sessions' = DOMAIN sessions \ {jid}
        /\ \A j \in DOMAIN sessions' : sessions'[j] = sessions[j]
    BY <1>5 DEF RemoveConversation, Store!RemoveSession
  <2>4. Kept(messages', sessions') /\ IsRead(sessions')
    BY <1>0, <2>1, <2>2, <2>3 DEF Kept, IsRead
  <2>5. Changes(messages, messages')
    BY <1>0, <2>1, <2>2, SameRowsChange DEF Kept
  <2>6. QED
    BY <2>4, <2>5 DEF StoreGoal
<1>6. CASE Restart
  <2>1. /\ messages' = FailInterruptedUploads(messages) /\ sessions' = sessions
        /\ IsTable(messages)
    BY <1>0, <1>6 DEF Restart, Kept
  <2>2. IsTable(messages') /\ HoldsEachOnce(messages') /\ AgreesById(messages')
    BY <1>0, <2>1, FailUploadsType, OperationsHoldEachOnce, OperationsAgree DEF Kept
  <2>3. /\ DOMAIN messages' = DOMAIN messages
        /\ \A r \in DOMAIN messages :
              /\ messages'[r].id = messages[r].id /\ messages'[r].jid = messages[r].jid
              /\ messages'[r].state # messages[r].state
                 => messages[r].state = UPLOADING_ATTACHMENT
    BY <2>1 DEF FailInterruptedUploads, IsTable, Row
  <2>4. Changes(messages, messages')
    <3> SUFFICES ASSUME NEW r \in DOMAIN messages, NEW q \in DOMAIN messages',
                        messages'[q].id = messages[r].id, messages'[q].jid = messages[r].jid,
                        messages'[q].state # messages[r].state
                 PROVE  ValidStateChange(messages[r].state, messages'[q].state)
      BY DEF Changes
    <3>1. q = r
      BY <1>0, <2>3 DEF Kept, HoldsEachOnce
    <3>2. QED
      BY <2>3, <3>1 DEF ValidStateChange
  <2>5. QED
    BY <1>0, <2>1, <2>2, <2>3, <2>4 DEF StoreGoal, Kept
<1>7. ASSUME NEW n \in ReadSizes, NetworkReads(n) PROVE StoreGoal
  BY <1>1, <1>7 DEF NetworkReads, manager
<1>8. CASE NetworkResends \/ UNCHANGED vars
  BY <1>1, <1>8 DEF NetworkResends, manager, vars
<1>9. QED
  BY <1>2, <1>3, <1>4, <1>5, <1>6, <1>7, <1>8, SendFileKeeps DEF Next

LEMMA StoreInit == Init => StoreInv
<1> SUFFICES ASSUME Init PROVE StoreInv
  OBVIOUS
<1>1. DOMAIN messages = {} /\ DOMAIN sessions = {} /\ IInv
  BY EmptyFunction, ManagerInit DEF Init
<1>2. QED
  BY <1>1 DEF StoreInv, Kept, IsRead, AgreesById, IInv, TablesOK

LEMMA SamePromises ==
  StoreInv => Store!NoMessageTwice /\ Store!SameIdSameState
BY DEF StoreInv, Kept, Store!NoMessageTwice, Store!HoldsEachOnce, HoldsEachOnce,
   Store!SameIdSameState, Store!AgreesById, AgreesById, Store!DEFAULT, DEFAULT

(* Sending files keeps what the store promises: the message of a file and  *)
(* that of its url are in their conversation once, and rows with one id    *)
(* are in one state.                                                       *)
THEOREM StoreStaysSafe ==
  Spec => [](Store!NoMessageTwice /\ Store!SameIdSameState)
BY StoreInit, StoreStep, SamePromises, PTL DEF Spec

(* A message that a conversation held before a step and holds afterwards   *)
(* changed its state as the comment above setMessageStateOfId allows: a    *)
(* failed upload is never shown as running again, though the message of    *)
(* the url may take over the row.                                          *)
MessagesChangeValidly ==
    [][\A r \in DOMAIN messages, q \in DOMAIN messages' :
          /\ messages'[q].id = messages[r].id /\ messages'[q].jid = messages[r].jid
          /\ messages'[q].state # messages[r].state
          => ValidStateChange(messages[r].state, messages'[q].state)]_vars

THEOREM StoreChangesValidly == Spec => MessagesChangeValidly
<1>1. StoreInv /\ [Next]_vars
      => [\A r \in DOMAIN messages, q \in DOMAIN messages' :
             /\ messages'[q].id = messages[r].id /\ messages'[q].jid = messages[r].jid
             /\ messages'[q].state # messages[r].state
             => ValidStateChange(messages[r].state, messages'[q].state)]_vars
  BY StoreStep DEF StoreGoal, Changes
<1>2. QED
  BY <1>1, StoreInit, StoreStep, PTL DEF Spec, MessagesChangeValidly

-----------------------------------------------------------------------------
(* The way of a request to its end.  UploadEnds needs fairness; what       *)
(* follows is all of it that does not: busy_ is set only while a request   *)
(* runs, unless one stayed without a usable answer, and a request goes     *)
(* from the slot to the file to its end, with which busy_ is reset.        *)

NoneStuck == mishaps \cap Stuck = {}
BusyIsRunning == busy /\ NoneStuck => Running # {}

GoesOn(f) ==
    /\ stage[f] = "slot" => stage'[f] \in {"slot", "put", "ended"}
    /\ stage[f] = "put" => stage'[f] \in {"put", "ended"}
    /\ stage[f] = "ended" => stage'[f] = "ended"
    /\ f \in Running /\ stage'[f] = "ended" /\ NoneStuck' => ~busy'

WayGoal == BusyIsRunning' /\ \A f \in FileIds : GoesOn(f)

(* The request that runs takes its next stage or ends.                     *)
LEMMA NextStage ==
  ASSUME stage \in [FileIds -> Stage], BusyIsRunning, NEW id \in Running,
         \/ stage' = [stage EXCEPT ![id] = "put"] /\ stage[id] = "slot"
         \/ /\ stage' = [stage EXCEPT ![id] = "ended"]
            /\ busy' = FALSE \/ ~NoneStuck'
  PROVE  WayGoal
<1>1. id \in FileIds
  BY DEF Running
<1>2. CASE stage' = [stage EXCEPT ![id] = "put"] /\ stage[id] = "slot"
  <2>1. id \in Running'
    BY <1>1, <1>2 DEF Running
  <2>2. \A f \in FileIds : GoesOn(f)
    BY <1>1, <1>2 DEF GoesOn, Running
  <2>3. QED
    BY <2>1, <2>2 DEF WayGoal, BusyIsRunning
<1>3. CASE /\ stage' = [stage EXCEPT ![id] = "ended"]
           /\ busy' = FALSE \/ ~NoneStuck'
  <2>1. BusyIsRunning'
    BY <1>3 DEF BusyIsRunning
  <2>2. \A f \in FileIds : GoesOn(f)
    BY <1>1, <1>3 DEF GoesOn, Running
  <2>3. QED
    BY <2>1, <2>2 DEF WayGoal
<1>4. QED
  BY <1>2, <1>3

LEMMA SendFileGoes ==
  ASSUME stage \in [FileIds -> Stage], BusyIsRunning, NEW id \in FileIds, NEW jid,
         SendFile(id, jid)
  PROVE  WayGoal
<1>1. stage[id] = "unsent" /\ (NoneStuck' => NoneStuck)
  BY DEF SendFile, NoneStuck, Stuck
<1>2. CASE stage' = [stage EXCEPT ![id] = "slot"]
  <2>1. id \in Running'
    BY <1>2 DEF Running
  <2>2. \A f \in FileIds : GoesOn(f)
    BY <1>1, <1>2 DEF GoesOn, Running
  <2>3. QED
    BY <2>1, <2>2 DEF WayGoal, BusyIsRunning
<1>3. CASE stage' = [stage EXCEPT ![id] = "ended"] /\ busy' = busy
  <2>1. Running' = Running
    BY <1>1, <1>3 DEF Running
  <2>2. \A f \in FileIds : GoesOn(f)
    BY <1>1, <1>3 DEF GoesOn, Running
  <2>3. QED
    BY <1>1, <1>3, <2>1, <2>2 DEF WayGoal, BusyIsRunning
<1>4. QED
  BY <1>2, <1>3 DEF SendFile, RequestToUploadFileForJid, RequestHttpUploadSlot

LEMMA WayStep ==
  ASSUME stage \in [FileIds -> Stage], BusyIsRunning, [Next]_vars
  PROVE  WayGoal
<1>1. ASSUME NEW id \in FileIds, HandleHttpUploadResponse(id) PROVE WayGoal
  <2>1. id \in Running /\ stage[id] = "slot"
    BY <1>1 DEF HandleHttpUploadResponse, Running
  <2>2. \/ stage' = [stage EXCEPT ![id] = "put"]
        \/ stage' = [stage EXCEPT ![id] = "ended"] /\ busy' = FALSE
        \/ stage' = [stage EXCEPT ![id] = "ended"] /\ "rename" \in mishaps'
    BY <1>1 DEF HandleHttpUploadResponse, Upload, ErrorReceived
  <2>3. QED
    BY <2>1, <2>2, NextStage DEF NoneStuck, Stuck
<1>2. ASSUME NEW id \in FileIds, HandleInvalidResponse(id) \/ SlotUnanswered(id)
      PROVE  WayGoal
  <2>1. id \in Running /\ stage' = [stage EXCEPT ![id] = "ended"] /\ ~NoneStuck'
    BY <1>2 DEF HandleInvalidResponse, SlotUnanswered, Running, NoneStuck, Stuck
  <2>2. QED
    BY <2>1, NextStage
<1>3. ASSUME NEW id \in FileIds, PutFinished(id) PROVE WayGoal
  <2>1. id \in Running /\ stage' = [stage EXCEPT ![id] = "ended"] /\ busy' = FALSE
    BY <1>3 DEF PutFinished, SuccessReceived, ErrorReceived, Running
  <2>2. QED
    BY <2>1, NextStage
<1>4. CASE Restart
  <2>1. busy' = FALSE /\ \A f \in FileIds : stage'[f] = IF f \in Running THEN "ended"
                                                         ELSE stage[f]
    BY <1>4 DEF Restart
  <2>2. QED
    BY <2>1 DEF WayGoal, BusyIsRunning, GoesOn, Running
<1>5. CASE UNCHANGED <<busy, stage, mishaps>>
  BY <1>5 DEF WayGoal, BusyIsRunning, NoneStuck, GoesOn, Running
<1>6. QED
  BY <1>1, <1>2, <1>3, <1>4, <1>5, SendFileGoes
     DEF Next, vars, NetworkReads, NetworkResends, manager, RemoveConversation

LEMMA WayInvariant == Spec => [](stage \in [FileIds -> Stage] /\ BusyIsRunning)
<1>1. Init => BusyIsRunning
  BY DEF Init, BusyIsRunning
<1>2. IInv => stage \in [FileIds -> Stage]
  BY DEF IInv, MembersOK
<1>3. IInv /\ BusyIsRunning /\ [Next]_vars => BusyIsRunning'
  BY <1>2, WayStep DEF WayGoal
<1>4. QED
  BY <1>1, <1>2, <1>3, ManagerInit, ManagerStep, PTL DEF Spec

(* The next file is refused for a request that runs, or for one that       *)
(* stayed without a usable answer.                                         *)
THEOREM BusyForARequest == Spec => []BusyIsRunning
BY WayInvariant, PTL

(* No stage is taken twice or back, and the end of a request lets the next *)
(* file in, unless the answer was not usable.                              *)
THEOREM RequestsGoOn == Spec => [][\A f \in FileIds : GoesOn(f)]_vars
<1>1. stage \in [FileIds -> Stage] /\ BusyIsRunning /\ [Next]_vars
         => [\A f \in FileIds : GoesOn(f)]_vars
  BY WayStep DEF WayGoal
<1>2. QED
  BY <1>1, WayInvariant, PTL DEF Spec

=============================================================================
