-------------------------- MODULE Download_proofs --------------------------
(***************************************************************************)
(* Theorems about Download, for every set of messages and urls and any     *)
(* number of downloads, failures and restarts.                             *)
(***************************************************************************)
EXTENDS Download, TLAPS

FileTypes == {"none", "empty", "cipher", "unchecked", "whole"}

(* A file that has a writer is empty: this is why a second download of it  *)
(* cannot begin and why no answer is written over another one.             *)
EmptyWhileWritten ==
    \A s \in Slots : running[s] # Idle /\ running[s].file = "named"
                     => disk[Url[running[s].message]] = "empty"

IInv == TypeOK /\ EmptyWhileWritten /\ OneWriter /\ ShownIsLocal

(* What is left of files and downloads by an action, rows apart. *)
FilesOK == /\ disk \in [Urls -> FileTypes] /\ running \in [Slots -> {Idle} \cup Running]
           /\ EmptyWhileWritten /\ OneWriter

-----------------------------------------------------------------------------
(* An answer of stated length with a valid tag is left decrypted, without  *)
(* its tag, whatever its size and that of the tag.                         *)
LEMMA StatedIsWhole ==
    ASSUME NEW size \in Nat
    PROVE  Stored(size + TagSize, size + TagSize, TRUE) = [size |-> size, data |-> "whole"]
<1> TagSize \in Nat \ {0}
    BY TagAssumption DEF TagAssumption
<1> DEFINE answer == size + TagSize
           bytes == BytesToDecrypt(0, answer, answer)
<1>1. bytes = size
    BY DEF BytesToDecrypt
<1>2. TagIsValid(answer, size, TRUE)
    BY DEF TagIsValid
<1>3. answer - TagSize = size /\ (size > 0 \/ size = 0)
    OBVIOUS
<1> QED
    BY <1>1, <1>2, <1>3 DEF Stored

(* Without a stated length nothing is decrypted, and the tag, valid or not,*)
(* is not taken off; unless there was nothing before it.                   *)
LEMMA UnstatedIsKept ==
    ASSUME NEW size \in Nat \ {0}
    PROVE  Stored(size + TagSize, 0, TRUE) = [size |-> size + TagSize, data |-> "cipher"]
<1> TagSize \in Nat \ {0}
    BY TagAssumption DEF TagAssumption
<1>1. ~(BytesToDecrypt(0, size + TagSize, 0) > 0)
    BY DEF BytesToDecrypt
<1>2. TagIsValid(size + TagSize, 0, TRUE) = FALSE
    BY DEF TagIsValid
<1> QED
    BY <1>1, <1>2 DEF Stored

LEMMA UnstatedEmpty == Stored(TagSize, 0, TRUE).size = 0
<1> TagSize \in Nat \ {0}
    BY TagAssumption DEF TagAssumption
<1>1. ~(BytesToDecrypt(0, TagSize, 0) > 0)
    BY DEF BytesToDecrypt
<1>2. TagIsValid(TagSize, 0, TRUE)
    BY DEF TagIsValid
<1> QED
    BY <1>1, <1>2 DEF Stored

(* Without a valid tag the data are kept as not whole. *)
LEMMA UntaggedIsKept ==
    ASSUME NEW size, NEW expectedSize
    PROVE  Stored(size, expectedSize, FALSE).data # "whole"
BY DEF Stored, TagIsValid

(* What is written is the attachment exactly if the answer was sound. *)
LEMMA WrittenIsSound ==
    ASSUME NEW u \in Urls, NEW answer \in Answer, Written(u, answer) # "empty"
    PROVE  Sound(u, answer) <=> Written(u, answer) = "whole"
<1>0. Payload[u] \in Nat
    BY DownloadAssumption DEF DownloadAssumption, Urls
<1> DEFINE size == Size(u, answer)
           expected == IF answer.length THEN size ELSE 0
<1>1. CASE u \notin Encrypted
    BY <1>1 DEF Sound, Written
<1>2. CASE u \in Encrypted /\ u \notin Supported
    <2>1. ~Sound(u, answer) /\ Written(u, answer) # "whole"
        BY <1>2 DEF Sound, Written
    <2> QED
        BY <2>1
<1>3. CASE u \in Encrypted /\ u \in Supported
    <2> DEFINE file == Stored(size, expected, answer.tag = "valid")
    <2>1. Written(u, answer) = IF file.size = 0 THEN "empty" ELSE file.data
        BY <1>3 DEF Written
    <2>2. CASE answer.tag # "valid"
        <3>1. ~Sound(u, answer) /\ (answer.tag = "valid") = FALSE
            BY <1>3, <2>2 DEF Sound
        <3>2. file.data # "whole"
            BY <3>1, UntaggedIsKept
        <3> QED
            BY <2>1, <3>1, <3>2
    <2>3. CASE answer.tag = "valid" /\ answer.length
        <3>1. Sound(u, answer) /\ size = Payload[u] + TagSize /\ expected = size
            BY <1>3, <2>3 DEF Sound, Size
        <3>2. file = [size |-> Payload[u], data |-> "whole"]
            BY <1>0, <2>3, <3>1, StatedIsWhole
        <3> QED
            BY <2>1, <3>1, <3>2
    <2>4. CASE answer.tag = "valid" /\ ~answer.length
        <3>1. ~Sound(u, answer) /\ size = Payload[u] + TagSize /\ expected = 0
            BY <1>3, <2>4 DEF Sound, Size
        <3>2. file = Stored(Payload[u] + TagSize, 0, TRUE)
            BY <2>4, <3>1
        <3>3. CASE Payload[u] = 0
            <4>1. Payload[u] + TagSize = TagSize
                BY <3>3, TagAssumption DEF TagAssumption
            <4>2. file.size = 0
                BY <3>2, <4>1, UnstatedEmpty
            <4> QED
                BY <2>1, <4>2
        <3>4. CASE Payload[u] # 0
            <4>1. file = [size |-> Payload[u] + TagSize, data |-> "cipher"]
                BY <1>0, <3>2, <3>4, UnstatedIsKept
            <4> QED
                BY <2>1, <3>1, <4>1
        <3> QED
            BY <3>3, <3>4
    <2> QED
        BY <2>2, <2>3, <2>4
<1> QED
    BY <1>1, <1>2, <1>3

(* What Stored leaves, and so what is written, is of the types of files. *)
LEMMA WrittenType ==
    ASSUME NEW u, NEW answer
    PROVE  Written(u, answer) \in FileTypes
<1>1. \A size, expected, tagged : Stored(size, expected, tagged).data \in FileTypes
    BY DEF Stored, FileTypes
<1> QED
    BY <1>1 DEF Written, FileTypes

-----------------------------------------------------------------------------
LEMMA FilesOfIInv == IInv => FilesOK
BY DEF IInv, TypeOK, FilesOK, FileTypes

LEMMA InitOK == Init => IInv
<1> SUFFICES ASSUME Init PROVE IInv
    OBVIOUS
<1>1. TypeOK
    <2>1. disk \in [Urls -> {"none", "empty", "cipher", "unchecked", "whole"}]
        BY DEF Init
    <2>2. running \in [Slots -> {Idle} \cup Running]
        BY DEF Init
    <2>3. faults \in 0 .. MaxFaults
        BY DownloadAssumption DEF Init, DownloadAssumption
    <2>4. rows \subseteq Messages /\ shown \subseteq rows
          /\ askBeforeDownloading \in BOOLEAN /\ sound \subseteq Urls
        BY DEF Init
    <2> QED
        BY <2>1, <2>2, <2>3, <2>4 DEF TypeOK
<1>2. \A s \in Slots : running[s] = Idle
    BY DEF Init
<1>3. EmptyWhileWritten /\ OneWriter
    BY <1>2 DEF EmptyWhileWritten, OneWriter, WritesTo
<1>4. ShownIsLocal
    BY DEF Init, ShownIsLocal
<1> QED
    BY <1>1, <1>3, <1>4 DEF IInv

(* A download begins on a file that is not there, and so without a writer. *)
LEMMA DoDownloadKeeps ==
    ASSUME FilesOK, NEW m \in Messages, NEW manager \in Manager, DoDownload(m, manager)
    PROVE  /\ FilesOK'
           /\ \A u \in Urls : disk'[u] = disk[u] \/ disk[u] = "none"
<1>1. Url[m] \in Urls
    BY DEF Urls
<1>2. CASE disk[Url[m]] # "none"
    <2>1. UNCHANGED <<running, disk>>
        BY <1>2 DEF DoDownload, StartsDownload
    <2> QED
        BY <2>1 DEF FilesOK, EmptyWhileWritten, OneWriter, WritesTo
<1>3. CASE disk[Url[m]] = "none"
    <2>1. PICK s \in Slots :
            /\ running[s] = Idle
            /\ running' = [running EXCEPT ![s] = [manager |-> manager, message |-> m,
                                                  file |-> "named"]]
            /\ disk' = [disk EXCEPT ![Url[m]] = "empty"]
        BY <1>3 DEF DoDownload, StartsDownload
    <2>2. [manager |-> manager, message |-> m, file |-> "named"] \in Running
        BY DEF Running
    <2>3. disk' \in [Urls -> FileTypes] /\ running' \in [Slots -> {Idle} \cup Running]
        BY <2>1, <2>2 DEF FilesOK, FileTypes
    <2>4. \A t \in Slots \ {s} : running'[t] = running[t]
        BY <2>1 DEF FilesOK
    <2>5. running'[s].message = m /\ running'[s].file = "named"
        BY <2>1 DEF FilesOK
    <2>6. disk'[Url[m]] = "empty" /\ \A u \in Urls \ {Url[m]} : disk'[u] = disk[u]
        BY <1>1, <2>1 DEF FilesOK
    <2>7. \A t \in Slots \ {s} : running[t] # Idle /\ running[t].file = "named"
                                 => Url[running[t].message] # Url[m]
        BY <1>3 DEF FilesOK, EmptyWhileWritten
    <2>8. \A t \in Slots : running[t] # Idle => Url[running[t].message] \in Urls
        BY DEF FilesOK, Running, Urls
    <2>9. EmptyWhileWritten'
        <3> SUFFICES ASSUME NEW t \in Slots, running'[t] # Idle, running'[t].file = "named"
                     PROVE  disk'[Url[running'[t].message]] = "empty"
            BY DEF EmptyWhileWritten
        <3>1. CASE t = s
            BY <3>1, <2>5, <2>6
        <3>2. CASE t # s
            <4>1. running'[t] = running[t]
                BY <3>2, <2>4
            <4>2. Url[running[t].message] \in Urls \ {Url[m]}
                BY <3>2, <4>1, <2>7, <2>8
            <4>3. disk[Url[running[t].message]] = "empty"
                BY <4>1 DEF FilesOK, EmptyWhileWritten
            <4> QED
                BY <4>1, <4>2, <4>3, <2>6
        <3> QED
            BY <3>1, <3>2
    <2>10. OneWriter'
        BY <2>4, <2>5, <2>7 DEF FilesOK, OneWriter, WritesTo
    <2> QED
        BY <1>3, <2>3, <2>6, <2>9, <2>10 DEF FilesOK
<1> QED
    BY <1>2, <1>3

(* What is local stays local when a download begins, so rows may be kept   *)
(* or read again.                                                          *)
LEMMA AddMessageKeeps ==
    ASSUME TypeOK, ShownIsLocal, NEW m \in Messages, AddMessage(m),
           \A u \in Urls : disk'[u] = disk[u] \/ disk[u] = "none"
    PROVE  rows' \subseteq Messages /\ shown' \subseteq rows' /\ ShownIsLocal'
<1>1. CASE m \in rows
    <2>1. rows' = rows /\ shown' = shown
        BY <1>1 DEF AddMessage
    <2>2. \A n \in shown : Url[n] \in Urls
        BY DEF TypeOK, Urls
    <2> QED
        BY <2>1, <2>2 DEF TypeOK, ShownIsLocal, IsLocal
<1>2. CASE m \notin rows
    BY <1>2 DEF AddMessage, Select, TypeOK, ShownIsLocal
<1> QED
    BY <1>1, <1>2

(* A download that ends or is given up takes its slot with it. *)
LEMMA EndKeeps ==
    ASSUME FilesOK, NEW s \in Slots, running[s] # Idle,
           running' = [running EXCEPT ![s] = Idle],
           disk' \in [Urls -> FileTypes],
           \A u \in Urls : \/ disk'[u] = disk[u]
                           \/ running[s].file = "named" /\ u = Url[running[s].message]
    PROVE  FilesOK'
<1>1. running' \in [Slots -> {Idle} \cup Running]
    BY DEF FilesOK
<1>2. running'[s] = Idle /\ \A t \in Slots \ {s} : running'[t] = running[t]
    BY DEF FilesOK
<1>3. \A t \in Slots : running[t] # Idle => Url[running[t].message] \in Urls
    BY DEF FilesOK, Running, Urls
<1>4. OneWriter'
    BY <1>2 DEF FilesOK, OneWriter, WritesTo
<1>5. EmptyWhileWritten'
    <2> SUFFICES ASSUME NEW t \in Slots, running'[t] # Idle, running'[t].file = "named"
                 PROVE  disk'[Url[running'[t].message]] = "empty"
        BY DEF EmptyWhileWritten
    <2>1. t # s /\ running'[t] = running[t] /\ Url[running[t].message] \in Urls
        BY <1>2, <1>3
    <2>2. disk[Url[running[t].message]] = "empty"
        BY <2>1 DEF FilesOK, EmptyWhileWritten
    <2>3. ~(running[s].file = "named" /\ Url[running[t].message] = Url[running[s].message])
        BY <2>1 DEF FilesOK, OneWriter, WritesTo
    <2> QED
        BY <2>1, <2>2, <2>3
<1> QED
    BY <1>1, <1>4, <1>5 DEF FilesOK

(* Files that are removed take their names from those who write to them. *)
LEMMA RemovalKeeps ==
    ASSUME IInv, NEW jid, RemoveMessagesFromJid(jid)
    PROVE  IInv'
<1> DEFINE gone == FilesRemoved(jid)
<1>1. disk' = [u \in Urls |-> IF u \in gone THEN "none" ELSE disk[u]]
    BY DEF RemoveMessagesFromJid
<1>2. running' = [s \in Slots |-> IF running[s] # Idle /\ Url[running[s].message] \in gone
                                  THEN [running[s] EXCEPT !.file = "removed"] ELSE running[s]]
    BY DEF RemoveMessagesFromJid
<1> HIDE DEF gone
<1>3. disk' \in [Urls -> FileTypes]
    BY <1>1 DEF IInv, TypeOK, FileTypes
<1>4. \A s \in Slots : running[s] \in {Idle} \cup Running
    BY DEF IInv, TypeOK
<1>5. \A s \in Slots : running[s] # Idle => [running[s] EXCEPT !.file = "removed"] \in Running
    BY <1>4 DEF Running
<1>6. running' \in [Slots -> {Idle} \cup Running]
    BY <1>2, <1>4, <1>5
<1>7. \A s \in Slots : running'[s] # Idle /\ running'[s].file = "named"
                       => running'[s] = running[s] /\ Url[running[s].message] \notin gone
    BY <1>2, <1>4 DEF Running
<1>8. \A s \in Slots : running[s] # Idle => Url[running[s].message] \in Urls
    BY <1>4 DEF Running, Urls
<1>9. EmptyWhileWritten'
    BY <1>1, <1>7, <1>8 DEF IInv, EmptyWhileWritten
<1>10. OneWriter'
    BY <1>7 DEF IInv, OneWriter, WritesTo
<1>11. rows' = {n \in rows : Jid[n] # jid}
       /\ shown' = {n \in rows' : IsLocal(disk', Url[n])}
    BY DEF RemoveMessagesFromJid, Select
<1>12. ShownIsLocal' /\ rows' \subseteq Messages /\ shown' \subseteq rows'
    BY <1>11 DEF IInv, TypeOK, ShownIsLocal
<1>13. UNCHANGED <<askBeforeDownloading, sound, faults>>
    BY DEF RemoveMessagesFromJid
<1> QED
    BY <1>3, <1>6, <1>9, <1>10, <1>12, <1>13 DEF IInv, TypeOK, FileTypes

(* Nothing is running after a start. *)
LEMMA RestartKeeps ==
    ASSUME IInv, Restart
    PROVE  IInv'
<1>1. /\ running' = [s \in Slots |-> Idle]
      /\ faults' = faults + 1 /\ faults < MaxFaults
      /\ UNCHANGED <<disk, askBeforeDownloading, sound>>
      /\ rows' = rows /\ shown' = {m \in rows : IsLocal(disk', Url[m])}
    BY DEF Restart, Select
<1>2. \A s \in Slots : running'[s] = Idle
    BY <1>1
<1>3. EmptyWhileWritten' /\ OneWriter'
    BY <1>2 DEF EmptyWhileWritten, OneWriter, WritesTo
<1>4. ShownIsLocal'
    BY <1>1 DEF ShownIsLocal
<1>5. faults' \in 0 .. MaxFaults
    BY <1>1, DownloadAssumption DEF IInv, TypeOK, DownloadAssumption
<1>6. TypeOK'
    BY <1>1, <1>5 DEF IInv, TypeOK
<1> QED
    BY <1>3, <1>4, <1>6 DEF IInv

-----------------------------------------------------------------------------
(* What the answer makes of the file, and of the row if it was asked for   *)
(* by MessageHandler's manager.                                            *)
LEMMA FinishedWrites ==
    ASSUME FilesOK, NEW s \in Slots, NEW answer \in Answer, DownloadFinished(s, answer)
    PROVE  /\ running[s] # Idle /\ running' = [running EXCEPT ![s] = Idle]
           /\ disk' \in [Urls -> FileTypes]
           /\ \A u \in Urls : \/ disk'[u] = disk[u]
                              \/ /\ running[s].file = "named" /\ u = Url[running[s].message]
                                 /\ disk[u] = "empty"
<1>1. running[s] # Idle /\ running' = [running EXCEPT ![s] = Idle]
    BY DEF DownloadFinished
<1> DEFINE u == Url[running[s].message]
<1>2. disk' = IF running[s].file = "named" THEN [disk EXCEPT ![u] = Written(u, answer)] ELSE disk
    BY DEF DownloadFinished
<1>3. Written(u, answer) \in FileTypes
    BY WrittenType
<1>4. disk' \in [Urls -> FileTypes]
    BY <1>2, <1>3 DEF FilesOK
<1>5. running[s].file = "named" => disk[u] = "empty"
    BY <1>1 DEF FilesOK, EmptyWhileWritten
<1> QED
    BY <1>1, <1>2, <1>4, <1>5 DEF FilesOK

LEMMA FinishedKeeps ==
    ASSUME IInv, NEW s \in Slots, NEW answer \in Answer, DownloadFinished(s, answer)
    PROVE  IInv'
<1>1. FilesOK
    BY FilesOfIInv
<1>2. FilesOK'
    BY <1>1, FinishedWrites, EndKeeps
<1> DEFINE m == running[s].message
<1>3. UNCHANGED <<rows, askBeforeDownloading, faults>> /\ sound' \subseteq Urls
    <2>1. UNCHANGED <<rows, askBeforeDownloading, faults>>
        BY DEF DownloadFinished
    <2>2. Url[m] \in Urls
        BY <1>1 DEF DownloadFinished, FilesOK, Running, Urls
    <2>3. sound \subseteq Urls
        BY DEF IInv, TypeOK
    <2>4. sound' \in {sound, sound \cup {Url[m]}, sound \ {Url[m]}}
        BY DEF DownloadFinished
    <2> QED
        BY <2>1, <2>2, <2>3, <2>4
<1>4. shown' = IF running[s].manager = "handler" /\ m \in rows
               THEN (shown \ {m}) \cup {n \in {m} : IsLocal(disk', Url[m])} ELSE shown
    BY DEF DownloadFinished
<1>5. \A n \in shown : IsLocal(disk, Url[n]) /\ Url[n] \in Urls
    BY DEF IInv, TypeOK, ShownIsLocal, Urls
<1>6. \A n \in shown : IsLocal(disk', Url[n])
    BY <1>1, <1>5, FinishedWrites DEF IsLocal
<1>7. ShownIsLocal' /\ shown' \subseteq rows
    BY <1>4, <1>6 DEF IInv, TypeOK, ShownIsLocal
<1> QED
    BY <1>2, <1>3, <1>7 DEF IInv, TypeOK, FilesOK, FileTypes

LEMMA NextOK == IInv /\ [Next]_vars => IInv'
<1> SUFFICES ASSUME IInv, [Next]_vars PROVE IInv'
    OBVIOUS
<1>0. FilesOK
    BY FilesOfIInv
<1>1. ASSUME NEW m \in Messages, HandleMessageReceived(m) PROVE IInv'
    <2>1. FilesOK' /\ \A u \in Urls : disk'[u] = disk[u] \/ disk[u] = "none"
        <3>1. CASE DoDownload(m, "handler")
            BY <1>0, <3>1, DoDownloadKeeps DEF Manager
        <3>2. CASE UNCHANGED <<running, disk>>
            BY <1>0, <3>2 DEF FilesOK, EmptyWhileWritten, OneWriter, WritesTo
        <3> QED
            BY <1>1, <3>1, <3>2 DEF HandleMessageReceived
    <2>2. AddMessage(m) /\ UNCHANGED <<askBeforeDownloading, sound, faults>>
        BY <1>1 DEF HandleMessageReceived
    <2>3. rows' \subseteq Messages /\ shown' \subseteq rows' /\ ShownIsLocal'
        BY <2>1, <2>2, AddMessageKeeps DEF IInv
    <2> QED
        BY <2>1, <2>2, <2>3 DEF IInv, TypeOK, FilesOK, FileTypes
<1>2. ASSUME NEW m \in Messages, ProcessMamMessage(m) PROVE IInv'
    <2>1. DoDownload(m, "archive") /\ AddMessage(m) /\ UNCHANGED <<askBeforeDownloading, sound, faults>>
        BY <1>2 DEF ProcessMamMessage
    <2>2. FilesOK' /\ \A u \in Urls : disk'[u] = disk[u] \/ disk[u] = "none"
        BY <1>0, <2>1, DoDownloadKeeps DEF Manager
    <2>3. rows' \subseteq Messages /\ shown' \subseteq rows' /\ ShownIsLocal'
        BY <2>1, <2>2, AddMessageKeeps DEF IInv
    <2> QED
        BY <2>1, <2>2, <2>3 DEF IInv, TypeOK, FilesOK, FileTypes
<1>3. ASSUME NEW m \in Messages, DownloadFile(m) PROVE IInv'
    <2>1. DoDownload(m, "handler") /\ UNCHANGED <<rows, shown, askBeforeDownloading, sound, faults>>
        BY <1>3 DEF DownloadFile
    <2>2. FilesOK' /\ \A u \in Urls : disk'[u] = disk[u] \/ disk[u] = "none"
        BY <1>0, <2>1, DoDownloadKeeps DEF Manager
    <2>3. \A n \in shown : Url[n] \in Urls
        BY DEF IInv, TypeOK, Urls
    <2>4. ShownIsLocal'
        BY <2>1, <2>2, <2>3 DEF IInv, ShownIsLocal, IsLocal
    <2> QED
        BY <2>1, <2>2, <2>4 DEF IInv, TypeOK, FilesOK, FileTypes
<1>4. ASSUME NEW s \in Slots, DownloadFails(s) PROVE IInv'
    <2>1. /\ running[s] # Idle /\ running' = [running EXCEPT ![s] = Idle]
          /\ faults < MaxFaults /\ faults' = faults + 1
          /\ UNCHANGED <<disk, rows, shown, askBeforeDownloading, sound>>
        BY <1>4 DEF DownloadFails
    <2>2. disk' \in [Urls -> FileTypes] /\ \A u \in Urls : disk'[u] = disk[u]
        BY <1>0, <2>1 DEF FilesOK
    <2>3. FilesOK'
        BY <1>0, <2>1, <2>2, EndKeeps
    <2>4. faults' \in 0 .. MaxFaults
        BY <2>1, DownloadAssumption DEF IInv, TypeOK, DownloadAssumption
    <2>5. ShownIsLocal'
        BY <2>1 DEF IInv, ShownIsLocal
    <2> QED
        BY <2>1, <2>3, <2>4, <2>5 DEF IInv, TypeOK, FilesOK, FileTypes
<1>5. ASSUME NEW s \in Slots, NEW answer \in Answer, DownloadFinished(s, answer) PROVE IInv'
    BY <1>5, FinishedKeeps
<1>6. ASSUME NEW m \in Messages, RemoveMessagesFromJid(Jid[m]) PROVE IInv'
    BY <1>6, RemovalKeeps
<1>7. CASE SetFilterOnJid
    <2>1. /\ UNCHANGED <<disk, running, askBeforeDownloading, sound, faults>> /\ rows' = rows
          /\ shown' = {m \in rows : IsLocal(disk', Url[m])}
        BY <1>7 DEF SetFilterOnJid, Select
    <2>2. ShownIsLocal' /\ shown' \subseteq rows
        BY <2>1 DEF ShownIsLocal
    <2> QED
        BY <2>1, <2>2 DEF IInv, TypeOK, EmptyWhileWritten, OneWriter, WritesTo
<1>8. ASSUME NEW enabled \in BOOLEAN, SetAskBeforeDownloading(enabled) PROVE IInv'
    BY <1>8 DEF SetAskBeforeDownloading, IInv, TypeOK, EmptyWhileWritten, OneWriter,
                WritesTo, ShownIsLocal
<1>9. CASE Restart
    BY <1>9, RestartKeeps
<1>10. CASE UNCHANGED vars
    BY <1>10 DEF vars, IInv, TypeOK, EmptyWhileWritten, OneWriter, WritesTo,
                 ShownIsLocal
<1> QED
    BY <1>1, <1>2, <1>3, <1>4, <1>5, <1>6, <1>7, <1>8, <1>9, <1>10 DEF Next

LEMMA Invariant == Spec => []IInv
BY InitOK, NextOK, PTL DEF Spec

-----------------------------------------------------------------------------
(* Files, downloads, rows and settings keep their types, and only listed   *)
(* messages are shown with a file.                                         *)
THEOREM TypeCorrect == Spec => []TypeOK
<1>1. IInv => TypeOK
    BY DEF IInv
<1> QED
    BY <1>1, Invariant, PTL

(* A file never has two writers, however many downloads are running, of    *)
(* whichever manager, and whatever conversations are removed meanwhile.    *)
THEOREM NeverTwoWriters == Spec => []OneWriter
<1>1. IInv => OneWriter
    BY DEF IInv
<1> QED
    BY <1>1, Invariant, PTL

(* What a row offers to open is on the disk.                               *)
THEOREM ShownIsThere == Spec => []ShownIsLocal
<1>1. IInv => ShownIsLocal
    BY DEF IInv
<1> QED
    BY <1>1, Invariant, PTL

(* What a row offers is the attachment exactly when it came in an answer   *)
(* that could be decrypted and checked, for payloads and tags of any size. *)
THEOREM ShownReadable == Spec => []ShownIsReadable
<1> DEFINE Matches(u) == disk[u] \in {"none", "empty"} \/ (u \in sound <=> disk[u] = "whole")
           SoundIsWhole == \A u \in Urls : Matches(u)
<1>1. Init => SoundIsWhole
    BY DEF Init
<1>2. IInv /\ SoundIsWhole /\ [Next]_vars => SoundIsWhole'
    <2> SUFFICES ASSUME IInv, SoundIsWhole, [Next]_vars, NEW u \in Urls PROVE Matches(u)'
        OBVIOUS
    <2>0. FilesOK
        BY FilesOfIInv
    <2>1. ASSUME UNCHANGED <<disk, sound>> PROVE Matches(u)'
        BY <2>1
    <2>2. ASSUME NEW m \in Messages, NEW manager \in Manager, DoDownload(m, manager),
                 sound' = sound
          PROVE  Matches(u)'
        <3>1. disk'[u] = disk[u] \/ disk'[u] = "empty"
            BY <2>0, <2>2 DEF DoDownload, FilesOK, Urls
        <3> QED
            BY <2>2, <3>1
    <2>3. ASSUME NEW m \in Messages, HandleMessageReceived(m) PROVE Matches(u)'
        BY <2>1, <2>2, <2>3 DEF HandleMessageReceived, Manager
    <2>4. ASSUME NEW m \in Messages, ProcessMamMessage(m) PROVE Matches(u)'
        BY <2>2, <2>4 DEF ProcessMamMessage, Manager
    <2>5. ASSUME NEW m \in Messages, DownloadFile(m) PROVE Matches(u)'
        BY <2>2, <2>5 DEF DownloadFile, Manager
    <2>6. ASSUME NEW s \in Slots, DownloadFails(s) PROVE Matches(u)'
        BY <2>1, <2>6 DEF DownloadFails
    <2>7. ASSUME NEW s \in Slots, NEW answer \in Answer, DownloadFinished(s, answer)
          PROVE  Matches(u)'
        <3> DEFINE v == Url[running[s].message]
        <3>1. CASE running[s].file # "named"
            BY <2>1, <2>7, <3>1 DEF DownloadFinished
        <3>2. CASE running[s].file = "named"
            <4>1. /\ disk' = [disk EXCEPT ![v] = Written(v, answer)]
                  /\ sound' = IF Sound(v, answer) THEN sound \cup {v} ELSE sound \ {v}
                BY <2>7, <3>2 DEF DownloadFinished
            <4>2. CASE u = v
                <5>1. disk'[u] = Written(u, answer)
                    BY <2>0, <4>1, <4>2 DEF FilesOK
                <5>2. u \in sound' <=> Sound(u, answer)
                    BY <4>1, <4>2
                <5>3. Written(u, answer) # "empty"
                      => (Sound(u, answer) <=> Written(u, answer) = "whole")
                    BY WrittenIsSound
                <5> QED
                    BY <5>1, <5>2, <5>3
            <4>3. CASE u # v
                <5>1. disk'[u] = disk[u] /\ (u \in sound' <=> u \in sound)
                    BY <2>0, <4>1, <4>3 DEF FilesOK
                <5>2. Matches(u)
                    OBVIOUS
                <5> QED
                    BY <5>1, <5>2
            <4> QED
                BY <4>2, <4>3
        <3> QED
            BY <3>1, <3>2
    <2>8. ASSUME NEW n \in Messages, RemoveMessagesFromJid(Jid[n]) PROVE Matches(u)'
        <3>1. (disk'[u] = "none" \/ disk'[u] = disk[u]) /\ sound' = sound
            BY <2>8 DEF RemoveMessagesFromJid
        <3> QED
            BY <3>1
    <2>9. CASE SetFilterOnJid
        BY <2>1, <2>9 DEF SetFilterOnJid
    <2>10. ASSUME NEW enabled \in BOOLEAN, SetAskBeforeDownloading(enabled)
           PROVE  Matches(u)'
        BY <2>1, <2>10 DEF SetAskBeforeDownloading
    <2>11. CASE Restart
        BY <2>1, <2>11 DEF Restart
    <2>12. CASE UNCHANGED vars
        BY <2>1, <2>12 DEF vars
    <2> QED
        BY <2>3, <2>4, <2>5, <2>6, <2>7, <2>8, <2>9, <2>10, <2>11, <2>12 DEF Next
<1>3. IInv /\ SoundIsWhole => ShownIsReadable
    <2> SUFFICES ASSUME IInv, SoundIsWhole, NEW m \in shown
                 PROVE  Url[m] \in sound <=> disk[Url[m]] = "whole"
        BY DEF ShownIsReadable
    <2>1. m \in Messages /\ IsLocal(disk, Url[m])
        BY DEF IInv, TypeOK, ShownIsLocal
    <2>2. Matches(Url[m])
        BY <2>1 DEF Urls
    <2> QED
        BY <2>1, <2>2 DEF IsLocal
<1> QED
    BY <1>1, <1>2, <1>3, Invariant, PTL DEF Spec

(* A whole file is touched by nothing but the removal of a message with    *)
(* its url: every writer's file is empty.                                  *)
THEOREM WholeStays == Spec => WholeStaysWhole
<1> DEFINE Stays(u) == \/ disk'[u] = "whole"
                       \/ disk'[u] = "none" /\ \E m \in rows \ rows' : Url[m] = u
<1>1. IInv /\ [Next]_vars => [\A u \in Urls : disk[u] = "whole" => Stays(u)]_vars
    <2> SUFFICES ASSUME IInv, Next, NEW u \in Urls, disk[u] = "whole" PROVE Stays(u)
        OBVIOUS
    <2>0. FilesOK
        BY FilesOfIInv
    <2>1. ASSUME NEW m \in Messages, NEW manager \in Manager, DoDownload(m, manager)
          PROVE  Stays(u)
        BY <2>0, <2>1, DoDownloadKeeps
    <2>2. ASSUME disk' = disk PROVE Stays(u)
        BY <2>2
    <2>3. ASSUME NEW m \in Messages, HandleMessageReceived(m) PROVE Stays(u)
        BY <2>1, <2>2, <2>3 DEF HandleMessageReceived, Manager
    <2>4. ASSUME NEW m \in Messages, ProcessMamMessage(m) PROVE Stays(u)
        BY <2>1, <2>4 DEF ProcessMamMessage, Manager
    <2>5. ASSUME NEW m \in Messages, DownloadFile(m) PROVE Stays(u)
        BY <2>1, <2>5 DEF DownloadFile, Manager
    <2>6. ASSUME NEW s \in Slots, DownloadFails(s) PROVE Stays(u)
        BY <2>2, <2>6 DEF DownloadFails
    <2>7. ASSUME NEW s \in Slots, NEW answer \in Answer, DownloadFinished(s, answer)
          PROVE  Stays(u)
        BY <2>0, <2>7, FinishedWrites
    <2>8. ASSUME NEW n \in Messages, RemoveMessagesFromJid(Jid[n]) PROVE Stays(u)
        <3>1. disk'[u] = IF u \in FilesRemoved(Jid[n]) THEN "none" ELSE disk[u]
            BY <2>8 DEF RemoveMessagesFromJid
        <3>2. rows' = {m \in rows : Jid[m] # Jid[n]}
            BY <2>8 DEF RemoveMessagesFromJid, Select
        <3>3. u \in FilesRemoved(Jid[n]) => \E m \in rows \ rows' : Url[m] = u
            BY <3>2 DEF FilesRemoved
        <3> QED
            BY <3>1, <3>3
    <2>9. CASE SetFilterOnJid
        BY <2>2, <2>9 DEF SetFilterOnJid
    <2>10. ASSUME NEW enabled \in BOOLEAN, SetAskBeforeDownloading(enabled) PROVE Stays(u)
        BY <2>2, <2>10 DEF SetAskBeforeDownloading
    <2>11. CASE Restart
        BY <2>2, <2>11 DEF Restart
    <2> QED
        BY <2>3, <2>4, <2>5, <2>6, <2>7, <2>8, <2>9, <2>10, <2>11 DEF Next
<1>2. Spec => [][\A u \in Urls : disk[u] = "whole" => Stays(u)]_vars
    BY <1>1, Invariant, PTL DEF Spec
<1> QED
    BY <1>2 DEF WholeStaysWhole
=============================================================================
