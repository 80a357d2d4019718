------------------------------ MODULE Download ------------------------------
(***************************************************************************)
(* How attachments get to the disk and into the list of messages:          *)
(* DownloadManager, of which MessageHandler and MamManager have one each,  *)
(* the decrypting FileWithCypher, Shmoose::getLocalFileForUrl and the row  *)
(* of a message in MessagingPage.qml.                                      *)
(*                                                                         *)
(* The name of the file is a hash of the url, so both managers, and every  *)
(* message with that url, share it.  It is created when the request is     *)
(* sent and written when the answer is in; a file that is removed in       *)
(* between stays open, without a name.                                     *)
(***************************************************************************)
EXTENDS CypherTag

CONSTANTS Messages,   \* messages with an attachment
          Url, Jid,   \* message -> its url, its conversation
          Encrypted,  \* the urls of the scheme aesgcm, whose fragment has iv and key
          Supported,  \* those of them with an iv of a size that is supported
          Payload,    \* url -> the size of the attachment
          MaxRunning, \* bound: downloads at a time
          MaxFaults   \* bound: failed downloads and restarts

ASSUME DownloadAssumption ==
    /\ Encrypted \subseteq {Url[m] : m \in Messages} /\ Supported \subseteq Encrypted
    /\ Payload \in [{Url[m] : m \in Messages} -> Nat]
    /\ MaxRunning \in Nat /\ MaxFaults \in Nat

VARIABLES disk,     \* url -> what is in its file
          running,  \* slot -> the download in it: currentDownloads, downloadedFiles, relatedMsgIds
          rows,     \* the messages that are listed
          shown,    \* the listed messages with item.file # "": the others have a button
          askBeforeDownloading, \* the setting, and MessageHandler's copy of it
          sound,    \* history: the urls whose answer could be decrypted and checked
          faults    \* for the bound

vars == <<disk, running, rows, shown, askBeforeDownloading, sound, faults>>

Urls == {Url[m] : m \in Messages}
Slots == 1 .. MaxRunning
Manager == {"handler", "archive"}

(* An answer states its length or not; behind the data is their tag, or a  *)
(* wrong one, or none.                                                     *)
Answer == [length : BOOLEAN, tag : {"valid", "invalid", "missing"}]
Idle == [manager |-> "none"]

(* file: "named" while the file it writes to has the name of the url. *)
Running == [manager : Manager, message : Messages, file : {"named", "removed"}]

WritesTo(u) == {s \in Slots : running[s] # Idle /\ running[s].file = "named"
                              /\ Url[running[s].message] = u}

Init == /\ disk = [u \in Urls |-> "none"]
        /\ running = [s \in Slots |-> Idle]
        /\ rows = {} /\ shown = {}
        /\ askBeforeDownloading = FALSE /\ sound = {} /\ faults = 0

-----------------------------------------------------------------------------
(* Faulty variant: a file of size 0 counts as not there, as it does for    *)
(* the row.                                                                *)
StartsDownloadIfEmpty(u) == disk[u] \in {"none", "empty"}

(* A file with the url's name, of whatever size, is not downloaded again. *)
StartsDownload(u) == disk[u] = "none"

(* doDownload: sends the request and creates the file. *)
DoDownload(m, manager) ==
    IF StartsDownload(Url[m])
    THEN \E s \in Slots :
            /\ running[s] = Idle /\ \A t \in 1 .. s - 1 : running[t] # Idle
            /\ running' = [running EXCEPT ![s] = [manager |-> manager, message |-> m,
                                                  file |-> "named"]]
            /\ disk' = [disk EXCEPT ![Url[m]] = "empty"]
    ELSE UNCHANGED <<running, disk>>

(* getLocalFileForUrl: the file is there and not empty. *)
IsLocal(files, u) == files[u] \notin {"none", "empty"}

(* The list is read again: select makes every row anew. *)
Select(listed) ==
    /\ rows' = listed
    /\ shown' = {m \in listed : IsLocal(disk', Url[m])}

(* addMessage of a message that may be listed already. *)
AddMessage(m) == IF m \in rows THEN UNCHANGED <<rows, shown>>
                 ELSE Select(rows \cup {m})

(* handleMessageReceived, of a message with a link. *)
HandleMessageReceived(m) ==
    /\ IF askBeforeDownloading THEN UNCHANGED <<running, disk>>
       ELSE DoDownload(m, "handler")
    /\ AddMessage(m)
    /\ UNCHANGED <<askBeforeDownloading, sound, faults>>

(* processMamMessage, of a message with a link. *)
ProcessMamMessage(m) ==
    /\ DoDownload(m, "archive")
    /\ AddMessage(m)
    /\ UNCHANGED <<askBeforeDownloading, sound, faults>>

(* The button "Download" of a row without a file. *)
DownloadFile(m) ==
    /\ m \in rows \ shown
    /\ DoDownload(m, "handler")
    /\ UNCHANGED <<rows, shown, askBeforeDownloading, sound, faults>>

(* The bytes of an answer. *)
Size(u, answer) ==
    IF u \notin Encrypted \/ answer.tag = "missing" THEN Payload[u]
    ELSE Payload[u] + TagSize

(* downloadFinished writes the answer at once and closes the file.  For an *)
(* iv of another size initDecryptionOnWrite has set up no cipher: what     *)
(* came is kept.                                                           *)
Written(u, answer) ==
    LET size == Size(u, answer)
        file == IF u \notin Encrypted THEN [size |-> size, data |-> "whole"]
                ELSE IF u \notin Supported THEN [size |-> size, data |-> "cipher"]
                ELSE Stored(size, IF answer.length THEN size ELSE 0, answer.tag = "valid")
    IN  IF file.size = 0 THEN "empty" ELSE file.data

(* The answer can be decrypted, or needs not be, and be checked. *)
Sound(u, answer) ==
    u \in Encrypted => u \in Supported /\ answer.length /\ answer.tag = "valid"

(* Faulty variant: the file is removed, by its name. *)
DownloadFailsRemovesFile(s) ==
    /\ running[s] # Idle /\ faults < MaxFaults
    /\ faults' = faults + 1
    /\ running' = [running EXCEPT ![s] = Idle]
    /\ disk' = [disk EXCEPT ![Url[running[s].message]] = "none"]
    /\ UNCHANGED <<rows, shown, askBeforeDownloading, sound>>

(* downloadFinished with an error; nobody listens to httpDownloadFailed. *)
DownloadFails(s) ==
    /\ running[s] # Idle /\ faults < MaxFaults
    /\ faults' = faults + 1
    /\ running' = [running EXCEPT ![s] = Idle]
    /\ UNCHANGED <<disk, rows, shown, askBeforeDownloading, sound>>

(* downloadFinished: the row is told when it was MessageHandler's manager. *)
DownloadFinished(s, answer) ==
    /\ running[s] # Idle
    /\ running' = [running EXCEPT ![s] = Idle]
    /\ LET m == running[s].message
       IN  /\ IF running[s].file = "named"
              THEN /\ disk' = [disk EXCEPT ![Url[m]] = Written(Url[m], answer)]
                   /\ sound' = IF Sound(Url[m], answer) THEN sound \cup {Url[m]}
                               ELSE sound \ {Url[m]}
              ELSE UNCHANGED <<disk, sound>>
           /\ shown' = IF running[s].manager = "handler" /\ m \in rows
                       THEN (shown \ {m}) \cup {n \in {m} : IsLocal(disk', Url[m])}
                       ELSE shown
    /\ UNCHANGED <<rows, askBeforeDownloading, faults>>

-----------------------------------------------------------------------------
FilesRemoved(jid) == {Url[m] : m \in {n \in rows : Jid[n] = jid}}

(* Faulty variant: the list is not read again. *)
RemoveMessagesFromJidUnseen(jid) ==
    /\ disk' = [u \in Urls |-> IF u \in FilesRemoved(jid) THEN "none" ELSE disk[u]]
    /\ running' = [s \in Slots |->
          IF running[s] # Idle /\ Url[running[s].message] \in FilesRemoved(jid)
          THEN [running[s] EXCEPT !.file = "removed"] ELSE running[s]]
    /\ rows' = {m \in rows : Jid[m] # jid}
    /\ UNCHANGED <<shown, askBeforeDownloading, sound, faults>>

(* removeMessagesFromJid: the files first, also of urls that another       *)
(* conversation has; then the rows.                                        *)
RemoveMessagesFromJid(jid) ==
    /\ disk' = [u \in Urls |-> IF u \in FilesRemoved(jid) THEN "none" ELSE disk[u]]
    /\ running' = [s \in Slots |->
          IF running[s] # Idle /\ Url[running[s].message] \in FilesRemoved(jid)
          THEN [running[s] EXCEPT !.file = "removed"] ELSE running[s]]
    /\ Select({m \in rows : Jid[m] # jid})
    /\ UNCHANGED <<askBeforeDownloading, sound, faults>>

(* setFilterOnJid: a chat is opened. *)
SetFilterOnJid ==
    /\ UNCHANGED <<disk, running, askBeforeDownloading, sound, faults>>
    /\ Select(rows)

(* Settings::setAskBeforeDownloading, which tells MessageHandler. *)
SetAskBeforeDownloading(enabled) ==
    /\ askBeforeDownloading' = enabled
    /\ UNCHANGED <<disk, running, rows, shown, sound, faults>>

(* The program ends and is started again.  setupWithClient reads the       *)
(* setting before any message can come.                                    *)
Restart ==
    /\ faults < MaxFaults /\ faults' = faults + 1
    /\ running' = [s \in Slots |-> Idle]
    /\ UNCHANGED <<disk, askBeforeDownloading, sound>>
    /\ Select(rows)

Next ==
    \/ \E m \in Messages : HandleMessageReceived(m)
    \/ \E m \in Messages : ProcessMamMessage(m)
    \/ \E m \in Messages : DownloadFile(m)
    \/ \E s \in Slots : DownloadFails(s)
    \/ \E s \in Slots, answer \in Answer : DownloadFinished(s, answer)
    \/ \E m \in Messages : RemoveMessagesFromJid(Jid[m])
    \/ SetFilterOnJid
    \/ \E enabled \in BOOLEAN : SetAskBeforeDownloading(enabled)
    \/ Restart

Spec == Init /\ [][Next]_vars

-----------------------------------------------------------------------------
(* In a file there is what was attached, or what came undecrypted, or what *)
(* was decrypted with the bytes that were taken for a tag.                 *)
TypeOK == /\ disk \in [Urls -> {"none", "empty", "cipher", "unchecked", "whole"}]
          /\ running \in [Slots -> {Idle} \cup Running]
          /\ rows \subseteq Messages /\ shown \subseteq rows
          /\ askBeforeDownloading \in BOOLEAN /\ sound \subseteq Urls
          /\ faults \in 0 .. MaxFaults

(* Two downloads never write to one file, although two managers and        *)
(* several messages share its name and a conversation may be removed while *)
(* its files are written.                                                  *)
OneWriter ==
    \A s, t \in Slots : \A u \in Urls : s \in WritesTo(u) /\ t \in WritesTo(u) => s = t

(* What a row offers to open is there: removing another conversation with  *)
(* the same url takes it from the row as well.                             *)
ShownIsLocal == \A m \in shown : IsLocal(disk, Url[m])

(* A file that came whole stays until a message with its url is removed: a *)
(* download that was begun earlier, whose file was removed meanwhile, does *)
(* not touch it, whether it ends or fails.                                 *)
WholeStaysWhole ==
    [][\A u \in Urls : disk[u] = "whole" =>
          \/ disk'[u] = "whole"
          \/ disk'[u] = "none" /\ \E m \in rows \ rows' : Url[m] = u]_vars

(* What a row offers is what was attached, decrypted and without its tag,  *)
(* exactly when the answer with it stated its length and had a valid tag   *)
(* and the iv is of a supported size: with any other answer, undecrypted   *)
(* or unchecked data are offered.                                          *)
ShownIsReadable == \A m \in shown : Url[m] \in sound <=> disk[Url[m]] = "whole"

(* Not so: whatever came, a row offers what was attached.                  *)
ShownIsWhole == \A m \in shown : disk[Url[m]] = "whole"

(* "check if file from that url is already local downloaded": a file that  *)
(* is there is downloaded, or is being downloaded.                         *)
ExistingIsDownloaded == \A u \in Urls : disk[u] = "empty" => WritesTo(u) # {}

(* "Ask before downloading attachments": while the setting is on, only the *)
(* button begins a download.                                               *)
AskedBefore ==
    [][\A u \in Urls : askBeforeDownloading /\ disk[u] = "none" /\ disk'[u] = "empty"
          => \E m \in rows \ shown : Url[m] = u /\ DownloadFile(m)]_vars

=============================================================================
