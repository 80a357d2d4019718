----------------------------- MODULE FileUpload -----------------------------
(***************************************************************************)
(* Sending a file: Shmoose::sendFile, HttpFileUploadManager and            *)
(* HttpFileUploader (XEP-0363).  The file is shown as a message of its own *)
(* until the upload has ended; then that row is removed and a message with *)
(* the file's url is sent, or it is marked as failed.  The file itself, as *)
(* the network reads it, is FileCypher's.                                  *)
(*                                                                         *)
(* Two members decide everything and are reset in different places:        *)
(* HttpFileUploadManager::busy_ and Shmoose::notSentMsgId_.                *)
(***************************************************************************)
EXTENDS MessageTable, CypherTag, FiniteSets, Sequences

CONSTANTS Members, NoJid, MaxUnread,    \* as in MessageStore
          FileIds,    \* ids of the messages that stand for a file
          Url,        \* FileIds -> the id of the message with the file's url
          NoId,       \* the empty QString
          FileSize,   \* FileIds -> the size of the copy that is uploaded
          ReadSizes,  \* as in FileCypher
          OpenChat    \* the chat that is open all the while

ASSUME UploadAssumption ==
    /\ FileIds \subseteq Ids /\ NoId \notin Ids
    /\ Url \in [FileIds -> Ids \ FileIds]
    /\ \A f, g \in FileIds : Url[f] = Url[g] => f = g
    /\ OpenChat \in Jids \cup {NoJid}
    /\ FileSize \in [FileIds -> Nat] /\ ReadSizes \subseteq Nat
    /\ 1 \in Times /\ MaxUnread \in Nat

VARIABLES messages, sessions,   \* the tables, as in MessageStore
          notSentMsgId,   \* Shmoose::notSentMsgId_
          busy,           \* HttpFileUploadManager::busy_
          jid_,           \* HttpFileUploadManager::jid_
          file_,          \* HttpFileUploadManager::file_, as the id of its message
          encryptFile_,   \* HttpFileUploadManager::encryptFile_
          announced,      \* the size in the request for a slot
          fileSize, cipher, encrypted, open, pos, sent, eof, resent, \* *file_, as in FileCypher
          stage,          \* FileIds -> how far the request for the file is
          chosen,         \* history: FileIds -> the chat the user chose
          mishaps         \* history: what happened in this program run

file == <<fileSize, cipher, encrypted, open, pos, sent, eof, resent>>
request == <<encryptFile_, announced, file>>
vars == <<messages, sessions, notSentMsgId, busy, jid_, file_, request, stage, chosen,
          mishaps>>

File == INSTANCE FileCypher WITH Sizes <- {FileSize[f] : f \in FileIds}

(* "hasty": a file was chosen while another was on its way.  The others    *)
(* leave busy_ set.                                                        *)
Stuck == {"unanswered", "invalid", "rename"}
Mishap == Stuck \cup {"hasty"}

Store == INSTANCE MessageStore
            WITH markers <- [m \in Ids \X Members |-> 0], valid <- TRUE,
                 chatPartner <- OpenChat, sessionPartner <- OpenChat

(* "slot": the server is asked for a place; "put": the file is on its way. *)
Stage == {"unsent", "slot", "put", "ended"}
Running == {f \in FileIds : stage[f] \in {"slot", "put"}}

Init == /\ messages = EmptyTable
        /\ sessions = EmptyTable
        /\ notSentMsgId = NoId
        /\ busy = FALSE
        /\ jid_ = NoJid
        /\ file_ = NoId
        /\ encryptFile_ = FALSE /\ announced = 0 /\ File!Init
        /\ stage = [f \in FileIds |-> "unsent"]
        /\ chosen = [f \in FileIds |-> NoJid]
        /\ mishaps = {}

SessionsWith(id, jid) ==
    IF IsMessageIdForJid(messages, id, jid) THEN sessions
    ELSE Store!UpdateSession(sessions, jid, OpenChat)

-----------------------------------------------------------------------------
(* setFileName and requestHttpUploadSlot, which announces size(): the      *)
(* cipher is still the one of the last upload.  Neither this nor upload    *)
(* asks whether the file is still being read (FileIsUsedInTurn).           *)
RequestHttpUploadSlot(id, encrypt) ==
    /\ encryptFile_' = encrypt
    /\ File!NewName(FileSize[id])
    /\ announced' = File!Size'
    /\ stage' = [stage EXCEPT ![id] = "slot"]

(* Faulty variant: a running upload is not asked for. *)
RequestWhileBusy(id, jid, encrypt) ==
    /\ busy' = TRUE /\ jid_' = jid /\ file_' = id
    /\ RequestHttpUploadSlot(id, encrypt)

(* Faulty variant: the jid is noted before busy_ is looked at. *)
RequestNotesJidFirst(id, jid, encrypt) ==
    /\ jid_' = jid
    /\ IF busy THEN UNCHANGED <<busy, file_, request, stage>>
       ELSE /\ busy' = TRUE /\ file_' = id
            /\ RequestHttpUploadSlot(id, encrypt)

(* requestToUploadFileForJid, when it returns true. *)
RequestToUploadFileForJid(id, jid, encrypt) ==
    /\ ~busy
    /\ busy' = TRUE /\ jid_' = jid /\ file_' = id
    /\ RequestHttpUploadSlot(id, encrypt)

(* Shmoose::sendFile.  The request is refused while another one runs, when *)
(* the server has no upload service, when the file is too large, or when   *)
(* it cannot be resized or copied.  It is encrypted for a contact with     *)
(* OMEMO devices that is not on the list of plain text contacts.           *)
SendFile(id, jid) ==
    /\ stage[id] = "unsent" /\ Store!MayGrow(messages, sessions, jid)
    /\ mishaps' = IF busy THEN mishaps \cup {"hasty"} ELSE mishaps
    /\ notSentMsgId' = id
    /\ chosen' = [chosen EXCEPT ![id] = jid]
    /\ sessions' = SessionsWith(id, jid)
    /\ LET t == SetMessageStateOfId(AddMessage(messages, id, jid, "out", 1),
                                    id, UPLOADING_ATTACHMENT)
       IN  \/ /\ \E encrypt \in BOOLEAN : RequestToUploadFileForJid(id, jid, encrypt)
              /\ messages' = t
           \/ /\ messages' = SetMessageStateOfId(t, id, SEND_FAILED)
              /\ stage' = [stage EXCEPT ![id] = "ended"]
              /\ UNCHANGED <<busy, jid_, file_, request>>

(* Faulty variant: the id is reset before it is used. *)
AttachmentUploadFailedResetsFirst ==
    /\ messages' = SetMessageStateOfId(messages, NoId, SEND_FAILED)
    /\ notSentMsgId' = NoId
    /\ UNCHANGED sessions

(* Shmoose::attachmentUploadFailed *)
AttachmentUploadFailed ==
    /\ messages' = SetMessageStateOfId(messages, notSentMsgId, SEND_FAILED)
    /\ notSentMsgId' = NoId
    /\ UNCHANGED sessions

(* Shmoose::fileUploaded, which sends the url as a message; what becomes   *)
(* of that message is Messaging's.                                         *)
FileUploaded ==
    LET t == RemoveMessage(messages, notSentMsgId, jid_)
    IN  /\ Store!MayGrow(t, sessions, jid_)
        /\ messages' = AddMessage(t, Url[file_], jid_, "out", 1)
        /\ sessions' = SessionsWith(Url[file_], jid_)
        /\ notSentMsgId' = NoId

(* errorReceived *)
ErrorReceived == busy' = FALSE /\ AttachmentUploadFailed

(* Faulty variant: busy_ is left set. *)
SuccessStaysBusy == UNCHANGED busy /\ FileUploaded

(* successReceived *)
SuccessReceived == busy' = FALSE /\ FileUploaded

-----------------------------------------------------------------------------
(* Faulty variant: the file keeps the cipher of the last upload. *)
UploadKeepsCipher(id) ==
    \/ /\ open' = TRUE /\ stage' = [stage EXCEPT ![id] = "put"]
       /\ UNCHANGED <<messages, sessions, notSentMsgId, busy, fileSize, cipher, encrypted,
                      pos, sent, eof, resent>>
    \/ /\ ErrorReceived /\ stage' = [stage EXCEPT ![id] = "ended"]
       /\ UNCHANGED file

(* HttpFileUploader::upload: the copy of the file may not be opened. *)
Upload(id) ==
    /\ File!NewCipher(encryptFile_)
    /\ \/ /\ open' /\ stage' = [stage EXCEPT ![id] = "put"]
          /\ UNCHANGED <<messages, sessions, notSentMsgId, busy>>
       \/ /\ ~open' /\ stage' = [stage EXCEPT ![id] = "ended"]
          /\ ErrorReceived

(* handleHttpUploadResponse with two urls: the copy of the file may not be *)
(* renamed.                                                                *)
HandleHttpUploadResponse(id) ==
    /\ stage[id] = "slot"
    /\ \/ Upload(id) /\ UNCHANGED mishaps
       \/ /\ File!NewCipher(encryptFile_) /\ ~open'
          /\ AttachmentUploadFailed
          /\ stage' = [stage EXCEPT ![id] = "ended"]
          /\ mishaps' = mishaps \cup {"rename"}
          /\ UNCHANGED busy
    /\ UNCHANGED <<jid_, file_, encryptFile_, announced, chosen>>

(* handleHttpUploadResponse with an error, which does not parse as a slot, *)
(* or with invalid urls: nothing is done.                                  *)
HandleInvalidResponse(id) ==
    /\ stage[id] = "slot"
    /\ stage' = [stage EXCEPT ![id] = "ended"]
    /\ mishaps' = mishaps \cup {"invalid"}
    /\ UNCHANGED <<messages, sessions, notSentMsgId, busy, jid_, file_, request, chosen>>

(* The request or its answer is lost with the connection. *)
SlotUnanswered(id) ==
    /\ stage[id] = "slot"
    /\ stage' = [stage EXCEPT ![id] = "ended"]
    /\ mishaps' = mishaps \cup {"unanswered"}
    /\ UNCHANGED <<messages, sessions, notSentMsgId, busy, jid_, file_, request, chosen>>

manager == <<messages, sessions, notSentMsgId, busy, jid_, file_, encryptFile_, announced,
             stage, chosen, mishaps>>

(* QNetworkAccessManager reads the file for the request. *)
NetworkReads(maxSize) == File!ReadData(maxSize) /\ UNCHANGED manager

(* It sends the request again; bound: once for an upload. *)
NetworkResends == ~resent /\ File!Reset /\ UNCHANGED manager

(* putFinished: the server has the whole request, or there is an error.    *)
PutFinished(id) ==
    /\ stage[id] = "put"
    /\ File!Close
    /\ stage' = [stage EXCEPT ![id] = "ended"]
    /\ \/ Len(sent) = File!Size /\ SuccessReceived
       \/ ErrorReceived
    /\ UNCHANGED <<jid_, file_, encryptFile_, announced, chosen, mishaps>>

(* Persistence::removeConversation *)
RemoveConversation(jid) ==
    /\ messages' = RemoveMessagesFromJid(messages, jid)
    /\ sessions' = Store!RemoveSession(sessions, jid)
    /\ UNCHANGED <<notSentMsgId, busy, jid_, file_, request, stage, chosen, mishaps>>

(* The program ends and is started again, up to the opened database.  It   *)
(* ends between two handlers: what it leaves when it ends within one is in *)
(* MessageStore.                                                           *)
Restart ==
    /\ notSentMsgId' = NoId /\ busy' = FALSE /\ jid_' = NoJid /\ file_' = NoId
    /\ encryptFile_' = FALSE /\ announced' = 0 /\ File!Restart
    /\ mishaps' = {}
    /\ stage' = [f \in FileIds |-> IF f \in Running THEN "ended" ELSE stage[f]]
    /\ messages' = FailInterruptedUploads(messages)
    /\ UNCHANGED <<sessions, chosen>>

Next ==
    \/ \E id \in FileIds, jid \in Jids : SendFile(id, jid)
    \/ \E id \in FileIds : HandleHttpUploadResponse(id)
    \/ \E id \in FileIds : HandleInvalidResponse(id)
    \/ \E id \in FileIds : SlotUnanswered(id)
    \/ \E maxSize \in ReadSizes : NetworkReads(maxSize)
    \/ NetworkResends
    \/ \E id \in FileIds : PutFinished(id)
    \/ \E jid \in Jids : RemoveConversation(jid)
    \/ Restart

Spec == Init /\ [][Next]_vars

(* The server answers a request that is not lost, and the network ends a   *)
(* transfer in one way or the other.                                       *)
FairSpec == /\ Spec
            /\ \A id \in FileIds : /\ WF_vars(HandleHttpUploadResponse(id))
                                   /\ WF_vars(PutFinished(id))

-----------------------------------------------------------------------------
TypeOK == /\ IsTable(messages)
          /\ File!TypeOK
          /\ encryptFile_ \in BOOLEAN
          /\ announced \in Nat
          /\ DOMAIN sessions \subseteq Jids
          /\ \A j \in DOMAIN sessions : sessions[j] \in 0 .. MaxUnread
          /\ notSentMsgId \in FileIds \cup {NoId}
          /\ busy \in BOOLEAN
          /\ jid_ \in Jids \cup {NoJid}
          /\ file_ \in FileIds \cup {NoId}
          /\ stage \in [FileIds -> Stage]
          /\ chosen \in [FileIds -> Jids \cup {NoJid}]
          /\ mishaps \subseteq Mishap

(* The one FileWithCypher is never given a second file while it is being   *)
(* read or waits for its slot: busy_ holds as long as a request runs.      *)
OneUploadAtATime ==
    /\ Cardinality(Running) <= 1
    /\ \A f \in Running : busy /\ file_ = f

(* A file's url is sent to the chat the user chose for the file, whatever  *)
(* other files were refused in the meantime.                               *)
UrlGoesToTheChosenChat ==
    \A r \in DOMAIN messages, f \in FileIds :
       messages[r].id = Url[f] => messages[r].jid = chosen[f]

(* The one FileWithCypher is used in turns: it gets a new name and a new   *)
(* cipher only after the last upload has closed it, whatever ended that    *)
(* upload and however busy_ was left.  So what FileCypher promises holds   *)
(* for every file.                                                         *)
FileIsUsedInTurn == File!Spec

(* The file that is being read is the one of the running request, and is   *)
(* encrypted when the chat was; what the network has of it is what the     *)
(* receiver can decrypt, and it ends where size() says, though the object  *)
(* served other files before.                                              *)
UploadIsReadable ==
    /\ open => fileSize = FileSize[file_] /\ cipher = encryptFile_
    /\ File!SentIsWanted
    /\ File!EndsAtItsSize

(* "increase its size to send authentication tag, this is requested by     *)
(* xep-0454": the slot is asked for with the size that is then sent.       *)
AnnouncedIsSent == open => announced = File!Size

(* A request that is sent again is readable, too. *)
ResentIsReadable == File!ResentIsWanted

(* The messages that are shown as being uploaded. *)
ShownAsUploading ==
    {messages[r].id : r \in {q \in DOMAIN messages :
                                messages[q].state = UPLOADING_ATTACHMENT}}

(* "The client shall display the status of a sent message": what is shown  *)
(* as uploading is being uploaded, if the user waits for an upload to end  *)
(* before the next file and the server answers.                            *)
UploadingIsRunning == mishaps = {} => ShownAsUploading \subseteq Running

(* "The client shall be able to distribute pictures": an upload ends, and  *)
(* the next file is accepted, while no request stays without a usable      *)
(* answer.                                                                 *)
UploadEnds == busy ~> ~busy \/ mishaps \cap Stuck # {}

(* The first for a user who does not wait, the second for every server.    *)
UploadingIsRunningIfHasty == mishaps \subseteq {"hasty"} => ShownAsUploading \subseteq Running
UploadAlwaysEnds == busy ~> ~busy

=============================================================================
