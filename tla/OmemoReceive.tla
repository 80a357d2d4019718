---------------------------- MODULE OmemoReceive ----------------------------
(***************************************************************************)
(* Receiving with OMEMO, beside the queue of sent messages, with which it  *)
(* shares the sessions: MessageHandler::handleMessageReceived, the adapter *)
(* and lurch_message_decrypt; the copies of a message that carbons and the *)
(* archive bring; and the row all of them write to.                        *)
(*                                                                         *)
(* lurch leaves a stanza it cannot decrypt as it is, and the adapter takes *)
(* the body it finds for the decrypted one.                                *)
(***************************************************************************)
EXTENDS OmemoQueue

CONSTANTS Received,     \* messages that are received
          From,         \* Received -> the device that sent it
          Form,         \* Received -> how it was sent
          HasFallback   \* the encrypted ones with a body for other clients

(* "unkeyed": encrypted, but not for this device; "transport": without a   *)
(* text.                                                                   *)
Forms == {"plain", "message", "unkeyed", "transport"}

ASSUME ReceiveAssumption == /\ From \in [Received -> Devices]
                            /\ Form \in [Received -> Forms]
                            /\ HasFallback \subseteq Received

VARIABLES rows,       \* Received -> its row
          opened,     \* the messages whose key was used: it cannot be used again
          transports  \* outstanding bundle requests for a key transport

received == <<rows, opened, transports>>
allVars == <<vars, received>>

(* "clear": what the sender wrote. *)
Text == {"clear", "fallback", "empty", "error"}
NoRow == [text |-> "none", security |-> 0]
RowType == {NoRow} \cup [text : Text, security : 0 .. 1]

ReceiveInit == /\ Init
               /\ rows = [r \in Received |-> NoRow]
               /\ opened = {}
               /\ transports = {}

-----------------------------------------------------------------------------
(* Faulty variant: a row that is there is replaced. *)
ReplaceRow(r, text, secure) ==
    rows' = [rows EXCEPT ![r] = [text |-> text, security |-> secure]]

(* MessageController::addMessage: the first copy stays. *)
AddRow(r, text, secure) ==
    rows' = IF rows[r] = NoRow
            THEN [rows EXCEPT ![r] = [text |-> text, security |-> secure]]
            ELSE rows

(* A stanza whose body is not decrypted: without one there is no row. *)
AddUndecrypted(r) ==
    IF Form[r] = "plain" THEN AddRow(r, "clear", 0)
    ELSE IF r \in HasFallback THEN AddRow(r, "fallback", 0)
    ELSE UNCHANGED rows

(* What the adapter finds in an encrypted stanza that came back as it was. *)
AsItCame(r) == IF r \in HasFallback THEN "fallback" ELSE "empty"

(* lurch_message_decrypt of a message that was not decrypted before, by a  *)
(* session there is or, if it is a prekey message, by one it makes.  A     *)
(* key transport message has nothing more to decrypt.                      *)
Decrypted(r) ==
    /\ Form[r] \in {"message", "transport"} /\ r \notin opened
    /\ MessageDecrypt(From[r])
    /\ opened' = opened \cup {r}
    /\ AddRow(r, IF Form[r] = "message" THEN "clear" ELSE AsItCame(r), 1)
    /\ UNCHANGED transports

(* It finds no key, no session, or fails: decryptMessageIfEncrypted sees   *)
(* no difference and returns 0.  For an unknown pre-key the sender's       *)
(* bundle is requested.                                                    *)
NotDecrypted(r) ==
    /\ AddRow(r, AsItCame(r), 1)
    /\ \/ UNCHANGED transports
       \/ /\ ~Settled /\ Form[r] # "unkeyed"
          /\ transports' = transports \cup {From[r]}
    /\ UNCHANGED <<vars, opened>>

(* The second copy of a message of the user to the user: lurch takes the   *)
(* stanza away, which the adapter reports as an error.                     *)
DuplicateToSelf(r) ==
    /\ Form[r] = "message" /\ r \in opened /\ Owner[From[r]] # Contact
    /\ AddRow(r, "error", 0)
    /\ UNCHANGED <<vars, opened, transports>>

(* Faulty variant: what was not encrypted counts as secure. *)
HandleMessageReceivedSecure(r) ==
    IF feature /\ Form[r] # "plain"
    THEN Decrypted(r) \/ NotDecrypted(r) \/ DuplicateToSelf(r)
    ELSE AddRow(r, "clear", 1) /\ UNCHANGED <<vars, opened, transports>>

(* handleMessageReceived, as far as the text and security of the row go. *)
HandleMessageReceived(r) ==
    IF feature /\ Form[r] # "plain"
    THEN Decrypted(r) \/ NotDecrypted(r) \/ DuplicateToSelf(r)
    ELSE AddUndecrypted(r) /\ UNCHANGED <<vars, opened, transports>>

(* Its carbon: only the outer stanza is looked at for encryption. *)
HandleCarbon(r) == AddUndecrypted(r) /\ UNCHANGED <<vars, opened, transports>>

(* processMamMessage decrypts nothing. *)
ProcessMamMessage(r) == AddUndecrypted(r) /\ UNCHANGED <<vars, opened, transports>>

-----------------------------------------------------------------------------
(* Persistence::removeConversation, for the received messages *)
RemoveConversation(jid) ==
    /\ rows' = [r \in Received |-> IF Owner[From[r]] = jid THEN NoRow ELSE rows[r]]
    /\ UNCHANGED <<vars, opened, transports>>

(* The program ends.  The tables and the keys stay. *)
ProgramEnds ==
    /\ Restart
    /\ transports' = {}
    /\ UNCHANGED <<rows, opened>>

(* pepBundleForKeytransport gives lurch the answer's <pubsub>, where it    *)
(* reads the node of its <items>.  There is none, and the program does not *)
(* survive it.                                                             *)
PepBundleForKeytransport(d) == d \in transports /\ ProgramEnds

(* A request for a key transport is lost with the connection. *)
TransportLost(d) ==
    /\ d \in transports
    /\ transports' = transports \ {d}
    /\ UNCHANGED <<vars, rows, opened>>

ReceiveNext ==
    \/ Steps /\ UNCHANGED received
    \/ \E r \in Received : HandleMessageReceived(r)
    \/ \E r \in Received : HandleCarbon(r)
    \/ \E r \in Received : ProcessMamMessage(r)
    \/ \E r \in Received : RemoveConversation(Owner[From[r]])
    \/ ProgramEnds
    \/ \E d \in Devices : PepBundleForKeytransport(d)
    \/ \E d \in Devices : TransportLost(d)

ReceiveSpec == ReceiveInit /\ [][ReceiveNext]_allVars

(* As FairSpec of the queue. *)
ReceiveFairSpec == /\ ReceiveSpec
                   /\ \A m \in Messages, d \in Devices :
                         /\ WF_allVars(BundleRequestCb(m, d) /\ UNCHANGED received)
                         /\ WF_allVars(BundleRequestCbFails(m, d) /\ UNCHANGED received)

-----------------------------------------------------------------------------
ReceiveTypeOK == /\ TypeOK
                 /\ rows \in [Received -> RowType]
                 /\ opened \subseteq Received
                 /\ transports \subseteq Devices

(* A message that is shown decrypted stays so, whatever copies of it come  *)
(* later that cannot be decrypted any more: its key is used up, and what   *)
(* the row holds is all there is.                                          *)
DecryptedStays ==
    [][\A r \in Received :
          rows[r] = [text |-> "clear", security |-> 1] =>
             \/ rows'[r] = rows[r]
             \/ RemoveConversation(Owner[From[r]])]_allVars

(* A row that is shown as secure, of a sent or of a received message,      *)
(* stands for one that was encrypted between the two clients, whatever the *)
(* settings were in the meantime.                                          *)
SecureIsOmemo ==
    /\ SecureIsEncrypted
    /\ \A r \in Received : rows[r].security = 1 => Form[r] # "plain"

(* "0: success on decryption, ... 2: error during decryption" *)
SecureWasDecrypted ==
    \A r \in Received : rows[r].security = 1 /\ Form[r] # "transport" => rows[r].text = "clear"

(* "check if this is an omemo msg!": what was decrypted is shown so, also  *)
(* when the archive was faster.                                            *)
OpenedIsShown ==
    \A r \in opened : Form[r] = "message" => rows[r].text \in {"clear", "none"}

(* "so that a session can still be established" *)
TransportMakesSession ==
    [][\A d \in Devices : PepBundleForKeytransport(d) => d \in session']_allVars

=============================================================================
