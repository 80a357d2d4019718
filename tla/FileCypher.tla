----------------------------- MODULE FileCypher -----------------------------
(***************************************************************************)
(* FileWithCypher, as it is read to be uploaded: the bytes of the file are *)
(* encrypted as they are read, and the authentication tag follows the last *)
(* of them (XEP-0454).  One object is used for every upload, and its       *)
(* cipher is made anew only by initEncryptionOnRead.                       *)
(*                                                                         *)
(* A byte that is sent is the record of what it is: a byte of the file,    *)
(* and which byte of the cipher's stream hides it, or a byte of the tag,   *)
(* and how many bytes the cipher had encrypted when the tag was made.      *)
(***************************************************************************)
EXTENDS CypherTag, Sequences

CONSTANTS Sizes,      \* the sizes of the files
          ReadSizes   \* how much QNetworkAccessManager asks for at a time

VARIABLES fileSize,   \* the size of the file on the disk
          cipher,     \* cipherHd_ is not null
          encrypted,  \* how many bytes the cipher has encrypted
          open,       \* the file is open
          pos,        \* QIODevice::pos
          sent,       \* what the running request has read
          eof,        \* a read of this request has returned nothing
          resent      \* history: the file was read again with the same cipher

vars == <<fileSize, cipher, encrypted, open, pos, sent, eof, resent>>

Sent == [kind : {"data", "tag"}, nr : Nat, at : Nat]
Data(byte, at) == [kind |-> "data", nr |-> byte, at |-> at]
Tag(byte, over) == [kind |-> "tag", nr |-> byte, at |-> over]

Init == /\ fileSize = 0
        /\ cipher = FALSE /\ encrypted = 0
        /\ open = FALSE /\ pos = 0 /\ sent = <<>> /\ eof = FALSE
        /\ resent = FALSE

(* size: the file is not writable. *)
Size == IF cipher THEN fileSize + TagSize ELSE fileSize

-----------------------------------------------------------------------------
(* QFile::setFileName, for the copy of a file that is to be uploaded.      *)
NewName(n) ==
    /\ fileSize' = n
    /\ UNCHANGED <<cipher, encrypted, open, pos, sent, eof, resent>>

(* initEncryptionOnRead makes a new cipher, whatever the file is used for, *)
(* and open opens it to read, unless that fails.                           *)
NewCipher(encrypt) ==
    /\ cipher' = encrypt
    /\ encrypted' = 0
    /\ resent' = FALSE
    /\ open' \in BOOLEAN
    /\ UNCHANGED <<fileSize, pos, sent, eof>>

(* The two as this object is to be used: while nobody reads the file.      *)
SetFileName(n) == ~open /\ NewName(n)
InitEncryptionOnRead(encrypt) == ~open /\ NewCipher(encrypt)

(* readData appends to what was read, and QIODevice::read moves pos. *)
Reads(bytes) ==
    /\ sent' = sent \o bytes
    /\ pos' = pos + Len(bytes)
    /\ eof' = (bytes = <<>>)

(* Where the next n bytes of the file are found in the stream. *)
NextBytes(n) ==
    [i \in 1 .. n |-> Data(pos + i, IF cipher THEN encrypted + i ELSE 0)]

(* Faulty variant: the size without the tag is compared. *)
TagIsDueByFileSize == cipher /\ pos + TagSize = fileSize

TagIsDue == cipher /\ pos + TagSize = Size

(* Faulty variant: each read begins the cipher's stream anew. *)
ReadDataFromStart(maxSize) ==
    /\ open /\ ~eof /\ maxSize >= TagSize
    /\ LET left == IF pos < fileSize THEN fileSize - pos ELSE 0
           readBytes == IF maxSize < left THEN maxSize ELSE left
       IN  /\ encrypted' = readBytes
           /\ Reads(IF readBytes > 0 THEN NextBytes(readBytes)
                    ELSE IF TagIsDue THEN [i \in 1 .. TagSize |-> Tag(i, encrypted)]
                    ELSE <<>>)
    /\ UNCHANGED <<fileSize, cipher, open, resent>>

(* readData, through QIODevice::read.  A file that has no more bytes gives *)
(* the tag, whatever the size that was asked for: the network asks for     *)
(* more than the size of a tag.                                            *)
ReadData(maxSize) ==
    /\ open /\ ~eof /\ maxSize >= TagSize
    /\ LET left == IF pos < fileSize THEN fileSize - pos ELSE 0
           readBytes == IF maxSize < left THEN maxSize ELSE left
       IN  \/ /\ readBytes > 0
              /\ encrypted' = IF cipher THEN encrypted + readBytes ELSE encrypted
              /\ Reads(NextBytes(readBytes))
           \/ /\ readBytes = 0 /\ TagIsDue
              /\ Reads([i \in 1 .. TagSize |-> Tag(i, encrypted)])
              /\ UNCHANGED encrypted
           \/ /\ readBytes = 0 /\ ~TagIsDue
              /\ Reads(<<>>)
              /\ UNCHANGED encrypted
    /\ UNCHANGED <<fileSize, cipher, open, resent>>

(* The request is sent again, to the same or to another server: QIODevice  *)
(* goes back to the start, the cipher does not.                            *)
Reset ==
    /\ open
    /\ pos' = 0 /\ sent' = <<>> /\ eof' = FALSE
    /\ resent' = (resent \/ encrypted > 0)
    /\ UNCHANGED <<fileSize, cipher, encrypted, open>>

(* close, of a file that is not writable *)
Close ==
    /\ open
    /\ open' = FALSE /\ pos' = 0 /\ sent' = <<>> /\ eof' = FALSE
    /\ UNCHANGED <<fileSize, cipher, encrypted, resent>>

(* The program ends and is started again: a new object. *)
Restart ==
    /\ fileSize' = 0
    /\ cipher' = FALSE /\ encrypted' = 0
    /\ open' = FALSE /\ pos' = 0 /\ sent' = <<>> /\ eof' = FALSE
    /\ resent' = FALSE

Next ==
    \/ \E n \in Sizes : SetFileName(n)
    \/ \E encrypt \in BOOLEAN : InitEncryptionOnRead(encrypt)
    \/ \E n \in ReadSizes : ReadData(n)
    \/ Reset
    \/ Close
    \/ Restart

Spec == Init /\ [][Next]_vars

-----------------------------------------------------------------------------
TypeOK == /\ fileSize \in Nat
          /\ cipher \in BOOLEAN
          /\ encrypted \in Nat
          /\ open \in BOOLEAN
          /\ pos \in Nat
          /\ sent \in Seq(Sent)
          /\ eof \in BOOLEAN
          /\ resent \in BOOLEAN

(* What the receiver can decrypt and check: the bytes of the file in their *)
(* order, each hidden by the byte of the cipher's stream at its place, and *)
(* then the tag over all of them.                                          *)
Wanted(j) == IF j <= fileSize THEN Data(j, IF cipher THEN j ELSE 0)
                              ELSE Tag(j - fileSize, fileSize)

(* In whatever pieces the network reads the file, it gets what the         *)
(* receiver can decrypt, as long as it does not begin anew.                *)
SentIsWanted ==
    ~(cipher /\ resent) => \A j \in 1 .. Len(sent) : sent[j] = Wanted(j)

(* The file ends when as many bytes were read as size() promised, which is *)
(* the length of the request: neither before, so that the request could    *)
(* not be completed, nor after it.                                         *)
EndsAtItsSize == /\ Len(sent) <= Size
                 /\ eof => Len(sent) = Size

(* The first for a request that is sent again, too.                        *)
ResentIsWanted == \A j \in 1 .. Len(sent) : sent[j] = Wanted(j)

=============================================================================
