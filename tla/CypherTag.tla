------------------------------ MODULE CypherTag ------------------------------
(***************************************************************************)
(* The authentication tag behind the bytes of an encrypted file, as        *)
(* FileWithCypher removes it when an answer is written to the disk.        *)
(***************************************************************************)
EXTENDS Integers

CONSTANT TagSize    \* the bytes of a tag

ASSUME TagAssumption == TagSize \in Nat \ {0}

(* Faulty variant: the tag is decrypted like the bytes before it. *)
BytesToDecryptAll(position, len, expectedSize) ==
    IF position + len > expectedSize THEN expectedSize - position ELSE len

(* writeData of len bytes at a position: all but the tag.  The expected    *)
(* size is 0 when the answer does not state its length.                    *)
BytesToDecrypt(position, len, expectedSize) ==
    IF position + len > expectedSize - TagSize
    THEN (expectedSize - TagSize) - position
    ELSE len

(* close: what checktag says of the last bytes of the file.  tagged: they  *)
(* came as the tag over all the bytes before them.                         *)
TagIsValid(size, decrypted, tagged) ==
    tagged /\ size >= TagSize /\ decrypted = size - TagSize

(* What one write of a whole answer and close leave in the file.  Without  *)
(* a valid tag the data are kept: as they came, or decrypted as far as the *)
(* tag is thought to reach.                                                *)
Stored(size, expectedSize, tagged) ==
    LET bytesToDecrypt == BytesToDecrypt(0, size, expectedSize)
        decrypted == IF bytesToDecrypt > 0 THEN bytesToDecrypt ELSE 0
        valid == TagIsValid(size, decrypted, tagged)
    IN  [size |-> IF valid THEN size - TagSize ELSE size,
         data |-> IF valid THEN "whole"
                  ELSE IF decrypted = 0 THEN "cipher" ELSE "unchecked"]

=============================================================================
