---------------------------- MODULE MCOmemoQueue ----------------------------
(* Up to three messages to a contact with a phone and perhaps a desktop,   *)
(* from a user who has one other device; and a message from the phone, one *)
(* from that device to the user.                                           *)
EXTENDS OmemoReceive, TLC

CONSTANTS msg1, msg2, msg3, phone, desktop, tablet, contact, user,
          fromPhone, fromTablet, hello

MCOwner == [d \in Devices |-> IF d = tablet THEN user ELSE contact]
MCFrom == [r \in Received |-> IF r = fromTablet THEN tablet ELSE phone]
MCForm == [r \in Received |-> IF r = hello THEN "plain" ELSE "message"]
MCSymmetry == Permutations(Messages)

=============================================================================
