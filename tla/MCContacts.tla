----------------------------- MODULE MCContacts -----------------------------
(* A contact or two and a room or two. *)
EXTENDS Contacts

CONSTANTS alice, bob, room1, room2

Stored(autojoin) == <<[room |-> room1, autojoin |-> autojoin]>>

MCStored == {Stored(TRUE), Stored(FALSE)}

NothingStored == {<<>>}

=============================================================================
