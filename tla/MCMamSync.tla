----------------------------- MODULE MCMamSync -----------------------------
(* The user's archive and one of a room. *)
EXTENDS MamSync

CONSTANTS me, room1

=============================================================================
