---------------------------- MODULE MCConnection ----------------------------
(* Connection has no sets to choose: the configurations give its bound. *)
EXTENDS Connection
=============================================================================
