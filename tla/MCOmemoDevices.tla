--------------------------- MODULE MCOmemoDevices ---------------------------
(* Two clients of the user. *)
EXTENDS OmemoDevices

CONSTANTS phone, tablet

=============================================================================
