------------------------- MODULE MCSimpleTCPClient -------------------------
(* SimpleTCPClient for TLC. *)
EXTENDS SimpleTCPClient
=============================================================================
