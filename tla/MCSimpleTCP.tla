---------------------------- MODULE MCSimpleTCP ----------------------------
(* SimpleTCP for TLC. *)
EXTENDS SimpleTCP
=============================================================================
