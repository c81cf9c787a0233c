----------------------------- MODULE MCTracers -----------------------------
(* Tracers for TLC: an empty packet, one that fits and one that does not. *)
EXTENDS Tracers

MCPacket == 1 .. 3
MCSize   == [p \in MCPacket |-> p - 1]
=============================================================================
