------------------------- MODULE MCSimpleTCPServer -------------------------
(* SimpleTCPServer for TLC: the connections are interchangeable. *)
EXTENDS SimpleTCPServer, TLC

Symmetry == Permutations(Conn)
=============================================================================
