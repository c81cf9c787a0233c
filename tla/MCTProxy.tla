------------------------------ MODULE MCTProxy ------------------------------
(* TProxy for TLC, in any environment TProxy allows. *)
EXTENDS TProxy, Functions, TLC

CONSTANT MaxTotal    \* bound: the units all peers send, and their sessions, together

Begun == {k \in Session : peer[<<k, "in">>] # "idle"}

Bounded == SumFunction(sent) + Cardinality(Begun) <= MaxTotal

\* Without SIGTERM and without running out of memory.
UpSpec == Init /\ [][Proxy \/ Peers]_vars
=============================================================================
