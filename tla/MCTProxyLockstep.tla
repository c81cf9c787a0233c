-------------------------- MODULE MCTProxyLockstep --------------------------
(* TProxyLockstep for TLC. *)
EXTENDS TProxyLockstep, TLC

Symmetry == Permutations(Session)
=============================================================================
