----------------------------- MODULE MCAutosys -----------------------------
(* Autosys for TLC. *)
EXTENDS Autosys, TLC

Symmetry == Permutations(Session)
=============================================================================
