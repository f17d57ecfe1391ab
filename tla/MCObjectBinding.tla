--------------------------- MODULE MCObjectBinding --------------------------
(* Small instances of ObjectBinding for TLC. *)
EXTENDS ObjectBinding, TLC

Symmetry == Permutations(Envs)
=============================================================================
