----------------------------- MODULE MCSlotArray -----------------------------
(* Small instances of SlotArray for TLC. *)
EXTENDS SlotArray, TLC

Symmetry == Permutations(Values)
=============================================================================
