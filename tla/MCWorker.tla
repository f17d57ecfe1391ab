------------------------------ MODULE MCWorker ------------------------------
(* Small instances of Worker for TLC. *)
EXTENDS Worker, TLC

(* Workers are interchangeable (safety runs only). *)
Symmetry == Permutations(Workers)
=============================================================================
