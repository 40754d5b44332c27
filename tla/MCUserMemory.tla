---------------------------- MODULE MCUserMemory ----------------------------
(* Small instances of UserMemory for TLC.                                  *)
EXTENDS UserMemory, TLC

Symmetry == Permutations(Requests)
=============================================================================
