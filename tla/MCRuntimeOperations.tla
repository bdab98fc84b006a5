------------------------ MODULE MCRuntimeOperations ------------------------
(* Small instances of RuntimeOperations for TLC. *)
EXTENDS RuntimeOperations, TLC

CONSTANTS names, duplicates, positions, profiles

(* Runs and starts may be exchanged.                                         *)
Interchangeable == Permutations(Run) \cup Permutations(Starter)
=============================================================================
