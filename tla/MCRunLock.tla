----------------------------- MODULE MCRunLock -----------------------------
(* RunLock on small instances.                                             *)
EXTENDS RunLock, TLC

Symmetry == Permutations(Procs) \cup Permutations(Files) \cup Permutations(Probers)
=============================================================================
