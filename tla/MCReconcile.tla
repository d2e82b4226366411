------------------------------ MODULE MCReconcile ------------------------------
(* Instances of Reconcile for TLC: processes and fingerprints are model      *)
(* values, interchangeable in the safety runs.                               *)
EXTENDS Reconcile, TLC

Symmetry == Permutations(Procs) \cup Permutations(Fingerprints)
=============================================================================
