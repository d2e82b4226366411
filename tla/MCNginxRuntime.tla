------------------------------ MODULE MCNginxRuntime ------------------------------
(* Instances of NginxRuntime for TLC.                                           *)
EXTENDS NginxRuntime, TLC

Symmetry == Permutations(Sites)
=============================================================================
