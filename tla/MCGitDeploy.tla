------------------------------ MODULE MCGitDeploy ------------------------------
(* Instances of GitDeploy for TLC.                                           *)
EXTENDS GitDeploy, TLC

Symmetry == Permutations(Sites) \cup Permutations(Urls)
=============================================================================
