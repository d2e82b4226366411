----------------------------- MODULE MCAgentLoop ------------------------------
(* TLC instance of AgentLoop.  Credentials are used in the order of their   *)
(* tokens, so they are not symmetric once issued; no symmetry is used,      *)
(* since two of the properties are temporal.                                *)
EXTENDS AgentLoop, TLC

CONSTANTS k1, k2, none, blank

TwoKeys == {k1, k2}
OneKey == {k1}
AllFaults == FaultKinds
=============================================================================
