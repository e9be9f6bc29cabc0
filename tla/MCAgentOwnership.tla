--------------------------- MODULE MCAgentOwnership ---------------------------
(* Instances of AgentOwnership for TLC.                                      *)
EXTENDS AgentOwnership, TLC

\* Requests are interchangeable: no definition names one.
RequestSymmetry == Permutations(Requests)
=============================================================================
