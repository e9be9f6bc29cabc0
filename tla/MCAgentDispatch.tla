--------------------------- MODULE MCAgentDispatch ---------------------------
(* Instances of AgentDispatch for TLC.                                      *)
EXTENDS AgentDispatch, TLC

\* Controllers are interchangeable: no definition names one.
ControllerSymmetry == Permutations(Issuers)
=============================================================================
