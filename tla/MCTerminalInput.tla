--------------------------- MODULE MCTerminalInput ---------------------------
(* Instances of TerminalInput for TLC.                                      *)
EXTENDS TerminalInput, TLC

\* Pages are interchangeable: no definition names one.
PageSymmetry == Permutations(Pages)
=============================================================================
