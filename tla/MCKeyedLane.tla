------------------------------ MODULE MCKeyedLane ------------------------------
(* Instances of KeyedLane for TLC.                                           *)
EXTENDS KeyedLane, TLC

\* Neither connections nor resources are named by a definition.
LaneSymmetry == Permutations(Conns) \cup Permutations(Keys)
=============================================================================
