------------------------------ MODULE MCNodeGC ------------------------------
(***************************************************************************)
(* NodeGC on a small heap.                                                 *)
(***************************************************************************)
EXTENDS NodeGC, TLC

Symmetry == Permutations(Node) \cup Permutations(Object)
=============================================================================
