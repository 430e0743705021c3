------------------------------ MODULE MCNodeTree ------------------------------
(***************************************************************************)
(* NodeTree and its mapping to Forest, on a small heap.                    *)
(***************************************************************************)
EXTENDS NodeForest

Symmetry == Permutations(Node)
=============================================================================
