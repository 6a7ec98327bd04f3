---------------------------- MODULE MCEmqMemory ----------------------------
(***************************************************************************)
(* The memory of a client on small instances.  Nodes are interchangeable.  *)
(***************************************************************************)
EXTENDS EmqMemory, TLC

NodeSymmetry == Permutations(Node)
=============================================================================
