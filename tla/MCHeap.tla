------------------------------- MODULE MCHeap -------------------------------
(***************************************************************************)
(* Instances of Heap for TLC, whose clients are alike, and of BinTree, in  *)
(* which the code keeps what Heap takes as the set of its free blocks.     *)
(***************************************************************************)
EXTENDS Heap, BinTree, TLC

Symmetry == Permutations(Client)

(* Two of the nodes have the same key. *)
MCKeyOf == [n \in TreeNode |-> IF n = 5 THEN 4 ELSE 2 * n]

(* A tree of any shape is after any operation a search tree of the nodes it should hold,
   and the operation finds what a set would give (bintree_splay.c and what uses it).
   This depends on nothing in the heap, and is looked at in one state of it: with a
   second segment and everything given back. *)
TreesServeAsSets ==
  Len(segments) = 2 /\ static = {} /\ (\A c \in Client : ptr[c] = NULL) => EveryTreeIsASet
=============================================================================
