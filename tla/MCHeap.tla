-------------------------------- MODULE MCHeap --------------------------------
(* Instances of Heap for TLC. The threads are alike. *)
EXTENDS Heap, TLC

Alike == Permutations(Users)
==============================================================================
