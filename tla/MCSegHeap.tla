------------------------------ MODULE MCSegHeap ------------------------------
(***************************************************************************)
(* SegHeap for TLC: snapshots, buffers and sends are interchangeable.      *)
(* FreeRing picks one of several free rings, which nothing tells apart.    *)
(***************************************************************************)
EXTENDS SegHeap, TLC

Symmetry == Permutations(Snaps) \cup Permutations(Bufs) \cup Permutations(Sends)
=============================================================================
