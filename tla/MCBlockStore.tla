---------------------------- MODULE MCBlockStore ----------------------------
(* The small instances of BlockStore that TLC explores. *)
EXTENDS BlockStore, TLC

\* Blocks of the other nodes, and header threads, are interchangeable.
Symmetry == Permutations(Remote) \cup Permutations(Thread)
=============================================================================
