------------------------------ MODULE MCGraphStore ------------------------------
(***************************************************************************)
(* TLC instance of GraphStore.  Threads are interchangeable, and so are    *)
(* nodes.                                                                  *)
(***************************************************************************)
EXTENDS GraphStore, TLC

Symmetry == Permutations(Threads) \cup Permutations(NodeIds)
=================================================================================
