---------------------------- MODULE MCTwoPhaseCommit ----------------------------
(***************************************************************************)
(* TLC instances of TwoPhaseCommit: two registered partitions and one that *)
(* has no handle.                                                          *)
(***************************************************************************)
EXTENDS TwoPhaseCommit, TLC

CONSTANTS p1, p2, p3

TwoPartitions == {p1, p2}
ThreePids == {p1, p2, p3}

(* Both registered partitions, one of them alone, and a list that names a  *)
(* partition without a handle after a registered one.                      *)
SomeLists == {<<p1, p2>>, <<p2>>, <<p1, p3>>}

ThreadSymmetry == Permutations(Threads)
=================================================================================
