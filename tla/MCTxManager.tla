------------------------------ MODULE MCTxManager ------------------------------
(***************************************************************************)
(* TLC instances of TxManager.  Handles, keys and values are model values; *)
(* the handles are interchangeable, and so are keys and values.            *)
(***************************************************************************)
EXTENDS TxManager, TLC

Symmetry == Permutations(Tx) \cup Permutations(Keys)

(* State constraint: a failing write or a restart, not both.               *)
OneFault == failures + restarts <= 1
================================================================================
