------------------------------ MODULE MCPropIndex -------------------------------
(***************************************************************************)
(* TLC instance of PropIndex: two labels, two properties; CREATE makes a   *)
(* node of the first label with one of the properties, or of the second    *)
(* with both; CREATE INDEX makes a unique index on one property or a plain *)
(* one on both.                                                            *)
(***************************************************************************)
EXTENDS PropIndex, TLC

CONSTANTS L1, L2, p, q, v1

CreatedNodes ==
    {[label |-> L1, props |-> (p :> v1 @@ q :> Missing)],
     [label |-> L2, props |-> (p :> v1 @@ q :> v1)]}

CreatedIndexes ==
    {[props |-> {p}, unique |-> TRUE], [props |-> {p, q}, unique |-> FALSE]}

Symmetry == Permutations(Threads) \cup Permutations(NodeIds)
=================================================================================
