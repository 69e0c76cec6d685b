----------------------------- MODULE MCClusterWrite ------------------------------
(* Two nodes, the address of one of them in the membership and of the      *)
(* other one only in the configuration; two graphs, or the default graph   *)
(* under its name and under none.                                          *)
EXTENDS ClusterWrite, TLC

CONSTANTS n1, n2

TwoNodes    == {n1, n2}
TheDefault  == <<"default">>
Named       == {TheDefault, <<"g">>}
Unnamed     == {<<>>, TheDefault}
Asked(one, other) ==
    {<<"Insert", one>>, <<"PartInsert", other>>, <<"Delete", one>>, <<"Remove", other>>,
     <<"Match", one>>, <<"CompositeQuery", one>>, <<"unparsable", one>>}
AskedNamed   == Asked(TheDefault, <<"g">>)
AskedUnnamed == Asked(<<>>, TheDefault)
SomeMembers == (n1 :> n1) @@ (n2 :> Nobody)
SomePeers   == (n1 :> Nobody) @@ (n2 :> n2)
==================================================================================
