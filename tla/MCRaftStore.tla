------------------------------ MODULE MCRaftStore -------------------------------
(***************************************************************************)
(* TLC instance of RaftStore: four indexes, the middle two memberships.    *)
(***************************************************************************)
EXTENDS RaftStore

MembershipIndexes == {2, 3}
=================================================================================
