------------------------------ MODULE AtomicCommit ------------------------------
(***************************************************************************)
(* What a distributed commit promises: a transaction gets its members      *)
(* once, they vote, one decision is taken and never changed, it is commit  *)
(* only if every member voted yes, and members only ever apply the         *)
(* decision taken.                                                         *)
(***************************************************************************)
CONSTANTS Txs, Pids, Participants

VARIABLES members, voted, decision, committed, aborted

avars == <<members, voted, decision, committed, aborted>>

Init ==
    /\ members = [id \in Txs |-> {}]
    /\ voted = [p \in Participants |-> {}]
    /\ decision = [id \in Txs |-> "none"]
    /\ committed = [p \in Participants |-> {}]
    /\ aborted = [p \in Participants |-> {}]

Enlist(id, S) ==
    /\ decision[id] = "none" /\ members[id] = {}
    /\ members' = [members EXCEPT ![id] = S]
    /\ UNCHANGED <<voted, decision, committed, aborted>>

Vote(p, id) ==
    /\ decision[id] = "none" /\ p \in members[id]
    /\ voted' = [voted EXCEPT ![p] = @ \cup {id}]
    /\ UNCHANGED <<members, decision, committed, aborted>>

DecideCommit(id) ==
    /\ decision[id] = "none"
    /\ \A p \in members[id] : p \in Participants /\ id \in voted[p]
    /\ decision' = [decision EXCEPT ![id] = "commit"]
    /\ UNCHANGED <<members, voted, committed, aborted>>

DecideAbort(id) ==
    /\ decision[id] = "none"
    /\ decision' = [decision EXCEPT ![id] = "abort"]
    /\ UNCHANGED <<members, voted, committed, aborted>>

ApplyCommit(p, id) ==
    /\ decision[id] = "commit" /\ p \in members[id]
    /\ committed' = [committed EXCEPT ![p] = @ \cup {id}]
    /\ UNCHANGED <<members, voted, decision, aborted>>

ApplyAbort(p, id) ==
    /\ decision[id] = "abort" /\ p \in members[id]
    /\ aborted' = [aborted EXCEPT ![p] = @ \cup {id}]
    /\ UNCHANGED <<members, voted, decision, committed>>

Next == \E id \in Txs :
    \/ \E S \in SUBSET Pids : Enlist(id, S)
    \/ DecideCommit(id)
    \/ DecideAbort(id)
    \/ \E p \in Participants : Vote(p, id) \/ ApplyCommit(p, id) \/ ApplyAbort(p, id)

Spec == Init /\ [][Next]_avars
=================================================================================
