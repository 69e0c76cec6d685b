------------------------------- MODULE RaftStore --------------------------------
(***************************************************************************)
(* RocksLogStore (synaptica-cluster, log_store.rs): the Raft log and the   *)
(* Raft metadata of one replica in RocksDB, and the application of         *)
(* committed entries to its graph store.                                   *)
(*                                                                         *)
(* Every put and delete is a step of its own and a crash may fall between  *)
(* any two.  The caller is openraft 0.9 (external).  Of it the model takes *)
(* what the store relies on: log calls, apply and install_snapshot exclude *)
(* each other (one lock of its storage adaptor), build_snapshot runs beside *)
(* them; entries are appended after a matching predecessor; only entries   *)
(* that conflict with the leader's log are deleted; after a restart a log  *)
(* that ends before the applied state is purged and committed entries are  *)
(* applied again from the applied marker on.                               *)
(***************************************************************************)
EXTENDS Naturals, Sequences, FiniteSetsExt

CONSTANTS MaxIndex,      \* bound on log indexes
          Memberships,   \* indexes of membership entries; the others are queries
          Shared,        \* up to here the entries of term 1 are the chosen ones
          MaxBatch,      \* entries per append_to_log call
          MaxCrashes     \* bound on crashes

ASSUME RaftAssumption ==
    /\ MaxIndex \in Nat /\ Shared \in 0 .. MaxIndex /\ MaxBatch \in Nat \ {0}
    /\ MaxCrashes \in Nat /\ Memberships \subseteq 1 .. MaxIndex

VARIABLES log,              \* RAFT_LOG: index -> term of the entry
          vote,             \* raft_vote: the term promised
          last_purged,      \* raft_last_purged, 0 for none; so below
          committed,        \* raft_committed
          last_applied,     \* raft_last_applied
          last_membership,  \* raft_last_membership: index of the entry it is from
          graph,            \* queries applied to the graph store, in order
          current_snapshot, \* memory: meta of the current snapshot
          op,               \* what the call under the adaptor's lock still has to do
          builder,          \* what build_snapshot has read
          crashes,          \* bound
          lost,             \* history: queries a crash cut off, or a snapshot stood for
          torn,             \* history: memberships a crash cut off
          blurred           \* history: a snapshot was built while others changed the state

durable == <<log, vote, last_purged, committed, last_applied, last_membership, graph>>
history == <<crashes, lost, torn, blurred>>
vars == <<durable, current_snapshot, op, builder, history>>

Index == 1 .. MaxIndex
Terms == 1 .. 2
NoSnapshot == [last_log_id |-> 0, last_membership |-> 0]
Idle == [at |-> "idle"]

(* The entry the cluster commits (external): term 1 up to Shared, 2 above. *)
ChosenTerm(i) == IF i <= Shared THEN 1 ELSE 2
Chosen(i) == i \in DOMAIN log /\ log[i] = ChosenTerm(i)

(* The membership in force after the entries up to i.                      *)
MembershipAt(i) == Max({0} \cup {m \in Memberships : m <= i})

Init ==
    /\ log = <<>>
    /\ vote = 1
    /\ last_purged = 0
    /\ committed = 0
    /\ last_applied = 0
    /\ last_membership = 0
    /\ graph = <<>>
    /\ current_snapshot = NoSnapshot
    /\ op = Idle
    /\ builder = Idle
    /\ crashes = 0
    /\ lost = {}
    /\ torn = FALSE
    /\ blurred = FALSE

(* get_log_state.                                                          *)
LastLogId == IF log = <<>> THEN last_purged ELSE Max(DOMAIN log)

(* Log ids compare by term first.                                          *)
LastLogBehind ==
    LET term == IF log = <<>> THEN ChosenTerm(last_purged) ELSE log[LastLogId] IN
    \/ term < ChosenTerm(last_applied)
    \/ term = ChosenTerm(last_applied) /\ LastLogId < last_applied

Ready(call) == op = Idle /\ op' = call

--------------------------------------------------------------------------------
save_vote ==
    /\ op = Idle
    /\ vote < 2
    /\ vote' = vote + 1
    /\ UNCHANGED <<log, last_purged, committed, last_applied, last_membership, graph,
                   current_snapshot, op, builder, history>>

(* append_to_log, of entries that follow the last one.  The leader of term *)
(* 1 sends its own; the one of term 2 the chosen ones, after a predecessor *)
(* that matches.                                                           *)
append_to_log(n) ==
    LET from == LastLogId + 1 IN
    /\ from + n - 1 \in Index
    /\ vote = 1 \/ from - 1 \in {last_purged, last_applied} \/ Chosen(from - 1)
    /\ Ready([at |-> "append", todo |-> from .. (from + n - 1)])
    /\ UNCHANGED <<durable, current_snapshot, builder, history>>

TermSent(i) == IF vote = 1 THEN 1 ELSE ChosenTerm(i)

append_to_log_put ==
    /\ op.at = "append"
    /\ LET i == Min(op.todo) IN
       /\ log' = [j \in DOMAIN log \cup {i} |-> IF j = i THEN TermSent(i) ELSE log[j]]
       /\ op' = IF op.todo = {i} THEN Idle ELSE [op EXCEPT !.todo = @ \ {i}]
    /\ UNCHANGED <<vote, last_purged, committed, last_applied, last_membership, graph,
                   current_snapshot, builder, history>>

(* delete_conflict_logs_since(i), i the first index at which the log       *)
(* differs from the leader's: the keys found are deleted in their order.   *)
delete_conflict_logs_since(i) ==
    /\ vote = 2
    /\ i <= LastLogId
    /\ i > last_purged /\ i > last_applied
    /\ ~Chosen(i)
    /\ \A j \in 1 .. (i - 1) : j <= last_purged \/ Chosen(j)
    /\ Ready([at |-> "delete", todo |-> {j \in DOMAIN log : j >= i}])
    /\ UNCHANGED <<durable, current_snapshot, builder, history>>

(* One log_delete of delete_logs_from_sync or delete_logs_upto_sync.       *)
delete_log ==
    /\ op.at = "delete"
    /\ IF op.todo = {}
       THEN op' = Idle /\ UNCHANGED log
       ELSE LET i == Min(op.todo) IN
            /\ log' = [j \in DOMAIN log \ {i} |-> log[j]]
            /\ op' = [op EXCEPT !.todo = @ \ {i}]
    /\ UNCHANGED <<vote, last_purged, committed, last_applied, last_membership, graph,
                   current_snapshot, builder, history>>

save_committed(c) ==
    /\ op = Idle
    /\ c > committed /\ c > last_applied /\ c <= LastLogId
    /\ vote = 1 => c <= Shared
    /\ \A j \in (last_purged + 1) .. c : Chosen(j)
    /\ committed' = c
    /\ UNCHANGED <<log, vote, last_purged, last_applied, last_membership, graph,
                   current_snapshot, op, builder, history>>

--------------------------------------------------------------------------------
(* purge_logs_upto: the marker first, then the entries.  openraft purges   *)
(* what the current snapshot covers.                                       *)
PurgeOneMore(upto) == {j \in DOMAIN log : j <= upto + 1}    \* fault: key <= end_key
PurgedKeys(upto) == {j \in DOMAIN log : j < upto + 1}

purge_logs_upto(upto) ==
    /\ upto <= current_snapshot.last_log_id
    /\ upto > last_purged
    /\ Ready([at |-> "purge", upto |-> upto])
    /\ UNCHANGED <<durable, current_snapshot, builder, history>>

purge_mark ==
    /\ op.at = "purge"
    /\ last_purged' = op.upto
    /\ op' = [at |-> "delete", todo |-> PurgedKeys(op.upto)]
    /\ UNCHANGED <<log, vote, committed, last_applied, last_membership, graph,
                   current_snapshot, builder, history>>

--------------------------------------------------------------------------------
(* apply_to_state_machine, of the entries that try_get_log_entries returns *)
(* for the range after the applied one.  Fault: the start is left out.     *)
ReadLogAfter(from, to) == {j \in DOMAIN log : j > from /\ j < to + 1}
ReadLog(from, to) == {j \in DOMAIN log : j >= from /\ j < to + 1}

Applying(entries) == IF entries = {} THEN Idle ELSE [at |-> "apply", todo |-> entries]

apply_to_state_machine(upto) ==
    /\ last_applied < upto /\ upto <= committed
    /\ Ready(Applying(ReadLog(last_applied + 1, upto)))
    /\ UNCHANGED <<durable, current_snapshot, builder, history>>

(* Fault: the applied marker is never put.                                 *)
UnmarkedApply ==
    /\ op.at = "apply"
    /\ op' = [op EXCEPT !.at = "apply_payload"]
    /\ UNCHANGED <<durable, current_snapshot, builder, history>>

(* Fault: the applied marker is put once, for the whole batch.             *)
MarkBatch ==
    /\ op.at = "apply"
    /\ last_applied' = Max(op.todo)
    /\ op' = [op EXCEPT !.at = "apply_payload"]
    /\ blurred' = (blurred \/ builder # Idle)
    /\ UNCHANGED <<log, vote, last_purged, committed, last_membership, graph,
                   current_snapshot, builder, crashes, lost, torn>>

(* The applied marker is put ...                                           *)
apply_mark ==
    /\ op.at = "apply"
    /\ last_applied' = Min(op.todo)
    /\ op' = [op EXCEPT !.at = "apply_payload"]
    /\ blurred' = (blurred \/ builder # Idle)
    /\ UNCHANGED <<log, vote, last_purged, committed, last_membership, graph,
                   current_snapshot, builder, crashes, lost, torn>>

(* ... before the membership is stored or StateMachineApplier::apply runs  *)
(* the query.  A query that ends in an error was run as well: what it      *)
(* stored before the error stays.                                          *)
apply_payload ==
    /\ op.at = "apply_payload"
    /\ LET i == Min(op.todo) IN
       /\ IF i \in Memberships
          THEN last_membership' = i /\ UNCHANGED graph
          ELSE graph' = Append(graph, i) /\ UNCHANGED last_membership
       /\ op' = Applying(op.todo \ {i})
    /\ blurred' = (blurred \/ builder # Idle)
    /\ UNCHANGED <<log, vote, last_purged, committed, last_applied,
                   current_snapshot, builder, crashes, lost, torn>>

--------------------------------------------------------------------------------
(* Fault: the committed marker is read in place of the applied one.        *)
SnapshotOfCommitted ==
    /\ builder = Idle
    /\ op.at # "recover"
    /\ last_applied > current_snapshot.last_log_id
    /\ builder' = [at |-> "membership", last_log_id |-> committed]
    /\ UNCHANGED <<durable, current_snapshot, op, history>>

(* build_snapshot reads the applied marker and the membership and keeps    *)
(* the pair; the snapshot has no data.                                     *)
build_snapshot ==
    /\ builder = Idle
    /\ op.at # "recover"
    /\ last_applied > current_snapshot.last_log_id
    /\ builder' = [at |-> "membership", last_log_id |-> last_applied]
    /\ blurred' = (blurred \/ op.at \in {"apply_payload", "install_membership"})
    /\ UNCHANGED <<durable, current_snapshot, op, crashes, lost, torn>>

build_snapshot_store ==
    /\ builder.at = "membership"
    /\ current_snapshot' = [last_log_id |-> builder.last_log_id,
                            last_membership |-> last_membership]
    /\ builder' = Idle
    /\ UNCHANGED <<durable, op, history>>

(* install_snapshot of one the leader built after its entry s: the applied *)
(* marker, the membership, the copy in memory; the data is not used.       *)
(* openraft then purges the log up to s.                                   *)
install_snapshot(s) ==
    /\ s \in Index /\ s > committed /\ s > last_applied
    /\ vote = 1 => s <= Shared
    /\ s \in DOMAIN log => Chosen(s)
    /\ Ready([at |-> "install", meta |-> [last_log_id |-> s,
                                          last_membership |-> MembershipAt(s)]])
    /\ UNCHANGED <<durable, current_snapshot, builder, history>>

install_applied ==
    /\ op.at = "install"
    /\ last_applied' = op.meta.last_log_id
    /\ op' = [op EXCEPT !.at = "install_membership"]
    /\ lost' = lost \cup (((last_applied + 1) .. op.meta.last_log_id) \ Memberships)
    /\ blurred' = (blurred \/ builder # Idle)
    /\ UNCHANGED <<log, vote, last_purged, committed, last_membership, graph,
                   current_snapshot, builder, crashes, torn>>

(* Fault: the membership of the snapshot is not stored.                    *)
ForgetMembership ==
    /\ op.at = "install_membership"
    /\ op' = [op EXCEPT !.at = "install_current"]
    /\ UNCHANGED <<durable, current_snapshot, builder, history>>

install_membership ==
    /\ op.at = "install_membership"
    /\ last_membership' = op.meta.last_membership
    /\ op' = [op EXCEPT !.at = "install_current"]
    /\ blurred' = (blurred \/ builder # Idle)
    /\ UNCHANGED <<log, vote, last_purged, committed, last_applied, graph,
                   current_snapshot, builder, crashes, lost, torn>>

install_current ==
    /\ op.at = "install_current"
    /\ current_snapshot' = op.meta
    /\ op' = [at |-> "purge", upto |-> op.meta.last_log_id]
    /\ UNCHANGED <<durable, builder, history>>

--------------------------------------------------------------------------------
(* A crash loses what is in memory; the process starts again.              *)
Crash ==
    /\ crashes < MaxCrashes
    /\ crashes' = crashes + 1
    /\ op' = [at |-> "recover"]
    /\ builder' = Idle
    /\ current_snapshot' = NoSnapshot
    /\ lost' = lost \cup (IF op.at = "apply_payload" THEN {Min(op.todo)} \ Memberships ELSE {})
    /\ torn' = (torn \/ op.at = "install_membership"
                     \/ (op.at = "apply_payload" /\ Min(op.todo) \in Memberships))
    /\ UNCHANGED <<durable, blurred>>

(* openraft starts (external) from get_log_state, last_applied_state and   *)
(* read_committed.                                                         *)
Recover ==
    /\ op.at = "recover"
    /\ op' = IF LastLogBehind
             THEN [at |-> "purge", upto |-> last_applied]
             ELSE IF last_applied < committed
             THEN Applying(ReadLog(last_applied + 1, committed))
             ELSE Idle
    /\ UNCHANGED <<durable, current_snapshot, builder, history>>

--------------------------------------------------------------------------------
Running ==
    \/ append_to_log_put
    \/ delete_log
    \/ purge_mark
    \/ apply_mark
    \/ apply_payload
    \/ install_applied
    \/ install_membership
    \/ install_current
    \/ Recover

Next ==
    \/ save_vote
    \/ \E n \in 1 .. MaxBatch : append_to_log(n)
    \/ \E i \in Index :
          \/ delete_conflict_logs_since(i)
          \/ save_committed(i)
          \/ purge_logs_upto(i)
          \/ apply_to_state_machine(i)
          \/ install_snapshot(i)
    \/ build_snapshot
    \/ build_snapshot_store
    \/ Running
    \/ Crash

Spec == Init /\ [][Next]_vars

(* A call that has begun goes on, and openraft applies what is committed   *)
(* as soon as the storage is free.                                         *)
FairSpec ==
    /\ Spec
    /\ WF_vars(Running)
    /\ SF_vars(apply_to_state_machine(committed))

--------------------------------------------------------------------------------
(* The values each variable takes; the purge never overtakes the applied   *)
(* state.                                                                  *)
TypeOK ==
    /\ DOMAIN log \subseteq Index /\ \A i \in DOMAIN log : log[i] \in Terms
    /\ vote \in Terms
    /\ last_purged \in 0 .. last_applied
    /\ committed \in 0 .. MaxIndex
    /\ last_applied \in 0 .. MaxIndex
    /\ last_membership \in {0} \cup Memberships
    /\ graph \in Seq(Index \ Memberships)
    /\ current_snapshot.last_log_id \in 0 .. last_applied
    /\ crashes \in 0 .. MaxCrashes

(* "ensuring all nodes in the cluster apply the same mutations in the same *)
(* order": no query is applied twice and none before an earlier one, over  *)
(* any number of crashes and reapplications.                               *)
AtMostOnceInOrder ==
    \A i, j \in DOMAIN graph : i < j => graph[i] < graph[j]

(* A chosen entry is never preceded by a hole or by an entry of another    *)
(* leader: what a crash leaves of a deletion or of an append is never      *)
(* taken for a prefix of the leader's log.                                 *)
LogMatching ==
    \A j \in DOMAIN log : Chosen(j) =>
        \A i \in (last_purged + 1) .. (j - 1) : Chosen(i) \/ i <= last_applied

(* What was committed stays readable until it is applied and purged: a     *)
(* restart finds every entry between the applied and the committed marker. *)
CommittedPresent ==
    \A i \in (last_applied + 1) .. committed : Chosen(i)

(* Every query up to the applied marker is in the graph, unless a crash    *)
(* fell between the marker and the query, or a snapshot stood for it.      *)
Executed(i) == \E k \in DOMAIN graph : graph[k] = i
InFlight(i) == op.at = "apply_payload" /\ i = Min(op.todo)

EveryLossExplained ==
    \A i \in (1 .. last_applied) \ Memberships :
        Executed(i) \/ InFlight(i) \/ i \in lost

(* The stored membership is the last one up to the applied marker, unless  *)
(* a crash fell between the two puts.                                      *)
MembershipCurrent ==
    ~torn /\ op.at \notin {"apply_payload", "install_membership"} =>
        last_membership = MembershipAt(last_applied)

(* A snapshot's membership is the one after its last entry, unless the     *)
(* state changed between the two reads of build_snapshot or was half       *)
(* changed when it began.                                                  *)
SnapshotConsistent ==
    ~torn /\ ~blurred =>
        current_snapshot.last_membership = MembershipAt(current_snapshot.last_log_id)

(* What is committed takes effect in the end: a query is run on the graph  *)
(* and a membership stored, unless a crash fell exactly between its marker *)
(* (log_store.rs:321) and its effect, or a snapshot stood for it.  A crash *)
(* anywhere else, in the middle of a batch too, only delays it.            *)
TookEffect(i) == IF i \in Memberships THEN last_membership >= i \/ torn
                                      ELSE Executed(i) \/ i \in lost
EventuallyApplied ==
    \A i \in Index : committed >= i ~> TookEffect(i)
================================================================================
