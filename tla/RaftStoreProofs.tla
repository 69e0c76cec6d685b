--------------------------- MODULE RaftStoreProofs ---------------------------
(***************************************************************************)
(* Proofs about RaftStore for every log length, batch size and number of   *)
(* crashes and for every placing of the membership entries.                *)
(***************************************************************************)
EXTENDS RaftStore, TLAPS, WellFoundedInduction, NaturalsInduction

Mark == 0 .. MaxIndex
Snapshot == [last_log_id : Mark, last_membership : {0} \cup Memberships]

EntryOps == {"append", "delete", "apply", "apply_payload"}
InstallOps == {"install", "install_membership", "install_current"}

Ops ==
    {Idle, [at |-> "recover"]}
        \cup [at : EntryOps, todo : SUBSET Index]
        \cup [at : {"purge"}, upto : Mark]
        \cup [at : InstallOps, meta : Snapshot]

(* The type of every variable, the call in progress included.              *)
TypeInv ==
    /\ DOMAIN log \subseteq Index /\ log \in [DOMAIN log -> Terms]
    /\ vote \in Terms
    /\ last_purged \in Mark
    /\ committed \in Mark
    /\ last_applied \in Mark
    /\ last_membership \in {0} \cup Memberships
    /\ graph \in Seq(Index \ Memberships)
    /\ current_snapshot \in Snapshot
    /\ op \in Ops
    /\ builder \in {Idle} \cup [at : {"membership"}, last_log_id : Mark]
    /\ crashes \in 0 .. MaxCrashes
    /\ lost \in SUBSET Index
    /\ torn \in BOOLEAN
    /\ blurred \in BOOLEAN

(* No marker, stored or still to be stored, is ahead of the applied one,   *)
(* but for the snapshot that is about to move it.                          *)
MarkInv ==
    /\ last_purged <= last_applied
    /\ current_snapshot.last_log_id <= last_applied
    /\ builder # Idle => builder.last_log_id <= last_applied
    /\ op.at = "purge" => op.upto <= last_applied
    /\ op.at = "install" => op.meta.last_log_id > last_applied
    /\ op.at \in {"install_membership", "install_current"} =>
          op.meta.last_log_id = last_applied
    /\ op.at \in InstallOps =>
          op.meta.last_membership = MembershipAt(op.meta.last_log_id)

(* Above the applied marker the log of term 1 has no hole, and what comes  *)
(* before a chosen entry is chosen.                                        *)
Unapplied(j) == (last_applied + 1) .. (j - 1)

FirstTerm ==
    vote = 1 =>
        \A j \in DOMAIN log : log[j] = 1 /\ \A k \in Unapplied(j) : k \in DOMAIN log

ChosenPrefix ==
    \A j \in DOMAIN log : Chosen(j) => \A k \in Unapplied(j) : Chosen(k)

(* An append in progress continues the leader's log; a deletion takes what *)
(* is applied or what the cluster did not choose.                          *)
AppendInv ==
    op.at = "append" =>
        \E a, b \in Index :
            /\ a <= b /\ op.todo = a .. b
            /\ \A k \in Unapplied(a) : k \in DOMAIN log /\ log[k] = TermSent(k)

DeleteInv ==
    op.at = "delete" =>
        \A j \in op.todo :
            j <= last_applied \/ (vote = 2 /\ j > committed /\ ~Chosen(j))

LogInv == FirstTerm /\ ChosenPrefix /\ AppendInv /\ DeleteInv /\ CommittedPresent

(* The entries still to apply follow the applied marker without a gap.     *)
TodoInv ==
    /\ op.at = "apply" =>
          \E u \in Index : last_applied < u /\ op.todo = (last_applied + 1) .. u
    /\ op.at = "apply_payload" =>
          \E u \in Index : last_applied \in 1 .. u /\ op.todo = last_applied .. u

(* The graph holds queries up to the applied marker, short of the one in   *)
(* flight.                                                                 *)
GraphInv ==
    /\ \A k \in DOMAIN graph :
          /\ graph[k] <= last_applied
          /\ op.at = "apply_payload" => graph[k] < last_applied
    /\ AtMostOnceInOrder
    /\ EveryLossExplained

(* The membership lags by the entry in flight, and a builder not disturbed *)
(* has read the applied marker as it is.                                   *)
MemInv ==
    /\ ~torn /\ op.at = "apply_payload" =>
          last_membership = MembershipAt(last_applied - 1)
    /\ ~blurred /\ builder # Idle =>
          /\ builder.last_log_id = last_applied
          /\ op.at \notin {"apply_payload", "install_membership"}
    /\ MembershipCurrent
    /\ SnapshotConsistent

IndInv == TypeInv /\ MarkInv /\ LogInv /\ TodoInv /\ GraphInv /\ MemInv

USE DEF durable, history

--------------------------------------------------------------------------------
(* A set of naturals that is not empty has a least element.                *)
LEMMA NatMin ==
    ASSUME NEW S \in SUBSET Nat, S # {}
    PROVE  \E x \in S : \A y \in S : x <= y
<1>1. PICK x \in S : \A y \in S : ~(<<y, x>> \in OpToRel(<, Nat))
  BY NatLessThanWellFounded, WFMin
<1>2. \A y \in Nat : y < x => <<y, x>> \in OpToRel(<, Nat)
  BY Zenon DEF OpToRel
<1>3. \A y \in S : ~(y < x)
  BY <1>1, <1>2, Zenon
<1> QED
  BY <1>3, SMT

(* Min is that least element.                                              *)
LEMMA MinOf ==
    ASSUME NEW S \in SUBSET Nat, S # {}
    PROVE  Min(S) \in S /\ \A y \in S : Min(S) <= y
  BY NatMin DEF Min

(* Max is the greatest element of a set that is not empty and bounded.     *)
LEMMA MaxOf ==
    ASSUME NEW n \in Nat, NEW S \in SUBSET (0 .. n), S # {}
    PROVE  Max(S) \in S /\ \A y \in S : Max(S) >= y
<1>1. {n - x : x \in S} \in SUBSET Nat /\ {n - x : x \in S} # {}
  <2>1. PICK x \in S : TRUE
    OBVIOUS
  <2>2. n - x \in {n - z : z \in S}
    OBVIOUS
  <2>3. \A z \in S : n - z \in Nat
    OBVIOUS
  <2> QED
    BY <2>2, <2>3
<1>2. PICK m \in {n - x : x \in S} : \A y \in {n - x : x \in S} : m <= y
  BY <1>1, NatMin
<1>3. PICK x \in S : \A y \in S : x >= y
  BY <1>2
<1> QED
  BY <1>3 DEF Max

(* The least element of an interval is its lower end, and what is left     *)
(* without it is the interval from the next one on.                        *)
LEMMA IntervalMin ==
    ASSUME NEW a \in Nat, NEW b \in Nat, a <= b
    PROVE  Min(a .. b) = a /\ (a .. b) \ {a} = (a + 1) .. b
<1>1. Min(a .. b) \in a .. b /\ \A y \in a .. b : Min(a .. b) <= y
  <2>1. a .. b \in SUBSET Nat /\ a .. b # {}
    OBVIOUS
  <2> QED
    BY <2>1, MinOf
<1> QED
  BY <1>1

(* The membership after no entry is none; a membership entry is its own;   *)
(* any other entry leaves the one before it in force.                      *)
LEMMA MembershipAtFacts ==
    /\ MembershipAt(0) = 0
    /\ \A i \in Mark : MembershipAt(i) \in {0} \cup Memberships
    /\ \A i \in Memberships : MembershipAt(i) = i
    /\ \A i \in Index \ Memberships : MembershipAt(i) = MembershipAt(i - 1)
<1>0. MaxIndex \in Nat /\ \A m \in Memberships : m \in 1 .. MaxIndex
  BY RaftAssumption
<1> DEFINE Upto(i) == {0} \cup {m \in Memberships : m <= i}
<1>1. ASSUME NEW i \in Mark
      PROVE  /\ MembershipAt(i) \in Upto(i)
             /\ \A m \in Upto(i) : MembershipAt(i) >= m
  <2>1. Upto(i) \in SUBSET (0 .. MaxIndex) /\ Upto(i) # {} /\ MaxIndex \in Nat
    BY <1>0
  <2>2. MembershipAt(i) = Max(Upto(i))
    BY DEF MembershipAt
  <2> HIDE DEF Upto
  <2> QED
    BY <2>1, <2>2, MaxOf
<1>2. MembershipAt(0) = 0
  <2>1. 0 \in Mark
    BY <1>0 DEF Mark
  <2>2. Upto(0) = {0}
    BY <1>0
  <2> QED
    BY <1>1, <2>1, <2>2
<1>3. ASSUME NEW i \in Memberships
      PROVE  MembershipAt(i) = i
  <2>1. i \in Mark /\ i \in Upto(i) /\ \A m \in Upto(i) : m \in Nat /\ m <= i
    BY <1>0 DEF Mark
  <2> HIDE DEF Upto
  <2> QED
    BY <1>0, <1>1, <2>1
<1>4. ASSUME NEW i \in Index \ Memberships
      PROVE  MembershipAt(i) = MembershipAt(i - 1)
  <2>1. \A m \in Memberships : m <= i <=> m <= i - 1
    BY <1>0 DEF Index
  <2>2. Upto(i) = Upto(i - 1)
    BY <2>1
  <2> QED
    BY <2>2 DEF MembershipAt
<1> QED
  BY <1>1, <1>2, <1>3, <1>4

(* A log that is not empty has an entry.                                   *)
LEMMA LogNotEmpty ==
    ASSUME TypeInv, log # <<>>
    PROVE  DOMAIN log # {}
<1>1. ASSUME DOMAIN log = {}
      PROVE  FALSE
  <2>1. log \in [1 .. 0 -> Terms]
    BY <1>1 DEF TypeInv
  <2>2. log \in Seq(Terms) /\ Len(log) = 0
    BY <2>1
  <2> QED
    BY <2>2
<1> QED
  BY <1>1

(* get_log_state answers the purged marker of an empty log and the last    *)
(* entry of any other.                                                     *)
LEMMA LastLogIdOf ==
    ASSUME TypeInv
    PROVE  /\ LastLogId \in Mark
           /\ log = <<>> => LastLogId = last_purged
           /\ log # <<>> => LastLogId \in DOMAIN log /\ \A j \in DOMAIN log : j <= LastLogId
<1>1. CASE log = <<>>
  BY <1>1 DEF LastLogId, TypeInv
<1>2. CASE log # <<>>
  <2>1. DOMAIN log \in SUBSET (0 .. MaxIndex) /\ DOMAIN log # {} /\ MaxIndex \in Nat
    BY <1>2, LogNotEmpty, RaftAssumption DEF TypeInv, Index
  <2> QED
    BY <1>2, <2>1, MaxOf DEF LastLogId, Mark
<1> QED
  BY <1>1, <1>2

(* What the call in progress carries at each step.                         *)
LEMMA OpFields ==
    ASSUME TypeInv
    PROVE  /\ op = Idle <=> op.at = "idle"
           /\ op.at \in EntryOps =>
                 op.todo \in SUBSET Index /\ op = [at |-> op.at, todo |-> op.todo]
           /\ op.at = "purge" => op.upto \in Mark
           /\ op.at \in InstallOps =>
                 op.meta \in Snapshot /\ op = [at |-> op.at, meta |-> op.meta]
           /\ builder = Idle <=> builder.at = "idle"
           /\ builder # Idle => builder.at = "membership" /\ builder.last_log_id \in Mark
<1>1. CASE op \in {Idle, [at |-> "recover"]}
  BY <1>1 DEF TypeInv, Idle, EntryOps, InstallOps
<1>2. CASE op \in [at : EntryOps, todo : SUBSET Index]
  BY <1>2 DEF TypeInv, Idle, EntryOps, InstallOps
<1>3. CASE op \in [at : {"purge"}, upto : Mark]
  BY <1>3 DEF TypeInv, Idle, EntryOps, InstallOps
<1>4. CASE op \in [at : InstallOps, meta : Snapshot]
  BY <1>4 DEF TypeInv, Idle, EntryOps, InstallOps
<1> QED
  BY <1>1, <1>2, <1>3, <1>4 DEF TypeInv, Ops

(* The steps Next can take, once for all case splits.                      *)
LEMMA NextCases ==
    ASSUME [Next]_vars
    PROVE  \/ save_vote
           \/ \E n \in 1 .. MaxBatch : append_to_log(n)
           \/ append_to_log_put
           \/ \E i \in Index : delete_conflict_logs_since(i)
           \/ delete_log
           \/ \E i \in Index : save_committed(i)
           \/ \E i \in Index : purge_logs_upto(i)
           \/ purge_mark
           \/ \E i \in Index : apply_to_state_machine(i)
           \/ apply_mark \/ apply_payload
           \/ build_snapshot \/ build_snapshot_store
           \/ \E i \in Index : install_snapshot(i)
           \/ install_applied \/ install_membership \/ install_current
           \/ Crash \/ Recover
           \/ UNCHANGED vars
  BY DEF Next, Running

(* Where a call can go on to.                                              *)
LEMMA OpsMembers ==
    /\ Idle \in Ops /\ [at |-> "recover"] \in Ops
    /\ \A at \in EntryOps, todo \in SUBSET Index : [at |-> at, todo |-> todo] \in Ops
    /\ \A upto \in Mark : [at |-> "purge", upto |-> upto] \in Ops
    /\ \A at \in InstallOps, meta \in Snapshot : [at |-> at, meta |-> meta] \in Ops
    /\ \A todo \in SUBSET Index : Applying(todo) \in Ops
  BY DEF Ops, Applying, EntryOps

(* The entry that append_to_log and apply_to_state_machine take next: the  *)
(* first of those left.                                                    *)
LEMMA NextEntry ==
    ASSUME TypeInv, AppendInv, TodoInv
    PROVE  /\ op.at \in {"append", "apply", "apply_payload"} =>
                 op.todo # {} /\ Min(op.todo) \in op.todo /\ Min(op.todo) \in Index
           /\ op.at = "apply" => Min(op.todo) = last_applied + 1
           /\ op.at = "apply_payload" => Min(op.todo) = last_applied
<1> USE RaftAssumption
<1>1. last_applied \in Nat
  BY DEF TypeInv, Mark
<1>2. CASE op.at = "append"
  <2>1. PICK a, b \in Index : a <= b /\ op.todo = a .. b
    BY <1>2 DEF AppendInv
  <2>2. Min(a .. b) = a /\ a \in a .. b
    BY <2>1, IntervalMin DEF Index
  <2> QED
    BY <1>2, <2>1, <2>2
<1>3. CASE op.at = "apply"
  <2>1. PICK u \in Index : last_applied < u /\ op.todo = (last_applied + 1) .. u
    BY <1>3 DEF TodoInv
  <2>2. /\ Min((last_applied + 1) .. u) = last_applied + 1
        /\ last_applied + 1 \in (last_applied + 1) .. u /\ last_applied + 1 \in Index
    BY <1>1, <2>1, IntervalMin DEF Index
  <2> QED
    BY <1>3, <2>1, <2>2
<1>4. CASE op.at = "apply_payload"
  <2>1. PICK u \in Index : last_applied \in 1 .. u /\ op.todo = last_applied .. u
    BY <1>4 DEF TodoInv
  <2>2. /\ Min(last_applied .. u) = last_applied
        /\ last_applied \in last_applied .. u /\ last_applied \in Index
    BY <1>1, <2>1, IntervalMin DEF Index
  <2> QED
    BY <1>4, <2>1, <2>2
<1> QED
  BY <1>2, <1>3, <1>4

(* Every step keeps the variables in their types.                          *)
LEMMA TypeStep ==
    ASSUME TypeInv, AppendInv, TodoInv, [Next]_vars
    PROVE  TypeInv'
<1> USE RaftAssumption
<1>1. CASE save_vote
  BY <1>1 DEF save_vote, TypeInv, Terms
<1>2. ASSUME NEW n \in 1 .. MaxBatch, append_to_log(n)
      PROVE  TypeInv'
  <2>1. LastLogId \in Mark
    BY LastLogIdOf
  <2>2. (LastLogId + 1) .. (LastLogId + 1 + n - 1) \in SUBSET Index
    BY <1>2, <2>1 DEF append_to_log, Index, Mark
  <2>3. op' \in Ops
    BY <1>2, <2>2, OpsMembers DEF append_to_log, Ready, EntryOps
  <2> QED
    BY <1>2, <2>3 DEF append_to_log, TypeInv
<1>3. CASE append_to_log_put
  <2> DEFINE i == Min(op.todo)
  <2>1. op.todo # {} /\ op.at \in EntryOps
    BY <1>3, NextEntry DEF append_to_log_put, EntryOps
  <2>2. i \in Index
    BY <1>3, NextEntry DEF append_to_log_put
  <2>3. TermSent(i) \in Terms
    BY DEF TermSent, ChosenTerm, Terms
  <2>4. log' \in [DOMAIN log' -> Terms] /\ DOMAIN log' \subseteq Index
    BY <1>3, <2>2, <2>3 DEF append_to_log_put, TypeInv
  <2>5. op' \in Ops
    BY <1>3, <2>1, OpFields, OpsMembers DEF append_to_log_put
  <2> QED
    BY <1>3, <2>4, <2>5 DEF append_to_log_put, TypeInv
<1>4. ASSUME NEW i \in Index, delete_conflict_logs_since(i)
      PROVE  TypeInv'
  <2>1. op' \in Ops
    BY <1>4, OpsMembers DEF delete_conflict_logs_since, Ready, EntryOps, TypeInv
  <2> QED
    BY <1>4, <2>1 DEF delete_conflict_logs_since, TypeInv
<1>5. CASE delete_log
  <2>1. log' \in [DOMAIN log' -> Terms] /\ DOMAIN log' \subseteq Index
    BY <1>5 DEF delete_log, TypeInv
  <2>2. op' \in Ops
    BY <1>5, OpFields, OpsMembers DEF delete_log, EntryOps
  <2> QED
    BY <1>5, <2>1, <2>2 DEF delete_log, TypeInv
<1>6. ASSUME NEW i \in Index, save_committed(i)
      PROVE  TypeInv'
  BY <1>6 DEF save_committed, TypeInv, Index, Mark
<1>7. ASSUME NEW i \in Index, purge_logs_upto(i)
      PROVE  TypeInv'
  <2>1. op' \in Ops
    BY <1>7, OpsMembers DEF purge_logs_upto, Ready, Index, Mark
  <2> QED
    BY <1>7, <2>1 DEF purge_logs_upto, TypeInv
<1>8. CASE purge_mark
  <2>1. PurgedKeys(op.upto) \in SUBSET Index
    BY DEF PurgedKeys, TypeInv
  <2>2. op' \in Ops
    BY <1>8, <2>1, OpsMembers DEF purge_mark, EntryOps
  <2> QED
    BY <1>8, <2>2, OpFields DEF purge_mark, TypeInv
<1>9. ASSUME NEW i \in Index, apply_to_state_machine(i)
      PROVE  TypeInv'
  <2>1. ReadLog(last_applied + 1, i) \in SUBSET Index
    BY DEF ReadLog, TypeInv
  <2>2. op' \in Ops
    BY <1>9, <2>1, OpsMembers DEF apply_to_state_machine, Ready
  <2> QED
    BY <1>9, <2>2 DEF apply_to_state_machine, TypeInv
<1>10. CASE apply_mark
  <2>1. op.todo # {} /\ op.at \in EntryOps
    BY <1>10, NextEntry DEF apply_mark, EntryOps
  <2>2. last_applied' \in Mark
    BY <1>10, <2>1, NextEntry DEF apply_mark, Index, Mark
  <2>3. op' \in Ops
    BY <1>10, <2>1, OpFields, OpsMembers DEF apply_mark, EntryOps
  <2> QED
    BY <1>10, <2>2, <2>3 DEF apply_mark, TypeInv
<1>11. CASE apply_payload
  <2> DEFINE i == Min(op.todo)
  <2>1. op.todo # {} /\ op.at \in EntryOps
    BY <1>11, NextEntry DEF apply_payload, EntryOps
  <2>2. i \in Index /\ op.todo \ {i} \in SUBSET Index
    BY <1>11, <2>1, NextEntry, OpFields DEF apply_payload
  <2>3. op' \in Ops
    BY <1>11, <2>2, OpsMembers DEF apply_payload
  <2>4. graph' \in Seq(Index \ Memberships) /\ last_membership' \in {0} \cup Memberships
    BY <1>11, <2>2 DEF apply_payload, TypeInv
  <2> QED
    BY <1>11, <2>3, <2>4 DEF apply_payload, TypeInv
<1>12. CASE build_snapshot
  BY <1>12 DEF build_snapshot, TypeInv
<1>13. CASE build_snapshot_store
  BY <1>13, OpFields DEF build_snapshot_store, TypeInv, Idle, Snapshot
<1>14. ASSUME NEW i \in Index, install_snapshot(i)
      PROVE  TypeInv'
  <2>1. [last_log_id |-> i, last_membership |-> MembershipAt(i)] \in Snapshot
    BY MembershipAtFacts DEF Snapshot, Index, Mark
  <2>2. op' \in Ops
    BY <1>14, <2>1, OpsMembers DEF install_snapshot, Ready, InstallOps
  <2> QED
    BY <1>14, <2>2 DEF install_snapshot, TypeInv
<1>15. CASE install_applied
  <2>1. op.at \in InstallOps /\ op.meta \in Snapshot
    BY <1>15, OpFields DEF install_applied, InstallOps
  <2>2. op' \in Ops
    BY <1>15, <2>1, OpFields, OpsMembers DEF install_applied, InstallOps
  <2>3. last_applied' \in Mark /\ lost' \in SUBSET Index
    BY <1>15, <2>1 DEF install_applied, Snapshot, Mark, Index, TypeInv
  <2> QED
    BY <1>15, <2>2, <2>3 DEF install_applied, TypeInv
<1>16. CASE install_membership
  <2>1. op.at \in InstallOps /\ op.meta \in Snapshot
    BY <1>16, OpFields DEF install_membership, InstallOps
  <2>2. op' \in Ops
    BY <1>16, <2>1, OpFields, OpsMembers DEF install_membership, InstallOps
  <2> QED
    BY <1>16, <2>1, <2>2 DEF install_membership, TypeInv, Snapshot
<1>17. CASE install_current
  <2>1. op.at \in InstallOps /\ op.meta \in Snapshot
    BY <1>17, OpFields DEF install_current, InstallOps
  <2>2. op' \in Ops
    BY <1>17, <2>1, OpsMembers DEF install_current, Snapshot
  <2> QED
    BY <1>17, <2>1, <2>2 DEF install_current, TypeInv
<1>18. CASE Crash
  <2>1. op' \in Ops
    BY <1>18, OpsMembers DEF Crash
  <2>2. current_snapshot' \in Snapshot
    BY <1>18 DEF Crash, NoSnapshot, Snapshot, Mark
  <2>3. ASSUME op.at = "apply_payload"
        PROVE  Min(op.todo) \in Index
    BY <2>3, NextEntry
  <2>4. lost' \in SUBSET Index
    BY <1>18, <2>3 DEF Crash, TypeInv
  <2>5. crashes' \in 0 .. MaxCrashes /\ torn' \in BOOLEAN /\ builder' = Idle
    BY <1>18 DEF Crash, TypeInv
  <2> QED
    BY <1>18, <2>1, <2>2, <2>4, <2>5 DEF Crash, TypeInv
<1>19. CASE Recover
  <2>1. ReadLog(last_applied + 1, committed) \in SUBSET Index
    BY DEF ReadLog, TypeInv
  <2>2. op' \in Ops
    BY <1>19, <2>1, OpsMembers DEF Recover, TypeInv
  <2> QED
    BY <1>19, <2>2 DEF Recover, TypeInv
<1>20. CASE UNCHANGED vars
  BY <1>20 DEF vars, TypeInv
<1> QED
  BY NextCases, <1>1, <1>2, <1>3, <1>4, <1>5, <1>6, <1>7, <1>8, <1>9, <1>10, <1>11, <1>12,
     <1>13, <1>14, <1>15, <1>16, <1>17, <1>18, <1>19, <1>20

(* What a call becomes when it goes on with the entries left.              *)
LEMMA ApplyingAt ==
    ASSUME NEW S
    PROVE  /\ S = {} => Applying(S) = Idle
           /\ S # {} => Applying(S).at = "apply" /\ Applying(S).todo = S
           /\ Applying(S).at \in {"idle", "apply"}
  BY DEF Applying, Idle

(* No step moves a marker past the applied one.                            *)
LEMMA MarkStep ==
    ASSUME TypeInv, AppendInv, TodoInv, MarkInv, [Next]_vars
    PROVE  MarkInv'
<1> USE RaftAssumption DEF MarkInv, InstallOps, TypeInv, Mark
<1>1. CASE save_vote
  BY <1>1 DEF save_vote, MembershipAt
<1>2. ASSUME NEW n \in 1 .. MaxBatch, append_to_log(n)
      PROVE  MarkInv'
  BY <1>2 DEF append_to_log, Ready
<1>3. CASE append_to_log_put
  <2>1. op'.at \in {"idle", "append"}
    BY <1>3, OpFields DEF append_to_log_put, Idle, EntryOps
  <2> QED
    BY <1>3, <2>1 DEF append_to_log_put
<1>4. ASSUME NEW i \in Index, delete_conflict_logs_since(i)
      PROVE  MarkInv'
  BY <1>4 DEF delete_conflict_logs_since, Ready
<1>5. CASE delete_log
  <2>1. op'.at \in {"idle", "delete"}
    BY <1>5, OpFields DEF delete_log, Idle, EntryOps
  <2> QED
    BY <1>5, <2>1 DEF delete_log
<1>6. ASSUME NEW i \in Index, save_committed(i)
      PROVE  MarkInv'
  BY <1>6 DEF save_committed, MembershipAt
<1>7. ASSUME NEW i \in Index, purge_logs_upto(i)
      PROVE  MarkInv'
  BY <1>7 DEF purge_logs_upto, Ready, Snapshot, Index
<1>8. CASE purge_mark
  BY <1>8 DEF purge_mark
<1>9. ASSUME NEW i \in Index, apply_to_state_machine(i)
      PROVE  MarkInv'
  <2>1. op'.at \in {"idle", "apply"}
    BY <1>9, ApplyingAt DEF apply_to_state_machine, Ready
  <2> QED
    BY <1>9, <2>1 DEF apply_to_state_machine
<1>10. CASE apply_mark
  <2>1. op'.at = "apply_payload" /\ last_applied' = last_applied + 1
    BY <1>10, OpFields, NextEntry DEF apply_mark, EntryOps
  <2> QED
    BY <1>10, <2>1, OpFields DEF apply_mark, Snapshot
<1>11. CASE apply_payload
  <2>1. op'.at \in {"idle", "apply"}
    BY <1>11, ApplyingAt DEF apply_payload
  <2> QED
    BY <1>11, <2>1 DEF apply_payload
<1>12. CASE build_snapshot
  BY <1>12 DEF build_snapshot, MembershipAt
<1>13. CASE build_snapshot_store
  BY <1>13, OpFields DEF build_snapshot_store, MembershipAt, Idle
<1>14. ASSUME NEW i \in Index, install_snapshot(i)
      PROVE  MarkInv'
  BY <1>14 DEF install_snapshot, Ready, MembershipAt
<1>15. CASE install_applied
  <2>1. op' = [at |-> "install_membership", meta |-> op.meta]
    BY <1>15, OpFields DEF install_applied
  <2> QED
    BY <1>15, <2>1, OpFields DEF install_applied, Snapshot, MembershipAt
<1>16. CASE install_membership
  <2>1. op' = [at |-> "install_current", meta |-> op.meta]
    BY <1>16, OpFields DEF install_membership
  <2> QED
    BY <1>16, <2>1 DEF install_membership, MembershipAt
<1>17. CASE install_current
  BY <1>17 DEF install_current
<1>18. CASE Crash
  BY <1>18 DEF Crash, NoSnapshot
<1>19. CASE Recover
  <2>1. op'.at \in {"idle", "apply"} \/ op' = [at |-> "purge", upto |-> last_applied]
    BY <1>19, ApplyingAt DEF Recover, Idle
  <2> QED
    BY <1>19, <2>1 DEF Recover
<1>20. CASE UNCHANGED vars
  BY <1>20 DEF vars, MembershipAt
<1> QED
  BY NextCases, <1>1, <1>2, <1>3, <1>4, <1>5, <1>6, <1>7, <1>8, <1>9, <1>10, <1>11, <1>12,
     <1>13, <1>14, <1>15, <1>16, <1>17, <1>18, <1>19, <1>20

(* The entries still to apply stay an interval that follows the marker.    *)
LEMMA TodoStep ==
    ASSUME TypeInv, MarkInv, AppendInv, CommittedPresent, TodoInv, [Next]_vars
    PROVE  TodoInv'
<1> USE RaftAssumption DEF TypeInv, Mark
<1>0. ASSUME NEW i \in Index, last_applied < i, i <= committed,
             op' = Applying(ReadLog(last_applied + 1, i)), UNCHANGED durable
      PROVE  TodoInv'
  <2>1. ReadLog(last_applied + 1, i) = (last_applied + 1) .. i
    BY <1>0 DEF ReadLog, CommittedPresent, Chosen, Index
  <2>2. op'.at = "apply" /\ op'.todo = (last_applied + 1) .. i
    <3>1. (last_applied + 1) .. i # {}
      BY <1>0 DEF Index
    <3> QED
      BY <1>0, <2>1, <3>1, ApplyingAt
  <2> QED
    BY <1>0, <2>2 DEF TodoInv
<1>1. ASSUME op'.at \notin {"apply", "apply_payload"}
      PROVE  TodoInv'
  BY <1>1 DEF TodoInv
<1>2. ASSUME UNCHANGED <<op, last_applied>>
      PROVE  TodoInv'
  BY <1>2 DEF TodoInv
<1>3. CASE append_to_log_put
  <2>1. op'.at \in {"idle", "append"}
    BY <1>3, OpFields DEF append_to_log_put, Idle, EntryOps
  <2> QED
    BY <1>1, <2>1
<1>5. CASE delete_log
  <2>1. op'.at \in {"idle", "delete"}
    BY <1>5, OpFields DEF delete_log, Idle, EntryOps
  <2> QED
    BY <1>1, <2>1
<1>9. ASSUME NEW i \in Index, apply_to_state_machine(i)
      PROVE  TodoInv'
  BY <1>0, <1>9 DEF apply_to_state_machine, Ready
<1>10. CASE apply_mark
  <2>1. PICK u \in Index : last_applied < u /\ op.todo = (last_applied + 1) .. u
    BY <1>10 DEF apply_mark, TodoInv
  <2>2. op'.at = "apply_payload" /\ op'.todo = op.todo /\ last_applied' = last_applied + 1
    BY <1>10, OpFields, NextEntry DEF apply_mark, EntryOps
  <2> QED
    BY <2>1, <2>2 DEF TodoInv, Index
<1>11. CASE apply_payload
  <2>1. PICK u \in Index : last_applied \in 1 .. u /\ op.todo = last_applied .. u
    BY <1>11 DEF apply_payload, TodoInv
  <2>2. op.todo \ {Min(op.todo)} = (last_applied + 1) .. u
    BY <1>11, <2>1, NextEntry, IntervalMin DEF apply_payload, Index
  <2>3. op' = Applying((last_applied + 1) .. u) /\ last_applied' = last_applied
    BY <1>11, <2>2 DEF apply_payload
  <2>4. CASE last_applied = u
    <3>1. (last_applied + 1) .. u = {}
      BY <2>4
    <3>2. op' = Idle
      BY <2>3, <3>1, ApplyingAt
    <3> QED
      BY <1>1, <3>2 DEF Idle
  <2>5. CASE last_applied < u
    <3>1. u \in (last_applied + 1) .. u
      BY <2>1, <2>5 DEF Index
    <3>2. op'.at = "apply" /\ op'.todo = (last_applied + 1) .. u
      BY <2>3, <3>1, ApplyingAt
    <3> QED
      BY <2>3, <2>5, <3>2 DEF TodoInv
  <2> QED
    BY <2>1, <2>4, <2>5 DEF Index
<1>15. CASE install_applied
  BY <1>1, <1>15, OpFields DEF install_applied, InstallOps
<1>16. CASE install_membership
  BY <1>1, <1>16, OpFields DEF install_membership, InstallOps
<1>19. CASE Recover
  <2>1. CASE LastLogBehind
    BY <1>1, <1>19, <2>1 DEF Recover
  <2>2. CASE ~LastLogBehind /\ last_applied < committed
    <3>1. committed \in Index
      BY <2>2 DEF Index
    <3> QED
      BY <1>0, <1>19, <2>2, <3>1 DEF Recover
  <2>3. CASE ~LastLogBehind /\ ~(last_applied < committed)
    BY <1>1, <1>19, <2>3 DEF Recover, Idle
  <2> QED
    BY <2>1, <2>2, <2>3
<1>20. ASSUME NEW i \in Index,
              delete_conflict_logs_since(i) \/ purge_logs_upto(i) \/ install_snapshot(i)
       PROVE  TodoInv'
  BY <1>1, <1>20 DEF delete_conflict_logs_since, purge_logs_upto, install_snapshot, Ready
<1>21. ASSUME NEW n \in 1 .. MaxBatch, append_to_log(n)
       PROVE  TodoInv'
  BY <1>1, <1>21 DEF append_to_log, Ready
<1>22. ASSUME purge_mark \/ install_current \/ Crash
       PROVE  TodoInv'
  BY <1>1, <1>22 DEF purge_mark, install_current, Crash
<1>23. ASSUME NEW i \in Index, save_committed(i)
       PROVE  TodoInv'
  BY <1>2, <1>23 DEF save_committed
<1>24. ASSUME save_vote \/ build_snapshot \/ build_snapshot_store \/ UNCHANGED vars
       PROVE  TodoInv'
  BY <1>2, <1>24 DEF save_vote, build_snapshot, build_snapshot_store, vars
<1> QED
  BY NextCases, <1>3, <1>5, <1>9, <1>10, <1>11, <1>15, <1>16, <1>19, <1>20, <1>21, <1>22,
     <1>23, <1>24

--------------------------------------------------------------------------------
(* A step that leaves the log, the vote and the committed marker alone     *)
(* keeps LogInv, though it may advance the applied marker.                 *)
LEMMA LogUntouched ==
    ASSUME TypeInv, LogInv, UNCHANGED <<log, vote, committed>>,
           last_applied' \in Nat, last_applied <= last_applied',
           op'.at \notin {"append", "delete"}
    PROVE  LogInv'
<1> USE RaftAssumption DEF TypeInv, Mark, Chosen, Unapplied, Index
<1>1. FirstTerm'
  BY DEF LogInv, FirstTerm
<1>2. ChosenPrefix'
  <2> SUFFICES ASSUME NEW j \in DOMAIN log, Chosen(j), NEW k \in Unapplied(j)'
               PROVE  Chosen(k)
    BY DEF ChosenPrefix, ChosenTerm
  <2>1. k \in Unapplied(j)
    OBVIOUS
  <2> QED
    BY <2>1 DEF LogInv, ChosenPrefix
<1>3. CommittedPresent'
  BY DEF LogInv, CommittedPresent
<1> QED
  BY <1>1, <1>2, <1>3 DEF LogInv, AppendInv, DeleteInv

(* append_to_log: the entries to come follow a log that is the leader's    *)
(* above the applied marker.                                               *)
LEMMA AppendStart ==
    ASSUME TypeInv, MarkInv, LogInv, NEW n \in 1 .. MaxBatch, append_to_log(n)
    PROVE  LogInv'
<1> DEFINE a == LastLogId + 1
           b == LastLogId + 1 + n - 1
<1>0. /\ LastLogId \in Mark /\ last_applied \in Nat /\ MaxIndex \in Nat
      /\ last_purged \in Nat /\ last_purged <= last_applied /\ n \in 1 .. MaxBatch
      /\ MaxBatch \in Nat
  BY LastLogIdOf, RaftAssumption DEF TypeInv, Mark, MarkInv
<1>1. LastLogId \in Nat /\ a \in Index /\ b \in Index /\ a <= b
  <2>1. b \in Index
    BY DEF append_to_log
  <2> QED
    BY <1>0, <2>1 DEF Mark, Index
<1>2. op' = [at |-> "append", todo |-> a .. b] /\ UNCHANGED durable
  BY DEF append_to_log, Ready
<1>3. ASSUME NEW k \in Unapplied(a)
      PROVE  k \in DOMAIN log /\ log[k] = TermSent(k)
  <2>1. k \in Nat /\ last_applied < k /\ k <= LastLogId
    BY <1>0, <1>1, <1>3 DEF Unapplied
  <2>2. log # <<>> /\ LastLogId \in DOMAIN log
    BY <1>0, <1>1, <2>1, LastLogIdOf
  <2>3. CASE vote = 1
    BY <1>0, <1>1, <2>1, <2>2, <2>3 DEF LogInv, FirstTerm, Unapplied, TermSent
  <2>4. CASE vote # 1
    <3>1. Chosen(LastLogId)
      <4>1. a - 1 = LastLogId
        BY <1>1
      <4>2. a - 1 \in {last_purged, last_applied} \/ Chosen(a - 1)
        BY <2>4 DEF append_to_log
      <4> QED
        BY <1>0, <2>1, <4>1, <4>2
    <3>2. Chosen(k)
      BY <1>0, <1>1, <2>1, <2>2, <3>1 DEF LogInv, ChosenPrefix, Unapplied
    <3> QED
      BY <2>4, <3>2 DEF Chosen, TermSent
  <2> QED
    BY <2>3, <2>4
<1>4. AppendInv'
  <2>0. a' = a /\ b' = b
    BY <1>2 DEF LastLogId
  <2>1. ASSUME NEW k \in Unapplied(a)'
        PROVE  (k \in DOMAIN log /\ log[k] = TermSent(k))'
    <3>1. k \in Unapplied(a)
      BY <1>2, <2>0 DEF Unapplied
    <3>2. k \in DOMAIN log /\ log[k] = TermSent(k)
      BY <1>3, <3>1
    <3> QED
      BY <1>2, <3>2 DEF TermSent, ChosenTerm
  <2> QED
    BY <1>1, <1>2, <2>0, <2>1 DEF AppendInv
<1> QED
  BY <1>2, <1>4 DEF LogInv, FirstTerm, ChosenPrefix, Chosen, Unapplied, DeleteInv,
                    CommittedPresent

(* Each put of append_to_log extends the log without a hole and with the   *)
(* leader's entry.                                                         *)
LEMMA AppendPut ==
    ASSUME TypeInv, LogInv, append_to_log_put
    PROVE  LogInv'
<1>1. PICK a, b \in Index :
         /\ a <= b /\ op.todo = a .. b
         /\ \A k \in Unapplied(a) : k \in DOMAIN log /\ log[k] = TermSent(k)
  BY DEF append_to_log_put, LogInv, AppendInv
<1>0. a \in Nat /\ b \in Nat
  BY RaftAssumption DEF Index
<1>2. Min(op.todo) = a /\ op.todo \ {a} = (a + 1) .. b
  BY <1>0, <1>1, IntervalMin
<1> USE RaftAssumption DEF TypeInv, Mark, Index
<1>3. /\ log' = [j \in DOMAIN log \cup {a} |-> IF j = a THEN TermSent(a) ELSE log[j]]
      /\ UNCHANGED <<vote, last_applied, committed>>
  BY <1>2 DEF append_to_log_put
<1>4. \A j \in DOMAIN log : Chosen(j) => Chosen(j)'
  <2>1. CASE vote = 1
    BY <1>3, <2>1 DEF LogInv, FirstTerm, Chosen, TermSent
  <2>2. CASE vote # 1
    BY <1>3, <2>2 DEF Chosen, TermSent
  <2> QED
    BY <2>1, <2>2
<1>5. FirstTerm'
  BY <1>1, <1>3 DEF LogInv, FirstTerm, Unapplied, TermSent
<1>6. ChosenPrefix'
  <2> SUFFICES ASSUME NEW j \in DOMAIN log', Chosen(j)', NEW k \in Unapplied(j)'
               PROVE  Chosen(k)'
    BY DEF ChosenPrefix
  <2>0. k \in Nat /\ last_applied < k /\ k < j /\ j \in Nat
    BY <1>3 DEF Unapplied
  <2>1. CASE j = a
    <3>1. k \in DOMAIN log /\ log[k] = TermSent(k) /\ k # a
      BY <1>1, <2>0, <2>1 DEF Unapplied
    <3>2. k \in DOMAIN log' /\ log'[k] = TermSent(k)
      BY <1>3, <3>1
    <3>3. log'[j] = TermSent(j)
      BY <1>3, <2>1
    <3> QED
      BY <2>0, <3>2, <3>3 DEF Chosen, TermSent, ChosenTerm
  <2>2. CASE j # a /\ vote = 1
    <3>1. j \in DOMAIN log /\ log[j] = 1 /\ Chosen(j)
      BY <1>3, <2>2 DEF Chosen, LogInv, FirstTerm
    <3>2. Chosen(k) /\ k \in DOMAIN log
      BY <2>0, <3>1 DEF LogInv, ChosenPrefix, Unapplied, Chosen
    <3> QED
      BY <1>4, <3>2
  <2>3. CASE j # a /\ vote # 1
    <3>1. j \in DOMAIN log /\ Chosen(j)
      BY <1>3, <2>3 DEF Chosen
    <3>2. Chosen(k) /\ k \in DOMAIN log
      BY <2>0, <3>1 DEF LogInv, ChosenPrefix, Unapplied, Chosen
    <3> QED
      BY <1>4, <3>2
  <2> QED
    BY <2>1, <2>2, <2>3
<1>7. AppendInv' /\ DeleteInv'
  <2>1. CASE a = b
    <3>0. op.todo = {a}
      BY <1>0, <1>1, <2>1
    <3>1. op' = Idle
      BY <1>2, <3>0 DEF append_to_log_put
    <3> QED
      BY <3>1 DEF AppendInv, DeleteInv, Idle
  <2>2. CASE a < b
    <3>1. op.todo # {a} /\ op.at = "append"
      BY <1>1, <2>2 DEF append_to_log_put
    <3>2. op' = [op EXCEPT !.todo = @ \ {a}]
      BY <1>2, <3>1 DEF append_to_log_put
    <3>3. op'.at = "append" /\ op'.todo = (a + 1) .. b
      BY <1>2, <3>1, <3>2, OpFields DEF EntryOps
    <3>4. ASSUME NEW k \in Unapplied(a + 1)'
          PROVE  (k \in DOMAIN log /\ log[k] = TermSent(k))'
      <4>1. k = a \/ (k # a /\ k \in Unapplied(a))
        BY <1>3 DEF Unapplied
      <4> QED
        BY <1>1, <1>3, <4>1 DEF TermSent, ChosenTerm
    <3>5. a + 1 \in Index /\ a + 1 <= b
      BY <2>2
    <3> QED
      BY <3>3, <3>4, <3>5 DEF AppendInv, DeleteInv
  <2> QED
    BY <1>1, <2>1, <2>2
<1>8. CommittedPresent'
  BY <1>3, <1>4 DEF LogInv, CommittedPresent, Chosen
<1> QED
  BY <1>5, <1>6, <1>7, <1>8 DEF LogInv

(* A deletion leaves what is committed and what was chosen.                *)
LEMMA DeleteOne ==
    ASSUME TypeInv, LogInv, delete_log
    PROVE  LogInv'
<1> USE RaftAssumption DEF TypeInv, Mark, Index
<1>1. CASE op.todo = {}
  BY <1>1, LogUntouched DEF delete_log, Idle
<1>2. CASE op.todo # {}
  <2> DEFINE i == Min(op.todo)
  <2>1. op.at = "delete" /\ op.todo \in SUBSET Index
    BY OpFields DEF delete_log, EntryOps
  <2>2. i \in op.todo
    BY <1>2, <2>1, MinOf
  <2>3. i <= last_applied \/ (vote = 2 /\ i > committed /\ ~Chosen(i))
    BY <2>1, <2>2 DEF LogInv, DeleteInv
  <2>4. /\ log' = [j \in DOMAIN log \ {i} |-> log[j]]
        /\ op' = [op EXCEPT !.todo = @ \ {i}]
        /\ UNCHANGED <<vote, last_applied, committed>>
    BY <1>2 DEF delete_log
  <2>5. op'.at = "delete" /\ op'.todo = op.todo \ {i}
    BY <2>1, <2>4, OpFields DEF EntryOps
  <2>6. i \in Nat
    BY <2>1, <2>2
  <2> HIDE DEF i
  <2>7. \A j \in Nat : Chosen(j)' <=> Chosen(j) /\ j # i
    BY <2>4 DEF Chosen, ChosenTerm
  <2>8. FirstTerm'
    BY <2>3, <2>4, <2>6 DEF LogInv, FirstTerm, Unapplied
  <2>9. ChosenPrefix'
    <3> SUFFICES ASSUME NEW j \in DOMAIN log', Chosen(j)', NEW k \in Unapplied(j)'
                 PROVE  Chosen(k)'
      BY DEF ChosenPrefix
    <3>1. k \in Unapplied(j) /\ k \in Nat /\ k > last_applied /\ j \in DOMAIN log /\ j \in Nat
      BY <2>4 DEF Unapplied
    <3>2. Chosen(j)
      BY <2>7, <3>1
    <3>3. Chosen(k)
      BY <3>1, <3>2 DEF LogInv, ChosenPrefix
    <3> QED
      BY <2>3, <2>6, <2>7, <3>1, <3>3
  <2>10. DeleteInv' /\ AppendInv'
    BY <2>1, <2>4, <2>5, <2>7 DEF LogInv, DeleteInv, AppendInv
  <2>11. CommittedPresent'
    BY <2>3, <2>4, <2>6, <2>7 DEF LogInv, CommittedPresent
  <2> QED
    BY <2>8, <2>9, <2>10, <2>11 DEF LogInv
<1> QED
  BY <1>1, <1>2

(* delete_conflict_logs_since begins at an entry the cluster did not       *)
(* choose; nothing from there on is committed or chosen.                   *)
LEMMA DeleteStart ==
    ASSUME TypeInv, LogInv, NEW i \in Index, delete_conflict_logs_since(i)
    PROVE  LogInv'
<1> USE RaftAssumption DEF TypeInv, Mark, Index
<1>1. /\ vote = 2 /\ i > last_applied /\ ~Chosen(i)
      /\ op' = [at |-> "delete", todo |-> {j \in DOMAIN log : j >= i}]
      /\ UNCHANGED durable
  BY DEF delete_conflict_logs_since, Ready
<1>2. ASSUME NEW j \in DOMAIN log, j >= i
      PROVE  j > committed /\ ~Chosen(j)
  BY <1>1, <1>2 DEF LogInv, ChosenPrefix, CommittedPresent, Unapplied
<1>3. DeleteInv'
  BY <1>1, <1>2 DEF DeleteInv, Chosen
<1> QED
  BY <1>1, <1>3 DEF LogInv, FirstTerm, ChosenPrefix, Chosen, Unapplied, AppendInv,
                    CommittedPresent

(* Every step keeps the log the leader's above the applied marker.         *)
LEMMA LogStep ==
    ASSUME TypeInv, TypeInv', MarkInv, TodoInv, LogInv, [Next]_vars
    PROVE  LogInv'
<1> USE RaftAssumption
<1>0. last_applied \in Nat /\ last_applied' \in Nat
  BY DEF TypeInv, Mark
<1>1. CASE save_vote
  <2>1. op = Idle /\ vote = 1 /\ vote' = 2 /\ UNCHANGED <<log, last_applied, committed, op>>
    BY <1>1 DEF save_vote, TypeInv, Terms
  <2> QED
    BY <2>1 DEF LogInv, FirstTerm, ChosenPrefix, Chosen, Unapplied, AppendInv, DeleteInv,
                CommittedPresent, Idle
<1>2. ASSUME NEW n \in 1 .. MaxBatch, append_to_log(n)
      PROVE  LogInv'
  BY <1>2, AppendStart
<1>3. CASE append_to_log_put
  BY <1>3, AppendPut
<1>4. ASSUME NEW i \in Index, delete_conflict_logs_since(i)
      PROVE  LogInv'
  BY <1>4, DeleteStart
<1>5. CASE delete_log
  BY <1>5, DeleteOne
<1>6. ASSUME NEW i \in Index, save_committed(i)
      PROVE  LogInv'
  <2>1. CommittedPresent'
    BY <1>6 DEF save_committed, CommittedPresent, Chosen, MarkInv, TypeInv, Mark, Index
  <2> QED
    BY <1>6, <2>1 DEF save_committed, LogInv, FirstTerm, ChosenPrefix, Chosen, Unapplied,
                      AppendInv, DeleteInv, Idle
<1>8. CASE purge_mark
  <2>1. \A j \in PurgedKeys(op.upto) : j <= last_applied
    BY <1>8, OpFields DEF purge_mark, PurgedKeys, MarkInv, TypeInv, Mark, Index
  <2> QED
    BY <1>8, <2>1 DEF purge_mark, LogInv, FirstTerm, ChosenPrefix, Chosen, Unapplied,
                      AppendInv, DeleteInv, CommittedPresent
<1>9. ASSUME NEW i \in Index,
             purge_logs_upto(i) \/ apply_to_state_machine(i) \/ install_snapshot(i)
      PROVE  LogInv'
  <2>1. op'.at \in {"purge", "idle", "apply", "install"} /\ UNCHANGED durable
    BY <1>9, ApplyingAt DEF purge_logs_upto, apply_to_state_machine, install_snapshot, Ready
  <2> QED
    BY <1>0, <2>1, LogUntouched
<1>10. CASE apply_mark
  <2>1. op'.at = "apply_payload" /\ last_applied' = last_applied + 1
    BY <1>10, OpFields, NextEntry DEF apply_mark, EntryOps, LogInv
  <2> QED
    BY <1>0, <1>10, <2>1, LogUntouched DEF apply_mark
<1>11. CASE apply_payload
  <2>1. op'.at \in {"idle", "apply"}
    BY <1>11, ApplyingAt DEF apply_payload
  <2> QED
    BY <1>0, <1>11, <2>1, LogUntouched DEF apply_payload
<1>12. ASSUME build_snapshot \/ build_snapshot_store \/ UNCHANGED vars
       PROVE  LogInv'
  <2>1. UNCHANGED <<durable, op>>
    BY <1>12 DEF build_snapshot, build_snapshot_store, vars
  <2> QED
    BY <2>1 DEF LogInv, FirstTerm, ChosenPrefix, Chosen, Unapplied, AppendInv, DeleteInv,
                CommittedPresent, TermSent
<1>15. CASE install_applied
  <2>1. op'.at = "install_membership" /\ last_applied <= last_applied'
    BY <1>15, OpFields DEF install_applied, InstallOps, MarkInv, Snapshot, Mark, TypeInv
  <2> QED
    BY <1>0, <1>15, <2>1, LogUntouched DEF install_applied
<1>16. CASE install_membership
  <2>1. op'.at = "install_current"
    BY <1>16, OpFields DEF install_membership, InstallOps
  <2> QED
    BY <1>0, <1>16, <2>1, LogUntouched DEF install_membership
<1>17. CASE install_current
  BY <1>0, <1>17, LogUntouched DEF install_current
<1>18. CASE Crash
  BY <1>0, <1>18, LogUntouched DEF Crash
<1>19. CASE Recover
  <2>1. op'.at \in {"idle", "apply", "purge"}
    BY <1>19, ApplyingAt DEF Recover, Idle
  <2> QED
    BY <1>0, <1>19, <2>1, LogUntouched DEF Recover
<1> QED
  BY NextCases, <1>1, <1>2, <1>3, <1>4, <1>5, <1>6, <1>8, <1>9, <1>10, <1>11, <1>12,
     <1>15, <1>16, <1>17, <1>18, <1>19

--------------------------------------------------------------------------------
Halfway == {"apply_payload", "install_membership"}

(* The calls on the log and the first step of each call leave the state    *)
(* machine and the snapshots alone.                                        *)
LEMMA LogCalls ==
    ASSUME TypeInv,
           \/ save_vote \/ append_to_log_put \/ delete_log \/ purge_mark \/ Recover
           \/ \E n \in 1 .. MaxBatch : append_to_log(n)
           \/ \E i \in Index : \/ delete_conflict_logs_since(i) \/ save_committed(i)
                               \/ purge_logs_upto(i) \/ apply_to_state_machine(i)
                               \/ install_snapshot(i)
    PROVE  /\ op.at \notin Halfway /\ op'.at \notin Halfway
           /\ UNCHANGED <<last_applied, last_membership, graph, current_snapshot, builder,
                          history>>
<1> USE DEF Halfway
<1>1. CASE save_vote
  BY <1>1 DEF save_vote, Idle
<1>2. CASE append_to_log_put
  BY <1>2, OpFields DEF append_to_log_put, Idle, EntryOps
<1>3. CASE delete_log
  BY <1>3, OpFields DEF delete_log, Idle, EntryOps
<1>4. CASE purge_mark
  BY <1>4 DEF purge_mark
<1>5. CASE Recover
  BY <1>5, ApplyingAt DEF Recover, Idle
<1>6. ASSUME NEW n \in 1 .. MaxBatch, append_to_log(n)
      PROVE  /\ op.at \notin Halfway /\ op'.at \notin Halfway
             /\ UNCHANGED <<durable, current_snapshot, builder, history>>
  BY <1>6 DEF append_to_log, Ready, Idle
<1>7. ASSUME NEW i \in Index,
             \/ delete_conflict_logs_since(i) \/ purge_logs_upto(i)
             \/ apply_to_state_machine(i) \/ install_snapshot(i)
      PROVE  /\ op.at \notin Halfway /\ op'.at \notin Halfway
             /\ UNCHANGED <<durable, current_snapshot, builder, history>>
  BY <1>7, ApplyingAt DEF delete_conflict_logs_since, purge_logs_upto,
                          apply_to_state_machine, install_snapshot, Ready, Idle
<1>8. ASSUME NEW i \in Index, save_committed(i)
      PROVE  /\ op.at \notin Halfway /\ op'.at \notin Halfway
             /\ UNCHANGED <<last_applied, last_membership, graph, current_snapshot,
                            builder, history>>
  BY <1>8 DEF save_committed, Idle
<1> QED
  BY <1>1, <1>2, <1>3, <1>4, <1>5, <1>6, <1>7, <1>8

(* The steps that are not log calls.                                       *)
LEMMA StateMachineCalls ==
    ASSUME TypeInv, [Next]_vars
    PROVE  \/ /\ op.at \notin Halfway /\ op'.at \notin Halfway
              /\ UNCHANGED <<last_applied, last_membership, graph, current_snapshot,
                             builder, history>>
           \/ apply_mark \/ apply_payload
           \/ build_snapshot \/ build_snapshot_store
           \/ install_applied \/ install_membership \/ install_current
           \/ Crash \/ UNCHANGED vars
  BY NextCases, LogCalls

(* Every step keeps the graph in order and every loss explained.           *)
LEMMA GraphStep ==
    ASSUME TypeInv, MarkInv, AppendInv, TodoInv, GraphInv, [Next]_vars
    PROVE  GraphInv'
<1> USE RaftAssumption DEF Halfway
<1>0. /\ last_applied \in Nat /\ graph \in Seq(Index \ Memberships)
      /\ DOMAIN graph = 1 .. Len(graph) /\ Len(graph) \in Nat
      /\ \A k \in DOMAIN graph : graph[k] \in Nat
  BY DEF TypeInv, Mark, Index
<1>1. ASSUME op.at # "apply_payload" , op'.at # "apply_payload",
             UNCHANGED <<last_applied, graph, lost>>
      PROVE  GraphInv'
  BY <1>1 DEF GraphInv, AtMostOnceInOrder, EveryLossExplained, Executed, InFlight
<1>2. ASSUME UNCHANGED <<last_applied, graph, lost, op>>
      PROVE  GraphInv'
  BY <1>2 DEF GraphInv, AtMostOnceInOrder, EveryLossExplained, Executed, InFlight
<1>3. CASE apply_mark
  <2>1. /\ op.at = "apply" /\ op'.at = "apply_payload" /\ op'.todo = op.todo
        /\ last_applied' = last_applied + 1
        /\ Min(op.todo) = last_applied + 1 /\ UNCHANGED <<graph, lost>>
    BY <1>3, OpFields, NextEntry DEF apply_mark, EntryOps
  <2>2. \A k \in DOMAIN graph : graph[k] < last_applied'
    BY <1>0, <2>1 DEF GraphInv
  <2>3. EveryLossExplained'
    BY <1>0, <2>1 DEF GraphInv, EveryLossExplained, Executed, InFlight
  <2> QED
    BY <1>0, <2>1, <2>2, <2>3 DEF GraphInv, AtMostOnceInOrder
<1>4. CASE apply_payload
  <2>1. /\ op.at = "apply_payload" /\ op'.at \in {"idle", "apply"}
        /\ Min(op.todo) = last_applied /\ last_applied \in Index
        /\ UNCHANGED <<last_applied, lost>>
    BY <1>4, ApplyingAt, NextEntry DEF apply_payload
  <2>2. CASE last_applied \in Memberships
    <3>1. UNCHANGED graph
      BY <1>4, <2>1, <2>2 DEF apply_payload
    <3> QED
      BY <1>0, <2>1, <2>2, <3>1 DEF GraphInv, AtMostOnceInOrder, EveryLossExplained,
                                    Executed, InFlight
  <2>3. CASE last_applied \notin Memberships
    <3>1. graph' = Append(graph, last_applied)
      BY <1>4, <2>1, <2>3 DEF apply_payload
    <3>2. /\ DOMAIN graph' = 1 .. (Len(graph) + 1)
          /\ graph'[Len(graph) + 1] = last_applied
          /\ \A k \in 1 .. Len(graph) : graph'[k] = graph[k]
      BY <1>0, <3>1
    <3>3. \A k \in DOMAIN graph : graph[k] < last_applied
      BY <2>1 DEF GraphInv
    <3>4. AtMostOnceInOrder'
      BY <1>0, <3>2, <3>3 DEF GraphInv, AtMostOnceInOrder
    <3>5. EveryLossExplained'
      <4> SUFFICES ASSUME NEW i \in (1 .. last_applied) \ Memberships
                   PROVE  Executed(i)' \/ i \in lost
        BY <2>1 DEF EveryLossExplained
      <4>1. CASE i = last_applied
        BY <1>0, <3>2, <4>1 DEF Executed
      <4>2. CASE i # last_applied
        <5>1. Executed(i) \/ i \in lost
          BY <2>1, <4>2 DEF GraphInv, EveryLossExplained, InFlight
        <5>2. ASSUME NEW k \in DOMAIN graph, graph[k] = i
              PROVE  Executed(i)'
          BY <1>0, <3>2, <5>2 DEF Executed
        <5> QED
          BY <5>1, <5>2 DEF Executed
      <4> QED
        BY <4>1, <4>2
    <3>6. \A k \in DOMAIN graph' : graph'[k] <= last_applied
      BY <1>0, <3>2, <3>3
    <3> QED
      BY <2>1, <3>4, <3>5, <3>6 DEF GraphInv
  <2> QED
    BY <2>2, <2>3
<1>5. CASE build_snapshot \/ build_snapshot_store \/ UNCHANGED vars
  BY <1>2, <1>5 DEF build_snapshot, build_snapshot_store, vars
<1>6. CASE install_applied
  <2>1. /\ op.at = "install" /\ op'.at = "install_membership" /\ op.meta \in Snapshot
        /\ last_applied' = op.meta.last_log_id /\ last_applied < last_applied'
        /\ lost' = lost \cup (((last_applied + 1) .. last_applied') \ Memberships)
        /\ UNCHANGED graph
    BY <1>6, OpFields DEF install_applied, InstallOps, MarkInv
  <2>2. last_applied' \in Nat
    BY <2>1 DEF Snapshot, Mark
  <2>3. EveryLossExplained'
    BY <1>0, <2>1, <2>2 DEF GraphInv, EveryLossExplained, Executed, InFlight
  <2> QED
    BY <1>0, <2>1, <2>2, <2>3 DEF GraphInv, AtMostOnceInOrder
<1>7. CASE install_membership
  BY <1>1, <1>7, OpFields DEF install_membership, InstallOps
<1>8. CASE install_current
  BY <1>1, <1>8 DEF install_current
<1>9. CASE Crash
  <2>1. op'.at = "recover" /\ UNCHANGED <<last_applied, graph>>
    BY <1>9 DEF Crash
  <2>2. EveryLossExplained'
    <3> SUFFICES ASSUME NEW i \in (1 .. last_applied) \ Memberships
                 PROVE  Executed(i)' \/ i \in lost'
      BY <2>1 DEF EveryLossExplained
    <3>1. CASE Executed(i)
      BY <2>1, <3>1 DEF Executed
    <3>2. CASE InFlight(i) \/ i \in lost
      BY <1>9, <3>2 DEF Crash, InFlight
    <3> QED
      BY <3>1, <3>2 DEF GraphInv, EveryLossExplained
  <2> QED
    BY <2>1, <2>2 DEF GraphInv, AtMostOnceInOrder
<1> QED
  BY StateMachineCalls, <1>1, <1>3, <1>4, <1>5, <1>6, <1>7, <1>8, <1>9

(* Every step keeps the stored membership and the snapshots' the one that  *)
(* goes with the applied marker.                                           *)
LEMMA MemStep ==
    ASSUME TypeInv, MarkInv, AppendInv, TodoInv, MemInv, [Next]_vars
    PROVE  MemInv'
<1> USE DEF Halfway
<1>0. last_applied \in Mark /\ last_applied \in Nat
  BY RaftAssumption DEF TypeInv, Mark
<1>1. CASE /\ op.at \notin Halfway /\ op'.at \notin Halfway
           /\ UNCHANGED <<last_applied, last_membership, graph, current_snapshot, builder,
                          history>>
  BY <1>1 DEF MemInv, MembershipCurrent, SnapshotConsistent, MembershipAt
<1>2. CASE UNCHANGED vars
  BY <1>2 DEF MemInv, MembershipCurrent, SnapshotConsistent, MembershipAt, vars
<1>3. CASE apply_mark
  <2>1. /\ op.at = "apply" /\ op'.at = "apply_payload"
        /\ last_applied' = last_applied + 1
        /\ blurred' = (blurred \/ builder # Idle)
        /\ UNCHANGED <<last_membership, current_snapshot, builder, torn>>
    BY <1>3, OpFields, NextEntry DEF apply_mark, EntryOps
  <2>2. last_applied' - 1 = last_applied
    BY <1>0, <2>1
  <2> QED
    BY <2>1, <2>2 DEF MemInv, MembershipCurrent, SnapshotConsistent, MembershipAt
<1>4. CASE apply_payload
  <2>1. /\ op.at = "apply_payload" /\ op'.at \in {"idle", "apply"}
        /\ Min(op.todo) = last_applied /\ last_applied \in Index
        /\ blurred' = (blurred \/ builder # Idle)
        /\ UNCHANGED <<last_applied, current_snapshot, builder, torn>>
    BY <1>4, ApplyingAt, NextEntry DEF apply_payload
  <2>2. ~torn => last_membership' = MembershipAt(last_applied)
    <3>1. CASE last_applied \in Memberships
      BY <1>4, <2>1, <3>1, MembershipAtFacts DEF apply_payload
    <3>2. CASE last_applied \notin Memberships
      BY <1>4, <2>1, <3>2, MembershipAtFacts DEF apply_payload, MemInv
    <3> QED
      BY <3>1, <3>2
  <2> QED
    BY <2>1, <2>2 DEF MemInv, MembershipCurrent, SnapshotConsistent, MembershipAt
<1>5. CASE build_snapshot
  BY <1>5 DEF build_snapshot, MemInv, MembershipCurrent, SnapshotConsistent, MembershipAt
<1>6. CASE build_snapshot_store
  <2>1. builder # Idle
    BY <1>6 DEF build_snapshot_store, Idle
  <2> QED
    BY <1>6, <2>1 DEF build_snapshot_store, MemInv, MembershipCurrent, SnapshotConsistent,
                      MembershipAt
<1>7. CASE install_applied
  <2>1. op'.at = "install_membership"
    BY <1>7, OpFields DEF install_applied, InstallOps
  <2> QED
    BY <1>7, <2>1 DEF install_applied, MemInv, MembershipCurrent, SnapshotConsistent,
                      MembershipAt
<1>8. CASE install_membership
  <2>1. /\ op.at \in InstallOps /\ op'.at = "install_current"
        /\ op.meta.last_membership = MembershipAt(last_applied)
    BY <1>8, OpFields DEF install_membership, InstallOps, MarkInv
  <2> QED
    BY <1>8, <2>1 DEF install_membership, MemInv, MembershipCurrent, SnapshotConsistent,
                      MembershipAt
<1>9. CASE install_current
  <2>1. /\ op.at = "install_current" /\ op'.at = "purge" /\ current_snapshot' = op.meta
        /\ op.meta.last_membership = MembershipAt(op.meta.last_log_id)
    BY <1>9 DEF install_current, InstallOps, MarkInv
  <2> QED
    BY <1>9, <2>1 DEF install_current, MemInv, MembershipCurrent, SnapshotConsistent,
                      MembershipAt
<1>10. CASE Crash
  <2>1. /\ op'.at = "recover" /\ builder' = Idle /\ current_snapshot' = NoSnapshot
        /\ UNCHANGED <<last_applied, last_membership>>
    BY <1>10 DEF Crash
  <2>2. SnapshotConsistent'
    <3>1. MembershipAt(0)' = 0
      BY MembershipAtFacts DEF MembershipAt
    <3> QED
      BY <2>1, <3>1 DEF SnapshotConsistent, NoSnapshot, MembershipAt
  <2>3. ASSUME ~torn'
        PROVE  last_membership = MembershipAt(last_applied)
    <3>1. ~torn /\ op.at # "install_membership"
      BY <1>10, <2>3 DEF Crash
    <3>2. CASE op.at = "apply_payload"
      <4>1. last_applied \in Index \ Memberships
        BY <1>10, <2>3, <3>2, NextEntry DEF Crash
      <4> QED
        BY <3>1, <3>2, <4>1, MembershipAtFacts DEF MemInv
    <3>3. CASE op.at # "apply_payload"
      BY <3>1, <3>3 DEF MemInv, MembershipCurrent
    <3> QED
      BY <3>2, <3>3
  <2> QED
    BY <2>1, <2>2, <2>3 DEF MemInv, MembershipCurrent, MembershipAt
<1> QED
  BY StateMachineCalls, <1>1, <1>2, <1>3, <1>4, <1>5, <1>6, <1>7, <1>8, <1>9, <1>10

--------------------------------------------------------------------------------
(* IndInv holds at the start ...                                           *)
LEMMA InitInd == Init => IndInv
<1> SUFFICES ASSUME Init PROVE IndInv
  OBVIOUS
<1> USE RaftAssumption DEF Init
<1>0. DOMAIN log = {} /\ log \in [DOMAIN log -> Terms] /\ DOMAIN graph = {}
  OBVIOUS
<1>1. TypeInv
  <2>1. op \in Ops /\ graph \in Seq(Index \ Memberships)
    BY OpsMembers
  <2>2. current_snapshot \in Snapshot
    BY DEF NoSnapshot, Snapshot, Mark
  <2>3. vote \in Terms /\ 0 \in Mark /\ 0 \in 0 .. MaxCrashes
    BY DEF Terms, Mark
  <2> QED
    BY <1>0, <2>1, <2>2, <2>3 DEF TypeInv
<1>2. MarkInv
  BY DEF MarkInv, NoSnapshot, Idle, InstallOps
<1>3. LogInv
  BY <1>0 DEF LogInv, FirstTerm, ChosenPrefix, AppendInv, DeleteInv, CommittedPresent, Idle
<1>4. TodoInv
  BY DEF TodoInv, Idle
<1>5. GraphInv
  BY <1>0 DEF GraphInv, AtMostOnceInOrder, EveryLossExplained
<1>6. MemInv
  BY MembershipAtFacts DEF MemInv, MembershipCurrent, SnapshotConsistent, Idle, NoSnapshot
<1> QED
  BY <1>1, <1>2, <1>3, <1>4, <1>5, <1>6 DEF IndInv

(* ... and every step keeps it.                                            *)
LEMMA StepInd == IndInv /\ [Next]_vars => IndInv'
<1> SUFFICES ASSUME IndInv, [Next]_vars PROVE IndInv'
  OBVIOUS
<1>1. TypeInv /\ MarkInv /\ LogInv /\ AppendInv /\ CommittedPresent /\ TodoInv /\ GraphInv /\ MemInv
  BY DEF IndInv, LogInv
<1>2. TypeInv'
  BY <1>1, TypeStep
<1> QED
  BY <1>1, <1>2, MarkStep, LogStep, TodoStep, GraphStep, MemStep DEF IndInv

(* Every behaviour keeps the inductive invariant.                          *)
LEMMA IndAlways == Spec => []IndInv
  BY InitInd, StepInd, PTL DEF Spec

(* The durable state of a replica stays in its types, and neither the      *)
(* purge nor the current snapshot overtakes the applied state.             *)
THEOREM TypeCorrect == Spec => []TypeOK
<1>1. IndInv => TypeOK
  BY RaftAssumption DEF IndInv, TypeInv, MarkInv, TypeOK, Mark, Snapshot
<1> QED
  BY <1>1, IndAlways, PTL

(* apply_to_state_machine executes no query twice and none out of order,   *)
(* whatever crashes and recoveries fall between its puts.                  *)
THEOREM AppliedOnceInOrder == Spec => []AtMostOnceInOrder
<1>1. IndInv => AtMostOnceInOrder
  BY DEF IndInv, GraphInv
<1> QED
  BY <1>1, IndAlways, PTL

(* A chosen entry of the log is never preceded, above the applied state,   *)
(* by a hole or by the entry of another leader.                            *)
THEOREM LogMatches == Spec => []LogMatching
<1>1. IndInv => LogMatching
  <2> SUFFICES ASSUME IndInv, NEW j \in DOMAIN log, Chosen(j),
                      NEW i \in (last_purged + 1) .. (j - 1), ~(i <= last_applied)
               PROVE  Chosen(i)
    BY DEF LogMatching
  <2>1. i \in Unapplied(j)
    BY RaftAssumption DEF IndInv, TypeInv, Mark, Index, Unapplied
  <2> QED
    BY <2>1 DEF IndInv, LogInv, ChosenPrefix
<1> QED
  BY <1>1, IndAlways, PTL

(* A restart finds every entry between the applied and the committed       *)
(* marker, as the cluster chose it.                                        *)
THEOREM CommittedStays == Spec => []CommittedPresent
<1>1. IndInv => CommittedPresent
  BY DEF IndInv, LogInv
<1> QED
  BY <1>1, IndAlways, PTL

(* Every query up to the applied marker was executed, unless a crash fell  *)
(* between the marker and the query or a snapshot stood for it.            *)
THEOREM LossExplained == Spec => []EveryLossExplained
<1>1. IndInv => EveryLossExplained
  BY DEF IndInv, GraphInv
<1> QED
  BY <1>1, IndAlways, PTL

(* The stored membership is the last one up to the applied marker, unless  *)
(* a crash fell between the two puts.                                      *)
THEOREM MembershipFollows == Spec => []MembershipCurrent
<1>1. IndInv => MembershipCurrent
  BY DEF IndInv, MemInv
<1> QED
  BY <1>1, IndAlways, PTL

(* build_snapshot and install_snapshot keep a pair of marker and           *)
(* membership that belong together, unless the two reads were disturbed.   *)
THEOREM SnapshotsConsistent == Spec => []SnapshotConsistent
<1>1. IndInv => SnapshotConsistent
  BY DEF IndInv, MemInv
<1> QED
  BY <1>1, IndAlways, PTL
==============================================================================
