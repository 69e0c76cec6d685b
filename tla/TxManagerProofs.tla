---------------------------- MODULE TxManagerProofs ----------------------------
(***************************************************************************)
(* Proofs about TxManager for any number of transactions, keys, failures   *)
(* and restarts, and any pruning threshold.                                *)
(***************************************************************************)
EXTENDS TxManager, TLAPS, WellFoundedInduction, NaturalsInduction

(* t has drawn the commit timestamp it is going to commit with.            *)
Stamped(t) == pc[t] \in {"stamped", "applied"} \/ Recorded(t)

(* Only an active transaction is inside commit, and the thread in the      *)
(* critical section is the one that holds the lock.                        *)
LockInv ==
    \A t \in Tx : /\ pc[t] # "idle" => state[t] = "Active"
                  /\ pc[t] \in Locked <=> lock = t

(* Every timestamp handed out is below the oracle's counter, and a commit  *)
(* in the critical section has drawn a later one than every recorded one.  *)
TimeInv ==
    /\ \A t \in Tx : /\ state[t] # "Unused" => snapshot_ts[t] < counter
                     /\ Stamped(t) => commit_ts[t] < counter
    /\ \A t, u \in Tx :
          Recorded(t) /\ pc[u] \in {"stamped", "applied"} => commit_ts[t] < commit_ts[u]

(* Some recorded commit is so much younger than t that pruning after it    *)
(* may have dropped t's entry.                                             *)
Prunable(t) == \E c \in Tx : Recorded(c) /\ commit_ts[t] + GC_THRESHOLD <= commit_ts[c]

(* A recorded commit that a running transaction did not see is still in    *)
(* committed_writes, unless it was prunable.                               *)
EntryInv ==
    \A t, u \in Tx :
        Recorded(t) /\ state[u] = "Active" /\ ~Recorded(u)
        => \/ [ts |-> commit_ts[t], keys |-> WriteKeys(t)] \in committed_writes
           \/ commit_ts[t] <= snapshot_ts[u]
           \/ Prunable(t)

(* A transaction in the critical section has passed the check against      *)
(* every recorded commit it overlaps with.                                 *)
CheckInv ==
    \A t, u \in Tx :
        Recorded(t) /\ pc[u] \in Locked /\ WriteKeys(t) \cap WriteKeys(u) # {}
        => commit_ts[t] <= snapshot_ts[u] \/ Prunable(t)

IndInv ==
    /\ TypeOK
    /\ LockInv
    /\ TimeInv
    /\ EntryInv
    /\ CheckInv
    /\ FirstCommitterWins

--------------------------------------------------------------------------------
(* What every proof below expands: the tuples of vars and the sets of      *)
(* control points.                                                         *)
USE DEF txVars, gcVars, bounds, Locked

(* The kinds of step Next can take, once for all case splits.              *)
LEMMA NextCases ==
    ASSUME [Next]_vars
    PROVE  \/ \E t \in Tx :
                 \/ begin(t)
                 \/ \E k \in Keys, v \in Values \cup {Tombstone} : put(t, k, v)
                 \/ rollback(t)
                 \/ commit_check(t)
                 \/ commit_stamp(t)
                 \/ commit_apply(t)
                 \/ commit_fail(t)
                 \/ commit_record(t)
                 \/ persist_load(t)
                 \/ persist_put(t)
           \/ snapshot
           \/ \E w \in Watermarks : \/ gc_committed_writes(w)
                                    \/ \E K \in SUBSET Keys : gc_before_scan(K, w)
           \/ gc_before_delete
           \/ Restart
           \/ UNCHANGED vars
  BY DEF Next, commit

(* put and delete leave a write set a function from some keys to values.   *)
LEMMA WriteSetAdd ==
    ASSUME NEW ws \in WriteSets, NEW k \in Keys, NEW v \in Values \cup {Tombstone}
    PROVE  [x \in DOMAIN ws \cup {k} |-> IF x = k THEN v ELSE ws[x]] \in WriteSets
<1>1. PICK D \in SUBSET Keys : ws \in [D -> Values \cup {Tombstone}]
  BY DEF WriteSets
<1>2. [x \in D \cup {k} |-> IF x = k THEN v ELSE ws[x]]
          \in [D \cup {k} -> Values \cup {Tombstone}]
  BY <1>1
<1>3. DOMAIN ws = D /\ D \cup {k} \in SUBSET Keys
  BY <1>1
<1> QED
  BY <1>2, <1>3 DEF WriteSets

(* A write set's keys are keys, and the batch it becomes is made of        *)
(* versions.                                                               *)
LEMMA BatchType ==
    ASSUME NEW s \in SUBSET Version, NEW ws \in WriteSets, NEW ts \in Nat
    PROVE  /\ DOMAIN ws \subseteq Keys
           /\ batch_write_at(s, ws, ts) \subseteq Version
<1>1. PICK D \in SUBSET Keys : ws \in [D -> Values \cup {Tombstone}]
  BY DEF WriteSets
<1>2. DOMAIN ws = D /\ \A k \in D : k \in Keys /\ ws[k] \in Values \cup {Tombstone}
  BY <1>1
<1>3. \A k \in D : [key |-> k, ts |-> ts, val |-> ws[k]] \in Version
  BY <1>2 DEF Version
<1> QED
  BY <1>2, <1>3 DEF batch_write_at

(* The empty write set is a write set.                                     *)
LEMMA NoWritesType == NoWrites \in WriteSets
<1>1. NoWrites \in [{} -> Values \cup {Tombstone}] /\ {} \in SUBSET Keys
  BY DEF NoWrites
<1> QED
  BY <1>1 DEF WriteSets

(* Every step keeps the variables in their types.                          *)
LEMMA TypeStep ==
    ASSUME TypeOK, [Next]_vars
    PROVE  TypeOK'
<1> USE TxAssumption DEF TypeOK
<1>1. ASSUME NEW t \in Tx, begin(t)
      PROVE  TypeOK'
  BY <1>1 DEF begin, SnapshotAtBegin
<1>2. ASSUME NEW t \in Tx, NEW k \in Keys, NEW v \in Values \cup {Tombstone},
             put(t, k, v)
      PROVE  TypeOK'
  <2>1. write_set[t] \in WriteSets
    OBVIOUS
  <2>2. write_set' \in [Tx -> WriteSets]
    BY <1>2, <2>1, WriteSetAdd DEF put, WriteKeys
  <2> QED
    BY <1>2, <2>2 DEF put
<1>3. ASSUME NEW t \in Tx, rollback(t)
      PROVE  TypeOK'
  BY <1>3 DEF rollback
<1>4. ASSUME NEW t \in Tx, commit_check(t)
      PROVE  TypeOK'
  BY <1>4 DEF commit_check
<1>5. ASSUME NEW t \in Tx, commit_stamp(t)
      PROVE  TypeOK'
  BY <1>5 DEF commit_stamp, CommitTs
<1>6. ASSUME NEW t \in Tx, commit_apply(t)
      PROVE  TypeOK'
  BY <1>6, BatchType DEF commit_apply
<1>7. ASSUME NEW t \in Tx, commit_fail(t)
      PROVE  TypeOK'
  BY <1>7 DEF commit_fail
<1>8. ASSUME NEW t \in Tx, commit_record(t)
      PROVE  TypeOK'
  <2>1. [ts |-> commit_ts[t], keys |-> WriteKeys(t)] \in Entry
    BY <1>8, BatchType DEF Entry, WriteKeys
  <2>2. committed_writes' \subseteq Entry
    BY <1>8, <2>1 DEF commit_record, RecordWrites, Prune
  <2> QED
    BY <1>8, <2>2 DEF commit_record
<1>9. ASSUME NEW t \in Tx, persist_load(t)
      PROVE  TypeOK'
  BY <1>9 DEF persist_load
<1>10. ASSUME NEW t \in Tx, persist_put(t)
       PROVE  TypeOK'
  BY <1>10 DEF persist_put
<1>11. CASE snapshot
  BY <1>11 DEF snapshot
<1>12. ASSUME NEW w \in Watermarks, gc_committed_writes(w)
       PROVE  TypeOK'
  BY <1>12 DEF gc_committed_writes
<1>13. ASSUME NEW w \in Watermarks, NEW K \in SUBSET Keys, gc_before_scan(K, w)
       PROVE  TypeOK'
  BY <1>13 DEF gc_before_scan, gc_candidates, Watermarks
<1>14. CASE gc_before_delete
  BY <1>14 DEF gc_before_delete
<1>15. CASE Restart
  BY <1>15, NoWritesType DEF Restart, RestartCounter
<1>16. CASE UNCHANGED vars
  BY <1>16 DEF vars
<1> QED
  BY NextCases, <1>1, <1>2, <1>3, <1>4, <1>5, <1>6, <1>7, <1>8, <1>9, <1>10,
     <1>11, <1>12, <1>13, <1>14, <1>15, <1>16

(* The initial state has the types.                                        *)
LEMMA TypeInit == Init => TypeOK
  BY NoWritesType, TxAssumption DEF Init, TypeOK

(* Type correctness of the transaction manager: in particular no           *)
(* snapshot timestamp is ever negative, no lock owner is stale and no      *)
(* read-write set leaves the keys and values of the store.                 *)
THEOREM TypeCorrect == Spec => []TypeOK
<1>1. TypeOK /\ [Next]_vars => TypeOK'
  BY TypeStep
<1> QED
  BY <1>1, TypeInit, PTL DEF Spec

--------------------------------------------------------------------------------
(* A step that moves nobody into or out of a phase of commit, draws        *)
(* timestamps at most and leaves what the conflict check reads alone       *)
(* keeps the inductive invariant.                                          *)
LEMMA FrameStep ==
    ASSUME IndInv, TypeOK', counter <= counter',
           UNCHANGED <<committed_writes, lock, state, snapshot_ts, write_set,
                       commit_ts>>,
           \A t \in Tx :
               /\ pc'[t] = "idle" <=> pc[t] = "idle"
               /\ pc'[t] \in Locked <=> pc[t] \in Locked
               /\ pc'[t] \in {"stamped", "applied"} <=> pc[t] \in {"stamped", "applied"}
               /\ pc'[t] \in {"persist", "put"} <=> pc[t] \in {"persist", "put"}
    PROVE  IndInv'
<1> USE DEF IndInv
<1>1. \A t \in Tx : /\ Recorded(t)' <=> Recorded(t)
                    /\ Stamped(t)' <=> Stamped(t)
                    /\ WriteKeys(t)' = WriteKeys(t)
  BY DEF Recorded, Stamped, WriteKeys
<1>2. \A t \in Tx : Prunable(t)' <=> Prunable(t)
  BY <1>1 DEF Prunable
<1>3. LockInv'
  BY DEF LockInv
<1>4. TimeInv'
  BY <1>1 DEF TimeInv, TypeOK
<1>5. EntryInv'
  BY <1>1, <1>2 DEF EntryInv
<1>6. CheckInv'
  BY <1>1, <1>2 DEF CheckInv
<1>7. FirstCommitterWins'
  BY <1>1 DEF FirstCommitterWins
<1> QED
  BY <1>3, <1>4, <1>5, <1>6, <1>7

(* A step in which handle x leaves its phase without committing (begin,    *)
(* rollback, a failed batch) or changes its write set before commit keeps  *)
(* every fact about recorded commits.                                      *)
LEMMA OutsideStep ==
    ASSUME IndInv, TypeOK', counter <= counter',
           NEW x \in Tx, ~Recorded(x), ~Recorded(x)', pc'[x] = "idle",
           UNCHANGED <<committed_writes, commit_ts>>,
           lock = x => lock' = NoTx,
           lock # x => lock' = lock,
           state'[x] # "Unused" => snapshot_ts'[x] < counter',
           state'[x] = "Active" =>
               \/ state[x] = "Active" /\ snapshot_ts'[x] = snapshot_ts[x]
               \/ snapshot_ts'[x] = counter - 1,
           \A t \in Tx \ {x} : /\ state'[t] = state[t]
                               /\ pc'[t] = pc[t]
                               /\ snapshot_ts'[t] = snapshot_ts[t]
                               /\ write_set'[t] = write_set[t]
    PROVE  IndInv'
<1> USE TxAssumption DEF IndInv
<1>1. \A t \in Tx : Recorded(t)' <=> Recorded(t)
  BY DEF Recorded
<1>2. \A t \in Tx : Recorded(t) => t # x /\ WriteKeys(t)' = WriteKeys(t)
  BY DEF WriteKeys
<1>3. \A t \in Tx : Prunable(t)' <=> Prunable(t)
  BY <1>1 DEF Prunable
<1>4. LockInv'
  BY DEF LockInv, TypeOK
<1>5. TimeInv'
  BY <1>1 DEF TimeInv, TypeOK, Stamped
<1>6. EntryInv'
  <2> SUFFICES ASSUME NEW t \in Tx, NEW u \in Tx,
                      Recorded(t), state'[u] = "Active", ~Recorded(u),
                      ~Prunable(t), ~(commit_ts[t] <= snapshot_ts'[u])
               PROVE  [ts |-> commit_ts[t], keys |-> WriteKeys(t)] \in committed_writes
    BY <1>1, <1>2, <1>3 DEF EntryInv
  <2>1. state[u] = "Active" /\ snapshot_ts'[u] = snapshot_ts[u]
    <3>1. commit_ts[t] <= counter - 1
      BY DEF TimeInv, Stamped, TypeOK
    <3> QED
      BY <3>1
  <2> QED
    BY <2>1 DEF EntryInv
<1>7. CheckInv'
  BY <1>1, <1>2, <1>3 DEF CheckInv, WriteKeys
<1>8. FirstCommitterWins'
  BY <1>1, <1>2 DEF FirstCommitterWins
<1> QED
  BY <1>4, <1>5, <1>6, <1>7, <1>8

(* commit_check: the entries it compares with are all the commits the      *)
(* transaction must know of, so passing the check means no overlap with a  *)
(* commit outside its snapshot.                                            *)
LEMMA CheckStep ==
    ASSUME IndInv, TypeOK', NEW x \in Tx, commit_check(x)
    PROVE  IndInv'
<1> USE TxAssumption DEF IndInv, commit_check, Usable, LockFree
<1>1. \A t \in Tx : /\ Recorded(t)' <=> Recorded(t)
                    /\ Stamped(t)' <=> Stamped(t)
                    /\ WriteKeys(t)' = WriteKeys(t)
  BY DEF Recorded, Stamped, WriteKeys, TypeOK
<1>2. \A t \in Tx : Prunable(t)' <=> Prunable(t)
  BY <1>1 DEF Prunable
<1>3. LockInv'
  BY DEF LockInv, TypeOK
<1>4. TimeInv'
  BY <1>1 DEF TimeInv, TypeOK
<1>5. EntryInv'
  BY <1>1, <1>2 DEF EntryInv
<1>6. CheckInv'
  <2> SUFFICES ASSUME NEW t \in Tx, NEW u \in Tx,
                      Recorded(t), pc'[u] \in Locked,
                      WriteKeys(t) \cap WriteKeys(u) # {}
               PROVE  commit_ts[t] <= snapshot_ts[u] \/ Prunable(t)
    BY <1>1, <1>2 DEF CheckInv
  <2>1. CASE u # x
    BY <2>1 DEF CheckInv, TypeOK
  <2>2. CASE u = x
    <3>1. ~Recorded(x)
      BY DEF Recorded
    <3>2. CASE [ts |-> commit_ts[t], keys |-> WriteKeys(t)] \in committed_writes
      BY <2>2, <3>2 DEF Conflict, TypeOK
    <3> QED
      BY <2>2, <3>1, <3>2 DEF EntryInv
  <2> QED
    BY <2>1, <2>2
<1>7. FirstCommitterWins'
  BY <1>1 DEF FirstCommitterWins
<1> QED
  BY <1>3, <1>4, <1>5, <1>6, <1>7

(* commit_stamp: the timestamp is drawn while the lock is held, so it is   *)
(* later than every recorded one.                                          *)
LEMMA StampStep ==
    ASSUME IndInv, TypeOK', NEW x \in Tx, commit_stamp(x)
    PROVE  IndInv'
<1> USE TxAssumption DEF IndInv, commit_stamp, CommitTs
<1>1. ~Recorded(x) /\ lock = x
  BY DEF LockInv, Recorded
<1>2. \A t \in Tx \ {x} : pc'[t] = pc[t] /\ commit_ts'[t] = commit_ts[t]
  BY DEF TypeOK
<1>3. \A t \in Tx : /\ Recorded(t)' <=> Recorded(t)
                    /\ WriteKeys(t)' = WriteKeys(t)
  BY <1>1, <1>2 DEF Recorded, WriteKeys, TypeOK
<1>4. \A t \in Tx : Recorded(t) => commit_ts'[t] = commit_ts[t]
  BY <1>1, <1>2
<1>5. \A t \in Tx : Recorded(t) => (Prunable(t)' <=> Prunable(t))
  BY <1>3, <1>4 DEF Prunable
<1>6. LockInv'
  BY DEF LockInv, TypeOK
<1>7. TimeInv'
  <2>1. commit_ts'[x] = counter /\ counter' = counter + 1 /\ counter \in Nat
    BY DEF TypeOK
  <2>2. \A t \in Tx : /\ state'[t] # "Unused" => snapshot_ts'[t] < counter'
                      /\ Stamped(t)' => commit_ts'[t] < counter'
    BY <1>2, <1>3, <2>1 DEF TimeInv, TypeOK, Stamped
  <2>3. ASSUME NEW t \in Tx, NEW u \in Tx, Recorded(t), pc'[u] \in {"stamped", "applied"}
        PROVE  commit_ts'[t] < commit_ts'[u]
    <3>1. u = x
      BY <1>1, <1>2, <2>3 DEF LockInv
    <3>2. commit_ts[t] < counter
      BY <2>3 DEF TimeInv, Stamped
    <3> QED
      BY <1>4, <2>1, <2>3, <3>1, <3>2
  <2> QED
    BY <1>3, <2>2, <2>3 DEF TimeInv
<1>8. EntryInv'
  BY <1>3, <1>4, <1>5 DEF EntryInv
<1>9. CheckInv'
  <2>1. \A u \in Tx : pc'[u] \in Locked => pc[u] \in Locked
    BY <1>2
  <2> QED
    BY <1>3, <1>4, <1>5, <2>1 DEF CheckInv
<1>10. FirstCommitterWins'
  BY <1>3, <1>4 DEF FirstCommitterWins
<1> QED
  BY <1>6, <1>7, <1>8, <1>9, <1>10

(* RecordWrites keeps the recorder's own entry, and every other entry that *)
(* is less than GC_THRESHOLD timestamps older.                             *)
LEMMA RecordKeeps ==
    ASSUME TypeOK, NEW x \in Tx
    PROVE  /\ [ts |-> commit_ts[x], keys |-> WriteKeys(x)] \in RecordWrites(x)
           /\ \A e \in committed_writes :
                 \/ e.ts = commit_ts[x]
                 \/ e.ts + GC_THRESHOLD <= commit_ts[x]
                 \/ e \in RecordWrites(x)
<1> DEFINE own == [ts |-> commit_ts[x], keys |-> WriteKeys(x)]
           all == {e \in committed_writes : e.ts # commit_ts[x]} \cup {own}
<1>1. commit_ts[x] \in Nat /\ GC_THRESHOLD \in Nat \ {0}
  BY TxAssumption DEF TypeOK
<1>2. own.ts > commit_ts[x] - GC_THRESHOLD
  BY <1>1
<1>3. \A e \in committed_writes : e.ts \in Nat
  BY DEF TypeOK, Entry
<1>4. \/ RecordWrites(x) = all
      \/ RecordWrites(x) = {e \in all : e.ts > commit_ts[x] - GC_THRESHOLD}
  BY DEF RecordWrites, Prune
<1> QED
  BY <1>1, <1>2, <1>3, <1>4

(* commit_record: a commit becomes visible to later checks in the same     *)
(* step in which it stops being protected by the lock.                     *)
LEMMA RecordStep ==
    ASSUME IndInv, TypeOK', NEW x \in Tx, commit_record(x)
    PROVE  IndInv'
<1> USE TxAssumption DEF IndInv
<1>1. /\ pc[x] = "applied" /\ state[x] = "Active" /\ lock = x /\ lock' = NoTx
      /\ ~Recorded(x)
  BY DEF commit_record, LockInv, Recorded
<1>2. \/ pc'[x] = "persist" /\ state'[x] = "Active"
      \/ pc'[x] = "idle" /\ state'[x] = "Committed"
  BY <1>1 DEF commit_record, TypeOK
<1>3. \A t \in Tx \ {x} : pc'[t] = pc[t] /\ state'[t] = state[t]
  BY DEF commit_record, TypeOK
<1>4. /\ UNCHANGED <<counter, snapshot_ts, write_set, commit_ts>>
      /\ committed_writes' = RecordWrites(x)
  BY DEF commit_record
<1>5. \A t \in Tx : /\ Recorded(t)' <=> Recorded(t) \/ t = x
                    /\ WriteKeys(t)' = WriteKeys(t)
  BY <1>1, <1>2, <1>3, <1>4 DEF Recorded, WriteKeys
<1>6. \A t \in Tx : pc'[t] \notin Locked
  BY <1>1, <1>2, <1>3 DEF LockInv
<1>7. \A t \in Tx : Recorded(t) => commit_ts[t] < commit_ts[x]
  BY <1>1 DEF TimeInv
<1>8. LockInv'
  BY <1>1, <1>2, <1>3, <1>6 DEF LockInv
<1>9. TimeInv'
  <2>1. \A t \in Tx : Stamped(t)' => Stamped(t)
    BY <1>1, <1>5, <1>6 DEF Stamped
  <2>2. \A t \in Tx : state'[t] # "Unused" => state[t] # "Unused"
    BY <1>1, <1>3
  <2> QED
    BY <1>4, <1>6, <2>1, <2>2 DEF TimeInv
<1>10. EntryInv'
  <2> SUFFICES ASSUME NEW t \in Tx, NEW u \in Tx,
                      Recorded(t)', state'[u] = "Active", ~Recorded(u)',
                      ~(commit_ts[t] <= snapshot_ts[u]), ~Prunable(t)'
               PROVE  [ts |-> commit_ts[t], keys |-> WriteKeys(t)] \in RecordWrites(x)
    BY <1>4, <1>5 DEF EntryInv
  <2>1. CASE t = x
    BY <2>1, RecordKeeps
  <2>2. CASE t # x
    <3>1. Recorded(t) /\ commit_ts[t] < commit_ts[x]
      BY <1>5, <1>7, <2>2
    <3>2. u # x /\ ~Recorded(u) /\ state[u] = "Active"
      BY <1>3, <1>5
    <3>3. ~Prunable(t) /\ ~(commit_ts[t] + GC_THRESHOLD <= commit_ts[x])
      BY <1>4, <1>5 DEF Prunable
    <3>4. [ts |-> commit_ts[t], keys |-> WriteKeys(t)] \in committed_writes
      BY <3>1, <3>2, <3>3 DEF EntryInv
    <3>5. commit_ts[t] # commit_ts[x]
      BY <3>1 DEF TypeOK
    <3> QED
      BY <3>3, <3>4, <3>5, RecordKeeps
  <2> QED
    BY <2>1, <2>2
<1>11. CheckInv'
  BY <1>6 DEF CheckInv
<1>12. FirstCommitterWins'
  <2> SUFFICES ASSUME NEW t \in Tx, NEW u \in Tx,
                      Recorded(t) \/ t = x, Recorded(u) \/ u = x,
                      WriteKeys(t) \cap WriteKeys(u) # {},
                      commit_ts[t] < commit_ts[u],
                      ~(commit_ts[t] <= snapshot_ts[u])
               PROVE  commit_ts[t] + GC_THRESHOLD < commit_ts[u]
    BY <1>4, <1>5 DEF FirstCommitterWins
  <2>t. commit_ts \in [Tx -> Nat] /\ GC_THRESHOLD \in Nat
    BY DEF TypeOK
  <2>1. Recorded(t)
    BY <1>7, <2>t
  <2>2. CASE u = x
    <3>1. Prunable(t)
      BY <1>1, <2>1, <2>2 DEF CheckInv
    <3>2. PICK c \in Tx : Recorded(c) /\ commit_ts[t] + GC_THRESHOLD <= commit_ts[c]
      BY <3>1 DEF Prunable
    <3> QED
      BY <1>7, <2>t, <2>2, <3>2
  <2>3. CASE Recorded(u)
    BY <2>1, <2>3 DEF FirstCommitterWins
  <2> QED
    BY <2>2, <2>3
<1> QED
  BY <1>8, <1>9, <1>10, <1>11, <1>12

(* persist_put: the commit is finished; it was recorded before and stays   *)
(* so.                                                                     *)
LEMMA FinishStep ==
    ASSUME IndInv, TypeOK', NEW x \in Tx, persist_put(x)
    PROVE  IndInv'
<1> USE TxAssumption DEF IndInv
<1>1. /\ pc[x] = "put" /\ pc'[x] = "idle" /\ state'[x] = "Committed"
      /\ state[x] = "Active" /\ lock # x
  BY DEF persist_put, LockInv, TypeOK
<1>2. \A t \in Tx \ {x} : pc'[t] = pc[t] /\ state'[t] = state[t]
  BY DEF persist_put, TypeOK
<1>3. UNCHANGED <<counter, committed_writes, lock, snapshot_ts, write_set, commit_ts>>
  BY DEF persist_put
<1>4. \A t \in Tx : /\ Recorded(t)' <=> Recorded(t)
                    /\ Stamped(t)' <=> Stamped(t)
                    /\ WriteKeys(t)' = WriteKeys(t)
  BY <1>1, <1>2, <1>3 DEF Recorded, Stamped, WriteKeys
<1>5. \A t \in Tx : Prunable(t)' <=> Prunable(t)
  BY <1>3, <1>4 DEF Prunable
<1>6. LockInv'
  BY <1>1, <1>2, <1>3 DEF LockInv
<1>7. TimeInv'
  BY <1>1, <1>2, <1>3, <1>4 DEF TimeInv
<1>8. EntryInv'
  BY <1>1, <1>2, <1>3, <1>4, <1>5 DEF EntryInv
<1>9. CheckInv'
  BY <1>1, <1>2, <1>3, <1>4, <1>5 DEF CheckInv
<1>10. FirstCommitterWins'
  BY <1>3, <1>4 DEF FirstCommitterWins
<1> QED
  BY <1>6, <1>7, <1>8, <1>9, <1>10

--------------------------------------------------------------------------------
(* Every step keeps the inductive invariant.                               *)
LEMMA IndStep ==
    ASSUME IndInv, [Next]_vars
    PROVE  IndInv'
<1>t. TypeOK /\ TypeOK'
  BY TypeStep DEF IndInv
<1> USE TxAssumption
<1>1. ASSUME NEW t \in Tx, begin(t)
      PROVE  IndInv'
  <2>1. pc[t] = "idle" /\ state[t] = "Unused"
    BY <1>1 DEF begin, IndInv, LockInv, TypeOK
  <2>2. ~Recorded(t) /\ ~Recorded(t)' /\ lock # t
    BY <1>1, <1>t, <2>1 DEF begin, Recorded, TypeOK, IndInv, LockInv
  <2> QED
    BY <1>1, <1>t, <2>1, <2>2, OutsideStep DEF begin, SnapshotAtBegin, TypeOK
<1>2. ASSUME NEW t \in Tx, NEW k \in Keys, NEW v \in Values \cup {Tombstone},
             put(t, k, v)
      PROVE  IndInv'
  <2>1. ~Recorded(t) /\ ~Recorded(t)' /\ lock # t
    BY <1>2, <1>t DEF put, Usable, Recorded, TypeOK, IndInv, LockInv
  <2>2. snapshot_ts[t] < counter
    BY <1>2 DEF put, Usable, IndInv, TimeInv
  <2>3. \A u \in Tx \ {t} : write_set'[u] = write_set[u]
    BY <1>2, <1>t DEF put, TypeOK
  <2> QED
    BY <1>2, <1>t, <2>1, <2>2, <2>3, OutsideStep DEF put, Usable, TypeOK
<1>3. ASSUME NEW t \in Tx, rollback(t)
      PROVE  IndInv'
  <2>1. ~Recorded(t) /\ ~Recorded(t)' /\ lock # t
    BY <1>3, <1>t DEF rollback, Usable, Recorded, TypeOK, IndInv, LockInv
  <2>2. snapshot_ts[t] < counter
    BY <1>3 DEF rollback, Usable, IndInv, TimeInv
  <2> QED
    BY <1>3, <1>t, <2>1, <2>2, OutsideStep DEF rollback, Usable, TypeOK
<1>4. ASSUME NEW t \in Tx, commit_check(t)
      PROVE  IndInv'
  BY <1>4, <1>t, CheckStep
<1>5. ASSUME NEW t \in Tx, commit_stamp(t)
      PROVE  IndInv'
  BY <1>5, <1>t, StampStep
<1>6. ASSUME NEW t \in Tx, commit_apply(t)
      PROVE  IndInv'
  BY <1>6, <1>t, FrameStep DEF commit_apply, TypeOK
<1>7. ASSUME NEW t \in Tx, commit_fail(t)
      PROVE  IndInv'
  <2>1. state[t] = "Active" /\ lock = t
    BY <1>7 DEF commit_fail, IndInv, LockInv
  <2>2. ~Recorded(t) /\ ~Recorded(t)'
    BY <1>7, <1>t, <2>1 DEF commit_fail, Recorded, TypeOK
  <2>3. snapshot_ts[t] < counter
    BY <2>1 DEF IndInv, TimeInv
  <2> QED
    BY <1>7, <1>t, <2>1, <2>2, <2>3, OutsideStep DEF commit_fail, TypeOK
<1>8. ASSUME NEW t \in Tx, commit_record(t)
      PROVE  IndInv'
  BY <1>8, <1>t, RecordStep
<1>9. ASSUME NEW t \in Tx, persist_load(t)
      PROVE  IndInv'
  BY <1>9, <1>t, FrameStep DEF persist_load, TypeOK
<1>10. ASSUME NEW t \in Tx, persist_put(t)
       PROVE  IndInv'
  BY <1>10, <1>t, FinishStep
<1>11. CASE snapshot
  BY <1>11, <1>t, FrameStep DEF snapshot, TypeOK
<1>12. ASSUME NEW w \in Watermarks, gc_committed_writes(w)
       PROVE  IndInv'
  <2> USE DEF IndInv
  <2>1. \A t \in Tx : /\ Recorded(t)' <=> Recorded(t)
                      /\ Stamped(t)' <=> Stamped(t)
                      /\ WriteKeys(t)' = WriteKeys(t)
    BY <1>12 DEF gc_committed_writes, Recorded, Stamped, WriteKeys
  <2>2. \A t \in Tx : Prunable(t)' <=> Prunable(t)
    BY <1>12, <2>1 DEF gc_committed_writes, Prunable
  <2>3. LockInv' /\ TimeInv'
    BY <1>12, <2>1 DEF gc_committed_writes, LockInv, TimeInv
  <2>4. EntryInv'
    <3> SUFFICES ASSUME NEW t \in Tx, NEW u \in Tx,
                        Recorded(t), state[u] = "Active", ~Recorded(u),
                        ~(commit_ts[t] <= snapshot_ts[u]), ~Prunable(t)
                 PROVE  [ts |-> commit_ts[t], keys |-> WriteKeys(t)] \in committed_writes'
      BY <1>12, <2>1, <2>2 DEF gc_committed_writes, EntryInv
    <3>1. [ts |-> commit_ts[t], keys |-> WriteKeys(t)] \in committed_writes
      BY DEF EntryInv
    <3>2. w \in Nat /\ w <= snapshot_ts[u]
      BY <1>t DEF Watermarks, TypeOK
    <3>3. commit_ts[t] > w
      BY <1>t, <3>2 DEF TypeOK
    <3> QED
      BY <1>12, <3>1, <3>3 DEF gc_committed_writes
  <2>5. CheckInv' /\ FirstCommitterWins'
    BY <1>12, <2>1, <2>2 DEF gc_committed_writes, CheckInv, FirstCommitterWins
  <2> QED
    BY <1>t, <2>3, <2>4, <2>5
<1>13. ASSUME NEW w \in Watermarks, NEW K \in SUBSET Keys, gc_before_scan(K, w)
       PROVE  IndInv'
  BY <1>13, <1>t, FrameStep DEF gc_before_scan, TypeOK
<1>14. CASE gc_before_delete
  BY <1>14, <1>t, FrameStep DEF gc_before_delete, TypeOK
<1>15. CASE Restart
  <2>1. \A t \in Tx : /\ ~Recorded(t)' /\ ~Stamped(t)'
                      /\ pc'[t] = "idle" /\ state'[t] = "Unused"
    BY <1>15 DEF Restart, Recorded, Stamped
  <2>2. LockInv'
    BY <1>15, <2>1 DEF Restart, LockInv
  <2> QED
    BY <1>t, <2>1, <2>2
       DEF IndInv, TimeInv, EntryInv, CheckInv, FirstCommitterWins
<1>16. CASE UNCHANGED vars
  BY <1>16, <1>t, FrameStep DEF vars, TypeOK
<1> QED
  BY NextCases, <1>1, <1>2, <1>3, <1>4, <1>5, <1>6, <1>7, <1>8, <1>9, <1>10,
     <1>11, <1>12, <1>13, <1>14, <1>15, <1>16

(* The initial state satisfies the inductive invariant: nothing is         *)
(* recorded and nobody is inside commit.                                   *)
LEMMA IndInit == Init => IndInv
<1> SUFFICES ASSUME Init PROVE IndInv
  OBVIOUS
<1>1. \A t \in Tx : /\ ~Recorded(t) /\ ~Stamped(t)
                    /\ pc[t] = "idle" /\ state[t] = "Unused"
  BY DEF Init, Recorded, Stamped
<1>2. LockInv
  BY <1>1, TxAssumption DEF Init, LockInv
<1> QED
  BY TypeInit, <1>1, <1>2
     DEF IndInv, TimeInv, EntryInv, CheckInv, FirstCommitterWins

(* The inductive invariant holds in every reachable state.                 *)
LEMMA IndInvariant == Spec => []IndInv
<1>1. IndInv /\ [Next]_vars => IndInv'
  BY IndStep
<1> QED
  BY <1>1, IndInit, PTL DEF Spec

(* First committer wins (the conflict check of commit in mvcc.rs, under    *)
(* the lock): of two committed transactions that wrote a common key, the   *)
(* later one's snapshot is at or above the earlier one's commit timestamp, *)
(* unless the earlier one is more than GC_THRESHOLD timestamps older; for  *)
(* any number of threads and whatever batches fail, collections run and    *)
(* processes restart meanwhile.                                            *)
THEOREM ConflictsDetected == Spec => []FirstCommitterWins
<1>1. IndInv => FirstCommitterWins
  BY DEF IndInv
<1> QED
  BY <1>1, IndInvariant, PTL

--------------------------------------------------------------------------------
(* A key has one version per timestamp: a batch replaces the one a process *)
(* before the restart may have written under the same timestamp.           *)
OneVersion == \A r, q \in store : r.key = q.key /\ r.ts = q.ts => r = q

(* Until gc_before deletes what it collected, every version of the batch   *)
(* is superseded at or below the watermark, and nobody reads below it.     *)
BatchInv ==
    gcBatch # {} =>
        /\ \A d \in gcBatch : \E q \in store : q.key = d.key /\ q.ts > d.ts /\ q.ts <= gcMark
        /\ gcMark < counter
        /\ \A t \in Tx : state[t] = "Active" => gcMark <= snapshot_ts[t]
        /\ snapTs # -1 => gcMark <= snapTs

(* A commit on its way into the store that a running transaction's         *)
(* snapshot covers was on its way when that transaction began.             *)
PendingInv ==
    \A t, u \in Tx :
        pc[u] = "stamped" /\ state[t] = "Active" /\ commit_ts[u] <= snapshot_ts[t] =>
            u \in pending[t]

(* A commit is visible to running transactions it precedes, and to the     *)
(* next one to begin.                                                      *)
VisibleAt(t, s) ==
    \A k \in WriteKeys(t) : \E r \in store : r.key = k /\ commit_ts[t] <= r.ts /\ r.ts <= s

VisibleInv ==
    \A t \in Tx : Applied(t) =>
        /\ VisibleAt(t, counter - 1)
        /\ \A u \in Tx : state[u] = "Active" /\ commit_ts[t] <= snapshot_ts[u] =>
              VisibleAt(t, snapshot_ts[u])

ReadInv == OneVersion /\ BatchInv /\ PendingInv /\ VisibleInv

(* A set of naturals that is not empty has a least element.                *)
LEMMA NatMin ==
    ASSUME NEW S \in SUBSET Nat, S # {}
    PROVE  \E x \in S : \A y \in S : x <= y
<1>1. PICK x \in S : \A y \in S : ~(<<y, x>> \in OpToRel(<, Nat))
  BY NatLessThanWellFounded, WFMin
<1>2. \A y \in Nat : y < x => <<y, x>> \in OpToRel(<, Nat)
  BY Zenon DEF OpToRel
<1>3. \A y \in S : ~(y < x)
  BY <1>1, <1>2, Zenon
<1> QED
  BY <1>3, SMT

(* Of the versions a snapshot may see, if any, one is the newest.          *)
LEMMA NewestExists ==
    ASSUME NEW S \in SUBSET Version, NEW k, NEW ts \in Nat, VersionsAt(S, k, ts) # {}
    PROVE  \E r \in VersionsAt(S, k, ts) : NewestIn(VersionsAt(S, k, ts), r)
<1> DEFINE vs == VersionsAt(S, k, ts)
           D == {ts - r.ts : r \in vs}
<1>1. \A r \in vs : r.ts \in Nat /\ r.ts <= ts
  BY DEF VersionsAt, Version
<1>2. PICK v \in vs : TRUE
  OBVIOUS
<1> HIDE DEF vs
<1>3. ts - v.ts \in D
  BY <1>2
<1>4. D \in SUBSET Nat /\ D # {}
  BY <1>1, <1>3
<1>5. PICK m \in D : \A d \in D : m <= d
  BY <1>4, NatMin
<1>6. PICK r \in vs : m = ts - r.ts
  BY <1>5
<1>7. \A q \in vs : q.ts <= r.ts
  <2> SUFFICES ASSUME NEW q \in vs
               PROVE  q.ts <= r.ts
    OBVIOUS
  <2>1. m <= ts - q.ts
    BY <1>5
  <2> QED
    BY <1>1, <1>6, <2>1
<1> QED
  BY <1>6, <1>7 DEF NewestIn, vs

(* get_at answers with the value of that newest version, which is the only *)
(* one of its timestamp.                                                   *)
LEMMA ReadIs ==
    ASSUME NEW S \in SUBSET Version, NEW k, NEW ts \in Nat,
           \A r, q \in S : r.key = q.key /\ r.ts = q.ts => r = q,
           NEW r, NewestIn(VersionsAt(S, k, ts), r)
    PROVE  get_at(S, k, ts) = IF r.val = Tombstone THEN Nothing ELSE r.val
<1> DEFINE vs == VersionsAt(S, k, ts)
           newest == CHOOSE q \in vs : NewestIn(vs, q)
<1>1. r \in vs /\ \A q \in vs : q.ts <= r.ts
  BY DEF NewestIn
<1>2. newest \in vs /\ NewestIn(vs, newest)
  BY <1>1
<1>3. \A q \in vs : q \in S /\ q.key = k /\ q.ts \in Nat
  BY DEF VersionsAt, Version
<1> HIDE DEF vs, newest
<1>4. newest.ts <= r.ts /\ r.ts <= newest.ts
  BY <1>1, <1>2 DEF NewestIn
<1>5. newest = r
  BY <1>1, <1>2, <1>3, <1>4
<1> QED
  BY <1>1, <1>5 DEF get_at, vs, newest

(* A write batch keeps or replaces what is there, puts a version for every *)
(* key of the write set, and touches its own timestamp only.               *)
LEMMA BatchFacts ==
    ASSUME NEW S, NEW ws, NEW c, NEW T, T = batch_write_at(S, ws, c)
    PROVE  /\ \A r \in S : \E q \in T : q.key = r.key /\ q.ts = r.ts
           /\ \A k \in DOMAIN ws : \E q \in T : q.key = k /\ q.ts = c
           /\ \A r : r.ts # c => (r \in T <=> r \in S)
           /\ (\A r, q \in S : r.key = q.key /\ r.ts = q.ts => r = q) =>
                 (\A r, q \in T : r.key = q.key /\ r.ts = q.ts => r = q)
<1> DEFINE V(k) == [key |-> k, ts |-> c, val |-> ws[k]]
           old == {r \in S : ~(r.key \in DOMAIN ws /\ r.ts = c)}
<1>1. T = old \cup {V(k) : k \in DOMAIN ws}
  BY DEF batch_write_at
<1>2. \A k \in DOMAIN ws : V(k) \in T /\ V(k).key = k /\ V(k).ts = c
  BY <1>1
<1>3. \A r \in T : r \in old \/ \E k \in DOMAIN ws : r = V(k)
  BY <1>1
<1>4. ASSUME NEW r \in S, ~(r.key \in DOMAIN ws /\ r.ts = c)
      PROVE  r \in old
  BY <1>4
<1>5. \A r \in old : r \in T /\ r \in S /\ ~(r.key \in DOMAIN ws /\ r.ts = c)
  BY <1>1
<1> HIDE DEF V, old
<1>6. \A r \in S : \E q \in T : q.key = r.key /\ q.ts = r.ts
  BY <1>2, <1>4, <1>5
<1>7. \A r : r.ts # c => (r \in T <=> r \in S)
  BY <1>2, <1>3, <1>4, <1>5
<1>8. ASSUME \A r, q \in S : r.key = q.key /\ r.ts = q.ts => r = q,
             NEW r \in T, NEW q \in T, r.key = q.key, r.ts = q.ts
      PROVE  r = q
  BY <1>2, <1>3, <1>5, <1>8
<1> QED
  BY <1>2, <1>6, <1>7, <1>8

(* Versions above the snapshot do not matter to a read.                    *)
LEMMA LaterBatch ==
    ASSUME NEW S \in SUBSET Version, NEW ws \in WriteSets, NEW c \in Nat, NEW k,
           NEW ts \in Int, c > ts
    PROVE  get_at(batch_write_at(S, ws, c), k, ts) = get_at(S, k, ts)
<1> DEFINE T == batch_write_at(S, ws, c)
<1>1. \A r : r.ts # c => (r \in T <=> r \in S)
  BY BatchFacts
<1>2. T \subseteq Version
  BY BatchType
<1> HIDE DEF T
<1>3. \A r \in T \cup S : r.ts \in Nat
  BY <1>2 DEF Version
<1>4. VersionsAt(T, k, ts) = VersionsAt(S, k, ts)
  BY <1>1, <1>3 DEF VersionsAt
<1> QED
  BY <1>4 DEF get_at, T

--------------------------------------------------------------------------------
(* Deleting the batch of gc_before removes no version that is the newest   *)
(* one at or below a timestamp from the watermark on, so that it changes   *)
(* no read there.                                                          *)
LEMMA NewestStays ==
    ASSUME TypeOK, ReadInv, gc_before_delete, NEW k, NEW ts \in Nat, gcMark <= ts,
           NEW r, NewestIn(VersionsAt(store, k, ts), r)
    PROVE  r \in store'
<1>1. r \in store /\ r.key = k /\ r.ts <= ts
  BY DEF NewestIn, VersionsAt
<1>2. ASSUME NEW d \in gcBatch, d.key = r.key, d.ts = r.ts
      PROVE  FALSE
  <2>1. PICK q \in store : q.key = d.key /\ q.ts > d.ts /\ q.ts <= gcMark
    BY <1>2 DEF ReadInv, BatchInv
  <2>2. q.ts \in Nat /\ d.ts \in Nat /\ gcMark \in Nat
    BY DEF TypeOK, Version
  <2>3. q \in VersionsAt(store, k, ts)
    BY <1>1, <1>2, <2>1, <2>2 DEF VersionsAt
  <2> QED
    BY <1>2, <2>1, <2>2, <2>3 DEF NewestIn
<1> QED
  BY <1>1, <1>2 DEF gc_before_delete

(* So it changes no read from the watermark on.                            *)
LEMMA DeleteReads ==
    ASSUME TypeOK, ReadInv, gc_before_delete, NEW k, NEW ts \in Nat, gcMark <= ts
    PROVE  get_at(store', k, ts) = get_at(store, k, ts)
<1>1. store' \subseteq store /\ store \in SUBSET Version /\ store' \in SUBSET Version
  BY DEF gc_before_delete, TypeOK
<1>2. VersionsAt(store', k, ts) \subseteq VersionsAt(store, k, ts)
  BY <1>1 DEF VersionsAt
<1>3. CASE VersionsAt(store, k, ts) = {}
  <2>1. VersionsAt(store', k, ts) = {}
    BY <1>2, <1>3
  <2> QED
    BY <1>3, <2>1 DEF get_at
<1>4. CASE VersionsAt(store, k, ts) # {}
  <2>1. PICK r \in VersionsAt(store, k, ts) : NewestIn(VersionsAt(store, k, ts), r)
    BY <1>1, <1>4, NewestExists
  <2>2. r \in store'
    BY <2>1, NewestStays
  <2>3. NewestIn(VersionsAt(store', k, ts), r)
    BY <1>2, <2>1, <2>2 DEF NewestIn, VersionsAt
  <2>4. \A p, q \in store : p.key = q.key /\ p.ts = q.ts => p = q
    BY DEF ReadInv, OneVersion
  <2>5. get_at(store, k, ts) = IF r.val = Tombstone THEN Nothing ELSE r.val
    BY <1>1, <2>1, <2>4, ReadIs
  <2>6. get_at(store', k, ts) = IF r.val = Tombstone THEN Nothing ELSE r.val
    BY <1>1, <2>3, <2>4, ReadIs
  <2> QED
    BY <2>5, <2>6
<1> QED
  BY <1>3, <1>4

--------------------------------------------------------------------------------
(* A step that leaves the store and the collection alone keeps ReadInv if  *)
(* transactions begin at the counter's last value, commits draw its value, *)
(* and nobody else's writes become visible.                                *)
LEMMA ReadFrame ==
    ASSUME IndInv, ReadInv, TypeOK', UNCHANGED <<store, gcBatch, gcMark>>,
           counter <= counter', snapTs' = snapTs \/ snapTs' = counter,
           \A u \in Tx : pc'[u] = "stamped" =>
              \/ pc[u] = "stamped" /\ commit_ts'[u] = commit_ts[u]
              \/ commit_ts'[u] = counter,
           \A t \in Tx : state'[t] = "Active" =>
              \/ state[t] = "Active" /\ snapshot_ts'[t] = snapshot_ts[t] /\ pending'[t] = pending[t]
              \/ snapshot_ts'[t] = counter - 1 /\ pending'[t] = {u \in Tx : pc[u] = "stamped"},
           \A t \in Tx : Applied(t)' =>
              Applied(t) /\ commit_ts'[t] = commit_ts[t] /\ WriteKeys(t)' = WriteKeys(t)
    PROVE  ReadInv'
<1>1. /\ counter \in Nat \ {0} /\ counter' \in Nat \ {0} /\ gcMark \in Nat
      /\ commit_ts \in [Tx -> Nat] /\ snapshot_ts \in [Tx -> Nat] /\ store \subseteq Version
      /\ snapshot_ts' \in [Tx -> Nat]
  BY DEF IndInv, TypeOK
<1>2. \A t \in Tx : state[t] = "Active" => snapshot_ts[t] < counter
  BY DEF IndInv, TimeInv
<1>3. OneVersion'
  BY DEF ReadInv, OneVersion
<1>4. BatchInv'
  <2> SUFFICES ASSUME gcBatch # {}
               PROVE  /\ gcMark < counter'
                      /\ \A t \in Tx : state'[t] = "Active" => gcMark <= snapshot_ts'[t]
                      /\ snapTs' # -1 => gcMark <= snapTs'
    BY DEF ReadInv, BatchInv
  <2>1. /\ gcMark < counter /\ (snapTs # -1 => gcMark <= snapTs)
        /\ \A t \in Tx : state[t] = "Active" => gcMark <= snapshot_ts[t]
    BY DEF ReadInv, BatchInv
  <2> QED
    BY <1>1, <2>1
<1>5. PendingInv'
  <2> SUFFICES ASSUME NEW t \in Tx, NEW u \in Tx, pc'[u] = "stamped", state'[t] = "Active",
                      commit_ts'[u] <= snapshot_ts'[t]
               PROVE  u \in pending'[t]
    BY DEF PendingInv
  <2>1. snapshot_ts'[t] < counter
    BY <1>1, <1>2
  <2>2. pc[u] = "stamped" /\ commit_ts'[u] = commit_ts[u]
    BY <1>1, <2>1
  <2> QED
    BY <2>2 DEF ReadInv, PendingInv
<1>6. VisibleInv'
  <2> SUFFICES ASSUME NEW t \in Tx, Applied(t)'
               PROVE  /\ VisibleAt(t, counter - 1)'
                      /\ \A u \in Tx : state'[u] = "Active" /\ commit_ts'[t] <= snapshot_ts'[u] =>
                            VisibleAt(t, snapshot_ts[u])'
    BY DEF VisibleInv
  <2>1. /\ VisibleAt(t, counter - 1)
        /\ \A u \in Tx : state[u] = "Active" /\ commit_ts[t] <= snapshot_ts[u] =>
              VisibleAt(t, snapshot_ts[u])
    BY DEF ReadInv, VisibleInv
  <2>2. WriteKeys(t)' = WriteKeys(t) /\ commit_ts'[t] = commit_ts[t]
    OBVIOUS
  <2>3. VisibleAt(t, counter - 1)'
    <3> SUFFICES ASSUME NEW k \in WriteKeys(t)
                 PROVE  \E r \in store : r.key = k /\ commit_ts[t] <= r.ts /\ r.ts <= counter' - 1
      BY <2>2 DEF VisibleAt
    <3>1. PICK r \in store : r.key = k /\ commit_ts[t] <= r.ts /\ r.ts <= counter - 1
      BY <2>1 DEF VisibleAt
    <3>2. r.ts \in Nat
      BY <1>1 DEF Version
    <3> QED
      BY <1>1, <3>1, <3>2
  <2>4. ASSUME NEW u \in Tx, state'[u] = "Active", commit_ts'[t] <= snapshot_ts'[u]
        PROVE  VisibleAt(t, snapshot_ts[u])'
    <3> SUFFICES ASSUME NEW k \in WriteKeys(t)
                 PROVE  \E r \in store : r.key = k /\ commit_ts[t] <= r.ts /\ r.ts <= snapshot_ts'[u]
      BY <2>2 DEF VisibleAt
    <3>1. CASE snapshot_ts'[u] = counter - 1
      BY <2>1, <3>1 DEF VisibleAt
    <3>2. CASE state[u] = "Active" /\ snapshot_ts'[u] = snapshot_ts[u]
      BY <2>1, <2>2, <2>4, <3>2 DEF VisibleAt
    <3> QED
      BY <2>4, <3>1, <3>2
  <2> QED
    BY <2>3, <2>4
<1> QED
  BY <1>3, <1>4, <1>5, <1>6 DEF ReadInv

(* A step that leaves whole tuples of variables alone.                     *)
LEMMA ReadQuiet ==
    ASSUME IndInv, ReadInv, TypeOK', UNCHANGED <<store, gcBatch, gcMark, counter, snapTs>>,
           UNCHANGED <<snapshot_ts, pending, commit_ts>>,
           \A t \in Tx : /\ pc'[t] = "stamped" => pc[t] = "stamped"
                         /\ state'[t] = "Active" => state[t] = "Active"
                         /\ Applied(t)' => Applied(t) /\ WriteKeys(t)' = WriteKeys(t)
    PROVE  ReadInv'
<1>1. counter \in Nat
  BY DEF IndInv, TypeOK
<1> QED
  BY <1>1, ReadFrame

(* Applying a batch: the store keeps a version where it had one.           *)
LEMMA ReadApply ==
    ASSUME IndInv, ReadInv, TypeOK', NEW x \in Tx, commit_apply(x)
    PROVE  ReadInv'
<1>1. /\ store \in SUBSET Version /\ write_set[x] \in WriteSets /\ commit_ts[x] \in Nat
      /\ store' = batch_write_at(store, write_set[x], commit_ts[x])
      /\ pc[x] = "stamped" /\ pc' = [pc EXCEPT ![x] = "applied"]
      /\ UNCHANGED <<counter, state, snapshot_ts, write_set, commit_ts, pending, gcBatch,
                     gcMark, snapTs>>
  BY DEF IndInv, TypeOK, commit_apply
<1>2. /\ \A r \in store : \E q \in store' : q.key = r.key /\ q.ts = r.ts
      /\ \A k \in WriteKeys(x) : \E q \in store' : q.key = k /\ q.ts = commit_ts[x]
  <2>1. PICK S, ws, c, T : S = store /\ ws = write_set[x] /\ c = commit_ts[x] /\ T = store'
    OBVIOUS
  <2>2. T = batch_write_at(S, ws, c)
    BY <1>1, <2>1
  <2>3. /\ \A r \in S : \E q \in T : q.key = r.key /\ q.ts = r.ts
        /\ \A k \in DOMAIN ws : \E q \in T : q.key = k /\ q.ts = c
    BY ONLY <2>2, BatchFacts
  <2> QED
    BY <2>1, <2>3 DEF WriteKeys
<1>3. OneVersion'
  <2>1. \A r, q \in store : r.key = q.key /\ r.ts = q.ts => r = q
    BY DEF ReadInv, OneVersion
  <2>2. PICK S, ws, c, T : S = store /\ ws = write_set[x] /\ c = commit_ts[x] /\ T = store'
    OBVIOUS
  <2>3. T = batch_write_at(S, ws, c) /\ \A r, q \in S : r.key = q.key /\ r.ts = q.ts => r = q
    BY <1>1, <2>1, <2>2
  <2>4. \A r, q \in T : r.key = q.key /\ r.ts = q.ts => r = q
    BY ONLY <2>3, BatchFacts
  <2> QED
    BY <2>2, <2>4 DEF OneVersion
<1>4. BatchInv'
  <2>1. ASSUME gcBatch # {}, NEW d \in gcBatch
        PROVE  \E q \in store' : q.key = d.key /\ q.ts > d.ts /\ q.ts <= gcMark
    <3>1. PICK q \in store : q.key = d.key /\ q.ts > d.ts /\ q.ts <= gcMark
      BY <2>1 DEF ReadInv, BatchInv
    <3> QED
      BY <1>2, <3>1
  <2> QED
    BY <1>1, <2>1 DEF ReadInv, BatchInv
<1>5. pc \in [Tx -> Locked \cup {"idle", "persist", "put"}]
  BY DEF IndInv, TypeOK
<1>6. PendingInv'
  BY <1>1, <1>5 DEF ReadInv, PendingInv
<1>7. VisibleInv'
  <2> SUFFICES ASSUME NEW t \in Tx, Applied(t)'
               PROVE  /\ VisibleAt(t, counter - 1)'
                      /\ \A u \in Tx : state'[u] = "Active" /\ commit_ts'[t] <= snapshot_ts'[u] =>
                            VisibleAt(t, snapshot_ts[u])'
    BY DEF VisibleInv
  <2>1. WriteKeys(t)' = WriteKeys(t)
    BY <1>1 DEF WriteKeys
  <2>2. CASE t = x
    <3>1. commit_ts[x] < counter /\ counter \in Nat \ {0}
      BY <1>1 DEF IndInv, TimeInv, Stamped, TypeOK
    <3>2. ASSUME NEW s \in Nat, commit_ts[x] <= s, NEW k \in WriteKeys(x)
          PROVE  \E r \in store' : r.key = k /\ commit_ts[x] <= r.ts /\ r.ts <= s
      BY <1>1, <1>2, <3>2
    <3>3. counter - 1 \in Nat /\ commit_ts[x] <= counter - 1
          /\ \A u \in Tx : snapshot_ts[u] \in Nat
      BY <1>1, <3>1 DEF IndInv, TypeOK
    <3> QED
      BY <1>1, <2>1, <2>2, <3>2, <3>3 DEF VisibleAt
  <2>3. CASE t # x
    <3>1. Applied(t)
      BY <1>1, <1>5, <2>3 DEF Applied, Recorded
    <3>2. ASSUME NEW s, VisibleAt(t, s), NEW k \in WriteKeys(t)
          PROVE  \E r \in store' : r.key = k /\ commit_ts[t] <= r.ts /\ r.ts <= s
      <4>1. PICK r \in store : r.key = k /\ commit_ts[t] <= r.ts /\ r.ts <= s
        BY <3>2 DEF VisibleAt
      <4>2. PICK q \in store' : q.key = r.key /\ q.ts = r.ts
        BY <1>2
      <4> QED
        BY <4>1, <4>2
    <3>3. /\ VisibleAt(t, counter - 1)
          /\ \A u \in Tx : state[u] = "Active" /\ commit_ts[t] <= snapshot_ts[u] =>
                VisibleAt(t, snapshot_ts[u])
      BY <3>1 DEF ReadInv, VisibleInv
    <3>4. \A k \in WriteKeys(t) :
             \E r \in store' : r.key = k /\ commit_ts[t] <= r.ts /\ r.ts <= counter - 1
      BY <3>2, <3>3
    <3>5. ASSUME NEW u \in Tx, state[u] = "Active", commit_ts[t] <= snapshot_ts[u],
                 NEW k \in WriteKeys(t)
          PROVE  \E r \in store' : r.key = k /\ commit_ts[t] <= r.ts /\ r.ts <= snapshot_ts[u]
      BY <3>2, <3>3, <3>5
    <3> QED
      BY <1>1, <2>1, <3>4, <3>5 DEF VisibleAt
  <2> QED
    BY <2>2, <2>3
<1> QED
  BY <1>3, <1>4, <1>6, <1>7 DEF ReadInv

(* Scanning: what is collected is superseded at the watermark.             *)
LEMMA ReadScan ==
    ASSUME IndInv, ReadInv, TypeOK', NEW w \in Watermarks, NEW K \in SUBSET Keys,
           gc_before_scan(K, w)
    PROVE  ReadInv'
<1>1. /\ gcBatch' = gc_candidates(store, K, w) /\ gcMark' = w
      /\ UNCHANGED <<store, counter, snapTs>> /\ UNCHANGED txVars
  BY DEF gc_before_scan
<1>2. OneVersion'
  BY <1>1 DEF ReadInv, OneVersion
<1>3. BatchInv'
  <2>1. \A d \in gcBatch' : \E q \in store' : q.key = d.key /\ q.ts > d.ts /\ q.ts <= w
    BY <1>1 DEF gc_candidates
  <2>2. /\ w < counter /\ \A t \in Tx : state[t] = "Active" => w <= snapshot_ts[t]
        /\ snapTs # -1 => w <= snapTs
    BY DEF Watermarks, IndInv, TypeOK
  <2> QED
    BY <1>1, <2>1, <2>2 DEF BatchInv
<1>4. PendingInv'
  BY <1>1 DEF ReadInv, PendingInv
<1>5. VisibleInv'
  BY <1>1 DEF ReadInv, VisibleInv, VisibleAt, Applied, Recorded, WriteKeys
<1> QED
  BY <1>2, <1>3, <1>4, <1>5 DEF ReadInv

(* Deleting: the newest version a reader can see stays.                    *)
LEMMA ReadDelete ==
    ASSUME IndInv, ReadInv, TypeOK', gc_before_delete
    PROVE  ReadInv'
<1>1. /\ gcBatch # {} /\ gcBatch' = {} /\ store' \subseteq store /\ store \in SUBSET Version
      /\ UNCHANGED <<counter, snapTs>> /\ UNCHANGED txVars
      /\ counter \in Nat \ {0} /\ gcMark \in Nat /\ snapshot_ts \in [Tx -> Nat]
      /\ commit_ts \in [Tx -> Nat]
  BY DEF gc_before_delete, IndInv, TypeOK
<1>2. OneVersion' /\ BatchInv'
  BY <1>1 DEF ReadInv, OneVersion, BatchInv
<1>3. PendingInv'
  BY <1>1 DEF ReadInv, PendingInv
<1>4. ASSUME NEW t \in Tx, NEW s \in Nat, gcMark <= s, VisibleAt(t, s), NEW k \in WriteKeys(t)
      PROVE  \E r \in store' : r.key = k /\ commit_ts[t] <= r.ts /\ r.ts <= s
  <2>1. PICK r \in store : r.key = k /\ commit_ts[t] <= r.ts /\ r.ts <= s
    BY <1>4 DEF VisibleAt
  <2>2. r \in VersionsAt(store, k, s)
    BY <2>1 DEF VersionsAt
  <2>3. PICK q \in VersionsAt(store, k, s) : NewestIn(VersionsAt(store, k, s), q)
    BY <1>1, <2>2, NewestExists
  <2>4. q \in store'
    BY <1>4, <2>3, NewestStays DEF IndInv
  <2>5. q.key = k /\ q.ts <= s /\ r.ts <= q.ts /\ q.ts \in Nat /\ r.ts \in Nat
    BY <1>1, <2>1, <2>2, <2>3 DEF VersionsAt, NewestIn, Version
  <2> QED
    BY <1>1, <2>1, <2>4, <2>5
<1>5. VisibleInv'
  <2> SUFFICES ASSUME NEW t \in Tx, Applied(t)'
               PROVE  /\ VisibleAt(t, counter - 1)'
                      /\ \A u \in Tx : state'[u] = "Active" /\ commit_ts'[t] <= snapshot_ts'[u] =>
                            VisibleAt(t, snapshot_ts[u])'
    BY DEF VisibleInv
  <2>1. WriteKeys(t)' = WriteKeys(t) /\ Applied(t)
    BY <1>1 DEF WriteKeys, Applied, Recorded
  <2>2. /\ VisibleAt(t, counter - 1)
        /\ \A u \in Tx : state[u] = "Active" /\ commit_ts[t] <= snapshot_ts[u] =>
              VisibleAt(t, snapshot_ts[u])
    BY <2>1 DEF ReadInv, VisibleInv
  <2>3. gcMark < counter /\ \A u \in Tx : state[u] = "Active" => gcMark <= snapshot_ts[u]
    BY <1>1 DEF ReadInv, BatchInv
  <2>4. \A k \in WriteKeys(t) :
           \E r \in store' : r.key = k /\ commit_ts[t] <= r.ts /\ r.ts <= counter - 1
    <3>1. counter - 1 \in Nat /\ gcMark <= counter - 1
      BY <1>1, <2>3
    <3> QED
      BY <1>4, <2>2, <3>1
  <2>5. ASSUME NEW u \in Tx, state[u] = "Active", commit_ts[t] <= snapshot_ts[u],
               NEW k \in WriteKeys(t)
        PROVE  \E r \in store' : r.key = k /\ commit_ts[t] <= r.ts /\ r.ts <= snapshot_ts[u]
    BY <1>1, <1>4, <2>2, <2>3, <2>5
  <2> QED
    BY <1>1, <2>1, <2>4, <2>5 DEF VisibleAt
<1> QED
  BY <1>2, <1>3, <1>5 DEF ReadInv

(* A restart leaves the versions of the store and nobody to read them.     *)
LEMMA ReadRestart ==
    ASSUME ReadInv, Restart
    PROVE  ReadInv'
<1>1. /\ store' = store /\ gcBatch' = {}
      /\ \A t \in Tx : state'[t] = "Unused" /\ pc'[t] = "idle"
  BY DEF Restart
<1>2. OneVersion' /\ BatchInv'
  BY <1>1 DEF ReadInv, OneVersion, BatchInv
<1>3. PendingInv'
  BY <1>1 DEF PendingInv
<1>4. VisibleInv'
  BY <1>1 DEF VisibleInv, Applied, Recorded
<1> QED
  BY <1>2, <1>3, <1>4 DEF ReadInv

(* Every step keeps ReadInv.                                               *)
LEMMA ReadStep ==
    ASSUME IndInv, ReadInv, [Next]_vars
    PROVE  ReadInv'
<1>t. /\ TypeOK /\ TypeOK' /\ LockInv
      /\ counter \in Nat \ {0} /\ state \in [Tx -> {"Unused", "Active", "Committed", "RolledBack"}]
      /\ pc \in [Tx -> Locked \cup {"idle", "persist", "put"}]
      /\ snapshot_ts \in [Tx -> Nat] /\ commit_ts \in [Tx -> Nat]
  BY TypeStep DEF IndInv, TypeOK
<1>1. ASSUME NEW t \in Tx, begin(t)
      PROVE  ReadInv'
  <2>1. /\ UNCHANGED <<store, gcBatch, gcMark, snapTs, pc, commit_ts, write_set>>
        /\ counter' = counter + 1
        /\ state' = [state EXCEPT ![t] = "Active"]
        /\ snapshot_ts' = [snapshot_ts EXCEPT ![t] = counter - 1]
        /\ pending' = [pending EXCEPT ![t] = {u \in Tx : pc[u] = "stamped"}]
        /\ pending \in [Tx -> SUBSET Tx]
    BY <1>1, <1>t DEF begin, SnapshotAtBegin, TypeOK
  <2>2. \A u \in Tx : Applied(u)' => Applied(u) /\ WriteKeys(u)' = WriteKeys(u)
    BY <1>t, <2>1 DEF Applied, Recorded, WriteKeys
  <2>3. \A u \in Tx : state'[u] = "Active" =>
              \/ state[u] = "Active" /\ snapshot_ts'[u] = snapshot_ts[u] /\ pending'[u] = pending[u]
              \/ snapshot_ts'[u] = counter - 1 /\ pending'[u] = {v \in Tx : pc[v] = "stamped"}
    BY <1>t, <2>1
  <2>4. counter <= counter'
    BY <1>t, <2>1
  <2> QED
    BY <1>t, <2>1, <2>2, <2>3, <2>4, ReadFrame
<1>2. ASSUME NEW t \in Tx, NEW k \in Keys, NEW v \in Values \cup {Tombstone},
             put(t, k, v)
      PROVE  ReadInv'
  <2>1. /\ UNCHANGED <<store, gcBatch, gcMark, counter, snapTs>>
        /\ UNCHANGED <<snapshot_ts, pending, commit_ts, pc, state>>
        /\ pc[t] = "idle" /\ state[t] = "Active"
        /\ \A u \in Tx \ {t} : write_set'[u] = write_set[u]
    BY <1>2, <1>t DEF put, Usable, TypeOK
  <2>2. \A u \in Tx : Applied(u)' => Applied(u) /\ WriteKeys(u)' = WriteKeys(u)
    BY <2>1 DEF Applied, Recorded, WriteKeys
  <2> QED
    BY <1>t, <2>1, <2>2, ReadQuiet
<1>3. ASSUME NEW t \in Tx, rollback(t)
      PROVE  ReadInv'
  <2>1. /\ UNCHANGED <<store, gcBatch, gcMark, counter, snapTs>>
        /\ UNCHANGED <<snapshot_ts, pending, commit_ts, pc, write_set>>
        /\ state' = [state EXCEPT ![t] = "RolledBack"]
    BY <1>3 DEF rollback
  <2>2. \A u \in Tx : Applied(u)' => Applied(u) /\ WriteKeys(u)' = WriteKeys(u)
    BY <1>t, <2>1 DEF Applied, Recorded, WriteKeys
  <2>3. \A u \in Tx : state'[u] = "Active" => state[u] = "Active"
    BY <1>t, <2>1
  <2> QED
    BY <1>t, <2>1, <2>2, <2>3, ReadQuiet
<1>4. ASSUME NEW t \in Tx, commit_check(t) \/ commit_fail(t)
      PROVE  ReadInv'
  <2>1. /\ UNCHANGED <<store, gcBatch, gcMark, counter, snapTs>>
        /\ UNCHANGED <<snapshot_ts, pending, commit_ts, state, write_set>>
        /\ pc' = [pc EXCEPT ![t] = "checked"] \/ pc' = [pc EXCEPT ![t] = "idle"]
    BY <1>4 DEF commit_check, commit_fail
  <2>2. \A u \in Tx : pc'[u] = pc[u] \/ pc'[u] = "checked" \/ pc'[u] = "idle"
    BY <1>t, <2>1
  <2>3. \A u \in Tx : Applied(u)' => Applied(u) /\ WriteKeys(u)' = WriteKeys(u)
    BY <2>1, <2>2 DEF Applied, Recorded, WriteKeys
  <2> QED
    BY <1>t, <2>1, <2>2, <2>3, ReadQuiet
<1>5. ASSUME NEW t \in Tx, commit_stamp(t)
      PROVE  ReadInv'
  <2>1. /\ UNCHANGED <<store, gcBatch, gcMark, snapTs, state, snapshot_ts, write_set, pending>>
        /\ counter' = counter + 1
        /\ commit_ts' = [commit_ts EXCEPT ![t] = counter]
        /\ pc' = [pc EXCEPT ![t] = "stamped"]
        /\ pc[t] = "checked"
    BY <1>5 DEF commit_stamp, CommitTs
  <2>2. state[t] = "Active"
    BY <1>t, <2>1 DEF LockInv
  <2>3. \A u \in Tx : Applied(u)' =>
           Applied(u) /\ commit_ts'[u] = commit_ts[u] /\ WriteKeys(u)' = WriteKeys(u)
    BY <1>t, <2>1, <2>2 DEF Applied, Recorded, WriteKeys
  <2>4. \A u \in Tx : pc'[u] = "stamped" =>
              \/ pc[u] = "stamped" /\ commit_ts'[u] = commit_ts[u]
              \/ commit_ts'[u] = counter
    BY <1>t, <2>1
  <2>5. counter <= counter'
    BY <1>t, <2>1
  <2> QED
    BY <1>t, <2>1, <2>3, <2>4, <2>5, ReadFrame
<1>6. ASSUME NEW t \in Tx, commit_apply(t)
      PROVE  ReadInv'
  BY <1>6, <1>t, ReadApply
<1>7. ASSUME NEW t \in Tx, commit_record(t) \/ persist_load(t) \/ persist_put(t)
      PROVE  ReadInv'
  <2>1. /\ UNCHANGED <<store, gcBatch, gcMark, counter, snapTs>>
        /\ UNCHANGED <<snapshot_ts, pending, commit_ts, write_set>>
        /\ pc[t] \in {"applied", "persist", "put"}
        /\ \E p \in {"persist", "put", "idle"} : pc' = [pc EXCEPT ![t] = p]
        /\ state' = state \/ state' = [state EXCEPT ![t] = "Committed"]
    BY <1>7 DEF commit_record, persist_load, persist_put
  <2>2. /\ Applied(t) /\ pc'[t] # "stamped"
        /\ state'[t] = "Active" => state[t] = "Active"
    BY <1>t, <2>1 DEF Applied, Recorded
  <2>3. \A u \in Tx \ {t} : pc'[u] = pc[u] /\ state'[u] = state[u]
    BY <1>t, <2>1
  <2>4. \A u \in Tx : Applied(u)' => Applied(u) /\ WriteKeys(u)' = WriteKeys(u)
    BY <2>1, <2>2, <2>3 DEF Applied, Recorded, WriteKeys
  <2>5. \A u \in Tx : /\ pc'[u] = "stamped" => pc[u] = "stamped"
                      /\ state'[u] = "Active" => state[u] = "Active"
    BY <2>2, <2>3
  <2> QED
    BY <1>t, <2>1, <2>4, <2>5, ReadQuiet
<1>8. CASE snapshot
  <2>1. /\ UNCHANGED <<store, gcBatch, gcMark, counter>> /\ snapTs' = counter
        /\ UNCHANGED <<snapshot_ts, pending, commit_ts, pc, state, write_set>>
    BY <1>8 DEF snapshot
  <2>2. \A u \in Tx : Applied(u)' => Applied(u) /\ WriteKeys(u)' = WriteKeys(u)
    BY <2>1 DEF Applied, Recorded, WriteKeys
  <2>3. counter <= counter'
    BY <1>t, <2>1
  <2> QED
    BY <1>t, <2>1, <2>2, <2>3, ReadFrame
<1>9. CASE (\E w \in Watermarks : gc_committed_writes(w)) \/ UNCHANGED vars
  <2>1. /\ UNCHANGED <<store, gcBatch, gcMark, counter, snapTs>>
        /\ UNCHANGED <<snapshot_ts, pending, commit_ts, pc, state, write_set>>
    BY <1>9 DEF gc_committed_writes, vars
  <2>2. \A u \in Tx : Applied(u)' => Applied(u) /\ WriteKeys(u)' = WriteKeys(u)
    BY <2>1 DEF Applied, Recorded, WriteKeys
  <2> QED
    BY <1>t, <2>1, <2>2, ReadQuiet
<1>10. ASSUME NEW w \in Watermarks, NEW K \in SUBSET Keys, gc_before_scan(K, w)
       PROVE  ReadInv'
  BY <1>10, <1>t, ReadScan
<1>11. CASE gc_before_delete
  BY <1>11, <1>t, ReadDelete
<1>12. CASE Restart
  BY <1>12, ReadRestart
<1> QED
  BY NextCases, <1>1, <1>2, <1>3, <1>4, <1>5, <1>6, <1>7, <1>8, <1>9, <1>10, <1>11, <1>12

(* The empty store and no transaction satisfy ReadInv.                     *)
LEMMA ReadInit == Init => ReadInv
  BY DEF Init, ReadInv, OneVersion, BatchInv, PendingInv, VisibleInv, Applied, Recorded

(* ReadInv holds in every reachable state.                                 *)
LEMMA ReadAlways == Spec => [](IndInv /\ ReadInv)
<1>1. IndInv /\ ReadInv /\ [Next]_vars => IndInv' /\ ReadInv'
  BY IndStep, ReadStep
<1> QED
  BY <1>1, IndInit, ReadInit, PTL DEF Spec

--------------------------------------------------------------------------------
(* Only the write batch of a commit and the delete of gc_before change     *)
(* what is in the store.                                                   *)
LEMMA StoreSteps ==
    ASSUME [Next]_vars
    PROVE  \/ store' = store
           \/ gc_before_delete
           \/ \E u \in Tx : commit_apply(u)
  BY NextCases
     DEF begin, put, rollback, commit_check, commit_stamp, commit_fail, commit_record,
         persist_load, persist_put, snapshot, gc_committed_writes, gc_before_scan, Restart, vars

(* Applying a batch above a timestamp changes no read at that timestamp.   *)
LEMMA ApplyReads ==
    ASSUME TypeOK, NEW u \in Tx, commit_apply(u), NEW k, NEW ts \in Int, commit_ts[u] > ts
    PROVE  get_at(store', k, ts) = get_at(store, k, ts)
<1>1. PICK S, ws, c : S = store /\ ws = write_set[u] /\ c = commit_ts[u]
  OBVIOUS
<1>2. /\ S \in SUBSET Version /\ ws \in WriteSets /\ c \in Nat /\ c > ts
      /\ store' = batch_write_at(S, ws, c)
  BY <1>1 DEF TypeOK, commit_apply
<1>3. get_at(batch_write_at(S, ws, c), k, ts) = get_at(S, k, ts)
  BY <1>2, LaterBatch
<1> QED
  BY <1>1, <1>2, <1>3

(* gc_before of mvcc.rs and the snapshot reads: for every number of        *)
(* transactions, keys and restarts, a commit inside a running              *)
(* transaction's snapshot stays visible to it, as that version or as a     *)
(* newer one the snapshot covers.                                          *)
THEOREM VisibilityKept == Spec => []CommitsStayVisible
<1>1. ReadInv => CommitsStayVisible
  BY DEF ReadInv, VisibleInv, VisibleAt, CommitsStayVisible
<1> QED
  BY <1>1, ReadAlways, PTL

(* The deferred delete of gc_before in mvcc.rs: whatever was committed     *)
(* between its scan and its delete, the delete changes no read at or above *)
(* its watermark.                                                          *)
THEOREM CollectionInvisible == Spec => GcPreservesReads
<1>1. ASSUME IndInv, ReadInv, [Next]_vars,
             gcBatch # {}, gcBatch' = {}, restarts' = restarts
      PROVE  gc_before_delete
  <2>1. ~Restart
    BY <1>1 DEF Restart, IndInv, TypeOK
  <2>2. ASSUME NEW t \in Tx
        PROVE  /\ ~begin(t) /\ ~rollback(t) /\ ~commit_check(t) /\ ~commit_stamp(t)
               /\ ~commit_apply(t) /\ ~commit_fail(t) /\ ~commit_record(t)
               /\ ~persist_load(t) /\ ~persist_put(t)
               /\ \A k \in Keys, v \in Values \cup {Tombstone} : ~put(t, k, v)
    BY <1>1 DEF begin, put, rollback, commit_check, commit_stamp, commit_apply, commit_fail,
                commit_record, persist_load, persist_put
  <2>3. ASSUME NEW w \in Watermarks
        PROVE  ~gc_committed_writes(w) /\ \A K \in SUBSET Keys : ~gc_before_scan(K, w)
    BY <1>1 DEF gc_committed_writes, gc_before_scan
  <2>4. ~snapshot /\ ~UNCHANGED vars
    BY <1>1 DEF snapshot, vars
  <2> QED
    BY <1>1, <2>1, <2>2, <2>3, <2>4, NextCases
<1>2. ASSUME IndInv, ReadInv, gc_before_delete, NEW k \in Keys, NEW ts \in gcMark .. counter
      PROVE  get_at(store', k, ts) = get_at(store, k, ts)
  <2>1. ts \in Nat /\ gcMark <= ts /\ TypeOK
    BY <1>2 DEF IndInv, TypeOK
  <2> QED
    BY <1>2, <2>1, DeleteReads
<1>3. IndInv /\ ReadInv /\ [Next]_vars =>
        [gcBatch # {} /\ gcBatch' = {} /\ restarts' = restarts
          => \A k \in Keys, ts \in gcMark .. counter :
                 get_at(store', k, ts) = get_at(store, k, ts)]_vars
  BY <1>1, <1>2
<1> QED
  BY <1>3, ReadAlways, PTL DEF Spec, GcPreservesReads

(* Snapshot isolation of Transaction::get: what a running transaction      *)
(* reads at its snapshot only changes when a commit is applied that had    *)
(* drawn its timestamp and not written its batch when it began.            *)
THEOREM SnapshotsStable == Spec => OnlyInFlightDisturbs
<1>1. ASSUME IndInv, ReadInv, [Next]_vars, NEW t \in Tx, NEW k \in Keys,
             state[t] = "Active",
             get_at(store', k, snapshot_ts[t]) # get_at(store, k, snapshot_ts[t])
      PROVE  \E u \in pending[t] : pc[u] = "stamped" /\ pc'[u] = "applied"
  <2>1. TypeOK /\ snapshot_ts[t] \in Nat
    BY <1>1 DEF IndInv, TypeOK
  <2>2. PICK s \in Nat : s = snapshot_ts[t]
    BY <2>1
  <2>3. ~gc_before_delete
    <3> SUFFICES ASSUME gc_before_delete
                 PROVE  FALSE
      OBVIOUS
    <3>1. gcMark <= s
      BY <1>1, <2>2 DEF gc_before_delete, ReadInv, BatchInv
    <3> QED
      BY <1>1, <2>1, <2>2, <3>1, DeleteReads
  <2>4. PICK u \in Tx : commit_apply(u)
    BY <1>1, <2>3, StoreSteps
  <2>5. /\ pc[u] = "stamped" /\ pc'[u] = "applied" /\ commit_ts[u] \in Nat
    BY <2>1, <2>4 DEF commit_apply, TypeOK
  <2>6. ~(commit_ts[u] > s)
    BY <1>1, <2>1, <2>2, <2>4, ApplyReads
  <2>7. u \in pending[t]
    BY <1>1, <2>2, <2>5, <2>6 DEF ReadInv, PendingInv
  <2> QED
    BY <2>5, <2>7
<1>2. IndInv /\ ReadInv /\ [Next]_vars =>
        [\A t \in Tx, k \in Keys :
          /\ state[t] = "Active" /\ state'[t] = "Active"
          /\ get_at(store', k, snapshot_ts[t]) # get_at(store, k, snapshot_ts[t])
          => \E u \in pending[t] : pc[u] = "stamped" /\ pc'[u] = "applied"]_vars
  BY <1>1
<1> QED
  BY <1>2, ReadAlways, PTL DEF Spec, OnlyInFlightDisturbs

(* TransactionManager::snapshot: once the oracle has passed a read-only    *)
(* snapshot and every commit at or below it is applied, nothing changes    *)
(* what it reads.                                                          *)
THEOREM ReadOnlySettles == Spec => SnapshotSettles
<1>1. ASSUME IndInv, ReadInv, [Next]_vars, NEW k \in Keys, snapTs # -1,
             \A u \in Tx : pc[u] = "stamped" => commit_ts[u] > snapTs
      PROVE  get_at(store', k, snapTs) = get_at(store, k, snapTs)
  <2>1. TypeOK /\ snapTs \in Nat
    BY <1>1 DEF IndInv, TypeOK
  <2>2. PICK s \in Nat : s = snapTs
    BY <2>1
  <2>3. CASE store' = store
    BY <2>3
  <2>4. CASE gc_before_delete
    <3>1. gcMark <= s
      BY <1>1, <2>2, <2>4 DEF gc_before_delete, ReadInv, BatchInv
    <3> QED
      BY <1>1, <2>1, <2>2, <2>4, <3>1, DeleteReads
  <2>5. ASSUME NEW u \in Tx, commit_apply(u)
        PROVE  get_at(store', k, s) = get_at(store, k, s)
    <3>1. commit_ts[u] > s
      BY <1>1, <2>2, <2>5 DEF commit_apply
    <3> QED
      BY <2>1, <2>5, <3>1, ApplyReads
  <2> QED
    BY <1>1, <2>2, <2>3, <2>4, <2>5, StoreSteps
<1>2. IndInv /\ ReadInv /\ [Next]_vars =>
        [/\ snapTs # -1 /\ snapTs' = snapTs /\ snapTs < counter
         /\ \A u \in Tx : pc[u] = "stamped" => commit_ts[u] > snapTs
         => \A k \in Keys : get_at(store', k, snapTs) = get_at(store, k, snapTs)]_vars
  BY <1>1
<1> QED
  BY <1>2, ReadAlways, PTL DEF Spec, SnapshotSettles
================================================================================
