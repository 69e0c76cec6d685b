------------------------------- MODULE TxManager -------------------------------
(***************************************************************************)
(* The optimistic MVCC transaction manager of synaptica-tx (mvcc.rs,       *)
(* transaction.rs) over the versioned store and the timestamp oracle of    *)
(* synaptica-storage (mvcc.rs).                                            *)
(*                                                                         *)
(* Every transaction handle is driven by a thread of its own: the methods  *)
(* take &mut Transaction, so the calls on one handle are sequential, and   *)
(* calls on different handles interleave.  `commit' is split where another *)
(* thread can observe the difference: after the conflict check, after the  *)
(* commit timestamp is drawn, after the batch is written, after the lock   *)
(* on committed_writes is dropped.  The lock is only taken by commit and   *)
(* gc_committed_writes; begin, reads and snapshot take no lock.            *)
(*                                                                         *)
(* The handles of a process that crashed are gone: Restart makes every     *)
(* handle Unused again, so commit_ts, snapshot_ts and write_set always     *)
(* speak about the current process.                                        *)
(***************************************************************************)
EXTENDS MvccStore, FiniteSets

CONSTANTS Tx,             \* transaction handles
          NoTx,           \* nobody holds the lock on committed_writes
          GC_THRESHOLD,   \* entries kept in committed_writes (10_000)
          PersistEvery,   \* commits between two saves of the oracle (100)
          MaxFailures,    \* bound: failing batch writes
          MaxRestarts     \* bound: process restarts

ASSUME TxAssumption ==
    /\ NoTx \notin Tx
    /\ GC_THRESHOLD \in Nat \ {0}
    /\ PersistEvery \in Nat \ {0}
    /\ MaxFailures \in Nat
    /\ MaxRestarts \in Nat

VARIABLES counter,           \* TimestampOracle.counter
          persisted,         \* its last saved value in RocksDB, 0 if none
          store,             \* versions in RocksDB
          committed_writes,  \* commit_ts -> keys, as a set of records
          lock,              \* thread holding committed_writes.write()
          state,             \* Transaction.state of each handle
          snapshot_ts,       \* Transaction.snapshot_ts
          write_set,         \* Transaction.write_set: last write per key
          commit_ts,         \* local variable of commit
          pc,                \* where each handle's thread is inside commit
          saved,             \* counter value persist_to_db has loaded
          gcBatch,           \* versions gc_before collected, not yet deleted
          gcMark,            \* its watermark
          snapTs,            \* Snapshot.ts of the read-only snapshot, -1: none
          seen,              \* history: handles whose writes begin found
          pending,           \* history: commits stamped, not applied, at begin
          failures,          \* batch writes that failed so far
          restarts           \* restarts so far

txVars    == <<state, snapshot_ts, write_set, commit_ts, pc, saved, seen,
               pending>>
gcVars    == <<gcBatch, gcMark>>
bounds    == <<failures, restarts>>
vars      == <<counter, persisted, store, committed_writes, lock, txVars,
               gcVars, snapTs, bounds>>

WriteSets == UNION {[D -> Values \cup {Tombstone}] : D \in SUBSET Keys}
NoWrites  == [k \in {} |-> Tombstone]
WriteKeys(t) == DOMAIN write_set[t]

Entry == [ts : Nat, keys : SUBSET Keys]

Locked == {"checked", "stamped", "applied"}   \* inside the critical section

--------------------------------------------------------------------------------
Init ==
    /\ counter = 1                            \* load_from_db on an empty db
    /\ persisted = 0
    /\ store = {}
    /\ committed_writes = {}
    /\ lock = NoTx
    /\ state = [t \in Tx |-> "Unused"]
    /\ snapshot_ts = [t \in Tx |-> 0]
    /\ write_set = [t \in Tx |-> NoWrites]
    /\ commit_ts = [t \in Tx |-> 0]
    /\ pc = [t \in Tx |-> "idle"]
    /\ saved = [t \in Tx |-> 0]
    /\ seen = [t \in Tx |-> {}]
    /\ pending = [t \in Tx |-> {}]
    /\ gcBatch = {}
    /\ gcMark = 0
    /\ snapTs = -1
    /\ failures = 0
    /\ restarts = 0

(* An active handle whose owner is not inside commit.                      *)
Usable(t) == state[t] = "Active" /\ pc[t] = "idle"

(* t's writes are in the store and in committed_writes (or were, before    *)
(* they were pruned).                                                      *)
Recorded(t) == pc[t] \in {"persist", "put"} \/ state[t] = "Committed"

(* t's batch is in the store.                                              *)
Applied(t) == pc[t] = "applied" \/ Recorded(t)

(* begin: tx_id = next(), snapshot = tx_id - 1.                            *)
SnapshotTooOld == counter - 2                 \* fault: one too far back
SnapshotAtBegin == counter - 1

begin(t) ==
    /\ state[t] = "Unused"
    /\ counter' = counter + 1
    /\ state' = [state EXCEPT ![t] = "Active"]
    /\ snapshot_ts' = [snapshot_ts EXCEPT ![t] = SnapshotAtBegin]
    /\ seen' = [seen EXCEPT ![t] = {u \in Tx : Applied(u)}]
    /\ pending' = [pending EXCEPT ![t] = {u \in Tx : pc[u] = "stamped"}]
    /\ UNCHANGED <<persisted, store, committed_writes, lock, write_set,
                   commit_ts, pc, saved, gcVars, snapTs, bounds>>

(* put (v is a value) and delete (v is Tombstone) push to the write set;   *)
(* the last push of a key is the one get finds first and the one a write   *)
(* batch leaves in the store.                                              *)
put(t, k, v) ==
    /\ Usable(t)
    /\ write_set' = [write_set EXCEPT ![t] =
                       [x \in WriteKeys(t) \cup {k} |->
                            IF x = k THEN v ELSE write_set[t][x]]]
    /\ UNCHANGED <<counter, persisted, store, committed_writes, lock, state,
                   snapshot_ts, commit_ts, pc, saved, seen, pending, gcVars, snapTs,
                   bounds>>

(* Transaction::get answers from the write set first, then from the store  *)
(* at the snapshot.  It changes no state.                                  *)
get(t, k) ==
    IF k \in WriteKeys(t)
    THEN IF write_set[t][k] = Tombstone THEN Nothing ELSE write_set[t][k]
    ELSE get_at(store, k, snapshot_ts[t])

rollback(t) ==
    /\ Usable(t)
    /\ state' = [state EXCEPT ![t] = "RolledBack"]
    /\ UNCHANGED <<counter, persisted, store, committed_writes, lock,
                   snapshot_ts, write_set, commit_ts, pc, saved, seen, pending, gcVars,
                   snapTs, bounds>>

--------------------------------------------------------------------------------
(* The inline conflict check: a transaction committed after t's snapshot   *)
(* wrote a key of t's write set.                                           *)
Conflict(t) ==
    \E e \in committed_writes : /\ e.ts > snapshot_ts[t]
                                /\ e.keys \cap WriteKeys(t) # {}

(* committed_writes.write() is granted.                                    *)
LockIgnored(t) == TRUE                        \* fault: check without the lock
LockFree(t) == lock = NoTx

(* commit, up to and including the check.  A conflict returns with the     *)
(* lock released and the transaction still Active: nothing changes.        *)
commit_check(t) ==
    /\ Usable(t)
    /\ LockFree(t)
    /\ ~Conflict(t)
    /\ lock' = t
    /\ pc' = [pc EXCEPT ![t] = "checked"]
    /\ UNCHANGED <<counter, persisted, store, committed_writes, state,
                   snapshot_ts, write_set, commit_ts, saved, seen, pending, gcVars,
                   snapTs, bounds>>

(* The commit timestamp is the oracle's next value, not the transaction's  *)
(* id, which other transactions have already passed.                       *)
TxIdAsCommitTs(t) == snapshot_ts[t] + 1       \* fault
CommitTs(t) == counter

commit_stamp(t) ==
    /\ pc[t] = "checked"
    /\ commit_ts' = [commit_ts EXCEPT ![t] = CommitTs(t)]
    /\ counter' = counter + 1
    /\ pc' = [pc EXCEPT ![t] = "stamped"]
    /\ UNCHANGED <<persisted, store, committed_writes, lock, state,
                   snapshot_ts, write_set, saved, seen, pending, gcVars, snapTs, bounds>>

commit_apply(t) ==
    /\ pc[t] = "stamped"
    /\ store' = batch_write_at(store, write_set[t], commit_ts[t])
    /\ pc' = [pc EXCEPT ![t] = "applied"]
    /\ UNCHANGED <<counter, persisted, committed_writes, lock, state,
                   snapshot_ts, write_set, commit_ts, saved, seen, pending, gcVars,
                   snapTs, bounds>>

(* Fault: the error path keeps the lock.                                   *)
FailHoldsLock(t) ==
    /\ pc[t] = "stamped"
    /\ failures < MaxFailures
    /\ failures' = failures + 1
    /\ pc' = [pc EXCEPT ![t] = "idle"]
    /\ UNCHANGED <<counter, persisted, store, committed_writes, lock, state,
                   snapshot_ts, write_set, commit_ts, saved, seen, pending,
                   gcVars, snapTs, restarts>>

(* batch_write_at fails: `?' returns, the guard is dropped, the            *)
(* transaction stays Active and may be committed again.                    *)
commit_fail(t) ==
    /\ pc[t] = "stamped"
    /\ failures < MaxFailures
    /\ failures' = failures + 1
    /\ lock' = NoTx
    /\ pc' = [pc EXCEPT ![t] = "idle"]
    /\ UNCHANGED <<counter, persisted, store, committed_writes, state,
                   snapshot_ts, write_set, commit_ts, saved, seen, pending, gcVars,
                   snapTs, restarts>>

(* cw.insert followed by the automatic pruning.  (saturating_sub would     *)
(* give 0 where this difference is negative; no timestamp is below 1.)     *)
Prune(cw, ts) ==
    IF Cardinality(cw) > GC_THRESHOLD
    THEN {e \in cw : e.ts > ts - GC_THRESHOLD}
    ELSE cw

RecordWrites(t) ==
    Prune({e \in committed_writes : e.ts # commit_ts[t]}
              \cup {[ts |-> commit_ts[t], keys |-> WriteKeys(t)]},
          commit_ts[t])

(* The keys are recorded, the lock is dropped; only every PersistEvery-th  *)
(* timestamp goes on to save the oracle before the state is Committed.     *)
commit_record(t) ==
    /\ pc[t] = "applied"
    /\ committed_writes' = RecordWrites(t)
    /\ lock' = NoTx
    /\ IF commit_ts[t] % PersistEvery = 0
       THEN /\ pc' = [pc EXCEPT ![t] = "persist"]
            /\ state' = state
       ELSE /\ pc' = [pc EXCEPT ![t] = "idle"]
            /\ state' = [state EXCEPT ![t] = "Committed"]
    /\ UNCHANGED <<counter, persisted, store, snapshot_ts, write_set,
                   commit_ts, saved, seen, pending, gcVars, snapTs, bounds>>

(* persist_to_db loads the counter ...                                     *)
persist_load(t) ==
    /\ pc[t] = "persist"
    /\ saved' = [saved EXCEPT ![t] = counter]
    /\ pc' = [pc EXCEPT ![t] = "put"]
    /\ UNCHANGED <<counter, persisted, store, committed_writes, lock, state,
                   snapshot_ts, write_set, commit_ts, seen, pending, gcVars, snapTs,
                   bounds>>

(* ... and puts it; an error is ignored.  The commit is then finished.     *)
persist_put(t) ==
    /\ pc[t] = "put"
    /\ \/ persisted' = saved[t]
       \/ persisted' = persisted
    /\ pc' = [pc EXCEPT ![t] = "idle"]
    /\ state' = [state EXCEPT ![t] = "Committed"]
    /\ UNCHANGED <<counter, store, committed_writes, lock, snapshot_ts,
                   write_set, commit_ts, saved, seen, pending, gcVars, snapTs, bounds>>

--------------------------------------------------------------------------------
(* TransactionManager::snapshot reads the counter without a lock.          *)
snapshot ==
    /\ snapTs = -1
    /\ snapTs' = counter
    /\ UNCHANGED <<counter, persisted, store, committed_writes, lock, txVars,
                   gcVars, bounds>>

(* The watermarks a caller may pass to the two collectors: the comment on  *)
(* gc_watermark calls it the oldest active transaction's snapshot          *)
(* timestamp, so a caller stays at or below every snapshot still read.     *)
Watermarks ==
    {w \in 1 .. counter - 1 :
        /\ \A t \in Tx : state[t] = "Active" => w <= snapshot_ts[t]
        /\ snapTs # -1 => w <= snapTs}

gc_committed_writes(w) ==
    /\ lock = NoTx
    /\ committed_writes' = {e \in committed_writes : e.ts > w}
    /\ UNCHANGED <<counter, persisted, store, lock, txVars, gcVars, snapTs,
                   bounds>>

(* gc_before iterates first and deletes what it collected later, in one    *)
(* batch; commits may be applied in between.                               *)
gc_before_scan(prefixKeys, w) ==
    /\ gcBatch = {}
    /\ gcBatch' = gc_candidates(store, prefixKeys, w)
    /\ gcBatch' # {}
    /\ gcMark' = w
    /\ UNCHANGED <<counter, persisted, store, committed_writes, lock, txVars,
                   snapTs, bounds>>

gc_before_delete ==
    /\ gcBatch # {}
    /\ store' = {r \in store : ~ \E d \in gcBatch : d.key = r.key /\ d.ts = r.ts}
    /\ gcBatch' = {}
    /\ UNCHANGED <<counter, persisted, committed_writes, lock, txVars, gcMark,
                   snapTs, bounds>>

(* The process dies and a new one opens the database: load_from_db starts  *)
(* the oracle one above the saved value, everything in memory is lost.     *)
RestartCounter == persisted + 1

Restart ==
    /\ restarts < MaxRestarts
    /\ restarts' = restarts + 1
    /\ counter' = RestartCounter
    /\ committed_writes' = {}
    /\ lock' = NoTx
    /\ state' = [t \in Tx |-> "Unused"]
    /\ snapshot_ts' = [t \in Tx |-> 0]
    /\ write_set' = [t \in Tx |-> NoWrites]
    /\ commit_ts' = [t \in Tx |-> 0]
    /\ pc' = [t \in Tx |-> "idle"]
    /\ saved' = [t \in Tx |-> 0]
    /\ seen' = [t \in Tx |-> {}]
    /\ pending' = [t \in Tx |-> {}]
    /\ gcBatch' = {}
    /\ gcMark' = 0
    /\ snapTs' = -1
    /\ UNCHANGED <<persisted, store, failures>>

--------------------------------------------------------------------------------
commit(t) ==
    \/ commit_check(t)
    \/ commit_stamp(t)
    \/ commit_apply(t)
    \/ commit_fail(t)
    \/ commit_record(t)
    \/ persist_load(t)
    \/ persist_put(t)

Next ==
    \/ \E t \in Tx : begin(t)
    \/ \E t \in Tx, k \in Keys, v \in Values \cup {Tombstone} : put(t, k, v)
    \/ \E t \in Tx : rollback(t)
    \/ \E t \in Tx : commit(t)
    \/ snapshot
    \/ \E w \in Watermarks : gc_committed_writes(w)
    \/ \E K \in (SUBSET Keys) \ {{}}, w \in Watermarks : gc_before_scan(K, w)
    \/ gc_before_delete
    \/ Restart

Spec == Init /\ [][Next]_vars

(* A thread that has entered the critical section is scheduled again: none *)
(* of the steps in it waits for anything.                                  *)
CommitSteps(t) == commit_stamp(t) \/ commit_apply(t) \/ commit_fail(t)
                      \/ commit_record(t)

FairSpec == Spec /\ \A t \in Tx : WF_vars(CommitSteps(t))

--------------------------------------------------------------------------------
(* The values each variable takes.                                         *)
TypeOK ==
    /\ counter \in Nat \ {0}
    /\ persisted \in Nat
    /\ store \subseteq Version
    /\ committed_writes \subseteq Entry
    /\ lock \in Tx \cup {NoTx}
    /\ state \in [Tx -> {"Unused", "Active", "Committed", "RolledBack"}]
    /\ snapshot_ts \in [Tx -> Nat]
    /\ write_set \in [Tx -> WriteSets]
    /\ commit_ts \in [Tx -> Nat]
    /\ pc \in [Tx -> Locked \cup {"idle", "persist", "put"}]
    /\ saved \in [Tx -> Nat]
    /\ seen \in [Tx -> SUBSET Tx]
    /\ pending \in [Tx -> SUBSET Tx]
    /\ gcBatch \subseteq Version
    /\ gcMark \in Nat
    /\ snapTs \in Nat \cup {-1}
    /\ failures \in Nat
    /\ restarts \in Nat

(* Write-write conflicts (commit's inline check under the committed_writes *)
(* lock): of two committed transactions that wrote a common key, the later *)
(* one had the earlier one's commit in its snapshot, unless the earlier    *)
(* commit is more than GC_THRESHOLD timestamps older, in which case the    *)
(* automatic pruning may have forgotten it.                                *)
FirstCommitterWins ==
    \A t, u \in Tx :
        /\ Recorded(t) /\ Recorded(u)
        /\ WriteKeys(t) \cap WriteKeys(u) # {}
        /\ commit_ts[t] < commit_ts[u]
        => \/ commit_ts[t] <= snapshot_ts[u]
           \/ commit_ts[t] + GC_THRESHOLD < commit_ts[u]

(* What a transaction that is still running reads at its snapshot (get_at) *)
(* only changes when a commit that had drawn its timestamp but not yet     *)
(* written its batch when the transaction began is applied: no other       *)
(* commit, no garbage collection and no other step disturbs it, so a       *)
(* transaction that began at a quiet moment reads a stable snapshot.       *)
OnlyInFlightDisturbs ==
    [][\A t \in Tx, k \in Keys :
          /\ state[t] = "Active" /\ state'[t] = "Active"
          /\ get_at(store', k, snapshot_ts[t]) # get_at(store, k, snapshot_ts[t])
          => \E u \in pending[t] : pc[u] = "stamped" /\ pc'[u] = "applied"]_vars

(* A commit inside a running transaction's snapshot stays visible to it:   *)
(* of every key it wrote, the store keeps that version or a newer one the  *)
(* snapshot still covers, whatever gc_before deletes meanwhile.            *)
CommitsStayVisible ==
    \A t, u \in Tx :
        /\ Applied(t) /\ state[u] = "Active"
        /\ commit_ts[t] <= snapshot_ts[u]
        => \A k \in WriteKeys(t) :
               \E r \in store : /\ r.key = k
                                /\ commit_ts[t] <= r.ts
                                /\ r.ts <= snapshot_ts[u]

(* Deleting what gc_before collected changes no read at or above its       *)
(* watermark, although commits were applied between the scan and the       *)
(* delete.                                                                 *)
GcPreservesReads ==
    [][gcBatch # {} /\ gcBatch' = {} /\ restarts' = restarts
          => \A k \in Keys, ts \in gcMark .. counter :
                 get_at(store', k, ts) = get_at(store, k, ts)]_vars

(* A read-only Snapshot settles (snapshot reads the counter, which is the  *)
(* timestamp the next commit will draw): once the oracle has passed its    *)
(* timestamp and no commit at or below it is still to be applied, nothing  *)
(* changes what it reads, garbage collection included.                     *)
SnapshotSettles ==
    [][/\ snapTs # -1 /\ snapTs' = snapTs /\ snapTs < counter
       /\ \A u \in Tx : pc[u] = "stamped" => commit_ts[u] > snapTs
       => \A k \in Keys : get_at(store', k, snapTs) = get_at(store, k, snapTs)]_vars

(* The lock on committed_writes is released: a commit that has entered the *)
(* critical section leaves it, whether its batch is written or fails.      *)
LockReleased == \A t \in Tx : lock = t ~> lock # t

--------------------------------------------------------------------------------
(* Claims of the documentation that the code does not meet; the runs named *)
(* in the README show how.                                                 *)

(* README.md "Write-write conflicts detected at commit time": of two       *)
(* committed transactions that wrote a common key, one found the other's   *)
(* writes in the store when it began.                                      *)
NoLostUpdate ==
    \A t, u \in Tx :
        /\ t # u /\ Recorded(t) /\ Recorded(u)
        /\ WriteKeys(t) \cap WriteKeys(u) # {}
        => t \in seen[u] \/ u \in seen[t]
================================================================================
