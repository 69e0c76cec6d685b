# A TLA+ verification project for Synaptica

Synaptica is a property-graph database in Rust: a GQL front end and executor over
RocksDB, an MVCC transaction manager, and a Raft-replicated cluster mode. This
directory holds TLA+ models of the parts of it where interleaving, failure and
restart decide correctness, TLC runs that check them on small instances, and
TLAPS proofs, for instances of any size, of every safety property of the six
concurrent components and of the byte-level store, of the refinement between two of
the modules, and of the parts of the query path that compute on numbers and sequences.
`PROJECT.json` lists the components, the runs, which lines each definition
models, what the runs found, and the hazards of the code with the properties that
watch them.

Run a check with `tlc -workers 2 -config <file>.cfg <module>` and a proof with
`tlapm <module>.tla`, both in this directory.

## 1. Inventory

Paths are relative to `src/crates/`.

| component | state it keeps | operations | what makes it correct |
|---|---|---|---|
| timestamp oracle (`synaptica-storage/src/mvcc.rs`) | an atomic counter, its last saved value in RocksDB | `next`, `current`, `persist_to_db`, `load_from_db` | timestamps grow, across restarts too |
| multi-version store (same file) | versions under `key ++ !timestamp` | `put_at`, `delete_at`, `batch_write_at`, `get_at`, `prefix_scan_at`, `gc_before` | a read returns the newest version at or below its timestamp; collection changes no read at or above its watermark |
| transaction manager (`synaptica-tx`) | `committed_writes` under a lock; per handle its state, snapshot and write set | `begin`, `get`, `put`, `delete`, `commit`, `rollback`, `snapshot`, `gc_committed_writes` | first committer wins; a transaction reads a stable snapshot; the lock is released |
| 2PC coordinator (`synaptica-cluster/src/distributed_tx.rs`) | transaction records, a decision log, participant handles | `begin_distributed_tx`, `prepare`, `commit`, `abort`, `recover` | one outcome everywhere; no commit without all votes; log before telling |
| graph store (`synaptica-storage/src/engine.rs`) | node and edge records, label and adjacency tables, graph metadata | `put_node`, `put_edge`, `delete_edge`, `delete_node`, `delete_graph`, scans, export | derived tables agree with the records; no edge without its nodes |
| property index (`synaptica-storage/src/index.rs`) | index definitions and entries | `create_index`, `drop_index`, `index_node`, `unindex_node`, `lookup`, `range_scan` | entries agree with stored nodes; unique values are unique |
| Raft log store (`synaptica-cluster/src/log_store.rs`) | log entries; vote, committed, applied, purged and membership markers; the current snapshot | the `RaftStorage` calls of openraft | committed entries survive; every committed entry is applied once, in order |
| replicated state machine (`state_machine.rs`) | the graph store of the replica | `apply` | replicas that applied the same log hold the same graph |
| client and cluster services (`synaptica-server`) | handles on the store and on Raft | `execute`, forwarding, membership changes, schema, import/export, backup | an acknowledged write is replicated; reads and writes of a request name the same graph |
| GQL front end (`lexer.rs`, `parser.rs`, `ast.rs` of `synaptica-gql`) | position and depth while reading a text | `tokenize`, `parse` | a text means one tree, errors are reported where they are |
| planner (`planner.rs`) and the optimizer in `synaptica-exec` | none | `plan`, `optimize` | the plan means what the statements say; an index changes no answer |
| execution engine (`synaptica-exec`) | counters of one program | one operator per plan node, `evaluate` | rows follow from the graph; three-valued logic, ordering and counters are right |
| semantic analyzer, catalog and optimizer of `synaptica-gql`, full-text index, write-ahead log of `synaptica-tx` | tables | | nothing calls them |
| partition table, routing, membership, rebalancing, snapshots (`synaptica-cluster`) | in-memory tables, unused by the server | `add_partition`, `route`, `add_node`, ... | ranges partition the key space |
| MCP server, CLI, web UI, configuration, authentication, metrics | sessions, settings, counters | request translation | out of scope |

How they interact. The server parses a query and either runs it on the local
`StorageEngine` or proposes its text to Raft; when the entry is committed every
replica's `RocksLogStore` calls `StateMachineApplier`, which executes the same text
on its own `StorageEngine`. All of them share one RocksDB. `TransactionManager` and
`TwoPhaseCoordinator` are libraries: they are public and tested, but no RPC
uses them yet. `StorageEngine` has no lock of its own, and gRPC handlers call it
from several threads.

The hard behaviours: commits that overlap with `begin` and with each other
(no lock is common to both); garbage collection between scan and delete; restarts
from an old saved counter; coordinator calls that interleave between their lock
scopes, partial failure while telling participants, crashes; point reads and
write batches of different threads that interleave in the graph store and
between a node and its index entries; in the Raft store, multi-step updates cut
by a crash; in the cluster, leader changes and broken connections while a write
is on its way. The query pipeline is sequential; there the difficulty is the
number of cases (operators, nulls, limits, self-loops). `PROJECT.json` "hazards"
has them one by one, with their lines.

## 2. The modules

| module | models | kind |
|---|---|---|
| `MvccStore` | the versioned store as a set of versions | operators, no state |
| `TxManager` | transaction manager, oracle, both collectors, restart | state machine over `MvccStore` |
| `TxManagerProofs` | | TLAPS proofs |
| `VersionedKeys` | the versioned store at byte level, next to `MvccStore` | state machine |
| `VersionedKeysProofs` | | TLAPS proofs |
| `AtomicCommit` | what a distributed commit promises | abstract specification |
| `TwoPhaseCommit` | the coordinator and its participants | state machine, refines `AtomicCommit` |
| `TwoPhaseCommitProofs` | | TLAPS proofs |
| `GraphStore` | node and edge records and their derived tables | state machine |
| `GraphStoreProofs` | | TLAPS proofs |
| `PropIndex` | property indexes and the statements that maintain them | state machine |
| `PropIndexProofs` | | TLAPS proofs |
| `RaftStore` | the log store under openraft, with crashes | state machine |
| `RaftStoreProofs` | | TLAPS proofs |
| `ClusterWrite` | requests, forwarding, the log and the replicas | state machine |
| `ClusterWriteProofs` | | TLAPS proofs |
| `GqlAst` | the syntax tree | constructors |
| `GqlLexer`, `GqlParser` | lexer and parser | operators on their state |
| `Planner` | statements to plans | operators |
| `Values` | values, their operators, functions and order | operators |
| `Evaluate` | expressions over a record | operators |
| `Executor` | plan operators, optimizer, index maintenance, procedures | operators on a graph |
| `QueryReference` | what tokens, trees, walks and values should be | reference definitions |
| `Streaming` | the chunks of a streamed answer | operators |
| `Query` | composes them: one query from text to chunks | state machine |
| `QueryProofs` | of `GqlLexer`, `Values` and `Streaming` | TLAPS proofs |
| `MC...` | TLC instances | constants, symmetry, one constraint |

Every state machine but `AtomicCommit`, `VersionedKeys` and `Query` states its types as `TypeOK`. The runs whose
properties already fail on an ill-typed state leave it out.

Definitions named `...` with a comment that starts with "Fault:" (or `\* fault`) are
deliberate mistakes. No specification uses them; each one shows, substituted for
the definition next to it, that a property can fail.

### TxManager

Variables carry the code's names: `counter`, `committed_writes`, `state`,
`snapshot_ts`, `write_set`, `commit_ts`. `lock` is the write lock on
`committed_writes`, `pc` says where a thread is inside `commit`. A handle's calls
are sequential (`&mut Transaction`), so a handle is also a thread. `commit` becomes
`commit_check` (lock, conflict check), `commit_stamp` (`next()`), `commit_apply` or
`commit_fail` (`batch_write_at` and its `?`), `commit_record` (entry, pruning,
unlock), `persist_load` and `persist_put` (the save of the oracle, outside the
lock): these are the points between which another thread can see a difference,
because `begin`, reads and `snapshot` take no lock. A refused commit (a
conflict) changes nothing the other threads see and is the absence of a step;
the owner may roll back or try again.

`Restart` forgets all handles and sets the counter to `persisted + 1` as
`load_from_db` does; `persist_put` may be late or never happen, which also covers a
save whose error is dropped. `write_set` keeps the last write per key: that is
what `get` finds first and what a write batch leaves. `seen` and `pending` are
history variables for the properties. The field `gc_watermark`, which is written
and never read, is left out. The garbage collector's watermark is not above any
running snapshot; the code leaves the choice to its caller, and the field's
comment says which value is meant. One collector runs at a time.

### MvccStore and VersionedKeys

`MvccStore` is the meaning of `get_at`, `batch_write_at` and `gc_before` on a set of
versions. `VersionedKeys` has the loops of the code: forward scans over keys ordered
by bytes, with inverted big-endian timestamps, the early `break`, the last-key and
found-visible flags. Every operation runs on both representations, and the
properties say they agree. They do when no key begins another one (`PrefixFree`), as with keys
of one length; section 5 says what happens otherwise.

### TwoPhaseCommit and AtomicCommit

The coordinator is `&self`, so `Threads` call `prepare`, `commit` and `abort`
concurrently. Each call is split at its lock releases: check and set the state;
log; one call per participant; final state. Participants are external: of each the
model keeps what it voted for, committed and aborted; a call to one may fail with
or without effect, and a partition without a handle is an error. The log is the
set of its records, in memory as `TwoPhaseCoordinator::new` creates it, so `Crash`
loses it along with the records and restarts ids at 1. `Disciplined` restricts
callers to the order the documentation describes (abort after a failed prepare,
commit after a successful one, one caller per transaction).

### GraphStore

A thread is inside at most one call. Each RocksDB read and each write batch is a
step; a call abandoned for ever is a crash. Callers behave as the executor does:
a new record gets a fresh id, an edge is created between nodes that were matched
at that moment, SET stores a record it has read. Three history flags record which
kinds of calls have overlapped so far; the properties that need them say so.

### PropIndex

A statement is a sequence of storage calls of one thread: INSERT stores the node
and then indexes it; SET reads, removes the old entries, stores, indexes; DELETE
reads, removes entries, deletes; CREATE INDEX stores the definition and then indexes
the nodes it lists; DROP INDEX removes the definition, scans and deletes. The check
of `index_node` and the put it guards are two steps, because the mutex between them
belongs to an `IndexManager` made for this one call. `race`, `together` and `partial` are
history: statements on one node (or on an index) overlapped; any two overlapped; an
index was created for one label, redefined, or refused an entry whose error was
dropped. The properties name the one they need. A node record is written whole
here; `GraphStore` splits that call.

### RaftStore

The variables are the rows of RocksDB (`log`, `vote`, `last_purged`, `committed`,
`last_applied`, `last_membership`), the graph as the sequence of queries run on it, and the
snapshot in memory. `op` is what the current storage call still has to write: each put
or delete is a step, and `Crash` may come between any two. openraft is the caller: it
makes one storage call at a time except `build_snapshot`, appends after its last entry,
deletes a conflicting suffix, commits what a majority has, applies what is committed,
purges what its snapshot covers, and after a crash reads the markers (`Recover`). Two
leaders write: entries of term 1 up to `Shared` survive, above it those of term 2 are chosen.
`lost`, `torn` and `blurred` are history for the three ways state can be incomplete.

### ClusterWrite

A request is a record that says which handler it is in. `dispatch_query` runs a read on
the node; a write goes to `client_write`, is proposed if the node takes itself for leader,
else forwarded once, to the address `forward_target` finds. The forwarded call runs
`forward_write` at the target, which answers and never forwards. A connection may fail
before the call or at any point of it. External: a proposal is committed, or lost once
its proposer is no longer leader (openraft then answers `ForwardToLeader`, the error
`client_write` also starts with); every node applies the log in order; a node's belief
about the leader may be old or missing. Writes are kept as pairs of graph id and request,
with `from_name` and `to_string` as constructors that never meet.

A node applies an entry in two steps, as `RocksLogStore` does: `apply_mark` stores
LAST_APPLIED, `apply` runs the query and answers who waits for it. `running` holds the nodes
between the two, `missed` the entries that a node's marker counts and whose query it has not
run: the one in progress, the one a `Crash` cut off there, and those a snapshot jumped over
(`install_snapshot`: the marker moves, the data does not come). `Ran(n)` is the rest, and the
properties about stores and answers speak of it. A write of kind `PartInsert` stands for
INSERT, SET and DELETE statements that stop at an error in a later row or element
(`engine.rs:1241-1262`): it answers with an error and what was stored before it stays.

### The query pipeline

`GqlLexer`, `GqlParser`, `Planner`, `Values`, `Evaluate`, `Executor` and `Streaming` translate the functions of the
code under their names; `Query` runs them one after the other as the server does. The state
of lexer and parser is a record that a function takes and returns, the `?` of Rust an `ok`
field. The methods of the parser call one another through `Method`, which has a case for
each name, so that one declaration ties the mutual recursion. The loops of the lexer are
recursive functions on the number of turns, so that they can be reasoned about. A graph is a record of nodes, edges, indexes and entries. Names and keywords are
strings, a String value a sequence of letters, a Float one with an integral value or NaN. An integer
has a parametric width, and so has the conversion to a Float: `as_f64` is exact up to
`MaxExact` (2^53) and rounds half to even beyond. New ids are drawn from `FreshIds`.

`QueryReference` states the same things another way: `WriteProgram` prints a tree with
the parentheses its precedence needs; `Answers` is the set of walks of a pattern;
`Kleene` and `Exactly` are logic and arithmetic without short cuts or width.

## 3. The runs

| run | checks | shows |
|---|---|---|
| `isolation` | `TypeOK`, `FirstCommitterWins`, `CommitsStayVisible`, `OnlyInFlightDisturbs`, `GcPreservesReads`, `SnapshotSettles` | conflict detection, snapshots and collectors with three overlapping transactions, a failing batch and a pruning threshold of one |
| `restart` | `OnlyInFlightDisturbs`, `LockReleased` | the same inside a process that restarted with a stale counter, or after a failing write; the critical section is always left |
| `lost_update` | `NoLostUpdate` (violated) | two writers of one key both commit, neither having seen the other |
| `versioned_keys` | `DbHoldsVersions`, `ReadsAgree` | byte-level scans compute the abstract answers for keys of which none begins another |
| `dtx_races` | `CommitRequiresVotes`, `CommittedMeansTold`, `OneCommitter`, `LogComesFirst` | what survives any interleaving of calls, failures and a crash |
| `dtx_disciplined` | `AtomicIfDisciplined`, `ImplementsAtomicCommit` | under the documented call order the coordinator implements `AtomicCommit` |
| `graph_store` | `TypeOK`, `IndexComplete`, `IndexExact`, `NoOrphanEdges` | scans miss no record under any interleaving; leftovers and dangling edges need the named overlaps |
| `raft_store` | `AtMostOnceInOrder`, `LogMatching`, `CommittedPresent`, `EveryLossExplained`, `MembershipCurrent`, `SnapshotConsistent`, `EventuallyApplied` | the log survives crashes between any two writes; queries run at most once and in order; what is missing has one of three named causes, and all else takes effect in the end |
| `prop_index` | `EntriesSound`, `UniqueAlone`, `IndexScanAgrees` | indexes agree with records as long as statements on one node do not overlap |
| `query` | `TokensExact` (spans, relexing), `ParseInverts`, `ExpressionsExact` (Kleene logic, exact arithmetic, comparisons of both kinds of number), `RowsAgree` (matches, order, index plans, aggregates), `WritesExact` (counters, indexes), `ChunksExact` | each stage computes what its reference definition says |
| `cluster_write` | `AtMostOnce`, `AnswerTells`, `ReadsFollowLog`, `EventuallyAnswered` | one request, one entry; no false answer, also of a write that fails half-way; a replica holds what the queries it ran made of the log; nobody waits for ever |
| `default_graph` | `ReadsFollowLog` (violated) | writes and reads that name no graph use different graphs |

What the two violated claims say about the code:

* `lost_update`: `begin` takes `tx_id - 1` as its snapshot without the lock. If it runs
  between another commit's `next()` and its `batch_write_at`, its snapshot covers a
  commit whose data is not in the store, and the check `ts > snapshot_ts` lets it
  overwrite that data. `OnlyInFlightDisturbs` shows that this window is the only way a
  running transaction's reads change.
* `default_graph`: `resolve_graph_name` turns the empty name into the text of the default
  graph's id; `StateMachineApplier` takes `GraphId::from_name` of what it gets, so the write
  lands in a graph no client asked for. `cluster_write` has only named graphs and passes.

Some promises hold with a stated exception, and the exception is part of the property:
pruning by age (`FirstCommitterWins` has the disjunct for a commit more than `GC_THRESHOLD`
older); the read-only `Snapshot` (`SnapshotSettles`: its timestamp is the one the next commit
draws); the history flags of `GraphStore`, `PropIndex` and `RaftStore`; nodes that were
written around Raft (`direct` in `ReadsFollowLog`) and entries a node marked and never ran
(`missed`); an Integer beyond 2^53 that meets a Float (`ComparesExact`). `EventuallyApplied`
asks that a committed query runs, or a membership is stored, and excepts the query that a crash cut off behind its
marker or a snapshot jumped over (`lost`) and the membership of a snapshot torn by a crash (`torn`).
A hazard whose overlap is such an exception says so in its note: there the code does go
wrong, and the property shows that nothing else does.

### Bounds

* `isolation`: three transactions are the least for a pruned entry to matter (one to
  be pruned, one whose commit prunes it, one that should have seen it); one key makes
  every pair overlap; `GC_THRESHOLD = 1` and one failing batch put both cases within
  reach. Two transactions are enough for `restart` and `lost_update`; `restart` has one
  restart or one failing write in a behaviour (`OneFault`), not both.
* `versioned_keys`: two binary digits give four timestamps with 0 and the maximum
  among them; four versions of three keys, not all of one length, fill a group, its neighbour
  and the end; a prefix that extends a key makes a scan start among that key's versions.
* `dtx_*`: two registered partitions and one unregistered; three threads so that one
  call of each kind is in progress at once; one crash.
* `graph_store`: two threads, two nodes, one edge that may be a self-loop, one label:
  every pair of calls on the same record overlaps in every way.
* `raft_store`: four indexes, batches of two, memberships in the middle, one index shared by
  both leaders, two crashes: a crash may cut a deletion, and a second one its recovery.
* `prop_index`: two threads, two nodes, two properties with one value or null, one index name
  that can be redefined; two statements of each kind of change.
* `query`: all texts of up to four characters of an alphabet with a letter of each class the
  lexer tells apart; expressions with up to three operators around every pair of levels of
  precedence and one level past the depth limit of two; integers of four bits, of which those
  beyond four are rounded as Floats; sums that do not fit; graphs of
  three nodes, with no label, one and two, and hops that ask for none, one or two; an alias
  that is also the name of a property; every subset of four edges, a self-loop and a pair of opposite edges
  among them, with and without an index, properties present or not; chunks of two rows.
* `cluster_write`: two nodes, two requests, two faults. Two nodes disagree about the leader
  in every way; a leader change and a crash, or a crash between marker and query or a
  snapshot, happen within one request. One request is any statement, the other any that meets it.

Symmetry is used for threads, handles, keys and nodes, none of which the specifications
distinguish, and never in a run with a liveness property. Deadlock checking is off where
a behaviour may end: bounded handles, failures and crashes run out, a query is done, all
requests are answered. `VersionedKeys` and `GraphStore` never stop.

### Fairness

* `TxManager`: weak fairness of the steps a thread takes inside the critical section of
  `commit`. None of them waits for anything (a store call returns or fails), so an operating
  system that schedules the thread justifies it.
* `RaftStore`: weak fairness of the steps of a storage call that has begun, and strong fairness
  of the call that applies what is committed: openraft's state machine task is never starved
  by the other storage calls, which it interleaves with.
* `ClusterWrite`: weak fairness of every handler, of the settlement of each request's proposal,
  one way or the other (openraft, while a majority is up), and of application on each node.
  Nothing is assumed about elections, heartbeats or
  connections. Without the settlement a request would wait for ever: `client_write` has no
  timeout. Nor has the forwarded call: fairness of the handler at the target assumes that the
  target goes on and that its answer, or the end of the connection, reaches the caller; a target
  that hangs with the connection open is not covered.

## 4. What is proved

The proofs hold for all values of the constants under the named assumptions
`StoreAssumption`, `TxAssumption`, `DtxAssumption`, `GraphAssumption`, `RaftAssumption`,
`ConstantsFit`, `IndexAssumption`, `EncodingAssumption` and `IntAssumption`. They say that bounds
are naturals, that there are at least two byte values and a byte of timestamp, that special
values differ from ordinary ones, that node ids are not index names, that graph names
are sequences (a name is the list of its parts, so that `from_name` and `to_string` are
constructors), and that addresses are those of cluster nodes. TLC evaluates them in every
run. `Implementation`, `NamedReadsFollowLog` and those of `VersionedKeysProofs` that need keys of
which none begins another have a hypothesis of their own, given below.

Every invariant a run checks of the six concurrent components and of `VersionedKeys` is stated by
a theorem, and so is every action property. Most of them are not inductive. Each proof module starts with the
inductive invariant as a conjunction of named parts, or states it where a second one
is needed; lemmas about the steps follow, then the theorems.

`TxManagerProofs`
: `TypeCorrect` (`[]TypeOK`) and `ConflictsDetected` (`[]FirstCommitterWins`).
  `FirstCommitterWins` speaks of recorded commits only and is not inductive.
  The inductive invariant adds: only an active transaction is inside `commit` and
  the one in the critical section holds the lock (`LockInv`); timestamps are below
  the counter, and a stamped commit is later than every recorded one (`TimeInv`); a
  recorded commit that a running transaction has not seen is still in
  `committed_writes`, unless a commit `GC_THRESHOLD` later exists (`EntryInv`); whoever
  has passed the check overlaps only with commits in its snapshot or with such old
  ones (`CheckInv`). `CheckStep` turns entries into the passed check, `StampStep` orders
  timestamps, `RecordStep` turns the passed check into the property; all other steps are
  covered by two frame lemmas.

  `VisibilityKept`, `CollectionInvisible`, `SnapshotsStable` and `ReadOnlySettles` prove the
  other invariant and the three action properties from a second invariant, `ReadInv`: one version
  per key and timestamp, also when a restart has handed a timestamp out again
  (`OneVersion`); what `gc_before` has collected is superseded at or below a
  watermark no reader is below, until it is deleted (`BatchInv`); a commit on its way that
  a snapshot covers was on its way at `begin` (`PendingInv`); the store keeps a
  covered commit or a newer version (`VisibleInv`). `get_at` is a CHOOSE over the newest version;
  `NewestExists` and `ReadIs` say when it is defined and what it is, `LaterBatch`,
  `NewestStays` and `DeleteReads` which batches and deletions leave it alone. `gc_before`
  collects first and deletes later; that commits in between do no harm follows because they only
  add versions, and a superseded version stays superseded.

`TwoPhaseCommitProofs`
: `TypeCorrect`; `VotesBeforeCommit`, `CommittedIsComplete`, `CommitIsExclusive` from one
  invariant (which states a record can be in while a call is inside it, that prepare
  and commit calls exclude each other, and that the participants before a thread's
  index have answered); `WriteAhead`, an action property, from "a thread past its log
  record has it in the log"; and `DisciplinedAtomicity` from "a state tells which outcome
  participants may have seen", which needs the discipline and no crash.

  `Implementation` is the refinement: `Disciplined` and `MaxCrashes = 0` imply
  `Spec => ImplementsAtomicCommit`. Both hypotheses are needed (section 5 says what the
  code does without them) and are the constants of the run `dtx_disciplined`. Besides
  the invariants above it uses `LogFollowsState`: the log agrees with the state of the
  record, the decision is logged once, and every call works on the participant list that the only
  `prepare` stored. Each action is then shown to be a step of `AtomicCommit` or a stutter;
  enlisting is `prepare_start`, deciding is the log record.

`GraphStoreProofs`
: `TypeCorrect` and `ScansMissNothing` (`[]IndexComplete`). A batch may be built from a
  record that has been replaced since it was read; the proof shows why that loses no
  key: every key holds the id of its record, so a batch removes keys of its own record
  only, and puts the new keys last. `IndexComplete` is not inductive because
  `delete_graph` empties an index whatever the records are; `DropAlone` adds that a
  `delete_graph` that has overlapped with nothing is alone and that nodes and edges are
  gone before the first index is emptied.

  `IndexesStayExact` (`[]IndexExact`): a stale record may leave keys behind only if two
  calls disagree about its shape. `ExactInv` says that, without such an overlap, a call
  that changes labels or end points is alone and has read the stored record (`ShapeAlone`), that all
  others agree with each other and with the record (`NodesAgree`, `EdgesAgree`), that stored ids have
  been handed out, so that an INSERT meets no other call on its id (`UsedInv`), and what
  `delete_graph` has emptied so far (`DropEmpties`).

  `EdgesKeepTheirEnds` (`[]NoOrphanEdges`): `OrphanInv` says that `put_edge` and calls that
  remove nodes do not meet (`Apart`), that the list of a `delete_node` holds every edge that is still stored at
  its node (`KnowsEdges`, from `EdgesIndexed`), that the ends a `put_edge` was
  given are stored (`HasEnds`), and that `delete_graph` removes edges before nodes (`DropsEdges`).

`PropIndexProofs`
: `TypeCorrect`, `EntriesStaySound`, `UniqueWhenAlone` and `ScansAgree`. `AloneInv` relates the history flags
  to the statements under way: without `race` they are about different nodes, or one about
  an index is alone. Therefore what a statement has read stays so (`WorkInv`). `ExactInv` is
  stronger than both properties it serves: for each index and node it says which entry must be
  there at that point of whatever statement is under way (`Due`, `Blanked`), and that
  there is no other. `UniqueInv` says that between `index_node`'s check and its put nobody
  takes the value, if no two statements overlapped.

`RaftStoreProofs`
: `TypeCorrect`, `AppliedOnceInOrder`, `LogMatches`, `CommittedStays`, `LossExplained`,
  `MembershipFollows` and `SnapshotsConsistent`. No marker is ahead of the applied one
  (`MarkInv`); above it a log of the first leader has no hole, what precedes a chosen
  entry is chosen, an append continues its leader's log and a deletion takes what is applied or
  what the cluster did not choose (`LogInv`); the entries still to apply follow the
  marker without a gap (`TodoInv`); the graph holds queries up to the marker, short of the one in
  flight (`GraphInv`); the membership lags by the entry in flight, and an undisturbed builder has read
  the marker as it is (`MemInv`). The invariant holds between any two puts or deletes, so
  that a crash, which forgets the call, preserves it; that is why it speaks of the pending
  part of a call rather than of the calls as wholes.

`ClusterWriteProofs`
: `TypeCorrect`, `NeverTwice`, `AnswersTell`, `ReplicasConverge` (a consequence no run
  states: nodes that ran the queries of the same entries hold the same, whatever names clients use)
  and `NamedReadsFollowLog`. A request is in one place, with its handlers, with openraft or in the log
  (`PlaceInv`); what an answer says holds already while it is on its way (`AnswerInv`); a logged entry
  is a write under the name its client gave (`LogInv`); an entry that a node is about to run is the
  last its marker counts and still among the missed ones (`MarkerInv`), so that entries are run in the order
  of the log and none twice; the store of a node is what the entries it ran, `Ran(n)`,
  make of an empty one (`StoreInv`). Equal markers are not enough for equal stores: a crash or
  a snapshot may have taken an entry from one of the two nodes. `MovesKeep` covers all handler steps
  that do not touch the log; the steps of openraft and of the state machine have lemmas of their own.
  `NamedReadsFollowLog` assumes that the empty name is not among the graph names: the run `default_graph` shows that the
  property fails with it. The lemma behind it is that `from_name` is injective on
  names.

`VersionedKeysProofs`
: For every base and width. `Decoded`: key and timestamp are read back from what
  `encode_versioned_key` makes of them. `Order`: byte order puts the versions of a key side by
  side, newest first; this is where `PrefixFree` is needed, because a timestamp's
  bytes could otherwise be taken for those of a longer key. `MapStaysExact`: the
  invariant `Exact` (one version per key and timestamp, one entry for each) is inductive.
  `DbHoldsVersionsAlways` and `ReadsAgreeAlways` are the two properties of the run. The
  hard steps are the three loops. A scan is a CHOOSE over sorted sequences, so a lemma first
  shows that one exists; then each loop has an invariant that says what
  its accumulator holds after i items (for `gc_before`: the older versions, at or below the
  watermark, of the groups seen so far), and the last lemma of each reads the result off
  the invariant at the end.

`QueryProofs`
: About operators, for every input; `Query` itself reaches RECURSIVE operators, which the
  prover does not take. `TokenizeEnds`: the loop of `tokenize` ends in at most one
  turn per character and one more; line, column and offset of every token are those of
  its first character (`SpansRight`, the first half of `TokensExact`), and a success ends with the
  token for the end of the text and has no other. The invariant is `Placed`: a lexer state whose
  line and column are what the characters before it say; every routine keeps it and moves on
  (`Lexes`). `ChunksAlwaysRight`: `ChunksRight`, what `ChunksExact` says of the answers the run
  reaches, holds for every result and limit, 0 included. `DivisionTruncates` and
  `IntegersExact`: for every width, arithmetic fails exactly on a result that does not fit,
  in a build with overflow checks, and on the smallest integer by -1, in every build;
  what it returns is exact, or congruent if the build wraps. `SortOrder`: the comparison of ORDER BY is a
  strict weak order with NULLs first on Integers, on strings, on truth values, and on Floats other than
  NaN with the Integers up to 2^53. `SortLimits`: beyond that it is not, for any two Integers that
  round to one Float and for NaN. Section 5 says what it is on
  several kinds.

Two things in these proofs stand in for induction, which the provers cannot
instantiate. That a recursive function exists, and what it is at n, is shown by the least number
that would be a counterexample (`NatMin`, from the well-foundedness of the naturals). And
because no theorem can have an operator as a parameter, each loop body has its own
copy of the existence lemma.

Only model-checked, and why: liveness (`LockReleased`, `EventuallyApplied`,
`EventuallyAnswered`), because this prover has no rules for fairness and ENABLED;
of `Query`, that relexing gives the tokens back, that parsing inverts printing, that evaluation,
matching, aggregation and index plans agree with their references, because parser, planner,
evaluator and references are RECURSIVE operators over trees. The two violated claims have
counterexamples instead.

## 5. Where code and documents differ

Besides the two violated runs, modelling showed these; each is how the model behaves.

* `synaptica-storage/src/mvcc.rs:43` promises timestamps above any used one. The counter is saved at
  every hundredth commit and errors are dropped, so a restart reuses timestamps. `restart`
  shows what remains true.
* `get_at` ends at the first foreign key. With a key that extends another one, versions of
  the longer key sort among those of the shorter, and a stored key may be answered with None.
  The hypothesis `PrefixFree` of the proofs excludes exactly that.
* `abort` of the coordinator accepts a transaction in Committing: after a commit that
  failed half-way one participant commits and another aborts. The last block of `prepare`
  sets Prepared without looking. `dtx_disciplined` has the call order that avoids both.
* The mutex of a unique index is made anew for every call, and index errors of a
  statement are dropped: duplicates are stored, also without any overlap of statements.
* LAST_APPLIED is written before the query runs, and snapshots hold no data: a replica
  loses what a crash or a snapshot fell on. `EveryLossExplained` lists exactly these, and
  `ClusterWrite` shows what reads see of it.
* A statement that fails in a later row leaves the effects of the earlier ones stored and is
  answered with an error: there is no transaction around `execute_program`.
* `import_graph` and the index calls write to one node of a cluster (`CLUSTER.md:3`: "Every
  write is replicated to a majority of nodes before being acknowledged").
* Every replica draws its own random ids while it runs a query.
* What `ClusterWrite` does not cover: `Lose` is final, which is right for up to four voters; with
  five, an entry that a deposed leader and one more node hold may still be committed by a
  third leader, after `client_service.rs:760` has forwarded the write. And a crash in the middle of
  the rows of a query is taken as one before it.
* The release profile has no overflow checks: there `a + b` wraps although
  `expression.rs:1221` tests for an error. The run `query` has the checks, as a debug build has;
  `IntegersExact` covers both. SUM (`engine.rs:776`) adds outside the `catch_unwind` of the
  operators: an overflow panics out of the query with the checks and wraps without.
* A pattern with several labels asks for all of them at the first node of a path
  (`engine.rs:333`) and for one of them at the end of a hop (`engine.rs:481`). The reference
  of `MatchAgrees` says the same of each place.
* The planner drops GROUP BY, HAVING, OPTIONAL, quantifiers and the ORDER BY of a MATCH, keeps
  the first of several SET items and the first node of an INSERT without edges, and refuses
  REMOVE and UNION, though `README.md` lists several of them.
* `count(*) + 1` takes the aggregate of one row; ORDER BY an aggregate's alias does not
  sort; a variable that occurs twice in a pattern is not joined; a hop to an unnamed node
  goes on from the old one; a property that a node lacks is taken from a bare column of
  another one; `NULL = NULL` is true; an index made for one label serves others. The inputs of
  `query` for the reference comparisons keep clear of these, as the comments there say.
* Lists, maps, arguments, CASE and EXISTS are parsed without the depth limit.
* `cmp_values` (`synaptica-exec/src/engine.rs:2066`) takes values of different kinds for equal:
  1 and 2 are both equal to a string and still ordered. That is no order, so what a sort
  over mixed kinds returns depends on how the rows came in. `SortOrder` is about one kind.
* An Integer is compared with a Float as a Float: 2^53 and 2^53 + 1 are ordered and both equal
  to the Float 2^53; NaN, which `toFloat` reads from a string, is equal to every number when
  sorting, and NULL for `<`. `SortLimits` states both.

## 6. Plan

Done: every component that carries state or computes answers, on TLC instances; proofs of
all safety properties of the six concurrent components and of the byte-level store, of the
refinement, and of lexer spans, integer arithmetic, sort order and chunks. What is left:

1. The parser without RECURSIVE operators, as recursive functions on the number of tokens, so
   that its depth limit and its progress can be proved as the lexer's were.
2. The effect of keys that begin one another on `prefix_scan_at` and `gc_before`, as a run of its own.
3. Shorter proofs: the frame lemmas of `GraphStoreProofs` and `PropIndexProofs` repeat arguments
   about calls of other threads that one general lemma could carry.

## 7. Not modelled, and why

Backup, export and file handling (I/O); network encoding of openraft messages; openraft
itself (external: modelled by what the code relies on); configuration, authentication,
metrics; MCP server, CLI and web UI (translation and presentation). Code that nothing
calls: the semantic analyzer, catalog and optimizer of `synaptica-gql`, partitioning,
routing, rebalancing and membership tables of `synaptica-cluster`, the full-text index, the
write-ahead log of `synaptica-tx`. In the modelled components: `recover` and the file-backed
log of the coordinator, which nothing calls; the unused `check_write_write_conflicts` in
`synaptica-tx/src/conflict.rs`, a copy of the inline check; `range_scan` of an index, which no
statement uses; graph metadata and property-index rows in `delete_graph`; temporal values
and `toString`, whose content is formatting; fractions.
