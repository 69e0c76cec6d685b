----------------------------- MODULE TwoPhaseCommit -----------------------------
(***************************************************************************)
(* TwoPhaseCoordinator of synaptica-cluster (distributed_tx.rs).           *)
(*                                                                         *)
(* The coordinator is shared (&self): several threads may call prepare,    *)
(* commit and abort on the same transaction.  Each call is split at its    *)
(* lock releases: the state check under `transactions', the log record     *)
(* under `log', one call per participant, and the final state under        *)
(* `transactions' again.  Participants are external: of each one the model *)
(* keeps which transactions it promised to commit, committed and aborted.  *)
(* A call to a participant may fail, having taken effect there or not.     *)
(***************************************************************************)
EXTENDS Integers, Sequences

CONSTANTS Threads,        \* callers of the coordinator
          Pids,           \* partition ids a caller may name
          Participants,   \* partitions with a registered handle
          PidLists,       \* participant lists a caller may pass to prepare
          MaxTx,          \* bound: transactions begun per coordinator
          MaxCrashes,     \* bound: coordinator crashes
          Disciplined     \* callers follow the documented call order

ASSUME DtxAssumption ==
    /\ MaxTx \in Nat
    /\ MaxCrashes \in Nat
    /\ Disciplined \in BOOLEAN
    /\ PidLists \subseteq Seq(Pids)

VARIABLES next_id,     \* TwoPhaseCoordinator.next_id
          state,       \* TxRecord.state per id, "Unknown" if there is none
          parts,       \* TxRecord.participants
          log,         \* DistributedTxLog.entries, as a set of <<kind, id>>
          pc, cur,     \* each thread: where it is, and on which transaction
          pids, at,    \* its copy of the participant list, next index in it
          voted,       \* per participant: transactions it voted yes on
          committed,   \* per participant: transactions it was told to commit
          aborted,     \* per participant: transactions it was told to abort
          crashes      \* crashes so far

threadVars == <<pc, cur, pids, at>>
partVars   == <<voted, committed, aborted>>
vars       == <<next_id, state, parts, log, threadVars, partVars, crashes>>

Ids    == 1 .. MaxTx                          \* "dtx-1", "dtx-2", ...
Lists  == PidLists \cup {<<>>}
TxStates == {"Unknown", "Initiated", "Preparing", "Prepared", "Committing",
             "Committed", "Aborting", "Aborted"}
InPrepare == {"prepare_log", "prepare_ask", "prepare_no"}
InCommit  == {"commit_log", "commit_tell"}
InAbort   == {"abort_log", "abort_tell"}

Init ==
    /\ next_id = 1
    /\ state = [id \in Ids |-> "Unknown"]
    /\ parts = [id \in Ids |-> <<>>]
    /\ log = {}
    /\ pc = [th \in Threads |-> "idle"]
    /\ cur = [th \in Threads |-> 0]
    /\ pids = [th \in Threads |-> <<>>]
    /\ at = [th \in Threads |-> 1]
    /\ voted = [p \in Participants |-> {}]
    /\ committed = [p \in Participants |-> {}]
    /\ aborted = [p \in Participants |-> {}]
    /\ crashes = 0

--------------------------------------------------------------------------------
begin_distributed_tx ==
    /\ next_id <= MaxTx
    /\ next_id' = next_id + 1
    /\ state' = [state EXCEPT ![next_id] = "Initiated"]
    /\ parts' = [parts EXCEPT ![next_id] = <<>>]
    /\ UNCHANGED <<log, threadVars, partVars, crashes>>

(* A thread enters a call on id with its copy of the participant list.     *)
Enter(th, id, step, list) ==
    /\ pc[th] = "idle"
    /\ pc' = [pc EXCEPT ![th] = step]
    /\ cur' = [cur EXCEPT ![th] = id]
    /\ pids' = [pids EXCEPT ![th] = list]
    /\ at' = [at EXCEPT ![th] = 1]

Goto(th, step) == /\ pc' = [pc EXCEPT ![th] = step]
                  /\ UNCHANGED <<cur, pids, at>>

(* The call returns, with a result or with an error.                       *)
Return(th) == Goto(th, "idle")

(* The thread's loop stands at a participant.                              *)
AtParticipant(th) == at[th] <= Len(pids[th])
Pid(th) == pids[th][at[th]]
Advance(th) == /\ at' = [at EXCEPT ![th] = @ + 1]
               /\ UNCHANGED <<pc, cur, pids>>

(* A handle call either reaches participant p, adding id to the set f[p],  *)
(* or does not.                                                            *)
Reaches(f, p, id) == [f EXCEPT ![p] = @ \cup {id}]

--------------------------------------------------------------------------------
(* The states a call is accepted in.                                       *)
Preparable(id) == state[id] = "Initiated"
CommitRetriable(id) == state[id] \in {"Prepared", "Committing"}     \* fault
CommitUnprepared(id) == state[id] \in {"Preparing", "Prepared"}     \* fault
Committable(id) == state[id] = "Prepared"
AbortAlways(id) == state[id] # "Unknown"                            \* fault
Abortable(id) == state[id] \notin {"Unknown", "Committed", "Aborted"}

(* prepare: every state but Initiated is refused with an error.            *)
prepare_start(th, id, list) ==
    /\ Preparable(id)
    /\ Enter(th, id, "prepare_log", list)
    /\ state' = [state EXCEPT ![id] = "Preparing"]
    /\ parts' = [parts EXCEPT ![id] = list]
    /\ UNCHANGED <<next_id, log, partVars, crashes>>

prepare_log(th) ==
    /\ pc[th] = "prepare_log"
    /\ log' = log \cup {<<"Prepare", cur[th]>>}
    /\ Goto(th, "prepare_ask")
    /\ UNCHANGED <<next_id, state, parts, partVars, crashes>>

(* handle.prepare answers yes, ...                                         *)
prepare_vote_yes(th) ==
    /\ pc[th] = "prepare_ask" /\ AtParticipant(th) /\ Pid(th) \in Participants
    /\ voted' = Reaches(voted, Pid(th), cur[th])
    /\ Advance(th)
    /\ UNCHANGED <<next_id, state, parts, log, committed, aborted, crashes>>

(* ... or no, which ends the loop, ...                                     *)
prepare_vote_no(th) ==
    /\ pc[th] = "prepare_ask" /\ AtParticipant(th) /\ Pid(th) \in Participants
    /\ Goto(th, "prepare_no")
    /\ UNCHANGED <<next_id, state, parts, log, partVars, crashes>>

(* ... or fails, as an unregistered partition does: prepare returns the    *)
(* error and leaves the state at Preparing.  A vote may have been cast.    *)
prepare_error(th) ==
    /\ pc[th] = "prepare_ask" /\ AtParticipant(th)
    /\ Return(th)
    /\ \/ voted' = voted
       \/ Pid(th) \in Participants /\ voted' = Reaches(voted, Pid(th), cur[th])
    /\ UNCHANGED <<next_id, state, parts, log, committed, aborted, crashes>>

(* The last block of prepare overwrites the state without looking at it:   *)
(* Prepared when every vote was yes, else Preparing again.                 *)
prepare_finish(th) ==
    /\ \/ /\ pc[th] = "prepare_ask" /\ ~AtParticipant(th)
          /\ state' = [state EXCEPT ![cur[th]] = "Prepared"]
       \/ /\ pc[th] = "prepare_no"
          /\ state' = [state EXCEPT ![cur[th]] = "Preparing"]
    /\ Return(th)
    /\ UNCHANGED <<next_id, parts, log, partVars, crashes>>

--------------------------------------------------------------------------------
(* commit: every state but Prepared is refused with an error.              *)
commit_start(th, id) ==
    /\ Committable(id)
    /\ Enter(th, id, "commit_log", parts[id])
    /\ state' = [state EXCEPT ![id] = "Committing"]
    /\ UNCHANGED <<next_id, parts, log, partVars, crashes>>

(* Fault: the participants are told before the decision is recorded.       *)
TellUnlogged(th) ==
    /\ pc[th] = "commit_log"
    /\ Goto(th, "commit_tell")
    /\ UNCHANGED <<next_id, state, parts, log, partVars, crashes>>

commit_log(th) ==
    /\ pc[th] = "commit_log"
    /\ log' = log \cup {<<"Commit", cur[th]>>}
    /\ Goto(th, "commit_tell")
    /\ UNCHANGED <<next_id, state, parts, partVars, crashes>>

commit_tell(th) ==
    /\ pc[th] = "commit_tell" /\ AtParticipant(th) /\ Pid(th) \in Participants
    /\ committed' = Reaches(committed, Pid(th), cur[th])
    /\ Advance(th)
    /\ UNCHANGED <<next_id, state, parts, log, voted, aborted, crashes>>

(* Fault: a participant that fails is passed over, as abort does.          *)
CommitBestEffort(th) ==
    /\ pc[th] = "commit_tell" /\ AtParticipant(th)
    /\ Advance(th)
    /\ UNCHANGED <<next_id, state, parts, log, partVars, crashes>>

(* handle.commit fails: commit returns at once, the remaining participants *)
(* are not told and the state stays Committing.                            *)
commit_error(th) ==
    /\ pc[th] = "commit_tell" /\ AtParticipant(th)
    /\ Return(th)
    /\ \/ committed' = committed
       \/ Pid(th) \in Participants /\ committed' = Reaches(committed, Pid(th), cur[th])
    /\ UNCHANGED <<next_id, state, parts, log, voted, aborted, crashes>>

commit_finish(th) ==
    /\ pc[th] = "commit_tell" /\ ~AtParticipant(th)
    /\ state' = [state EXCEPT ![cur[th]] = "Committed"]
    /\ Return(th)
    /\ UNCHANGED <<next_id, parts, log, partVars, crashes>>

--------------------------------------------------------------------------------
(* The documented order of calls: begin, prepare, then commit after a yes  *)
(* or abort after a no or an error; nobody aborts while a call on the      *)
(* transaction is running or once its commit was called.                   *)
CallerMayAbort(id) ==
    /\ \A th \in Threads : pc[th] # "idle" => cur[th] # id
    /\ state[id] # "Committing"

(* abort is refused only once the transaction is Committed or Aborted.     *)
abort_start(th, id) ==
    /\ Abortable(id)
    /\ Disciplined => CallerMayAbort(id)
    /\ Enter(th, id, "abort_log", parts[id])
    /\ state' = [state EXCEPT ![id] = "Aborting"]
    /\ UNCHANGED <<next_id, parts, log, partVars, crashes>>

abort_log(th) ==
    /\ pc[th] = "abort_log"
    /\ log' = log \cup {<<"Abort", cur[th]>>}
    /\ Goto(th, "abort_tell")
    /\ UNCHANGED <<next_id, state, parts, partVars, crashes>>

(* Best effort: a participant without a handle, or whose call fails, is    *)
(* passed over.                                                            *)
abort_tell(th) ==
    /\ pc[th] = "abort_tell" /\ AtParticipant(th)
    /\ \/ aborted' = aborted
       \/ Pid(th) \in Participants /\ aborted' = Reaches(aborted, Pid(th), cur[th])
    /\ Advance(th)
    /\ UNCHANGED <<next_id, state, parts, log, voted, committed, crashes>>

abort_finish(th) ==
    /\ pc[th] = "abort_tell" /\ ~AtParticipant(th)
    /\ state' = [state EXCEPT ![cur[th]] = "Aborted"]
    /\ Return(th)
    /\ UNCHANGED <<next_id, parts, log, partVars, crashes>>

--------------------------------------------------------------------------------
(* The process dies; TwoPhaseCoordinator::new starts again with an empty   *)
(* in-memory log and id 1.  The participants keep what they did.           *)
Crash ==
    /\ crashes < MaxCrashes
    /\ crashes' = crashes + 1
    /\ next_id' = 1
    /\ state' = [id \in Ids |-> "Unknown"]
    /\ parts' = [id \in Ids |-> <<>>]
    /\ log' = {}
    /\ pc' = [th \in Threads |-> "idle"]
    /\ cur' = [th \in Threads |-> 0]
    /\ pids' = [th \in Threads |-> <<>>]
    /\ at' = [th \in Threads |-> 1]
    /\ UNCHANGED partVars

prepare(th) == \/ prepare_log(th) \/ prepare_vote_yes(th) \/ prepare_vote_no(th)
               \/ prepare_error(th) \/ prepare_finish(th)
commit(th)  == \/ commit_log(th) \/ commit_tell(th) \/ commit_error(th)
               \/ commit_finish(th)
abort(th)   == abort_log(th) \/ abort_tell(th) \/ abort_finish(th)

Next ==
    \/ begin_distributed_tx
    \/ \E th \in Threads, id \in Ids :
          \/ \E list \in PidLists : prepare_start(th, id, list)
          \/ commit_start(th, id)
          \/ abort_start(th, id)
    \/ \E th \in Threads : prepare(th) \/ commit(th) \/ abort(th)
    \/ Crash

Spec == Init /\ [][Next]_vars

--------------------------------------------------------------------------------
(* The values each variable takes.                                         *)
TypeOK ==
    /\ next_id \in 1 .. MaxTx + 1
    /\ state \in [Ids -> TxStates]
    /\ parts \in [Ids -> Lists]
    /\ log \subseteq {"Prepare", "Commit", "Abort"} \X Ids
    /\ pc \in [Threads -> {"idle"} \cup InPrepare \cup InCommit \cup InAbort]
    /\ cur \in [Threads -> Ids \cup {0}]
    /\ pids \in [Threads -> Lists]
    /\ at \in [Threads -> Nat \ {0}]
    /\ voted \in [Participants -> SUBSET Ids]
    /\ committed \in [Participants -> SUBSET Ids]
    /\ aborted \in [Participants -> SUBSET Ids]
    /\ crashes \in Nat
    /\ \A th \in Threads : pc[th] # "idle" => cur[th] \in Ids

(* Every participant in the record of id satisfies membership in f.        *)
AllIn(f, id) == \A i \in 1 .. Len(parts[id]) :
                    parts[id][i] \in Participants /\ id \in f[parts[id][i]]

(* The commit decision (log_commit) is only recorded for a transaction on  *)
(* which every listed participant has voted yes, however prepare, commit   *)
(* and abort calls of several threads interleave.                          *)
CommitRequiresVotes ==
    \A id \in Ids : <<"Commit", id>> \in log => AllIn(voted, id)

(* A transaction the coordinator reports as Committed was committed at     *)
(* every participant (the last block of commit).                           *)
CommittedMeansTold ==
    \A id \in Ids : state[id] = "Committed" => AllIn(committed, id)

(* No two threads run the commit phase of the same transaction.            *)
OneCommitter ==
    \A th1, th2 \in Threads :
        /\ pc[th1] \in InCommit /\ pc[th2] \in InCommit
        /\ cur[th1] = cur[th2]
        => th1 = th2

(* The write-ahead rule ("record prepare intent *before* contacting        *)
(* participants", "record commit decision *before* telling participants"): *)
(* a participant learns nothing that the log does not hold already.        *)
LogComesFirst ==
    [][\A p \in Participants, id \in Ids :
          /\ id \in voted'[p] \ voted[p] => <<"Prepare", id>> \in log
          /\ id \in committed'[p] \ committed[p] => <<"Commit", id>> \in log
          /\ id \in aborted'[p] \ aborted[p] => <<"Abort", id>> \in log]_vars

(* No transaction commits at one participant and aborts at another.        *)
AtomicOutcome ==
    \A p, q \in Participants, id \in Ids :
        ~(id \in committed[p] /\ id \in aborted[q])

(* The same as long as callers keep to the documented order of calls and   *)
(* the coordinator has not crashed.                                        *)
AtomicIfDisciplined == Disciplined /\ crashes = 0 => AtomicOutcome

--------------------------------------------------------------------------------
(* What the coordinator promises its callers: specification AtomicCommit,  *)
(* with the decision of a transaction read off the log.                    *)
Decision == [id \in Ids |-> IF <<"Commit", id>> \in log THEN "commit"
                            ELSE IF <<"Abort", id>> \in log THEN "abort"
                            ELSE "none"]
Members  == [id \in Ids |-> {parts[id][i] : i \in 1 .. Len(parts[id])}]

Promise == INSTANCE AtomicCommit WITH Txs <- Ids, members <- Members,
                                      decision <- Decision
(* Under disciplined callers every step of the coordinator and its         *)
(* participants is a step of AtomicCommit or changes nothing it mentions.  *)
ImplementsAtomicCommit == Promise!Spec
=================================================================================
