-------------------------- MODULE TwoPhaseCommitProofs --------------------------
(***************************************************************************)
(* Proofs about TwoPhaseCommit for any number of threads, participants,    *)
(* transactions and crashes.                                               *)
(***************************************************************************)
EXTENDS TwoPhaseCommit, TLAPS

(* Which states the record of a transaction can be in while a thread is    *)
(* inside a call on it.  Abort calls may overtake the other two.           *)
CallStates ==
    /\ \A n \in Ids : n >= next_id => state[n] = "Unknown"
    /\ \A th \in Threads :
          /\ pc[th] \in InPrepare => state[cur[th]] \in {"Preparing", "Aborting", "Aborted"}
          /\ pc[th] \in InCommit => state[cur[th]] \in {"Committing", "Aborting", "Aborted"}
          /\ pc[th] \in InAbort => state[cur[th]] \notin {"Unknown", "Initiated"}

(* prepare and commit calls on one transaction exclude each other.         *)
OneDriver ==
    \A th1, th2 \in Threads :
        /\ pc[th1] \in InPrepare \cup InCommit
        /\ pc[th2] \in InPrepare \cup InCommit
        /\ cur[th1] = cur[th2]
        => th1 = th2

(* A driving thread's list is the record's, and the participants before    *)
(* its index have answered.                                                *)
Progress ==
    \A th \in Threads :
        /\ pc[th] \in InPrepare \cup InCommit => pids[th] = parts[cur[th]]
        /\ pc[th] \in InPrepare =>
              \A j \in 1 .. Len(pids[th]) : j < at[th] =>
                  pids[th][j] \in Participants /\ cur[th] \in voted[pids[th][j]]
        /\ pc[th] \in InCommit =>
              \A j \in 1 .. Len(pids[th]) : j < at[th] =>
                  pids[th][j] \in Participants /\ cur[th] \in committed[pids[th][j]]

(* Votes are in wherever the protocol relies on them.                      *)
Votes ==
    /\ \A id \in Ids :
          /\ state[id] \in {"Prepared", "Committing", "Committed"} => AllIn(voted, id)
          /\ state[id] \in {"Unknown", "Initiated"} => <<"Commit", id>> \notin log
    /\ \A th \in Threads : pc[th] \in InCommit => AllIn(voted, cur[th])

IndInv ==
    /\ TypeOK
    /\ CallStates
    /\ OneDriver
    /\ Progress
    /\ Votes
    /\ CommitRequiresVotes
    /\ CommittedMeansTold

--------------------------------------------------------------------------------
(* What every proof below expands: the state sets and the tuples of vars.  *)
USE DEF Ids, Lists, TxStates, InPrepare, InCommit, InAbort, threadVars, partVars

(* The kinds of step Next can take, once for all case splits.              *)
LEMMA NextCases ==
    ASSUME [Next]_vars
    PROVE  \/ begin_distributed_tx
           \/ \E th \in Threads, id \in Ids :
                 \/ \E list \in PidLists : prepare_start(th, id, list)
                 \/ commit_start(th, id)
                 \/ abort_start(th, id)
           \/ \E th \in Threads :
                 \/ prepare_log(th)
                 \/ prepare_vote_yes(th)
                 \/ prepare_vote_no(th)
                 \/ prepare_error(th)
                 \/ prepare_finish(th)
                 \/ commit_log(th)
                 \/ commit_tell(th)
                 \/ commit_error(th)
                 \/ commit_finish(th)
                 \/ abort_log(th)
                 \/ abort_tell(th)
                 \/ abort_finish(th)
           \/ Crash
           \/ UNCHANGED vars
  BY DEF Next, prepare, commit, abort

(* A handle call that takes effect keeps a participant table well formed.  *)
LEMMA ReachesType ==
    ASSUME NEW f \in [Participants -> SUBSET Ids], NEW p, NEW id \in Ids,
           NEW g,
           g = f \/ (p \in Participants /\ g = Reaches(f, p, id))
    PROVE  g \in [Participants -> SUBSET Ids]
  BY DEF Reaches

(* A handle call adds its own transaction at most, and forgets none.       *)
LEMMA ReachesAdds ==
    ASSUME NEW f \in [Participants -> SUBSET Ids], NEW q, NEW i \in Ids, NEW g,
           g = f \/ (q \in Participants /\ g = Reaches(f, q, i))
    PROVE  \A r \in Participants : f[r] \subseteq g[r] /\ g[r] \subseteq f[r] \cup {i}
  BY DEF Reaches

(* Every step keeps the variables in their types.                          *)
LEMMA TypeStep ==
    ASSUME TypeOK, [Next]_vars
    PROVE  TypeOK'
<1> USE DtxAssumption DEF TypeOK
<1>1. CASE begin_distributed_tx
  BY <1>1 DEF begin_distributed_tx
<1>2. ASSUME NEW th \in Threads, NEW id \in Ids, NEW list \in PidLists,
             prepare_start(th, id, list)
      PROVE  TypeOK'
  BY <1>2 DEF prepare_start, Enter
<1>3. ASSUME NEW th \in Threads, NEW id \in Ids, commit_start(th, id)
      PROVE  TypeOK'
  BY <1>3 DEF commit_start, Enter
<1>4. ASSUME NEW th \in Threads, NEW id \in Ids, abort_start(th, id)
      PROVE  TypeOK'
  BY <1>4 DEF abort_start, Enter
<1>5. ASSUME NEW th \in Threads, prepare_log(th)
      PROVE  TypeOK'
  BY <1>5 DEF prepare_log, Goto
<1>6. ASSUME NEW th \in Threads, prepare_vote_yes(th)
      PROVE  TypeOK'
  BY <1>6 DEF prepare_vote_yes, Reaches, AtParticipant, Pid, Advance
<1>7. ASSUME NEW th \in Threads, prepare_vote_no(th)
      PROVE  TypeOK'
  BY <1>7 DEF prepare_vote_no, Goto
<1>8. ASSUME NEW th \in Threads, prepare_error(th)
      PROVE  TypeOK'
  <2>1. cur[th] \in Ids
    BY <1>8 DEF prepare_error
  <2>2. voted' \in [Participants -> SUBSET Ids]
    <3>1. \/ voted' = voted
          \/ Pid(th) \in Participants /\ voted' = Reaches(voted, Pid(th), cur[th])
      BY <1>8 DEF prepare_error
    <3>2. voted \in [Participants -> SUBSET Ids]
      OBVIOUS
    <3> HIDE DEF TypeOK, Ids
    <3> QED
      BY <2>1, <3>1, <3>2, ReachesType
  <2> QED
    BY <1>8, <2>2 DEF prepare_error, Return, Goto
<1>9. ASSUME NEW th \in Threads, prepare_finish(th)
      PROVE  TypeOK'
  BY <1>9 DEF prepare_finish, AtParticipant, Return, Goto
<1>10. ASSUME NEW th \in Threads, commit_log(th)
      PROVE  TypeOK'
  BY <1>10 DEF commit_log, Goto
<1>11. ASSUME NEW th \in Threads, commit_tell(th)
      PROVE  TypeOK'
  BY <1>11 DEF commit_tell, Reaches, AtParticipant, Pid, Advance
<1>12. ASSUME NEW th \in Threads, commit_error(th)
      PROVE  TypeOK'
  <2>1. cur[th] \in Ids
    BY <1>12 DEF commit_error
  <2>2. committed' \in [Participants -> SUBSET Ids]
    <3>1. \/ committed' = committed
          \/ Pid(th) \in Participants /\ committed' = Reaches(committed, Pid(th), cur[th])
      BY <1>12 DEF commit_error
    <3>2. committed \in [Participants -> SUBSET Ids]
      OBVIOUS
    <3> HIDE DEF TypeOK, Ids
    <3> QED
      BY <2>1, <3>1, <3>2, ReachesType
  <2> QED
    BY <1>12, <2>2 DEF commit_error, Return, Goto
<1>13. ASSUME NEW th \in Threads, commit_finish(th)
      PROVE  TypeOK'
  BY <1>13 DEF commit_finish, AtParticipant, Return, Goto
<1>14. ASSUME NEW th \in Threads, abort_log(th)
      PROVE  TypeOK'
  BY <1>14 DEF abort_log, Goto
<1>15. ASSUME NEW th \in Threads, abort_tell(th)
      PROVE  TypeOK'
  <2>1. cur[th] \in Ids
    BY <1>15 DEF abort_tell
  <2>2. aborted' \in [Participants -> SUBSET Ids]
    <3>1. \/ aborted' = aborted
          \/ Pid(th) \in Participants /\ aborted' = Reaches(aborted, Pid(th), cur[th])
      BY <1>15 DEF abort_tell
    <3>2. aborted \in [Participants -> SUBSET Ids]
      OBVIOUS
    <3> HIDE DEF TypeOK, Ids
    <3> QED
      BY <2>1, <3>1, <3>2, ReachesType
  <2> QED
    BY <1>15, <2>2 DEF abort_tell, Advance
<1>16. ASSUME NEW th \in Threads, abort_finish(th)
      PROVE  TypeOK'
  BY <1>16 DEF abort_finish, AtParticipant, Return, Goto
<1>17. CASE Crash
  BY <1>17 DEF Crash
<1>18. CASE UNCHANGED vars
  BY <1>18 DEF vars
<1> QED
  BY <1>1, <1>2, <1>3, <1>4, <1>5, <1>6, <1>7, <1>8, <1>9, <1>10, <1>11, <1>12, <1>13, <1>14, <1>15, <1>16, <1>17, <1>18, NextCases

(* The variables of the coordinator, its threads and its participants      *)
(* always have values of their types.                                      *)
THEOREM TypeCorrect == Spec => []TypeOK
<1>1. Init => TypeOK
  BY DtxAssumption DEF Init, TypeOK
<1>2. TypeOK /\ [Next]_vars => TypeOK'
  BY TypeStep
<1> QED
  BY <1>1, <1>2, PTL DEF Spec

(* The inductive invariant is preserved by every step.                     *)
LEMMA IndStep ==
    ASSUME IndInv, [Next]_vars
    PROVE  IndInv'
<1> USE DtxAssumption
<1>t. TypeOK /\ TypeOK'
  BY TypeStep DEF IndInv
<1>1. CASE begin_distributed_tx
  <2>1. CallStates'
    BY <1>t, <1>1 DEF IndInv, TypeOK, CallStates, begin_distributed_tx
  <2>2. OneDriver'
    BY <1>t, <1>1 DEF IndInv, TypeOK, CallStates, OneDriver, begin_distributed_tx
  <2>3. Progress'
    <3>1. ASSUME NEW u \in Threads, pc[u] # "idle"
          PROVE  cur[u] \in Ids /\ cur[u] # next_id
      <4>1. cur[u] \in Ids
        BY <1>t, <3>1 DEF TypeOK
      <4>2. state[cur[u]] # "Unknown"
        BY <1>t, <3>1 DEF IndInv, TypeOK, CallStates
      <4>3. cur[u] \in Int /\ next_id \in Int /\ ~(cur[u] >= next_id)
        BY <1>t, <4>1, <4>2 DEF IndInv, TypeOK, CallStates
      <4> QED
        BY <4>1, <4>3
    <3>2. \A id \in Ids : id # next_id => parts'[id] = parts[id]
      BY <1>t, <1>1 DEF begin_distributed_tx, TypeOK
    <3> QED
      BY <1>t, <1>1, <3>1, <3>2 DEF IndInv, Progress, begin_distributed_tx
  <2>4. Votes'
    BY <1>t, <1>1 DEF IndInv, TypeOK, CallStates, Progress, Votes, AllIn, begin_distributed_tx
  <2>5. CommitRequiresVotes'
    BY <1>t, <1>1 DEF IndInv, TypeOK, CallStates, Votes, CommitRequiresVotes, AllIn, begin_distributed_tx
  <2>6. CommittedMeansTold'
    BY <1>t, <1>1 DEF IndInv, TypeOK, CallStates, Progress, CommittedMeansTold, AllIn, begin_distributed_tx
  <2> QED
    BY <1>t, <2>1, <2>2, <2>3, <2>4, <2>5, <2>6 DEF IndInv
<1>2. ASSUME NEW th \in Threads, NEW id \in Ids, NEW list \in PidLists,
            prepare_start(th, id, list)
     PROVE  IndInv'
  <2>1. CallStates'
    BY <1>t, <1>2 DEF IndInv, TypeOK, CallStates, prepare_start, Preparable, Enter
  <2>2. OneDriver'
    <3>1. \A u \in Threads : pc[u] \in InPrepare \cup InCommit => cur[u] # id
      BY <1>t, <1>2 DEF IndInv, CallStates, prepare_start, Preparable
    <3> QED
      BY <1>t, <1>2, <3>1 DEF IndInv, TypeOK, OneDriver, prepare_start, Enter
  <2>3. Progress'
    BY <1>t, <1>2 DEF IndInv, TypeOK, CallStates, Progress, OneDriver, prepare_start, Preparable, Enter
  <2>4. Votes'
    <3>1. \A u \in Threads : pc[u] \in InCommit => cur[u] # id
      BY <1>t, <1>2 DEF IndInv, CallStates, prepare_start, Preparable
    <3>2. \A i \in Ids : i # id => parts'[i] = parts[i] /\ state'[i] = state[i]
      BY <1>t, <1>2 DEF prepare_start, TypeOK
    <3>3. state'[id] = "Preparing" /\ voted' = voted /\ log' = log
      BY <1>t, <1>2 DEF prepare_start, TypeOK
    <3>4. \A u \in Threads : pc'[u] \in InCommit => pc[u] \in InCommit /\ cur'[u] = cur[u]
      BY <1>t, <1>2 DEF prepare_start, Enter, TypeOK
    <3>5. \A i \in Ids : i # id => (AllIn(voted, i)' <=> AllIn(voted, i))
      BY <3>2, <3>3 DEF AllIn
    <3>6. \A u \in Threads : pc[u] \in InCommit => cur[u] \in Ids
      BY <1>t DEF TypeOK
    <3>7. <<"Commit", id>> \notin log
      BY <1>2 DEF IndInv, Votes, prepare_start, Preparable
    <3> QED
      BY <1>t, <3>1, <3>2, <3>3, <3>4, <3>5, <3>6, <3>7 DEF IndInv, Votes
  <2>5. CommitRequiresVotes'
    BY <1>t, <1>2 DEF IndInv, TypeOK, CallStates, Votes, CommitRequiresVotes, AllIn, prepare_start, Preparable, Enter
  <2>6. CommittedMeansTold'
    BY <1>t, <1>2 DEF IndInv, TypeOK, CallStates, Progress, CommittedMeansTold, AllIn, prepare_start, Preparable, Enter
  <2> QED
    BY <1>t, <2>1, <2>2, <2>3, <2>4, <2>5, <2>6 DEF IndInv
<1>3. ASSUME NEW th \in Threads, NEW id \in Ids, commit_start(th, id)
     PROVE  IndInv'
  <2>1. CallStates'
    BY <1>t, <1>3 DEF IndInv, TypeOK, CallStates, commit_start, Committable, Enter
  <2>2. OneDriver'
    <3>1. \A u \in Threads : pc[u] \in InPrepare \cup InCommit => cur[u] # id
      BY <1>t, <1>3 DEF IndInv, CallStates, commit_start, Committable
    <3> QED
      BY <1>t, <1>3, <3>1 DEF IndInv, TypeOK, OneDriver, commit_start, Enter
  <2>3. Progress'
    <3>1. /\ pc'[th] = "commit_log" /\ cur'[th] = id
          /\ pids'[th] = parts[id] /\ at'[th] = 1
      BY <1>t, <1>3 DEF TypeOK, commit_start, Enter
    <3>2. \A u \in Threads : u # th =>
              pc'[u] = pc[u] /\ cur'[u] = cur[u] /\ pids'[u] = pids[u] /\ at'[u] = at[u]
      BY <1>t, <1>3 DEF TypeOK, commit_start, Enter
    <3>3. parts' = parts /\ voted' = voted /\ committed' = committed
      BY <1>3 DEF commit_start
    <3>4. pids'[th] = parts'[cur'[th]]
      BY <3>1, <3>3
    <3>5. \A j \in 1 .. Len(pids'[th]) : ~(j < at'[th])
      BY <3>1
    <3> QED
      BY <3>1, <3>2, <3>3, <3>4, <3>5 DEF IndInv, Progress
  <2>4. Votes'
    <3>1. AllIn(voted, id) /\ state[id] = "Prepared"
      BY <1>t, <1>3 DEF IndInv, Votes, commit_start, Committable
    <3>2. \A i \in Ids : AllIn(voted, i)' <=> AllIn(voted, i)
      BY <1>3 DEF commit_start, AllIn
    <3>3. \A u \in Threads : pc'[u] \in InCommit =>
                \/ u = th /\ cur'[u] = id
                \/ pc[u] \in InCommit /\ cur'[u] = cur[u]
      BY <1>t, <1>3 DEF commit_start, Enter, TypeOK
    <3>4. \A i \in Ids : i # id => state'[i] = state[i]
      BY <1>t, <1>3 DEF commit_start, TypeOK
    <3>5. state'[id] = "Committing" /\ log' = log
      BY <1>t, <1>3 DEF commit_start, TypeOK
    <3>6. \A u \in Threads : pc[u] \in InCommit => cur[u] \in Ids
      BY <1>t DEF TypeOK
    <3> QED
      BY <1>t, <3>1, <3>2, <3>3, <3>4, <3>5, <3>6 DEF IndInv, Votes
  <2>5. CommitRequiresVotes'
    BY <1>t, <1>3 DEF IndInv, TypeOK, CallStates, Votes, CommitRequiresVotes, AllIn, commit_start, Committable, Enter
  <2>6. CommittedMeansTold'
    BY <1>t, <1>3 DEF IndInv, TypeOK, CallStates, Progress, CommittedMeansTold, AllIn, commit_start, Committable, Enter
  <2> QED
    BY <1>t, <2>1, <2>2, <2>3, <2>4, <2>5, <2>6 DEF IndInv
<1>4. ASSUME NEW th \in Threads, NEW id \in Ids, abort_start(th, id)
     PROVE  IndInv'
  <2>1. CallStates'
    BY <1>t, <1>4 DEF IndInv, TypeOK, CallStates, abort_start, Abortable, Enter
  <2>2. OneDriver'
    BY <1>t, <1>4 DEF IndInv, TypeOK, CallStates, OneDriver, abort_start, Abortable, Enter
  <2>3. Progress'
    BY <1>t, <1>4 DEF IndInv, TypeOK, CallStates, Progress, OneDriver, abort_start, Abortable, Enter
  <2>4. Votes'
    BY <1>t, <1>4 DEF IndInv, TypeOK, CallStates, Progress, Votes, AllIn, abort_start, Abortable, Enter
  <2>5. CommitRequiresVotes'
    BY <1>t, <1>4 DEF IndInv, TypeOK, CallStates, Votes, CommitRequiresVotes, AllIn, abort_start, Abortable, Enter
  <2>6. CommittedMeansTold'
    BY <1>t, <1>4 DEF IndInv, TypeOK, CallStates, Progress, CommittedMeansTold, AllIn, abort_start, Abortable, Enter
  <2> QED
    BY <1>t, <2>1, <2>2, <2>3, <2>4, <2>5, <2>6 DEF IndInv
<1>5. ASSUME NEW th \in Threads, prepare_log(th)
     PROVE  IndInv'
  <2>1. CallStates'
    BY <1>t, <1>5 DEF IndInv, TypeOK, CallStates, prepare_log, Goto
  <2>2. OneDriver'
    BY <1>t, <1>5 DEF IndInv, TypeOK, CallStates, OneDriver, prepare_log, Goto
  <2>3. Progress'
    BY <1>t, <1>5 DEF IndInv, TypeOK, CallStates, Progress, OneDriver, prepare_log, Goto
  <2>4. Votes'
    BY <1>t, <1>5 DEF IndInv, TypeOK, CallStates, Progress, Votes, AllIn, prepare_log, Goto
  <2>5. CommitRequiresVotes'
    BY <1>t, <1>5 DEF IndInv, TypeOK, CallStates, Votes, CommitRequiresVotes, AllIn, prepare_log, Goto
  <2>6. CommittedMeansTold'
    BY <1>t, <1>5 DEF IndInv, TypeOK, CallStates, Progress, CommittedMeansTold, AllIn, prepare_log, Goto
  <2> QED
    BY <1>t, <2>1, <2>2, <2>3, <2>4, <2>5, <2>6 DEF IndInv
<1>6. ASSUME NEW th \in Threads, prepare_vote_yes(th)
     PROVE  IndInv'
  <2>1. CallStates'
    BY <1>t, <1>6 DEF IndInv, TypeOK, CallStates, prepare_vote_yes, Reaches, AtParticipant, Pid, Advance
  <2>2. OneDriver'
    BY <1>t, <1>6 DEF IndInv, TypeOK, CallStates, OneDriver, prepare_vote_yes, Reaches, AtParticipant, Pid, Advance
  <2>3. Progress'
    BY <1>t, <1>6 DEF IndInv, TypeOK, CallStates, Progress, OneDriver, prepare_vote_yes, Reaches, AtParticipant, Pid, Advance
  <2>4. Votes'
    BY <1>t, <1>6 DEF IndInv, TypeOK, CallStates, Progress, Votes, AllIn, prepare_vote_yes, Reaches, AtParticipant, Pid, Advance
  <2>5. CommitRequiresVotes'
    BY <1>t, <1>6 DEF IndInv, TypeOK, CallStates, Votes, CommitRequiresVotes, AllIn, prepare_vote_yes, Reaches, AtParticipant, Pid, Advance
  <2>6. CommittedMeansTold'
    BY <1>t, <1>6 DEF IndInv, TypeOK, CallStates, Progress, CommittedMeansTold, AllIn, prepare_vote_yes, Reaches, AtParticipant, Pid, Advance
  <2> QED
    BY <1>t, <2>1, <2>2, <2>3, <2>4, <2>5, <2>6 DEF IndInv
<1>7. ASSUME NEW th \in Threads, prepare_vote_no(th)
     PROVE  IndInv'
  <2>1. CallStates'
    BY <1>t, <1>7 DEF IndInv, TypeOK, CallStates, prepare_vote_no, AtParticipant, Goto
  <2>2. OneDriver'
    BY <1>t, <1>7 DEF IndInv, TypeOK, CallStates, OneDriver, prepare_vote_no, AtParticipant, Goto
  <2>3. Progress'
    BY <1>t, <1>7 DEF IndInv, TypeOK, CallStates, Progress, OneDriver, prepare_vote_no, AtParticipant, Goto
  <2>4. Votes'
    BY <1>t, <1>7 DEF IndInv, TypeOK, CallStates, Progress, Votes, AllIn, prepare_vote_no, AtParticipant, Goto
  <2>5. CommitRequiresVotes'
    BY <1>t, <1>7 DEF IndInv, TypeOK, CallStates, Votes, CommitRequiresVotes, AllIn, prepare_vote_no, AtParticipant, Goto
  <2>6. CommittedMeansTold'
    BY <1>t, <1>7 DEF IndInv, TypeOK, CallStates, Progress, CommittedMeansTold, AllIn, prepare_vote_no, AtParticipant, Goto
  <2> QED
    BY <1>t, <2>1, <2>2, <2>3, <2>4, <2>5, <2>6 DEF IndInv
<1>8. ASSUME NEW th \in Threads, prepare_error(th)
     PROVE  IndInv'
  <2>a. \A q \in Participants : voted[q] \subseteq voted'[q]
    <3>1. \/ voted' = voted
          \/ Pid(th) \in Participants /\ voted' = Reaches(voted, Pid(th), cur[th])
      BY <1>8 DEF prepare_error
    <3>2. voted \in [Participants -> SUBSET Ids] /\ cur[th] \in Ids
      BY <1>t, <1>8 DEF TypeOK, prepare_error
    <3> QED
      BY <3>1, <3>2, ReachesAdds
  <2>b. \A u \in Threads : /\ pc'[u] # "idle" => u # th /\ pc'[u] = pc[u]
                           /\ cur'[u] = cur[u] /\ pids'[u] = pids[u] /\ at'[u] = at[u]
    BY <1>t, <1>8 DEF TypeOK, prepare_error, Return, Goto
  <2>c. /\ next_id' = next_id /\ state' = state /\ parts' = parts /\ log' = log
        /\ committed' = committed
    BY <1>8 DEF prepare_error
  <2>1. CallStates'
    BY <2>b, <2>c DEF IndInv, CallStates
  <2>2. OneDriver'
    BY <2>b DEF IndInv, OneDriver
  <2>3. Progress'
    BY <2>a, <2>b, <2>c DEF IndInv, Progress
  <2>d. \A i \in Ids : AllIn(voted, i) => AllIn(voted, i)'
    BY <2>a, <2>c DEF AllIn
  <2>4. Votes'
    <3>1. \A u \in Threads : pc[u] \in InCommit => cur[u] \in Ids
      BY <1>t DEF TypeOK
    <3> QED
      BY <2>b, <2>c, <2>d, <3>1 DEF IndInv, Votes
  <2>5. CommitRequiresVotes'
    BY <2>c, <2>d DEF IndInv, CommitRequiresVotes
  <2>6. CommittedMeansTold'
    BY <2>c DEF IndInv, CommittedMeansTold, AllIn
  <2> QED
    BY <1>t, <2>1, <2>2, <2>3, <2>4, <2>5, <2>6 DEF IndInv
<1>9. ASSUME NEW th \in Threads, prepare_finish(th)
     PROVE  IndInv'
  <2>1. CallStates'
    <3>1. \A u \in Threads : u # th /\ pc[u] \in InPrepare \cup InCommit => cur[u] # cur[th]
      BY <1>t, <1>9 DEF IndInv, OneDriver, prepare_finish
    <3>2. cur[th] \in Ids /\ cur[th] < next_id
      <4>1. cur[th] \in Ids /\ state[cur[th]] # "Unknown"
        BY <1>t, <1>9 DEF IndInv, TypeOK, CallStates, prepare_finish
      <4>2. cur[th] \in Int /\ next_id \in Int /\ ~(cur[th] >= next_id)
        BY <1>t, <4>1 DEF IndInv, TypeOK, CallStates
      <4> QED
        BY <4>1, <4>2
    <3> QED
      <4>1. /\ next_id' = next_id
            /\ state'[cur[th]] \in {"Prepared", "Preparing"}
            /\ \A i \in Ids : i # cur[th] => state'[i] = state[i]
        BY <1>t, <1>9, <3>2 DEF TypeOK, prepare_finish
      <4>2. \A u \in Threads : /\ pc'[u] # "idle" => u # th /\ pc'[u] = pc[u]
                               /\ cur'[u] = cur[u]
                               /\ pc[u] # "idle" => cur[u] \in Ids
        BY <1>t, <1>9 DEF TypeOK, prepare_finish, Return, Goto
      <4>3. \A n \in Ids : n >= next_id' => state'[n] = "Unknown"
        <5>1. \A n \in Ids : n >= next_id => n # cur[th]
          BY <1>t, <3>2 DEF TypeOK
        <5> QED
          BY <4>1, <5>1 DEF IndInv, CallStates
      <4> QED
        BY <3>1, <4>1, <4>2, <4>3 DEF IndInv, CallStates
  <2>2. OneDriver'
    BY <1>t, <1>9 DEF IndInv, TypeOK, CallStates, OneDriver, prepare_finish, AtParticipant, Return, Goto
  <2>3. Progress'
    BY <1>t, <1>9 DEF IndInv, TypeOK, CallStates, Progress, OneDriver, prepare_finish, AtParticipant, Return, Goto
  <2>4. Votes'
    <3>1. pc[th] = "prepare_ask" /\ ~AtParticipant(th) => AllIn(voted, cur[th])
      BY <1>t DEF IndInv, TypeOK, Progress, AllIn, AtParticipant
    <3>2. \A i \in Ids : AllIn(voted, i)' <=> AllIn(voted, i)
      BY <1>9 DEF prepare_finish, AllIn
    <3>3. cur[th] \in Ids /\ state[cur[th]] \in {"Preparing", "Aborting", "Aborted"}
      BY <1>t, <1>9 DEF IndInv, TypeOK, CallStates, prepare_finish
    <3>4. \A i \in Ids : i # cur[th] => state'[i] = state[i]
      BY <1>t, <1>9 DEF TypeOK, prepare_finish
    <3>5. /\ state'[cur[th]] \in {"Prepared", "Preparing"}
          /\ state'[cur[th]] = "Prepared" => AllIn(voted, cur[th])
          /\ log' = log
      BY <1>t, <1>9, <3>1, <3>3 DEF TypeOK, prepare_finish
    <3>6. \A u \in Threads : pc'[u] \in InCommit =>
                pc[u] \in InCommit /\ cur'[u] = cur[u] /\ cur[u] \in Ids
      BY <1>t, <1>9 DEF TypeOK, prepare_finish, Return, Goto
    <3> QED
      BY <1>t, <3>2, <3>3, <3>4, <3>5, <3>6 DEF IndInv, Votes
  <2>5. CommitRequiresVotes'
    BY <1>t, <1>9 DEF IndInv, TypeOK, CallStates, Votes, CommitRequiresVotes, AllIn, prepare_finish, AtParticipant, Return, Goto
  <2>6. CommittedMeansTold'
    <3>1. \A i \in Ids : state'[i] = "Committed" => state[i] = "Committed"
      BY <1>t, <1>9 DEF TypeOK, prepare_finish
    <3>2. parts' = parts /\ committed' = committed
      BY <1>9 DEF prepare_finish
    <3> QED
      BY <3>1, <3>2 DEF IndInv, CommittedMeansTold, AllIn
  <2> QED
    BY <1>t, <2>1, <2>2, <2>3, <2>4, <2>5, <2>6 DEF IndInv
<1>10. ASSUME NEW th \in Threads, commit_log(th)
     PROVE  IndInv'
  <2>1. CallStates'
    BY <1>t, <1>10 DEF IndInv, TypeOK, CallStates, commit_log, Goto
  <2>2. OneDriver'
    BY <1>t, <1>10 DEF IndInv, TypeOK, CallStates, OneDriver, commit_log, Goto
  <2>3. Progress'
    BY <1>t, <1>10 DEF IndInv, TypeOK, CallStates, Progress, OneDriver, commit_log, Goto
  <2>4. Votes'
    BY <1>t, <1>10 DEF IndInv, TypeOK, CallStates, Progress, Votes, AllIn, commit_log, Goto
  <2>5. CommitRequiresVotes'
    BY <1>t, <1>10 DEF IndInv, TypeOK, CallStates, Votes, CommitRequiresVotes, AllIn, commit_log, Goto
  <2>6. CommittedMeansTold'
    BY <1>t, <1>10 DEF IndInv, TypeOK, CallStates, Progress, CommittedMeansTold, AllIn, commit_log, Goto
  <2> QED
    BY <1>t, <2>1, <2>2, <2>3, <2>4, <2>5, <2>6 DEF IndInv
<1>11. ASSUME NEW th \in Threads, commit_tell(th)
     PROVE  IndInv'
  <2>1. CallStates'
    BY <1>t, <1>11 DEF IndInv, TypeOK, CallStates, commit_tell, Reaches, AtParticipant, Pid, Advance
  <2>2. OneDriver'
    BY <1>t, <1>11 DEF IndInv, TypeOK, CallStates, OneDriver, commit_tell, Reaches, AtParticipant, Pid, Advance
  <2>3. Progress'
    BY <1>t, <1>11 DEF IndInv, TypeOK, CallStates, Progress, OneDriver, commit_tell, Reaches, AtParticipant, Pid, Advance
  <2>4. Votes'
    BY <1>t, <1>11 DEF IndInv, TypeOK, CallStates, Progress, Votes, AllIn, commit_tell, Reaches, AtParticipant, Pid, Advance
  <2>5. CommitRequiresVotes'
    BY <1>t, <1>11 DEF IndInv, TypeOK, CallStates, Votes, CommitRequiresVotes, AllIn, commit_tell, Reaches, AtParticipant, Pid, Advance
  <2>6. CommittedMeansTold'
    BY <1>t, <1>11 DEF IndInv, TypeOK, CallStates, Progress, CommittedMeansTold, AllIn, commit_tell, Reaches, AtParticipant, Pid, Advance
  <2> QED
    BY <1>t, <2>1, <2>2, <2>3, <2>4, <2>5, <2>6 DEF IndInv
<1>12. ASSUME NEW th \in Threads, commit_error(th)
     PROVE  IndInv'
  <2>a. \A q \in Participants : committed[q] \subseteq committed'[q]
    <3>1. \/ committed' = committed
          \/ Pid(th) \in Participants /\ committed' = Reaches(committed, Pid(th), cur[th])
      BY <1>12 DEF commit_error
    <3>2. committed \in [Participants -> SUBSET Ids] /\ cur[th] \in Ids
      BY <1>t, <1>12 DEF TypeOK, commit_error
    <3> QED
      BY <3>1, <3>2, ReachesAdds
  <2>b. \A u \in Threads : /\ pc'[u] # "idle" => u # th /\ pc'[u] = pc[u]
                           /\ cur'[u] = cur[u] /\ pids'[u] = pids[u] /\ at'[u] = at[u]
    BY <1>t, <1>12 DEF TypeOK, commit_error, Return, Goto
  <2>c. /\ next_id' = next_id /\ state' = state /\ parts' = parts /\ log' = log
        /\ voted' = voted
    BY <1>12 DEF commit_error
  <2>1. CallStates'
    BY <2>b, <2>c DEF IndInv, CallStates
  <2>2. OneDriver'
    BY <2>b DEF IndInv, OneDriver
  <2>3. Progress'
    BY <2>a, <2>b, <2>c DEF IndInv, Progress
  <2>4. Votes'
    BY <2>b, <2>c DEF IndInv, Votes, AllIn
  <2>5. CommitRequiresVotes'
    BY <2>c DEF IndInv, CommitRequiresVotes, AllIn
  <2>6. CommittedMeansTold'
    BY <2>a, <2>c DEF IndInv, CommittedMeansTold, AllIn
  <2> QED
    BY <1>t, <2>1, <2>2, <2>3, <2>4, <2>5, <2>6 DEF IndInv
<1>13. ASSUME NEW th \in Threads, commit_finish(th)
     PROVE  IndInv'
  <2>1. CallStates'
    <3>1. \A u \in Threads : u # th /\ pc[u] \in InPrepare \cup InCommit => cur[u] # cur[th]
      BY <1>t, <1>13 DEF IndInv, OneDriver, commit_finish
    <3>2. cur[th] \in Ids /\ cur[th] < next_id
      <4>1. cur[th] \in Ids /\ state[cur[th]] # "Unknown"
        BY <1>t, <1>13 DEF IndInv, TypeOK, CallStates, commit_finish
      <4>2. cur[th] \in Int /\ next_id \in Int /\ ~(cur[th] >= next_id)
        BY <1>t, <4>1 DEF IndInv, TypeOK, CallStates
      <4> QED
        BY <4>1, <4>2
    <3> QED
      BY <1>t, <1>13, <3>1, <3>2 DEF IndInv, TypeOK, CallStates, commit_finish, Return, Goto
  <2>2. OneDriver'
    BY <1>t, <1>13 DEF IndInv, TypeOK, CallStates, OneDriver, commit_finish, AtParticipant, Return, Goto
  <2>3. Progress'
    BY <1>t, <1>13 DEF IndInv, TypeOK, CallStates, Progress, OneDriver, commit_finish, AtParticipant, Return, Goto
  <2>4. Votes'
    BY <1>t, <1>13 DEF IndInv, TypeOK, CallStates, Progress, Votes, AllIn, commit_finish, AtParticipant, Return, Goto
  <2>5. CommitRequiresVotes'
    BY <1>t, <1>13 DEF IndInv, TypeOK, CallStates, Votes, CommitRequiresVotes, AllIn, commit_finish, AtParticipant, Return, Goto
  <2>6. CommittedMeansTold'
    <3>1. AllIn(committed, cur[th])
      BY <1>t, <1>13 DEF IndInv, TypeOK, Progress, AllIn, AtParticipant, commit_finish
    <3>2. \A i \in Ids : AllIn(committed, i)' <=> AllIn(committed, i)
      BY <1>13 DEF commit_finish, AllIn
    <3>3. \A i \in Ids : i # cur[th] => state'[i] = state[i]
      BY <1>t, <1>13 DEF TypeOK, commit_finish
    <3> QED
      BY <3>1, <3>2, <3>3 DEF IndInv, CommittedMeansTold
  <2> QED
    BY <1>t, <2>1, <2>2, <2>3, <2>4, <2>5, <2>6 DEF IndInv
<1>14. ASSUME NEW th \in Threads, abort_log(th)
     PROVE  IndInv'
  <2>1. CallStates'
    BY <1>t, <1>14 DEF IndInv, TypeOK, CallStates, abort_log, Goto
  <2>2. OneDriver'
    BY <1>t, <1>14 DEF IndInv, TypeOK, CallStates, OneDriver, abort_log, Goto
  <2>3. Progress'
    BY <1>t, <1>14 DEF IndInv, TypeOK, CallStates, Progress, OneDriver, abort_log, Goto
  <2>4. Votes'
    BY <1>t, <1>14 DEF IndInv, TypeOK, CallStates, Progress, Votes, AllIn, abort_log, Goto
  <2>5. CommitRequiresVotes'
    BY <1>t, <1>14 DEF IndInv, TypeOK, CallStates, Votes, CommitRequiresVotes, AllIn, abort_log, Goto
  <2>6. CommittedMeansTold'
    BY <1>t, <1>14 DEF IndInv, TypeOK, CallStates, Progress, CommittedMeansTold, AllIn, abort_log, Goto
  <2> QED
    BY <1>t, <2>1, <2>2, <2>3, <2>4, <2>5, <2>6 DEF IndInv
<1>15. ASSUME NEW th \in Threads, abort_tell(th)
     PROVE  IndInv'
  <2>1. CallStates'
    BY <1>t, <1>15 DEF IndInv, TypeOK, CallStates, abort_tell, Reaches, AtParticipant, Pid, Advance
  <2>2. OneDriver'
    BY <1>t, <1>15 DEF IndInv, TypeOK, CallStates, OneDriver, abort_tell, Reaches, AtParticipant, Pid, Advance
  <2>3. Progress'
    BY <1>t, <1>15 DEF IndInv, TypeOK, CallStates, Progress, OneDriver, abort_tell, Reaches, AtParticipant, Pid, Advance
  <2>4. Votes'
    BY <1>t, <1>15 DEF IndInv, TypeOK, CallStates, Progress, Votes, AllIn, abort_tell, Reaches, AtParticipant, Pid, Advance
  <2>5. CommitRequiresVotes'
    BY <1>t, <1>15 DEF IndInv, TypeOK, CallStates, Votes, CommitRequiresVotes, AllIn, abort_tell, Reaches, AtParticipant, Pid, Advance
  <2>6. CommittedMeansTold'
    BY <1>t, <1>15 DEF IndInv, TypeOK, CallStates, Progress, CommittedMeansTold, AllIn, abort_tell, Reaches, AtParticipant, Pid, Advance
  <2> QED
    BY <1>t, <2>1, <2>2, <2>3, <2>4, <2>5, <2>6 DEF IndInv
<1>16. ASSUME NEW th \in Threads, abort_finish(th)
     PROVE  IndInv'
  <2>1. CallStates'
    BY <1>t, <1>16 DEF IndInv, TypeOK, CallStates, abort_finish, AtParticipant, Return, Goto
  <2>2. OneDriver'
    BY <1>t, <1>16 DEF IndInv, TypeOK, CallStates, OneDriver, abort_finish, AtParticipant, Return, Goto
  <2>3. Progress'
    BY <1>t, <1>16 DEF IndInv, TypeOK, CallStates, Progress, OneDriver, abort_finish, AtParticipant, Return, Goto
  <2>4. Votes'
    BY <1>t, <1>16 DEF IndInv, TypeOK, CallStates, Progress, Votes, AllIn, abort_finish, AtParticipant, Return, Goto
  <2>5. CommitRequiresVotes'
    BY <1>t, <1>16 DEF IndInv, TypeOK, CallStates, Votes, CommitRequiresVotes, AllIn, abort_finish, AtParticipant, Return, Goto
  <2>6. CommittedMeansTold'
    BY <1>t, <1>16 DEF IndInv, TypeOK, CallStates, Progress, CommittedMeansTold, AllIn, abort_finish, AtParticipant, Return, Goto
  <2> QED
    BY <1>t, <2>1, <2>2, <2>3, <2>4, <2>5, <2>6 DEF IndInv
<1>17. CASE Crash
  BY <1>t, <1>17 DEF IndInv, TypeOK, CallStates, OneDriver, Progress, Votes,
         CommitRequiresVotes, CommittedMeansTold, AllIn, Crash
<1>18. CASE UNCHANGED vars
  BY <1>t, <1>18 DEF IndInv, TypeOK, CallStates, OneDriver, Progress, Votes,
         CommitRequiresVotes, CommittedMeansTold, AllIn, vars
<1> QED
  BY <1>1, <1>2, <1>3, <1>4, <1>5, <1>6, <1>7, <1>8, <1>9, <1>10, <1>11, <1>12, <1>13, <1>14, <1>15, <1>16, <1>17, <1>18, NextCases

(* IndInv holds in every reachable state.                                *)
LEMMA IndInvariant == Spec => []IndInv
<1>1. Init => IndInv
  BY DtxAssumption DEF Init, IndInv, TypeOK, CallStates, OneDriver, Progress,
         Votes, CommitRequiresVotes, CommittedMeansTold, AllIn
<1>2. IndInv /\ [Next]_vars => IndInv'
  BY IndStep
<1> QED
  BY <1>1, <1>2, PTL DEF Spec

(* The commit decision needs every vote, under any interleaving of calls   *)
(* and any number of coordinator crashes.                                  *)
THEOREM VotesBeforeCommit == Spec => []CommitRequiresVotes
<1>1. IndInv => CommitRequiresVotes
  BY DEF IndInv
<1> QED
  BY <1>1, IndInvariant, PTL

(* Committed is only reported once every participant was told.             *)
THEOREM CommittedIsComplete == Spec => []CommittedMeansTold
<1>1. IndInv => CommittedMeansTold
  BY DEF IndInv
<1> QED
  BY <1>1, IndInvariant, PTL

(* Two threads never run the commit phase of one transaction.              *)
THEOREM CommitIsExclusive == Spec => []OneCommitter
<1>1. IndInv => OneCommitter
  BY DEF IndInv, OneDriver, OneCommitter
<1> QED
  BY <1>1, IndInvariant, PTL

--------------------------------------------------------------------------------
(* A thread past its log record has that record in the log.                *)
Logged ==
    \A th \in Threads :
        /\ pc[th] \in {"prepare_ask", "prepare_no"} => <<"Prepare", cur[th]>> \in log
        /\ pc[th] = "commit_tell" => <<"Commit", cur[th]>> \in log
        /\ pc[th] = "abort_tell" => <<"Abort", cur[th]>> \in log

(* Every step keeps that: a call reaches its participants only through the *)
(* step that writes its record, and only a crash, which ends every call,   *)
(* empties the log.                                                        *)
LEMMA LoggedStep ==
    ASSUME TypeOK, Logged, [Next]_vars
    PROVE  Logged'
<1> USE DEF TypeOK, Logged
<1>1. CASE begin_distributed_tx
  BY <1>1 DEF begin_distributed_tx
<1>2. ASSUME NEW th \in Threads, NEW id \in Ids, NEW list \in PidLists,
             prepare_start(th, id, list)
      PROVE  Logged'
  BY <1>2 DEF prepare_start, Enter
<1>3. ASSUME NEW th \in Threads, NEW id \in Ids, commit_start(th, id)
      PROVE  Logged'
  BY <1>3 DEF commit_start, Enter
<1>4. ASSUME NEW th \in Threads, NEW id \in Ids, abort_start(th, id)
      PROVE  Logged'
  BY <1>4 DEF abort_start, Enter
<1>5. ASSUME NEW th \in Threads, prepare_log(th)
      PROVE  Logged'
  BY <1>5 DEF prepare_log, Goto
<1>6. ASSUME NEW th \in Threads, prepare_vote_yes(th)
      PROVE  Logged'
  BY <1>6 DEF prepare_vote_yes, Advance
<1>7. ASSUME NEW th \in Threads, prepare_vote_no(th)
      PROVE  Logged'
  BY <1>7 DEF prepare_vote_no, Goto
<1>8. ASSUME NEW th \in Threads, prepare_error(th)
      PROVE  Logged'
  BY <1>8 DEF prepare_error, Return, Goto
<1>9. ASSUME NEW th \in Threads, prepare_finish(th)
      PROVE  Logged'
  BY <1>9 DEF prepare_finish, Return, Goto
<1>10. ASSUME NEW th \in Threads, commit_log(th)
       PROVE  Logged'
  BY <1>10 DEF commit_log, Goto
<1>11. ASSUME NEW th \in Threads, commit_tell(th)
       PROVE  Logged'
  BY <1>11 DEF commit_tell, Advance
<1>12. ASSUME NEW th \in Threads, commit_error(th)
       PROVE  Logged'
  BY <1>12 DEF commit_error, Return, Goto
<1>13. ASSUME NEW th \in Threads, commit_finish(th)
       PROVE  Logged'
  BY <1>13 DEF commit_finish, Return, Goto
<1>14. ASSUME NEW th \in Threads, abort_log(th)
       PROVE  Logged'
  BY <1>14 DEF abort_log, Goto
<1>15. ASSUME NEW th \in Threads, abort_tell(th)
       PROVE  Logged'
  BY <1>15 DEF abort_tell, Advance
<1>16. ASSUME NEW th \in Threads, abort_finish(th)
       PROVE  Logged'
  BY <1>16 DEF abort_finish, Return, Goto
<1>17. CASE Crash
  BY <1>17 DEF Crash
<1>18. CASE UNCHANGED vars
  BY <1>18 DEF vars
<1> QED
  BY <1>1, <1>2, <1>3, <1>4, <1>5, <1>6, <1>7, <1>8, <1>9, <1>10, <1>11, <1>12, <1>13, <1>14, <1>15, <1>16, <1>17, <1>18, NextCases

(* A step changes what participants know only after the log record.        *)
LEMMA LogFirstStep ==
    ASSUME TypeOK, Logged, [Next]_vars,
           NEW p \in Participants, NEW id \in Ids
    PROVE  /\ id \in voted'[p] \ voted[p] => <<"Prepare", id>> \in log
           /\ id \in committed'[p] \ committed[p] => <<"Commit", id>> \in log
           /\ id \in aborted'[p] \ aborted[p] => <<"Abort", id>> \in log
<1> DEFINE Goal == /\ id \in voted'[p] \ voted[p] => <<"Prepare", id>> \in log
                   /\ id \in committed'[p] \ committed[p] => <<"Commit", id>> \in log
                   /\ id \in aborted'[p] \ aborted[p] => <<"Abort", id>> \in log
<1>1. CASE UNCHANGED partVars
  BY <1>1
<1>2. ASSUME NEW th \in Threads, prepare_vote_yes(th)
      PROVE  Goal
  BY <1>2 DEF TypeOK, Logged, prepare_vote_yes, Reaches, Pid
<1>3. ASSUME NEW th \in Threads, prepare_error(th)
      PROVE  Goal
  <2>1. cur[th] \in Ids
    BY <1>3 DEF TypeOK, prepare_error
  <2>2. \A r \in Participants : voted'[r] \subseteq voted[r] \cup {cur[th]}
    <3>1. \/ voted' = voted
          \/ Pid(th) \in Participants /\ voted' = Reaches(voted, Pid(th), cur[th])
      BY <1>3 DEF prepare_error
    <3>2. voted \in [Participants -> SUBSET Ids]
      BY DEF TypeOK
    <3> QED
      BY <2>1, <3>1, <3>2, ReachesAdds
  <2> QED
    BY <1>3, <2>1, <2>2 DEF TypeOK, Logged, prepare_error
<1>4. ASSUME NEW th \in Threads, commit_tell(th)
      PROVE  Goal
  BY <1>4 DEF TypeOK, Logged, commit_tell, Reaches, Pid
<1>5. ASSUME NEW th \in Threads, commit_error(th)
      PROVE  Goal
  <2>1. cur[th] \in Ids
    BY <1>5 DEF TypeOK, commit_error
  <2>2. \A r \in Participants : committed'[r] \subseteq committed[r] \cup {cur[th]}
    <3>1. \/ committed' = committed
          \/ Pid(th) \in Participants /\ committed' = Reaches(committed, Pid(th), cur[th])
      BY <1>5 DEF commit_error
    <3>2. committed \in [Participants -> SUBSET Ids]
      BY DEF TypeOK
    <3> QED
      BY <2>1, <3>1, <3>2, ReachesAdds
  <2> QED
    BY <1>5, <2>1, <2>2 DEF TypeOK, Logged, commit_error
<1>6. ASSUME NEW th \in Threads, abort_tell(th)
      PROVE  Goal
  <2>1. cur[th] \in Ids
    BY <1>6 DEF TypeOK, abort_tell
  <2>2. \A r \in Participants : aborted'[r] \subseteq aborted[r] \cup {cur[th]}
    <3>1. \/ aborted' = aborted
          \/ Pid(th) \in Participants /\ aborted' = Reaches(aborted, Pid(th), cur[th])
      BY <1>6 DEF abort_tell
    <3>2. aborted \in [Participants -> SUBSET Ids]
      BY DEF TypeOK
    <3> QED
      BY <2>1, <3>1, <3>2, ReachesAdds
  <2> QED
    BY <1>6, <2>1, <2>2 DEF TypeOK, Logged, abort_tell
<1> QED
  BY <1>1, <1>2, <1>3, <1>4, <1>5, <1>6, NextCases
     DEF begin_distributed_tx, prepare_start, commit_start, abort_start,
         prepare_log, prepare_vote_no, prepare_finish, commit_log,
         commit_finish, abort_log, abort_finish, Crash, vars

(* Participants learn of an intent or a decision only after its record is  *)
(* in the log.                                                             *)
THEOREM WriteAhead == Spec => LogComesFirst
<1>1. Init => Logged
  BY DEF Init, Logged
<1>2. TypeOK /\ Logged /\ [Next]_vars => Logged'
  BY LoggedStep
<1>3. TypeOK /\ Logged /\ [Next]_vars =>
         [\A p \in Participants, id \in Ids :
            /\ id \in voted'[p] \ voted[p] => <<"Prepare", id>> \in log
            /\ id \in committed'[p] \ committed[p] => <<"Commit", id>> \in log
            /\ id \in aborted'[p] \ aborted[p] => <<"Abort", id>> \in log]_vars
  BY LogFirstStep
<1> QED
  BY <1>1, <1>2, <1>3, TypeCorrect, PTL DEF Spec, LogComesFirst

--------------------------------------------------------------------------------
(* With disciplined callers and before any crash, one thread at a time     *)
(* works on a transaction, and its state tells which outcome, if any, the  *)
(* participants may have seen.                                             *)
OutcomeFollowsState ==
    Disciplined /\ crashes = 0 =>
      /\ \A th1, th2 \in Threads :
            pc[th1] # "idle" /\ pc[th2] # "idle" /\ cur[th1] = cur[th2] => th1 = th2
      /\ \A th \in Threads :
            /\ pc[th] \in InPrepare => state[cur[th]] = "Preparing"
            /\ pc[th] \in InCommit => state[cur[th]] = "Committing"
            /\ pc[th] \in InAbort => state[cur[th]] = "Aborting"
      /\ \A p \in Participants, id \in Ids :
            /\ id \in committed[p] => state[id] \in {"Committing", "Committed"}
            /\ id \in aborted[p] => state[id] \in {"Aborting", "Aborted"}

(* Every step keeps that: under the discipline a call starts on a          *)
(* transaction only when no other call is inside it, and the states that   *)
(* allow commit and abort exclude each other's effects.                    *)
LEMMA OutcomeStep ==
    ASSUME IndInv, OutcomeFollowsState, [Next]_vars
    PROVE  OutcomeFollowsState'
<1>t. TypeOK /\ TypeOK'
  BY TypeStep DEF IndInv
<1> USE DEF OutcomeFollowsState
<1>1. CASE begin_distributed_tx
  BY <1>t, <1>1 DEF IndInv, TypeOK, CallStates, begin_distributed_tx
<1>2. ASSUME NEW th \in Threads, NEW id \in Ids, NEW list \in PidLists,
             prepare_start(th, id, list)
      PROVE  OutcomeFollowsState'
  <2> SUFFICES ASSUME Disciplined, crashes = 0 PROVE OutcomeFollowsState'
    BY <1>2 DEF prepare_start
  <2>1. \A u \in Threads : pc[u] # "idle" => cur[u] # id
    <3>1. \A u \in Threads : pc[u] # "idle" => pc[u] \in InPrepare \cup InCommit \cup InAbort
      BY <1>t DEF TypeOK
    <3>2. state[id] = "Initiated"
      BY <1>2 DEF prepare_start, Preparable
    <3> QED
      BY <3>1, <3>2
  <2>2. \A q \in Participants : id \notin committed[q] /\ id \notin aborted[q]
    BY <1>t, <1>2 DEF TypeOK, prepare_start, Preparable
  <2>3. /\ pc'[th] = "prepare_log" /\ cur'[th] = id
        /\ \A u \in Threads : u # th => pc'[u] = pc[u] /\ cur'[u] = cur[u]
    BY <1>t, <1>2 DEF TypeOK, prepare_start, Enter
  <2>4. /\ state'[id] = "Preparing"
        /\ \A i \in Ids : i # id => state'[i] = state[i]
    BY <1>t, <1>2 DEF TypeOK, prepare_start
  <2>5. committed' = committed /\ aborted' = aborted
    BY <1>2 DEF prepare_start
  <2>6. \A u \in Threads : pc[u] # "idle" => cur[u] \in Ids
    BY <1>t DEF TypeOK
  <2> QED
    BY <2>1, <2>2, <2>3, <2>4, <2>5, <2>6
<1>3. ASSUME NEW th \in Threads, NEW id \in Ids, commit_start(th, id)
      PROVE  OutcomeFollowsState'
  <2> SUFFICES ASSUME Disciplined, crashes = 0 PROVE OutcomeFollowsState'
    BY <1>3 DEF commit_start
  <2>1. \A u \in Threads : pc[u] # "idle" => cur[u] # id
    <3>1. \A u \in Threads : pc[u] # "idle" => pc[u] \in InPrepare \cup InCommit \cup InAbort
      BY <1>t DEF TypeOK
    <3>2. state[id] = "Prepared"
      BY <1>3 DEF commit_start, Committable
    <3> QED
      BY <3>1, <3>2
  <2>2. \A q \in Participants : id \notin committed[q] /\ id \notin aborted[q]
    BY <1>t, <1>3 DEF TypeOK, commit_start, Committable
  <2>3. /\ pc'[th] = "commit_log" /\ cur'[th] = id
        /\ \A u \in Threads : u # th => pc'[u] = pc[u] /\ cur'[u] = cur[u]
    BY <1>t, <1>3 DEF TypeOK, commit_start, Enter
  <2>4. /\ state'[id] = "Committing"
        /\ \A i \in Ids : i # id => state'[i] = state[i]
    BY <1>t, <1>3 DEF TypeOK, commit_start
  <2>5. committed' = committed /\ aborted' = aborted
    BY <1>3 DEF commit_start
  <2>6. \A u \in Threads : pc[u] # "idle" => cur[u] \in Ids
    BY <1>t DEF TypeOK
  <2> QED
    BY <2>1, <2>2, <2>3, <2>4, <2>5, <2>6
<1>4. ASSUME NEW th \in Threads, NEW id \in Ids, abort_start(th, id)
      PROVE  OutcomeFollowsState'
  BY <1>t, <1>4 DEF IndInv, TypeOK, CallStates, abort_start, Abortable, CallerMayAbort, Enter
<1>5. ASSUME NEW th \in Threads, prepare_log(th)
      PROVE  OutcomeFollowsState'
  BY <1>t, <1>5 DEF IndInv, TypeOK, CallStates, prepare_log, Goto
<1>6. ASSUME NEW th \in Threads, prepare_vote_yes(th)
      PROVE  OutcomeFollowsState'
  BY <1>t, <1>6 DEF IndInv, TypeOK, CallStates, prepare_vote_yes, Reaches, AtParticipant, Pid, Advance
<1>7. ASSUME NEW th \in Threads, prepare_vote_no(th)
      PROVE  OutcomeFollowsState'
  BY <1>t, <1>7 DEF IndInv, TypeOK, CallStates, prepare_vote_no, AtParticipant, Goto
<1>8. ASSUME NEW th \in Threads, prepare_error(th)
      PROVE  OutcomeFollowsState'
  BY <1>t, <1>8 DEF IndInv, TypeOK, CallStates, prepare_error, Reaches, AtParticipant, Pid, Return, Goto
<1>9. ASSUME NEW th \in Threads, prepare_finish(th)
      PROVE  OutcomeFollowsState'
  <2> SUFFICES ASSUME Disciplined, crashes = 0 PROVE OutcomeFollowsState'
    BY <1>9 DEF prepare_finish
  <2>1. \A u \in Threads : u # th /\ pc[u] # "idle" => cur[u] # cur[th]
    BY <1>t, <1>9 DEF prepare_finish
  <2>2. \A q \in Participants : cur[th] \notin committed[q] /\ cur[th] \notin aborted[q]
    BY <1>t, <1>9 DEF TypeOK, prepare_finish
  <2>3. \A i \in Ids : i # cur[th] => state'[i] = state[i]
    BY <1>t, <1>9 DEF TypeOK, prepare_finish
  <2>4. \A u \in Threads : pc'[u] # "idle" =>
            u # th /\ pc[u] = pc'[u] /\ cur'[u] = cur[u] /\ cur[u] \in Ids
    BY <1>t, <1>9 DEF TypeOK, prepare_finish, Return, Goto
  <2>5. committed' = committed /\ aborted' = aborted
    BY <1>9 DEF prepare_finish
  <2> QED
    BY <1>t, <2>1, <2>2, <2>3, <2>4, <2>5
<1>10. ASSUME NEW th \in Threads, commit_log(th)
       PROVE  OutcomeFollowsState'
  BY <1>t, <1>10 DEF IndInv, TypeOK, CallStates, commit_log, Goto
<1>11. ASSUME NEW th \in Threads, commit_tell(th)
       PROVE  OutcomeFollowsState'
  BY <1>t, <1>11 DEF IndInv, TypeOK, CallStates, commit_tell, Reaches, AtParticipant, Pid, Advance
<1>12. ASSUME NEW th \in Threads, commit_error(th)
       PROVE  OutcomeFollowsState'
  <2>1. cur[th] \in Ids
    BY <1>t, <1>12 DEF TypeOK, commit_error
  <2>2. \A r \in Participants : committed'[r] \subseteq committed[r] \cup {cur[th]}
    <3>1. \/ committed' = committed
          \/ Pid(th) \in Participants /\ committed' = Reaches(committed, Pid(th), cur[th])
      BY <1>12 DEF commit_error
    <3>2. committed \in [Participants -> SUBSET Ids]
      BY <1>t DEF TypeOK
    <3> QED
      BY <2>1, <3>1, <3>2, ReachesAdds
  <2> QED
    BY <1>t, <1>12, <2>1, <2>2 DEF TypeOK, commit_error, Return, Goto
<1>13. ASSUME NEW th \in Threads, commit_finish(th)
       PROVE  OutcomeFollowsState'
  <2> SUFFICES ASSUME Disciplined, crashes = 0 PROVE OutcomeFollowsState'
    BY <1>13 DEF commit_finish
  <2>1. \A u \in Threads : u # th /\ pc[u] # "idle" => cur[u] # cur[th]
    BY <1>13 DEF commit_finish
  <2>2. cur[th] \in Ids /\ state[cur[th]] = "Committing"
    BY <1>t, <1>13 DEF TypeOK, commit_finish
  <2>3. /\ state'[cur[th]] = "Committed"
        /\ \A i \in Ids : i # cur[th] => state'[i] = state[i]
    BY <1>t, <1>13, <2>2 DEF TypeOK, commit_finish
  <2>4. \A u \in Threads : pc'[u] # "idle" =>
            u # th /\ pc[u] = pc'[u] /\ cur'[u] = cur[u] /\ cur[u] \in Ids
    BY <1>t, <1>13 DEF TypeOK, commit_finish, Return, Goto
  <2>5. committed' = committed /\ aborted' = aborted
    BY <1>13 DEF commit_finish
  <2> QED
    BY <2>1, <2>2, <2>3, <2>4, <2>5
<1>14. ASSUME NEW th \in Threads, abort_log(th)
       PROVE  OutcomeFollowsState'
  BY <1>t, <1>14 DEF IndInv, TypeOK, CallStates, abort_log, Goto
<1>15. ASSUME NEW th \in Threads, abort_tell(th)
       PROVE  OutcomeFollowsState'
  <2>1. cur[th] \in Ids
    BY <1>t, <1>15 DEF TypeOK, abort_tell
  <2>2. \A r \in Participants : aborted'[r] \subseteq aborted[r] \cup {cur[th]}
    <3>1. \/ aborted' = aborted
          \/ Pid(th) \in Participants /\ aborted' = Reaches(aborted, Pid(th), cur[th])
      BY <1>15 DEF abort_tell
    <3>2. aborted \in [Participants -> SUBSET Ids]
      BY <1>t DEF TypeOK
    <3> QED
      BY <2>1, <3>1, <3>2, ReachesAdds
  <2> QED
    BY <1>t, <1>15, <2>1, <2>2 DEF TypeOK, abort_tell, Advance
<1>16. ASSUME NEW th \in Threads, abort_finish(th)
       PROVE  OutcomeFollowsState'
  BY <1>t, <1>16 DEF IndInv, TypeOK, CallStates, abort_finish, AtParticipant, Return, Goto
<1>17. CASE Crash
  BY <1>t, <1>17 DEF TypeOK, Crash
<1>18. CASE UNCHANGED vars
  BY <1>18 DEF vars
<1> QED
  BY <1>1, <1>2, <1>3, <1>4, <1>5, <1>6, <1>7, <1>8, <1>9, <1>10, <1>11, <1>12, <1>13, <1>14, <1>15, <1>16, <1>17, <1>18, NextCases

(* If callers keep to the documented order of calls, then until the        *)
(* coordinator crashes no transaction commits at one participant and       *)
(* aborts at another.                                                      *)
THEOREM DisciplinedAtomicity == Spec => []AtomicIfDisciplined
<1>1. Init => OutcomeFollowsState
  BY DEF Init, OutcomeFollowsState
<1>2. IndInv /\ OutcomeFollowsState /\ [Next]_vars => OutcomeFollowsState'
  BY OutcomeStep
<1>3. OutcomeFollowsState => AtomicIfDisciplined
  BY DEF OutcomeFollowsState, AtomicIfDisciplined, AtomicOutcome
<1> QED
  BY <1>1, <1>2, <1>3, IndInvariant, PTL DEF Spec

--------------------------------------------------------------------------------
(* With disciplined callers and before any crash the log agrees with the   *)
(* state of a transaction, its decision is recorded once, its participant  *)
(* list is fixed by the only prepare, and every call works on that list.   *)
LogFollowsState ==
    Disciplined /\ crashes = 0 =>
      /\ \A id \in Ids :
            /\ <<"Commit", id>> \in log => state[id] \in {"Committing", "Committed"}
            /\ <<"Abort", id>> \in log => state[id] \in {"Aborting", "Aborted"}
            /\ state[id] \in {"Unknown", "Initiated"} => parts[id] = <<>>
      /\ \A th \in Threads :
            /\ pc[th] = "commit_log" => <<"Commit", cur[th]>> \notin log
            /\ pc[th] # "idle" => pids[th] = parts[cur[th]]

(* Every step keeps the log, the states and the lists in agreement.        *)
LEMMA LogStateStep ==
    ASSUME IndInv, OutcomeFollowsState, LogFollowsState, [Next]_vars
    PROVE  LogFollowsState'
<1>t. TypeOK /\ TypeOK'
  BY TypeStep DEF IndInv
<1> SUFFICES ASSUME Disciplined, crashes' = 0
             PROVE  LogFollowsState'
  BY DEF LogFollowsState
<1>0. crashes = 0 \/ Crash
  BY NextCases DEF begin_distributed_tx, prepare_start, commit_start, abort_start,
         prepare_log, prepare_vote_yes, prepare_vote_no, prepare_error, prepare_finish,
         commit_log, commit_tell, commit_error, commit_finish, abort_log, abort_tell,
         abort_finish, vars
<1>1. CASE Crash
  BY <1>t, <1>1 DEF LogFollowsState, Crash, TypeOK
<1>2. CASE crashes = 0
  <2>1. /\ \A th1, th2 \in Threads :
             pc[th1] # "idle" /\ pc[th2] # "idle" /\ cur[th1] = cur[th2] => th1 = th2
        /\ \A th \in Threads :
             /\ pc[th] \in InPrepare => state[cur[th]] = "Preparing"
             /\ pc[th] \in InCommit => state[cur[th]] = "Committing"
             /\ pc[th] \in InAbort => state[cur[th]] = "Aborting"
    BY <1>2 DEF OutcomeFollowsState
  <2>2. \A th \in Threads : pc[th] # "idle" =>
           pc[th] \in InPrepare \cup InCommit \cup InAbort /\ cur[th] \in Ids
    BY <1>t DEF TypeOK
  <2>3. /\ \A id \in Ids :
            /\ <<"Commit", id>> \in log => state[id] \in {"Committing", "Committed"}
            /\ <<"Abort", id>> \in log => state[id] \in {"Aborting", "Aborted"}
            /\ state[id] \in {"Unknown", "Initiated"} => parts[id] = <<>>
        /\ \A th \in Threads :
            /\ pc[th] = "commit_log" => <<"Commit", cur[th]>> \notin log
            /\ pc[th] # "idle" => pids[th] = parts[cur[th]]
    BY <1>2 DEF LogFollowsState
  <2> USE DEF LogFollowsState
  <2>4. CASE begin_distributed_tx
    <3>0. next_id \in Ids
      BY <1>t, <2>4, DtxAssumption DEF TypeOK, begin_distributed_tx
    <3>1. state[next_id] = "Unknown" /\ parts[next_id] = <<>>
      <4>1. next_id >= next_id
        BY <3>0
      <4>2. \A n \in Ids : n >= next_id => state[n] = "Unknown"
        BY DEF IndInv, CallStates
      <4>3. state[next_id] = "Unknown"
        BY <3>0, <4>1, <4>2
      <4> QED
        BY <2>3, <3>0, <4>3
    <3>2. parts' = parts
      BY <1>t, <2>4, <3>0, <3>1 DEF TypeOK, begin_distributed_tx
    <3>3. state'[next_id] = "Initiated" /\ \A i \in Ids : i # next_id => state'[i] = state[i]
      BY <1>t, <2>4, <3>0, <3>1 DEF TypeOK, begin_distributed_tx
    <3> QED
      BY <2>3, <2>4, <3>1, <3>2, <3>3 DEF begin_distributed_tx
  <2>5. ASSUME NEW th \in Threads, NEW id \in Ids, NEW list \in PidLists,
               prepare_start(th, id, list)
        PROVE  LogFollowsState'
    <3>1. state[id] = "Initiated" /\ \A u \in Threads : pc[u] # "idle" => cur[u] # id
      BY <2>1, <2>2, <2>5 DEF prepare_start, Preparable
    <3>2. /\ pc'[th] = "prepare_log" /\ cur'[th] = id /\ pids'[th] = list
          /\ \A u \in Threads : u # th => pc'[u] = pc[u] /\ cur'[u] = cur[u] /\ pids'[u] = pids[u]
      BY <1>t, <2>5 DEF TypeOK, prepare_start, Enter
    <3>3. /\ state'[id] = "Preparing" /\ parts'[id] = list /\ log' = log
          /\ \A i \in Ids : i # id => state'[i] = state[i] /\ parts'[i] = parts[i]
      BY <1>t, <2>5 DEF TypeOK, prepare_start
    <3> QED
      BY <2>2, <2>3, <3>1, <3>2, <3>3
  <2>6. ASSUME NEW th \in Threads, NEW id \in Ids, commit_start(th, id) \/ abort_start(th, id)
        PROVE  LogFollowsState'
    <3>1. /\ cur'[th] = id /\ pids'[th] = parts[id] /\ pc'[th] # "idle"
          /\ \A u \in Threads : u # th => pc'[u] = pc[u] /\ cur'[u] = cur[u] /\ pids'[u] = pids[u]
      BY <1>t, <2>6 DEF TypeOK, commit_start, abort_start, Enter
    <3>2. UNCHANGED <<log, parts>> /\ \A i \in Ids : i # id => state'[i] = state[i]
      BY <1>t, <2>6 DEF TypeOK, commit_start, abort_start
    <3>3. CASE commit_start(th, id)
      <4>1. state[id] = "Prepared" /\ state'[id] = "Committing"
        BY <1>t, <3>3 DEF TypeOK, commit_start, Committable
      <4>2. ASSUME NEW i \in Ids
            PROVE  /\ <<"Commit", i>> \in log => state'[i] \in {"Committing", "Committed"}
                   /\ <<"Abort", i>> \in log => state'[i] \in {"Aborting", "Aborted"}
                   /\ state'[i] \in {"Unknown", "Initiated"} => parts[i] = <<>>
        BY <2>3, <3>2, <4>1
      <4>3. ASSUME NEW u \in Threads
            PROVE  /\ pc'[u] = "commit_log" => <<"Commit", cur'[u]>> \notin log
                   /\ pc'[u] # "idle" => pids'[u] = parts[cur'[u]]
        <5>1. CASE u = th
          BY <2>3, <3>1, <4>1, <5>1
        <5>2. CASE u # th
          BY <2>3, <3>1, <5>2
        <5> QED
          BY <5>1, <5>2
      <4> QED
        BY <3>2, <4>2, <4>3
    <3>4. CASE abort_start(th, id)
      <4>1. /\ state[id] \notin {"Unknown", "Committing", "Committed", "Aborted"}
            /\ state'[id] = "Aborting" /\ pc'[th] = "abort_log"
        BY <1>t, <3>4 DEF TypeOK, abort_start, Abortable, CallerMayAbort, Enter
      <4>2. ASSUME NEW i \in Ids
            PROVE  /\ <<"Commit", i>> \in log => state'[i] \in {"Committing", "Committed"}
                   /\ <<"Abort", i>> \in log => state'[i] \in {"Aborting", "Aborted"}
                   /\ state'[i] \in {"Unknown", "Initiated"} => parts[i] = <<>>
        BY <2>3, <3>2, <4>1
      <4>3. ASSUME NEW u \in Threads
            PROVE  /\ pc'[u] = "commit_log" => <<"Commit", cur'[u]>> \notin log
                   /\ pc'[u] # "idle" => pids'[u] = parts[cur'[u]]
        BY <2>3, <3>1, <4>1
      <4> QED
        BY <3>2, <4>2, <4>3
    <3> QED
      BY <2>6, <3>3, <3>4
  <2>7. ASSUME NEW th \in Threads, \/ prepare_log(th) \/ commit_log(th) \/ abort_log(th)
        PROVE  LogFollowsState'
    <3>1. /\ UNCHANGED <<cur, pids, parts, state>> /\ pc[th] # "idle" /\ pc'[th] # "commit_log"
          /\ \A u \in Threads : u # th => pc'[u] = pc[u]
      BY <1>t, <2>7 DEF TypeOK, prepare_log, commit_log, abort_log, Goto
    <3>2. /\ prepare_log(th) => pc[th] \in InPrepare /\ log' = log \cup {<<"Prepare", cur[th]>>}
          /\ commit_log(th) => pc[th] \in InCommit /\ log' = log \cup {<<"Commit", cur[th]>>}
          /\ abort_log(th) => pc[th] \in InAbort /\ log' = log \cup {<<"Abort", cur[th]>>}
      BY DEF prepare_log, commit_log, abort_log
    <3>3. \A u \in Threads : pc'[u] = "commit_log" =>
             pc[u] = "commit_log" /\ cur[u] # cur[th]
      BY <2>1, <3>1
    <3>4. \A u \in Threads : pc'[u] # "idle" => pc[u] # "idle"
      BY <3>1
    <3> QED
      BY <2>1, <2>3, <2>7, <3>1, <3>2, <3>3, <3>4
  <2>8. ASSUME NEW th \in Threads,
               \/ prepare_vote_yes(th) \/ prepare_vote_no(th) \/ prepare_error(th)
               \/ commit_tell(th) \/ commit_error(th) \/ abort_tell(th)
        PROVE  LogFollowsState'
    <3>1. UNCHANGED <<cur, pids, parts, state, log>>
      BY <2>8 DEF prepare_vote_yes, prepare_vote_no, prepare_error, commit_tell, commit_error,
                  abort_tell, Advance, Return, Goto
    <3>2. \A u \in Threads : /\ pc'[u] = "commit_log" => pc[u] = "commit_log"
                             /\ pc'[u] # "idle" => pc[u] # "idle"
      BY <1>t, <2>8 DEF TypeOK, prepare_vote_yes, prepare_vote_no, prepare_error, commit_tell,
                        commit_error, abort_tell, Advance, Return, Goto
    <3> QED
      BY <2>3, <3>1, <3>2
  <2>9. ASSUME NEW th \in Threads, prepare_finish(th) \/ commit_finish(th) \/ abort_finish(th)
        PROVE  LogFollowsState'
    <3>1. UNCHANGED <<cur, pids, parts, log>> /\ cur[th] \in Ids
      BY <1>t, <2>9 DEF TypeOK, prepare_finish, commit_finish, abort_finish, Return, Goto
    <3>2. \A u \in Threads : pc'[u] # "idle" => pc[u] = pc'[u]
      BY <1>t, <2>9 DEF TypeOK, prepare_finish, commit_finish, abort_finish, Return, Goto
    <3>3. /\ \A i \in Ids : i # cur[th] => state'[i] = state[i]
          /\ prepare_finish(th) => /\ state[cur[th]] = "Preparing"
                                   /\ state'[cur[th]] \in {"Prepared", "Preparing"}
          /\ commit_finish(th) => /\ state[cur[th]] = "Committing"
                                  /\ state'[cur[th]] = "Committed"
          /\ abort_finish(th) => /\ state[cur[th]] = "Aborting"
                                 /\ state'[cur[th]] = "Aborted"
      BY <1>t, <2>1, <2>9, <3>1 DEF TypeOK, prepare_finish, commit_finish, abort_finish
    <3> QED
      BY <2>3, <2>9, <3>1, <3>2, <3>3
  <2>10. CASE UNCHANGED vars
    BY <2>3, <2>10 DEF vars
  <2> QED
    BY <1>1, <2>4, <2>5, <2>6, <2>7, <2>8, <2>9, <2>10, NextCases
<1> QED
  BY <1>0, <1>1, <1>2

--------------------------------------------------------------------------------
(* The abstract transaction is read off the list and the log.              *)
LEMMA DecisionIs ==
    ASSUME NEW id \in Ids
    PROVE  /\ Decision[id] = "none" <=> <<"Commit", id>> \notin log /\ <<"Abort", id>> \notin log
           /\ Decision[id] = "commit" <=> <<"Commit", id>> \in log
           /\ Decision[id] = "abort" <=> <<"Commit", id>> \notin log /\ <<"Abort", id>> \in log
  BY DEF Decision

(* The participant a loop stands at is a member of the transaction.        *)
LEMMA PidIsMember ==
    ASSUME TypeOK, NEW th \in Threads, cur[th] \in Ids, pids[th] = parts[cur[th]],
           AtParticipant(th)
    PROVE  Pid(th) \in Members[cur[th]]
<1>1. pids[th] \in Seq(Pids)
  <2>1. pids[th] \in PidLists \cup {<<>>}
    BY DEF TypeOK
  <2>2. <<>> \in Seq(Pids) /\ PidLists \subseteq Seq(Pids)
    BY DtxAssumption
  <2> QED
    BY <2>1, <2>2
<1>2. at[th] \in 1 .. Len(pids[th])
  BY <1>1 DEF TypeOK, AtParticipant
<1> QED
  BY <1>2 DEF Members, Pid

(* Steps that write no decision and no list leave the abstraction alone.   *)
LEMMA SameAbstract ==
    ASSUME UNCHANGED parts,
           \A id \in Ids : <<"Commit", id>> \in log' <=> <<"Commit", id>> \in log,
           \A id \in Ids : <<"Abort", id>> \in log' <=> <<"Abort", id>> \in log
    PROVE  Members' = Members /\ Decision' = Decision
<1>1. Members' = Members
  BY DEF Members
<1> DEFINE D(a, b) == IF a THEN "commit" ELSE IF b THEN "abort" ELSE "none"
<1>2. /\ Decision = [id \in Ids |-> D(<<"Commit", id>> \in log, <<"Abort", id>> \in log)]
      /\ Decision' = [id \in Ids |-> D(<<"Commit", id>> \in log', <<"Abort", id>> \in log')]
  BY DEF Decision
<1>3. \A id \in Ids : D(<<"Commit", id>> \in log, <<"Abort", id>> \in log)
                        = D(<<"Commit", id>> \in log', <<"Abort", id>> \in log')
  <2> SUFFICES ASSUME NEW id \in Ids
               PROVE  D(<<"Commit", id>> \in log, <<"Abort", id>> \in log)
                        = D(<<"Commit", id>> \in log', <<"Abort", id>> \in log')
    OBVIOUS
  <2>1. /\ <<"Commit", id>> \in log' <=> <<"Commit", id>> \in log
        /\ <<"Abort", id>> \in log' <=> <<"Abort", id>> \in log
    OBVIOUS
  <2>2. CASE <<"Commit", id>> \in log
    BY <2>1, <2>2
  <2>3. CASE <<"Commit", id>> \notin log /\ <<"Abort", id>> \in log
    BY <2>1, <2>3
  <2>4. CASE <<"Commit", id>> \notin log /\ <<"Abort", id>> \notin log
    BY <2>1, <2>4
  <2> QED
    BY <2>2, <2>3, <2>4
<1> HIDE DEF D
<1>4. Decision' = Decision
  BY <1>2, <1>3
<1> QED
  BY <1>1, <1>4

(* Every step of the coordinator is a step of AtomicCommit or changes      *)
(* nothing that it mentions.                                               *)
LEMMA PromiseStep ==
    ASSUME Disciplined, crashes = 0, MaxCrashes = 0, IndInv, Logged, OutcomeFollowsState,
           LogFollowsState, [Next]_vars
    PROVE  [Promise!Next]_(Promise!avars)
<1> USE DEF Promise!avars
<1>t. TypeOK
  BY DEF IndInv
<1>1. /\ \A th \in Threads :
           /\ pc[th] \in InPrepare => state[cur[th]] = "Preparing"
           /\ pc[th] \in InCommit => state[cur[th]] = "Committing"
           /\ pc[th] \in InAbort => state[cur[th]] = "Aborting"
  BY DEF OutcomeFollowsState
<1>2. \A th \in Threads : pc[th] # "idle" => cur[th] \in Ids
  BY <1>t DEF TypeOK
<1>3. /\ \A id \in Ids :
          /\ <<"Commit", id>> \in log => state[id] \in {"Committing", "Committed"}
          /\ <<"Abort", id>> \in log => state[id] \in {"Aborting", "Aborted"}
          /\ state[id] \in {"Unknown", "Initiated"} => parts[id] = <<>>
      /\ \A th \in Threads :
          /\ pc[th] = "commit_log" => <<"Commit", cur[th]>> \notin log
          /\ pc[th] # "idle" => pids[th] = parts[cur[th]]
  BY DEF LogFollowsState
<1>4. \A th \in Threads : pc[th] # "idle" /\ AtParticipant(th) => Pid(th) \in Members[cur[th]]
  BY <1>t, <1>2, <1>3, PidIsMember
<1>5. CASE begin_distributed_tx
  <2>0. next_id \in Ids /\ next_id >= next_id
    BY <1>t, <1>5, DtxAssumption DEF TypeOK, begin_distributed_tx
  <2>1. state[next_id] = "Unknown"
    BY <2>0 DEF IndInv, CallStates
  <2>2. parts[next_id] = <<>>
    BY <1>3, <2>0, <2>1
  <2>3. parts' = parts
    BY <1>t, <1>5, <2>0, <2>2 DEF TypeOK, begin_distributed_tx
  <2>4. log' = log /\ UNCHANGED partVars
    BY <1>5 DEF begin_distributed_tx
  <2> QED
    BY <2>3, <2>4, SameAbstract
<1>6. ASSUME NEW th \in Threads, NEW id \in Ids, NEW list \in PidLists,
             prepare_start(th, id, list)
      PROVE  Promise!Next
  <2> DEFINE S == {list[i] : i \in 1 .. Len(list)}
  <2>1. S \in SUBSET Pids
    <3>1. list \in Seq(Pids)
      BY DtxAssumption
    <3> QED
      BY <3>1
  <2>2. state[id] = "Initiated" /\ parts[id] = <<>>
    BY <1>3, <1>6 DEF prepare_start, Preparable
  <2>3. Members[id] = {} /\ Decision[id] = "none"
    <3>1. Decision[id] = "none"
      BY <1>3, <2>2, DecisionIs
    <3>2. Len(parts[id]) = 0
      BY <2>2
    <3> QED
      BY <3>1, <3>2 DEF Members
  <2>4. parts' = [parts EXCEPT ![id] = list] /\ log' = log /\ UNCHANGED partVars
    BY <1>6 DEF prepare_start
  <2>5. Members' = [Members EXCEPT ![id] = S]
    <3>1. \A i \in Ids : parts'[i] = IF i = id THEN list ELSE parts[i]
      BY <1>t, <2>4 DEF TypeOK
    <3> QED
      BY <3>1 DEF Members
  <2>6. Decision' = Decision
    BY <2>4 DEF Decision
  <2> HIDE DEF S
  <2>7. Promise!Enlist(id, S)
    BY <2>3, <2>4, <2>5, <2>6 DEF Promise!Enlist
  <2> QED
    BY <2>1, <2>7 DEF Promise!Next
<1>7. ASSUME NEW th \in Threads,
             \/ prepare_vote_yes(th)
             \/ prepare_error(th) /\ voted' # voted
      PROVE  Promise!Next
  <2> DEFINE p == Pid(th)
             id == cur[th]
  <2>1. /\ p \in Participants /\ voted' = Reaches(voted, p, id) /\ AtParticipant(th)
        /\ pc[th] = "prepare_ask" /\ UNCHANGED <<parts, log, committed, aborted>>
    BY <1>7 DEF prepare_vote_yes, prepare_error
  <2>2. id \in Ids /\ state[id] = "Preparing" /\ p \in Members[id]
    BY <1>1, <1>2, <1>4, <2>1
  <2>3. Decision[id] = "none"
    BY <1>3, <2>2, DecisionIs
  <2>4. Members' = Members /\ Decision' = Decision
    BY <2>1, SameAbstract
  <2> HIDE DEF p, id
  <2>5. Promise!Vote(p, id)
    BY <2>1, <2>2, <2>3, <2>4 DEF Promise!Vote, Reaches
  <2> QED
    BY <2>1, <2>2, <2>5 DEF Promise!Next
<1>8. ASSUME NEW th \in Threads, commit_log(th)
      PROVE  Promise!Next
  <2> DEFINE id == cur[th]
  <2>1. pc[th] = "commit_log" /\ log' = log \cup {<<"Commit", id>>}
        /\ UNCHANGED <<parts, voted, committed, aborted>>
    BY <1>8 DEF commit_log
  <2>2. id \in Ids /\ state[id] = "Committing" /\ <<"Commit", id>> \notin log
        /\ <<"Abort", id>> \notin log
    BY <1>1, <1>2, <1>3, <2>1
  <2>3. Decision[id] = "none"
    BY <2>2, DecisionIs
  <2>4. \A p \in Members[id] : p \in Participants /\ id \in voted[p]
    <3>1. AllIn(voted, id)
      BY <2>1 DEF IndInv, Votes
    <3> QED
      BY <2>2, <3>1 DEF AllIn, Members
  <2> HIDE DEF id
  <2>5. Decision' = [Decision EXCEPT ![id] = "commit"]
    <3>1. \A i \in Ids : /\ <<"Commit", i>> \in log' <=> <<"Commit", i>> \in log \/ i = id
                         /\ <<"Abort", i>> \in log' <=> <<"Abort", i>> \in log
      BY <2>1
    <3> QED
      BY <2>2, <3>1 DEF Decision
  <2>6. Members' = Members
    BY <2>1 DEF Members
  <2>7. Promise!DecideCommit(id)
    BY <2>1, <2>3, <2>4, <2>5, <2>6 DEF Promise!DecideCommit
  <2> QED
    BY <2>2, <2>7 DEF Promise!Next
<1>9. ASSUME NEW th \in Threads, abort_log(th)
      PROVE  [Promise!Next]_(Promise!avars)
  <2> DEFINE id == cur[th]
  <2>1. pc[th] = "abort_log" /\ log' = log \cup {<<"Abort", id>>}
        /\ UNCHANGED <<parts, voted, committed, aborted>>
    BY <1>9 DEF abort_log
  <2>2. id \in Ids /\ state[id] = "Aborting" /\ <<"Commit", id>> \notin log
    BY <1>1, <1>2, <1>3, <2>1
  <2> HIDE DEF id
  <2>3. CASE <<"Abort", id>> \in log
    <3>1. log' = log
      BY <2>1, <2>3
    <3> QED
      BY <2>1, <3>1, SameAbstract
  <2>4. CASE <<"Abort", id>> \notin log
    <3>1. Decision[id] = "none"
      BY <2>2, <2>4, DecisionIs
    <3>2. Decision' = [Decision EXCEPT ![id] = "abort"]
      <4>1. \A i \in Ids : /\ <<"Commit", i>> \in log' <=> <<"Commit", i>> \in log
                           /\ <<"Abort", i>> \in log' <=> <<"Abort", i>> \in log \/ i = id
        BY <2>1
      <4> QED
        BY <2>2, <4>1 DEF Decision
    <3>3. Members' = Members
      BY <2>1 DEF Members
    <3>4. Promise!DecideAbort(id)
      BY <2>1, <3>1, <3>2, <3>3 DEF Promise!DecideAbort
    <3> QED
      BY <2>2, <3>4 DEF Promise!Next
  <2> QED
    BY <2>3, <2>4
<1>10. ASSUME NEW th \in Threads,
              \/ commit_tell(th)
              \/ commit_error(th) /\ committed' # committed
       PROVE  Promise!Next
  <2> DEFINE p == Pid(th)
             id == cur[th]
  <2>1. /\ p \in Participants /\ committed' = Reaches(committed, p, id) /\ AtParticipant(th)
        /\ pc[th] = "commit_tell" /\ UNCHANGED <<parts, log, voted, aborted>>
    BY <1>10 DEF commit_tell, commit_error
  <2>2. id \in Ids /\ p \in Members[id] /\ <<"Commit", id>> \in log
    BY <1>2, <1>4, <2>1 DEF Logged
  <2>3. Decision[id] = "commit"
    BY <2>2, DecisionIs
  <2>4. Members' = Members /\ Decision' = Decision
    BY <2>1, SameAbstract
  <2> HIDE DEF p, id
  <2>5. Promise!ApplyCommit(p, id)
    BY <2>1, <2>2, <2>3, <2>4 DEF Promise!ApplyCommit, Reaches
  <2> QED
    BY <2>1, <2>2, <2>5 DEF Promise!Next
<1>11. ASSUME NEW th \in Threads, abort_tell(th), aborted' # aborted
       PROVE  Promise!Next
  <2> DEFINE p == Pid(th)
             id == cur[th]
  <2>1. /\ p \in Participants /\ aborted' = Reaches(aborted, p, id) /\ AtParticipant(th)
        /\ pc[th] = "abort_tell" /\ UNCHANGED <<parts, log, voted, committed>>
    BY <1>11 DEF abort_tell
  <2>2. id \in Ids /\ p \in Members[id] /\ <<"Abort", id>> \in log /\ <<"Commit", id>> \notin log
    BY <1>1, <1>2, <1>3, <1>4, <2>1 DEF Logged
  <2>3. Decision[id] = "abort"
    BY <2>2, DecisionIs
  <2>4. Members' = Members /\ Decision' = Decision
    BY <2>1, SameAbstract
  <2> HIDE DEF p, id
  <2>5. Promise!ApplyAbort(p, id)
    BY <2>1, <2>2, <2>3, <2>4 DEF Promise!ApplyAbort, Reaches
  <2> QED
    BY <2>1, <2>2, <2>5 DEF Promise!Next
<1>12. ASSUME UNCHANGED <<parts, log, voted, committed, aborted>>
       PROVE  UNCHANGED Promise!avars
  BY <1>12, SameAbstract
<1>13. ASSUME NEW th \in Threads, prepare_log(th)
       PROVE  UNCHANGED Promise!avars
  <2>1. log' = log \cup {<<"Prepare", cur[th]>>} /\ UNCHANGED <<parts, voted, committed, aborted>>
    BY <1>13 DEF prepare_log
  <2> QED
    BY <2>1, SameAbstract
<1>14. ASSUME NEW th \in Threads,
              \/ prepare_error(th) /\ voted' = voted
              \/ commit_error(th) /\ committed' = committed
              \/ abort_tell(th) /\ aborted' = aborted
              \/ \E id \in Ids : commit_start(th, id) \/ abort_start(th, id)
       PROVE  UNCHANGED <<parts, log, voted, committed, aborted>>
  BY <1>14 DEF prepare_error, commit_error, abort_tell, commit_start, abort_start
<1>15. ~Crash
  BY DEF Crash
<1>16. CASE UNCHANGED vars
  BY <1>12, <1>16 DEF vars
<1> HIDE DEF Promise!avars
<1>17. ASSUME NEW th \in Threads, \E id \in Ids : commit_start(th, id) \/ abort_start(th, id)
       PROVE  UNCHANGED Promise!avars
  BY <1>12, <1>14, <1>17
<1>18. ASSUME NEW th \in Threads,
              \/ prepare_vote_no(th) \/ prepare_finish(th) \/ commit_finish(th)
              \/ abort_finish(th)
       PROVE  UNCHANGED Promise!avars
  <2>1. UNCHANGED <<parts, log, voted, committed, aborted>>
    BY <1>18 DEF prepare_vote_no, prepare_finish, commit_finish, abort_finish
  <2> QED
    BY <1>12, <2>1
<1>19. ASSUME NEW th \in Threads, prepare_error(th) \/ commit_error(th) \/ abort_tell(th)
       PROVE  [Promise!Next]_(Promise!avars)
  BY <1>7, <1>10, <1>11, <1>12, <1>14, <1>19
<1> QED
  BY <1>5, <1>6, <1>7, <1>8, <1>9, <1>10, <1>13, <1>15, <1>16, <1>17, <1>18, <1>19, NextCases

(* Without a crash to come, none has been.                                 *)
LEMMA NoCrash ==
    ASSUME MaxCrashes = 0, crashes = 0, [Next]_vars
    PROVE  crashes' = 0
<1>1. ~Crash
  BY DEF Crash
<1> QED
  BY <1>1, NextCases DEF begin_distributed_tx, prepare_start, commit_start, abort_start,
         prepare_log, prepare_vote_yes, prepare_vote_no, prepare_error, prepare_finish,
         commit_log, commit_tell, commit_error, commit_finish, abort_log, abort_tell,
         abort_finish, vars

(* The coordinator with callers that keep to the documented order of calls *)
(* implements AtomicCommit as long as it does not crash: the participants  *)
(* are enlisted once, they vote before the decision, it is taken once and  *)
(* only on their votes, and they apply no other.                           *)
THEOREM Implementation ==
    ASSUME Disciplined, MaxCrashes = 0
    PROVE  Spec => ImplementsAtomicCommit
<1>1. Init => /\ Logged /\ OutcomeFollowsState /\ LogFollowsState /\ crashes = 0
  BY DEF Init, Logged, OutcomeFollowsState, LogFollowsState
<1>2. Init => Promise!Init
  BY DEF Init, Promise!Init, Members, Decision
<1>3. crashes = 0 /\ [Next]_vars => (crashes = 0)'
  BY NoCrash
<1>4. IndInv /\ Logged /\ [Next]_vars => Logged'
  BY LoggedStep DEF IndInv
<1>5. IndInv /\ OutcomeFollowsState /\ [Next]_vars => OutcomeFollowsState'
  BY OutcomeStep
<1>6. IndInv /\ OutcomeFollowsState /\ LogFollowsState /\ [Next]_vars => LogFollowsState'
  BY LogStateStep
<1>7. crashes = 0 /\ IndInv /\ Logged /\ OutcomeFollowsState /\ LogFollowsState /\ [Next]_vars
         => [Promise!Next]_(Promise!avars)
  BY PromiseStep
<1> QED
  BY <1>1, <1>2, <1>3, <1>4, <1>5, <1>6, <1>7, IndInvariant, PTL
     DEF Spec, ImplementsAtomicCommit, Promise!Spec
=================================================================================
