------------------------------- MODULE ClusterWrite ------------------------------
(***************************************************************************)
(* A query to a cluster of synaptica servers: dispatch_query of the client *)
(* service parses it, runs a read on the node itself and hands a write to  *)
(* Raft; a node that is not the leader forwards the write to the cluster   *)
(* service of the leader it knows.  A committed write is run on every node *)
(* by its state machine, and the node that proposed it answers with the    *)
(* result of its own run.                                                  *)
(*                                                                         *)
(* openraft is external: it commits a proposal or loses it after a change  *)
(* of leader, and applies the committed log in order on every node.  What  *)
(* a node believes about the leader (metrics().current_leader) may be old. *)
(*                                                                         *)
(* A graph name is a sequence of strings, the empty name the empty one, so *)
(* that the text of a graph id is a name too, and not the one it came from.*)
(***************************************************************************)
EXTENDS Naturals, Sequences, FiniteSets

CONSTANTS Nodes, Requests,
          GraphNames,       \* the names clients give
          Queries,          \* what clients ask: <<statement, graph name>>
          DefaultGraph,     \* the name in the configuration
          MemberAddr,       \* node -> its address in the Raft membership; may be empty
          PeerAddrs,        \* node -> its address in the configuration; may be empty
          Nobody,           \* no leader known, no address
          MaxFaults         \* elections, missed heartbeats, crashes, snapshots installed

VARIABLES call,         \* request -> where its handlers stand, and the answer
          proposals,    \* <<request, node>>: in the log of the leader, not committed
          log,          \* committed: <<request, graph_name>>
          applied,      \* node -> LAST_APPLIED: how many entries of log its marker counts
          running,      \* nodes that have marked an entry and not yet run its query
          missed,       \* node -> the entries its marker counts whose query it has not run
          store,        \* node -> the writes it holds: <<graph id, request>>
          leader, view, \* the leader; node -> the leader it believes in
          direct,       \* nodes that were written to around Raft
          faults

raftVars == <<proposals, log, leader, view>>
markers == <<applied, running, missed>>
vars == <<call, raftVars, markers, store, direct, faults>>

(* GraphId::from_name, and Display of a GraphId.                           *)
from_name(name) == <<"v5">> \o name
to_string(id)   == <<"text">> \o id
default_graph_id == from_name(DefaultGraph)

resolve_graph_id(name)   == IF name = <<>> THEN default_graph_id ELSE from_name(name)
resolve_graph_name(name) == IF name = <<>> THEN to_string(default_graph_id) ELSE name

(* Statements by what dispatch_query and the engine do with them.  A       *)
(* "PartInsert" stands for the writes that stop at an error in a later row *)
(* or element: there is no transaction, what was stored before it stays.   *)
(* A REMOVE is a write the planner does not know; a UNION is not a write   *)
(* whatever is in it and the planner does not know it either.              *)
Kinds == {"Match", "Insert", "PartInsert", "Delete", "Remove", "CompositeQuery", "unparsable"}

ASSUME ConstantsFit ==
    /\ Nobody \notin Nodes
    /\ GraphNames \subseteq Seq(STRING) /\ DefaultGraph \in Seq(STRING)
    /\ Queries \subseteq Kinds \X GraphNames
    /\ MemberAddr \in [Nodes -> Nodes \cup {Nobody}] /\ PeerAddrs \in [Nodes -> Nodes \cup {Nobody}]

OnlyInsert(kind)     == kind \in {"Insert", "PartInsert", "Remove"}   \* fault
is_write_query(kind) == kind \in {"Insert", "PartInsert", "Delete", "Remove"}

(* execute_program on the store of a node.                                 *)
Succeeds(kind) == kind \in {"Match", "Insert", "Delete"}
Stores(kind)   == kind \in {"Insert", "PartInsert"}
execute_program(S, id, kind, r) ==
    CASE Stores(kind) -> S \cup {<<id, r>>}
      [] kind = "Delete" -> {w \in S : w[1] # id}
      [] OTHER -> S

--------------------------------------------------------------------------------
(* pc: "idle"; "write", at client_write of the node; "proposed", waiting   *)
(* for it; "rejected", with the leader the error names; "forward", before  *)
(* connecting to the target; "remote" and "waiting", the same at the       *)
(* target; "reply", the answer of the target on its way; "done".           *)
(*                                                                         *)
(* answer: "ok"; "failed", the run of the write ended in an error;         *)
(* "refused", it never reached the log; "broken", an error that says       *)
(* neither.                                                                *)
NotCalled == [pc |-> "idle", kind |-> "Match", name |-> <<>>, node |-> Nobody,
              at |-> Nobody, fwd |-> Nobody, answer |-> "none"]

Step(r, pc)       == call' = [call EXCEPT ![r].pc = pc]
Answered(c, a)    == [c EXCEPT !.pc = "done", !.answer = a, !.node = Nobody, !.fwd = Nobody]
Answer(r, a)      == call' = [call EXCEPT ![r] = Answered(@, a)]
Outcome(kind)     == IF Succeeds(kind) THEN "ok" ELSE "failed"
Waits(r, n)       == call[r].at = n /\ call[r].pc \in {"proposed", "waiting"}

Init ==
    /\ call = [r \in Requests |-> NotCalled]
    /\ proposals = {}
    /\ log = <<>>
    /\ applied = [n \in Nodes |-> 0]
    /\ running = {}
    /\ missed = [n \in Nodes |-> {}]
    /\ store = [n \in Nodes |-> {}]
    /\ leader \in Nodes
    /\ view = [n \in Nodes |-> leader]
    /\ direct = {}
    /\ faults = 0

(* dispatch_query, up to the call of client_write or to the answer of      *)
(* execute_local.                                                          *)
dispatch_query(r, n, kind, name) ==
    LET c == [NotCalled EXCEPT !.kind = kind, !.name = name, !.node = n, !.at = n]
    IN /\ call[r].pc = "idle"
       /\ IF kind # "unparsable" /\ is_write_query(kind)
          THEN /\ call' = [call EXCEPT ![r] = [c EXCEPT !.pc = "write"]]
               /\ UNCHANGED store
          ELSE /\ call' = [call EXCEPT ![r] = Answered(NotCalled, Outcome(kind))]
               /\ store' = [store EXCEPT ![n] = execute_program(@, resolve_graph_id(name), kind, r)]
       /\ UNCHANGED <<raftVars, markers, direct, faults>>

(* import_graph runs its statements on the node's own storage; so do the   *)
(* calls create_index and drop_index.                                      *)
import_graph(r, n, name) ==
    /\ call[r].pc = "idle"
    /\ call' = [call EXCEPT ![r] = Answered(NotCalled, "ok")]
    /\ store' = [store EXCEPT ![n] = execute_program(@, resolve_graph_id(name), "Insert", r)]
    /\ direct' = direct \cup {n}
    /\ UNCHANGED <<raftVars, markers, faults>>

(* client_write of openraft: a node that takes itself for the leader       *)
(* appends the entry and waits; another one says whom it takes for leader. *)
(* execute_write_via_raft goes on with that, forward_write answers it.     *)
PassOn(r) ==                                    \* fault: forward_write forwards again
    LET c == call[r]
        m == c.at
    IN /\ c.pc \in {"write", "remote"}
       /\ IF view[m] = m
          THEN /\ proposals' = proposals \cup {<<r, m>>}
               /\ Step(r, IF c.pc = "write" THEN "proposed" ELSE "waiting")
          ELSE /\ call' = [call EXCEPT ![r].pc = "rejected", ![r].fwd = view[m]]
               /\ UNCHANGED proposals
       /\ UNCHANGED <<log, markers, store, leader, view, direct, faults>>
client_write(r) ==
    LET c == call[r]
        m == c.at
    IN /\ c.pc \in {"write", "remote"}
       /\ IF view[m] = m
          THEN /\ proposals' = proposals \cup {<<r, m>>}
               /\ Step(r, IF c.pc = "write" THEN "proposed" ELSE "waiting")
          ELSE /\ IF c.pc = "write"
                  THEN call' = [call EXCEPT ![r].pc = "rejected", ![r].fwd = view[m]]
                  ELSE call' = [call EXCEPT ![r].pc = "reply", ![r].answer = "refused"]
               /\ UNCHANGED proposals
       /\ UNCHANGED <<log, markers, store, leader, view, direct, faults>>

resolve_node_addr(id) == IF MemberAddr[id] # Nobody THEN MemberAddr[id] ELSE PeerAddrs[id]
resolve_leader_addr(id) == IF id = Nobody THEN Nobody ELSE resolve_node_addr(id)

(* forward_target: the address in the error, or else the one that the      *)
(* membership or the configuration has for the leader of the error or,     *)
(* when it names none, for the leader this node knows of by now.           *)
Target(c) ==
    CASE c.fwd = c.node -> Nobody
      [] c.fwd # c.node /\ c.fwd # Nobody /\ MemberAddr[c.fwd] # Nobody -> MemberAddr[c.fwd]
      [] OTHER -> resolve_leader_addr(IF c.fwd = Nobody THEN view[c.node] ELSE c.fwd)

forward_target(r) ==
    LET target == Target(call[r])
    IN /\ call[r].pc = "rejected"
       /\ IF target = Nobody THEN Answer(r, "refused")
          ELSE call' = [call EXCEPT ![r].pc = "forward", ![r].at = target, ![r].fwd = Nobody]
       /\ UNCHANGED <<raftVars, markers, store, direct, faults>>

(* forward_write_to: the connection is made, or cannot be.                 *)
connect(r) ==
    /\ call[r].pc = "forward"
    /\ Step(r, "remote") \/ Answer(r, "refused")
    /\ UNCHANGED <<raftVars, markers, store, direct, faults>>

(* The answer of forward_write arrives.                                    *)
AlwaysOk(r) ==                                  \* fault: inner.success is not looked at
    /\ call[r].pc = "reply"
    /\ Answer(r, "ok")
    /\ UNCHANGED <<raftVars, markers, store, direct, faults>>
forward_write_to(r) ==
    /\ call[r].pc = "reply"
    /\ Answer(r, call[r].answer)
    /\ UNCHANGED <<raftVars, markers, store, direct, faults>>

(* The connection breaks at any time: the target may go on with the write. *)
TryAgain(r) ==                                  \* fault: the write is sent again
    /\ call[r].pc \in {"remote", "waiting", "reply"}
    /\ call' = [call EXCEPT ![r].pc = "write", ![r].at = call[r].node]
    /\ UNCHANGED <<raftVars, markers, store, direct, faults>>
connection_error(r) ==
    /\ call[r].pc \in {"remote", "waiting", "reply"}
    /\ Answer(r, "broken")
    /\ UNCHANGED <<raftVars, markers, store, direct, faults>>

--------------------------------------------------------------------------------
(* A proposal is committed, also one of a deposed leader that others have. *)
Commit(p) ==
    /\ p \in proposals
    /\ log' = Append(log, <<p[1], resolve_graph_name(call[p[1]].name)>>)
    /\ proposals' = proposals \ {p}
    /\ UNCHANGED <<call, markers, store, leader, view, direct, faults>>

(* A proposal of a deposed leader is overwritten; who waits for it is told *)
(* the leader, as if it had just called client_write.  That no other node  *)
(* brings the entry back is sure with up to four voters only: an entry     *)
(* that two of them hold is then committed, or held by a majority with the *)
(* leader.  With five, a third node may still get it committed.            *)
Lose(p) ==
    LET r == p[1]
    IN /\ p \in proposals
       /\ view[p[2]] # p[2]
       /\ proposals' = proposals \ {p}
       /\ call' = IF ~Waits(r, p[2]) THEN call
                  ELSE IF call[r].pc = "proposed"
                  THEN [call EXCEPT ![r].pc = "rejected", ![r].fwd = view[p[2]]]
                  ELSE [call EXCEPT ![r].pc = "reply", ![r].answer = "refused"]
       /\ UNCHANGED <<log, markers, store, leader, view, direct, faults>>

(* apply_to_state_machine on a node, entry by entry in the order of the    *)
(* log: the marker LAST_APPLIED is stored ...                              *)
apply_mark(n) ==
    /\ n \notin running /\ applied[n] < Len(log)
    /\ applied' = [applied EXCEPT ![n] = @ + 1]
    /\ running' = running \cup {n}
    /\ missed' = [missed EXCEPT ![n] = @ \cup {applied[n] + 1}]
    /\ UNCHANGED <<call, raftVars, store, direct, faults>>

(* ... before StateMachineApplier::apply runs the query; if the node       *)
(* proposed the entry, client_write returns there.                         *)
apply(n) ==
    LET e == log[applied[n]]
        r == e[1]
        c == call[r]
    IN /\ n \in running
       /\ running' = running \ {n}
       /\ missed' = [missed EXCEPT ![n] = @ \ {applied[n]}]
       /\ store' = [store EXCEPT ![n] = execute_program(@, from_name(e[2]), c.kind, r)]
       /\ call' = IF ~Waits(r, n) THEN call
                  ELSE IF c.pc = "proposed" THEN [call EXCEPT ![r] = Answered(@, Outcome(c.kind))]
                  ELSE [call EXCEPT ![r].pc = "reply", ![r].answer = Outcome(c.kind)]
       /\ UNCHANGED <<raftVars, applied, direct, faults>>

Fault == faults < MaxFaults /\ faults' = faults + 1

Elect(n) ==
    /\ Fault
    /\ leader' = n
    /\ view' = [view EXCEPT ![n] = n]
    /\ UNCHANGED <<call, proposals, log, markers, store, direct>>

(* A node hears from the leader, or misses its heartbeats.                 *)
Hear(n) ==
    /\ view[n] # leader
    /\ view' = [view EXCEPT ![n] = leader]
    /\ UNCHANGED <<call, proposals, log, markers, store, leader, direct, faults>>

Miss(n) ==
    /\ leader # n
    /\ Fault
    /\ view' = [view EXCEPT ![n] = Nobody]
    /\ UNCHANGED <<call, proposals, log, markers, store, leader, direct>>

(* A node stops and starts again: the handlers that run on it are gone,    *)
(* and the callers of its cluster service get an error.  An entry that was *)
(* marked and not run is not run later either: openraft goes on after the  *)
(* marker.                                                                 *)
Crash(n) ==
    LET Hit(c) == \/ c.node = n /\ c.pc \notin {"idle", "done"}
                  \/ c.at = n /\ c.pc \in {"remote", "waiting", "reply"}
    IN /\ Fault
       /\ call' = [r \in Requests |-> IF Hit(call[r]) THEN Answered(call[r], "broken") ELSE call[r]]
       /\ view' = [view EXCEPT ![n] = Nobody]
       /\ running' = running \ {n}
       /\ UNCHANGED <<proposals, log, applied, missed, store, leader, direct>>

(* A node that is far behind gets a snapshot that another one built when   *)
(* its marker stood at k: the marker moves there, and as a snapshot has no *)
(* data the entries in between are never run.  (openraft sends none for    *)
(* entries in the node's own log, so nobody waits there for one of them.)  *)
install_snapshot(n, k) ==
    /\ Fault
    /\ n \notin running /\ applied[n] < k
    /\ \E m \in Nodes : k <= applied[m]
    /\ \A i \in (applied[n] + 1) .. k : ~Waits(log[i][1], n)
    /\ applied' = [applied EXCEPT ![n] = k]
    /\ missed' = [missed EXCEPT ![n] = @ \cup ((applied[n] + 1) .. k)]
    /\ UNCHANGED <<call, raftVars, running, store, direct>>

Handle(r) == client_write(r) \/ forward_target(r) \/ connect(r) \/ forward_write_to(r)

Next ==
    \/ \E r \in Requests, n \in Nodes, q \in Queries : dispatch_query(r, n, q[1], q[2])
    \/ \E r \in Requests, n \in Nodes, g \in GraphNames : import_graph(r, n, g)
    \/ \E r \in Requests : Handle(r) \/ connection_error(r)
    \/ \E p \in proposals : Commit(p) \/ Lose(p)
    \/ \E n \in Nodes : apply_mark(n) \/ apply(n) \/ Elect(n) \/ Hear(n) \/ Miss(n) \/ Crash(n)
    \/ \E n \in Nodes, k \in 1..Len(log) : install_snapshot(n, k)

Spec == Init /\ [][Next]_vars

(* A handler that can go on does; a proposal is settled and the log is     *)
(* applied, as openraft promises while a majority is up.                   *)
Fairness ==
    /\ \A r \in Requests : WF_vars(Handle(r))
    /\ \A r \in Requests : WF_vars(\E n \in Nodes : Commit(<<r, n>>) \/ Lose(<<r, n>>))
    /\ \A n \in Nodes : WF_vars(apply_mark(n) \/ apply(n))

FairSpec == Spec /\ Fairness

--------------------------------------------------------------------------------
(* Handlers stand at nodes of the cluster, logs and counters in bounds.    *)
TypeOK ==
    /\ \A r \in Requests : /\ call[r].kind \in Kinds
                           /\ call[r].pc \in {"idle", "done"} \/ call[r].at \in Nodes
                           /\ call[r].answer \in {"none", "ok", "failed", "refused", "broken"}
    /\ proposals \subseteq Requests \X Nodes
    /\ applied \in [Nodes -> 0..Len(log)]
    /\ running \subseteq Nodes
    /\ \A n \in Nodes : missed[n] \subseteq 1..applied[n]
    /\ leader \in Nodes
    /\ view \in [Nodes -> Nodes \cup {Nobody}]

Positions(r) == {i \in 1..Len(log) : log[i][1] = r}

(* The entries whose query a node has run.                                 *)
Ran(n) == (1..applied[n]) \ missed[n]

(* AtMostOnce: however leaders change and connections break, a request is  *)
(* in the log once at most, and not also on its way there: a write that is *)
(* forwarded after an error was not proposed before it.                    *)
AtMostOnce ==
    \A r \in Requests :
        Cardinality(Positions(r)) + Cardinality({p \in proposals : p[1] = r}) <= 1

(* AnswerTells: a success means that the write is in the log and was run   *)
(* to its end on the node that proposed it; a failure that it is in the    *)
(* log and was run there until its error, so that rows before the error    *)
(* may be stored; a refusal that it never will be in the log.  Only an     *)
(* answer that got lost leaves the client without knowledge.               *)
AnswerTells ==
    \A r \in Requests :
        LET c == call[r]
            wasRun == \E i \in Positions(r) : i \in Ran(c.at)
        IN c.pc = "done" /\ is_write_query(c.kind) =>
             /\ c.answer = "ok" => wasRun /\ Succeeds(c.kind)
             /\ c.answer = "failed" => wasRun /\ ~Succeeds(c.kind)
             /\ c.answer = "refused" => Positions(r) = {} /\ ~\E p \in proposals : p[1] = r

(* ReadsFollowLog: what a read of a graph finds on a node is what the      *)
(* requests for that graph, in the order of the log and without those the  *)
(* node missed (a crash between marker and query, or a snapshot), make of  *)
(* an empty graph; unless someone wrote around Raft there.  The empty name *)
(* means the default graph.                                                *)
Canonical(name) == IF name = <<>> THEN DefaultGraph ELSE name
Expected(n, name) ==
    LET Of(i) == Canonical(call[log[i][1]].name) = name
        Kind(i) == call[log[i][1]].kind
    IN {log[i][1] : i \in {i \in Ran(n) :
           /\ Of(i) /\ Stores(Kind(i))
           /\ ~\E j \in Ran(n) : j > i /\ Of(j) /\ Kind(j) = "Delete"}}
Found(n, name) == {w[2] : w \in {w \in store[n] : w[1] = resolve_graph_id(name)}}
ReadsFollowLog ==
    \A n \in Nodes \ direct, g \in GraphNames : Found(n, g) = Expected(n, Canonical(g))

(* EventuallyAnswered: every query is answered (a request is taken up once *)
(* only, so from some point on each is answered or was never sent): a      *)
(* write is forwarded once at most, and nodes with old views do not send   *)
(* it to and fro.                                                          *)
EventuallyAnswered == <>[](\A r \in Requests : call[r].pc \in {"idle", "done"})
================================================================================
