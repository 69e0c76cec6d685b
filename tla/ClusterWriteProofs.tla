------------------------- MODULE ClusterWriteProofs -------------------------
(***************************************************************************)
(* Proofs about ClusterWrite for any number of nodes, requests, graphs and *)
(* faults.                                                                 *)
(***************************************************************************)
EXTENDS ClusterWrite, FiniteSetTheorems, TLAPS

Places == {"idle", "write", "proposed", "rejected", "forward", "remote", "waiting", "reply",
           "done"}
Answers == {"none", "ok", "failed", "refused", "broken"}
Node == Nodes \cup {Nobody}
Names == GraphNames \cup {<<>>}

Call == [pc : Places, kind : Kinds, name : Names, node : Node, at : Node, fwd : Node,
         answer : Answers]

(* A request that a handler works on is a write, at a node, for a graph a  *)
(* client named.                                                           *)
Working(c) == c.pc \notin {"idle", "done"}

(* A node has missed only entries that its marker counts, the one it runs  *)
(* among them.                                                             *)
MarkerInv ==
    /\ applied \in [Nodes -> 0 .. Len(log)]
    /\ running \subseteq Nodes
    /\ missed \in [Nodes -> SUBSET Nat]
    /\ \A n \in Nodes : missed[n] \subseteq 1 .. applied[n]
    /\ \A n \in running : applied[n] \in missed[n]

TypeInv ==
    /\ call \in [Requests -> Call]
    /\ \A r \in Requests : Working(call[r]) =>
          call[r].node \in Nodes /\ call[r].at \in Nodes
    /\ proposals \in SUBSET (Requests \X Nodes)
    /\ log \in Seq(Requests \X {resolve_graph_name(g) : g \in Names})
    /\ MarkerInv
    /\ DOMAIN store = Nodes
    /\ leader \in Nodes
    /\ view \in [Nodes -> Node]

WriteInv ==
    \A r \in Requests :
        /\ Working(call[r]) => is_write_query(call[r].kind)
        /\ call[r].pc # "idle" /\ is_write_query(call[r].kind) => call[r].name \in GraphNames

(* The places a request may be in before openraft has it, or after it gave *)
(* it back.                                                                *)
Unproposed == {"idle", "write", "rejected", "forward", "remote"}

Logged(r) == \E i \in 1 .. Len(log) : log[i][1] = r
Proposed(r) == \E p \in proposals : p[1] = r

(* A request is in one place: with its handlers, with openraft or in the   *)
(* log, and there once.                                                    *)
PlaceInv ==
    /\ \A i, j \in 1 .. Len(log) : log[i][1] = log[j][1] => i = j
    /\ \A p, q \in proposals : p[1] = q[1] => p = q
    /\ \A p \in proposals : ~Logged(p[1])
    /\ \A p \in proposals : call[p[1]].pc \in {"proposed", "waiting"} => call[p[1]].at = p[2]
    /\ \A r \in Requests : call[r].pc \in Unproposed => ~Logged(r) /\ ~Proposed(r)

(* What an answer says holds already when it is still on its way.          *)
AnswerInv ==
    \A r \in Requests :
        LET c == call[r]
            wasRun == \E i \in 1 .. Len(log) : log[i][1] = r /\ i \in Ran(c.at)
        IN c.pc \in {"done", "reply"} /\ is_write_query(c.kind) =>
             /\ c.answer \in {"ok", "failed"} => c.at \in Nodes
             /\ c.answer = "ok" => wasRun /\ Succeeds(c.kind)
             /\ c.answer = "failed" => wasRun /\ ~Succeeds(c.kind)
             /\ c.answer = "refused" => ~Logged(r) /\ ~Proposed(r)

(* A logged request is a write, under the name its client gave; the store  *)
(* of a node is what the entries it has run make of an empty one.          *)
IdOf(i) == from_name(log[i][2])
KindOf(i) == call[log[i][1]].kind
Live(n) == {i \in Ran(n) :
               /\ Stores(KindOf(i))
               /\ ~\E j \in Ran(n) : j > i /\ IdOf(j) = IdOf(i) /\ KindOf(j) = "Delete"}

LogInv ==
    /\ \A p \in proposals : is_write_query(call[p[1]].kind)
    /\ \A i \in 1 .. Len(log) :
          /\ is_write_query(KindOf(i))
          /\ log[i][2] = resolve_graph_name(call[log[i][1]].name)

StoreInv ==
    \A n \in Nodes \ direct : store[n] = {<<IdOf(i), log[i][1]>> : i \in Live(n)}

IndInv == TypeInv /\ WriteInv /\ PlaceInv /\ AnswerInv /\ LogInv /\ StoreInv

--------------------------------------------------------------------------------
USE DEF raftVars, markers

(* Sequences are equal if they are with one element put before both.       *)
LEMMA SamePrefix ==
    ASSUME NEW T, NEW x, NEW f \in Seq(T), NEW g \in Seq(T), <<x>> \o f = <<x>> \o g
    PROVE  f = g
<1>0. <<x>> \in Seq(T \cup {x}) /\ f \in Seq(T \cup {x}) /\ g \in Seq(T \cup {x})
  OBVIOUS
<1>1. Len(<<x>> \o f) = 1 + Len(f) /\ Len(<<x>> \o g) = 1 + Len(g)
  BY <1>0
<1>2. Len(f) = Len(g) /\ Len(f) \in Nat
  BY <1>1
<1>3. \A i \in 1 .. Len(f) : (<<x>> \o f)[i + 1] = f[i] /\ (<<x>> \o g)[i + 1] = g[i]
  BY <1>0, <1>2
<1>4. \A i \in 1 .. Len(f) : f[i] = g[i]
  BY <1>3
<1> QED
  BY <1>2, <1>4

(* Two names with the same graph id are the same name.                     *)
LEMMA FromNameInjective ==
    ASSUME NEW f \in Seq(STRING), NEW g \in Seq(STRING), from_name(f) = from_name(g)
    PROVE  f = g
  BY SamePrefix, Zenon DEF from_name

(* What the record of a request holds.                                     *)
LEMMA CallFields ==
    ASSUME TypeInv, NEW r \in Requests
    PROVE  LET c == call[r] IN
           /\ c \in Call
           /\ c.pc \in Places /\ c.kind \in Kinds /\ c.name \in Names
           /\ c.node \in Node /\ c.at \in Node /\ c.fwd \in Node /\ c.answer \in Answers
  BY DEF TypeInv, Call

(* An entry of the log is of a request that exists.                        *)
LEMMA LogEntry ==
    ASSUME TypeInv, NEW i \in 1 .. Len(log)
    PROVE  log[i][1] \in Requests
  BY DEF TypeInv

(* A node has run entries of the log only, and none beyond its marker.     *)
LEMMA RanInLog ==
    ASSUME TypeInv, NEW n \in Nodes
    PROVE  /\ applied[n] \in 0 .. Len(log) /\ Len(log) \in Nat
           /\ \A i \in Ran(n) : i \in 1 .. Len(log) /\ i \in Nat /\ i <= applied[n]
<1>1. applied[n] \in 0 .. Len(log) /\ Len(log) \in Nat
  BY DEF TypeInv, MarkerInv
<1> QED
  BY <1>1 DEF Ran

(* The live entries are the same if a step changes neither the log nor     *)
(* what the node has run nor what the logged requests ask.                 *)
LEMMA LiveSame ==
    ASSUME TypeInv, NEW n \in Nodes, Ran(n)' = Ran(n),
           \A i \in 1 .. Len(log) : KindOf(i)' = KindOf(i) /\ IdOf(i)' = IdOf(i),
           \A i \in 1 .. Len(log) : log'[i] = log[i]
    PROVE  {<<IdOf(i), log[i][1]>> : i \in Live(n)}' = {<<IdOf(i), log[i][1]>> : i \in Live(n)}
<1>1. \A i \in Ran(n) : i \in 1 .. Len(log)
  BY RanInLog
<1> DEFINE Gone(i) == \E j \in Ran(n) : j > i /\ IdOf(j) = IdOf(i) /\ KindOf(j) = "Delete"
<1>2. Live(n) = {i \in Ran(n) : Stores(KindOf(i)) /\ ~Gone(i)}
  BY DEF Live
<1>3. Live(n)' = {i \in Ran(n) : Stores(KindOf(i)') /\ ~Gone(i)'}
  BY DEF Live, Stores
<1>4. \A i \in Ran(n) : Gone(i)' <=> Gone(i)
  BY <1>1
<1>5. Live(n)' = Live(n)
  BY <1>1, <1>2, <1>3, <1>4
<1>6. \A i \in Live(n) : i \in 1 .. Len(log)
  BY <1>1 DEF Live
<1> QED
  BY <1>5, <1>6

(* The leader a handler is told of, or finds, has an address in the        *)
(* cluster or none.                                                        *)
LEMMA TargetType ==
    ASSUME TypeInv, NEW r \in Requests, call[r].node \in Nodes
    PROVE  Target(call[r]) \in Node
<1>1. call[r].fwd \in Node /\ view[call[r].node] \in Node
  BY CallFields DEF TypeInv
<1>2. \A id \in Node : resolve_leader_addr(id) \in Node
  BY ConstantsFit DEF resolve_leader_addr, resolve_node_addr, Node
<1>3. CASE call[r].fwd = call[r].node
  BY <1>3 DEF Target, Node
<1>4. CASE call[r].fwd # call[r].node /\ call[r].fwd # Nobody /\ MemberAddr[call[r].fwd] # Nobody
  BY <1>1, <1>4, ConstantsFit DEF Target, Node
<1>5. CASE ~(call[r].fwd # call[r].node /\ call[r].fwd # Nobody /\ MemberAddr[call[r].fwd] # Nobody)
           /\ call[r].fwd # call[r].node
  BY <1>1, <1>2, <1>5 DEF Target, Node
<1> QED
  BY <1>3, <1>4, <1>5

--------------------------------------------------------------------------------
(* What a handler may do to its request without openraft: take it up, move *)
(* it on while openraft does not have it, or answer it with what is known. *)
Moves(r) ==
    LET c == call[r]
        d == call'[r]
    IN /\ \/ c.pc = "idle" /\ (is_write_query(d.kind) => d.name \in GraphNames)
          \/ Working(c) /\ d.kind = c.kind /\ d.name = c.name
       /\ Working(d) => d.node \in Nodes /\ d.at \in Nodes /\ is_write_query(d.kind)
       /\ d.pc \notin {"proposed", "waiting"}
       /\ d.pc \in Unproposed => d.pc # "idle" /\ ~Logged(r) /\ ~Proposed(r)'
       /\ d.pc \in {"done", "reply"} /\ is_write_query(d.kind) =>
             \/ d.answer = "broken"
             \/ d.answer = "refused" /\ ~Logged(r) /\ ~Proposed(r)'
             \/ c.pc = "reply" /\ d.answer = c.answer /\ d.at = c.at

(* Steps of that kind, of any number of requests at once, keep the         *)
(* invariant; proposals may be dropped, stores written around Raft and     *)
(* markers moved over entries that are not run.                            *)
LEMMA MovesKeep ==
    ASSUME IndInv, call' \in [Requests -> Call], UNCHANGED log,
           MarkerInv', \A n \in Nodes : Ran(n)' = Ran(n),
           \A r \in Requests : call'[r] = call[r] \/ Moves(r),
           proposals' \subseteq proposals,
           DOMAIN store' = Nodes, direct \subseteq direct',
           \A n \in Nodes \ direct' : store'[n] = store[n],
           leader' \in Nodes, view' \in [Nodes -> Node]
    PROVE  IndInv'
<1> USE DEF Working
<1>0. TypeInv /\ WriteInv /\ PlaceInv /\ AnswerInv /\ LogInv /\ StoreInv
  BY DEF IndInv
<1>1. \A r \in Requests : (Logged(r)' <=> Logged(r)) /\ (Proposed(r)' => Proposed(r))
  BY DEF Logged, Proposed
<1>2. TypeInv'
  BY <1>0 DEF TypeInv, Moves, resolve_graph_name, to_string, default_graph_id, from_name
<1>3. WriteInv'
  BY <1>0 DEF WriteInv, Moves
<1>4. PlaceInv'
  <2>1. /\ \A i, j \in 1 .. Len(log') : log'[i][1] = log'[j][1] => i = j
        /\ \A p, q \in proposals' : p[1] = q[1] => p = q
    BY <1>0 DEF PlaceInv
  <2>2. \A p \in proposals' : ~Logged(p[1])'
    BY <1>0, <1>1 DEF PlaceInv, TypeInv, Logged
  <2>3. ASSUME NEW p \in proposals', call'[p[1]].pc \in {"proposed", "waiting"}
        PROVE  call'[p[1]].at = p[2]
    <3>1. p[1] \in Requests /\ p \in proposals
      BY <1>0 DEF TypeInv
    <3>2. call'[p[1]] = call[p[1]]
      BY <2>3, <3>1 DEF Moves
    <3> QED
      BY <1>0, <2>3, <3>1, <3>2 DEF PlaceInv
  <2>4. ASSUME NEW r \in Requests, call'[r].pc \in Unproposed
        PROVE  ~Logged(r)' /\ ~Proposed(r)'
    BY <1>0, <1>1, <2>4 DEF PlaceInv, Moves
  <2> QED
    BY <2>1, <2>2, <2>3, <2>4 DEF PlaceInv
<1>5. AnswerInv'
  <2> SUFFICES ASSUME NEW r \in Requests,
                      call'[r].pc \in {"done", "reply"}, is_write_query(call'[r].kind)
               PROVE  LET c == call'[r]
                          wasRun == \E i \in 1 .. Len(log) : log[i][1] = r /\ i \in Ran(c.at)
                      IN /\ c.answer \in {"ok", "failed"} => c.at \in Nodes
                         /\ c.answer = "ok" => wasRun /\ Succeeds(c.kind)
                         /\ c.answer = "failed" => wasRun /\ ~Succeeds(c.kind)
                         /\ c.answer = "refused" => ~Logged(r)' /\ ~Proposed(r)'
    <3>1. \A n \in Nodes : Ran(n)' = Ran(n)
      OBVIOUS
    <3> QED
      BY <3>1 DEF AnswerInv, Succeeds, is_write_query
  <2>1. CASE call'[r] = call[r]
    BY <1>0, <1>1, <2>1 DEF AnswerInv
  <2>2. CASE Moves(r)
    <3>1. CASE call'[r].answer = "broken"
      BY <3>1
    <3>2. CASE call'[r].answer = "refused" /\ ~Logged(r) /\ ~Proposed(r)'
      BY <1>1, <3>2
    <3>3. CASE call[r].pc = "reply" /\ call'[r].answer = call[r].answer /\ call'[r].at = call[r].at
      <4>1. call'[r].kind = call[r].kind
        BY <2>2, <3>3 DEF Moves
      <4> QED
        BY <1>0, <1>1, <3>3, <4>1 DEF AnswerInv
    <3> QED
      BY <2>2, <3>1, <3>2, <3>3 DEF Moves
  <2> QED
    BY <2>1, <2>2
<1>6. \A i \in 1 .. Len(log) : /\ call'[log[i][1]].kind = call[log[i][1]].kind
                               /\ call'[log[i][1]].name = call[log[i][1]].name
  <2> TAKE i \in 1 .. Len(log)
  <2>1. log[i][1] \in Requests /\ Logged(log[i][1])
    BY <1>0, LogEntry DEF Logged
  <2>2. call[log[i][1]].pc # "idle"
    BY <1>0, <2>1 DEF PlaceInv, Unproposed
  <2> QED
    BY <2>1, <2>2 DEF Moves
<1>7. LogInv'
  <2>1. ASSUME NEW p \in proposals'
        PROVE  is_write_query(call'[p[1]].kind)
    <3>1. p[1] \in Requests /\ p \in proposals /\ Proposed(p[1])
      BY <1>0 DEF TypeInv, Proposed
    <3>2. call[p[1]].pc # "idle"
      BY <1>0, <3>1 DEF PlaceInv, Unproposed
    <3>3. call'[p[1]].kind = call[p[1]].kind
      BY <3>1, <3>2 DEF Moves
    <3> QED
      BY <1>0, <3>1, <3>3 DEF LogInv
  <2> QED
    BY <1>0, <1>6, <2>1 DEF LogInv, KindOf, resolve_graph_name, to_string, default_graph_id,
                            from_name
<1>8. StoreInv'
  <2> SUFFICES ASSUME NEW n \in Nodes \ direct'
               PROVE  store'[n] = {<<IdOf(i), log[i][1]>> : i \in Live(n)}'
    BY DEF StoreInv
  <2>1. \A i \in 1 .. Len(log) : KindOf(i)' = KindOf(i) /\ IdOf(i)' = IdOf(i)
    BY <1>6 DEF KindOf, IdOf, from_name
  <2>2. {<<IdOf(i), log[i][1]>> : i \in Live(n)}' = {<<IdOf(i), log[i][1]>> : i \in Live(n)}
    BY <1>0, <2>1, LiveSame
  <2> QED
    BY <1>0, <2>2 DEF StoreInv
<1> QED
  BY <1>2, <1>3, <1>4, <1>5, <1>7, <1>8 DEF IndInv

--------------------------------------------------------------------------------
(* client_write of a node that takes itself for the leader hands openraft  *)
(* a request that it did not have.                                         *)
LEMMA ProposeKeeps ==
    ASSUME IndInv, NEW r \in Requests, client_write(r), view[call[r].at] = call[r].at
    PROVE  IndInv'
<1> USE DEF Working
<1>0. TypeInv /\ WriteInv /\ PlaceInv /\ AnswerInv /\ LogInv /\ StoreInv
  BY DEF IndInv
<1> DEFINE m == call[r].at
           pc == IF call[r].pc = "write" THEN "proposed" ELSE "waiting"
<1>1. /\ call[r].pc \in {"write", "remote"}
      /\ proposals' = proposals \cup {<<r, m>>}
      /\ call' = [call EXCEPT ![r].pc = pc]
      /\ UNCHANGED <<log, markers, store, leader, view, direct>>
  BY DEF client_write, Step
<1>2. ~Logged(r) /\ ~Proposed(r) /\ m \in Nodes /\ call[r].node \in Nodes
      /\ is_write_query(call[r].kind) /\ call[r] \in Call
  BY <1>0, <1>1 DEF PlaceInv, Unproposed, TypeInv, WriteInv
<1>3. /\ call' \in [Requests -> Call]
      /\ call'[r] = [call[r] EXCEPT !.pc = pc]
      /\ \A s \in Requests : s # r => call'[s] = call[s]
  <2>1. pc \in Places
    BY DEF Places
  <2> HIDE DEF pc
  <2>2. [call[r] EXCEPT !.pc = pc] \in Call
    BY <1>2, <2>1 DEF Call
  <2> QED
    BY <1>0, <1>1, <2>2 DEF TypeInv
<1>4. /\ call'[r].pc \in {"proposed", "waiting"} /\ call'[r].at = m
      /\ call'[r].node = call[r].node /\ call'[r].kind = call[r].kind
      /\ call'[r].name = call[r].name
  BY <1>2, <1>3 DEF Call
<1> HIDE DEF m, pc
<1>5. \A s \in Requests : /\ Logged(s)' <=> Logged(s)
                          /\ Proposed(s)' <=> Proposed(s) \/ s = r
  <2>1. \A s \in Requests : Proposed(s)' <=> \E p \in proposals \cup {<<r, m>>} : p[1] = s
    BY <1>1 DEF Proposed
  <2>2. \A s : (\E p \in proposals \cup {<<r, m>>} : p[1] = s)
               <=> (\E p \in proposals : p[1] = s) \/ s = r
    <3>1. <<r, m>>[1] = r
      OBVIOUS
    <3> HIDE DEF m
    <3> QED
      BY <3>1
  <2>3. \A s \in Requests : Logged(s)' <=> Logged(s)
    BY <1>1 DEF Logged
  <2> QED
    BY <2>1, <2>2, <2>3 DEF Proposed
<1>6. TypeInv' /\ \A n \in Nodes : Ran(n)' = Ran(n)
  BY <1>0, <1>1, <1>2, <1>3, <1>4 DEF TypeInv, MarkerInv, Ran, resolve_graph_name, to_string,
                                      default_graph_id, from_name
<1>7. WriteInv'
  BY <1>0, <1>1, <1>2, <1>3, <1>4 DEF WriteInv
<1>8. PlaceInv'
  <2>1. \A p, q \in proposals' : p[1] = q[1] => p = q
    BY <1>0, <1>1, <1>2 DEF PlaceInv, Proposed
  <2>2. \A p \in proposals' : ~Logged(p[1])'
    BY <1>0, <1>1, <1>2 DEF PlaceInv, Logged
  <2>3. ASSUME NEW p \in proposals', call'[p[1]].pc \in {"proposed", "waiting"}
        PROVE  call'[p[1]].at = p[2]
    <3>1. CASE p = <<r, m>>
      BY <1>4, <3>1
    <3>2. CASE p \in proposals
      <4>1. p[1] \in Requests /\ p[1] # r
        BY <1>0, <1>2, <3>2 DEF TypeInv, Proposed
      <4> QED
        BY <1>0, <1>3, <2>3, <3>2, <4>1 DEF PlaceInv
    <3> QED
      BY <1>1, <3>1, <3>2
  <2>4. \A s \in Requests : call'[s].pc \in Unproposed => ~Logged(s)' /\ ~Proposed(s)'
    BY <1>0, <1>3, <1>4, <1>5 DEF PlaceInv, Unproposed
  <2> QED
    BY <1>0, <1>1, <2>1, <2>2, <2>3, <2>4 DEF PlaceInv
<1>9. AnswerInv'
  <2>1. ASSUME NEW s \in Requests, call'[s].pc \in {"done", "reply"}
        PROVE  s # r
    BY <1>4, <2>1
  <2> QED
    BY <1>0, <1>1, <1>3, <1>5, <1>6, <2>1 DEF AnswerInv
<1>10. \A s \in Requests : call'[s].kind = call[s].kind /\ call'[s].name = call[s].name
  BY <1>3, <1>4
<1>11. LogInv'
  <2>1. \A p \in proposals' : p[1] \in Requests /\ is_write_query(call'[p[1]].kind)
    BY <1>0, <1>1, <1>2, <1>10 DEF LogInv, TypeInv
  <2> QED
    BY <1>0, <1>1, <1>10, <2>1, LogEntry DEF LogInv, KindOf, resolve_graph_name, to_string,
                                             default_graph_id, from_name
<1>12. StoreInv'
  <2> SUFFICES ASSUME NEW n \in Nodes \ direct
               PROVE  store[n] = {<<IdOf(i), log[i][1]>> : i \in Live(n)}'
    BY <1>1 DEF StoreInv
  <2>1. \A i \in 1 .. Len(log) : KindOf(i)' = KindOf(i) /\ IdOf(i)' = IdOf(i)
    BY <1>0, <1>1, <1>10, LogEntry DEF KindOf, IdOf, from_name
  <2>2. {<<IdOf(i), log[i][1]>> : i \in Live(n)}' = {<<IdOf(i), log[i][1]>> : i \in Live(n)}
    BY <1>0, <1>1, <1>6, <2>1, LiveSame
  <2> QED
    BY <1>0, <2>2 DEF StoreInv
<1> QED
  BY <1>6, <1>7, <1>8, <1>9, <1>11, <1>12 DEF IndInv

(* A commit moves a request from openraft to the end of the log.           *)
LEMMA CommitKeeps ==
    ASSUME IndInv, NEW p \in proposals, Commit(p)
    PROVE  IndInv'
<1> USE DEF Working
<1>0. TypeInv /\ WriteInv /\ PlaceInv /\ AnswerInv /\ LogInv /\ StoreInv
  BY DEF IndInv
<1> DEFINE r == p[1]
           e == <<r, resolve_graph_name(call[r].name)>>
<1>1. /\ log' = Append(log, e) /\ proposals' = proposals \ {p}
      /\ UNCHANGED <<call, markers, store, leader, view, direct>>
  BY DEF Commit
<1>2. r \in Requests /\ Proposed(r) /\ ~Logged(r) /\ call[r].name \in Names
  BY <1>0, CallFields DEF TypeInv, PlaceInv, Proposed
<1>3. e \in Requests \X {resolve_graph_name(g) : g \in Names} /\ e[1] = r
      /\ e[2] = resolve_graph_name(call[r].name)
  BY <1>2
<1> HIDE DEF e
<1>4. /\ Len(log) \in Nat /\ Len(log') = Len(log) + 1
      /\ log' \in Seq(Requests \X {resolve_graph_name(g) : g \in Names})
      /\ log'[Len(log) + 1] = e
      /\ \A i \in 1 .. Len(log) : log'[i] = log[i]
  BY <1>0, <1>1, <1>3 DEF TypeInv
<1>5. \A s \in Requests : /\ Logged(s)' <=> Logged(s) \/ s = r
                          /\ Proposed(s)' <=> Proposed(s) /\ s # r
  <2>1. \A s \in Requests : Logged(s)' <=> Logged(s) \/ s = r
    <3> TAKE s \in Requests
    <3>1. ASSUME Logged(s)
          PROVE  Logged(s)'
      BY <1>4, <3>1 DEF Logged
    <3>2. Logged(r)'
      <4>1. Len(log) + 1 \in 1 .. Len(log') /\ log'[Len(log) + 1][1] = r
        BY <1>3, <1>4
      <4> QED
        BY <4>1 DEF Logged
    <3>3. ASSUME NEW i \in 1 .. Len(log'), log'[i][1] = s, s # r
          PROVE  Logged(s)
      BY <1>3, <1>4, <3>3 DEF Logged
    <3> QED
      BY <3>1, <3>2, <3>3 DEF Logged
  <2>2. \A s \in Requests : Proposed(s)' <=> Proposed(s) /\ s # r
    BY <1>0, <1>1, <1>2 DEF Proposed, PlaceInv
  <2> QED
    BY <2>1, <2>2
<1>6. TypeInv' /\ \A n \in Nodes : Ran(n)' = Ran(n)
  <2>1. MarkerInv' /\ \A n \in Nodes : Ran(n)' = Ran(n)
    BY <1>0, <1>1, <1>4 DEF TypeInv, MarkerInv, Ran
  <2>2. {resolve_graph_name(g) : g \in Names}' = {resolve_graph_name(g) : g \in Names}
    BY DEF resolve_graph_name, to_string, default_graph_id, from_name
  <2> QED
    BY <1>0, <1>1, <1>4, <2>1, <2>2 DEF TypeInv
<1>7. WriteInv'
  BY <1>0, <1>1 DEF WriteInv
<1>8. PlaceInv'
  <2>1. \A i, j \in 1 .. Len(log') : log'[i][1] = log'[j][1] => i = j
    BY <1>0, <1>2, <1>3, <1>4 DEF PlaceInv, Logged
  <2>2. \A q \in proposals' : ~Logged(q[1])'
    <3> TAKE q \in proposals'
    <3>1. q[1] \in Requests /\ q[1] # r
      BY <1>0, <1>1 DEF TypeInv, PlaceInv
    <3> QED
      BY <1>0, <1>1, <1>5, <3>1 DEF PlaceInv
  <2>3. \A s \in Requests : call[s].pc \in Unproposed => ~Logged(s)' /\ ~Proposed(s)'
    BY <1>0, <1>2, <1>5 DEF PlaceInv
  <2> QED
    BY <1>0, <1>1, <2>1, <2>2, <2>3 DEF PlaceInv
<1>9. AnswerInv'
  <2> SUFFICES ASSUME NEW s \in Requests,
                      call[s].pc \in {"done", "reply"}, is_write_query(call[s].kind)
               PROVE  LET c == call[s]
                          wasRun == \E i \in 1 .. Len(log') :
                                       log'[i][1] = s /\ i \in Ran(c.at)
                      IN /\ c.answer \in {"ok", "failed"} => c.at \in Nodes
                         /\ c.answer = "ok" => wasRun /\ Succeeds(c.kind)
                         /\ c.answer = "failed" => wasRun /\ ~Succeeds(c.kind)
                         /\ c.answer = "refused" => ~Logged(s)' /\ ~Proposed(s)'
    BY <1>1, <1>6 DEF AnswerInv, Succeeds, is_write_query
  <2>1. ASSUME NEW i \in 1 .. Len(log), log[i][1] = s, i \in Ran(call[s].at)
        PROVE  \E k \in 1 .. Len(log') : log'[k][1] = s /\ k \in Ran(call[s].at)
    BY <1>4, <2>1
  <2> QED
    BY <1>0, <1>2, <1>5, <2>1 DEF AnswerInv
<1>10. LogInv'
  <2>1. \A i \in 1 .. Len(log) : KindOf(i)' = KindOf(i)
    BY <1>1, <1>4 DEF KindOf
  <2>2. is_write_query(call[r].kind)
    BY <1>0 DEF LogInv
  <2>3. ASSUME NEW i \in 1 .. Len(log')
        PROVE  /\ is_write_query(KindOf(i)')
               /\ log'[i][2] = resolve_graph_name(call'[log'[i][1]].name)
    <3>1. CASE i = Len(log) + 1
      BY <1>1, <1>3, <1>4, <2>2, <3>1 DEF KindOf
    <3>2. CASE i \in 1 .. Len(log)
      BY <1>0, <1>1, <1>4, <2>1, <3>2 DEF LogInv
    <3> QED
      BY <1>4, <3>1, <3>2
  <2> QED
    BY <1>0, <1>1, <2>3 DEF LogInv, resolve_graph_name, to_string, default_graph_id, from_name
<1>11. StoreInv'
  <2> SUFFICES ASSUME NEW n \in Nodes \ direct
               PROVE  store[n] = {<<IdOf(i), log[i][1]>> : i \in Live(n)}'
    BY <1>1 DEF StoreInv
  <2>1. \A i \in 1 .. Len(log) : KindOf(i)' = KindOf(i) /\ IdOf(i)' = IdOf(i)
    BY <1>1, <1>4 DEF KindOf, IdOf, from_name
  <2>2. {<<IdOf(i), log[i][1]>> : i \in Live(n)}' = {<<IdOf(i), log[i][1]>> : i \in Live(n)}
    BY <1>0, <1>4, <1>6, <2>1, LiveSame
  <2> QED
    BY <1>0, <2>2 DEF StoreInv
<1> QED
  BY <1>6, <1>7, <1>8, <1>9, <1>10, <1>11 DEF IndInv

(* The live entries after the marked one is run: a write that stores adds  *)
(* itself, a delete leaves those of other graphs, any other changes        *)
(* nothing.                                                                *)
LEMMA LiveStep ==
    ASSUME TypeInv, NEW n \in running, UNCHANGED <<log, applied>>,
           missed'[n] = missed[n] \ {applied[n]},
           \A i \in 1 .. Len(log) : call'[log[i][1]].kind = call[log[i][1]].kind
    PROVE  LET k == applied[n] IN
           /\ k \in 1 .. Len(log) /\ Ran(n)' = Ran(n) \cup {k}
           /\ \A i \in Nat : i \in Live(n)' <=>
                 \/ i = k /\ Stores(KindOf(k))
                 \/ i \in Live(n) /\ ~(KindOf(k) = "Delete" /\ IdOf(k) = IdOf(i))
<1> DEFINE k == applied[n]
<1>0. n \in Nodes /\ applied[n] \in 0 .. Len(log) /\ Len(log) \in Nat
  BY RanInLog DEF TypeInv, MarkerInv
<1>1. k \in 1 .. Len(log) /\ k \in missed[n]
  BY <1>0 DEF TypeInv, MarkerInv
<1>2. Ran(n)' = Ran(n) \cup {k} /\ k \notin Ran(n) /\ \A i \in Ran(n) : i \in 1 .. (k - 1)
  BY <1>0, <1>1 DEF Ran
<1>3. \A i \in 1 .. Len(log) : KindOf(i)' = KindOf(i) /\ IdOf(i)' = IdOf(i)
  BY DEF KindOf, IdOf, from_name
<1> HIDE DEF k
<1>4. \A i \in Ran(n) : i \in 1 .. Len(log)
  BY <1>0, RanInLog
<1> DEFINE Gone(i) == \E j \in Ran(n) : j > i /\ IdOf(j) = IdOf(i) /\ KindOf(j) = "Delete"
           After(i) == \E j \in Ran(n) \cup {k} : j > i /\ IdOf(j) = IdOf(i) /\ KindOf(j) = "Delete"
<1>5. \A i : i \in Live(n) <=> i \in Ran(n) /\ Stores(KindOf(i)) /\ ~Gone(i)
  BY DEF Live
<1>6. \A i : i \in Live(n)' <=> i \in Ran(n) \cup {k} /\ Stores(KindOf(i)) /\ ~After(i)
  <2>1. Live(n)' = {i \in Ran(n)' : /\ Stores(KindOf(i)')
                       /\ ~\E j \in Ran(n)' : j > i /\ IdOf(j)' = IdOf(i)' /\ KindOf(j)' = "Delete"}
    BY DEF Live, Stores
  <2>2. \A i \in Ran(n) \cup {k} : KindOf(i)' = KindOf(i) /\ IdOf(i)' = IdOf(i)
    BY <1>1, <1>3, <1>4
  <2> QED
    BY <1>2, <2>1, <2>2
<1>7. ~After(k)
  BY <1>1, <1>2
<1>8. ASSUME NEW i \in Ran(n)
      PROVE  After(i) <=> Gone(i) \/ (KindOf(k) = "Delete" /\ IdOf(k) = IdOf(i))
  <2>1. k > i
    BY <1>1, <1>2
  <2> QED
    BY <2>1
<1> HIDE DEF Gone, After
<1> QED
  BY <1>1, <1>2, <1>5, <1>6, <1>7, <1>8 DEF k

(* StateMachineApplier::apply runs the next entry on its node and answers  *)
(* the handler that waits there.                                           *)
LEMMA ApplyKeeps ==
    ASSUME IndInv, NEW n \in Nodes, apply(n)
    PROVE  IndInv'
<1> USE DEF Working
<1>0. TypeInv /\ WriteInv /\ PlaceInv /\ AnswerInv /\ LogInv /\ StoreInv
  BY DEF IndInv
<1> DEFINE k == applied[n]
           e == log[k]
           r == e[1]
           c == call[r]
           waits == c.at = n /\ c.pc \in {"proposed", "waiting"}
<1>1. /\ n \in running /\ running' = running \ {n}
      /\ missed' = [missed EXCEPT ![n] = @ \ {k}]
      /\ store' = [store EXCEPT ![n] = execute_program(@, from_name(e[2]), c.kind, r)]
      /\ call' = IF ~waits THEN call
                 ELSE IF c.pc = "proposed" THEN [call EXCEPT ![r] = Answered(@, Outcome(c.kind))]
                 ELSE [call EXCEPT ![r].pc = "reply", ![r].answer = Outcome(c.kind)]
      /\ UNCHANGED <<proposals, log, applied, leader, view, direct>>
  BY DEF apply, Waits
<1>2. k \in 1 .. Len(log) /\ Len(log) \in Nat /\ k \in Nat
  <2>1. Len(log) \in Nat /\ applied[n] \in 0 .. Len(log) /\ applied[n] \in missed[n]
        /\ missed[n] \subseteq 1 .. applied[n]
    BY <1>0, <1>1 DEF TypeInv, MarkerInv
  <2> QED
    BY <2>1
<1>3. r \in Requests /\ Logged(r) /\ c \in Call
  BY <1>0, <1>2, LogEntry, CallFields DEF Logged
<1>4. is_write_query(c.kind) /\ c.pc \notin Unproposed /\ ~Proposed(r)
  BY <1>0, <1>2, <1>3 DEF LogInv, PlaceInv, KindOf, Proposed
<1>5. /\ MarkerInv' /\ Ran(n)' = Ran(n) \cup {k}
      /\ \A m \in Nodes : m # n => Ran(m)' = Ran(m)
  <2>1. missed'[n] = missed[n] \ {k} /\ \A m \in Nodes : m # n => missed'[m] = missed[m]
    BY <1>0, <1>1 DEF TypeInv, MarkerInv
  <2>2. MarkerInv'
    BY <1>0, <1>1, <2>1 DEF TypeInv, MarkerInv
  <2> QED
    BY <1>1, <1>2, <2>1, <2>2 DEF Ran
<1>6. Outcome(c.kind) \in {"ok", "failed"} /\ (Outcome(c.kind) = "ok" <=> Succeeds(c.kind))
  BY DEF Outcome
<1> HIDE DEF k, e, r, c
<1>7. \A s \in Requests : s # r => call'[s] = call[s]
  <2>1. CASE ~waits
    BY <1>1, <2>1
  <2>2. CASE waits /\ c.pc = "proposed"
    <3>1. call' = [call EXCEPT ![r] = Answered(@, Outcome(c.kind))]
      BY <1>1, <2>2
    <3> QED
      BY <1>0, <3>1 DEF TypeInv
  <2>3. CASE waits /\ c.pc # "proposed"
    <3>1. call' = [call EXCEPT ![r].pc = "reply", ![r].answer = Outcome(c.kind)]
      BY <1>1, <2>3
    <3> QED
      BY <1>0, <3>1 DEF TypeInv
  <2> QED
    BY <2>1, <2>2, <2>3
<1>8. /\ call' \in [Requests -> Call]
      /\ call'[r].kind = c.kind /\ call'[r].name = c.name
      /\ \/ call'[r] = c
         \/ /\ waits /\ call'[r].pc \in {"done", "reply"}
            /\ call'[r].answer = Outcome(c.kind) /\ call'[r].at = n
            /\ call'[r].pc = "reply" => call'[r].node = c.node
  <2>0. Outcome(c.kind) \in Answers /\ "reply" \in Places /\ "done" \in Places
    BY <1>6 DEF Answers, Places
  <2>1. CASE ~waits
    <3>1. call' = call
      BY <1>1, <2>1
    <3> QED
      BY <1>0, <3>1 DEF TypeInv, c
  <2>2. CASE waits /\ c.pc = "proposed"
    <3>1. call' = [call EXCEPT ![r] = Answered(c, Outcome(c.kind))]
      BY <1>1, <2>2 DEF c
    <3>2. Answered(c, Outcome(c.kind)) \in Call
      BY <1>3, <2>0 DEF Call, Answered, Places, Node
    <3>3. call' \in [Requests -> Call] /\ call'[r] = Answered(c, Outcome(c.kind))
      BY <1>0, <1>3, <3>1, <3>2 DEF TypeInv
    <3>4. /\ call'[r].pc = "done" /\ call'[r].answer = Outcome(c.kind)
          /\ call'[r].kind = c.kind /\ call'[r].name = c.name /\ call'[r].at = c.at
      BY <1>3, <3>3 DEF Call, Answered
    <3> QED
      BY <2>2, <3>3, <3>4
  <2>3. CASE waits /\ c.pc # "proposed"
    <3> DEFINE d == [c EXCEPT !.pc = "reply", !.answer = Outcome(c.kind)]
    <3>1. call' = [call EXCEPT ![r].pc = "reply", ![r].answer = Outcome(c.kind)]
      BY <1>1, <2>3
    <3>2. /\ d \in Call /\ d.pc = "reply" /\ d.answer = Outcome(c.kind) /\ d.kind = c.kind
          /\ d.name = c.name /\ d.at = c.at /\ d.node = c.node
      BY <1>3, <2>0 DEF Call
    <3>3. call' = [call EXCEPT ![r] = d]
      BY <1>0, <1>3, <3>1 DEF TypeInv, c
    <3> HIDE DEF d
    <3>4. call' \in [Requests -> Call] /\ call'[r] = d
      BY <1>0, <1>3, <3>2, <3>3 DEF TypeInv
    <3> QED
      BY <2>3, <3>2, <3>4
  <2> QED
    BY <2>1, <2>2, <2>3
<1>9. \A s \in Requests : /\ Logged(s)' <=> Logged(s)
                          /\ Proposed(s)' <=> Proposed(s)
  BY <1>1 DEF Logged, Proposed
<1>10. \A s \in Requests : call'[s].kind = call[s].kind /\ call'[s].name = call[s].name
  BY <1>7, <1>8 DEF c
<1>11. TypeInv'
  <2>1. \A s \in Requests : Working(call'[s]) => call'[s].node \in Nodes /\ call'[s].at \in Nodes
    BY <1>0, <1>7, <1>8 DEF TypeInv, c
  <2>2. DOMAIN store' = Nodes
    BY <1>0, <1>1 DEF TypeInv
  <2> QED
    BY <1>0, <1>1, <1>5, <1>8, <2>1, <2>2 DEF TypeInv, resolve_graph_name, to_string,
                                              default_graph_id, from_name
<1>12. WriteInv'
  BY <1>0, <1>4, <1>7, <1>8 DEF WriteInv, c, Unproposed
<1>13. PlaceInv'
  <2>1. ASSUME NEW p \in proposals
        PROVE  call'[p[1]] = call[p[1]] /\ ~Logged(p[1])'
    <3>1. p[1] \in Requests /\ p[1] # r
      BY <1>0, <1>4 DEF TypeInv, Proposed
    <3> QED
      BY <1>0, <1>7, <1>9, <3>1 DEF PlaceInv
  <2>2. \A s \in Requests : call'[s].pc \in Unproposed => ~Logged(s)' /\ ~Proposed(s)'
    BY <1>0, <1>4, <1>7, <1>8, <1>9 DEF PlaceInv, Unproposed
  <2> QED
    BY <1>0, <1>1, <2>1, <2>2 DEF PlaceInv
<1>14. AnswerInv'
  <2> SUFFICES ASSUME NEW s \in Requests,
                      call'[s].pc \in {"done", "reply"}, is_write_query(call'[s].kind)
               PROVE  LET d == call'[s]
                          wasRun == \E i \in 1 .. Len(log) :
                                       log[i][1] = s /\ i \in Ran(call[s].at)'
                      IN /\ d.answer \in {"ok", "failed"} => d.at \in Nodes
                         /\ d.answer = "ok" => wasRun /\ Succeeds(d.kind)
                         /\ d.answer = "failed" => wasRun /\ ~Succeeds(d.kind)
                         /\ d.answer = "refused" => ~Logged(s)' /\ ~Proposed(s)'
    BY <1>1 DEF AnswerInv, Succeeds, is_write_query
  <2>1. CASE call'[s] = call[s]
    <3>1. ASSUME NEW i \in 1 .. Len(log), log[i][1] = s, i \in Ran(call[s].at),
                 call[s].at \in Nodes
          PROVE  \E j \in 1 .. Len(log) : log[j][1] = s /\ j \in Ran(call[s].at)'
      <4>1. i \in Ran(call[s].at)'
        BY <1>5, <2>1, <3>1
      <4> QED
        BY <3>1, <4>1
    <3> QED
      BY <1>0, <1>9, <2>1, <3>1 DEF AnswerInv
  <2>2. CASE call'[s] # call[s]
    <3>1. s = r /\ call'[s].answer = Outcome(c.kind) /\ call'[s].at = n /\ call'[s].kind = c.kind
      BY <1>7, <1>8, <2>2 DEF c
    <3>2. k \in 1 .. Len(log) /\ log[k][1] = s /\ k \in Ran(call[s].at)'
      BY <1>2, <1>5, <3>1 DEF r, e
    <3> QED
      BY <1>6, <3>1, <3>2
  <2> QED
    BY <2>1, <2>2
<1>15. LogInv'
  <2>1. \A p \in proposals' : p[1] \in Requests /\ is_write_query(call'[p[1]].kind)
    BY <1>0, <1>1, <1>10 DEF LogInv, TypeInv
  <2>2. ASSUME NEW i \in 1 .. Len(log)
        PROVE  /\ is_write_query(call'[log[i][1]].kind)
               /\ log[i][2] = resolve_graph_name(call'[log[i][1]].name)
    <3>1. log[i][1] \in Requests
      BY <1>0, LogEntry
    <3> QED
      BY <1>0, <1>10, <3>1 DEF LogInv, KindOf
  <2> QED
    BY <1>1, <2>1, <2>2 DEF LogInv, KindOf, resolve_graph_name, to_string, default_graph_id,
                            from_name
<1>16. StoreInv'
  <2> SUFFICES ASSUME NEW m \in Nodes \ direct
               PROVE  store'[m] = {<<IdOf(i), log[i][1]>> : i \in Live(m)}'
    BY <1>1 DEF StoreInv
  <2>1. \A i \in 1 .. Len(log) : KindOf(i)' = KindOf(i) /\ IdOf(i)' = IdOf(i)
    BY <1>0, <1>1, <1>10, LogEntry DEF KindOf, IdOf, from_name
  <2>2. \A i \in Live(m) : i \in 1 .. Len(log) /\ i \in Nat
    BY <1>0, RanInLog DEF Live
  <2>3. store[m] = {<<IdOf(i), log[i][1]>> : i \in Live(m)}
    BY <1>0 DEF StoreInv
  <2>4. CASE m # n
    <3>1. {<<IdOf(i), log[i][1]>> : i \in Live(m)}' = {<<IdOf(i), log[i][1]>> : i \in Live(m)}
      BY <1>0, <1>1, <1>5, <2>1, <2>4, LiveSame
    <3>2. store'[m] = store[m]
      BY <1>0, <1>1, <2>4 DEF TypeInv
    <3> QED
      BY <2>3, <3>1, <3>2
  <2>5. CASE m = n
    <3>1. KindOf(k) = c.kind /\ IdOf(k) = from_name(e[2]) /\ log[k][1] = r
      BY DEF KindOf, IdOf, c, r, e
    <3>2. store'[n] = execute_program(store[n], IdOf(k), KindOf(k), r)
      BY <1>0, <1>1, <3>1 DEF TypeInv
    <3>3. \A i \in Nat : i \in Live(n)' <=>
             \/ i = k /\ Stores(KindOf(k))
             \/ i \in Live(n) /\ ~(KindOf(k) = "Delete" /\ IdOf(k) = IdOf(i))
      <4>1. missed'[n] = missed[n] \ {applied[n]}
        BY <1>0, <1>1 DEF TypeInv, MarkerInv, k
      <4>2. \A i \in 1 .. Len(log) : call'[log[i][1]].kind = call[log[i][1]].kind
        BY <1>0, <1>10, LogEntry
      <4> QED
        BY <1>0, <1>1, <4>1, <4>2, LiveStep DEF k
    <3>4. \A i \in Live(n)' : i \in Nat /\ i \in 1 .. Len(log)
      <4>1. \A i \in Live(n)' : i \in Ran(n) \cup {k}
        BY <1>5 DEF Live
      <4> QED
        BY <1>0, <1>2, <4>1, RanInLog
    <3>5. ASSUME NEW w
          PROVE  w \in store'[n] <=>
                    \/ w = <<IdOf(k), r>> /\ Stores(KindOf(k))
                    \/ w \in store[n] /\ ~(KindOf(k) = "Delete" /\ w[1] = IdOf(k))
      BY <3>2 DEF execute_program, Stores
    <3>6. ASSUME NEW w
          PROVE  w \in store'[n] <=> \E i \in Live(n)' : w = <<IdOf(i), log[i][1]>>
      <4>1. w \in store[n] <=> \E i \in Live(n) : w = <<IdOf(i), log[i][1]>>
        BY <2>3, <2>5
      <4>2. \A i \in Live(n) : <<IdOf(i), log[i][1]>>[1] = IdOf(i)
        OBVIOUS
      <4> QED
        BY <1>2, <2>2, <2>5, <3>1, <3>3, <3>4, <3>5, <4>1, <4>2
    <3>7. {<<IdOf(i), log[i][1]>> : i \in Live(n)}' = {<<IdOf(i), log[i][1]>> : i \in Live(n)'}
      BY <1>1, <2>1, <3>4
    <3> QED
      BY <2>5, <3>6, <3>7
  <2> QED
    BY <2>4, <2>5
<1> QED
  BY <1>11, <1>12, <1>13, <1>14, <1>15, <1>16 DEF IndInv

--------------------------------------------------------------------------------
(* A step that leaves the log and the markers alone.                       *)
LEMMA SameMarkers ==
    ASSUME TypeInv, UNCHANGED <<log, markers>>
    PROVE  MarkerInv' /\ \A n \in Nodes : Ran(n)' = Ran(n)
  BY DEF TypeInv, MarkerInv, Ran

(* One handler moves its request.                                          *)
LEMMA OneMove ==
    ASSUME IndInv, NEW r \in Requests, NEW d \in Call, call' = [call EXCEPT ![r] = d],
           call'[r] = d => Moves(r),
           UNCHANGED <<log, markers, direct, leader, view>>, proposals' \subseteq proposals,
           DOMAIN store' = Nodes, \A n \in Nodes : store'[n] = store[n]
    PROVE  IndInv'
<1>1. TypeInv
  BY DEF IndInv
<1>2. call' \in [Requests -> Call] /\ call'[r] = d
  BY <1>1 DEF TypeInv
<1>3. \A s \in Requests : call'[s] = call[s] \/ Moves(s)
  BY <1>1, <1>2 DEF TypeInv
<1>4. leader' \in Nodes /\ view' \in [Nodes -> Node]
  BY <1>1 DEF TypeInv
<1>5. MarkerInv' /\ \A n \in Nodes : Ran(n)' = Ran(n)
  BY <1>1, SameMarkers
<1> QED
  BY <1>2, <1>3, <1>4, <1>5, MovesKeep

(* dispatch_query takes up a write or answers what it runs itself, which   *)
(* changes no store.                                                       *)
LEMMA DispatchKeeps ==
    ASSUME IndInv, NEW r \in Requests, NEW n \in Nodes, NEW kind \in Kinds,
           NEW name \in GraphNames, dispatch_query(r, n, kind, name)
    PROVE  IndInv'
<1>0. TypeInv /\ PlaceInv /\ call[r].pc = "idle"
  BY DEF IndInv, dispatch_query
<1>1. ~Logged(r) /\ ~Proposed(r)
  BY <1>0 DEF PlaceInv, Unproposed
<1>2. NotCalled \in Call
  BY DEF NotCalled, Call, Places, Kinds, Names, Node, Answers
<1>3. CASE is_write_query(kind)
  <2> DEFINE d == [pc |-> "write", kind |-> kind, name |-> name, node |-> n, at |-> n,
                   fwd |-> Nobody, answer |-> "none"]
  <2>1. d \in Call
    BY DEF Call, Places, Names, Node, Answers
  <2>2. kind # "unparsable"
    BY <1>3 DEF is_write_query
  <2>3. call' = [call EXCEPT ![r] = d] /\ UNCHANGED <<store, raftVars, markers, direct>>
    BY <1>3, <2>2 DEF dispatch_query, NotCalled
  <2>4. call'[r] = d => Moves(r)
    BY <1>0, <1>1, <1>3, <2>3 DEF Moves, Working, Unproposed, Proposed
  <2>5. DOMAIN store' = Nodes
    BY <1>0, <2>3 DEF TypeInv
  <2> HIDE DEF d
  <2> QED
    BY <2>1, <2>3, <2>4, <2>5, OneMove
<1>4. CASE ~is_write_query(kind)
  <2> DEFINE d == Answered(NotCalled, Outcome(kind))
  <2>1. d \in Call /\ d.pc = "done" /\ d.kind = "Match"
    BY <1>2 DEF NotCalled, Call, Answered, Outcome, Answers, Places, Node
  <2>2. /\ call' = [call EXCEPT ![r] = d]
        /\ store' = [store EXCEPT ![n] = execute_program(@, resolve_graph_id(name), kind, r)]
        /\ UNCHANGED <<raftVars, markers, direct>>
    BY <1>4 DEF dispatch_query
  <2> HIDE DEF d
  <2>3. execute_program(store[n], resolve_graph_id(name), kind, r) = store[n]
    BY <1>4 DEF execute_program, is_write_query, Stores
  <2>4. DOMAIN store' = Nodes /\ \A m \in Nodes : store'[m] = store[m]
    BY <1>0, <2>2, <2>3 DEF TypeInv
  <2>5. call'[r] = d => Moves(r)
    BY <1>0, <2>1 DEF Moves, Working, Unproposed, is_write_query
  <2> QED
    BY <2>1, <2>2, <2>4, <2>5, OneMove
<1> QED
  BY <1>3, <1>4

(* A crash answers the requests that the node's handlers worked on; an     *)
(* entry that was marked and not run stays so.                             *)
LEMMA CrashKeeps ==
    ASSUME IndInv, NEW n \in Nodes, Crash(n)
    PROVE  IndInv'
<1> DEFINE Hit(c) == \/ c.node = n /\ c.pc \notin {"idle", "done"}
                     \/ c.at = n /\ c.pc \in {"remote", "waiting", "reply"}
<1>0. TypeInv
  BY DEF IndInv
<1>1. /\ call' = [r \in Requests |->
                     IF Hit(call[r]) THEN Answered(call[r], "broken") ELSE call[r]]
      /\ UNCHANGED <<proposals, log, applied, missed, store, leader, direct>>
      /\ running' = running \ {n} /\ view' = [view EXCEPT ![n] = Nobody]
  BY DEF Crash
<1>2. ASSUME NEW r \in Requests
      PROVE  call'[r] \in Call /\ (call'[r] = call[r] \/ Moves(r))
  <2>1. CASE ~Hit(call[r])
    BY <1>0, <1>1, <2>1, CallFields
  <2>2. CASE Hit(call[r])
    <3>1. Working(call[r]) /\ call'[r] = Answered(call[r], "broken")
      BY <1>1, <2>2 DEF Working
    <3>2. /\ call'[r] \in Call /\ call'[r].pc = "done" /\ call'[r].answer = "broken"
          /\ call'[r].kind = call[r].kind /\ call'[r].name = call[r].name
      <4>1. call[r] \in Call
        BY <1>0, CallFields
      <4> QED
        BY <3>1, <4>1 DEF Call, Answered, Answers, Places, Node
    <3> QED
      BY <3>1, <3>2 DEF Moves, Working, Unproposed
  <2> QED
    BY <2>1, <2>2
<1>3. call' \in [Requests -> Call]
  BY <1>1, <1>2
<1>4. view' \in [Nodes -> Node] /\ leader' \in Nodes /\ DOMAIN store' = Nodes
  BY <1>0, <1>1 DEF TypeInv, Node
<1>5. MarkerInv' /\ \A m \in Nodes : Ran(m)' = Ran(m)
  BY <1>0, <1>1 DEF TypeInv, MarkerInv, Ran
<1> HIDE DEF Hit
<1> QED
  BY <1>1, <1>2, <1>3, <1>4, <1>5, MovesKeep

(* A marker that moves over entries without running them: apply_mark, and  *)
(* the installation of a snapshot.                                         *)
LEMMA MarkKeeps ==
    ASSUME IndInv, NEW n \in Nodes, NEW k \in 1 .. Len(log), applied[n] < k,
           applied' = [applied EXCEPT ![n] = k],
           missed' = [missed EXCEPT ![n] = @ \cup ((applied[n] + 1) .. k)],
           n \notin running, running' \subseteq running \cup {n},
           UNCHANGED <<call, raftVars, store, direct>>
    PROVE  IndInv'
<1>0. TypeInv
  BY DEF IndInv
<1>1. applied[n] \in 0 .. Len(log) /\ Len(log) \in Nat
  BY <1>0, RanInLog
<1>2. /\ applied'[n] = k /\ missed'[n] = missed[n] \cup ((applied[n] + 1) .. k)
      /\ missed[n] \subseteq 1 .. applied[n]
      /\ \A m \in Nodes : m # n => applied'[m] = applied[m] /\ missed'[m] = missed[m]
  BY <1>0 DEF TypeInv, MarkerInv
<1>3. k \in missed'[n] /\ missed'[n] \subseteq 1 .. k
  BY <1>1, <1>2
<1>4. MarkerInv'
  <2>1. applied' \in [Nodes -> 0 .. Len(log)] /\ missed' \in [Nodes -> SUBSET Nat]
        /\ running' \subseteq Nodes
    BY <1>0, <1>1 DEF TypeInv, MarkerInv
  <2>2. \A m \in Nodes : missed'[m] \subseteq 1 .. applied'[m]
    BY <1>0, <1>2, <1>3 DEF TypeInv, MarkerInv
  <2>3. \A m \in running' : applied'[m] \in missed'[m]
    BY <1>0, <1>2, <1>3 DEF TypeInv, MarkerInv
  <2> QED
    BY <2>1, <2>2, <2>3 DEF MarkerInv
<1>5. ASSUME NEW m \in Nodes
      PROVE  Ran(m)' = Ran(m)
  <2>1. CASE m = n
    BY <1>1, <1>2, <2>1 DEF Ran
  <2>2. CASE m # n
    BY <1>2, <2>2 DEF Ran
  <2> QED
    BY <2>1, <2>2
<1>6. leader' \in Nodes /\ view' \in [Nodes -> Node] /\ DOMAIN store = Nodes
      /\ call' \in [Requests -> Call]
  BY <1>0 DEF TypeInv
<1> QED
  BY <1>4, <1>5, <1>6, MovesKeep

(* The steps of a handler between the calls of openraft.                   *)
LEMMA HandleKeeps ==
    ASSUME IndInv, NEW r \in Requests, Handle(r) \/ connection_error(r)
    PROVE  IndInv'
<1>0. TypeInv /\ WriteInv /\ PlaceInv /\ AnswerInv
  BY DEF IndInv
<1> DEFINE c == call[r]
<1>1. /\ c \in Call /\ DOMAIN store = Nodes
      /\ Working(c) => c.node \in Nodes /\ c.at \in Nodes /\ is_write_query(c.kind)
  BY <1>0, CallFields DEF TypeInv, WriteInv
<1>2. c.pc \in Unproposed => ~Logged(r) /\ ~Proposed(r)
  BY <1>0 DEF PlaceInv
<1>3. CASE client_write(r) /\ view[c.at] = c.at
  BY <1>3, ProposeKeeps
<1>4. CASE client_write(r) /\ view[c.at] # c.at /\ c.pc = "write"
  <2> DEFINE d == [c EXCEPT !.pc = "rejected", !.fwd = view[c.at]]
  <2>1. view[c.at] \in Node
    BY <1>0, <1>1, <1>4 DEF TypeInv, Working
  <2>2. /\ d \in Call /\ d.pc = "rejected" /\ d.kind = c.kind /\ d.name = c.name
        /\ d.node = c.node /\ d.at = c.at
    BY <1>1, <2>1 DEF Call, Places
  <2>3. call' = [call EXCEPT ![r] = d] /\ UNCHANGED <<raftVars, markers, store, direct>>
    BY <1>0, <1>4 DEF client_write, TypeInv
  <2> HIDE DEF d
  <2>4. call'[r] = d => Moves(r)
    BY <1>1, <1>2, <1>4, <2>2, <2>3 DEF Moves, Working, Unproposed, Proposed
  <2> QED
    BY <1>1, <2>2, <2>3, <2>4, OneMove
<1>5. CASE client_write(r) /\ view[c.at] # c.at /\ c.pc = "remote"
  <2> DEFINE d == [c EXCEPT !.pc = "reply", !.answer = "refused"]
  <2>1. /\ d \in Call /\ d.pc = "reply" /\ d.kind = c.kind /\ d.name = c.name
        /\ d.node = c.node /\ d.at = c.at /\ d.answer = "refused"
    BY <1>1 DEF Call, Places, Answers
  <2>2. call' = [call EXCEPT ![r] = d] /\ UNCHANGED <<raftVars, markers, store, direct>>
    BY <1>0, <1>5 DEF client_write, TypeInv
  <2> HIDE DEF d
  <2>3. call'[r] = d => Moves(r)
    BY <1>1, <1>2, <1>5, <2>1, <2>2 DEF Moves, Working, Unproposed, Proposed
  <2> QED
    BY <1>1, <2>1, <2>2, <2>3, OneMove
<1>6. ASSUME c.pc \in {"rejected", "forward"}, Answer(r, "refused"),
             UNCHANGED <<raftVars, markers, store, direct>>
      PROVE  IndInv'
  <2> DEFINE d == Answered(c, "refused")
  <2>1. /\ d \in Call /\ d.pc = "done" /\ d.kind = c.kind /\ d.name = c.name
        /\ d.answer = "refused"
    BY <1>1 DEF Call, Answered, Places, Node, Answers
  <2>2. call' = [call EXCEPT ![r] = d]
    BY <1>6 DEF Answer
  <2> HIDE DEF d
  <2>3. call'[r] = d => Moves(r)
    BY <1>1, <1>2, <1>6, <2>1, <2>2 DEF Moves, Working, Unproposed, Proposed
  <2> QED
    BY <1>1, <1>6, <2>1, <2>2, <2>3, OneMove
<1>7. CASE forward_target(r)
  <2>1. CASE Target(c) = Nobody
    BY <1>6, <1>7, <2>1 DEF forward_target
  <2>2. CASE Target(c) # Nobody
    <3> DEFINE d == [c EXCEPT !.pc = "forward", !.at = Target(c), !.fwd = Nobody]
    <3>1. Target(c) \in Nodes
      BY <1>0, <1>1, <1>7, <2>2, TargetType DEF forward_target, Working, Node
    <3>2. /\ d \in Call /\ d.pc = "forward" /\ d.kind = c.kind /\ d.name = c.name
          /\ d.node = c.node /\ d.at \in Nodes
      BY <1>1, <3>1 DEF Call, Places, Node
    <3>3. call' = [call EXCEPT ![r] = d] /\ UNCHANGED <<raftVars, markers, store, direct>>
      BY <1>0, <1>7, <2>2 DEF forward_target, TypeInv
    <3>0. c.pc = "rejected"
      BY <1>7 DEF forward_target
    <3> HIDE DEF d
    <3>4. call'[r] = d => Moves(r)
      BY <1>1, <1>2, <3>0, <3>2, <3>3 DEF Moves, Working, Unproposed, Proposed
    <3> QED
      BY <1>1, <3>2, <3>3, <3>4, OneMove
  <2> QED
    BY <2>1, <2>2
<1>8. CASE connect(r)
  <2>1. CASE Answer(r, "refused")
    BY <1>6, <1>8, <2>1 DEF connect
  <2>2. CASE Step(r, "remote")
    <3> DEFINE d == [c EXCEPT !.pc = "remote"]
    <3>1. /\ d \in Call /\ d.pc = "remote" /\ d.kind = c.kind /\ d.name = c.name
          /\ d.node = c.node /\ d.at = c.at
      BY <1>1 DEF Call, Places
    <3>2. call' = [call EXCEPT ![r] = d] /\ UNCHANGED <<raftVars, markers, store, direct>>
      BY <1>0, <1>8, <2>2 DEF connect, Step, TypeInv
    <3>0. c.pc = "forward"
      BY <1>8 DEF connect
    <3> HIDE DEF d
    <3>3. call'[r] = d => Moves(r)
      BY <1>1, <1>2, <3>0, <3>1, <3>2 DEF Moves, Working, Unproposed, Proposed
    <3> QED
      BY <1>1, <3>1, <3>2, <3>3, OneMove
  <2> QED
    BY <1>8, <2>1, <2>2 DEF connect
<1>9. ASSUME NEW a \in Answers, Answer(r, a), UNCHANGED <<raftVars, markers, store, direct>>,
             \/ c.pc = "reply" /\ a = c.answer
             \/ c.pc \in {"remote", "waiting", "reply"} /\ a = "broken"
      PROVE  IndInv'
  <2> DEFINE d == Answered(c, a)
  <2>1. /\ d \in Call /\ d.pc = "done" /\ d.kind = c.kind /\ d.name = c.name
        /\ d.answer = a /\ d.at = c.at
    BY <1>1 DEF Call, Answered, Places, Node
  <2>2. call' = [call EXCEPT ![r] = d]
    BY <1>9 DEF Answer
  <2> HIDE DEF d
  <2>3. call'[r] = d => Moves(r)
    BY <1>1, <1>9, <2>1 DEF Moves, Working, Unproposed
  <2> QED
    BY <1>1, <1>9, <2>1, <2>2, <2>3, OneMove
<1>10. CASE forward_write_to(r)
  <2>1. c.answer \in Answers
    BY <1>1 DEF Call
  <2> QED
    BY <1>9, <1>10, <2>1 DEF forward_write_to
<1>11. CASE connection_error(r)
  BY <1>9, <1>11 DEF connection_error, Answers
<1> QED
  BY <1>3, <1>4, <1>5, <1>7, <1>8, <1>10, <1>11 DEF Handle, client_write

(* A lost proposal goes back to the handler that waits for it, or to none. *)
LEMMA LoseKeeps ==
    ASSUME IndInv, NEW p \in proposals, Lose(p)
    PROVE  IndInv'
<1>0. TypeInv /\ WriteInv /\ PlaceInv
  BY DEF IndInv
<1> DEFINE r == p[1]
           c == call[r]
           waits == c.at = p[2] /\ c.pc \in {"proposed", "waiting"}
<1>1. /\ proposals' = proposals \ {p}
      /\ call' = IF ~waits THEN call
                 ELSE IF c.pc = "proposed"
                 THEN [call EXCEPT ![r].pc = "rejected", ![r].fwd = view[p[2]]]
                 ELSE [call EXCEPT ![r].pc = "reply", ![r].answer = "refused"]
      /\ UNCHANGED <<log, markers, store, leader, view, direct>>
  BY DEF Lose, Waits
<1>2. /\ r \in Requests /\ p[2] \in Nodes /\ c \in Call /\ DOMAIN store = Nodes
      /\ Working(c) => c.node \in Nodes /\ c.at \in Nodes /\ is_write_query(c.kind)
  <2>1. r \in Requests /\ p[2] \in Nodes
    BY <1>0 DEF TypeInv
  <2> QED
    BY <1>0, <2>1, CallFields DEF TypeInv, WriteInv
<1>3. ~Logged(r) /\ ~Proposed(r)'
  BY <1>0, <1>1 DEF PlaceInv, Proposed
<1> HIDE DEF r
<1>4. CASE ~waits
  <2>1. call' = call
    BY <1>1, <1>4
  <2>2. call' \in [Requests -> Call] /\ leader' \in Nodes /\ view' \in [Nodes -> Node]
    BY <1>0, <1>1, <2>1 DEF TypeInv
  <2>3. MarkerInv' /\ \A n \in Nodes : Ran(n)' = Ran(n)
    BY <1>0, <1>1, SameMarkers
  <2> QED
    BY <1>1, <1>2, <2>1, <2>2, <2>3, MovesKeep
<1>5. CASE waits /\ c.pc = "proposed"
  <2> DEFINE d == [c EXCEPT !.pc = "rejected", !.fwd = view[p[2]]]
  <2>0. call' = [call EXCEPT ![r].pc = "rejected", ![r].fwd = view[p[2]]]
    BY <1>1, <1>5
  <2>1. view[p[2]] \in Node
    BY <1>0, <1>2 DEF TypeInv
  <2>2. /\ d \in Call /\ d.pc = "rejected" /\ d.kind = c.kind /\ d.name = c.name
        /\ d.node = c.node /\ d.at = c.at
    BY <1>2, <2>1 DEF Call, Places
  <2>3. call' = [call EXCEPT ![r] = d]
    BY <1>0, <1>2, <2>0 DEF TypeInv
  <2> HIDE DEF d
  <2>4. call'[r] = d => Moves(r)
    BY <1>2, <1>3, <1>5, <2>2 DEF Moves, Working, Unproposed
  <2> QED
    BY <1>1, <1>2, <2>2, <2>3, <2>4, OneMove
<1>6. CASE waits /\ c.pc # "proposed"
  <2> DEFINE d == [c EXCEPT !.pc = "reply", !.answer = "refused"]
  <2>0. call' = [call EXCEPT ![r].pc = "reply", ![r].answer = "refused"]
    BY <1>1, <1>6
  <2>1. /\ d \in Call /\ d.pc = "reply" /\ d.kind = c.kind /\ d.name = c.name
        /\ d.node = c.node /\ d.at = c.at /\ d.answer = "refused"
    BY <1>2 DEF Call, Places, Answers
  <2>2. call' = [call EXCEPT ![r] = d]
    BY <1>0, <1>2, <2>0 DEF TypeInv
  <2> HIDE DEF d
  <2>3. call'[r] = d => Moves(r)
    BY <1>2, <1>3, <1>6, <2>1 DEF Moves, Working, Unproposed
  <2> QED
    BY <1>1, <1>2, <2>1, <2>2, <2>3, OneMove
<1> QED
  BY <1>4, <1>5, <1>6

(* import_graph answers its request and writes to one node around Raft.    *)
LEMMA ImportKeeps ==
    ASSUME IndInv, NEW r \in Requests, NEW n \in Nodes, NEW name \in GraphNames,
           import_graph(r, n, name)
    PROVE  IndInv'
<1>0. TypeInv /\ call[r].pc = "idle"
  BY DEF IndInv, import_graph
<1> DEFINE d == Answered(NotCalled, "ok")
<1>1. d \in Call /\ d.pc = "done" /\ d.kind = "Match"
  BY DEF NotCalled, Answered, Call, Places, Kinds, Names, Node, Answers
<1>2. /\ call' = [call EXCEPT ![r] = d]
      /\ store' = [store EXCEPT ![n] = execute_program(@, resolve_graph_id(name), "Insert", r)]
      /\ direct' = direct \cup {n}
      /\ UNCHANGED <<proposals, log, leader, view, markers>>
  BY DEF import_graph
<1> HIDE DEF d
<1>3. call' \in [Requests -> Call] /\ \A s \in Requests : call'[s] = call[s] \/ Moves(s)
  <2>1. call' \in [Requests -> Call] /\ call'[r] = d
    BY <1>0, <1>1, <1>2 DEF TypeInv
  <2>2. Moves(r)
    BY <1>0, <1>1, <2>1 DEF Moves, Working, Unproposed, is_write_query
  <2> QED
    BY <1>0, <1>2, <2>1, <2>2 DEF TypeInv
<1>4. /\ DOMAIN store' = Nodes /\ \A m \in Nodes \ direct' : store'[m] = store[m]
      /\ leader' \in Nodes /\ view' \in [Nodes -> Node]
  BY <1>0, <1>2 DEF TypeInv
<1>5. MarkerInv' /\ \A m \in Nodes : Ran(m)' = Ran(m)
  BY <1>0, <1>2, SameMarkers
<1> QED
  BY <1>2, <1>3, <1>4, <1>5, MovesKeep

--------------------------------------------------------------------------------
(* IndInv holds at the start ...                                           *)
LEMMA InitInd == Init => IndInv
<1> SUFFICES ASSUME Init PROVE IndInv
  OBVIOUS
<1> USE DEF Init
<1>1. NotCalled \in Call /\ NotCalled.pc = "idle"
  BY DEF NotCalled, Call, Places, Kinds, Names, Node, Answers
<1>2. \A r \in Requests : call[r] = NotCalled
  OBVIOUS
<1>3. Len(log) = 0
  OBVIOUS
<1>4. TypeInv
  BY <1>1 DEF TypeInv, MarkerInv, Working, Node
<1>5. WriteInv /\ AnswerInv
  BY <1>1, <1>2 DEF WriteInv, AnswerInv, Working
<1>6. PlaceInv /\ LogInv
  BY <1>3 DEF PlaceInv, LogInv, Logged, Proposed
<1>7. StoreInv
  BY <1>3 DEF StoreInv, Live, Ran
<1> QED
  BY <1>4, <1>5, <1>6, <1>7 DEF IndInv

(* ... and every step keeps it.                                            *)
LEMMA StepInd == IndInv /\ [Next]_vars => IndInv'
<1> SUFFICES ASSUME IndInv, [Next]_vars PROVE IndInv'
  OBVIOUS
<1>1. ASSUME NEW r \in Requests, NEW n \in Nodes, NEW q \in Queries,
             dispatch_query(r, n, q[1], q[2])
      PROVE  IndInv'
  <2>1. q[1] \in Kinds /\ q[2] \in GraphNames
    BY ConstantsFit
  <2> QED
    BY <1>1, <2>1, DispatchKeeps
<1>2. ASSUME NEW r \in Requests, NEW n \in Nodes, NEW g \in GraphNames, import_graph(r, n, g)
      PROVE  IndInv'
  BY <1>2, ImportKeeps
<1>3. ASSUME NEW r \in Requests, Handle(r) \/ connection_error(r)
      PROVE  IndInv'
  BY <1>3, HandleKeeps
<1>4. ASSUME NEW p \in proposals, Commit(p)
      PROVE  IndInv'
  BY <1>4, CommitKeeps
<1>5. ASSUME NEW p \in proposals, Lose(p)
      PROVE  IndInv'
  BY <1>5, LoseKeeps
<1>6. ASSUME NEW n \in Nodes, apply(n)
      PROVE  IndInv'
  BY <1>6, ApplyKeeps
<1>7. ASSUME NEW n \in Nodes, Elect(n) \/ Hear(n) \/ Miss(n)
      PROVE  IndInv'
  <2>1. UNCHANGED <<call, proposals, log, markers, store, direct>>
    BY <1>7 DEF Elect, Hear, Miss
  <2>2. leader' \in Nodes /\ view' \in [Nodes -> Node] /\ DOMAIN store = Nodes
        /\ call' \in [Requests -> Call]
    BY <1>7 DEF IndInv, TypeInv, Elect, Hear, Miss, Node
  <2>3. MarkerInv' /\ \A m \in Nodes : Ran(m)' = Ran(m)
    BY <2>1, SameMarkers DEF IndInv
  <2> QED
    BY <2>1, <2>2, <2>3, MovesKeep
<1>8. ASSUME NEW n \in Nodes, Crash(n)
      PROVE  IndInv'
  BY <1>8, CrashKeeps
<1>9. ASSUME NEW n \in Nodes, apply_mark(n)
      PROVE  IndInv'
  <2>1. applied[n] \in 0 .. Len(log) /\ Len(log) \in Nat
    BY RanInLog DEF IndInv
  <2>2. {applied[n] + 1} = (applied[n] + 1) .. (applied[n] + 1)
        /\ applied[n] + 1 \in 1 .. Len(log) /\ applied[n] < applied[n] + 1
    BY <1>9, <2>1 DEF apply_mark
  <2> QED
    BY <1>9, <2>2, MarkKeeps DEF apply_mark
<1>10. ASSUME NEW n \in Nodes, NEW k \in 1 .. Len(log), install_snapshot(n, k)
       PROVE  IndInv'
  BY <1>10, MarkKeeps DEF install_snapshot
<1>11. CASE UNCHANGED vars
  <2>1. UNCHANGED <<call, proposals, log, markers, store, direct, leader, view>>
    BY <1>11 DEF vars
  <2>2. leader' \in Nodes /\ view' \in [Nodes -> Node] /\ DOMAIN store = Nodes
        /\ call' \in [Requests -> Call]
    BY <2>1 DEF IndInv, TypeInv
  <2>3. MarkerInv' /\ \A m \in Nodes : Ran(m)' = Ran(m)
    BY <2>1, SameMarkers DEF IndInv
  <2> QED
    BY <2>1, <2>2, <2>3, MovesKeep
<1> QED
  BY <1>1, <1>2, <1>3, <1>4, <1>5, <1>6, <1>7, <1>8, <1>9, <1>10, <1>11 DEF Next

(* Every behaviour keeps the inductive invariant.                          *)
LEMMA IndAlways == Spec => []IndInv
  BY InitInd, StepInd, PTL DEF Spec

(* Handlers stand at nodes of the cluster, no node marks more than the log *)
(* has, and what it missed is below its marker.                            *)
THEOREM TypeCorrect == Spec => []TypeOK
<1>1. IndInv => TypeOK
  BY CallFields DEF IndInv, TypeInv, MarkerInv, TypeOK, Working, Answers, Node
<1> QED
  BY <1>1, IndAlways, PTL

(* However leaders change, connections break and nodes crash, a request is *)
(* in the log once at most and not also on its way there.                  *)
THEOREM NeverTwice == Spec => []AtMostOnce
<1>1. ASSUME NEW S, \A x, y \in S : x = y
      PROVE  Cardinality(S) = IF S = {} THEN 0 ELSE 1
  <2>1. CASE S = {}
    BY <2>1, FS_EmptySet
  <2>2. CASE S # {}
    <3>1. PICK x \in S : S = {x}
      BY <1>1, <2>2
    <3> QED
      BY <2>2, <3>1, FS_Singleton
  <2> QED
    BY <2>1, <2>2
<1>2. IndInv => AtMostOnce
  <2> SUFFICES ASSUME IndInv, NEW r \in Requests
               PROVE  Cardinality(Positions(r))
                         + Cardinality({p \in proposals : p[1] = r}) <= 1
    BY DEF AtMostOnce
  <2> DEFINE P == {p \in proposals : p[1] = r}
  <2>1. Cardinality(Positions(r)) = IF Positions(r) = {} THEN 0 ELSE 1
    <3>1. \A i, j \in Positions(r) : i = j
      BY DEF IndInv, PlaceInv, Positions
    <3> QED
      BY <1>1, <3>1
  <2>2. Cardinality(P) = IF P = {} THEN 0 ELSE 1
    <3>1. \A p, q \in P : p = q
      BY DEF IndInv, PlaceInv
    <3> HIDE DEF P
    <3> QED
      BY <1>1, <3>1
  <2>3. Positions(r) = {} \/ P = {}
    BY DEF IndInv, PlaceInv, Logged, Positions
  <2> HIDE DEF P
  <2>4. Cardinality(Positions(r)) + Cardinality(P) <= 1
    BY <2>1, <2>2, <2>3
  <2> QED
    BY <2>4 DEF P
<1> QED
  BY <1>2, IndAlways, PTL

(* An answer tells what became of the write: "ok" that it is in the log    *)
(* and was run to its end where it was proposed, "failed" that it is in    *)
(* the log and was run there until its error (exec_set_property and        *)
(* others have stored the rows before it by then), "refused" that it is    *)
(* not in the log and not on its way there.                                *)
THEOREM AnswersTell == Spec => []AnswerTells
<1>1. IndInv => AnswerTells
  BY DEF IndInv, AnswerInv, AnswerTells, Positions, Logged, Proposed
<1> QED
  BY <1>1, IndAlways, PTL

(* Nodes that nobody wrote to around Raft and that have run the same       *)
(* entries hold the same writes.  Equal markers are not enough: a crash    *)
(* between marker and query, and a snapshot, leave entries that one of two *)
(* nodes with the same LAST_APPLIED has not run.                           *)
ReplicasAgree ==
    \A m, n \in Nodes \ direct : Ran(m) = Ran(n) => store[m] = store[n]

(* Replicas agree on what they have run, whatever names the clients give   *)
(* the graphs, and in whatever order marks, runs, crashes, snapshots and   *)
(* elections of the nodes interleave.                                      *)
THEOREM ReplicasConverge == Spec => []ReplicasAgree
<1>1. IndInv => ReplicasAgree
  <2> SUFFICES ASSUME IndInv, NEW m \in Nodes \ direct, NEW n \in Nodes \ direct,
                      Ran(m) = Ran(n)
               PROVE  store[m] = store[n]
    BY DEF ReplicasAgree
  <2>1. Live(m) = Live(n)
    BY DEF Live
  <2> QED
    BY <2>1 DEF IndInv, StoreInv
<1> QED
  BY <1>1, IndAlways, PTL

(* If every query names its graph, a read finds on a node what the log,    *)
(* without the entries the node missed in a crash or by a snapshot, makes  *)
(* of an empty graph.  (With the empty name it does not: the write goes to *)
(* the graph whose name is the text of the default graph's id.)            *)
THEOREM NamedReadsFollowLog ==
    ASSUME <<>> \notin GraphNames
    PROVE  Spec => []ReadsFollowLog
<1>1. IndInv => ReadsFollowLog
  <2> SUFFICES ASSUME IndInv, NEW n \in Nodes \ direct, NEW g \in GraphNames
               PROVE  Found(n, g) = Expected(n, Canonical(g))
    BY DEF ReadsFollowLog
  <2> DEFINE Asked(i) == call[log[i][1]].name
  <2>0. TypeInv /\ WriteInv /\ PlaceInv /\ LogInv /\ StoreInv
    BY DEF IndInv
  <2>1. Canonical(g) = g /\ resolve_graph_id(g) = from_name(g)
    BY DEF Canonical, resolve_graph_id
  <2>2. \A i \in Ran(n) : i \in 1 .. Len(log)
    BY <2>0, RanInLog
  <2>3. ASSUME NEW i \in Ran(n)
        PROVE  /\ Asked(i) \in GraphNames /\ Canonical(Asked(i)) = Asked(i)
               /\ log[i][2] = Asked(i)
    <3>1. i \in 1 .. Len(log)
      BY <2>2
    <3>2. log[i][1] \in Requests /\ Logged(log[i][1])
      BY <2>0, <3>1, LogEntry DEF Logged
    <3>3. call[log[i][1]].pc # "idle"
      BY <2>0, <3>2 DEF PlaceInv, Unproposed
    <3>4. Asked(i) \in GraphNames
      BY <2>0, <3>1, <3>2, <3>3 DEF WriteInv, LogInv, KindOf
    <3> QED
      BY <2>0, <3>1, <3>4 DEF LogInv, Canonical, resolve_graph_name
  <2>4. ASSUME NEW i \in Ran(n), NEW f \in GraphNames
        PROVE  IdOf(i) = from_name(f) <=> Canonical(Asked(i)) = f
    <3>1. Asked(i) \in Seq(STRING) /\ f \in Seq(STRING)
      BY <2>3, ConstantsFit, Zenon
    <3>2. from_name(Asked(i)) = from_name(f) => Asked(i) = f
      BY <3>1, FromNameInjective, Zenon
    <3>3. IdOf(i) = from_name(Asked(i)) /\ Canonical(Asked(i)) = Asked(i)
      BY <2>3 DEF IdOf
    <3> QED
      BY <3>2, <3>3, Zenon
  <2>5. ASSUME NEW i \in Ran(n), NEW j \in Ran(n)
        PROVE  IdOf(j) = IdOf(i) <=> Canonical(Asked(j)) = Canonical(Asked(i))
    <3>1. Asked(i) \in GraphNames /\ IdOf(i) = from_name(Asked(i))
          /\ Canonical(Asked(i)) = Asked(i)
      BY <2>3 DEF IdOf
    <3> QED
      BY <2>4, <3>1, Zenon
  <2> HIDE DEF Asked
  <2>6. Found(n, g) = {log[i][1] : i \in {i \in Live(n) : IdOf(i) = from_name(g)}}
    <3>1. store[n] = {<<IdOf(i), log[i][1]>> : i \in Live(n)}
      BY <2>0 DEF StoreInv
    <3>2. Found(n, g) = {w[2] : w \in {w \in store[n] : w[1] = from_name(g)}}
      BY <2>1 DEF Found
    <3>3. \A w : w \in {w_1 \in store[n] : w_1[1] = from_name(g)} <=>
                   \E i \in Live(n) : w = <<IdOf(i), log[i][1]>> /\ IdOf(i) = from_name(g)
      BY <3>1
    <3>4. ASSUME NEW x
          PROVE  x \in Found(n, g) <=> \E i \in Live(n) : x = log[i][1] /\ IdOf(i) = from_name(g)
      <4>1. x \in Found(n, g) <=> \E w \in {w \in store[n] : w[1] = from_name(g)} : x = w[2]
        BY <3>2
      <4>2. \A i : <<IdOf(i), log[i][1]>>[2] = log[i][1]
        OBVIOUS
      <4>3. ASSUME NEW i \in Live(n), x = log[i][1], IdOf(i) = from_name(g)
            PROVE  x \in Found(n, g)
        <5>1. <<IdOf(i), log[i][1]>> \in {w \in store[n] : w[1] = from_name(g)}
          BY <3>3, <4>3
        <5> QED
          BY <4>1, <4>2, <4>3, <5>1
      <4>4. ASSUME NEW w \in {w \in store[n] : w[1] = from_name(g)}, x = w[2]
            PROVE  \E i \in Live(n) : x = log[i][1] /\ IdOf(i) = from_name(g)
        BY <3>3, <4>2, <4>4
      <4> QED
        BY <4>1, <4>3, <4>4
    <3> QED
      BY <3>4
  <2>7. \A i : i \in Live(n) /\ IdOf(i) = from_name(g) <=>
           /\ i \in Ran(n) /\ Canonical(Asked(i)) = g /\ Stores(KindOf(i))
           /\ ~\E j \in Ran(n) : j > i /\ Canonical(Asked(j)) = g /\ KindOf(j) = "Delete"
    <3> TAKE i
    <3>1. CASE i \notin Ran(n)
      BY <3>1 DEF Live
    <3>2. CASE i \in Ran(n)
      <4>1. IdOf(i) = from_name(g) <=> Canonical(Asked(i)) = g
        BY <2>4, <3>2
      <4>2. \A j \in Ran(n) : IdOf(j) = IdOf(i) <=> Canonical(Asked(j)) = Canonical(Asked(i))
        BY <2>5, <3>2
      <4> QED
        BY <3>2, <4>1, <4>2 DEF Live
    <3> QED
      BY <3>1, <3>2
  <2>8. Expected(n, g) =
           {log[i][1] : i \in {i \in Ran(n) :
               /\ Canonical(Asked(i)) = g /\ Stores(KindOf(i))
               /\ ~\E j \in Ran(n) : j > i /\ Canonical(Asked(j)) = g /\ KindOf(j) = "Delete"}}
    BY DEF Expected, Asked, KindOf
  <2>9. {i \in Live(n) : IdOf(i) = from_name(g)} =
           {i \in Ran(n) :
               /\ Canonical(Asked(i)) = g /\ Stores(KindOf(i))
               /\ ~\E j \in Ran(n) : j > i /\ Canonical(Asked(j)) = g /\ KindOf(j) = "Delete"}
    BY <2>7
  <2> QED
    BY <2>1, <2>6, <2>8, <2>9
<1> QED
  BY <1>1, IndAlways, PTL
=============================================================================
