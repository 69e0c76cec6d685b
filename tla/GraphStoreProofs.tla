--------------------------- MODULE GraphStoreProofs ---------------------------
(***************************************************************************)
(* Proofs about GraphStore for any number of threads, nodes, edges and     *)
(* labels.                                                                 *)
(***************************************************************************)
EXTENDS GraphStore, TLAPS

USE DEF tables, races

(* What a thread's call carries at each step.                              *)
LEMMA CallFields ==
    ASSUME TypeOK, NEW th \in Threads
    PROVE  LET c == call[th] IN
           /\ c.at = "put_node_read" =>
                 c.id \in NodeIds /\ c.val \in SUBSET Labels /\ c.reshapes \in BOOLEAN
           /\ c.at = "put_node_write" =>
                 c.id \in NodeIds /\ c.val \in SUBSET Labels /\ c.old \in SUBSET Labels
           /\ c.at = "put_edge_read" =>
                 c.id \in EdgeIds /\ c.val \in Edge /\ c.reshapes \in BOOLEAN
           /\ c.at = "put_edge_write" =>
                 c.id \in EdgeIds /\ c.val \in Edge /\ c.old \in Edge \cup {Absent}
           /\ c.at = "delete_edge_write" => c.id \in EdgeIds /\ c.old \in Edge
           /\ c.at = "delete_node_out" => c.id \in NodeIds /\ c.old \in SUBSET Labels
           /\ c.at \in {"delete_node_in", "delete_node_edge"} =>
                 c.id \in NodeIds /\ c.old \in SUBSET Labels /\ c.todo \in SUBSET EdgeIds
           /\ c.at = "delete_node_edge_write" =>
                 /\ c.id \in NodeIds /\ c.old \in SUBSET Labels
                 /\ c.todo \in SUBSET EdgeIds /\ c.edge \in EdgeIds /\ c.val \in Edge
           /\ c.at = "delete_graph" => c.cf \in 1 .. DATA_CFS
           /\ c = Idle <=> c.at = "idle"
<1>1. call[th] \in Call
  BY DEF TypeOK
<1>2. CASE call[th] = Idle
  BY <1>2 DEF Idle
<1>3. CASE call[th] \in NodeCall
  BY <1>3 DEF NodeCall, Idle
<1>4. CASE call[th] \in EdgeCall
  <2>1. CASE call[th] \in [at : {"put_edge_read"}, id : EdgeIds, val : Edge, reshapes : BOOLEAN]
    BY <2>1 DEF Idle
  <2>2. CASE call[th] \in [at : {"put_edge_write"}, id : EdgeIds, val : Edge, reshapes : BOOLEAN,
                          old : Edge \cup {Absent}]
    BY <2>2 DEF Idle
  <2>3. CASE call[th] \in [at : {"delete_edge_write"}, id : EdgeIds, old : Edge]
    BY <2>3 DEF Idle
  <2> QED
    BY <1>4, <2>1, <2>2, <2>3 DEF EdgeCall
<1>5. CASE call[th] \in DeleteNodeCall
  <2>1. CASE call[th] \in [at : {"delete_node_out"}, id : NodeIds, old : SUBSET Labels]
    BY <2>1 DEF Idle
  <2>2. CASE call[th] \in [at : {"delete_node_in", "delete_node_edge"}, id : NodeIds,
                          old : SUBSET Labels,
                          todo : SUBSET EdgeIds]
    BY <2>2 DEF Idle
  <2>3. CASE call[th] \in [at : {"delete_node_edge_write"}, id : NodeIds,
                          old : SUBSET Labels,
                          todo : SUBSET EdgeIds, edge : EdgeIds, val : Edge]
    BY <2>3 DEF Idle
  <2> QED
    BY <1>5, <2>1, <2>2, <2>3 DEF DeleteNodeCall
<1>6. CASE call[th] \in DeleteGraphCall
  BY <1>6 DEF DeleteGraphCall, Idle
<1> QED
  BY <1>1, <1>2, <1>3, <1>4, <1>5, <1>6 DEF Call

(* The kinds of step Next can take, once for all case splits.              *)
LEMMA NextCases ==
    ASSUME [Next]_vars
    PROVE  \/ \E th \in Threads, n \in NodeIds :
                 \/ \E labels \in SUBSET Labels : put_node(th, n, labels)
                 \/ delete_node(th, n)
           \/ \E th \in Threads, e \in EdgeIds :
                 \/ \E v \in Edge : put_edge(th, e, v)
                 \/ delete_edge(th, e)
                 \/ delete_node_edge(th, e)
           \/ \E th \in Threads :
                 \/ put_node_read(th) \/ put_node_write(th)
                 \/ put_edge_read(th) \/ put_edge_write(th)
                 \/ delete_edge_write(th)
                 \/ delete_node_out(th) \/ delete_node_in(th)
                 \/ delete_node_edge_write(th) \/ delete_node_write(th)
                 \/ delete_graph(th) \/ delete_graph_cf(th)
           \/ UNCHANGED vars
  BY DEF Next

(* Entering a call, going on in it and returning keep the calls and the    *)
(* overlap flags in their types.                                           *)
LEMMA CallType ==
    ASSUME TypeOK, NEW th \in Threads, NEW c \in Call,
           Enter(th, c) \/ Goto(th, c)
    PROVE  call' \in [Threads -> Call] /\ races' \in BOOLEAN \X BOOLEAN \X BOOLEAN
  BY DEF TypeOK, Enter, Goto, Overlaps

(* The ids of a node's edges are edge ids.                                 *)
LEMMA ConnectedType ==
    ASSUME TypeOK, NEW n \in NodeIds
    PROVE  OutgoingIds(n) \in SUBSET EdgeIds /\ IncomingIds(n) \in SUBSET EdgeIds
  BY DEF TypeOK, OutgoingIds, IncomingIds

(* An edge record has its three parts, and its index keys are in range.    *)
LEMMA KeyTypes ==
    ASSUME NEW e \in EdgeIds, NEW v \in Edge
    PROVE  /\ OutKey(e, v) \in NodeIds \X EdgeLabels \X EdgeIds
           /\ InKey(e, v) \in NodeIds \X EdgeLabels \X EdgeIds
           /\ LabelKey(e, v) \in EdgeLabels \X EdgeIds
  BY DEF Edge, OutKey, InKey, LabelKey

(* Every step keeps the variables in their types.                          *)
LEMMA TypeStep ==
    ASSUME TypeOK, [Next]_vars
    PROVE  TypeOK'
<1> USE DEF At
<1>1. ASSUME NEW th \in Threads, NEW n \in NodeIds, NEW labels \in SUBSET Labels,
             put_node(th, n, labels)
      PROVE  TypeOK'
  <2> DEFINE c == [at |-> "put_node_read", id |-> n, val |-> labels,
                   reshapes |-> nodes[n] # Absent /\ labels # nodes[n]]
  <2>1. c \in Call
    BY DEF Call, NodeCall
  <2>2. Enter(th, c) /\ UNCHANGED tables /\ used' = used \cup {n}
    BY <1>1 DEF put_node
  <2> HIDE DEF c
  <2> QED
    BY <2>1, <2>2, CallType DEF TypeOK
<1>2. ASSUME NEW th \in Threads, NEW n \in NodeIds, delete_node(th, n)
      PROVE  TypeOK'
  <2> DEFINE c == [at |-> "delete_node_out", id |-> n, old |-> nodes[n]]
  <2>0. nodes[n] \in SUBSET Labels
    BY <1>2 DEF TypeOK, delete_node
  <2>1. c \in Call
    BY <2>0 DEF Call, DeleteNodeCall
  <2>2. Enter(th, c) /\ UNCHANGED <<tables, used>>
    BY <1>2 DEF delete_node
  <2> HIDE DEF c
  <2> QED
    BY <2>1, <2>2, CallType DEF TypeOK
<1>3. ASSUME NEW th \in Threads, NEW e \in EdgeIds, NEW v \in Edge, put_edge(th, e, v)
      PROVE  TypeOK'
  <2> DEFINE c == [at |-> "put_edge_read", id |-> e, val |-> v,
                   reshapes |-> edges[e] # Absent /\ v # edges[e]]
  <2>1. c \in Call
    BY DEF Call, EdgeCall
  <2>2. Enter(th, c) /\ UNCHANGED tables /\ used' = used \cup {e}
    BY <1>3 DEF put_edge
  <2> HIDE DEF c
  <2> QED
    BY <2>1, <2>2, CallType DEF TypeOK
<1>4. ASSUME NEW th \in Threads, NEW e \in EdgeIds, delete_edge(th, e)
      PROVE  TypeOK'
  <2> DEFINE c == [at |-> "delete_edge_write", id |-> e, old |-> edges[e]]
  <2>1. c \in Call
    BY <1>4 DEF Call, EdgeCall, TypeOK, delete_edge
  <2>2. Enter(th, c) /\ UNCHANGED <<tables, used>>
    BY <1>4 DEF delete_edge
  <2> HIDE DEF c
  <2> QED
    BY <2>1, <2>2, CallType DEF TypeOK
<1>5. ASSUME NEW th \in Threads, NEW e \in EdgeIds, delete_node_edge(th, e)
      PROVE  TypeOK'
  <2>1. /\ call[th].id \in NodeIds /\ call[th].old \in SUBSET Labels
        /\ call[th].todo \in SUBSET EdgeIds
    BY <1>5, CallFields DEF delete_node_edge
  <2>2. PICK c \in Call : Goto(th, c)
    <3>1. Idle \in Call
      BY DEF Call
    <3>2. CASE edges[e] # Absent
      <4> DEFINE c == [at |-> "delete_node_edge_write", id |-> call[th].id,
                       old |-> call[th].old, todo |-> call[th].todo \ {e},
                       edge |-> e, val |-> edges[e]]
      <4>1. edges[e] \in Edge
        BY <3>2 DEF TypeOK
      <4>2. c \in Call
        BY <2>1, <4>1 DEF Call, DeleteNodeCall
      <4>3. Goto(th, c)
        BY <1>5, <3>2 DEF delete_node_edge
      <4> QED
        BY <4>2, <4>3
    <3>3. CASE edges[e] = Absent
      BY <1>5, <3>1, <3>3 DEF delete_node_edge, Return
    <3> QED
      BY <3>2, <3>3
  <2>3. UNCHANGED <<tables, used>>
    BY <1>5 DEF delete_node_edge
  <2> QED
    BY <2>2, <2>3, CallType DEF TypeOK
<1>6. ASSUME NEW th \in Threads, put_node_read(th)
      PROVE  TypeOK'
  <2> DEFINE c == [at |-> "put_node_write", id |-> call[th].id, val |-> call[th].val,
                   reshapes |-> call[th].reshapes,
                   old |-> IF nodes[call[th].id] = Absent THEN {} ELSE nodes[call[th].id]]
  <2>1. /\ call[th].id \in NodeIds /\ call[th].val \in SUBSET Labels
        /\ call[th].reshapes \in BOOLEAN
    BY <1>6, CallFields DEF put_node_read
  <2>2. c.old \in SUBSET Labels
    BY <2>1 DEF TypeOK
  <2>3. c \in Call
    BY <2>1, <2>2 DEF Call, NodeCall
  <2>4. Goto(th, c) /\ UNCHANGED <<tables, used>>
    BY <1>6 DEF put_node_read
  <2> HIDE DEF c
  <2> QED
    BY <2>3, <2>4, CallType DEF TypeOK
<1>7. ASSUME NEW th \in Threads, put_node_write(th)
      PROVE  TypeOK'
  <2>1. /\ call[th].id \in NodeIds /\ call[th].val \in SUBSET Labels
        /\ call[th].old \in SUBSET Labels
    BY <1>7, CallFields DEF put_node_write
  <2>2. Goto(th, Idle) /\ Idle \in Call
    BY <1>7 DEF put_node_write, Return, Call
  <2>3. nodes' \in [NodeIds -> (SUBSET Labels) \cup {Absent}]
    BY <1>7, <2>1 DEF TypeOK, put_node_write
  <2>4. node_labels' \subseteq Labels \X NodeIds
    BY <1>7, <2>1 DEF TypeOK, put_node_write, LabelBatch
  <2>5. UNCHANGED <<edges, adj_out, adj_in, edge_labels, used>>
    BY <1>7 DEF put_node_write
  <2> QED
    BY <2>2, <2>3, <2>4, <2>5, CallType DEF TypeOK
<1>8. ASSUME NEW th \in Threads, put_edge_read(th)
      PROVE  TypeOK'
  <2> DEFINE c == [at |-> "put_edge_write", id |-> call[th].id, val |-> call[th].val,
                   reshapes |-> call[th].reshapes, old |-> edges[call[th].id]]
  <2>1. /\ call[th].id \in EdgeIds /\ call[th].val \in Edge
        /\ call[th].reshapes \in BOOLEAN
    BY <1>8, CallFields DEF put_edge_read
  <2>2. edges[call[th].id] \in Edge \cup {Absent}
    BY <2>1 DEF TypeOK
  <2>3. c \in Call
    BY <2>1, <2>2 DEF Call, EdgeCall
  <2>4. Goto(th, c) /\ UNCHANGED <<tables, used>>
    BY <1>8 DEF put_edge_read
  <2> HIDE DEF c
  <2> QED
    BY <2>3, <2>4, CallType DEF TypeOK
<1>9. ASSUME NEW th \in Threads, put_edge_write(th)
      PROVE  TypeOK'
  <2>1. call[th].id \in EdgeIds /\ call[th].val \in Edge
    BY <1>9, CallFields DEF put_edge_write
  <2>2. Goto(th, Idle) /\ Idle \in Call
    BY <1>9 DEF put_edge_write, Return, Call
  <2>3. edges' \in [EdgeIds -> Edge \cup {Absent}]
    BY <1>9, <2>1 DEF TypeOK, put_edge_write
  <2>4. /\ adj_out' \subseteq adj_out \cup {OutKey(call[th].id, call[th].val)}
        /\ adj_in' \subseteq adj_in \cup {InKey(call[th].id, call[th].val)}
        /\ edge_labels' \subseteq edge_labels \cup {LabelKey(call[th].id, call[th].val)}
    BY <1>9 DEF put_edge_write
  <2>5. UNCHANGED <<nodes, node_labels, used>>
    BY <1>9 DEF put_edge_write
  <2>6. /\ adj_out' \subseteq NodeIds \X EdgeLabels \X EdgeIds
        /\ adj_in' \subseteq NodeIds \X EdgeLabels \X EdgeIds
        /\ edge_labels' \subseteq EdgeLabels \X EdgeIds
    BY <2>1, <2>4, KeyTypes DEF TypeOK
  <2> QED
    BY <2>2, <2>3, <2>5, <2>6, CallType DEF TypeOK
<1>10. ASSUME NEW th \in Threads, delete_edge_write(th)
       PROVE  TypeOK'
  <2>1. call[th].id \in EdgeIds
    BY <1>10, CallFields DEF delete_edge_write
  <2>2. Goto(th, Idle) /\ Idle \in Call
    BY <1>10 DEF delete_edge_write, Return, Call
  <2> QED
    BY <1>10, <2>1, <2>2, CallType DEF TypeOK, delete_edge_write, DeleteEdgeBatch
<1>11. ASSUME NEW th \in Threads, delete_node_out(th)
       PROVE  TypeOK'
  <2> DEFINE c == [at |-> "delete_node_in", id |-> call[th].id, old |-> call[th].old,
                   todo |-> OutgoingIds(call[th].id)]
  <2>1. call[th].id \in NodeIds /\ call[th].old \in SUBSET Labels
    BY <1>11, CallFields DEF delete_node_out
  <2>2. c \in Call /\ Idle \in Call
    BY <2>1, ConnectedType DEF Call, DeleteNodeCall
  <2>3. Goto(th, c) \/ Goto(th, Idle)
    BY <1>11 DEF delete_node_out, Return
  <2>4. UNCHANGED <<tables, used>>
    BY <1>11 DEF delete_node_out
  <2> HIDE DEF c
  <2> QED
    BY <2>2, <2>3, <2>4, CallType DEF TypeOK
<1>12. ASSUME NEW th \in Threads, delete_node_in(th)
       PROVE  TypeOK'
  <2> DEFINE c == [at |-> "delete_node_edge", id |-> call[th].id, old |-> call[th].old,
                   todo |-> ConnectedIds(call[th].id, call[th].todo)]
  <2>1. /\ call[th].id \in NodeIds /\ call[th].old \in SUBSET Labels
        /\ call[th].todo \in SUBSET EdgeIds
    BY <1>12, CallFields DEF delete_node_in
  <2>2. ConnectedIds(call[th].id, call[th].todo) \in SUBSET EdgeIds
    BY <2>1, ConnectedType DEF ConnectedIds
  <2>3. c \in Call /\ Idle \in Call
    BY <2>1, <2>2 DEF Call, DeleteNodeCall
  <2>4. Goto(th, c) \/ Goto(th, Idle)
    BY <1>12 DEF delete_node_in, Return
  <2>5. UNCHANGED <<tables, used>>
    BY <1>12 DEF delete_node_in
  <2> HIDE DEF c
  <2> QED
    BY <2>3, <2>4, <2>5, CallType DEF TypeOK
<1>13. ASSUME NEW th \in Threads, delete_node_edge_write(th)
       PROVE  TypeOK'
  <2> DEFINE c == [at |-> "delete_node_edge", id |-> call[th].id, old |-> call[th].old,
                   todo |-> call[th].todo]
  <2>1. /\ call[th].id \in NodeIds /\ call[th].old \in SUBSET Labels
        /\ call[th].todo \in SUBSET EdgeIds /\ call[th].edge \in EdgeIds
    BY <1>13, CallFields DEF delete_node_edge_write
  <2>2. c \in Call
    BY <2>1 DEF Call, DeleteNodeCall
  <2>3. Goto(th, c)
    BY <1>13 DEF delete_node_edge_write
  <2> HIDE DEF c
  <2> QED
    BY <1>13, <2>1, <2>2, <2>3, CallType DEF TypeOK, delete_node_edge_write, DeleteEdgeBatch
<1>14. ASSUME NEW th \in Threads, delete_node_write(th)
       PROVE  TypeOK'
  <2>1. call[th].id \in NodeIds
    BY <1>14, CallFields DEF delete_node_write
  <2>2. Goto(th, Idle) /\ Idle \in Call
    BY <1>14 DEF delete_node_write, Return, Call
  <2> QED
    BY <1>14, <2>1, <2>2, CallType DEF TypeOK, delete_node_write
<1>15. ASSUME NEW th \in Threads, delete_graph(th)
       PROVE  TypeOK'
  <2>1. [at |-> "delete_graph", cf |-> 1] \in Call
    BY DEF Call, DeleteGraphCall, DATA_CFS
  <2>2. call' \in [Threads -> Call] /\ races' \in BOOLEAN \X BOOLEAN \X BOOLEAN
    BY <1>15, <2>1, CallType DEF delete_graph
  <2>3. UNCHANGED <<tables, used>>
    BY <1>15 DEF delete_graph
  <2> QED
    BY <2>2, <2>3 DEF TypeOK
<1>16. ASSUME NEW th \in Threads, delete_graph_cf(th)
       PROVE  TypeOK'
  <2> DEFINE c == [at |-> "delete_graph", cf |-> call[th].cf + 1]
  <2>1. call[th].cf \in 1 .. DATA_CFS
    BY <1>16, CallFields DEF delete_graph_cf
  <2>2. \/ c \in Call /\ Goto(th, c)
        \/ Idle \in Call /\ Goto(th, Idle)
    BY <1>16, <2>1 DEF delete_graph_cf, LastCf, Return, Call, DeleteGraphCall, DATA_CFS
  <2>3. call' \in [Threads -> Call] /\ races' \in BOOLEAN \X BOOLEAN \X BOOLEAN
    <3> HIDE DEF c
    <3> QED
      BY <2>2, CallType
  <2>4. /\ nodes' \in {nodes, [n \in NodeIds |-> Absent]}
        /\ edges' \in {edges, [e \in EdgeIds |-> Absent]}
        /\ adj_out' \subseteq adj_out /\ adj_in' \subseteq adj_in
        /\ node_labels' \subseteq node_labels /\ edge_labels' \subseteq edge_labels
        /\ used' = used
    BY <1>16 DEF delete_graph_cf
  <2> QED
    BY <2>3, <2>4 DEF TypeOK
<1>17. CASE UNCHANGED vars
  BY <1>17 DEF TypeOK, vars
<1> QED
  BY <1>1, <1>2, <1>3, <1>4, <1>5, <1>6, <1>7, <1>8, <1>9, <1>10, <1>11, <1>12,
     <1>13, <1>14, <1>15, <1>16, <1>17, NextCases

(* TypeOK holds in every reachable state: whatever calls of whatever       *)
(* threads interleave, records, index keys and calls stay well formed.     *)
THEOREM TypeCorrect == Spec => []TypeOK
<1>1. Init => TypeOK
  <2>1. Idle \in Call
    BY DEF Call
  <2> QED
    BY <2>1 DEF Init, TypeOK
<1>2. TypeOK /\ [Next]_vars => TypeOK'
  BY TypeStep
<1> QED
  BY <1>1, <1>2, PTL DEF Spec

--------------------------------------------------------------------------------
(* A delete_graph that has overlapped with no other call is alone, and the *)
(* records are gone before the first batch that empties an index.          *)
DropAlone ==
    ~dropRace => \A th \in Threads : At(th, "delete_graph") =>
        /\ \A o \in Threads \ {th} : call[o] = Idle
        /\ call[th].cf > 1 => \A n \in NodeIds : nodes[n] = Absent
        /\ call[th].cf > 2 => \A e \in EdgeIds : edges[e] = Absent

IndexInv == TypeOK /\ DropAlone /\ IndexComplete

(* Entering a call while another drops the graph, or dropping it while     *)
(* another call is in progress, is recorded in dropRace.                   *)
LEMMA EnterAlone ==
    ASSUME IndexInv, NEW th \in Threads, NEW c \in Call, Enter(th, c),
           c.at = "delete_graph" => c.cf = 1, UNCHANGED tables
    PROVE  DropAlone' /\ IndexComplete'
<1>1. IndexComplete'
  <2>1. ~dropRace' => ~dropRace
    BY DEF Enter, Overlaps
  <2>2. (NodesIndexed /\ EdgesIndexed) => (NodesIndexed /\ EdgesIndexed)'
    BY DEF NodesIndexed, EdgesIndexed, OutKey, InKey, LabelKey
  <2> QED
    BY <2>1, <2>2 DEF IndexInv, IndexComplete
<1>2. SUFFICES ASSUME ~dropRace', NEW t \in Threads, At(t, "delete_graph")'
               PROVE  /\ \A o \in Threads \ {t} : call'[o] = Idle
                      /\ call'[t].cf = 1
  BY <1>1 DEF DropAlone, At
<1>3. /\ call' = [call EXCEPT ![th] = c]
      /\ call \in [Threads -> Call]
  BY DEF Enter, IndexInv, TypeOK
<1>4. \A o \in Threads \ {th} : call[o] # Idle => ~Drops(call[o]) /\ ~Drops(c)
  BY <1>2 DEF Enter, Overlaps
<1>5. t = th
  <2>1. SUFFICES ASSUME t # th PROVE FALSE
    OBVIOUS
  <2>2. call[t].at = "delete_graph"
    BY <1>2, <1>3, <2>1 DEF At
  <2> QED
    BY <1>4, <2>1, <2>2 DEF Drops, Idle
<1>6. c.at = "delete_graph"
  BY <1>2, <1>3, <1>5 DEF At
<1> QED
  BY <1>3, <1>4, <1>5, <1>6 DEF Drops

(* A thread inside another call goes on only while nobody drops the graph, *)
(* unless dropRace is set.                                                 *)
LEMMA GoAlone ==
    ASSUME IndexInv, NEW th \in Threads, NEW c, Goto(th, c),
           call[th].at \notin {"idle", "delete_graph"}, c.at # "delete_graph"
    PROVE  DropAlone'
<1>1. SUFFICES ASSUME ~dropRace', NEW t \in Threads, At(t, "delete_graph")'
               PROVE  FALSE
  BY DEF DropAlone
<1>2. call' = [call EXCEPT ![th] = c] /\ call \in [Threads -> Call] /\ ~dropRace
  BY <1>1 DEF Goto, IndexInv, TypeOK
<1>3. t # th /\ At(t, "delete_graph")
  BY <1>1, <1>2 DEF At
<1>4. call[th] = Idle
  BY <1>2, <1>3 DEF IndexInv, DropAlone
<1> QED
  BY <1>4 DEF Idle

(* The keys of different edges differ, so a batch that removes keys of one *)
(* edge leaves the others indexed.                                         *)
LEMMA OtherKeys ==
    ASSUME NEW e, NEW f, e # f, NEW v, NEW w
    PROVE  /\ OutKey(e, v) # OutKey(f, w)
           /\ InKey(e, v) # InKey(f, w)
           /\ LabelKey(e, v) # LabelKey(f, w)
  BY DEF OutKey, InKey, LabelKey

(* The batch of delete_edge keeps every stored record indexed, whatever    *)
(* record it was built from.                                               *)
LEMMA DeleteEdgeIndexed ==
    ASSUME TypeOK, NEW e \in EdgeIds, NEW v, DeleteEdgeBatch(e, v),
           EdgesIndexed
    PROVE  (NodesIndexed => NodesIndexed') /\ EdgesIndexed'
<1>1. NodesIndexed => NodesIndexed'
  BY DEF DeleteEdgeBatch, NodesIndexed
<1>2. ASSUME NEW f \in EdgeIds, edges'[f] # Absent
      PROVE  f # e /\ edges'[f] = edges[f]
  BY <1>2 DEF DeleteEdgeBatch, TypeOK
<1>3. ASSUME NEW f \in EdgeIds, edges'[f] # Absent
      PROVE  /\ OutKey(f, edges'[f]) \in adj_out'
             /\ InKey(f, edges'[f]) \in adj_in'
             /\ LabelKey(f, edges'[f]) \in edge_labels'
  <2>1. f # e /\ edges'[f] = edges[f]
    BY <1>2, <1>3
  <2>2. /\ OutKey(f, edges[f]) \in adj_out
        /\ InKey(f, edges[f]) \in adj_in
        /\ LabelKey(f, edges[f]) \in edge_labels
    BY <1>3, <2>1 DEF EdgesIndexed
  <2>3. /\ OutKey(f, edges[f]) # OutKey(e, v)
        /\ InKey(f, edges[f]) # InKey(e, v)
        /\ LabelKey(f, edges[f]) # LabelKey(e, v)
    BY <2>1, OtherKeys
  <2> QED
    BY <2>1, <2>2, <2>3 DEF DeleteEdgeBatch
<1> QED
  BY <1>1, <1>3 DEF EdgesIndexed, OutKey, InKey, LabelKey

(* The batch of put_node: the node is stored under all its labels, and the *)
(* keys it removes are of the same node and of labels it no longer has.    *)
LEMMA PutNodeIndexed ==
    ASSUME TypeOK, NEW th \in Threads, put_node_write(th), NodesIndexed, EdgesIndexed
    PROVE  NodesIndexed' /\ EdgesIndexed'
<1>1. EdgesIndexed'
  BY DEF put_node_write, EdgesIndexed, OutKey, InKey, LabelKey
<1>2. SUFFICES ASSUME NEW n \in NodeIds, nodes'[n] # Absent, NEW l \in nodes'[n]
               PROVE  <<l, n>> \in node_labels'
  BY <1>1 DEF NodesIndexed
<1> DEFINE c == call[th]
<1>3. /\ c.id \in NodeIds
      /\ nodes' = [nodes EXCEPT ![c.id] = c.val]
      /\ node_labels' = LabelBatch(c.id, c.old, c.val)
  BY CallFields DEF put_node_write, At
<1> HIDE DEF c
<1>4. CASE n = c.id
  BY <1>2, <1>3, <1>4 DEF TypeOK, LabelBatch
<1>5. CASE n # c.id
  <2>1. nodes'[n] = nodes[n]
    BY <1>3, <1>5 DEF TypeOK
  <2>2. <<l, n>> \in node_labels
    BY <1>2, <2>1 DEF NodesIndexed
  <2> QED
    BY <1>3, <1>5, <2>2 DEF LabelBatch
<1> QED
  BY <1>4, <1>5

(* The batch of put_edge: the keys of the new record are put after those   *)
(* of the record that was read, possibly long before, are deleted.         *)
LEMMA PutEdgeIndexed ==
    ASSUME TypeOK, NEW th \in Threads, put_edge_write(th), EdgesIndexed
    PROVE  (NodesIndexed => NodesIndexed') /\ EdgesIndexed'
<1>1. NodesIndexed => NodesIndexed'
  BY DEF put_edge_write, NodesIndexed
<1> DEFINE c == call[th]
<1>2. /\ c.id \in EdgeIds
      /\ edges' = [edges EXCEPT ![c.id] = c.val]
  BY CallFields DEF put_edge_write, At
<1>3. /\ adj_out \ {OutKey(c.id, c.old)} \subseteq adj_out'
      /\ adj_in \ {InKey(c.id, c.old)} \subseteq adj_in'
      /\ edge_labels \ {LabelKey(c.id, c.old)} \subseteq edge_labels'
  BY DEF put_edge_write
<1>4. /\ OutKey(c.id, c.val) \in adj_out'
      /\ InKey(c.id, c.val) \in adj_in'
      /\ LabelKey(c.id, c.val) \in edge_labels'
  BY DEF put_edge_write
<1> HIDE DEF c
<1>5. ASSUME NEW f \in EdgeIds, edges'[f] # Absent
      PROVE  /\ OutKey(f, edges'[f]) \in adj_out'
             /\ InKey(f, edges'[f]) \in adj_in'
             /\ LabelKey(f, edges'[f]) \in edge_labels'
  <2>1. CASE f = c.id
    <3>1. edges'[f] = c.val
      BY <1>2, <2>1 DEF TypeOK
    <3> QED
      BY <1>4, <2>1, <3>1
  <2>2. CASE f # c.id
    <3>1. edges'[f] = edges[f]
      BY <1>2, <2>2 DEF TypeOK
    <3>2. /\ OutKey(f, edges[f]) \in adj_out
          /\ InKey(f, edges[f]) \in adj_in
          /\ LabelKey(f, edges[f]) \in edge_labels
      BY <1>5, <3>1 DEF EdgesIndexed
    <3>3. /\ OutKey(f, edges[f]) # OutKey(c.id, c.old)
          /\ InKey(f, edges[f]) # InKey(c.id, c.old)
          /\ LabelKey(f, edges[f]) # LabelKey(c.id, c.old)
      BY <2>2, OtherKeys
    <3> QED
      BY <1>3, <3>1, <3>2, <3>3
  <2> QED
    BY <2>1, <2>2
<1> QED
  BY <1>1, <1>5 DEF EdgesIndexed, OutKey, InKey, LabelKey

(* The last batch of delete_node removes the node with its label keys.     *)
LEMMA DeleteNodeIndexed ==
    ASSUME TypeOK, NEW th \in Threads, delete_node_write(th), NodesIndexed, EdgesIndexed
    PROVE  NodesIndexed' /\ EdgesIndexed'
<1>1. EdgesIndexed'
  BY DEF delete_node_write, EdgesIndexed, OutKey, InKey, LabelKey
<1> DEFINE c == call[th]
<1>2. /\ c.id \in NodeIds
      /\ nodes' = [nodes EXCEPT ![c.id] = Absent]
      /\ node_labels' = node_labels \ {<<l, c.id>> : l \in c.old}
  BY CallFields DEF delete_node_write, At
<1> HIDE DEF c
<1>3. SUFFICES ASSUME NEW n \in NodeIds, nodes'[n] # Absent, NEW l \in nodes'[n]
               PROVE  <<l, n>> \in node_labels'
  BY <1>1 DEF NodesIndexed
<1>4. n # c.id /\ nodes'[n] = nodes[n]
  BY <1>2, <1>3 DEF TypeOK
<1>5. <<l, n>> \in node_labels
  BY <1>3, <1>4 DEF NodesIndexed
<1> QED
  BY <1>2, <1>4, <1>5

(* A batch of delete_graph that runs alone.                                *)
LEMMA DropIndexed ==
    ASSUME IndexInv, NEW th \in Threads, delete_graph_cf(th)
    PROVE  DropAlone' /\ IndexComplete'
<1>1. dropRace' = dropRace
  BY DEF delete_graph_cf, Goto, Return
<1>2. SUFFICES ASSUME ~dropRace
               PROVE  DropAlone' /\ NodesIndexed' /\ EdgesIndexed'
  BY <1>1 DEF DropAlone, IndexComplete
<1> DEFINE cf == call[th].cf
<1>3. cf \in 1 .. 6
  BY CallFields DEF IndexInv, delete_graph_cf, At, DATA_CFS
<1>4. /\ \A o \in Threads \ {th} : call[o] = Idle
      /\ cf > 1 => \A n \in NodeIds : nodes[n] = Absent
      /\ cf > 2 => \A e \in EdgeIds : edges[e] = Absent
  BY <1>2 DEF IndexInv, DropAlone, delete_graph_cf
<1>5. /\ nodes' = IF cf = 1 THEN [n \in NodeIds |-> Absent] ELSE nodes
      /\ edges' = IF cf = 2 THEN [e \in EdgeIds |-> Absent] ELSE edges
      /\ adj_out' = IF cf = 3 THEN {} ELSE adj_out
      /\ adj_in' = IF cf = 4 THEN {} ELSE adj_in
      /\ edge_labels' = IF cf = 6 THEN {} ELSE edge_labels
  BY DEF delete_graph_cf
<1>6. call' = [call EXCEPT ![th] = [at |-> "delete_graph", cf |-> cf + 1]]
      \/ call' = [call EXCEPT ![th] = Idle]
  BY DEF delete_graph_cf, Goto, Return
<1> HIDE DEF cf
<1>7. \A n \in NodeIds : nodes'[n] = Absent
  BY <1>3, <1>4, <1>5
<1>8. cf > 1 => \A e \in EdgeIds : edges'[e] = Absent
  BY <1>3, <1>4, <1>5
<1>9. NodesIndexed'
  BY <1>7 DEF NodesIndexed
<1>10. EdgesIndexed'
  <2>1. CASE cf = 1
    BY <1>2, <1>5, <2>1
       DEF IndexInv, IndexComplete, EdgesIndexed, OutKey, InKey, LabelKey
  <2>2. CASE cf > 1
    BY <1>8, <2>2 DEF EdgesIndexed
  <2> QED
    BY <1>3, <2>1, <2>2
<1>11. DropAlone'
  <2>1. SUFFICES ASSUME NEW t \in Threads, At(t, "delete_graph")'
                 PROVE  /\ \A o \in Threads \ {t} : call'[o] = Idle
                        /\ call'[t].cf > 1 => \A n \in NodeIds : nodes'[n] = Absent
                        /\ call'[t].cf > 2 => \A e \in EdgeIds : edges'[e] = Absent
    BY DEF DropAlone
  <2>2. call \in [Threads -> Call]
    BY DEF IndexInv, TypeOK
  <2>3. t = th /\ call'[t].cf = cf + 1
    BY <1>4, <1>6, <2>1, <2>2 DEF At, Idle
  <2>4. \A o \in Threads \ {t} : call'[o] = Idle
    BY <1>4, <1>6, <2>2, <2>3
  <2>5. cf + 1 > 2 => cf > 1
    BY <1>3
  <2> QED
    BY <1>7, <1>8, <2>3, <2>4, <2>5
<1> QED
  BY <1>9, <1>10, <1>11

(* Every step preserves the inductive invariant.                           *)
LEMMA IndexStep ==
    ASSUME IndexInv, [Next]_vars
    PROVE  IndexInv'
<1> USE DEF At
<1>t. TypeOK /\ TypeOK'
  BY TypeStep DEF IndexInv
<1>s. SUFFICES DropAlone' /\ IndexComplete'
  BY <1>t DEF IndexInv
<1>u. ASSUME UNCHANGED tables, UNCHANGED races
      PROVE  IndexComplete'
  BY <1>u DEF IndexInv, IndexComplete, NodesIndexed, EdgesIndexed,
              OutKey, InKey, LabelKey
<1>1. ASSUME NEW th \in Threads, NEW n \in NodeIds, NEW labels \in SUBSET Labels,
             put_node(th, n, labels)
      PROVE  DropAlone' /\ IndexComplete'
  <2> DEFINE c == [at |-> "put_node_read", id |-> n, val |-> labels,
                   reshapes |-> nodes[n] # Absent /\ labels # nodes[n]]
  <2>1. c \in Call /\ c.at # "delete_graph"
    BY DEF Call, NodeCall
  <2>2. Enter(th, c) /\ UNCHANGED tables
    BY <1>1 DEF put_node
  <2> HIDE DEF c
  <2> QED
    BY <2>1, <2>2, EnterAlone
<1>2. ASSUME NEW th \in Threads, NEW n \in NodeIds, delete_node(th, n)
      PROVE  DropAlone' /\ IndexComplete'
  <2> DEFINE c == [at |-> "delete_node_out", id |-> n, old |-> nodes[n]]
  <2>1. nodes[n] \in SUBSET Labels
    BY <1>2, <1>t DEF TypeOK, delete_node
  <2>2. c \in Call /\ c.at # "delete_graph"
    BY <2>1 DEF Call, DeleteNodeCall
  <2>3. Enter(th, c) /\ UNCHANGED tables
    BY <1>2 DEF delete_node
  <2> HIDE DEF c
  <2> QED
    BY <2>2, <2>3, EnterAlone
<1>3. ASSUME NEW th \in Threads, NEW e \in EdgeIds, NEW v \in Edge, put_edge(th, e, v)
      PROVE  DropAlone' /\ IndexComplete'
  <2> DEFINE c == [at |-> "put_edge_read", id |-> e, val |-> v,
                   reshapes |-> edges[e] # Absent /\ v # edges[e]]
  <2>1. c \in Call /\ c.at # "delete_graph"
    BY DEF Call, EdgeCall
  <2>2. Enter(th, c) /\ UNCHANGED tables
    BY <1>3 DEF put_edge
  <2> HIDE DEF c
  <2> QED
    BY <2>1, <2>2, EnterAlone
<1>4. ASSUME NEW th \in Threads, NEW e \in EdgeIds, delete_edge(th, e)
      PROVE  DropAlone' /\ IndexComplete'
  <2> DEFINE c == [at |-> "delete_edge_write", id |-> e, old |-> edges[e]]
  <2>1. edges[e] \in Edge
    BY <1>4, <1>t DEF TypeOK, delete_edge
  <2>2. c \in Call /\ c.at # "delete_graph"
    BY <2>1 DEF Call, EdgeCall
  <2>3. Enter(th, c) /\ UNCHANGED tables
    BY <1>4 DEF delete_edge
  <2> HIDE DEF c
  <2> QED
    BY <2>2, <2>3, EnterAlone
<1>5. ASSUME NEW th \in Threads,
             \/ put_node_read(th) \/ put_edge_read(th)
             \/ delete_node_out(th) \/ delete_node_in(th)
             \/ \E e \in EdgeIds : delete_node_edge(th, e)
      PROVE  DropAlone' /\ IndexComplete'
  <2>1. call[th].at \notin {"idle", "delete_graph"}
    BY <1>5 DEF put_node_read, put_edge_read, delete_node_out, delete_node_in,
                delete_node_edge
  <2>2. \E c : c.at # "delete_graph" /\ Goto(th, c)
    <3>1. Idle.at # "delete_graph"
      BY DEF Idle
    <3>2. CASE put_node_read(th)
      BY <3>2 DEF put_node_read
    <3>3. CASE put_edge_read(th)
      BY <3>3 DEF put_edge_read
    <3>4. CASE delete_node_out(th)
      BY <3>1, <3>4 DEF delete_node_out, Return
    <3>5. CASE delete_node_in(th)
      BY <3>1, <3>5 DEF delete_node_in, Return
    <3>6. CASE \E e \in EdgeIds : delete_node_edge(th, e)
      BY <3>1, <3>6 DEF delete_node_edge, Return
    <3> QED
      BY <1>5, <3>2, <3>3, <3>4, <3>5, <3>6
  <2>3. UNCHANGED tables
    BY <1>5 DEF put_node_read, put_edge_read, delete_node_out, delete_node_in,
                delete_node_edge
  <2>4. UNCHANGED races
    BY <2>2 DEF Goto
  <2> QED
    BY <1>u, <2>1, <2>2, <2>3, <2>4, GoAlone
<1>6. ASSUME NEW th \in Threads,
             \/ put_node_write(th) \/ put_edge_write(th) \/ delete_edge_write(th)
             \/ delete_node_edge_write(th) \/ delete_node_write(th)
      PROVE  DropAlone' /\ IndexComplete'
  <2>1. call[th].at \notin {"idle", "delete_graph"}
    BY <1>6 DEF put_node_write, put_edge_write, delete_edge_write,
                delete_node_edge_write, delete_node_write
  <2>2. \E c : c.at # "delete_graph" /\ Goto(th, c)
    <3>1. Idle.at # "delete_graph"
      BY DEF Idle
    <3>2. CASE delete_node_edge_write(th)
      BY <3>2 DEF delete_node_edge_write
    <3> QED
      BY <1>6, <3>1, <3>2 DEF put_node_write, put_edge_write, delete_edge_write,
                              delete_node_write, Return
  <2>3. dropRace' = dropRace
    BY <2>2 DEF Goto
  <2>4. NodesIndexed /\ EdgesIndexed => NodesIndexed' /\ EdgesIndexed'
    <3>1. CASE delete_edge_write(th)
      <4>1. DeleteEdgeBatch(call[th].id, call[th].old) /\ call[th].id \in EdgeIds
        BY <1>t, <3>1, CallFields DEF delete_edge_write
      <4> QED
        BY <1>t, <4>1, DeleteEdgeIndexed
    <3>2. CASE delete_node_edge_write(th)
      <4>1. DeleteEdgeBatch(call[th].edge, call[th].val) /\ call[th].edge \in EdgeIds
        BY <1>t, <3>2, CallFields DEF delete_node_edge_write
      <4> QED
        BY <1>t, <4>1, DeleteEdgeIndexed
    <3> QED
      BY <1>6, <1>t, <3>1, <3>2, PutNodeIndexed, PutEdgeIndexed, DeleteNodeIndexed
  <2> QED
    BY <2>1, <2>2, <2>3, <2>4, GoAlone DEF IndexInv, IndexComplete
<1>7. ASSUME NEW th \in Threads, delete_graph(th)
      PROVE  DropAlone' /\ IndexComplete'
  <2> DEFINE c == [at |-> "delete_graph", cf |-> 1]
  <2>1. c \in Call /\ c.cf = 1
    BY DEF Call, DeleteGraphCall, DATA_CFS
  <2>2. Enter(th, c) /\ UNCHANGED tables
    BY <1>7 DEF delete_graph
  <2> HIDE DEF c
  <2> QED
    BY <2>1, <2>2, EnterAlone
<1>8. ASSUME NEW th \in Threads, delete_graph_cf(th)
      PROVE  DropAlone' /\ IndexComplete'
  BY <1>8, DropIndexed
<1>9. CASE UNCHANGED vars
  <2>1. DropAlone'
    BY <1>9 DEF IndexInv, DropAlone, vars
  <2> QED
    BY <1>9, <1>u, <2>1 DEF vars
<1> QED
  BY <1>1, <1>2, <1>3, <1>4, <1>5, <1>6, <1>7, <1>8, <1>9, NextCases

(* The empty tables are indexed, and nobody drops them.                    *)
LEMMA IndexInit == Init => IndexInv
<1> SUFFICES ASSUME Init PROVE IndexInv
  OBVIOUS
<1>1. TypeOK
  <2>1. Idle \in Call
    BY DEF Call
  <2> QED
    BY <2>1 DEF Init, TypeOK
<1>2. DropAlone
  BY DEF Init, DropAlone, At, Idle
<1>3. IndexComplete
  BY DEF Init, IndexComplete, NodesIndexed, EdgesIndexed
<1> QED
  BY <1>1, <1>2, <1>3 DEF IndexInv

(* IndexComplete holds in every reachable state, for any number of         *)
(* threads: however the batches of put_node, put_edge, delete_node and     *)
(* delete_edge interleave, no label or adjacency scan misses a stored      *)
(* record, unless delete_graph has overlapped with another call.           *)
THEOREM ScansMissNothing == Spec => []IndexComplete
<1>1. IndexInv /\ [Next]_vars => IndexInv'
  BY IndexStep
<1>2. IndexInv => IndexComplete
  BY DEF IndexInv
<1> QED
  BY <1>1, <1>2, IndexInit, PTL DEF Spec

--------------------------------------------------------------------------------
(* Call c is going to store or delete node n, which had the labels s when  *)
(* the caller read it (or gets them when it is created).                   *)
NodePuts == Puts \ EdgePuts

OnNode(c, n, s) ==
    \/ c.at \in NodePuts /\ ~c.reshapes /\ c.id = n /\ c.val = s
    \/ c.at \in DeleteNodeSteps /\ c.id = n /\ c.old = s

(* The same for edge e with record v.                                      *)
OnEdge(c, e, v) ==
    \/ c.at \in EdgePuts /\ ~c.reshapes /\ c.id = e /\ c.val = v
    \/ c.at = "delete_edge_write" /\ c.id = e /\ c.old = v
    \/ c.at = "delete_node_edge_write" /\ c.edge = e /\ c.val = v

(* An id under which a record is stored, or is going to be, has been       *)
(* handed out.                                                             *)
UsedInv ==
    /\ \A n \in NodeIds : nodes[n] # Absent => n \in used
    /\ \A e \in EdgeIds : edges[e] # Absent => e \in used
    /\ \A th \in Threads : call[th].at \in Puts => call[th].id \in used

(* A call that changes labels or end points runs alone, so that the record *)
(* it has read is the stored one.                                          *)
ShapeAlone ==
    \A th \in Threads : Reshapes(call[th]) =>
        /\ \A o \in Threads \ {th} : call[o] = Idle
        /\ At(th, "put_node_write") /\ nodes[call[th].id] # Absent =>
              nodes[call[th].id] \subseteq call[th].old
        /\ At(th, "put_edge_write") => call[th].old = edges[call[th].id]

(* All other calls agree on the labels of a node, or the end points and    *)
(* label of an edge, with each other and with the stored record.           *)
NodesAgree ==
    \A th \in Threads, n \in NodeIds, s \in SUBSET Labels : OnNode(call[th], n, s) =>
        /\ n \in used /\ nodes[n] \in {Absent, s}
        /\ \A o \in Threads, r \in SUBSET Labels : OnNode(call[o], n, r) => r = s

EdgesAgree ==
    \A th \in Threads, e \in EdgeIds, v \in Edge : OnEdge(call[th], e, v) =>
        /\ e \in used /\ edges[e] \in {Absent, v}
        /\ \A o \in Threads, w \in Edge : OnEdge(call[o], e, w) => w = v

(* Every key of an index belongs to a stored record.                       *)
NodeKeysExact ==
    \A k \in node_labels : nodes[k[2]] # Absent /\ k[1] \in nodes[k[2]]

EdgeKeysExact ==
    /\ \A k \in adj_out : edges[k[3]] # Absent /\ k = OutKey(k[3], edges[k[3]])
    /\ \A k \in adj_in : edges[k[3]] # Absent /\ k = InKey(k[3], edges[k[3]])
    /\ \A k \in edge_labels : edges[k[2]] # Absent /\ k = LabelKey(k[2], edges[k[2]])

(* What delete_graph, alone, has emptied so far.                           *)
DropEmpties ==
    \A th \in Threads : At(th, "delete_graph") =>
        /\ call[th].cf > 3 => adj_out = {}
        /\ call[th].cf > 4 => adj_in = {}
        /\ call[th].cf > 5 => node_labels = {}

ExactBody ==
    /\ ShapeAlone /\ NodesAgree /\ EdgesAgree /\ DropEmpties
    /\ ~Dropping => NodeKeysExact /\ EdgeKeysExact

ExactInv == IndexInv /\ UsedInv /\ (~dropRace /\ ~shapeRace => ExactBody)

(* An idle thread is about nothing.                                        *)
LEMMA IdleFacts ==
    /\ Idle.at = "idle"
    /\ ~Reshapes(Idle) /\ ~Removes(Idle) /\ ~PutsEdge(Idle)
    /\ \A n, s : ~OnNode(Idle, n, s)
    /\ \A e, v : ~OnEdge(Idle, e, v)
  BY DEF Idle, Reshapes, Removes, PutsEdge, OnNode, OnEdge, Puts, EdgePuts, NodePuts,
         DeleteNodeSteps

(* Whoever enters a call beside another one is noticed.                    *)
LEMMA EnterRaces ==
    ASSUME TypeOK, NEW th \in Threads, NEW c, Enter(th, c)
    PROVE  /\ dropRace => dropRace'
           /\ shapeRace => shapeRace'
           /\ edgeRace => edgeRace'
           /\ ~shapeRace' => \A o \in Threads \ {th} :
                 call[o] # Idle => ~Reshapes(call[o]) /\ ~Reshapes(c)
           /\ ~edgeRace' => \A o \in Threads \ {th} :
                 call[o] # Idle => ~(Removes(call[o]) /\ PutsEdge(c))
                                   /\ ~(PutsEdge(call[o]) /\ Removes(c))
<1> DEFINE others == {call[o] : o \in Threads \ {th}} \ {Idle}
<1>1. /\ dropRace' = (dropRace \/ \E o \in others : Drops(o) \/ Drops(c))
      /\ shapeRace' = (shapeRace \/ \E o \in others : Reshapes(o) \/ Reshapes(c))
      /\ edgeRace' = (edgeRace \/ \E o \in others :
                         (Removes(o) /\ PutsEdge(c)) \/ (PutsEdge(o) /\ Removes(c)))
  BY DEF Enter, Overlaps
<1>2. \A o \in Threads \ {th} : call[o] # Idle => call[o] \in others
  OBVIOUS
<1>3. dropRace \in BOOLEAN /\ shapeRace \in BOOLEAN /\ edgeRace \in BOOLEAN
  BY DEF TypeOK
<1> HIDE DEF others
<1>4. (dropRace => dropRace') /\ (shapeRace => shapeRace') /\ (edgeRace => edgeRace')
  BY <1>1, Zenon
<1>5. ASSUME ~shapeRace', NEW o \in Threads \ {th}, call[o] # Idle
      PROVE  ~Reshapes(call[o]) /\ ~Reshapes(c)
  BY <1>1, <1>2, <1>5, Zenon
<1>6. ASSUME ~edgeRace', NEW o \in Threads \ {th}, call[o] # Idle
      PROVE  ~(Removes(call[o]) /\ PutsEdge(c)) /\ ~(PutsEdge(call[o]) /\ Removes(c))
  BY <1>1, <1>2, <1>6, Zenon
<1> QED
  BY <1>4, <1>5, <1>6

(* A step that only moves thread th to c and reads keeps what index        *)
(* exactness rests on, if c was not about anything before or is about      *)
(* what is stored, and what a reshaping call has read is what is stored.   *)
LEMMA ReadExact ==
    ASSUME ExactInv, TypeOK', NEW th \in Threads, NEW c,
           \/ Enter(th, c)
           \/ /\ Goto(th, c) /\ call[th] # Idle /\ ~At(th, "delete_graph")
              /\ Reshapes(c) => Reshapes(call[th])
              /\ c.at # "delete_graph",
           UNCHANGED tables, used \subseteq used', c.at \in Puts => c.id \in used',
           c.at = "delete_graph" => c.cf = 1,
           c.at = "put_node_write" /\ nodes[c.id] # Absent => nodes[c.id] \subseteq c.old,
           c.at = "put_edge_write" => c.old = edges[c.id],
           \A n \in NodeIds, s \in SUBSET Labels : OnNode(c, n, s) =>
              OnNode(call[th], n, s) \/ (n \in used' /\ (nodes[n] = s \/ n \notin used)),
           \A e \in EdgeIds, v \in Edge : OnEdge(c, e, v) =>
              OnEdge(call[th], e, v) \/ (e \in used' /\ (edges[e] = v \/ e \notin used))
    PROVE  UsedInv' /\ (~dropRace' /\ ~shapeRace' => ExactBody')
<1>1. /\ TypeOK /\ call \in [Threads -> Call] /\ call' = [call EXCEPT ![th] = c]
      /\ UsedInv
  BY DEF ExactInv, IndexInv, TypeOK, Enter, Goto
<1>2. call'[th] = c /\ \A o \in Threads \ {th} : call'[o] = call[o]
  BY <1>1
<1>3. UsedInv'
  BY <1>1, <1>2 DEF UsedInv
<1>4. SUFFICES ASSUME ~dropRace', ~shapeRace'
               PROVE  ExactBody'
  BY <1>3
<1>5. ~dropRace /\ ~shapeRace
  BY <1>1, <1>4, EnterRaces DEF Goto
<1>6. ShapeAlone /\ NodesAgree /\ EdgesAgree /\ DropEmpties /\ DropAlone
      /\ (~Dropping => NodeKeysExact /\ EdgeKeysExact)
  BY <1>5 DEF ExactInv, ExactBody, IndexInv
<1>7. \A o \in Threads \ {th} : Reshapes(call[o]) => FALSE
  <2> SUFFICES ASSUME NEW o \in Threads \ {th}, Reshapes(call[o])
               PROVE  FALSE
    OBVIOUS
  <2>1. call[o] # Idle /\ call[th] = Idle
    BY <1>6, IdleFacts DEF ShapeAlone
  <2>2. Enter(th, c)
    BY <2>1
  <2> QED
    BY <1>1, <1>4, <2>1, <2>2, EnterRaces
<1>8. Reshapes(c) => \A o \in Threads \ {th} : call[o] = Idle
  <2>1. CASE Enter(th, c)
    BY <1>1, <1>4, <2>1, EnterRaces
  <2>2. CASE Goto(th, c) /\ (Reshapes(c) => Reshapes(call[th]))
    BY <1>6, <2>2 DEF ShapeAlone
  <2> QED
    BY <2>1, <2>2
<1>9. ShapeAlone'
  <2> SUFFICES ASSUME NEW t \in Threads, Reshapes(call'[t])
               PROVE  /\ \A o \in Threads \ {t} : call'[o] = Idle
                      /\ call'[t].at = "put_node_write" /\ nodes'[call'[t].id] # Absent =>
                            nodes'[call'[t].id] \subseteq call'[t].old
                      /\ call'[t].at = "put_edge_write" => call'[t].old = edges'[call'[t].id]
    BY DEF ShapeAlone, At, Reshapes
  <2>1. t = th
    BY <1>2, <1>7
  <2> QED
    BY <1>2, <1>8, <2>1
<1>10. NodesAgree'
  <2>1. ASSUME NEW t \in Threads, NEW n \in NodeIds, NEW s \in SUBSET Labels,
               OnNode(call'[t], n, s)
        PROVE  \/ OnNode(call[t], n, s)
               \/ nodes[n] = s
               \/ t = th /\ nodes[n] = Absent /\ \A o \in Threads, r \in SUBSET Labels : ~OnNode(call[o], n, r)
    <3>1. CASE t # th
      BY <1>2, <2>1, <3>1
    <3>2. CASE t = th
      <4>1. OnNode(call[th], n, s) \/ nodes[n] = s \/ n \notin used
        BY <1>2, <2>1, <3>2
      <4>2. CASE n \notin used
        BY <1>1, <1>6, <3>2, <4>2 DEF UsedInv, NodesAgree
      <4> QED
        BY <3>2, <4>1, <4>2
    <3> QED
      BY <3>1, <3>2
  <2>2. ASSUME NEW t \in Threads, NEW n \in NodeIds, NEW s \in SUBSET Labels,
               OnNode(call'[t], n, s)
        PROVE  n \in used' /\ nodes[n] \in {Absent, s}
    <3>1. n \in used'
      BY <1>2, <1>6, <2>2 DEF NodesAgree
    <3> QED
      BY <1>6, <2>1, <2>2, <3>1 DEF NodesAgree
  <2>3. ASSUME NEW t \in Threads, NEW o \in Threads, NEW n \in NodeIds,
               NEW s \in SUBSET Labels, NEW r \in SUBSET Labels,
               OnNode(call'[t], n, s), OnNode(call'[o], n, r)
        PROVE  r = s
    <3>1. s # Absent /\ r # Absent
      BY GraphAssumption
    <3>2. nodes[n] \in {Absent, s} /\ nodes[n] \in {Absent, r}
      BY <2>2, <2>3
    <3>3. CASE nodes[n] # Absent
      BY <3>2, <3>3
    <3>4. CASE nodes[n] = Absent /\ OnNode(call[t], n, s) /\ OnNode(call[o], n, r)
      BY <1>6, <3>4 DEF NodesAgree
    <3>5. CASE nodes[n] = Absent /\ t # th /\ o = th
      BY <1>2, <2>1, <2>3, <3>1, <3>4, <3>5
    <3>6. CASE nodes[n] = Absent /\ t = th /\ o # th
      BY <1>2, <2>1, <2>3, <3>1, <3>4, <3>6
    <3>7. CASE t = th /\ o = th
      BY <2>3, <3>7 DEF OnNode, NodePuts, Puts, EdgePuts, DeleteNodeSteps
    <3>8. CASE t # th /\ o # th
      BY <1>2, <1>6, <2>3, <3>8 DEF NodesAgree
    <3> QED
      BY <3>3, <3>5, <3>6, <3>7, <3>8
  <2> QED
    BY <2>2, <2>3 DEF NodesAgree
<1>11. EdgesAgree'
  <2>1. ASSUME NEW t \in Threads, NEW e \in EdgeIds, NEW v \in Edge,
               OnEdge(call'[t], e, v)
        PROVE  \/ OnEdge(call[t], e, v)
               \/ edges[e] = v
               \/ t = th /\ edges[e] = Absent /\ \A o \in Threads, r \in Edge : ~OnEdge(call[o], e, r)
    <3>1. CASE t # th
      BY <1>2, <2>1, <3>1
    <3>2. CASE t = th
      <4>1. OnEdge(call[th], e, v) \/ edges[e] = v \/ e \notin used
        BY <1>2, <2>1, <3>2
      <4>2. CASE e \notin used
        BY <1>1, <1>6, <3>2, <4>2 DEF UsedInv, EdgesAgree
      <4> QED
        BY <3>2, <4>1, <4>2
    <3> QED
      BY <3>1, <3>2
  <2>2. ASSUME NEW t \in Threads, NEW e \in EdgeIds, NEW v \in Edge,
               OnEdge(call'[t], e, v)
        PROVE  e \in used' /\ edges[e] \in {Absent, v}
    <3>1. e \in used'
      BY <1>2, <1>6, <2>2 DEF EdgesAgree
    <3> QED
      BY <1>6, <2>1, <2>2, <3>1 DEF EdgesAgree
  <2>3. ASSUME NEW t \in Threads, NEW o \in Threads, NEW e \in EdgeIds,
               NEW v \in Edge, NEW r \in Edge,
               OnEdge(call'[t], e, v), OnEdge(call'[o], e, r)
        PROVE  r = v
    <3>1. v # Absent /\ r # Absent
      BY GraphAssumption DEF Edge
    <3>2. edges[e] \in {Absent, v} /\ edges[e] \in {Absent, r}
      BY <2>2, <2>3
    <3>3. CASE edges[e] # Absent
      BY <3>2, <3>3
    <3>4. CASE edges[e] = Absent /\ OnEdge(call[t], e, v) /\ OnEdge(call[o], e, r)
      BY <1>6, <3>4 DEF EdgesAgree
    <3>5. CASE edges[e] = Absent /\ t # th /\ o = th
      BY <1>2, <2>1, <2>3, <3>1, <3>4, <3>5
    <3>6. CASE edges[e] = Absent /\ t = th /\ o # th
      BY <1>2, <2>1, <2>3, <3>1, <3>4, <3>6
    <3>7. CASE t = th /\ o = th
      BY <2>3, <3>7 DEF OnEdge, EdgePuts
    <3>8. CASE t # th /\ o # th
      BY <1>2, <1>6, <2>3, <3>8 DEF EdgesAgree
    <3> QED
      BY <3>3, <3>5, <3>6, <3>7, <3>8
  <2> QED
    BY <2>2, <2>3 DEF EdgesAgree
<1>12. DropEmpties'
  BY <1>2, <1>6 DEF DropEmpties, At
<1>13. ~Dropping' => ~Dropping
  <2>1. ~At(th, "delete_graph")
    BY IdleFacts DEF Enter, At
  <2> QED
    BY <1>2, <2>1 DEF Dropping, At
<1>14. ~Dropping' => NodeKeysExact' /\ EdgeKeysExact'
  BY <1>6, <1>13 DEF NodeKeysExact, EdgeKeysExact, OutKey, InKey, LabelKey
<1> QED
  BY <1>9, <1>10, <1>11, <1>12, <1>14 DEF ExactBody

(* A write batch of thread th: the record it stores or deletes is the one  *)
(* all calls agree on, or th runs alone.                                   *)
LEMMA WriteExact ==
    ASSUME ExactInv, TypeOK', NEW th \in Threads, NEW c, Goto(th, c), used' = used,
           call[th].at \notin {"idle", "delete_graph"},
           c.at \notin Puts \cup {"delete_graph"},
           Reshapes(call[th]) => c = Idle,
           \A n \in NodeIds, s \in SUBSET Labels : OnNode(c, n, s) => OnNode(call[th], n, s),
           \A e \in EdgeIds, v \in Edge : OnEdge(c, e, v) => OnEdge(call[th], e, v),
           \A n \in NodeIds : \/ nodes'[n] = nodes[n] \/ nodes'[n] = Absent
                              \/ n \in used /\ (OnNode(call[th], n, nodes'[n]) \/ Reshapes(call[th])),
           \A e \in EdgeIds : \/ edges'[e] = edges[e] \/ edges'[e] = Absent
                              \/ e \in used /\ (OnEdge(call[th], e, edges'[e]) \/ Reshapes(call[th])),
           ~dropRace /\ ~shapeRace /\ ExactBody /\ NodeKeysExact /\ EdgeKeysExact =>
              NodeKeysExact' /\ EdgeKeysExact'
    PROVE  UsedInv' /\ (~dropRace' /\ ~shapeRace' => ExactBody')
<1>1. /\ TypeOK /\ call \in [Threads -> Call] /\ call' = [call EXCEPT ![th] = c]
      /\ UsedInv /\ dropRace' = dropRace /\ shapeRace' = shapeRace
  BY DEF ExactInv, IndexInv, TypeOK, Goto
<1>2. call'[th] = c /\ \A o \in Threads \ {th} : call'[o] = call[o]
  BY <1>1
<1>3. UsedInv'
  BY <1>1, <1>2 DEF UsedInv
<1>4. SUFFICES ASSUME ~dropRace, ~shapeRace
               PROVE  ExactBody'
  BY <1>1, <1>3
<1>5. ExactBody /\ DropAlone
  BY <1>4 DEF ExactInv, IndexInv
<1>6. ShapeAlone /\ NodesAgree /\ EdgesAgree
  BY <1>5 DEF ExactBody
<1>7. call[th] # Idle /\ ~Reshapes(c)
  BY IdleFacts DEF Reshapes
<1>8. \A t \in Threads : ~Reshapes(call'[t])
  BY <1>2, <1>6, <1>7 DEF ShapeAlone
<1>9. Reshapes(call[th]) => \A t \in Threads : call'[t] = Idle
  BY <1>2, <1>6 DEF ShapeAlone
<1>10. ~Dropping /\ ~Dropping'
  BY <1>2, <1>4, <1>5, <1>7 DEF Dropping, DropAlone, At
<1>11. ShapeAlone'
  BY <1>8 DEF ShapeAlone, Reshapes
<1>12. NodesAgree'
  <2>1. ASSUME NEW t \in Threads, NEW n \in NodeIds, NEW s \in SUBSET Labels,
               OnNode(call'[t], n, s)
        PROVE  OnNode(call[t], n, s) /\ ~Reshapes(call[th])
    BY <1>2, <1>9, <2>1, IdleFacts
  <2>2. ASSUME NEW t \in Threads, NEW n \in NodeIds, NEW s \in SUBSET Labels,
               OnNode(call'[t], n, s)
        PROVE  n \in used /\ nodes'[n] \in {Absent, s}
    <3>1. OnNode(call[t], n, s) /\ ~Reshapes(call[th])
      BY <2>1, <2>2
    <3>2. n \in used /\ nodes[n] \in {Absent, s}
      BY <1>6, <3>1 DEF NodesAgree
    <3>3. CASE nodes'[n] \notin {nodes[n], Absent}
      <4>1. OnNode(call[th], n, nodes'[n])
        BY <3>1, <3>3
      <4>2. nodes'[n] \in SUBSET Labels
        BY <3>3 DEF TypeOK
      <4> QED
        BY <1>6, <3>1, <3>2, <4>1, <4>2 DEF NodesAgree
    <3> QED
      BY <3>2, <3>3
  <2>3. ASSUME NEW t \in Threads, NEW o \in Threads, NEW n \in NodeIds,
               NEW s \in SUBSET Labels, NEW r \in SUBSET Labels,
               OnNode(call'[t], n, s), OnNode(call'[o], n, r)
        PROVE  r = s
    <3>1. OnNode(call[t], n, s) /\ OnNode(call[o], n, r)
      BY <2>1, <2>3
    <3>2. \A p \in Threads, q \in SUBSET Labels : OnNode(call[p], n, q) => q = s
      BY <1>6, <3>1 DEF NodesAgree
    <3> QED
      BY <3>1, <3>2, Zenon
  <2> QED
    BY <2>2, <2>3 DEF NodesAgree
<1>13. EdgesAgree'
  <2>1. ASSUME NEW t \in Threads, NEW e \in EdgeIds, NEW v \in Edge,
               OnEdge(call'[t], e, v)
        PROVE  OnEdge(call[t], e, v) /\ ~Reshapes(call[th])
    BY <1>2, <1>9, <2>1, IdleFacts
  <2>2. ASSUME NEW t \in Threads, NEW e \in EdgeIds, NEW v \in Edge,
               OnEdge(call'[t], e, v)
        PROVE  e \in used /\ edges'[e] \in {Absent, v}
    <3>1. OnEdge(call[t], e, v) /\ ~Reshapes(call[th])
      BY <2>1, <2>2
    <3>2. e \in used /\ edges[e] \in {Absent, v}
      BY <1>6, <3>1 DEF EdgesAgree
    <3>3. CASE edges'[e] \notin {edges[e], Absent}
      <4>1. OnEdge(call[th], e, edges'[e])
        BY <3>1, <3>3
      <4>2. edges'[e] \in Edge
        BY <3>3 DEF TypeOK
      <4> QED
        BY <1>6, <3>1, <3>2, <4>1, <4>2 DEF EdgesAgree
    <3> QED
      BY <3>2, <3>3
  <2> QED
    BY <1>6, <2>1, <2>2 DEF EdgesAgree
<1>14. DropEmpties'
  BY <1>10 DEF DropEmpties, Dropping
<1>15. NodeKeysExact' /\ EdgeKeysExact'
  BY <1>4, <1>5, <1>10 DEF ExactBody
<1> QED
  BY <1>11, <1>12, <1>13, <1>14, <1>15 DEF ExactBody

(* The batch of put_node leaves no key of a label the node has not got.    *)
LEMMA PutNodeExact ==
    ASSUME TypeOK, NEW th \in Threads, put_node_write(th),
           ShapeAlone, NodesAgree, NodeKeysExact, EdgeKeysExact
    PROVE  NodeKeysExact' /\ EdgeKeysExact'
<1>1. EdgeKeysExact'
  BY DEF put_node_write, EdgeKeysExact, OutKey, InKey, LabelKey
<1>2. PICK n, old, val : n = call[th].id /\ old = call[th].old /\ val = call[th].val
  OBVIOUS
<1>3. /\ n \in NodeIds /\ val \in SUBSET Labels /\ call[th].at = "put_node_write"
      /\ nodes' = [nodes EXCEPT ![n] = val] /\ node_labels' = LabelBatch(n, old, val)
      /\ nodes \in [NodeIds -> (SUBSET Labels) \cup {Absent}]
      /\ node_labels \subseteq Labels \X NodeIds
  BY <1>2, CallFields DEF put_node_write, At, TypeOK
<1>4. nodes[n] # Absent => nodes[n] \subseteq old \/ nodes[n] = val
  <2>1. CASE Reshapes(call[th])
    BY <1>2, <1>3, <2>1 DEF ShapeAlone, At
  <2>2. CASE ~Reshapes(call[th])
    <3>1. OnNode(call[th], n, val)
      BY <1>2, <1>3, <2>2 DEF OnNode, Reshapes, NodePuts, Puts, EdgePuts
    <3> QED
      BY <1>3, <3>1 DEF NodesAgree
  <2> QED
    BY <2>1, <2>2
<1>5. val # Absent
  BY <1>3, GraphAssumption
<1>6. ASSUME NEW k \in node_labels'
      PROVE  nodes'[k[2]] # Absent /\ k[1] \in nodes'[k[2]]
  <2>1. CASE k \in {<<l, n>> : l \in val}
    BY <1>3, <1>5, <2>1
  <2>2. CASE k \in node_labels /\ k \notin {<<l, n>> : l \in old \ val}
    <3>1. nodes[k[2]] # Absent /\ k[1] \in nodes[k[2]] /\ k[2] \in NodeIds
          /\ k = <<k[1], k[2]>>
      BY <1>3, <2>2 DEF NodeKeysExact
    <3>2. CASE k[2] # n
      BY <1>3, <3>1, <3>2
    <3>3. CASE k[2] = n
      <4>1. k[1] \in val
        BY <1>4, <2>2, <3>1, <3>3
      <4> QED
        BY <1>3, <1>5, <3>3, <4>1
    <3> QED
      BY <3>2, <3>3
  <2> QED
    BY <1>3, <1>6, <2>1, <2>2 DEF LabelBatch
<1> QED
  BY <1>1, <1>6 DEF NodeKeysExact

(* The last batch of delete_node leaves no key of the node.                *)
LEMMA DeleteNodeExact ==
    ASSUME TypeOK, NEW th \in Threads, delete_node_write(th),
           NodesAgree, NodeKeysExact, EdgeKeysExact
    PROVE  NodeKeysExact' /\ EdgeKeysExact'
<1>1. EdgeKeysExact'
  BY DEF delete_node_write, EdgeKeysExact, OutKey, InKey, LabelKey
<1>2. PICK n, old : n = call[th].id /\ old = call[th].old
  OBVIOUS
<1>3. /\ n \in NodeIds /\ old \in SUBSET Labels /\ call[th].at = "delete_node_edge"
      /\ nodes' = [nodes EXCEPT ![n] = Absent]
      /\ node_labels' = node_labels \ {<<l, n>> : l \in old}
      /\ nodes \in [NodeIds -> (SUBSET Labels) \cup {Absent}]
      /\ node_labels \subseteq Labels \X NodeIds
  BY <1>2, CallFields DEF delete_node_write, At, TypeOK
<1>4. nodes[n] \in {Absent, old}
  <2>1. OnNode(call[th], n, old)
    BY <1>2, <1>3 DEF OnNode, DeleteNodeSteps
  <2> QED
    BY <1>3, <2>1 DEF NodesAgree
<1>5. ASSUME NEW k \in node_labels'
      PROVE  nodes'[k[2]] # Absent /\ k[1] \in nodes'[k[2]]
  <2>1. nodes[k[2]] # Absent /\ k[1] \in nodes[k[2]] /\ k[2] \in NodeIds
        /\ k = <<k[1], k[2]>>
    BY <1>3, <1>5 DEF NodeKeysExact
  <2>2. k[2] # n
    BY <1>3, <1>4, <1>5, <2>1
  <2> QED
    BY <1>3, <2>1, <2>2
<1> QED
  BY <1>1, <1>5 DEF NodeKeysExact

(* A batch on edge e that deletes the keys of its stored record, and puts  *)
(* those of the record it stores, leaves the keys of stored edges only.    *)
LEMMA EdgeBatchExact ==
    ASSUME TypeOK, EdgeKeysExact, NEW e \in EdgeIds, NEW v,
           edges' = [edges EXCEPT ![e] = v],
           \A k \in adj_out' : \/ v # Absent /\ k = OutKey(e, v)
                               \/ k \in adj_out /\ (edges[e] # Absent => k # OutKey(e, edges[e])),
           \A k \in adj_in' : \/ v # Absent /\ k = InKey(e, v)
                              \/ k \in adj_in /\ (edges[e] # Absent => k # InKey(e, edges[e])),
           \A k \in edge_labels' : \/ v # Absent /\ k = LabelKey(e, v)
                                   \/ k \in edge_labels /\ (edges[e] # Absent => k # LabelKey(e, edges[e]))
    PROVE  EdgeKeysExact'
<1>1. /\ edges \in [EdgeIds -> Edge \cup {Absent}]
      /\ \A k \in adj_out : k[3] \in EdgeIds
      /\ \A k \in adj_in : k[3] \in EdgeIds
      /\ \A k \in edge_labels : k[2] \in EdgeIds
  BY DEF TypeOK
<1>2. edges'[e] = v /\ \A f \in EdgeIds \ {e} : edges'[f] = edges[f]
  BY <1>1
<1>3. ASSUME NEW k \in adj_out'
      PROVE  edges'[k[3]] # Absent /\ k = OutKey(k[3], edges'[k[3]])
  <2>1. CASE v # Absent /\ k = OutKey(e, v)
    BY <1>2, <2>1 DEF OutKey
  <2>2. CASE k \in adj_out /\ (edges[e] # Absent => k # OutKey(e, edges[e]))
    <3>1. edges[k[3]] # Absent /\ k = OutKey(k[3], edges[k[3]]) /\ k[3] \in EdgeIds
      BY <1>1, <2>2 DEF EdgeKeysExact
    <3>2. k[3] # e
      BY <2>2, <3>1
    <3> QED
      BY <1>2, <3>1, <3>2
  <2> QED
    BY <1>3, <2>1, <2>2
<1>4. ASSUME NEW k \in adj_in'
      PROVE  edges'[k[3]] # Absent /\ k = InKey(k[3], edges'[k[3]])
  <2>1. CASE v # Absent /\ k = InKey(e, v)
    BY <1>2, <2>1 DEF InKey
  <2>2. CASE k \in adj_in /\ (edges[e] # Absent => k # InKey(e, edges[e]))
    <3>1. edges[k[3]] # Absent /\ k = InKey(k[3], edges[k[3]]) /\ k[3] \in EdgeIds
      BY <1>1, <2>2 DEF EdgeKeysExact
    <3>2. k[3] # e
      BY <2>2, <3>1
    <3> QED
      BY <1>2, <3>1, <3>2
  <2> QED
    BY <1>4, <2>1, <2>2
<1>5. ASSUME NEW k \in edge_labels'
      PROVE  edges'[k[2]] # Absent /\ k = LabelKey(k[2], edges'[k[2]])
  <2>1. CASE v # Absent /\ k = LabelKey(e, v)
    BY <1>2, <2>1 DEF LabelKey
  <2>2. CASE k \in edge_labels /\ (edges[e] # Absent => k # LabelKey(e, edges[e]))
    <3>1. edges[k[2]] # Absent /\ k = LabelKey(k[2], edges[k[2]]) /\ k[2] \in EdgeIds
      BY <1>1, <2>2 DEF EdgeKeysExact
    <3>2. k[2] # e
      BY <2>2, <3>1
    <3> QED
      BY <1>2, <3>1, <3>2
  <2> QED
    BY <1>5, <2>1, <2>2
<1> QED
  BY <1>3, <1>4, <1>5 DEF EdgeKeysExact, OutKey, InKey, LabelKey

(* The batch of put_edge.                                                  *)
LEMMA PutEdgeExact ==
    ASSUME TypeOK, NEW th \in Threads, put_edge_write(th),
           ShapeAlone, EdgesAgree, NodeKeysExact, EdgeKeysExact
    PROVE  NodeKeysExact' /\ EdgeKeysExact'
<1>1. NodeKeysExact'
  BY DEF put_edge_write, NodeKeysExact
<1>2. PICK e, old, val : e = call[th].id /\ old = call[th].old /\ val = call[th].val
  OBVIOUS
<1>3. /\ e \in EdgeIds /\ val \in Edge /\ call[th].at = "put_edge_write"
      /\ edges' = [edges EXCEPT ![e] = val]
  BY <1>2, CallFields DEF put_edge_write, At
<1>4. /\ adj_out' = (adj_out \ IF old = Absent THEN {} ELSE {OutKey(e, old)}) \cup {OutKey(e, val)}
      /\ adj_in' = (adj_in \ IF old = Absent THEN {} ELSE {InKey(e, old)}) \cup {InKey(e, val)}
      /\ edge_labels' = (edge_labels \ IF old = Absent THEN {} ELSE {LabelKey(e, old)})
                            \cup {LabelKey(e, val)}
  BY <1>2 DEF put_edge_write
<1>5. val # Absent
  BY <1>3, GraphAssumption DEF Edge
<1>6. edges[e] = Absent \/ edges[e] = old \/ edges[e] = val
  <2>1. CASE Reshapes(call[th])
    BY <1>2, <1>3, <2>1 DEF ShapeAlone, At
  <2>2. CASE ~Reshapes(call[th])
    <3>1. OnEdge(call[th], e, val)
      BY <1>2, <1>3, <2>2 DEF OnEdge, Reshapes, Puts, EdgePuts
    <3> QED
      BY <1>3, <3>1 DEF EdgesAgree
  <2> QED
    BY <2>1, <2>2
<1>7. \A k \in adj_out' : \/ val # Absent /\ k = OutKey(e, val)
                          \/ k \in adj_out /\ (edges[e] # Absent => k # OutKey(e, edges[e]))
  BY <1>4, <1>5, <1>6
<1>8. \A k \in adj_in' : \/ val # Absent /\ k = InKey(e, val)
                         \/ k \in adj_in /\ (edges[e] # Absent => k # InKey(e, edges[e]))
  BY <1>4, <1>5, <1>6
<1>9. \A k \in edge_labels' : \/ val # Absent /\ k = LabelKey(e, val)
                              \/ k \in edge_labels /\ (edges[e] # Absent => k # LabelKey(e, edges[e]))
  BY <1>4, <1>5, <1>6
<1>10. EdgeKeysExact'
  BY <1>3, <1>7, <1>8, <1>9, EdgeBatchExact
<1> QED
  BY <1>1, <1>10

(* The batch of delete_edge, from the record all calls agree on.           *)
LEMMA DeleteEdgeExact ==
    ASSUME TypeOK, NEW e \in EdgeIds, NEW v, DeleteEdgeBatch(e, v),
           edges[e] \in {Absent, v}, NodeKeysExact, EdgeKeysExact
    PROVE  NodeKeysExact' /\ EdgeKeysExact'
<1>1. NodeKeysExact'
  BY DEF DeleteEdgeBatch, NodeKeysExact
<1>2. PICK w : w = Absent
  OBVIOUS
<1>3. /\ edges' = [edges EXCEPT ![e] = w]
      /\ \A k \in adj_out' : k \in adj_out /\ (edges[e] # Absent => k # OutKey(e, edges[e]))
      /\ \A k \in adj_in' : k \in adj_in /\ (edges[e] # Absent => k # InKey(e, edges[e]))
      /\ \A k \in edge_labels' : k \in edge_labels /\ (edges[e] # Absent => k # LabelKey(e, edges[e]))
  BY <1>2 DEF DeleteEdgeBatch
<1>4. EdgeKeysExact'
  BY <1>3, EdgeBatchExact
<1> QED
  BY <1>1, <1>4

(* A batch of delete_graph: alone, it leaves every table empty at the end. *)
LEMMA DropExact ==
    ASSUME ExactInv, TypeOK', NEW th \in Threads, delete_graph_cf(th)
    PROVE  UsedInv' /\ (~dropRace' /\ ~shapeRace' => ExactBody')
<1>1. /\ TypeOK /\ UsedInv /\ call \in [Threads -> Call] /\ At(th, "delete_graph")
      /\ dropRace' = dropRace /\ shapeRace' = shapeRace /\ used' = used
  BY DEF ExactInv, IndexInv, TypeOK, delete_graph_cf, Goto, Return
<1>2. PICK cf : cf = call[th].cf
  OBVIOUS
<1>3. cf \in 1 .. 6
  BY <1>1, <1>2, CallFields DEF At, DATA_CFS
<1>4. /\ nodes' = IF cf = 1 THEN [n \in NodeIds |-> Absent] ELSE nodes
      /\ edges' = IF cf = 2 THEN [e \in EdgeIds |-> Absent] ELSE edges
      /\ adj_out' = IF cf = 3 THEN {} ELSE adj_out
      /\ adj_in' = IF cf = 4 THEN {} ELSE adj_in
      /\ node_labels' = IF cf = 5 THEN {} ELSE node_labels
      /\ edge_labels' = IF cf = 6 THEN {} ELSE edge_labels
  BY <1>2 DEF delete_graph_cf
<1>5. PICK c : /\ call' = [call EXCEPT ![th] = c]
               /\ \/ cf = 6 /\ c = Idle
                  \/ cf # 6 /\ c.at = "delete_graph" /\ c.cf = cf + 1
  <2>1. CASE cf = 6
    BY <1>2, <2>1 DEF delete_graph_cf, LastCf, DATA_CFS, Goto, Return
  <2>2. CASE cf # 6
    <3> DEFINE d == [at |-> "delete_graph", cf |-> cf + 1]
    <3>1. call' = [call EXCEPT ![th] = d]
      BY <1>2, <2>2 DEF delete_graph_cf, LastCf, DATA_CFS, Goto, Return
    <3>2. d.at = "delete_graph" /\ d.cf = cf + 1
      OBVIOUS
    <3> HIDE DEF d
    <3> QED
      BY <2>2, <3>1, <3>2
  <2> QED
    BY <2>1, <2>2
<1>6. call'[th] = c /\ \A o \in Threads \ {th} : call'[o] = call[o]
  BY <1>1, <1>5
<1>7. c.at \in {"idle", "delete_graph"}
  BY <1>5 DEF Idle
<1>8. UsedInv'
  BY <1>1, <1>4, <1>6, <1>7 DEF UsedInv, Puts, EdgePuts
<1>9. SUFFICES ASSUME ~dropRace, ~shapeRace
               PROVE  ExactBody'
  BY <1>1, <1>8
<1>10. /\ \A o \in Threads \ {th} : call'[o] = Idle
       /\ cf > 3 => adj_out = {}
       /\ cf > 4 => adj_in = {}
       /\ cf > 5 => node_labels = {}
  BY <1>1, <1>2, <1>6, <1>9 DEF ExactInv, ExactBody, DropEmpties, IndexInv, DropAlone
<1>11. \A t \in Threads : call'[t].at \in {"idle", "delete_graph"}
  BY <1>6, <1>7, <1>10, IdleFacts
<1>12. ShapeAlone' /\ NodesAgree' /\ EdgesAgree'
  <2>1. \A t \in Threads : /\ ~Reshapes(call'[t])
                           /\ \A n, s : ~OnNode(call'[t], n, s)
                           /\ \A e, v : ~OnEdge(call'[t], e, v)
    BY <1>11 DEF Reshapes, OnNode, OnEdge, Puts, EdgePuts, NodePuts, DeleteNodeSteps
  <2> QED
    BY <2>1 DEF ShapeAlone, NodesAgree, EdgesAgree, Reshapes
<1>13. DropEmpties'
  <2> SUFFICES ASSUME NEW t \in Threads, call'[t].at = "delete_graph"
               PROVE  /\ call'[t].cf > 3 => adj_out' = {}
                      /\ call'[t].cf > 4 => adj_in' = {}
                      /\ call'[t].cf > 5 => node_labels' = {}
    BY DEF DropEmpties, At
  <2>1. t = th /\ call'[t].cf = cf + 1
    BY <1>5, <1>6, <1>10, IdleFacts
  <2> QED
    BY <1>3, <1>4, <1>10, <2>1
<1>14. ~Dropping' => NodeKeysExact' /\ EdgeKeysExact'
  <2> SUFFICES ASSUME ~Dropping'
               PROVE  NodeKeysExact' /\ EdgeKeysExact'
    OBVIOUS
  <2>1. cf = 6
    BY <1>5, <1>6 DEF Dropping, At
  <2>2. adj_out' = {} /\ adj_in' = {} /\ node_labels' = {} /\ edge_labels' = {}
    BY <1>4, <1>10, <2>1
  <2> QED
    BY <2>2 DEF NodeKeysExact, EdgeKeysExact
<1> QED
  BY <1>12, <1>13, <1>14 DEF ExactBody

(* Every step keeps what index exactness rests on.                         *)
LEMMA ExactStep ==
    ASSUME ExactInv, [Next]_vars
    PROVE  ExactInv'
<1> USE DEF At
<1>t. IndexInv /\ TypeOK /\ TypeOK' /\ IndexInv' /\ UsedInv
  BY IndexStep DEF ExactInv, IndexInv
<1> DEFINE Goal == UsedInv' /\ (~dropRace' /\ ~shapeRace' => ExactBody')
<1>s. SUFFICES Goal
  BY <1>t DEF ExactInv
<1>1. ASSUME NEW th \in Threads, NEW n \in NodeIds, NEW labels \in SUBSET Labels,
             put_node(th, n, labels)
      PROVE  Goal
  <2> DEFINE c == [at |-> "put_node_read", id |-> n, val |-> labels,
                   reshapes |-> nodes[n] # Absent /\ labels # nodes[n]]
  <2>1. /\ Enter(th, c) /\ UNCHANGED tables /\ used' = used \cup {n}
        /\ n \in used => nodes[n] # Absent
    BY <1>1 DEF put_node
  <2>2. c.at = "put_node_read" /\ c.id = n
    OBVIOUS
  <2>3. \A m, s : OnNode(c, m, s) => m = n /\ s = labels /\ (nodes[n] = Absent \/ labels = nodes[n])
    BY DEF OnNode, NodePuts, Puts, EdgePuts, DeleteNodeSteps
  <2>4. \A e, v : ~OnEdge(c, e, v)
    BY DEF OnEdge, EdgePuts
  <2> HIDE DEF c, Goal
  <2> QED
    BY <1>t, <2>1, <2>2, <2>3, <2>4, ReadExact DEF Goal
<1>2. ASSUME NEW th \in Threads, NEW n \in NodeIds, delete_node(th, n)
      PROVE  Goal
  <2> DEFINE c == [at |-> "delete_node_out", id |-> n, old |-> nodes[n]]
  <2>1. /\ Enter(th, c) /\ UNCHANGED <<tables, used>> /\ nodes[n] # Absent
    BY <1>2 DEF delete_node
  <2>2. c.at = "delete_node_out" /\ c.at \notin Puts
    BY DEF Puts, EdgePuts
  <2>3. \A m, s : OnNode(c, m, s) => m = n /\ s = nodes[n]
    BY DEF OnNode, NodePuts, Puts, EdgePuts, DeleteNodeSteps
  <2>4. \A e, v : ~OnEdge(c, e, v)
    BY DEF OnEdge, EdgePuts
  <2>5. n \in used
    BY <1>t, <2>1 DEF UsedInv
  <2> HIDE DEF c, Goal
  <2> QED
    BY <1>t, <2>1, <2>2, <2>3, <2>4, <2>5, ReadExact DEF Goal
<1>3. ASSUME NEW th \in Threads, NEW e \in EdgeIds, NEW v \in Edge, put_edge(th, e, v)
      PROVE  Goal
  <2> DEFINE c == [at |-> "put_edge_read", id |-> e, val |-> v,
                   reshapes |-> edges[e] # Absent /\ v # edges[e]]
  <2>1. /\ Enter(th, c) /\ UNCHANGED tables /\ used' = used \cup {e}
        /\ e \in used => edges[e] # Absent
    BY <1>3 DEF put_edge
  <2>2. c.at = "put_edge_read" /\ c.id = e
    OBVIOUS
  <2>3. \A f, w : OnEdge(c, f, w) => f = e /\ w = v /\ (edges[e] = Absent \/ v = edges[e])
    BY DEF OnEdge, EdgePuts
  <2>4. \A m, s : ~OnNode(c, m, s)
    BY DEF OnNode, NodePuts, Puts, EdgePuts, DeleteNodeSteps
  <2> HIDE DEF c, Goal
  <2> QED
    BY <1>t, <2>1, <2>2, <2>3, <2>4, ReadExact DEF Goal
<1>4. ASSUME NEW th \in Threads, NEW e \in EdgeIds, delete_edge(th, e)
      PROVE  Goal
  <2> DEFINE c == [at |-> "delete_edge_write", id |-> e, old |-> edges[e]]
  <2>1. /\ Enter(th, c) /\ UNCHANGED <<tables, used>> /\ edges[e] # Absent
    BY <1>4 DEF delete_edge
  <2>2. c.at = "delete_edge_write" /\ c.at \notin Puts
    BY DEF Puts, EdgePuts
  <2>3. \A f, w : OnEdge(c, f, w) => f = e /\ w = edges[e]
    BY DEF OnEdge, EdgePuts
  <2>4. \A m, s : ~OnNode(c, m, s)
    BY DEF OnNode, NodePuts, Puts, EdgePuts, DeleteNodeSteps
  <2>5. e \in used
    BY <1>t, <2>1 DEF UsedInv
  <2> HIDE DEF c, Goal
  <2> QED
    BY <1>t, <2>1, <2>2, <2>3, <2>4, <2>5, ReadExact DEF Goal
<1>5. ASSUME NEW th \in Threads, NEW c, Goto(th, c), call[th] # Idle, ~At(th, "delete_graph"),
             UNCHANGED <<tables, used>>, c.at \notin Puts \cup {"delete_graph"},
             \A n \in NodeIds, s \in SUBSET Labels : OnNode(c, n, s) => OnNode(call[th], n, s),
             \A f \in EdgeIds, v \in Edge : OnEdge(c, f, v) => edges[f] = v
      PROVE  Goal
  <2>1. ~Reshapes(c) /\ c.at \notin {"put_node_write", "put_edge_write"}
    BY <1>5 DEF Reshapes, Puts, EdgePuts
  <2>2. ASSUME NEW f \in EdgeIds, NEW v \in Edge, OnEdge(c, f, v)
        PROVE  f \in used' /\ edges[f] = v
    <3>1. edges[f] = v /\ v # Absent
      BY <1>5, <2>2, GraphAssumption DEF Edge
    <3> QED
      BY <1>5, <1>t, <3>1 DEF UsedInv
  <2> HIDE DEF Goal
  <2> QED
    BY <1>5, <1>t, <2>1, <2>2, ReadExact DEF Goal
<1>6. ASSUME NEW th \in Threads, put_node_read(th)
      PROVE  Goal
  <2>1. PICK id, val, re : id = call[th].id /\ val = call[th].val /\ re = call[th].reshapes
    OBVIOUS
  <2> DEFINE c == [at |-> "put_node_write", id |-> id, val |-> val, reshapes |-> re,
                   old |-> IF nodes[id] = Absent THEN {} ELSE nodes[id]]
  <2>2. /\ Goto(th, c) /\ UNCHANGED <<tables, used>> /\ call[th].at = "put_node_read"
        /\ call[th] # Idle
    BY <1>6, <2>1, IdleFacts DEF put_node_read
  <2>3. /\ c.at = "put_node_write" /\ c.id = id
        /\ nodes[id] # Absent => nodes[id] \subseteq c.old
    OBVIOUS
  <2>4. id \in used
    BY <1>t, <2>1, <2>2 DEF UsedInv, Puts, EdgePuts
  <2>5. Reshapes(c) => Reshapes(call[th])
    BY <2>1, <2>2 DEF Reshapes, Puts, EdgePuts
  <2>6. \A m, s : OnNode(c, m, s) => OnNode(call[th], m, s)
    BY <2>1, <2>2 DEF OnNode, NodePuts, Puts, EdgePuts, DeleteNodeSteps
  <2>7. \A e, v : ~OnEdge(c, e, v)
    BY DEF OnEdge, EdgePuts
  <2> HIDE DEF c, Goal
  <2> QED
    BY <1>t, <2>2, <2>3, <2>4, <2>5, <2>6, <2>7, ReadExact DEF Goal
<1>7. ASSUME NEW th \in Threads, put_edge_read(th)
      PROVE  Goal
  <2>1. PICK id, val, re : id = call[th].id /\ val = call[th].val /\ re = call[th].reshapes
    OBVIOUS
  <2> DEFINE c == [at |-> "put_edge_write", id |-> id, val |-> val, reshapes |-> re,
                   old |-> edges[id]]
  <2>2. /\ Goto(th, c) /\ UNCHANGED <<tables, used>> /\ call[th].at = "put_edge_read"
        /\ call[th] # Idle
    BY <1>7, <2>1, IdleFacts DEF put_edge_read
  <2>3. /\ c.at = "put_edge_write" /\ c.id = id /\ c.old = edges[id]
    OBVIOUS
  <2>4. id \in used
    BY <1>t, <2>1, <2>2 DEF UsedInv, Puts, EdgePuts
  <2>5. Reshapes(c) => Reshapes(call[th])
    BY <2>1, <2>2 DEF Reshapes, Puts, EdgePuts
  <2>6. \A m, s : ~OnNode(c, m, s)
    BY DEF OnNode, NodePuts, Puts, EdgePuts, DeleteNodeSteps
  <2>7. \A e, v : OnEdge(c, e, v) => OnEdge(call[th], e, v)
    BY <2>1, <2>2 DEF OnEdge, EdgePuts
  <2> HIDE DEF c, Goal
  <2> QED
    BY <1>t, <2>2, <2>3, <2>4, <2>5, <2>6, <2>7, ReadExact DEF Goal
<1>8. ASSUME NEW th \in Threads, NEW ids, UNCHANGED <<tables, used>>,
             call[th].at \in {"delete_node_out", "delete_node_in", "delete_node_edge"},
             \/ Return(th)
             \/ Goto(th, [at |-> "delete_node_in", id |-> call[th].id, old |-> call[th].old,
                          todo |-> ids])
             \/ Goto(th, [at |-> "delete_node_edge", id |-> call[th].id, old |-> call[th].old,
                          todo |-> ids])
             \/ \E e \in EdgeIds :
                   Goto(th, [at |-> "delete_node_edge_write", id |-> call[th].id,
                             old |-> call[th].old, todo |-> ids, edge |-> e, val |-> edges[e]])
      PROVE  Goal
  <2>1. PICK c : /\ Goto(th, c) /\ c.at \notin Puts \cup {"delete_graph"}
                 /\ \A n, s : OnNode(c, n, s) => OnNode(call[th], n, s)
                 /\ \A f, v : OnEdge(c, f, v) => edges[f] = v
    <3> USE DEF OnNode, OnEdge, NodePuts, Puts, EdgePuts, DeleteNodeSteps
    <3>1. CASE Return(th)
      BY <3>1, IdleFacts DEF Return
    <3>2. ASSUME NEW at \in {"delete_node_in", "delete_node_edge"},
                 Goto(th, [at |-> at, id |-> call[th].id, old |-> call[th].old, todo |-> ids])
          PROVE  \E c : /\ Goto(th, c) /\ c.at \notin Puts \cup {"delete_graph"}
                        /\ \A n, s : OnNode(c, n, s) => OnNode(call[th], n, s)
                        /\ \A f, v : OnEdge(c, f, v) => edges[f] = v
      <4> DEFINE c == [at |-> at, id |-> call[th].id, old |-> call[th].old, todo |-> ids]
      <4>1. /\ c.at \notin Puts \cup {"delete_graph"}
            /\ \A n, s : OnNode(c, n, s) => OnNode(call[th], n, s)
            /\ \A f, v : OnEdge(c, f, v) => edges[f] = v
        BY <1>8
      <4>2. Goto(th, c)
        BY <3>2
      <4> HIDE DEF c
      <4> QED
        BY <4>1, <4>2
    <3>3. ASSUME NEW e \in EdgeIds,
                 Goto(th, [at |-> "delete_node_edge_write", id |-> call[th].id,
                           old |-> call[th].old, todo |-> ids, edge |-> e, val |-> edges[e]])
          PROVE  \E c : /\ Goto(th, c) /\ c.at \notin Puts \cup {"delete_graph"}
                        /\ \A n, s : OnNode(c, n, s) => OnNode(call[th], n, s)
                        /\ \A f, v : OnEdge(c, f, v) => edges[f] = v
      <4> DEFINE c == [at |-> "delete_node_edge_write", id |-> call[th].id,
                       old |-> call[th].old, todo |-> ids, edge |-> e, val |-> edges[e]]
      <4>1. /\ c.at \notin Puts \cup {"delete_graph"}
            /\ \A n, s : OnNode(c, n, s) => OnNode(call[th], n, s)
            /\ \A f, v : OnEdge(c, f, v) => edges[f] = v
        BY <1>8
      <4>2. Goto(th, c)
        BY <3>3
      <4> HIDE DEF c
      <4> QED
        BY <4>1, <4>2
    <3> QED
      BY <1>8, <3>1, <3>2, <3>3
  <2>2. call[th] # Idle /\ ~At(th, "delete_graph")
    BY <1>8, IdleFacts
  <2> HIDE DEF Goal
  <2> QED
    BY <1>5, <1>8, <2>1, <2>2
<1>9. ASSUME NEW th \in Threads, delete_node_out(th) \/ delete_node_in(th)
      PROVE  Goal
  <2> HIDE DEF Goal
  <2> QED
    BY <1>8, <1>9 DEF delete_node_out, delete_node_in
<1>10. ASSUME NEW th \in Threads, NEW e \in EdgeIds, delete_node_edge(th, e)
       PROVE  Goal
  <2> HIDE DEF Goal
  <2> QED
    BY <1>8, <1>10 DEF delete_node_edge
<1>11. ASSUME NEW th \in Threads, put_node_write(th) \/ delete_node_write(th)
       PROVE  Goal
  <2>1. /\ Goto(th, Idle) /\ used' = used /\ edges' = edges
        /\ call[th].at \in {"put_node_write", "delete_node_edge"}
    BY <1>11 DEF put_node_write, delete_node_write, Return
  <2>2. ASSUME NEW n \in NodeIds
        PROVE  \/ nodes'[n] = nodes[n] \/ nodes'[n] = Absent
               \/ n \in used /\ (OnNode(call[th], n, nodes'[n]) \/ Reshapes(call[th]))
    <3>1. CASE delete_node_write(th)
      BY <1>t, <3>1 DEF delete_node_write, TypeOK
    <3>2. CASE put_node_write(th) /\ call[th].id = n
      <4>1. call[th].at = "put_node_write" /\ nodes'[n] = call[th].val
        BY <1>t, <3>2 DEF put_node_write, TypeOK
      <4>2. n \in used
        BY <1>t, <3>2, <4>1 DEF UsedInv, Puts, EdgePuts
      <4>3. OnNode(call[th], n, nodes'[n]) \/ Reshapes(call[th])
        BY <3>2, <4>1 DEF OnNode, Reshapes, NodePuts, Puts, EdgePuts
      <4> QED
        BY <4>2, <4>3
    <3>3. CASE put_node_write(th) /\ call[th].id # n
      BY <1>t, <3>3 DEF put_node_write, TypeOK
    <3> QED
      BY <1>11, <3>1, <3>2, <3>3
  <2>3. ExactBody /\ NodeKeysExact /\ EdgeKeysExact => NodeKeysExact' /\ EdgeKeysExact'
    BY <1>11, <1>t, PutNodeExact, DeleteNodeExact DEF ExactBody
  <2>4. Idle.at \notin Puts \cup {"delete_graph"}
    BY IdleFacts DEF Puts, EdgePuts
  <2> HIDE DEF Goal
  <2> QED
    BY <1>t, <2>1, <2>2, <2>3, <2>4, IdleFacts, WriteExact DEF Goal
<1>12. ASSUME NEW th \in Threads, put_edge_write(th)
       PROVE  Goal
  <2>1. /\ Goto(th, Idle) /\ used' = used /\ nodes' = nodes
        /\ call[th].at = "put_edge_write"
    BY <1>12 DEF put_edge_write, Return
  <2>2. ASSUME NEW e \in EdgeIds
        PROVE  \/ edges'[e] = edges[e] \/ edges'[e] = Absent
               \/ e \in used /\ (OnEdge(call[th], e, edges'[e]) \/ Reshapes(call[th]))
    <3>1. edges' = [edges EXCEPT ![call[th].id] = call[th].val] /\ edges \in [EdgeIds -> Edge \cup {Absent}]
      BY <1>12, <1>t DEF put_edge_write, TypeOK
    <3>2. CASE call[th].id = e
      <4>1. edges'[e] = call[th].val
        BY <3>1, <3>2
      <4>2. e \in used
        BY <1>t, <2>1, <3>2 DEF UsedInv, Puts, EdgePuts
      <4>3. OnEdge(call[th], e, edges'[e]) \/ Reshapes(call[th])
        BY <2>1, <3>2, <4>1 DEF OnEdge, Reshapes, Puts, EdgePuts
      <4> QED
        BY <4>2, <4>3
    <3> QED
      BY <3>1, <3>2
  <2>3. ExactBody /\ NodeKeysExact /\ EdgeKeysExact => NodeKeysExact' /\ EdgeKeysExact'
    BY <1>12, <1>t, PutEdgeExact DEF ExactBody
  <2>4. Idle.at \notin Puts \cup {"delete_graph"}
    BY IdleFacts DEF Puts, EdgePuts
  <2> HIDE DEF Goal
  <2> QED
    BY <1>t, <2>1, <2>2, <2>3, <2>4, IdleFacts, WriteExact DEF Goal
<1>13. ASSUME NEW th \in Threads, delete_edge_write(th)
       PROVE  Goal
  <2>1. PICK e, v : e = call[th].id /\ v = call[th].old
    OBVIOUS
  <2>2. /\ Goto(th, Idle) /\ used' = used /\ nodes' = nodes /\ DeleteEdgeBatch(e, v)
        /\ call[th].at = "delete_edge_write" /\ e \in EdgeIds /\ v \in Edge
        /\ edges' = [edges EXCEPT ![e] = Absent]
    BY <1>13, <1>t, <2>1, CallFields DEF delete_edge_write, Return, DeleteEdgeBatch
  <2>3. \A f \in EdgeIds : edges'[f] = edges[f] \/ edges'[f] = Absent
    BY <1>t, <2>2 DEF TypeOK
  <2>4. OnEdge(call[th], e, v)
    BY <2>1, <2>2 DEF OnEdge
  <2>5. ExactBody /\ NodeKeysExact /\ EdgeKeysExact => NodeKeysExact' /\ EdgeKeysExact'
    BY <1>t, <2>2, <2>4, DeleteEdgeExact DEF ExactBody, EdgesAgree
  <2>6. Idle.at \notin Puts \cup {"delete_graph"}
    BY IdleFacts DEF Puts, EdgePuts
  <2> HIDE DEF Goal
  <2> QED
    BY <1>t, <2>2, <2>3, <2>5, <2>6, IdleFacts, WriteExact DEF Goal
<1>14. ASSUME NEW th \in Threads, delete_node_edge_write(th)
       PROVE  Goal
  <2>1. PICK e, v : e = call[th].edge /\ v = call[th].val
    OBVIOUS
  <2> DEFINE c == [at |-> "delete_node_edge", id |-> call[th].id, old |-> call[th].old,
                   todo |-> call[th].todo]
  <2>2. /\ Goto(th, c) /\ used' = used /\ nodes' = nodes /\ DeleteEdgeBatch(e, v)
        /\ call[th].at = "delete_node_edge_write" /\ e \in EdgeIds /\ v \in Edge
        /\ edges' = [edges EXCEPT ![e] = Absent]
    BY <1>14, <1>t, <2>1, CallFields DEF delete_node_edge_write, DeleteEdgeBatch
  <2>3. \A f \in EdgeIds : edges'[f] = edges[f] \/ edges'[f] = Absent
    BY <1>t, <2>2 DEF TypeOK
  <2>4. OnEdge(call[th], e, v)
    BY <2>1, <2>2 DEF OnEdge
  <2>5. ExactBody /\ NodeKeysExact /\ EdgeKeysExact => NodeKeysExact' /\ EdgeKeysExact'
    BY <1>t, <2>2, <2>4, DeleteEdgeExact DEF ExactBody, EdgesAgree
  <2>6. c.at \notin Puts \cup {"delete_graph"} /\ ~Reshapes(call[th])
    BY <2>2 DEF Puts, EdgePuts, Reshapes
  <2>7. /\ \A n, s : OnNode(c, n, s) => OnNode(call[th], n, s)
        /\ \A f, w : ~OnEdge(c, f, w)
    BY <2>2 DEF OnNode, OnEdge, NodePuts, Puts, EdgePuts, DeleteNodeSteps
  <2> HIDE DEF c, Goal
  <2> QED
    BY <1>t, <2>2, <2>3, <2>5, <2>6, <2>7, WriteExact DEF Goal
<1>15. ASSUME NEW th \in Threads, delete_graph(th)
       PROVE  Goal
  <2> DEFINE c == [at |-> "delete_graph", cf |-> 1]
  <2>1. Enter(th, c) /\ UNCHANGED <<tables, used>>
    BY <1>15 DEF delete_graph
  <2>2. c.at = "delete_graph" /\ c.cf = 1 /\ c.at \notin Puts
    BY DEF Puts, EdgePuts
  <2>3. /\ \A n, s : ~OnNode(c, n, s)
        /\ \A f, w : ~OnEdge(c, f, w)
    BY DEF OnNode, OnEdge, NodePuts, Puts, EdgePuts, DeleteNodeSteps
  <2> HIDE DEF c, Goal
  <2> QED
    BY <1>t, <2>1, <2>2, <2>3, ReadExact DEF Goal
<1>16. ASSUME NEW th \in Threads, delete_graph_cf(th)
       PROVE  Goal
  BY <1>16, <1>t, DropExact
<1>17. CASE UNCHANGED vars
  <2>1. UNCHANGED <<tables, used, call, races>>
    BY <1>17 DEF vars
  <2>2. UsedInv'
    BY <1>t, <2>1 DEF UsedInv
  <2>3. ExactBody => ExactBody'
    BY <2>1 DEF ExactBody, ShapeAlone, NodesAgree, EdgesAgree, DropEmpties, Dropping,
                NodeKeysExact, EdgeKeysExact, OutKey, InKey, LabelKey
  <2> QED
    BY <2>1, <2>2, <2>3 DEF ExactInv
<1> HIDE DEF Goal
<1> QED
  BY NextCases, <1>1, <1>2, <1>3, <1>4, <1>6, <1>7, <1>9, <1>10, <1>11, <1>12, <1>13, <1>14,
     <1>15, <1>16, <1>17

(* Index exactness (the batches of put_node, put_edge, delete_edge and     *)
(* delete_node in engine.rs): for any number of threads, nodes and edges,  *)
(* every key of a label or adjacency index belongs to a stored record with *)
(* that label or end point, unless delete_graph or a call that changes     *)
(* labels or end points overlapped with another call.                      *)
THEOREM IndexesStayExact == Spec => []IndexExact
<1>1. Init => ExactInv
  <2> SUFFICES ASSUME Init PROVE ExactInv
    OBVIOUS
  <2>1. IndexInv
    BY IndexInit
  <2>2. \A th \in Threads : call[th] = Idle
    BY DEF Init
  <2>3. UsedInv
    BY <2>2, IdleFacts DEF Init, UsedInv, Puts, EdgePuts
  <2>4. ShapeAlone /\ NodesAgree /\ EdgesAgree /\ DropEmpties
    BY <2>2, IdleFacts DEF ShapeAlone, NodesAgree, EdgesAgree, DropEmpties, At
  <2>5. NodeKeysExact /\ EdgeKeysExact
    BY DEF Init, NodeKeysExact, EdgeKeysExact
  <2> QED
    BY <2>1, <2>3, <2>4, <2>5 DEF ExactInv, ExactBody
<1>2. ExactInv /\ [Next]_vars => ExactInv'
  BY ExactStep
<1>3. ExactInv => IndexExact
  BY DEF ExactInv, ExactBody, IndexExact, NodeKeysExact, EdgeKeysExact
<1> QED
  BY <1>1, <1>2, <1>3, PTL DEF Spec

--------------------------------------------------------------------------------
(* A stored edge starts or ends at n.                                      *)
Touches(e, n) == edges[e] # Absent /\ (edges[e].source = n \/ edges[e].target = n)

(* What a delete_node at c knows of the edges still stored at its node.    *)
KnowsEdges(c) ==
    \A e \in EdgeIds :
        /\ c.at = "delete_node_in" => (edges[e] # Absent /\ edges[e].source = c.id => e \in c.todo)
        /\ c.at = "delete_node_edge" => (Touches(e, c.id) => e \in c.todo)
        /\ c.at = "delete_node_edge_write" => (Touches(e, c.id) => e \in c.todo \cup {c.edge})

(* A put_edge at c has end points to connect.                              *)
HasEnds(c) ==
    PutsEdge(c) => nodes[c.val.source] # Absent /\ nodes[c.val.target] # Absent

(* A delete_graph at c that has passed EDGES has left no edge.             *)
DropsEdges(c) == c.at = "delete_graph" /\ c.cf > 2 => \A e \in EdgeIds : edges[e] = Absent

(* put_edge does not run beside a call that removes nodes.                 *)
Apart == \A th, o \in Threads : ~(Removes(call[th]) /\ PutsEdge(call[o]))

EndsStored ==
    \A e \in EdgeIds : edges[e] # Absent =>
        nodes[edges[e].source] # Absent /\ nodes[edges[e].target] # Absent

(* What NoOrphanEdges rests on: calls that add edges and calls that remove *)
(* nodes do not meet, so that what each of them has read stays true, and   *)
(* the adjacency tables name every edge.                                   *)
OrphanBody ==
    /\ Apart
    /\ \A th \in Threads : /\ KnowsEdges(call[th])
                           /\ HasEnds(call[th])
                           /\ DropsEdges(call[th])
    /\ EdgesIndexed
    /\ ~Dropping => EndsStored

OrphanInv == TypeOK /\ (~edgeRace => OrphanBody)

(* A step in which th only reads.                                          *)
LEMMA ReadOrphan ==
    ASSUME OrphanInv, TypeOK', NEW th \in Threads, NEW c,
           \/ Enter(th, c)
           \/ /\ Goto(th, c) /\ call[th] # Idle /\ ~At(th, "delete_graph")
              /\ Removes(c) => Removes(call[th])
              /\ PutsEdge(c) => PutsEdge(call[th]),
           UNCHANGED tables,
           Removes(c) => ~PutsEdge(c),
           ~edgeRace /\ OrphanBody => KnowsEdges(c) /\ HasEnds(c) /\ DropsEdges(c)
    PROVE  ~edgeRace' => OrphanBody'
<1>1. TypeOK /\ call \in [Threads -> Call] /\ call' = [call EXCEPT ![th] = c]
  BY DEF OrphanInv, TypeOK, Enter, Goto
<1>2. call'[th] = c /\ \A o \in Threads \ {th} : call'[o] = call[o]
  BY <1>1
<1>3. SUFFICES ASSUME ~edgeRace'
               PROVE  OrphanBody'
  OBVIOUS
<1>4. ~edgeRace
  BY <1>1, <1>3, EnterRaces DEF Goto
<1>5. OrphanBody
  BY <1>4 DEF OrphanInv
<1>6. \A o \in Threads \ {th} : /\ ~(Removes(call[o]) /\ PutsEdge(c))
                                /\ ~(Removes(c) /\ PutsEdge(call[o]))
  <2>1. CASE Enter(th, c)
    BY <1>1, <1>3, <2>1, EnterRaces, IdleFacts
  <2>2. CASE (Removes(c) => Removes(call[th])) /\ (PutsEdge(c) => PutsEdge(call[th]))
    BY <1>5, <2>2 DEF OrphanBody, Apart
  <2> QED
    BY <2>1, <2>2
<1>7. Apart'
  <2> SUFFICES ASSUME NEW t \in Threads, NEW o \in Threads
               PROVE  ~(Removes(call'[t]) /\ PutsEdge(call'[o]))
    BY DEF Apart, Removes, PutsEdge
  <2> QED
    BY <1>2, <1>5, <1>6 DEF OrphanBody, Apart
<1>8. ASSUME NEW t \in Threads
      PROVE  KnowsEdges(call[t])' /\ HasEnds(call[t])' /\ DropsEdges(call[t])'
  <2>1. PICK d : d = call'[t]
    OBVIOUS
  <2>2. KnowsEdges(d) /\ HasEnds(d) /\ DropsEdges(d)
    BY <1>2, <1>4, <1>5, <2>1 DEF OrphanBody
  <2> QED
    BY <2>1, <2>2 DEF KnowsEdges, HasEnds, DropsEdges, Touches, PutsEdge
<1>9. EdgesIndexed'
  BY <1>5 DEF OrphanBody, EdgesIndexed, OutKey, InKey, LabelKey
<1>10. ~Dropping' => ~Dropping
  <2>1. ~At(th, "delete_graph")
    BY IdleFacts DEF Enter, At
  <2> QED
    BY <1>2, <2>1 DEF Dropping, At
<1>11. ~Dropping' => EndsStored'
  BY <1>5, <1>10 DEF OrphanBody, EndsStored
<1> QED
  BY <1>7, <1>8, <1>9, <1>11 DEF OrphanBody

(* A write batch of th that removes edges, adds the edge of a put_edge, or *)
(* removes a node that no edge touches any more.                           *)
LEMMA WriteOrphan ==
    ASSUME OrphanInv, TypeOK', NEW th \in Threads, NEW c, Goto(th, c),
           call[th].at \notin {"idle", "delete_graph"}, c.at # "delete_graph",
           Removes(c) => Removes(call[th]), ~PutsEdge(c),
           Removes(call[th]) => ~PutsEdge(call[th]),
           ~edgeRace /\ OrphanBody =>
              /\ KnowsEdges(c)' /\ EdgesIndexed'
              /\ \A e \in EdgeIds : \/ edges'[e] = edges[e] \/ edges'[e] = Absent
                                    \/ PutsEdge(call[th]) /\ edges'[e] = call[th].val
              /\ \A n \in NodeIds : \/ nodes[n] # Absent => nodes'[n] # Absent
                                    \/ Removes(call[th]) /\ \A e \in EdgeIds : ~Touches(e, n)'
    PROVE  ~edgeRace' => OrphanBody'
<1>1. /\ call \in [Threads -> Call] /\ call' = [call EXCEPT ![th] = c]
      /\ edgeRace' = edgeRace /\ edges \in [EdgeIds -> Edge \cup {Absent}]
  BY DEF OrphanInv, TypeOK, Goto
<1>2. call'[th] = c /\ \A o \in Threads \ {th} : call'[o] = call[o]
  BY <1>1
<1>3. SUFFICES ASSUME ~edgeRace
               PROVE  OrphanBody'
  BY <1>1
<1>4. OrphanBody
  BY <1>3 DEF OrphanInv
<1>5. /\ KnowsEdges(c)' /\ EdgesIndexed'
      /\ \A e \in EdgeIds : \/ edges'[e] = edges[e] \/ edges'[e] = Absent
                            \/ PutsEdge(call[th]) /\ edges'[e] = call[th].val
      /\ \A n \in NodeIds : \/ nodes[n] # Absent => nodes'[n] # Absent
                            \/ Removes(call[th]) /\ \A e \in EdgeIds : ~Touches(e, n)'
  BY <1>3, <1>4
<1>6. Apart'
  <2> SUFFICES ASSUME NEW t \in Threads, NEW o \in Threads
               PROVE  ~(Removes(call'[t]) /\ PutsEdge(call'[o]))
    BY DEF Apart, Removes, PutsEdge
  <2> QED
    BY <1>2, <1>4 DEF OrphanBody, Apart
<1>7. ASSUME NEW t \in Threads
      PROVE  KnowsEdges(call[t])'
  <2>1. CASE t = th
    BY <1>2, <1>5, <2>1 DEF KnowsEdges, Touches
  <2>2. CASE t # th
    <3>1. call'[t] = call[t] /\ KnowsEdges(call[t])
      BY <1>2, <1>4, <2>2 DEF OrphanBody
    <3>2. CASE call[t].at \notin {"delete_node_in", "delete_node_edge", "delete_node_edge_write"}
      BY <3>1, <3>2 DEF KnowsEdges
    <3>3. CASE call[t].at \in {"delete_node_in", "delete_node_edge", "delete_node_edge_write"}
      <4>1. Removes(call[t])
        BY <3>3 DEF Removes, DeleteNodeSteps
      <4>2. ~PutsEdge(call[th])
        BY <1>4, <4>1 DEF OrphanBody, Apart
      <4>3. \A e \in EdgeIds : edges'[e] = edges[e] \/ edges'[e] = Absent
        BY <1>5, <4>2
      <4> QED
        BY <3>1, <4>3 DEF KnowsEdges, Touches
    <3> QED
      BY <3>2, <3>3
  <2> QED
    BY <2>1, <2>2
<1>8. ASSUME NEW t \in Threads
      PROVE  HasEnds(call[t])'
  <2> SUFFICES ASSUME PutsEdge(call'[t])
               PROVE  nodes'[call'[t].val.source] # Absent /\ nodes'[call'[t].val.target] # Absent
    BY DEF HasEnds, PutsEdge
  <2>1. t # th /\ call'[t] = call[t]
    BY <1>2
  <2>2. nodes[call[t].val.source] # Absent /\ nodes[call[t].val.target] # Absent
        /\ ~Removes(call[th])
    BY <1>4, <2>1 DEF OrphanBody, HasEnds, Apart
  <2>3. call[t].val.source \in NodeIds /\ call[t].val.target \in NodeIds
    <3>1. call[t].val \in Edge
      BY <2>1, CallFields DEF OrphanInv, PutsEdge, EdgePuts
    <3> QED
      BY <3>1 DEF Edge
  <2> QED
    BY <1>5, <2>1, <2>2, <2>3
<1>9. ASSUME NEW t \in Threads
      PROVE  DropsEdges(call[t])'
  <2> SUFFICES ASSUME call'[t].at = "delete_graph", call'[t].cf > 2, NEW e \in EdgeIds
               PROVE  edges'[e] = Absent
    BY DEF DropsEdges
  <2>1. t # th /\ call'[t] = call[t]
    BY <1>2
  <2>2. Removes(call[t]) /\ ~PutsEdge(call[th])
    BY <1>4, <2>1 DEF OrphanBody, Apart, Removes
  <2>3. edges[e] = Absent
    BY <1>4, <2>1 DEF OrphanBody, DropsEdges
  <2> QED
    BY <1>5, <2>2, <2>3
<1>10. ~Dropping' => EndsStored'
  <2> SUFFICES ASSUME ~Dropping', NEW e \in EdgeIds, edges'[e] # Absent
               PROVE  nodes'[edges'[e].source] # Absent /\ nodes'[edges'[e].target] # Absent
    BY DEF EndsStored
  <2>1. ~Dropping
    BY <1>2 DEF Dropping, At
  <2>2. edges'[e].source \in NodeIds /\ edges'[e].target \in NodeIds
    <3>1. edges'[e] \in Edge
      BY DEF TypeOK
    <3> QED
      BY <3>1 DEF Edge
  <2>3. nodes[edges'[e].source] # Absent /\ nodes[edges'[e].target] # Absent
    BY <1>4, <1>5, <2>1 DEF OrphanBody, EndsStored, HasEnds
  <2>4. Touches(e, edges[e].source)' /\ Touches(e, edges[e].target)'
    BY DEF Touches
  <2> QED
    BY <1>5, <2>2, <2>3, <2>4 DEF Touches
<1> QED
  BY <1>5, <1>6, <1>7, <1>8, <1>9, <1>10 DEF OrphanBody

(* The adjacency scans name every edge that starts or ends at a node.      *)
LEMMA ScansFind ==
    ASSUME EdgesIndexed, NEW e \in EdgeIds, edges[e] # Absent
    PROVE  e \in OutgoingIds(edges[e].source) /\ e \in IncomingIds(edges[e].target)
<1>1. OutKey(e, edges[e]) \in adj_out /\ InKey(e, edges[e]) \in adj_in
  BY DEF EdgesIndexed
<1>2. /\ OutKey(e, edges[e])[1] = edges[e].source /\ OutKey(e, edges[e])[3] = e
      /\ InKey(e, edges[e])[1] = edges[e].target /\ InKey(e, edges[e])[3] = e
  BY DEF OutKey, InKey
<1> QED
  BY <1>1, <1>2 DEF OutgoingIds, IncomingIds

(* A batch of delete_graph: it takes the edges before their index keys,    *)
(* and nobody adds one meanwhile.                                          *)
LEMMA DropOrphan ==
    ASSUME OrphanInv, TypeOK', NEW th \in Threads, delete_graph_cf(th)
    PROVE  ~edgeRace' => OrphanBody'
<1>1. /\ TypeOK /\ call \in [Threads -> Call] /\ At(th, "delete_graph") /\ edgeRace' = edgeRace
  BY DEF OrphanInv, TypeOK, delete_graph_cf, Goto, Return
<1>2. PICK cf : cf = call[th].cf
  OBVIOUS
<1>3. cf \in 1 .. 6
  BY <1>1, <1>2, CallFields DEF At, DATA_CFS
<1>4. /\ edges' = IF cf = 2 THEN [e \in EdgeIds |-> Absent] ELSE edges
      /\ adj_out' = IF cf = 3 THEN {} ELSE adj_out
      /\ adj_in' = IF cf = 4 THEN {} ELSE adj_in
      /\ edge_labels' = IF cf = 6 THEN {} ELSE edge_labels
  BY <1>2 DEF delete_graph_cf
<1>5. PICK c : /\ call' = [call EXCEPT ![th] = c]
               /\ \/ cf = 6 /\ c = Idle
                  \/ cf # 6 /\ c.at = "delete_graph" /\ c.cf = cf + 1
  <2>1. CASE cf = 6
    BY <1>2, <2>1 DEF delete_graph_cf, LastCf, DATA_CFS, Goto, Return
  <2>2. CASE cf # 6
    <3> DEFINE d == [at |-> "delete_graph", cf |-> cf + 1]
    <3>1. call' = [call EXCEPT ![th] = d]
      BY <1>2, <2>2 DEF delete_graph_cf, LastCf, DATA_CFS, Goto, Return
    <3>2. d.at = "delete_graph" /\ d.cf = cf + 1
      OBVIOUS
    <3> HIDE DEF d
    <3> QED
      BY <2>2, <3>1, <3>2
  <2> QED
    BY <2>1, <2>2
<1>6. call'[th] = c /\ \A o \in Threads \ {th} : call'[o] = call[o]
  BY <1>1, <1>5
<1>7. c.at \in {"idle", "delete_graph"} /\ ~PutsEdge(c)
  BY <1>5 DEF Idle, PutsEdge, EdgePuts
<1>8. SUFFICES ASSUME ~edgeRace
               PROVE  OrphanBody'
  BY <1>1
<1>9. OrphanBody
  BY <1>8 DEF OrphanInv
<1>10. Removes(call[th]) /\ \A t \in Threads : ~PutsEdge(call'[t])
  BY <1>1, <1>6, <1>7, <1>9 DEF OrphanBody, Apart, Removes, At
<1>11. cf > 2 => \A e \in EdgeIds : edges[e] = Absent
  BY <1>1, <1>2, <1>9 DEF OrphanBody, DropsEdges, At
<1>12. \A e \in EdgeIds : edges'[e] = edges[e] \/ edges'[e] = Absent
  BY <1>4
<1>13. cf > 1 => \A e \in EdgeIds : edges'[e] = Absent
  BY <1>3, <1>4, <1>11
<1>14. Apart'
  BY <1>10 DEF Apart, PutsEdge
<1>15. ASSUME NEW t \in Threads
       PROVE  KnowsEdges(call[t])' /\ HasEnds(call[t])'
  <2>1. HasEnds(call[t])'
    BY <1>10 DEF HasEnds, PutsEdge
  <2>2. CASE t = th
    BY <1>6, <1>7, <2>1, <2>2 DEF KnowsEdges
  <2>3. CASE t # th
    <3>1. call'[t] = call[t] /\ KnowsEdges(call[t])
      BY <1>6, <1>9, <2>3 DEF OrphanBody
    <3>2. KnowsEdges(call[t])'
      BY <1>12, <3>1 DEF KnowsEdges, Touches
    <3> QED
      BY <2>1, <3>2
  <2> QED
    BY <2>2, <2>3
<1>16. ASSUME NEW t \in Threads
       PROVE  DropsEdges(call[t])'
  <2> SUFFICES ASSUME call'[t].at = "delete_graph", call'[t].cf > 2, NEW e \in EdgeIds
               PROVE  edges'[e] = Absent
    BY DEF DropsEdges
  <2>1. CASE t = th
    BY <1>3, <1>5, <1>6, <1>13, <2>1, IdleFacts
  <2>2. CASE t # th
    <3>1. edges[e] = Absent
      BY <1>6, <1>9, <2>2 DEF OrphanBody, DropsEdges
    <3> QED
      BY <1>12, <3>1
  <2> QED
    BY <2>1, <2>2
<1>17. EdgesIndexed'
  <2>1. CASE cf = 1
    BY <1>4, <1>9, <2>1 DEF OrphanBody, EdgesIndexed, OutKey, InKey, LabelKey
  <2>2. CASE cf > 1
    BY <1>13, <2>2 DEF EdgesIndexed
  <2> QED
    BY <1>3, <2>1, <2>2
<1>18. ~Dropping' => EndsStored'
  <2> SUFFICES ASSUME ~Dropping'
               PROVE  EndsStored'
    OBVIOUS
  <2>1. cf = 6
    BY <1>5, <1>6 DEF Dropping, At
  <2> QED
    BY <1>13, <2>1 DEF EndsStored
<1> QED
  BY <1>14, <1>15, <1>16, <1>17, <1>18 DEF OrphanBody

(* Every step keeps what NoOrphanEdges rests on.                           *)
LEMMA OrphanStep ==
    ASSUME OrphanInv, [Next]_vars
    PROVE  OrphanInv'
<1> USE DEF At
<1>t. TypeOK /\ TypeOK'
  BY TypeStep DEF OrphanInv
<1> DEFINE Goal == ~edgeRace' => OrphanBody'
<1>s. SUFFICES Goal
  BY <1>t DEF OrphanInv
<1>1. ASSUME NEW th \in Threads, NEW n \in NodeIds, NEW labels \in SUBSET Labels,
             put_node(th, n, labels)
      PROVE  Goal
  <2> DEFINE c == [at |-> "put_node_read", id |-> n, val |-> labels,
                   reshapes |-> nodes[n] # Absent /\ labels # nodes[n]]
  <2>1. Enter(th, c) /\ UNCHANGED tables
    BY <1>1 DEF put_node
  <2>2. ~Removes(c) /\ ~PutsEdge(c) /\ KnowsEdges(c) /\ DropsEdges(c)
    BY DEF Removes, PutsEdge, KnowsEdges, DropsEdges, EdgePuts, DeleteNodeSteps
  <2> HIDE DEF c, Goal
  <2> QED
    BY <1>t, <2>1, <2>2, ReadOrphan DEF Goal, HasEnds
<1>2. ASSUME NEW th \in Threads, NEW n \in NodeIds, delete_node(th, n)
      PROVE  Goal
  <2> DEFINE c == [at |-> "delete_node_out", id |-> n, old |-> nodes[n]]
  <2>1. Enter(th, c) /\ UNCHANGED tables
    BY <1>2 DEF delete_node
  <2>2. ~PutsEdge(c) /\ KnowsEdges(c) /\ DropsEdges(c)
    BY DEF PutsEdge, KnowsEdges, DropsEdges, EdgePuts
  <2> HIDE DEF c, Goal
  <2> QED
    BY <1>t, <2>1, <2>2, ReadOrphan DEF Goal, HasEnds
<1>3. ASSUME NEW th \in Threads, NEW e \in EdgeIds, NEW v \in Edge, put_edge(th, e, v)
      PROVE  Goal
  <2> DEFINE c == [at |-> "put_edge_read", id |-> e, val |-> v,
                   reshapes |-> edges[e] # Absent /\ v # edges[e]]
  <2>1. Enter(th, c) /\ UNCHANGED tables
    BY <1>3 DEF put_edge
  <2>2. ~Removes(c) /\ KnowsEdges(c) /\ DropsEdges(c)
    BY DEF Removes, KnowsEdges, DropsEdges, DeleteNodeSteps
  <2>3. HasEnds(c)
    BY <1>3 DEF put_edge, HasEnds
  <2> HIDE DEF c, Goal
  <2> QED
    BY <1>t, <2>1, <2>2, <2>3, ReadOrphan DEF Goal
<1>4. ASSUME NEW th \in Threads, NEW e \in EdgeIds, delete_edge(th, e)
      PROVE  Goal
  <2> DEFINE c == [at |-> "delete_edge_write", id |-> e, old |-> edges[e]]
  <2>1. Enter(th, c) /\ UNCHANGED tables
    BY <1>4 DEF delete_edge
  <2>2. ~Removes(c) /\ ~PutsEdge(c) /\ KnowsEdges(c) /\ DropsEdges(c)
    BY DEF Removes, PutsEdge, KnowsEdges, DropsEdges, EdgePuts, DeleteNodeSteps
  <2> HIDE DEF c, Goal
  <2> QED
    BY <1>t, <2>1, <2>2, ReadOrphan DEF Goal, HasEnds
<1>5. ASSUME NEW th \in Threads, put_node_read(th)
      PROVE  Goal
  <2> DEFINE c == [at |-> "put_node_write", id |-> call[th].id, val |-> call[th].val,
                   reshapes |-> call[th].reshapes,
                   old |-> IF nodes[call[th].id] = Absent THEN {} ELSE nodes[call[th].id]]
  <2>1. Goto(th, c) /\ UNCHANGED tables /\ call[th].at = "put_node_read" /\ call[th] # Idle
    BY <1>5, IdleFacts DEF put_node_read
  <2>2. ~Removes(c) /\ ~PutsEdge(c) /\ KnowsEdges(c) /\ DropsEdges(c)
    BY DEF Removes, PutsEdge, KnowsEdges, DropsEdges, EdgePuts, DeleteNodeSteps
  <2> HIDE DEF c, Goal
  <2> QED
    BY <1>t, <2>1, <2>2, ReadOrphan DEF Goal, HasEnds
<1>6. ASSUME NEW th \in Threads, put_edge_read(th)
      PROVE  Goal
  <2> DEFINE c == [at |-> "put_edge_write", id |-> call[th].id, val |-> call[th].val,
                   reshapes |-> call[th].reshapes, old |-> edges[call[th].id]]
  <2>1. Goto(th, c) /\ UNCHANGED tables /\ call[th].at = "put_edge_read" /\ call[th] # Idle
    BY <1>6, IdleFacts DEF put_edge_read
  <2>2. ~Removes(c) /\ KnowsEdges(c) /\ DropsEdges(c) /\ PutsEdge(call[th]) /\ c.val = call[th].val
    BY <2>1 DEF Removes, PutsEdge, KnowsEdges, DropsEdges, EdgePuts, DeleteNodeSteps
  <2> HIDE DEF c, Goal
  <2>3. OrphanBody => HasEnds(c)
    BY <2>2 DEF OrphanBody, HasEnds
  <2> QED
    BY <1>t, <2>1, <2>2, <2>3, ReadOrphan DEF Goal
<1>7. ASSUME NEW th \in Threads, UNCHANGED tables, Return(th), call[th] # Idle,
             ~At(th, "delete_graph")
      PROVE  Goal
  <2>1. KnowsEdges(Idle) /\ HasEnds(Idle) /\ DropsEdges(Idle)
    BY IdleFacts DEF KnowsEdges, HasEnds, DropsEdges
  <2> HIDE DEF Goal
  <2> QED
    BY <1>7, <1>t, <2>1, IdleFacts, ReadOrphan DEF Goal, Return
<1>8. ASSUME NEW th \in Threads, delete_node_out(th)
      PROVE  Goal
  <2>1. PICK n, ids : n = call[th].id /\ ids = OutgoingIds(n)
    OBVIOUS
  <2> DEFINE c == [at |-> "delete_node_in", id |-> n, old |-> call[th].old, todo |-> ids]
  <2>2. /\ UNCHANGED tables /\ call[th].at = "delete_node_out" /\ call[th] # Idle
        /\ Goto(th, c) \/ Return(th)
    BY <1>8, <2>1, IdleFacts DEF delete_node_out
  <2>3. ~PutsEdge(c) /\ DropsEdges(c) /\ Removes(call[th])
    BY <2>2 DEF Removes, PutsEdge, DropsEdges, EdgePuts, DeleteNodeSteps
  <2>4. OrphanBody => KnowsEdges(c)
    BY <2>1, ScansFind DEF OrphanBody, KnowsEdges
  <2> HIDE DEF c, Goal
  <2>5. CASE Goto(th, c)
    BY <1>t, <2>2, <2>3, <2>4, <2>5, ReadOrphan DEF Goal, HasEnds
  <2> QED
    BY <1>7, <2>2, <2>5
<1>9. ASSUME NEW th \in Threads, delete_node_in(th)
      PROVE  Goal
  <2>1. PICK n, out, ids : n = call[th].id /\ out = call[th].todo /\ ids = ConnectedIds(n, out)
    OBVIOUS
  <2> DEFINE c == [at |-> "delete_node_edge", id |-> n, old |-> call[th].old, todo |-> ids]
  <2>2. /\ UNCHANGED tables /\ call[th].at = "delete_node_in" /\ call[th] # Idle
        /\ Goto(th, c) \/ Return(th)
    BY <1>9, <2>1, IdleFacts DEF delete_node_in
  <2>3. ~PutsEdge(c) /\ DropsEdges(c) /\ Removes(call[th])
    BY <2>2 DEF Removes, PutsEdge, DropsEdges, EdgePuts, DeleteNodeSteps
  <2>4. ASSUME OrphanBody, NEW e \in EdgeIds, Touches(e, n)
        PROVE  e \in ids
    <3>1. CASE edges[e].source = n
      BY <2>1, <2>2, <2>4, <3>1 DEF OrphanBody, KnowsEdges, Touches, ConnectedIds
    <3>2. CASE edges[e].target = n
      BY <2>1, <2>4, <3>2, ScansFind DEF OrphanBody, Touches, ConnectedIds
    <3> QED
      BY <2>4, <3>1, <3>2 DEF Touches
  <2>5. OrphanBody => KnowsEdges(c)
    BY <2>4 DEF KnowsEdges
  <2> HIDE DEF c, Goal
  <2>6. CASE Goto(th, c)
    BY <1>t, <2>2, <2>3, <2>5, <2>6, ReadOrphan DEF Goal, HasEnds
  <2> QED
    BY <1>7, <2>2, <2>6
<1>10. ASSUME NEW th \in Threads, NEW e \in EdgeIds, delete_node_edge(th, e)
       PROVE  Goal
  <2>1. PICK n, todo : n = call[th].id /\ todo = call[th].todo
    OBVIOUS
  <2> DEFINE c == [at |-> "delete_node_edge_write", id |-> n, old |-> call[th].old,
                   todo |-> todo \ {e}, edge |-> e, val |-> edges[e]]
  <2>2. /\ UNCHANGED tables /\ call[th].at = "delete_node_edge" /\ call[th] # Idle
        /\ Goto(th, c) \/ Return(th)
    BY <1>10, <2>1, IdleFacts DEF delete_node_edge
  <2>3. ~PutsEdge(c) /\ DropsEdges(c) /\ Removes(call[th])
    BY <2>2 DEF Removes, PutsEdge, DropsEdges, EdgePuts, DeleteNodeSteps
  <2>4. ASSUME OrphanBody, NEW f \in EdgeIds, Touches(f, n)
        PROVE  f \in todo
    BY <2>1, <2>2, <2>4 DEF OrphanBody, KnowsEdges
  <2>5. OrphanBody => KnowsEdges(c)
    BY <2>4 DEF KnowsEdges
  <2> HIDE DEF c, Goal
  <2>6. CASE Goto(th, c)
    BY <1>t, <2>2, <2>3, <2>5, <2>6, ReadOrphan DEF Goal, HasEnds
  <2> QED
    BY <1>7, <2>2, <2>6
<1>i. KnowsEdges(Idle)' /\ Idle.at # "delete_graph" /\ ~Removes(Idle) /\ ~PutsEdge(Idle)
  BY IdleFacts DEF KnowsEdges
<1>11. ASSUME NEW th \in Threads, put_node_write(th)
       PROVE  Goal
  <2>1. Goto(th, Idle) /\ edges' = edges /\ call[th].at = "put_node_write"
    BY <1>11 DEF put_node_write, Return
  <2>2. ~Removes(call[th]) /\ ~PutsEdge(call[th])
    BY <2>1 DEF Removes, PutsEdge, EdgePuts, DeleteNodeSteps
  <2>3. EdgesIndexed => EdgesIndexed'
    BY <1>11 DEF put_node_write, EdgesIndexed, OutKey, InKey, LabelKey
  <2>4. \A n \in NodeIds : nodes[n] # Absent => nodes'[n] # Absent
    <3>1. call[th].val \in SUBSET Labels /\ nodes' = [nodes EXCEPT ![call[th].id] = call[th].val]
      BY <1>11, <1>t, <2>1, CallFields DEF put_node_write
    <3>2. call[th].val # Absent
      BY <3>1, GraphAssumption
    <3> QED
      BY <1>t, <3>1, <3>2 DEF TypeOK
  <2> HIDE DEF Goal
  <2> QED
    BY <1>i, <1>t, <2>1, <2>2, <2>3, <2>4, WriteOrphan DEF Goal, OrphanBody
<1>12. ASSUME NEW th \in Threads, put_edge_write(th)
       PROVE  Goal
  <2>1. Goto(th, Idle) /\ nodes' = nodes /\ call[th].at = "put_edge_write"
    BY <1>12 DEF put_edge_write, Return
  <2>2. ~Removes(call[th]) /\ PutsEdge(call[th])
    BY <2>1 DEF Removes, PutsEdge, EdgePuts, DeleteNodeSteps
  <2>3. EdgesIndexed => EdgesIndexed'
    BY <1>12, <1>t, PutEdgeIndexed
  <2>4. \A e \in EdgeIds : edges'[e] = edges[e] \/ edges'[e] = call[th].val
    BY <1>12, <1>t DEF put_edge_write, TypeOK
  <2> HIDE DEF Goal
  <2> QED
    BY <1>i, <1>t, <2>1, <2>2, <2>3, <2>4, WriteOrphan DEF Goal, OrphanBody
<1>13. ASSUME NEW th \in Threads, delete_edge_write(th)
       PROVE  Goal
  <2>1. PICK e, v : e = call[th].id /\ v = call[th].old
    OBVIOUS
  <2>2. /\ Goto(th, Idle) /\ nodes' = nodes /\ DeleteEdgeBatch(e, v) /\ e \in EdgeIds
        /\ call[th].at = "delete_edge_write" /\ edges' = [edges EXCEPT ![e] = Absent]
    BY <1>13, <1>t, <2>1, CallFields DEF delete_edge_write, Return, DeleteEdgeBatch
  <2>3. ~Removes(call[th]) /\ ~PutsEdge(call[th])
    BY <2>2 DEF Removes, PutsEdge, EdgePuts, DeleteNodeSteps
  <2>4. EdgesIndexed => EdgesIndexed'
    BY <1>t, <2>2, DeleteEdgeIndexed
  <2>5. \A f \in EdgeIds : edges'[f] = edges[f] \/ edges'[f] = Absent
    BY <1>t, <2>2 DEF TypeOK
  <2> HIDE DEF Goal
  <2> QED
    BY <1>i, <1>t, <2>2, <2>3, <2>4, <2>5, WriteOrphan DEF Goal, OrphanBody
<1>14. ASSUME NEW th \in Threads, delete_node_edge_write(th)
       PROVE  Goal
  <2>1. PICK n, todo, e, v : /\ n = call[th].id /\ todo = call[th].todo
                             /\ e = call[th].edge /\ v = call[th].val
    OBVIOUS
  <2>0. PICK old : old = call[th].old
    OBVIOUS
  <2> DEFINE c == [at |-> "delete_node_edge", id |-> n, old |-> old, todo |-> todo]
  <2>2. /\ Goto(th, c) /\ nodes' = nodes /\ DeleteEdgeBatch(e, v) /\ e \in EdgeIds
        /\ call[th].at = "delete_node_edge_write" /\ edges' = [edges EXCEPT ![e] = Absent]
    BY <1>14, <1>t, <2>0, <2>1, CallFields DEF delete_node_edge_write, DeleteEdgeBatch
  <2>3. Removes(call[th]) /\ ~PutsEdge(call[th]) /\ ~PutsEdge(c) /\ c.at # "delete_graph"
    BY <2>2 DEF Removes, PutsEdge, EdgePuts, DeleteNodeSteps
  <2>4. EdgesIndexed => EdgesIndexed'
    BY <1>t, <2>2, DeleteEdgeIndexed
  <2>5. edges'[e] = Absent /\ \A f \in EdgeIds : edges'[f] = edges[f] \/ edges'[f] = Absent
    BY <1>t, <2>2 DEF TypeOK
  <2>6. ASSUME OrphanBody, NEW f \in EdgeIds, Touches(f, n)'
        PROVE  f \in todo
    <3>1. f # e /\ Touches(f, n)
      BY <2>5, <2>6 DEF Touches
    <3> QED
      BY <2>1, <2>2, <2>6, <3>1 DEF OrphanBody, KnowsEdges
  <2>7. OrphanBody => KnowsEdges(c)'
    BY <2>6 DEF KnowsEdges
  <2> HIDE DEF c, Goal
  <2> QED
    BY <1>t, <2>2, <2>3, <2>4, <2>5, <2>7, WriteOrphan DEF Goal, OrphanBody
<1>15. ASSUME NEW th \in Threads, delete_node_write(th)
       PROVE  Goal
  <2>1. PICK n : n = call[th].id
    OBVIOUS
  <2>2. /\ Goto(th, Idle) /\ edges' = edges /\ call[th].at = "delete_node_edge"
        /\ call[th].todo = {} /\ nodes' = [nodes EXCEPT ![n] = Absent] /\ n \in NodeIds
    BY <1>15, <1>t, <2>1, CallFields DEF delete_node_write, Return
  <2>3. Removes(call[th]) /\ ~PutsEdge(call[th])
    BY <2>2 DEF Removes, PutsEdge, EdgePuts, DeleteNodeSteps
  <2>4. EdgesIndexed => EdgesIndexed'
    BY <1>15 DEF delete_node_write, EdgesIndexed, OutKey, InKey, LabelKey
  <2>5. ASSUME OrphanBody, NEW e \in EdgeIds
        PROVE  ~Touches(e, n)'
    <3>1. ~Touches(e, n)
      BY <2>1, <2>2, <2>5 DEF OrphanBody, KnowsEdges
    <3> QED
      BY <2>2, <3>1 DEF Touches
  <2>6. \A m \in NodeIds \ {n} : nodes'[m] = nodes[m]
    BY <1>t, <2>2 DEF TypeOK
  <2> HIDE DEF Goal
  <2> QED
    BY <1>i, <1>t, <2>2, <2>3, <2>4, <2>5, <2>6, WriteOrphan DEF Goal, OrphanBody
<1>16. ASSUME NEW th \in Threads, delete_graph(th)
       PROVE  Goal
  <2> DEFINE c == [at |-> "delete_graph", cf |-> 1]
  <2>1. Enter(th, c) /\ UNCHANGED tables
    BY <1>16 DEF delete_graph
  <2>2. ~PutsEdge(c) /\ KnowsEdges(c) /\ DropsEdges(c)
    BY DEF PutsEdge, KnowsEdges, DropsEdges, EdgePuts
  <2> HIDE DEF c, Goal
  <2> QED
    BY <1>t, <2>1, <2>2, ReadOrphan DEF Goal, HasEnds
<1>17. ASSUME NEW th \in Threads, delete_graph_cf(th)
       PROVE  Goal
  BY <1>17, <1>t, DropOrphan
<1>18. CASE UNCHANGED vars
  <2>1. UNCHANGED <<tables, call, races>>
    BY <1>18 DEF vars
  <2>2. OrphanBody => OrphanBody'
    BY <2>1 DEF OrphanBody, Apart, KnowsEdges, HasEnds, DropsEdges, Touches, Removes, PutsEdge,
                EdgesIndexed, EndsStored, Dropping, OutKey, InKey, LabelKey
  <2> QED
    BY <2>1, <2>2 DEF OrphanInv
<1> HIDE DEF Goal
<1> QED
  BY NextCases, <1>1, <1>2, <1>3, <1>4, <1>5, <1>6, <1>8, <1>9, <1>10, <1>11, <1>12, <1>13,
     <1>14, <1>15, <1>16, <1>17, <1>18

(* "Delete a node, its label indexes, and all connected edges" (the        *)
(* comment on delete_node in engine.rs): for any number of threads, no     *)
(* stored edge ends at a node that is gone, unless a delete_node or        *)
(* delete_graph overlapped with a put_edge.                                *)
THEOREM EdgesKeepTheirEnds == Spec => []NoOrphanEdges
<1>1. Init => OrphanInv
  <2> SUFFICES ASSUME Init PROVE OrphanInv
    OBVIOUS
  <2>1. TypeOK
    BY IndexInit DEF IndexInv
  <2>2. \A th \in Threads : call[th] = Idle
    BY DEF Init
  <2>3. /\ Apart
        /\ \A th \in Threads : KnowsEdges(call[th]) /\ HasEnds(call[th]) /\ DropsEdges(call[th])
    BY <2>2, IdleFacts DEF Apart, KnowsEdges, HasEnds, DropsEdges
  <2>4. EdgesIndexed /\ EndsStored
    BY DEF Init, EdgesIndexed, EndsStored
  <2> QED
    BY <2>1, <2>3, <2>4 DEF OrphanInv, OrphanBody
<1>2. OrphanInv /\ [Next]_vars => OrphanInv'
  BY OrphanStep
<1>3. OrphanInv => NoOrphanEdges
  BY DEF OrphanInv, OrphanBody, NoOrphanEdges, EndsStored
<1> QED
  BY <1>1, <1>2, <1>3, PTL DEF Spec
===============================================================================
