------------------------------- MODULE GraphStore -------------------------------
(***************************************************************************)
(* The property-graph tables of synaptica-storage (engine.rs): node and    *)
(* edge records and the four index column families derived from them.      *)
(*                                                                         *)
(* StorageEngine takes no lock.  An operation is a few point reads         *)
(* followed by one atomic RocksDB write batch (delete_node: one batch per  *)
(* edge and one for the node; delete_graph: one batch per column family),  *)
(* and operations of different threads interleave between those.  A thread *)
(* that stops half-way and never continues is a crash: the batches already *)
(* written stay.                                                           *)
(*                                                                         *)
(* One graph is modelled; all keys of a graph share its id as prefix.      *)
(* Properties are left out: no table of this module depends on them.       *)
(***************************************************************************)
EXTENDS Naturals

CONSTANTS Threads, NodeIds, EdgeIds, Labels, EdgeLabels,
          Absent     \* no record under a key

ASSUME GraphAssumption ==
    /\ \A labels \in SUBSET Labels : Absent # labels
    /\ \A v \in [source : NodeIds, target : NodeIds, label : EdgeLabels] : Absent # v

VARIABLES nodes,        \* NODES: id -> labels of the stored node, or Absent
          edges,        \* EDGES: id -> stored edge, or Absent
          node_labels,  \* NODE_LABELS keys: <<label, node>>
          adj_out,      \* ADJ_OUT keys: <<source, label, edge>>
          adj_in,       \* ADJ_IN keys: <<target, label, edge>>
          edge_labels,  \* EDGE_LABELS keys: <<label, edge>>
          used,         \* ids that NodeId::new and EdgeId::new have handed out
          call,         \* what each thread is doing
          dropRace,     \* history: see Overlaps
          shapeRace,    \* history: see Overlaps
          edgeRace      \* history: see Overlaps

tables == <<nodes, edges, node_labels, adj_out, adj_in, edge_labels>>
races  == <<dropRace, shapeRace, edgeRace>>
vars   == <<tables, used, call, races>>

Edge == [source : NodeIds, target : NodeIds, label : EdgeLabels]

(* A thread's call: the step it is at, the entity it is about, the value   *)
(* to be stored, what the last read returned, and for delete_node the      *)
(* connected edges still to be deleted.  `reshapes' marks a put that       *)
(* replaces a record by one with other labels or end points; `cf' counts   *)
(* the column families in delete_graph.                                    *)
Idle == [at |-> "idle"]
DATA_CFS == 6
DeleteNodeSteps == {"delete_node_out", "delete_node_in", "delete_node_edge",
                    "delete_node_edge_write"}
EdgePuts == {"put_edge_read", "put_edge_write"}
Puts == EdgePuts \cup {"put_node_read", "put_node_write"}

NodeCall ==
    [at : {"put_node_read"}, id : NodeIds, val : SUBSET Labels, reshapes : BOOLEAN]
    \cup [at : {"put_node_write"}, id : NodeIds, val : SUBSET Labels,
          reshapes : BOOLEAN, old : SUBSET Labels]
EdgeCall ==
    [at : {"put_edge_read"}, id : EdgeIds, val : Edge, reshapes : BOOLEAN]
    \cup [at : {"put_edge_write"}, id : EdgeIds, val : Edge, reshapes : BOOLEAN,
          old : Edge \cup {Absent}]
    \cup [at : {"delete_edge_write"}, id : EdgeIds, old : Edge]
DeleteNodeCall ==
    [at : {"delete_node_out"}, id : NodeIds, old : SUBSET Labels]
    \cup [at : {"delete_node_in", "delete_node_edge"}, id : NodeIds,
          old : SUBSET Labels, todo : SUBSET EdgeIds]
    \cup [at : {"delete_node_edge_write"}, id : NodeIds, old : SUBSET Labels, todo : SUBSET EdgeIds, edge : EdgeIds, val : Edge]
DeleteGraphCall == [at : {"delete_graph"}, cf : 1 .. DATA_CFS]
Call == {Idle} \cup NodeCall \cup EdgeCall \cup DeleteNodeCall \cup DeleteGraphCall

Init ==
    /\ nodes = [n \in NodeIds |-> Absent]
    /\ edges = [e \in EdgeIds |-> Absent]
    /\ node_labels = {}
    /\ adj_out = {}
    /\ adj_in = {}
    /\ edge_labels = {}
    /\ used = {}
    /\ call = [th \in Threads |-> Idle]
    /\ dropRace = FALSE
    /\ shapeRace = FALSE
    /\ edgeRace = FALSE

--------------------------------------------------------------------------------
(* Which calls were ever in progress together: delete_graph with any other *)
(* (dropRace), one that stores an existing id with other labels or end     *)
(* points with any other (shapeRace), and one that removes nodes with a    *)
(* put_edge (edgeRace).                                                    *)
Drops(c)    == c.at = "delete_graph"
Reshapes(c) == c.at \in Puts /\ c.reshapes
Removes(c)  == c.at \in DeleteNodeSteps \cup {"delete_graph"}
PutsEdge(c) == c.at \in EdgePuts

Overlaps(th, c) ==
    LET others == {call[o] : o \in Threads \ {th}} \ {Idle} IN
    /\ dropRace' = (dropRace \/ \E o \in others : Drops(o) \/ Drops(c))
    /\ shapeRace' = (shapeRace \/ \E o \in others : Reshapes(o) \/ Reshapes(c))
    /\ edgeRace' = (edgeRace \/ \E o \in others :
                        (Removes(o) /\ PutsEdge(c)) \/ (PutsEdge(o) /\ Removes(c)))

(* A thread enters a call, goes on inside it, or returns.                  *)
Enter(th, c) == /\ call[th] = Idle
                /\ call' = [call EXCEPT ![th] = c]
                /\ Overlaps(th, c)
Goto(th, c) == call' = [call EXCEPT ![th] = c] /\ UNCHANGED races
Return(th) == Goto(th, Idle)

At(th, step) == call[th].at = step

--------------------------------------------------------------------------------
(* put_node.  The caller creates a node under a new id, or stores one it   *)
(* has read, with the labels it read (exec_set_property) or with others.   *)
put_node(th, n, labels) ==
    /\ n \in used => nodes[n] # Absent
    /\ used' = used \cup {n}
    /\ Enter(th, [at |-> "put_node_read", id |-> n, val |-> labels,
                  reshapes |-> nodes[n] # Absent /\ labels # nodes[n]])
    /\ UNCHANGED tables

(* The stored node is read ...                                             *)
put_node_read(th) ==
    /\ At(th, "put_node_read")
    /\ LET c == call[th] IN
       Goto(th, [at |-> "put_node_write", id |-> c.id, val |-> c.val,
                 reshapes |-> c.reshapes,
                 old |-> IF nodes[c.id] = Absent THEN {} ELSE nodes[c.id]])
    /\ UNCHANGED <<tables, used>>

(* Faults: every old label's key is deleted after the new ones are put;    *)
(* the keys of labels the node no longer has are left behind.              *)
DeleteAfterPut(n, old, labels) ==
    (node_labels \cup {<<l, n>> : l \in labels}) \ {<<l, n>> : l \in old}

KeepOldLabels(n, old, labels) == node_labels \cup {<<l, n>> : l \in labels}

(* NODE_LABELS after the batch of put_node.                                *)
LabelBatch(n, old, labels) ==
    (node_labels \ {<<l, n>> : l \in old \ labels}) \cup {<<l, n>> : l \in labels}

(* ... and the batch is written from what was read.                        *)
put_node_write(th) ==
    /\ At(th, "put_node_write")
    /\ LET c == call[th] IN
       /\ nodes' = [nodes EXCEPT ![c.id] = c.val]
       /\ node_labels' = LabelBatch(c.id, c.old, c.val)
    /\ Return(th)
    /\ UNCHANGED <<edges, adj_out, adj_in, edge_labels, used>>

--------------------------------------------------------------------------------
(* The index keys of an edge record.                                       *)
OutKey(e, v) == <<v.source, v.label, e>>
InKey(e, v)  == <<v.target, v.label, e>>
LabelKey(e, v) == <<v.label, e>>

(* put_edge.  The caller took the end points from nodes it has matched;    *)
(* put_edge itself does not look for them.                                 *)
put_edge(th, e, v) ==
    /\ nodes[v.source] # Absent /\ nodes[v.target] # Absent
    /\ e \in used => edges[e] # Absent
    /\ used' = used \cup {e}
    /\ Enter(th, [at |-> "put_edge_read", id |-> e, val |-> v,
                  reshapes |-> edges[e] # Absent /\ v # edges[e]])
    /\ UNCHANGED tables

put_edge_read(th) ==
    /\ At(th, "put_edge_read")
    /\ LET c == call[th] IN
       Goto(th, [at |-> "put_edge_write", id |-> c.id, val |-> c.val,
                 reshapes |-> c.reshapes,
                 old |-> edges[c.id]])
    /\ UNCHANGED <<tables, used>>

(* Keys of the old record are deleted when source, target or label differ. *)
put_edge_write(th) ==
    /\ At(th, "put_edge_write")
    /\ LET c == call[th]
           stale(Key(_, _)) == IF c.old = Absent THEN {} ELSE {Key(c.id, c.old)}
       IN
       /\ edges' = [edges EXCEPT ![c.id] = c.val]
       /\ adj_out' = (adj_out \ stale(OutKey)) \cup {OutKey(c.id, c.val)}
       /\ adj_in' = (adj_in \ stale(InKey)) \cup {InKey(c.id, c.val)}
       /\ edge_labels' = (edge_labels \ stale(LabelKey)) \cup {LabelKey(c.id, c.val)}
    /\ Return(th)
    /\ UNCHANGED <<nodes, node_labels, used>>

(* The batch of delete_edge, from the record v that get_edge returned.     *)
DeleteEdgeBatch(e, v) ==
    /\ edges' = [edges EXCEPT ![e] = Absent]
    /\ adj_out' = adj_out \ {OutKey(e, v)}
    /\ adj_in' = adj_in \ {InKey(e, v)}
    /\ edge_labels' = edge_labels \ {LabelKey(e, v)}
    /\ UNCHANGED <<nodes, node_labels>>

(* delete_edge starts with get_edge; an edge that is not there is an error *)
(* and changes nothing.                                                    *)
delete_edge(th, e) ==
    /\ edges[e] # Absent
    /\ Enter(th, [at |-> "delete_edge_write", id |-> e, old |-> edges[e]])
    /\ UNCHANGED <<tables, used>>

delete_edge_write(th) ==
    /\ At(th, "delete_edge_write")
    /\ DeleteEdgeBatch(call[th].id, call[th].old)
    /\ Return(th)
    /\ UNCHANGED used

--------------------------------------------------------------------------------
(* get_outgoing_edges and get_incoming_edges: the ids found in the         *)
(* adjacency table; a key whose edge record is missing is an error.  An    *)
(* edge that disappears between the scan and its get_edge ends the call    *)
(* without any write, as it does when it disappears before the first       *)
(* delete_edge.                                                            *)
OutgoingIds(n) == {k[3] : k \in {k \in adj_out : k[1] = n}}
IncomingIds(n) == {k[3] : k \in {k \in adj_in : k[1] = n}}
Loadable(ids) == \A e \in ids : edges[e] # Absent

(* delete_node: get_node (an error if there is none), ...                  *)
delete_node(th, n) ==
    /\ nodes[n] # Absent
    /\ Enter(th, [at |-> "delete_node_out", id |-> n, old |-> nodes[n]])
    /\ UNCHANGED <<tables, used>>

(* ... the outgoing edges, ...                                             *)
delete_node_out(th) ==
    /\ At(th, "delete_node_out")
    /\ LET c == call[th] IN
       IF Loadable(OutgoingIds(c.id))
       THEN Goto(th, [at |-> "delete_node_in", id |-> c.id, old |-> c.old,
                      todo |-> OutgoingIds(c.id)])
       ELSE Return(th)
    /\ UNCHANGED <<tables, used>>

(* ... the incoming ones (a self-loop is met twice and kept once), ...     *)
OutgoingOnly(n, out) == out                     \* fault: incoming edges stay
ConnectedIds(n, out) == out \cup IncomingIds(n)

delete_node_in(th) ==
    /\ At(th, "delete_node_in")
    /\ LET c == call[th] IN
       IF Loadable(IncomingIds(c.id))
       THEN Goto(th, [at |-> "delete_node_edge", id |-> c.id, old |-> c.old,
                      todo |-> ConnectedIds(c.id, c.todo)])
       ELSE Return(th)
    /\ UNCHANGED <<tables, used>>

(* ... then delete_edge for each: its get_edge, whose failure ends the     *)
(* whole call with the node still stored, ...                              *)
delete_node_edge(th, e) ==
    /\ At(th, "delete_node_edge")
    /\ e \in call[th].todo
    /\ LET c == call[th] IN
       IF edges[e] # Absent
       THEN Goto(th, [at |-> "delete_node_edge_write", id |-> c.id, old |-> c.old,
                      todo |-> c.todo \ {e}, edge |-> e, val |-> edges[e]])
       ELSE Return(th)
    /\ UNCHANGED <<tables, used>>

(* ... and its batch.                                                      *)
delete_node_edge_write(th) ==
    /\ At(th, "delete_node_edge_write")
    /\ LET c == call[th] IN
       /\ DeleteEdgeBatch(c.edge, c.val)
       /\ Goto(th, [at |-> "delete_node_edge", id |-> c.id, old |-> c.old,
                    todo |-> c.todo])
    /\ UNCHANGED used

(* The last batch removes the node and the label keys read at the start.   *)
delete_node_write(th) ==
    /\ At(th, "delete_node_edge")
    /\ call[th].todo = {}
    /\ LET c == call[th] IN
       /\ nodes' = [nodes EXCEPT ![c.id] = Absent]
       /\ node_labels' = node_labels \ {<<l, c.id>> : l \in c.old}
    /\ Return(th)
    /\ UNCHANGED <<edges, adj_out, adj_in, edge_labels, used>>

--------------------------------------------------------------------------------
(* delete_graph empties the column families one batch at a time.  The scan *)
(* of a column family and its batch are one step: what is written between  *)
(* them is as if written after the batch.  The batch for PROP_INDEX and    *)
(* the deletion of the graph's metadata, which come last, touch no table   *)
(* of this module.                                                         *)
OverrunCfs(cf) == cf > DATA_CFS                 \* fault: off by one
LastCf(cf) == cf = DATA_CFS

delete_graph(th) ==
    /\ Enter(th, [at |-> "delete_graph", cf |-> 1])
    /\ UNCHANGED <<tables, used>>

delete_graph_cf(th) ==
    /\ At(th, "delete_graph")
    /\ LET cf == call[th].cf IN
       /\ nodes' = IF cf = 1 THEN [n \in NodeIds |-> Absent] ELSE nodes
       /\ edges' = IF cf = 2 THEN [e \in EdgeIds |-> Absent] ELSE edges
       /\ adj_out' = IF cf = 3 THEN {} ELSE adj_out
       /\ adj_in' = IF cf = 4 THEN {} ELSE adj_in
       /\ node_labels' = IF cf = 5 THEN {} ELSE node_labels
       /\ edge_labels' = IF cf = 6 THEN {} ELSE edge_labels
       /\ IF LastCf(cf) THEN Return(th)
          ELSE Goto(th, [at |-> "delete_graph", cf |-> cf + 1])
    /\ UNCHANGED used

--------------------------------------------------------------------------------
Next ==
    \/ \E th \in Threads, n \in NodeIds :
          \/ \E labels \in SUBSET Labels : put_node(th, n, labels)
          \/ delete_node(th, n)
    \/ \E th \in Threads, e \in EdgeIds :
          \/ \E v \in Edge : put_edge(th, e, v)
          \/ delete_edge(th, e)
          \/ delete_node_edge(th, e)
    \/ \E th \in Threads :
          \/ put_node_read(th)
          \/ put_node_write(th)
          \/ put_edge_read(th)
          \/ put_edge_write(th)
          \/ delete_edge_write(th)
          \/ delete_node_out(th)
          \/ delete_node_in(th)
          \/ delete_node_edge_write(th)
          \/ delete_node_write(th)
          \/ delete_graph(th)
          \/ delete_graph_cf(th)

Spec == Init /\ [][Next]_vars

--------------------------------------------------------------------------------
(* The values each variable takes; a call carries what its step needs.     *)
TypeOK ==
    /\ nodes \in [NodeIds -> (SUBSET Labels) \cup {Absent}]
    /\ edges \in [EdgeIds -> Edge \cup {Absent}]
    /\ node_labels \subseteq Labels \X NodeIds
    /\ adj_out \subseteq NodeIds \X EdgeLabels \X EdgeIds
    /\ adj_in \subseteq NodeIds \X EdgeLabels \X EdgeIds
    /\ edge_labels \subseteq EdgeLabels \X EdgeIds
    /\ used \subseteq NodeIds \cup EdgeIds
    /\ call \in [Threads -> Call]
    /\ races \in BOOLEAN \X BOOLEAN \X BOOLEAN

Dropping == \E th \in Threads : At(th, "delete_graph")

NodesIndexed ==
    \A n \in NodeIds : nodes[n] # Absent =>
        \A l \in nodes[n] : <<l, n>> \in node_labels

EdgesIndexed ==
    \A e \in EdgeIds : edges[e] # Absent =>
        /\ OutKey(e, edges[e]) \in adj_out
        /\ InKey(e, edges[e]) \in adj_in
        /\ LabelKey(e, edges[e]) \in edge_labels

(* However put_node, put_edge, delete_node and delete_edge of any threads  *)
(* interleave, on the same ids included, a stored node is found under each *)
(* of its labels and a stored edge from both ends and under its label: no  *)
(* scan misses a record.  That holds between the batches of delete_graph,  *)
(* too, unless it has overlapped with another call.                        *)
IndexComplete == ~dropRace => NodesIndexed /\ EdgesIndexed

(* The indexes hold nothing else either, as long as no call that changes   *)
(* the labels or end points of an existing record, or drops the graph,     *)
(* overlapped with another call.  A left-over key would make every scan    *)
(* over it fail with NotFound.                                             *)
IndexExact ==
    ~dropRace /\ ~shapeRace /\ ~Dropping =>
        /\ \A k \in node_labels : nodes[k[2]] # Absent /\ k[1] \in nodes[k[2]]
        /\ \A k \in adj_out : edges[k[3]] # Absent /\ k = OutKey(k[3], edges[k[3]])
        /\ \A k \in adj_in : edges[k[3]] # Absent /\ k = InKey(k[3], edges[k[3]])
        /\ \A k \in edge_labels : edges[k[2]] # Absent /\ k = LabelKey(k[2], edges[k[2]])

(* "Delete a node, its label indexes, and all connected edges"             *)
(* (delete_node): no stored edge ends at a node that is gone, as long as   *)
(* no delete_node or delete_graph overlapped with a put_edge.              *)
NoOrphanEdges ==
    ~edgeRace /\ ~Dropping =>
        \A e \in EdgeIds : edges[e] # Absent =>
            nodes[edges[e].source] # Absent /\ nodes[edges[e].target] # Absent
================================================================================
