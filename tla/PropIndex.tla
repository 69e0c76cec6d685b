------------------------------- MODULE PropIndex --------------------------------
(***************************************************************************)
(* Property indexes: the index definitions and entries of IndexManager     *)
(* (synaptica-storage, index.rs) and the statements of the executor        *)
(* (synaptica-exec, engine.rs) that keep them beside the node records.     *)
(*                                                                         *)
(* A statement is a sequence of storage calls without a transaction: every *)
(* call is a step, and statements of different threads interleave between  *)
(* the steps.  The uniqueness check and the insertion it protects are two  *)
(* steps: the mutex around them belongs to the IndexManager, and           *)
(* StorageEngine makes a new IndexManager for every call.                  *)
(*                                                                         *)
(* A statement is about one node (SET and DELETE run row after row).  A    *)
(* node record is written whole by put_node; GraphStore splits that call.  *)
(***************************************************************************)
EXTENDS Naturals

CONSTANTS Threads, NodeIds, IndexNames, Labels, Props, Values,
          Null,        \* a property value, and what encode_properties uses for a missing one
          Missing,     \* the node has no such property
          None,        \* no record, no definition, no label
          NewNodes,    \* the nodes CREATE statements describe
          Definitions, \* the definitions CREATE INDEX statements describe
          MaxDdl,      \* bound on CREATE INDEX and DROP INDEX statements
          MaxDml       \* bound on SET and DELETE statements

Node == [label : Labels, props : [Props -> Values \cup {Missing}]]
Def  == [props : (SUBSET Props) \ {{}}, unique : BOOLEAN]

ASSUME IndexAssumption ==
    /\ Null \in Values /\ Missing \notin Values /\ None \notin Labels
    /\ NewNodes \subseteq Node /\ Definitions \subseteq Def
    /\ NodeIds \cap IndexNames = {}
    /\ None \notin NodeIds \cup IndexNames \cup Node \cup Def
    /\ MaxDdl \in Nat /\ MaxDml \in Nat

VARIABLES nodes,      \* id -> stored node or None
          defs,       \* index name -> definition or None
          entries,    \* PROP_INDEX: <<index name, encoded values, node>>
          call,       \* what each thread is doing
          ddl,        \* bound: CREATE INDEX and DROP INDEX statements so far
          dml,        \* bound: SET and DELETE statements so far
          race,       \* history: statements on one node, or one on an index, overlapped
          together,   \* history: two statements overlapped
          partial     \* history: indexes that lack or keep entries, see below

vars == <<nodes, defs, entries, call, ddl, dml, race, together, partial>>

(* A thread's call: the node or index it is about, and the step it is at. *)
Done == [at |-> "idle"]
Idle == [subject |-> None, step |-> Done]

Init ==
    /\ nodes = [n \in NodeIds |-> None]
    /\ defs = [d \in IndexNames |-> None]
    /\ entries = {}
    /\ call = [th \in Threads |-> Idle]
    /\ ddl = 0
    /\ dml = 0
    /\ race = FALSE
    /\ together = FALSE
    /\ partial = {}

--------------------------------------------------------------------------------
(* encode_properties: one value per indexed property, in a form that tells *)
(* any two values apart; a missing property counts as Null.                *)
Encode(def, node) ==
    [p \in def.props |-> IF node.props[p] = Missing THEN Null ELSE node.props[p]]

Entry(d, def, n, node) == <<d, Encode(def, node), n>>

(* The executor indexes a node that has one of the properties at least.    *)
Indexable(def, node) == \E p \in def.props : node.props[p] # Missing

(* list_indexes, as the entries that keep a node in step: which index, its *)
(* definition, which node.                                                 *)
Work(n, node) ==
    {[name |-> d, def |-> defs[d], node |-> n, rec |-> node] :
        d \in {d \in IndexNames : defs[d] # None /\ Indexable(defs[d], node)}}

--------------------------------------------------------------------------------
(* A statement begins, goes on, ends.                                      *)
Begin(th, subject, c) ==
    LET others == {o \in Threads \ {th} : call[o] # Idle} IN
    /\ call[th] = Idle
    /\ call' = [call EXCEPT ![th] = [subject |-> subject, step |-> c]]
    /\ together' = (together \/ others # {})
    /\ race' = (race \/ \E o \in others : subject = call[o].subject
                                        \/ subject \notin NodeIds
                                        \/ call[o].subject \notin NodeIds)
Goto(th, c) ==
    /\ call' = [call EXCEPT ![th] = IF c = Done THEN Idle ELSE [@ EXCEPT !.step = c]]
    /\ UNCHANGED <<race, together>>
End(th) == Goto(th, Done)

(* Go on with the loop of index_node or unindex_node calls, if any is left. *)
Loop(th, step, todo, next) ==
    IF todo # {} THEN Goto(th, [at |-> step, todo |-> todo, next |-> next])
    ELSE Goto(th, next)

At(th, step) == call[th].step.at = step

--------------------------------------------------------------------------------
(* exec_create_node: the node is stored under a new id, then indexed.      *)
exec_create_node(th, n, node) ==
    /\ nodes[n] = None
    /\ \A o \in Threads : call[o].subject # n
    /\ \A e \in entries : e[3] # n
    /\ Begin(th, n, [at |-> "put_node", rec |-> node])
    /\ UNCHANGED <<nodes, defs, entries, ddl, dml, partial>>

(* exec_set_property: get_node, unindex, put_node, index.                  *)
exec_set_property(th, n, p, v) ==
    /\ nodes[n] # None
    /\ dml < MaxDml /\ dml' = dml + 1
    /\ Begin(th, n, [at |-> "list_unindex", old |-> nodes[n],
                     next |-> [at |-> "put_node", rec |-> [nodes[n] EXCEPT !.props[p] = v]]])
    /\ UNCHANGED <<nodes, defs, entries, ddl, partial>>

(* exec_delete_nodes: get_node, unindex, delete_node.                      *)
exec_delete_nodes(th, n) ==
    /\ nodes[n] # None
    /\ dml < MaxDml /\ dml' = dml + 1
    /\ Begin(th, n, [at |-> "list_unindex", old |-> nodes[n], next |-> [at |-> "delete_node"]])
    /\ UNCHANGED <<nodes, defs, entries, ddl, partial>>

put_node(th) ==
    /\ At(th, "put_node")
    /\ nodes' = [nodes EXCEPT ![call[th].subject] = call[th].step.rec]
    /\ Goto(th, [at |-> "list_index", rec |-> call[th].step.rec])
    /\ UNCHANGED <<defs, entries, ddl, dml, partial>>

(* A node that is gone by now is an error; nothing changes.                *)
delete_node(th) ==
    /\ At(th, "delete_node")
    /\ nodes' = [nodes EXCEPT ![call[th].subject] = None]
    /\ End(th)
    /\ UNCHANGED <<defs, entries, ddl, dml, partial>>

(* unindex_node_on_delete.                                                 *)
list_unindex(th) ==
    /\ At(th, "list_unindex")
    /\ Loop(th, "unindex_node", Work(call[th].subject, call[th].step.old), call[th].step.next)
    /\ UNCHANGED <<nodes, defs, entries, ddl, dml, partial>>

(* Fault: the entry stays.                                                 *)
KeepEntry(w) == entries
Unindexed(w) == entries \ {Entry(w.name, w.def, w.node, w.rec)}

unindex_node(th, w) ==
    /\ At(th, "unindex_node")
    /\ w \in call[th].step.todo
    /\ entries' = Unindexed(w)
    /\ Loop(th, "unindex_node", call[th].step.todo \ {w}, call[th].step.next)
    /\ UNCHANGED <<nodes, defs, ddl, dml, partial>>

(* index_node_on_write.  Fault: definitions whose properties are all set.  *)
WorkIfFull(n, node) ==
    {w \in Work(n, node) : \A p \in w.def.props : node.props[p] # Missing}
WriteWork(n, node) == Work(n, node)

list_index(th) ==
    /\ At(th, "list_index")
    /\ Loop(th, "index_node", WriteWork(call[th].subject, call[th].step.rec), Done)
    /\ UNCHANGED <<nodes, defs, entries, ddl, dml, partial>>

(* index_node: without uniqueness the entry is put at once; with it, after *)
(* a scan over the entries of the same values.  The caller drops the error *)
(* of a violation, and the node stays without an entry.                    *)
NeverTaken(w) == FALSE                            \* fault: no check
Taken(w) == \E e \in entries :
    /\ e[1] = w.name /\ e[2] = Encode(w.def, w.rec)
    /\ e[3] # w.node

index_node(th, w) ==
    /\ At(th, "index_node")
    /\ w \in call[th].step.todo
    /\ IF w.def.unique /\ ~Taken(w)
       THEN /\ Goto(th, [at |-> "put_entry", todo |-> call[th].step.todo, item |-> w,
                         next |-> call[th].step.next])
            /\ UNCHANGED <<entries, partial>>
       ELSE /\ Loop(th, "index_node", call[th].step.todo \ {w}, call[th].step.next)
            /\ IF w.def.unique
               THEN partial' = partial \cup {w.name} /\ UNCHANGED entries
               ELSE /\ entries' = entries \cup {Entry(w.name, w.def, w.node, w.rec)}
                    /\ UNCHANGED partial
    /\ UNCHANGED <<nodes, defs, ddl, dml>>

put_entry(th) ==
    /\ At(th, "put_entry")
    /\ LET w == call[th].step.item IN
       /\ entries' = entries \cup {Entry(w.name, w.def, w.node, w.rec)}
       /\ Loop(th, "index_node", call[th].step.todo \ {w}, call[th].step.next)
    /\ UNCHANGED <<nodes, defs, ddl, dml, partial>>

--------------------------------------------------------------------------------
(* exec_create_index: the definition is stored, over one of the same name  *)
(* too, whose entries stay.  The label restricts the nodes indexed now but *)
(* is not part of the definition.                                          *)
exec_create_index(th, d, def, label) ==
    /\ ddl < MaxDdl /\ ddl' = ddl + 1
    /\ defs' = [defs EXCEPT ![d] = def]
    /\ partial' = IF defs[d] # None THEN partial \cup {d} ELSE partial
    /\ Begin(th, d, [at |-> "backfill", def |-> def, label |-> label])
    /\ UNCHANGED <<nodes, entries, dml>>

BackfillNodes(def, label) ==
    {n \in NodeIds : /\ nodes[n] # None
                     /\ label # None => nodes[n].label = label
                     /\ Indexable(def, nodes[n])}

backfill(th) ==
    /\ At(th, "backfill")
    /\ LET c == call[th].step
           d == call[th].subject
           found == BackfillNodes(c.def, c.label)
       IN
       /\ Loop(th, "index_node",
               {[name |-> d, def |-> c.def, node |-> n, rec |-> nodes[n]] : n \in found},
               Done)
       /\ partial' = IF found = BackfillNodes(c.def, None) THEN partial
                     ELSE partial \cup {d}
    /\ UNCHANGED <<nodes, defs, entries, ddl, dml>>

(* exec_drop_index: the definition goes, then the entries found by a scan. *)
exec_drop_index(th, d) ==
    /\ ddl < MaxDdl /\ ddl' = ddl + 1
    /\ defs' = [defs EXCEPT ![d] = None]
    /\ Begin(th, d, [at |-> "drop_scan"])
    /\ UNCHANGED <<nodes, entries, dml, partial>>

drop_scan(th) ==
    /\ At(th, "drop_scan")
    /\ Goto(th, [at |-> "drop_write", keys |-> {e \in entries : e[1] = call[th].subject}])
    /\ UNCHANGED <<nodes, defs, entries, ddl, dml, partial>>

drop_write(th) ==
    /\ At(th, "drop_write")
    /\ entries' = entries \ call[th].step.keys
    /\ partial' = partial \ {call[th].subject}
    /\ End(th)
    /\ UNCHANGED <<nodes, defs, ddl, dml>>

--------------------------------------------------------------------------------
Next ==
    \/ \E th \in Threads, n \in NodeIds :
          \/ \E node \in NewNodes : exec_create_node(th, n, node)
          \/ \E p \in Props, v \in Values : exec_set_property(th, n, p, v)
          \/ exec_delete_nodes(th, n)
    \/ \E th \in Threads, d \in IndexNames :
          \/ \E def \in Definitions, label \in Labels \cup {None} : exec_create_index(th, d, def, label)
          \/ exec_drop_index(th, d)
    \/ \E th \in Threads :
          \/ put_node(th)
          \/ delete_node(th)
          \/ list_unindex(th)
          \/ list_index(th)
          \/ \E w \in (IF At(th, "unindex_node") THEN call[th].step.todo ELSE {}) : unindex_node(th, w)
          \/ \E w \in (IF At(th, "index_node") THEN call[th].step.todo ELSE {}) : index_node(th, w)
          \/ put_entry(th)
          \/ backfill(th)
          \/ drop_scan(th)
          \/ drop_write(th)

Spec == Init /\ [][Next]_vars

--------------------------------------------------------------------------------
(* lookup and exec_index_scan: the nodes found under the values that still *)
(* exist and have the label; their values are not looked at again.         *)
IndexScan(d, label, vals) ==
    {n \in NodeIds : /\ <<d, vals, n>> \in entries
                     /\ nodes[n] # None /\ nodes[n].label = label}

(* exec_scan and exec_filter with the same equality predicates: a missing  *)
(* property evaluates to Null, and Null = Null is true.                    *)
FilterScan(label, vals) ==
    {n \in NodeIds : /\ nodes[n] # None /\ nodes[n].label = label
                     /\ \A p \in DOMAIN vals :
                           \/ nodes[n].props[p] = vals[p]
                           \/ nodes[n].props[p] = Missing /\ vals[p] = Null}

(* The literals of a query, not all Null: a node without any of the indexed *)
(* properties has no entry, so that an index never finds it.               *)
Lookups(d) == {vals \in [defs[d].props -> Values] : \E p \in DOMAIN vals : vals[p] # Null}

Busy(x) == \E th \in Threads : call[th] # Idle /\ call[th].subject = x

--------------------------------------------------------------------------------
(* The values each variable takes.                                         *)
TypeOK ==
    /\ nodes \in [NodeIds -> Node \cup {None}]
    /\ defs \in [IndexNames -> Def \cup {None}]
    /\ \A e \in entries :
          /\ e[1] \in IndexNames /\ e[3] \in NodeIds
          /\ \E props \in SUBSET Props : e[2] \in [props -> Values]
    /\ ddl \in 0..MaxDdl /\ dml \in 0..MaxDml
    /\ partial \subseteq IndexNames

(* An entry describes a stored node: it has the values the entry is under, *)
(* unless a statement on that node or on that index is under way, the      *)
(* index was redefined, or such statements have overlapped.                *)
EntriesSound ==
    ~race => \A e \in entries :
        \/ Busy(e[3]) \/ Busy(e[1]) \/ e[1] \in partial
        \/ /\ nodes[e[3]] # None /\ defs[e[1]] # None
           /\ e[2] = Encode(defs[e[1]], nodes[e[3]])

(* "Create an index entry for a node, enforcing uniqueness when required": *)
(* no two nodes are under one value of a unique index, as long as no two   *)
(* statements have overlapped and the index was not redefined.             *)
Unique(d) == \A e, f \in entries : e[1] = d /\ f[1] = d /\ e[2] = f[2] => e[3] = f[3]

UniqueAlone ==
    ~together => \A d \in IndexNames :
        defs[d] # None /\ defs[d].unique /\ d \notin partial => Unique(d)

(* The optimizer's replacement of a filtered scan by an index scan changes *)
(* no answer, in the presence of concurrent statements on other nodes, as  *)
(* long as the index is neither unique with a dropped violation, nor       *)
(* created for one label, nor redefined.                                   *)
IndexScanAgrees ==
    ~race => \A d \in IndexNames : defs[d] # None /\ d \notin partial /\ ~Busy(d) =>
        \A l \in Labels, vals \in Lookups(d) :
            \A n \in NodeIds : Busy(n) \/ (n \in IndexScan(d, l, vals) <=> n \in FilterScan(l, vals))
================================================================================
