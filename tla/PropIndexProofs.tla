--------------------------- MODULE PropIndexProofs ---------------------------
(***************************************************************************)
(* Proofs about PropIndex for any number of threads, nodes, indexes,       *)
(* labels, properties, values and statements.                              *)
(***************************************************************************)
EXTENDS PropIndex, TLAPS

Subjects == NodeIds \cup IndexNames
Keys == UNION {[props -> Values] : props \in SUBSET Props}
Entries == IndexNames \X Keys \X NodeIds
Item == [name : IndexNames, def : Def, node : NodeIds, rec : Node]

(* The steps of a statement with what they carry.                          *)
AfterUnindex == [at : {"put_node"}, rec : Node] \cup [at : {"delete_node"}]
Steps ==
    {Done, [at |-> "drop_scan"]}
        \cup AfterUnindex
        \cup [at : {"list_unindex"}, old : Node, next : AfterUnindex]
        \cup [at : {"unindex_node"}, todo : SUBSET Item, next : AfterUnindex]
        \cup [at : {"list_index"}, rec : Node]
        \cup [at : {"index_node"}, todo : SUBSET Item, next : {Done}]
        \cup [at : {"put_entry"}, todo : SUBSET Item, item : Item, next : {Done}]
        \cup [at : {"backfill"}, def : Def, label : Labels \cup {None}]
        \cup [at : {"drop_write"}, keys : SUBSET Entries]

OnNode == {"put_node", "delete_node", "list_unindex", "unindex_node", "list_index"}
OnIndex == {"backfill", "drop_scan", "drop_write"}
Indexing == {"index_node", "put_entry"}

(* A statement about a node stands at a step of node statements, one about *)
(* an index at a step of index statements.                                 *)
Fits(c) ==
    /\ c.step.at = "idle" <=> c.subject = None
    /\ c.step.at \in OnNode => c.subject \in NodeIds
    /\ c.step.at \in OnIndex => c.subject \in IndexNames
    /\ c.step.at = "put_entry" => c.step.item \in c.step.todo

TypeInv ==
    /\ nodes \in [NodeIds -> Node \cup {None}]
    /\ defs \in [IndexNames -> Def \cup {None}]
    /\ entries \in SUBSET Entries
    /\ call \in [Threads -> [subject : Subjects \cup {None}, step : Steps]]
    /\ \A th \in Threads : Fits(call[th])
    /\ ddl \in 0 .. MaxDdl /\ dml \in 0 .. MaxDml
    /\ race \in BOOLEAN /\ together \in BOOLEAN
    /\ partial \in SUBSET IndexNames

(* Without a race, statements under way are about different nodes, or one  *)
(* about an index is alone; without an overlap there is one.               *)
AloneInv ==
    /\ race => together
    /\ \A th, o \in Threads :
          th # o /\ call[th].subject # None /\ call[o].subject # None =>
             /\ together
             /\ ~race => /\ call[th].subject # call[o].subject
                         /\ call[th].subject \in NodeIds /\ call[o].subject \in NodeIds

(* What a statement has read is still so.                                  *)
Current(w) ==
    /\ defs[w.name] = w.def /\ nodes[w.node] = w.rec /\ Indexable(w.def, w.rec)

WorkOf(th) ==
    LET c == call[th].step
        x == call[th].subject
    IN /\ c.at = "list_unindex" => c.old = nodes[x]
       /\ c.at = "list_index" => c.rec = nodes[x]
       /\ c.at = "unindex_node" => \A w \in c.todo : w.node = x /\ Current(w)
       /\ c.at \in Indexing => \A w \in c.todo : x \in {w.node, w.name} /\ Current(w)
       /\ c.at = "backfill" => c.def = defs[x]
       /\ c.at \in {"drop_scan", "drop_write"} => defs[x] = None
       /\ c.at = "drop_write" => c.keys = {e \in entries : e[1] = x}

WorkInv == ~race => \A th \in Threads : WorkOf(th)

(* The statement of a thread has taken the entries of node n out of index  *)
(* d, or not yet put them there.                                           *)
Pending(c, d, n) == \E w \in c.todo : w.name = d /\ w.node = n
Blank(th, d, n) ==
    LET c == call[th].step
        x == call[th].subject
    IN \/ x = n /\ c.at \in {"put_node", "delete_node", "list_index"}
       \/ x = n /\ c.at = "unindex_node" /\ ~Pending(c, d, n)
       \/ x = d /\ c.at = "backfill"
       \/ c.at \in Indexing /\ Pending(c, d, n)
Blanked(d, n) == \E th \in Threads : Blank(th, d, n)

(* The entry that index d must have for node n, if any; it has that entry  *)
(* and no other of the node.                                               *)
Due(d, n) == nodes[n] # None /\ ~Blanked(d, n) /\ Indexable(defs[d], nodes[n])
Exact(d, n) ==
    /\ Due(d, n) => Entry(d, defs[d], n, nodes[n]) \in entries
    /\ \A e \in entries : e[1] = d /\ e[3] = n =>
          Due(d, n) /\ e[2] = Encode(defs[d], nodes[n])

(* Without a race an index that is not partial is exact for every node; an *)
(* index that does not exist has no entries.                               *)
ExactInv ==
    ~race => \A d \in IndexNames \ partial :
        /\ defs[d] = None /\ ~Busy(d) => \A e \in entries : e[1] # d
        /\ defs[d] # None => \A n \in NodeIds : Exact(d, n)

(* Between the uniqueness check and the insertion no other statement has   *)
(* taken the value, if none has overlapped.                                *)
UniqueInv ==
    ~together =>
        /\ \A th \in Threads : call[th].step.at = "put_entry" => ~Taken(call[th].step.item)
        /\ \A d \in IndexNames :
              defs[d] # None /\ defs[d].unique /\ d \notin partial => Unique(d)

IndInv == TypeInv /\ AloneInv /\ WorkInv /\ ExactInv /\ UniqueInv

--------------------------------------------------------------------------------
(* What the statement of a thread carries at each step.                    *)
LEMMA StepFields ==
    ASSUME TypeInv, NEW th \in Threads
    PROVE  LET c == call[th].step IN
           /\ c.at = "idle" <=> c = Done
           /\ c.at \in {"put_node", "list_index"} => c.rec \in Node
           /\ c.at = "list_unindex" => c.old \in Node /\ c.next \in AfterUnindex
           /\ c.at = "unindex_node" => c.todo \in SUBSET Item /\ c.next \in AfterUnindex
           /\ c.at \in Indexing => c.todo \in SUBSET Item /\ c.next = Done
           /\ c.at = "put_entry" => c.item \in Item
           /\ c.at = "backfill" => c.def \in Def /\ c.label \in Labels \cup {None}
           /\ c.at = "drop_write" => c.keys \in SUBSET Entries
           /\ c.at \in {"idle"} \cup OnNode \cup OnIndex \cup Indexing
<1> DEFINE c == call[th].step
<1>1. c \in Steps
  BY DEF TypeInv
<1> USE DEF Indexing, Done, OnNode, OnIndex
<1>2. CASE c \in {Done, [at |-> "drop_scan"]}
  BY <1>2
<1>3. CASE c \in AfterUnindex
  BY <1>3 DEF AfterUnindex
<1>4. CASE c \in [at : {"list_unindex"}, old : Node, next : AfterUnindex]
  BY <1>4
<1>5. CASE c \in [at : {"unindex_node"}, todo : SUBSET Item, next : AfterUnindex]
  BY <1>5
<1>6. CASE c \in [at : {"list_index"}, rec : Node]
  BY <1>6
<1>7. CASE c \in [at : {"index_node"}, todo : SUBSET Item, next : {Done}]
  BY <1>7
<1>8. CASE c \in [at : {"put_entry"}, todo : SUBSET Item, item : Item, next : {Done}]
  BY <1>8
<1>9. CASE c \in [at : {"backfill"}, def : Def, label : Labels \cup {None}]
  BY <1>9
<1>10. CASE c \in [at : {"drop_write"}, keys : SUBSET Entries]
  BY <1>10
<1> QED
  BY <1>1, <1>2, <1>3, <1>4, <1>5, <1>6, <1>7, <1>8, <1>9, <1>10 DEF Steps

(* The steps a statement can be put at.                                    *)
LEMMA StepMembers ==
    /\ Done \in Steps /\ [at |-> "drop_scan"] \in Steps /\ [at |-> "delete_node"] \in AfterUnindex
    /\ AfterUnindex \subseteq Steps
    /\ \A rec \in Node : /\ [at |-> "put_node", rec |-> rec] \in AfterUnindex
                         /\ [at |-> "list_index", rec |-> rec] \in Steps
    /\ \A old \in Node, next \in AfterUnindex :
          [at |-> "list_unindex", old |-> old, next |-> next] \in Steps
    /\ \A todo \in SUBSET Item, next \in AfterUnindex :
          [at |-> "unindex_node", todo |-> todo, next |-> next] \in Steps
    /\ \A todo \in SUBSET Item : [at |-> "index_node", todo |-> todo, next |-> Done] \in Steps
    /\ \A todo \in SUBSET Item, item \in Item :
          [at |-> "put_entry", todo |-> todo, item |-> item, next |-> Done] \in Steps
    /\ \A def \in Def, label \in Labels \cup {None} :
          [at |-> "backfill", def |-> def, label |-> label] \in Steps
    /\ \A keys \in SUBSET Entries : [at |-> "drop_write", keys |-> keys] \in Steps
  BY DEF Steps, AfterUnindex

(* A thread without a subject is idle.                                     *)
LEMMA IdleThread ==
    ASSUME TypeInv, NEW th \in Threads
    PROVE  /\ call[th] = Idle <=> call[th].subject = None
           /\ call[th].subject \in Subjects \cup {None}
           /\ call[th].step \in Steps
           /\ call[th].subject # None <=> call[th].step # Done
<1>1. call[th] \in [subject : Subjects \cup {None}, step : Steps] /\ Fits(call[th])
  BY DEF TypeInv
<1>2. call[th].subject = None <=> call[th].step = Done
  BY <1>1, StepFields DEF Fits
<1> QED
  BY <1>1, <1>2 DEF Idle

(* Going on changes the step of the thread, and ends it at Done.           *)
LEMMA GotoFacts ==
    ASSUME TypeInv, NEW th \in Threads, NEW c \in Steps, Goto(th, c)
    PROVE  /\ call' \in [Threads -> [subject : Subjects \cup {None}, step : Steps]]
           /\ call'[th].step = c
           /\ call'[th].subject = IF c = Done THEN None ELSE call[th].subject
           /\ \A o \in Threads : o # th => call'[o] = call[o]
           /\ UNCHANGED <<race, together>>
<1>1. call[th] \in [subject : Subjects \cup {None}, step : Steps]
  BY DEF TypeInv
<1>2. CASE c = Done
  BY <1>2 DEF Goto, TypeInv, Idle
<1>3. CASE c # Done
  <2>1. [call[th] EXCEPT !.step = c] \in [subject : Subjects \cup {None}, step : Steps]
    BY <1>1
  <2>2. call' = [call EXCEPT ![th] = [call[th] EXCEPT !.step = c]]
    BY <1>3 DEF Goto
  <2>3. call'[th] = [call[th] EXCEPT !.step = c]
    BY <2>2 DEF TypeInv
  <2> QED
    BY <1>1, <1>3, <2>1, <2>2, <2>3 DEF TypeInv, Goto
<1> QED
  BY <1>2, <1>3

(* Beginning puts an idle thread at the first step.                        *)
LEMMA BeginFacts ==
    ASSUME TypeInv, NEW th \in Threads, NEW x \in Subjects, NEW c \in Steps, Begin(th, x, c)
    PROVE  /\ call' \in [Threads -> [subject : Subjects \cup {None}, step : Steps]]
           /\ call[th] = Idle /\ call[th].subject = None
           /\ call'[th].step = c /\ call'[th].subject = x
           /\ \A o \in Threads : o # th => call'[o] = call[o]
           /\ race' \in BOOLEAN /\ together' \in BOOLEAN
           /\ (race => race') /\ (together => together')
           /\ \A o \in Threads : o # th /\ call[o].subject # None =>
                 /\ together'
                 /\ ~race' => x # call[o].subject /\ x \in NodeIds /\ call[o].subject \in NodeIds
<1> DEFINE others == {o \in Threads \ {th} : call[o] # Idle}
<1>1. /\ call[th] = Idle
      /\ call' = [call EXCEPT ![th] = [subject |-> x, step |-> c]]
      /\ together' = (together \/ others # {})
      /\ race' = (race \/ \E o \in others : x = call[o].subject \/ x \notin NodeIds
                                             \/ call[o].subject \notin NodeIds)
  BY DEF Begin
<1>2. \A o \in Threads : o # th /\ call[o].subject # None => o \in others
  BY IdleThread
<1>3. race' \in BOOLEAN /\ together' \in BOOLEAN
  BY <1>1 DEF TypeInv
<1>4. /\ call' \in [Threads -> [subject : Subjects \cup {None}, step : Steps]]
      /\ call'[th].step = c /\ call'[th].subject = x
      /\ \A o \in Threads : o # th => call'[o] = call[o]
  BY <1>1 DEF TypeInv
<1>5. (race => race') /\ (together => together')
  BY <1>1
<1>6. ASSUME NEW o \in Threads, o # th, call[o].subject # None
      PROVE  /\ together'
             /\ ~race' => x # call[o].subject /\ x \in NodeIds /\ call[o].subject \in NodeIds
  <2>1. o \in others
    BY <1>2, <1>6
  <2> HIDE DEF others
  <2> QED
    BY <1>1, <2>1
<1> QED
  BY <1>1, <1>3, <1>4, <1>5, <1>6, IdleThread

(* The entry of a node under a definition is in its type.                  *)
LEMMA EntryType ==
    ASSUME NEW d \in IndexNames, NEW def \in Def, NEW n \in NodeIds, NEW node \in Node
    PROVE  Entry(d, def, n, node) \in Entries
<1>1. def.props \in SUBSET Props /\ node.props \in [Props -> Values \cup {Missing}]
  BY DEF Def, Node
<1>2. Encode(def, node) \in [def.props -> Values]
  BY <1>1, IndexAssumption DEF Encode
<1>3. Encode(def, node) \in Keys
  BY <1>1, <1>2 DEF Keys
<1> QED
  BY <1>3 DEF Entry, Entries

(* The work of keeping a node in step, and of filling a new index.         *)
LEMMA WorkType ==
    ASSUME TypeInv, NEW n \in NodeIds, NEW node \in Node
    PROVE  /\ Work(n, node) \in SUBSET Item
           /\ \A w \in Work(n, node) :
                 /\ w.node = n /\ w.rec = node /\ w.def = defs[w.name]
                 /\ defs[w.name] # None /\ Indexable(w.def, node)
           /\ \A d \in IndexNames : defs[d] # None /\ Indexable(defs[d], node) =>
                 \E w \in Work(n, node) : w.name = d
<1>1. ASSUME NEW w \in Work(n, node)
      PROVE  /\ w \in Item /\ w.node = n /\ w.rec = node /\ w.def = defs[w.name]
             /\ defs[w.name] # None /\ Indexable(w.def, node)
  <2>1. PICK d \in IndexNames : /\ defs[d] # None /\ Indexable(defs[d], node)
                                /\ w = [name |-> d, def |-> defs[d], node |-> n, rec |-> node]
    BY DEF Work
  <2>2. defs[d] \in Def
    BY <2>1 DEF TypeInv
  <2> QED
    BY <2>1, <2>2 DEF Item
<1>2. ASSUME NEW d \in IndexNames, defs[d] # None, Indexable(defs[d], node)
      PROVE  \E w \in Work(n, node) : w.name = d
  <2>1. [name |-> d, def |-> defs[d], node |-> n, rec |-> node] \in Work(n, node)
    BY <1>2 DEF Work
  <2> QED
    BY <2>1
<1> QED
  BY <1>1, <1>2

--------------------------------------------------------------------------------
(* The step of a statement fits its subject.                               *)
StepFits(x, c) ==
    /\ c.at \in OnNode \cup OnIndex \cup Indexing
    /\ c.at \in OnNode => x \in NodeIds
    /\ c.at \in OnIndex => x \in IndexNames
    /\ c.at = "put_entry" => c.item \in c.todo

(* A thread that goes on keeps the types.                                  *)
LEMMA TypeGoto ==
    ASSUME TypeInv, NEW th \in Threads, NEW c \in Steps, Goto(th, c),
           call[th].subject # None, c # Done => StepFits(call[th].subject, c),
           nodes' \in [NodeIds -> Node \cup {None}], defs' \in [IndexNames -> Def \cup {None}],
           entries' \in SUBSET Entries, ddl' \in 0 .. MaxDdl, dml' \in 0 .. MaxDml,
           partial' \in SUBSET IndexNames
    PROVE  TypeInv'
<1>1. /\ call' \in [Threads -> [subject : Subjects \cup {None}, step : Steps]]
      /\ call'[th].step = c
      /\ call'[th].subject = IF c = Done THEN None ELSE call[th].subject
      /\ \A o \in Threads : o # th => call'[o] = call[o]
      /\ UNCHANGED <<race, together>>
  BY GotoFacts
<1>2. Fits(call'[th])
  <2>1. CASE c = Done
    BY <1>1, <2>1 DEF Fits, Done, OnNode, OnIndex
  <2>2. CASE c # Done
    BY <1>1, <2>2 DEF Fits, StepFits, OnNode, OnIndex, Indexing
  <2> QED
    BY <2>1, <2>2
<1>3. \A o \in Threads : Fits(call'[o])
  BY <1>1, <1>2 DEF TypeInv
<1>4. Steps' = Steps /\ Entries' = Entries
  BY DEF Steps, Done, Entries
<1> QED
  BY <1>1, <1>3, <1>4 DEF TypeInv, Fits

(* A thread that begins keeps the types.                                   *)
LEMMA TypeBegin ==
    ASSUME TypeInv, NEW th \in Threads, NEW x \in Subjects, NEW c \in Steps, Begin(th, x, c),
           StepFits(x, c), UNCHANGED <<nodes, entries>>,
           defs' \in [IndexNames -> Def \cup {None}],
           ddl' \in 0 .. MaxDdl, dml' \in 0 .. MaxDml, partial' \in SUBSET IndexNames
    PROVE  TypeInv'
<1>1. /\ call' \in [Threads -> [subject : Subjects \cup {None}, step : Steps]]
      /\ call'[th].step = c /\ call'[th].subject = x
      /\ \A o \in Threads : o # th => call'[o] = call[o]
      /\ race' \in BOOLEAN /\ together' \in BOOLEAN
  BY BeginFacts
<1>2. x # None
  BY IndexAssumption DEF Subjects
<1>3. Fits(call'[th])
  BY <1>1, <1>2 DEF Fits, StepFits, OnNode, OnIndex, Indexing
<1>4. \A o \in Threads : Fits(call'[o])
  BY <1>1, <1>3 DEF TypeInv
<1> QED
  BY <1>1, <1>4 DEF TypeInv, Fits

(* What Loop does: on with the items left, or with what comes after.       *)
Rest(step, todo, next) ==
    IF todo # {} THEN [at |-> step, todo |-> todo, next |-> next] ELSE next

(* A loop step goes to the rest of the loop.                               *)
LEMMA LoopIsGoto ==
    ASSUME NEW th \in Threads, NEW step, NEW todo, NEW next, Loop(th, step, todo, next)
    PROVE  Goto(th, Rest(step, todo, next))
  BY DEF Loop, Rest

(* The rest of a loop is a step that fits the subject.                     *)
LEMMA RestSteps ==
    ASSUME NEW todo \in SUBSET Item
    PROVE  /\ Rest("index_node", todo, Done) \in Steps
           /\ \A x : Rest("index_node", todo, Done) # Done =>
                        StepFits(x, Rest("index_node", todo, Done))
           /\ \A next \in AfterUnindex, x \in NodeIds :
                 /\ Rest("unindex_node", todo, next) \in Steps
                 /\ StepFits(x, Rest("unindex_node", todo, next))
                 /\ Rest("unindex_node", todo, next) # Done
<1>1. CASE todo = {}
  BY <1>1, StepMembers DEF Rest, StepFits, AfterUnindex, OnNode, OnIndex, Indexing, Done
<1>2. CASE todo # {}
  BY <1>2, StepMembers DEF Rest, StepFits, OnNode, OnIndex, Indexing, Done
<1> QED
  BY <1>1, <1>2

(* The steps Next can take, once for all case splits.                      *)
LEMMA NextCases ==
    ASSUME [Next]_vars
    PROVE  \/ \E th \in Threads, n \in NodeIds :
                 \/ \E node \in NewNodes : exec_create_node(th, n, node)
                 \/ \E p \in Props, v \in Values : exec_set_property(th, n, p, v)
                 \/ exec_delete_nodes(th, n)
           \/ \E th \in Threads, d \in IndexNames :
                 \/ \E def \in Definitions, label \in Labels \cup {None} :
                       exec_create_index(th, d, def, label)
                 \/ exec_drop_index(th, d)
           \/ \E th \in Threads :
                 \/ put_node(th) \/ delete_node(th)
                 \/ list_unindex(th) \/ list_index(th)
                 \/ \E w \in call[th].step.todo : unindex_node(th, w) \/ index_node(th, w)
                 \/ put_entry(th) \/ backfill(th) \/ drop_scan(th) \/ drop_write(th)
           \/ UNCHANGED vars
<1>1. \A th \in Threads : \A w :
         /\ unindex_node(th, w) => w \in call[th].step.todo
         /\ index_node(th, w) => w \in call[th].step.todo
  BY DEF unindex_node, index_node
<1> QED
  BY <1>1 DEF Next

(* A node with one property set is a node.                                 *)
LEMMA SetPropType ==
    ASSUME NEW node \in Node, NEW p \in Props, NEW v \in Values
    PROVE  [node EXCEPT !.props[p] = v] \in Node
  BY DEF Node

(* The subject of a thread at a step.                                      *)
LEMMA SubjectAt ==
    ASSUME TypeInv, NEW th \in Threads
    PROVE  /\ call[th].step.at \in OnNode => call[th].subject \in NodeIds
           /\ call[th].step.at \in OnIndex => call[th].subject \in IndexNames
           /\ call[th].step.at # "idle" => call[th].subject # None
           /\ call[th].step.at = "put_entry" => call[th].step.item \in call[th].step.todo
  BY DEF TypeInv, Fits

(* Every step keeps the variables in their types.                          *)
LEMMA TypeStep ==
    ASSUME TypeInv, [Next]_vars
    PROVE  TypeInv'
<1> USE IndexAssumption
<1>0. /\ nodes \in [NodeIds -> Node \cup {None}] /\ defs \in [IndexNames -> Def \cup {None}]
      /\ entries \in SUBSET Entries /\ ddl \in 0 .. MaxDdl /\ dml \in 0 .. MaxDml
      /\ partial \in SUBSET IndexNames
  BY DEF TypeInv
<1>1. ASSUME NEW th \in Threads, NEW n \in NodeIds, NEW node \in NewNodes,
             exec_create_node(th, n, node)
      PROVE  TypeInv'
  <2> DEFINE c == [at |-> "put_node", rec |-> node]
  <2>1. c \in Steps /\ StepFits(n, c) /\ n \in Subjects
    BY StepMembers DEF StepFits, OnNode, OnIndex, Indexing, Subjects
  <2> HIDE DEF c
  <2> QED
    BY <1>0, <1>1, <2>1, TypeBegin DEF exec_create_node, c
<1>2. ASSUME NEW th \in Threads, NEW n \in NodeIds, NEW p \in Props, NEW v \in Values,
             exec_set_property(th, n, p, v)
      PROVE  TypeInv'
  <2> DEFINE c == [at |-> "list_unindex", old |-> nodes[n],
                   next |-> [at |-> "put_node", rec |-> [nodes[n] EXCEPT !.props[p] = v]]]
  <2>0. nodes[n] \in Node
    BY <1>0, <1>2 DEF exec_set_property
  <2>1. c \in Steps /\ StepFits(n, c) /\ n \in Subjects
    <3>1. [nodes[n] EXCEPT !.props[p] = v] \in Node
      BY <2>0, SetPropType
    <3> QED
      BY <2>0, <3>1, StepMembers DEF StepFits, OnNode, OnIndex, Indexing, Subjects
  <2>2. Begin(th, n, c) /\ dml' \in 0 .. MaxDml
    BY <1>0, <1>2 DEF exec_set_property
  <2> HIDE DEF c
  <2> QED
    BY <1>0, <1>2, <2>1, <2>2, TypeBegin DEF exec_set_property
<1>3. ASSUME NEW th \in Threads, NEW n \in NodeIds, exec_delete_nodes(th, n)
      PROVE  TypeInv'
  <2> DEFINE c == [at |-> "list_unindex", old |-> nodes[n], next |-> [at |-> "delete_node"]]
  <2>0. nodes[n] \in Node
    BY <1>0, <1>3 DEF exec_delete_nodes
  <2>1. c \in Steps /\ StepFits(n, c) /\ n \in Subjects
    BY <2>0, StepMembers DEF StepFits, OnNode, OnIndex, Indexing, Subjects
  <2>2. Begin(th, n, c) /\ dml' \in 0 .. MaxDml
    BY <1>0, <1>3 DEF exec_delete_nodes
  <2> HIDE DEF c
  <2> QED
    BY <1>0, <1>3, <2>1, <2>2, TypeBegin DEF exec_delete_nodes
<1>4. ASSUME NEW th \in Threads, NEW d \in IndexNames, NEW def \in Definitions,
             NEW label \in Labels \cup {None}, exec_create_index(th, d, def, label)
      PROVE  TypeInv'
  <2> DEFINE c == [at |-> "backfill", def |-> def, label |-> label]
  <2>1. c \in Steps /\ StepFits(d, c) /\ d \in Subjects
    BY StepMembers DEF StepFits, OnNode, OnIndex, Indexing, Subjects
  <2>2. /\ Begin(th, d, c) /\ ddl' \in 0 .. MaxDdl /\ partial' \in SUBSET IndexNames
        /\ defs' \in [IndexNames -> Def \cup {None}]
    BY <1>0, <1>4 DEF exec_create_index
  <2> HIDE DEF c
  <2> QED
    BY <1>0, <1>4, <2>1, <2>2, TypeBegin DEF exec_create_index
<1>5. ASSUME NEW th \in Threads, NEW d \in IndexNames, exec_drop_index(th, d)
      PROVE  TypeInv'
  <2> DEFINE c == [at |-> "drop_scan"]
  <2>1. c \in Steps /\ StepFits(d, c) /\ d \in Subjects
    BY StepMembers DEF StepFits, OnNode, OnIndex, Indexing, Subjects
  <2>2. /\ Begin(th, d, c) /\ ddl' \in 0 .. MaxDdl /\ defs' \in [IndexNames -> Def \cup {None}]
    BY <1>0, <1>5 DEF exec_drop_index
  <2> HIDE DEF c
  <2> QED
    BY <1>0, <1>5, <2>1, <2>2, TypeBegin DEF exec_drop_index
<1>6. ASSUME NEW th \in Threads, put_node(th)
      PROVE  TypeInv'
  <2> DEFINE c == [at |-> "list_index", rec |-> call[th].step.rec]
  <2>1. call[th].step.rec \in Node /\ call[th].subject \in NodeIds
    BY <1>6, StepFields, SubjectAt DEF put_node, At, OnNode
  <2>2. c \in Steps /\ StepFits(call[th].subject, c) /\ call[th].subject # None
    BY <2>1, StepMembers DEF StepFits, OnNode, OnIndex, Indexing
  <2>3. Goto(th, c) /\ nodes' \in [NodeIds -> Node \cup {None}]
    BY <1>0, <1>6, <2>1 DEF put_node
  <2> HIDE DEF c
  <2> QED
    BY <1>0, <1>6, <2>2, <2>3, TypeGoto DEF put_node
<1>7. ASSUME NEW th \in Threads, delete_node(th)
      PROVE  TypeInv'
  <2>1. call[th].subject \in NodeIds
    BY <1>7, SubjectAt DEF delete_node, At, OnNode
  <2>2. Goto(th, Done) /\ nodes' \in [NodeIds -> Node \cup {None}] /\ Done \in Steps
    BY <1>0, <1>7, <2>1, StepMembers DEF delete_node, End
  <2>3. call[th].subject # None
    BY <2>1
  <2> QED
    BY <1>0, <1>7, <2>2, <2>3, TypeGoto DEF delete_node
<1>8. ASSUME NEW th \in Threads, list_unindex(th)
      PROVE  TypeInv'
  <2>1. /\ call[th].subject \in NodeIds /\ call[th].subject # None
        /\ call[th].step.old \in Node /\ call[th].step.next \in AfterUnindex
    BY <1>8, SubjectAt, StepFields DEF list_unindex, At, OnNode
  <2> DEFINE c == Rest("unindex_node", Work(call[th].subject, call[th].step.old),
                       call[th].step.next)
  <2>2. Goto(th, c)
    BY <1>8, LoopIsGoto DEF list_unindex
  <2>3. c \in Steps /\ StepFits(call[th].subject, c)
    BY <2>1, WorkType, RestSteps
  <2> HIDE DEF c
  <2> QED
    BY <1>0, <1>8, <2>1, <2>2, <2>3, TypeGoto DEF list_unindex
<1>9. ASSUME NEW th \in Threads, list_index(th)
      PROVE  TypeInv'
  <2>1. /\ call[th].subject \in NodeIds /\ call[th].subject # None
        /\ call[th].step.rec \in Node
    BY <1>9, SubjectAt, StepFields DEF list_index, At, OnNode
  <2> DEFINE c == Rest("index_node", WriteWork(call[th].subject, call[th].step.rec), Done)
  <2>2. Goto(th, c)
    BY <1>9, LoopIsGoto DEF list_index
  <2>3. c \in Steps /\ (c # Done => StepFits(call[th].subject, c))
    BY <2>1, WorkType, RestSteps DEF WriteWork
  <2> HIDE DEF c
  <2> QED
    BY <1>0, <1>9, <2>1, <2>2, <2>3, TypeGoto DEF list_index
<1>10. ASSUME NEW th \in Threads, NEW w \in call[th].step.todo, unindex_node(th, w)
       PROVE  TypeInv'
  <2>1. /\ call[th].subject \in NodeIds /\ call[th].subject # None
        /\ call[th].step.todo \in SUBSET Item /\ call[th].step.next \in AfterUnindex
    BY <1>10, SubjectAt, StepFields DEF unindex_node, At, OnNode
  <2> DEFINE c == Rest("unindex_node", call[th].step.todo \ {w}, call[th].step.next)
  <2>2. Goto(th, c)
    BY <1>10, LoopIsGoto DEF unindex_node
  <2>3. c \in Steps /\ StepFits(call[th].subject, c)
    BY <2>1, RestSteps
  <2>4. entries' \in SUBSET Entries
    BY <1>0, <1>10 DEF unindex_node, Unindexed
  <2> HIDE DEF c
  <2> QED
    BY <1>0, <1>10, <2>1, <2>2, <2>3, <2>4, TypeGoto DEF unindex_node
<1>11. ASSUME NEW th \in Threads, NEW w \in call[th].step.todo, index_node(th, w)
       PROVE  TypeInv'
  <2>1. /\ call[th].subject # None /\ call[th].step.todo \in SUBSET Item
        /\ call[th].step.next = Done /\ w \in Item
    BY <1>11, SubjectAt, StepFields DEF index_node, At, Indexing
  <2>2. Entry(w.name, w.def, w.node, w.rec) \in Entries
    BY <2>1, EntryType DEF Item
  <2>3. CASE w.def.unique /\ ~Taken(w)
    <3> DEFINE c == [at |-> "put_entry", todo |-> call[th].step.todo, item |-> w,
                     next |-> call[th].step.next]
    <3>1. c \in Steps /\ StepFits(call[th].subject, c)
      BY <2>1, StepMembers DEF StepFits, OnNode, OnIndex, Indexing
    <3>2. Goto(th, c) /\ UNCHANGED <<entries, partial, nodes, defs, ddl, dml>>
      BY <1>11, <2>3 DEF index_node
    <3> HIDE DEF c
    <3> QED
      BY <1>0, <2>1, <3>1, <3>2, TypeGoto
  <2>4. CASE ~(w.def.unique /\ ~Taken(w))
    <3> DEFINE c == Rest("index_node", call[th].step.todo \ {w}, Done)
    <3>1. Goto(th, c) /\ UNCHANGED <<nodes, defs, ddl, dml>>
      BY <1>11, <2>1, <2>4, LoopIsGoto DEF index_node
    <3>2. c \in Steps /\ (c # Done => StepFits(call[th].subject, c))
      BY <2>1, RestSteps
    <3>3. entries' \in SUBSET Entries /\ partial' \in SUBSET IndexNames
      BY <1>0, <1>11, <2>1, <2>2, <2>4 DEF index_node, Item
    <3> HIDE DEF c
    <3> QED
      BY <1>0, <2>1, <3>1, <3>2, <3>3, TypeGoto
  <2> QED
    BY <2>3, <2>4
<1>12. ASSUME NEW th \in Threads, put_entry(th)
       PROVE  TypeInv'
  <2> DEFINE w == call[th].step.item
             c == Rest("index_node", call[th].step.todo \ {w}, Done)
  <2>1. /\ call[th].subject # None /\ call[th].step.todo \in SUBSET Item
        /\ call[th].step.next = Done /\ w \in Item
    BY <1>12, SubjectAt, StepFields DEF put_entry, At, Indexing
  <2>2. Entry(w.name, w.def, w.node, w.rec) \in Entries
    BY <2>1, EntryType DEF Item
  <2>3. Goto(th, c) /\ entries' \in SUBSET Entries
    BY <1>0, <1>12, <2>1, <2>2, LoopIsGoto DEF put_entry
  <2>4. c \in Steps /\ (c # Done => StepFits(call[th].subject, c))
    BY <2>1, RestSteps
  <2> HIDE DEF c, w
  <2> QED
    BY <1>0, <1>12, <2>1, <2>3, <2>4, TypeGoto DEF put_entry
<1>13. ASSUME NEW th \in Threads, backfill(th)
       PROVE  TypeInv'
  <2> DEFINE d == call[th].subject
             s == call[th].step
             found == BackfillNodes(s.def, s.label)
             todo == {[name |-> d, def |-> s.def, node |-> n, rec |-> nodes[n]] : n \in found}
             c == Rest("index_node", todo, Done)
  <2>1. d \in IndexNames /\ d # None /\ s.def \in Def
    BY <1>13, SubjectAt, StepFields DEF backfill, At, OnIndex
  <2>2. todo \in SUBSET Item
    BY <1>0, <2>1 DEF BackfillNodes, Item
  <2>3. Goto(th, c)
    BY <1>13, LoopIsGoto DEF backfill
  <2>4. partial' \in SUBSET IndexNames
    BY <1>0, <1>13, <2>1 DEF backfill
  <2> HIDE DEF todo
  <2>5. c \in Steps /\ (c # Done => StepFits(d, c))
    BY <2>2, RestSteps
  <2> HIDE DEF c
  <2> QED
    BY <1>0, <1>13, <2>1, <2>3, <2>4, <2>5, TypeGoto DEF backfill
<1>14. ASSUME NEW th \in Threads, drop_scan(th)
       PROVE  TypeInv'
  <2> DEFINE c == [at |-> "drop_write", keys |-> {e \in entries : e[1] = call[th].subject}]
  <2>1. call[th].subject \in IndexNames /\ call[th].subject # None
    BY <1>14, SubjectAt DEF drop_scan, At, OnIndex
  <2>2. c \in Steps /\ StepFits(call[th].subject, c)
    BY <1>0, <2>1, StepMembers DEF StepFits, OnNode, OnIndex, Indexing
  <2>3. Goto(th, c)
    BY <1>14 DEF drop_scan
  <2> HIDE DEF c
  <2> QED
    BY <1>0, <1>14, <2>1, <2>2, <2>3, TypeGoto DEF drop_scan
<1>15. ASSUME NEW th \in Threads, drop_write(th)
       PROVE  TypeInv'
  <2>1. call[th].subject \in IndexNames /\ call[th].subject # None
    BY <1>15, SubjectAt DEF drop_write, At, OnIndex
  <2>2. Goto(th, Done) /\ Done \in Steps
    BY <1>15, StepMembers DEF drop_write, End
  <2> QED
    BY <1>0, <1>15, <2>1, <2>2, TypeGoto DEF drop_write
<1>16. CASE UNCHANGED vars
  BY <1>16 DEF vars, TypeInv, Fits
<1> QED
  BY NextCases, <1>1, <1>2, <1>3, <1>4, <1>5, <1>6, <1>7, <1>8, <1>9, <1>10, <1>11, <1>12,
     <1>13, <1>14, <1>15, <1>16

--------------------------------------------------------------------------------
(* A step of thread th, whose statement is about x before or after it: the *)
(* other threads stand still, and without a race they are about other      *)
(* nodes.                                                                  *)
Apart(o, x) ==
    call[o].subject # None =>
        /\ together'
        /\ ~race' => call[o].subject # x /\ x \in NodeIds /\ call[o].subject \in NodeIds

Moves(th, x) ==
    /\ \A o \in Threads \ {th} : call'[o] = call[o] /\ Apart(o, x)
    /\ call[th].subject \in {x, None} /\ call'[th].subject \in {x, None}
    /\ (race => race') /\ (together => together') /\ (race' => together')

(* A thread that begins moves alone.                                       *)
LEMMA BeginMoves ==
    ASSUME TypeInv, AloneInv, NEW th \in Threads, NEW x \in Subjects, NEW c \in Steps,
           Begin(th, x, c)
    PROVE  Moves(th, x)
<1>1. race' => together'
  BY DEF Begin, AloneInv
<1> QED
  BY <1>1, BeginFacts DEF Moves, Apart

(* A thread that goes on moves alone.                                      *)
LEMMA GotoMoves ==
    ASSUME TypeInv, AloneInv, NEW th \in Threads, NEW c \in Steps, Goto(th, c),
           call[th].subject # None
    PROVE  Moves(th, call[th].subject)
  BY GotoFacts DEF Moves, Apart, AloneInv

(* Statements under way stay apart.                                        *)
LEMMA AloneStep ==
    ASSUME AloneInv, NEW th \in Threads, NEW x \in Subjects, Moves(th, x)
    PROVE  AloneInv'
<1>1. ASSUME NEW o \in Threads, NEW p \in Threads, o # p,
             call'[o].subject # None, call'[p].subject # None
      PROVE  /\ together'
             /\ ~race' => /\ call'[o].subject # call'[p].subject
                          /\ call'[o].subject \in NodeIds /\ call'[p].subject \in NodeIds
  <2>1. CASE o = th
    BY <1>1, <2>1 DEF Moves, Apart
  <2>2. CASE p = th
    BY <1>1, <2>2 DEF Moves, Apart
  <2>3. CASE o # th /\ p # th
    BY <1>1, <2>3 DEF Moves, AloneInv
  <2> QED
    BY <2>1, <2>2, <2>3
<1> QED
  BY <1>1 DEF AloneInv, Moves

(* What the other threads have read stays so.                              *)
LEMMA WorkStep ==
    ASSUME TypeInv, WorkInv, NEW th \in Threads, NEW x \in Subjects, Moves(th, x),
           \A n \in NodeIds : n # x => nodes'[n] = nodes[n],
           x \in NodeIds => defs' = defs,
           ~race' => WorkOf(th)'
    PROVE  WorkInv'
<1> SUFFICES ASSUME ~race', NEW o \in Threads, o # th
             PROVE  WorkOf(o)'
  BY DEF WorkInv
<1>1. WorkOf(o) /\ call'[o] = call[o] /\ Apart(o, x)
  BY DEF WorkInv, Moves
<1>2. CASE call[o].subject = None
  BY <1>1, <1>2, IdleThread DEF WorkOf, Done, Indexing
<1>3. CASE call[o].subject # None
  <2> DEFINE y == call[o].subject
             c == call[o].step
  <2>1. y \in NodeIds /\ y # x /\ x \in NodeIds /\ y \notin IndexNames
    BY <1>1, <1>3, IndexAssumption DEF Apart
  <2>2. defs' = defs /\ nodes'[y] = nodes[y]
    BY <2>1
  <2>3. c.at \notin OnIndex
    BY <2>1, SubjectAt
  <2>4. c.at \in Indexing \cup {"unindex_node"} => c.todo \in SUBSET Item
    BY StepFields DEF Indexing
  <2>5. ASSUME c.at \in Indexing \cup {"unindex_node"}, NEW w \in c.todo
        PROVE  w.node = y /\ Current(w) /\ Current(w)'
    <3>1. w.name \in IndexNames
      BY <2>4, <2>5 DEF Item
    <3>2. w.node = y /\ Current(w)
      BY <1>1, <2>1, <2>5, <3>1 DEF WorkOf
    <3> QED
      BY <2>2, <3>2 DEF Current, Indexable
  <2>6. /\ c.at = "unindex_node" => \A w \in c.todo : w.node = y /\ Current(w)'
        /\ c.at \in Indexing => \A w \in c.todo : y \in {w.node, w.name} /\ Current(w)'
    BY <2>5
  <2> QED
    BY <1>1, <2>2, <2>3, <2>6 DEF WorkOf, OnIndex
<1> QED
  BY <1>2, <1>3

--------------------------------------------------------------------------------
(* Exact as seen from one thread.                                          *)
ExactBy(th, d, n) ==
    LET due == nodes[n] # None /\ ~Blank(th, d, n) /\ Indexable(defs[d], nodes[n])
    IN /\ due => Entry(d, defs[d], n, nodes[n]) \in entries
       /\ \A e \in entries : e[1] = d /\ e[3] = n => due /\ e[2] = Encode(defs[d], nodes[n])

(* A thread that is idle, or about another node, keeps no entry back.      *)
LEMMA NotBlank ==
    ASSUME NEW o \in Threads, NEW d \in IndexNames, NEW n \in NodeIds
    PROVE  /\ WorkOf(o) /\ call[o].subject \notin {d, n} => ~Blank(o, d, n)
           /\ WorkOf(o)' /\ call'[o].subject \notin {d, n} => ~Blank(o, d, n)'
<1>1. WorkOf(o) /\ call[o].subject \notin {d, n} =>
         (call[o].step.at \in Indexing => ~Pending(call[o].step, d, n))
  BY DEF WorkOf, Pending
<1>2. WorkOf(o)' /\ call'[o].subject \notin {d, n} =>
         (call'[o].step.at \in Indexing => ~Pending(call[o].step, d, n)')
  BY DEF WorkOf, Pending
<1> QED
  BY <1>1, <1>2 DEF Blank

(* With no other thread on node n or index d, exactness is that thread's.  *)
LEMMA ExactIsBy ==
    ASSUME NEW th \in Threads, NEW d \in IndexNames, NEW n \in NodeIds
    PROVE  /\ (\A o \in Threads \ {th} : WorkOf(o) /\ call[o].subject \notin {d, n}) =>
                  (Exact(d, n) <=> ExactBy(th, d, n))
           /\ (\A o \in Threads \ {th} : WorkOf(o)' /\ call'[o].subject \notin {d, n}) =>
                  (Exact(d, n)' <=> ExactBy(th, d, n)')
<1>1. ASSUME \A o \in Threads \ {th} : WorkOf(o) /\ call[o].subject \notin {d, n}
      PROVE  Exact(d, n) <=> ExactBy(th, d, n)
  <2>1. Blanked(d, n) <=> Blank(th, d, n)
    BY <1>1, NotBlank DEF Blanked
  <2> QED
    BY <2>1 DEF Exact, ExactBy, Due
<1>2. ASSUME \A o \in Threads \ {th} : WorkOf(o)' /\ call'[o].subject \notin {d, n}
      PROVE  Exact(d, n)' <=> ExactBy(th, d, n)'
  <2>1. Blanked(d, n)' <=> Blank(th, d, n)'
    BY <1>2, NotBlank DEF Blanked
  <2> QED
    BY <2>1 DEF Exact, ExactBy, Due
<1> QED
  BY <1>1, <1>2

(* A statement about a node disturbs the entries of that node only.        *)
LEMMA NodeExact ==
    ASSUME TypeInv, WorkInv, ExactInv, WorkInv', NEW th \in Threads, NEW x \in NodeIds,
           Moves(th, x), defs' = defs, partial \subseteq partial',
           \A n \in NodeIds : n # x => nodes'[n] = nodes[n],
           \A e : e[3] # x => (e \in entries' <=> e \in entries),
           ~race' => \A e \in entries' : e \in entries \/ defs[e[1]] # None,
           ~race' => \A d \in IndexNames \ partial' :
                        defs[d] # None /\ ExactBy(th, d, x) => ExactBy(th, d, x)'
    PROVE  ExactInv'
<1> SUFFICES ASSUME ~race', NEW d \in IndexNames \ partial'
             PROVE  /\ defs[d] = None /\ ~Busy(d)' => \A e \in entries' : e[1] # d
                    /\ defs[d] # None => \A n \in NodeIds : Exact(d, n)'
  BY DEF ExactInv
<1>0. ~race /\ d \in IndexNames \ partial /\ (\A o \in Threads : WorkOf(o) /\ WorkOf(o)')
  BY DEF Moves, WorkInv
<1>1. /\ defs[d] = None /\ ~Busy(d) => \A e \in entries : e[1] # d
      /\ defs[d] # None => \A n \in NodeIds : Exact(d, n)
  BY <1>0 DEF ExactInv
<1>2. x # d /\ None # d /\ x # None /\ \A n \in NodeIds : n # d
  BY IndexAssumption
<1>3. \A o \in Threads \ {th} : call'[o] = call[o]
  BY DEF Moves
<1>4. \A o \in Threads \ {th} : call[o].subject \in (NodeIds \ {x}) \cup {None}
  BY DEF Moves, Apart
<1>5. \A o \in Threads \ {th} : call[o].subject \notin {d, x} /\ call'[o].subject \notin {d, x}
  BY <1>2, <1>3, <1>4
<1>6. ASSUME defs[d] = None, ~Busy(d)', NEW e \in entries'
      PROVE  e[1] # d
  <2>1. ~Busy(d)
    <3> SUFFICES ASSUME NEW o \in Threads, call[o].subject = d
                 PROVE  FALSE
      BY DEF Busy
    <3> QED
      BY <1>2, <1>5 DEF Moves
  <2> QED
    BY <1>0, <1>1, <1>6, <2>1
<1>7. ASSUME defs[d] # None, NEW n \in NodeIds
      PROVE  Exact(d, n)'
  <2>1. CASE n = x
    BY <1>0, <1>1, <1>5, <1>7, <2>1, ExactIsBy
  <2>2. CASE n # x
    <3>1. ~Blank(th, d, n) /\ ~Blank(th, d, n)'
      <4>1. call[th].subject \notin {d, n} /\ call'[th].subject \notin {d, n}
        BY <1>2, <2>2, IndexAssumption DEF Moves
      <4> QED
        BY <1>0, <4>1, NotBlank
    <3>2. \A o \in Threads \ {th} : Blank(o, d, n)' = Blank(o, d, n)
      BY <1>3 DEF Blank, Pending
    <3>3. Blanked(d, n)' <=> Blanked(d, n)
      BY <3>1, <3>2 DEF Blanked
    <3>4. nodes'[n] = nodes[n] /\ Exact(d, n)
      BY <1>1, <1>7, <2>2
    <3>5. Due(d, n)' <=> Due(d, n)
      BY <3>3, <3>4 DEF Due, Indexable
    <3>6. \A e : e[3] = n => (e \in entries' <=> e \in entries)
      BY <2>2
    <3>7. Entry(d, defs[d], n, nodes[n])[3] = n
      BY DEF Entry
    <3>8. Due(d, n)' => Entry(d, defs[d], n, nodes[n]) \in entries'
      BY <3>4, <3>5, <3>6, <3>7 DEF Exact
    <3>9. \A e \in entries' : e[1] = d /\ e[3] = n =>
             Due(d, n)' /\ e[2] = Encode(defs[d], nodes[n])
      BY <3>4, <3>5, <3>6 DEF Exact
    <3> QED
      BY <3>4, <3>8, <3>9 DEF Exact, Entry, Encode
  <2> QED
    BY <2>1, <2>2
<1> QED
  BY <1>6, <1>7

(* A statement about an index is alone and disturbs that index only.       *)
LEMMA IndexExact ==
    ASSUME TypeInv, WorkInv, ExactInv, WorkInv', NEW th \in Threads, NEW y \in IndexNames,
           Moves(th, y), nodes' = nodes, \A d \in IndexNames : d # y => defs'[d] = defs[d],
           \A d \in IndexNames : d # y => (d \in partial' <=> d \in partial),
           \A e : e[1] # y => (e \in entries' <=> e \in entries),
           ~race' /\ y \notin partial' =>
              /\ defs'[y] = None /\ call'[th].subject = None => \A e \in entries' : e[1] # y
              /\ defs'[y] # None => \A n \in NodeIds : ExactBy(th, y, n)'
    PROVE  ExactInv'
<1> SUFFICES ASSUME ~race', NEW d \in IndexNames \ partial'
             PROVE  /\ defs'[d] = None /\ ~Busy(d)' => \A e \in entries' : e[1] # d
                    /\ defs'[d] # None => \A n \in NodeIds : Exact(d, n)'
  BY DEF ExactInv
<1>0. ~race /\ (\A o \in Threads : WorkOf(o) /\ WorkOf(o)')
  BY DEF Moves, WorkInv
<1>1. y # None /\ y \notin NodeIds /\ None \notin NodeIds /\ d # None
  BY IndexAssumption
<1>2. \A o \in Threads \ {th} : call'[o] = call[o] /\ call[o].subject = None
  BY <1>1 DEF Moves, Apart
<1>3. CASE d = y
  <2>1. call'[th].subject # None => Busy(y)'
    BY <1>1 DEF Busy, Idle, Moves
  <2>2. \A n \in NodeIds : Exact(d, n)' <=> ExactBy(th, d, n)'
    BY <1>0, <1>1, <1>2, ExactIsBy
  <2> QED
    BY <1>3, <2>1, <2>2
<1>4. CASE d # y
  <2>1. d \in IndexNames \ partial /\ defs'[d] = defs[d]
    BY <1>4
  <2>2. ~Busy(d)
    BY <1>1, <1>2, <1>4 DEF Busy, Moves
  <2>3. \A o \in Threads : call[o].subject \in {y, None} /\ call'[o].subject \in {y, None}
    BY <1>2 DEF Moves
  <2>4. \A n \in NodeIds : ~Blanked(d, n) /\ ~Blanked(d, n)'
    BY <1>0, <1>1, <1>4, <2>3, NotBlank DEF Blanked
  <2>5. \A e : e[1] = d => (e \in entries' <=> e \in entries)
    BY <1>4
  <2>6. ASSUME defs[d] # None, NEW n \in NodeIds
        PROVE  Exact(d, n)'
    <3>1. Exact(d, n)
      BY <1>0, <2>1, <2>6 DEF ExactInv
    <3>2. Due(d, n)' <=> Due(d, n)
      BY <2>1, <2>4 DEF Due, Indexable
    <3>3. Entry(d, defs[d], n, nodes[n])[1] = d
      BY DEF Entry
    <3>4. Due(d, n)' => Entry(d, defs[d], n, nodes[n]) \in entries'
      BY <2>5, <3>1, <3>2, <3>3 DEF Exact
    <3>5. \A e \in entries' : e[1] = d /\ e[3] = n =>
             Due(d, n)' /\ e[2] = Encode(defs[d], nodes[n])
      BY <2>5, <3>1, <3>2 DEF Exact
    <3> QED
      BY <2>1, <3>4, <3>5 DEF Exact, Entry, Encode
  <2>7. ASSUME defs[d] = None, NEW e \in entries'
        PROVE  e[1] # d
    BY <1>0, <2>1, <2>2, <2>5, <2>7 DEF ExactInv
  <2> QED
    BY <2>1, <2>6, <2>7
<1> QED
  BY <1>3, <1>4

(* Uniqueness survives a step that adds no entry and no index.             *)
LEMMA UniqueKeep ==
    ASSUME UniqueInv, NEW th \in Threads, NEW x \in Subjects, TypeInv', Moves(th, x),
           call'[th].step.at # "put_entry",
           ~together' => \A d \in IndexNames : defs'[d] # None /\ d \notin partial' =>
               \/ defs'[d] = defs[d] /\ d \notin partial
                  /\ \A e \in entries' : e[1] = d => e \in entries
               \/ ~defs'[d].unique \/ Unique(d)'
    PROVE  UniqueInv'
<1> SUFFICES ASSUME ~together'
             PROVE  UniqueInv'
  BY DEF UniqueInv
<1>0. ~together
  BY DEF Moves
<1>1. ASSUME NEW o \in Threads, o # th
      PROVE  call'[o].step.at # "put_entry"
  <2>1. call'[o].subject = None
    BY <1>1 DEF Moves, Apart
  <2> QED
    BY <1>1, <2>1 DEF TypeInv, Fits
<1>2. ASSUME NEW d \in IndexNames, defs'[d] # None, defs'[d].unique, d \notin partial'
      PROVE  Unique(d)'
  BY <1>0, <1>2 DEF UniqueInv, Unique
<1> QED
  BY <1>1, <1>2 DEF UniqueInv

--------------------------------------------------------------------------------
(* A statement that begins on a node, at a step that keeps back no entries *)
(* unless the node is new.                                                 *)
LEMMA BeginNode ==
    ASSUME IndInv, TypeInv', NEW th \in Threads, NEW x \in NodeIds, NEW c \in Steps,
           Begin(th, x, c), UNCHANGED <<nodes, defs, entries, partial>>,
           \/ c.at = "list_unindex" /\ c.old = nodes[x]
           \/ c.at = "put_node" /\ nodes[x] = None /\ \A e \in entries : e[3] # x
    PROVE  IndInv'
<1>1. x \in Subjects
  BY DEF Subjects
<1>2. Moves(th, x)
  BY <1>1, BeginMoves DEF IndInv
<1>3. call'[th].step = c /\ call'[th].subject = x /\ call[th] = Idle
  BY <1>1, BeginFacts DEF IndInv
<1>4. AloneInv'
  BY <1>1, <1>2, AloneStep DEF IndInv
<1>5. WorkOf(th)'
  BY <1>3 DEF WorkOf, Indexing
<1>6. WorkInv'
  BY <1>1, <1>2, <1>5, WorkStep DEF IndInv
<1>7. ~Blank(th, x, x) /\ \A d : ~Blank(th, d, x)
  BY <1>3 DEF Blank, Idle, Done, Indexing
<1>8. ASSUME NEW d \in IndexNames, ExactBy(th, d, x)
      PROVE  ExactBy(th, d, x)'
  <2>1. CASE c.at = "list_unindex"
    <3>1. d # x
      BY IndexAssumption
    <3>2. ~Blank(th, d, x)'
      BY <1>3, <2>1, <3>1 DEF Blank, Indexing
    <3> QED
      BY <1>7, <1>8, <3>2 DEF ExactBy, Entry, Encode, Indexable
  <2>2. CASE nodes[x] = None /\ \A e \in entries : e[3] # x
    BY <2>2 DEF ExactBy
  <2> QED
    BY <2>1, <2>2
<1>9. ExactInv'
  BY <1>2, <1>6, <1>8, NodeExact DEF IndInv
<1>10. call'[th].step.at # "put_entry"
  BY <1>3
<1>11. UniqueInv'
  BY <1>1, <1>2, <1>10, UniqueKeep DEF IndInv
<1> QED
  BY <1>4, <1>6, <1>9, <1>11 DEF IndInv

(* A statement on a node that goes on, to a step without an entry to put.  *)
LEMMA GoNode ==
    ASSUME IndInv, TypeInv', NEW th \in Threads, NEW x \in NodeIds, NEW c \in Steps,
           Goto(th, c), call[th].subject = x, c.at # "put_entry",
           UNCHANGED <<defs, partial>>, entries' \subseteq entries,
           \A n \in NodeIds : n # x => nodes'[n] = nodes[n],
           \A e : e[3] # x => (e \in entries' <=> e \in entries),
           ~race => WorkOf(th)',
           ~race => \A d \in IndexNames : defs[d] # None /\ ExactBy(th, d, x) => ExactBy(th, d, x)'
    PROVE  IndInv'
<1>1. x \in Subjects /\ x # None
  BY IndexAssumption DEF Subjects
<1>2. Moves(th, x)
  BY <1>1, GotoMoves DEF IndInv
<1>3. call'[th].step = c /\ race' = race
  BY GotoFacts DEF IndInv
<1>4. AloneInv'
  BY <1>1, <1>2, AloneStep DEF IndInv
<1>5. WorkInv'
  BY <1>1, <1>2, <1>3, WorkStep DEF IndInv
<1>6. ExactInv'
  BY <1>2, <1>3, <1>5, NodeExact DEF IndInv
<1>7. UniqueInv'
  BY <1>1, <1>2, <1>3, UniqueKeep DEF IndInv
<1> QED
  BY <1>4, <1>5, <1>6, <1>7 DEF IndInv

(* Creating a node, and writing to it, starts in good order.               *)
LEMMA BeginNodeSteps ==
    ASSUME IndInv, TypeInv', NEW th \in Threads, NEW n \in NodeIds,
           \/ \E node \in NewNodes : exec_create_node(th, n, node)
           \/ \E p \in Props, v \in Values : exec_set_property(th, n, p, v)
           \/ exec_delete_nodes(th, n)
    PROVE  IndInv'
<1> USE IndexAssumption
<1>0. nodes[n] \in Node \cup {None}
  BY DEF IndInv, TypeInv
<1>1. ASSUME NEW node \in NewNodes, exec_create_node(th, n, node)
      PROVE  IndInv'
  <2> DEFINE c == [at |-> "put_node", rec |-> node]
  <2>1. c \in Steps /\ c.at = "put_node"
    BY StepMembers
  <2>2. Begin(th, n, c)
    BY <1>1 DEF exec_create_node
  <2> HIDE DEF c
  <2> QED
    BY <1>1, <2>1, <2>2, BeginNode DEF exec_create_node
<1>2. ASSUME NEW p \in Props, NEW v \in Values, exec_set_property(th, n, p, v)
      PROVE  IndInv'
  <2> DEFINE c == [at |-> "list_unindex", old |-> nodes[n],
                   next |-> [at |-> "put_node", rec |-> [nodes[n] EXCEPT !.props[p] = v]]]
  <2>1. nodes[n] \in Node /\ [nodes[n] EXCEPT !.props[p] = v] \in Node
    BY <1>0, <1>2, SetPropType DEF exec_set_property
  <2>2. c \in Steps /\ c.at = "list_unindex" /\ c.old = nodes[n]
    BY <2>1, StepMembers
  <2>3. Begin(th, n, c)
    BY <1>2 DEF exec_set_property
  <2> HIDE DEF c
  <2> QED
    BY <1>2, <2>2, <2>3, BeginNode DEF exec_set_property
<1>3. ASSUME exec_delete_nodes(th, n)
      PROVE  IndInv'
  <2> DEFINE c == [at |-> "list_unindex", old |-> nodes[n], next |-> [at |-> "delete_node"]]
  <2>1. nodes[n] \in Node
    BY <1>0, <1>3 DEF exec_delete_nodes
  <2>2. c \in Steps /\ c.at = "list_unindex" /\ c.old = nodes[n]
    BY <2>1, StepMembers
  <2>3. Begin(th, n, c)
    BY <1>3 DEF exec_delete_nodes
  <2> HIDE DEF c
  <2> QED
    BY <1>3, <2>2, <2>3, BeginNode DEF exec_delete_nodes
<1> QED
  BY <1>1, <1>2, <1>3

(* Storing and deleting the record, with the node out of every index.      *)
LEMMA RecordSteps ==
    ASSUME IndInv, TypeInv', NEW th \in Threads, put_node(th) \/ delete_node(th)
    PROVE  IndInv'
<1>x. PICK x \in NodeIds : x = call[th].subject
  BY SubjectAt DEF IndInv, put_node, delete_node, At, OnNode
<1>0. nodes \in [NodeIds -> Node \cup {None}] /\ call[th].step.at \in {"put_node", "delete_node"}
  BY DEF IndInv, TypeInv, put_node, delete_node, At
<1>1. \A d : Blank(th, d, x)
  BY <1>x, <1>0 DEF Blank
<1>2. CASE put_node(th)
  <2> DEFINE c == [at |-> "list_index", rec |-> call[th].step.rec]
  <2>1. call[th].step.rec \in Node
    BY <1>2, StepFields DEF IndInv, put_node, At
  <2>2. c \in Steps /\ c.at = "list_index" /\ c.rec = call[th].step.rec /\ c # Done
    BY <2>1, StepMembers DEF Done
  <2>3. Goto(th, c)
    BY <1>2 DEF put_node
  <2> HIDE DEF c
  <2>4. call'[th].step = c /\ call'[th].subject = x
    BY <1>x, <2>2, <2>3, GotoFacts DEF IndInv
  <2>5. nodes'[x] = call[th].step.rec /\ \A n \in NodeIds : n # x => nodes'[n] = nodes[n]
    BY <1>x, <1>0, <1>2 DEF put_node
  <2>6. WorkOf(th)'
    BY <2>2, <2>4, <2>5 DEF WorkOf, Indexing
  <2>7. \A d : Blank(th, d, x)'
    BY <2>2, <2>4 DEF Blank
  <2>8. UNCHANGED <<defs, partial, entries>>
    BY <1>2 DEF put_node
  <2>9. \A d \in IndexNames : ExactBy(th, d, x) => ExactBy(th, d, x)'
    BY <1>1, <2>7, <2>8 DEF ExactBy
  <2> QED
    BY <1>x, <1>0, <2>2, <2>3, <2>5, <2>6, <2>8, <2>9, GoNode
<1>3. CASE delete_node(th)
  <2>1. Goto(th, Done) /\ Done \in Steps /\ Done.at # "put_entry"
    BY <1>3, StepMembers DEF delete_node, End, Done
  <2>2. nodes'[x] = None /\ \A n \in NodeIds : n # x => nodes'[n] = nodes[n]
    BY <1>x, <1>0, <1>3 DEF delete_node
  <2>3. call'[th].step = Done /\ call'[th].subject = None
    BY <1>x, <2>1, GotoFacts DEF IndInv
  <2>4. WorkOf(th)'
    BY <2>3 DEF WorkOf, Indexing, Done
  <2>5. UNCHANGED <<defs, partial, entries>>
    BY <1>3 DEF delete_node
  <2>6. \A d \in IndexNames : ExactBy(th, d, x) => ExactBy(th, d, x)'
    BY <1>1, <2>2, <2>5 DEF ExactBy
  <2> QED
    BY <1>x, <1>0, <2>1, <2>2, <2>4, <2>5, <2>6, GoNode
<1> QED
  BY <1>2, <1>3

(* The lists of index_node_on_write and unindex_node_on_delete: an index   *)
(* that is not listed has no entry to keep in step.                        *)
LEMMA ListSteps ==
    ASSUME IndInv, TypeInv', NEW th \in Threads, list_unindex(th) \/ list_index(th)
    PROVE  IndInv'
<1>x. PICK x \in NodeIds : x = call[th].subject
  BY SubjectAt DEF IndInv, list_unindex, list_index, At, OnNode
<1> DEFINE s == call[th].step
<1>0. nodes \in [NodeIds -> Node \cup {None}]
      /\ UNCHANGED <<nodes, defs, partial, entries>> /\ x \notin IndexNames
  BY IndexAssumption DEF IndInv, TypeInv, list_unindex, list_index
<1>1. CASE list_unindex(th)
  <2> DEFINE todo == Work(x, s.old)
             c == Rest("unindex_node", todo, s.next)
  <2>1. s.at = "list_unindex" /\ s.old \in Node /\ s.next \in AfterUnindex
    BY <1>1, StepFields DEF IndInv, list_unindex, At
  <2>2. /\ todo \in SUBSET Item
        /\ \A w \in todo : /\ w.node = x /\ w.rec = s.old /\ w.def = defs[w.name]
                           /\ Indexable(w.def, s.old)
        /\ \A d \in IndexNames : defs[d] # None /\ Indexable(defs[d], s.old) =>
              \E w \in todo : w.name = d
    BY <1>x, <1>0, <2>1, WorkType DEF IndInv
  <2>3. Goto(th, c)
    BY <1>x, <1>1, LoopIsGoto DEF list_unindex
  <2> HIDE DEF todo
  <2>4. c \in Steps /\ c # Done
    BY <1>x, <1>0, <2>1, <2>2, RestSteps
  <2>5. /\ todo # {} => c = [at |-> "unindex_node", todo |-> todo, next |-> s.next]
        /\ todo = {} => c.at \in {"put_node", "delete_node"}
    BY <2>1 DEF Rest, AfterUnindex
  <2> HIDE DEF c
  <2>6. c.at # "put_entry" /\ call'[th].step = c /\ call'[th].subject = x
    BY <1>x, <2>3, <2>4, <2>5, GotoFacts DEF IndInv
  <2>7. ~race => s.old = nodes[x]
    BY <1>x, <2>1 DEF IndInv, WorkInv, WorkOf
  <2>8. ASSUME ~race
        PROVE  WorkOf(th)'
    <3>1. \A w \in todo : Current(w)'
      BY <1>x, <1>0, <2>2, <2>7, <2>8 DEF Current, Indexable
    <3>2. CASE todo = {}
      BY <2>5, <2>6, <3>2 DEF WorkOf, Indexing
    <3>3. CASE todo # {}
      BY <2>2, <2>5, <2>6, <3>1, <3>3 DEF WorkOf, Indexing
    <3> QED
      BY <3>2, <3>3
  <2>9. ASSUME ~race, NEW d \in IndexNames, defs[d] # None, ExactBy(th, d, x)
        PROVE  ExactBy(th, d, x)'
    <3>1. ~Blank(th, d, x)
      BY <1>x, <1>0, <2>1 DEF Blank, Indexing
    <3>2. Blank(th, d, x)' => ~Indexable(defs[d], nodes[x])
      <4>1. CASE todo = {}
        BY <2>2, <2>7, <2>9, <4>1
      <4>2. CASE todo # {}
        BY <1>x, <1>0, <2>2, <2>5, <2>6, <2>7, <2>9, <4>2 DEF Blank, Indexing, Pending
      <4> QED
        BY <4>1, <4>2
    <3> QED
      BY <1>0, <2>9, <3>1, <3>2 DEF ExactBy, Entry, Encode, Indexable
  <2> QED
    BY <1>x, <1>0, <2>3, <2>4, <2>6, <2>8, <2>9, GoNode
<1>2. CASE list_index(th)
  <2> DEFINE todo == WriteWork(x, s.rec)
             c == Rest("index_node", todo, Done)
  <2>1. s.at = "list_index" /\ s.rec \in Node
    BY <1>2, StepFields DEF IndInv, list_index, At
  <2>2. /\ todo \in SUBSET Item
        /\ \A w \in todo : /\ w.node = x /\ w.rec = s.rec /\ w.def = defs[w.name]
                           /\ Indexable(w.def, s.rec)
        /\ \A d \in IndexNames : defs[d] # None /\ Indexable(defs[d], s.rec) =>
              \E w \in todo : w.name = d
    BY <1>x, <1>0, <2>1, WorkType DEF IndInv, WriteWork
  <2>3. Goto(th, c)
    BY <1>x, <1>2, LoopIsGoto DEF list_index
  <2> HIDE DEF todo
  <2>4. c \in Steps
    BY <2>2, RestSteps
  <2>5. /\ todo # {} => c = [at |-> "index_node", todo |-> todo, next |-> Done]
        /\ todo = {} => c = Done
    BY DEF Rest
  <2> HIDE DEF c
  <2>6. c.at # "put_entry" /\ call'[th].step = c
        /\ call'[th].subject = IF c = Done THEN None ELSE x
    BY <1>x, <2>3, <2>4, <2>5, GotoFacts DEF IndInv, Done
  <2>7. ~race => s.rec = nodes[x]
    BY <1>x, <2>1 DEF IndInv, WorkInv, WorkOf
  <2>8. ASSUME ~race
        PROVE  WorkOf(th)'
    <3>1. \A w \in todo : Current(w)'
      BY <1>x, <1>0, <2>2, <2>7, <2>8 DEF Current, Indexable
    <3>2. CASE todo = {}
      BY <2>5, <2>6, <3>2 DEF WorkOf, Indexing, Done
    <3>3. CASE todo # {}
      <4>1. c # Done
        BY <2>5, <3>3 DEF Done
      <4> QED
        BY <2>2, <2>5, <2>6, <3>1, <3>3, <4>1 DEF WorkOf, Indexing
    <3> QED
      BY <3>2, <3>3
  <2>9. ASSUME ~race, NEW d \in IndexNames, defs[d] # None, ExactBy(th, d, x)
        PROVE  ExactBy(th, d, x)'
    <3>1. Blank(th, d, x)
      BY <1>x, <2>1 DEF Blank
    <3>2. Indexable(defs[d], nodes[x]) => Blank(th, d, x)'
      BY <2>2, <2>5, <2>6, <2>7, <2>9 DEF Blank, Indexing, Pending
    <3> QED
      BY <1>0, <2>9, <3>1, <3>2 DEF ExactBy, Indexable
  <2> QED
    BY <1>x, <1>0, <2>3, <2>4, <2>6, <2>8, <2>9, GoNode
<1> QED
  BY <1>1, <1>2

(* The item for an index and a node is determined by what is stored.       *)
LEMMA SameItem ==
    ASSUME NEW v \in Item, NEW w \in Item, Current(v), Current(w),
           v.name = w.name, v.node = w.node
    PROVE  v = w
  BY DEF Item, Current

(* Taking one entry of the node out of one index.                          *)
LEMMA UnindexStep ==
    ASSUME IndInv, TypeInv', NEW th \in Threads, NEW w, unindex_node(th, w)
    PROVE  IndInv'
<1>x. PICK x \in NodeIds : x = call[th].subject
  BY SubjectAt DEF IndInv, unindex_node, At, OnNode
<1> DEFINE s == call[th].step
           todo == s.todo \ {w}
           c == Rest("unindex_node", todo, s.next)
           entry == Entry(w.name, w.def, w.node, w.rec)
<1>1. /\ s.at = "unindex_node" /\ s.todo \in SUBSET Item /\ s.next \in AfterUnindex
      /\ w \in s.todo /\ w \in Item /\ x \notin IndexNames /\ nodes[x] \in Node \cup {None}
  BY StepFields, IndexAssumption DEF IndInv, TypeInv, unindex_node, At
<1>2. UNCHANGED <<nodes, defs, partial>> /\ entries' = entries \ {entry}
  BY DEF unindex_node, Unindexed
<1>3. Goto(th, c)
  BY LoopIsGoto DEF unindex_node
<1> HIDE DEF todo
<1>4. c \in Steps /\ c # Done
  BY <1>1, RestSteps DEF todo
<1>5. /\ todo # {} => c = [at |-> "unindex_node", todo |-> todo, next |-> s.next]
      /\ todo = {} => c.at \in {"put_node", "delete_node"}
  BY <1>1 DEF Rest, AfterUnindex
<1> HIDE DEF c
<1>6. c.at # "put_entry" /\ call'[th].step = c /\ call'[th].subject = x
  BY <1>x, <1>3, <1>4, <1>5, GotoFacts DEF IndInv
<1>7. ~race => \A v \in s.todo : v.node = x /\ Current(v) /\ Current(v)'
  <2>1. ~race => \A v \in s.todo : v.node = x /\ Current(v)
    BY <1>x, <1>1 DEF IndInv, WorkInv, WorkOf
  <2> QED
    BY <1>2, <2>1 DEF Current, Indexable
<1>8. ASSUME ~race
      PROVE  WorkOf(th)'
  <2>1. CASE todo = {}
    BY <1>5, <1>6, <2>1 DEF WorkOf, Indexing
  <2>2. CASE todo # {}
    <3>1. \A v \in todo : v.node = x /\ Current(v)'
      BY <1>7, <1>8 DEF todo
    <3> QED
      BY <1>5, <1>6, <2>2, <3>1 DEF WorkOf, Indexing
  <2> QED
    BY <2>1, <2>2
<1>9. entry[1] = w.name /\ entry[2] = Encode(w.def, w.rec) /\ entry[3] = w.node
  BY DEF Entry
<1>10. ASSUME ~race, NEW d \in IndexNames, defs[d] # None, ExactBy(th, d, x)
       PROVE  ExactBy(th, d, x)'
  <2>1. Blank(th, d, x) <=> ~Pending(s, d, x)
    BY <1>x, <1>1 DEF Blank, Indexing
  <2>2. CASE d = w.name
    <3>1. w.node = x /\ defs[d] = w.def /\ nodes[x] = w.rec /\ Current(w)
      BY <1>1, <1>7, <1>10, <2>2 DEF Current
    <3>2. \A v \in todo : v.name # d
      BY <1>1, <1>7, <1>10, <2>2, SameItem DEF todo
    <3>3. Blank(th, d, x)'
      BY <1>5, <1>6, <3>2 DEF Blank, Pending
    <3>4. \A e \in entries : e[1] = d /\ e[3] = x => e[2] = Encode(w.def, w.rec)
      BY <1>10, <3>1 DEF ExactBy
    <3>5. \A e \in entries : e[1] = d /\ e[3] = x => e = entry
      <4>1. \A e \in entries : e \in IndexNames \X Keys \X NodeIds
        BY DEF IndInv, TypeInv, Entries
      <4> QED
        BY <2>2, <3>1, <3>4, <4>1 DEF Entry
    <3>6. \A e \in entries' : ~(e[1] = d /\ e[3] = x)
      BY <1>2, <3>5
    <3> QED
      BY <3>3, <3>6 DEF ExactBy
  <2>3. CASE d # w.name
    <3>1. Pending(s, d, x) <=> \E v \in todo : v.name = d /\ v.node = x
      BY <2>3 DEF Pending, todo
    <3>2. Blank(th, d, x)' <=> Blank(th, d, x)
      <4>1. CASE todo = {}
        BY <1>5, <1>6, <2>1, <3>1, <4>1 DEF Blank
      <4>2. CASE todo # {}
        BY <1>1, <1>5, <1>6, <2>1, <3>1, <4>2 DEF Blank, Pending, Indexing
      <4> QED
        BY <4>1, <4>2
    <3>3. \A e : e[1] = d => (e \in entries' <=> e \in entries)
      BY <1>2, <1>9, <2>3
    <3>4. Entry(d, defs[d], x, nodes[x])[1] = d
      BY DEF Entry
    <3>5. Entry(d, defs[d], x, nodes[x]) \in entries => Entry(d, defs[d], x, nodes[x]) \in entries'
      BY <3>3, <3>4
    <3> QED
      BY <1>2, <1>10, <3>2, <3>3, <3>5 DEF ExactBy, Entry, Encode, Indexable
  <2> QED
    BY <2>2, <2>3
<1>11. ~race => \A e : e[3] # x => (e \in entries' <=> e \in entries)
  BY <1>1, <1>2, <1>7, <1>9
<1>12. CASE ~race
  BY <1>x, <1>2, <1>3, <1>4, <1>6, <1>8, <1>10, <1>11, <1>12, GoNode
<1>13. CASE race
  <2>1. x \in Subjects /\ x # None
    BY IndexAssumption DEF Subjects
  <2>2. Moves(th, x) /\ race'
    BY <1>x, <1>3, <1>4, <1>13, <2>1, GotoMoves, GotoFacts DEF IndInv
  <2>3. together'
    BY <2>2 DEF Moves
  <2>4. AloneInv'
    BY <2>1, <2>2, AloneStep DEF IndInv
  <2> QED
    BY <2>2, <2>3, <2>4 DEF IndInv, WorkInv, ExactInv, UniqueInv
<1> QED
  BY <1>12, <1>13

--------------------------------------------------------------------------------
(* With one item less to index, the entries are exact if the item's entry  *)
(* was put.                                                                *)
LEMMA ItemDone ==
    ASSUME TypeInv, NEW th \in Threads, WorkOf(th), call[th].step.at \in Indexing,
           NEW w \in call[th].step.todo, UNCHANGED <<nodes, defs>>,
           call'[th].step = Rest("index_node", call[th].step.todo \ {w}, Done),
           call'[th].step # Done => call'[th].subject = call[th].subject,
           entries' \in {entries, entries \cup {Entry(w.name, w.def, w.node, w.rec)}}
    PROVE  /\ WorkOf(th)'
           /\ \A d \in IndexNames, n \in NodeIds :
                 /\ ExactBy(th, d, n)
                 /\ d = w.name => entries' # entries \/ Entry(w.name, w.def, w.node, w.rec) \in entries
                 => ExactBy(th, d, n)'
<1> DEFINE s == call[th].step
           todo == s.todo \ {w}
           entry == Entry(w.name, w.def, w.node, w.rec)
<1>1. s.todo \in SUBSET Item /\ w \in Item
  BY StepFields
<1>2. \A v \in s.todo : call[th].subject \in {v.node, v.name} /\ Current(v) /\ Current(v)'
  <2>1. \A v \in s.todo : call[th].subject \in {v.node, v.name} /\ Current(v)
    BY DEF WorkOf
  <2> QED
    BY <2>1 DEF Current, Indexable
<1> HIDE DEF todo
<1>3. /\ todo # {} => call'[th].step.at = "index_node" /\ call'[th].step.todo = todo
      /\ todo = {} => call'[th].step = Done
  BY DEF Rest, todo
<1>4. WorkOf(th)'
  <2>1. CASE todo = {}
    BY <1>3, <2>1 DEF WorkOf, Done, Indexing
  <2>2. CASE todo # {}
    <3>1. call'[th].step # Done
      BY <1>3, <2>2 DEF Done
    <3>2. \A v \in todo : call'[th].subject \in {v.node, v.name} /\ Current(v)'
      BY <1>2, <3>1 DEF todo
    <3> QED
      BY <1>3, <2>2, <3>2 DEF WorkOf, Indexing
  <2> QED
    BY <2>1, <2>2
<1>5. ASSUME NEW d \in IndexNames, NEW n \in NodeIds, ExactBy(th, d, n),
             d = w.name => entries' # entries \/ entry \in entries
      PROVE  ExactBy(th, d, n)'
  <2>1. Blank(th, d, n) <=> \E v \in s.todo : v.name = d /\ v.node = n
    BY DEF Blank, Pending, Indexing
  <2>2. Blank(th, d, n)' <=> \E v \in todo : v.name = d /\ v.node = n
    <3>1. CASE todo = {}
      BY <1>3, <3>1 DEF Blank, Done, Indexing
    <3>2. CASE todo # {}
      BY <1>3, <3>2 DEF Blank, Pending, Indexing
    <3> QED
      BY <3>1, <3>2
  <2>3. entry[1] = w.name /\ entry[2] = Encode(w.def, w.rec) /\ entry[3] = w.node
    BY DEF Entry
  <2>4. CASE d = w.name /\ n = w.node
    <3>1. entries' = entries \cup {entry}
      BY <1>5, <2>4
    <3>2. defs[d] = w.def /\ nodes[n] = w.rec /\ Indexable(w.def, w.rec) /\ Current(w)
      BY <1>2, <2>4 DEF Current
    <3>3. nodes[n] # None
      BY <1>1, <3>2, IndexAssumption DEF Item
    <3>4. \A v \in todo : ~(v.name = d /\ v.node = n)
      BY <1>1, <1>2, <2>4, SameItem DEF todo
    <3>5. Blank(th, d, n) /\ ~Blank(th, d, n)'
      BY <2>1, <2>2, <2>4, <3>4
    <3>6. \A e \in entries : ~(e[1] = d /\ e[3] = n)
      BY <1>5, <3>5 DEF ExactBy
    <3>7. \A e \in entries' : e[1] = d /\ e[3] = n => e[2] = Encode(w.def, w.rec)
      BY <2>3, <3>1, <3>6
    <3>8. Entry(d, defs'[d], n, nodes'[n]) \in entries'
      BY <2>4, <3>1, <3>2
    <3>9. nodes'[n] # None /\ ~Blank(th, d, n)' /\ Indexable(defs'[d], nodes'[n])
      BY <3>2, <3>3, <3>5
    <3>10. \A e \in entries' : e[1] = d /\ e[3] = n => e[2] = Encode(defs'[d], nodes'[n])
      BY <3>2, <3>7
    <3> QED
      BY <3>8, <3>9, <3>10 DEF ExactBy, Entry, Encode, Indexable
  <2>5. CASE ~(d = w.name /\ n = w.node)
    <3>1. Blank(th, d, n)' <=> Blank(th, d, n)
      BY <2>1, <2>2, <2>5 DEF todo
    <3>2. \A e : e[1] = d /\ e[3] = n => (e \in entries' <=> e \in entries)
      BY <2>3, <2>5
    <3>3. Entry(d, defs[d], n, nodes[n]) \in entries => Entry(d, defs[d], n, nodes[n]) \in entries'
      OBVIOUS
    <3> QED
      BY <1>5, <3>1, <3>2, <3>3 DEF ExactBy, Entry, Encode, Indexable
  <2> QED
    BY <2>4, <2>5
<1> QED
  BY <1>4, <1>5

(* What a step of index_node or put_entry must show of its own item is     *)
(* enough, for a statement about a node as for one about an index.         *)
LEMMA ItemStep ==
    ASSUME IndInv, TypeInv', NEW th \in Threads, call[th].step.at \in Indexing,
           NEW w \in call[th].step.todo, NEW c \in Steps, Goto(th, c),
           UNCHANGED <<nodes, defs>>,
           partial' \in {partial, partial \cup {w.name}},
           entries' \in {entries, entries \cup {Entry(w.name, w.def, w.node, w.rec)}},
           ~race => WorkOf(th)',
           ~race => \A d \in IndexNames \ partial', n \in NodeIds :
                       ExactBy(th, d, n) => ExactBy(th, d, n)'
    PROVE  /\ AloneInv' /\ WorkInv' /\ ExactInv'
           /\ call[th].subject \in Subjects /\ Moves(th, call[th].subject)
<1>x. PICK x \in Subjects : x = call[th].subject /\ x # None
  BY SubjectAt, IdleThread DEF IndInv, Indexing
<1>1. Moves(th, x) /\ race' = race
  BY <1>x, GotoMoves, GotoFacts DEF IndInv
<1>2. AloneInv'
  BY <1>1, AloneStep DEF IndInv
<1>3. WorkInv'
  BY <1>1, WorkStep DEF IndInv
<1>4. ExactInv'
  <2> SUFFICES ASSUME ~race
               PROVE  ExactInv'
    BY <1>1 DEF ExactInv
  <2>1. w \in Item
    BY StepFields DEF IndInv
  <2>2. w.node \in NodeIds /\ w.name \in IndexNames /\ w.def \in Def
    BY <2>1 DEF Item
  <2>3. x \in {w.node, w.name} /\ defs[w.name] = w.def
    BY <1>x DEF IndInv, WorkInv, WorkOf, Current
  <2>4. defs[w.name] # None
    BY <2>2, <2>3, IndexAssumption
  <2> DEFINE entry == Entry(w.name, w.def, w.node, w.rec)
  <2>5. entry[1] = w.name /\ entry[3] = w.node
    BY DEF Entry
  <2>6. CASE x \in NodeIds
    <3>1. x = w.node
      BY <2>2, <2>3, <2>6, IndexAssumption
    <3>2. \A e : e[3] # x => (e \in entries' <=> e \in entries)
      BY <2>5, <3>1
    <3>3. \A e \in entries' : e \in entries \/ defs[e[1]] # None
      BY <2>4, <2>5
    <3> QED
      BY <1>1, <1>3, <2>6, <3>2, <3>3, NodeExact DEF IndInv
  <2>7. CASE x \in IndexNames
    <3>1. x = w.name
      BY <2>2, <2>3, <2>7, IndexAssumption
    <3>2. \A e : e[1] # x => (e \in entries' <=> e \in entries)
      BY <2>5, <3>1
    <3>3. ASSUME x \notin partial', NEW n \in NodeIds
          PROVE  ExactBy(th, x, n)'
      <4>1. Exact(x, n)
        BY <2>4, <2>7, <3>1, <3>3 DEF IndInv, ExactInv
      <4>2. \A o \in Threads \ {th} : WorkOf(o) /\ call[o].subject \notin {x, n}
        BY <1>1, <2>7, IndexAssumption DEF Moves, Apart, IndInv, WorkInv
      <4>3. ExactBy(th, x, n)
        BY <2>7, <4>1, <4>2, ExactIsBy
      <4> QED
        BY <2>7, <3>3, <4>3
    <3> QED
      BY <1>1, <1>3, <2>4, <2>7, <3>1, <3>2, <3>3, IndexExact DEF IndInv
  <2> QED
    BY <1>x, <2>6, <2>7 DEF Subjects
<1> QED
  BY <1>x, <1>1, <1>2, <1>3, <1>4

(* Putting the entry of an item, after the uniqueness check or without.    *)
LEMMA PutEntryStep ==
    ASSUME IndInv, TypeInv', NEW th \in Threads, put_entry(th)
    PROVE  IndInv'
<1>w. PICK w : w = call[th].step.item
  OBVIOUS
<1> DEFINE c == Rest("index_node", call[th].step.todo \ {w}, Done)
           entry == Entry(w.name, w.def, w.node, w.rec)
<1>1. /\ call[th].step.at = "put_entry" /\ call[th].step.at \in Indexing
      /\ w \in call[th].step.todo /\ call[th].step.todo \in SUBSET Item
      /\ call[th].step.next = Done
  BY <1>w, SubjectAt, StepFields DEF IndInv, put_entry, At, Indexing
<1>2. /\ Goto(th, c) /\ entries' = entries \cup {entry}
      /\ UNCHANGED <<nodes, defs, partial>>
  BY <1>w, <1>1, LoopIsGoto DEF put_entry
<1>3. c \in Steps /\ c.at # "put_entry"
  <2>1. CASE call[th].step.todo \ {w} = {}
    BY <2>1, StepMembers DEF Rest, Done
  <2>2. CASE call[th].step.todo \ {w} # {}
    BY <1>1, <2>2, StepMembers DEF Rest
  <2> QED
    BY <2>1, <2>2
<1>4. call'[th].step = c /\ (c # Done => call'[th].subject = call[th].subject)
  BY <1>2, <1>3, GotoFacts DEF IndInv
<1>5. ~race => WorkOf(th) /\ Current(w)
  BY <1>1 DEF IndInv, WorkInv, WorkOf
<1>6. ASSUME ~race
      PROVE  /\ WorkOf(th)'
             /\ \A d \in IndexNames, n \in NodeIds : ExactBy(th, d, n) => ExactBy(th, d, n)'
  BY <1>1, <1>2, <1>4, <1>5, <1>6, ItemDone DEF IndInv
<1> HIDE DEF c
<1>7. /\ AloneInv' /\ WorkInv' /\ ExactInv'
      /\ call[th].subject \in Subjects /\ Moves(th, call[th].subject)
  BY <1>1, <1>2, <1>3, <1>6, ItemStep
<1>8. ASSUME ~together', NEW d \in IndexNames, defs'[d] # None, d \notin partial'
      PROVE  \/ defs'[d] = defs[d] /\ d \notin partial
                /\ \A e \in entries' : e[1] = d => e \in entries
             \/ ~defs'[d].unique \/ Unique(d)'
  <2>1. entry[1] = w.name /\ entry[2] = Encode(w.def, w.rec) /\ entry[3] = w.node
    BY DEF Entry
  <2>2. CASE d # w.name
    BY <1>2, <1>8, <2>1, <2>2
  <2>3. CASE d = w.name /\ defs[d].unique
    <3>1. ~together
      BY <1>7, <1>8 DEF Moves
    <3>2. ~Taken(w) /\ Unique(d)
      BY <1>w, <1>1, <1>2, <1>8, <2>3, <3>1 DEF IndInv, UniqueInv
    <3>3. \A e \in entries : e[1] = d /\ e[2] = entry[2] => e[3] = w.node
      BY <2>1, <2>3, <3>2 DEF Taken
    <3> QED
      BY <1>2, <2>1, <3>2, <3>3 DEF Unique
  <2> QED
    BY <1>2, <2>2, <2>3
<1>9. UniqueInv'
  BY <1>3, <1>4, <1>7, <1>8, UniqueKeep DEF IndInv
<1> QED
  BY <1>7, <1>9 DEF IndInv

(* One item of a loop of index_node calls.                                 *)
LEMMA IndexStep ==
    ASSUME IndInv, TypeInv', NEW th \in Threads, NEW w, index_node(th, w)
    PROVE  IndInv'
<1> DEFINE entry == Entry(w.name, w.def, w.node, w.rec)
<1>1. /\ call[th].step.at = "index_node" /\ call[th].step.at \in Indexing
      /\ w \in call[th].step.todo /\ call[th].step.todo \in SUBSET Item /\ w \in Item
      /\ call[th].step.next = Done /\ UNCHANGED <<nodes, defs>>
  BY StepFields DEF IndInv, index_node, At, Indexing
<1>2. ~race => WorkOf(th) /\ Current(w)
  BY <1>1 DEF IndInv, WorkInv, WorkOf
<1>3. CASE w.def.unique /\ ~Taken(w)
  <2> DEFINE c == [at |-> "put_entry", todo |-> call[th].step.todo, item |-> w, next |-> Done]
  <2>1. c \in Steps /\ c.at = "put_entry" /\ c.todo = call[th].step.todo /\ c.item = w
        /\ c # Done
    BY <1>1, StepMembers DEF Done
  <2>2. Goto(th, c) /\ UNCHANGED <<entries, partial>>
    BY <1>1, <1>3 DEF index_node
  <2> HIDE DEF c
  <2>3. call'[th].step = c /\ call'[th].subject = call[th].subject
    BY <2>1, <2>2, GotoFacts DEF IndInv
  <2>4. ASSUME ~race
        PROVE  WorkOf(th)'
    <3>1. \A v \in call[th].step.todo : call[th].subject \in {v.node, v.name} /\ Current(v)
      BY <1>1, <1>2, <2>4 DEF WorkOf
    <3>2. \A v \in call[th].step.todo : call'[th].subject \in {v.node, v.name} /\ Current(v)'
      BY <1>1, <2>3, <3>1 DEF Current, Indexable
    <3> QED
      BY <2>1, <2>3, <3>2 DEF WorkOf, Indexing
  <2>5. ASSUME NEW d \in IndexNames, NEW n \in NodeIds, ExactBy(th, d, n)
        PROVE  ExactBy(th, d, n)'
    <3>1. Blank(th, d, n)' <=> Blank(th, d, n)
      BY <1>1, <2>1, <2>3 DEF Blank, Pending, Indexing
    <3> QED
      BY <1>1, <2>2, <2>5, <3>1 DEF ExactBy, Entry, Encode, Indexable
  <2>6. /\ AloneInv' /\ WorkInv' /\ ExactInv'
        /\ call[th].subject \in Subjects /\ Moves(th, call[th].subject)
    BY <1>1, <2>1, <2>2, <2>4, <2>5, ItemStep
  <2>7. ASSUME ~together'
        PROVE  UniqueInv'
    <3>1. ~together
      BY <2>6, <2>7 DEF Moves
    <3>2. \A d \in IndexNames : defs[d] # None /\ defs[d].unique /\ d \notin partial => Unique(d)'
      BY <2>2, <3>1 DEF IndInv, UniqueInv, Unique
    <3>3. ~Taken(call[th].step.item)'
      BY <1>3, <2>1, <2>2, <2>3 DEF Taken, Encode
    <3>4. ASSUME NEW o \in Threads, o # th
          PROVE  call'[o].step.at # "put_entry"
      <4>1. call'[o].subject = None
        BY <2>6, <2>7, <3>4 DEF Moves, Apart
      <4> QED
        BY <4>1 DEF TypeInv, Fits
    <3> QED
      BY <1>1, <2>2, <3>2, <3>3, <3>4 DEF UniqueInv
  <2>8. UniqueInv'
    BY <2>7 DEF UniqueInv
  <2> QED
    BY <2>6, <2>8 DEF IndInv
<1>4. CASE ~(w.def.unique /\ ~Taken(w))
  <2> DEFINE c == Rest("index_node", call[th].step.todo \ {w}, Done)
  <2>1. Goto(th, c)
    BY <1>1, <1>4, LoopIsGoto DEF index_node
  <2>2. c \in Steps /\ c.at # "put_entry"
    <3>1. CASE call[th].step.todo \ {w} = {}
      BY <3>1, StepMembers DEF Rest, Done
    <3>2. CASE call[th].step.todo \ {w} # {}
      BY <1>1, <3>2, StepMembers DEF Rest
    <3> QED
      BY <3>1, <3>2
  <2>3. call'[th].step = c /\ (c # Done => call'[th].subject = call[th].subject)
    BY <2>1, <2>2, GotoFacts DEF IndInv
  <2>4. \/ w.def.unique /\ partial' = partial \cup {w.name} /\ entries' = entries
        \/ ~w.def.unique /\ partial' = partial /\ entries' = entries \cup {entry}
    BY <1>4 DEF index_node
  <2>5. ASSUME ~race
        PROVE  /\ WorkOf(th)'
               /\ \A d \in IndexNames \ partial', n \in NodeIds :
                     ExactBy(th, d, n) => ExactBy(th, d, n)'
    <3>1. entries' \in {entries, entries \cup {entry}}
      BY <2>4
    <3>2. /\ WorkOf(th)'
          /\ \A d \in IndexNames, n \in NodeIds :
                /\ ExactBy(th, d, n)
                /\ d = w.name => entries' # entries \/ entry \in entries
                => ExactBy(th, d, n)'
      BY <1>1, <1>2, <2>3, <2>5, <3>1, ItemDone DEF IndInv
    <3> QED
      BY <2>4, <3>2
  <2> HIDE DEF c
  <2>6. /\ AloneInv' /\ WorkInv' /\ ExactInv'
        /\ call[th].subject \in Subjects /\ Moves(th, call[th].subject)
    BY <1>1, <2>1, <2>2, <2>4, <2>5, ItemStep
  <2>7. ASSUME ~together', NEW d \in IndexNames, defs'[d] # None, d \notin partial'
        PROVE  \/ defs'[d] = defs[d] /\ d \notin partial
                  /\ \A e \in entries' : e[1] = d => e \in entries
               \/ ~defs'[d].unique \/ Unique(d)'
    <3>1. ~race
      BY <2>6, <2>7 DEF Moves
    <3>2. entry[1] = w.name
      BY DEF Entry
    <3>3. CASE ~w.def.unique /\ d = w.name
      BY <1>1, <1>2, <3>1, <3>3 DEF Current
    <3>4. CASE w.def.unique \/ d # w.name
      BY <1>1, <2>4, <2>7, <3>2, <3>4
    <3> QED
      BY <3>3, <3>4
  <2>8. UniqueInv'
    BY <2>2, <2>3, <2>6, <2>7, UniqueKeep DEF IndInv
  <2> QED
    BY <2>6, <2>8 DEF IndInv
<1> QED
  BY <1>3, <1>4

--------------------------------------------------------------------------------
(* A step of a statement about an index that puts no entry.                *)
LEMMA GoIndex ==
    ASSUME IndInv, TypeInv', NEW th \in Threads, NEW y \in IndexNames, Moves(th, y),
           call'[th].step.at # "put_entry", nodes' = nodes, entries' \subseteq entries,
           \A d \in IndexNames : d # y => defs'[d] = defs[d],
           \A d \in IndexNames : d # y => (d \in partial' <=> d \in partial),
           \A e : e[1] # y => (e \in entries' <=> e \in entries),
           ~race' => WorkOf(th)',
           ~race' /\ y \notin partial' =>
              /\ defs'[y] = None /\ call'[th].subject = None => \A e \in entries' : e[1] # y
              /\ defs'[y] # None => \A n \in NodeIds : ExactBy(th, y, n)',
           ~together' /\ y \notin partial' /\ defs'[y] # None =>
              (defs'[y] = defs[y] /\ y \notin partial) \/ Unique(y)'
    PROVE  IndInv'
<1>1. y \in Subjects /\ y \notin NodeIds
  BY IndexAssumption DEF Subjects
<1>2. AloneInv'
  BY <1>1, AloneStep DEF IndInv
<1>3. WorkInv'
  BY <1>1, WorkStep DEF IndInv
<1>4. ExactInv'
  BY <1>3, IndexExact DEF IndInv
<1>5. UniqueInv'
  BY <1>1, UniqueKeep DEF IndInv
<1> QED
  BY <1>2, <1>3, <1>4, <1>5 DEF IndInv

(* A new index has no entries yet, one that is redefined is partial; an    *)
(* index that is dropped is no longer defined.                             *)
LEMMA BeginIndexSteps ==
    ASSUME IndInv, TypeInv', NEW th \in Threads, NEW d \in IndexNames,
           \/ \E def \in Definitions, label \in Labels \cup {None} :
                 exec_create_index(th, d, def, label)
           \/ exec_drop_index(th, d)
    PROVE  IndInv'
<1>0. /\ d \in Subjects /\ d # None /\ d \notin NodeIds
      /\ defs \in [IndexNames -> Def \cup {None}]
  BY IndexAssumption DEF Subjects, IndInv, TypeInv
<1>1. ASSUME NEW def \in Definitions, NEW label \in Labels \cup {None},
             exec_create_index(th, d, def, label)
      PROVE  IndInv'
  <2> DEFINE c == [at |-> "backfill", def |-> def, label |-> label]
  <2>1. c \in Steps /\ c.at = "backfill" /\ c.def = def /\ def # None /\ def \in Def
    BY StepMembers, IndexAssumption
  <2>2. Begin(th, d, c) /\ UNCHANGED <<nodes, entries>> /\ defs' = [defs EXCEPT ![d] = def]
        /\ partial' = IF defs[d] # None THEN partial \cup {d} ELSE partial
    BY <1>1 DEF exec_create_index
  <2> HIDE DEF c
  <2>3. Moves(th, d) /\ call'[th].step = c /\ call'[th].subject = d /\ call[th].subject = None
    BY <1>0, <2>1, <2>2, BeginMoves, BeginFacts DEF IndInv
  <2>4. /\ defs'[d] = def /\ \A e \in IndexNames : e # d => defs'[e] = defs[e]
        /\ \A e \in IndexNames : e # d => (e \in partial' <=> e \in partial)
    BY <1>0, <2>2
  <2>5. WorkOf(th)'
    BY <2>1, <2>3, <2>4 DEF WorkOf, Indexing
  <2>6. \A n \in NodeIds : Blank(th, d, n)'
    BY <2>1, <2>3 DEF Blank
  <2>7. ASSUME ~race', d \notin partial'
        PROVE  \A e \in entries : e[1] # d
    <3>1. ~race /\ defs[d] = None /\ d \notin partial
      BY <2>2, <2>3, <2>7 DEF Moves
    <3>2. ~Busy(d)
      BY <1>0, <2>3, <2>7 DEF Busy, Moves, Apart
    <3> QED
      BY <3>1, <3>2 DEF IndInv, ExactInv
  <2>8. ~race' /\ d \notin partial' => \A n \in NodeIds : ExactBy(th, d, n)'
    BY <2>2, <2>6, <2>7 DEF ExactBy
  <2>9. ~together' /\ d \notin partial' => Unique(d)'
    BY <2>2, <2>3, <2>7 DEF Moves, Unique
  <2> QED
    BY <1>0, <2>1, <2>2, <2>3, <2>4, <2>5, <2>8, <2>9, GoIndex
<1>2. ASSUME exec_drop_index(th, d)
      PROVE  IndInv'
  <2> DEFINE c == [at |-> "drop_scan"]
  <2>1. c \in Steps /\ c.at = "drop_scan"
    BY StepMembers
  <2>2. Begin(th, d, c) /\ UNCHANGED <<nodes, entries, partial>>
        /\ defs' = [defs EXCEPT ![d] = None]
    BY <1>2 DEF exec_drop_index
  <2> HIDE DEF c
  <2>3. Moves(th, d) /\ call'[th].step = c /\ call'[th].subject = d
    BY <1>0, <2>1, <2>2, BeginMoves, BeginFacts DEF IndInv
  <2>4. defs'[d] = None /\ \A e \in IndexNames : e # d => defs'[e] = defs[e]
    BY <1>0, <2>2
  <2>5. WorkOf(th)'
    BY <2>1, <2>3, <2>4 DEF WorkOf, Indexing
  <2> QED
    BY <1>0, <2>1, <2>2, <2>3, <2>4, <2>5, GoIndex
<1> QED
  BY <1>1, <1>2

(* The nodes a new index is filled with are all that belong in it, unless  *)
(* the index becomes partial.                                              *)
LEMMA BackfillStep ==
    ASSUME IndInv, TypeInv', NEW th \in Threads, backfill(th)
    PROVE  IndInv'
<1>y. PICK y \in IndexNames : y = call[th].subject
  BY SubjectAt DEF IndInv, backfill, At, OnIndex
<1> DEFINE s == call[th].step
           found == BackfillNodes(s.def, s.label)
           todo == {[name |-> y, def |-> s.def, node |-> n, rec |-> nodes[n]] : n \in found}
           c == Rest("index_node", todo, Done)
<1>1. /\ s.at = "backfill" /\ s.def \in Def /\ y # None /\ y \notin NodeIds
      /\ UNCHANGED <<nodes, defs, entries>> /\ nodes \in [NodeIds -> Node \cup {None}]
  BY StepFields, IndexAssumption DEF IndInv, TypeInv, backfill, At
<1>2. Goto(th, c)
  BY <1>y, LoopIsGoto DEF backfill
<1>3. partial' = IF found = BackfillNodes(s.def, None) THEN partial ELSE partial \cup {y}
  BY <1>y DEF backfill
<1>4. /\ todo \in SUBSET Item
      /\ \A w \in todo : /\ w.name = y /\ w.def = s.def /\ w.node \in found
                         /\ w.rec = nodes[w.node] /\ Indexable(s.def, nodes[w.node])
      /\ \A n \in found : \E w \in todo : w.node = n /\ w.name = y
  <2>1. ASSUME NEW n \in found
        PROVE  LET w == [name |-> y, def |-> s.def, node |-> n, rec |-> nodes[n]]
               IN w \in Item /\ Indexable(s.def, nodes[n])
    BY <1>1 DEF BackfillNodes, Item
  <2> HIDE DEF found
  <2>2. ASSUME NEW w \in todo
        PROVE  /\ w \in Item /\ w.name = y /\ w.def = s.def /\ w.node \in found
               /\ w.rec = nodes[w.node] /\ Indexable(s.def, nodes[w.node])
    <3>1. PICK n \in found : w = [name |-> y, def |-> s.def, node |-> n, rec |-> nodes[n]]
      OBVIOUS
    <3> QED
      BY <2>1, <3>1
  <2>3. ASSUME NEW n \in found
        PROVE  \E w \in todo : w.node = n /\ w.name = y
    <3>1. [name |-> y, def |-> s.def, node |-> n, rec |-> nodes[n]] \in todo
      OBVIOUS
    <3> QED
      BY <3>1
  <2> QED
    BY <2>2, <2>3
<1> HIDE DEF todo, found
<1>5. c \in Steps
  BY <1>4, RestSteps
<1>6. /\ todo # {} => c.at = "index_node" /\ c.todo = todo /\ c # Done
      /\ todo = {} => c = Done
  BY DEF Rest, Done
<1> HIDE DEF c
<1>7. /\ c.at # "put_entry" /\ call'[th].step = c /\ race' = race
      /\ (c # Done => call'[th].subject = y)
  BY <1>y, <1>2, <1>5, <1>6, GotoFacts DEF IndInv, Done
<1>8. Moves(th, y)
  BY <1>y, <1>1, <1>2, <1>5, GotoMoves DEF IndInv
<1>9. ~race => s.def = defs[y] /\ defs[y] # None
  BY <1>y, <1>1, IndexAssumption DEF IndInv, WorkInv, WorkOf
<1>10. ASSUME ~race
       PROVE  WorkOf(th)'
  <2>1. CASE todo = {}
    BY <1>6, <1>7, <2>1 DEF WorkOf, Done, Indexing
  <2>2. CASE todo # {}
    <3>1. \A w \in todo : call'[th].subject \in {w.node, w.name} /\ Current(w)'
      BY <1>1, <1>4, <1>6, <1>7, <1>9, <1>10, <2>2 DEF Current, Indexable
    <3> QED
      BY <1>6, <1>7, <2>2, <3>1 DEF WorkOf, Indexing
  <2> QED
    BY <2>1, <2>2
<1>11. ASSUME ~race, y \notin partial', NEW n \in NodeIds
       PROVE  ExactBy(th, y, n)'
  <2>1. y \notin partial /\ found = BackfillNodes(s.def, None)
    BY <1>3, <1>11
  <2>2. \A o \in Threads \ {th} : WorkOf(o) /\ call[o].subject \notin {y, n}
    BY <1>1, <1>7, <1>8, <1>11, IndexAssumption DEF Moves, Apart, IndInv, WorkInv
  <2>3. Exact(y, n)
    BY <1>9, <1>11, <2>1 DEF IndInv, ExactInv
  <2>4. ExactBy(th, y, n)
    BY <2>2, <2>3, ExactIsBy
  <2>5. \A e \in entries : ~(e[1] = y /\ e[3] = n)
    BY <1>y, <1>1, <2>4 DEF ExactBy, Blank
  <2>6. nodes[n] # None /\ Indexable(defs[y], nodes[n]) => n \in found
    BY <1>9, <1>11, <2>1 DEF BackfillNodes
  <2>7. n \in found => Blank(th, y, n)'
    BY <1>4, <1>6, <1>7 DEF Blank, Pending, Indexing
  <2>8. ~(nodes'[n] # None /\ ~Blank(th, y, n)' /\ Indexable(defs'[y], nodes'[n]))
    BY <1>1, <2>6, <2>7
  <2> QED
    BY <1>1, <2>5, <2>8 DEF ExactBy
<1>12. \A d \in IndexNames : d # y => (d \in partial' <=> d \in partial)
  BY <1>3
<1>13. y \notin partial' => y \notin partial
  BY <1>3
<1>14. ~race' /\ y \notin partial' => (defs'[y] = None /\ call'[th].subject = None =>
                                         \A e \in entries' : e[1] # y)
  BY <1>1, <1>7, <1>9
<1> QED
  BY <1>1, <1>7, <1>8, <1>10, <1>11, <1>12, <1>13, <1>14, GoIndex

(* Dropping an index takes out all its entries.                            *)
LEMMA DropSteps ==
    ASSUME IndInv, TypeInv', NEW th \in Threads, drop_scan(th) \/ drop_write(th)
    PROVE  IndInv'
<1>y. PICK y \in IndexNames : y = call[th].subject
  BY SubjectAt DEF IndInv, drop_scan, drop_write, At, OnIndex
<1>0. /\ y # None /\ UNCHANGED <<nodes, defs>> /\ entries \in SUBSET Entries
      /\ ~race => WorkOf(th)
  BY IndexAssumption DEF IndInv, TypeInv, WorkInv, drop_scan, drop_write
<1>1. CASE drop_scan(th)
  <2> DEFINE c == [at |-> "drop_write", keys |-> {e \in entries : e[1] = y}]
  <2>1. c \in Steps /\ c.at = "drop_write" /\ c.keys = {e \in entries : e[1] = y} /\ c # Done
    BY <1>0, StepMembers DEF Done
  <2>2. Goto(th, c) /\ UNCHANGED <<entries, partial>> /\ call[th].step.at = "drop_scan"
    BY <1>y, <1>1 DEF drop_scan, At
  <2> HIDE DEF c
  <2>3. call'[th].step = c /\ call'[th].subject = y /\ race' = race
    BY <1>y, <2>1, <2>2, GotoFacts DEF IndInv
  <2>4. Moves(th, y)
    BY <1>y, <1>0, <2>1, <2>2, GotoMoves DEF IndInv
  <2>5. ~race => defs[y] = None
    BY <1>y, <1>0, <2>2 DEF WorkOf
  <2>6. ~race => WorkOf(th)'
    BY <1>0, <2>1, <2>2, <2>3, <2>5 DEF WorkOf, Indexing
  <2> QED
    BY <1>0, <2>1, <2>2, <2>3, <2>4, <2>5, <2>6, GoIndex
<1>2. CASE drop_write(th)
  <2>1. /\ Goto(th, Done) /\ Done \in Steps /\ Done.at # "put_entry"
        /\ call[th].step.at = "drop_write" /\ entries' = entries \ call[th].step.keys
        /\ partial' = partial \ {y}
    BY <1>y, <1>2, StepMembers DEF drop_write, End, At, Done
  <2>2. call'[th].step = Done /\ call'[th].subject = None /\ race' = race
    BY <2>1, GotoFacts DEF IndInv
  <2>3. Moves(th, y)
    BY <1>y, <1>0, <2>1, GotoMoves DEF IndInv
  <2>4. ~race => defs[y] = None /\ call[th].step.keys = {e \in entries : e[1] = y}
    BY <1>y, <1>0, <2>1 DEF WorkOf
  <2>5. WorkOf(th)'
    BY <2>2 DEF WorkOf, Done, Indexing
  <2>6. CASE ~race
    <3>1. /\ entries' \subseteq entries /\ \A e \in entries' : e[1] # y
          /\ \A e : e[1] # y => (e \in entries' <=> e \in entries)
      BY <2>1, <2>4, <2>6
    <3> QED
      BY <1>0, <2>1, <2>2, <2>3, <2>4, <2>5, <2>6, <3>1, GoIndex
  <2>7. CASE race
    <3>1. y \in Subjects
      BY DEF Subjects
    <3>2. AloneInv' /\ race' /\ together'
      BY <2>2, <2>3, <2>7, <3>1, AloneStep DEF IndInv, Moves
    <3> QED
      BY <3>2 DEF IndInv, WorkInv, ExactInv, UniqueInv
  <2> QED
    BY <2>6, <2>7
<1> QED
  BY <1>1, <1>2

--------------------------------------------------------------------------------
(* At the start nothing is stored and no statement is under way.           *)
LEMMA InitInd ==
    ASSUME Init
    PROVE  IndInv
<1>0. Idle \in [subject : Subjects \cup {None}, step : Steps] /\ Fits(Idle)
  <2>1. Idle.subject = None /\ Idle.step = Done /\ Done.at = "idle"
    BY DEF Idle, Done
  <2>2. Fits(Idle)
    BY <2>1 DEF Fits, OnNode, OnIndex
  <2> QED
    BY <2>2, StepMembers DEF Idle
<1>1. TypeInv
  <2>1. call = [th \in Threads |-> Idle]
    BY DEF Init
  <2>2. /\ call \in [Threads -> [subject : Subjects \cup {None}, step : Steps]]
        /\ \A th \in Threads : Fits(call[th])
    BY <1>0, <2>1
  <2>3. nodes \in [NodeIds -> Node \cup {None}] /\ defs \in [IndexNames -> Def \cup {None}]
    BY DEF Init
  <2>4. /\ entries \in SUBSET Entries /\ partial \in SUBSET IndexNames
    BY DEF Init
  <2>5. ddl \in 0 .. MaxDdl /\ dml \in 0 .. MaxDml
    <3>1. MaxDdl \in Nat /\ MaxDml \in Nat /\ ddl = 0 /\ dml = 0
      BY IndexAssumption DEF Init
    <3> QED
      BY <3>1
  <2>6. race \in BOOLEAN /\ together \in BOOLEAN
    BY DEF Init
  <2> QED
    BY <2>2, <2>3, <2>4, <2>5, <2>6 DEF TypeInv
<1> USE DEF Init, Idle, Done
<1> QED
  BY <1>1 DEF IndInv, AloneInv, WorkInv, WorkOf, ExactInv, Exact, Due, UniqueInv, Unique, Indexing

(* Every step keeps the invariant.                                         *)
LEMMA StepInd ==
    ASSUME IndInv, [Next]_vars
    PROVE  IndInv'
<1>1. TypeInv'
  BY TypeStep DEF IndInv
<1>2. CASE UNCHANGED vars
  <2>1. AloneInv' /\ UniqueInv'
    BY <1>2 DEF IndInv, vars, AloneInv, UniqueInv, Unique, Taken, Encode
  <2>2. WorkInv'
    BY <1>2 DEF IndInv, vars, WorkInv, WorkOf, Current, Indexable
  <2>3. ExactInv'
    BY <1>2 DEF IndInv, vars, ExactInv, Exact, Due, Blanked, Blank, Pending, Indexable, Entry,
                Encode, Busy, Idle, Done
  <2> QED
    BY <1>1, <2>1, <2>2, <2>3 DEF IndInv
<1> QED
  BY <1>1, <1>2, NextCases, BeginNodeSteps, RecordSteps, ListSteps, UnindexStep, PutEntryStep,
     IndexStep, BeginIndexSteps, BackfillStep, DropSteps

(* The inductive invariant holds always.                                   *)
THEOREM IndAlways == Spec => []IndInv
<1>1. Init => IndInv
  BY InitInd
<1>2. IndInv /\ [Next]_vars => IndInv'
  BY StepInd
<1> QED
  BY <1>1, <1>2, PTL DEF Spec

(* Node records, definitions, entries and counters keep their types under  *)
(* any interleaving of statements.                                         *)
THEOREM TypeCorrect == Spec => []TypeOK
<1>1. IndInv => TypeOK
  <2> SUFFICES ASSUME IndInv
               PROVE  TypeOK
    OBVIOUS
  <2>1. ASSUME NEW e \in entries
        PROVE  /\ e[1] \in IndexNames /\ e[3] \in NodeIds
               /\ \E props \in SUBSET Props : e[2] \in [props -> Values]
    <3>1. e \in IndexNames \X Keys \X NodeIds
      BY DEF IndInv, TypeInv, Entries
    <3> QED
      BY <3>1 DEF Keys
  <2> QED
    BY <2>1 DEF IndInv, TypeInv, TypeOK
<1> QED
  BY <1>1, IndAlways, PTL

(* A thread whose statement is about neither the node nor the index keeps  *)
(* no entry back.                                                          *)
LEMMA NotBusyNotBlank ==
    ASSUME IndInv, ~race, NEW d \in IndexNames, NEW n \in NodeIds, ~Busy(d), ~Busy(n)
    PROVE  ~Blanked(d, n)
<1>1. ASSUME NEW th \in Threads
      PROVE  ~Blank(th, d, n)
  <2>1. WorkOf(th)
    BY DEF IndInv, WorkInv
  <2>2. call[th].subject \notin {d, n}
    <3>1. d # None /\ n # None
      BY IndexAssumption
    <3> QED
      BY <3>1, IdleThread DEF IndInv, Busy
  <2> QED
    BY <2>1, <2>2, NotBlank
<1> QED
  BY <1>1 DEF Blanked

(* An index entry describes a stored node with the values it is under, if  *)
(* no statement on that node or index is under way, the index is not       *)
(* partial and no such statements have overlapped: the order of unindex,   *)
(* put_node and index_node in exec_set_property keeps them in step.        *)
THEOREM EntriesStaySound == Spec => []EntriesSound
<1>1. IndInv => EntriesSound
  <2> SUFFICES ASSUME IndInv, ~race, NEW e \in entries, ~Busy(e[3]), ~Busy(e[1]),
                      e[1] \notin partial
               PROVE  /\ nodes[e[3]] # None /\ defs[e[1]] # None
                      /\ e[2] = Encode(defs[e[1]], nodes[e[3]])
    BY DEF EntriesSound
  <2>1. e[1] \in IndexNames /\ e[3] \in NodeIds
    BY DEF IndInv, TypeInv, Entries
  <2>2. defs[e[1]] # None
    BY <2>1 DEF IndInv, ExactInv
  <2>3. Exact(e[1], e[3])
    BY <2>1, <2>2 DEF IndInv, ExactInv
  <2> QED
    BY <2>2, <2>3 DEF Exact, Due
<1> QED
  BY <1>1, IndAlways, PTL

(* A unique index that is not partial has one node under a value, as long  *)
(* as no two statements have overlapped.                                   *)
THEOREM UniqueWhenAlone == Spec => []UniqueAlone
<1>1. IndInv => UniqueAlone
  BY DEF IndInv, UniqueInv, UniqueAlone
<1> QED
  BY <1>1, IndAlways, PTL

(* exec_index_scan answers an equality query as exec_scan and exec_filter  *)
(* do, for every node and index no statement is about.                     *)
THEOREM ScansAgree == Spec => []IndexScanAgrees
<1>1. IndInv => IndexScanAgrees
  <2> SUFFICES ASSUME IndInv, ~race, NEW d \in IndexNames, defs[d] # None, d \notin partial,
                      ~Busy(d), NEW l \in Labels, NEW vals \in Lookups(d), NEW n \in NodeIds,
                      ~Busy(n)
               PROVE  n \in IndexScan(d, l, vals) <=> n \in FilterScan(l, vals)
    BY DEF IndexScanAgrees
  <2>1. Exact(d, n) /\ ~Blanked(d, n)
    BY NotBusyNotBlank DEF IndInv, ExactInv
  <2>2. /\ defs[d] \in Def /\ defs[d].props \subseteq Props
        /\ vals \in [defs[d].props -> Values] /\ DOMAIN vals = defs[d].props
    BY DEF IndInv, TypeInv, Lookups, Def
  <2>3. nodes[n] # None => nodes[n] \in Node /\ nodes[n].props \in [Props -> Values \cup {Missing}]
    BY DEF IndInv, TypeInv, Node
  <2>4. ASSUME nodes[n] # None
        PROVE  vals = Encode(defs[d], nodes[n]) <=>
                  \A p \in DOMAIN vals : \/ nodes[n].props[p] = vals[p]
                                         \/ nodes[n].props[p] = Missing /\ vals[p] = Null
    <3> DEFINE enc == Encode(defs[d], nodes[n])
    <3>1. /\ DOMAIN enc = defs[d].props
          /\ \A p \in defs[d].props :
                enc[p] = IF nodes[n].props[p] = Missing THEN Null ELSE nodes[n].props[p]
          /\ enc = [p \in defs[d].props |-> enc[p]]
      BY DEF Encode
    <3>2. vals = [p \in defs[d].props |-> vals[p]]
      BY <2>2
    <3> HIDE DEF enc
    <3>3. vals = enc <=> \A p \in defs[d].props : vals[p] = enc[p]
      BY <3>1, <3>2
    <3>4. \A p \in defs[d].props : vals[p] \in Values
      BY <2>2
    <3>5. \A p \in defs[d].props :
             vals[p] = enc[p] <=> \/ nodes[n].props[p] = vals[p]
                                  \/ nodes[n].props[p] = Missing /\ vals[p] = Null
      BY <3>1, <3>4, IndexAssumption
    <3> QED
      BY <2>2, <3>3, <3>5 DEF enc
  <2>5. ASSUME nodes[n] # None, vals = Encode(defs[d], nodes[n])
        PROVE  Indexable(defs[d], nodes[n])
    <3>1. PICK p \in DOMAIN vals : vals[p] # Null
      BY DEF Lookups
    <3> QED
      BY <2>2, <2>5, <3>1 DEF Encode, Indexable
  <2>6. <<d, vals, n>> \in entries /\ nodes[n] # None =>
           vals = Encode(defs[d], nodes[n])
    BY <2>1 DEF Exact
  <2>7. nodes[n] # None /\ vals = Encode(defs[d], nodes[n]) => <<d, vals, n>> \in entries
    BY <2>1, <2>5 DEF Exact, Due, Entry
  <2> QED
    BY <2>4, <2>6, <2>7 DEF IndexScan, FilterScan
<1> QED
  BY <1>1, IndAlways, PTL
==============================================================================
