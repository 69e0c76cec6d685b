-------------------------------- MODULE Executor ---------------------------------
(***************************************************************************)
(* The execution engine of synaptica-exec (engine.rs) over one graph.      *)
(*                                                                         *)
(* A run of a plan is the record x: the graph (db), the counters (stats),  *)
(* the ids that new nodes and edges will draw (fresh), whether no error    *)
(* occurred yet (ok) and the result set so far (rs: columns and rows).     *)
(* Every exec_* method takes x and returns the x after it; an error leaves *)
(* what was written before it in db, as the code has no transaction here.  *)
(*                                                                         *)
(* db: nodes and edges are functions from ids, which are numbers in key    *)
(* order; indexes maps names to definitions, entries are <<index name,     *)
(* values, node>>; graph is the name of this graph and graphs the set of   *)
(* the graphs there are.  An id as a value is the String <<id>>.  The      *)
(* Option of a variable, <<name>>, is also the column of that name.        *)
(***************************************************************************)
EXTENDS Evaluate, Planner

NoStats == [nodes_created |-> 0, nodes_deleted |-> 0, edges_created |-> 0,
            edges_deleted |-> 0, properties_set |-> 0]

ResultSet(columns, rows) == [columns |-> columns, rows |-> rows]
Records(rs) == [i \in 1..Len(rs.rows) |-> [columns |-> rs.columns, values |-> rs.rows[i]]]

Fail(x)        == [x EXCEPT !.ok = FALSE]
Result(x, rs)  == [x EXCEPT !.rs = rs]
Count(x, stat) == [x EXCEPT !.stats[stat] = @ + 1]
Then(x, F(_))  == IF x.ok THEN F(x) ELSE x

(* Step for one element after the other, until the first error.            *)
ForEach(x, seq, Step(_, _)) == FoldLeft(LAMBDA y, e : IF y.ok THEN Step(y, e) ELSE y, x, seq)

(* The rows made of the records, or the first error.                       *)
AddRow(x, v) == IF IsOk(v) THEN [x EXCEPT !.rs.rows = Append(@, v[2])] ELSE Fail(x)
MapRows(x, columns, Make(_)) ==
    ForEach(Result(x, ResultSet(columns, <<>>)), Records(x.rs), LAMBDA y, r : AddRow(y, Make(r)))

Internal(c) == c[1] \in {"__node_id", "__labels", "__edge_id"}   \* starts with "__"

--------------------------------------------------------------------------------
(* Storage, as the engine sees it.                                         *)
IdString(n)   == String(<<n>>)
Ascending(S)  == SetToSortSeq(S, LAMBDA a, b : a < b)
HasLabel(db, n, l) == l \in ToSet(db.nodes[n].labels)
Without(f, k) == [j \in DOMAIN f \ {k} |-> f[j]]
PropOf(props, k) == IF k \in DOMAIN props THEN props[k] ELSE Null

NodeValue(db, n) == NodeVal(n, db.nodes[n].labels, db.nodes[n].props)
EdgeValue(db, e) == LET d == db.edges[e] IN EdgeVal(e, d.label, d.source, d.target, d.props)

get_outgoing_edges(db, n, label) ==
    Ascending({e \in DOMAIN db.edges : db.edges[e].source = n
                                    /\ (label = None \/ label = Some(db.edges[e].label))})
get_incoming_edges(db, n, label) ==
    Ascending({e \in DOMAIN db.edges : db.edges[e].target = n
                                    /\ (label = None \/ label = Some(db.edges[e].label))})
Incident(db, n) == {e \in DOMAIN db.edges : n \in {db.edges[e].source, db.edges[e].target}}

(* Index maintenance: every index with a property of the node; a unique    *)
(* index that holds the values for another node refuses, unnoticed.        *)
IndexKey(def, props) ==
    [i \in 1..Len(def.property_names) |-> PropOf(props, def.property_names[i])]
Indexes(db, props) ==
    {i \in DOMAIN db.indexes : \E p \in ToSet(db.indexes[i].property_names) : p \in DOMAIN props}
Refused(db, i, n) ==
    db.indexes[i].unique /\ \E e \in db.entries :
        e[1] = i /\ e[2] = IndexKey(db.indexes[i], db.nodes[n].props) /\ e[3] # n
EntriesOf(db, n, names) ==
    {<<i, IndexKey(db.indexes[i], db.nodes[n].props), n>> : i \in names}

index_node_on_write(db, n) ==
    LET names == {i \in Indexes(db, db.nodes[n].props) : ~Refused(db, i, n)}
    IN [db EXCEPT !.entries = @ \cup EntriesOf(db, n, names)]

KeepEntries(db, n) == db                                  \* fault: entries are left behind
unindex_node_on_delete(db, n) ==
    [db EXCEPT !.entries = @ \ EntriesOf(db, n, Indexes(db, db.nodes[n].props))]

--------------------------------------------------------------------------------
(* Reading operators.                                                      *)

(* A table of nodes: id, labels, the properties any of them has, and the   *)
(* same once more under the variable.                                      *)
NodeTable(db, ids, var) ==
    LET keys == SetToSeq(UNION {DOMAIN db.nodes[n].props : n \in ToSet(ids)})
        Vals(n) == [i \in 1..Len(keys) |-> PropOf(db.nodes[n].props, keys[i])]
        Row(n) == <<IdString(n), List([i \in 1..Len(db.nodes[n].labels) |-> String(db.nodes[n].labels[i])])>>
                  \o Vals(n)
                  \o (IF var = None THEN <<>> ELSE <<NodeValue(db, n)>> \o Vals(n))
        Columns == <<<<"__node_id">>, <<"__labels">>>> \o [i \in 1..Len(keys) |-> <<keys[i]>>]
                   \o (IF var = None THEN <<>>
                       ELSE <<var>> \o [i \in 1..Len(keys) |-> <<var[1], keys[i]>>])
    IN ResultSet(Columns, [i \in 1..Len(ids) |-> Row(ids[i])])

exec_scan(x, labels, var) ==
    Result(x, NodeTable(x.db, Ascending({n \in DOMAIN x.db.nodes :
                                   \A l \in ToSet(labels) : HasLabel(x.db, n, l)}), var))

(* Fault: an edge to itself is followed in both directions.                *)
EdgesBothWays(db, n, dir, label) ==
    LET out == get_outgoing_edges(db, n, label)
        in  == get_incoming_edges(db, n, label)
    IN CASE dir = "Outgoing" -> out [] dir = "Incoming" -> in [] OTHER -> out \o in
(* The edges of a node in a direction; an edge to itself comes once.       *)
EdgesToward(db, n, dir, label) ==
    LET out == get_outgoing_edges(db, n, label)
        in  == get_incoming_edges(db, n, label)
    IN CASE dir = "Outgoing" -> out
         [] dir = "Incoming" -> in
         [] OTHER -> out \o SelectSeq(in, LAMBDA e : e \notin ToSet(out))

OtherEnd(db, n, dir, e) ==
    LET d == db.edges[e]
    IN CASE dir = "Outgoing" -> d.target
         [] dir = "Incoming" -> d.source
         [] OTHER -> IF d.source = n THEN d.target ELSE d.source

(* Fault: as exec_scan does, all labels are asked for.                     *)
AllLabels(db, m, labels) == \A l \in ToSet(labels) : HasLabel(db, m, l)
TargetFits(db, m, labels) == labels = <<>> \/ \E l \in ToSet(labels) : HasLabel(db, m, l)

(* One row per record and edge; the target must exist and have one of the  *)
(* labels.  A named target becomes the node the next hop starts from.      *)
exec_expand(x, p) ==
    LET db == x.db
        recs == Records(x.rs)
        at(r) == get(r, <<"__node_id">>)
        Hops(r) == LET n == at(r)[1][2][1]
                       es == EdgesToward(db, n, p.direction, p.edge_label)
                       Fits2(e) == LET m == OtherEnd(db, n, p.direction, e) IN
                           m \in DOMAIN db.nodes /\ TargetFits(db, m, p.target_labels)
                       kept == SelectSeq(es, Fits2)
                   IN [i \in 1..Len(kept) |-> <<r, kept[i], OtherEnd(db, n, p.direction, kept[i])>>]
        found == FlattenSeq([i \in 1..Len(recs) |-> Hops(recs[i])])
        ekeys == SetToSeq(UNION {DOMAIN db.edges[h[2]].props : h \in ToSet(found)})
        tkeys == SetToSeq(UNION {DOMAIN db.nodes[h[3]].props : h \in ToSet(found)})
        Cols(var, keys) == IF var = None THEN <<>>
                           ELSE <<var>> \o [i \in 1..Len(keys) |-> <<var[1], keys[i]>>]
        Vals(var, v, props, keys) ==
            IF var = None THEN <<>>
            ELSE <<v>> \o [i \in 1..Len(keys) |-> PropOf(props, keys[i])]
        Moved(values, m) ==
            LET i == Position(x.rs.columns, <<"__node_id">>)
            IN IF p.target_variable = None THEN values ELSE [values EXCEPT ![i[1]] = IdString(m)]
        Row(h) == Moved(h[1].values, h[3])
                  \o Vals(p.edge_variable, EdgeValue(db, h[2]), db.edges[h[2]].props, ekeys)
                  \o Vals(p.target_variable, NodeValue(db, h[3]), db.nodes[h[3]].props, tkeys)
    IN IF \E i \in 1..Len(recs) : at(recs[i]) = None \/ at(recs[i])[1][1] # "String" THEN Fail(x)
       ELSE Result(x, ResultSet(x.rs.columns \o Cols(p.edge_variable, ekeys)
                                             \o Cols(p.target_variable, tkeys),
                                [i \in 1..Len(found) |-> Row(found[i])]))

(* Keeps the rows of which the predicate is true, not unknown.             *)
KeepIf(x, row, v) == IF v = Ok(Bool(TRUE)) THEN AddRow(x, Ok(row)) ELSE IF IsOk(v) THEN x ELSE Fail(x)
exec_filter(x, predicate) ==
    ForEach(Result(x, ResultSet(x.rs.columns, <<>>)), Records(x.rs),
            LAMBDA y, r : KeepIf(y, r.values, evaluate(predicate, r)))

RECURSIVE expr_column_name(_, _), contains_aggregate(_)
expr_column_name(e, i) ==
    CASE e[1] = "Identifier"     -> <<e[2]>>
      [] e[1] = "PropertyAccess" -> Append(expr_column_name(e[2], i), e[3])
      [] OTHER                   -> <<"col_" \o ToString(i)>>

contains_aggregate(e) ==
    CASE e[1] = "Aggregate"    -> TRUE
      [] e[1] = "BinaryOp"     -> contains_aggregate(e[3]) \/ contains_aggregate(e[4])
      [] e[1] = "UnaryOp"      -> contains_aggregate(e[3])
      [] e[1] = "FunctionCall" -> \E i \in 1..Len(e[3]) : contains_aggregate(e[3][i])
      [] OTHER                 -> FALSE

ProjectedColumns(p) ==
    [i \in 1..Len(p.expressions) |->
        IF p.aliases[i] # None THEN p.aliases[i] ELSE expr_column_name(p.expressions[i], i - 1)]

(* --- Aggregation --- *)

(* SUM adds up the Integers and, as Floats, all the numbers.  Nothing      *)
(* catches the panic of an overflow here: with overflow checks it ends the *)
(* query, without them the sum wraps.                                      *)
FloatSum(nums) ==
    IF NaN \in ToSet(nums) THEN NaN
    ELSE Float(FoldLeft(LAMBDA a, v : as_f64(a + AsFloat(v)), 0, nums))
SumOf(vs) ==
    LET ints  == SelectSeq(vs, LAMBDA v : v[1] = "Integer")
        nums  == SelectSeq(vs, Number)
        Add(acc, v) == Bind(acc, LAMBDA a : IF OverflowChecks /\ ~Fits(a[2] + v[2]) THEN Err("panic")
                                            ELSE Ok(Integer(Wrap(a[2] + v[2]))))
        total == FoldLeft(Add, Ok(Integer(0)), ints)
    IN IF Len(nums) > Len(ints) /\ IsOk(total) THEN Ok(FloatSum(nums)) ELSE total

(* The mean is kept as the fraction it is.                                 *)
AvgOf(vs) ==
    LET nums == SelectSeq(vs, Number)
        sum  == FloatSum(nums)
    IN IF nums = <<>> THEN Null
       ELSE IF sum = NaN THEN NaN ELSE <<"Float", <<sum[2], Len(nums)>>>>

(* The least or greatest: the first value, until one of its type is better. *)
BestOf(vs, Better(_, _)) ==
    FoldLeft(LAMBDA best, v :
                 IF \/ best = Null
                    \/ v[1] = best[1] /\ v[1] \in {"Integer", "Float", "String"} /\ Better(v, best)
                 THEN v ELSE best, Null, vs)

(* Fault: COUNT(e) counts rows where e is null as well.                    *)
CountNulls(agg, recs) ==
    IF agg[2] = "Count" THEN Ok(Integer(Len(recs))) ELSE Ok(Null)
(* An aggregate of the results rs; COUNT takes an error for null.          *)
AggregateOver(agg, n, rs) ==
    LET found == {i \in 1..Len(rs) : IsOk(rs[i]) /\ rs[i][2] # Null}
        vals  == Collect(rs)
    IN CASE agg[2] = "Count" ->
               Ok(Integer(IF agg[4] = None THEN n
                          ELSE Cardinality(IF agg[3] THEN {rs[i] : i \in found} ELSE found)))
         [] agg[2] = "Sum"     -> Bind(vals, SumOf)
         [] agg[2] = "Avg"     -> Bind(vals, LAMBDA vs : Ok(AvgOf(vs)))
         [] agg[2] = "Min"     -> Bind(vals, LAMBDA vs : Ok(BestOf(vs, ValueLess)))
         [] agg[2] = "Max"     -> Bind(vals, LAMBDA vs : Ok(BestOf(vs, LAMBDA a, b : ValueLess(b, a))))
         [] agg[2] = "Collect" -> Bind(vals, LAMBDA vs : Ok(List(vs)))

AggregateValue(agg, recs) ==
    AggregateOver(agg, Len(recs), IF agg[4] = None THEN <<>>
                                  ELSE [i \in 1..Len(recs) |-> evaluate(agg[4][1], recs[i])])

DefaultOf(e) ==
    CASE e[1] # "Aggregate"         -> Null
      [] e[2] \in {"Count", "Sum"}  -> Integer(0)
      [] e[2] = "Collect"           -> List(<<>>)
      [] OTHER                      -> Null

(* Rows that agree on the items without an aggregate form a group; other   *)
(* items are evaluated on the first row of it, even when an aggregate is   *)
(* part of them.  Groups come in the order of their printed keys, which is *)
(* not modelled.                                                           *)
GroupItem(e, group) ==
    IF e[1] = "Aggregate" THEN AggregateValue(e, group) ELSE evaluate(e, group[1])
GroupRow(es, group) == Collect([i \in 1..Len(es) |-> GroupItem(es[i], group)])
Group(recs, keys, k) ==
    LET is == SelectSeq([i \in 1..Len(recs) |-> i], LAMBDA i : keys[i] = k)
    IN [j \in 1..Len(is) |-> recs[is[j]]]
GroupRows(es, recs, keys, distinct) ==
    Collect([i \in 1..Len(distinct) |-> IF IsOk(distinct[i]) THEN GroupRow(es, Group(recs, keys, distinct[i]))
                                         ELSE distinct[i]])
Rows0(es) == Ok(<<[i \in 1..Len(es) |-> DefaultOf(es[i])]>>)
ByKey(es, recs, keys) == GroupRows(es, recs, keys, SetToSeq(ToSet(keys)))
AddRows(x, rs, columns) == IF IsOk(rs) THEN Result(x, ResultSet(columns, rs[2])) ELSE Fail(x)

exec_project_with_aggregation(x, p) ==
    LET recs == Records(x.rs)
        keyItems == SelectSeq(p.expressions, LAMBDA e : ~contains_aggregate(e))
    IN AddRows(x, IF recs = <<>> /\ keyItems = <<>> THEN Rows0(p.expressions)
                  ELSE ByKey(p.expressions, recs,
                             [i \in 1..Len(recs) |-> EvaluateAll(keyItems, recs[i])]),
               ProjectedColumns(p))

(* Internal columns are carried along.  Without any input the items are    *)
(* evaluated once.                                                         *)
exec_project(x, p) ==
    LET columns  == ProjectedColumns(p)
        internal == SelectSeq(x.rs.columns, LAMBDA c : Internal(c) /\ c \notin ToSet(columns))
        Row(r)   == Bind(EvaluateAll(p.expressions, r), LAMBDA vs :
                        Ok(vs \o [i \in 1..Len(internal) |-> get(r, internal[i])[1]]))
        input    == IF x.rs.columns = <<>> /\ x.rs.rows = <<>> THEN ResultSet(<<>>, <<<<>>>>) ELSE x.rs
    IN IF \E i \in 1..Len(p.expressions) : contains_aggregate(p.expressions[i])
       THEN exec_project_with_aggregation(x, p)
       ELSE MapRows(Result(x, input), columns \o internal, Row)

exec_limit(x, count, offset) ==
    LET skip == Orelse(offset, 0)
        rows == SubSeq(x.rs.rows, skip + 1, Len(x.rs.rows))
    IN [x EXCEPT !.rs.rows = IF count = None \/ count[1] >= Len(rows) THEN rows
                             ELSE SubSeq(rows, 1, count[1])]

(* A stable sort.  A key that cannot be evaluated is met as soon as there  *)
(* are two rows to compare that agree on the keys before it.               *)
Sorted(x, order, key) ==
    LET recs == Records(x.rs)
        Tied(i, j, k) == \A m \in 1..(k - 1) :
            /\ IsOk(key[i][m]) /\ IsOk(key[j][m])
            /\ ~SortsBefore(key[i][m][2], key[j][m][2]) /\ ~SortsBefore(key[j][m][2], key[i][m][2])
        First(i, j, k) == IF order[k][2] = "Desc" THEN SortsBefore(key[j][k][2], key[i][k][2])
                          ELSE SortsBefore(key[i][k][2], key[j][k][2])
        Precedes(i, j) == \/ \E k \in 1..Len(order) : Tied(i, j, k) /\ First(i, j, k)
                          \/ Tied(i, j, Len(order) + 1) /\ i < j
        indexes == SortSeq([i \in 1..Len(recs) |-> i], Precedes)
    IN IF \E i, j \in 1..Len(recs), k \in 1..Len(order) : i # j /\ Tied(i, j, k) /\ ~IsOk(key[i][k])
       THEN Fail(x)
       ELSE [x EXCEPT !.rs.rows = [i \in 1..Len(recs) |-> recs[indexes[i]].values]]
exec_sort(x, order) ==
    Sorted(x, order, [i \in 1..Len(x.rs.rows) |->
                         [k \in 1..Len(order) |-> evaluate(order[k][1], Records(x.rs)[i])]])

(* Rows that agree on the columns of the user; the first one stays.        *)
exec_distinct(x) ==
    LET user(row) == [i \in {i \in 1..Len(row) : ~Internal(x.rs.columns[i])} |-> row[i]]
        rows == x.rs.rows
        first == SelectSeq([i \in 1..Len(rows) |-> i],
                           LAMBDA i : \A j \in 1..(i - 1) : user(rows[j]) # user(rows[i]))
    IN [x EXCEPT !.rs.rows = [i \in 1..Len(first) |-> rows[first[i]]]]

(* Two tables are joined on equal values of the columns variable.property  *)
(* both have, and multiplied when there is none.                           *)
exec_join(x, left, right) ==
    LET qualified(c) == Len(c) > 1 /\ ~Internal(c)
        shared == {<<i, Position(right.columns, left.columns[i])[1]>> :
                      i \in {i \in 1..Len(left.columns) : qualified(left.columns[i])
                                /\ Position(right.columns, left.columns[i]) # None}}
        keep == SelectSeq([i \in 1..Len(right.columns) |-> i], LAMBDA i : \A s \in shared : s[2] # i)
        Kept(row) == [i \in 1..Len(keep) |-> row[keep[i]]]
        Agree(l, r) == \A s \in shared : l[s[1]] = r[s[2]]
        Rows(l) == LET rs == SelectSeq(right.rows, LAMBDA r : Agree(l, r))
                   IN [i \in 1..Len(rs) |-> l \o Kept(rs[i])]
    IN Result(x, ResultSet(left.columns \o Kept(right.columns),
                           FlattenSeq([i \in 1..Len(left.rows) |-> Rows(left.rows[i])])))

(* Nodes by index, then what the index does not decide.                    *)
IndexLookup(x, p, values) ==
    LET found  == {e[3] : e \in {e \in x.db.entries : e[1] = p.index_name /\ e[2] = values[2]}}
        ids    == Ascending({n \in found \cap DOMAIN x.db.nodes :
                                \A l \in ToSet(p.labels) : HasLabel(x.db, n, l)})
        y      == Result(x, NodeTable(x.db, ids, p.variable))
    IN IF p.index_name \notin DOMAIN x.db.indexes \/ ~IsOk(values) THEN Fail(x)
       ELSE IF p.remaining_predicate = None THEN y ELSE exec_filter(y, p.remaining_predicate[1])
exec_index_scan(x, p) == IndexLookup(x, p, EvaluateAll(p.lookup_values, EmptyRecord))

--------------------------------------------------------------------------------
(* Writing operators.                                                      *)
Message(x, column) == Result(x, ResultSet(<<<<column>>>>, <<<<Null>>>>))
Counted(x, column, n) == Result(x, ResultSet(<<<<column>>>>, <<<<Integer(n)>>>>))

(* The properties of a new node or edge, evaluated without a record.       *)
NewProps(props) ==
    Bind(EvaluateAll([i \in 1..Len(props) |-> props[i][2]], EmptyRecord), LAMBDA vs :
        Ok([k \in {props[i][1] : i \in 1..Len(props)} |->
               vs[CHOOSE i \in 1..Len(props) :
                      props[i][1] = k /\ \A j \in (i + 1)..Len(props) : props[j][1] # k]]))

NewNode(x, p, props) ==
    LET n     == x.fresh[1]
        db    == [x.db EXCEPT !.nodes = n :> [labels |-> p.labels, props |-> props[2]] @@ @]
    IN IF ~IsOk(props) THEN Fail(x)
       ELSE Result([Count(x, "nodes_created") EXCEPT !.db = index_node_on_write(db, n),
                                                     !.fresh = Tail(@)],
                   ResultSet(<<<<"__node_id">>>>, <<<<IdString(n)>>>>))
exec_create_node(x, p) == NewNode(x, p, NewProps(p.properties))

(* The id of a variable's node in a record: from the node, from a column   *)
(* of its own, or, where allowed, from the column of the current node.     *)
ResolveNode(r, var, current) ==
    LET Text(c) == LET v == get(r, c) IN
                   IF v # None /\ v[1][1] = "String" THEN Some(v[1][2][1]) ELSE None
        v       == get(r, <<var>>)
    IN IF v # None /\ v[1][1] = "Node" THEN Some(v[1][2])
       ELSE IF Text(<<var, "__node_id">>) # None THEN Text(<<var, "__node_id">>)
       ELSE IF current THEN Text(<<"__node_id">>) ELSE None

NewEdge(x, label, source, target, props) ==
    LET e == x.fresh[1]
    IN IF source = None \/ target = None \/ ~IsOk(props) THEN Fail(x)
       ELSE [Count(x, "edges_created") EXCEPT
                !.db.edges = e :> [source |-> source[1], target |-> target[1],
                                   label |-> label, props |-> props[2]] @@ @,
                !.fresh = Tail(@),
                !.rs.rows = Append(@, <<IdString(e)>>)]
exec_create_edge_from_match(x, p) ==
    ForEach(Result(x, ResultSet(<<<<"__edge_id">>>>, <<>>)), Records(x.rs),
            LAMBDA y, r : NewEdge(y, p.label, ResolveNode(r, p.source_var, TRUE),
                                  ResolveNode(r, p.target_var, FALSE), NewProps(p.properties)))

(* The values a DELETE is about: those of its variables, or the whole row. *)
DeleteValues(r, targets) ==
    IF targets = <<>> THEN r.values
    ELSE LET found == SelectSeq([i \in 1..Len(targets) |-> get(r, <<targets[i]>>)],
                                LAMBDA v : v # None)
         IN [i \in 1..Len(found) |-> found[i][1]]

(* Fault: the edges that go with a node are not counted.                   *)
CountNodeOnly(x, n) ==
    [Count(x, "nodes_deleted") EXCEPT
        !.db = [unindex_node_on_delete(x.db, n) EXCEPT
                   !.nodes = Without(@, n),
                   !.edges = [e \in DOMAIN @ \ Incident(x.db, n) |-> @[e]]]]
DeleteOne(x, n) ==
    [Count(x, "nodes_deleted") EXCEPT
        !.stats.edges_deleted = @ + Cardinality(Incident(x.db, n)),
        !.db = [unindex_node_on_delete(x.db, n) EXCEPT
                   !.nodes = Without(@, n),
                   !.edges = [e \in DOMAIN @ \ Incident(x.db, n) |-> @[e]]]]

(* First the edges, then the nodes, each once; a node takes its edges with *)
(* it.  DETACH makes no difference.                                        *)
exec_delete_nodes(x, p) ==
    LET recs == Records(x.rs)
        all  == FlattenSeq([i \in 1..Len(recs) |-> DeleteValues(recs[i], p.targets)])
        Ids(type) == LET vs == SelectSeq(all, LAMBDA v : v[1] = type)
                     IN SetToSeq({vs[i][2] : i \in 1..Len(vs)})
        EdgeGone(y, e) == IF e \notin DOMAIN y.db.edges THEN Fail(y)
                          ELSE [Count(y, "edges_deleted") EXCEPT !.db.edges = Without(@, e)]
        NodeGone(y, n) == IF n \notin DOMAIN y.db.nodes THEN Fail(y) ELSE DeleteOne(y, n)
    IN Then(ForEach(ForEach(x, Ids("Edge"), EdgeGone), Ids("Node"), NodeGone),
            LAMBDA y : Counted(y, "deleted", Len(Ids("Edge")) + Len(Ids("Node"))))

(* One entity gets the value; the node is read again, the row may be old.  *)
SetOne(x, v, property, value) ==
    LET n == v[2]
        With(d) == [d EXCEPT !.props = property :> value @@ @]
        written == [unindex_node_on_delete(x.db, n) EXCEPT !.nodes[n] = With(@)]
    IN CASE v[1] = "Node" /\ n \in DOMAIN x.db.nodes ->
               [Count(x, "properties_set") EXCEPT !.db = index_node_on_write(written, n)]
         [] v[1] = "Edge" /\ n \in DOMAIN x.db.edges ->
               [Count(x, "properties_set") EXCEPT !.db.edges[n] = With(@)]
         [] v[1] \in {"Node", "Edge"} -> Fail(x)
         [] OTHER -> x

SetAll(x, entities, property, value) ==
    IF ~IsOk(value) THEN Fail(x)
    ELSE ForEach(x, entities, LAMBDA z, v : SetOne(z, v, property, value[2]))
exec_set_property(x, p) ==
    LET Entities(r) == IF p.target = None THEN r.values ELSE get(r, p.target)
    IN Then(ForEach(x, Records(x.rs),
                    LAMBDA y, r : SetAll(y, Entities(r), p.property, evaluate(p.value, r))),
            LAMBDA y : Counted(y, "modified", y.stats.properties_set - x.stats.properties_set))

(* The nodes of the label are indexed at once; the label is not kept.      *)
exec_create_index(x, p) ==
    LET def  == [unique |-> p.unique, property_names |-> p.property_names]
        db   == [x.db EXCEPT !.indexes = p.name :> def @@ @]
        Add(d, n) == IF p.name \notin Indexes(d, d.nodes[n].props) \/ Refused(d, p.name, n) THEN d
                     ELSE [d EXCEPT !.entries = @ \cup EntriesOf(d, n, {p.name})]
        ids  == Ascending({n \in DOMAIN db.nodes : p.label = None \/ HasLabel(db, n, p.label[1])})
    IN Message([x EXCEPT !.db = FoldLeft(Add, db, ids)], "result")

exec_drop_index(x, name) ==
    Message([x EXCEPT !.db.indexes = Without(@, name),
                      !.db.entries = {e \in @ : e[1] # name}], "result")

exec_create_graph(x, p) ==
    IF p.name \in x.db.graphs /\ ~p.if_not_exists THEN Fail(x)
    ELSE Message([x EXCEPT !.db.graphs = @ \cup {p.name}], "result")

(* Dropping the graph the statement runs on empties it.                    *)
exec_drop_graph(x, p) ==
    LET empty == [x.db EXCEPT !.nodes = <<>>, !.edges = <<>>, !.indexes = <<>>, !.entries = {}]
        db    == IF p.name = x.db.graph THEN empty ELSE x.db
    IN CASE p.name \in x.db.graphs ->
               Message([x EXCEPT !.db = [db EXCEPT !.graphs = @ \ {p.name}]], "result")
         [] p.name \notin x.db.graphs /\ p.if_exists -> Message(x, "result")
         [] OTHER -> Fail(x)

exec_list_graphs(x) ==
    LET names == SetToSeq(x.db.graphs)
    IN Result(x, ResultSet(<<<<"name">>, <<"id">>>>,
                           [i \in 1..Len(names) |-> <<String(names[i]), String(names[i])>>]))

(* The table of a procedure, and the columns of it that are asked for.     *)
Column(c, vs) == ResultSet(<<<<c>>>>, [i \in 1..Len(vs) |-> <<vs[i]>>])
ProcedureTable(proc, db, edges, labels, types, keys) ==
    CASE proc = "labels"       -> Column("label", labels)
      [] proc \in {"relationshipTypes", "edgeTypes"} -> Column("relationshipType", types)
      [] proc = "propertyKeys" -> Column("propertyKey", keys)
      [] proc = "schema"       ->
            ResultSet(<<<<"labels">>, <<"relationshipTypes">>, <<"propertyKeys">>>>,
                      <<<<List(labels), List(types), List(keys)>>>>)
      [] proc = "nodeCount"    -> Column("count", <<Integer(Cardinality(DOMAIN db.nodes))>>)
      [] proc = "edgeCount"    -> Column("count", <<Integer(Cardinality(edges))>>)
      [] OTHER                 -> ResultSet(<<>>, <<>>)

Yielded(table, items) ==
    LET Cell(row, i) == IF i = None THEN Null ELSE row[i[1]]
    IN ResultSet([i \in 1..Len(items) |-> <<items[i]>>],
                 [j \in 1..Len(table.rows) |->
                     [i \in 1..Len(items) |->
                         Cell(table.rows[j], Position(table.columns, <<items[i]>>))]])

YieldFrom(x, table, yield) ==
    IF table.columns = <<>> THEN Fail(x)
    ELSE Result(x, IF yield = None THEN table ELSE Yielded(table, yield[1]))

(* Edges are counted from the nodes they leave.                            *)
exec_call_procedure(x, p) ==
    LET db     == x.db
        edges  == {e \in DOMAIN db.edges : db.edges[e].source \in DOMAIN db.nodes}
        Strings(S) == LET s == SetToSeq(S) IN [i \in 1..Len(s) |-> String(s[i])]
    IN YieldFrom(x, ProcedureTable(
           IF Len(p.procedure) = 2 /\ p.procedure[1] = "db" THEN p.procedure[2] ELSE "", db, edges,
           Strings(UNION {ToSet(db.nodes[n].labels) : n \in DOMAIN db.nodes}),
           Strings({db.edges[e].label : e \in edges}),
           Strings(UNION ({DOMAIN db.nodes[n].props : n \in DOMAIN db.nodes}
                          \cup {DOMAIN db.edges[e].props : e \in edges}))), p.yield_items)

--------------------------------------------------------------------------------
RECURSIVE execute_node(_, _), optimize(_, _), extract_eq_predicates(_, _)

execute_node(p, x) ==
    LET On(F(_)) == Then(execute_node(p.input, x), F)
    IN CASE p.op = "Scan"       -> exec_scan(x, p.labels, p.variable)
         [] p.op = "IndexScan"  -> exec_index_scan(x, p)
         [] p.op = "Filter"     -> On(LAMBDA y : exec_filter(y, p.predicate))
         [] p.op = "Project"    -> On(LAMBDA y : exec_project(y, p))
         [] p.op = "Limit"      -> On(LAMBDA y : exec_limit(y, p.count, p.offset))
         [] p.op = "Sort"       -> On(LAMBDA y : exec_sort(y, p.order_by))
         [] p.op = "Distinct"   -> On(exec_distinct)
         [] p.op = "Expand"     -> On(LAMBDA y : exec_expand(y, p))
         [] p.op = "Join"       ->
               Then(execute_node(p.left, x), LAMBDA l :
                   Then(execute_node(p.right, l), LAMBDA r : exec_join(r, l.rs, r.rs)))
         [] p.op = "CreateNode" -> exec_create_node(x, p)
         [] p.op = "CreateEdgeFromMatch" -> On(LAMBDA y : exec_create_edge_from_match(y, p))
         [] p.op = "DeleteNode"  -> On(LAMBDA y : exec_delete_nodes(y, p))
         [] p.op = "SetProperty" -> On(LAMBDA y : exec_set_property(y, p))
         [] p.op = "CallProcedure" -> exec_call_procedure(x, p)
         [] p.op = "CreateIndex" -> exec_create_index(x, p)
         [] p.op = "DropIndex"   -> exec_drop_index(x, p.name)
         [] p.op = "CreateGraph" -> exec_create_graph(x, p)
         [] p.op = "DropGraph"   -> exec_drop_graph(x, p)
         [] p.op = "ListGraphs"  -> exec_list_graphs(x)
         [] p.op = "Empty"       -> Result(x, ResultSet(<<>>, <<>>))

(* --- The optimizer: Filter(Scan) that an index can answer --- *)

extract_property_name(e, var) ==
    IF /\ e[1] = "PropertyAccess" /\ e[2][1] = "Identifier"
       /\ (var = None \/ var = Some(e[2][2]))
    THEN Some(e[3]) ELSE None

(* The equations of an AND chain between a property and a literal, and the *)
(* other conjuncts.                                                        *)
extract_eq_predicates(e, var) ==
    LET Equation(a, b) == extract_property_name(a, var) # None /\ b[1] = "Literal"
        l == extract_eq_predicates(e[3], var)
        r == extract_eq_predicates(e[4], var)
    IN CASE e[1] = "BinaryOp" /\ e[2] = "And" -> <<l[1] \o r[1], l[2] \o r[2]>>
         [] e[1] = "BinaryOp" /\ e[2] = "Eq" /\ Equation(e[3], e[4]) ->
               <<<<<<extract_property_name(e[3], var)[1], e[4]>>>>, <<>>>>
         [] e[1] = "BinaryOp" /\ e[2] = "Eq" /\ ~Equation(e[3], e[4]) /\ Equation(e[4], e[3]) ->
               <<<<<<extract_property_name(e[4], var)[1], e[3]>>>>, <<>>>>
         [] OTHER -> <<<<>>, <<e>>>>

rebuild_eq_predicate(var, eq) ==
    BinaryOp(IF var = None THEN Identifier(eq[1])
             ELSE PropertyAccess(Identifier(var[1]), eq[1]), "Eq", eq[2])

(* Fault: the conjuncts the index does not decide are lost.                *)
NothingRemains(var, eqs, used, others) == None
RemainingPredicate(var, eqs, used, others) ==
    LET unused == SelectSeq([i \in 1..Len(eqs) |-> i], LAMBDA i : i \notin used)
        parts  == [i \in 1..Len(unused) |-> rebuild_eq_predicate(var, eqs[unused[i]])] \o others
    IN IF parts = <<>> THEN None
       ELSE Some(FoldLeft(LAMBDA a, b : BinaryOp(a, "And", b), parts[1], Tail(parts)))

(* The first index all of whose properties have an equation; the first     *)
(* equation of a property is the one that is used.                         *)
try_index_scan(db, labels, var, predicate) ==
    LET split == extract_eq_predicates(predicate, var)
        eqs   == split[1]
        At(prop) == {i \in 1..Len(eqs) : eqs[i][1] = prop /\ \A j \in 1..(i - 1) : eqs[j][1] # prop}
        covering == {i \in DOMAIN db.indexes :
                        \A p \in ToSet(db.indexes[i].property_names) : At(p) # {}}
        name  == SetToSeq(covering)[1]
        props == db.indexes[name].property_names
        used  == UNION {At(p) : p \in ToSet(props)}
        Value(p) == eqs[CHOOSE i \in At(p) : TRUE][2]
    IN IF covering = {} THEN None
       ELSE Some(IndexScan(name, labels, var, [i \in 1..Len(props) |-> Value(props[i])],
                           RemainingPredicate(var, eqs, used, split[2])))

optimize(p, db) ==
    LET input == optimize(p.input, db)
        index == try_index_scan(db, input.labels, input.variable, p.predicate)
    IN CASE p.op = "Filter" ->
               IF input.op = "Scan" THEN IF index # None THEN index[1] ELSE [p EXCEPT !.input = input]
               ELSE [p EXCEPT !.input = input]
         [] p.op \in {"Project", "Sort", "Limit", "Distinct", "Expand", "DeleteNode", "SetProperty"} ->
               [p EXCEPT !.input = input]
         [] p.op = "Join" -> Join(optimize(p.left, db), optimize(p.right, db))
         [] OTHER -> p

(* --- Plans on a graph --- *)
Start0(db, fresh) == [db |-> db, stats |-> NoStats, fresh |-> fresh, ok |-> TRUE,
                      rs |-> ResultSet(<<>>, <<>>)]
execute_plan_with(p, db, fresh) == execute_node(optimize(p, db), Start0(db, fresh))
================================================================================
