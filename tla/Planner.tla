--------------------------------- MODULE Planner ---------------------------------
(***************************************************************************)
(* The logical planner of synaptica-gql (planner.rs): a list of statements *)
(* becomes one tree of operators, each statement taking the plan of the    *)
(* ones before it as its input.                                            *)
(*                                                                         *)
(* A plan is a record with its operator in the field op.  A result is      *)
(* <<"Ok", plan>> or <<"Err", reason>>.  What plan_statement reads nowhere *)
(* is not in a plan: OPTIONAL, path modes and quantifiers, GROUP BY and    *)
(* HAVING, ORDER BY and LIMIT of a MATCH, IF [NOT] EXISTS of an index.     *)
(***************************************************************************)
EXTENDS GqlAst, SequencesExt

Scan(labels, var)        == [op |-> "Scan", labels |-> labels, variable |-> var]
Filter(input, predicate) == [op |-> "Filter", input |-> input, predicate |-> predicate]
Join(left, right)        == [op |-> "Join", left |-> left, right |-> right]
Sort(input, order)       == [op |-> "Sort", input |-> input, order_by |-> order]
Distinct(input)          == [op |-> "Distinct", input |-> input]
EmptyPlan                == [op |-> "Empty"]

Project(input, exprs, aliases) ==
    [op |-> "Project", input |-> input, expressions |-> exprs, aliases |-> aliases]

Limit(input, count, offset) ==
    [op |-> "Limit", input |-> input, count |-> count, offset |-> offset]

Expand(input, label, dir, labels, edgeVar, targetVar) ==
    [op |-> "Expand", input |-> input, edge_label |-> label, direction |-> dir,
     target_labels |-> labels, edge_variable |-> edgeVar, target_variable |-> targetVar]

CreateNode(labels, props) == [op |-> "CreateNode", labels |-> labels, properties |-> props]

CreateEdgeFromMatch(input, source, target, label, props) ==
    [op |-> "CreateEdgeFromMatch", input |-> input, source_var |-> source,
     target_var |-> target, label |-> label, properties |-> props]

DeleteNode(input, targets) == [op |-> "DeleteNode", input |-> input, targets |-> targets]

SetPropertyOf(input, target, x, value) ==
    [op |-> "SetProperty", input |-> input, target |-> target, property |-> x, value |-> value]

CallProcedure(proc, yield) ==
    [op |-> "CallProcedure", procedure |-> proc, yield_items |-> yield]

IndexScan(name, labels, var, values, remaining) ==
    [op |-> "IndexScan", index_name |-> name, labels |-> labels, variable |-> var,
     lookup_values |-> values, remaining_predicate |-> remaining]

CreateIndex(name, unique, label, props) ==
    [op |-> "CreateIndex", name |-> name, unique |-> unique, label |-> label,
     property_names |-> props]

DropIndex(name)            == [op |-> "DropIndex", name |-> name]
CreateGraph(name, guarded) == [op |-> "CreateGraph", name |-> name, if_not_exists |-> guarded]
DropGraph(name, guarded)   == [op |-> "DropGraph", name |-> name, if_exists |-> guarded]
ListGraphsPlan             == [op |-> "ListGraphs"]

Planned(plan)  == <<"Ok", plan>>
PlanError(why) == <<"Err", why>>

--------------------------------------------------------------------------------
Orelse(option, default) == IF option = None THEN default ELSE option[1]

(* The elements of a kind, in the order of the path.                       *)
ElementsOf(path, kind) == SelectSeq(path.elements, LAMBDA e : e.element = kind)
NodesOf(path) == ElementsOf(path, "Node")
EdgesOf(path) == ElementsOf(path, "Edge")

(* One Filter per inline property of a pattern.                            *)
apply_inline_property_filters(plan, props, var) ==
    FoldLeft(LAMBDA pl, kv :
                 Filter(pl, BinaryOp(PropertyAccess(Identifier(Orelse(var, "")), kv[1]), "Eq", kv[2])),
             plan, props)

(* The start of a path: the plan so far when the node has a name, and a    *)
(* scan otherwise.  Labels are not looked at in the first case.            *)
Start(labels, var, props, input) ==
    apply_inline_property_filters(
        IF input # None /\ var # None THEN input[1] ELSE Scan(labels, var), props, var)

PlanHop(plan, edge, target) ==
    LET node == Orelse(target, NodePattern(None, <<>>, <<>>))
        hop  == Expand(plan, IF edge.labels = <<>> THEN None ELSE Some(edge.labels[1]),
                       edge.direction, node.labels, edge.variable, node.variable)
        kept == apply_inline_property_filters(hop, edge.properties, edge.variable)
    IN apply_inline_property_filters(kept, node.properties, node.variable)

(* A path without edges is one scan for all its nodes taken together.      *)
PlanNodes(path, input) ==
    LET nodes == NodesOf(path)
        named == SelectSeq(nodes, LAMBDA n : n.variable # None)
        All(Of(_)) == FlattenSeq([i \in 1..Len(nodes) |-> Of(nodes[i])])
    IN Start(All(LAMBDA n : n.labels), IF named = <<>> THEN None ELSE named[1].variable,
             All(LAMBDA n : n.properties), input)

PlanWalk(path, input) ==
    LET nodes == NodesOf(path)
        edges == EdgesOf(path)
        first == nodes[1]
        Hop(pl, i) == PlanHop(pl, edges[i], IF i < Len(nodes) THEN Some(nodes[i + 1]) ELSE None)
    IN FoldLeft(Hop, Start(first.labels, first.variable, first.properties, input),
                [i \in 1..Len(edges) |-> i])

PlanPath(path, input) ==
    IF EdgesOf(path) = <<>> THEN PlanNodes(path, input) ELSE PlanWalk(path, input)

(* The paths are joined from the left; the WHERE comes last.               *)
PlanMatch(stmt, input) ==
    LET plans == [i \in 1..Len(stmt.paths) |-> PlanPath(stmt.paths[i], input)]
        joined == FoldLeft(Join, plans[1], Tail(plans))
    IN IF \E i \in 1..Len(stmt.paths) :
             EdgesOf(stmt.paths[i]) # <<>> /\ NodesOf(stmt.paths[i]) = <<>>
       THEN PlanError("edge pattern missing source node")
       ELSE Planned(IF stmt.where_clause = None THEN joined
                    ELSE Filter(joined, stmt.where_clause[1]))

--------------------------------------------------------------------------------
(* An ORDER BY that names an alias stands for the aliased expression.      *)
NoAliases(e, items) == e                           \* fault: an alias is left for the executor to find
resolve_order_alias(e, items) ==
    LET at == {i \in 1..Len(items) : items[i][2] # None /\ e = Identifier(items[i][2][1])}
    IN IF at = {} THEN e ELSE items[CHOOSE i \in at : \A j \in at : i <= j][1]

ProjectItems(input, items) ==
    Project(input, [i \in 1..Len(items) |-> items[i][1]], [i \in 1..Len(items) |-> items[i][2]])

DistinctIf(plan, distinct) == IF distinct THEN Distinct(plan) ELSE plan

(* Only a literal integer counts as a limit.                               *)
PlanLimit(plan, limit) ==
    LET Count(e) == IF e # None /\ e[1][1] = "Literal" /\ e[1][2] = "Integer"
                    THEN Some(e[1][3]) ELSE None
    IN IF limit = None THEN plan ELSE Limit(plan, Count(limit[1][1]), Count(limit[1][2]))

(* Fault: RETURN sorts what it has projected, as WITH does.                *)
SortLast(stmt, base) ==
    LET order == IF stmt.order_by = None THEN <<>> ELSE stmt.order_by[1]
        rows  == ProjectItems(base, stmt.items)
        sorted == IF order = <<>> THEN rows ELSE Sort(rows, order)
    IN PlanLimit(DistinctIf(sorted, stmt.distinct), stmt.limit_offset)

(* RETURN sorts before it projects, and then may drop duplicates.          *)
PlanReturn(stmt, base) ==
    LET order  == IF stmt.order_by = None THEN <<>> ELSE stmt.order_by[1]
        sorted == Sort(base, [i \in 1..Len(order) |->
                      OrderByItem(resolve_order_alias(order[i][1], stmt.items), order[i][2])])
        rows == ProjectItems(IF order = <<>> THEN base ELSE sorted, stmt.items)
    IN PlanLimit(DistinctIf(rows, stmt.distinct), stmt.limit_offset)

(* WITH projects, drops duplicates, filters, sorts and limits, in that order. *)
PlanWith(stmt, base) ==
    LET rows   == DistinctIf(ProjectItems(base, stmt.items), stmt.distinct)
        kept   == IF stmt.where_clause = None THEN rows ELSE Filter(rows, stmt.where_clause[1])
        sorted == IF stmt.order_by = None THEN kept ELSE Sort(kept, stmt.order_by[1])
    IN PlanLimit(sorted, stmt.limit_offset)

(* INSERT of an edge between variables of the input; any other INSERT      *)
(* creates the first node of the pattern, and only that one.               *)
PlanInsert(stmt, input) ==
    LET elements == FlattenSeq([i \in 1..Len(stmt.paths) |-> stmt.paths[i].elements])
        all   == [elements |-> elements]
        named == SelectSeq(NodesOf(all), LAMBDA n : n.variable # None)
        edge  == EdgesOf(all)[1]
        first == NodesOf(all)[1]
    IN IF EdgesOf(all) # <<>> /\ input # None
       THEN IF Len(named) < 2 THEN PlanError("edge INSERT requires both variables")
            ELSE IF edge.labels = <<>> THEN PlanError("edge INSERT requires a label")
            ELSE Planned(CreateEdgeFromMatch(input[1], named[1].variable[1],
                             named[2].variable[1], edge.labels[1], edge.properties))
       ELSE IF NodesOf(all) = <<>> THEN PlanError("INSERT requires a node")
       ELSE Planned(CreateNode(first.labels, first.properties))

(* Targets that are no variables are dropped from a DELETE.                *)
PlanDelete(stmt, input) ==
    LET vars == SelectSeq(stmt.targets, LAMBDA e : e[1] = "Identifier")
    IN IF input = None THEN PlanError("DELETE requires a preceding MATCH")
       ELSE Planned(DeleteNode(input[1], [i \in 1..Len(vars) |-> vars[i][2]]))

(* Each item of a SET takes the plan of the item before it as its input.   *)
PlanSet(stmt, input) ==
    LET Item(pl, it) == SetPropertyOf(pl, IF it[2][1] = "Identifier" THEN Some(it[2][2]) ELSE None,
                                      it[3], it[4])
    IN IF input = None THEN PlanError("SET requires a preceding MATCH")
       ELSE IF \E i \in 1..Len(stmt.items) : stmt.items[i][1] # "Property"
       THEN PlanError("unsupported SET item")
       ELSE Planned(FoldLeft(Item, input[1], stmt.items))

plan_statement(stmt, input) ==
    CASE stmt.kind = "Match"       -> PlanMatch(stmt, input)
      [] stmt.kind = "Return"      -> Planned(PlanReturn(stmt, Orelse(input, EmptyPlan)))
      [] stmt.kind = "With"        -> Planned(PlanWith(stmt, Orelse(input, EmptyPlan)))
      [] stmt.kind = "Insert"      -> PlanInsert(stmt, input)
      [] stmt.kind = "Call"        -> Planned(CallProcedure(stmt.procedure, stmt.yield_items))
      [] stmt.kind = "Delete"      -> PlanDelete(stmt, input)
      [] stmt.kind = "Set"         -> PlanSet(stmt, input)
      [] stmt.kind = "CreateIndex" ->
            Planned(CreateIndex(stmt.name, stmt.unique, stmt.label, stmt.property_names))
      [] stmt.kind = "DropIndex"   -> Planned(DropIndex(stmt.name))
      [] stmt.kind = "CreateGraph" -> Planned(CreateGraph(stmt.name, stmt.if_not_exists))
      [] stmt.kind = "DropGraph"   -> Planned(DropGraph(stmt.name, stmt.if_exists))
      [] stmt.kind = "ListGraphs"  -> Planned(ListGraphsPlan)
      [] OTHER                     -> PlanError("unsupported statement")

(* The whole program; the first error ends it.                             *)
plan(statements) ==
    LET Step(acc, stmt) == IF acc[1] = "Err" THEN acc
                           ELSE plan_statement(stmt, IF acc = <<"Ok">> THEN None ELSE Some(acc[2]))
    IN IF statements = <<>> THEN Planned(EmptyPlan)
       ELSE FoldLeft(Step, <<"Ok">>, statements)
================================================================================
