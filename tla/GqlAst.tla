--------------------------------- MODULE GqlAst ---------------------------------
(***************************************************************************)
(* The abstract syntax of GQL (synaptica-gql, ast.rs) and the tokens it is *)
(* written in (lexer.rs).                                                  *)
(*                                                                         *)
(* A token is <<kind, text>>: the kind of a keyword is its text in lower   *)
(* case, of a symbol the symbol; the others are "ident", "int", "float",   *)
(* "string", "parameter" and "comment".                                    *)
(* An expression is a tuple that begins with its constructor, a statement  *)
(* a record with its constructor in the field kind.  An Option is a        *)
(* sequence of at most one element.  The fields the parser always leaves   *)
(* empty are left out: graph and mode of a pattern, variable, shortest and *)
(* where_clause of a path, ORDER BY and LIMIT of a composite query.        *)
(***************************************************************************)
EXTENDS Naturals, Sequences, TLC

None == <<>>
Some(x) == <<x>>

(* The keywords that may stand for a name.                                 *)
SoftKeywords ==
    {"match", "return", "where", "insert", "create", "set", "delete", "detach", "remove",
     "drop", "with", "order", "by", "limit", "offset", "asc", "desc", "distinct", "as",
     "and", "or", "not", "xor", "is", "null", "true", "false", "in", "exists", "case",
     "when", "then", "else", "end", "union", "all", "optional", "call", "yield", "like",
     "node", "edge", "graph", "type", "group", "having", "let", "for", "filter", "count",
     "sum", "avg", "min", "max", "collect", "path", "cost", "from", "to"}

--------------------------------------------------------------------------------
(* Expressions.                                                            *)
Literal(kind, v)        == <<"Literal", kind, v>>
Identifier(x)           == <<"Identifier", x>>
PropertyAccess(o, x)    == <<"PropertyAccess", o, x>>
FunctionCall(f, args)   == <<"FunctionCall", f, args>>
BinaryOp(l, op, r)      == <<"BinaryOp", op, l, r>>
UnaryOp(op, e)          == <<"UnaryOp", op, e>>
CaseOf(operand, ws, el) == <<"Case", operand, ws, el>>
Exists(stmt)            == <<"Exists", stmt>>
Aggregate(f, dist, arg) == <<"Aggregate", f, dist, arg>>
ListOf(es)              == <<"List", es>>
MapOf(entries)          == <<"Map", entries>>
Parameter(x)            == <<"Parameter", x>>
IsNull(e)               == <<"IsNull", e>>
IsNotNull(e)            == <<"IsNotNull", e>>
InList(e, list)         == <<"In", e, list>>
Like(e, pattern)        == <<"Like", e, pattern>>

--------------------------------------------------------------------------------
(* Patterns.                                                               *)
NodePattern(var, labels, props) ==
    [element |-> "Node", variable |-> var, labels |-> labels, properties |-> props]

EdgePattern(var, dir, labels, props, quant) ==
    [element |-> "Edge", variable |-> var, direction |-> dir, labels |-> labels,
     properties |-> props, quantifier |-> quant]

PathPattern(mode, elements, quant) ==
    [mode |-> mode, elements |-> elements, quantifier |-> quant]

Quantifier(min, max) == <<min, max>>

--------------------------------------------------------------------------------
(* Clauses.                                                                *)
OrderByItem(e, dir)             == <<e, dir>>
LimitOffsetClause(limit, offset) == <<limit, offset>>
ReturnItem(e, alias)            == <<e, alias>>

(* Statements.                                                             *)
MatchStatement(optional, paths, where, order, limit) ==
    [kind |-> "Match", optional |-> optional, paths |-> paths, where_clause |-> where,
     order_by |-> order, limit_offset |-> limit]

ReturnStatement(distinct, items, group, having, order, limit) ==
    [kind |-> "Return", distinct |-> distinct, items |-> items, group_by |-> group,
     having |-> having, order_by |-> order, limit_offset |-> limit]

WithStatement(distinct, items, where, order, limit) ==
    [kind |-> "With", distinct |-> distinct, items |-> items, where_clause |-> where,
     order_by |-> order, limit_offset |-> limit]

InsertStatement(paths)          == [kind |-> "Insert", paths |-> paths]
SetStatement(items)             == [kind |-> "Set", items |-> items]
SetProperty(target, x, value)   == <<"Property", target, x, value>>
SetLabel(target, label)         == <<"Label", target, label>>
SetAllProperties(target, value) == <<"AllProperties", target, value>>
DeleteStatement(detach, es)     == [kind |-> "Delete", detach |-> detach, targets |-> es]
RemoveStatement(items)          == [kind |-> "Remove", items |-> items]
RemoveProperty(target, x)       == <<"Property", target, x>>
RemoveLabel(target, label)      == <<"Label", target, label>>

CallStatement(proc, args, yield) ==
    [kind |-> "Call", procedure |-> proc, arguments |-> args, yield_items |-> yield]

CreateIndexStatement(x, unique, label, props, guarded) ==
    [kind |-> "CreateIndex", name |-> x, unique |-> unique, label |-> label,
     property_names |-> props, if_not_exists |-> guarded]

DropIndexStatement(x, guarded)  == [kind |-> "DropIndex", name |-> x, if_exists |-> guarded]

CreateGraphStatement(x, guarded, type) ==
    [kind |-> "CreateGraph", name |-> x, if_not_exists |-> guarded, graph_type |-> type]

CreateGraphTypeStatement(x, guarded, type) ==
    [kind |-> "CreateGraphType", name |-> x, if_not_exists |-> guarded, graph_type |-> type]

DropGraphStatement(x, guarded)  == [kind |-> "DropGraph", name |-> x, if_exists |-> guarded]
ListGraphs                      == [kind |-> "ListGraphs"]

(* A set operation; its operands are lists of statements or set operations. *)
SetOperation(op, all, left, right) ==
    [op |-> op, all |-> all, left |-> left, right |-> right]
QueryOperand(stmts)   == <<"Query", stmts>>
SetOpOperand(body)    == <<"SetOp", body>>
CompositeQuery(body)  == [kind |-> "CompositeQuery", body |-> body]

(* Graph types.                                                            *)
GraphType(nodes, edges) == <<nodes, edges>>
NodeType(labels, props) == <<labels, props>>
EdgeType(labels, source, dest, props) == <<labels, source, dest, props>>
PropertyDecl(x, type, required) == <<x, type, required>>
================================================================================
