------------------------------- MODULE GqlParser --------------------------------
(***************************************************************************)
(* The recursive descent parser of synaptica-gql (parser.rs).              *)
(*                                                                         *)
(* The state of Parser is the record p: the tokens, the position, the      *)
(* nesting depth, whether no error was returned yet (ok), and the value of *)
(* the last call (val).  A method takes p and returns the p after it; once *)
(* ok is false every method leaves p alone, which is the ? of the code.    *)
(***************************************************************************)
EXTENDS GqlAst

CONSTANT MaxExprDepth          \* MAX_EXPR_DEPTH, 256 in the code

NewParser(toks) ==
    [tokens |-> SelectSeq(toks, LAMBDA t : t[1] # "comment"),
     pos |-> 1, depth |-> 0, ok |-> TRUE, val |-> None]

token(p, k) == IF p.pos + k <= Len(p.tokens) THEN p.tokens[p.pos + k] ELSE <<"eof", "">>
peek_at(p, k) == token(p, k)[1]
peek(p)       == peek_at(p, 0)
at_end(p)     == peek(p) = "eof"

Return(p, v) == [p EXCEPT !.val = v]
error(p)     == [p EXCEPT !.ok = FALSE]
advance(p)   == IF p.ok /\ ~at_end(p) THEN [p EXCEPT !.pos = @ + 1] ELSE p

Sees(p, t)        == p.ok /\ peek(p) = t
match_token(p, t) == IF Sees(p, t) THEN Return(advance(p), TRUE) ELSE Return(p, FALSE)
expect(p, t)      == IF Sees(p, t) THEN advance(p) ELSE error(p)

(* The call of a method by its name, which is defined at the end.          *)
RECURSIVE Method(_, _)

exit_depth(p) == [p EXCEPT !.depth = @ - 1]
enter_depth(p, m) ==           \* and exit_depth after the call
    IF p.depth + 1 > MaxExprDepth THEN error(p)
    ELSE exit_depth(Method([p EXCEPT !.depth = @ + 1], m))

expect_ident(p) ==
    IF Sees(p, "ident") THEN Return(advance(p), token(p, 0)[2]) ELSE error(p)

expect_ident_or_keyword(p) ==
    IF p.ok /\ peek(p) \in SoftKeywords THEN Return(advance(p), peek(p))
    ELSE expect_ident(p)

(* Ways the methods repeat and combine calls: an item and further ones     *)
(* after commas; items while the next token is (or is not) one of some; a  *)
(* call behind a token; an optional clause; a loop of left-associative     *)
(* operators.                                                              *)
CommaList(p, item) ==
    LET RECURSIVE More(_, _)
        More(q, acc) == IF Sees(q, ",") THEN More(Method(advance(q), item), Append(acc, q.val))
                        ELSE Return(q, Append(acc, q.val))
    IN More(Method(p, item), <<>>)

Loop(p, ts, isIn, item) ==
    LET RECURSIVE Rest(_, _), More(_, _)
        More(q, acc) == Rest(q, Append(acc, q.val))
        Rest(q, acc) == IF q.ok /\ (peek(q) \in ts) = isIn THEN More(Method(q, item), acc)
                        ELSE Return(q, acc)
    IN Rest(p, <<>>)
Many(p, t, item)   == Loop(p, {t}, TRUE, item)
Until(p, ts, item) == Loop(p, ts, FALSE, item)

After(p, t, item) == Method(expect(p, t), item)
Present(p)        == Return(p, Some(p.val))
Optional(p, t, clause) == IF Sees(p, t) THEN Present(Method(p, clause)) ELSE Return(p, None)
Behind(p, t, item)     == IF Sees(p, t) THEN Present(Method(advance(p), item)) ELSE Return(p, None)

LeftAssoc(p, operand, ops) ==
    LET Joined(q, r) == Return(r, BinaryOp(q.val, ops[peek(q)], r.val))
        RECURSIVE Rest(_)
        Rest(q) == IF q.ok /\ peek(q) \in DOMAIN ops THEN Rest(Joined(q, Method(advance(q), operand)))
                   ELSE q
    IN Rest(Method(p, operand))

--------------------------------------------------------------------------------
(* Items in parentheses, brackets or braces, possibly none.                *)
ListUntil(p, close, item) ==
    expect(IF Sees(p, close) THEN Return(p, <<>>) ELSE CommaList(p, item), close)

Arguments(p) == ListUntil(expect(p, "("), ")", "expression")

Entry(key) ==
    LET v == After(key, ":", "expression") IN Return(v, <<key.val, v.val>>)

parse_property_map(p) ==
    ListUntil(expect(p, "{"), "}", "property_entry")

MapLiteral(p) ==
    ListUntil(expect(p, "{"), "}", "map_entry")

AggregateFunctions ==
    [count |-> "Count", sum |-> "Sum", avg |-> "Avg", min |-> "Min", max |-> "Max",
     collect |-> "Collect"]

parse_aggregate(p, function) ==
    LET open == expect(advance(p), "(")
        dist == match_token(open, "distinct")
        arg  == IF Sees(dist, ")") THEN Return(dist, None)
                ELSE Present(Method(dist, "expression"))
    IN IF Sees(open, "*") THEN Return(expect(advance(open), ")"), Aggregate(function, FALSE, None))
       ELSE Return(expect(arg, ")"), Aggregate(function, dist.val, arg.val))

WhenClause(p) ==
    LET cond   == After(p, "when", "expression")
        result == After(cond, "then", "expression")
    IN Return(result, <<cond.val, result.val>>)

parse_case_expression(p) ==
    LET start   == expect(p, "case")
        operand == IF Sees(start, "when") THEN Return(start, None)
                   ELSE Present(Method(start, "expression"))
        whens   == Many(operand, "when", "when_clause")
        else    == Behind(whens, "else", "expression")
    IN Return(expect(else, "end"), CaseOf(operand.val, whens.val, else.val))

Call(p, name) ==
    IF Sees(p, "(") THEN LET q == Method(p, "arguments") IN Return(q, FunctionCall(name, q.val))
    ELSE Return(p, Identifier(name))

LiteralTokens ==
    [int |-> "Integer", float |-> "Float", string |-> "String", true |-> "Bool",
     false |-> "Bool", null |-> "Null"]

parse_primary(p) ==
    LET t == token(p, 0)
        next == advance(p)
    IN CASE t[1] \in DOMAIN LiteralTokens -> Return(next, Literal(LiteralTokens[t[1]], t[2]))
         [] t[1] = "parameter"           -> Return(next, Parameter(t[2]))
         [] t[1] = "("                   -> enter_depth(p, "parenthesized")
         [] t[1] = "["                   ->
                LET q == ListUntil(next, "]", "expression") IN Return(q, ListOf(q.val))
         [] t[1] = "{"                   -> LET q == MapLiteral(p) IN Return(q, MapOf(q.val))
         [] t[1] = "case"                -> parse_case_expression(p)
         [] t[1] = "exists"              ->
                LET q == After(next, "{", "statement")
                IN Return(expect(q, "}"), Exists(q.val))
         [] t[1] \in DOMAIN AggregateFunctions ->
                IF peek(next) = "(" THEN parse_aggregate(p, AggregateFunctions[t[1]])
                ELSE Return(next, Identifier(t[1]))
         [] t[1] = "type"                -> Call(next, t[1])
         [] t[1] = "ident"               -> Call(next, t[2])
         [] t[1] = "*"                   -> Return(next, Identifier("*"))
         [] OTHER                        -> error(p)

Dotted(p) ==
    LET Of(q, r) == Return(r, PropertyAccess(q.val, r.val))
        RECURSIVE Rest(_)
        Rest(q) == IF Sees(q, ".") THEN Rest(Of(q, expect_ident_or_keyword(advance(q)))) ELSE q
    IN Rest(p)

parse_postfix_expr(p) == Dotted(Method(p, "primary"))

Prefixed(p, op, m) ==
    LET q == enter_depth(advance(p), m) IN Return(q, UnaryOp(op, q.val))

parse_unary_expr(p) ==
    CASE Sees(p, "-") -> Prefixed(p, "Neg", "unary_expr")
      [] Sees(p, "+") -> Prefixed(p, "Pos", "unary_expr")
      [] OTHER        -> Method(p, "postfix_expr")

parse_multiplication_expr(p) ==
    LeftAssoc(p, "unary_expr", "*" :> "Mul" @@ "/" :> "Div" @@ "%" :> "Mod")
parse_addition_expr(p) ==
    LeftAssoc(p, "multiplication_expr", "+" :> "Add" @@ "-" :> "Sub")
parse_concat_expr(p) == LeftAssoc(p, "addition_expr", "||" :> "Concat")

(* Comparisons do not chain; IS, IN and LIKE may follow one another.       *)
Comparisons ==
    "=" :> "Eq" @@ "<>" :> "Neq" @@ "<" :> "Lt" @@ ">" :> "Gt" @@ "<=" :> "Le" @@ ">=" :> "Ge"

ComparisonRest(left, compared) ==
    LET RECURSIVE Rest(_, _)
        Rest(q, had) ==
            LET r   == Method(advance(q), "concat_expr")
                not == match_token(advance(q), "not")
            IN CASE ~q.ok -> q
                 [] peek(q) \in DOMAIN Comparisons ->
                        IF had THEN error(q)
                        ELSE Rest(Return(r, BinaryOp(q.val, Comparisons[peek(q)], r.val)), TRUE)
                 [] peek(q) = "is" ->
                        Rest(Return(expect(not, "null"),
                                    IF not.val THEN IsNotNull(q.val) ELSE IsNull(q.val)), had)
                 [] peek(q) = "in"   -> Rest(Return(r, InList(q.val, r.val)), had)
                 [] peek(q) = "like" -> Rest(Return(r, Like(q.val, r.val)), had)
                 [] OTHER -> q
    IN Rest(left, compared)

parse_comparison_expr(p) == ComparisonRest(Method(p, "concat_expr"), FALSE)

parse_not_expr(p) ==
    IF Sees(p, "not") THEN Prefixed(p, "Not", "not_expr") ELSE Method(p, "comparison_expr")

parse_and_expr(p) == LeftAssoc(p, "not_expr", "and" :> "And")
XorOverAnd(p) == LeftAssoc(p, "not_expr", "xor" :> "Xor" @@ "and" :> "And")   \* fault
parse_xor_expr(p) == LeftAssoc(p, "and_expr", "xor" :> "Xor")
parse_expression(p) == LeftAssoc(p, "xor_expr", "or" :> "Or")      \* and parse_or_expr

--------------------------------------------------------------------------------
(* Patterns.                                                               *)
Labels(p) == Many(p, ":", "label")

(* Variable, labels and properties, as they stand in a node or an edge.    *)
parse_edge_internals(p, close) ==
    LET var == IF Sees(p, "ident") /\ peek_at(p, 1) \in {":", close, "{"}
               THEN Present(expect_ident(p))
               ELSE Return(p, None)
        labels == Labels(var)
        props  == IF Sees(labels, "{") THEN Method(labels, "property_map") ELSE Return(labels, <<>>)
    IN Return(props, <<var.val, labels.val, props.val>>)

parse_node_pattern(p) ==
    LET q == After(p, "(", "node_internals")
    IN Return(expect(q, ")"), NodePattern(q.val[1], q.val[2], q.val[3]))

parse_optional_quantifier(p) ==
    LET Bound(q) == IF Sees(q, "int") THEN Return(advance(q), Some(token(q, 0)[2]))
                    ELSE Return(q, None)
        min == Bound(advance(p))
        max == IF Sees(min, ",") THEN Bound(advance(min)) ELSE min
        wrong == min.val # None /\ max.val # None /\ max.val[1] < min.val[1]
    IN IF ~Sees(p, "{") \/ peek_at(p, 1) \notin {"int", ","} THEN Return(p, None)
       ELSE IF wrong THEN error(max)
       ELSE Return(expect(max, "}"), Some(Quantifier(min.val, max.val)))

is_edge_start(p) == \/ peek(p) \in {"<-", "->"}
                    \/ peek(p) = "-" /\ peek_at(p, 1) = "["

(* An arrow to the right may come before the bracket only when bare.       *)
parse_edge_pattern(p) ==
    LET bare     == Return(advance(p), <<None, <<>>, <<>>>>)
        boxed    == expect(After(advance(p), "[", "edge_internals"), "]")
        body == CASE peek(p) = "<-" /\ peek_at(p, 1) = "[" -> expect(boxed, "-")
                  [] peek(p) = "-" -> IF Sees(boxed, "->") THEN advance(boxed)
                                      ELSE expect(boxed, "-")
                  [] OTHER -> bare
        dir  == CASE peek(p) = "<-" -> "Incoming"
                  [] peek(p) = "->" \/ Sees(boxed, "->") -> "Outgoing"
                  [] OTHER -> "Undirected"
        quant == Method(body, "optional_quantifier")
    IN Return(quant, EdgePattern(body.val[1], dir, body.val[2], body.val[3], quant.val))

PathModes == [walk |-> "Walk", trail |-> "Trail", simple |-> "Simple", acyclic |-> "Acyclic"]

parse_path_pattern(p) ==
    LET hasMode == p.ok /\ peek(p) \in DOMAIN PathModes
        start   == IF hasMode THEN advance(p) ELSE p
        Grown(q, r) == Return(r, Append(q.val, r.val))
        NodeIf(q) == IF Sees(q, "(") THEN Grown(q, Method(q, "node_pattern")) ELSE q
        RECURSIVE Hops(_)
        Hops(q) == IF q.ok /\ is_edge_start(q) THEN Hops(NodeIf(Grown(q, Method(q, "edge_pattern"))))
                   ELSE q
        path    == Hops(NodeIf(Return(start, <<>>)))
        quant   == Method(path, "optional_quantifier")
    IN Return(quant, PathPattern(IF hasMode THEN Some(PathModes[peek(p)]) ELSE None,
                                 path.val, quant.val))

parse_graph_pattern(p) == CommaList(p, "path_pattern")

--------------------------------------------------------------------------------
(* Clauses.                                                                *)
parse_where_clause(p) == After(p, "where", "expression")

parse_order_by_item(p) ==
    LET e == Method(p, "expression")
        desc == match_token(e, "desc")
        asc  == match_token(e, "asc")
    IN IF desc.val THEN Return(desc, OrderByItem(e.val, "Desc"))
       ELSE Return(asc, OrderByItem(e.val, "Asc"))

parse_order_by_clause(p) == CommaList(expect(expect(p, "order"), "by"), "order_by_item")
parse_group_by_clause(p) == CommaList(expect(expect(p, "group"), "by"), "expression")

parse_limit_offset(p) ==
    LET limit  == Behind(p, "limit", "expression")
        offset == Behind(limit, "offset", "expression")
    IN Return(offset, IF limit.val = None /\ offset.val = None THEN None
                      ELSE Some(LimitOffsetClause(limit.val, offset.val)))

parse_return_item(p) ==
    LET e == Method(p, "expression")
        alias == Behind(e, "as", "name")
    IN Return(alias, ReturnItem(e.val, alias.val))

parse_return_items(p) == CommaList(p, "return_item")

--------------------------------------------------------------------------------
(* Statements.                                                             *)
SetOps == [union |-> "Union", intersect |-> "Intersect", except |-> "Except"]

maybe_parse_composite(p) ==
    LET all   == match_token(advance(p), "all")
        right == enter_depth(all, "statement")
        operand == IF right.val.kind = "CompositeQuery" THEN SetOpOperand(right.val.body)
                   ELSE QueryOperand(<<right.val>>)
    IN IF ~p.ok \/ peek(p) \notin DOMAIN SetOps THEN p
       ELSE IF ~right.ok THEN right
       ELSE Return(right, CompositeQuery(SetOperation(SetOps[peek(p)], all.val,
                                                      QueryOperand(<<p.val>>), operand)))

parse_match_statement(p, optional) ==
    LET paths == After(p, "match", "graph_pattern")
        where == Optional(paths, "where", "where_clause")
        order == Optional(where, "order", "order_by_clause")
        limit == Method(order, "limit_offset")
    IN maybe_parse_composite(Return(limit,
           MatchStatement(optional, paths.val, where.val, order.val, limit.val)))

parse_return_statement(p) ==
    LET dist   == match_token(expect(p, "return"), "distinct")
        items  == Method(dist, "return_items")
        group  == Optional(items, "group", "group_by_clause")
        having == Behind(group, "having", "expression")
        order  == Optional(having, "order", "order_by_clause")
        limit  == Method(order, "limit_offset")
    IN maybe_parse_composite(Return(limit,
           ReturnStatement(dist.val, items.val, group.val, having.val, order.val, limit.val)))

parse_with_statement(p) ==
    LET dist  == match_token(expect(p, "with"), "distinct")
        items == Method(dist, "return_items")
        where == Optional(items, "where", "where_clause")
        order == Optional(where, "order", "order_by_clause")
        limit == Method(order, "limit_offset")
    IN Return(limit, WithStatement(dist.val, items.val, where.val, order.val, limit.val))

(* A dotted procedure name is kept as the sequence of its parts.           *)
parse_call_statement(p) ==
    LET first == expect_ident(expect(p, "call"))
        parts == Many(first, ".", "part")
        args  == IF Sees(parts, "(") THEN Method(parts, "arguments") ELSE Return(parts, <<>>)
        yield == Behind(args, "yield", "identifiers")
    IN Return(yield, CallStatement(<<first.val>> \o parts.val, args.val, yield.val))

parse_insert_statement(p) ==
    LET q == CommaList(expect(p, "insert"), "path_pattern")
    IN Return(q, InsertStatement(q.val))

(* The target of SET and REMOVE: a variable and a chain of properties.     *)
parse_target_expr(p) ==
    LET q == expect_ident(p) IN Dotted(Return(q, Identifier(q.val)))

IsProperty(p) == p.ok /\ p.val[1] = "PropertyAccess"

parse_set_item(p) ==
    LET target == Method(p, "target_expr")
        label  == expect_ident(advance(target))
        value  == Method(advance(target), "expression")
    IN CASE Sees(target, ":") -> Return(label, SetLabel(target.val, label.val))
         [] Sees(target, "=") ->
               Return(value, IF IsProperty(target)
                             THEN SetProperty(target.val[2], target.val[3], value.val)
                             ELSE SetAllProperties(target.val, value.val))
         [] OTHER -> error(target)

parse_set_statement(p) ==
    LET q == CommaList(expect(p, "set"), "set_item") IN Return(q, SetStatement(q.val))

parse_delete_statement(p) ==
    LET detach == match_token(p, "detach")
        q == CommaList(expect(detach, "delete"), "expression")
    IN Return(q, DeleteStatement(detach.val, q.val))

parse_remove_item(p) ==
    LET target == Method(p, "target_expr")
        label  == expect_ident(advance(target))
    IN CASE Sees(target, ":")  -> Return(label, RemoveLabel(target.val, label.val))
         [] IsProperty(target) -> Return(target, RemoveProperty(target.val[2], target.val[3]))
         [] OTHER -> error(target)

parse_remove_statement(p) ==
    LET q == CommaList(expect(p, "remove"), "remove_item") IN Return(q, RemoveStatement(q.val))

parse_if_not_exists(p) ==
    IF Sees(p, "if") THEN Return(expect(expect(advance(p), "not"), "exists"), TRUE)
    ELSE Return(p, FALSE)

parse_if_exists(p) ==
    IF Sees(p, "if") THEN Return(expect(advance(p), "exists"), TRUE) ELSE Return(p, FALSE)

IndexProperty(p) ==
    LET first == expect_ident_or_keyword(p) IN
    IF Sees(first, ".") THEN expect_ident_or_keyword(advance(first)) ELSE first

(* [UNIQUE] INDEX [IF NOT EXISTS] name FOR (v:Label) ON (v.prop, ...); the *)
(* variable is dropped.                                                    *)
parse_create_index_rest(p) ==
    LET unique  == match_token(p, "unique")
        guarded == Method(expect(unique, "index"), "if_not_exists")
        name    == expect_ident_or_keyword(guarded)
        var     == expect_ident_or_keyword(expect(expect(name, "for"), "("))
        label   == Behind(var, ":", "name")
        props   == CommaList(expect(expect(expect(label, ")"), "on"), "("), "index_property")
    IN Return(expect(props, ")"),
              CreateIndexStatement(name.val, unique.val, label.val, props.val, guarded.val))

(* { name : TYPE [NOT NULL] ... }, commas optional.                        *)
Separated(p, t) == Return(match_token(p, t), p.val)
Braced(p, item) == expect(Until(expect(p, "{"), {"}", "eof"}, item), "}")

PropertyDeclItem(p) ==
    LET name == expect_ident(p)
        type == expect_ident(expect(name, ":"))
        req  == match_token(type, "not")
    IN Return(IF req.val THEN expect(req, "null") ELSE req,
              PropertyDecl(name.val, type.val, req.val))

parse_property_decls(p) ==
    IF Sees(p, "{") THEN Braced(p, "property_decl") ELSE Return(p, <<>>)

parse_node_type_decl(p) ==
    LET labels == Labels(p)
        props  == Method(labels, "property_decls")
    IN Return(props, <<"node", NodeType(labels.val, props.val)>>)

parse_edge_type_decl(p) ==
    LET labels == Labels(p)
        from   == Behind(labels, "from", "ident")
        to     == Behind(from, "to", "ident")
        props  == Method(to, "property_decls")
    IN Return(props, <<"edge", EdgeType(labels.val, from.val, to.val, props.val)>>)

TypeDecl(p) ==
    CASE Sees(p, "node") -> Method(advance(p), "node_type_decl")
      [] Sees(p, "edge") -> Method(advance(p), "edge_type_decl")
      [] OTHER -> error(p)

parse_graph_type_def(p) ==
    LET q == Braced(p, "type_decl")
        Of(kind) == LET ds == SelectSeq(q.val, LAMBDA d : d[1] = kind)
                    IN [i \in 1..Len(ds) |-> ds[i][2]]
    IN IF q.ok THEN Return(q, GraphType(Of("node"), Of("edge"))) ELSE q

parse_create_graph_rest(p) ==
    LET guarded == Method(p, "if_not_exists")
        name    == expect_ident(guarded)
        type    == Optional(name, "{", "graph_type_def")
    IN Return(type, CreateGraphStatement(name.val, guarded.val, type.val))

parse_create_graph_type_rest(p) ==
    LET guarded == Method(p, "if_not_exists")
        name    == expect_ident(guarded)
        type    == Method(name, "graph_type_def")
    IN Return(type, CreateGraphTypeStatement(name.val, guarded.val, type.val))

parse_create_statement(p) ==
    LET q == expect(p, "create") IN
    CASE peek(q) \in {"unique", "index"} -> parse_create_index_rest(q)
      [] peek(q) = "graph" -> IF peek_at(q, 1) = "type"
                              THEN parse_create_graph_type_rest(advance(advance(q)))
                              ELSE parse_create_graph_rest(advance(q))
      [] OTHER -> error(q)

parse_drop_statement(p) ==
    LET q       == expect(p, "drop")
        guarded == Method(advance(q), "if_exists")
        index   == expect_ident_or_keyword(guarded)
        graph   == expect_ident(guarded)
    IN CASE peek(q) = "index" -> Return(index, DropIndexStatement(index.val, guarded.val))
         [] peek(q) = "graph" -> Return(graph, DropGraphStatement(graph.val, guarded.val))
         [] OTHER -> error(q)

(* LIST GRAPH, LIST GRAPH S, LIST GRAPHS.                                  *)
parse_list_statement(p) ==
    LET q == expect(p, "list")
        r == advance(q)
        plural == Sees(r, "ident") /\ token(r, 0)[2] \in {"s", "graphs"}
    IN CASE peek(q) = "graph" -> Return(IF plural THEN advance(r) ELSE r, ListGraphs)
         [] Sees(q, "ident") /\ token(q, 0)[2] = "graphs" -> Return(r, ListGraphs)
         [] OTHER -> error(q)

parse_statement(p) ==
    LET t == peek(p) IN
    CASE t = "match"     -> parse_match_statement(p, FALSE)
      [] t = "optional"  -> parse_match_statement(advance(p), TRUE)
      [] t = "return"    -> parse_return_statement(p)
      [] t = "with"      -> parse_with_statement(p)
      [] t = "call"      -> parse_call_statement(p)
      [] t = "insert"    -> parse_insert_statement(p)
      [] t = "set"       -> parse_set_statement(p)
      [] t \in {"delete", "detach"} -> parse_delete_statement(p)
      [] t = "remove"    -> parse_remove_statement(p)
      [] t = "create"    -> parse_create_statement(p)
      [] t = "drop"      -> parse_drop_statement(p)
      [] t = "list"      -> parse_list_statement(p)
      [] OTHER           -> error(p)

--------------------------------------------------------------------------------
(* The ? of the code: after an error nothing more is called.               *)
Method(p, m) ==
    CASE ~p.ok                      -> p
      [] m = "expression"           -> parse_expression(p)
      [] m = "xor_expr"             -> parse_xor_expr(p)
      [] m = "and_expr"             -> parse_and_expr(p)
      [] m = "not_expr"             -> parse_not_expr(p)
      [] m = "comparison_expr"      -> parse_comparison_expr(p)
      [] m = "concat_expr"          -> parse_concat_expr(p)
      [] m = "addition_expr"        -> parse_addition_expr(p)
      [] m = "multiplication_expr"  -> parse_multiplication_expr(p)
      [] m = "unary_expr"           -> parse_unary_expr(p)
      [] m = "postfix_expr"         -> parse_postfix_expr(p)
      [] m = "primary"              -> parse_primary(p)
      [] m = "parenthesized"        -> expect(Method(advance(p), "expression"), ")")
      [] m = "arguments"            -> Arguments(p)
      [] m = "when_clause"          -> WhenClause(p)
      [] m = "property_entry"       -> Entry(expect_ident_or_keyword(p))
      [] m = "map_entry"            -> Entry(expect_ident(p))
      [] m = "property_map"         -> parse_property_map(p)
      [] m = "name"                 -> expect_ident_or_keyword(p)
      [] m = "ident"                -> expect_ident(p)
      [] m = "identifiers"          -> CommaList(p, "ident")
      [] m = "label"                -> After(p, ":", "ident")
      [] m = "part"                 -> After(p, ".", "ident")
      [] m = "node_internals"       -> parse_edge_internals(p, ")")
      [] m = "edge_internals"       -> parse_edge_internals(p, "]")
      [] m = "node_pattern"         -> parse_node_pattern(p)
      [] m = "edge_pattern"         -> parse_edge_pattern(p)
      [] m = "optional_quantifier"  -> parse_optional_quantifier(p)
      [] m = "path_pattern"         -> parse_path_pattern(p)
      [] m = "graph_pattern"        -> parse_graph_pattern(p)
      [] m = "where_clause"         -> parse_where_clause(p)
      [] m = "order_by_item"        -> parse_order_by_item(p)
      [] m = "order_by_clause"      -> parse_order_by_clause(p)
      [] m = "group_by_clause"      -> parse_group_by_clause(p)
      [] m = "limit_offset"         -> parse_limit_offset(p)
      [] m = "return_item"          -> parse_return_item(p)
      [] m = "return_items"         -> parse_return_items(p)
      [] m = "target_expr"          -> parse_target_expr(p)
      [] m = "set_item"             -> parse_set_item(p)
      [] m = "remove_item"          -> parse_remove_item(p)
      [] m = "if_not_exists"        -> parse_if_not_exists(p)
      [] m = "if_exists"            -> parse_if_exists(p)
      [] m = "index_property"       -> IndexProperty(p)
      [] m = "property_decl"        -> Separated(PropertyDeclItem(p), ",")
      [] m = "property_decls"       -> parse_property_decls(p)
      [] m = "node_type_decl"       -> parse_node_type_decl(p)
      [] m = "edge_type_decl"       -> parse_edge_type_decl(p)
      [] m = "type_decl"            -> Separated(TypeDecl(p), ",")
      [] m = "graph_type_def"       -> parse_graph_type_def(p)
      [] m = "statement"            -> parse_statement(p)
      [] m = "terminated"           -> Separated(parse_statement(p), ";")

(* The statements of a program, semicolons optional.                       *)
parse(toks) == Until(NewParser(toks), {"eof"}, "terminated")
================================================================================
