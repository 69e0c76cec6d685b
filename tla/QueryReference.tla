----------------------------- MODULE QueryReference ------------------------------
(***************************************************************************)
(* What the stages of a query are held against: a text for the tokens, the *)
(* tokens of a program, the meaning of logic, arithmetic and patterns.     *)
(* Nothing here follows the code: tokens are printed with the fewest       *)
(* parentheses the grammar allows, a pattern is answered by looking for    *)
(* its walks among all sequences of edges.                                 *)
(***************************************************************************)
EXTENDS GqlLexer, GqlParser, Executor, BagsExt

(* --- Texts --- *)
DigitsOf(n) == LET RECURSIVE Ds(_)
                   Ds(k) == IF k < 10 THEN <<ToString(k)>> ELSE Append(Ds(k \div 10), ToString(k % 10))
               IN Ds(n)
Spelling == [w \in {KeywordOf[x] : x \in DOMAIN KeywordOf} |->
                CHOOSE x \in DOMAIN KeywordOf : KeywordOf[x] = w]
SymbolChars(t) == IF t \in Singles THEN <<t>> ELSE CHOOSE ab \in Pairs : ab[1] \o ab[2] = t
Unlex(t) ==
    CASE t[1] = "comment"   -> IF "\n" \in ToSet(t[2]) THEN <<"/", "*">> \o t[2] \o <<"*", "/">>
                               ELSE <<"-", "-">> \o t[2] \o <<"\n">>
      [] t[1] = "string"    -> <<"'">> \o FlattenSeq([i \in 1..Len(t[2]) |->
                                   IF t[2][i] = "'" THEN <<"'", "'">> ELSE <<t[2][i]>>]) \o <<"'">>
      [] t[1] = "int"       -> DigitsOf(t[2])
      [] t[1] \in {"ident", "float"} -> t[2]
      [] t[1] = "parameter" -> <<"$">> \o t[2]
      [] t[1] = "eof"       -> <<>>
      [] t[1] \in DOMAIN Spelling -> Spelling[t[1]]
      [] OTHER              -> SymbolChars(t[1])
TextOf(tokens) == FlattenSeq([i \in 1..Len(tokens) |-> Unlex(tokens[i]) \o <<" ">>])

(* --- Expressions as tokens --- *)
Sym(t) == <<<<t, t>>>>
Id(x)  == <<<<"ident", x>>>>
Infix == [Or |-> <<"or", 1>>, Xor |-> <<"xor", 2>>, And |-> <<"and", 3>>,
          Eq |-> <<"=", 5>>, Neq |-> <<"<>", 5>>, Lt |-> <<"<", 5>>, Gt |-> <<">", 5>>,
          Le |-> <<"<=", 5>>, Ge |-> <<">=", 5>>, Concat |-> <<"||", 6>>,
          Add |-> <<"+", 7>>, Sub |-> <<"-", 7>>,
          Mul |-> <<"*", 8>>, Div |-> <<"/", 8>>, Mod |-> <<"%", 8>>]
Level(e) == CASE e[1] = "BinaryOp" -> Infix[e[2]][2]
              [] e[1] = "UnaryOp"  -> IF e[2] = "Not" THEN 4 ELSE 9
              [] e[1] \in {"IsNull", "IsNotNull", "In"} -> 5
              [] OTHER -> 10
LeftLevel(op) == IF Infix[op][2] = 5 THEN 6 ELSE Infix[op][2]      \* comparisons do not chain

RECURSIVE Write(_, _), Depth(_, _)
Between(seqs, t) == FlattenSeq([i \in 1..Len(seqs) |-> IF i = 1 THEN seqs[i] ELSE Sym(t) \o seqs[i]])
WriteAll(es) == Between([i \in 1..Len(es) |-> Write(es[i], 1)], ",")
Bare(e) ==
    CASE e[1] = "Literal"        -> <<<<CASE e[2] = "Integer" -> "int" [] e[2] = "Float" -> "float"
                                          [] e[2] = "String" -> "string" [] OTHER -> e[3], e[3]>>>>
      [] e[1] = "Identifier"     -> IF e[2] = "*" THEN Sym("*") ELSE Id(e[2])
      [] e[1] = "PropertyAccess" -> Write(e[2], 10) \o Sym(".") \o Id(e[3])
      [] e[1] = "BinaryOp"       -> Write(e[3], LeftLevel(e[2])) \o Sym(Infix[e[2]][1])
                                    \o Write(e[4], Infix[e[2]][2] + 1)
      [] e[1] = "UnaryOp"        -> Sym(CASE e[2] = "Not" -> "not" [] e[2] = "Neg" -> "-" [] OTHER -> "+")
                                    \o Write(e[3], Level(e))
      [] e[1] = "IsNull"         -> Write(e[2], 5) \o Sym("is") \o Sym("null")
      [] e[1] = "IsNotNull"      -> Write(e[2], 5) \o Sym("is") \o Sym("not") \o Sym("null")
      [] e[1] = "In"             -> Write(e[2], 5) \o Sym("in") \o Write(e[3], 6)
      [] e[1] = "List"           -> Sym("[") \o WriteAll(e[2]) \o Sym("]")
      [] e[1] = "FunctionCall"   -> Id(e[2]) \o Sym("(") \o WriteAll(e[3]) \o Sym(")")
      [] e[1] = "Aggregate"      ->
            Sym(CHOOSE f \in DOMAIN AggregateFunctions : AggregateFunctions[f] = e[2]) \o Sym("(")
            \o (IF e[3] THEN Sym("distinct") ELSE <<>>)
            \o (IF e[4] = None THEN Sym("*") ELSE Write(e[4][1], 1)) \o Sym(")")
      [] e[1] = "Case"           ->
            Sym("case") \o (IF e[2] = None THEN <<>> ELSE Write(e[2][1], 1))
            \o FlattenSeq([i \in 1..Len(e[3]) |-> Sym("when") \o Write(e[3][i][1], 1)
                                                  \o Sym("then") \o Write(e[3][i][2], 1)])
            \o (IF e[4] = None THEN <<>> ELSE Sym("else") \o Write(e[4][1], 1)) \o Sym("end")
Write(e, level) == IF Level(e) < level THEN Sym("(") \o Bare(e) \o Sym(")") ELSE Bare(e)

(* How deep parentheses and prefix operators are nested in that text.      *)
Deepest(S) == Max({0} \cup S)
Depth(e, level) ==
    (IF Level(e) < level THEN 1 ELSE 0) +
    CASE e[1] = "BinaryOp"   -> Deepest({Depth(e[3], LeftLevel(e[2])), Depth(e[4], Infix[e[2]][2] + 1)})
      [] e[1] = "UnaryOp"    -> 1 + Depth(e[3], Level(e))
      [] e[1] \in {"IsNull", "IsNotNull"} -> Depth(e[2], 5)
      [] e[1] = "In"         -> Deepest({Depth(e[2], 5), Depth(e[3], 6)})
      [] e[1] = "PropertyAccess" -> Depth(e[2], 10)
      [] e[1] = "List"       -> Deepest({Depth(e[2][i], 1) : i \in 1..Len(e[2])})
      [] OTHER               -> 0

(* --- Statements as tokens --- *)
WriteLabels(ls) == FlattenSeq([i \in 1..Len(ls) |-> Sym(":") \o Id(ls[i])])
WriteProps(ps) ==
    IF ps = <<>> THEN <<>>
    ELSE Sym("{") \o Between([i \in 1..Len(ps) |-> Id(ps[i][1]) \o Sym(":") \o Write(ps[i][2], 1)], ",")
         \o Sym("}")
Inside(e) == (IF e.variable = None THEN <<>> ELSE Id(e.variable[1]))
             \o WriteLabels(e.labels) \o WriteProps(e.properties)
WriteElement(e) ==
    IF e.element = "Node" THEN Sym("(") \o Inside(e) \o Sym(")")
    ELSE Sym(IF e.direction = "Incoming" THEN "<-" ELSE "-") \o Sym("[") \o Inside(e) \o Sym("]")
         \o Sym(IF e.direction = "Outgoing" THEN "->" ELSE "-")
WritePaths(ps) == Between([i \in 1..Len(ps) |->
    FlattenSeq([j \in 1..Len(ps[i].elements) |-> WriteElement(ps[i].elements[j])])], ",")
WriteItems(items) == Between([i \in 1..Len(items) |->
    Write(items[i][1], 1) \o (IF items[i][2] = None THEN <<>> ELSE Sym("as") \o Id(items[i][2][1]))], ",")
WriteOrder(o) == IF o = None THEN <<>>
    ELSE Sym("order") \o Sym("by") \o Between([i \in 1..Len(o[1]) |->
             Write(o[1][i][1], 1) \o (IF o[1][i][2] = "Desc" THEN Sym("desc") ELSE <<>>)], ",")
Clause(word, e) == IF e = None THEN <<>> ELSE Sym(word) \o Write(e[1], 1)
WriteLimit(l) == IF l = None THEN <<>> ELSE Clause("limit", l[1][1]) \o Clause("offset", l[1][2])
WriteStatement(s) ==
    CASE s.kind = "Match"  -> (IF s.optional THEN Sym("optional") ELSE <<>>) \o Sym("match")
                              \o WritePaths(s.paths) \o Clause("where", s.where_clause)
                              \o WriteOrder(s.order_by) \o WriteLimit(s.limit_offset)
      [] s.kind = "Return" -> Sym("return") \o (IF s.distinct THEN Sym("distinct") ELSE <<>>)
                              \o WriteItems(s.items) \o WriteOrder(s.order_by) \o WriteLimit(s.limit_offset)
      [] s.kind = "With"   -> Sym("with") \o (IF s.distinct THEN Sym("distinct") ELSE <<>>)
                              \o WriteItems(s.items) \o Clause("where", s.where_clause)
                              \o WriteOrder(s.order_by) \o WriteLimit(s.limit_offset)
      [] s.kind = "Insert" -> Sym("insert") \o WritePaths(s.paths)
      [] s.kind = "Delete" -> (IF s.detach THEN Sym("detach") ELSE <<>>) \o Sym("delete") \o WriteAll(s.targets)
      [] s.kind = "Set"    -> Sym("set") \o Between([i \in 1..Len(s.items) |->
                                  Write(PropertyAccess(s.items[i][2], s.items[i][3]), 1)
                                  \o Sym("=") \o Write(s.items[i][4], 1)], ",")
      [] s.kind = "Call"   -> Sym("call") \o Between([i \in 1..Len(s.procedure) |-> Id(s.procedure[i])], ".")
                              \o (IF s.yield_items = None THEN <<>>
                                  ELSE Sym("yield") \o Between([i \in 1..Len(s.yield_items[1]) |->
                                                                   Id(s.yield_items[1][i])], ","))
      [] s.kind = "CreateIndex" ->
            Sym("create") \o (IF s.unique THEN Sym("unique") ELSE <<>>) \o Sym("index") \o Id(s.name)
            \o Sym("for") \o Sym("(") \o Id("v") \o WriteLabels(s.label) \o Sym(")") \o Sym("on")
            \o Sym("(") \o Between([i \in 1..Len(s.property_names) |-> Id(s.property_names[i])], ",") \o Sym(")")
      [] s.kind = "DropIndex"   -> Sym("drop") \o Sym("index") \o Id(s.name)
      [] s.kind = "CreateGraph" -> Sym("create") \o Sym("graph") \o Id(s.name)
      [] s.kind = "DropGraph"   -> Sym("drop") \o Sym("graph") \o Id(s.name)
      [] s.kind = "ListGraphs"  -> Sym("list") \o Id("graphs")
WriteProgram(ss) == FlattenSeq([i \in 1..Len(ss) |-> WriteStatement(ss[i])])

--------------------------------------------------------------------------------
(* Kleene's logic on false < null < true.                                  *)
Truth(v) == CASE v = Bool(FALSE) -> 0 [] v = Null -> 1 [] v = Bool(TRUE) -> 2
RECURSIVE Kleene(_), Exactly(_)
Kleene(e) ==
    CASE e[1] = "Literal" -> Truth(eval_literal(e[2], e[3])[2])
      [] e[1] = "UnaryOp" -> 2 - Kleene(e[3])
      [] OTHER -> LET l == Kleene(e[3])
                      r == Kleene(e[4])
                  IN CASE e[2] = "And" -> Min({l, r})
                       [] e[2] = "Or"  -> Max({l, r})
                       [] e[2] = "Xor" -> Max({Min({l, 2 - r}), Min({2 - l, r})})

(* The value of integer arithmetic, <<>> where a part of it has none: it   *)
(* divides by zero or does not fit the type.                               *)
InRange(n) == IF n \in (-MaxInt - 1)..MaxInt THEN Some(n) ELSE None
Exactly(e) ==
    IF e[1] = "Literal" THEN Some(e[3])
    ELSE IF e[1] = "UnaryOp" THEN LET v == Exactly(e[3]) IN IF v = None THEN None ELSE InRange(-v[1])
    ELSE LET l == Exactly(e[3])
             r == Exactly(e[4])
             \* the remainder has the sign of the dividend
             q == CHOOSE q \in -(Abs(l[1]) + 1)..(Abs(l[1]) + 1) :
                      LET m == l[1] - q * r[1] IN Abs(m) < Abs(r[1]) /\ (m = 0 \/ (m < 0) = (l[1] < 0))
         IN CASE l = None \/ r = None -> None
              [] e[2] = "Add" -> InRange(l[1] + r[1])
              [] e[2] = "Sub" -> InRange(l[1] - r[1])
              [] e[2] = "Mul" -> InRange(l[1] * r[1])
              [] r[1] = 0     -> None
              [] e[2] = "Div" -> InRange(q)
              [] e[2] = "Mod" -> IF InRange(q) = None THEN None ELSE Some(l[1] - q * r[1])

(* --- Patterns --- *)
(* The walks of a path of named nodes n1, e1, n2, ...: the sequences of    *)
(* nodes and edges of the graph, as far as labels and directions allow.    *)
(* The node a path begins with has all the labels of its pattern, a node   *)
(* that a hop leads to at least one: exec_expand asks for any, exec_scan   *)
(* for all.                                                                *)
Along(db, n, edge, e, m) ==
    LET d == db.edges[e] IN
    /\ edge.labels = <<>> \/ edge.labels[1] = d.label
    /\ \/ edge.direction \in {"Outgoing", "Undirected"} /\ d.source = n /\ d.target = m
       \/ edge.direction \in {"Incoming", "Undirected"} /\ d.target = n /\ d.source = m
Walks(db, els) ==
    LET k == Len(els) \div 2
    IN {<<ns, es>> \in [1..(k + 1) -> DOMAIN db.nodes] \X [1..k -> DOMAIN db.edges] :
           /\ ToSet(els[1].labels) \subseteq ToSet(db.nodes[ns[1]].labels)
           /\ \A i \in 2..(k + 1) : LET asked == ToSet(els[2 * i - 1].labels)
                                    IN asked = {} \/ asked \cap ToSet(db.nodes[ns[i]].labels) # {}
           /\ \A i \in 1..k : Along(db, ns[i], els[2 * i], es[i], ns[i + 1])}

(* The record of a walk: a column for each name of the pattern.            *)
Binding(db, els, w) ==
    LET named == SelectSeq([i \in 1..Len(els) |-> i], LAMBDA i : els[i].variable # None)
        Val(i) == IF i % 2 = 1 THEN NodeValue(db, w[1][(i + 1) \div 2]) ELSE EdgeValue(db, w[2][i \div 2])
    IN [columns |-> [j \in 1..Len(named) |-> els[named[j]].variable],
        values  |-> [j \in 1..Len(named) |-> Val(named[j])]]

Holds(e, rec) == evaluate(e, rec) = Ok(Bool(TRUE))
Inline(el, rec) == \A i \in 1..Len(el.properties) :
    Holds(BinaryOp(PropertyAccess(Identifier(el.variable[1]), el.properties[i][1]), "Eq",
                   el.properties[i][2]), rec)

(* The answers to a MATCH of one path, a set with one record per walk.     *)
Answers(db, match) ==
    LET els == match.paths[1].elements
    IN {w \in Walks(db, els) :
           LET rec == Binding(db, els, w) IN
           /\ \A i \in 1..Len(els) : Inline(els[i], rec)
           /\ match.where_clause = None \/ Holds(match.where_clause[1], rec)}
================================================================================
