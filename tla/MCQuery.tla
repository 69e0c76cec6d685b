--------------------------------- MODULE MCQuery ---------------------------------
(* Texts of up to MaxText characters, expressions of two operators or      *)
(* three, and queries on graphs of three nodes and up to four edges.       *)
EXTENDS Query

CONSTANT MaxText

Alphabet == {"o", "r", "e", "1", "'", "-", "/", "*", "\n", ".", "<", ">", "$"}
SomeLetters == {"o", "r", "e"}
SomeKeywords == <<"o", "r">> :> "or"
SomeTexts == UNION {[1..n -> Alphabet] : n \in 0..MaxText}

(* --- Expressions --- *)
Num(n) == Literal("Integer", n)
Binary(ops, L, R) == {BinaryOp(l, op, r) : l \in L, op \in ops, r \in R}

Truths  == {Literal("Bool", "true"), Literal("Bool", "false"), Literal("Null", "null")}
Logic1  == Truths \cup {UnaryOp("Not", e) : e \in Truths} \cup Binary({"And", "Or", "Xor"}, Truths, Truths)
Logic   == Logic1 \cup {UnaryOp("Not", e) : e \in Logic1} \cup Binary({"And", "Or", "Xor"}, Logic1, Logic1)

IntOps  == {"Add", "Sub", "Mul", "Div", "Mod"}
Numbers == {Num(0), Num(2), Num(MaxInt)}
Math1   == Numbers \cup {UnaryOp("Neg", e) : e \in Numbers} \cup Binary(IntOps, Numbers, Numbers)
Least   == BinaryOp(UnaryOp("Neg", Num(MaxInt)), "Sub", Num(1))
Math    == Math1 \cup Binary(IntOps, Math1, Numbers) \cup Binary(IntOps, Numbers, Math1)
           \cup Binary(IntOps, {Least}, {Num(0), Num(1), UnaryOp("Neg", Num(1)), Num(MaxInt)})
           \cup {UnaryOp("Neg", Least)}

Leaves  == {Identifier("a"), Num(1)}
Unary(S) == UNION {{UnaryOp("Not", e), UnaryOp("Neg", e), IsNull(e), IsNotNull(e),
                    InList(e, ListOf(<<Num(1), Identifier("a")>>)), PropertyAccess(e, "x")} : e \in S}
MixedOps == {"Or", "Xor", "And", "Eq", "Concat", "Add", "Mul"}
Mixed1  == Leaves \cup Unary(Leaves) \cup Binary(MixedOps, {Identifier("a")}, Leaves)
Mixed   == Mixed1 \cup Unary(Mixed1) \cup Binary(MixedOps, Mixed1, Mixed1)
           \cup {CaseOf(None, <<<<e, Num(1)>>>>, Some(Num(0))) : e \in Truths}
           \cup {FunctionCall("size", <<ListOf(<<e>>)>>) : e \in Truths}

Values0 == {Num(n) : n \in {0, MaxExact, MaxExact + 1, MaxExact + 2, MaxInt}}
Compared == LET S == Values0 \cup {FunctionCall("tofloat", <<n>>) : n \in Values0}
            IN Binary({"Lt", "Le", "Gt", "Ge"}, S, S)

ReturnOnly(e) == <<ReturnStatement(FALSE, <<ReturnItem(e, None)>>, None, None, None, None)>>

(* --- Graphs --- *)
EmptyDb == [nodes |-> <<>>, edges |-> <<>>, indexes |-> <<>>, entries |-> {},
            graph |-> "g", graphs |-> {"g"}]
EdgeSet == 11 :> <<1, 2, "R">> @@ 12 :> <<2, 1, "R">> @@ 13 :> <<1, 1, "S">> @@ 14 :> <<2, 3, "R">>
GraphOf(xs, es) ==
    [EmptyDb EXCEPT
        !.nodes = [n \in 1..3 |-> [labels |-> <<<<"P">>, <<"P", "Q">>, <<>>>>[n],
                                   props |-> IF xs[n] = 0 THEN <<>> ELSE "x" :> Integer(xs[n])]],
        !.edges = [e \in es |-> [source |-> EdgeSet[e][1], target |-> EdgeSet[e][2],
                                 label |-> EdgeSet[e][3], props |-> "w" :> Integer(1)]]]
Indexed(db) ==
    exec_create_index(Start0(db, <<>>), CreateIndex("i", FALSE, None, <<"x">>)).db
FullGraphs == {GraphOf(xs, es) : xs \in {<<1, 1, 2>>, <<2, 1, 1>>}, es \in SUBSET {11, 12, 13, 14}}
Sparse == {GraphOf(xs, {11}) : xs \in [1..3 -> 0..2] \cup {<<1, MaxInt, 0>>, <<MaxInt, MaxInt, 1>>}}

(* --- Queries --- *)
Node(x, ls, ps) == NodePattern(Some(x), ls, ps)
Edge(d, ls)     == EdgePattern(Some("e"), d, ls, <<>>, None)
Path(els)       == PathPattern(None, els, None)
Prop(a, x)      == PropertyAccess(Identifier(a), x)
Directions      == {"Outgoing", "Incoming", "Undirected"}
MatchOf(els, where) == MatchStatement(FALSE, <<Path(els)>>, where, None, None)
Items(es) == [i \in 1..Len(es) |-> ReturnItem(es[i], None)]
ReturnOf(dist, es, order, limit) ==
    ReturnStatement(dist, Items(es), None, None, order, limit)
LimitTo(n) == Some(LimitOffsetClause(Some(Num(n)), None))
By(e, dir) == Some(<<OrderByItem(e, dir)>>)

Conditions == {None} \cup {Some(e) : e \in
    {BinaryOp(Prop("a", "x"), "Eq", Num(1)), BinaryOp(Num(2), "Eq", Prop("a", "x")),
     BinaryOp(BinaryOp(Prop("a", "x"), "Eq", Num(1)), "And", BinaryOp(Prop("a", "x"), "Gt", Num(1))),
     BinaryOp(Prop("a", "x"), "Ge", Num(2)), IsNull(Prop("a", "x"))}}
Aggregates == {Aggregate("Count", FALSE, None), Aggregate("Count", FALSE, Some(Prop("a", "x"))),
               Aggregate("Count", TRUE, Some(Prop("a", "x"))), Aggregate("Sum", FALSE, Some(Prop("a", "x"))),
               Aggregate("Min", FALSE, Some(Prop("a", "x"))), Aggregate("Max", FALSE, Some(Prop("a", "x")))}
OneNode == {<<MatchOf(<<Node("a", ls, ps)>>, c), r>> :
                ls \in {<<>>, <<"Q">>, <<"P", "Q">>}, ps \in {<<>>, <<<<"x", Num(1)>>>>}, c \in Conditions,
                r \in {ReturnOf(FALSE, <<Identifier("a")>>, None, None),
                       ReturnOf(TRUE, <<Prop("a", "x")>>, None, None),
                       ReturnOf(FALSE, <<Identifier("a")>>, By(Prop("a", "x"), "Desc"), LimitTo(2))}}
Grouped  == {<<MatchOf(<<Node("a", <<>>, <<>>)>>, c), ReturnOf(FALSE, es, None, None)>> :
                c \in Conditions, es \in {<<g>> : g \in Aggregates}
                                    \cup {<<Prop("a", "x"), g>> : g \in Aggregates}}
OneHop == {<<MatchOf(<<Node("a", <<>>, <<>>), Edge(d, ls), Node("b", ms, ps)>>, c), r>> :
              d \in Directions, ls \in {<<>>, <<"R">>}, ms \in {<<>>, <<"Q">>, <<"P", "Q">>},
              ps \in {<<>>, <<<<"x", Num(1)>>>>},
              c \in {None, Some(BinaryOp(Prop("a", "x"), "Eq", Num(1)))},
              r \in {ReturnOf(FALSE, <<Identifier("a"), Identifier("e"), Identifier("b")>>, None, None),
                     ReturnOf(FALSE, <<Identifier("b")>>, By(Prop("a", "x"), "Asc"), LimitTo(2)),
                     ReturnStatement(FALSE, <<ReturnItem(Identifier("a"), None), ReturnItem(Prop("b", "x"), Some("x"))>>,
                                     None, None, By(Identifier("x"), "Desc"), LimitTo(2))}}
TwoHops == {<<MatchOf(<<Node("a", <<"P">>, <<>>), EdgePattern(None, d, <<>>, <<>>, None),
                        Node("b", <<>>, <<>>), EdgePattern(None, f, ls, <<>>, None),
                        Node("c", <<>>, <<>>)>>, None),
              ReturnOf(FALSE, <<Identifier("a"), Identifier("b"), Identifier("c")>>, None, None)>> :
              d \in Directions, f \in Directions, ls \in {<<>>, <<"R">>}}

(* --- Statements that write --- *)
Hop == MatchOf(<<Node("a", <<>>, <<>>), Edge("Outgoing", <<>>), Node("b", <<>>, <<>>)>>, None)
Pair == MatchStatement(FALSE, <<Path(<<Node("a", <<"P">>, <<>>)>>), Path(<<Node("b", <<"Q">>, <<>>)>>)>>,
                       None, None, None)
Link(a, b) == InsertStatement(<<Path(<<NodePattern(Some(a), <<>>, <<>>),
                  EdgePattern(None, "Outgoing", <<"R">>, <<<<"w", Num(1)>>>>, None),
                  NodePattern(Some(b), <<>>, <<>>)>>)>>)
Writes ==
    {<<InsertStatement(<<Path(<<NodePattern(None, <<"P">>, <<<<"x", e>>>>)>>)>>)>> :
        e \in {Num(1), BinaryOp(Num(1), "Add", Num(1)), BinaryOp(Num(1), "Div", Num(0))}}
    \cup {<<Hop, Link("b", "a")>>, <<Pair, Link("a", "b")>>}
    \cup {<<Hop, DeleteStatement(TRUE, [i \in 1..Len(vs) |-> Identifier(vs[i])])>> :
             vs \in {<<"a">>, <<"e">>, <<"b", "a">>, <<"a", "e">>}}
    \cup {<<Hop, SetStatement(<<SetProperty(Identifier(v), x, e)>>)>> :
             v \in {"a", "b", "e"}, x \in {"x", "w"}, e \in {Num(2), Prop("a", "x")}}
    \cup {<<MatchOf(<<Node("a", <<>>, <<>>)>>, Some(c)), DeleteStatement(FALSE, <<Identifier("a")>>)>> :
             c \in {BinaryOp(Prop("a", "x"), "Eq", Num(1)), BinaryOp(Num(1), "Eq", Num(1))}}
    \cup {<<CreateIndexStatement("j", u, Some("P"), <<"w">>, FALSE)>> : u \in BOOLEAN}
    \cup {<<CreateIndexStatement("j", FALSE, None, ps, FALSE)>> : ps \in {<<"x">>, <<"x", "w">>}}
    \cup {<<DropIndexStatement("i", FALSE)>>, <<CreateGraphStatement("h", FALSE, None)>>,
          <<CreateGraphStatement("g", FALSE, None)>>, <<DropGraphStatement("g", FALSE)>>, <<ListGraphs>>,
          <<CallStatement(<<"db", "schema">>, <<>>, Some(<<"labels">>))>>,
          <<CallStatement(<<"db", "edgeCount">>, <<>>, None)>>,
          <<MatchOf(<<Node("a", <<>>, <<>>)>>, None),
            WithStatement(TRUE, <<ReturnItem(Prop("a", "x"), Some("y"))>>,
                          Some(BinaryOp(Identifier("y"), "Gt", Num(1))), By(Identifier("y"), "Asc"), LimitTo(1)),
            ReturnOf(FALSE, <<Identifier("y")>>, None, None)>>}

SomePrograms ==
    <<[dbs |-> {EmptyDb}, programs |-> {ReturnOnly(e) : e \in Logic \cup Math \cup Compared \cup Mixed}],
      [dbs |-> Sparse \cup {Indexed(d) : d \in Sparse}, programs |-> OneNode \cup Grouped],
      [dbs |-> FullGraphs, programs |-> OneHop \cup TwoHops],
      [dbs |-> {Indexed(d) : d \in FullGraphs}, programs |-> Writes]>>

SomeFreshIds == {<<21, 22, 23, 24, 25, 26, 27, 28>>, <<10, 9, 8, 7, 6, 5, 4>>}
==================================================================================
