---------------------------------- MODULE Query ----------------------------------
(***************************************************************************)
(* A query on its way through synaptica: the text becomes tokens (lexer),  *)
(* statements (parser), a plan (planner), and the plan is optimized and    *)
(* run on the graph (execute_program).  A stage is one action, the lexer   *)
(* one action per token.  An error at any stage ends the query.            *)
(*                                                                         *)
(* A case to check begins with a text or, further on, with the tokens of a *)
(* program; it says what graph the program runs on.                        *)
(***************************************************************************)
EXTENDS QueryReference, Streaming

CONSTANTS Texts,      \* cases that begin with a text
          Programs,   \* cases that begin with a program: the graphs and what runs on each
          FreshIds,   \* the sequences of ids new nodes and edges may draw
          ChunkRows   \* STREAM_CHUNK_ROWS

NoProgram == [text |-> <<>>, db |-> <<>>, stmts |-> <<>>]

VARIABLES case,       \* what this query is: its text, or its graph and statements
          stage,      \* "lex", "parse", "plan", "run", "done" or "failed"
          lexer,      \* the state of Lexer
          spanned,    \* the tokens so far, with their spans
          toks,       \* the tokens the parser gets
          program,    \* the statements the parser returned
          planned,    \* the plan
          out         \* the outcome of the run

vars == <<case, stage, lexer, spanned, toks, program, planned, out>>

Unstarted == Start0(<<>>, <<>>)

Init ==
    /\ \/ \E t \in Texts : /\ case = [NoProgram EXCEPT !.text = t]
                           /\ stage = "lex"
                           /\ lexer = NewLexer(t)
                           /\ toks = <<>>
       \/ \E i \in 1..Len(Programs) : \E d \in Programs[i].dbs, pr \in Programs[i].programs :
             /\ case = [text |-> <<>>, db |-> d, stmts |-> pr]
             /\ stage = "parse"
             /\ lexer = NewLexer(<<>>)
             /\ toks = WriteProgram(pr)
    /\ spanned = <<>>
    /\ program = <<>>
    /\ planned = EmptyPlan
    /\ out = Unstarted

(* Lexer::tokenize, one turn of its loop: t is what next_token returned.   *)
TakeToken(t, st) ==
    /\ stage = "lex"
    /\ lexer' = t.lx
    /\ IF ~t.ok THEN stage' = "failed" /\ UNCHANGED <<spanned, toks>>
       ELSE /\ spanned' = st
            /\ stage' = IF t.token[1] = "eof" THEN "parse" ELSE "lex"
            /\ toks' = IF t.token[1] # "eof" THEN toks
                       ELSE [i \in 1..(Len(st) - 1) |-> st[i].token]
    /\ UNCHANGED <<case, program, planned, out>>
NextToken ==
    \E t \in {next_token(lexer)} :
        TakeToken(t, Append(spanned, [token |-> t.token,
                                      span  |-> current_span(skip_whitespace(lexer))]))

(* Parser::parse.                                                          *)
Parse ==
    \E p \in {parse(toks)} :
       /\ stage = "parse"
       /\ stage' = IF p.ok THEN "plan" ELSE "failed"
       /\ program' = IF p.ok THEN p.val ELSE <<>>
       /\ UNCHANGED <<case, lexer, spanned, toks, planned, out>>

(* QueryPlanner::plan.                                                     *)
MakePlan ==
    \E p \in {plan(program)} :
       /\ stage = "plan"
       /\ stage' = IF p[1] = "Ok" THEN "run" ELSE "failed"
       /\ planned' = IF p[1] = "Ok" THEN p[2] ELSE EmptyPlan
       /\ UNCHANGED <<case, lexer, spanned, toks, program, out>>

(* ExecutionEngine::execute_plan_with; new nodes and edges draw random ids. *)
Run ==
    /\ stage = "run"
    /\ \E ids \in FreshIds : out' = execute_plan_with(planned, case.db, ids)
    /\ stage' = IF out'.ok THEN "done" ELSE "failed"
    /\ UNCHANGED <<case, lexer, spanned, toks, program, planned>>

Next == NextToken \/ Parse \/ MakePlan \/ Run

Spec == Init /\ [][Next]_vars

--------------------------------------------------------------------------------
(* SpansExact: the line and the column of every token, which errors are    *)
(* reported by, are where its first character stands in the text: the      *)
(* position advance keeps across whitespace, comments and strings.         *)
SpansExact == SpansRight(spanned, case.text)

Tokens(t) == IF t.state = "ok" THEN [i \in 1..Len(t.tokens) |-> t.tokens[i].token] ELSE <<>>

(* RelexAgrees: the tokens of a text, written apart, are the tokens of the *)
(* text they make: no routine of the lexer ends a token too early or too   *)
(* late, and escapes and comments are undone as they were written.         *)
RelexAgrees ==
    (stage # "lex" /\ spanned # <<>> /\ Last(spanned).token[1] = "eof") =>
        LET tokens == [i \in 1..Len(spanned) |-> spanned[i].token]
        IN Tokens(tokenize(TextOf(tokens))) = tokens

(* TokensExact: what the lexer returns stands where it says and means what *)
(* was written.                                                            *)
TokensExact == SpansExact /\ RelexAgrees

FromProgram == case.stmts # <<>>
TooDeep == \E i \in 1..Len(case.stmts) :
    /\ case.stmts[i].kind = "Return"
    /\ \E j \in 1..Len(case.stmts[i].items) : Depth(case.stmts[i].items[j][1], 1) > MaxExprDepth

(* ParseInverts: the parser reads a program back as it was written, with   *)
(* the precedence and the associativity of every operator, unless the      *)
(* expressions are nested deeper than MAX_EXPR_DEPTH, and then refuses it. *)
ParseInverts ==
    /\ stage \in {"plan", "run", "done"} /\ FromProgram => program = case.stmts /\ ~TooDeep
    /\ stage = "failed" /\ FromProgram /\ program = <<>> => TooDeep

--------------------------------------------------------------------------------
(* A closed expression is the only item of a RETURN without a MATCH.       *)
Closed == FromProgram /\ Len(case.stmts) = 1 /\ case.stmts[1].kind = "Return"
Ran    == program # <<>> /\ stage \in {"done", "failed"}
Item1  == case.stmts[1].items[1][1]
Answer == out.rs.rows[1][1]

RECURSIVE Logical(_), Arithmetic(_)
Logical(e) ==
    CASE e[1] = "Literal"  -> e[2] \in {"Bool", "Null"}
      [] e[1] = "UnaryOp"  -> e[2] = "Not" /\ Logical(e[3])
      [] e[1] = "BinaryOp" -> e[2] \in {"And", "Or", "Xor"} /\ Logical(e[3]) /\ Logical(e[4])
      [] OTHER -> FALSE
Arithmetic(e) ==
    CASE e[1] = "Literal"  -> e[2] = "Integer"
      [] e[1] = "UnaryOp"  -> e[2] = "Neg" /\ Arithmetic(e[3])
      [] e[1] = "BinaryOp" -> /\ e[2] \in {"Add", "Sub", "Mul", "Div", "Mod"}
                              /\ Arithmetic(e[3]) /\ Arithmetic(e[4])
      [] OTHER -> FALSE

(* ThreeValued: AND, OR, XOR and NOT compute Kleene's logic, whatever the  *)
(* short cuts of evaluate skip.                                            *)
ThreeValued ==
    Closed /\ Ran /\ Logical(Item1) => stage = "done" /\ Truth(Answer) = Kleene(Item1)

(* ArithmeticExact: an integer expression has its exact value or, when a   *)
(* part of it divides by zero or, in a build with overflow checks, does    *)
(* not fit, is an error.  A build without the checks wraps: then the       *)
(* property says nothing of an expression that does not fit.               *)
ArithmeticExact ==
    Closed /\ Ran /\ Arithmetic(Item1) =>
        LET v == Exactly(Item1)
        IN IF v # None THEN stage = "done" /\ Answer = Integer(v[1])
           ELSE OverflowChecks => stage = "failed"

(* ComparesExact: <, <=, > and >= between two numbers, each an Integer or  *)
(* a Float, hold of what was written.  Beyond MaxExact, 2^53, an Integer   *)
(* has lost digits once it is a Float or is compared with one: there only  *)
(* two Integers are sure to be compared exactly.                           *)
Whole(e)      == e[1] = "Literal" /\ e[2] = "Integer"
ToFloat(e)    == e[1] = "FunctionCall" /\ e[2] = "tofloat" /\ Whole(e[3][1])
Written(e)    == IF Whole(e) THEN e[3] ELSE e[3][1][3]
Comparison(e) == /\ e[1] = "BinaryOp" /\ e[2] \in {"Lt", "Le", "Gt", "Ge"}
                 /\ \A i \in {3, 4} : Whole(e[i]) \/ ToFloat(e[i])
ComparesExact ==
    Closed /\ Ran /\ Comparison(Item1) =>
        LET a == Written(Item1[3])
            b == Written(Item1[4])
        IN \/ (ToFloat(Item1[3]) \/ ToFloat(Item1[4])) /\ Max({a, b}) > MaxExact
           \/ /\ stage = "done"
              /\ Answer = Bool(CASE Item1[2] = "Lt" -> a < b [] Item1[2] = "Le" -> a <= b
                                 [] Item1[2] = "Gt" -> a > b [] Item1[2] = "Ge" -> a >= b)

(* ExpressionsExact: closed expressions have the value that logic and      *)
(* arithmetic give them.                                                   *)
ExpressionsExact == ThreeValued /\ ArithmeticExact /\ ComparesExact

--------------------------------------------------------------------------------
(* MATCH of one path, then RETURN.  The names of the path differ, its      *)
(* nodes are all named, and the properties the query reads exist.          *)
Reads == /\ FromProgram /\ Ran /\ Len(case.stmts) = 2
         /\ case.stmts[1].kind = "Match" /\ case.stmts[2].kind = "Return"
Elements == case.stmts[1].paths[1].elements
TheReturn == case.stmts[2]
Plain == /\ Reads
         /\ \A j \in 1..Len(TheReturn.items) : ~contains_aggregate(TheReturn.items[j][1])
Bindings == {Binding(case.db, Elements, w) : w \in Answers(case.db, case.stmts[1])}

UserRow(row) ==
    LET user == SelectSeq([i \in 1..Len(row) |-> i], LAMBDA i : ~Internal(out.rs.columns[i]))
    IN [i \in 1..Len(user) |-> row[user[i]]]
ItemsOf(rec) == EvaluateAll([j \in 1..Len(TheReturn.items) |-> TheReturn.items[j][1]], rec)[2]
Rows == [i \in 1..Len(out.rs.rows) |-> UserRow(out.rs.rows[i])]

CountOf(rows) == [r \in ToSet(rows) |-> Cardinality({i \in 1..Len(rows) : rows[i] = r})]
Got == CountOf(Rows)

(* Of each row, how many walks answer it; rowOf is the row of a walk.      *)
Walked(rowOf) ==
    [r \in {rowOf[w] : w \in DOMAIN rowOf} |->
        IF TheReturn.distinct THEN 1 ELSE Cardinality({w \in DOMAIN rowOf : rowOf[w] = r})]
Wanted == Walked([w \in Answers(case.db, case.stmts[1]) |-> ItemsOf(Binding(case.db, Elements, w))])

(* MatchAgrees: a pattern is answered by exactly its walks, each once:     *)
(* labels, directions, an edge from a node to itself, inline properties    *)
(* and WHERE over the hops of exec_expand.  Of several labels the node at  *)
(* the end of a hop needs one, the node a path begins with all (Walks).    *)
MatchAgrees == Plain /\ TheReturn.limit_offset = None => stage = "done" /\ Got = Wanted

(* The sort keys of the bindings that give a row; out of order.  A name    *)
(* given with AS is that item, whatever else has the name.                 *)
Aliased == {j \in 1..Len(TheReturn.items) :
               TheReturn.items[j][2] # None /\ TheReturn.order_by[1][1][1] = Identifier(TheReturn.items[j][2][1])}
KeyOf(rec) == IF Aliased # {} THEN ItemsOf(rec)[Min(Aliased)] ELSE evaluate(TheReturn.order_by[1][1][1], rec)[2]
KeysOf(r)  == {KeyOf(b) : b \in {b \in Bindings : ItemsOf(b) = r}}
Out(k, l)  == IF TheReturn.order_by[1][1][2] = "Desc" THEN SortsBefore(k, l) ELSE SortsBefore(l, k)
MayPrecede(ks, ls) == \E k \in ks, l \in ls : ~Out(k, l)
FirstInOrder(rows, want, got, keys) ==
    LET limit == TheReturn.limit_offset
        total == BagCardinality(want)
    IN /\ Len(rows) = IF limit = None THEN total ELSE Min({limit[1][1][1][3], total})
       /\ \A r \in DOMAIN got : r \in DOMAIN want /\ got[r] <= want[r]
       /\ \A i, j \in 1..Len(rows) : i < j => MayPrecede(keys[rows[i]], keys[rows[j]])
       /\ \A r \in DOMAIN want \ DOMAIN got :
             \A i \in 1..Len(rows) : MayPrecede(keys[rows[i]], keys[r])

(* OrderAgrees: ORDER BY and LIMIT keep the rows that come first in the    *)
(* order, and show them in it, also when they sort by what is not shown or *)
(* by the alias of an item.                                                *)
OrderAgrees ==
    Plain /\ TheReturn.order_by # None =>
        /\ stage = "done"
        /\ \E want \in {Wanted} :
              FirstInOrder(Rows, want, Got, [r \in DOMAIN want \cup ToSet(Rows) |-> KeysOf(r)])

(* IndexAgrees: the plan that optimize makes has the answers of the plan   *)
(* it was given, whatever an index can serve.                              *)
Answered(o) == IF o.ok THEN <<CountOf(o.rs.rows)>> ELSE None
IndexAgrees == Plain => Answered(execute_node(planned, Start0(case.db, <<>>))) = Answered(out)

(* The aggregate e of a group, of which val is the argument's value.       *)
AggregateOf(e, val) ==
    LET some == {r \in DOMAIN val : val[r] # Null}
        nums == {val[r][2] : r \in some}
    IN CASE e[2] = "Count" -> Integer(Cardinality(IF e[3] THEN {val[r] : r \in some} ELSE some))
         [] e[2] = "Sum"   -> Integer(MapThenSumSet(LAMBDA r : val[r][2], some))
         [] e[2] = "Min"   -> IF some = {} THEN Null ELSE Integer(Min(nums))
         [] e[2] = "Max"   -> IF some = {} THEN Null ELSE Integer(Max(nums))
ItemOfGroup(e, recs) ==
    IF e[1] # "Aggregate" THEN evaluate(e, CHOOSE b \in recs : TRUE)[2]
    ELSE AggregateOf(e, [r \in recs |-> IF e[4] = None THEN Integer(0) ELSE evaluate(e[4][1], r)[2]])
RowsOfGroups(es, groups) == {[j \in 1..Len(es) |-> ItemOfGroup(es[j], g)] : g \in groups}
GroupsBy(keyOf) == {{b \in DOMAIN keyOf : keyOf[b] = k} : k \in {keyOf[b] : b \in DOMAIN keyOf}}
GroupsOf(keys) == IF keys = <<>> THEN {Bindings} ELSE GroupsBy([b \in Bindings |-> EvaluateAll(keys, b)[2]])

TooLarge(rows) == \E row \in rows : \E j \in 1..Len(row) : row[j][1] = "Integer" /\ ~Fits(row[j][2])

(* AggregateAgrees: items without an aggregate split the answers into      *)
(* groups, one row for each, and COUNT, SUM, MIN and MAX are those of the  *)
(* group, null values left out.  A SUM that does not fit ends the query in *)
(* a build with overflow checks; without them it wraps, and the property   *)
(* says nothing of it.                                                     *)
AggregateAgrees ==
    Reads /\ ~Plain =>
        LET es == [j \in 1..Len(TheReturn.items) |-> TheReturn.items[j][1]]
        IN \E groups \in {GroupsOf(SelectSeq(es, LAMBDA e : e[1] # "Aggregate"))} :
              \E rows \in {RowsOfGroups(es, groups)} :
                 IF TooLarge(rows) THEN OverflowChecks => stage = "failed"
                 ELSE stage = "done" /\ ToSet(Rows) = rows /\ Len(Rows) = Cardinality(groups)

(* RowsAgree: the rows of a query that reads, through planner, optimizer   *)
(* and executor, are those its text asks for.                              *)
RowsAgree == MatchAgrees /\ OrderAgrees /\ IndexAgrees /\ AggregateAgrees

--------------------------------------------------------------------------------
(* Statements that write.                                                  *)
Before == case.db
After1 == out.db

(* StatsExact: the counters returned with a statement say what happened to *)
(* the graph, also when several rows lead to one node or when deleting a   *)
(* node takes its edges with it; SET counts once for each row and item.    *)
(* No edge is left without its ends.  DROP GRAPH counts nothing.           *)
SetCount == IF Last(case.stmts).kind # "Set" THEN 0
            ELSE Cardinality(Answers(Before, case.stmts[1])) * Len(Last(case.stmts).items)
StatsExact ==
    FromProgram /\ stage = "done" /\ After1.graphs = Before.graphs =>
        LET N(d) == DOMAIN d.nodes
            E(d) == DOMAIN d.edges
        IN /\ out.stats.nodes_created = Cardinality(N(After1) \ N(Before))
           /\ out.stats.nodes_deleted = Cardinality(N(Before) \ N(After1))
           /\ out.stats.edges_created = Cardinality(E(After1) \ E(Before))
           /\ out.stats.edges_deleted = Cardinality(E(Before) \ E(After1))
           /\ out.stats.properties_set = SetCount
           /\ \A e \in E(After1) : {After1.edges[e].source, After1.edges[e].target} \subseteq N(After1)

(* IndexesFollow: after a statement every index holds an entry for each    *)
(* node that has a property of it, and nothing else.                       *)
Complete(db) == db.entries = UNION {EntriesOf(db, n, Indexes(db, db.nodes[n].props)) : n \in DOMAIN db.nodes}
IndexesFollow == FromProgram /\ stage = "done" /\ Complete(Before) => Complete(After1)

(* WritesExact: a statement that writes keeps counters, records and        *)
(* indexes in step.                                                        *)
WritesExact == StatsExact /\ IndexesFollow

(* ChunksExact: a client that puts the chunks of a stream together has the *)
(* result of the unary call: every row once and in order, no chunk above   *)
(* the limit, and the counters once, at the end, also when the rows fill   *)
(* the chunks exactly.                                                     *)
ChunksExact == stage = "done" => ChunksRight(out.rs, out.stats, ChunkRows)
================================================================================
