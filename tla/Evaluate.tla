-------------------------------- MODULE Evaluate --------------------------------
(***************************************************************************)
(* The evaluation of an expression over a record (synaptica-exec,          *)
(* expression.rs).                                                         *)
(***************************************************************************)
EXTENDS Values

RECURSIVE evaluate(_, _)

(* The values of a sequence of results, or the first error.                *)
Collect(rs) ==
    LET bad == {i \in 1..Len(rs) : ~IsOk(rs[i])}
    IN IF bad = {} THEN Ok([i \in 1..Len(rs) |-> rs[i][2]])
       ELSE rs[CHOOSE i \in bad : \A j \in bad : i <= j]

EvaluateAll(es, rec) == Collect([i \in 1..Len(es) |-> evaluate(es[i], rec)])

PropertyOf(obj, x) ==
    IF obj[1] \in {"Map", "Node", "Edge"} /\ x \in DOMAIN Properties(obj)
    THEN Properties(obj)[x] ELSE Null

(* A property of a variable is looked up as a column first, then as the    *)
(* column of the bare name, then in the value of the variable.             *)
EvalProperty(object, x, rec) ==
    LET qualified == get(rec, <<object[2], x>>)
        bare      == get(rec, <<x>>)
    IN IF object[1] = "Identifier" /\ qualified # None THEN Ok(qualified[1])
       ELSE IF object[1] = "Identifier" /\ bare # None THEN Ok(bare[1])
       ELSE Bind(evaluate(object, rec), LAMBDA obj : Ok(PropertyOf(obj, x)))

EvalBinary(op, left, right, rec) ==
    LET zero == Bool(op = "Or")
        Logical(lv) == IF lv = zero THEN Ok(zero)
                       ELSE Bind(evaluate(right, rec),
                                 LAMBDA rv : Ok(Junction(lv, rv, Bool(op = "And"), zero)))
        Other(lv) == Bind(evaluate(right, rec), LAMBDA rv : eval_binary_op(lv, op, rv))
    IN IF op \in {"And", "Or"} THEN Bind(evaluate(left, rec), Logical)
       ELSE Bind(evaluate(left, rec), Other)

(* The first arm whose condition holds, errors on the way included.        *)
EvalCase(operand, whens, else, rec) ==
    LET subject == IF operand = None THEN Ok(Bool(TRUE)) ELSE evaluate(operand[1], rec)
        RECURSIVE Arm(_)
        Arm(i) == IF i > Len(whens)
                  THEN IF else = None THEN Ok(Null) ELSE evaluate(else[1], rec)
                  ELSE Bind(evaluate(whens[i][1], rec),
                            LAMBDA w : IF Equal(w, subject[2]) THEN evaluate(whens[i][2], rec)
                                       ELSE Arm(i + 1))
    IN Bind(subject, LAMBDA v : Arm(1))

evaluate(e, rec) ==
    CASE e[1] = "Literal"        -> eval_literal(e[2], e[3])
      [] e[1] = "Identifier"     -> LET v == get(rec, <<e[2]>>) IN
                                    IF v = None THEN Err("unknown identifier") ELSE Ok(v[1])
      [] e[1] = "PropertyAccess" -> EvalProperty(e[2], e[3], rec)
      [] e[1] = "BinaryOp"       -> EvalBinary(e[2], e[3], e[4], rec)
      [] e[1] = "UnaryOp"        -> Bind(evaluate(e[3], rec), LAMBDA v : eval_unary_op(e[2], v))
      [] e[1] = "IsNull"         -> Bind(evaluate(e[2], rec), LAMBDA v : Ok(Bool(v = Null)))
      [] e[1] = "IsNotNull"      -> Bind(evaluate(e[2], rec), LAMBDA v : Ok(Bool(v # Null)))
      [] e[1] = "In"             ->
            Bind(EvaluateAll(<<e[2], e[3]>>, rec),
                 LAMBDA vs : IF vs[2][1] = "List"
                             THEN Ok(Bool(\E i \in 1..Len(vs[2][2]) : Equal(vs[2][2][i], vs[1])))
                             ELSE Err("type"))
      [] e[1] = "FunctionCall"   ->
            Bind(EvaluateAll(e[3], rec), LAMBDA vs : eval_function(e[2], vs))
      [] e[1] = "Aggregate"      ->
            IF e[4] # None THEN evaluate(e[4][1], rec)
            ELSE Ok(IF e[2] = "Count" THEN Integer(1) ELSE Null)
      [] e[1] = "List"           -> Bind(EvaluateAll(e[2], rec), LAMBDA vs : Ok(List(vs)))
      [] e[1] = "Map"            ->
            Bind(EvaluateAll([i \in 1..Len(e[2]) |-> e[2][i][2]], rec),
                 LAMBDA vs : Ok(MapVal([k \in {e[2][i][1] : i \in 1..Len(vs)} |->
                     vs[CHOOSE i \in 1..Len(vs) : e[2][i][1] = k
                            /\ \A j \in (i + 1)..Len(vs) : e[2][j][1] # k]])))
      [] e[1] = "Case"           -> EvalCase(e[2], e[3], e[4], rec)
      [] OTHER                   -> Err("expression")
================================================================================
