---------------------------------- MODULE Values ----------------------------------
(***************************************************************************)
(* Values (synaptica-core, types.rs), the operators and functions on them  *)
(* (synaptica-exec, expression.rs) and their order (engine.rs).            *)
(*                                                                         *)
(* A value is a tuple that begins with its type.  A String is a sequence   *)
(* of letters, which are numbers; a Float is one with an integral value or *)
(* NaN, infinity and the limits of the exponent are left out.              *)
(* A Map and the properties of a node or an edge are functions.  A record  *)
(* is its columns and its values; a column is the sequence of the parts of *)
(* its name: <<"age">> for age, <<"a", "age">> for a.age.  A result is     *)
(* <<"Ok", value>> or <<"Err", reason>>.                                   *)
(***************************************************************************)
EXTENDS GqlAst, Integers, SequencesExt

CONSTANTS MaxInt,             \* i64::MAX; the smallest integer is -MaxInt - 1
          MaxExact,           \* 2^53: the Floats up to it are all the integers up to it
          OverflowChecks      \* whether the build checks integer overflow: debug does, release not

ASSUME IntAssumption == MaxInt \in Nat /\ MaxExact \in Nat /\ OverflowChecks \in BOOLEAN

Null       == <<"Null">>
Bool(b)    == <<"Bool", b>>
Integer(i) == <<"Integer", i>>
Float(f)   == <<"Float", f>>
NaN        == <<"Float">>             \* the Float that is not a number
String(s)  == <<"String", s>>
List(vs)   == <<"List", vs>>
MapVal(m)  == <<"Map", m>>
NodeVal(id, labels, props)            == <<"Node", id, labels, props>>
EdgeVal(id, label, source, target, props) == <<"Edge", id, label, source, target, props>>
type_name(v) == v[1]
Properties(v) == v[Len(v)]             \* of a Map, a Node or an Edge

Ok(v)  == <<"Ok", v>>
Err(e) == <<"Err", e>>
IsOk(r) == r[1] = "Ok"
Bind(r, F(_)) == IF IsOk(r) THEN F(r[2]) ELSE r

EmptyRecord == [columns |-> <<>>, values |-> <<>>]

(* Record::get: the first column of the name.                              *)
Position(columns, c) ==
    LET at == {i \in 1..Len(columns) : columns[i] = c}
    IN IF at = {} THEN None ELSE Some(CHOOSE i \in at : \A j \in at : i <= j)
get(rec, c) ==
    LET i == Position(rec.columns, c) IN IF i = None THEN None ELSE Some(rec.values[i[1]])

--------------------------------------------------------------------------------
(* i as f64: beyond MaxExact the nearest multiple of the least power of    *)
(* two u with |i| <= MaxExact * u, and of two as near the even one.        *)
Abs(n)  == IF n < 0 THEN -n ELSE n
Unit(n) == 2 ^ (CHOOSE k \in 0..n : n <= MaxExact * 2 ^ k /\ \A j \in 0..(k - 1) : n > MaxExact * 2 ^ j)
Rounded(n, u) ==
    LET q == n \div u
        up == 2 * (n % u) > u \/ (2 * (n % u) = u /\ q % 2 = 1)
    IN u * (IF up THEN q + 1 ELSE q)
as_f64(i) ==
    IF Abs(i) <= MaxExact THEN i
    ELSE IF i < 0 THEN -Rounded(-i, Unit(-i)) ELSE Rounded(i, Unit(i))

Number(v)  == v[1] \in {"Integer", "Float"}
AsFloat(v) == IF v[1] = "Integer" THEN as_f64(v[2]) ELSE v[2]

(* The order of two values of one type, of numbers of both types, and of   *)
(* strings.  Two Integers are compared as they are, an Integer and a Float *)
(* as Floats; NaN comes neither before nor after anything.                 *)
Less(a, b) == \E i \in 1..(Len(b) + 1) :
    /\ SubSeq(a, 1, i - 1) = SubSeq(b, 1, i - 1) /\ i - 1 <= Len(a)
    /\ i <= Len(b) /\ (i > Len(a) \/ a[i] < b[i])

(* Fault: two Integers are compared as Floats too.                         *)
LessAsFloats(v, w) ==
    IF Number(v) THEN v # NaN /\ w # NaN /\ AsFloat(v) < AsFloat(w) ELSE Less(v[2], w[2])
ValueLess(v, w) ==
    IF v[1] = "Integer" /\ w[1] = "Integer" THEN v[2] < w[2]
    ELSE IF Number(v) THEN v # NaN /\ w # NaN /\ AsFloat(v) < AsFloat(w)
    ELSE Less(v[2], w[2])

Comparable(v, w) == \/ Number(v) /\ Number(w)
                    \/ v[1] = "String" /\ w[1] = "String"

Compare(lv, op, rv) ==
    CASE op = "Lt" -> ValueLess(lv, rv)
      [] op = "Gt" -> ValueLess(rv, lv)
      [] op = "Le" -> ~ValueLess(rv, lv)
      [] op = "Ge" -> ~ValueLess(lv, rv)

eval_comparison(lv, op, rv) ==
    IF Comparable(lv, rv) THEN Ok(IF NaN \in {lv, rv} THEN Null ELSE Bool(Compare(lv, op, rv)))
    ELSE IF lv = Null \/ rv = Null THEN Ok(Null) ELSE Err("type")

(* Integers: an overflow panics, and the panic is caught, in a build with  *)
(* overflow checks; without, the sum wraps.  Division truncates; the one   *)
(* quotient that does not fit panics in every build.                       *)
Fits(n) == n \in (-MaxInt - 1)..MaxInt
Wrap(n) == ((n + MaxInt + 1) % (2 * (MaxInt + 1))) - MaxInt - 1
Quotient(a, b)  == IF (a < 0) = (b < 0) THEN Abs(a) \div Abs(b) ELSE -(Abs(a) \div Abs(b))
Remainder(a, b) == a - b * Quotient(a, b)
Exact(op, a, b) ==
    IF op = "Add" THEN a + b ELSE IF op = "Sub" THEN a - b ELSE IF op = "Mul" THEN a * b
    ELSE IF op = "Div" THEN Quotient(a, b) ELSE Remainder(a, b)

(* Fault: an overflow is not noticed.                                      *)
WrapAlways(op, a, b) == Ok(Integer(Wrap(Exact(op, a, b))))
IntOp(op, a, b) ==
    IF \/ ~Fits(Exact(op, a, b)) /\ (OverflowChecks \/ op = "Div")
       \/ op = "Mod" /\ ~Fits(Quotient(a, b))
    THEN Err("overflow") ELSE Ok(Integer(Wrap(Exact(op, a, b))))

(* Floats are rounded after the operation and keep to the integral ones: a *)
(* division that leaves them is not among the inputs.                      *)
eval_arithmetic(op, lv, rv) ==
    CASE lv[1] = "Integer" /\ rv[1] = "Integer" -> IntOp(op, lv[2], rv[2])
      [] Number(lv) /\ Number(rv)               ->
            Ok(IF NaN \in {lv, rv} THEN NaN ELSE Float(as_f64(Exact(op, AsFloat(lv), AsFloat(rv)))))
      [] OTHER                                  -> Err("type")

ByZero(rv) == Number(rv) /\ rv # NaN /\ rv[2] = 0
Equal(lv, rv) == lv = rv /\ lv # NaN           \* a NaN inside a list or a map is left out

eval_binary_op(lv, op, rv) ==
    CASE op = "Eq"  -> Ok(Bool(Equal(lv, rv)))
      [] op = "Neq" -> Ok(Bool(~Equal(lv, rv)))
      [] op \in {"Lt", "Gt", "Le", "Ge"} -> eval_comparison(lv, op, rv)
      [] op \in {"Add", "Sub", "Mul"}    -> eval_arithmetic(op, lv, rv)
      [] op \in {"Div", "Mod"} -> IF ByZero(rv) THEN Err("division by zero")
                                  ELSE eval_arithmetic(op, lv, rv)
      [] op = "Xor" -> Ok(IF lv[1] = "Bool" /\ rv[1] = "Bool" THEN Bool(lv[2] # rv[2]) ELSE Null)
      [] op = "Concat" ->
            IF lv[1] = rv[1] /\ lv[1] \in {"String", "List"} THEN Ok(<<lv[1], lv[2] \o rv[2]>>)
            ELSE Err("type")

(* AND and OR once both sides are known.                                   *)
NullUnlessEqual(lv, rv, unit, zero) ==             \* fault: Null decides too early
    CASE lv = unit /\ rv = unit -> unit [] Null \in {lv, rv} -> Null [] OTHER -> zero
Junction(lv, rv, unit, zero) ==
    CASE rv = zero              -> zero
      [] lv = unit /\ rv = unit -> unit
      [] OTHER                  -> Null

eval_unary_op(op, v) ==
    CASE v = Null -> Ok(Null)
      [] op = "Not" /\ v[1] = "Bool"    -> Ok(Bool(~v[2]))
      [] op = "Neg" /\ v[1] = "Integer" -> IF Fits(-v[2]) THEN Ok(Integer(-v[2])) ELSE Err("overflow")
      [] op = "Neg" /\ v[1] = "Float"   -> Ok(IF v = NaN THEN NaN ELSE Float(-v[2]))
      [] op = "Pos" /\ Number(v)        -> Ok(v)
      [] OTHER -> Err("type")

(* Literals: the text of a Bool or of Null is its token's.                 *)
eval_literal(kind, v) ==
    Ok(CASE kind = "Bool" -> Bool(v = "true")
         [] kind = "Null" -> Null
         [] OTHER         -> <<kind, v>>)

(* f as i64: an end of the range for what is beyond it, 0 for NaN.         *)
as_i64(v) == IF v = NaN THEN 0 ELSE IF v[2] > MaxInt THEN MaxInt
             ELSE IF v[2] < -MaxInt - 1 THEN -MaxInt - 1 ELSE v[2]

(* The functions on values; the temporal ones parse text and are left out, *)
(* as is toString.  No string of this model spells a number; keys lists a   *)
(* HashMap's keys in an arbitrary order.                                   *)
eval_function(name, args) ==
    LET v == IF args = <<>> THEN Null ELSE args[1]
        t == v[1]
    IN CASE name = "type" -> Ok(String(IF t = "Edge" THEN v[3] ELSE type_name(v)))
         [] name = "id"   -> Ok(v)
         [] name \notin {"tointeger", "tofloat", "size", "keys", "labels"} -> Err("function")
         [] v = Null      -> Ok(Null)
         [] name = "tointeger" /\ Number(v)    -> Ok(Integer(as_i64(v)))
         [] name = "tointeger" /\ t = "Bool"   -> Ok(Integer(IF v[2] THEN 1 ELSE 0))
         [] name = "tofloat" /\ Number(v)      -> Ok(IF v = NaN THEN NaN ELSE Float(AsFloat(v)))
         [] name = "size" /\ t \in {"String", "List"} -> Ok(Integer(Len(v[2])))
         [] name = "size" /\ t = "Map"         -> Ok(Integer(Cardinality(DOMAIN v[2])))
         [] name = "keys" /\ t \in {"Map", "Node"} ->
               Ok(List([i \in 1..Cardinality(DOMAIN Properties(v)) |->
                            String(SetToSeq(DOMAIN Properties(v))[i])]))
         [] name = "labels"                    ->
               Ok(IF t = "List" THEN v
                  ELSE List(IF t = "Node" THEN [i \in 1..Len(v[3]) |-> String(v[3][i])] ELSE <<>>))
         [] OTHER -> Err("type")

--------------------------------------------------------------------------------
(* cmp_values, the order of ORDER BY: Null first, then as the comparison   *)
(* operators, false before true; values that cannot be compared, and NaN   *)
(* with any number, are equal.                                             *)
SortsBefore(v, w) ==
    IF v = Null \/ w = Null THEN v = Null /\ w # Null
    ELSE IF Comparable(v, w) THEN ValueLess(v, w)
    ELSE v[1] = "Bool" /\ w[1] = "Bool" /\ ~v[2] /\ w[2]
===================================================================================
