------------------------------- MODULE Exprs -------------------------------
(***************************************************************************)
(* Expressions: from the SQL syntax tree (crates/rspark-sql:               *)
(* expr_builder.rs) to the engine's Expr and its evaluation                *)
(* (crates/rspark-core: expr.rs).                                          *)
(*                                                                         *)
(* A syntax tree and an Expr are tuples whose first component is the       *)
(* variant.  A field of a schema is a pair of name and type, and a name is *)
(* the sequence of words display_name prints: a column a is named <<"a">>, *)
(* a sum <<"sum", "(", "a", ")">>.  Every field is nullable, as inferred   *)
(* fields are.                                                             *)
(***************************************************************************)
EXTENDS Values

Col(n) == <<"col", n>>
Lit(v) == <<"lit", v>>
Bin(op, l, r) == <<"bin", op, l, r>>
Not(e) == <<"not", e>>
If(c, t, e) == <<"if", c, t, e>>
Agg(f, arg, distinct) == <<"agg", f, arg, distinct>>
Aliased(e, n) == <<"alias", e, n>>
Star == <<"star">>

\* The sub-expressions of an Expr, in order.
Parts(e) ==
    CASE e[1] = "bin" -> <<e[3], e[4]>>
      [] e[1] \in {"not", "isnull", "isnotnull", "alias"} -> <<e[2]>>
      [] e[1] = "if" -> <<e[2], e[3], e[4]>>
      [] e[1] = "agg" -> <<e[3]>>
      [] OTHER -> <<>>

RECURSIVE ContainsAggregate(_)
ContainsAggregate(e) ==
    e[1] = "agg" \/ \E i \in DOMAIN Parts(e) : ContainsAggregate(Parts(e)[i])

RECURSIVE DisplayName(_)
DisplayName(e) ==
    CASE e[1] = "col" -> <<e[2]>>
      [] e[1] = "lit" -> <<IF IsNull(e[2]) THEN "NULL" ELSE CastToString(e[2])>>
      [] e[1] = "bin" -> DisplayName(e[3]) \o <<e[2]>> \o DisplayName(e[4])
      [] e[1] = "not" -> <<"NOT">> \o DisplayName(e[2])
      [] e[1] = "isnull" -> DisplayName(e[2]) \o <<"IS", "NULL">>
      [] e[1] = "isnotnull" -> DisplayName(e[2]) \o <<"IS", "NOT", "NULL">>
      [] e[1] = "agg" -> <<e[2], "(">> \o DisplayName(e[3]) \o <<")">>
      [] e[1] = "if" -> <<"if">>
      [] e[1] = "alias" -> <<e[3]>>
      [] e[1] = "star" -> <<"*">>

\* The type the planner gives a column without looking at its input.
RECURSIVE InferDataType(_)
InferDataType(e) ==
    CASE e[1] = "lit" -> IF e[2] = NaN THEN "double" ELSE e[2][1]
      [] e[1] = "agg" -> CASE e[2] = "count" -> "bigint"
                           [] e[2] \in {"sum", "avg"} -> "double"
                           [] OTHER -> "string"
      [] e[1] = "bin" -> IF e[2] \in {"Add", "Sub", "Mul", "Div", "Mod"}
                         THEN "double" ELSE "boolean"
      [] e[1] \in {"not", "isnull", "isnotnull"} -> "boolean"
      [] e[1] = "if" -> IF InferDataType(e[3]) = InferDataType(e[4])
                        THEN InferDataType(e[3]) ELSE "string"
      [] e[1] = "alias" -> InferDataType(e[2])
      [] OTHER -> "string"

-----------------------------------------------------------------------------
(***************************************************************************)
(* From the syntax tree.  The result is an Expr or Err.                    *)
(***************************************************************************)
Lifted(parts, e) == IF \E i \in DOMAIN parts : Failed(parts[i]) THEN Err ELSE e

Negated(neg, e) == IF neg /\ ~Failed(e) THEN Not(e) ELSE e

Operators == {"Add", "Sub", "Mul", "Div", "Mod", "Eq", "NotEq", "Lt", "LtEq", "Gt", "GtEq",
              "And", "Or"}

\* BinaryOp::from_sql; string concatenation becomes an addition.
FromSql(op) == IF op = "Concat" THEN "Add" ELSE IF op \in Operators THEN op ELSE "none"

AggregateFns == {"count", "sum", "avg", "min", "max"}
FromName(f) == IF f \in {"average", "mean"} THEN "avg" ELSE f

\* A chain of ORs; the list of an IN has one element at least.
OneOf(target, items) ==
    FoldLeft(LAMBDA acc, item : Bin("Or", acc, Bin("Eq", target, item)),
             Bin("Eq", target, items[1]), Tail(items))

Coalesce(args) ==
    FoldLeft(LAMBDA acc, next : If(<<"isnotnull", acc>>, acc, next), args[1], Tail(args))

\* build_function_call, on arguments already built.  abs, upper and lower
\* stand for their argument, and NVL takes its second argument first.
FunctionCall(f, args, distinct) ==
    CASE FromName(f) \in AggregateFns ->
           IF Len(args) # 1 THEN Err
           ELSE Agg(FromName(f), IF args[1] = Star THEN Lit(IntV(1)) ELSE args[1], distinct)
      [] Star \in ToSet(args) -> Err
      [] f = "coalesce" -> IF args = <<>> THEN Lit(Null) ELSE Coalesce(args)
      [] f = "nvl" -> IF Len(args) # 2 THEN Err
                      ELSE If(<<"isnotnull", args[2]>>, args[2], args[1])
      [] f \in {"abs", "upper", "ucase", "lower", "lcase"} ->
           IF Len(args) # 1 THEN Err ELSE args[1]
      [] OTHER -> Err

RECURSIVE BuildExpr(_)
BuildExpr(s) ==
    LET build(es) == [i \in DOMAIN es |-> BuildExpr(es[i])]
    IN
    CASE s[1] = "id" -> Col(s[2])
      [] s[1] = "star" -> Star
      [] s[1] = "val" -> Lit(s[2])
      [] s[1] = "op" ->
           LET p == build(<<s[3], s[4]>>)
           IN  IF FromSql(s[2]) = "none" THEN Err
               ELSE Lifted(p, Bin(FromSql(s[2]), p[1], p[2]))
      [] s[1] = "neg" -> LET p == build(<<s[2]>>) IN Lifted(p, Bin("Sub", Lit(IntV(0)), p[1]))
      [] s[1] = "not" -> Negated(TRUE, BuildExpr(s[2]))
      [] s[1] \in {"isnull", "isnotnull"} ->
           LET p == build(<<s[2]>>) IN Lifted(p, <<s[1], p[1]>>)
      [] s[1] = "istruth" ->        \* IS [NOT] TRUE, IS [NOT] FALSE
           LET p == build(<<s[4]>>)
           IN  Lifted(p, Bin(IF s[2] THEN "NotEq" ELSE "Eq", p[1], Lit(BoolV(s[3]))))
      [] s[1] = "like" ->           \* and ILIKE
           LET p == build(<<s[3], s[4]>>)
           IN  Negated(s[2], Lifted(p, Bin("Like", p[1], p[2])))
      [] s[1] = "between" ->
           LET p == build(<<s[3], s[4], s[5]>>)
           IN  Negated(s[2], Lifted(p, Bin("And", Bin("GtEq", p[1], p[2]),
                                                  Bin("LtEq", p[1], p[3]))))
      [] s[1] = "in" ->
           LET p == build(s[4]) t == BuildExpr(s[3])
           IN  Negated(s[2], Lifted(<<t>> \o p, OneOf(t, p)))
      [] s[1] = "fn" ->
           LET p == build(s[3]) IN Lifted(p, FunctionCall(s[2], p, s[4]))
      [] s[1] = "cast" -> BuildExpr(s[2])
      [] OTHER -> Err               \* CASE, subqueries, ...

-----------------------------------------------------------------------------
(***************************************************************************)
(* Evaluation on one row.                                                  *)
(***************************************************************************)
\* The place of the first field with this name, 0 if there is none.
IndexOf(schema, name) ==
    IF \E i \in DOMAIN schema : schema[i][1] = name
    THEN CHOOSE i \in DOMAIN schema :
            schema[i][1] = name /\ \A j \in 1..(i - 1) : schema[j][1] # name
    ELSE 0

\* lookup_by_name
Lookup(schema, row, name) ==
    LET i == IndexOf(schema, name)
    IN  IF i = 0 THEN Err ELSE IF i > Len(row) THEN Null ELSE row[i]

\* A NULL operand makes the result NULL whatever the operator.
Binary(op, l, r) ==
    IF Failed(l) THEN l ELSE IF Failed(r) THEN r
    ELSE IF IsNull(l) \/ IsNull(r) THEN Null ELSE ApplyBinary(op, l, r)

RECURSIVE Eval(_, _, _)
Eval(e, row, schema) ==
    CASE e[1] = "col" -> Lookup(schema, row, <<e[2]>>)
      [] e[1] = "lit" -> e[2]
      [] e[1] = "bin" -> Binary(e[2], Eval(e[3], row, schema), Eval(e[4], row, schema))
      [] e[1] = "not" ->
           LET v == Eval(e[2], row, schema)
           IN  CASE IsNull(v) \/ Failed(v) -> v
                 [] v[1] = "boolean" -> BoolV(~v[2])
                 [] OTHER -> Err
      [] e[1] \in {"isnull", "isnotnull"} ->
           LET v == Eval(e[2], row, schema)
           IN  IF Failed(v) THEN v ELSE BoolV(IsNull(v) = (e[1] = "isnull"))
      [] e[1] = "if" ->
           LET c == Eval(e[2], row, schema)
           IN  IF Failed(c) THEN c
               ELSE IF c = BoolV(TRUE) THEN Eval(e[3], row, schema) ELSE Eval(e[4], row, schema)
      [] e[1] = "alias" -> Eval(e[2], row, schema)
      [] OTHER -> Err
=============================================================================
