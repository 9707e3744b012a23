----------------------------- MODULE Execution -----------------------------
(***************************************************************************)
(* The local executor (crates/rspark-exec: executor.rs, operators.rs):     *)
(* runs a logical plan on the rows of its tables.                          *)
(*                                                                         *)
(* Sorting is modelled for keys that compare with each other: the order in *)
(* which Rust leaves others is unspecified.                                *)
(***************************************************************************)
EXTENDS Plans, RowBatch

-----------------------------------------------------------------------------
(***************************************************************************)
(* Filter.  After aggregation, an aggregate in the predicate is looked up  *)
(* by its name, and only comparisons, AND and OR are applied to it.        *)
(***************************************************************************)
\* contains_aggregate of the executor, which does not look into IF.
RECURSIVE NamesAggregate(_)
NamesAggregate(e) ==
    \/ e[1] = "agg"
    \/ e[1] \in {"alias", "bin", "not", "isnull", "isnotnull"}
       /\ \E i \in DOMAIN Parts(e) : NamesAggregate(Parts(e)[i])

ApplyBinaryOp(op, l, r) ==
    CASE op \in {"Eq", "NotEq", "Lt", "LtEq", "Gt", "GtEq"} -> ApplyBinary(op, l, r)
      [] op \in {"And", "Or"} -> IF l[1] = "boolean" /\ r[1] = "boolean"
                                 THEN ApplyBinary(op, l, r) ELSE Null
      [] OTHER -> Err

RECURSIVE SubstituteAggregates(_, _, _)
SubstituteAggregates(e, row, schema) ==
    CASE e[1] = "agg" \/ (e[1] = "alias" /\ e[2][1] = "agg") -> Lookup(schema, row, DisplayName(e))
      [] e[1] = "bin" ->
           LET l == SubstituteAggregates(e[3], row, schema)
               r == SubstituteAggregates(e[4], row, schema)
           IN  IF Failed(l) \/ Failed(r) THEN Err
               ELSE IF IsNull(l) \/ IsNull(r) THEN Null ELSE ApplyBinaryOp(e[2], l, r)
      [] OTHER -> Eval(e, row, schema)

EvalPredicate(p, row, schema) ==
    LET v == IF NamesAggregate(p) THEN SubstituteAggregates(p, row, schema)
             ELSE Eval(p, row, schema)
    IN  IF IsNull(v) THEN BoolV(FALSE) ELSE IF v[1] = "boolean" THEN v ELSE Err

FilterBatch(b, predicate) ==
    IF \E i \in DOMAIN b.rows : Failed(EvalPredicate(predicate, b.rows[i], b.schema))
    THEN NoBatch
    ELSE [b EXCEPT !.rows = SelectSeq(@, LAMBDA row :
                                EvalPredicate(predicate, row, b.schema) = BoolV(TRUE))]

-----------------------------------------------------------------------------
(***************************************************************************)
(* Project.                                                                *)
(***************************************************************************)
ProjectRecord(exprs, row, schema) ==
    FlattenSeq([i \in DOMAIN exprs |->
        CASE exprs[i] = Star -> row
          [] exprs[i][1] = "agg" \/ (exprs[i][1] = "alias" /\ exprs[i][2][1] = "agg") ->
               <<Lookup(schema, row, DisplayName(exprs[i]))>>
          [] OTHER -> <<Eval(exprs[i], row, schema)>>])

ProjectBatch(b, exprs, schema) ==
    FromRecords(schema, [i \in DOMAIN b.rows |-> ProjectRecord(exprs, b.rows[i], b.schema)])

-----------------------------------------------------------------------------
(***************************************************************************)
(* Aggregate.  Groups are keyed by the text of their values and come out   *)
(* in the order of the keys.  DISTINCT is not looked at.                   *)
(***************************************************************************)
\* The aggregate an output column computes; others count nothing.
AggregateOf(e) == IF e[1] = "agg" THEN e ELSE IF e[1] = "alias" /\ e[2][1] = "agg" THEN e[2] ELSE No

Plus(x, y) == IF x = NaN \/ y = NaN THEN NaN ELSE <<"some", x[2] + y[2]>>

NewAccumulator(f) ==
    CASE f = "count" -> 0
      [] f = "sum" -> <<"some", 0>>
      [] f = "avg" -> [sum |-> <<"some", 0>>, count |-> 0]
      [] OTHER -> No

Counted(acc, v) == IF IsNull(v) THEN acc ELSE acc + 1

\* MIN and MAX keep what they have unless the value is comparable and beyond.
Extreme(f, acc, v) ==
    IF IsNull(v) THEN acc ELSE IF acc = No THEN v
    ELSE IF TryCmp(acc, v) = (IF f = "min" THEN "Greater" ELSE "Less") THEN v ELSE acc

Update(f, acc, v) ==
    CASE f = "count" -> Counted(acc, v)
      [] f = "sum" -> IF CastToF64(v) = No THEN acc ELSE Plus(acc, CastToF64(v))
      [] f = "avg" -> IF CastToF64(v) = No THEN acc
                      ELSE [sum |-> Plus(acc.sum, CastToF64(v)), count |-> acc.count + 1]
      [] OTHER -> Extreme(f, acc, v)

Finish(f, acc) ==
    CASE f = "count" -> IntV(acc)
      [] f = "sum" -> FloatOf(acc)
      [] f = "avg" -> IF acc.count = 0 THEN Null ELSE IF acc.sum = NaN THEN NaN
                      ELSE FloatV(Quot(acc.sum[2], acc.count))
      [] OTHER -> IF acc = No THEN Null ELSE acc

\* The value of an output column over the rows of a group.
Accumulated(e, rows, schema) ==
    LET a == AggregateOf(e)
        args == [i \in DOMAIN rows |-> Eval(a[3], rows[i], schema)]
    IN  IF a = No THEN IntV(0)
        ELSE IF \E i \in DOMAIN args : Failed(args[i]) THEN Err
        ELSE Finish(a[2], FoldLeft(LAMBDA acc, v : Update(a[2], acc, v),
                                   NewAccumulator(a[2]), args))

\* The order of Vec<String>.
KeyBefore(a, b) ==
    \E i \in DOMAIN a : Place(a[i]) < Place(b[i]) /\ \A j \in 1..(i - 1) : a[j] = b[j]

TextOf(values) == [i \in DOMAIN values |-> CastToString(values[i])]

GroupValues(b, groups, row) == [i \in DOMAIN groups |-> Eval(groups[i], row, b.schema)]

\* Mutant: of rows with the same text only those that equal the first are aggregated.
MembersEqual(b, groups, key) ==
    LET rows == SelectSeq(b.rows, LAMBDA row : TextOf(GroupValues(b, groups, row)) = key)
    IN  SelectSeq(rows, LAMBDA row : GroupValues(b, groups, row) = GroupValues(b, groups, rows[1]))

\* The rows of a group.
Members(b, groups, key) == SelectSeq(b.rows, LAMBDA row : TextOf(GroupValues(b, groups, row)) = key)

AggregateBatch(b, groups, aggs, schema) ==
    LET values(row) == GroupValues(b, groups, row)
        failed == \E i \in DOMAIN b.rows : \E j \in DOMAIN groups : Failed(values(b.rows[i])[j])
        keys == SetToSortSeq({TextOf(values(b.rows[i])) : i \in DOMAIN b.rows}, KeyBefore)
    IN  IF failed THEN NoBatch
        ELSE FromRecords(schema, [k \in DOMAIN keys |->
                LET rows == Members(b, groups, keys[k])
                IN  values(rows[1])
                    \o [i \in DOMAIN aggs |-> Accumulated(aggs[i], rows, b.schema)]])

-----------------------------------------------------------------------------
(***************************************************************************)
(* Sort, Distinct, Join.                                                   *)
(***************************************************************************)
\* sort_batch: the values of the keys, then the sort on them.
SortBatch(b, order) ==
    LET keys == [i \in DOMAIN b.rows |-> [k \in DOMAIN order |-> Eval(order[k][1], b.rows[i], b.schema)]]
    IN  IF \E i \in DOMAIN keys : \E k \in DOMAIN order : Failed(keys[i][k]) THEN NoBatch
        ELSE SortByKeys(b, [k \in DOMAIN order |-> order[k][2]], keys)

\* The texts of a row's values, joined by a bar.
DistinctKey(row) ==
    IF row = <<>> THEN ""
    ELSE FoldLeft(LAMBDA key, s : key \o "|" \o s, TextOf(row)[1], Tail(TextOf(row)))

\* Mutant: a row is compared with the one before it only.
DistinctAdjacent(b) ==
    LET first(i) == i = 1 \/ DistinctKey(b.rows[i - 1]) # DistinctKey(b.rows[i])
        kept == SetToSortSeq({i \in DOMAIN b.rows : first(i)}, <)
    IN  [b EXCEPT !.rows = [i \in DOMAIN kept |-> b.rows[kept[i]]]]

\* The first row of every key.
DistinctBatch(b) ==
    LET first(i) == \A j \in 1..(i - 1) : DistinctKey(b.rows[j]) # DistinctKey(b.rows[i])
        kept == SetToSortSeq({i \in DOMAIN b.rows : first(i)}, <)
    IN  [b EXCEPT !.rows = [i \in DOMAIN kept |-> b.rows[kept[i]]]]

\* Rust's equality, of NULL with NULL too.
RowsMatch(left, right, on, l, r) ==
    \A n \in ToSet(on) : IndexOf(left, n) = 0 \/ IndexOf(right, n) = 0
                         \/ Same(Lookup(left, l, n), Lookup(right, r, n))

JoinBatches(left, right, on, how) ==
    LET kept == SelectSeq(right.schema, LAMBDA f : f[1] \notin ToSet(on))
        pair(l, r) == l \o [k \in DOMAIN kept |-> Lookup(right.schema, r, kept[k][1])]
        matches(l) == SelectSeq(right.rows, LAMBDA r :
                                    RowsMatch(left.schema, right.schema, on, l, r))
        padded(l) == IF matches(l) = <<>> /\ how = "Left"
                     THEN <<l \o [k \in DOMAIN kept |-> Null]>>
                     ELSE [i \in DOMAIN matches(l) |-> pair(l, matches(l)[i])]
    IN  IF how \in {"Right", "Full"} THEN NoBatch
        ELSE FromRecords(left.schema \o kept,
                FlattenSeq([i \in DOMAIN left.rows |-> padded(left.rows[i])]))

-----------------------------------------------------------------------------
(***************************************************************************)
(* The executor: the first input of a plan is run, then its operator is    *)
(* applied.  tables[t] is what a scan of table t returns.                  *)
(***************************************************************************)
RECURSIVE Run(_, _)

\* What an operator makes, under the schema of its plan.
Rebased(plan, r) == IF r.ok THEN FromRecords(plan.schema, r.rows) ELSE NoBatch

\* apply_tree
Apply(plan, b, tables) ==
    CASE plan.op \in {"scan", "empty"} -> IF b.rows = <<>> THEN FromRecords(plan.schema, <<>>) ELSE b
      [] plan.op = "project" -> ProjectBatch(b, plan.exprs, plan.schema)
      [] plan.op = "aggregate" -> AggregateBatch(b, plan.groups, plan.aggs, plan.schema)
      [] plan.op = "filter" -> Rebased(plan, FilterBatch(b, plan.predicate))
      [] plan.op = "sort" -> Rebased(plan, SortBatch(b, plan.order))
      [] plan.op = "limit" -> Rebased(plan, LimitBatch(b, plan.count))
      [] plan.op = "distinct" -> Rebased(plan, DistinctBatch(b))
      [] plan.op = "join" ->
           LET left == Extend(FromRecords(plan.left.schema, <<>>), b)
               right == Run(plan.right, tables)
           IN  IF left.ok /\ right.ok
               THEN Rebased(plan, JoinBatches(left, right, plan.on, plan.how)) ELSE NoBatch
      [] plan.op = "union" ->
           FoldLeft(LAMBDA acc, input : Extend(acc, Run(input, tables)),
                    FromRecords(plan.schema, <<>>), plan.inputs)

\* materialize_input
MaterializeInput(plan, tables) ==
    CASE plan.op = "scan" -> IF plan.table \in DOMAIN tables THEN tables[plan.table] ELSE NoBatch
      [] plan.op = "empty" -> FromRecords(<<>>, <<>>)
      [] OTHER -> Run(Children(plan)[1], tables)

Run(plan, tables) ==
    LET b == MaterializeInput(plan, tables)
    IN  IF b.ok THEN Apply(plan, b, tables) ELSE NoBatch
=============================================================================
