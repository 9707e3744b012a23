------------------------------- MODULE Plans -------------------------------
(***************************************************************************)
(* The planner (crates/rspark-sql: planner.rs, plan.rs and the FROM part   *)
(* of expr_builder.rs): from a statement's syntax tree and the schemas of  *)
(* the catalog to a logical plan.  A plan is a record with its operator,   *)
(* inputs and output schema.                                               *)
(*                                                                         *)
(* catalog[t] is the schema of table t.  The two separate reads of the     *)
(* catalog for each table are modelled in Catalog.                         *)
(***************************************************************************)
EXTENDS Exprs

NoPlan == [op |-> "error"]
Empty == [op |-> "empty", schema |-> <<>>]

Planned(p) == p.op # "error"

\* A plan over an input that may have failed.
Over(input, p) == IF Planned(input) THEN p ELSE NoPlan

-----------------------------------------------------------------------------
(***************************************************************************)
(* Schemas.                                                                *)
(***************************************************************************)
FieldOf(e) == <<DisplayName(e), InferDataType(e)>>
Fields(es) == [i \in DOMAIN es |-> FieldOf(es[i])]

\* build_project_schema
ProjectSchema(exprs, input) ==
    FlattenSeq([i \in DOMAIN exprs |-> IF exprs[i] = Star THEN input ELSE <<FieldOf(exprs[i])>>])

\* The names that both sides of a join have, in the order of the left side.
JoinPairs(left, right) ==
    SelectSeq([i \in DOMAIN left |-> left[i][1]], LAMBDA n : IndexOf(right, n) # 0)

JoinSchema(left, right, on) == left \o SelectSeq(right, LAMBDA f : f[1] \notin ToSet(on))

-----------------------------------------------------------------------------
(***************************************************************************)
(* FROM: every table and every joined table in order.  The kind and the ON *)
(* of a join are not looked at.                                            *)
(***************************************************************************)
FromTables(from) ==
    FlattenSeq([i \in DOMAIN from |->
        <<from[i].relation>> \o [j \in DOMAIN from[i].joins |-> from[i].joins[j].relation]])

TableScan(name, catalog) ==
    IF name \in DOMAIN catalog
    THEN [op |-> "scan", table |-> name, schema |-> catalog[name]] ELSE NoPlan

Joined(left, right) ==
    IF ~Planned(left) \/ ~Planned(right) THEN NoPlan
    ELSE LET on == JoinPairs(left.schema, right.schema)
         IN  [op |-> "join", left |-> left, right |-> right, on |-> on, how |-> "Inner",
              schema |-> JoinSchema(left.schema, right.schema, on)]

\* A table factor that is not a table (a subquery, say) is an error.
FromClause(from, catalog) ==
    LET tables == FromTables(from)
        scan(t) == IF t[1] = "table" THEN TableScan(t[2], catalog) ELSE NoPlan
    IN  IF tables = <<>> THEN Empty
        ELSE FoldLeft(LAMBDA plan, t : Joined(plan, scan(t)), scan(tables[1]), Tail(tables))

-----------------------------------------------------------------------------
(***************************************************************************)
(* HAVING: the expressions of the select list replace their occurrences,   *)
(* so that a name of the output is looked up.                              *)
(***************************************************************************)
RECURSIVE StrictlyMatches(_, _)
StrictlyMatches(a, b) ==
    CASE a[1] = "agg" /\ b[1] = "agg" ->
           a[2] = b[2] /\ a[4] = b[4] /\ StrictlyMatches(a[3], b[3])
      [] a[1] \in {"col", "lit"} /\ b[1] = a[1] -> a[2] = b[2] /\ a # Lit(NaN)
      [] a[1] = "bin" /\ b[1] = "bin" ->
           a[2] = b[2] /\ StrictlyMatches(a[3], b[3]) /\ StrictlyMatches(a[4], b[4])
      [] a[1] = "alias" -> StrictlyMatches(a[2], b)
      [] b[1] = "alias" /\ a[1] # "alias" -> StrictlyMatches(a, b[2])
      [] OTHER -> FALSE

\* Mutant: HAVING keeps its own expressions.
RewriteHavingNot(e, projections) == e

RECURSIVE RewriteHaving(_, _)
RewriteHaving(e, projections) ==
    LET found == SelectSeq(projections, LAMBDA p : StrictlyMatches(p, e))
    IN  CASE found # <<>> -> found[1]
          [] found = <<>> /\ e[1] = "bin" ->
               Bin(e[2], RewriteHaving(e[3], projections), RewriteHaving(e[4], projections))
          [] found = <<>> /\ e[1] \in {"not", "isnull", "isnotnull"} ->
               <<e[1], RewriteHaving(e[2], projections)>>
          [] OTHER -> e

-----------------------------------------------------------------------------
(***************************************************************************)
(* SELECT.                                                                 *)
(***************************************************************************)
\* A wildcard stands for every column, whichever table qualifies it.
SelectExpressions(items) ==
    [i \in DOMAIN items |->
        CASE items[i][1] = "item" -> BuildExpr(items[i][2])
          [] items[i][1] = "as" -> LET e == BuildExpr(items[i][2])
                                   IN  Lifted(<<e>>, Aliased(e, items[i][3]))
          [] OTHER -> Star]

\* GROUP BY ALL has no expressions.
GroupExprs(group) ==
    IF group[1] = "by" THEN [i \in DOMAIN group[2] |-> BuildExpr(group[2][i])] ELSE <<>>

Filter(input, predicate) ==
    IF ~Planned(input) \/ Failed(predicate) THEN NoPlan
    ELSE [op |-> "filter", input |-> input, predicate |-> predicate, schema |-> input.schema]

Project(input, exprs) ==
    Over(input, [op |-> "project", input |-> input, exprs |-> exprs,
                 schema |-> ProjectSchema(exprs, input.schema)])

Aggregate(input, groups, aggs) ==
    Over(input, [op |-> "aggregate", input |-> input, groups |-> groups, aggs |-> aggs,
                 schema |-> Fields(groups \o aggs)])

Distinct(input) == Over(input, [op |-> "distinct", input |-> input, schema |-> input.schema])

Where(plan, select) ==
    IF select.where = No THEN plan ELSE Filter(plan, BuildExpr(select.where))

Having(grouped, select, projections) ==
    LET h == BuildExpr(select.having)
    IN  IF select.having = No THEN grouped
        ELSE Filter(grouped, Lifted(<<h>>, RewriteHaving(h, projections)))

\* DISTINCT counts only without aggregation, HAVING only with it.
PlanSelect(select, catalog) ==
    LET from == Where(FromClause(select.from, catalog), select)
        projections == SelectExpressions(select.items)
        groups == GroupExprs(select.group)
        aggs == SelectSeq(projections, ContainsAggregate)
    IN  IF \E i \in DOMAIN (projections \o groups) : Failed((projections \o groups)[i]) THEN NoPlan
        ELSE IF aggs # <<>> \/ groups # <<>>
        THEN Having(Project(Aggregate(from, groups, aggs), projections), select, projections)
        ELSE IF select.distinct THEN Distinct(Project(from, projections))
        ELSE Project(from, projections)

-----------------------------------------------------------------------------
(***************************************************************************)
(* Queries and statements.                                                 *)
(***************************************************************************)
\* A sort key is a pair of an Expr and whether it is ascending.
Sorted(plan, order) ==
    LET keys == [i \in DOMAIN order |-> <<BuildExpr(order[i][1]), order[i][2]>>]
    IN  IF order = <<>> THEN plan
        ELSE IF \E i \in DOMAIN keys : Failed(keys[i][1]) THEN NoPlan
        ELSE Over(plan, [op |-> "sort", input |-> plan, order |-> keys, schema |-> plan.schema])

\* eval_limit: a number literal that is an integer and not negative.
Limited(plan, limit) ==
    CASE limit = No -> plan
      [] limit[1] = "val" /\ limit[2][1] = "bigint" ->
           IF limit[2][2] < 0 THEN NoPlan
           ELSE Over(plan, [op |-> "limit", input |-> plan, count |-> limit[2][2],
                            schema |-> plan.schema])
      [] OTHER -> NoPlan

RECURSIVE PlanQuery(_, _), PlanSetExpr(_, _)
\* ALL and DISTINCT of a UNION are not told apart.
PlanSetExpr(body, catalog) ==
    CASE body[1] = "select" -> PlanSelect(body[2], catalog)
      [] body[1] = "query" -> PlanQuery(body[2], catalog)
      [] body[1] = "union" ->
           LET l == PlanSetExpr(body[2], catalog) r == PlanSetExpr(body[3], catalog)
           IN  Over(l, Over(r, [op |-> "union", inputs |-> <<l, r>>, schema |-> l.schema]))
      [] OTHER -> NoPlan

PlanQuery(q, catalog) ==
    IF q.with THEN NoPlan
    ELSE Limited(Sorted(PlanSetExpr(q.body, catalog), q.order), q.limit)

\* EXPLAIN projects the printed plan over the rows of the explained query.
RECURSIVE PlanStatement(_, _)
PlanStatement(stmt, catalog) ==
    CASE stmt[1] = "query" -> PlanQuery(stmt[2], catalog)
      [] stmt[1] = "explain" ->
           LET inner == PlanStatement(stmt[2], catalog)
           IN  Over(inner, [op |-> "project", input |-> inner, exprs |-> <<Lit(StrV("plan"))>>,
                            schema |-> << <<<<"plan">>, "string">> >>])
      [] stmt[1] \in {"showtables", "use"} -> Empty
      [] OTHER -> NoPlan

\* Every statement is planned, the last plan counts.
PlanSql(stmts, catalog) ==
    LET plans == [i \in DOMAIN stmts |-> PlanStatement(stmts[i], catalog)]
    IN  IF stmts = <<>> \/ \E i \in DOMAIN plans : ~Planned(plans[i]) THEN NoPlan
        ELSE Last(plans)

\* The inputs of a plan, in order.
Children(plan) ==
    CASE plan.op \in {"project", "filter", "aggregate", "sort", "limit", "distinct"} -> <<plan.input>>
      [] plan.op = "join" -> <<plan.left, plan.right>>
      [] plan.op = "union" -> plan.inputs
      [] OTHER -> <<>>
=============================================================================
