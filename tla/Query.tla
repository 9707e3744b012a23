------------------------------- MODULE Query -------------------------------
(***************************************************************************)
(* One SQL request, planned and executed on one machine, against what the  *)
(* SQL surface promises (docs/sql-surface.md); the promise is defined here *)
(* from the syntax tree alone, without plans.                              *)
(***************************************************************************)
EXTENDS Execution

CONSTANT
    Asked       \* records [queries, catalogs]: each query is asked of each catalog

VARIABLES
    query,      \* the query's syntax tree
    tables,     \* tables[t]: the batch a scan of t returns
    plan,       \* the logical plan, or NoPlan
    answer,     \* the batch answered, or NoBatch
    pc          \* "asked", "planned", "done"

vars == <<query, tables, plan, answer, pc>>

Init ==
    /\ \E a \in Asked : query \in a.queries /\ tables \in a.catalogs
    /\ plan = NoPlan /\ answer = NoBatch /\ pc = "asked"

\* plan_sql; without a plan the request has failed.
Plan ==
    /\ pc = "asked"
    /\ plan' = PlanSql(<< <<"query", query>> >>, [t \in DOMAIN tables |-> tables[t].schema])
    /\ pc' = IF Planned(plan') THEN "planned" ELSE "done"
    /\ UNCHANGED <<query, tables, answer>>

\* LocalExecutor::execute
Execute ==
    /\ pc = "planned"
    /\ answer' = Run(plan, tables)
    /\ pc' = "done"
    /\ UNCHANGED <<query, tables, plan>>

Next == Plan \/ Execute

Spec == Init /\ [][Next]_vars

-----------------------------------------------------------------------------
(***************************************************************************)
(* What a query promises.  Ref(s, G, env) is the value of expression s     *)
(* over the nonempty set G of row numbers: an aggregate ranges over G, a   *)
(* column has its value in any of them.  An operator applied to NULL is    *)
(* NULL.  Integers are those of Width bits, and the least of them has no   *)
(* remainder by -1.  An integer is less or greater than a float as numbers *)
(* are, but never equal to one.                                            *)
(***************************************************************************)
Number(v) ==
    CASE v[1] = "bigint" -> Unit * v[2] [] v[1] = "double" -> v[2]
      [] v[1] = "string" -> Place(v[2]) [] v[1] = "boolean" -> IF v[2] THEN 1 ELSE 0

\* The integer of Width bits that is congruent to x.
Congruent(x) == CHOOSE n \in IntMin..IntMax : (n - x) % (2 ^ Width) = 0

Exactly(a, b, x) ==
    IF a[1] = "bigint" /\ b[1] = "bigint" THEN IntV(Congruent(x \div Unit)) ELSE FloatV(x)

Magnitude(x) == IF x < 0 THEN -x ELSE x

Remainder(x, y) ==
    CASE y = 0 -> Null
      [] x = IntMin /\ y = -1 -> Err
      [] OTHER -> IntV(CHOOSE r \in IntMin..IntMax :
                          /\ Magnitude(r) < Magnitude(y) /\ x * r >= 0
                          /\ \E q \in IntMin..IntMax : x = q * y + r)

Compared(op, x, y) ==
    CASE op = "Eq" -> x = y [] op = "NotEq" -> x # y [] op = "Lt" -> x < y
      [] op = "LtEq" -> x <= y [] op = "Gt" -> x > y [] op = "GtEq" -> x >= y

\* An operator on operands that are not NULL.
RefApplied(op, a, b) ==
    CASE op = "And" -> BoolV(a[2] /\ b[2])
      [] op = "Or" -> BoolV(a[2] \/ b[2])
      [] op = "Add" -> Exactly(a, b, Number(a) + Number(b))
      [] op = "Sub" -> Exactly(a, b, Number(a) - Number(b))
      [] op = "Mul" -> Exactly(a, b, Quot(Number(a) * Number(b), Unit))
      [] op = "Div" -> IF Number(b) = 0 THEN Null ELSE FloatV(Quot(Number(a) * Unit, Number(b)))
      [] op = "Mod" -> Remainder(a[2], b[2])
      [] op \in {"Eq", "NotEq"} /\ a[1] # b[1] -> BoolV(op = "NotEq")
      [] OTHER -> BoolV(Compared(op, Number(a), Number(b)))

RefOp(op, a, b) ==
    IF a = Err \/ b = Err THEN Err ELSE IF IsNull(a) \/ IsNull(b) THEN Null ELSE RefApplied(op, a, b)

RefAggregate(f, args) ==
    LET given == {g \in DOMAIN args : ~IsNull(args[g])}
        total == MapThenSumSet(LAMBDA g : Number(args[g]), given)
        best == CHOOSE g \in given : \A h \in given :
                    IF f = "min" THEN Number(args[g]) <= Number(args[h])
                                 ELSE Number(args[g]) >= Number(args[h])
    IN  CASE f = "count" -> IntV(Cardinality(given))
          [] f = "sum" -> FloatV(total)
          [] f = "avg" /\ given # {} -> FloatV(Quot(total, Cardinality(given)))
          [] f \in {"min", "max"} /\ given # {} -> args[best]
          [] OTHER -> Null

RECURSIVE Ref(_, _, _)
Ref(s, G, env) ==
    LET sub(i) == Ref(s[i], G, env)
        negated(v) == IF s[2] /\ ~IsNull(v) THEN BoolV(~v[2]) ELSE v
    IN
    CASE s[1] = "id" -> env[CHOOSE g \in G : TRUE][s[2]]
      [] s[1] = "val" -> s[2]
      [] s[1] = "star" -> IntV(1)
      [] s[1] = "op" -> RefOp(s[2], sub(3), sub(4))
      [] s[1] = "not" -> IF IsNull(sub(2)) THEN Null ELSE BoolV(~sub(2)[2])
      [] s[1] = "neg" -> RefOp("Sub", IntV(0), sub(2))
      [] s[1] = "isnull" -> BoolV(IsNull(sub(2)))
      [] s[1] = "isnotnull" -> BoolV(~IsNull(sub(2)))
      [] s[1] = "like" -> negated(IF IsNull(sub(3)) THEN Null ELSE BoolV(Matches(sub(3)[2], sub(4)[2])))
      [] s[1] = "between" -> negated(RefOp("And", RefOp("LtEq", sub(4), sub(3)),
                                                  RefOp("LtEq", sub(3), sub(5))))
      [] s[1] = "in" -> negated(IF IsNull(sub(3)) THEN Null
                                ELSE BoolV(\E i \in DOMAIN s[4] : sub(3) = Ref(s[4][i], G, env)))
      [] s[1] = "cast" -> sub(2)
      [] s[1] = "fn" /\ s[2] \in AggregateFns ->
           RefAggregate(s[2], [g \in G |-> Ref(s[3][1], {g}, env)])
      [] s[1] = "fn" /\ s[2] = "coalesce" ->
           LET given == {i \in DOMAIN s[3] : ~IsNull(Ref(s[3][i], G, env))}
           IN  IF given = {} THEN Null
               ELSE Ref(s[3][CHOOSE i \in given : \A j \in given : i <= j], G, env)

-----------------------------------------------------------------------------
(***************************************************************************)
(* The rows promised, in any order: the combinations of one row of each    *)
(* table that agree on the columns of the same name and satisfy WHERE,     *)
(* grouped if the query groups, those kept that satisfy HAVING.            *)
(***************************************************************************)
\* The tables of the FROM clause, in order; rels below is such a sequence.
Relations(sel) ==
    LET from == FromTables(sel.from) IN [k \in DOMAIN from |-> tables[from[k][2]]]

ColumnNames(table) == [i \in DOMAIN table.schema |-> table.schema[i][1][1]]

AllColumns(rels) ==
    FlattenSeq([k \in DOMAIN rels |->
        SelectSeq(ColumnNames(rels[k]), LAMBDA c : \A j \in 1..(k - 1) : c \notin ToSet(ColumnNames(rels[j])))])

Cell(table, r, c) == Lookup(table.schema, table.rows[r], <<c>>)

Combinations(rels) ==
    {ix \in [DOMAIN rels -> UNION {DOMAIN rels[k].rows : k \in DOMAIN rels}] :
        /\ \A k \in DOMAIN rels : ix[k] \in DOMAIN rels[k].rows
        /\ \A j, k \in DOMAIN rels :
              \A c \in ToSet(ColumnNames(rels[j])) \cap ToSet(ColumnNames(rels[k])) :
                  j < k => RefOp("Eq", Cell(rels[j], ix[j], c), Cell(rels[k], ix[k], c)) = BoolV(TRUE)}

\* env[ix][c]: the value of column c in combination ix, from the first table that has c.
Env(rels) ==
    [ix \in Combinations(rels) |->
        [c \in ToSet(AllColumns(rels)) |->
            LET k == CHOOSE k \in DOMAIN rels : c \in ToSet(ColumnNames(rels[k]))
            IN  Cell(rels[k], ix[k], c)]]

\* The operands of a syntax tree, those of an aggregate excepted.
Operands(s) ==
    CASE s[1] = "op" -> <<s[3], s[4]>>
      [] s[1] \in {"not", "neg", "isnull", "isnotnull", "cast"} -> <<s[2]>>
      [] s[1] = "between" -> <<s[3], s[4], s[5]>>
      [] s[1] = "in" -> <<s[3]>> \o s[4]
      [] s[1] = "fn" /\ s[2] \notin AggregateFns -> s[3]
      [] OTHER -> <<>>

IsAggregate(s) == s[1] = "fn" /\ s[2] \in AggregateFns

RECURSIVE Aggregates(_), Columns(_)
Aggregates(s) == IsAggregate(s) \/ \E i \in DOMAIN Operands(s) : Aggregates(Operands(s)[i])
Columns(s) ==
    IF s[1] = "id" THEN {s[2]} ELSE UNION {Columns(Operands(s)[i]) : i \in DOMAIN Operands(s)}

ItemAggregates(item) == item[1] \in {"item", "as"} /\ Aggregates(item[2])

Grouping(sel) == sel.group # <<"by", <<>>>> \/ \E i \in DOMAIN sel.items : ItemAggregates(sel.items[i])

Keeps(condition, G, env) == condition = No \/ Ref(condition, G, env) = BoolV(TRUE)

GroupKey(sel, ix, env) == [i \in DOMAIN sel.group[2] |-> Ref(sel.group[2][i], {ix}, env)]

\* By: what GROUP BY tells groups apart by.
GroupedBy(By(_), sel, kept, env) ==
    IF Grouping(sel)
    THEN {{iy \in kept : By(GroupKey(sel, iy, env)) = By(GroupKey(sel, ix, env))} : ix \in kept}
    ELSE {{ix} : ix \in kept}

Itself(values) == values

Kept(sel, env) == {ix \in DOMAIN env : Keeps(sel.where, {ix}, env)}

OutputRow(sel, columns, G, env) ==
    FlattenSeq([i \in DOMAIN sel.items |->
        IF sel.items[i][1] = "wild" THEN [j \in DOMAIN columns |-> Ref(<<"id", columns[j]>>, G, env)]
        ELSE <<Ref(sel.items[i][2], G, env)>>])

OutputRows(sel, columns, groups, env) ==
    [i \in DOMAIN groups |-> OutputRow(sel, columns, groups[i], env)]

RowsBy(By(_), sel) ==
    LET env == Env(Relations(sel))
        groups == {g \in GroupedBy(By, sel, Kept(sel, env), env) : Keeps(sel.having, g, env)}
    IN  OutputRows(sel, AllColumns(Relations(sel)), SetToSeq(groups), env)

SelectRows(sel) ==
    LET rows == RowsBy(Itself, sel) IN IF sel.distinct THEN SetToSeq(ToSet(rows)) ELSE rows

RECURSIVE PromisedRows(_)
PromisedRows(body) ==
    CASE body[1] = "select" -> SelectRows(body[2])
      [] body[1] = "union" -> PromisedRows(body[2]) \o PromisedRows(body[3])

-----------------------------------------------------------------------------
Times(row, rows) == Cardinality({i \in DOMAIN rows : rows[i] = row})

\* The value of an order key, an output column, in a row of the answer.
KeyOf(row, key) == row[IndexOf(plan.schema, <<key[1][2]>>)]

\* The order of two keys: NULL first.
KeyPrecedes(x, y) == IsNull(x) \/ (~IsNull(y) /\ Number(x) < Number(y))

\* Row a must come before row b.
Precedes(a, b) ==
    \E i \in DOMAIN query.order :
        LET x == KeyOf(a, query.order[i]) y == KeyOf(b, query.order[i])
        IN  /\ x # y /\ (IF query.order[i][2] THEN KeyPrecedes(x, y) ELSE KeyPrecedes(y, x))
            /\ \A j \in 1..(i - 1) : KeyOf(a, query.order[j]) = KeyOf(b, query.order[j])

\* The rows are the promised ones as often as promised, in the order asked
\* for, or as many of the first of them as LIMIT allows.
AreAnswer(rows, promised) ==
    LET few == query.limit # No /\ query.limit[2][2] < Len(promised)
    IN  /\ Len(rows) = IF few THEN query.limit[2][2] ELSE Len(promised)
        /\ \A r \in ToSet(rows) : Times(r, rows) <= Times(r, promised)
        /\ \A i, j \in DOMAIN rows : i < j => ~Precedes(rows[j], rows[i])
        /\ few => \A r \in ToSet(promised) : Times(r, rows) < Times(r, promised) =>
                     \A i \in DOMAIN rows : ~Precedes(r, rows[i])

\* A promised row without a value fails the request.
Answers ==
    LET promised == PromisedRows(query.body)
    IN  IF \E r \in ToSet(promised) : Err \in ToSet(r) THEN ~answer.ok
        ELSE answer.ok /\ AreAnswer(answer.rows, promised)

Selects == IF query.body[1] = "union" THEN {query.body[2][2], query.body[3][2]} ELSE {query.body[2]}

Grouped == \E sel \in Selects : Grouping(sel)

-----------------------------------------------------------------------------
(***************************************************************************)
(* Where the engine keeps less than the promise.  Rows and groups are told *)
(* apart by the texts of their values.  The operators above an aggregation *)
(* find an aggregate in the columns it leaves only at the top of a selected*)
(* expression, and in HAVING only below comparisons, AND and OR; and of    *)
(* the columns before it, only those that are grouping columns themselves. *)
(***************************************************************************)
\* The texts that rows and groups are told apart by.
RowText(sel, row) == IF sel.distinct /\ ~Grouping(sel) THEN DistinctKey(row) ELSE TextOf(row)

\* Two rows or groups that are not the same but have the same text.
Confused(sel) ==
    LET env == Env(Relations(sel))
        keys == IF Grouping(sel) THEN {GroupKey(sel, ix, env) : ix \in Kept(sel, env)}
                ELSE IF sel.distinct THEN ToSet(RowsBy(Itself, sel)) ELSE {}
    IN  \E k, l \in keys : k # l /\ RowText(sel, k) = RowText(sel, l)

RECURSIVE InReach(_)
InReach(s) ==
    \/ ~Aggregates(s) \/ IsAggregate(s)
    \/ /\ \/ s[1] = "op" /\ s[2] \in {"Eq", "NotEq", "Lt", "LtEq", "Gt", "GtEq", "And", "Or"}
          \/ s[1] \in {"between", "in"} /\ ~s[2]
       /\ \A i \in DOMAIN Operands(s) : InReach(Operands(s)[i])

GroupColumns(sel) == {s[2] : s \in {e \in ToSet(sel.group[2]) : e[1] = "id"}}

OutOfReach(sel) ==
    \/ sel.having # No /\ ~InReach(sel.having)
    \/ \E i \in DOMAIN sel.items :
          LET e == sel.items[i][2]
          IN  ~IsAggregate(e) /\ (Aggregates(e) \/ ~(Columns(e) \subseteq GroupColumns(sel)))

Groups(sel) ==
    LET env == Env(Relations(sel)) IN GroupedBy(Itself, sel, Kept(sel, env), env)

-----------------------------------------------------------------------------
\* A query without groups answers exactly the rows it selects: projection,
\* WHERE, joins on columns of the same name, DISTINCT, UNION, ORDER BY and
\* LIMIT together, whichever operators the planner stacks, and arithmetic
\* beyond the limits of the integers.
RowsAnswer ==
    pc = "done" /\ ~Grouped /\ (\A sel \in Selects : ~Confused(sel)) => Answers

\* A query with groups answers one row for each group of the selected rows,
\* with the aggregates over its members, restricted by HAVING.  One that is
\* out of the executor's reach fails, unless there is no group at all.
GroupsAnswer ==
    pc = "done" /\ Grouped /\ (\A sel \in Selects : ~Confused(sel)) =>
        IF \E sel \in Selects : OutOfReach(sel)
        THEN answer.ok <=> \A sel \in Selects : OutOfReach(sel) => Groups(sel) = {}
        ELSE Answers

\* Of rows that are not the same but have the same text, such as NULL and 'null',
\* DISTINCT and GROUP BY make one and lose no other: each text that was selected
\* is answered once, with the aggregates over all rows that share it.
SameTextsMeet ==
    \A sel \in Selects :
        LET rows == RowsBy(TextOf, sel)
            promised == [i \in DOMAIN rows |-> RowText(sel, rows[i])]
            told == [i \in DOMAIN answer.rows |-> RowText(sel, answer.rows[i])]
        IN  pc = "done" /\ Confused(sel) =>
                answer.ok /\ ToSet(told) = ToSet(promised) /\ IsInjective(told)

\* The query is grouped by an expression that it selects, as the documentation
\* allows, and is answered (group_exprs of plan_select, project_record).
GroupExpressionsAnswer ==
    \A sel \in Selects :
        LET expressions == {s \in ToSet(sel.group[2]) : s[1] # "id"}
            selected == {sel.items[i][2] : i \in DOMAIN sel.items}
        IN  pc = "done" /\ expressions \cap selected # {} => Answers
=============================================================================
