------------------------------ MODULE RowBatch ------------------------------
(***************************************************************************)
(* Batches (crates/rspark-core: record.rs) and the operators on them that  *)
(* evaluate no expression (crates/rspark-exec: operators.rs).  A row is a  *)
(* sequence of values, a batch a schema and rows.                          *)
(***************************************************************************)
EXTENDS Values

\* The outcome of an operator that returned an error or panicked.
NoBatch == [ok |-> FALSE]

\* RecordBatch::from_records, which validates every row.
FromRecords(schema, rows) ==
    IF \A i \in DOMAIN rows :
          Len(rows[i]) = Len(schema) /\ \A j \in DOMAIN rows[i] : ~Failed(rows[i][j])
    THEN [ok |-> TRUE, schema |-> schema, rows |-> rows] ELSE NoBatch

\* RecordBatch::extend
Extend(batch, other) ==
    IF batch.ok /\ other.ok /\ batch.schema = other.schema
    THEN [batch EXCEPT !.rows = @ \o other.rows] ELSE NoBatch

FloatOf(x) == IF x = NaN THEN NaN ELSE FloatV(x[2])

Reversed(c) == CASE c = "Less" -> "Greater" [] c = "Greater" -> "Less" [] OTHER -> "Equal"

\* The comparison of two rows by their keys; what does not compare is equal.
CompareKeys(asc, a, b) ==
    LET cmp(i) == LET c == TryCmp(a[i], b[i])
                  IN  IF asc[i] THEN (IF c = "Err" THEN "Equal" ELSE c) ELSE Reversed(c)
        differ == {i \in DOMAIN asc : cmp(i) # "Equal"}
    IN  IF differ = {} THEN "Equal" ELSE cmp(CHOOSE i \in differ : \A j \in differ : i <= j)

\* The stable sort, on the values of the keys; asc[k]: key k ascends.
SortByKeys(b, asc, keys) ==
    LET before(i, j) == \/ CompareKeys(asc, keys[i], keys[j]) = "Less"
                        \/ CompareKeys(asc, keys[i], keys[j]) = "Equal" /\ i < j
        places == SetToSortSeq(DOMAIN b.rows, before)
    IN  [b EXCEPT !.rows = [i \in DOMAIN b.rows |-> b.rows[places[i]]]]

LimitBatch(b, count) ==
    [b EXCEPT !.rows = SubSeq(@, 1, IF count < Len(@) THEN count ELSE Len(@))]
=============================================================================
