------------------------------- MODULE Arrow -------------------------------
(***************************************************************************)
(* The columnar boundary (crates/rspark-exec: arrow_batch.rs,              *)
(* arrow_ops.rs): a batch is converted to Arrow columns of its declared    *)
(* types, one column-wise operator runs, the result is converted back.     *)
(* An Arrow batch is modelled by its schema and its rows of converted      *)
(* values; the kernels of the arrow crate by what they return.             *)
(***************************************************************************)
EXTENDS RowBatch

CONSTANTS
    ArrowBatches,    \* the batches converted
    ArrowOps    \* the operators: <<"none">>, <<"filter", mask>>, <<"limit", n>>,
                \* <<"sort", column, ascending>>, <<"select", columns>>

VARIABLES batch, op, arrow, back, pc

columns == <<batch, op, arrow, back, pc>>

\* append_value of the builder for a column of this type: what is of another
\* type is cast, and what does not cast becomes FALSE or 0.
AppendValue(type, v) ==
    CASE IsNull(v) -> Null
      [] ~IsNull(v) /\ type = "boolean" -> IF CastToBool(v) = No THEN BoolV(FALSE) ELSE CastToBool(v)
      [] ~IsNull(v) /\ type = "bigint" -> IF CastToI64(v) = No THEN IntV(0) ELSE IntV(CastToI64(v)[2])
      [] ~IsNull(v) /\ type = "double" -> IF CastToF64(v) = No THEN FloatV(0) ELSE FloatOf(CastToF64(v))
      [] OTHER -> StrV(CastToString(v))

\* arrow_from_core: a batch needs a column, and a column of type NULL is
\* built without rows, which must be as many as the other columns have.
ArrowFromCore(b) ==
    LET nulls == {i \in DOMAIN b.schema : b.schema[i][2] = "null"}
    IN  CASE b.schema = <<>> \/ (nulls # {} /\ nulls # DOMAIN b.schema /\ b.rows # <<>>) -> NoBatch
          [] b.schema # <<>> /\ nulls = DOMAIN b.schema -> [b EXCEPT !.rows = <<>>]
          [] OTHER -> [b EXCEPT !.rows = [r \in DOMAIN b.rows |->
                          [i \in DOMAIN b.schema |-> AppendValue(b.schema[i][2], b.rows[r][i])]]]

\* arrow_to_core, with core_schema: the type NULL comes back as a string.
ArrowToCore(a) ==
    FromRecords([i \in DOMAIN a.schema |->
                    IF a.schema[i][2] = "null" THEN <<a.schema[i][1], "string">> ELSE a.schema[i]], a.rows)

\* Mutant: NULL sorts last.
ArrowBeforeNullsLast(asc, a, b) ==
    \/ ~IsNull(a) /\ IsNull(b)
    \/ ~IsNull(a) /\ ~IsNull(b) /\ TryCmp(a, b) = IF asc THEN "Less" ELSE "Greater"

\* The order of sort_to_indices: NULL first in either direction.
ArrowBefore(asc, a, b) ==
    \/ IsNull(a) /\ ~IsNull(b)
    \/ ~IsNull(a) /\ ~IsNull(b) /\ TryCmp(a, b) = IF asc THEN "Less" ELSE "Greater"

\* sort_by_column; rows with equal keys may come in any order.
ArrowSorts(a, column, asc) ==
    {[a EXCEPT !.rows = [r \in DOMAIN a.rows |-> a.rows[p[r]]]] :
        p \in {p \in Permutations(DOMAIN a.rows) : \A q, r \in DOMAIN a.rows :
                  q < r => ~ArrowBefore(asc, a.rows[p[r]][column], a.rows[p[q]][column])}}

\* The results an operator may have.
ArrowResults(a, o) ==
    CASE o[1] = "none" -> {a}
      [] o[1] = "filter" ->
           IF Len(o[2]) # Len(a.rows) THEN {NoBatch}
           ELSE LET kept == SetToSortSeq({r \in DOMAIN a.rows : o[2][r]}, <)
                IN  {[a EXCEPT !.rows = [i \in DOMAIN kept |-> a.rows[kept[i]]]]}
      [] o[1] = "limit" -> {LimitBatch(a, o[2])}
      [] o[1] = "sort" -> IF o[2] > Len(a.schema) THEN {NoBatch} ELSE ArrowSorts(a, o[2], o[3])
      [] o[1] = "select" ->
           IF o[2] = <<>> \/ (\E c \in ToSet(o[2]) : c > Len(a.schema)) THEN {NoBatch}   \* error, panic
           ELSE {[a EXCEPT !.schema = [i \in DOMAIN o[2] |-> a.schema[o[2][i]]],
                           !.rows = [r \in DOMAIN a.rows |->
                                        [i \in DOMAIN o[2] |-> a.rows[r][o[2][i]]]]]}

ArrowInit == batch \in ArrowBatches /\ op \in ArrowOps /\ arrow = NoBatch /\ back = NoBatch /\ pc = "core"

ToArrow ==
    /\ pc = "core" /\ arrow' = ArrowFromCore(batch)
    /\ pc' = IF arrow'.ok THEN "arrow" ELSE "done"
    /\ UNCHANGED <<batch, op, back>>

ArrowOperate ==
    /\ pc = "arrow" /\ arrow' \in ArrowResults(arrow, op)
    /\ pc' = IF arrow'.ok THEN "operated" ELSE "done"
    /\ UNCHANGED <<batch, op, back>>

ToCore ==
    /\ pc = "operated" /\ back' = ArrowToCore(arrow) /\ pc' = "done"
    /\ UNCHANGED <<batch, op, arrow>>

ArrowNext == ToArrow \/ ArrowOperate \/ ToCore

ArrowSpec == ArrowInit /\ [][ArrowNext]_columns

-----------------------------------------------------------------------------
\* The values of a batch have the types its columns declare, none of them NULL.
WellTyped(b) ==
    \A i \in DOMAIN b.schema :
        /\ b.schema[i][2] # "null"
        /\ \A r \in DOMAIN b.rows : b.rows[r][i] = Null \/ b.rows[r][i][1] = b.schema[i][2]

KeyColumn(b, i) == [r \in DOMAIN b.rows |-> b.rows[r][i]]

\* The rows the mask keeps.
Kept(rows, mask) ==
    FlattenSeq([r \in DOMAIN rows |-> IF mask[r] THEN <<rows[r]>> ELSE <<>>])

\* Converted, operated on and converted back, a batch with values of the
\* declared types is what the row-wise operator makes of it; for a sort, the
\* same rows with the keys in the same order, as long as NULL does not meet a
\* descending key.
ArrowAgrees ==
    back.ok /\ WellTyped(batch) =>
        CASE op[1] = "none" -> back = batch
          [] op[1] = "limit" -> back = LimitBatch(batch, op[2])
          [] op[1] = "filter" -> back.rows = Kept(batch.rows, op[2])
          [] op[1] = "select" -> \A i \in DOMAIN op[2] : KeyColumn(back, i) = KeyColumn(batch, op[2][i])
          [] op[1] = "sort" ->
               /\ \A row \in ToSet(batch.rows) \cup ToSet(back.rows) :
                     Cardinality({r \in DOMAIN batch.rows : batch.rows[r] = row})
                        = Cardinality({r \in DOMAIN back.rows : back.rows[r] = row})
               /\ (op[3] \/ Null \notin ToSet(KeyColumn(batch, op[2]))) =>
                     KeyColumn(back, op[2])
                        = KeyColumn(SortByKeys(batch, <<op[3]>>,
                                    [r \in DOMAIN batch.rows |-> <<batch.rows[r][op[2]]>>]), op[2])
=============================================================================
