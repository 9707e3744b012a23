----------------------------- MODULE MCStorage -----------------------------
(***************************************************************************)
(* Batches at the borders of the engine: a behaviour is one of Storage, in *)
(* which batches go through files, or one of Arrow, in which a batch goes  *)
(* through columns.                                                        *)
(***************************************************************************)
EXTENDS Storage, Arrow

FilesOnly == Init /\ batch = NoBatch /\ op = <<"none">> /\ arrow = NoBatch
                  /\ back = NoBatch /\ pc = "done"

ColumnsOnly == /\ file = NoFile /\ written = NoRows /\ schema = NoSchema /\ fresh = FALSE
               /\ result = NoRows /\ writes = MaxWrites
               /\ ArrowInit

MCInit == FilesOnly \/ ColumnsOnly

MCNext == \/ Next /\ UNCHANGED columns
          \/ ArrowNext /\ UNCHANGED vars

MCSpec == MCInit /\ [][MCNext]_<<vars, columns>>

-----------------------------------------------------------------------------
MCText == <<"", " x", "0", "0.5", "1", "1.5", "2", "NULL", "NaN", "a", "b", "false", "none", "null", "true",
            "x", "y">>
MCIntText == ("0" :> 0) @@ ("1" :> 1) @@ ("2" :> 2)
MCFloatText == [s \in DOMAIN MCIntText \cup {"0.5", "1.5"} |->
    IF s = "0.5" THEN 1 ELSE IF s = "1.5" THEN 3 ELSE 2 * MCIntText[s]]
MCBoolText == ("true" :> TRUE) @@ ("1" :> TRUE) @@ ("false" :> FALSE) @@ ("0" :> FALSE)
MCMatches(s, p) == s = p
MCLower(s) == IF s = "NULL" THEN "null" ELSE IF s = "NaN" THEN "nan" ELSE s
MCTrim(s) == IF s = " x" THEN "x" ELSE s

\* Files: two columns and at most two rows over values of every type, with the
\* strings that readers take for others.  One column of any two values, next to
\* a column of its row numbers, in either order; one column; no rows.
Cells == {Null, BoolV(TRUE), IntV(1), IntV(2), FloatV(1), FloatV(2), NaN, StrV("x"), StrV(" x"), StrV("1"),
          StrV("none"), StrV("NULL"), StrV("NaN")}
Fields(names) == [i \in DOMAIN names |-> <<names[i], "string">>]
BatchOf(names, rows) == [ok |-> TRUE, schema |-> Fields(names), rows |-> rows]

MCBatches ==
    {BatchOf(<<"a", "b">>, << <<x, IntV(1)>>, <<y, IntV(2)>> >>) : x, y \in Cells}
    \cup {BatchOf(<<"b", "a">>, << <<IntV(1), x>>, <<IntV(2), x>> >>) : x \in Cells}
    \cup {BatchOf(<<n>>, << <<x>> >>) : n \in {"a", "b"}, x \in Cells}
    \cup {BatchOf(<<"a", "a">>, << <<IntV(1), x>> >>) : x \in Cells}
    \cup {BatchOf(<<"a", "b">>, <<>>)}

\* Arrow: a column of any declared type next to a column of row numbers, with
\* up to three rows, a lone column of type NULL and no column at all.
ArrowCells == {Null, BoolV(TRUE), BoolV(FALSE), IntV(1), IntV(2), FloatV(1), FloatV(2), StrV("x"), StrV("y")}
Typed(type, values) ==
    FromRecords(<<<<<<"k">>, type>>, <<<<"r">>, "bigint">>>>,
                        [i \in DOMAIN values |-> <<values[i], IntV(i)>>])
MCArrowBatches ==
    {Typed(type, values) : type \in {"boolean", "bigint", "double", "string", "null"},
                           values \in UNION {[1..n -> ArrowCells] : n \in 0..3}}
    \cup {FromRecords(<<<<<<"k">>, "null">>>>, [i \in 1..n |-> <<Null>>]) : n \in 0..3}
    \cup {FromRecords(<<>>, <<>>)}
MCOps == {<<"none">>, <<"filter", <<TRUE, FALSE, TRUE>>>>, <<"filter", <<FALSE, TRUE>>>>, <<"limit", 2>>,
          <<"select", <<2>>>>, <<"select", <<2, 1>>>>, <<"select", <<>>>>}
         \cup {<<"sort", column, asc>> : column \in {1, 3}, asc \in BOOLEAN}
=============================================================================
