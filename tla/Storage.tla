------------------------------ MODULE Storage ------------------------------
(***************************************************************************)
(* Table files (crates/rspark-storage: csv_source.rs, json_source.rs,      *)
(* writer.rs, and the objects of s3_source.rs and s3_writer.rs, which hold *)
(* the same bytes).  A batch is written, the schema of a table is inferred *)
(* once from what the file holds at the time, and scans use that schema    *)
(* whatever the file holds by then.                                        *)
(*                                                                         *)
(* A CSV file is a header and rows of texts, a JSON file rows of values by *)
(* name.  JSON numbers keep whether they were written as integers.         *)
(***************************************************************************)
EXTENDS Values

CONSTANTS
    Batches,    \* the batches written: a schema and rows each
    Trim(_),    \* Trim(s): string s without the blanks around it
    Lower(_),   \* Lower(s): string s in lower case
    MaxWrites   \* bound on the writes of a behaviour

\* A value of a batch, which has its contents by its type.
Stored == {Null, NaN} \cup ({"boolean"} \X BOOLEAN) \cup ({"bigint", "double"} \X Int)
          \cup ({"string"} \X STRING)

(***************************************************************************)
(* A batch has a value for every field of every row, names that are        *)
(* strings, and numbers whose text is read as the same number.  No blanks  *)
(* are around a number, and words are no numbers.                          *)
(***************************************************************************)
ASSUME StorageAssumption ==
    /\ \A b \in Batches :
          /\ b.schema \in Seq(STRING \X STRING) /\ b.schema # <<>>
          /\ \A i \in DOMAIN b.schema : b.schema[i][1] \in ToSet(Text)
          /\ b.rows \in Seq(Seq(Stored))
          /\ \A r \in DOMAIN b.rows :
                /\ Len(b.rows[r]) = Len(b.schema)
                /\ \A i \in DOMAIN b.rows[r] :
                      LET v == b.rows[r][i]
                      IN  /\ v[1] = "bigint" => /\ CastToString(v) \in DOMAIN IntText
                                                /\ IntText[CastToString(v)] = v[2]
                          /\ v[1] = "double" => /\ CastToString(v) \in DOMAIN FloatText
                                                /\ FloatText[CastToString(v)] = v[2]
    /\ \A s \in DOMAIN FloatText \cup NaNText :
          Trim(s) = s /\ Lower(s) \notin {"", "null", "none", "true", "false"}
    /\ \A s \in {"", "true", "false"} : Trim(s) = s /\ Lower(s) = s
    /\ "true" \in DOMAIN BoolText /\ BoolText["true"] = TRUE
    /\ "false" \in DOMAIN BoolText /\ BoolText["false"] = FALSE
    /\ MaxWrites \in Nat

VARIABLES
    file,       \* the file: [format, names, rows], or NoFile
    written,    \* the batch it was written from
    schema,     \* the schema registered for the table, or NoSchema
    fresh,      \* the schema was inferred from what the file now holds
    result,     \* the rows of the last scan, or NoRows
    writes      \* the number of writes so far

vars == <<file, written, schema, fresh, result, writes>>

NoFile == [format |-> "none"]
NoSchema == << <<"none", "none">> >>
NoRows == [ok |-> FALSE]

Names(fields) == [i \in DOMAIN fields |-> fields[i][1]]

\* The last of the fields of a name.
LastField(fields, n) == Max({i \in DOMAIN fields : fields[i][1] = n})

-----------------------------------------------------------------------------
(***************************************************************************)
(* CSV.                                                                    *)
(***************************************************************************)
ValueToCsv(v) == IF IsNull(v) THEN "" ELSE CastToString(v)

\* parse_csv_value, for inference
ParseCsv(raw) ==
    LET s == Trim(raw)
    IN  CASE Lower(s) \in {"", "null", "none"} -> Null
          [] Lower(s) \in {"true", "false"} -> BoolV(Lower(s) = "true")
          [] s \in DOMAIN IntText -> IntV(IntText[s])
          [] s \notin DOMAIN IntText /\ s \in DOMAIN FloatText -> FloatV(FloatText[s])
          [] s \in NaNText -> NaN
          [] OTHER -> StrV(s)

\* Mutant: the first value of a column decides.
InferColumnFirst(texts) ==
    LET seen == SelectSeq([i \in DOMAIN texts |-> ParseCsv(texts[i])], LAMBDA v : v # Null)
    IN  IF seen = <<>> THEN "string" ELSE IF seen[1] = NaN THEN "double" ELSE seen[1][1]

\* infer_columns, for one column.  An integer rules no type out, a float only
\* the integers, a boolean both.
InferColumn(texts) ==
    LET types == {ParseCsv(texts[i])[1] : i \in DOMAIN texts} \ {"null"}
        floats == {"double", "nan"}
    IN  CASE types = {} -> "string"
          [] types = {"bigint"} -> "bigint"
          [] types # {} /\ types # {"bigint"} /\ types \subseteq {"bigint"} \cup floats -> "double"
          [] "boolean" \in types /\ "string" \notin types -> "boolean"
          [] OTHER -> "string"

InferCsv(f) ==
    [i \in DOMAIN f.names |-> <<f.names[i], InferColumn([r \in DOMAIN f.rows |-> f.rows[r][i]])>>]

\* Mutant: what inference passes over is NULL.
BlankOrNone(s) == Lower(s) \in {"", "null", "none"}

Blank(s) == Lower(s) \in {"", "null"}

\* A text that is not of its column's type stays a string.
CoerceValue(raw, type) ==
    LET s == Trim(raw)
    IN  IF Blank(s) THEN Null
        ELSE CASE type = "boolean" /\ s \in DOMAIN BoolText -> BoolV(BoolText[s])
               [] type = "bigint" /\ s \in DOMAIN IntText -> IntV(IntText[s])
               [] type = "double" /\ s \in DOMAIN FloatText -> FloatV(FloatText[s])
               [] type = "double" /\ s \in NaNText -> NaN
               [] OTHER -> StrV(s)

\* Texts are paired with fields by their place, whatever the header says.
ScanCsv(f, fields) ==
    [r \in DOMAIN f.rows |->
        LET n == IF Len(f.names) < Len(fields) THEN Len(f.names) ELSE Len(fields)
        IN  [i \in 1..n |-> CoerceValue(f.rows[r][i], fields[i][2])]]

-----------------------------------------------------------------------------
(***************************************************************************)
(* JSON.                                                                   *)
(***************************************************************************)
\* value_to_json: JSON has no NaN.
ValueToJson(v) == IF v = NaN THEN Null ELSE v

\* The first row that has a field gives its type; the fields of an object
\* come in the order of their names.
FirstRow(f, n) == Min({r \in DOMAIN f.rows : n \in DOMAIN f.rows[r]})

Before(f, m, n) ==
    \/ FirstRow(f, m) < FirstRow(f, n)
    \/ FirstRow(f, m) = FirstRow(f, n) /\ Place(m) < Place(n)

AllNames(f) == UNION {DOMAIN f.rows[r] : r \in DOMAIN f.rows}

NthName(f, i) ==
    CHOOSE n \in AllNames(f) : 1 + Cardinality({m \in AllNames(f) : Before(f, m, n)}) = i

InferJson(f) ==
    [i \in 1..Cardinality(AllNames(f)) |->
        LET n == NthName(f, i) IN <<n, f.rows[FirstRow(f, n)][n][1]>>]

\* json_to_value
JsonToValue(v, type) ==
    CASE v[1] = "bigint" /\ type = "double" -> FloatV(Unit * v[2])
      [] v[1] \in {"bigint", "double"} /\ type = "string" -> StrV(CastToString(v))
      [] v[1] = "string" /\ type = "bigint" /\ v[2] \in DOMAIN IntText -> IntV(IntText[v[2]])
      [] v[1] = "string" /\ type = "double" /\ v[2] \in DOMAIN FloatText -> FloatV(FloatText[v[2]])
      [] v[1] = "string" /\ type = "double" /\ v[2] \in NaNText -> NaN
      [] v[1] = "string" /\ type = "boolean" /\ v[2] \in {"true", "false"} -> BoolV(v[2] = "true")
      [] OTHER -> v

\* Mutant: the fields of an object are taken in their order.
FieldInOrder(object, fields, i) ==
    LET names == SetToSortSeq(DOMAIN object, LAMBDA m, n : Place(m) < Place(n))
    IN  IF i \in DOMAIN names THEN object[names[i]] ELSE Null

\* A field an object does not have is NULL.
FieldByName(object, fields, i) == IF fields[i][1] \in DOMAIN object THEN object[fields[i][1]] ELSE Null

ScanJson(f, fields) ==
    [r \in DOMAIN f.rows |->
        [i \in DOMAIN fields |-> JsonToValue(FieldByName(f.rows[r], fields, i), fields[i][2])]]

-----------------------------------------------------------------------------
\* render_csv, render_json.  A name that occurs twice keeps its last value in
\* a JSON object.
Rendered(b, format) ==
    IF format = "csv"
    THEN [format |-> format, names |-> Names(b.schema),
          rows |-> [r \in DOMAIN b.rows |-> [i \in DOMAIN b.rows[r] |-> ValueToCsv(b.rows[r][i])]]]
    ELSE [format |-> format, names |-> <<>>,
          rows |-> [r \in DOMAIN b.rows |->
                       [n \in ToSet(Names(b.schema)) |->
                           ValueToJson(b.rows[r][LastField(b.schema, n)])]]]

\* infer_schema and scan of the source for the file's format.
Inferred(f) == IF f.format = "csv" THEN InferCsv(f) ELSE InferJson(f)

Scanned(f, fields) == IF f.format = "csv" THEN ScanCsv(f, fields) ELSE ScanJson(f, fields)

Init ==
    /\ file = NoFile /\ written = NoRows /\ schema = NoSchema
    /\ fresh = FALSE /\ result = NoRows /\ writes = 0

\* OutputWriter::write.  The extension of the file's path gives the format, so
\* a file is rewritten in the format it has.
Write(b, format) ==
    /\ writes < MaxWrites
    /\ file = NoFile \/ file.format = format
    /\ writes' = writes + 1
    /\ written' = b
    /\ file' = Rendered(b, format)
    /\ fresh' = FALSE /\ result' = NoRows
    /\ UNCHANGED schema

\* infer_schema, when the table is registered; the format is the file's.
Register ==
    /\ file # NoFile
    /\ schema' = Inferred(file)
    /\ fresh' = TRUE /\ result' = NoRows
    /\ UNCHANGED <<file, written, writes>>

\* Mutant: rows are not validated.
ScanUnchecked ==
    /\ file # NoFile /\ schema # NoSchema
    /\ result' = [ok |-> TRUE, rows |-> Scanned(file, schema)]
    /\ UNCHANGED <<file, written, schema, fresh, writes>>

\* scan, with the registered schema; a row of another length is an error.
Scan ==
    /\ file # NoFile /\ schema # NoSchema
    /\ result' = IF \E r \in DOMAIN Scanned(file, schema) :
                        Len(Scanned(file, schema)[r]) # Len(schema)
                 THEN NoRows ELSE [ok |-> TRUE, rows |-> Scanned(file, schema)]
    /\ UNCHANGED <<file, written, schema, fresh, writes>>

Next ==
    \/ \E b \in Batches, format \in {"csv", "json"} : Write(b, format)
    \/ Register
    \/ Scan

Spec == Init /\ [][Next]_vars

-----------------------------------------------------------------------------
\* A file is none, or a table of texts or of values by name; a result has a
\* value for every field.
TypeOK ==
    /\ file = NoFile \/ \A r \in DOMAIN file.rows :
            file.format = "csv" => Len(file.rows[r]) = Len(file.names)
    /\ result.ok => \A r \in DOMAIN result.rows : Len(result.rows[r]) = Len(schema)

Column(b, n) == [r \in DOMAIN b.rows |-> b.rows[r][LastField(b.schema, n)]]

TypesIn(values) == {values[r][1] : r \in DOMAIN values} \ {"null"}

\* A string no reader takes for something else.
PlainText(s) ==
    /\ Trim(s) = s /\ Lower(s) \notin {"", "null", "none", "true", "false"}
    /\ s \notin DOMAIN FloatText \cup NaNText

\* A column that survives a CSV file: of one type, strings plain, and floats
\* not all whole, for a whole float is written as an integer.
PlainColumn(values) ==
    /\ TypesIn(values) \in {{}, {"bigint"}, {"boolean"}, {"double"}, {"string"}}
    /\ \A r \in DOMAIN values : values[r][1] = "string" => PlainText(values[r][2])
    /\ TypesIn(values) = {"double"} =>
          \E r \in DOMAIN values : values[r][1] = "double" /\ values[r][2] % Unit # 0

\* The value read in row r for column n.
ReadAt(r, n) == result.rows[r][LastField(schema, n)]

\* Scanned under a schema inferred from the same contents, every plain column
\* of a CSV file and every column of one type of a JSON file reads back the
\* values written, NULL included.
ReadsBack ==
    result.ok /\ fresh =>
        /\ Len(result.rows) = Len(written.rows)
        /\ \A n \in ToSet(Names(written.schema)) :
              LET values == Column(written, n)
              IN  (IF file.format = "csv" THEN PlainColumn(values)
                   ELSE Cardinality(TypesIn(values)) <= 1 /\ "nan" \notin TypesIn(values))
                  => \A r \in DOMAIN values : ReadAt(r, n) = values[r]

\* However old the schema, a scan of a JSON file returns under each name only
\* what was written under it, converted at most to the same text or to the
\* same number, and NULL where the file no longer has the name.
JsonReadsByName ==
    result.ok /\ file.format = "json" =>
        \A r \in DOMAIN result.rows : \A i \in DOMAIN schema :
            LET v == result.rows[r][i]
            IN  IF schema[i][1] \in ToSet(Names(written.schema))
                THEN LET w == ValueToJson(Column(written, schema[i][1])[r])
                     IN  \/ v = w
                         \/ CastToString(v) = CastToString(w)
                         \/ CastToF64(v) = CastToF64(w) /\ CastToF64(v) # No
                ELSE IsNull(v)

\* Text s stands for value v: NULL for a blank or for the word, else the text
\* itself, or the number or boolean it is.
StandsFor(s, v) ==
    IF Lower(s) \in {"", "null"} THEN IsNull(v)
    ELSE ~IsNull(v) /\ \/ CastToString(v) = s
                       \/ CastToF64(v) = CastToF64(StrV(s)) /\ CastToF64(v) # No
                       \/ v = CastToBool(StrV(s))

\* However old the schema, a scan of a CSV file returns in each place what the
\* text written in that place stands for; a file with fewer columns than the
\* schema is refused.
CsvReadsByPlace ==
    result.ok /\ file.format = "csv" =>
        \A r \in DOMAIN result.rows :
            /\ Len(schema) <= Len(written.schema)
            /\ \A i \in DOMAIN schema :
                  StandsFor(Trim(ValueToCsv(written.rows[r][i])), result.rows[r][i])
=============================================================================
