--------------------------- MODULE StorageProofs ---------------------------
(***************************************************************************)
(* Storage, for any batches of the values a program holds.  The inductive  *)
(* invariant says that the file is the rendering of the batch written      *)
(* last, the result the scan of the file, and a fresh schema the one       *)
(* inferred from the file; the rest of the proof is about what rendering,  *)
(* inference and scans do to a value.                                      *)
(***************************************************************************)
EXTENDS Storage, TLAPS, FiniteSetTheorems

\* The last write, what was made of it, and what a scan returned.
Contents ==
    file = NoFile \/ /\ written \in Batches
                     /\ \E format \in {"csv", "json"} : file = Rendered(written, format)

Fields == DOMAIN schema = 1..Len(schema) /\ Len(schema) \in Nat

Answer ==
    result = NoRows \/ /\ file # NoFile
                       /\ result = [ok |-> TRUE, rows |-> Scanned(file, schema)]
                       /\ \A r \in DOMAIN result.rows : Len(result.rows[r]) = Len(schema)

Fresh == fresh => file # NoFile /\ schema = Inferred(file)

IInv == Contents /\ Fields /\ Answer /\ Fresh

-----------------------------------------------------------------------------
(* Numbers and sequences. *)

\* A set of naturals has a least element.
LEMMA Least ==
    ASSUME NEW S \in SUBSET Nat, S # {}
    PROVE  \E x \in S : \A y \in S : x <= y
<1>1. PICK x \in S : \A y \in S : <<y, x>> \notin OpToRel(<, Nat)
  BY NatLessThanWellFounded, WFMin
<1>2. ASSUME NEW y \in S PROVE x <= y
  <2>1. CASE y < x
    <3>1. <<y, x>> \in Nat \X Nat /\ <<y, x>>[1] < <<y, x>>[2]
      BY <2>1
    <3>2. <<y, x>> \in OpToRel(<, Nat)
      BY <3>1 DEF OpToRel
    <3> QED BY <1>1, <3>2
  <2> QED BY <2>1
<1> QED BY <1>2

\* Some of the first b naturals have a greatest one.
LEMMA MaxIn ==
    ASSUME NEW b \in Nat, NEW S \in SUBSET (1..b), S # {}
    PROVE  Max(S) \in S /\ \A y \in S : Max(S) >= y
<1> DEFINE T == {m \in 0..b : b - m \in S}
<1>1. T \in SUBSET Nat
  OBVIOUS
<1>2. T # {}
  <2>1. PICK x \in S : TRUE
    OBVIOUS
  <2>2. b - x \in T
    BY <2>1
  <2> QED BY <2>2
<1>3. PICK m \in T : \A y \in T : m <= y
  BY <1>1, <1>2, Least
<1>4. \A y \in S : b - y \in T
  OBVIOUS
<1>5. b - m \in S /\ \A y \in S : b - m >= y
  BY <1>3, <1>4
<1> QED BY <1>5 DEF Max

\* A function on 1..n is a sequence of length n.
LEMMA LenIs ==
    ASSUME NEW n \in Nat, NEW f, f = [i \in 1..n |-> f[i]]
    PROVE  Len(f) = n /\ DOMAIN f = 1..n
<1> DEFINE S == {f[i] : i \in 1..n}
<1>1. f \in [1..n -> S]
  OBVIOUS
<1>2. f \in Seq(S)
  BY <1>1
<1> QED BY <1>1, <1>2

\* A whole number of units is a multiple of the unit.
LEMMA Whole ==
    ASSUME NEW u \in Nat \ {0}, NEW k \in Int
    PROVE  (u * k) % u = 0
  BY Z3T(30)

\* The last field of a name is a field of that name.
LEMMA LastFieldIs ==
    ASSUME NEW fields, DOMAIN fields = 1..Len(fields), Len(fields) \in Nat, NEW n,
           \E i \in DOMAIN fields : fields[i][1] = n
    PROVE  LastField(fields, n) \in DOMAIN fields /\ fields[LastField(fields, n)][1] = n
<1> DEFINE S == {i \in DOMAIN fields : fields[i][1] = n}
<1>1. S \in SUBSET (1..Len(fields)) /\ S # {}
  OBVIOUS
<1>2. Max(S) \in S
  BY <1>1, MaxIn
<1> QED BY <1>2 DEF LastField

-----------------------------------------------------------------------------
(* Batches and their files. *)

\* The text of a number is read as the same number.
Printable(v) ==
    /\ v[1] = "bigint" => CastToString(v) \in DOMAIN IntText /\ IntText[CastToString(v)] = v[2]
    /\ v[1] = "double" => CastToString(v) \in DOMAIN FloatText /\ FloatText[CastToString(v)] = v[2]

\* A batch is a table of values.
LEMMA BatchIs ==
    ASSUME NEW b \in Batches
    PROVE  /\ Len(b.schema) \in Nat \ {0} /\ DOMAIN b.schema = 1..Len(b.schema)
           /\ Len(b.rows) \in Nat /\ DOMAIN b.rows = 1..Len(b.rows)
           /\ \A i \in DOMAIN b.schema : b.schema[i][1] \in ToSet(Text)
           /\ \A r \in DOMAIN b.rows :
                 /\ DOMAIN b.rows[r] = DOMAIN b.schema
                 /\ \A i \in DOMAIN b.schema :
                       b.rows[r][i] \in Stored /\ Printable(b.rows[r][i])
<1>1. /\ b.schema \in Seq(STRING \X STRING) /\ b.schema # <<>> /\ b.rows \in Seq(Seq(Stored))
      /\ \A i \in DOMAIN b.schema : b.schema[i][1] \in ToSet(Text)
  BY StorageAssumption
<1>2. /\ Len(b.schema) \in Nat \ {0} /\ DOMAIN b.schema = 1..Len(b.schema)
      /\ Len(b.rows) \in Nat /\ DOMAIN b.rows = 1..Len(b.rows)
  BY <1>1
<1>3. ASSUME NEW r \in DOMAIN b.rows
      PROVE  /\ DOMAIN b.rows[r] = DOMAIN b.schema
             /\ \A i \in DOMAIN b.schema : b.rows[r][i] \in Stored /\ Printable(b.rows[r][i])
  <2>1. b.rows[r] \in Seq(Stored)
    BY <1>1
  <2>2. Len(b.rows[r]) = Len(b.schema)
    BY StorageAssumption
  <2>3. DOMAIN b.rows[r] = DOMAIN b.schema
    BY <1>2, <2>1, <2>2
  <2>4. ASSUME NEW i \in DOMAIN b.rows[r] PROVE Printable(b.rows[r][i])
    BY StorageAssumption DEF Printable
  <2> QED BY <2>1, <2>3, <2>4
<1> QED BY <1>1, <1>2, <1>3

\* The last field of a name of a batch.
LEMMA BatchField ==
    ASSUME NEW b \in Batches, NEW n \in ToSet(Names(b.schema))
    PROVE  LastField(b.schema, n) \in DOMAIN b.schema /\ b.schema[LastField(b.schema, n)][1] = n
<1>1. PICK i \in DOMAIN b.schema : b.schema[i][1] = n
  BY DEF ToSet, Names
<1> QED BY <1>1, BatchIs, LastFieldIs

\* render_csv: the texts of the values, row by row.
LEMMA CsvFile ==
    ASSUME NEW b \in Batches, NEW f, f = Rendered(b, "csv")
    PROVE  /\ f.format = "csv"
           /\ Len(f.names) = Len(b.schema) /\ DOMAIN f.names = DOMAIN b.schema
           /\ \A i \in DOMAIN b.schema : f.names[i] = b.schema[i][1]
           /\ DOMAIN f.rows = DOMAIN b.rows
           /\ \A r \in DOMAIN b.rows :
                 /\ Len(f.rows[r]) = Len(f.names)
                 /\ \A i \in DOMAIN b.schema : f.rows[r][i] = ValueToCsv(b.rows[r][i])
<1>1. /\ f.format = "csv" /\ f.names = Names(b.schema)
      /\ f.rows = [r \in DOMAIN b.rows |-> [i \in DOMAIN b.rows[r] |-> ValueToCsv(b.rows[r][i])]]
  BY DEF Rendered
<1>2. f.names = [i \in 1..Len(b.schema) |-> f.names[i]] /\ Len(b.schema) \in Nat
  BY <1>1, BatchIs DEF Names
<1>3. Len(f.names) = Len(b.schema) /\ DOMAIN f.names = DOMAIN b.schema
  BY <1>2, LenIs, BatchIs
<1>4. ASSUME NEW r \in DOMAIN b.rows
      PROVE  /\ Len(f.rows[r]) = Len(f.names)
             /\ \A i \in DOMAIN b.schema : f.rows[r][i] = ValueToCsv(b.rows[r][i])
  <2>1. f.rows[r] = [i \in 1..Len(b.schema) |-> ValueToCsv(b.rows[r][i])]
    BY <1>1, BatchIs
  <2>2. f.rows[r] = [i \in 1..Len(b.schema) |-> f.rows[r][i]]
    BY <2>1
  <2>3. Len(f.rows[r]) = Len(b.schema)
    BY <1>2, <2>2, LenIs
  <2> QED BY <1>3, <2>1, <2>3, BatchIs
<1> QED BY <1>1, <1>3, <1>4 DEF Names

\* render_json: objects with every name of the batch.
LEMMA JsonFile ==
    ASSUME NEW b \in Batches, NEW f, f = Rendered(b, "json")
    PROVE  /\ f.format = "json"
           /\ DOMAIN f.rows = DOMAIN b.rows
           /\ \A r \in DOMAIN b.rows :
                 /\ DOMAIN f.rows[r] = ToSet(Names(b.schema))
                 /\ \A n \in ToSet(Names(b.schema)) :
                       f.rows[r][n] = ValueToJson(Column(b, n)[r])
  BY DEF Rendered, Column

-----------------------------------------------------------------------------
(* Scans. *)

\* A JSON row has a value for every field, whatever the schema.
LEMMA JsonRows ==
    ASSUME NEW f, NEW fields, DOMAIN fields = 1..Len(fields), Len(fields) \in Nat,
           NEW r \in DOMAIN f.rows
    PROVE  Len(ScanJson(f, fields)[r]) = Len(fields)
<1>1. ScanJson(f, fields)[r] =
        [i \in 1..Len(fields) |-> JsonToValue(FieldByName(f.rows[r], fields, i), fields[i][2])]
  BY DEF ScanJson
<1>2. ScanJson(f, fields)[r] = [i \in 1..Len(fields) |-> ScanJson(f, fields)[r][i]]
  BY <1>1
<1> QED BY <1>2, LenIs

\* What json_to_value makes of a value is the value, its text or its number.
LEMMA JsonCell ==
    ASSUME NEW v \in Stored, NEW w, w = ValueToJson(v), NEW type, NEW x, x = JsonToValue(w, type)
    PROVE  \/ x = w
           \/ CastToString(x) = CastToString(w)
           \/ CastToF64(x) = CastToF64(w) /\ CastToF64(x) # No
<1>1. w = Null \/ (w = v /\ v[1] \in {"null", "boolean", "bigint", "double", "string"} /\ v # NaN)
  BY DEF ValueToJson, Stored, Null, NaN
<1>2. CASE w[1] = "bigint" /\ type = "double"
  <2>1. x = FloatV(Unit * w[2])
    BY <1>2 DEF JsonToValue
  <2> QED BY <1>2, <2>1 DEF CastToF64, FloatV, No
<1>3. CASE w[1] \in {"bigint", "double"} /\ type = "string"
  <2>1. x = StrV(CastToString(w))
    BY <1>3 DEF JsonToValue
  <2>2. PICK t : t = CastToString(w)
    OBVIOUS
  <2>3. x = StrV(t)
    BY <2>1, <2>2
  <2>4. CastToString(x) = t
    BY <2>3 DEF CastToString, StrV
  <2> QED BY <2>2, <2>4
<1>4. CASE w[1] = "string" /\ type = "bigint" /\ w[2] \in DOMAIN IntText
  <2>1. x = IntV(IntText[w[2]])
    BY <1>4 DEF JsonToValue
  <2>2. w[2] \in DOMAIN FloatText /\ w[2] \notin NaNText /\ FloatText[w[2]] = Unit * IntText[w[2]]
    BY <1>4, ValuesAssumption
  <2>3. CastToF64(w) = <<"some", FloatText[w[2]]>>
    BY <1>4, <2>2 DEF CastToF64
  <2>4. CastToF64(x) = <<"some", Unit * IntText[w[2]]>>
    BY <2>1 DEF CastToF64, IntV
  <2> QED BY <2>2, <2>3, <2>4 DEF No
<1>5. CASE w[1] = "string" /\ type = "double" /\ w[2] \in DOMAIN FloatText
  <2>1. w[2] \notin NaNText
    BY <1>5, ValuesAssumption
  <2>2. x = FloatV(FloatText[w[2]])
    BY <1>5, <2>1 DEF JsonToValue
  <2>3. CastToF64(w) = <<"some", FloatText[w[2]]>>
    BY <1>5, <2>1 DEF CastToF64
  <2>4. CastToF64(x) = <<"some", FloatText[w[2]]>>
    BY <2>2 DEF CastToF64, FloatV
  <2> QED BY <2>3, <2>4 DEF No
<1>6. CASE w[1] = "string" /\ type = "double" /\ w[2] \in NaNText
  <2>1. w[2] \notin DOMAIN FloatText
    BY <1>6, ValuesAssumption
  <2>2. x = NaN
    BY <1>6, <2>1 DEF JsonToValue
  <2>3. CastToF64(w) = NaN /\ CastToF64(x) = NaN
    BY <1>6, <2>2 DEF CastToF64, NaN
  <2> QED BY <2>3 DEF NaN, No
<1>7. CASE w[1] = "string" /\ type = "boolean" /\ w[2] \in {"true", "false"}
  <2>1. x = BoolV(w[2] = "true")
    BY <1>7 DEF JsonToValue
  <2>2. CastToString(w) = w[2]
    BY <1>7 DEF CastToString
  <2>3. CASE w[2] = "true"
    <3>1. x = BoolV(TRUE)
      BY <2>1, <2>3
    <3>2. CastToString(x) = "true"
      BY <3>1 DEF CastToString, BoolV
    <3> QED BY <2>2, <2>3, <3>2
  <2>4. CASE w[2] = "false"
    <3>1. x = BoolV(FALSE)
      BY <2>1, <2>4 DEF BoolV
    <3>2. CastToString(x) = "false"
      BY <3>1 DEF CastToString, BoolV
    <3> QED BY <2>2, <2>4, <3>2
  <2> QED BY <1>7, <2>3, <2>4
<1>8. CASE /\ ~(w[1] = "bigint" /\ type = "double")
           /\ ~(w[1] \in {"bigint", "double"} /\ type = "string")
           /\ ~(w[1] = "string" /\ type = "bigint" /\ w[2] \in DOMAIN IntText)
           /\ ~(w[1] = "string" /\ type = "double" /\ w[2] \in DOMAIN FloatText)
           /\ ~(w[1] = "string" /\ type = "double" /\ w[2] \in NaNText)
           /\ ~(w[1] = "string" /\ type = "boolean" /\ w[2] \in {"true", "false"})
  BY <1>8 DEF JsonToValue
<1> QED BY <1>2, <1>3, <1>4, <1>5, <1>6, <1>7, <1>8

-----------------------------------------------------------------------------
(* CSV columns. *)

\* What coerce_value makes of a text that is not blank is the text, or the
\* number or boolean it stands for.
LEMMA CsvText ==
    ASSUME NEW raw, NEW type, NEW s, s = Trim(raw), NEW v, v = CoerceValue(raw, type)
    PROVE  StandsFor(s, v)
<1>1. CASE Lower(s) \in {"", "null"}
  BY <1>1 DEF CoerceValue, Blank, IsNull, StandsFor
<1>2. CASE ~(Lower(s) \in {"", "null"})
  <2>1. CASE type = "boolean" /\ s \in DOMAIN BoolText
    <3>1. v = BoolV(BoolText[s])
      BY <1>2, <2>1 DEF CoerceValue, Blank
    <3>2. CastToBool(StrV(s)) = BoolV(BoolText[s])
      BY <2>1 DEF CastToBool, StrV
    <3>3. ~IsNull(v)
      BY <3>1 DEF BoolV, IsNull, Null
    <3> QED BY <1>2, <3>1, <3>2, <3>3 DEF StandsFor
  <2>2. CASE type = "bigint" /\ s \in DOMAIN IntText
    <3>1. v = IntV(IntText[s])
      BY <1>2, <2>2 DEF CoerceValue, Blank
    <3>2. s \in DOMAIN FloatText /\ s \notin NaNText /\ FloatText[s] = Unit * IntText[s]
      BY <2>2, ValuesAssumption
    <3>3. CastToF64(StrV(s)) = <<"some", FloatText[s]>>
      BY <3>2 DEF CastToF64, StrV
    <3>4. CastToF64(v) = <<"some", Unit * IntText[s]>>
      BY <3>1 DEF CastToF64, IntV
    <3>5. ~IsNull(v)
      BY <3>1 DEF IntV, IsNull, Null
    <3>6. CastToF64(v) = CastToF64(StrV(s)) /\ CastToF64(v) # No
      BY <3>2, <3>3, <3>4 DEF No
    <3> QED BY <1>2, <3>5, <3>6 DEF StandsFor
  <2>3. CASE type = "double" /\ s \in DOMAIN FloatText
    <3>1. s \notin NaNText
      BY <2>3, ValuesAssumption
    <3>2. v = FloatV(FloatText[s])
      BY <1>2, <2>3, <3>1 DEF CoerceValue, Blank
    <3>3. CastToF64(StrV(s)) = <<"some", FloatText[s]>>
      BY <2>3, <3>1 DEF CastToF64, StrV
    <3>4. CastToF64(v) = <<"some", FloatText[s]>>
      BY <3>2 DEF CastToF64, FloatV
    <3>5. ~IsNull(v)
      BY <3>2 DEF FloatV, IsNull, Null
    <3>6. CastToF64(v) = CastToF64(StrV(s)) /\ CastToF64(v) # No
      BY <3>3, <3>4 DEF No
    <3> QED BY <1>2, <3>5, <3>6 DEF StandsFor
  <2>4. CASE type = "double" /\ s \in NaNText
    <3>1. s \notin DOMAIN FloatText
      BY <2>4, ValuesAssumption
    <3>2. v = NaN
      BY <1>2, <2>4, <3>1 DEF CoerceValue, Blank
    <3>3. CastToF64(StrV(s)) = NaN
      BY <2>4 DEF CastToF64, StrV
    <3>4. CastToF64(v) = NaN
      BY <3>2 DEF CastToF64, NaN
    <3>5. ~IsNull(v)
      BY <3>2 DEF NaN, IsNull, Null
    <3>6. CastToF64(v) = CastToF64(StrV(s)) /\ CastToF64(v) # No
      BY <3>3, <3>4 DEF NaN, No
    <3> QED BY <1>2, <3>5, <3>6 DEF StandsFor
  <2>5. CASE /\ ~(type = "boolean" /\ s \in DOMAIN BoolText)
             /\ ~(type = "bigint" /\ s \in DOMAIN IntText)
             /\ ~(type = "double" /\ s \in DOMAIN FloatText)
             /\ ~(type = "double" /\ s \in NaNText)
    <3>1. v = StrV(s)
      BY <1>2, <2>5 DEF CoerceValue, Blank
    <3>2. CastToString(v) = s
      BY <3>1 DEF CastToString, StrV
    <3>3. ~IsNull(v)
      BY <3>1 DEF StrV, IsNull, Null
    <3> QED BY <1>2, <3>2, <3>3 DEF StandsFor
  <2> QED BY <2>1, <2>2, <2>3, <2>4, <2>5
<1> QED BY <1>1, <1>2

\* A value is a pair of its type and its contents.
LEMMA StoredIs ==
    ASSUME NEW v \in Stored
    PROVE  /\ v[1] \in {"null", "nan", "boolean", "bigint", "double", "string"}
           /\ v[1] = "null" => v = Null
           /\ v[1] = "nan" => v = NaN
           /\ v[1] # "null" => v # Null
           /\ v[1] = "boolean" => v = BoolV(TRUE) \/ v = BoolV(FALSE)
           /\ v[1] = "bigint" => v[2] \in Int /\ v = IntV(v[2])
           /\ v[1] = "double" => v[2] \in Int /\ v = FloatV(v[2])
           /\ v[1] = "string" => v = StrV(v[2])
<1>1. CASE v = Null
  BY <1>1 DEF Null
<1>2. CASE v = NaN
  BY <1>2 DEF Null, NaN
<1>3. CASE v \in {"boolean"} \X BOOLEAN
  <2>1. PICK b \in BOOLEAN : v = <<"boolean", b>>
    BY <1>3
  <2> QED BY <2>1 DEF Null, BoolV
<1>4. CASE v \in {"bigint", "double"} \X Int
  <2>1. PICK t \in {"bigint", "double"}, k \in Int : v = <<t, k>>
    BY <1>4
  <2> QED BY <2>1 DEF Null, IntV, FloatV
<1>5. CASE v \in {"string"} \X STRING
  <2>1. PICK k : v = <<"string", k>>
    BY <1>5
  <2> QED BY <2>1 DEF Null, StrV
<1> QED BY <1>1, <1>2, <1>3, <1>4, <1>5 DEF Stored

\* What becomes of the text of a value: the type that inference sees, and the
\* value that a scan under the value's own type reads.
LEMMA CsvCell ==
    ASSUME NEW v \in Stored, Printable(v), NEW s, s = ValueToCsv(v)
    PROVE  /\ v[1] = "null" => ParseCsv(s)[1] = "null" /\ \A type : CoerceValue(s, type) = v
           /\ v[1] = "boolean" => ParseCsv(s)[1] = "boolean" /\ CoerceValue(s, "boolean") = v
           /\ v[1] = "bigint" => ParseCsv(s)[1] = "bigint" /\ CoerceValue(s, "bigint") = v
           /\ v[1] = "double" => /\ ParseCsv(s)[1] \in {"bigint", "double"}
                                 /\ v[2] % Unit # 0 => ParseCsv(s)[1] = "double"
                                 /\ CoerceValue(s, "double") = v
           /\ v[1] = "string" /\ PlainText(v[2]) =>
                 ParseCsv(s)[1] = "string" /\ CoerceValue(s, "string") = v
<1>1. CASE v[1] = "null"
  <2>1. v = Null /\ s = ""
    BY <1>1, StoredIs DEF ValueToCsv, IsNull
  <2>2. Trim(s) = "" /\ Lower("") = ""
    BY <2>1, StorageAssumption
  <2>3. PICK t : t = Trim(s) /\ Lower(t) = ""
    BY <2>2
  <2>5. t \notin DOMAIN IntText /\ t \notin DOMAIN FloatText /\ t \notin NaNText
    BY <2>3, StorageAssumption, ValuesAssumption
  <2>6. ParseCsv(s) = Null
    BY <2>3, <2>5 DEF ParseCsv
  <2>4. ASSUME NEW type PROVE CoerceValue(s, type) = Null
    BY <2>3 DEF CoerceValue, Blank
  <2> QED BY <1>1, <2>1, <2>4, <2>6 DEF Null
<1>2. CASE v[1] = "boolean"
  <2>0. s = CastToString(v)
    BY <1>2, StoredIs DEF ValueToCsv, IsNull
  <2>1. (s = "true" /\ v = BoolV(TRUE)) \/ (s = "false" /\ v = BoolV(FALSE))
    <3>1. v = BoolV(TRUE) \/ v = BoolV(FALSE)
      BY <1>2, StoredIs
    <3>2. CASE v = BoolV(TRUE)
      BY <2>0, <3>2 DEF CastToString, BoolV
    <3>3. CASE v = BoolV(FALSE)
      BY <2>0, <3>3 DEF CastToString, BoolV
    <3> QED BY <3>1, <3>2, <3>3
  <2>2. Trim(s) = s /\ Lower(s) = s
    BY <2>1, StorageAssumption
  <2>3. s \in DOMAIN BoolText /\ v = BoolV(BoolText[s])
    BY <2>1, StorageAssumption
  <2>4. s \notin DOMAIN IntText /\ s \notin DOMAIN FloatText /\ s \notin NaNText
    BY <2>1, <2>2, StorageAssumption, ValuesAssumption
  <2>5. ParseCsv(s)[1] = "boolean"
    BY <2>1, <2>2, <2>4 DEF ParseCsv, BoolV
  <2>6. CoerceValue(s, "boolean") = v
    BY <2>1, <2>2, <2>3 DEF CoerceValue, Blank
  <2> QED BY <1>2, <2>5, <2>6
<1>3. CASE v[1] = "bigint"
  <2>1. v = IntV(v[2]) /\ s \in DOMAIN IntText /\ IntText[s] = v[2]
    BY <1>3, StoredIs DEF ValueToCsv, IsNull, Printable
  <2>2. /\ Trim(s) = s /\ Lower(s) \notin {"", "null", "none", "true", "false"}
        /\ s \notin NaNText
    BY <2>1, StorageAssumption, ValuesAssumption
  <2>3. ParseCsv(s) = IntV(v[2])
    BY <2>1, <2>2, ValuesAssumption DEF ParseCsv
  <2>4. CoerceValue(s, "bigint") = IntV(v[2])
    BY <2>1, <2>2 DEF CoerceValue, Blank
  <2> QED BY <1>3, <2>1, <2>3, <2>4 DEF IntV
<1>4. CASE v[1] = "double"
  <2>1. v = FloatV(v[2]) /\ v[2] \in Int /\ s \in DOMAIN FloatText /\ FloatText[s] = v[2]
    BY <1>4, StoredIs DEF ValueToCsv, IsNull, Printable
  <2>2. /\ Trim(s) = s /\ Lower(s) \notin {"", "null", "none", "true", "false"}
        /\ s \notin NaNText
    BY <2>1, StorageAssumption, ValuesAssumption
  <2>3. s \in DOMAIN IntText => ParseCsv(s) = IntV(IntText[s])
    BY <2>1, <2>2 DEF ParseCsv
  <2>4. s \notin DOMAIN IntText => ParseCsv(s) = FloatV(FloatText[s])
    BY <2>1, <2>2 DEF ParseCsv
  <2>5. s \in DOMAIN IntText => v[2] % Unit = 0
    BY <2>1, ValuesAssumption, Whole
  <2>6. CoerceValue(s, "double") = FloatV(v[2])
    BY <2>1, <2>2 DEF CoerceValue, Blank
  <2> QED BY <1>4, <2>1, <2>3, <2>4, <2>5, <2>6 DEF IntV, FloatV
<1>5. CASE v[1] = "string" /\ PlainText(v[2])
  <2>0. s = CastToString(v)
    BY <1>5, StoredIs DEF ValueToCsv, IsNull
  <2>1. v = StrV(v[2]) /\ s = v[2]
    BY <1>5, <2>0, StoredIs DEF CastToString
  <2>2. /\ Trim(s) = s /\ Lower(s) \notin {"", "null", "none", "true", "false"}
        /\ s \notin DOMAIN FloatText /\ s \notin NaNText /\ s \notin DOMAIN IntText
    BY <1>5, <2>1, ValuesAssumption DEF PlainText
  <2>3. ParseCsv(s) = StrV(s)
    BY <2>2 DEF ParseCsv
  <2>4. CoerceValue(s, "string") = StrV(s)
    BY <2>2 DEF CoerceValue, Blank
  <2> QED BY <1>5, <2>1, <2>3, <2>4 DEF StrV
<1> QED BY <1>1, <1>2, <1>3, <1>4, <1>5

\* A plain column has the type of its values, and is read back under it.
LEMMA CsvColumn ==
    ASSUME NEW values, NEW texts, DOMAIN texts = DOMAIN values,
           \A r \in DOMAIN values : /\ values[r] \in Stored /\ Printable(values[r])
                                    /\ texts[r] = ValueToCsv(values[r]),
           PlainColumn(values)
    PROVE  \A r \in DOMAIN values : CoerceValue(texts[r], InferColumn(texts)) = values[r]
<1> DEFINE types == {ParseCsv(texts[i])[1] : i \in DOMAIN texts} \ {"null"}
<1>1. \A r \in DOMAIN values : values[r][1] \in TypesIn(values) \cup {"null"}
  BY DEF TypesIn
<1>2. \A r \in DOMAIN values :
        values[r][1] = "null" => /\ ParseCsv(texts[r])[1] = "null"
                                 /\ \A type : CoerceValue(texts[r], type) = values[r]
  BY CsvCell
<1>3. CASE TypesIn(values) = {}
  BY <1>1, <1>2, <1>3
<1>4. CASE TypesIn(values) = {"bigint"}
  <2>1. PICK q \in DOMAIN values : values[q][1] = "bigint"
    BY <1>4 DEF TypesIn
  <2>2. \A r \in DOMAIN values : values[r][1] = "bigint" =>
            ParseCsv(texts[r])[1] = "bigint" /\ CoerceValue(texts[r], "bigint") = values[r]
    BY CsvCell
  <2>3. types = {"bigint"}
    BY <1>1, <1>2, <1>4, <2>1, <2>2
  <2>4. InferColumn(texts) = "bigint"
    BY <2>3 DEF InferColumn
  <2> QED BY <1>1, <1>2, <1>4, <2>2, <2>4
<1>5. CASE TypesIn(values) = {"boolean"}
  <2>1. PICK q \in DOMAIN values : values[q][1] = "boolean"
    BY <1>5 DEF TypesIn
  <2>2. \A r \in DOMAIN values : values[r][1] = "boolean" =>
            ParseCsv(texts[r])[1] = "boolean" /\ CoerceValue(texts[r], "boolean") = values[r]
    BY CsvCell
  <2>3. types = {"boolean"}
    BY <1>1, <1>2, <1>5, <2>1, <2>2
  <2>4. InferColumn(texts) = "boolean"
    BY <2>3 DEF InferColumn
  <2> QED BY <1>1, <1>2, <1>5, <2>2, <2>4
<1>6. CASE TypesIn(values) = {"double"}
  <2>1. PICK q \in DOMAIN values : values[q][1] = "double" /\ values[q][2] % Unit # 0
    BY <1>6 DEF PlainColumn
  <2>2. \A r \in DOMAIN values : values[r][1] = "double" =>
            /\ ParseCsv(texts[r])[1] \in {"bigint", "double"}
            /\ CoerceValue(texts[r], "double") = values[r]
    BY CsvCell
  <2>3. ParseCsv(texts[q])[1] = "double"
    BY <2>1, CsvCell
  <2>4. "double" \in types
    BY <2>1, <2>3
  <2>5. types \subseteq {"bigint", "double"}
    BY <1>1, <1>2, <1>6, <2>2
  <2>6. InferColumn(texts) = "double"
    BY <2>4, <2>5 DEF InferColumn
  <2> QED BY <1>1, <1>2, <1>6, <2>2, <2>6
<1>7. CASE TypesIn(values) = {"string"}
  <2>1. PICK q \in DOMAIN values : values[q][1] = "string"
    BY <1>7 DEF TypesIn
  <2>2. \A r \in DOMAIN values : values[r][1] = "string" => PlainText(values[r][2])
    BY DEF PlainColumn
  <2>3. \A r \in DOMAIN values : values[r][1] = "string" =>
            ParseCsv(texts[r])[1] = "string" /\ CoerceValue(texts[r], "string") = values[r]
    BY <2>2, CsvCell
  <2>4. types = {"string"}
    BY <1>1, <1>2, <1>7, <2>1, <2>3
  <2>5. InferColumn(texts) = "string"
    BY <2>4 DEF InferColumn
  <2> QED BY <1>1, <1>2, <1>7, <2>3, <2>5
<1> QED BY <1>3, <1>4, <1>5, <1>6, <1>7 DEF PlainColumn

-----------------------------------------------------------------------------
(* JSON columns. *)

\* The names of a batch are finitely many, and their places tell them apart.
LEMMA NamesAre ==
    ASSUME NEW b \in Batches, NEW all, all = ToSet(Names(b.schema))
    PROVE  /\ IsFiniteSet(all)
           /\ \A n \in all : Place(n) \in Nat /\ Text[Place(n)] = n
<1>1. DOMAIN b.schema = 1..Len(b.schema) /\ Len(b.schema) \in Nat
  BY BatchIs
<1>2. IsFiniteSet(1..Len(b.schema))
  BY <1>1, FS_Interval
<1>3. Names(b.schema) \in Surjection(1..Len(b.schema), all)
  BY <1>1 DEF Names, ToSet, Surjection
<1>4. IsFiniteSet(all)
  BY <1>2, <1>3, FS_Surjection
<1>5. ASSUME NEW n \in all PROVE Place(n) \in Nat /\ Text[Place(n)] = n
  <2>1. PICK i \in DOMAIN b.schema : b.schema[i][1] = n
    BY DEF ToSet, Names
  <2>2. n \in ToSet(Text)
    BY <2>1, BatchIs
  <2>3. \E p \in DOMAIN Text : Text[p] = n
    BY <2>2 DEF ToSet
  <2>4. Place(n) \in DOMAIN Text /\ Text[Place(n)] = n
    BY <2>3 DEF Place
  <2> QED BY <2>4, ValuesAssumption
<1> QED BY <1>4, <1>5

\* The names that come before one of them number less than all, and less than
\* those that come before a later one.
LEMMA Ranks ==
    ASSUME NEW all, IsFiniteSet(all),
           \A n \in all : Place(n) \in Nat /\ Text[Place(n)] = n,
           NEW m \in all, NEW n \in all
    PROVE  /\ Cardinality({k \in all : Place(k) < Place(m)}) \in 0..(Cardinality(all) - 1)
           /\ Cardinality(all) \in Nat
           /\ Cardinality({k \in all : Place(k) < Place(m)})
                 = Cardinality({k \in all : Place(k) < Place(n)}) => m = n
<1> DEFINE R(x) == {k \in all : Place(k) < Place(x)}
<1>1. ASSUME NEW x \in all
      PROVE  /\ IsFiniteSet(R(x)) /\ Cardinality(R(x)) \in 0..(Cardinality(all) - 1)
             /\ Cardinality(all) \in Nat
  <2>1. R(x) \in SUBSET all /\ R(x) # all
    OBVIOUS
  <2>2. IsFiniteSet(R(x)) /\ Cardinality(R(x)) <= Cardinality(all)
        /\ Cardinality(R(x)) # Cardinality(all)
    BY <2>1, FS_Subset
  <2>3. Cardinality(R(x)) \in Nat /\ Cardinality(all) \in Nat
    BY <2>2, FS_CardinalityType
  <2> QED BY <2>2, <2>3
<1>2. ASSUME NEW x \in all, NEW y \in all, Place(x) < Place(y)
      PROVE  Cardinality(R(x)) # Cardinality(R(y))
  <2>1. R(x) \in SUBSET R(y) /\ x \in R(y) /\ x \notin R(x)
    BY <1>2
  <2>2. R(x) # R(y)
    BY <2>1
  <2> QED BY <1>1, <2>1, <2>2, FS_Subset
<1>3. Cardinality(R(m)) = Cardinality(R(n)) => m = n
  <2>1. CASE Place(m) < Place(n)
    BY <1>2, <2>1
  <2>2. CASE Place(n) < Place(m)
    BY <1>2, <2>2
  <2>3. CASE Place(m) = Place(n)
    BY <2>3
  <2> QED BY <2>1, <2>2, <2>3
<1> QED BY <1>1, <1>3

\* infer_schema gives every name of a written batch that has rows the type of
\* its value in the first row.
LEMMA JsonSchema ==
    ASSUME NEW b \in Batches, DOMAIN b.rows # {}, NEW f, f = Rendered(b, "json"),
           NEW n \in ToSet(Names(b.schema)), NEW fields, fields = InferJson(f)
    PROVE  /\ LastField(fields, n) \in DOMAIN fields
           /\ fields[LastField(fields, n)] = <<n, ValueToJson(Column(b, n)[1])[1]>>
<1> DEFINE all == ToSet(Names(b.schema))
           rank(x) == Cardinality({k \in all : Place(k) < Place(x)})
<1>1. /\ DOMAIN f.rows = 1..Len(b.rows) /\ 1 \in DOMAIN f.rows /\ Len(b.rows) \in Nat
      /\ \A r \in DOMAIN f.rows : DOMAIN f.rows[r] = all
      /\ f.rows[1][n] = ValueToJson(Column(b, n)[1])
  BY JsonFile, BatchIs
<1>2. AllNames(f) = all
  BY <1>1 DEF AllNames
<1>3. ASSUME NEW x \in all PROVE FirstRow(f, x) = 1
  <2>1. {r \in DOMAIN f.rows : x \in DOMAIN f.rows[r]} = 1..Len(b.rows)
    BY <1>1
  <2>2. 1 \in 1..Len(b.rows) /\ \A y \in 1..Len(b.rows) : 1 <= y
    BY <1>1
  <2>3. Min(1..Len(b.rows)) = 1
    BY <1>1, <2>2 DEF Min
  <2> QED BY <2>1, <2>3 DEF FirstRow
<1>4. IsFiniteSet(all) /\ \A x \in all : Place(x) \in Nat /\ Text[Place(x)] = x
  BY NamesAre
<1>5. ASSUME NEW x \in all PROVE {k \in all : Before(f, k, x)} = {k \in all : Place(k) < Place(x)}
  BY <1>3 DEF Before
<1>6. \A x \in all : rank(x) \in 0..(Cardinality(all) - 1) /\ Cardinality(all) \in Nat
  BY <1>4, Ranks
<1>7. \A x, y \in all : rank(x) = rank(y) => x = y
  BY <1>4, Ranks
<1>8. NthName(f, 1 + rank(n)) = n
  <2>1. \A x \in all : 1 + Cardinality({k \in AllNames(f) : Before(f, k, x)}) = 1 + rank(x)
    BY <1>2, <1>5
  <2>2. \A x \in all : 1 + rank(x) = 1 + rank(n) <=> x = n
    <3> HIDE DEF rank
    <3> QED BY <1>6, <1>7
  <2>3. NthName(f, 1 + rank(n)) =
          CHOOSE x \in all : 1 + Cardinality({k \in AllNames(f) : Before(f, k, x)}) = 1 + rank(n)
    BY <1>2 DEF NthName
  <2> HIDE DEF rank, all
  <2>4. \A x \in all : 1 + Cardinality({k \in AllNames(f) : Before(f, k, x)}) = 1 + rank(n) <=> x = n
    BY <2>1, <2>2
  <2>5. n \in all
    BY DEF all
  <2> QED BY <2>3, <2>4, <2>5
<1>9. /\ fields = [i \in 1..Cardinality(all) |-> fields[i]]
      /\ \A i \in 1..Cardinality(all) :
            fields[i] = <<NthName(f, i), f.rows[FirstRow(f, NthName(f, i))][NthName(f, i)][1]>>
  BY <1>2 DEF InferJson
<1>10. Cardinality(all) \in Nat /\ 1 + rank(n) \in 1..Cardinality(all)
  <2> HIDE DEF rank
  <2> QED BY <1>6
<1>11. DOMAIN fields = 1..Len(fields) /\ Len(fields) = Cardinality(all)
  BY <1>9, <1>10, LenIs
<1>12. \E i \in DOMAIN fields : fields[i][1] = n
  BY <1>8, <1>9, <1>10, <1>11
<1>13. PICK k : k = LastField(fields, n)
  OBVIOUS
<1>14. k \in DOMAIN fields /\ fields[k][1] = n
  BY <1>10, <1>11, <1>12, <1>13, LastFieldIs
<1>15. NthName(f, k) = n
  BY <1>9, <1>11, <1>14
<1>16. fields[k] = <<n, f.rows[1][n][1]>>
  <2>1. fields[k] = <<NthName(f, k), f.rows[FirstRow(f, NthName(f, k))][NthName(f, k)][1]>>
    BY <1>9, <1>11, <1>14
  <2>2. fields[k] = <<n, f.rows[FirstRow(f, n)][n][1]>>
    BY <1>15, <2>1, Zenon
  <2> QED BY <1>3, <2>2
<1> QED BY <1>1, <1>13, <1>14, <1>16

\* A value is read back under its own type, and under the type of NULL.
LEMMA JsonTyped ==
    ASSUME NEW v \in Stored, NEW type, v[1] = "null" \/ type = "null" \/ type = v[1]
    PROVE  JsonToValue(v, type) = v
<1>1. CASE v[1] \in {"null", "boolean", "nan"}
  BY <1>1 DEF JsonToValue
<1>2. CASE v[1] \in {"bigint", "double", "string"} /\ type \in {"null", v[1]}
  <2>1. CASE type = "null"
    BY <1>2, <2>1 DEF JsonToValue
  <2>2. CASE v[1] = "bigint" /\ type = "bigint"
    BY <2>2 DEF JsonToValue
  <2>3. CASE v[1] = "double" /\ type = "double"
    BY <2>3 DEF JsonToValue
  <2>4. CASE v[1] = "string" /\ type = "string"
    BY <2>4 DEF JsonToValue
  <2> QED BY <1>2, <2>1, <2>2, <2>3, <2>4
<1> QED BY <1>1, <1>2, StoredIs

-----------------------------------------------------------------------------
(* The invariant. *)

\* A rendered file.
LEMMA FileIs ==
    ASSUME Contents, file # NoFile
    PROVE  /\ written \in Batches
           /\ file = Rendered(written, "csv") \/ file = Rendered(written, "json")
  BY DEF Contents

\* An inferred schema is a sequence of fields.
LEMMA InferredFields ==
    ASSUME NEW b \in Batches, NEW format \in {"csv", "json"}, NEW f, f = Rendered(b, format),
           NEW fields, fields = Inferred(f)
    PROVE  DOMAIN fields = 1..Len(fields) /\ Len(fields) \in Nat
<1>1. CASE format = "csv"
  <2>1. f.format = "csv" /\ DOMAIN f.names = 1..Len(b.schema) /\ Len(b.schema) \in Nat
    BY <1>1, CsvFile, BatchIs
  <2>2. fields = [i \in 1..Len(b.schema) |-> fields[i]]
    BY <2>1 DEF Inferred, InferCsv
  <2> QED BY <2>1, <2>2, LenIs
<1>2. CASE format = "json"
  <2>1. f.format = "json"
    BY <1>2, JsonFile
  <2>2. AllNames(f) = {} \/ AllNames(f) = ToSet(Names(b.schema))
    BY <1>2, JsonFile DEF AllNames
  <2>3. Cardinality(AllNames(f)) \in Nat
    BY <2>2, NamesAre, FS_EmptySet, FS_CardinalityType
  <2>4. fields = [i \in 1..Cardinality(AllNames(f)) |-> fields[i]]
    BY <2>1 DEF Inferred, InferJson
  <2> QED BY <2>3, <2>4, LenIs
<1> QED BY <1>1, <1>2

LEMMA InitInv == Init => IInv
<1> SUFFICES ASSUME Init PROVE IInv
  OBVIOUS
<1>1. DOMAIN NoSchema = 1..Len(NoSchema) /\ Len(NoSchema) \in Nat
  BY DEF NoSchema
<1> QED BY <1>1 DEF Init, IInv, Contents, Fields, Answer, Fresh

LEMMA NextInv == IInv /\ [Next]_vars => IInv'
<1> SUFFICES ASSUME IInv, [Next]_vars PROVE IInv'
  OBVIOUS
<1> USE DEF IInv
<1>1. ASSUME NEW b \in Batches, NEW format \in {"csv", "json"}, Write(b, format) PROVE IInv'
  <2>1. Contents'
    BY <1>1 DEF Write, Contents
  <2>2. Fields' /\ Answer' /\ Fresh'
    BY <1>1 DEF Write, Fields, Answer, Fresh
  <2> QED BY <2>1, <2>2
<1>2. CASE Register
  <2>1. Contents' /\ Answer' /\ Fresh'
    BY <1>2 DEF Register, Contents, Answer, Fresh
  <2>2. PICK format \in {"csv", "json"} : written \in Batches /\ file = Rendered(written, format)
    BY <1>2 DEF Register, Contents
  <2>3. PICK f, fields : f = file /\ fields = Inferred(f)
    OBVIOUS
  <2>4. DOMAIN fields = 1..Len(fields) /\ Len(fields) \in Nat
    BY <2>2, <2>3, InferredFields
  <2>5. schema' = fields
    BY <1>2, <2>3 DEF Register
  <2>6. Fields'
    BY <2>4, <2>5 DEF Fields
  <2> QED BY <2>1, <2>6
<1>3. CASE Scan
  <2>1. Contents' /\ Fields' /\ Fresh'
    BY <1>3 DEF Scan, Contents, Fields, Fresh
  <2>2. Answer'
    BY <1>3 DEF Scan, Answer
  <2> QED BY <2>1, <2>2
<1>4. CASE UNCHANGED vars
  BY <1>4 DEF vars, Contents, Fields, Answer, Fresh
<1> QED BY <1>1, <1>2, <1>3, <1>4 DEF Next

\* The inductive invariant holds in every state.
THEOREM Invariance == Spec => []IInv
  BY InitInv, NextInv, PTL DEF Spec

-----------------------------------------------------------------------------
(* The theorems. *)

\* The texts of a CSV file have its columns, and an answer has a value for
\* every field.
THEOREM TypeCorrect == Spec => []TypeOK
<1>1. IInv => TypeOK
  <2> SUFFICES ASSUME IInv PROVE TypeOK
    OBVIOUS
  <2>1. file = NoFile \/ \A r \in DOMAIN file.rows :
            file.format = "csv" => Len(file.rows[r]) = Len(file.names)
    <3> SUFFICES ASSUME file # NoFile, NEW r \in DOMAIN file.rows, file.format = "csv"
                 PROVE  Len(file.rows[r]) = Len(file.names)
      OBVIOUS
    <3>1. file = Rendered(written, "csv") /\ written \in Batches
      BY FileIs, JsonFile DEF IInv
    <3> QED BY <3>1, CsvFile
  <2>2. result.ok => \A r \in DOMAIN result.rows : Len(result.rows[r]) = Len(schema)
    BY DEF IInv, Answer, NoRows
  <2> QED BY <2>1, <2>2 DEF TypeOK
<1> QED BY <1>1, Invariance, PTL

\* However old the schema, a scan of a JSON file reads by name.
THEOREM JsonByName == Spec => []JsonReadsByName
<1>1. IInv => JsonReadsByName
  <2> SUFFICES ASSUME IInv, result.ok, file.format = "json",
                      NEW r \in DOMAIN result.rows, NEW i \in DOMAIN schema
               PROVE  LET v == result.rows[r][i]
                      IN  IF schema[i][1] \in ToSet(Names(written.schema))
                          THEN LET w == ValueToJson(Column(written, schema[i][1])[r])
                               IN  \/ v = w
                                   \/ CastToString(v) = CastToString(w)
                                   \/ CastToF64(v) = CastToF64(w) /\ CastToF64(v) # No
                          ELSE IsNull(v)
    BY DEF JsonReadsByName
  <2>1. /\ file # NoFile /\ result.rows = ScanJson(file, schema)
    BY DEF IInv, Answer, NoRows, Scanned
  <2>2. written \in Batches /\ file = Rendered(written, "json")
    BY <2>1, FileIs, CsvFile DEF IInv
  <2>3. PICK b, f, n, x : b = written /\ f = file /\ n = schema[i][1] /\ x = result.rows[r][i]
    OBVIOUS
  <2>4. /\ DOMAIN f.rows = DOMAIN b.rows /\ r \in DOMAIN b.rows
        /\ DOMAIN f.rows[r] = ToSet(Names(b.schema))
        /\ n \in ToSet(Names(b.schema)) => f.rows[r][n] = ValueToJson(Column(b, n)[r])
    BY <2>1, <2>2, <2>3, JsonFile DEF ScanJson
  <2>5. x = JsonToValue(FieldByName(file.rows[r], schema, i), schema[i][2])
    BY <2>1, <2>3 DEF ScanJson
  <2>6. CASE n \in ToSet(Names(b.schema))
    <3>1. x = JsonToValue(f.rows[r][n], schema[i][2])
      BY <2>3, <2>4, <2>5, <2>6 DEF FieldByName
    <3>2. LastField(b.schema, n) \in DOMAIN b.schema
      BY <2>2, <2>3, <2>6, BatchField
    <3>3. Column(b, n)[r] \in Stored
      BY <2>2, <2>3, <2>4, <3>2, BatchIs DEF Column
    <3>4. LET w == ValueToJson(Column(b, n)[r])
          IN  \/ x = w
              \/ CastToString(x) = CastToString(w)
              \/ CastToF64(x) = CastToF64(w) /\ CastToF64(x) # No
      BY <2>4, <2>6, <3>1, <3>3, JsonCell
    <3> QED BY <2>3, <2>6, <3>4
  <2>7. CASE n \notin ToSet(Names(b.schema))
    <3>1. x = JsonToValue(Null, schema[i][2])
      BY <2>3, <2>4, <2>5, <2>7 DEF FieldByName
    <3>2. x = Null
      BY <3>1 DEF JsonToValue, Null
    <3> QED BY <2>3, <2>7, <3>2 DEF IsNull
  <2> QED BY <2>6, <2>7
<1> QED BY <1>1, Invariance, PTL

\* However old the schema, a scan of a CSV file reads by place.
THEOREM CsvByPlace == Spec => []CsvReadsByPlace
<1>1. IInv => CsvReadsByPlace
  <2> SUFFICES ASSUME IInv, result.ok, file.format = "csv", NEW r \in DOMAIN result.rows
               PROVE  /\ Len(schema) <= Len(written.schema)
                      /\ \A i \in DOMAIN schema :
                            StandsFor(Trim(ValueToCsv(written.rows[r][i])), result.rows[r][i])
    BY DEF CsvReadsByPlace
  <2>1. /\ file # NoFile /\ result.rows = ScanCsv(file, schema)
        /\ Len(result.rows[r]) = Len(schema)
    BY DEF IInv, Answer, NoRows, Scanned
  <2>2. written \in Batches /\ file = Rendered(written, "csv")
    BY <2>1, FileIs, JsonFile DEF IInv
  <2>3. PICK b, f, fields, row :
           b = written /\ f = file /\ fields = schema /\ row = result.rows[r]
    OBVIOUS
  <2>4. /\ DOMAIN f.rows = DOMAIN b.rows /\ r \in DOMAIN b.rows /\ Len(f.names) = Len(b.schema)
        /\ \A i \in DOMAIN b.schema : f.rows[r][i] = ValueToCsv(b.rows[r][i])
    BY <2>1, <2>2, <2>3, CsvFile DEF ScanCsv
  <2>5. PICK n : n = IF Len(f.names) < Len(fields) THEN Len(f.names) ELSE Len(fields)
    OBVIOUS
  <2>6. /\ Len(b.schema) \in Nat /\ DOMAIN b.schema = 1..Len(b.schema)
        /\ Len(fields) \in Nat /\ DOMAIN fields = 1..Len(fields)
    BY <2>2, <2>3, BatchIs DEF IInv, Fields
  <2>7. row = [i \in 1..n |-> CoerceValue(f.rows[r][i], fields[i][2])]
    BY <2>1, <2>3, <2>4, <2>5 DEF ScanCsv
  <2>8. n \in Nat /\ Len(row) = n
    <3>1. n \in Nat
      BY <2>4, <2>5, <2>6
    <3>2. row = [i \in 1..n |-> row[i]]
      BY <2>7
    <3> QED BY <3>1, <3>2, LenIs
  <2>9. n = Len(fields) /\ Len(fields) <= Len(b.schema)
    <3>1. Len(row) = Len(fields)
      BY <2>1, <2>3, Zenon
    <3>2. PICK x, y : x = Len(fields) /\ y = Len(b.schema)
      OBVIOUS
    <3>3. x \in Nat /\ y \in Nat /\ n = x /\ n = IF y < x THEN y ELSE x
      BY <2>4, <2>5, <2>6, <2>8, <3>1, <3>2
    <3>4. n = x /\ x <= y
      BY <3>3
    <3> QED BY <3>2, <3>4
  <2>10. ASSUME NEW i \in DOMAIN fields
         PROVE  row[i] = CoerceValue(ValueToCsv(b.rows[r][i]), fields[i][2])
    BY <2>4, <2>6, <2>7, <2>9
  <2>11. ASSUME NEW i \in DOMAIN fields
         PROVE  StandsFor(Trim(ValueToCsv(b.rows[r][i])), row[i])
    BY <2>10, CsvText
  <2> QED BY <2>3, <2>9, <2>11
<1> QED BY <1>1, Invariance, PTL

\* Scanned under a schema inferred from the same contents, every plain column
\* of a CSV file and every column of one type of a JSON file is read back.
THEOREM ReadBack == Spec => []ReadsBack
<1>1. IInv => ReadsBack
  <2> SUFFICES ASSUME IInv, result.ok, fresh PROVE ReadsBack
    BY DEF ReadsBack
  <2>1. /\ file # NoFile /\ schema = Inferred(file) /\ result.rows = Scanned(file, schema)
        /\ \A r \in DOMAIN result.rows : Len(result.rows[r]) = Len(schema)
    BY DEF IInv, Answer, Fresh, NoRows
  <2>2. /\ written \in Batches
        /\ file = Rendered(written, "csv") \/ file = Rendered(written, "json")
    BY <2>1, FileIs DEF IInv
  <2>3. PICK b, f, fields, rows :
           b = written /\ f = file /\ fields = schema /\ rows = result.rows
    OBVIOUS
  <2>4. b \in Batches /\ fields = Inferred(f) /\ rows = Scanned(f, fields)
    BY <2>1, <2>2, <2>3
  <2>5. DOMAIN fields = 1..Len(fields) /\ Len(fields) \in Nat
    BY <2>3 DEF IInv, Fields
  <2>6. /\ DOMAIN rows = DOMAIN b.rows /\ rows = [r \in 1..Len(b.rows) |-> rows[r]]
        /\ Len(b.rows) \in Nat
    <3>1. DOMAIN f.rows = DOMAIN b.rows
      BY <2>2, <2>3, CsvFile, JsonFile
    <3>2. rows = [r \in DOMAIN f.rows |-> rows[r]]
      BY <2>4 DEF Scanned, ScanCsv, ScanJson
    <3> QED BY <2>4, <3>1, <3>2, BatchIs
  <2>7. Len(rows) = Len(b.rows)
    BY <2>6, LenIs
  <2>8. ASSUME NEW n \in ToSet(Names(b.schema)), NEW values, values = Column(b, n),
               IF f.format = "csv" THEN PlainColumn(values)
               ELSE Cardinality(TypesIn(values)) <= 1 /\ "nan" \notin TypesIn(values),
               NEW r \in DOMAIN values
        PROVE  rows[r][LastField(fields, n)] = values[r]
    <3>1. PICK k : k = LastField(b.schema, n)
      OBVIOUS
    <3>2. k \in DOMAIN b.schema /\ b.schema[k][1] = n
      BY <2>4, <3>1, BatchField
    <3>3. /\ values = [q \in DOMAIN b.rows |-> b.rows[q][k]]
          /\ \A q \in DOMAIN b.rows : values[q] \in Stored /\ Printable(values[q])
      BY <2>4, <2>8, <3>1, <3>2, BatchIs DEF Column
    <3>4. CASE f = Rendered(b, "csv")
      <4>1. /\ f.format = "csv" /\ Len(f.names) = Len(b.schema) /\ DOMAIN f.names = DOMAIN b.schema
            /\ \A i \in DOMAIN b.schema : f.names[i] = b.schema[i][1]
            /\ DOMAIN f.rows = DOMAIN b.rows
            /\ \A q \in DOMAIN b.rows : f.rows[q][k] = ValueToCsv(b.rows[q][k])
        BY <2>4, <3>2, <3>4, CsvFile
      <4>2. fields = [i \in DOMAIN f.names |->
                        <<f.names[i], InferColumn([q \in DOMAIN f.rows |-> f.rows[q][i]])>>]
        BY <2>4, <4>1 DEF Inferred, InferCsv
      <4>3. PICK texts : texts = [q \in DOMAIN f.rows |-> f.rows[q][k]]
        OBVIOUS
      <4>4. /\ DOMAIN fields = DOMAIN b.schema
            /\ \A i \in DOMAIN b.schema : fields[i][1] = b.schema[i][1]
            /\ fields[k][2] = InferColumn(texts)
        BY <3>2, <4>1, <4>2, <4>3
      <4>5. {i \in DOMAIN fields : fields[i][1] = n} = {i \in DOMAIN b.schema : b.schema[i][1] = n}
        BY <4>4
      <4>6. LastField(fields, n) = k
        BY <3>1, <4>5 DEF LastField
      <4>7. CoerceValue(texts[r], InferColumn(texts)) = values[r]
        <5>1. PlainColumn(values)
          BY <2>8, <4>1
        <5>2. DOMAIN texts = DOMAIN values
          BY <3>3, <4>1, <4>3
        <5>3. \A q \in DOMAIN values : /\ values[q] \in Stored /\ Printable(values[q])
                                       /\ texts[q] = ValueToCsv(values[q])
          BY <3>3, <4>1, <4>3
        <5> QED BY <5>1, <5>2, <5>3, CsvColumn
      <4>8. Len(f.names) = Len(fields) /\ k \in 1..Len(fields)
        BY <2>4, <2>5, <3>2, <4>1, <4>4, BatchIs
      <4>9. rows[r] = [i \in 1..Len(fields) |-> CoerceValue(f.rows[r][i], fields[i][2])]
        BY <2>4, <2>8, <3>3, <4>1, <4>8 DEF Scanned, ScanCsv
      <4>10. rows[r][k] = CoerceValue(texts[r], InferColumn(texts))
        BY <2>8, <3>3, <4>1, <4>3, <4>4, <4>8, <4>9
      <4> QED BY <4>6, <4>7, <4>10
    <3>5. CASE f = Rendered(b, "json")
      <4>0. r \in DOMAIN b.rows
        BY <3>3
      <4>1. /\ f.format = "json" /\ DOMAIN f.rows = DOMAIN b.rows
            /\ n \in DOMAIN f.rows[r] /\ f.rows[r][n] = ValueToJson(values[r])
        <5>1. /\ f.format = "json" /\ DOMAIN f.rows = DOMAIN b.rows
              /\ DOMAIN f.rows[r] = ToSet(Names(b.schema))
              /\ f.rows[r][n] = ValueToJson(Column(b, n)[r])
          BY <2>4, <3>5, <4>0, JsonFile
        <5>2. values = Column(b, n)
          BY <2>8
        <5> QED BY <5>1, <5>2
      <4>2. r \in DOMAIN b.rows /\ 1 \in DOMAIN b.rows
        BY <2>4, <2>8, <3>3, BatchIs
      <4>3. PICK i : i = LastField(fields, n)
        OBVIOUS
      <4>4. i \in DOMAIN fields /\ fields[i] = <<n, ValueToJson(values[1])[1]>>
        BY <2>4, <2>8, <3>5, <4>1, <4>2, <4>3, JsonSchema DEF Inferred
      <4>5. ASSUME NEW q \in DOMAIN b.rows
            PROVE  values[q][1] \in TypesIn(values) \cup {"null"} /\ values[q] # NaN
        <5>1. "nan" \notin TypesIn(values)
          BY <2>8, <4>1
        <5>2. q \in DOMAIN values
          BY <3>3
        <5>3. values[q][1] \in TypesIn(values) \cup {"null"}
          BY <5>2 DEF TypesIn
        <5>4. values[q][1] # "nan"
          BY <5>1, <5>3
        <5> QED BY <5>3, <5>4 DEF NaN
      <4>6. ValueToJson(values[r]) = values[r] /\ ValueToJson(values[1]) = values[1]
        BY <4>2, <4>5 DEF ValueToJson
      <4>7. \A s, t \in TypesIn(values) : s = t
        <5>1. Cardinality(TypesIn(values)) <= 1
          BY <2>8, <4>1
        <5>2. IsFiniteSet({"null", "nan", "boolean", "bigint", "double", "string"})
          <6>1. IsFiniteSet({"null"} \cup {"nan"})
            BY FS_Singleton, FS_AddElement
          <6>2. IsFiniteSet(({"null"} \cup {"nan"}) \cup {"boolean"})
            BY <6>1, FS_AddElement
          <6>3. IsFiniteSet((({"null"} \cup {"nan"}) \cup {"boolean"}) \cup {"bigint"})
            BY <6>2, FS_AddElement
          <6>4. IsFiniteSet(((({"null"} \cup {"nan"}) \cup {"boolean"}) \cup {"bigint"})
                              \cup {"double"})
            BY <6>3, FS_AddElement
          <6>5. IsFiniteSet((((({"null"} \cup {"nan"}) \cup {"boolean"}) \cup {"bigint"})
                              \cup {"double"}) \cup {"string"})
            BY <6>4, FS_AddElement
          <6>6. (((({"null"} \cup {"nan"}) \cup {"boolean"}) \cup {"bigint"})
                   \cup {"double"}) \cup {"string"}
                  = {"null", "nan", "boolean", "bigint", "double", "string"}
            OBVIOUS
          <6> QED BY <6>5, <6>6
        <5>3. TypesIn(values) \in SUBSET {"null", "nan", "boolean", "bigint", "double", "string"}
          BY <3>3, StoredIs DEF TypesIn
        <5>4. IsFiniteSet(TypesIn(values))
          BY <5>2, <5>3, FS_Subset
        <5>5. Cardinality(TypesIn(values)) \in {0, 1}
          BY <5>1, <5>4, FS_CardinalityType
        <5> QED BY <5>4, <5>5, FS_EmptySet, FS_Singleton
      <4>8. values[r][1] = "null" \/ values[1][1] = "null" \/ values[1][1] = values[r][1]
        BY <4>2, <4>5, <4>7
      <4>9. JsonToValue(values[r], values[1][1]) = values[r]
        BY <3>3, <4>2, <4>8, JsonTyped
      <4>10. rows[r][i] = JsonToValue(FieldByName(f.rows[r], fields, i), fields[i][2])
        BY <2>4, <4>1, <4>2, <4>4 DEF Scanned, ScanJson
      <4>11. FieldByName(f.rows[r], fields, i) = values[r] /\ fields[i][2] = values[1][1]
        BY <4>1, <4>4, <4>6 DEF FieldByName
      <4> QED BY <4>3, <4>9, <4>10, <4>11
    <3> QED BY <2>2, <2>3, <3>4, <3>5
  <2> QED BY <2>3, <2>7, <2>8 DEF ReadsBack, ReadAt
<1> QED BY <1>1, Invariance, PTL
=============================================================================
