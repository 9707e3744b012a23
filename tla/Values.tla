------------------------------- MODULE Values -------------------------------
(***************************************************************************)
(* Values and scalar operators (crates/rspark-core: value.rs, expr.rs).    *)
(* A value is a pair of its type and its contents.  Integers have Width    *)
(* bits; a float is stored as a multiple of 1/Unit, which is exact for the *)
(* numbers of an instance; NaN is a value of its own.  A string is a token *)
(* whose spelling as a number or a boolean, if it has one, is looked up.   *)
(* Int32 and Float32 values are left out: the schema of a table is always  *)
(* inferred, and inference yields neither.                                 *)
(***************************************************************************)
EXTENDS Integers, Sequences, FiniteSets, SequencesExt, TLC

CONSTANTS
    Width,          \* bits of an i64, 64 in the code
    Unit,           \* floats are multiples of 1/Unit
    IntText,        \* IntText[s]: the i64 that string s parses to
    FloatText,      \* FloatText[s]: the float that s parses to, times Unit
    NaNText,        \* the strings that parse to NaN
    BoolText,       \* BoolText[s]: the boolean that s stands for
    Text,           \* the tokens in the order of strings
    Matches(_, _)   \* Matches(s, p): string s is LIKE pattern p

ASSUME ValuesAssumption ==
    /\ Width \in Nat \ {0} /\ Unit \in Nat \ {0}
    /\ \A s \in DOMAIN IntText :
          IntText[s] \in Int /\ s \in DOMAIN FloatText /\ FloatText[s] = Unit * IntText[s]
    /\ NaNText \cap DOMAIN FloatText = {}
    /\ Text \in Seq(STRING)

Null == <<"null", 0>>
BoolV(b) == <<"boolean", b>>
IntV(n) == <<"bigint", n>>
FloatV(x) == <<"double", x>>
NaN == <<"nan", 0>>
StrV(s) == <<"string", s>>

\* The result of an operation that returns Err or panics, and "no value" of
\* a cast or of a clause a query does not have.
Err == <<"error", 0>>
Panic == <<"panic", 0>>
No == <<"none", 0>>

Failed(x) == x[1] \in {"error", "panic"}

IsNull(v) == v = Null

IntMax == 2 ^ (Width - 1) - 1
IntMin == -(2 ^ (Width - 1))

\* i64 arithmetic of a release build, and `as i64` of a float.
Wrap(n) == ((n - IntMin) % (2 ^ Width)) + IntMin
Saturate(n) == IF n > IntMax THEN IntMax ELSE IF n < IntMin THEN IntMin ELSE n

\* Division that truncates towards zero.
Quot(a, b) == LET q == (IF a < 0 THEN -a ELSE a) \div (IF b < 0 THEN -b ELSE b)
              IN  IF (a < 0) = (b < 0) THEN q ELSE -q

-----------------------------------------------------------------------------
(***************************************************************************)
(* Casts.                                                                  *)
(***************************************************************************)
\* The text of a number of x units: a whole float is written as an integer.
NumberText(x) ==
    IF x % Unit = 0 THEN ToString(x \div Unit)
    ELSE IF \E s \in DOMAIN FloatText : FloatText[s] = x
         THEN CHOOSE s \in DOMAIN FloatText : FloatText[s] = x
    ELSE ToString(<<x, Unit>>)

CastToString(v) ==
    CASE v[1] = "null"    -> "null"
      [] v[1] = "boolean" -> IF v[2] THEN "true" ELSE "false"
      [] v[1] = "bigint"  -> NumberText(Unit * v[2])
      [] v[1] = "nan"     -> "NaN"
      [] v[1] = "string"  -> v[2]
      [] v[1] = "double"  -> NumberText(v[2])

\* A pair <<"some", x>>, with x in units, or NaN or No.
CastToF64(v) ==
    CASE v[1] = "boolean" -> <<"some", IF v[2] THEN Unit ELSE 0>>
      [] v[1] = "bigint"  -> <<"some", Unit * v[2]>>
      [] v[1] = "double"  -> <<"some", v[2]>>
      [] v[1] = "nan"     -> NaN
      [] v[1] = "string"  -> IF v[2] \in NaNText THEN NaN
                             ELSE IF v[2] \in DOMAIN FloatText
                             THEN <<"some", FloatText[v[2]]>> ELSE No
      [] OTHER            -> No

CastToI64(v) ==
    CASE v[1] = "boolean" -> <<"some", IF v[2] THEN 1 ELSE 0>>
      [] v[1] = "bigint"  -> <<"some", v[2]>>
      [] v[1] = "double"  -> <<"some", Saturate(Quot(v[2], Unit))>>
      [] v[1] = "nan"     -> <<"some", 0>>
      [] v[1] = "string"  -> IF v[2] \in DOMAIN IntText THEN <<"some", IntText[v[2]]>> ELSE No
      [] OTHER            -> No

CastToBool(v) ==
    CASE v[1] = "boolean" -> v
      [] v[1] = "bigint"  -> BoolV(v[2] # 0)
      [] v[1] = "double"  -> BoolV(v[2] # 0)
      [] v[1] = "nan"     -> BoolV(TRUE)
      [] v[1] = "string"  -> IF v[2] \in DOMAIN BoolText THEN BoolV(BoolText[v[2]]) ELSE No
      [] OTHER            -> No

-----------------------------------------------------------------------------
(***************************************************************************)
(* try_cmp: "Less", "Equal", "Greater" or "Err".  NULL comes first.        *)
(* Numbers compare across types, NaN with nothing.                         *)
(***************************************************************************)
Rank(a, b) == IF a < b THEN "Less" ELSE IF a = b THEN "Equal" ELSE "Greater"

\* The order of strings, as the position in Text.
Place(s) == CHOOSE i \in DOMAIN Text : Text[i] = s

Numeric(v) == v[1] \in {"bigint", "double"}

TryCmp(a, b) ==
    CASE IsNull(a) /\ IsNull(b) -> "Equal"
      [] IsNull(a) /\ ~IsNull(b) -> "Less"
      [] ~IsNull(a) /\ IsNull(b) -> "Greater"
      [] a[1] = "boolean" /\ b[1] = "boolean" ->
           Rank(IF a[2] THEN 1 ELSE 0, IF b[2] THEN 1 ELSE 0)
      [] Numeric(a) /\ Numeric(b) -> Rank(CastToF64(a)[2], CastToF64(b)[2])
      [] a[1] = "string" /\ b[1] = "string" -> Rank(Place(a[2]), Place(b[2]))
      [] OTHER -> "Err"

\* `==` of values compares type and contents; NaN differs from itself.
Same(a, b) == a = b /\ a # NaN

-----------------------------------------------------------------------------
(***************************************************************************)
(* Arithmetic.  Operands that both cast to integers are taken as integers, *)
(* floats with their fraction cut off included.                            *)
(***************************************************************************)
Arith(op, x, y) ==
    CASE op = "Add" -> x + y
      [] op = "Sub" -> x - y
      [] op = "Mul" -> x * y

NumericOp(op, a, b) ==
    LET i == CastToI64(a) j == CastToI64(b) x == CastToF64(a) y == CastToF64(b)
    IN  IF i # No /\ j # No THEN IntV(Wrap(Arith(op, i[2], j[2])))
        ELSE IF x = No \/ y = No THEN Err
        ELSE IF x = NaN \/ y = NaN THEN NaN
        ELSE FloatV(IF op = "Mul" THEN Quot(x[2] * y[2], Unit) ELSE Arith(op, x[2], y[2]))

NumericDiv(a, b) ==
    LET x == CastToF64(a) y == CastToF64(b)
    IN  IF x = No \/ y = No THEN Err
        ELSE IF y # NaN /\ y[2] = 0 THEN Null
        ELSE IF x = NaN \/ y = NaN THEN NaN ELSE FloatV(Quot(x[2] * Unit, y[2]))

\* The remainder has the sign of the dividend; the least integer has none by
\* -1, and Rust panics in every build.
NumericMod(a, b) ==
    LET i == CastToI64(a) j == CastToI64(b)
    IN  IF i = No \/ j = No THEN Err ELSE IF j[2] = 0 THEN Null
        ELSE IF i[2] = IntMin /\ j[2] = -1 THEN Panic
        ELSE IntV(i[2] - j[2] * Quot(i[2], j[2]))

LogicalAnd(a, b) ==
    IF a[1] = "boolean" /\ b[1] = "boolean" THEN BoolV(a[2] /\ b[2]) ELSE Err

LogicalOr(a, b) ==
    IF a[1] = "boolean" /\ b[1] = "boolean" THEN BoolV(a[2] \/ b[2]) ELSE Err

Compare(a, b, orders) ==
    LET c == TryCmp(a, b) IN IF c = "Err" THEN Err ELSE BoolV(c \in orders)

\* LIKE, on strings only.
ApplyLike(a, b) ==
    IF a[1] = "string" /\ b[1] = "string" THEN BoolV(Matches(a[2], b[2])) ELSE Err

\* apply_binary, for operands that are not NULL.
ApplyBinary(op, a, b) ==
    CASE op = "And"   -> LogicalAnd(a, b)
      [] op = "Or"    -> LogicalOr(a, b)
      [] op = "Eq"    -> BoolV(Same(a, b))
      [] op = "NotEq" -> BoolV(~Same(a, b))
      [] op = "Lt"    -> Compare(a, b, {"Less"})
      [] op = "LtEq"  -> Compare(a, b, {"Less", "Equal"})
      [] op = "Gt"    -> Compare(a, b, {"Greater"})
      [] op = "GtEq"  -> Compare(a, b, {"Greater", "Equal"})
      [] op = "Like"  -> ApplyLike(a, b)
      [] op \in {"Add", "Sub", "Mul"} -> NumericOp(op, a, b)
      [] op = "Div"   -> NumericDiv(a, b)
      [] op = "Mod"   -> NumericMod(a, b)
=============================================================================
