------------------------------ MODULE MCQuery ------------------------------
(***************************************************************************)
(* Instances of Query: tables t(a, b) and u(b, c) with few rows, and the   *)
(* queries asked of them.                                                  *)
(***************************************************************************)
EXTENDS Query

\* The strings of the instances in their order, and what they parse to.
MCText == <<"", "-1", "-2", "0", "0.5", "1", "1.5", "2", "3", "a", "a|b", "b", "b|c", "c", "false",
            "null", "true", "x", "y">>
MCIntText == ("-1" :> -1) @@ ("-2" :> -2) @@ ("0" :> 0) @@ ("1" :> 1) @@ ("2" :> 2) @@ ("3" :> 3)
MCFloatText == [s \in DOMAIN MCIntText \cup {"0.5", "1.5"} |->
    IF s = "0.5" THEN 1 ELSE IF s = "1.5" THEN 3 ELSE 2 * MCIntText[s]]
MCBoolText == ("true" :> TRUE) @@ ("1" :> TRUE) @@ ("false" :> FALSE) @@ ("0" :> FALSE)
\* The patterns are "x" and "%".
MCMatches(s, p) == p = "%" \/ s = p

Id(n) == <<"id", n>>
Val(v) == <<"val", v>>
Num(n) == Val(IntV(n))
Op(o, l, r) == <<"op", o, l, r>>
Fn(f, args) == <<"fn", f, args, FALSE>>
As(e, n) == <<"as", e, n>>
Item(e) == <<"item", e>>
Wild == <<"wild">>

T(name) == [relation |-> <<"table", name>>, joins |-> <<>>]
\* JOIN without a constraint.
Join(left, name) ==
    [relation |-> <<"table", left>>,
     joins |-> <<[relation |-> <<"table", name>>, kind |-> "Inner", on |-> No]>>]

Select(from, items, where) ==
    [from |-> from, items |-> items, where |-> where, distinct |-> FALSE,
     group |-> <<"by", <<>>>>, having |-> No]
QueryOf(body, order, limit) == [with |-> FALSE, body |-> body, order |-> order, limit |-> limit]
Plain(sel) == QueryOf(<<"select", sel>>, <<>>, No)

IntCol(n) == <<<<n>>, "bigint">>
StrCol(n) == <<<<n>>, "string">>
Batch(schema, rows) == FromRecords(schema, rows)
RowsUpTo(n, values) == UNION {[1..k -> values] : k \in 0..n}

\* Tables whose columns hold one type each, with NULL in a.
Rows(A, B) == {<<x, y>> : x \in A, y \in B}
CatalogOf(ts, us) ==
    ("t" :> Batch(<<IntCol("a"), IntCol("b")>>, ts)) @@ ("u" :> Batch(<<IntCol("b"), StrCol("c")>>, us))
TRows == RowsUpTo(3, Rows({IntV(1), IntV(-2), Null}, {IntV(0), IntV(2)}))
URows == << <<IntV(0), StrV("y")>>, <<IntV(2), StrV("x")>>, <<IntV(0), Null>> >>
MCCatalogs ==
    {CatalogOf(ts, us) : ts \in TRows,
        us \in {<<>>, << <<IntV(2), StrV("x")>>, <<IntV(2), StrV("y")>> >>, URows}}
MCGroupCatalogs == {CatalogOf(ts, URows) : ts \in TRows}

TextRows == RowsUpTo(3, Rows({StrV("a"), StrV("a|b"), StrV("null"), Null}, {StrV("c"), StrV("b|c")}))
MCTextCatalogs == {("t" :> Batch(<<StrCol("a"), StrCol("b")>>, ts)) : ts \in TextRows}

Wheres == {No, Op("Eq", Id("a"), Num(1)), <<"isnull", Id("a")>>,
           Op("Or", Op("Lt", Id("a"), Id("b")), <<"not", <<"between", FALSE, Id("b"), Num(1), Num(2)>>>>),
           <<"in", TRUE, Id("a"), <<Num(1), Num(2)>>>>}
GroupWheres == {No, <<"isnull", Id("b")>>, Op("Or", <<"isnull", Id("a")>>, Op("Eq", Id("a"), Num(1)))}
ItemLists == {<<Wild>>, <<Item(Id("a")), As(Op("Sub", Id("a"), Id("b")), "n")>>,
              <<As(Fn("coalesce", <<Id("a"), Id("b")>>), "n"), Item(Id("a"))>>,
              <<Item(Id("b")), As(<<"cast", <<"neg", Id("a")>>>>, "a"), As(Op("Div", Id("a"), Id("b")), "q")>>}

\* Integers beyond the limits of Width bits, and comparisons with floats.
Plus7 == Op("Add", Id("a"), Num(7))
Less6 == Op("Sub", Id("a"), Num(6))
ArithmeticQueries ==
    {Plain(Select(<<T("t")>>, items, where)) :
        items \in {<<As(Plus7, "n"), As(Op("Mul", Less6, Id("b")), "m"), As(<<"neg", Less6>>, "k")>>,
                   <<As(Op("Mod", Less6, Op("Add", Id("a"), Num(1))), "n"),
                     As(Op("Mod", Id("a"), Id("b")), "m")>>},
        where \in {No, Op("Gt", Plus7, Id("b")), Op("LtEq", Num(7), Op("Sub", Id("a"), Num(7))),
                   Op("Lt", Id("a"), Val(FloatV(1))), Op("NotEq", Id("a"), Val(FloatV(2)))}}

MCRowQueries ==
    ArithmeticQueries \cup
    {QueryOf(<<"select", Select(<<T("t")>>, items, where)>>, order, limit) :
        items \in ItemLists, where \in Wheres,
        order \in {<<>>, << <<Id("a"), FALSE>> >>}, limit \in {No, Num(1)}}
    \cup {Plain([Select(<<T("t")>>, items, where) EXCEPT !.distinct = TRUE]) :
            items \in {<<Item(Id("a"))>>, <<Item(Id("b")), Item(Id("a"))>>}, where \in Wheres}
    \cup {QueryOf(<<"select", Select(from, <<Item(Id("c")), Item(Id("a"))>>, where)>>,
                  << <<Id("a"), TRUE>>, <<Id("c"), FALSE>> >>, No) :
            from \in {<<T("t"), T("u")>>, <<T("u"), T("t")>>, <<Join("t", "u")>>},
            where \in {No, <<"like", FALSE, Id("c"), Val(StrV("x"))>>}}
    \cup {QueryOf(<<"union", <<"select", Select(<<T("t")>>, <<Item(Id("b"))>>, where)>>,
                             <<"select", Select(<<T("u")>>, <<Item(Id("b"))>>, No)>>>>,
                  << <<Id("b"), TRUE>> >>, Num(2)) : where \in Wheres}

CountAll == Fn("count", <<<<"star">>>>)
\* HAVING over what is selected, the aggregate x included.
Havings(x) ==
    {No, Op("Gt", CountAll, Num(1)), Op("And", Op("Gt", Id("b"), Num(0)), Op("LtEq", CountAll, Num(2))),
     Op("Eq", x, Num(2)), <<"not", Op("Gt", CountAll, Num(1))>>, <<"isnotnull", x>>}
MCGroupQueries ==
    UNION {{QueryOf(<<"select", [Select(<<T("t")>>, <<Item(Id("b")), As(CountAll, "n"), Item(x)>>, where)
                                    EXCEPT !.group = <<"by", <<Id("b")>>>>, !.having = having]>>,
                    << <<Id("n"), FALSE>>, <<Id("b"), TRUE>> >>, limit) :
                where \in GroupWheres, limit \in {No, Num(1)}, having \in Havings(x)} :
            x \in {Fn(f, <<Id("a")>>) : f \in {"sum", "avg", "min", "max"}}}
    \cup {Plain(Select(<<T("t")>>, <<Item(Fn("count", <<Id("a")>>)), As(Fn(f, <<Id("a")>>), "m")>>, where)) :
            f \in {"sum", "max"}, where \in Wheres}
    \cup {Plain([Select(<<T("t"), T("u")>>, <<As(Id("c"), "k"), Item(Fn("count", <<Id("a")>>))>>, No)
                    EXCEPT !.group = <<"by", <<Id("c")>>>>])}

GroupBy(keys, items) ==
    Plain([Select(<<T("t")>>, items, No) EXCEPT !.group = <<"by", keys>>])
OneMore(e) == Op("Add", e, Num(1))

\* What is left of the columns after an aggregation, and what is not.
MCReachQueries ==
    {GroupBy(<<Id("b")>>, <<As(OneMore(e), "m"), Item(CountAll)>>) : e \in {Id("a"), Id("b"), CountAll}}
    \cup {GroupBy(<<Id("b"), Id("a")>>, <<As(Op("Sub", Id("a"), Id("b")), "m"), Item(CountAll)>>)}
MCExpressionQueries ==
    {GroupBy(<<Op("Add", Id("a"), Id("b"))>>, <<Item(Op("Add", Id("a"), Id("b"))), Item(CountAll)>>)}
MCTextQueries ==
    {Plain([Select(<<T("t")>>, items, No) EXCEPT !.distinct = TRUE]) :
        items \in {<<Item(Id("a"))>>, <<Item(Id("a")), Item(Id("b"))>>}}
    \cup {GroupBy(<<Id("a")>>, <<Item(Id("a")), Item(CountAll), Item(Fn("count", <<Id("a")>>))>>),
          GroupBy(<<Id("a"), Id("b")>>, <<Item(Id("b")), Item(Id("a")), Item(CountAll)>>)}

MCExpressionAsked == {[queries |-> MCExpressionQueries, catalogs |-> MCGroupCatalogs]}
MCAsked == {[queries |-> MCRowQueries, catalogs |-> MCCatalogs],
            [queries |-> MCGroupQueries \cup MCReachQueries \cup MCExpressionQueries,
             catalogs |-> MCGroupCatalogs],
            [queries |-> MCTextQueries, catalogs |-> MCTextCatalogs]}
=============================================================================
