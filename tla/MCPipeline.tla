----------------------------- MODULE MCPipeline -----------------------------
(***************************************************************************)
(* Small pipelines for Pipeline.                                           *)
(***************************************************************************)
EXTENDS Pipeline, TLC

CONSTANTS x1, x2, f0, f1, f2, k1, d1, q1, q2

SeedTable == [t \in {"seed"} |-> f0]

\* The NDJSON files of d1, of which the WHERE keeps x1.
Ingest(reads) == [name |-> "a", kind |-> "streaming_table", deps |-> <<>>,
                  source |-> "tail_dir", from |-> d1, reads |-> reads, keeps |-> {x1},
                  live |-> FALSE, dest |-> f1]

\* A view of the table above.
View == [name |-> "b", kind |-> "materialized_view", deps |-> <<"a">>, source |-> "sql",
         from |-> None, reads |-> "a", keeps |-> Rows, live |-> FALSE, dest |-> f2]

\* A view of the view that lands in S3.
Report == [name |-> "c", kind |-> "materialized_view", deps |-> <<"a", "b">>, source |-> "csv",
           from |-> f0, reads |-> "b", keeps |-> {x2}, live |-> FALSE, dest |-> k1]

\* A source the runner refuses, and a literal query without a table.
FromS3 == [name |-> "d", kind |-> "streaming_table", deps |-> <<"b">>, source |-> "s3",
           from |-> None, reads |-> None, keeps |-> Rows, live |-> FALSE, dest |-> f2]

\* A live flow that tails d1, and one that cannot append.
Live(dest) == [name |-> "l", kind |-> "streaming_table", deps |-> <<>>, source |-> "tail_dir",
               from |-> d1, reads |-> None, keeps |-> Rows, live |-> TRUE, dest |-> dest]

\* A live flow over a file that is read once.
LiveFile == [Live(f2) EXCEPT !.source = "csv", !.from = f0]

AfterLive == [View EXCEPT !.deps = <<"l">>, !.reads = "l"]

Cycle == <<[View EXCEPT !.deps = <<"b">>]>>

Unnamed(name, deps) == [FromS3 EXCEPT !.name = name, !.deps = deps]

\* What a flow may depend on: itself, an unknown flow, a flow twice.
Deps == {<<>>, <<"zzz">>} \cup {<<m>> : m \in {"a", "b", "c"}}
                          \cup {<<m, n>> : m, n \in {"a", "b", "c"}}

\* Every graph of three flows, all of which fail at their first step; two may
\* have the same name.
Graphs == {<<Unnamed("a", d), Unnamed(n, e), Unnamed("c", f)>> :
              d, e, f \in Deps, n \in {"a", "b"}}

Scenario(specs, posts, concurrent, changes, failures) ==
    [specs |-> specs, posts |-> posts, concurrent |-> concurrent,
     maxArrivals |-> changes, maxErrors |-> failures]

\* Two requests at a time, with live flows; one after the other; the graphs.
MCScenarios ==
    <<Scenario({<<Report, View, Ingest("seed")>>, <<AfterLive, Live(f1)>>}, {q1, q2}, 2, 1, 1),
      Scenario({<<Live(k1)>>, <<LiveFile>>, <<Ingest("a"), View>>, Cycle}, {q1, q2}, 2, 1, 1),
      Scenario({<<Report, View, Ingest("seed"), FromS3>>, <<Ingest("a"), View>>},
               {q1, q2}, 1, 2, 1),
      Scenario(Graphs, {q1}, 1, 0, 0)>>
=============================================================================
