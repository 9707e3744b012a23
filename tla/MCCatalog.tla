----------------------------- MODULE MCCatalog -----------------------------
(***************************************************************************)
(* Small instances of Catalog.                                             *)
(***************************************************************************)
EXTENDS Catalog

CONSTANTS t1, t2, p1, p2, k1, c1, j1, r1, r2

\* The tables that are preloaded, if their files can be read.
LoadBoth == [t \in Tables |-> IF t = t1 THEN p1 ELSE p2]

\* A flow into a file and one into an object have one name; one tails.
ThreeFlows ==
    {[name |-> t1, path |-> p1, kind |-> "materialized_view", live |-> FALSE],
     [name |-> t1, path |-> k1, kind |-> "streaming_table", live |-> FALSE],
     [name |-> t2, path |-> p2, kind |-> "streaming_table", live |-> TRUE]}
=============================================================================
