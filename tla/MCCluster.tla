----------------------------- MODULE MCCluster -----------------------------
(***************************************************************************)
(* Small instances of Cluster.                                             *)
(***************************************************************************)
EXTENDS ClusterInv, ClusterRefinement, TLC

CONSTANTS j1, j2, q1, s1, w1, w2

\* Each /v1/sql query and each cluster job reads one table.
OneScan == [j \in PlannedJobs |-> 1]

\* SELECT without FROM: a single "no-input" task.
NoScan == [j \in PlannedJobs |-> 0]

\* j1 is split in two, j2 asks for parallelism 0.
TwoWays == [j \in ClusterJobs |-> IF j = j1 THEN 2 ELSE 0]

OneWay == [j \in ClusterJobs |-> 1]

WorkerSymmetry == Permutations(Workers)
=============================================================================
