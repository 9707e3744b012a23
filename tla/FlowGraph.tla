----------------------------- MODULE FlowGraph -----------------------------
(***************************************************************************)
(* The flow graph of a pipeline (crates/rspark-pipelines/src/dag.rs): how  *)
(* a list of flows becomes nodes and edges, when a pipeline is refused,    *)
(* and the layers in which the runner visits the nodes.                    *)
(*                                                                         *)
(* A flow has at least a `name` and `deps`, the sequence of names in its   *)
(* depends_on.  A node is the position of a flow in the list.              *)
(***************************************************************************)
EXTENDS Integers, Sequences, FiniteSets, FiniteSetsExt, Functions

NamesOf(flows) == {flows[i].name : i \in DOMAIN flows}

(***************************************************************************)
(* name_index: each insertion overwrites, so a name that is used twice     *)
(* stands for the last flow that has it.                                   *)
(***************************************************************************)
NodeOf(flows, name) == Max({i \in DOMAIN flows : flows[i].name = name})

\* The edges: one for each name in each depends_on, so a dependency that is
\* named twice is two edges, from and to these nodes.
EdgesOf(flows) == UNION {{i} \X DOMAIN flows[i].deps : i \in DOMAIN flows}

EdgeFrom(flows, e) == NodeOf(flows, flows[e[1]].deps[e[2]])

EdgeTo(flows, e) == NodeOf(flows, flows[e[1]].name)

EdgesInto(flows, from, n) ==
    {e \in EdgesOf(flows) : EdgeFrom(flows, e) \in from /\ EdgeTo(flows, e) = n}

HasUnknownDep(flows) ==
    \E i \in DOMAIN flows : \E k \in DOMAIN flows[i].deps :
        flows[i].deps[k] \notin NamesOf(flows)

\* petgraph's toposort refuses a graph with a cycle, a self-loop included.
Cyclic(flows) ==
    \E S \in SUBSET (DOMAIN flows) \ {{}} : \A n \in S : EdgesInto(flows, S, n) # {}

\* from_pipeline: unknown names are found while edges are added, cycles after.
FromPipeline(flows) ==
    IF HasUnknownDep(flows) THEN "UnknownFlow"
    ELSE IF Cyclic(flows) THEN "Cycle" ELSE "ok"

(***************************************************************************)
(* layers(): every node starts with its in-degree; the nodes at zero form  *)
(* the next layer, leave the map and lower their successors, one edge at a *)
(* time and never below zero.  The loop ends when no node is at zero.      *)
(***************************************************************************)
InDegrees(flows) ==
    [n \in DOMAIN flows |-> Cardinality(EdgesInto(flows, DOMAIN flows, n))]

AtZero(remaining) == {n \in DOMAIN remaining : remaining[n] = 0}

SaturatingSub(a, b) == IF b > a THEN 0 ELSE a - b

\* Mutant: a successor is lowered once per layer, not once per edge.
LoweredOnce(d, edges) == IF edges > 0 THEN SaturatingSub(d, 1) ELSE d

Lowered(d, edges) == SaturatingSub(d, edges)

\* The map after one iteration.
Peeled(flows, remaining) ==
    [n \in DOMAIN remaining \ AtZero(remaining) |->
        Lowered(remaining[n], Cardinality(EdgesInto(flows, AtZero(remaining), n)))]

(***************************************************************************)
(* The flow that the runner runs for a node: the first flow of the list    *)
(* whose name stands for the node, or 0 when the node is shadowed by a     *)
(* later flow of the same name.                                            *)
(***************************************************************************)
FlowAt(flows, node) ==
    LET fs == {i \in DOMAIN flows : NodeOf(flows, flows[i].name) = node}
    IN  IF fs = {} THEN 0 ELSE Min(fs)
=============================================================================
