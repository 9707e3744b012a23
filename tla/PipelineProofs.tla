--------------------------- MODULE PipelineProofs ---------------------------
(***************************************************************************)
(* Pipeline, for any pipelines, requests, files and faults.  The inductive *)
(* invariant has three parts besides the types: what the layers found so   *)
(* far say of the graph and what the nodes still ahead say of the run;     *)
(* what is in the destination of a flow about to be registered; and what   *)
(* has been answered.                                                      *)
(***************************************************************************)
EXTENDS Pipeline, TLAPS, FiniteSetTheorems

Busy == {"poll", "execute", "truncate", "write", "append", "register"}

PCs == {"idle", "layer", "pick", "end"} \cup Busy

Maps == UNION {[D -> Nat] : D \in SUBSET Nat}

Files == [fmt : {"none", "empty", "table", "json", "csv", "torn"}, rows : Batches]

RunRecord == [pc : PCs, flows : Seq(Flows), remaining : Maps, layers : Seq(SUBSET Nat),
              at : Nat, input : Batches, out : Batches, seen : SUBSET (Nat \cup Paths),
              listed : BOOLEAN, done : Seq(Nat), failed : Seq(Nat)]

Shape ==
    /\ scenario \in DOMAIN Scenarios
    /\ files \in [Paths \cup Keys -> Files]
    /\ inbox \in [Dirs -> Seq(Arrivals)]
    /\ tables \in [TableNames -> Entries \cup {None}]
    /\ run \in [Requests -> RunRecord]
    /\ resp \in [Requests -> {"none", "200", "400", "500"}]
    /\ registry \subseteq Specs
    /\ arrivals \in Nat /\ errors \in Nat

\* The nodes of the layers.
Ahead(layers) == UNION {layers[k] : k \in DOMAIN layers}

Disjoint(layers) ==
    \A j, k \in DOMAIN layers : j # k => layers[j] \cap layers[k] = {}

\* The edges from a set of nodes go from a layer to a later one.
Forward(fs, layers, from) ==
    \A k \in DOMAIN layers : \A n \in layers[k] : \A e \in EdgesInto(fs, from, n) :
        \E j \in DOMAIN layers : j < k /\ EdgeFrom(fs, e) \in layers[j]

\* No node could have come a layer earlier.
Tight(fs, layers) ==
    \A k \in DOMAIN layers : k > 1 => \A n \in layers[k] : EdgesInto(fs, layers[k - 1], n) # {}

\* Every node has one layer, one past the last of the nodes before it.
Longest(flows, layers) ==
    LET LayerOf(n) == CHOOSE k \in DOMAIN layers : n \in layers[k]
        Parents(n) == {EdgeFrom(flows, e) : e \in EdgesInto(flows, DOMAIN flows, n)}
    IN  /\ UNION Range(layers) = DOMAIN flows
        /\ \A j, k \in DOMAIN layers : j # k => layers[j] \cap layers[k] = {}
        /\ \A n \in DOMAIN flows :
             LayerOf(n) = 1 + Max({0} \cup {LayerOf(m) : m \in Parents(n)})

Accepted(fs) == fs \in Specs /\ ~HasUnknownDep(fs) /\ ~Cyclic(fs)

(***************************************************************************)
(* layers() under way.  The nodes without a layer have as their degree the *)
(* number of edges from each other, and each of them has an edge from      *)
(* another or from the last layer.                                         *)
(***************************************************************************)
Peeling(fs, left, remaining, layers) ==
    /\ left \cup Ahead(layers) = DOMAIN fs /\ left \cap Ahead(layers) = {}
    /\ \A n \in left : remaining[n] = Cardinality(EdgesInto(fs, left, n))
    /\ Disjoint(layers) /\ Forward(fs, layers, DOMAIN fs) /\ Tight(fs, layers)
    /\ layers # <<>> => \A n \in left : EdgesInto(fs, left \cup layers[Len(layers)], n) # {}

\* The flow that the runner runs for the name of flow i, and its node.
Chosen(fs, i) == i \in DOMAIN fs /\ FlowAt(fs, NodeOf(fs, fs[i].name)) = i

EndedOf(x) == Range(x.done) \cup Range(x.failed)

\* The layers as far as they are still ahead; what is behind has ended,
\* except for the flow that is being run, if any.
Walking(fs, layers, ended, cur) ==
    /\ Ahead(layers) \subseteq DOMAIN fs /\ Disjoint(layers)
    /\ Forward(fs, layers, Ahead(layers))
    /\ \A i \in ended \cup cur : Chosen(fs, i) /\ NodeOf(fs, fs[i].name) \notin Ahead(layers)
    /\ ended \cap cur = {}
    /\ \A n \in DOMAIN fs \ Ahead(layers) : FlowAt(fs, n) \in ended \cup cur \cup {0}
    /\ \A i \in cur : \A k \in DOMAIN fs[i].deps :
         /\ NodeOf(fs, fs[i].deps[k]) \notin Ahead(layers)
         /\ NodeOf(fs, fs[i].deps[k]) # NodeOf(fs, fs[i].name)

Counted(x) ==
    IsFiniteSet(EndedOf(x)) /\ Cardinality(EndedOf(x)) = Len(x.done) + Len(x.failed)

RunOK(x) ==
    /\ x.pc \notin {"idle", "end"} => Accepted(x.flows)
    /\ x.pc = "layer" => /\ Peeling(x.flows, DOMAIN x.remaining, x.remaining, x.layers)
                         /\ x.at = 0 /\ x.done = <<>> /\ x.failed = <<>>
    /\ x.pc = "pick" => Walking(x.flows, x.layers, EndedOf(x), {}) /\ Counted(x)
    /\ x.pc \in Busy => Walking(x.flows, x.layers, EndedOf(x), {x.at}) /\ Counted(x)

GraphInv == \A q \in Requests : RunOK(run[q]) /\ run[q].at \in 0..Len(run[q].flows)

\* What is in the destination of a flow that is being written.
Writing(x, contents, alone) ==
    /\ x.pc = "append" => x.flows[x.at].live
    /\ x.pc = "register" => contents[x.flows[x.at].dest] # Absent
    /\ alone =>
         /\ x.pc = "write" => contents[x.flows[x.at].dest].fmt = "empty"
         /\ x.pc = "register" /\ ~x.flows[x.at].live =>
              /\ contents[x.flows[x.at].dest].rows = x.out
              /\ contents[x.flows[x.at].dest].fmt \in {"table", "csv"}

DestInv ==
    /\ RegisteredExists
    /\ World.concurrent = 1 => \A p, q \in Active : p = q
    /\ \A q \in Requests : Writing(run[q], files, World.concurrent = 1)

\* The report of a run that is complete.
Complete(x) ==
    /\ {x.flows[i].name : i \in EndedOf(x)} = NamesOf(x.flows)
    /\ Len(x.done) + Len(x.failed) = Cardinality(NamesOf(x.flows))

AnswerInv ==
    \A q \in Requests : /\ resp[q] # "none" => run[q].pc = "end"
                        /\ resp[q] = "200" => Complete(run[q])

IInv == Shape /\ GraphInv /\ DestInv /\ AnswerInv

-----------------------------------------------------------------------------
(* Sets of numbers. *)

\* A set of naturals has a least element.
LEMMA Least ==
    ASSUME NEW S \in SUBSET Nat, S # {}
    PROVE  \E x \in S : \A y \in S : x <= y
<1>1. PICK x \in S : \A y \in S : <<y, x>> \notin OpToRel(<, Nat)
  BY NatLessThanWellFounded, WFMin
<1>2. ASSUME NEW y \in S PROVE x <= y
  <2>1. CASE y < x
    <3>1. <<y, x>> \in Nat \X Nat /\ <<y, x>>[1] < <<y, x>>[2]
      BY <2>1
    <3>2. <<y, x>> \in OpToRel(<, Nat)
      BY <3>1 DEF OpToRel
    <3> QED BY <1>1, <3>2
  <2> QED BY <2>1
<1> QED BY <1>2

LEMMA MinIn ==
    ASSUME NEW S \in SUBSET Nat, S # {}
    PROVE  Min(S) \in S /\ \A y \in S : Min(S) <= y
BY Least DEF Min

\* A bounded set of naturals has a greatest element.
LEMMA MaxIn ==
    ASSUME NEW b \in Nat, NEW S \in SUBSET (1..b), S # {}
    PROVE  Max(S) \in S /\ \A y \in S : Max(S) >= y
<1> DEFINE T == {m \in 0..b : b - m \in S}
<1>1. T \in SUBSET Nat
  OBVIOUS
<1>2. T # {}
  <2>1. PICK x \in S : TRUE
    OBVIOUS
  <2>2. b - x \in T
    BY <2>1
  <2> QED BY <2>2
<1>3. PICK m \in T : \A y \in T : m <= y
  BY <1>1, <1>2, Least
<1>4. \A y \in S : b - y \in T
  OBVIOUS
<1>5. b - m \in S /\ \A y \in S : b - m >= y
  BY <1>3, <1>4
<1> QED BY <1>5 DEF Max

-----------------------------------------------------------------------------
(* The flow graph. *)

LEMMA NodeOfIs ==
    ASSUME NEW fs \in Seq(Flows), NEW name \in NamesOf(fs)
    PROVE  NodeOf(fs, name) \in DOMAIN fs /\ fs[NodeOf(fs, name)].name = name
<1> DEFINE S == {i \in DOMAIN fs : fs[i].name = name}
<1>1. S \in SUBSET (1..Len(fs)) /\ S # {} /\ Len(fs) \in Nat
  BY DEF NamesOf
<1>2. Max(S) \in S
  BY <1>1, MaxIn
<1> QED BY <1>2 DEF NodeOf

LEMMA FlowAtIs ==
    ASSUME NEW fs \in Seq(Flows), NEW n
    PROVE  /\ FlowAt(fs, n) \in 0..Len(fs)
           /\ FlowAt(fs, n) # 0 => NodeOf(fs, fs[FlowAt(fs, n)].name) = n
           /\ FlowAt(fs, n) = 0 => \A i \in DOMAIN fs : NodeOf(fs, fs[i].name) # n
<1> DEFINE S == {i \in DOMAIN fs : NodeOf(fs, fs[i].name) = n}
<1>1. S \in SUBSET Nat /\ S \subseteq 1..Len(fs) /\ Len(fs) \in Nat
  OBVIOUS
<1>2. CASE S = {}
  BY <1>1, <1>2 DEF FlowAt
<1>3. CASE S # {}
  <2>1. Min(S) \in S
    BY <1>1, <1>3, MinIn
  <2> QED BY <1>1, <1>3, <2>1 DEF FlowAt
<1> QED BY <1>2, <1>3

LEMMA EdgesFinite ==
    ASSUME NEW fs \in Seq(Flows)
    PROVE  IsFiniteSet(EdgesOf(fs))
<1> DEFINE Out(i) == {i} \X DOMAIN fs[i].deps
           Family == {Out(i) : i \in DOMAIN fs}
           f == [i \in DOMAIN fs |-> Out(i)]
<1>1. IsFiniteSet(DOMAIN fs)
  BY FS_Interval
<1>2. f \in Surjection(DOMAIN fs, Family)
  BY DEF Surjection
<1>3. IsFiniteSet(Family)
  BY <1>1, <1>2, FS_Surjection
<1>4. ASSUME NEW i \in DOMAIN fs PROVE IsFiniteSet(Out(i))
  <2>1. fs[i] \in Flows
    OBVIOUS
  <2>2. fs[i].deps \in Seq(STRING)
    BY <2>1 DEF Flows
  <2>3. IsFiniteSet(DOMAIN fs[i].deps)
    BY <2>2, FS_Interval
  <2> QED BY <2>3, FS_Singleton, FS_Product
<1>5. \A T \in Family : IsFiniteSet(T)
  BY <1>4
<1>6. IsFiniteSet(UNION Family)
  BY <1>3, <1>5, FS_UNION
<1> QED BY <1>6 DEF EdgesOf

LEMMA IntoFinite ==
    ASSUME NEW fs \in Seq(Flows), NEW from, NEW n
    PROVE  /\ IsFiniteSet(EdgesInto(fs, from, n))
           /\ Cardinality(EdgesInto(fs, from, n)) \in Nat
           /\ Cardinality(EdgesInto(fs, from, n)) = 0 <=> EdgesInto(fs, from, n) = {}
<1>1. EdgesInto(fs, from, n) \in SUBSET EdgesOf(fs)
  BY DEF EdgesInto
<1>2. IsFiniteSet(EdgesInto(fs, from, n))
  BY <1>1, EdgesFinite, FS_Subset
<1> QED BY <1>2, FS_CardinalityType, FS_EmptySet

\* The edges of an accepted pipeline are between its nodes.
LEMMA EdgeEnds ==
    ASSUME NEW fs \in Seq(Flows), ~HasUnknownDep(fs), NEW e \in EdgesOf(fs)
    PROVE  EdgeFrom(fs, e) \in DOMAIN fs /\ EdgeTo(fs, e) \in DOMAIN fs
<1>1. PICK i \in DOMAIN fs : e \in {i} \X DOMAIN fs[i].deps
  BY DEF EdgesOf
<1>2. e[1] = i /\ e[2] \in DOMAIN fs[i].deps
  BY <1>1
<1>3. fs[i].deps[e[2]] \in NamesOf(fs) /\ fs[i].name \in NamesOf(fs)
  BY <1>2 DEF HasUnknownDep, NamesOf
<1> QED BY <1>2, <1>3, NodeOfIs DEF EdgeFrom, EdgeTo

\* Taking a layer away from its nodes takes its edges away, no more.
LEMMA DegreesDrop ==
    ASSUME NEW fs \in Seq(Flows), NEW left, NEW layer \in SUBSET left, NEW n
    PROVE  Lowered(Cardinality(EdgesInto(fs, left, n)), Cardinality(EdgesInto(fs, layer, n)))
             = Cardinality(EdgesInto(fs, left \ layer, n))
<1> DEFINE A == EdgesInto(fs, left, n)
           B == EdgesInto(fs, layer, n)
           C == EdgesInto(fs, left \ layer, n)
<1>1. C = A \ B /\ A \cap B = B
  BY DEF EdgesInto
<1>2. /\ IsFiniteSet(A) /\ Cardinality(A) \in Nat
      /\ Cardinality(B) \in Nat /\ Cardinality(C) \in Nat
  BY IntoFinite
<1> HIDE DEF A, B, C
<1>3. Cardinality(C) = Cardinality(A) - Cardinality(B)
  <2>1. Cardinality(A \ B) = Cardinality(A) - Cardinality(A \cap B)
    BY <1>2, FS_Difference
  <2> QED BY <1>1, <2>1
<1>4. Lowered(Cardinality(A), Cardinality(B)) = Cardinality(C)
  BY <1>2, <1>3 DEF Lowered, SaturatingSub
<1> QED BY <1>4 DEF A, B, C

-----------------------------------------------------------------------------
(* layers(). *)

LEMMA PeelStarts ==
    ASSUME NEW fs \in Seq(Flows)
    PROVE  Peeling(fs, DOMAIN InDegrees(fs), InDegrees(fs), <<>>)
<1>1. PICK none : none = <<>>
  OBVIOUS
<1>2. DOMAIN none = {}
  BY <1>1
<1>3. Ahead(none) = {} /\ Disjoint(none) /\ Forward(fs, none, DOMAIN fs) /\ Tight(fs, none)
  BY <1>2 DEF Ahead, Disjoint, Forward, Tight
<1>4. PICK degrees : degrees = InDegrees(fs)
  OBVIOUS
<1>5. /\ DOMAIN degrees = DOMAIN fs
      /\ \A n \in DOMAIN fs : degrees[n] = Cardinality(EdgesInto(fs, DOMAIN fs, n))
  BY <1>4 DEF InDegrees
<1> QED BY <1>1, <1>3, <1>4, <1>5 DEF Peeling

\* One iteration finds the next layer.
LEMMA PeelSteps ==
    ASSUME NEW fs \in Seq(Flows), ~HasUnknownDep(fs), NEW left \in SUBSET Nat,
           NEW remaining \in [left -> Nat], NEW layers \in Seq(SUBSET Nat),
           Peeling(fs, left, remaining, layers), AtZero(remaining) # {}
    PROVE  /\ DOMAIN Peeled(fs, remaining) = left \ AtZero(remaining)
           /\ Peeling(fs, left \ AtZero(remaining), Peeled(fs, remaining),
                      Append(layers, AtZero(remaining)))
<1>1. PICK layer \in SUBSET left : layer = AtZero(remaining)
  BY DEF AtZero
<1>2. PICK rest \in SUBSET left : rest = left \ layer
  OBVIOUS
<1>0. Append(layers, layer) \in Seq(SUBSET Nat)
  <2>1. PICK S : S = SUBSET Nat
    OBVIOUS
  <2>2. layers \in Seq(S) /\ layer \in S
    BY <2>1
  <2> QED BY <2>1, <2>2
<1>3. PICK more \in Seq(SUBSET Nat) : more = Append(layers, layer)
  BY <1>0
<1>4. /\ DOMAIN more = 1..(Len(layers) + 1) /\ Len(more) = Len(layers) + 1
      /\ DOMAIN layers = 1..Len(layers) /\ Len(layers) \in Nat
      /\ \A k \in DOMAIN layers : more[k] = layers[k]
      /\ more[Len(layers) + 1] = layer
  BY <1>3
<1>5. Ahead(more) = Ahead(layers) \cup layer
  <2>1. \A k \in DOMAIN more : k = Len(layers) + 1 \/ k \in DOMAIN layers
    BY <1>4
  <2>2. Len(layers) + 1 \in DOMAIN more /\ DOMAIN layers \subseteq DOMAIN more
    BY <1>4
  <2>3. ASSUME NEW n, n \in Ahead(more) PROVE n \in Ahead(layers) \cup layer
    <3>1. PICK k \in DOMAIN more : n \in more[k]
      BY <2>3 DEF Ahead
    <3> QED BY <1>4, <2>1, <3>1 DEF Ahead
  <2>4. ASSUME NEW n, n \in Ahead(layers) PROVE n \in Ahead(more)
    <3>1. PICK k \in DOMAIN layers : n \in layers[k]
      BY <2>4 DEF Ahead
    <3> QED BY <1>4, <2>2, <3>1 DEF Ahead
  <2>5. layer \subseteq Ahead(more)
    BY <1>4, <2>2 DEF Ahead
  <2> QED BY <2>3, <2>4, <2>5
<1>6. Peeled(fs, remaining) \in [rest -> Nat] /\ \A n \in rest :
          Peeled(fs, remaining)[n] = Cardinality(EdgesInto(fs, rest, n))
  <2>1. \A n \in rest : Lowered(remaining[n], Cardinality(EdgesInto(fs, layer, n)))
                          = Cardinality(EdgesInto(fs, rest, n))
    BY <1>1, <1>2, DegreesDrop DEF Peeling
  <2>2. \A n \in rest : Cardinality(EdgesInto(fs, rest, n)) \in Nat
    BY IntoFinite
  <2> QED BY <1>1, <1>2, <2>1, <2>2 DEF Peeled
<1>7. rest \cup Ahead(more) = DOMAIN fs /\ rest \cap Ahead(more) = {}
  BY <1>2, <1>5 DEF Peeling
<1>8. Disjoint(more)
  <2>1. \A k \in DOMAIN layers : layers[k] \cap layer = {}
    BY DEF Peeling, Ahead
  <2> SUFFICES ASSUME NEW j \in DOMAIN more, NEW k \in DOMAIN more, j # k
               PROVE  more[j] \cap more[k] = {}
    BY DEF Disjoint
  <2>2. CASE j \in DOMAIN layers /\ k \in DOMAIN layers
    <3>1. layers[j] \cap layers[k] = {}
      BY <2>2 DEF Peeling, Disjoint
    <3> QED BY <1>4, <2>2, <3>1
  <2>3. CASE j = Len(layers) + 1
    <3>1. k \in DOMAIN layers
      BY <1>4, <2>3
    <3> QED BY <1>4, <2>1, <2>3, <3>1
  <2>4. CASE k = Len(layers) + 1
    <3>1. j \in DOMAIN layers
      BY <1>4, <2>4
    <3> QED BY <1>4, <2>1, <2>4, <3>1
  <2> QED BY <1>4, <2>2, <2>3, <2>4
\* A node at zero has all its edges from earlier layers.
<1>9. Forward(fs, more, DOMAIN fs)
  <2> SUFFICES ASSUME NEW k \in DOMAIN more, NEW n \in more[k],
                      NEW e \in EdgesInto(fs, DOMAIN fs, n)
               PROVE  \E j \in DOMAIN more : j < k /\ EdgeFrom(fs, e) \in more[j]
    BY DEF Forward
  <2>1. CASE k \in DOMAIN layers
    <3>1. PICK j \in DOMAIN layers : j < k /\ EdgeFrom(fs, e) \in layers[j]
      BY <1>4, <2>1 DEF Peeling, Forward
    <3> QED BY <1>4, <3>1
  <2>2. CASE k = Len(layers) + 1
    <3>1. n \in left /\ Cardinality(EdgesInto(fs, left, n)) = 0
      BY <1>1, <1>4, <2>2 DEF AtZero, Peeling
    <3>2. EdgesInto(fs, left, n) = {}
      BY <3>1, IntoFinite
    <3>3. EdgeFrom(fs, e) \in DOMAIN fs \ left
      BY <3>2 DEF EdgesInto
    <3>4. EdgeFrom(fs, e) \in Ahead(layers)
      BY <3>3 DEF Peeling
    <3>5. PICK j \in DOMAIN layers : EdgeFrom(fs, e) \in layers[j]
      BY <3>4 DEF Ahead
    <3> QED BY <1>4, <2>2, <3>5
  <2> QED BY <1>4, <2>1, <2>2
\* It has one from the layer before, or it would have been at zero then.
<1>10. Tight(fs, more)
  <2> SUFFICES ASSUME NEW k \in DOMAIN more, k > 1, NEW n \in more[k]
               PROVE  EdgesInto(fs, more[k - 1], n) # {}
    BY DEF Tight
  <2>1. CASE k \in DOMAIN layers
    <3>1. k - 1 \in DOMAIN layers
      BY <1>4, <2>1
    <3> QED BY <1>4, <2>1, <3>1 DEF Peeling, Tight
  <2>2. CASE k = Len(layers) + 1
    <3>1. n \in left /\ Cardinality(EdgesInto(fs, left, n)) = 0
      BY <1>1, <1>4, <2>2 DEF AtZero, Peeling
    <3>2. EdgesInto(fs, left, n) = {}
      BY <3>1, IntoFinite
    <3>0. layers # <<>>
      BY <1>4, <2>2
    <3>3. EdgesInto(fs, left \cup layers[Len(layers)], n) # {}
      BY <3>0, <3>1 DEF Peeling
    <3>4. EdgesInto(fs, layers[Len(layers)], n) # {}
      BY <3>2, <3>3 DEF EdgesInto
    <3>5. more[k - 1] = layers[Len(layers)]
      <4>1. k - 1 = Len(layers) /\ Len(layers) \in DOMAIN layers
        BY <1>4, <2>2
      <4> QED BY <1>4, <4>1
    <3> QED BY <3>4, <3>5
  <2> QED BY <1>4, <2>1, <2>2
<1>11. \A n \in rest : EdgesInto(fs, rest \cup more[Len(more)], n) # {}
  <2> SUFFICES ASSUME NEW n \in rest PROVE EdgesInto(fs, rest \cup layer, n) # {}
    BY <1>4
  <2>1. Cardinality(EdgesInto(fs, left, n)) # 0
    BY <1>1, <1>2 DEF AtZero, Peeling
  <2>2. EdgesInto(fs, left, n) # {}
    BY <2>1, IntoFinite
  <2>3. rest \cup layer = left
    BY <1>2
  <2> QED BY <2>2, <2>3
<1>12. Peeling(fs, rest, Peeled(fs, remaining), more)
  BY <1>6, <1>7, <1>8, <1>9, <1>10, <1>11 DEF Peeling
<1> QED BY <1>1, <1>2, <1>3, <1>6, <1>12

\* When no node is at zero, none is left: those left would form a cycle.
LEMMA PeelEnds ==
    ASSUME NEW fs \in Seq(Flows), ~Cyclic(fs), NEW left \in SUBSET Nat,
           NEW remaining \in [left -> Nat], NEW layers,
           Peeling(fs, left, remaining, layers), AtZero(remaining) = {}
    PROVE  left = {}
<1>1. ASSUME NEW n \in left PROVE EdgesInto(fs, left, n) # {}
  <2>1. Cardinality(EdgesInto(fs, left, n)) # 0
    BY DEF Peeling, AtZero
  <2> QED BY <2>1, IntoFinite
<1>2. left \subseteq DOMAIN fs
  BY DEF Peeling
<1> QED BY <1>1, <1>2 DEF Cyclic

\* The layers of all nodes are those of the longest paths.
LEMMA LongestPath ==
    ASSUME NEW fs \in Seq(Flows), NEW layers \in Seq(SUBSET Nat),
           Ahead(layers) = DOMAIN fs, Disjoint(layers), Forward(fs, layers, DOMAIN fs),
           Tight(fs, layers), NEW n \in DOMAIN fs
    PROVE  LET LayerOf(m) == CHOOSE k \in DOMAIN layers : m \in layers[k]
               Parents == {EdgeFrom(fs, e) : e \in EdgesInto(fs, DOMAIN fs, n)}
           IN  LayerOf(n) = 1 + Max({0} \cup {LayerOf(m) : m \in Parents})
<1> DEFINE LayerOf(m) == CHOOSE k \in DOMAIN layers : m \in layers[k]
           Parents == {EdgeFrom(fs, e) : e \in EdgesInto(fs, DOMAIN fs, n)}
           S == {0} \cup {LayerOf(m) : m \in Parents}
<1>1. DOMAIN layers = 1..Len(layers) /\ Len(layers) \in Nat
  OBVIOUS
<1>2. ASSUME NEW k \in DOMAIN layers, NEW m \in layers[k] PROVE LayerOf(m) = k
  <2>1. LayerOf(m) \in DOMAIN layers /\ m \in layers[LayerOf(m)]
    OBVIOUS
  <2> HIDE DEF LayerOf
  <2> QED BY <1>2, <2>1 DEF Disjoint
<1>3. PICK k \in DOMAIN layers : n \in layers[k]
  BY DEF Ahead
<1>4. LayerOf(n) = k /\ k \in Nat /\ k >= 1
  BY <1>1, <1>2, <1>3
<1> HIDE DEF LayerOf
<1>5. ASSUME NEW m \in Parents PROVE LayerOf(m) \in 0..(k - 1)
  <2>1. PICK e \in EdgesInto(fs, DOMAIN fs, n) : m = EdgeFrom(fs, e)
    OBVIOUS
  <2>2. PICK j \in DOMAIN layers : j < k /\ m \in layers[j]
    BY <1>3, <2>1 DEF Forward
  <2>3. LayerOf(m) = j
    BY <1>2, <2>2
  <2> QED BY <1>1, <2>2, <2>3
<1>6. k - 1 \in S
  <2>1. CASE k = 1
    BY <2>1
  <2>2. CASE k > 1
    <3>1. k - 1 \in DOMAIN layers
      BY <1>1, <2>2
    <3>2. PICK e : e \in EdgesInto(fs, layers[k - 1], n)
      BY <1>3, <2>2 DEF Tight
    <3>3. layers[k - 1] \subseteq DOMAIN fs
      BY <3>1 DEF Ahead
    <3>4. e \in EdgesInto(fs, DOMAIN fs, n) /\ EdgeFrom(fs, e) \in layers[k - 1]
      BY <3>2, <3>3 DEF EdgesInto
    <3>5. LayerOf(EdgeFrom(fs, e)) = k - 1 /\ EdgeFrom(fs, e) \in Parents
      BY <1>2, <3>1, <3>4
    <3> QED BY <3>5
  <2> QED BY <1>4, <2>1, <2>2
<1>7. \A y \in S : y \in 0..(k - 1)
  BY <1>4, <1>5
<1> HIDE DEF S
<1>8. Max(S) \in S /\ \A y \in S : Max(S) >= y
  BY <1>4, <1>6, <1>7 DEF Max
<1>9. Max(S) = k - 1
  BY <1>4, <1>6, <1>7, <1>8
<1>10. LayerOf(n) = 1 + Max(S)
  BY <1>4, <1>9
<1> QED BY <1>10 DEF S, LayerOf

-----------------------------------------------------------------------------
(* The walk along the layers. *)

\* The walk can start when every node has its layer.
LEMMA WalkStarts ==
    ASSUME NEW fs \in Seq(Flows), NEW remaining, NEW layers \in Seq(SUBSET Nat),
           Peeling(fs, {}, remaining, layers)
    PROVE  Walking(fs, layers, {}, {})
<1>1. Ahead(layers) = DOMAIN fs /\ Disjoint(layers) /\ Forward(fs, layers, DOMAIN fs)
  BY DEF Peeling
<1> QED BY <1>1 DEF Walking

\* Taking a node out of the first layer leaves the others in their order.
LEMMA WithoutIs ==
    ASSUME NEW layers \in Seq(SUBSET Nat), layers # <<>>, NEW n \in Head(layers)
    PROVE  /\ Without(layers, n) \in Seq(SUBSET Nat)
           /\ Head(layers) = {n} =>
                /\ Len(Without(layers, n)) = Len(layers) - 1
                /\ \A k \in 1..(Len(layers) - 1) : Without(layers, n)[k] = layers[k + 1]
           /\ Head(layers) # {n} =>
                /\ Len(Without(layers, n)) = Len(layers)
                /\ Without(layers, n)[1] = layers[1] \ {n}
                /\ \A k \in 2..Len(layers) : Without(layers, n)[k] = layers[k]
<1>1. PICK S : S = SUBSET Nat
  OBVIOUS
<1>2. layers \in Seq(S) /\ Len(layers) \in Nat /\ Len(layers) >= 1 /\ Head(layers) = layers[1]
  BY <1>1
<1>3. PICK tail : tail = Tail(layers)
  OBVIOUS
<1>4. /\ tail \in Seq(S) /\ Len(tail) = Len(layers) - 1
      /\ \A k \in 1..(Len(layers) - 1) : tail[k] = layers[k + 1]
  BY <1>2, <1>3
<1>5. CASE Head(layers) = {n}
  <2>1. Without(layers, n) = tail
    BY <1>3, <1>5 DEF Without
  <2> QED BY <1>1, <1>4, <1>5, <2>1
<1>6. CASE Head(layers) # {n}
  <2>1. PICK h : h = Head(layers) \ {n}
    OBVIOUS
  <2>2. Without(layers, n) = <<h>> \o tail
    BY <1>3, <1>6, <2>1 DEF Without
  <2>3. h \in S
    <3>1. Head(layers) \in S
      BY <1>2
    <3> QED BY <1>1, <2>1, <3>1
  <2>4. PICK rest : rest = <<h>> \o tail
    OBVIOUS
  <2>5. /\ rest \in Seq(S) /\ Len(rest) = Len(layers) /\ rest[1] = h
        /\ \A k \in 2..Len(layers) : rest[k] = tail[k - 1]
    BY <1>2, <1>4, <2>3, <2>4
  <2>6. ASSUME NEW k \in 2..Len(layers) PROVE rest[k] = layers[k]
    <3>1. k - 1 \in 1..(Len(layers) - 1) /\ (k - 1) + 1 = k
      BY <1>2
    <3>2. tail[k - 1] = layers[(k - 1) + 1]
      BY <1>4, <3>1
    <3> QED BY <2>5, <3>1, <3>2
  <2>7. rest = Without(layers, n) /\ rest[1] = layers[1] \ {n}
    BY <1>2, <2>1, <2>2, <2>4, <2>5
  <2> HIDE <2>2, <2>4
  <2> QED BY <1>1, <1>6, <2>5, <2>6, <2>7
<1> QED BY <1>5, <1>6

LEMMA WithoutKeeps ==
    ASSUME NEW layers \in Seq(SUBSET Nat), layers # <<>>, NEW n \in Head(layers),
           Disjoint(layers), NEW fs, Forward(fs, layers, Ahead(layers))
    PROVE  /\ Ahead(Without(layers, n)) = Ahead(layers) \ {n}
           /\ Disjoint(Without(layers, n))
           /\ Forward(fs, Without(layers, n), Ahead(Without(layers, n)))
<1>1. PICK rest \in Seq(SUBSET Nat) : rest = Without(layers, n)
  BY WithoutIs
<1>2. /\ DOMAIN layers = 1..Len(layers) /\ Len(layers) \in Nat /\ Len(layers) >= 1
      /\ DOMAIN rest = 1..Len(rest) /\ Head(layers) = layers[1] /\ n \in layers[1]
  OBVIOUS
<1>3. PICK d \in {0, 1} :
        /\ \A k \in DOMAIN layers : \A m \in layers[k] :
             m # n => k - d \in DOMAIN rest /\ m \in rest[k - d]
        /\ \A k \in DOMAIN rest : \A m \in rest[k] :
             k + d \in DOMAIN layers /\ m \in layers[k + d] /\ m # n
  <2>0. \A k \in DOMAIN layers : k # 1 => n \notin layers[k]
    BY <1>2 DEF Disjoint
  <2>1. CASE Head(layers) = {n}
    <3>1. Len(rest) = Len(layers) - 1 /\ \A k \in 1..(Len(layers) - 1) : rest[k] = layers[k + 1]
      BY <1>1, <2>1, WithoutIs
    <3>2. ASSUME NEW k \in DOMAIN layers, NEW m \in layers[k], m # n
          PROVE  k - 1 \in DOMAIN rest /\ m \in rest[k - 1]
      <4>1. k - 1 \in 1..(Len(layers) - 1) /\ (k - 1) + 1 = k
        BY <1>2, <2>1, <3>2
      <4>2. rest[k - 1] = layers[(k - 1) + 1]
        BY <3>1, <4>1
      <4> QED BY <1>2, <3>1, <4>1, <4>2
    <3>3. ASSUME NEW k \in DOMAIN rest, NEW m \in rest[k]
          PROVE  k + 1 \in DOMAIN layers /\ m \in layers[k + 1] /\ m # n
      <4>1. k + 1 \in DOMAIN layers /\ k + 1 # 1 /\ rest[k] = layers[k + 1]
        BY <1>2, <3>1
      <4> QED BY <2>0, <4>1
    <3> QED BY <3>2, <3>3
  <2>2. CASE Head(layers) # {n}
    <3>1. /\ Len(rest) = Len(layers) /\ rest[1] = layers[1] \ {n}
          /\ \A k \in 2..Len(layers) : rest[k] = layers[k]
      BY <1>1, <2>2, WithoutIs
    <3>2. DOMAIN rest = DOMAIN layers /\ \A k \in DOMAIN layers : rest[k] = layers[k] \ {n}
      <4>1. \A k \in DOMAIN layers : k = 1 \/ k \in 2..Len(layers)
        BY <1>2
      <4>2. \A k \in 2..Len(layers) : layers[k] = layers[k] \ {n}
        BY <1>2, <2>0
      <4> QED BY <1>2, <3>1, <4>1, <4>2
    <3>3. \A k \in DOMAIN layers : k - 0 = k /\ k + 0 = k
      BY <1>2
    <3> HIDE <3>1
    <3>4. /\ \A k \in DOMAIN layers : \A m \in layers[k] :
               m # n => k - 0 \in DOMAIN rest /\ m \in rest[k - 0]
          /\ \A k \in DOMAIN rest : \A m \in rest[k] :
               k + 0 \in DOMAIN layers /\ m \in layers[k + 0] /\ m # n
      BY <3>2, <3>3
    <3> QED BY <3>4
  <2> QED BY <2>1, <2>2
<1>4. \A k \in DOMAIN layers : \A m \in layers[k] :
        m # n => k - d \in DOMAIN rest /\ m \in rest[k - d]
  BY <1>3
<1>5. \A k \in DOMAIN rest : \A m \in rest[k] :
        k + d \in DOMAIN layers /\ m \in layers[k + d] /\ m # n
  BY <1>3
<1>6. Ahead(rest) = Ahead(layers) \ {n}
  BY <1>4, <1>5 DEF Ahead
<1>7. Disjoint(rest)
  <2> SUFFICES ASSUME NEW j \in DOMAIN rest, NEW k \in DOMAIN rest, j # k,
                      NEW m \in rest[j], m \in rest[k]
               PROVE  FALSE
    BY DEF Disjoint
  <2>1. /\ j + d \in DOMAIN layers /\ k + d \in DOMAIN layers
        /\ m \in layers[j + d] /\ m \in layers[k + d]
    BY <1>5
  <2>2. j + d # k + d
    BY <1>2
  <2> QED BY <2>1, <2>2 DEF Disjoint
<1>8. Forward(fs, rest, Ahead(rest))
  <2> SUFFICES ASSUME NEW k \in DOMAIN rest, NEW m \in rest[k],
                      NEW e \in EdgesInto(fs, Ahead(rest), m)
               PROVE  \E j \in DOMAIN rest : j < k /\ EdgeFrom(fs, e) \in rest[j]
    BY DEF Forward
  <2>1. k + d \in DOMAIN layers /\ m \in layers[k + d]
    BY <1>5
  <2>2. e \in EdgesInto(fs, Ahead(layers), m) /\ EdgeFrom(fs, e) # n
    BY <1>6 DEF EdgesInto
  <2>3. PICK j \in DOMAIN layers : j < k + d /\ EdgeFrom(fs, e) \in layers[j]
    BY <2>1, <2>2 DEF Forward
  <2>4. j - d \in DOMAIN rest /\ EdgeFrom(fs, e) \in rest[j - d]
    BY <1>4, <2>2, <2>3
  <2>5. j - d < k
    BY <1>2, <2>3
  <2> QED BY <2>4, <2>5
<1> QED BY <1>1, <1>6, <1>7, <1>8

\* The flow of a node of the first layer, if any, becomes the current one.
LEMMA WalkPicks ==
    ASSUME NEW fs \in Seq(Flows), NEW layers \in Seq(SUBSET Nat), layers # <<>>,
           NEW ended, Walking(fs, layers, ended, {}), NEW n \in Head(layers)
    PROVE  Walking(fs, Without(layers, n), ended,
                   IF FlowAt(fs, n) = 0 THEN {} ELSE {FlowAt(fs, n)})
<1>1. PICK rest : rest = Without(layers, n)
  OBVIOUS
<1>2. /\ Ahead(rest) = Ahead(layers) \ {n} /\ Disjoint(rest)
      /\ Forward(fs, rest, Ahead(rest))
  BY <1>1, WithoutKeeps DEF Walking
<1>3. PICK f : f = FlowAt(fs, n)
  OBVIOUS
<1>4. f \in 0..Len(fs) /\ (f # 0 => NodeOf(fs, fs[f].name) = n)
  BY <1>3, FlowAtIs
<1>5. DOMAIN fs = 1..Len(fs) /\ Len(fs) \in Nat
  OBVIOUS
<1>6. 1 \in DOMAIN layers /\ n \in layers[1] /\ n \in Ahead(layers) /\ DOMAIN layers \subseteq Nat \ {0}
  BY DEF Ahead
<1>7. CASE f = 0
  BY <1>1, <1>2, <1>3, <1>4, <1>5, <1>7 DEF Walking
<1>8. CASE f # 0
  <2>1. f \in DOMAIN fs /\ NodeOf(fs, fs[f].name) = n
    BY <1>4, <1>5, <1>8
  <2>2. Chosen(fs, f)
    BY <1>3, <2>1 DEF Chosen
  <2>3. f \notin ended
    BY <1>6, <2>1 DEF Walking
  <2>4. ASSUME NEW k \in DOMAIN fs[f].deps
        PROVE  NodeOf(fs, fs[f].deps[k]) \notin Ahead(layers)
    <3>1. PICK e : e = <<f, k>>
      OBVIOUS
    <3>2. /\ e \in EdgesOf(fs) /\ EdgeTo(fs, e) = n
          /\ EdgeFrom(fs, e) = NodeOf(fs, fs[f].deps[k])
      <4>1. e[1] = f /\ e[2] = k
        BY <3>1
      <4>2. e \in {f} \X DOMAIN fs[f].deps
        BY <3>1
      <4> QED BY <2>1, <4>1, <4>2 DEF EdgesOf, EdgeTo, EdgeFrom
    <3>3. CASE EdgeFrom(fs, e) \in Ahead(layers)
      <4>1. e \in EdgesInto(fs, Ahead(layers), n)
        BY <3>2, <3>3 DEF EdgesInto
      <4>2. PICK j \in DOMAIN layers : j < 1
        BY <1>6, <4>1 DEF Walking, Forward
      <4> QED BY <1>6, <4>2
    <3> QED BY <3>2, <3>3
  <2>5. \A i \in ended \cup {f} : Chosen(fs, i) /\ NodeOf(fs, fs[i].name) \notin Ahead(rest)
    BY <1>2, <2>1, <2>2 DEF Walking
  <2>6. \A m \in DOMAIN fs \ Ahead(rest) : FlowAt(fs, m) \in ended \cup {f} \cup {0}
    BY <1>2, <1>3 DEF Walking
  <2>7. Walking(fs, rest, ended, {f})
    <3>1. Ahead(rest) \subseteq DOMAIN fs
      BY <1>2 DEF Walking
    <3>2. \A k \in DOMAIN fs[f].deps : /\ NodeOf(fs, fs[f].deps[k]) \notin Ahead(rest)
                                       /\ NodeOf(fs, fs[f].deps[k]) # NodeOf(fs, fs[f].name)
      BY <1>2, <1>6, <2>1, <2>4
    <3> QED BY <1>2, <2>3, <2>5, <2>6, <3>1, <3>2 DEF Walking
  <2> QED BY <1>1, <1>3, <1>8, <2>7
<1> QED BY <1>7, <1>8

LEMMA WalkEnds ==
    ASSUME NEW fs, NEW layers, NEW ended, NEW at, Walking(fs, layers, ended, {at})
    PROVE  Walking(fs, layers, ended \cup {at}, {}) /\ at \notin ended
BY DEF Walking

\* A node that no other flow shadows has a flow, of the same name.
LEMMA NamedFlow ==
    ASSUME NEW fs \in Seq(Flows), NEW name \in NamesOf(fs)
    PROVE  /\ FlowAt(fs, NodeOf(fs, name)) \in DOMAIN fs
           /\ fs[FlowAt(fs, NodeOf(fs, name))].name = name
<1>1. PICK m : m = NodeOf(fs, name)
  OBVIOUS
<1>2. m \in DOMAIN fs /\ fs[m].name = name
  BY <1>1, NodeOfIs
<1>3. PICK f : f = FlowAt(fs, m)
  OBVIOUS
<1>4. f # 0 /\ f \in 0..Len(fs) /\ NodeOf(fs, fs[f].name) = m
  BY <1>1, <1>2, <1>3, FlowAtIs
<1>5. f \in DOMAIN fs /\ fs[f].name \in NamesOf(fs)
  BY <1>4 DEF NamesOf
<1>6. fs[m].name = fs[f].name
  BY <1>4, <1>5, NodeOfIs
<1> QED BY <1>1, <1>2, <1>3, <1>5, <1>6

\* What the current flow depends on has ended.
LEMMA WalkDeps ==
    ASSUME NEW fs \in Seq(Flows), ~HasUnknownDep(fs), NEW layers, NEW ended, NEW at,
           Walking(fs, layers, ended, {at}), NEW k \in DOMAIN fs[at].deps
    PROVE  FlowAt(fs, NodeOf(fs, fs[at].deps[k])) \in ended
<1>1. at \in DOMAIN fs
  BY DEF Walking, Chosen
<1>2. PICK name \in NamesOf(fs) : name = fs[at].deps[k]
  BY <1>1 DEF HasUnknownDep
<1>3. PICK m : m = NodeOf(fs, name)
  OBVIOUS
<1>4. PICK f : f = FlowAt(fs, m)
  OBVIOUS
<1>5. m \in DOMAIN fs /\ f \in DOMAIN fs /\ fs[f].name = name
  BY <1>3, <1>4, NodeOfIs, NamedFlow
<1>6. m \notin Ahead(layers) /\ m # NodeOf(fs, fs[at].name)
  BY <1>2, <1>3 DEF Walking
<1>7. f \in ended \cup {at} \cup {0}
  BY <1>4, <1>5, <1>6 DEF Walking
<1>8. f # 0 /\ f # at
  BY <1>3, <1>5, <1>6
<1> QED BY <1>2, <1>3, <1>4, <1>7, <1>8

\* At the end of the walk every name has ended, once.
LEMMA WalkComplete ==
    ASSUME NEW fs \in Seq(Flows), NEW ended, IsFiniteSet(ended),
           Walking(fs, <<>>, ended, {})
    PROVE  /\ {fs[i].name : i \in ended} = NamesOf(fs)
           /\ Cardinality(ended) = Cardinality(NamesOf(fs))
<1>1. Ahead(<<>>) = {}
  <2>1. PICK none : none = <<>>
    OBVIOUS
  <2>2. DOMAIN none = {}
    BY <2>1
  <2>3. Ahead(none) = {}
    BY <2>2 DEF Ahead
  <2> QED BY <2>1, <2>3
<1>2. \A i \in ended : i \in DOMAIN fs /\ FlowAt(fs, NodeOf(fs, fs[i].name)) = i
  BY DEF Walking, Chosen
<1>3. ASSUME NEW name \in NamesOf(fs) PROVE \E i \in ended : fs[i].name = name
  <2>1. NodeOf(fs, name) \in DOMAIN fs
    BY NodeOfIs
  <2>2. FlowAt(fs, NodeOf(fs, name)) \in ended \cup {0}
    BY <1>1, <2>1 DEF Walking
  <2>3. /\ FlowAt(fs, NodeOf(fs, name)) \in DOMAIN fs
        /\ fs[FlowAt(fs, NodeOf(fs, name))].name = name
    BY NamedFlow
  <2> QED BY <2>2, <2>3
<1>4. {fs[i].name : i \in ended} = NamesOf(fs)
  BY <1>2, <1>3 DEF NamesOf
<1> DEFINE f == [i \in ended |-> fs[i].name]
<1>5. f \in Bijection(ended, NamesOf(fs))
  <2>1. f \in [ended -> NamesOf(fs)]
    BY <1>2 DEF NamesOf
  <2>2. IsInjective(f)
    BY <1>2 DEF IsInjective
  <2>3. \A name \in NamesOf(fs) : \E i \in ended : f[i] = name
    BY <1>3
  <2> QED BY <2>1, <2>2, <2>3 DEF Bijection, Injection, Surjection
<1>6. Cardinality(ended) = Cardinality(NamesOf(fs))
  BY <1>5, FS_Bijection DEF ExistsBijection
<1> QED BY <1>4, <1>6

-----------------------------------------------------------------------------
(* The runner's variables. *)

LEMMA NoRunIs == NoRun \in RunRecord
<1>1. PICK none : none = <<>>
  OBVIOUS
<1>2. none \in Seq(Flows) /\ none \in Seq(SUBSET Nat) /\ none \in Seq(Nat)
  BY <1>1
<1>3. none \in Maps
  <2>1. none \in [{} -> Nat]
    BY <1>1
  <2> QED BY <2>1 DEF Maps
<1>4. "idle" \in PCs /\ {} \in Batches
  BY DEF PCs, Batches
<1>5. NoRun = [pc |-> "idle", flows |-> none, remaining |-> none, layers |-> none, at |-> 0,
               input |-> {}, out |-> {}, seen |-> {}, listed |-> FALSE, done |-> none,
               failed |-> none]
  BY <1>1 DEF NoRun
<1> QED BY <1>2, <1>3, <1>4, <1>5 DEF RunRecord

LEMMA RunFields ==
    ASSUME NEW x \in RunRecord
    PROVE  /\ x.pc \in PCs /\ x.flows \in Seq(Flows) /\ x.layers \in Seq(SUBSET Nat)
           /\ x.at \in Nat /\ x.input \in Batches /\ x.out \in Batches
           /\ x.seen \in SUBSET (Nat \cup Paths) /\ x.done \in Seq(Nat) /\ x.failed \in Seq(Nat)
           /\ x.remaining \in [DOMAIN x.remaining -> Nat] /\ DOMAIN x.remaining \in SUBSET Nat
<1>1. x.remaining \in Maps
  BY DEF RunRecord
<1>2. PICK D \in SUBSET Nat : x.remaining \in [D -> Nat]
  BY <1>1 DEF Maps
<1>3. D = DOMAIN x.remaining
  BY <1>2
<1>4. /\ x.pc \in PCs /\ x.flows \in Seq(Flows) /\ x.layers \in Seq(SUBSET Nat)
      /\ x.at \in Nat /\ x.input \in Batches /\ x.out \in Batches
      /\ x.seen \in SUBSET (Nat \cup Paths) /\ x.done \in Seq(Nat) /\ x.failed \in Seq(Nat)
  BY DEF RunRecord
<1> QED BY <1>2, <1>3, <1>4

\* The flow that is being run is one of the list.
LEMMA BusyFlow ==
    ASSUME NEW x \in RunRecord, RunOK(x), x.pc \in Busy
    PROVE  /\ x.at \in DOMAIN x.flows /\ x.flows \in Specs /\ x.flows[x.at] \in Flows
           /\ x.flows[x.at].name \in TableNames
<1>1. x.pc \notin {"idle", "end"}
  BY DEF Busy
<1>2. x.at \in DOMAIN x.flows /\ x.flows \in Specs
  BY <1>1 DEF RunOK, Walking, Chosen, Accepted
<1>3. x.flows \in Seq(Flows)
  BY RunFields
<1>4. x.flows[x.at] \in Flows
  BY <1>2, <1>3
<1>5. x.flows[x.at].name \in NamesOf(x.flows)
  BY <1>2 DEF NamesOf
<1>6. x.flows[x.at].name \in FlowNames
  BY <1>2, <1>5 DEF FlowNames
<1> QED BY <1>2, <1>4, <1>6 DEF TableNames

LEMMA FlowFields ==
    ASSUME NEW f \in Flows
    PROVE  /\ f.live \in BOOLEAN /\ f.kind \in {"streaming_table", "materialized_view"}
           /\ f.source \in {"tail_dir", "csv", "json", "s3", "sql"}
           /\ f.reads \in TableNames \cup {None} /\ f.keeps \in SUBSET Rows
           /\ f.dest \in Paths \cup Keys
BY DEF Flows

\* A step within a flow.
LEMMA RunKeeps ==
    ASSUME NEW x \in RunRecord, RunOK(x), x.pc \in Busy, NEW y, y.pc \in Busy,
           y.flows = x.flows, y.layers = x.layers, y.at = x.at,
           y.done = x.done, y.failed = x.failed
    PROVE  RunOK(y) /\ y.at \in 0..Len(y.flows)
<1>1. y.pc \notin {"idle", "end", "layer", "pick"} /\ x.pc \notin {"idle", "end"}
  BY DEF Busy
<1>2. EndedOf(y) = EndedOf(x) /\ (Counted(y) <=> Counted(x))
  BY DEF EndedOf, Counted
<1>3. RunOK(y)
  BY <1>1, <1>2 DEF RunOK
<1>4. x.at \in DOMAIN x.flows /\ x.flows \in Seq(Flows)
  BY BusyFlow, RunFields
<1> QED BY <1>3, <1>4

LEMMA RangeAppend ==
    ASSUME NEW s \in Seq(Nat), NEW e \in Nat
    PROVE  /\ Range(Append(s, e)) = Range(s) \cup {e}
           /\ Len(Append(s, e)) = Len(s) + 1 /\ Len(s) \in Nat
<1>0. Append(s, e) \in Seq(Nat)
  OBVIOUS
<1>1. PICK z \in Seq(Nat) : z = Append(s, e)
  BY <1>0
<1>2. /\ DOMAIN z = 1..(Len(s) + 1) /\ Len(z) = Len(s) + 1 /\ z[Len(s) + 1] = e
      /\ DOMAIN s = 1..Len(s) /\ Len(s) \in Nat /\ \A k \in DOMAIN s : z[k] = s[k]
  BY <1>1
<1>3. Range(z) = Range(s) \cup {e}
  BY <1>2 DEF Range
<1> QED BY <1>1, <1>2, <1>3

\* The end of a flow, with a result or with an error.
LEMMA RunEnds ==
    ASSUME NEW x \in RunRecord, RunOK(x), x.pc \in Busy, NEW y, y.pc = "pick",
           y.flows = x.flows, y.layers = x.layers, y.at = x.at,
           \/ y.done = Append(x.done, x.at) /\ y.failed = x.failed
           \/ y.done = x.done /\ y.failed = Append(x.failed, x.at)
    PROVE  RunOK(y) /\ y.at \in 0..Len(y.flows)
<1>1. x.pc \notin {"idle", "end"} /\ "pick" \notin Busy
  BY DEF Busy
<1>2. x.at \in DOMAIN x.flows /\ x.flows \in Seq(Flows)
  BY BusyFlow, RunFields
<1>3. x.done \in Seq(Nat) /\ x.failed \in Seq(Nat) /\ x.at \in Nat
  BY RunFields
<1>4. /\ Range(Append(x.done, x.at)) = Range(x.done) \cup {x.at}
      /\ Range(Append(x.failed, x.at)) = Range(x.failed) \cup {x.at}
      /\ Len(Append(x.done, x.at)) = Len(x.done) + 1
      /\ Len(Append(x.failed, x.at)) = Len(x.failed) + 1
      /\ Len(x.done) \in Nat /\ Len(x.failed) \in Nat
  BY <1>3, RangeAppend
<1>5. EndedOf(y) = EndedOf(x) \cup {x.at}
      /\ Len(y.done) + Len(y.failed) = Len(x.done) + Len(x.failed) + 1
  <2>1. CASE y.done = Append(x.done, x.at) /\ y.failed = x.failed
    <3>1. /\ Range(y.done) = Range(x.done) \cup {x.at} /\ Range(y.failed) = Range(x.failed)
          /\ Len(y.done) = Len(x.done) + 1 /\ Len(y.failed) = Len(x.failed)
      BY <1>4, <2>1, Zenon
    <3>2. EndedOf(y) = EndedOf(x) \cup {x.at}
      BY <3>1, Zenon DEF EndedOf
    <3>3. PICK a, b : a = Len(x.done) /\ b = Len(x.failed)
      OBVIOUS
    <3>4. a \in Nat /\ b \in Nat
      BY <1>4, <3>3, Zenon
    <3>5. (a + 1) + b = a + b + 1
      BY <3>4
    <3> QED BY <3>1, <3>2, <3>3, <3>5, Zenon
  <2>2. CASE y.done = x.done /\ y.failed = Append(x.failed, x.at)
    <3>1. /\ Range(y.done) = Range(x.done) /\ Range(y.failed) = Range(x.failed) \cup {x.at}
          /\ Len(y.done) = Len(x.done) /\ Len(y.failed) = Len(x.failed) + 1
      BY <1>4, <2>2, Zenon
    <3>2. EndedOf(y) = EndedOf(x) \cup {x.at}
      BY <3>1, Zenon DEF EndedOf
    <3>3. PICK a, b : a = Len(x.done) /\ b = Len(x.failed)
      OBVIOUS
    <3>4. a \in Nat /\ b \in Nat
      BY <1>4, <3>3, Zenon
    <3>5. a + (b + 1) = a + b + 1
      BY <3>4
    <3> QED BY <3>1, <3>2, <3>3, <3>5, Zenon
  <2> QED BY <2>1, <2>2
<1>6. Walking(x.flows, x.layers, EndedOf(x), {x.at}) /\ Counted(x)
  BY DEF RunOK
<1>7. Walking(y.flows, y.layers, EndedOf(y), {}) /\ x.at \notin EndedOf(x)
  <2>1. PICK fs, layers, ended, at :
          fs = x.flows /\ layers = x.layers /\ ended = EndedOf(x) /\ at = x.at
    OBVIOUS
  <2>2. Walking(fs, layers, ended, {at})
    BY <1>6, <2>1
  <2>3. Walking(fs, layers, ended \cup {at}, {}) /\ at \notin ended
    BY <2>2, WalkEnds
  <2> QED BY <1>5, <2>1, <2>3
<1>8. Counted(y)
  <2>1. IsFiniteSet(EndedOf(x)) /\ Cardinality(EndedOf(x)) = Len(x.done) + Len(x.failed)
    BY <1>6 DEF Counted
  <2>2. /\ IsFiniteSet(EndedOf(x) \cup {x.at})
        /\ Cardinality(EndedOf(x) \cup {x.at}) = Cardinality(EndedOf(x)) + 1
    BY <1>7, <2>1, FS_AddElement
  <2> QED BY <1>5, <2>1, <2>2 DEF Counted
<1>9. RunOK(y)
  BY <1>1, <1>7, <1>8 DEF RunOK
<1> QED BY <1>2, <1>9

-----------------------------------------------------------------------------
(* What a step makes of the runner's variables. *)

Good(y) == y \in RunRecord /\ RunOK(y) /\ y.at \in 0..Len(y.flows)

\* A record that is not about to write over or to register anything.
Quiet(y) == y.pc \notin {"write", "register"} /\ (y.pc = "append" => y.flows[y.at].live)

\* The step of q leaves y in its place.
Becomes(q, y) == run' = [run EXCEPT ![q] = y]

LEMMA AfterStep ==
    ASSUME run \in [Requests -> RunRecord], NEW q \in Requests, NEW y, Becomes(q, y)
    PROVE  /\ run'[q] = y /\ \A p \in Requests : p # q => run'[p] = run[p]
           /\ y \in RunRecord => run' \in [Requests -> RunRecord]
BY DEF Becomes

LEMMA FailedIs ==
    ASSUME NEW x, Good(x), x.pc \in Busy
    PROVE  Good(Failed(x)) /\ Failed(x).pc = "pick"
<1>1. x \in RunRecord /\ RunOK(x)
  BY DEF Good
<1>2. x.failed \in Seq(Nat) /\ x.at \in Nat
  BY <1>1, RunFields
<1>3. PICK more \in Seq(Nat) : more = Append(x.failed, x.at)
  <2>1. Append(x.failed, x.at) \in Seq(Nat)
    BY <1>2
  <2> QED BY <2>1
<1>4. PICK y : y = Failed(x)
  OBVIOUS
<1>5. y = [x EXCEPT !.failed = more, !.pc = "pick"]
  BY <1>3, <1>4 DEF Failed
<1>6. "pick" \in PCs
  BY DEF PCs
<1>7. y \in RunRecord
  BY <1>1, <1>5, <1>6 DEF RunRecord
<1>8. /\ y.pc = "pick" /\ y.flows = x.flows /\ y.layers = x.layers /\ y.at = x.at
      /\ y.done = x.done /\ y.failed = more
  BY <1>1, <1>5 DEF RunRecord
<1>9. RunOK(y) /\ y.at \in 0..Len(y.flows)
  BY <1>1, <1>3, <1>8, RunEnds
<1> QED BY <1>4, <1>7, <1>8, <1>9 DEF Good

\* One lemma for every field that a step within a flow changes.
LEMMA WithinFlow ==
    ASSUME NEW x, Good(x), x.pc \in Busy, NEW y \in RunRecord, y.pc \in Busy,
           y.flows = x.flows, y.layers = x.layers, y.at = x.at,
           y.done = x.done, y.failed = x.failed
    PROVE  Good(y)
BY RunKeeps DEF Good

LEMMA PolledIs ==
    ASSUME NEW x, Good(x), x.pc \in Busy, NEW rows \in Batches,
           NEW id \in SUBSET (Nat \cup Paths)
    PROVE  Good(Polled(x, rows, id)) /\ Quiet(Polled(x, rows, id))
<1>1. x \in RunRecord /\ RunOK(x)
  BY DEF Good
<1>2. x.flows[x.at] \in Flows
  BY <1>1, BusyFlow
<1>3. PICK pc : pc = IF ~x.flows[x.at].live THEN "execute"
                     ELSE IF rows = {} THEN "poll" ELSE "append"
  OBVIOUS
<1>4. /\ pc \in PCs /\ pc \in Busy /\ pc \notin {"write", "register"}
      /\ pc = "append" => x.flows[x.at].live
  BY <1>3 DEF PCs, Busy
<1>5. ASSUME NEW s \in SUBSET (Nat \cup Paths), NEW y,
             y = [x EXCEPT !.input = rows, !.seen = s, !.pc = pc]
      PROVE  Good(y) /\ Quiet(y)
  <2>1. y \in RunRecord
    BY <1>1, <1>4, <1>5 DEF RunRecord
  <2>2. /\ y.pc = pc /\ y.flows = x.flows /\ y.layers = x.layers /\ y.at = x.at
        /\ y.done = x.done /\ y.failed = x.failed
    BY <1>1, <1>5 DEF RunRecord
  <2>3. Good(y)
    BY <1>4, <2>1, <2>2, WithinFlow
  <2> QED BY <1>4, <2>2, <2>3 DEF Quiet
<1>6. x.seen \in SUBSET (Nat \cup Paths)
  BY <1>1, RunFields
<1>7. PICK s \in SUBSET (Nat \cup Paths) : s = x.seen \cup id
  BY <1>6
<1>8. Polled(x, rows, id) = [x EXCEPT !.input = rows, !.seen = s, !.pc = pc]
  BY <1>3, <1>7 DEF Polled
<1> QED BY <1>5, <1>8

-----------------------------------------------------------------------------
(* Reading. *)

LEMMA ReadIs ==
    ASSUME NEW file \in Files, NEW source, NEW r \in ReadOutcomes(file, source)
    PROVE  r \in Batches \cup {None}
<1>1. file.rows \in Batches
  BY DEF Files
<1>2. {} \in Batches /\ {Garbage} \in Batches /\ file.rows \cup {Garbage} \in Batches
  BY <1>1 DEF Batches
<1> QED BY <1>1, <1>2 DEF ReadOutcomes

LEMMA ScanIs ==
    ASSUME Shape, NEW f \in Flows, f.reads = None \/ tables[f.reads] # None,
           NEW r \in ScanOf(f)
    PROVE  r \in Batches \cup {None}
<1>1. CASE f.reads = None
  BY <1>1 DEF ScanOf, Batches
<1>2. CASE f.reads # None
  <2>1. f.reads \in TableNames
    BY <1>2, FlowFields
  <2>2. tables[f.reads] \in Entries
    BY <1>2, <2>1 DEF Shape
  <2>3. tables[f.reads].path \in Paths \cup Keys
    BY <2>2 DEF Entries
  <2>4. files[tables[f.reads].path] \in Files
    BY <2>3 DEF Shape
  <2>5. r \in ReadOutcomes(files[tables[f.reads].path], tables[f.reads].source)
    BY <1>2 DEF ScanOf
  <2> QED BY <2>4, <2>5, ReadIs
<1> QED BY <1>1, <1>2

LEMMA OutputIs ==
    ASSUME NEW f, NEW scanned \in Batches \cup {None}, NEW input \in Batches
    PROVE  /\ StreamingOutput(f, scanned, input) \in Batches
           /\ scanned # None => scanned \cap (f.keeps \cup {Garbage}) \in Batches
BY DEF StreamingOutput, TakesPolled, Batches

LEMMA UnseenIs ==
    ASSUME Shape, NEW q \in Requests, Flow(q).from \in Dirs, NextUnseen(q) # None
    PROVE  NextUnseen(q) \in Arrivals
<1>1. PICK d \in Dirs : d = Flow(q).from
  OBVIOUS
<1>2. inbox[d] \in Seq(Arrivals)
  BY DEF Shape
<1> DEFINE new == {i \in DOMAIN inbox[d] : inbox[d][i].id \notin run[q].seen}
<1>3. new \in SUBSET Nat /\ new \subseteq DOMAIN inbox[d]
  BY <1>2
<1>4. new # {} /\ NextUnseen(q) = inbox[d][Min(new)]
  BY <1>1 DEF NextUnseen
<1>5. Min(new) \in new
  BY <1>3, <1>4, MinIn
<1> HIDE DEF new
<1>6. PICK i : i = Min(new)
  OBVIOUS
<1>7. PICK s \in Seq(Arrivals) : s = inbox[d]
  BY <1>2
<1>8. i \in DOMAIN s
  BY <1>3, <1>5, <1>6, <1>7
<1>9. s[i] \in Arrivals
  BY <1>8
<1> QED BY <1>4, <1>6, <1>7, <1>9

-----------------------------------------------------------------------------
(* The steps of a request, one by one. *)

LEMMA SubmitMoves ==
    ASSUME Shape, NEW q \in Requests, Submit(q)
    PROVE  \E y : /\ Becomes(q, y) /\ Quiet(y) /\ (GraphInv => Good(y))
                  /\ y.pc = "end" \/ resp' = resp
<1>0. run[q] \in RunRecord /\ scenario \in DOMAIN Scenarios
  BY DEF Shape
<1>1. CASE run' = [run EXCEPT ![q].pc = "end"]
  <2>1. PICK y : y = [run[q] EXCEPT !.pc = "end"]
    OBVIOUS
  <2>2. Becomes(q, y)
    BY <1>1, <2>1 DEF Becomes
  <2>3. y \in RunRecord
    <3>1. "end" \in PCs
      BY DEF PCs
    <3> QED BY <1>0, <2>1, <3>1 DEF RunRecord
  <2>4. y.pc = "end" /\ y.flows = run[q].flows /\ y.at = run[q].at
    BY <1>0, <2>1 DEF RunRecord
  <2>5. RunOK(y)
    BY <2>4 DEF RunOK, Busy
  <2>6. ASSUME GraphInv PROVE y.at \in 0..Len(y.flows)
    BY <2>4, <2>6 DEF GraphInv
  <2> QED BY <2>2, <2>3, <2>4, <2>5, <2>6 DEF Good, Quiet
<1>2. ASSUME NEW fs \in World.specs, FromPipeline(fs) = "ok",
             run' = [run EXCEPT ![q] = [NoRun EXCEPT !.pc = "layer", !.flows = fs,
                                                     !.remaining = InDegrees(fs)]],
             resp' = resp
      PROVE  \E y : Becomes(q, y) /\ Quiet(y) /\ Good(y) /\ resp' = resp
  <2>1. PICK y : y = [NoRun EXCEPT !.pc = "layer", !.flows = fs, !.remaining = InDegrees(fs)]
    OBVIOUS
  <2>2. Becomes(q, y)
    BY <1>2, <2>1 DEF Becomes
  <2>3. fs \in Specs /\ fs \in Seq(Flows)
    BY <1>0, PipelineAssumption DEF World, Specs
  <2>4. PICK degrees : degrees = InDegrees(fs)
    OBVIOUS
  <2>5. degrees \in [DOMAIN fs -> Nat]
    BY <2>3, <2>4, IntoFinite DEF InDegrees
  <2>6. degrees \in Maps
    <3>1. DOMAIN fs \in SUBSET Nat
      BY <2>3
    <3> QED BY <2>5, <3>1 DEF Maps
  <2>7. "layer" \in PCs
    BY DEF PCs
  <2>8. y \in RunRecord
    BY <2>1, <2>3, <2>4, <2>6, <2>7, NoRunIs DEF RunRecord
  <2>9. /\ y.pc = "layer" /\ y.flows = fs /\ y.remaining = degrees /\ y.layers = <<>>
        /\ y.at = 0 /\ y.done = <<>> /\ y.failed = <<>>
    BY <2>1, <2>4 DEF NoRun
  <2>10. Accepted(fs)
    BY <1>2, <2>3 DEF Accepted, FromPipeline
  <2>11. Peeling(fs, DOMAIN degrees, degrees, <<>>)
    BY <2>3, <2>4, PeelStarts
  <2>12. RunOK(y)
    BY <2>9, <2>10, <2>11 DEF RunOK, Busy
  <2>13. y.at \in 0..Len(y.flows)
    BY <2>3, <2>9
  <2> QED BY <1>2, <2>2, <2>8, <2>9, <2>12, <2>13 DEF Good, Quiet
<1> QED BY <1>1, <1>2 DEF Submit

LEMMA LayerMoves ==
    ASSUME Shape, NEW q \in Requests, Good(run[q]), Layer(q)
    PROVE  \E y : Becomes(q, y) /\ Quiet(y) /\ Good(y) /\ y.pc # "end"
<1>1. PICK x : x = run[q]
  OBVIOUS
<1>2. x \in RunRecord /\ RunOK(x) /\ x.pc = "layer" /\ x.at = 0 /\ x.done = <<>> /\ x.failed = <<>>
  BY <1>1 DEF Layer, Good, RunOK
<1>3. /\ x.flows \in Seq(Flows) /\ x.layers \in Seq(SUBSET Nat)
      /\ x.remaining \in [DOMAIN x.remaining -> Nat] /\ DOMAIN x.remaining \in SUBSET Nat
  BY <1>2, RunFields
<1>4. Accepted(x.flows) /\ Peeling(x.flows, DOMAIN x.remaining, x.remaining, x.layers)
  BY <1>2 DEF RunOK
<1>5. PICK fs, layers, remaining, left :
        fs = x.flows /\ layers = x.layers /\ remaining = x.remaining /\ left = DOMAIN x.remaining
  OBVIOUS
<1>6. /\ fs \in Seq(Flows) /\ layers \in Seq(SUBSET Nat) /\ remaining \in [left -> Nat]
      /\ left \in SUBSET Nat /\ Peeling(fs, left, remaining, layers)
      /\ ~HasUnknownDep(fs) /\ ~Cyclic(fs)
  BY <1>3, <1>4, <1>5 DEF Accepted
<1>7. CASE AtZero(remaining) = {}
  <2>1. PICK y : y = [x EXCEPT !.pc = "pick"]
    OBVIOUS
  <2>2. Becomes(q, y)
    <3>1. run' = [run EXCEPT ![q].pc = "pick"]
      BY <1>1, <1>5, <1>7 DEF Layer
    <3> QED BY <1>1, <2>1, <3>1 DEF Becomes
  <2>3. y \in RunRecord
    <3>1. "pick" \in PCs
      BY DEF PCs
    <3> QED BY <1>2, <2>1, <3>1 DEF RunRecord
  <2>4. /\ y.pc = "pick" /\ y.flows = x.flows /\ y.layers = x.layers /\ y.at = 0
        /\ y.done = <<>> /\ y.failed = <<>>
    BY <1>2, <2>1 DEF RunRecord
  <2>5. left = {}
    BY <1>6, <1>7, PeelEnds
  <2>6. Walking(fs, layers, {}, {})
    BY <1>6, <2>5, WalkStarts
  <2>7. EndedOf(y) = {} /\ Counted(y)
    <3>1. PICK none : none = <<>>
      OBVIOUS
    <3>2. Range(none) = {} /\ Len(none) = 0
      BY <3>1 DEF Range
    <3>3. y.done = none /\ y.failed = none
      BY <2>4, <3>1
    <3>4. EndedOf(y) = {}
      BY <3>2, <3>3 DEF EndedOf
    <3> QED BY <3>2, <3>3, <3>4, FS_EmptySet DEF Counted
  <2>8. RunOK(y)
    BY <1>4, <1>5, <2>4, <2>6, <2>7 DEF RunOK, Busy
  <2>9. y.at \in 0..Len(y.flows)
    BY <1>3, <2>4
  <2> QED BY <2>2, <2>3, <2>4, <2>8, <2>9 DEF Good, Quiet
<1>8. CASE AtZero(remaining) # {}
  <2>1. PICK layer, rest, more : /\ layer = AtZero(remaining) /\ rest = Peeled(fs, remaining)
                                 /\ more = Append(layers, layer)
    OBVIOUS
  <2>2. DOMAIN rest = left \ layer /\ Peeling(fs, DOMAIN rest, rest, more)
    <3>1. /\ DOMAIN Peeled(fs, remaining) = left \ AtZero(remaining)
          /\ Peeling(fs, left \ AtZero(remaining), Peeled(fs, remaining),
                     Append(layers, AtZero(remaining)))
      BY <1>6, <1>8, PeelSteps
    <3> QED BY <2>1, <3>1, Zenon
  <2>3. rest \in Maps
    <3>1. \A n \in DOMAIN rest : rest[n] \in Nat
      BY <1>6, <2>2, IntoFinite DEF Peeling
    <3>2. rest \in [DOMAIN rest -> Nat]
      BY <2>1, <3>1 DEF Peeled
    <3>3. DOMAIN rest \in SUBSET Nat
      BY <1>6, <2>2
    <3> QED BY <3>2, <3>3 DEF Maps
  <2>4. more \in Seq(SUBSET Nat)
    <3>1. layer \in SUBSET Nat
      BY <1>6, <2>1 DEF AtZero
    <3>2. PICK S : S = SUBSET Nat
      OBVIOUS
    <3>3. layers \in Seq(S) /\ layer \in S
      BY <1>6, <3>1, <3>2
    <3>4. Append(layers, layer) \in Seq(S)
      BY <3>3
    <3> QED BY <2>1, <3>2, <3>4
  <2>5. PICK y : y = [x EXCEPT !.layers = more, !.remaining = rest]
    OBVIOUS
  <2>6. Becomes(q, y)
    <3>1. run' = [run EXCEPT ![q].layers = Append(x.layers, AtZero(x.remaining)),
                             ![q].remaining = Peeled(x.flows, x.remaining)]
      BY <1>1, <1>5, <1>8 DEF Layer
    <3>2. run' = [run EXCEPT ![q].layers = more, ![q].remaining = rest]
      BY <1>5, <2>1, <3>1
    <3> QED BY <1>1, <2>5, <3>2 DEF Becomes
  <2>7. y \in RunRecord
    BY <1>2, <2>3, <2>4, <2>5 DEF RunRecord
  <2>8. /\ y.pc = "layer" /\ y.flows = x.flows /\ y.layers = more /\ y.remaining = rest
        /\ y.at = 0 /\ y.done = <<>> /\ y.failed = <<>>
    BY <1>2, <2>5 DEF RunRecord
  <2>9. RunOK(y)
    BY <1>4, <1>5, <2>2, <2>8 DEF RunOK, Busy
  <2>10. y.at \in 0..Len(y.flows)
    BY <1>3, <2>8
  <2> QED BY <2>6, <2>7, <2>8, <2>9, <2>10 DEF Good, Quiet
<1> QED BY <1>7, <1>8

LEMMA PickMoves ==
    ASSUME Shape, NEW q \in Requests, Good(run[q]), Pick(q)
    PROVE  \E y : Becomes(q, y) /\ Quiet(y) /\ Good(y) /\ y.pc # "end"
<1>1. PICK x : x = run[q]
  OBVIOUS
<1>2. x \in RunRecord /\ RunOK(x) /\ x.pc = "pick" /\ x.layers # <<>>
  BY <1>1 DEF Pick, Good
<1>3. x.flows \in Seq(Flows) /\ x.layers \in Seq(SUBSET Nat)
  BY <1>2, RunFields
<1>4. Accepted(x.flows) /\ Walking(x.flows, x.layers, EndedOf(x), {}) /\ Counted(x)
  BY <1>2 DEF RunOK
<1>5. PICK n \in Head(x.layers) :
        run' = [run EXCEPT ![q].layers = Without(x.layers, n), ![q].at = FlowAt(x.flows, n),
                           ![q].pc = IF FlowAt(x.flows, n) = 0 THEN "pick" ELSE "poll",
                           ![q].seen = {}, ![q].listed = FALSE]
  BY <1>1 DEF Pick
<1>6. PICK f, rest, pc : /\ f = FlowAt(x.flows, n) /\ rest = Without(x.layers, n)
                         /\ pc = IF f = 0 THEN "pick" ELSE "poll"
  OBVIOUS
<1>7. f \in 0..Len(x.flows) /\ f \in Nat
  BY <1>3, <1>6, FlowAtIs
<1>8. rest \in Seq(SUBSET Nat)
  BY <1>2, <1>3, <1>6, WithoutIs
<1>9. pc \in PCs /\ (f = 0 => pc = "pick") /\ (f # 0 => pc = "poll")
  BY <1>6 DEF PCs, Busy
<1>10. PICK y : y = [x EXCEPT !.layers = rest, !.at = f, !.pc = pc, !.seen = {}, !.listed = FALSE]
  OBVIOUS
<1>11. Becomes(q, y)
  <2>1. run' = [run EXCEPT ![q].layers = rest, ![q].at = f, ![q].pc = pc,
                           ![q].seen = {}, ![q].listed = FALSE]
    BY <1>5, <1>6
  <2> QED BY <1>1, <1>10, <2>1 DEF Becomes
<1>12. y \in RunRecord
  BY <1>2, <1>7, <1>8, <1>9, <1>10 DEF RunRecord
<1>13. /\ y.pc = pc /\ y.flows = x.flows /\ y.layers = rest /\ y.at = f
       /\ y.done = x.done /\ y.failed = x.failed
  BY <1>2, <1>10 DEF RunRecord
<1>14. EndedOf(y) = EndedOf(x) /\ Counted(y)
  BY <1>4, <1>13 DEF EndedOf, Counted
<1>15. Walking(x.flows, rest, EndedOf(x), IF f = 0 THEN {} ELSE {f})
  <2>1. PICK fs, layers, ended : fs = x.flows /\ layers = x.layers /\ ended = EndedOf(x)
    OBVIOUS
  <2>2. Walking(fs, Without(layers, n), ended, IF FlowAt(fs, n) = 0 THEN {} ELSE {FlowAt(fs, n)})
    BY <1>2, <1>3, <1>4, <2>1, WalkPicks
  <2> QED BY <1>6, <2>1, <2>2
<1>16. RunOK(y)
  <2>1. CASE f = 0
    BY <1>4, <1>9, <1>13, <1>14, <1>15, <2>1 DEF RunOK, Busy
  <2>2. CASE f # 0
    BY <1>4, <1>9, <1>13, <1>14, <1>15, <2>2 DEF RunOK, Busy
  <2> QED BY <2>1, <2>2
<1>17. y.at \in 0..Len(y.flows)
  BY <1>7, <1>13
<1>18. y.pc \in {"pick", "poll"}
  BY <1>9, <1>13
<1> QED BY <1>11, <1>12, <1>16, <1>17, <1>18 DEF Good, Quiet

\* The run that is answered 200 has ended every flow.
LEMMA FinishMoves ==
    ASSUME Shape, NEW q \in Requests, Good(run[q]), Finish(q)
    PROVE  \E y : Becomes(q, y) /\ Quiet(y) /\ Good(y) /\ y.pc = "end" /\ Complete(y)
<1>1. PICK x : x = run[q]
  OBVIOUS
<1>2. x \in RunRecord /\ RunOK(x) /\ x.pc = "pick" /\ x.layers = <<>> /\ x.at \in 0..Len(x.flows)
  BY <1>1 DEF Finish, Good
<1>3. x.flows \in Seq(Flows)
  BY <1>2, RunFields
<1>4. Walking(x.flows, <<>>, EndedOf(x), {}) /\ Counted(x)
  BY <1>2 DEF RunOK
<1>5. PICK y : y = [x EXCEPT !.pc = "end"]
  OBVIOUS
<1>6. Becomes(q, y)
  BY <1>1, <1>5 DEF Becomes, Finish
<1>7. y \in RunRecord
  <2>1. "end" \in PCs
    BY DEF PCs
  <2> QED BY <1>2, <1>5, <2>1 DEF RunRecord
<1>8. /\ y.pc = "end" /\ y.flows = x.flows /\ y.at = x.at
      /\ y.done = x.done /\ y.failed = x.failed
  BY <1>2, <1>5 DEF RunRecord
<1>9. RunOK(y)
  BY <1>8 DEF RunOK, Busy
<1>10. EndedOf(y) = EndedOf(x)
  BY <1>8 DEF EndedOf
<1>11. Complete(x)
  <2>1. PICK fs, ended : fs = x.flows /\ ended = EndedOf(x)
    OBVIOUS
  <2>2. fs \in Seq(Flows) /\ IsFiniteSet(ended) /\ Walking(fs, <<>>, ended, {})
    BY <1>3, <1>4, <2>1 DEF Counted
  <2>3. {fs[i].name : i \in ended} = NamesOf(fs) /\ Cardinality(ended) = Cardinality(NamesOf(fs))
    BY <2>2, WalkComplete
  <2> QED BY <1>4, <2>1, <2>3 DEF Counted, Complete
<1>12. Complete(y)
  BY <1>8, <1>10, <1>11 DEF Complete
<1> QED BY <1>2, <1>6, <1>7, <1>8, <1>9, <1>12 DEF Good, Quiet

LEMMA FailMoves ==
    ASSUME Shape, NEW q \in Requests, Good(run[q]), run[q].pc \in Busy, Fails(q)
    PROVE  \E y : Becomes(q, y) /\ Quiet(y) /\ Good(y) /\ y.pc # "end"
<1>1. Becomes(q, Failed(run[q]))
  BY DEF Fails, Becomes
<1>2. Good(Failed(run[q])) /\ Failed(run[q]).pc = "pick"
  BY FailedIs
<1> QED BY <1>1, <1>2 DEF Quiet

LEMMA PollMoves ==
    ASSUME Shape, NEW q \in Requests, Good(run[q]), Poll(q)
    PROVE  \E y : Becomes(q, y) /\ Quiet(y) /\ Good(y) /\ y.pc # "end"
<1>1. run[q] \in RunRecord /\ RunOK(run[q]) /\ run[q].pc \in Busy
  BY DEF Good, Poll, Busy
<1>2. PICK x : x = run[q]
  OBVIOUS
<1>3. Flow(q) \in Flows /\ x.flows \in Specs /\ x.at \in DOMAIN x.flows /\ Flow(q) = x.flows[x.at]
  BY <1>1, <1>2, BusyFlow DEF Flow
<1>4. CASE Fails(q)
  BY <1>1, <1>4, FailMoves
<1>5. ASSUME NEW rows \in Batches, NEW id \in SUBSET (Nat \cup Paths),
             run' = [run EXCEPT ![q] = Polled(@, rows, id)]
      PROVE  \E y : Becomes(q, y) /\ Quiet(y) /\ Good(y) /\ y.pc # "end"
  <2>1. Becomes(q, Polled(x, rows, id))
    BY <1>2, <1>5 DEF Becomes
  <2>2. Good(Polled(x, rows, id)) /\ Quiet(Polled(x, rows, id))
    BY <1>1, <1>2, PolledIs
  <2>3. Polled(x, rows, id).pc # "end"
    BY <1>1, <1>2 DEF Polled, RunRecord
  <2> QED BY <2>1, <2>2, <2>3
<1>6. {} \in Batches /\ {} \in SUBSET (Nat \cup Paths)
  BY DEF Batches
<1>7. CASE Flow(q).source = "sql" /\ run' = [run EXCEPT ![q] = Polled(@, {}, {})]
  BY <1>5, <1>6, <1>7
<1>8. ASSUME Flow(q).source \in {"csv", "json"},
             NEW rows \in IF Flow(q).from \in run[q].seen THEN {{}}
                          ELSE ReadOutcomes(files[Flow(q).from], Flow(q).source),
             run' = [run EXCEPT ![q] =
                       Polled(@, IF rows = None THEN {} ELSE rows, {Flow(q).from})]
      PROVE  \E y : Becomes(q, y) /\ Quiet(y) /\ Good(y) /\ y.pc # "end"
  <2>1. PICK from : from = Flow(q).from
    OBVIOUS
  <2>2. from \in Paths
    BY <1>3, <1>8, <2>1, PipelineAssumption
  <2>3. rows \in Batches \cup {None}
    <3>1. CASE Flow(q).from \in run[q].seen
      BY <1>6, <1>8, <3>1
    <3>2. CASE Flow(q).from \notin run[q].seen
      <4>1. files[Flow(q).from] \in Files
        BY <2>1, <2>2 DEF Shape
      <4>2. rows \in ReadOutcomes(files[Flow(q).from], Flow(q).source)
        BY <1>8, <3>2
      <4> QED BY <4>1, <4>2, ReadIs
    <3> QED BY <3>1, <3>2
  <2>4. PICK r \in Batches : r = IF rows = None THEN {} ELSE rows
    BY <1>6, <2>3
  <2>5. {from} \in SUBSET (Nat \cup Paths)
    BY <2>2
  <2>6. run' = [run EXCEPT ![q] = Polled(@, r, {from})]
    BY <1>8, <2>1, <2>4
  <2> QED BY <1>5, <2>5, <2>6
<1>9. ASSUME Flow(q).source = "tail_dir", NextUnseen(q) # None, NextUnseen(q).rows # None,
             run' = [run EXCEPT ![q] = Polled(@, NextUnseen(q).rows, {NextUnseen(q).id})]
      PROVE  \E y : Becomes(q, y) /\ Quiet(y) /\ Good(y) /\ y.pc # "end"
  <2>1. Flow(q).from \in Dirs
    BY <1>3, <1>9, PipelineAssumption
  <2>2. PICK file \in Arrivals : file = NextUnseen(q)
    BY <1>9, <2>1, UnseenIs
  <2>3. file.rows \in Batches /\ {file.id} \in SUBSET (Nat \cup Paths)
    BY <1>9, <2>2 DEF Arrivals, Batches
  <2>4. run' = [run EXCEPT ![q] = Polled(@, file.rows, {file.id})]
    BY <1>9, <2>2
  <2> QED BY <1>5, <2>3, <2>4
<1>10. CASE Flow(q).source = "tail_dir" /\ NextUnseen(q) = None
            /\ run' = [run EXCEPT ![q] = Polled(@, {}, {})]
  BY <1>5, <1>6, <1>10
<1> QED BY <1>4, <1>7, <1>8, <1>9, <1>10 DEF Poll

LEMMA ExecuteMoves ==
    ASSUME Shape, NEW q \in Requests, Good(run[q]), Execute(q)
    PROVE  \E y : Becomes(q, y) /\ Quiet(y) /\ Good(y) /\ y.pc # "end"
<1>1. run[q] \in RunRecord /\ RunOK(run[q]) /\ run[q].pc \in Busy
  BY DEF Good, Execute, Busy
<1>2. PICK x : x = run[q]
  OBVIOUS
<1>3. Flow(q) \in Flows
  BY <1>1, BusyFlow DEF Flow
<1>4. CASE Fails(q)
  BY <1>1, <1>4, FailMoves
<1>5. ASSUME NEW out \in Batches, run' = [run EXCEPT ![q].pc = "truncate", ![q].out = out]
      PROVE  \E y : Becomes(q, y) /\ Quiet(y) /\ Good(y) /\ y.pc # "end"
  <2>1. PICK y : y = [x EXCEPT !.pc = "truncate", !.out = out]
    OBVIOUS
  <2>2. Becomes(q, y)
    BY <1>2, <1>5, <2>1 DEF Becomes
  <2>3. "truncate" \in PCs /\ "truncate" \in Busy
    BY DEF PCs, Busy
  <2>4. y \in RunRecord
    BY <1>1, <1>2, <2>1, <2>3 DEF RunRecord
  <2>5. /\ y.pc = "truncate" /\ y.flows = x.flows /\ y.layers = x.layers /\ y.at = x.at
        /\ y.done = x.done /\ y.failed = x.failed
    BY <1>1, <1>2, <2>1 DEF RunRecord
  <2>6. Good(y)
    BY <1>1, <1>2, <2>3, <2>4, <2>5, WithinFlow
  <2> QED BY <2>2, <2>5, <2>6 DEF Quiet
<1>6. ASSUME Flow(q).reads = None \/ tables[Flow(q).reads] # None, NEW scanned \in ScanOf(Flow(q))
      PROVE  /\ StreamingOutput(Flow(q), scanned, run[q].input) \in Batches
             /\ scanned # None => scanned \cap (Flow(q).keeps \cup {Garbage}) \in Batches
  <2>1. scanned \in Batches \cup {None}
    BY <1>3, <1>6, ScanIs
  <2>2. PICK f, input : f = Flow(q) /\ input = run[q].input
    OBVIOUS
  <2>3. input \in Batches
    BY <1>1, <2>2, RunFields
  <2>4. /\ StreamingOutput(f, scanned, input) \in Batches
        /\ scanned # None => scanned \cap (f.keeps \cup {Garbage}) \in Batches
    BY <2>1, <2>3, OutputIs
  <2> QED BY <2>2, <2>4
<1>7. CASE /\ Flow(q).reads = None \/ tables[Flow(q).reads] # None
           /\ \E scanned \in ScanOf(Flow(q)) :
                run' = [run EXCEPT ![q].pc = "truncate",
                          ![q].out = StreamingOutput(Flow(q), scanned, run[q].input)]
  BY <1>5, <1>6, <1>7
<1>8. CASE /\ Flow(q).reads = None \/ tables[Flow(q).reads] # None
           /\ \E scanned \in ScanOf(Flow(q)) :
                /\ scanned # None
                /\ run' = [run EXCEPT ![q].pc = "truncate",
                             ![q].out = scanned \cap (Flow(q).keeps \cup {Garbage})]
  BY <1>5, <1>6, <1>8
<1> QED BY <1>4, <1>7, <1>8 DEF Execute

\* A step within a flow that changes only where it is.
LEMMA PcMoves ==
    ASSUME Shape, NEW q \in Requests, Good(run[q]), run[q].pc \in Busy, NEW pc \in Busy,
           run' = [run EXCEPT ![q].pc = pc]
    PROVE  \E y : /\ Becomes(q, y) /\ Good(y) /\ y.pc = pc
                  /\ y.flows = run[q].flows /\ y.at = run[q].at /\ y.out = run[q].out
<1>1. run[q] \in RunRecord
  BY DEF Good
<1>2. PICK x : x = run[q]
  OBVIOUS
<1>3. PICK y : y = [x EXCEPT !.pc = pc]
  OBVIOUS
<1>4. Becomes(q, y)
  BY <1>2, <1>3 DEF Becomes
<1>5. pc \in PCs
  BY DEF PCs
<1>6. y \in RunRecord
  BY <1>1, <1>2, <1>3, <1>5 DEF RunRecord
<1>7. /\ y.pc = pc /\ y.flows = x.flows /\ y.layers = x.layers /\ y.at = x.at
      /\ y.done = x.done /\ y.failed = x.failed /\ y.out = x.out
  BY <1>1, <1>2, <1>3 DEF RunRecord
<1>8. Good(y)
  BY <1>2, <1>6, <1>7, WithinFlow
<1> QED BY <1>2, <1>4, <1>7, <1>8

LEMMA RegisterMoves ==
    ASSUME Shape, NEW q \in Requests, Good(run[q]), Register(q)
    PROVE  \E y : Becomes(q, y) /\ Quiet(y) /\ Good(y) /\ y.pc # "end"
<1>1. run[q] \in RunRecord /\ RunOK(run[q]) /\ run[q].pc \in Busy
  BY DEF Good, Register, Busy
<1>2. PICK x : x = run[q]
  OBVIOUS
<1>3. CASE Flow(q).live
  <2>1. PICK y : y = [x EXCEPT !.listed = HasCatalog, !.pc = "poll"]
    OBVIOUS
  <2>2. Becomes(q, y)
    BY <1>2, <1>3, <2>1 DEF Becomes, Register
  <2>3. "poll" \in PCs /\ "poll" \in Busy /\ HasCatalog \in BOOLEAN
    BY PipelineAssumption DEF PCs, Busy
  <2>4. y \in RunRecord
    BY <1>1, <1>2, <2>1, <2>3 DEF RunRecord
  <2>5. /\ y.pc = "poll" /\ y.flows = x.flows /\ y.layers = x.layers /\ y.at = x.at
        /\ y.done = x.done /\ y.failed = x.failed
    BY <1>1, <1>2, <2>1 DEF RunRecord
  <2>6. Good(y)
    BY <1>1, <1>2, <2>3, <2>4, <2>5, WithinFlow
  <2> QED BY <2>2, <2>5, <2>6 DEF Quiet
<1>4. CASE ~Flow(q).live
  <2>1. PICK y : y = Succeeded(x)
    OBVIOUS
  <2>2. Becomes(q, y)
    BY <1>2, <1>4, <2>1 DEF Becomes, Register
  <2>3. x.done \in Seq(Nat) /\ x.at \in Nat
    BY <1>1, <1>2, RunFields
  <2>4. PICK more \in Seq(Nat) : more = Append(x.done, x.at)
    <3>1. Append(x.done, x.at) \in Seq(Nat)
      BY <2>3
    <3> QED BY <3>1
  <2>5. y = [x EXCEPT !.done = more, !.pc = "pick"]
    BY <2>1, <2>4 DEF Succeeded
  <2>6. "pick" \in PCs
    BY DEF PCs
  <2>7. y \in RunRecord
    BY <1>1, <1>2, <2>5, <2>6 DEF RunRecord
  <2>8. /\ y.pc = "pick" /\ y.flows = x.flows /\ y.layers = x.layers /\ y.at = x.at
        /\ y.done = more /\ y.failed = x.failed
    BY <1>1, <1>2, <2>5 DEF RunRecord
  <2>9. RunOK(y) /\ y.at \in 0..Len(y.flows)
    BY <1>1, <1>2, <2>4, <2>8, RunEnds
  <2> QED BY <2>2, <2>7, <2>8, <2>9 DEF Good, Quiet
<1> QED BY <1>3, <1>4

-----------------------------------------------------------------------------
(* Each part of the invariant after a step. *)

LEMMA GraphAfter ==
    ASSUME Shape, GraphInv, NEW q \in Requests, NEW y, Becomes(q, y), Good(y)
    PROVE  GraphInv' /\ run' \in [Requests -> RunRecord]
<1>1. run \in [Requests -> RunRecord]
  BY DEF Shape
<1>2. /\ run'[q] = y /\ \A p \in Requests : p # q => run'[p] = run[p]
      /\ run' \in [Requests -> RunRecord]
  BY <1>1, AfterStep DEF Good
<1>3. ASSUME NEW p \in Requests
      PROVE  RunOK(run[p])' /\ (run[p].at \in 0..Len(run[p].flows))'
  <2>1. PICK z : z = run'[p]
    OBVIOUS
  <2>2. RunOK(z) /\ z.at \in 0..Len(z.flows)
    BY <1>2, <2>1 DEF GraphInv, Good
  <2> QED BY <2>1, <2>2
<1> QED BY <1>2, <1>3 DEF GraphInv

LEMMA DestAfter ==
    ASSUME Shape, GraphInv, DestInv, NEW q \in Requests, NEW y, Becomes(q, y),
           Writing(y, files', World.concurrent = 1), scenario' = scenario,
           \A p \in Paths \cup Keys : files[p] # Absent => files'[p] # Absent,
           RegisteredExists', q \in Active \/ (files' = files /\ (World.concurrent = 1 => Active = {}))
    PROVE  DestInv'
<1>1. run \in [Requests -> RunRecord]
  BY DEF Shape
<1>2. run'[q] = y /\ \A p \in Requests : p # q => run'[p] = run[p]
  BY <1>1, AfterStep
<1>3. World' = World
  BY DEF World
<1>4. Active' \subseteq Active \cup {q}
  BY <1>2 DEF Active
<1>5. ASSUME World.concurrent = 1 PROVE \A r, s \in Active' : r = s
  <2>1. \A r, s \in Active : r = s
    BY <1>5 DEF DestInv
  <2> QED BY <1>4, <1>5, <2>1
<1>6. ASSUME NEW p \in Requests, p # q PROVE Writing(run[p], files', World.concurrent = 1)
  <2>1. PICK x : x = run[p]
    OBVIOUS
  <2>2. x \in RunRecord /\ RunOK(x) /\ Writing(x, files, World.concurrent = 1)
    BY <1>1, <2>1 DEF GraphInv, DestInv
  <2>3. CASE x.pc = "register"
    <3>1. x.pc \in Busy
      BY <2>3 DEF Busy
    <3>2. x.flows[x.at].dest \in Paths \cup Keys
      BY <2>2, <3>1, BusyFlow, FlowFields
    <3>3. p \in Active
      BY <2>1, <2>3 DEF Active
    <3>4. World.concurrent = 1 => files' = files
      BY <1>6, <3>3 DEF DestInv
    <3> QED BY <2>1, <2>2, <2>3, <3>2, <3>4 DEF Writing
  <2>4. CASE x.pc = "write"
    <3>1. p \in Active
      BY <2>1, <2>4 DEF Active
    <3>2. World.concurrent = 1 => files' = files
      BY <1>6, <3>1 DEF DestInv
    <3> QED BY <2>1, <2>2, <2>4, <3>2 DEF Writing
  <2>5. CASE x.pc \notin {"register", "write"}
    BY <2>1, <2>2, <2>5 DEF Writing
  <2> QED BY <2>3, <2>4, <2>5
<1>7. \A p \in Requests : Writing(run'[p], files', World.concurrent = 1)
  BY <1>2, <1>6
<1> QED BY <1>3, <1>5, <1>7 DEF DestInv

\* A step that touches no file and no table.
LEMMA DestQuiet ==
    ASSUME Shape, GraphInv, DestInv, NEW q \in Requests, NEW y, Becomes(q, y), Quiet(y),
           scenario' = scenario, files' = files, tables' = tables,
           q \in Active \/ (World.concurrent = 1 => Active = {})
    PROVE  DestInv'
<1>1. Writing(y, files', World.concurrent = 1)
  BY DEF Writing, Quiet
<1>2. RegisteredExists'
  BY DEF DestInv, RegisteredExists
<1> QED BY <1>1, <1>2, DestAfter

\* A step that changes the destination of a flow.
LEMMA DestWritten ==
    ASSUME Shape, GraphInv, DestInv, NEW q \in Requests, run[q].pc \in Busy,
           NEW y, Becomes(q, y), y.flows = run[q].flows, y.at = run[q].at,
           NEW f, f # Absent, files' = [files EXCEPT ![Flow(q).dest] = f],
           scenario' = scenario, tables' = tables, y.pc # "append",
           y.pc = "write" => f.fmt = "empty",
           y.pc = "register" /\ World.concurrent = 1 /\ ~Flow(q).live =>
             f.rows = y.out /\ f.fmt \in {"table", "csv"}
    PROVE  DestInv'
<1>1. Flow(q) \in Flows /\ Flow(q).dest \in Paths \cup Keys
  BY BusyFlow, FlowFields DEF Flow, Shape, GraphInv
<1>2. files'[Flow(q).dest] = f /\ \A p \in Paths \cup Keys : p # Flow(q).dest => files'[p] = files[p]
  BY <1>1 DEF Shape
<1>3. \A p \in Paths \cup Keys : files[p] # Absent => files'[p] # Absent
  BY <1>2
<1>4. Flow(q) = y.flows[y.at]
  BY DEF Flow
<1>5. Writing(y, files', World.concurrent = 1)
  BY <1>2, <1>4 DEF Writing
<1>6. RegisteredExists'
  <2> SUFFICES ASSUME NEW t \in TableNames, tables[t] # None
               PROVE  files'[tables[t].path] # Absent
    BY DEF RegisteredExists
  <2>1. tables[t] \in Entries
    BY DEF Shape
  <2>2. tables[t].path \in Paths \cup Keys
    BY <2>1 DEF Entries
  <2>3. files[tables[t].path] # Absent
    BY DEF DestInv, RegisteredExists
  <2> QED BY <1>3, <2>2, <2>3
<1>7. q \in Active
  BY DEF Active, Busy
<1> QED BY <1>3, <1>5, <1>6, <1>7, DestAfter

LEMMA AnswerAfter ==
    ASSUME Shape, AnswerInv, NEW q \in Requests, run[q].pc # "end", NEW y, Becomes(q, y),
           \/ resp' = resp
           \/ \E c : /\ resp' = [resp EXCEPT ![q] = c] /\ y.pc = "end"
                     /\ c = "200" => Complete(y)
    PROVE  AnswerInv'
<1>1. run \in [Requests -> RunRecord] /\ resp \in [Requests -> {"none", "200", "400", "500"}]
  BY DEF Shape
<1>2. run'[q] = y /\ \A p \in Requests : p # q => run'[p] = run[p]
  BY <1>1, AfterStep
<1>3. resp[q] = "none"
  BY DEF AnswerInv
<1>4. ASSUME NEW p \in Requests
      PROVE  (resp'[p] # "none" => run'[p].pc = "end") /\ (resp'[p] = "200" => Complete(run'[p]))
  <2>1. CASE p # q
    BY <1>1, <1>2, <2>1 DEF AnswerInv
  <2>2. CASE p = q /\ resp' = resp
    BY <1>3, <2>2
  <2>3. CASE p = q /\ resp' # resp
    <3>1. PICK c : resp' = [resp EXCEPT ![q] = c] /\ y.pc = "end" /\ (c = "200" => Complete(y))
      BY <2>3
    <3>2. resp'[q] = c
      BY <1>1, <3>1
    <3> QED BY <1>2, <2>3, <3>1, <3>2
  <2> QED BY <2>1, <2>2, <2>3
<1> QED BY <1>4 DEF AnswerInv

-----------------------------------------------------------------------------
(* Every step keeps the invariant. *)

LEMMA InitHolds == Init => IInv
<1> SUFFICES ASSUME Init PROVE IInv
  OBVIOUS
<1>1. files \in [Paths \cup Keys -> Files]
  <2>1. Rows \in Batches /\ {} \in Batches
    BY DEF Batches
  <2>2. File("csv", Rows) \in Files /\ Absent \in Files
    BY <2>1 DEF File, Absent, Files
  <2> QED BY <2>2 DEF Init
<1>2. tables \in [TableNames -> Entries \cup {None}]
  <2> SUFFICES ASSUME NEW s \in DOMAIN Seeded, Seeded[s] # None
               PROVE  [path |-> Seeded[s], source |-> "csv"] \in Entries
    BY DEF Init
  <2> QED BY PipelineAssumption DEF Entries
<1>3. inbox \in [Dirs -> Seq(Arrivals)]
  <2>1. PICK none : none = <<>>
    OBVIOUS
  <2>2. none \in Seq(Arrivals)
    BY <2>1
  <2> QED BY <2>1, <2>2 DEF Init
<1>4. Shape
  BY <1>1, <1>2, <1>3, NoRunIs DEF Init, Shape
<1>5. \A q \in Requests : run[q].pc = "idle" /\ run[q].at = 0 /\ run[q].flows = <<>>
  BY DEF Init, NoRun
<1>6. GraphInv
  <2> SUFFICES ASSUME NEW q \in Requests PROVE RunOK(run[q]) /\ run[q].at \in 0..Len(run[q].flows)
    BY DEF GraphInv
  <2>1. RunOK(run[q])
    BY <1>5 DEF RunOK, Busy
  <2> QED BY <1>5, <2>1
<1>7. DestInv
  <2>1. RegisteredExists
    <3> SUFFICES ASSUME NEW s \in TableNames, tables[s] # None
                 PROVE  files[tables[s].path] # Absent
      BY DEF RegisteredExists
    <3>1. /\ s \in DOMAIN Seeded /\ Seeded[s] # None
          /\ tables[s] = [path |-> Seeded[s], source |-> "csv"]
      BY DEF Init
    <3>2. Seeded[s] \in Paths /\ Seeded[s] \in SeedFiles
      BY <3>1, PipelineAssumption DEF SeedFiles
    <3>3. files[Seeded[s]] = File("csv", Rows)
      BY <3>2 DEF Init
    <3> QED BY <3>1, <3>3 DEF File, Absent
  <2>2. Active = {}
    BY <1>5 DEF Active
  <2>3. \A q \in Requests : Writing(run[q], files, World.concurrent = 1)
    BY <1>5 DEF Writing
  <2> QED BY <2>1, <2>2, <2>3 DEF DestInv
<1>8. AnswerInv
  BY DEF Init, AnswerInv
<1> QED BY <1>4, <1>6, <1>7, <1>8 DEF IInv

\* A step of a busy or layering request that only changes its runner.
LEMMA QuietHolds ==
    ASSUME IInv, NEW q \in Requests, run[q].pc \notin {"idle", "end"},
           UNCHANGED <<scenario, files, inbox, tables, resp, registry, arrivals>>,
           errors' \in Nat,
           \E y : Becomes(q, y) /\ Quiet(y) /\ Good(y) /\ y.pc # "end"
    PROVE  IInv'
<1>1. PICK y : Becomes(q, y) /\ Quiet(y) /\ Good(y)
  OBVIOUS
<1>2. Shape /\ GraphInv /\ DestInv /\ AnswerInv
  BY DEF IInv
<1>3. GraphInv' /\ run' \in [Requests -> RunRecord]
  BY <1>1, <1>2, GraphAfter
<1>4. Shape'
  BY <1>2, <1>3 DEF Shape
<1>5. q \in Active
  BY DEF Active
<1>6. DestInv'
  BY <1>1, <1>2, <1>5, DestQuiet
<1>7. AnswerInv'
  BY <1>1, <1>2, AnswerAfter
<1> QED BY <1>3, <1>4, <1>6, <1>7 DEF IInv

LEMMA GoodRun ==
    ASSUME IInv, NEW q \in Requests
    PROVE  Good(run[q]) /\ Shape
BY DEF IInv, Shape, GraphInv, Good

LEMMA SubmitHolds ==
    ASSUME IInv, NEW q \in Requests, Submit(q)
    PROVE  IInv'
<1>1. Shape /\ GraphInv /\ DestInv /\ AnswerInv
  BY DEF IInv
<1>2. PICK y : Becomes(q, y) /\ Quiet(y) /\ Good(y) /\ (y.pc = "end" \/ resp' = resp)
  BY <1>1, SubmitMoves
<1>3. GraphInv' /\ run' \in [Requests -> RunRecord]
  BY <1>1, <1>2, GraphAfter
<1>4. UNCHANGED <<scenario, files, inbox, tables, arrivals, errors>> /\ run[q].pc = "idle"
  BY DEF Submit
<1>5. /\ registry' \subseteq Specs
      /\ resp' = resp \/ \E c \in {"400", "500"} : resp' = [resp EXCEPT ![q] = c]
  <2>1. World.specs \subseteq Specs
    BY <1>1 DEF Shape, World, Specs
  <2> QED BY <1>1, <2>1 DEF Submit, Shape
<1>6. Shape'
  <2>1. resp' \in [Requests -> {"none", "200", "400", "500"}]
    BY <1>1, <1>5 DEF Shape
  <2> QED BY <1>1, <1>3, <1>4, <1>5, <2>1 DEF Shape
\* With one run at a time, a request starts only when no other runs.
<1>7. World.concurrent = 1 => Active = {}
  <2>1. IsFiniteSet(Requests) /\ Active \subseteq Requests
    BY PipelineAssumption DEF Active
  <2>2. IsFiniteSet(Active)
    BY <2>1, FS_Subset
  <2>3. Cardinality(Active) \in Nat /\ (Cardinality(Active) = 0 <=> Active = {})
    BY <2>2, FS_CardinalityType, FS_EmptySet
  <2>4. Cardinality(Active) < World.concurrent
    BY DEF Submit
  <2> QED BY <2>3, <2>4
<1>8. DestInv'
  BY <1>1, <1>2, <1>4, <1>7, DestQuiet
<1>9. AnswerInv'
  <2>1. CASE resp' = resp
    BY <1>1, <1>2, <1>4, <2>1, AnswerAfter
  <2>2. CASE resp' # resp
    <3>1. PICK c \in {"400", "500"} : resp' = [resp EXCEPT ![q] = c]
      BY <1>5, <2>2
    <3>2. y.pc = "end" /\ c # "200"
      BY <1>2, <2>2
    <3> QED BY <1>1, <1>2, <1>4, <3>1, <3>2, AnswerAfter
  <2> QED BY <2>1, <2>2
<1> QED BY <1>3, <1>6, <1>8, <1>9 DEF IInv

LEMMA FinishHolds ==
    ASSUME IInv, NEW q \in Requests, Finish(q)
    PROVE  IInv'
<1>1. Shape /\ GraphInv /\ DestInv /\ AnswerInv
  BY DEF IInv
<1>2. PICK y : Becomes(q, y) /\ Quiet(y) /\ Good(y) /\ y.pc = "end" /\ Complete(y)
  BY <1>1, GoodRun, FinishMoves
<1>3. GraphInv' /\ run' \in [Requests -> RunRecord]
  BY <1>1, <1>2, GraphAfter
<1>4. /\ UNCHANGED <<scenario, files, inbox, tables, registry, arrivals, errors>>
      /\ run[q].pc = "pick" /\ resp' = [resp EXCEPT ![q] = "200"]
  BY DEF Finish
<1>5. Shape'
  <2>1. resp' \in [Requests -> {"none", "200", "400", "500"}]
    BY <1>1, <1>4 DEF Shape
  <2> QED BY <1>1, <1>3, <1>4, <2>1 DEF Shape
<1>6. q \in Active
  BY <1>4 DEF Active
<1>7. DestInv'
  BY <1>1, <1>2, <1>4, <1>6, DestQuiet
<1>8. AnswerInv'
  BY <1>1, <1>2, <1>4, AnswerAfter
<1> QED BY <1>3, <1>5, <1>7, <1>8 DEF IInv

\* A step that changes the destination of the flow being run.
LEMMA WriteHolds ==
    ASSUME IInv, NEW q \in Requests, run[q].pc \in Busy, NEW pc \in Busy,
           run' = [run EXCEPT ![q].pc = pc], NEW f \in Files, f # Absent,
           files' = [files EXCEPT ![Flow(q).dest] = f],
           UNCHANGED <<scenario, inbox, tables, resp, registry, arrivals, errors>>,
           pc # "append", pc = "write" => f.fmt = "empty",
           pc = "register" /\ World.concurrent = 1 /\ ~Flow(q).live =>
             f.rows = run[q].out /\ f.fmt \in {"table", "csv"}
    PROVE  IInv'
<1>1. Shape /\ GraphInv /\ DestInv /\ AnswerInv
  BY DEF IInv
<1>2. PICK y : /\ Becomes(q, y) /\ Good(y) /\ y.pc = pc
               /\ y.flows = run[q].flows /\ y.at = run[q].at /\ y.out = run[q].out
  BY <1>1, GoodRun, PcMoves
<1>3. GraphInv' /\ run' \in [Requests -> RunRecord]
  BY <1>1, <1>2, GraphAfter
<1>4. Shape'
  <2>1. files' \in [Paths \cup Keys -> Files]
    BY <1>1 DEF Shape
  <2> QED BY <1>1, <1>3, <2>1 DEF Shape
<1>5. DestInv'
  <2>1. y.pc # "append" /\ (y.pc = "write" => f.fmt = "empty")
    BY <1>2
  <2>2. y.pc = "register" /\ World.concurrent = 1 /\ ~Flow(q).live =>
          f.rows = y.out /\ f.fmt \in {"table", "csv"}
    BY <1>2
  <2>3. Becomes(q, y) /\ y.flows = run[q].flows /\ y.at = run[q].at
    BY <1>2
  <2>4. scenario' = scenario /\ tables' = tables
    OBVIOUS
  <2> QED BY <1>1, <2>1, <2>2, <2>3, <2>4, DestWritten
<1>6. AnswerInv'
  <2>1. run[q].pc # "end"
    BY DEF Busy
  <2> QED BY <1>1, <1>2, <2>1, AnswerAfter
<1> QED BY <1>3, <1>4, <1>5, <1>6 DEF IInv

LEMMA TruncateHolds ==
    ASSUME IInv, NEW q \in Requests, Truncate(q)
    PROVE  IInv'
<1>1. PICK f : f = File("empty", {})
  OBVIOUS
<1>2. f \in Files /\ f # Absent /\ f.fmt = "empty"
  BY <1>1 DEF File, Files, Batches, Absent
<1>3. run[q].pc \in Busy /\ "write" \in Busy /\ "write" # "register"
  BY DEF Truncate, Busy
<1>4. /\ run' = [run EXCEPT ![q].pc = "write"] /\ files' = [files EXCEPT ![Flow(q).dest] = f]
      /\ UNCHANGED <<scenario, inbox, tables, resp, registry, arrivals, errors>>
  BY <1>1 DEF Truncate
<1> QED BY <1>2, <1>3, <1>4, WriteHolds

LEMMA WriteStepHolds ==
    ASSUME IInv, NEW q \in Requests, Write(q)
    PROVE  IInv'
<1>1. Good(run[q]) /\ Shape /\ DestInv
  BY GoodRun DEF IInv
<1>2. run[q].pc \in Busy /\ run[q].pc = "write" /\ "register" \in Busy
  BY DEF Write, Busy
<1>3. Flow(q) \in Flows /\ Flow(q).dest \in Paths \cup Keys
  BY <1>1, <1>2, BusyFlow, FlowFields DEF Flow, Good
<1>4. PICK old \in Files : old = files[Flow(q).dest]
  BY <1>1, <1>3 DEF Shape
<1>5. PICK out \in Batches : out = run[q].out
  BY <1>1, RunFields DEF Good
<1>6. PICK f \in Written(old, out) : files' = [files EXCEPT ![Flow(q).dest] = f]
  BY <1>4, <1>5 DEF Write
<1>7. f \in Files /\ f # Absent
  <2>1. out \cup old.rows \in Batches
    BY DEF Files, Batches
  <2>2. PICK rows \in {out, out \cup old.rows}, fmt \in {"table", "torn"} :
           f = [fmt |-> fmt, rows |-> rows]
    BY <1>6 DEF Written, File
  <2>3. rows \in Batches
    BY <2>1, <2>2
  <2>4. f \in Files
    BY <2>2, <2>3 DEF Files
  <2>5. f.fmt # "none" /\ Absent.fmt = "none"
    BY <2>2 DEF Absent, File
  <2> QED BY <2>4, <2>5
<1>8. World.concurrent = 1 => old.fmt = "empty"
  BY <1>1, <1>2, <1>4 DEF DestInv, Writing, Flow
<1>9. World.concurrent = 1 => f.rows = out /\ f.fmt \in {"table", "csv"}
  BY <1>6, <1>8 DEF Written, File
<1>10. /\ run' = [run EXCEPT ![q].pc = "register"]
       /\ UNCHANGED <<scenario, inbox, tables, resp, registry, arrivals, errors>>
  BY DEF Write
<1> QED BY <1>2, <1>5, <1>6, <1>7, <1>9, <1>10, WriteHolds

LEMMA PutHolds ==
    ASSUME IInv, NEW q \in Requests, PutObject(q)
    PROVE  IInv'
<1>1. Good(run[q])
  BY GoodRun
<1>2. PICK out \in Batches : out = run[q].out
  BY <1>1, RunFields DEF Good
<1>3. PICK f : f = File("csv", out)
  OBVIOUS
<1>4. f \in Files /\ f # Absent /\ f.fmt = "csv" /\ f.rows = out
  BY <1>3 DEF File, Files, Absent
<1>5. run[q].pc \in Busy /\ "register" \in Busy
  BY DEF PutObject, Busy
<1>6. /\ run' = [run EXCEPT ![q].pc = "register"] /\ files' = [files EXCEPT ![Flow(q).dest] = f]
      /\ UNCHANGED <<scenario, inbox, tables, resp, registry, arrivals, errors>>
  BY <1>2, <1>3 DEF PutObject
<1> QED BY <1>2, <1>4, <1>5, <1>6, WriteHolds

LEMMA AppendHolds ==
    ASSUME IInv, NEW q \in Requests, AppendBatch(q)
    PROVE  IInv'
<1>1. Good(run[q]) /\ Shape /\ DestInv
  BY GoodRun DEF IInv
<1>2. run[q].pc = "append" /\ run[q].pc \in Busy /\ run[q].pc \notin {"idle", "end"}
  BY DEF AppendBatch, Busy
<1>3. Flow(q) \in Flows /\ Flow(q).dest \in Paths \cup Keys
  BY <1>1, <1>2, BusyFlow, FlowFields DEF Flow, Good
<1>4. CASE Flow(q).dest \in Keys
  <2>1. Fails(q) /\ UNCHANGED <<scenario, files, inbox, tables, resp, registry, arrivals, errors>>
    BY <1>4 DEF AppendBatch
  <2>2. \E y : Becomes(q, y) /\ Quiet(y) /\ Good(y) /\ y.pc # "end"
    BY <1>1, <1>2, <2>1, FailMoves
  <2>3. errors' \in Nat
    BY <1>1, <2>1 DEF Shape
  <2> QED BY <1>2, <2>1, <2>2, <2>3, QuietHolds
<1>5. CASE Flow(q).dest \notin Keys
  <2>1. PICK old \in Files : old = files[Flow(q).dest]
    BY <1>1, <1>3 DEF Shape
  <2>2. PICK input \in Batches : input = run[q].input
    BY <1>1, RunFields DEF Good
  <2>3. PICK f : f = Appended(old, input)
    OBVIOUS
  <2>4. f \in Files /\ f # Absent
    <3>1. old.rows \cup input \in Batches
      BY DEF Files, Batches
    <3> QED BY <2>3, <3>1 DEF Appended, File, Files, Absent
  <2>5. PICK pc : pc = IF run[q].listed THEN "poll" ELSE "register"
    OBVIOUS
  <2>6. pc \in Busy /\ pc # "append" /\ pc # "write"
    BY <2>5 DEF Busy
  <2>7. Flow(q).live
    BY <1>1, <1>2 DEF DestInv, Writing, Flow
  <2>8. /\ run' = [run EXCEPT ![q].pc = pc] /\ files' = [files EXCEPT ![Flow(q).dest] = f]
        /\ UNCHANGED <<scenario, inbox, tables, resp, registry, arrivals, errors>>
    BY <1>5, <2>1, <2>2, <2>3, <2>5 DEF AppendBatch
  <2> QED BY <1>2, <2>4, <2>6, <2>7, <2>8, WriteHolds
<1> QED BY <1>4, <1>5

LEMMA RegisterHolds ==
    ASSUME IInv, NEW q \in Requests, Register(q)
    PROVE  IInv'
<1>1. Shape /\ GraphInv /\ DestInv /\ AnswerInv /\ Good(run[q])
  BY GoodRun DEF IInv
<1>2. PICK y : Becomes(q, y) /\ Quiet(y) /\ Good(y) /\ y.pc # "end"
  BY <1>1, RegisterMoves
<1>3. GraphInv' /\ run' \in [Requests -> RunRecord]
  BY <1>1, <1>2, GraphAfter
<1>4. /\ UNCHANGED <<scenario, files, inbox, resp, registry, arrivals, errors>>
      /\ run[q].pc = "register" /\ run[q].pc \in Busy /\ run[q].pc # "end"
  BY DEF Register, Busy
<1>5. /\ Flow(q) \in Flows /\ Flow(q).dest \in Paths \cup Keys /\ Flow(q).name \in TableNames
      /\ files[Flow(q).dest] # Absent
  BY <1>1, <1>4, BusyFlow, FlowFields DEF Flow, Good, DestInv, Writing
<1>6. PICK e : e = Registered(Flow(q))
  OBVIOUS
<1>7. e \in Entries /\ e.path = Flow(q).dest
  BY <1>5, <1>6 DEF Registered, Entries
<1>8. tables' = tables \/ tables' = [tables EXCEPT ![Flow(q).name] = e]
  BY <1>6 DEF Register
<1>9. /\ tables' \in [TableNames -> Entries \cup {None}]
      /\ \A t \in TableNames : tables'[t] = tables[t] \/ tables'[t] = e
  BY <1>1, <1>5, <1>7, <1>8 DEF Shape
<1>10. Shape'
  BY <1>1, <1>3, <1>4, <1>9 DEF Shape
<1>11. RegisteredExists'
  <2> SUFFICES ASSUME NEW t \in TableNames, tables'[t] # None
               PROVE  files[tables'[t].path] # Absent
    BY <1>4 DEF RegisteredExists
  <2>1. CASE tables'[t] = tables[t]
    BY <1>1, <2>1 DEF DestInv, RegisteredExists
  <2>2. CASE tables'[t] = e
    BY <1>5, <1>7, <2>2
  <2> QED BY <1>9, <2>1, <2>2
<1>12. DestInv'
  <2>1. Writing(y, files', World.concurrent = 1)
    BY <1>2 DEF Writing, Quiet
  <2>2. q \in Active
    BY <1>4 DEF Active
  <2>3. \A p \in Paths \cup Keys : files[p] # Absent => files'[p] # Absent
    BY <1>4
  <2> QED BY <1>1, <1>2, <1>4, <1>11, <2>1, <2>2, <2>3, DestAfter
<1>13. AnswerInv'
  BY <1>1, <1>2, <1>4, AnswerAfter
<1> QED BY <1>3, <1>10, <1>12, <1>13 DEF IInv

LEMMA RunStepHolds ==
    ASSUME IInv, NEW q \in Requests, RunStep(q)
    PROVE  IInv'
<1>1. Good(run[q]) /\ Shape
  BY GoodRun
<1>2. errors \in Nat
  BY <1>1 DEF Shape
<1>3. CASE Layer(q)
  <2>1. \E y : Becomes(q, y) /\ Quiet(y) /\ Good(y) /\ y.pc # "end"
    BY <1>1, <1>3, LayerMoves
  <2>2. /\ UNCHANGED <<scenario, files, inbox, tables, resp, registry, arrivals, errors>>
        /\ run[q].pc \notin {"idle", "end"}
    BY <1>3 DEF Layer
  <2> QED BY <1>2, <2>1, <2>2, QuietHolds
<1>4. CASE Pick(q)
  <2>1. \E y : Becomes(q, y) /\ Quiet(y) /\ Good(y) /\ y.pc # "end"
    BY <1>1, <1>4, PickMoves
  <2>2. /\ UNCHANGED <<scenario, files, inbox, tables, resp, registry, arrivals, errors>>
        /\ run[q].pc \notin {"idle", "end"}
    BY <1>4 DEF Pick
  <2> QED BY <1>2, <2>1, <2>2, QuietHolds
<1>5. CASE Poll(q)
  <2>1. \E y : Becomes(q, y) /\ Quiet(y) /\ Good(y) /\ y.pc # "end"
    BY <1>1, <1>5, PollMoves
  <2>2. /\ UNCHANGED <<scenario, files, inbox, tables, resp, registry, arrivals, errors>>
        /\ run[q].pc \notin {"idle", "end"}
    BY <1>5 DEF Poll
  <2> QED BY <1>2, <2>1, <2>2, QuietHolds
<1>6. CASE Execute(q)
  <2>1. \E y : Becomes(q, y) /\ Quiet(y) /\ Good(y) /\ y.pc # "end"
    BY <1>1, <1>6, ExecuteMoves
  <2>2. /\ UNCHANGED <<scenario, files, inbox, tables, resp, registry, arrivals, errors>>
        /\ run[q].pc \notin {"idle", "end"}
    BY <1>6 DEF Execute
  <2> QED BY <1>2, <2>1, <2>2, QuietHolds
<1>7. CASE WriteFails(q)
  <2>1. /\ Fails(q) /\ run[q].pc \in Busy /\ run[q].pc \notin {"idle", "end"}
        /\ UNCHANGED <<scenario, files, inbox, tables, resp, registry, arrivals>>
        /\ errors' \in Nat
    BY <1>2, <1>7 DEF WriteFails, Busy
  <2>2. \E y : Becomes(q, y) /\ Quiet(y) /\ Good(y) /\ y.pc # "end"
    BY <1>1, <2>1, FailMoves
  <2> QED BY <2>1, <2>2, QuietHolds
<1>8. CASE TailFails(q)
  <2>1. /\ Fails(q) /\ run[q].pc \in Busy /\ run[q].pc \notin {"idle", "end"}
        /\ UNCHANGED <<scenario, files, inbox, tables, resp, registry, arrivals>>
        /\ errors' \in Nat
    BY <1>2, <1>8 DEF TailFails, Busy
  <2>2. \E y : Becomes(q, y) /\ Quiet(y) /\ Good(y) /\ y.pc # "end"
    BY <1>1, <2>1, FailMoves
  <2> QED BY <2>1, <2>2, QuietHolds
<1> QED BY <1>3, <1>4, <1>5, <1>6, <1>7, <1>8, FinishHolds, TruncateHolds, WriteStepHolds, PutHolds,
            AppendHolds, RegisterHolds DEF RunStep

\* The producers change no file that a run writes.
LEMMA ProducerHolds ==
    ASSUME IInv, FileArrives \/ FileRemoved
    PROVE  IInv'
<1>1. Shape /\ GraphInv /\ DestInv /\ AnswerInv
  BY DEF IInv
<1>2. UNCHANGED <<scenario, files, tables, run, resp, registry, errors>> /\ arrivals' \in Nat
  BY <1>1 DEF FileArrives, FileRemoved, Shape
<1>3. inbox' \in [Dirs -> Seq(Arrivals)]
  <2>1. ASSUME NEW d \in Dirs, NEW a \in Arrivals, inbox' = [inbox EXCEPT ![d] = Append(@, a)]
        PROVE  inbox' \in [Dirs -> Seq(Arrivals)]
    <3>1. Append(inbox[d], a) \in Seq(Arrivals)
      BY <1>1 DEF Shape
    <3> QED BY <1>1, <2>1, <3>1 DEF Shape
  <2>2. ASSUME NEW d \in Dirs, inbox[d] # <<>>, inbox' = [inbox EXCEPT ![d] = Tail(@)]
        PROVE  inbox' \in [Dirs -> Seq(Arrivals)]
    <3>1. Tail(inbox[d]) \in Seq(Arrivals)
      BY <1>1, <2>2 DEF Shape
    <3> QED BY <1>1, <2>2, <3>1 DEF Shape
  <2>3. ASSUME NEW rows \in {{x} : x \in Rows} \cup {None}
        PROVE  [id |-> arrivals, rows |-> rows] \in Arrivals
    BY <1>1 DEF Shape, Arrivals
  <2>4. CASE FileArrives
    BY <2>1, <2>3, <2>4 DEF FileArrives
  <2>5. CASE FileRemoved
    BY <2>2, <2>5 DEF FileRemoved
  <2> QED BY <2>4, <2>5
<1>4. Shape'
  BY <1>1, <1>2, <1>3 DEF Shape
<1>5. GraphInv'
  BY <1>1, <1>2 DEF GraphInv
<1>6. DestInv' /\ AnswerInv'
  BY <1>1, <1>2 DEF DestInv, AnswerInv, RegisteredExists, Active, World
<1> QED BY <1>4, <1>5, <1>6 DEF IInv

\* The inductive invariant holds in every reachable state.
THEOREM Invariance == Spec => []IInv
<1>1. ASSUME IInv, [Next]_vars PROVE IInv'
  <2>1. CASE UNCHANGED vars
    BY <1>1, <2>1 DEF vars, IInv, Shape, GraphInv, DestInv, AnswerInv, RegisteredExists,
                      Active, World
  <2>2. CASE FileArrives \/ FileRemoved
    BY <1>1, <2>2, ProducerHolds
  <2>3. ASSUME NEW q \in Requests, Submit(q) \/ RunStep(q) PROVE IInv'
    BY <1>1, <2>3, SubmitHolds, RunStepHolds
  <2> QED BY <1>1, <2>1, <2>2, <2>3 DEF Next
<1> QED BY <1>1, InitHolds, PTL DEF Spec

-----------------------------------------------------------------------------
(***************************************************************************)
(* The variables keep their types: no step puts a value in a file, a table *)
(* or an answer that the code cannot put there, and a runner's current     *)
(* flow is one of its list (the runner, run_one, register_flow_output).    *)
(***************************************************************************)
THEOREM TypeCorrect == Spec => []TypeOK
<1>1. IInv => TypeOK
  <2> SUFFICES ASSUME IInv PROVE TypeOK
    OBVIOUS
  <2>1. Shape /\ GraphInv
    BY DEF IInv
  <2>2. ASSUME NEW q \in Requests
        PROVE  /\ run[q].pc \in {"idle", "layer", "pick", "poll", "execute", "truncate", "write",
                                 "append", "register", "end"}
               /\ run[q].input \in Batches /\ run[q].out \in Batches
               /\ run[q].at \in 0..Len(run[q].flows)
    <3>1. run[q] \in RunRecord
      BY <2>1 DEF Shape
    <3>2. run[q].pc \in PCs /\ run[q].input \in Batches /\ run[q].out \in Batches
      BY <3>1, RunFields
    <3> QED BY <2>1, <3>2 DEF PCs, Busy, GraphInv
  <2> QED BY <2>1, <2>2 DEF TypeOK, Shape, Files
<1> QED BY <1>1, Invariance, PTL

(***************************************************************************)
(* For any accepted pipeline, also one whose flows share names: a flow is  *)
(* polled, executed or written only after what it depends on has ended in  *)
(* the same run (run() walks layers() in order).                           *)
(***************************************************************************)
THEOREM DependenciesRunFirst == Spec => []DependenciesFirst
<1>1. IInv => DependenciesFirst
  <2> SUFFICES ASSUME IInv, NEW q \in Requests,
                      run[q].pc \in {"poll", "execute", "truncate", "write", "append"},
                      NEW k \in DOMAIN Flow(q).deps
               PROVE  FlowAt(run[q].flows, NodeOf(run[q].flows, Flow(q).deps[k])) \in Ended(q)
    BY DEF DependenciesFirst
  <2>1. PICK x : x = run[q]
    OBVIOUS
  <2>2. x \in RunRecord /\ RunOK(x) /\ x.pc \in Busy /\ x.pc \notin {"idle", "end"}
    BY <2>1, GoodRun DEF Good, Busy
  <2>3. /\ x.flows \in Seq(Flows) /\ ~HasUnknownDep(x.flows)
        /\ Walking(x.flows, x.layers, EndedOf(x), {x.at})
    BY <2>2, RunFields DEF RunOK, Accepted
  <2>4. PICK fs, layers, ended, at :
          fs = x.flows /\ layers = x.layers /\ ended = EndedOf(x) /\ at = x.at
    OBVIOUS
  <2>5. Flow(q) = fs[at] /\ Ended(q) = ended
    BY <2>1, <2>4 DEF Flow, Ended, EndedOf
  <2>6. FlowAt(fs, NodeOf(fs, fs[at].deps[k])) \in ended
    BY <2>3, <2>4, <2>5, WalkDeps
  <2> QED BY <2>1, <2>4, <2>5, <2>6
<1> QED BY <1>1, Invariance, PTL

(***************************************************************************)
(* A run that is answered 200 has accounted for every name exactly once,   *)
(* as a result or as an error, whatever failed (PipelineRunReport).        *)
(***************************************************************************)
THEOREM ReportsComplete == Spec => []ReportComplete
<1>1. IInv => ReportComplete
  BY DEF IInv, AnswerInv, ReportComplete, Complete, Ended, EndedOf
<1> QED BY <1>1, Invariance, PTL

(***************************************************************************)
(* A table of the catalog always names a destination that has been         *)
(* written, with any number of runs and failures (register_flow_output     *)
(* comes after the write).                                                 *)
(***************************************************************************)
THEOREM RegisteredWritten == Spec => []RegisteredExists
<1>1. IInv => RegisteredExists
  BY DEF IInv, DestInv
<1> QED BY <1>1, Invariance, PTL

(***************************************************************************)
(* When requests are handled one at a time, a destination that has just    *)
(* been written holds exactly what the flow computed (write_file).         *)
(***************************************************************************)
THEOREM OutputsWhole == Spec => []WholeOutputs
<1>1. IInv => WholeOutputs
  BY DEF IInv, DestInv, Writing, WholeOutputs, Flow
<1> QED BY <1>1, Invariance, PTL

(***************************************************************************)
(* layers() gives every flow of an accepted pipeline one layer, one past   *)
(* the last of what it depends on, for any graph and any number of         *)
(* repeated dependencies (dag.rs, "longest-path layering").                *)
(***************************************************************************)
THEOREM LayersAreLongestPaths == Spec => []LongestPathLayers
<1>1. IInv => LongestPathLayers
  <2> SUFFICES ASSUME IInv, NEW q \in Requests, run[q].pc = "layer", AtZero(run[q].remaining) = {}
               PROVE  Longest(run[q].flows, run[q].layers)
    BY DEF LongestPathLayers, Longest
  <2>1. PICK x : x = run[q]
    OBVIOUS
  <2>2. x \in RunRecord /\ RunOK(x) /\ x.pc = "layer"
    BY <2>1, GoodRun DEF Good
  <2>3. PICK fs, layers, remaining, left :
          fs = x.flows /\ layers = x.layers /\ remaining = x.remaining /\ left = DOMAIN x.remaining
    OBVIOUS
  <2>4. /\ fs \in Seq(Flows) /\ layers \in Seq(SUBSET Nat) /\ remaining \in [left -> Nat]
        /\ left \in SUBSET Nat
    BY <2>2, <2>3, RunFields
  <2>5. Accepted(fs) /\ Peeling(fs, left, remaining, layers)
    BY <2>2, <2>3 DEF RunOK
  <2>6. AtZero(remaining) = {}
    BY <2>1, <2>3
  <2>7. left = {}
    BY <2>4, <2>5, <2>6, PeelEnds DEF Accepted
  <2>8. /\ Ahead(layers) = DOMAIN fs /\ Disjoint(layers) /\ Forward(fs, layers, DOMAIN fs)
        /\ Tight(fs, layers)
    BY <2>5, <2>7 DEF Peeling
  <2>9. UNION Range(layers) = DOMAIN fs
    BY <2>8 DEF Ahead, Range
  <2>10. \A j, k \in DOMAIN layers : j # k => layers[j] \cap layers[k] = {}
    BY <2>8 DEF Disjoint
  <2>11. \A n \in DOMAIN fs :
           LET LayerOf(m) == CHOOSE k \in DOMAIN layers : m \in layers[k]
               Parents == {EdgeFrom(fs, e) : e \in EdgesInto(fs, DOMAIN fs, n)}
           IN  LayerOf(n) = 1 + Max({0} \cup {LayerOf(m) : m \in Parents})
    BY <2>4, <2>8, LongestPath
  <2>12. Longest(fs, layers)
    BY <2>9, <2>10, <2>11 DEF Longest
  <2> QED BY <2>1, <2>3, <2>12
<1> QED BY <1>1, Invariance, PTL
=============================================================================
