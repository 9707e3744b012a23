--------------------------- MODULE OperatorProofs ---------------------------
(***************************************************************************)
(* Operator, for any scenarios: any specs, and any number of edits,        *)
(* failures and interferences.                                             *)
(***************************************************************************)
EXTENDS Operator, TLAPS

\* The reconciler's local variables, whatever the numbers it has collected.
RecShape(x) ==
    /\ x = [pc |-> x.pc, cr |-> x.cr, i |-> x.i, replicas |-> x.replicas, ready |-> x.ready]
    /\ x.pc \in {"idle", "apply", "getm", "getw", "list", "status"}
    /\ x.cr \in Resources \cup {None}
    /\ x.i \in 0..7
    /\ x.pc = "apply" => x.cr # None /\ x.i > 0

Shape ==
    /\ scenario \in DOMAIN Scenarios
    /\ edits \in 0..World.maxEdits /\ drift \in Nat
    /\ status.phase \in {"Pending", "Reconciling", "Ready"}
    /\ cr \in Resources \cup {None} /\ seen \in Resources \cup {None}
    /\ children \in [Kinds -> Objects \cup {None}]
    /\ \A r \in Roles : children[r] # None => children[r].body \in Deployments
    /\ pods \in [Roles -> [Templates -> Nat]]
    /\ RecShape(rec)

\* An incarnation and an edit of the resource that users have made.
Made(c) == c # None => c.uid \in 1..edits /\ c.gen \in c.uid..edits

MadeInv == /\ Made(cr) /\ Made(seen) /\ Made(rec.cr)
           /\ \A k \in Kinds : Made(children[k])

\* The object at position j belongs to the current resource.
Owned(j) == children[Order[j]] # None /\ children[Order[j]].uid = cr.uid

(***************************************************************************)
(* A reconcile of the current resource has passed the objects before the   *)
(* one it is about to apply.  A reconcile of an earlier resource of the    *)
(* name, which a stale cache may still start, makes no such promise.       *)
(***************************************************************************)
PassedInv ==
    drift = 0 /\ cr # None /\ rec.pc = "apply" /\ rec.cr.uid = cr.uid =>
        \A j \in 1..7 : j < rec.i => Owned(j)

InOrder ==
    drift = 0 /\ cr # None => \A j, k \in 1..7 : j < k /\ Owned(k) => Owned(j)

IInv == Shape /\ MadeInv /\ PassedInv /\ InOrder

-----------------------------------------------------------------------------
(* The objects. *)

LEMMA OrderFacts ==
    /\ Len(Order) = 7 /\ DOMAIN Order = 1..7
    /\ \A j \in 1..7 : Order[j] \in Kinds
    /\ \A j, k \in 1..7 : Order[j] = Order[k] => j = k
    /\ Roles \subseteq Kinds
    /\ \A k \in Kinds : \E j \in 1..7 : k = Order[j]
<1>1. Len(Order) = 7 /\ DOMAIN Order = 1..7
  BY DEF Order
<1>2. /\ Order[1] = "sa" /\ Order[2] = "service" /\ Order[3] = "configmap"
      /\ Order[4] = "master" /\ Order[5] = "worker" /\ Order[6] = "master-pdb"
      /\ Order[7] = "worker-pdb"
  BY DEF Order
<1>3. \A j, k \in 1..7 : Order[j] = Order[k] => j = k
  BY <1>2
<1> QED BY <1>1, <1>2, <1>3 DEF Kinds, Roles

\* What is built for a resource is an object of that resource and edit.
LEMMA BuiltFacts ==
    ASSUME NEW k \in Kinds, NEW c \in Resources
    PROVE  /\ Built(k, c) \in Objects /\ Built(k, c).uid = c.uid /\ Built(k, c).gen = c.gen
           /\ k \in Roles => Built(k, c).body \in Deployments
<1>1. c.spec \in Specs /\ c.uid \in Nat /\ c.gen \in Nat
  BY DEF Resources
<1>2. c.spec.tmpl \in Templates /\ c.spec.masters \in Nat /\ c.spec.workers \in Nat
  BY <1>1, OperatorAssumption DEF Templates
<1>3. PICK b : b = Body(k, c.spec)
  OBVIOUS
<1>4. /\ b \in Deployments \cup [tmpl : Templates] \cup {<<>>}
      /\ k \in Roles => b \in Deployments
  <2>1. CASE k = "master"
    BY <1>2, <1>3, <2>1 DEF Body, MasterDeployment, Deployments
  <2>2. CASE k = "worker"
    BY <1>2, <1>3, <2>2 DEF Body, WorkerDeployment, Deployments
  <2>3. CASE k = "configmap"
    BY <1>2, <1>3, <2>3 DEF Body, MasterConfigMap, Roles
  <2>4. CASE k \notin {"master", "worker", "configmap"}
    BY <1>3, <2>4 DEF Body, Roles
  <2> QED BY <2>1, <2>2, <2>3, <2>4
<1> QED BY <1>1, <1>3, <1>4 DEF Built, Objects

\* An apply leaves an object that it found to another resource, or makes it
\* the new one's.
LEMMA AppliedFacts ==
    ASSUME NEW old \in Objects \cup {None}, NEW new \in Objects
    PROVE  /\ Applied(old, new) \in Objects
           /\ old # None /\ old.uid # new.uid => Applied(old, new) = old
           /\ ~Refused(old, new) => Applied(old, new).uid = new.uid
           /\ Applied(old, new) # old =>
                /\ Applied(old, new).uid = new.uid /\ Applied(old, new).gen = new.gen
                /\ Applied(old, new).body = new.body
                /\ old # None => old.uid = new.uid
<1>1. CASE Refused(old, new)
  BY <1>1 DEF Refused, Applied
<1>2. CASE ~Refused(old, new) /\ old = None
  BY <1>2 DEF Refused, Applied
<1>3. CASE ~Refused(old, new) /\ old # None
  <2>1. old \in Objects /\ old.uid = new.uid /\ old.other \in BOOLEAN
    BY <1>3 DEF Refused, Objects
  <2>2. Applied(old, new) = [new EXCEPT !.other = old.other]
    BY <1>3 DEF Applied
  <2> QED BY <1>3, <2>1, <2>2 DEF Objects
<1> QED BY <1>1, <1>2, <1>3

(***************************************************************************)
(* The effect of an apply that reaches the API server, whether or not the  *)
(* reconciler gets the answer.                                             *)
(***************************************************************************)
LEMMA ApplyEffect ==
    ASSUME IInv, rec.pc = "apply", UNCHANGED <<cr, drift>>,
           NEW i, i = rec.i, NEW o, o = Order[i], NEW new, new = Built(o, rec.cr),
           children' = [children EXCEPT ![o] = Applied(@, new)]
    PROVE  /\ children' \in [Kinds -> Objects \cup {None}]
           /\ \A r \in Roles : children'[r] # None => children'[r].body \in Deployments
           /\ \A k \in Kinds : children'[k] # None =>
                children'[k].uid \in 1..edits /\ children'[k].gen \in children'[k].uid..edits
           /\ cr # None => \A j \in 1..7 : Owned(j) => Owned(j)'
           /\ ~Refused(children[o], new) /\ rec.cr.uid = cr.uid => Owned(i)'
           /\ InOrder'
<1>1. /\ Shape /\ MadeInv /\ PassedInv /\ InOrder
      /\ i \in 1..7 /\ rec.cr \in Resources /\ o \in Kinds
  BY OrderFacts DEF IInv, Shape, RecShape
<1>2. /\ new \in Objects /\ new.uid = rec.cr.uid /\ new.gen = rec.cr.gen
      /\ o \in Roles => new.body \in Deployments
  BY <1>1, BuiltFacts
<1>3. children[o] \in Objects \cup {None}
  BY <1>1 DEF Shape
<1>4. PICK res : res = Applied(children[o], new)
  OBVIOUS
<1>5. /\ res \in Objects /\ res # None
      /\ children[o] # None /\ children[o].uid # new.uid => res = children[o]
      /\ ~Refused(children[o], new) => res.uid = new.uid
      /\ res # children[o] =>
           /\ res.uid = new.uid /\ res.gen = new.gen /\ res.body = new.body
           /\ children[o] # None => children[o].uid = new.uid
  BY <1>2, <1>3, <1>4, AppliedFacts, OperatorAssumption
<1>6. children'[o] = res /\ \A k \in Kinds : k # o => children'[k] = children[k]
  BY <1>1, <1>4 DEF Shape
<1>7. children' \in [Kinds -> Objects \cup {None}]
  BY <1>1, <1>4, <1>5 DEF Shape
<1>8. \A r \in Roles : children'[r] # None => children'[r].body \in Deployments
  <2>1. o \in Roles => res.body \in Deployments
    BY <1>1, <1>2, <1>5 DEF Shape
  <2> QED BY <1>1, <1>6, <2>1, OrderFacts DEF Shape
<1>9. \A k \in Kinds : children'[k] # None =>
        children'[k].uid \in 1..edits /\ children'[k].gen \in children'[k].uid..edits
  <2>1. res.uid \in 1..edits /\ res.gen \in res.uid..edits
    BY <1>1, <1>2, <1>5, OperatorAssumption DEF MadeInv, Made
  <2> QED BY <1>1, <1>6, <2>1 DEF MadeInv, Made
<1>10. ASSUME NEW j \in 1..7, j # i PROVE Owned(j)' <=> Owned(j)
  <2>1. Order[j] \in Kinds /\ Order[j] # o
    BY <1>1, <1>10, OrderFacts
  <2>2. children'[Order[j]] = children[Order[j]]
    BY <1>6, <2>1
  <2> QED BY <2>2 DEF Owned
<1>11. cr # None /\ Owned(i) => Owned(i)'
  BY <1>5, <1>6 DEF Owned
<1>12. ~Refused(children[o], new) /\ rec.cr.uid = cr.uid => Owned(i)'
  BY <1>2, <1>5, <1>6 DEF Owned
<1>13. Owned(i)' => Owned(i) \/ rec.cr.uid = cr.uid
  BY <1>2, <1>5, <1>6 DEF Owned
<1>14. InOrder'
  <2> SUFFICES ASSUME drift = 0, cr # None, NEW j \in 1..7, NEW k \in 1..7, j < k, Owned(k)'
               PROVE  Owned(j)'
    BY DEF InOrder
  <2>1. Owned(k) \/ (k = i /\ rec.cr.uid = cr.uid)
    BY <1>10, <1>13
  <2>2. Owned(j)
    <3>1. CASE Owned(k)
      BY <1>1, <3>1 DEF InOrder
    <3>2. CASE k = i /\ rec.cr.uid = cr.uid
      BY <1>1, <3>2 DEF PassedInv
    <3> QED BY <2>1, <3>1, <3>2
  <2> QED BY <1>10, <1>11, <2>2
<1> QED BY <1>7, <1>8, <1>9, <1>10, <1>11, <1>12, <1>14

-----------------------------------------------------------------------------
(* The reconciler's steps. *)

\* One that changes nothing but the reconciler and the status.
LEMMA RecStep ==
    ASSUME IInv, UNCHANGED <<cr, seen, children, pods, scenario, edits, drift>>,
           RecShape(rec'), rec'.cr \in {rec.cr, seen, None},
           rec'.pc = "apply" => rec'.i = 1,
           status'.phase \in {"Pending", "Reconciling", "Ready"}
    PROVE  IInv'
<1>1. Shape /\ MadeInv /\ PassedInv /\ InOrder
  BY DEF IInv
<1>2. Shape'
  BY <1>1 DEF Shape, World
<1>3. MadeInv'
  BY <1>1 DEF MadeInv, Made
<1>4. PassedInv'
  BY DEF PassedInv
<1>5. InOrder'
  BY <1>1 DEF InOrder, Owned
<1> QED BY <1>2, <1>3, <1>4, <1>5 DEF IInv

LEMMA IdleFacts ==
    /\ RecShape(Idle) /\ Idle.pc = "idle" /\ Idle.cr = None
    /\ \A c \in Resources \cup {None} :
         /\ RecShape([Idle EXCEPT !.cr = c])
         /\ [Idle EXCEPT !.cr = c].pc = "idle" /\ [Idle EXCEPT !.cr = c].cr = c
BY DEF Idle, RecShape

LEMMA Step_Start ==
    ASSUME IInv, Start
    PROVE  IInv'
<1>1. Shape
  BY DEF IInv
<1>2. /\ seen # None /\ UNCHANGED <<cr, status, seen, children, pods, counts>>
      /\ rec' = [Idle EXCEPT !.pc = "apply", !.cr = seen, !.i = 1]
  BY DEF Start
<1>3. RecShape(rec') /\ rec'.cr = seen /\ rec'.i = 1
  <2>1. PICK c, none : c = seen /\ none = [r \in Roles |-> 0]
    OBVIOUS
  <2>2. rec' = [pc |-> "apply", cr |-> c, i |-> 1, replicas |-> none, ready |-> none]
    BY <1>2, <2>1 DEF Idle
  <2>3. c \in Resources /\ c # None
    BY <1>1, <1>2, <2>1 DEF Shape
  <2> QED BY <2>1, <2>2, <2>3 DEF RecShape
<1> QED BY <1>1, <1>2, <1>3, RecStep DEF counts, Shape

LEMMA Step_Apply ==
    ASSUME IInv, Apply
    PROVE  IInv'
<1>1. Shape /\ MadeInv /\ PassedInv /\ InOrder
  BY DEF IInv
<1>2. PICK i, o, new, refused : /\ i = rec.i /\ o = Order[i] /\ new = Built(o, rec.cr)
                                /\ refused = Refused(children[o], new)
  OBVIOUS
<1>3. /\ rec.pc = "apply" /\ children' = [children EXCEPT ![o] = Applied(@, new)]
      /\ rec' = AfterApply(refused) /\ UNCHANGED <<cr, status, seen, pods>>
      /\ UNCHANGED <<scenario, edits, drift>>
  BY <1>2 DEF Apply, counts
<1>4. /\ children' \in [Kinds -> Objects \cup {None}]
      /\ \A r \in Roles : children'[r] # None => children'[r].body \in Deployments
      /\ \A k \in Kinds : children'[k] # None =>
           children'[k].uid \in 1..edits /\ children'[k].gen \in children'[k].uid..edits
      /\ cr # None => \A j \in 1..7 : Owned(j) => Owned(j)'
      /\ ~refused /\ rec.cr.uid = cr.uid => Owned(i)'
      /\ InOrder'
  BY <1>2, <1>3, ApplyEffect
<1>5. rec.i \in 1..7 /\ rec.cr \in Resources /\ RecShape(rec)
  BY <1>1, <1>3 DEF Shape, RecShape
<1>6. /\ RecShape(rec') /\ rec'.cr = rec.cr
      /\ rec'.pc = "apply" => ~refused /\ rec'.i = rec.i + 1
  <2>1. CASE refused
    BY <1>3, <1>5, <2>1, IdleFacts DEF AfterApply
  <2>2. CASE ~refused /\ rec.i = 7
    BY <1>3, <1>5, <2>2, OrderFacts DEF AfterApply, RecShape
  <2>3. CASE ~refused /\ rec.i # 7
    BY <1>3, <1>5, <2>3, OrderFacts DEF AfterApply, RecShape
  <2> QED BY <2>1, <2>2, <2>3
<1>7. Shape'
  BY <1>1, <1>3, <1>4, <1>6 DEF Shape, World
<1>8. MadeInv'
  BY <1>1, <1>3, <1>4, <1>6 DEF MadeInv, Made
<1>9. PassedInv'
  <2> SUFFICES ASSUME drift = 0, cr # None, rec'.pc = "apply", rec'.cr.uid = cr.uid,
                      NEW j \in 1..7, j < rec'.i
               PROVE  Owned(j)'
    BY <1>3 DEF PassedInv
  <2>1. CASE j = i
    BY <1>2, <1>4, <1>6, <2>1
  <2>2. CASE j < i
    <3>1. Owned(j)
      BY <1>1, <1>2, <1>3, <1>6, <2>2 DEF PassedInv
    <3> QED BY <1>4, <3>1
  <2> QED BY <1>2, <1>5, <1>6, <2>1, <2>2
<1> QED BY <1>4, <1>7, <1>8, <1>9 DEF IInv

LEMMA Step_Get ==
    ASSUME IInv, NEW role \in Roles, NEW at, NEW next \in {"getw", "list"}, Get(role, at, next)
    PROVE  IInv'
<1>1. Shape /\ RecShape(rec)
  BY DEF IInv, Shape
<1>2. UNCHANGED <<cr, status, seen, children, pods, scenario, edits, drift>>
  BY DEF Get, counts
<1>3. RecShape(rec') /\ rec'.pc = next /\ rec'.cr = rec.cr
  BY <1>1 DEF RecShape, Get
<1> QED BY <1>1, <1>2, <1>3, RecStep DEF Shape

LEMMA Step_List ==
    ASSUME IInv, List
    PROVE  IInv'
<1>1. Shape /\ RecShape(rec)
  BY DEF IInv, Shape
<1>2. UNCHANGED <<cr, status, seen, children, pods, scenario, edits, drift>>
  BY DEF List, counts
<1>3. RecShape(rec') /\ rec'.pc = "status" /\ rec'.cr = rec.cr
  BY <1>1 DEF RecShape, List
<1> QED BY <1>1, <1>2, <1>3, RecStep DEF Shape

LEMMA Step_Publish ==
    ASSUME IInv, Publish
    PROVE  IInv'
<1>1. Shape /\ RecShape(rec)
  BY DEF IInv, Shape
<1>2. UNCHANGED <<cr, seen, children, pods, scenario, edits, drift>>
  BY DEF Publish, counts
<1>3. RecShape(rec') /\ rec'.pc = "idle" /\ rec'.cr = rec.cr
  BY <1>1, IdleFacts DEF RecShape, Publish, Requeue
<1>4. status'.phase \in {"Pending", "Reconciling", "Ready"}
  BY <1>1 DEF Publish, PhaseOf, Shape
<1> QED BY <1>2, <1>3, <1>4, RecStep

LEMMA Step_RequestFails ==
    ASSUME IInv, RequestFails
    PROVE  IInv'
<1>1. Shape /\ MadeInv /\ RecShape(rec)
  BY DEF IInv, Shape
<1>2. UNCHANGED <<scenario, cr, status, seen, pods, edits, drift>>
  BY DEF RequestFails
<1>3. RecShape(rec') /\ rec'.pc = "idle" /\ rec'.cr = rec.cr
  BY <1>1, IdleFacts DEF RecShape, RequestFails, Requeue
<1>4. CASE UNCHANGED children
  BY <1>1, <1>2, <1>3, <1>4, RecStep DEF Shape
<1>5. CASE /\ rec.pc = "apply"
           /\ LET k == Order[rec.i] IN
                children' = [children EXCEPT ![k] = Applied(@, Built(k, rec.cr))]
  <2>1. PICK i, o, new : i = rec.i /\ o = Order[i] /\ new = Built(o, rec.cr)
    OBVIOUS
  <2>2. /\ children' \in [Kinds -> Objects \cup {None}]
        /\ \A r \in Roles : children'[r] # None => children'[r].body \in Deployments
        /\ \A k \in Kinds : children'[k] # None =>
             children'[k].uid \in 1..edits /\ children'[k].gen \in children'[k].uid..edits
        /\ InOrder'
    BY <1>2, <1>5, <2>1, ApplyEffect
  <2>3. Shape'
    BY <1>1, <1>2, <1>3, <2>2 DEF Shape, World
  <2>4. MadeInv'
    BY <1>1, <1>2, <1>3, <2>2 DEF MadeInv, Made
  <2>5. PassedInv'
    BY <1>3 DEF PassedInv
  <2> QED BY <2>2, <2>3, <2>4, <2>5 DEF IInv
<1> QED BY <1>4, <1>5 DEF RequestFails

LEMMA Step_Restart ==
    ASSUME IInv, Restart
    PROVE  IInv'
<1>1. Shape /\ MadeInv /\ InOrder
  BY DEF IInv
<1>2. /\ UNCHANGED <<scenario, cr, status, children, pods, edits, drift>>
      /\ rec' = Idle /\ seen' = None
  BY DEF Restart
<1>3. Shape'
  BY <1>1, <1>2, IdleFacts DEF Shape, World
<1>4. MadeInv'
  BY <1>1, <1>2, IdleFacts DEF MadeInv, Made
<1>5. PassedInv'
  BY <1>2, IdleFacts DEF PassedInv
<1>6. InOrder'
  BY <1>1, <1>2 DEF InOrder, Owned
<1> QED BY <1>3, <1>4, <1>5, <1>6 DEF IInv

-----------------------------------------------------------------------------
(* Users and Kubernetes. *)

\* A new resource owns nothing yet, and no reconcile is under way for it.
LEMMA Step_Create ==
    ASSUME IInv, NEW s \in World.specs, Create(s)
    PROVE  IInv'
<1>1. Shape /\ MadeInv
  BY DEF IInv
<1>2. /\ edits < World.maxEdits /\ edits' = edits + 1 /\ status' = Pending
      /\ cr' = [uid |-> edits', gen |-> edits', spec |-> s]
      /\ UNCHANGED <<scenario, seen, children, pods, rec, drift>>
  BY DEF Create
<1>3. edits \in Nat /\ edits' \in 0..World.maxEdits /\ World' = World
  BY <1>1, <1>2, OperatorAssumption DEF Shape, World
<1>4. s \in Specs
  BY <1>1 DEF Shape, World, Specs
<1>5. cr' \in Resources /\ cr'.uid = edits + 1 /\ cr'.gen = edits + 1
  BY <1>2, <1>3, <1>4 DEF Resources
<1>6. Shape'
  <2>1. status'.phase \in {"Pending", "Reconciling", "Ready"}
    BY <1>2 DEF Pending
  <2> QED BY <1>1, <1>2, <1>3, <1>5, <2>1 DEF Shape
<1>7. MadeInv'
  BY <1>1, <1>2, <1>3, <1>5 DEF MadeInv, Made, Shape
<1>8. PassedInv'
  <2>1. rec.cr # None => rec.cr.uid # cr'.uid
    BY <1>1, <1>3, <1>5 DEF MadeInv, Made
  <2>2. rec.pc = "apply" => rec.cr # None
    BY <1>1 DEF Shape, RecShape
  <2> QED BY <1>2, <2>1, <2>2 DEF PassedInv
<1>9. InOrder'
  <2>1. \A k \in 1..7 : ~Owned(k)'
    BY <1>1, <1>2, <1>3, <1>5, OrderFacts DEF MadeInv, Made, Owned
  <2> QED BY <2>1 DEF InOrder
<1> QED BY <1>6, <1>7, <1>8, <1>9 DEF IInv

LEMMA Step_Edit ==
    ASSUME IInv, NEW s \in World.specs, Edit(s)
    PROVE  IInv'
<1>1. Shape /\ MadeInv /\ PassedInv /\ InOrder
  BY DEF IInv
<1>2. /\ cr # None /\ edits < World.maxEdits /\ edits' = edits + 1
      /\ cr' = [cr EXCEPT !.gen = edits', !.spec = s]
      /\ UNCHANGED <<scenario, status, seen, children, pods, rec, drift>>
  BY DEF Edit
<1>3. edits \in Nat /\ edits' \in 0..World.maxEdits /\ World' = World
  BY <1>1, <1>2, OperatorAssumption DEF Shape, World
<1>4. s \in Specs /\ cr \in Resources
  BY <1>1, <1>2 DEF Shape, World, Specs
<1>5. cr' \in Resources /\ cr'.uid = cr.uid /\ cr'.gen = edits + 1
  <2>1. PICK g : g = edits' /\ g \in Nat
    BY <1>2, <1>3
  <2>2. cr' = [cr EXCEPT !.gen = g, !.spec = s]
    BY <1>2, <2>1
  <2> QED BY <1>2, <1>4, <2>1, <2>2 DEF Resources
<1>6. Shape'
  BY <1>1, <1>2, <1>3, <1>5 DEF Shape
<1>7. MadeInv'
  BY <1>1, <1>2, <1>3, <1>5 DEF MadeInv, Made, Shape
<1>8. PassedInv'
  BY <1>1, <1>2, <1>5 DEF PassedInv, Owned
<1>9. InOrder'
  BY <1>1, <1>2, <1>5 DEF InOrder, Owned
<1> QED BY <1>6, <1>7, <1>8, <1>9 DEF IInv

LEMMA Step_Delete ==
    ASSUME IInv, Delete
    PROVE  IInv'
<1>1. Shape /\ MadeInv
  BY DEF IInv
<1>2. /\ edits < World.maxEdits /\ edits' = edits + 1 /\ cr' = None
      /\ UNCHANGED <<scenario, status, seen, children, pods, rec, drift>>
  BY DEF Delete
<1>3. edits \in Nat /\ edits' \in 0..World.maxEdits /\ World' = World
  BY <1>1, <1>2, OperatorAssumption DEF Shape, World
<1>4. Shape'
  BY <1>1, <1>2, <1>3 DEF Shape
<1>5. MadeInv'
  BY <1>1, <1>2, <1>3 DEF MadeInv, Made, Shape
<1>6. PassedInv' /\ InOrder'
  BY <1>2 DEF PassedInv, InOrder
<1> QED BY <1>4, <1>5, <1>6 DEF IInv

LEMMA Step_Watch ==
    ASSUME IInv, Watch
    PROVE  IInv'
<1>1. Shape /\ MadeInv /\ PassedInv /\ InOrder
  BY DEF IInv
<1>2. seen' = cr /\ UNCHANGED <<cr, status, children, pods, rec, scenario, edits, drift>>
  BY DEF Watch, counts
<1>3. Shape' /\ MadeInv'
  BY <1>1, <1>2 DEF Shape, World, MadeInv, Made
<1>4. PassedInv' /\ InOrder'
  BY <1>1, <1>2 DEF PassedInv, InOrder, Owned
<1> QED BY <1>3, <1>4 DEF IInv

\* An object is removed: one of another resource, or with drift counted.
LEMMA RemoveStep ==
    ASSUME IInv, NEW k \in Kinds, children[k] # None,
           children' = [children EXCEPT ![k] = None],
           UNCHANGED <<scenario, cr, status, seen, pods, rec, edits>>,
           \/ drift' = drift /\ (cr # None => children[k].uid # cr.uid)
           \/ drift' = drift + 1
    PROVE  IInv'
<1>1. Shape /\ MadeInv /\ PassedInv /\ InOrder
  BY DEF IInv
<1>2. /\ children'[k] = None /\ (\A o \in Kinds : o # k => children'[o] = children[o])
      /\ children' \in [Kinds -> Objects \cup {None}]
  BY <1>1 DEF Shape
<1>3. Shape'
  <2>1. \A r \in Roles : children'[r] # None => children'[r].body \in Deployments
    BY <1>1, <1>2, OrderFacts DEF Shape
  <2> QED BY <1>1, <1>2, <2>1 DEF Shape, World
<1>4. MadeInv'
  BY <1>1, <1>2 DEF MadeInv, Made
<1>5. CASE drift' = drift /\ (cr # None => children[k].uid # cr.uid)
  <2>1. ASSUME cr # None, NEW j \in 1..7 PROVE Owned(j)' <=> Owned(j)
    <3>1. Order[j] \in Kinds
      BY OrderFacts
    <3> QED BY <1>2, <1>5, <2>1, <3>1 DEF Owned
  <2>2. PassedInv'
    BY <1>1, <1>5, <2>1 DEF PassedInv
  <2>3. InOrder'
    BY <1>1, <1>5, <2>1 DEF InOrder
  <2> QED BY <1>3, <1>4, <2>2, <2>3 DEF IInv
<1>6. CASE drift' = drift + 1
  <2>1. drift' # 0
    BY <1>1, <1>6 DEF Shape
  <2> QED BY <1>3, <1>4, <2>1 DEF IInv, PassedInv, InOrder
<1> QED BY <1>5, <1>6

LEMMA Step_Collect ==
    ASSUME IInv, NEW k \in Kinds, Collect(k)
    PROVE  IInv'
BY RemoveStep DEF Collect, counts

LEMMA Step_Drift ==
    ASSUME IInv, NEW k \in Kinds, Drift(k)
    PROVE  IInv'
BY RemoveStep DEF Drift

LEMMA Step_Scale ==
    ASSUME IInv, NEW role \in Roles, Scale(role)
    PROVE  IInv'
<1>1. Shape /\ MadeInv /\ PassedInv /\ InOrder /\ role \in Kinds
  BY OrderFacts DEF IInv
<1>2. /\ children[role] # None
      /\ children' = [children EXCEPT ![role].body.replicas = 0, ![role].other = TRUE]
      /\ UNCHANGED <<scenario, cr, status, seen, pods, rec, edits, drift>>
  BY DEF Scale
<1>3. PICK old, body, new :
        /\ old = children[role] /\ body = [old.body EXCEPT !.replicas = 0]
        /\ new = [old EXCEPT !.body = body, !.other = TRUE]
  OBVIOUS
<1>4. old \in Objects /\ old.body \in Deployments
  BY <1>1, <1>2, <1>3 DEF Shape
<1>5. body \in Deployments
  BY <1>3, <1>4 DEF Deployments
<1>6. new \in Objects /\ new.uid = old.uid /\ new.gen = old.gen /\ new.body = body
  BY <1>3, <1>4, <1>5 DEF Objects
<1>7. new # None /\ old # None
  BY <1>4, <1>6, OperatorAssumption
<1>8. children' = [children EXCEPT ![role] = new]
  BY <1>1, <1>2, <1>3 DEF Shape
<1>9. /\ children'[role] = new /\ (\A k \in Kinds : k # role => children'[k] = children[k])
      /\ children' \in [Kinds -> Objects \cup {None}]
  BY <1>1, <1>6, <1>8 DEF Shape
<1>10. Shape'
  <2>1. \A r \in Roles : children'[r] # None => children'[r].body \in Deployments
    BY <1>1, <1>5, <1>6, <1>9, OrderFacts DEF Shape
  <2> QED BY <1>1, <1>2, <1>9, <2>1 DEF Shape, World
<1>11. MadeInv'
  <2>1. \A k \in Kinds : Made(children[k])'
    BY <1>1, <1>2, <1>3, <1>6, <1>7, <1>9 DEF MadeInv, Made
  <2> QED BY <1>1, <1>2, <2>1 DEF MadeInv, Made
<1>12. ASSUME NEW j \in 1..7 PROVE Owned(j)' <=> Owned(j)
  <2>1. Order[j] \in Kinds
    BY OrderFacts
  <2> QED BY <1>2, <1>3, <1>6, <1>7, <1>9, <2>1 DEF Owned
<1>13. PassedInv'
  BY <1>1, <1>2, <1>12 DEF PassedInv
<1>14. InOrder'
  BY <1>1, <1>2, <1>12 DEF InOrder
<1> QED BY <1>10, <1>11, <1>13, <1>14 DEF IInv

\* A step that only moves pods.
LEMMA PodStep ==
    ASSUME IInv, UNCHANGED <<cr, status, seen, children, rec, scenario, edits, drift>>,
           NEW role \in Roles, NEW t \in Templates,
           \/ pods' = [pods EXCEPT ![role][t] = @ + 1]
           \/ pods[role][t] > 0 /\ pods' = [pods EXCEPT ![role][t] = @ - 1]
    PROVE  IInv'
<1>1. Shape /\ MadeInv /\ PassedInv /\ InOrder
  BY DEF IInv
<1>2. pods' \in [Roles -> [Templates -> Nat]]
  <2>1. pods \in [Roles -> [Templates -> Nat]] /\ pods[role][t] \in Nat
    BY <1>1 DEF Shape
  <2>2. CASE pods' = [pods EXCEPT ![role][t] = @ + 1]
    BY <2>1, <2>2
  <2>3. CASE pods[role][t] > 0 /\ pods' = [pods EXCEPT ![role][t] = @ - 1]
    <3>1. pods[role][t] - 1 \in Nat
      BY <2>1, <2>3
    <3> QED BY <2>1, <2>3, <3>1
  <2> QED BY <2>2, <2>3
<1>3. Shape'
  BY <1>1, <1>2 DEF Shape, World
<1>4. MadeInv'
  BY <1>1 DEF MadeInv, Made
<1>5. PassedInv' /\ InOrder'
  BY <1>1 DEF PassedInv, InOrder, Owned
<1> QED BY <1>3, <1>4, <1>5 DEF IInv

LEMMA Step_Roll ==
    ASSUME IInv, NEW role \in Roles, Roll(role)
    PROVE  IInv'
<1>1. UNCHANGED <<cr, status, seen, children, rec, scenario, edits, drift>>
  BY DEF Roll, counts
<1>2. CASE /\ children[role] # None
           /\ pods' = [pods EXCEPT ![role][children[role].body.tmpl] = @ + 1]
  <2>1. PICK t : t = children[role].body.tmpl
    OBVIOUS
  <2>2. t \in Templates
    BY <1>2, <2>1 DEF IInv, Shape, Deployments
  <2> QED BY <1>1, <1>2, <2>1, <2>2, PodStep
<1>3. CASE \E t \in Templates :
             pods[role][t] > 0 /\ pods' = [pods EXCEPT ![role][t] = @ - 1]
  BY <1>1, <1>3, PodStep
<1> QED BY <1>2, <1>3 DEF Roll

LEMMA Step_PodLost ==
    ASSUME IInv, NEW role \in Roles, PodLost(role)
    PROVE  IInv'
BY PodStep DEF PodLost

-----------------------------------------------------------------------------
LEMMA InitIInv == Init => IInv
<1> SUFFICES ASSUME Init PROVE IInv
  OBVIOUS
<1>1. World.maxEdits \in Nat
  BY OperatorAssumption DEF Init, World
<1>2. Shape
  <2>1. edits \in 0..World.maxEdits /\ drift \in Nat
    BY <1>1 DEF Init
  <2>2. children \in [Kinds -> Objects \cup {None}] /\ \A k \in Kinds : children[k] = None
    BY DEF Init
  <2>3. pods \in [Roles -> [Templates -> Nat]]
    BY DEF Init
  <2>4. status.phase = "Pending"
    BY DEF Init, Pending
  <2> QED BY <2>1, <2>2, <2>3, <2>4, IdleFacts, OrderFacts DEF Init, Shape
<1>3. MadeInv
  BY IdleFacts DEF Init, MadeInv, Made
<1>4. PassedInv /\ InOrder
  BY DEF Init, PassedInv, InOrder
<1> QED BY <1>2, <1>3, <1>4 DEF IInv

LEMMA NextIInv == IInv /\ [Next]_vars => IInv'
<1> SUFFICES ASSUME IInv, [Next]_vars PROVE IInv'
  OBVIOUS
<1>1. CASE Users
  BY <1>1, Step_Delete, Step_Create, Step_Edit, Step_Drift, Step_Scale DEF Users
<1>2. CASE Kubernetes
  BY <1>2, Step_Watch, Step_Collect, Step_Roll DEF Kubernetes
<1>3. CASE Reconcile
  <2>1. "master" \in Roles /\ "worker" \in Roles
    BY DEF Roles
  <2> QED BY <1>3, <2>1, Step_Start, Step_Apply, Step_Get, Step_List, Step_Publish
          DEF Reconcile
<1>4. CASE RequestFails
  BY <1>4, Step_RequestFails
<1>5. CASE Restart
  BY <1>5, Step_Restart
<1>6. CASE \E r \in Roles : PodLost(r)
  BY <1>6, Step_PodLost
<1>7. CASE UNCHANGED vars
  <2>1. UNCHANGED <<cr, status, seen, children, pods, rec, scenario, edits, drift>>
    BY <1>7 DEF vars, counts
  <2>2. Shape' /\ MadeInv'
    BY <2>1 DEF IInv, Shape, World, MadeInv, Made
  <2>3. PassedInv' /\ InOrder'
    BY <2>1 DEF IInv, PassedInv, InOrder, Owned
  <2> QED BY <2>2, <2>3 DEF IInv
<1> QED BY <1>1, <1>2, <1>3, <1>4, <1>5, <1>6, <1>7 DEF Next

LEMMA Inductive == Spec => []IInv
BY InitIInv, NextIInv, PTL DEF Spec

\* Every owned object stems from an edit that users have made of a resource
\* that they have created, and the reconciler and the status keep to their
\* values, whatever fails or interferes.
THEOREM TypeCorrect == Spec => []TypeOK
<1>1. ASSUME IInv PROVE TypeOK
  <2>1. Shape /\ MadeInv /\ RecShape(rec)
    BY <1>1 DEF IInv, Shape
  <2>2. edits \in Nat /\ World.maxEdits \in Nat /\ edits <= World.maxEdits
    BY <2>1, OperatorAssumption DEF Shape, World
  <2>3. ASSUME NEW k \in Kinds, children[k] # None
        PROVE  /\ children[k].uid \in 1..World.maxEdits
               /\ children[k].gen \in children[k].uid..World.maxEdits
    BY <2>1, <2>2, <2>3 DEF MadeInv, Made
  <2>4. rec.i \in 0..Len(Order)
    BY <2>1, OrderFacts DEF RecShape
  <2> QED BY <2>1, <2>3, <2>4 DEF TypeOK, Shape, RecShape
<1> QED BY <1>1, Inductive, PTL

\* However many objects there are to fail on, and whatever an earlier
\* resource of the name has left: apply_owned creates in order.
THEOREM CreatedInOrder == Spec => []ChildrenInOrder
<1>1. IInv => ChildrenInOrder
  BY OrderFacts DEF IInv, InOrder, Owned, ChildrenInOrder
<1> QED BY <1>1, Inductive, PTL
=============================================================================
