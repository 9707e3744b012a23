------------------------------ MODULE Operator ------------------------------
(***************************************************************************)
(* The Kubernetes operator (crates/rspark-operator/src/controller.rs): one *)
(* SparkCluster resource, its reconciler, the seven objects it owns, and   *)
(* the status it publishes.                                                *)
(*                                                                         *)
(* Kubernetes is external: the watch that feeds the controller's cache,    *)
(* the garbage collector, and the deployment controller, which replaces    *)
(* pods within maxSurge and maxUnavailable.  Users create, edit and delete *)
(* the resource, and change or delete owned objects behind its back.       *)
(***************************************************************************)
EXTENDS Integers, Sequences, FiniteSets, FiniteSetsExt, Functions

CONSTANTS
    Scenarios,  \* Scenarios[s]: what users do, and how often things fail
    NoImage,    \* the pod template of a spec whose image is empty
    Broken,     \* a pod template whose pods never become ready
    None

\* The specs users write: [tmpl, masters, workers].
Specs == UNION {Scenarios[s].specs : s \in DOMAIN Scenarios}

Templates == {s.tmpl : s \in Specs}

\* The resource, and the objects it owns; a deployment's body has replicas.
Resources == [uid : Nat, gen : Nat, spec : Specs]

Deployments == [tmpl : Templates, replicas : Nat]

Objects == [uid : Nat, gen : Nat, other : BOOLEAN,
            body : Deployments \cup [tmpl : Templates] \cup {<<>>}]

ASSUME OperatorAssumption ==
    /\ \A s \in DOMAIN Scenarios :
         /\ Scenarios[s].maxEdits \in Nat   \* creations, edits, deletions of the resource
         /\ Scenarios[s].deletes \in BOOLEAN \* whether there are deletions
         /\ Scenarios[s].maxFaults \in Nat  \* failed requests, restarts, lost pods
         /\ Scenarios[s].maxDrift \in Nat   \* owned objects that others delete
         /\ Scenarios[s].maxScale \in Nat   \* deployments that others scale
    /\ \A s \in Specs : s.masters \in Nat /\ s.workers \in Nat
    /\ None \notin Resources \cup Objects

VARIABLES
    scenario,  \* the one of this behaviour; no step changes it
    cr,        \* the SparkCluster, [uid, gen, spec], or None
    status,    \* its status: [phase, masters, workers]
    seen,      \* the controller's cached copy
    children,  \* children[k]: [uid, gen, body, other] of an owned object, or None
    pods,      \* pods[role][tmpl]: ready pods with that template
    rec,       \* the reconciler: pc and local variables
    edits, faults, drift, scaled

\* The scenario and what has happened of it.
counts == <<scenario, edits, faults, drift, scaled>>

vars == <<cr, status, seen, children, pods, rec, counts>>

World == Scenarios[scenario]

Roles == {"master", "worker"}

-----------------------------------------------------------------------------
\* reconcile_children: the owned objects in the order they are applied.
Order == <<"sa", "service", "configmap", "master", "worker", "master-pdb", "worker-pdb">>

Kinds == {Order[i] : i \in DOMAIN Order}

(***************************************************************************)
(* What the ensure_* functions build from a spec.  Names and labels depend *)
(* on the resource's name only; arguments, resources and probes go into    *)
(* the pod template.                                                       *)
(***************************************************************************)
MasterDeployment(spec) == [tmpl |-> spec.tmpl, replicas |-> spec.masters]

WorkerDeployment(spec) == [tmpl |-> spec.tmpl, replicas |-> spec.workers]

MasterConfigMap(spec) == [tmpl |-> spec.tmpl]

\* The account, the service and the disruption budgets take nothing from it.
Body(kind, spec) ==
    CASE kind = "master"    -> MasterDeployment(spec)
      [] kind = "worker"    -> WorkerDeployment(spec)
      [] kind = "configmap" -> MasterConfigMap(spec)
      [] OTHER              -> <<>>

(***************************************************************************)
(* With the owner reference.  `gen` is the edit the object stems from;     *)
(* `other` says that another field manager has changed the replicas.       *)
(***************************************************************************)
Built(kind, c) ==
    [uid |-> c.uid, gen |-> c.gen, body |-> Body(kind, c.spec), other |-> FALSE]

MaxUnavailable(role) == IF role = "master" THEN 0 ELSE 1

-----------------------------------------------------------------------------
Idle == [pc |-> "idle", cr |-> None, i |-> 0, replicas |-> [r \in Roles |-> 0],
         ready |-> [r \in Roles |-> 0]]

\* Mutant: only a change of the resource starts a reconcile.
StartOnChange ==
    /\ rec.pc = "idle" /\ seen # None /\ seen.spec.tmpl # NoImage /\ rec.cr # seen
    /\ rec' = [Idle EXCEPT !.pc = "apply", !.cr = seen, !.i = 1]
    /\ UNCHANGED <<cr, status, seen, children, pods, counts>>

(***************************************************************************)
(* A change of the resource or of an owned deployment, a requeue after 30  *)
(* seconds or, after an error, after 15: reconcile is called with the      *)
(* cached resource.  One without an image is refused, and requeued.        *)
(***************************************************************************)
Start ==
    /\ rec.pc = "idle" /\ seen # None /\ seen.spec.tmpl # NoImage
    /\ rec' = [Idle EXCEPT !.pc = "apply", !.cr = seen, !.i = 1]
    /\ UNCHANGED <<cr, status, seen, children, pods, counts>>

\* Any error ends the reconcile; error_policy requeues it.
Requeue == rec' = [Idle EXCEPT !.cr = rec.cr]

\* Mutant: an existing object stays as it is.
AppliedOnce(old, new) == IF old = None THEN new ELSE old

(***************************************************************************)
(* apply_owned: a server-side apply, without force, creates or updates.    *)
(* The API server refuses a second controller reference, on an object that *)
(* an earlier resource of the name has left, and a value for a field that  *)
(* another manager has set to something else.                              *)
(***************************************************************************)
Refused(old, new) ==
    old # None /\ (old.uid # new.uid \/ (old.other /\ old.body # new.body))

Applied(old, new) ==
    IF Refused(old, new) THEN old
    ELSE IF old = None THEN new ELSE [new EXCEPT !.other = old.other]

\* Mutant: an error of one object does not keep the others from being applied.
AfterApplyGoesOn(refused) ==
    IF rec.i = Len(Order) THEN [rec EXCEPT !.pc = "getm"] ELSE [rec EXCEPT !.i = @ + 1]

AfterApply(refused) ==
    IF refused THEN [Idle EXCEPT !.cr = rec.cr]
    ELSE IF rec.i = Len(Order) THEN [rec EXCEPT !.pc = "getm"] ELSE [rec EXCEPT !.i = @ + 1]

Apply ==
    /\ rec.pc = "apply"
    /\ LET k == Order[rec.i]
           new == Built(k, rec.cr)
       IN  /\ children' = [children EXCEPT ![k] = Applied(@, new)]
           /\ rec' = AfterApply(Refused(children[k], new))
    /\ UNCHANGED <<cr, status, seen, pods, counts>>

\* compute_status: the replicas of the deployments, one after the other,
Get(role, at, next) ==
    /\ rec.pc = at
    /\ rec' = [rec EXCEPT !.pc = next,
                 !.replicas[role] = IF children[role] = None THEN 0
                                    ELSE children[role].body.replicas]
    /\ UNCHANGED <<cr, status, seen, children, pods, counts>>

\* then the pods that carry the name of the resource and are ready.
ReadyCount(role) == SumFunction(pods[role])

List ==
    /\ rec.pc = "list"
    /\ rec' = [rec EXCEPT !.pc = "status", !.ready = [r \in Roles |-> ReadyCount(r)]]
    /\ UNCHANGED <<cr, status, seen, children, pods, counts>>

\* Mutant: a cluster that misses pods has failed.
PhaseOfFailed(replicas, ready) ==
    IF \E r \in Roles : ready[r] < replicas[r] THEN "Failed" ELSE "Ready"

PhaseOf(replicas, ready) ==
    IF (\E r \in Roles : replicas[r] = 0) \/ \E r \in Roles : ready[r] < replicas[r]
    THEN "Reconciling" ELSE "Ready"

\* apply_status: a merge patch by name, whichever resource has it now.
Publish ==
    /\ rec.pc = "status"
    /\ status' = IF cr = None THEN status
                 ELSE [phase |-> PhaseOf(rec.replicas, rec.ready),
                       masters |-> rec.ready["master"], workers |-> rec.ready["worker"]]
    /\ Requeue
    /\ UNCHANGED <<cr, seen, children, pods, counts>>

Reconcile == Start \/ Apply \/ Get("master", "getm", "getw") \/ Get("worker", "getw", "list")
             \/ List \/ Publish

\* A request of the reconciler fails without effect, or only its answer is lost.
RequestFails ==
    /\ rec.pc \notin {"idle"} /\ faults < World.maxFaults
    /\ faults' = faults + 1
    /\ \/ UNCHANGED children
       \/ /\ rec.pc = "apply"
          /\ LET k == Order[rec.i] IN
               children' = [children EXCEPT ![k] = Applied(@, Built(k, rec.cr))]
    /\ Requeue
    /\ UNCHANGED <<scenario, cr, status, seen, pods, edits, drift, scaled>>

Restart ==
    /\ faults < World.maxFaults /\ faults' = faults + 1
    /\ rec' = Idle /\ seen' = None
    /\ UNCHANGED <<scenario, cr, status, children, pods, edits, drift, scaled>>

-----------------------------------------------------------------------------
(***************************************************************************)
(* Kubernetes and its users.                                               *)
(***************************************************************************)
Pending == [phase |-> "Pending", masters |-> 0, workers |-> 0]

Create(s) ==
    /\ cr = None /\ edits < World.maxEdits /\ edits' = edits + 1
    /\ cr' = [uid |-> edits', gen |-> edits', spec |-> s] /\ status' = Pending
    /\ UNCHANGED <<scenario, seen, children, pods, rec, faults, drift, scaled>>

Edit(s) ==
    /\ cr # None /\ edits < World.maxEdits /\ edits' = edits + 1 /\ s # cr.spec
    /\ cr' = [cr EXCEPT !.gen = edits', !.spec = s]
    /\ UNCHANGED <<scenario, status, seen, children, pods, rec, faults, drift, scaled>>

Delete ==
    /\ World.deletes /\ cr # None /\ edits < World.maxEdits /\ edits' = edits + 1
    /\ cr' = None
    /\ UNCHANGED <<scenario, status, seen, children, pods, rec, faults, drift, scaled>>

Watch ==
    /\ seen # cr /\ seen' = cr
    /\ UNCHANGED <<cr, status, children, pods, rec, counts>>

\* An object whose owner is gone is removed.
Collect(k) ==
    /\ children[k] # None /\ (cr # None => children[k].uid # cr.uid)
    /\ children' = [children EXCEPT ![k] = None]
    /\ UNCHANGED <<cr, status, seen, pods, rec, counts>>

\* Somebody deletes an owned object, or scales a deployment.
Drift(k) ==
    /\ children[k] # None /\ drift < World.maxDrift /\ drift' = drift + 1
    /\ children' = [children EXCEPT ![k] = None]
    /\ UNCHANGED <<scenario, cr, status, seen, pods, rec, edits, faults, scaled>>

Scale(role) ==
    /\ children[role] # None /\ scaled < World.maxScale /\ scaled' = scaled + 1
    /\ children' = [children EXCEPT ![role].body.replicas = 0, ![role].other = TRUE]
    /\ UNCHANGED <<scenario, cr, status, seen, pods, rec, edits, faults, drift>>

\* The deployment controller and the kubelet move towards the deployment.
Roll(role) ==
    LET d == children[role]
        total == ReadyCount(role)
    IN  /\ \/ /\ d # None /\ d.body.tmpl # Broken
              /\ pods[role][d.body.tmpl] < d.body.replicas /\ total <= d.body.replicas
              /\ pods' = [pods EXCEPT ![role][d.body.tmpl] = @ + 1]
           \/ \E t \in Templates :
                /\ pods[role][t] > 0
                /\ \/ d = None
                   \/ d # None /\ t = d.body.tmpl /\ pods[role][t] > d.body.replicas
                   \/ /\ d # None /\ t # d.body.tmpl
                      /\ total - 1 >= d.body.replicas - MaxUnavailable(role)
                /\ pods' = [pods EXCEPT ![role][t] = @ - 1]
        /\ UNCHANGED <<cr, status, seen, children, rec, counts>>

PodLost(role) ==
    /\ faults < World.maxFaults /\ faults' = faults + 1
    /\ \E t \in Templates : pods[role][t] > 0 /\ pods' = [pods EXCEPT ![role][t] = @ - 1]
    /\ UNCHANGED <<scenario, cr, status, seen, children, rec, edits, drift, scaled>>

-----------------------------------------------------------------------------
Init ==
    /\ scenario \in DOMAIN Scenarios
    /\ cr = None /\ status = Pending /\ seen = None
    /\ children = [k \in Kinds |-> None]
    /\ pods = [r \in Roles |-> [t \in Templates |-> 0]]
    /\ rec = Idle
    /\ edits = 0 /\ faults = 0 /\ drift = 0 /\ scaled = 0

Users == \/ Delete \/ (\E s \in World.specs : Create(s) \/ Edit(s))
         \/ (\E k \in Kinds : Drift(k)) \/ \E r \in Roles : Scale(r)

Kubernetes == Watch \/ (\E k \in Kinds : Collect(k)) \/ \E r \in Roles : Roll(r)

Next == Users \/ Kubernetes \/ Reconcile \/ RequestFails \/ Restart
        \/ \E r \in Roles : PodLost(r)

Spec == Init /\ [][Next]_vars

(***************************************************************************)
(* kube-rs calls reconcile again after every requeue, watches deliver,     *)
(* the collector and the deployment controller work.                       *)
(***************************************************************************)
FairSpec == /\ Spec /\ WF_vars(Reconcile) /\ WF_vars(Watch)
            /\ \A k \in Kinds : WF_vars(Collect(k))
            /\ \A r \in Roles : WF_vars(Roll(r))

-----------------------------------------------------------------------------
TypeOK ==
    /\ scenario \in DOMAIN Scenarios
    /\ status.phase \in {"Pending", "Reconciling", "Ready"}
    /\ rec.pc \in {"idle", "apply", "getm", "getw", "list", "status"}
    /\ rec.i \in 0..Len(Order)
    /\ \A k \in Kinds : children[k] # None =>
         children[k].uid \in 1..World.maxEdits /\ children[k].gen \in children[k].uid..World.maxEdits
    /\ \A r \in Roles : \A t \in Templates : pods[r][t] \in Nat

(***************************************************************************)
(* Objects are created in the order of the module's comment: as long as    *)
(* nobody else removes one, an object of the current resource implies all  *)
(* the earlier ones, whichever requests fail and whatever an earlier       *)
(* resource of the same name has left behind.                              *)
(***************************************************************************)
ChildrenInOrder ==
    drift = 0 /\ cr # None =>
        \A j, k \in DOMAIN Order :
            /\ j < k /\ children[Order[k]] # None /\ children[Order[k]].uid = cr.uid
            => children[Order[j]] # None /\ children[Order[j]].uid = cr.uid

Desired(c) == [r \in Roles |-> Body(r, c.spec).replicas]

\* What reconciling ends in.
Settled ==
    IF cr = None THEN \A k \in Kinds : children[k] = None
    ELSE cr.spec.tmpl # NoImage =>
           /\ \A k \in Kinds :
                children[k] # None /\ [children[k] EXCEPT !.other = FALSE] = Built(k, cr)
           /\ status = [phase |-> PhaseOf(Desired(cr), [r \in Roles |-> ReadyCount(r)]),
                        masters |-> ReadyCount("master"), workers |-> ReadyCount("worker")]
           /\ cr.spec.tmpl # Broken =>
                \A r \in Roles : pods[r][cr.spec.tmpl] = Desired(cr)[r]
                                 /\ ReadyCount(r) = Desired(cr)[r]

(***************************************************************************)
(* Once users leave it alone and faults cease, the owned objects, the pods *)
(* and the published status are those of the last spec, or all gone with   *)
(* the resource, whatever failed half way (error_policy and the requeue).  *)
(* A deployment that somebody has scaled is excepted: an apply without     *)
(* force is then refused for good.                                         *)
(***************************************************************************)
EventuallySettled == <>[](Settled \/ scaled > 0)
=============================================================================
