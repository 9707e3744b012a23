------------------------- MODULE ClusterRefinement -------------------------
(***************************************************************************)
(* The master and its workers implement TaskDispatch.  A task is handed    *)
(* over when it leaves the queue, before any table says so, and settled by *)
(* the single lock section of update_task that writes its outcome.         *)
(***************************************************************************)
EXTENDS Cluster

\* The worker whose poll has taken t out of the queue, or is recorded for it.
OwnerOf(t) ==
    IF tasks[t].worker # NoWorker THEN tasks[t].worker
    ELSE IF \E w \in Workers : poll[w].task = t
    THEN CHOOSE w \in Workers : poll[w].task = t
    ELSE NoWorker

PhaseOf(t) ==
    IF sub[JobOf(t)].pc = "lost" THEN "gone"
    ELSE IF tasks[t].status \in Outcomes THEN tasks[t].status
    ELSE IF Queued(t) THEN "queued"
    ELSE IF OwnerOf(t) # NoWorker THEN "handed"
    ELSE "new"

Dispatch == INSTANCE TaskDispatch
    WITH phase <- [t \in Tasks |-> PhaseOf(t)],
         owner <- [t \in Tasks |-> OwnerOf(t)],
         queue <- pending

\* Every step of the handlers and workers is a step of TaskDispatch or leaves
\* queue, owners and outcomes alone: first in, first out, one owner, one
\* outcome (insert_task, pop_pending_task, update_task).
ImplementsTaskDispatch == Dispatch!DSpec
=============================================================================
