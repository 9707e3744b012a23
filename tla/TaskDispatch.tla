--------------------------- MODULE TaskDispatch ---------------------------
(***************************************************************************)
(* What the master promises about a task, without locks, handlers,         *)
(* messages or stages: tasks are handed out in the order in which they     *)
(* were queued, each to one worker, and each gets one outcome.  A restart  *)
(* forgets every task; forgotten tasks do not come back.                   *)
(***************************************************************************)
EXTENDS Sequences

CONSTANTS Tasks, Workers, NoWorker

VARIABLES phase, owner, queue

dvars == <<phase, owner, queue>>

Phases == {"new", "queued", "handed", "Succeeded", "Failed", "gone"}

DInit ==
    /\ phase = [t \in Tasks |-> "new"]
    /\ owner = [t \in Tasks |-> NoWorker]
    /\ queue = <<>>

Enqueue(t) ==
    /\ phase[t] = "new"
    /\ phase' = [phase EXCEPT ![t] = "queued"]
    /\ queue' = Append(queue, t)
    /\ UNCHANGED owner

Hand(w) ==
    /\ queue # <<>>
    /\ phase' = [phase EXCEPT ![Head(queue)] = "handed"]
    /\ owner' = [owner EXCEPT ![Head(queue)] = w]
    /\ queue' = Tail(queue)

Settle(t, outcome) ==
    /\ phase[t] = "handed"
    /\ phase' = [phase EXCEPT ![t] = outcome]
    /\ UNCHANGED <<owner, queue>>

\* Tasks of jobs that are still to be submitted are not affected.
Restart ==
    /\ phase' \in [Tasks -> {"new", "gone"}]
    /\ \A t \in Tasks : phase'[t] = "new" => phase[t] = "new"
    /\ owner' = [t \in Tasks |-> NoWorker]
    /\ queue' = <<>>

DNext ==
    \/ \E t \in Tasks : Enqueue(t)
    \/ \E w \in Workers : Hand(w)
    \/ \E t \in Tasks, outcome \in {"Succeeded", "Failed"} :
           Settle(t, outcome)
    \/ Restart

DSpec == DInit /\ [][DNext]_dvars
=============================================================================
