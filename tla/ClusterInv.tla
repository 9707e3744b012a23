----------------------------- MODULE ClusterInv -----------------------------
(***************************************************************************)
(* The inductive invariant of Cluster, in four layers.  Shape types the    *)
(* state and ties program counters to the values they go with; DispatchInv *)
(* says where each task is and what its status must then be; VerdictInv    *)
(* says that every copy of a stage or job, stored or held by a handler, is *)
(* true of the tasks; LedgerInv says that the master's books are right:    *)
(* no task forgotten, every run counted, every owner and result recorded.  *)
(***************************************************************************)
EXTENDS Cluster

\* A submission in its task loop is at one of its partitions.
SubShape ==
    \A j \in Jobs :
        /\ sub[j].pc \in {"idle", "rejected"} => sub[j].k = 1
        /\ sub[j].pc \in {"insert", "push", "job", "run", "readback"} =>
               j \in PlannedJobs /\ sub[j].k \in 1..Parts(j)

\* Requests and workers have a task in hand exactly when they should.
HoldShape ==
    \A w \in Workers :
        /\ poll[w].pc \in PollBusy => poll[w].task \in Tasks
        /\ poll[w].pc \in {"none", "sent"} => poll[w].task = NoTask
        /\ wk[w].pc \in {"executing", "reporting"} <=> wk[w].task \in Tasks
        /\ poll[w].pc # "none" => wk[w].pc \in {"polling", "idle", "dead"}

Shape == TypeOK /\ SubShape /\ HoldShape

-----------------------------------------------------------------------------
\* insert_task has put t in the table / in the queue, in this master's life.
Inserted(t) ==
    LET s == sub[JobOf(t)]
    IN  /\ s.pc \notin {"idle", "rejected", "lost"}
        /\ s.pc = "insert" => t[2] < s.k
        /\ s.pc = "push" => t[2] <= s.k

Pushed(t) ==
    LET s == sub[JobOf(t)]
    IN  /\ s.pc \notin {"idle", "rejected", "lost"}
        /\ s.pc \in {"insert", "push"} => t[2] < s.k

\* t has been in the queue of this master or of one before it.
Known(t) == Pushed(t) \/ sub[JobOf(t)].pc = "lost"

Reported == {"written", "retained", "counted", "stageRead", "stageWritten",
             "tallied", "jobRead", "done", "panicked"}

TaskInv ==
    \A t \in Tasks :
        /\ tasks[t].status = "Absent" <=> ~Inserted(t)
        /\ tasks[t].status \in {"Assigned", "Succeeded", "Failed"} => Pushed(t)

QueueInv ==
    /\ \A i, k \in DOMAIN pending : pending[i] = pending[k] => i = k
    /\ \A i \in DOMAIN pending :
           /\ tasks[pending[i]].status = "Pending"
           /\ Pushed(pending[i])
           /\ rep[pending[i]].pc = "none"
           /\ \A w \in Workers : ~Holds(w, pending[i])

PollInv ==
    \A w \in Workers : poll[w].task \in Tasks =>
        /\ Pushed(poll[w].task)
        /\ rep[poll[w].task].pc = "none"
        /\ poll[w].pc \in {"popped", "read"} =>
               tasks[poll[w].task].status = "Pending"
        /\ poll[w].pc \in {"assigned", "stageRead", "reply"} =>
               /\ tasks[poll[w].task].status = "Assigned"
               /\ tasks[poll[w].task].worker = w

WorkInv ==
    \A w \in Workers : wk[w].task \in Tasks =>
        /\ Known(wk[w].task)
        /\ wk[w].pc = "executing" =>
               /\ rep[wk[w].task].pc = "none"
               /\ tasks[wk[w].task].status \in {"Assigned", "Absent"}
        /\ wk[w].pc = "reporting" => rep[wk[w].task].pc # "none"

HolderInv ==
    \A t \in Tasks : \A v, w \in Workers : Holds(v, t) /\ Holds(w, t) => v = w

RepInv ==
    \A t \in Tasks :
        /\ rep[t].pc = "none" => tasks[t].status \notin Outcomes
        /\ rep[t].pc # "none" => Known(t)
        /\ rep[t].pc \in {"sent", "lost", "notFound"} =>
               tasks[t].status \in {"Assigned", "Absent"}
        /\ rep[t].pc \in {"read", "checked"} => tasks[t].status = "Assigned"
        /\ rep[t].pc # "wasTerminal"
        /\ rep[t].pc \in Reported => tasks[t].status = rep[t].outcome

DispatchInv ==
    TaskInv /\ QueueInv /\ PollInv /\ WorkInv /\ HolderInv /\ RepInv

-----------------------------------------------------------------------------
\* st, as a stage of job j, claims nothing that the tasks do not bear out.
StageSound(j, st) ==
    /\ \A t \in TasksOf(j) :
           st.slots[t] \in Outcomes => tasks[t].status = st.slots[t]
    /\ st.status = "Succeeded" =>
           \A t \in TasksOf(j) : tasks[t].status = "Succeeded"
    /\ st.status = "Failed" =>
           \E t \in TasksOf(j) : tasks[t].status = "Failed"

\* The same of a job status.
StatusGrounded(j, status) ==
    status \in Outcomes => \E t \in TasksOf(j) : tasks[t].status = status

StageInv ==
    /\ \A j \in Jobs : StageSound(j, stages[j])
    /\ \A w \in Workers : poll[w].pc = "stageRead" =>
           StageSound(JobOf(poll[w].task), poll[w].stage)
    /\ \A t \in Tasks : rep[t].pc = "stageRead" =>
           StageSound(JobOf(t), rep[t].stage)

JobInv ==
    /\ \A j \in ClusterJobs : StatusGrounded(j, jobs[j])
    /\ \A t \in Tasks : rep[t].pc \in {"tallied", "jobRead"} =>
           StatusGrounded(JobOf(t), rep[t].verdict)
    /\ \A t \in Tasks : rep[t].pc = "jobRead" /\ JobOf(t) \in ClusterJobs =>
           StatusGrounded(JobOf(t), rep[t].job)

VerdictInv == StageInv /\ JobInv

\* Where each task is, what its status is there, and that no copy of a stage
\* or job contradicts the tasks.
CoreInv == Shape /\ DispatchInv /\ VerdictInv

-----------------------------------------------------------------------------
\* A task names its worker from its assignment on, and a report writes back
\* the worker it has read.
OwnerInv ==
    \A t \in Tasks :
        /\ tasks[t].status \in {"Absent", "Pending"} => tasks[t].worker = NoWorker
        /\ tasks[t].status \notin {"Absent", "Pending"} => tasks[t].worker \in Workers
        /\ rep[t].pc \in {"read", "checked"} => rep[t].worker = tasks[t].worker

\* Until something fails, whoever asked still waits for the answer; a report
\* without effect was about a task of an earlier master.
AnswerInv ==
    /\ faults = 0 => \A w \in Workers : poll[w].pc # "none" => wk[w].pc = "polling"
    /\ \A t \in Tasks :
           rep[t].pc = "notFound" \/ (rep[t].pc = "lost" /\ faults = 0) =>
               tasks[t].status = "Absent"

\* The tasks that total_runs has counted.
CountedTasks == {t \in Tasks : /\ tasks[t].status = "Succeeded"
                              /\ rep[t].pc \notin {"written", "retained"}}

CountInv == IsFiniteSet(CountedTasks) /\ totalRuns = Cardinality(CountedTasks)

\* The result of an inline statement stays, and only a query counts a second
\* running round before its completed one.
InlineInv ==
    /\ InlineResultSticks
    /\ \A j \in Jobs : sub[j].pc = "count" => j \in SqlJobs

LedgerInv ==
    OwnerInv /\ AnswerInv /\ NoForgottenTask /\ CountInv /\ InlineInv

\* The inductive invariant.
IInv == CoreInv /\ LedgerInv
=============================================================================
