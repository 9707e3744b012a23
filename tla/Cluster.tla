------------------------------ MODULE Cluster ------------------------------
(***************************************************************************)
(* The rspark cluster: the master's job, stage and task tables, its        *)
(* pending queue and its HTTP handlers, and the workers that poll it.      *)
(*                                                                         *)
(* Every table of `ClusterInner` (crates/rspark-cluster/src/state.rs) has  *)
(* its own RwLock, and a handler takes and drops one lock after another.   *)
(* The grain of atomicity is therefore ONE lock section: between two       *)
(* sections of a handler any other handler may run.  The handlers          *)
(* (crates/rspark-api/src/routes.rs) contain no await, so a handler that   *)
(* has started keeps its runtime thread until it returns; at most          *)
(* WorkerThreads of them are under way (crates/rspark-cli/src/main.rs).    *)
(*                                                                         *)
(* Rows, error texts, timestamps and SQL text are left out: a task result  *)
(* is "Succeeded" or "Failed".                                             *)
(***************************************************************************)
EXTENDS Integers, Sequences, FiniteSets

CONSTANTS
    ClusterJobs,      \* jobs submitted by POST /v1/jobs
    SqlJobs,          \* queries submitted by POST /v1/sql
    ShowJobs,         \* SHOW CREATE TABLE statements, also POST /v1/sql
    Workers,          \* worker processes, by the id each one registers
    Scans,            \* Scans[j]: number of Scan leaves in the plan of j
    Parallelism,      \* Parallelism[j]: the request's raw parallelism
    WorkerThreads,    \* threads of the master's async runtime
    WorkerHasCatalog, \* FALSE: the shipped worker, whose catalog is empty
    MaxFaults,        \* bound on lost messages, timeouts, worker crashes
    MaxRestarts,      \* bound on restarts of the master
    NoTask,           \* stands for Option::None where a task is expected
    NoWorker          \* stands for Option::None where a worker is expected

PlannedJobs == ClusterJobs \cup SqlJobs

Jobs == PlannedJobs \cup ShowJobs

(***************************************************************************)
(* plan_partitions: each Scan leaf contributes `parallelism` partitions,   *)
(* and a plan that yields none gets a single "no-input" partition.         *)
(***************************************************************************)
PartitionCount(scans, parallelism) ==
    IF scans * parallelism = 0 THEN 1 ELSE scans * parallelism

(***************************************************************************)
(* The number of tasks of job j.  /v1/sql ignores the parallelism of its   *)
(* body and always asks for 1; SHOW CREATE TABLE schedules nothing.        *)
(***************************************************************************)
Parts(j) == IF j \in ShowJobs THEN 0
            ELSE PartitionCount(Scans[j], IF j \in SqlJobs THEN 1
                                          ELSE Parallelism[j])

\* A task is named by its job and its partition; the code draws a UUID.
TasksOf(j) == {<<j, k>> : k \in 1..Parts(j)}

Tasks == UNION {TasksOf(j) : j \in Jobs}

JobOf(t) == t[1]

ASSUME JobsAssumption ==
    /\ ClusterJobs \cap SqlJobs = {}
    /\ ClusterJobs \cap ShowJobs = {}
    /\ SqlJobs \cap ShowJobs = {}
    /\ Scans \in [PlannedJobs -> Nat]
    /\ Parallelism \in [ClusterJobs -> Nat]

ASSUME FiniteAssumption == IsFiniteSet(Jobs) /\ IsFiniteSet(Workers)

ASSUME BoundsAssumption ==
    /\ WorkerThreads \in Nat \ {0}
    /\ WorkerHasCatalog \in BOOLEAN
    /\ MaxFaults \in Nat
    /\ MaxRestarts \in Nat

ASSUME NoneAssumption == NoTask \notin Tasks /\ NoWorker \notin Workers

-----------------------------------------------------------------------------
VARIABLES
    jobs,             \* ClusterInner.jobs: status of each job, or "Absent"
    stages,           \* ClusterInner.stages: the one stage of each job
    tasks,            \* ClusterInner.tasks
    pending,          \* ClusterInner.pending, a queue of task ids
    totalRuns,        \* ClusterInner.total_runs
    runningRound,     \* ClusterInner.running_round
    completedRounds,  \* ClusterInner.total_completed_rounds
    registered,       \* keys of ClusterInner.workers
    sub,              \* sub[j]: the handler of the request that creates j
    poll,             \* poll[w]: the poll_task request of w and its handler
    rep,              \* rep[t]: the complete/fail report of t, its handler
    wk,               \* wk[w]: the loop of worker w
    faults,           \* faults so far
    restarts          \* master restarts so far

tables == <<jobs, stages, tasks, pending>>
counters == <<totalRuns, runningRound, completedRounds>>
bounds == <<faults, restarts>>
vars == <<jobs, stages, tasks, pending, totalRuns, runningRound,
          completedRounds, registered, sub, poll, rep, wk, faults, restarts>>

TaskStatus == {"Absent", "Pending", "Assigned", "Succeeded", "Failed"}
StageStatus == {"Absent", "Pending", "Running", "Succeeded", "Failed"}
JobStatus == {"Absent", "Pending", "Running", "Succeeded", "Failed"}
Outcomes == {"Succeeded", "Failed"}

StageRecord(j) == [status : StageStatus,
                   slots : [TasksOf(j) -> TaskStatus]]
Stages == UNION {StageRecord(j) : j \in Jobs}

AbsentTask == [status |-> "Absent", worker |-> NoWorker]
AbsentStage(j) == [status |-> "Absent",
                   slots |-> [t \in TasksOf(j) |-> "Absent"]]

NoStage == [status |-> "Absent", slots |-> <<>>]

IdleSub == [pc |-> "idle", k |-> 1]
IdlePoll == [pc |-> "none", task |-> NoTask, stage |-> NoStage]
IdleRep(t) == [pc |-> "none", outcome |-> "Failed", worker |-> NoWorker,
               stage |-> AbsentStage(JobOf(t)),
               verdict |-> "none", job |-> "Absent"]

SubBusy == {"insert", "push", "job", "run", "readback", "round", "plan",
            "exec", "count", "record"}
SubOver == {"returned", "rejected", "lost"}
PollBusy == {"popped", "read", "assigned", "stageRead"}
RepBusy == {"read", "checked", "wasTerminal", "written", "retained",
            "counted", "stageRead", "stageWritten", "tallied", "jobRead"}
RepOver == {"done", "panicked", "notFound", "lost"}

SubPCs == {"idle"} \cup SubBusy \cup SubOver
PollPCs == {"none", "sent", "reply"} \cup PollBusy
RepPCs == {"none", "sent"} \cup RepBusy \cup RepOver
WkPCs == {"starting", "idle", "polling", "executing", "reporting", "dead"}

Init ==
    /\ jobs = [j \in Jobs |-> "Absent"]
    /\ stages = [j \in Jobs |-> AbsentStage(j)]
    /\ tasks = [t \in Tasks |-> AbsentTask]
    /\ pending = <<>>
    /\ totalRuns = 0
    /\ runningRound = 0
    /\ completedRounds = 0
    /\ registered = {}
    /\ sub = [j \in Jobs |-> IdleSub]
    /\ poll = [w \in Workers |-> IdlePoll]
    /\ rep = [t \in Tasks |-> IdleRep(t)]
    /\ wk = [w \in Workers |-> [pc |-> "starting", task |-> NoTask]]
    /\ faults = 0
    /\ restarts = 0

(***************************************************************************)
(* Handlers run to completion on the threads of the runtime: a request is  *)
(* taken up only when one of them is free.                                 *)
(***************************************************************************)
BusyHandlers ==
    Cardinality({j \in Jobs : sub[j].pc \in SubBusy})
  + Cardinality({w \in Workers : poll[w].pc \in PollBusy})
  + Cardinality({t \in Tasks : rep[t].pc \in RepBusy})

ThreadFree == BusyHandlers < WorkerThreads

-----------------------------------------------------------------------------
(***************************************************************************)
(* Master::submit_job, as called by POST /v1/jobs and by POST /v1/sql.     *)
(***************************************************************************)

\* plan_sql or try_show_create fails: the handler answers with an error
\* before it has touched any table.
SubmitRejected(j) ==
    /\ sub[j].pc = "idle"
    /\ ThreadFree
    /\ sub' = [sub EXCEPT ![j].pc = "rejected"]
    /\ UNCHANGED <<tables, counters, registered, poll, rep, wk, bounds>>

\* The plan is made, the stage is built with one Pending task per partition
\* and insert_stage stores it.  The loop that follows goes over a copy of the
\* stored stage, which nobody else can have changed: its tasks are unknown.
SubmitBegin(j) ==
    /\ j \in PlannedJobs
    /\ sub[j].pc = "idle"
    /\ ThreadFree
    /\ stages' = [stages EXCEPT ![j] =
           [status |-> "Pending",
            slots |-> [t \in TasksOf(j) |-> "Pending"]]]
    /\ sub' = [sub EXCEPT ![j].pc = "insert"]
    /\ UNCHANGED <<jobs, tasks, pending, counters, registered, poll, rep, wk,
                   bounds>>

\* insert_task, first lock: the k-th task enters the task table.
SubmitInsertTask(j) ==
    /\ sub[j].pc = "insert"
    /\ tasks' = [tasks EXCEPT ![<<j, sub[j].k>>] =
           [status |-> "Pending", worker |-> NoWorker]]
    /\ sub' = [sub EXCEPT ![j].pc = "push"]
    /\ UNCHANGED <<jobs, stages, pending, counters, registered, poll, rep,
                   wk, bounds>>

\* Mutant: the loop over the partitions runs once too often.
SubmitPushOneMore(j) ==
    /\ sub[j].pc = "push"
    /\ pending' = Append(pending, <<j, sub[j].k>>)
    /\ sub' = [sub EXCEPT ![j].pc = IF sub[j].k > Parts(j) THEN "job"
                                    ELSE "insert",
                          ![j].k = IF sub[j].k > Parts(j) THEN @ ELSE @ + 1]
    /\ UNCHANGED <<jobs, stages, tasks, counters, registered, poll, rep, wk,
                   bounds>>

\* Mutant: push_front instead of push_back.
SubmitPushFront(j) ==
    /\ sub[j].pc = "push"
    /\ pending' = <<(<<j, sub[j].k>>)>> \o pending
    /\ sub' = [sub EXCEPT ![j].pc = IF sub[j].k = Parts(j) THEN "job"
                                    ELSE "insert",
                          ![j].k = IF sub[j].k = Parts(j) THEN @ ELSE @ + 1]
    /\ UNCHANGED <<jobs, stages, tasks, counters, registered, poll, rep, wk,
                   bounds>>

\* insert_task, second lock: its id goes to the back of the queue.
SubmitPushPending(j) ==
    /\ sub[j].pc = "push"
    /\ pending' = Append(pending, <<j, sub[j].k>>)
    /\ sub' = [sub EXCEPT ![j].pc = IF sub[j].k = Parts(j) THEN "job"
                                    ELSE "insert",
                          ![j].k = IF sub[j].k = Parts(j) THEN @ ELSE @ + 1]
    /\ UNCHANGED <<jobs, stages, tasks, counters, registered, poll, rep, wk,
                   bounds>>

\* Mutant: insert_job is dropped, since update_job inserts as well.
SubmitInsertJobSkipped(j) ==
    /\ sub[j].pc = "job"
    /\ sub' = [sub EXCEPT ![j].pc = "run"]
    /\ UNCHANGED <<tables, counters, registered, poll, rep, wk, bounds>>

\* Only now does the job itself become visible, as Pending.
SubmitInsertJob(j) ==
    /\ sub[j].pc = "job"
    /\ jobs' = [jobs EXCEPT ![j] = "Pending"]
    /\ sub' = [sub EXCEPT ![j].pc = "run"]
    /\ UNCHANGED <<stages, tasks, pending, counters, registered, poll, rep,
                   wk, bounds>>

\* update_job with a private copy marked Running: a blind write.
SubmitRunJob(j) ==
    /\ sub[j].pc = "run"
    /\ jobs' = [jobs EXCEPT ![j] = "Running"]
    /\ sub' = [sub EXCEPT ![j].pc = "readback"]
    /\ UNCHANGED <<stages, tasks, pending, counters, registered, poll, rep,
                   wk, bounds>>

\* POST /v1/jobs: the tables are read for the response, the round counted.
SubmitRespond(j) ==
    /\ j \in ClusterJobs
    /\ sub[j].pc = "readback"
    /\ runningRound' = runningRound + 1
    /\ sub' = [sub EXCEPT ![j].pc = "returned"]
    /\ UNCHANGED <<tables, totalRuns, completedRounds, registered, poll, rep,
                   wk, bounds>>

-----------------------------------------------------------------------------
(***************************************************************************)
(* The rest of execute_sql for a query: the job has been submitted, its    *)
(* task is in the queue, and the handler runs the query itself as well.    *)
(***************************************************************************)

\* submit_job has returned a copy of the job; only its id and its constant
\* fields are used later, so the copy is not kept.
SqlIncRound(j) ==
    /\ j \in SqlJobs
    /\ sub[j].pc = "readback"
    /\ runningRound' = runningRound + 1
    /\ sub' = [sub EXCEPT ![j].pc = "plan"]
    /\ UNCHANGED <<tables, totalRuns, completedRounds, registered, poll, rep,
                   wk, bounds>>

\* The query is planned a second time.  When a table it reads has been
\* unregistered since the first plan, the handler returns and leaves the job.
SqlPlan(j, ok) ==
    /\ j \in SqlJobs
    /\ sub[j].pc = "plan"
    /\ ok \/ Scans[j] > 0
    /\ sub' = [sub EXCEPT ![j].pc = IF ok THEN "exec" ELSE "returned"]
    /\ UNCHANGED <<tables, counters, registered, poll, rep, wk, bounds>>

\* Mutant: the success path returns without update_job.
SqlExecuteUnrecorded(j, outcome) ==
    /\ j \in SqlJobs
    /\ sub[j].pc = "exec"
    /\ jobs' = [jobs EXCEPT ![j] = IF outcome = "Failed" THEN "Failed" ELSE @]
    /\ sub' = [sub EXCEPT ![j].pc = IF outcome = "Succeeded" THEN "count"
                                    ELSE "returned"]
    /\ UNCHANGED <<stages, tasks, pending, counters, registered, poll, rep,
                   wk, bounds>>

\* The executor's result decides the job: the copy that submit_job returned
\* is written back with a new status, whatever the job has become meanwhile.
SqlExecute(j, outcome) ==
    /\ j \in SqlJobs
    /\ sub[j].pc = "exec"
    /\ jobs' = [jobs EXCEPT ![j] = outcome]
    /\ sub' = [sub EXCEPT ![j].pc = IF outcome = "Succeeded" THEN "count"
                                    ELSE "returned"]
    /\ UNCHANGED <<stages, tasks, pending, counters, registered, poll, rep,
                   wk, bounds>>

\* A query that ran to its end counts a second running round ...
SqlCountRound(j) ==
    /\ sub[j].pc = "count"
    /\ runningRound' = runningRound + 1
    /\ sub' = [sub EXCEPT ![j].pc = "record"]
    /\ UNCHANGED <<tables, totalRuns, completedRounds, registered, poll, rep,
                   wk, bounds>>

\* ... and then, as SHOW CREATE TABLE does, one completed round.
RecordRound(j) ==
    /\ sub[j].pc = "record"
    /\ completedRounds' = completedRounds + 1
    /\ sub' = [sub EXCEPT ![j].pc = "returned"]
    /\ UNCHANGED <<tables, totalRuns, runningRound, registered, poll, rep,
                   wk, bounds>>

(***************************************************************************)
(* execute_sql for SHOW CREATE TABLE: submit_job_skip_plan records a job   *)
(* that is Running from the start and has neither stage nor tasks.         *)
(***************************************************************************)
ShowBegin(j) ==
    /\ j \in ShowJobs
    /\ sub[j].pc = "idle"
    /\ ThreadFree
    /\ jobs' = [jobs EXCEPT ![j] = "Running"]
    /\ sub' = [sub EXCEPT ![j].pc = "round"]
    /\ UNCHANGED <<stages, tasks, pending, counters, registered, poll, rep,
                   wk, bounds>>

ShowIncRound(j) ==
    /\ j \in ShowJobs
    /\ sub[j].pc = "round"
    /\ runningRound' = runningRound + 1
    /\ sub' = [sub EXCEPT ![j].pc = "exec"]
    /\ UNCHANGED <<tables, totalRuns, completedRounds, registered, poll, rep,
                   wk, bounds>>

ShowRendered(j) ==
    /\ j \in ShowJobs
    /\ sub[j].pc = "exec"
    /\ jobs' = [jobs EXCEPT ![j] = "Succeeded"]
    /\ sub' = [sub EXCEPT ![j].pc = "record"]
    /\ UNCHANGED <<stages, tasks, pending, counters, registered, poll, rep,
                   wk, bounds>>

\* render_create_table fails (unknown table): the error is returned at once.
ShowRenderError(j) ==
    /\ j \in ShowJobs
    /\ sub[j].pc = "exec"
    /\ sub' = [sub EXCEPT ![j].pc = "returned"]
    /\ UNCHANGED <<tables, counters, registered, poll, rep, wk, bounds>>

-----------------------------------------------------------------------------
(***************************************************************************)
(* GET /v1/workers/:id/task: poll_task and Master::try_assign_task.  The   *)
(* handler never asks whether the worker is registered.                    *)
(***************************************************************************)

\* Mutant: front() instead of pop_front(), the id stays in the queue.
PollPeek(w) ==
    /\ poll[w].pc = "sent"
    /\ ThreadFree
    /\ poll' = IF pending = <<>> THEN [poll EXCEPT ![w].pc = "reply"]
               ELSE [poll EXCEPT ![w].pc = "popped", ![w].task = Head(pending)]
    /\ UNCHANGED <<tables, counters, registered, sub, rep, wk, bounds>>

\* pop_pending_task, first lock.  An empty queue is answered with 204.
PollPop(w) ==
    /\ poll[w].pc = "sent"
    /\ ThreadFree
    /\ IF pending = <<>>
       THEN /\ poll' = [poll EXCEPT ![w].pc = "reply"]
            /\ UNCHANGED pending
       ELSE /\ poll' = [poll EXCEPT ![w].pc = "popped",
                                    ![w].task = Head(pending)]
            /\ pending' = Tail(pending)
    /\ UNCHANGED <<jobs, stages, tasks, counters, registered, sub, rep, wk,
                   bounds>>

\* pop_pending_task, second lock: an id with no task would yield None.
PollRead(w) ==
    /\ poll[w].pc = "popped"
    /\ poll' = IF tasks[poll[w].task].status = "Absent"
               THEN [poll EXCEPT ![w].pc = "reply", ![w].task = NoTask]
               ELSE [poll EXCEPT ![w].pc = "read"]
    /\ UNCHANGED <<tables, counters, registered, sub, rep, wk, bounds>>

\* update_task with the copy marked Assigned to w.
PollAssign(w) ==
    /\ poll[w].pc = "read"
    /\ tasks' = [tasks EXCEPT ![poll[w].task] =
           [status |-> "Assigned", worker |-> w]]
    /\ poll' = [poll EXCEPT ![w].pc = "assigned"]
    /\ UNCHANGED <<jobs, stages, pending, counters, registered, sub, rep, wk,
                   bounds>>

\* The stage is copied under one lock ...
PollStageRead(w) ==
    /\ poll[w].pc = "assigned"
    /\ poll' = [poll EXCEPT ![w].pc = "stageRead",
                            ![w].stage = stages[JobOf(poll[w].task)]]
    /\ UNCHANGED <<tables, counters, registered, sub, rep, wk, bounds>>

\* ... and written back, with this task's slot changed, under another.
PollStageWrite(w) ==
    /\ poll[w].pc = "stageRead"
    /\ stages' = [stages EXCEPT ![JobOf(poll[w].task)] =
           [poll[w].stage EXCEPT !.slots[poll[w].task] = "Assigned"]]
    /\ poll' = [poll EXCEPT ![w].pc = "reply", ![w].stage = NoStage]
    /\ UNCHANGED <<jobs, tasks, pending, counters, registered, sub, rep, wk,
                   bounds>>

-----------------------------------------------------------------------------
(***************************************************************************)
(* POST /v1/tasks/:id/complete and /fail: Master::complete_task.           *)
(***************************************************************************)

\* The task is copied; one the master does not know is answered 404.
RepStart(t) ==
    /\ rep[t].pc = "sent"
    /\ ThreadFree
    /\ rep' = [rep EXCEPT ![t].pc = IF tasks[t].status = "Absent"
                                    THEN "notFound" ELSE "read",
                          ![t].worker = tasks[t].worker]
    /\ UNCHANGED <<tables, counters, registered, sub, poll, wk, bounds>>

\* update_task, first lock: was the task terminal already?
RepCheck(t) ==
    /\ rep[t].pc = "read"
    /\ rep' = [rep EXCEPT ![t].pc = IF tasks[t].status \in Outcomes
                                    THEN "wasTerminal" ELSE "checked"]
    /\ UNCHANGED <<tables, counters, registered, sub, poll, wk, bounds>>

\* update_task, second lock: the copy is written with its outcome.
RepWrite(t) ==
    /\ rep[t].pc \in {"checked", "wasTerminal"}
    /\ tasks' = [tasks EXCEPT ![t] =
           [status |-> rep[t].outcome, worker |-> rep[t].worker]]
    /\ rep' = [rep EXCEPT ![t].pc = IF @ = "checked" THEN "written"
                                    ELSE "counted"]
    /\ UNCHANGED <<jobs, stages, pending, counters, registered, sub, poll,
                   wk, bounds>>

\* Mutant: retain with the test inverted.
RepRetainInverted(t) ==
    /\ rep[t].pc = "written"
    /\ pending' = SelectSeq(pending, LAMBDA u : u = t)
    /\ rep' = [rep EXCEPT ![t].pc = "retained"]
    /\ UNCHANGED <<jobs, stages, tasks, counters, registered, sub, poll, wk,
                   bounds>>

\* update_task, third lock: a terminal task does not stay in the queue.
RepRetain(t) ==
    /\ rep[t].pc = "written"
    /\ pending' = IF \E i \in DOMAIN pending : pending[i] = t
                  THEN SelectSeq(pending, LAMBDA u : u # t)
                  ELSE pending
    /\ rep' = [rep EXCEPT ![t].pc = "retained"]
    /\ UNCHANGED <<jobs, stages, tasks, counters, registered, sub, poll, wk,
                   bounds>>

\* Mutant: failures are counted as runs too.
RepCountAll(t) ==
    /\ rep[t].pc = "retained"
    /\ totalRuns' = totalRuns + 1
    /\ rep' = [rep EXCEPT ![t].pc = "counted"]
    /\ UNCHANGED <<tables, runningRound, completedRounds, registered, sub,
                   poll, wk, bounds>>

\* update_task, fourth lock: total_runs counts the tasks that succeeded.
RepCount(t) ==
    /\ rep[t].pc = "retained"
    /\ totalRuns' = IF rep[t].outcome = "Succeeded" THEN totalRuns + 1
                    ELSE totalRuns
    /\ rep' = [rep EXCEPT ![t].pc = "counted"]
    /\ UNCHANGED <<tables, runningRound, completedRounds, registered, sub,
                   poll, wk, bounds>>

RepStageRead(t) ==
    /\ rep[t].pc = "counted"
    /\ rep' = [rep EXCEPT ![t].pc = "stageRead",
                          ![t].stage = stages[JobOf(t)]]
    /\ UNCHANGED <<tables, counters, registered, sub, poll, wk, bounds>>

\* Mutant: a stage is complete when no task is left to run.
StageVerdictDone(slots) ==
    IF \A t \in DOMAIN slots : slots[t] \in Outcomes THEN "Succeeded"
    ELSE IF \E t \in DOMAIN slots : slots[t] = "Failed" THEN "Failed"
    ELSE "Running"

\* The status of a stage from the slots it holds: Stage::is_complete first.
StageVerdict(slots) ==
    IF DOMAIN slots # {} /\ \A t \in DOMAIN slots : slots[t] = "Succeeded"
    THEN "Succeeded"
    ELSE IF \E t \in DOMAIN slots : slots[t] = "Failed" THEN "Failed"
    ELSE "Running"

RepStageWrite(t) ==
    /\ rep[t].pc = "stageRead"
    /\ LET slots == [rep[t].stage.slots EXCEPT ![t] = rep[t].outcome]
       IN  stages' = [stages EXCEPT ![JobOf(t)] =
                          [status |-> StageVerdict(slots), slots |-> slots]]
    /\ rep' = [rep EXCEPT ![t].pc = "stageWritten",
                          ![t].stage = AbsentStage(JobOf(t))]
    /\ UNCHANGED <<jobs, tasks, pending, counters, registered, sub, poll, wk,
                   bounds>>

\* Mutant: a job that has not succeeded has failed.
JobVerdictEager(j) ==
    LET present == {u \in TasksOf(j) : tasks[u].status # "Absent"}
    IN  IF \A u \in present : tasks[u].status = "Succeeded" THEN "Succeeded"
        ELSE "Failed"

\* What the tasks of a job that are in the table now say about the job.
JobVerdict(j) ==
    LET present == {u \in TasksOf(j) : tasks[u].status # "Absent"}
    IN  IF present # {} /\ \A u \in present : tasks[u].status = "Succeeded"
        THEN "Succeeded"
        ELSE IF \E u \in present : tasks[u].status = "Failed"
        THEN "Failed"
        ELSE "none"

\* tasks_for_job: one pass over the table under one lock.
RepTally(t) ==
    /\ rep[t].pc = "stageWritten"
    /\ rep' = [rep EXCEPT ![t].pc = "tallied",
                          ![t].verdict = JobVerdict(JobOf(t))]
    /\ UNCHANGED <<tables, counters, registered, sub, poll, wk, bounds>>

\* job(..).unwrap(): a job that is not in the table yet is a panic.
RepJobRead(t) ==
    /\ rep[t].pc = "tallied"
    /\ rep' = IF jobs[JobOf(t)] = "Absent"
              THEN [rep EXCEPT ![t].pc = "panicked"]
              ELSE [rep EXCEPT ![t].pc = "jobRead", ![t].job = jobs[JobOf(t)]]
    /\ UNCHANGED <<tables, counters, registered, sub, poll, wk, bounds>>

\* update_job: without a verdict the copy just read is written back as is.
RepJobWrite(t) ==
    /\ rep[t].pc = "jobRead"
    /\ jobs' = [jobs EXCEPT ![JobOf(t)] =
           IF rep[t].verdict = "none" THEN rep[t].job ELSE rep[t].verdict]
    /\ rep' = [rep EXCEPT ![t].pc = "done"]
    /\ UNCHANGED <<stages, tasks, pending, counters, registered, sub, poll,
                   wk, bounds>>

-----------------------------------------------------------------------------
(***************************************************************************)
(* The worker: run_worker.                                                 *)
(***************************************************************************)

\* Registration is retried until a response arrives; the insertion is keyed
\* by the worker's own id.
WorkerRegister(w) ==
    /\ wk[w].pc = "starting"
    /\ registered' = registered \cup {w}
    /\ wk' = [wk EXCEPT ![w].pc = "idle"]
    /\ UNCHANGED <<tables, counters, sub, poll, rep, bounds>>

\* One request at a time: a worker that gave up on a poll sends the next one
\* when the master is done with it.
WorkerPoll(w) ==
    /\ wk[w].pc = "idle"
    /\ poll[w].pc = "none"
    /\ wk' = [wk EXCEPT ![w].pc = "polling"]
    /\ poll' = [poll EXCEPT ![w].pc = "sent"]
    /\ UNCHANGED <<tables, counters, registered, sub, rep, bounds>>

\* The answer reaches the worker: a task to execute, or 204.  The answer to
\* a worker that has died or no longer waits goes nowhere.
PollRespond(w) ==
    /\ poll[w].pc = "reply"
    /\ poll' = [poll EXCEPT ![w] = IdlePoll]
    /\ wk' = IF wk[w].pc # "polling" THEN wk
             ELSE IF poll[w].task = NoTask THEN [wk EXCEPT ![w].pc = "idle"]
             ELSE [wk EXCEPT ![w] = [pc |-> "executing",
                                     task |-> poll[w].task]]
    /\ UNCHANGED <<tables, counters, registered, sub, rep, bounds>>

\* What Worker::execute_task can return for a task of job j.  The task's SQL
\* is planned again with the worker's catalog: one without tables cannot
\* resolve a scan.
ExecuteTask(j) == IF Scans[j] > 0 /\ ~WorkerHasCatalog THEN {"Failed"}
                  ELSE Outcomes

\* Mutant: the error arm logs and forgets to report.
WorkerReportOnlySuccess(w, outcome) ==
    /\ wk[w].pc = "executing"
    /\ outcome \in ExecuteTask(JobOf(wk[w].task))
    /\ rep' = IF outcome = "Failed" THEN rep
              ELSE [rep EXCEPT ![wk[w].task].pc = "sent",
                               ![wk[w].task].outcome = outcome]
    /\ wk' = IF outcome = "Failed"
             THEN [wk EXCEPT ![w] = [pc |-> "idle", task |-> NoTask]]
             ELSE [wk EXCEPT ![w].pc = "reporting"]
    /\ UNCHANGED <<tables, counters, registered, sub, poll, bounds>>

\* The whole plan is executed and the report is sent.
WorkerReport(w, outcome) ==
    /\ wk[w].pc = "executing"
    /\ outcome \in ExecuteTask(JobOf(wk[w].task))
    /\ rep' = [rep EXCEPT ![wk[w].task].pc = "sent",
                          ![wk[w].task].outcome = outcome]
    /\ wk' = [wk EXCEPT ![w].pc = "reporting"]
    /\ UNCHANGED <<tables, counters, registered, sub, poll, bounds>>

\* The worker hears of the end of its report (a response, a broken
\* connection or a timeout), ignores it and goes back to polling.
ReportAck(w) ==
    /\ wk[w].pc = "reporting"
    /\ rep[wk[w].task].pc \in RepOver
    /\ wk' = [wk EXCEPT ![w] = [pc |-> "idle", task |-> NoTask]]
    /\ UNCHANGED <<tables, counters, registered, sub, poll, rep, bounds>>

-----------------------------------------------------------------------------
(***************************************************************************)
(* Faults.  Each one is bounded by MaxFaults in total.                     *)
(***************************************************************************)
Fault == faults < MaxFaults /\ faults' = faults + 1

\* The master stores the worker, the worker does not learn of it.
RegisterReplyLost(w) ==
    /\ Fault
    /\ wk[w].pc = "starting"
    /\ registered' = registered \cup {w}
    /\ UNCHANGED <<tables, counters, sub, poll, rep, wk, restarts>>

\* The process dies.  A restarted process draws a new id: another worker.
WorkerCrash(w) ==
    /\ Fault
    /\ wk[w].pc # "dead"
    /\ wk' = [wk EXCEPT ![w] = [pc |-> "dead", task |-> NoTask]]
    /\ UNCHANGED <<tables, counters, registered, sub, poll, rep, restarts>>

PollRequestLost(w) ==
    /\ Fault
    /\ wk[w].pc = "polling"
    /\ poll[w].pc = "sent"
    /\ poll' = [poll EXCEPT ![w] = IdlePoll]
    /\ wk' = [wk EXCEPT ![w].pc = "idle"]
    /\ UNCHANGED <<tables, counters, registered, sub, rep, restarts>>

\* The answer is lost or does not decode.
PollReplyLost(w) ==
    /\ Fault
    /\ wk[w].pc = "polling"
    /\ poll[w].pc = "reply"
    /\ poll' = [poll EXCEPT ![w] = IdlePoll]
    /\ wk' = [wk EXCEPT ![w].pc = "idle"]
    /\ UNCHANGED <<tables, counters, registered, sub, rep, restarts>>

\* The worker's client gives up after 5 s.  The request is handled all the
\* same, and its answer goes nowhere: a task it takes is taken for nobody.
PollTimeout(w) ==
    /\ Fault
    /\ wk[w].pc = "polling"
    /\ wk' = [wk EXCEPT ![w].pc = "idle"]
    /\ UNCHANGED <<tables, counters, registered, sub, poll, rep, restarts>>

\* The report never reaches the master.  It is not sent again.
ReportLost(t) ==
    /\ Fault
    /\ rep[t].pc = "sent"
    /\ rep' = [rep EXCEPT ![t].pc = "lost"]
    /\ UNCHANGED <<tables, counters, registered, sub, poll, wk, restarts>>

\* Mutant: a worker whose report times out executes its task once more.
ReportTimeoutRetry(w) ==
    /\ Fault
    /\ wk[w].pc = "reporting"
    /\ rep[wk[w].task].pc \in RepBusy \cup {"sent"}
    /\ wk' = [wk EXCEPT ![w].pc = "executing"]
    /\ UNCHANGED <<tables, counters, registered, sub, poll, rep, restarts>>

\* The worker gives up while the report is on its way or being handled.
ReportTimeout(w) ==
    /\ Fault
    /\ wk[w].pc = "reporting"
    /\ rep[wk[w].task].pc \in RepBusy \cup {"sent"}
    /\ wk' = [wk EXCEPT ![w] = [pc |-> "idle", task |-> NoTask]]
    /\ UNCHANGED <<tables, counters, registered, sub, poll, rep, restarts>>

\* Mutant: only the queue survives a restart of the master.
RestartKeepsQueue ==
    /\ restarts < MaxRestarts
    /\ restarts' = restarts + 1
    /\ jobs' = [j \in Jobs |-> "Absent"]
    /\ stages' = [j \in Jobs |-> AbsentStage(j)]
    /\ tasks' = [t \in Tasks |-> AbsentTask]
    /\ UNCHANGED pending
    /\ totalRuns' = 0
    /\ runningRound' = 0
    /\ completedRounds' = 0
    /\ registered' = {}
    /\ sub' = [j \in Jobs |-> IF sub[j].pc \in {"idle", "rejected"}
                              THEN sub[j]
                              ELSE [sub[j] EXCEPT !.pc = "lost"]]
    /\ poll' = [w \in Workers |-> IdlePoll]
    /\ rep' = [t \in Tasks |-> IF rep[t].pc = "none" THEN rep[t]
                               ELSE [IdleRep(t) EXCEPT !.pc = "lost"]]
    /\ wk' = [w \in Workers |-> IF wk[w].pc = "polling"
                                THEN [wk[w] EXCEPT !.pc = "idle"] ELSE wk[w]]
    /\ UNCHANGED faults

(***************************************************************************)
(* The master process is replaced.  Nothing is persisted: every table is   *)
(* new, requests under way break, and clients get no answer.  A worker     *)
(* whose poll breaks polls again; one that executes a task goes on.        *)
(***************************************************************************)
MasterRestart ==
    /\ restarts < MaxRestarts
    /\ restarts' = restarts + 1
    /\ jobs' = [j \in Jobs |-> "Absent"]
    /\ stages' = [j \in Jobs |-> AbsentStage(j)]
    /\ tasks' = [t \in Tasks |-> AbsentTask]
    /\ pending' = <<>>
    /\ totalRuns' = 0
    /\ runningRound' = 0
    /\ completedRounds' = 0
    /\ registered' = {}
    /\ sub' = [j \in Jobs |-> IF sub[j].pc \in {"idle", "rejected"}
                              THEN sub[j]
                              ELSE [sub[j] EXCEPT !.pc = "lost"]]
    /\ poll' = [w \in Workers |-> IdlePoll]
    /\ rep' = [t \in Tasks |-> IF rep[t].pc = "none" THEN rep[t]
                               ELSE [IdleRep(t) EXCEPT !.pc = "lost"]]
    /\ wk' = [w \in Workers |-> IF wk[w].pc = "polling"
                                THEN [wk[w] EXCEPT !.pc = "idle"] ELSE wk[w]]
    /\ UNCHANGED faults

-----------------------------------------------------------------------------
SubmitStep(j) ==
    \/ SubmitInsertTask(j)
    \/ SubmitPushPending(j)
    \/ SubmitInsertJob(j)
    \/ SubmitRunJob(j)
    \/ SubmitRespond(j)

SqlStep(j) ==
    \/ SqlIncRound(j)
    \/ \E ok \in BOOLEAN : SqlPlan(j, ok)
    \/ \E outcome \in Outcomes : SqlExecute(j, outcome)
    \/ SqlCountRound(j)
    \/ RecordRound(j)

ShowStep(j) == ShowIncRound(j) \/ ShowRendered(j) \/ ShowRenderError(j)

RequestArrives(j) == SubmitRejected(j) \/ SubmitBegin(j) \/ ShowBegin(j)

PollStep(w) ==
    PollRead(w) \/ PollAssign(w) \/ PollStageRead(w) \/ PollStageWrite(w)

RepStep(t) ==
    \/ RepCheck(t) \/ RepWrite(t) \/ RepRetain(t) \/ RepCount(t)
    \/ RepStageRead(t) \/ RepStageWrite(t)
    \/ RepTally(t) \/ RepJobRead(t) \/ RepJobWrite(t)

WorkerStep(w) ==
    \/ WorkerRegister(w)
    \/ WorkerPoll(w)
    \/ PollRespond(w)
    \/ \E outcome \in Outcomes : WorkerReport(w, outcome)
    \/ ReportAck(w)

FaultStep ==
    \/ \E w \in Workers : \/ RegisterReplyLost(w)
                          \/ WorkerCrash(w)
                          \/ PollRequestLost(w)
                          \/ PollReplyLost(w)
                          \/ PollTimeout(w)
                          \/ ReportTimeout(w)
    \/ \E t \in Tasks : ReportLost(t)
    \/ MasterRestart

Next ==
    \/ \E j \in Jobs : \/ RequestArrives(j)
                       \/ SubmitStep(j)
                       \/ SqlStep(j)
                       \/ ShowStep(j)
    \/ \E w \in Workers : PollPop(w) \/ PollStep(w) \/ WorkerStep(w)
    \/ \E t \in Tasks : RepStart(t) \/ RepStep(t)
    \/ FaultStep

Spec == Init /\ [][Next]_vars

(***************************************************************************)
(* Fairness.  A handler that has started and a worker that is alive keep   *)
(* going: no lock is held across steps, so each step stays enabled.  A     *)
(* request waits for a free thread, and threads come and go: the runtime's *)
(* queue is first-in first-out, so it is taken up in the end (strong       *)
(* fairness).  No request is ever obliged to arrive.                       *)
(***************************************************************************)
Fairness ==
    /\ \A j \in Jobs : WF_vars(SubmitStep(j) \/ SqlStep(j) \/ ShowStep(j))
    /\ \A w \in Workers : /\ WF_vars(WorkerStep(w))
                          /\ WF_vars(PollStep(w))
                          /\ SF_vars(PollPop(w))
    /\ \A t \in Tasks : WF_vars(RepStep(t)) /\ SF_vars(RepStart(t))

FairSpec == Spec /\ Fairness

-----------------------------------------------------------------------------
(***************************************************************************)
(* Properties.                                                             *)
(***************************************************************************)

RepRecord == [pc : RepPCs, outcome : Outcomes,
              worker : Workers \cup {NoWorker}, stage : Stages,
              verdict : {"none"} \cup Outcomes, job : JobStatus]

JobsOK == jobs \in [Jobs -> JobStatus]

StagesOK == /\ stages \in [Jobs -> Stages]
            /\ \A j \in Jobs : stages[j] \in StageRecord(j)

TasksOK == tasks \in [Tasks -> [status : TaskStatus,
                                worker : Workers \cup {NoWorker}]]

QueueOK == pending \in Seq(Tasks)

CountersOK == totalRuns \in Nat /\ runningRound \in Nat /\ completedRounds \in Nat

SubOK == sub \in [Jobs -> [pc : SubPCs, k : Nat]]

PollOK == /\ poll \in [Workers -> [pc : PollPCs, task : Tasks \cup {NoTask},
                                   stage : Stages \cup {NoStage}]]
          /\ \A w \in Workers : poll[w].pc = "stageRead" =>
                 poll[w].stage \in StageRecord(JobOf(poll[w].task))

RepOK == /\ rep \in [Tasks -> RepRecord]
         /\ \A t \in Tasks : rep[t].stage \in StageRecord(JobOf(t))

WkOK == wk \in [Workers -> [pc : WkPCs, task : Tasks \cup {NoTask}]]

BoundsOK == faults \in 0..MaxFaults /\ restarts \in 0..MaxRestarts

\* Every table entry, request record and counter has its type: the tables of
\* ClusterInner and the local variables of the handlers.
TypeOK ==
    /\ JobsOK /\ StagesOK /\ TasksOK /\ QueueOK /\ CountersOK
    /\ registered \subseteq Workers
    /\ SubOK /\ PollOK /\ RepOK /\ WkOK /\ BoundsOK

Queued(t) == \E i \in DOMAIN pending : pending[i] = t

\* Worker w, or the request it has made, has t in hand.
Holds(w, t) == poll[w].task = t \/ wk[w].task = t

\* A task id is in at most one place: once in the queue, or in the hands of
\* one worker, so no task is executed twice (pop_pending_task, insert_task,
\* update_task's retain).
AtMostOnceDispatch ==
    \A t \in Tasks :
        /\ \A i, k \in DOMAIN pending :
               pending[i] = t /\ pending[k] = t => i = k
        /\ \A v, w \in Workers : Holds(v, t) /\ Holds(w, t) => v = w
        /\ \A w \in Workers : Holds(w, t) => ~Queued(t)
        /\ rep[t].pc # "none" => ~Queued(t)

\* A task that has no outcome yet is in the queue, or on its way into it, or
\* in some worker's hands, or its report is under way.  Only a fault breaks
\* this: try_assign_task has no lease and nothing puts a task back.
NoForgottenTask ==
    \A t \in Tasks :
        tasks[t].status \in {"Pending", "Assigned"} =>
            \/ Queued(t)
            \/ sub[JobOf(t)].pc = "push" /\ t = <<JobOf(t), sub[JobOf(t)].k>>
            \/ \E w \in Workers : Holds(w, t)
            \/ rep[t].pc \in RepBusy \cup {"sent"}
            \/ faults > 0

\* The outcome of a task is decided once: complete_task never replaces one,
\* however reports, timeouts and polls interleave.  It is lost only with the
\* master.
TerminalTaskStable ==
    [][\A t \in Tasks : tasks[t].status \in Outcomes =>
           tasks'[t] \in {tasks[t], AbsentTask}]_vars

\* total_runs is the number of tasks that succeeded and whose report has
\* passed the counter of update_task: none is missed and none counted twice.
TotalRunsExact ==
    totalRuns = Cardinality({t \in Tasks :
                    /\ tasks[t].status = "Succeeded"
                    /\ rep[t].pc \notin {"written", "retained"}})

\* A stage's verdict tells the truth about its tasks even though stages are
\* rewritten from old copies: a Succeeded stage has only succeeded tasks and
\* a Failed one has a failed task (complete_task, Stage::is_complete).
StageVerdictSound ==
    \A j \in PlannedJobs :
        /\ stages[j].status = "Succeeded" =>
               \A t \in TasksOf(j) : tasks[t].status = "Succeeded"
        /\ stages[j].status = "Failed" =>
               \E t \in TasksOf(j) : tasks[t].status = "Failed"

\* A job of POST /v1/jobs is Failed only if one of its tasks failed, and
\* Succeeded only if one of its tasks succeeded (complete_task).  "One" and
\* not "all": the tally may precede the insertion of the other tasks.
JobVerdictGrounded ==
    \A j \in ClusterJobs : jobs[j] \in Outcomes =>
        \E t \in TasksOf(j) : tasks[t].status = jobs[j]

\* The master records the result of a statement it has executed itself, and
\* only the report of a worker that was given the same query replaces it
\* (execute_sql's update_job against complete_task's).
InlineResultSticks ==
    /\ \A j \in SqlJobs : sub[j].pc \in {"count", "record"} =>
           jobs[j] = "Succeeded" \/ \E t \in TasksOf(j) : rep[t].pc = "done"
    /\ \A j \in ShowJobs : sub[j].pc = "record" => jobs[j] = "Succeeded"

\* Every task that enters the queue gets an outcome, when nothing fails.
QueuedTaskSettles ==
    \A t \in Tasks : Queued(t) ~> tasks[t].status \in Outcomes

-----------------------------------------------------------------------------
\* The submission of j has been answered and so have all its reports.
Settled(j) ==
    /\ sub[j].pc = "returned"
    /\ \A t \in TasksOf(j) : rep[t].pc = "done"

\* The assertion of the test complete_task_marks_job_succeeded: when the
\* reports of all the tasks of a job have been handled, the job's status is
\* what the tasks say.
JobReflectsTasks ==
    \A j \in ClusterJobs : Settled(j) => jobs[j] = JobVerdict(j)

\* complete_task can miss its job, and panic, only as long as the submission
\* that queued the task has not got to insert_job: the job is in the table
\* from then on, whatever submissions, reports, inline results and restarts
\* write it from their own copies.
PanicsOnlyMidSubmit ==
    \A t \in Tasks :
        rep[t].pc = "tallied" /\ jobs[JobOf(t)] = "Absent" =>
            sub[JobOf(t)].pc \in {"insert", "push", "job"}

\* job(&job_id).unwrap() in complete_task: the job of a task that is being
\* reported is in the table.
ReportFindsJob == \A t \in Tasks : rep[t].pc # "panicked"
=============================================================================
