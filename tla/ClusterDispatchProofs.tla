----------------------- MODULE ClusterDispatchProofs -----------------------
(***************************************************************************)
(* The first two layers of the inductive invariant of Cluster, for every   *)
(* set of jobs and workers, every number of partitions and threads, and    *)
(* every bound on faults and restarts: Shape, and where each task is and   *)
(* what its status is there.                                               *)
(***************************************************************************)
EXTENDS ClusterInv, TLAPS

-----------------------------------------------------------------------------
(* The constants. *)

\* plan_partitions never returns an empty list, and SHOW has no partition.
LEMMA PartsType ==
    ASSUME NEW j \in Jobs
    PROVE  /\ Parts(j) \in Nat
           /\ j \in PlannedJobs => Parts(j) \in Nat \ {0}
<1>1. CASE j \in ShowJobs
  BY <1>1, JobsAssumption DEF Parts, PlannedJobs
<1>2. CASE j \notin ShowJobs
  <2>1. j \in PlannedJobs
    BY <1>2 DEF Jobs
  <2>2. PICK p \in Nat : Parts(j) = PartitionCount(Scans[j], p)
    BY <1>2, <2>1, JobsAssumption DEF Parts, PlannedJobs
  <2>3. Scans[j] \in Nat
    BY <2>1, JobsAssumption
  <2>4. \A a, b \in Nat : a * b \in Nat
    OBVIOUS
  <2>5. PartitionCount(Scans[j], p) \in Nat \ {0}
    BY <2>2, <2>3, <2>4 DEF PartitionCount
  <2> QED BY <2>2, <2>5
<1> QED BY <1>1, <1>2

\* A task belongs to one planned job and is one of that job's partitions.
LEMMA TaskFacts ==
    ASSUME NEW t \in Tasks
    PROVE  /\ JobOf(t) \in Jobs
           /\ JobOf(t) \in PlannedJobs
           /\ t \in TasksOf(JobOf(t))
           /\ t[2] \in 1..Parts(JobOf(t))
           /\ t = <<JobOf(t), t[2]>>
<1>1. PICK j \in Jobs : t \in TasksOf(j)
  BY DEF Tasks
<1>2. PICK k \in 1..Parts(j) : t = <<j, k>>
  BY <1>1 DEF TasksOf
<1>3. JobOf(t) = j /\ t[2] = k
  BY <1>2 DEF JobOf
<1>4. j \in PlannedJobs
  <2>1. CASE j \in ShowJobs
    <3>1. Parts(j) = 0
      BY <2>1 DEF Parts
    <3> QED BY <3>1, <1>2
  <2> QED BY <2>1 DEF Jobs
<1> QED BY <1>1, <1>2, <1>3, <1>4

\* Every partition of a job is a task of that job.
LEMMA TaskIntro ==
    ASSUME NEW j \in Jobs, NEW k \in 1..Parts(j)
    PROVE  <<j, k>> \in Tasks /\ <<j, k>> \in TasksOf(j)
                              /\ JobOf(<<j, k>>) = j
BY DEF Tasks, TasksOf, JobOf

\* The tasks of a job are tasks, and belong to that job.
LEMMA TasksOfSubset ==
    ASSUME NEW j \in Jobs, NEW t \in TasksOf(j)
    PROVE  t \in Tasks /\ JobOf(t) = j
BY DEF Tasks, TasksOf, JobOf

\* An empty stage is a stage of its job, and a stage of a job is a stage.
LEMMA StageTypes ==
    /\ \A j \in Jobs : AbsentStage(j) \in StageRecord(j)
    /\ \A j \in Jobs : StageRecord(j) \subseteq Stages
<1>1. \A j \in Jobs : AbsentStage(j) \in StageRecord(j)
  BY DEF AbsentStage, StageRecord, StageStatus, TaskStatus
<1>2. \A j \in Jobs : StageRecord(j) \subseteq Stages
  BY DEF Stages
<1> QED BY <1>1, <1>2

-----------------------------------------------------------------------------
(* Shape. *)

\* Replacing one report by a well-typed one keeps the type of reports.
LEMMA RepUpdate ==
    ASSUME RepOK, NEW t \in Tasks, NEW r \in RepRecord,
           r.stage \in StageRecord(JobOf(t)),
           rep' = [rep EXCEPT ![t] = r]
    PROVE  RepOK'
BY DEF RepOK

\* So does moving the program counter of one report.
LEMMA RepUpdatePC ==
    ASSUME RepOK, NEW t \in Tasks, NEW p \in RepPCs,
           rep' = [rep EXCEPT ![t].pc = p]
    PROVE  RepOK'
<1>1. rep[t] \in RepRecord /\ rep[t].stage \in StageRecord(JobOf(t))
  BY DEF RepOK
<1> DEFINE r == [rep[t] EXCEPT !.pc = p]
<1>2. r \in RepRecord /\ r.stage = rep[t].stage
  BY <1>1 DEF RepRecord
<1>3. rep' = [rep EXCEPT ![t] = r]
  OBVIOUS
<1> QED BY <1>1, <1>2, <1>3, RepUpdate

\* pop_front on a queue of tasks yields a task and a queue of tasks.
LEMMA QueueHead ==
    ASSUME NEW S, NEW s \in Seq(S), s # <<>>
    PROVE  Head(s) \in S /\ Tail(s) \in Seq(S)
OBVIOUS

\* A new master and new workers have the right shape.
LEMMA ShapeInit == Init => Shape
<1> SUFFICES ASSUME Init PROVE Shape
  OBVIOUS
<1> USE DEF Init
<1>1. jobs \in [Jobs -> JobStatus]
  BY DEF JobStatus
<1>2. stages \in [Jobs -> Stages] /\ \A j \in Jobs : stages[j] \in StageRecord(j)
  BY StageTypes
<1>3. tasks \in [Tasks -> [status : TaskStatus, worker : Workers \cup {NoWorker}]]
  BY DEF AbsentTask, TaskStatus
<1>4. sub \in [Jobs -> [pc : SubPCs, k : Nat]]
  BY DEF IdleSub, SubPCs
<1>5. poll \in [Workers -> [pc : PollPCs, task : Tasks \cup {NoTask},
                            stage : Stages \cup {NoStage}]]
  BY DEF IdlePoll, PollPCs
<1>6. \A w \in Workers : poll[w].pc = "none" /\ poll[w].task = NoTask
  BY DEF IdlePoll
<1>7. /\ rep \in [Tasks -> RepRecord]
      /\ \A t \in Tasks : rep[t].stage \in StageRecord(JobOf(t))
  <2>1. \A t \in Tasks : AbsentStage(JobOf(t)) \in StageRecord(JobOf(t))
                      /\ AbsentStage(JobOf(t)) \in Stages
    BY StageTypes, TaskFacts
  <2> QED BY <2>1 DEF IdleRep, RepRecord, RepPCs, Outcomes, JobStatus
<1>8. wk \in [Workers -> [pc : WkPCs, task : Tasks \cup {NoTask}]]
  BY DEF WkPCs
<1>9. TypeOK
  BY <1>1, <1>2, <1>3, <1>4, <1>5, <1>6, <1>7, <1>8, BoundsAssumption
  DEF TypeOK, JobsOK, StagesOK, TasksOK, QueueOK, CountersOK, SubOK, PollOK,
      RepOK, WkOK, BoundsOK
<1>10. SubShape
  BY DEF SubShape, IdleSub
<1>11. HoldShape
  BY <1>6, NoneAssumption DEF HoldShape, PollBusy
<1> QED BY <1>9, <1>10, <1>11 DEF Shape

\* Steps of the submission handlers that insert no task.
LEMMA Shape_Sub ==
    ASSUME Shape, NEW j \in Jobs,
           \/ RequestArrives(j)
           \/ SubmitInsertJob(j) \/ SubmitRunJob(j) \/ SubmitRespond(j)
           \/ SqlStep(j) \/ ShowStep(j)
    PROVE  Shape'
<1> USE DEF RequestArrives, SubmitRejected, SubmitBegin, ShowBegin,
        SubmitInsertJob, SubmitRunJob, SubmitRespond,
        SqlStep, SqlIncRound, SqlPlan, SqlExecute, SqlCountRound, RecordRound,
        ShowStep, ShowIncRound, ShowRendered, ShowRenderError
<1>1. UNCHANGED <<tasks, pending, registered, poll, rep, wk, bounds>>
  BY DEF tables
<1>2. PICK p \in SubPCs :
        /\ sub' = [sub EXCEPT ![j].pc = p]
        /\ p = "rejected" => sub[j].pc = "idle"
        /\ p = "insert" => j \in PlannedJobs /\ sub[j].pc = "idle"
        /\ p \in {"run", "readback"} => sub[j].pc \in {"job", "run"}
        /\ p \notin {"idle", "push", "job"}
  BY DEF SubPCs, SubBusy, SubOver
<1>3. SubOK'
  BY <1>2 DEF Shape, TypeOK, SubOK
<1>4. SubShape'
  <2>1. j \in PlannedJobs => Parts(j) \in Nat \ {0}
    BY PartsType
  <2> QED BY <1>2, <2>1 DEF Shape, TypeOK, SubOK, SubShape
<1>5. JobsOK'
  <2>1. jobs' = jobs \/ \E s \in JobStatus : jobs' = [jobs EXCEPT ![j] = s]
    BY DEF tables, JobStatus, Outcomes
  <2> QED BY <2>1 DEF Shape, TypeOK, JobsOK
<1>6. StagesOK'
  <2> DEFINE st == [status |-> "Pending",
                    slots |-> [t \in TasksOf(j) |-> "Pending"]]
  <2>1. stages' = stages \/ stages' = [stages EXCEPT ![j] = st]
    BY DEF tables
  <2>2. st \in StageRecord(j)
    BY DEF StageRecord, StageStatus, TaskStatus
  <2> QED BY <2>1, <2>2, StageTypes DEF Shape, TypeOK, StagesOK
<1>7. CountersOK'
  <2>1. /\ totalRuns' = totalRuns
        /\ runningRound' \in {runningRound, runningRound + 1}
        /\ completedRounds' \in {completedRounds, completedRounds + 1}
    BY DEF counters
  <2> QED BY <2>1 DEF Shape, TypeOK, CountersOK
<1>8. TypeOK'
  BY <1>1, <1>3, <1>5, <1>6, <1>7
  DEF Shape, TypeOK, TasksOK, QueueOK, PollOK, RepOK, WkOK, BoundsOK, bounds
<1>9. HoldShape'
  BY <1>1 DEF Shape, HoldShape
<1> QED BY <1>4, <1>8, <1>9 DEF Shape

\* insert_task's write to the task table is of the loop's partition.
LEMMA Shape_SubmitInsertTask ==
    ASSUME Shape, NEW j \in Jobs, SubmitInsertTask(j)
    PROVE  Shape'
<1> USE DEF Shape, TypeOK, SubmitInsertTask, counters, bounds
<1>1. TasksOK'
  BY TaskIntro DEF TasksOK, TaskStatus, SubShape
<1>2. SubOK'
  BY DEF SubOK, SubPCs, SubBusy
<1>3. TypeOK'
  BY <1>1, <1>2
  DEF JobsOK, StagesOK, QueueOK, CountersOK, PollOK, RepOK, WkOK, BoundsOK
<1>4. SubShape'
  BY DEF SubShape, SubOK
<1>5. HoldShape'
  BY DEF HoldShape
<1> QED BY <1>3, <1>4, <1>5

\* The task loop of submit_job ends at the last partition.
LEMMA Shape_SubmitPushPending ==
    ASSUME Shape, NEW j \in Jobs, SubmitPushPending(j)
    PROVE  Shape'
<1> USE DEF Shape, TypeOK, SubmitPushPending, counters, bounds
<1>1. QueueOK'
  BY TaskIntro DEF QueueOK, SubShape
<1>2. SubOK'
  <2>1. sub[j].k \in Nat /\ sub[j].k + 1 \in Nat
    BY DEF SubOK
  <2> QED BY <2>1 DEF SubOK, SubPCs, SubBusy
<1>3. TypeOK'
  BY <1>1, <1>2
  DEF JobsOK, StagesOK, TasksOK, CountersOK, PollOK, RepOK, WkOK, BoundsOK
<1>4. SubShape'
  BY DEF SubShape, SubOK
<1>5. HoldShape'
  BY DEF HoldShape
<1> QED BY <1>3, <1>4, <1>5

\* A poll that pops has a task in hand, one that finds nothing has none.
LEMMA Shape_PollPop ==
    ASSUME Shape, NEW w \in Workers, PollPop(w)
    PROVE  Shape'
<1> USE DEF Shape, TypeOK, PollPop, counters, bounds
<1>1. pending # <<>> =>
          Head(pending) \in Tasks /\ Tail(pending) \in Seq(Tasks)
  BY QueueHead DEF QueueOK
<1>2. QueueOK'
  BY <1>1 DEF QueueOK
<1>3. PollOK'
  BY <1>1 DEF PollOK, PollPCs, PollBusy
<1>4. TypeOK'
  BY <1>2, <1>3
  DEF JobsOK, StagesOK, TasksOK, CountersOK, SubOK, RepOK, WkOK, BoundsOK
<1>5. SubShape'
  BY DEF SubShape
<1>6. HoldShape'
  BY <1>1, NoneAssumption DEF HoldShape, PollOK, PollBusy
<1> QED BY <1>4, <1>5, <1>6

\* The reads of try_assign_task yield a task and the stage of its job.
LEMMA Shape_PollRead ==
    ASSUME Shape, NEW w \in Workers, PollRead(w) \/ PollStageRead(w)
    PROVE  Shape'
<1> USE DEF Shape, TypeOK, PollRead, PollStageRead, tables, counters, bounds
<1>1. PollOK'
  BY TaskFacts DEF PollOK, PollPCs, PollBusy, StagesOK, HoldShape
<1>2. TypeOK'
  BY <1>1 DEF JobsOK, StagesOK, TasksOK, QueueOK, CountersOK, SubOK, RepOK,
              WkOK, BoundsOK
<1>3. SubShape'
  BY DEF SubShape
<1>4. HoldShape'
  BY NoneAssumption DEF HoldShape, PollOK, PollBusy
<1> QED BY <1>2, <1>3, <1>4

\* try_assign_task assigns the task it has popped.
LEMMA Shape_PollAssign ==
    ASSUME Shape, NEW w \in Workers, PollAssign(w)
    PROVE  Shape'
<1> USE DEF Shape, TypeOK, PollAssign, counters, bounds
<1>1. TasksOK'
  BY DEF TasksOK, TaskStatus, HoldShape, PollBusy
<1>2. PollOK'
  BY DEF PollOK, PollPCs, PollBusy
<1>3. TypeOK'
  BY <1>1, <1>2 DEF JobsOK, StagesOK, QueueOK, CountersOK, SubOK, RepOK, WkOK,
                    BoundsOK
<1>4. SubShape'
  BY DEF SubShape
<1>5. HoldShape'
  BY DEF HoldShape, PollOK, PollBusy
<1> QED BY <1>3, <1>4, <1>5

\* try_assign_task writes a stage back to the job it was read from.
LEMMA Shape_PollStageWrite ==
    ASSUME Shape, NEW w \in Workers, PollStageWrite(w)
    PROVE  Shape'
<1> USE DEF Shape, TypeOK, PollStageWrite, counters, bounds
<1> DEFINE u == poll[w].task
           st == [poll[w].stage EXCEPT !.slots = [@ EXCEPT ![u] = "Assigned"]]
<1>1. u \in Tasks /\ JobOf(u) \in Jobs /\ poll[w].stage \in StageRecord(JobOf(u))
  BY TaskFacts DEF PollOK, HoldShape, PollBusy
<1>2. st \in StageRecord(JobOf(u))
  BY <1>1 DEF StageRecord, TaskStatus
<1>3. stages' = [stages EXCEPT ![JobOf(u)] = st]
  OBVIOUS
<1>4. StagesOK'
  BY <1>1, <1>2, <1>3, StageTypes DEF StagesOK
<1>5. PollOK'
  BY ZenonT(30) DEF PollOK, PollPCs
<1>6. TypeOK'
  BY <1>4, <1>5 DEF JobsOK, TasksOK, QueueOK, CountersOK, SubOK, RepOK, WkOK,
                    BoundsOK
<1>7. SubShape'
  BY DEF SubShape
<1>8. HoldShape'
  BY DEF HoldShape, PollOK, PollBusy
<1> QED BY <1>6, <1>7, <1>8

\* Steps of workers and faults that touch no table.
LEMMA Shape_Worker ==
    ASSUME Shape, NEW w \in Workers,
           \/ WorkerRegister(w) \/ WorkerPoll(w) \/ PollRespond(w)
           \/ ReportAck(w) \/ RegisterReplyLost(w) \/ WorkerCrash(w)
           \/ PollRequestLost(w) \/ PollReplyLost(w) \/ PollTimeout(w)
           \/ ReportTimeout(w)
    PROVE  Shape'
<1> USE DEF WorkerRegister, WorkerPoll, PollRespond, ReportAck,
        RegisterReplyLost, WorkerCrash, PollRequestLost, PollReplyLost,
        PollTimeout, ReportTimeout
<1>1. UNCHANGED <<jobs, stages, tasks, pending, counters, sub, rep>>
  BY DEF tables
<1>2. registered' \subseteq Workers
  BY DEF Shape, TypeOK
<1>3. PollOK'
  BY DEF Shape, TypeOK, PollOK, PollPCs, IdlePoll
<1>4. WkOK'
  BY DEF Shape, TypeOK, WkOK, WkPCs, PollOK
<1>5. BoundsOK'
  BY BoundsAssumption DEF Shape, TypeOK, BoundsOK, Fault, bounds
<1>6. TypeOK'
  BY <1>1, <1>2, <1>3, <1>4, <1>5
  DEF Shape, TypeOK, JobsOK, StagesOK, TasksOK, QueueOK, CountersOK, SubOK,
      RepOK, counters
<1>7. SubShape'
  BY <1>1 DEF Shape, SubShape
<1>8. HoldShape'
  BY NoneAssumption
  DEF Shape, TypeOK, HoldShape, PollOK, WkOK, PollBusy, IdlePoll
<1> QED BY <1>6, <1>7, <1>8 DEF Shape

\* A worker reports the task it has been executing.
LEMMA Shape_WorkerReport ==
    ASSUME Shape, NEW w \in Workers, NEW outcome \in Outcomes,
           WorkerReport(w, outcome)
    PROVE  Shape'
<1> USE DEF Shape, TypeOK, WorkerReport, tables, counters, bounds
<1> DEFINE u == wk[w].task
           r == [rep[u] EXCEPT !.pc = "sent", !.outcome = outcome]
<1>1. u \in Tasks /\ rep[u] \in RepRecord /\ rep[u].stage \in StageRecord(JobOf(u))
  BY DEF HoldShape, RepOK
<1>2. r \in RepRecord /\ r.stage = rep[u].stage /\ rep' = [rep EXCEPT ![u] = r]
  BY <1>1 DEF RepRecord, RepPCs
<1>3. RepOK'
  BY <1>1, <1>2, RepUpdate
<1>4. WkOK'
  BY DEF WkOK, WkPCs
<1>5. TypeOK'
  BY <1>3, <1>4 DEF JobsOK, StagesOK, TasksOK, QueueOK, CountersOK, SubOK,
                    PollOK, BoundsOK
<1>6. SubShape'
  BY DEF SubShape
<1>7. HoldShape'
  BY DEF HoldShape, WkOK
<1> QED BY <1>5, <1>6, <1>7

\* What a report's handler leaves alone, for the lemmas that follow.
LEMMA Shape_RepFrame ==
    ASSUME Shape, JobsOK', StagesOK', TasksOK', QueueOK', CountersOK', RepOK',
           BoundsOK', UNCHANGED <<registered, sub, poll, wk>>
    PROVE  Shape'
<1>1. TypeOK'
  BY DEF Shape, TypeOK, SubOK, PollOK, WkOK
<1>2. SubShape' /\ HoldShape'
  BY DEF Shape, SubShape, HoldShape
<1> QED BY <1>1, <1>2 DEF Shape

\* Steps of a report that change only its program counter and one table.
LEMMA Shape_RepPC ==
    ASSUME Shape, QueueInv, NEW t \in Tasks,
           \/ RepCheck(t) \/ RepWrite(t) \/ RepRetain(t) \/ RepCount(t)
           \/ RepJobWrite(t) \/ ReportLost(t)
    PROVE  Shape'
<1> USE DEF RepCheck, RepWrite, RepRetain, RepCount, RepJobWrite, ReportLost
<1>1. UNCHANGED <<registered, sub, poll, wk, stages>>
  BY DEF tables
<1>2. rep[t] \in RepRecord
  BY DEF Shape, TypeOK, RepOK
<1>3. RepOK'
  <2>1. PICK p \in RepPCs : rep' = [rep EXCEPT ![t].pc = p]
    BY <1>2 DEF RepPCs, RepBusy, RepOver, RepRecord
  <2> QED BY <2>1, RepUpdatePC DEF Shape, TypeOK
<1>4. JobsOK'
  <2>1. \/ jobs' = jobs
        \/ \E s \in JobStatus : jobs' = [jobs EXCEPT ![JobOf(t)] = s]
    BY <1>2 DEF tables, RepRecord, JobStatus, Outcomes
  <2> QED BY <2>1, TaskFacts DEF Shape, TypeOK, JobsOK
<1>5. TasksOK'
  <2>1. \/ tasks' = tasks
        \/ \E o \in Outcomes, v \in Workers \cup {NoWorker} :
               tasks' = [tasks EXCEPT ![t] = [status |-> o, worker |-> v]]
    BY <1>2 DEF tables, RepRecord
  <2> QED BY <2>1 DEF Shape, TypeOK, TasksOK, TaskStatus, Outcomes
<1>6. QueueOK'
  <2>1. rep[t].pc # "none" => \A i \in DOMAIN pending : pending[i] # t
    BY DEF QueueInv
  <2>2. pending' = pending
    BY <2>1 DEF tables
  <2> QED BY <2>2 DEF Shape, TypeOK, QueueOK
<1>7. CountersOK'
  BY DEF Shape, TypeOK, CountersOK, counters
<1>8. BoundsOK'
  BY BoundsAssumption DEF Shape, TypeOK, BoundsOK, bounds, Fault
<1>9. StagesOK'
  BY <1>1 DEF Shape, TypeOK, StagesOK
<1> QED BY <1>1, <1>3, <1>4, <1>5, <1>6, <1>7, <1>8, <1>9, Shape_RepFrame

\* Steps of a report that read a table into the handler's variables.
LEMMA Shape_RepRead ==
    ASSUME Shape, NEW t \in Tasks,
           RepStart(t) \/ RepStageRead(t) \/ RepTally(t) \/ RepJobRead(t)
    PROVE  Shape'
<1> USE DEF Shape, TypeOK, RepStart, RepStageRead, RepTally, RepJobRead
<1>1. UNCHANGED <<jobs, stages, tasks, pending, counters, registered, sub,
                  poll, wk, bounds>>
  BY DEF tables
<1>2. rep[t] \in RepRecord /\ rep[t].stage \in StageRecord(JobOf(t))
  BY DEF RepOK
<1>3. /\ tasks[t].worker \in Workers \cup {NoWorker}
      /\ stages[JobOf(t)] \in StageRecord(JobOf(t))
      /\ stages[JobOf(t)] \in Stages
      /\ jobs[JobOf(t)] \in JobStatus
      /\ JobVerdict(JobOf(t)) \in {"none"} \cup Outcomes
  BY TaskFacts DEF TasksOK, StagesOK, JobsOK, JobVerdict, Outcomes
<1>4. PICK r \in RepRecord : /\ rep' = [rep EXCEPT ![t] = r]
                             /\ r.stage \in StageRecord(JobOf(t))
  <2>1. CASE RepStart(t)
    <3> DEFINE p == IF tasks[t].status = "Absent" THEN "notFound" ELSE "read"
               r == [rep[t] EXCEPT !.pc = p, !.worker = tasks[t].worker]
    <3>1. r \in RepRecord /\ r.stage = rep[t].stage
      BY <1>2, <1>3 DEF RepRecord, RepPCs, RepBusy, RepOver
    <3>2. rep' = [rep EXCEPT ![t] = r]
      BY <2>1
    <3> QED BY <1>2, <3>1, <3>2
  <2>2. CASE RepStageRead(t)
    <3> DEFINE r == [rep[t] EXCEPT !.pc = "stageRead", !.stage = stages[JobOf(t)]]
    <3>1. r \in RepRecord /\ r.stage = stages[JobOf(t)]
      BY <1>2, <1>3 DEF RepRecord, RepPCs, RepBusy
    <3>2. rep' = [rep EXCEPT ![t] = r]
      BY <2>2
    <3> QED BY <1>3, <3>1, <3>2
  <2>3. CASE RepTally(t)
    <3> DEFINE r == [rep[t] EXCEPT !.pc = "tallied",
                                   !.verdict = JobVerdict(JobOf(t))]
    <3>1. r \in RepRecord /\ r.stage = rep[t].stage
      BY <1>2, <1>3 DEF RepRecord, RepPCs, RepBusy
    <3>2. rep' = [rep EXCEPT ![t] = r]
      BY <2>3
    <3> QED BY <1>2, <3>1, <3>2
  <2>4. CASE RepJobRead(t)
    <3> DEFINE r == [rep[t] EXCEPT !.pc = "jobRead", !.job = jobs[JobOf(t)]]
               q == [rep[t] EXCEPT !.pc = "panicked"]
    <3>1. /\ r \in RepRecord /\ r.stage = rep[t].stage
          /\ q \in RepRecord /\ q.stage = rep[t].stage
      BY <1>2, <1>3 DEF RepRecord, RepPCs, RepBusy, RepOver
    <3>2. rep' = [rep EXCEPT ![t] = r] \/ rep' = [rep EXCEPT ![t] = q]
      BY <2>4
    <3> QED BY <1>2, <3>1, <3>2
  <2> QED BY <2>1, <2>2, <2>3, <2>4
<1>5. RepOK'
  BY <1>4, RepUpdate
<1>6. JobsOK' /\ StagesOK' /\ TasksOK' /\ QueueOK' /\ CountersOK' /\ BoundsOK'
  BY <1>1 DEF JobsOK, StagesOK, TasksOK, QueueOK, CountersOK, BoundsOK,
              counters, bounds
<1> QED BY <1>1, <1>5, <1>6, Shape_RepFrame

\* complete_task writes a stage back to the job it was read from.
LEMMA Shape_RepStageWrite ==
    ASSUME Shape, NEW t \in Tasks, RepStageWrite(t)
    PROVE  Shape'
<1> USE DEF Shape, TypeOK, RepStageWrite
<1> DEFINE slots == [rep[t].stage.slots EXCEPT ![t] = rep[t].outcome]
           st == [status |-> StageVerdict(slots), slots |-> slots]
           r == [rep[t] EXCEPT !.pc = "stageWritten",
                               !.stage = AbsentStage(JobOf(t))]
<1>1. JobOf(t) \in Jobs /\ t \in TasksOf(JobOf(t))
  BY TaskFacts
<1>2. StagesOK'
  <2>1. /\ rep[t].stage.slots \in [TasksOf(JobOf(t)) -> TaskStatus]
        /\ rep[t].outcome \in TaskStatus
    BY DEF RepOK, RepRecord, StageRecord, Outcomes, TaskStatus
  <2>2. slots \in [TasksOf(JobOf(t)) -> TaskStatus]
    BY <1>1, <2>1
  <2>3. StageVerdict(slots) \in StageStatus
    BY DEF StageVerdict, StageStatus
  <2>4. st \in StageRecord(JobOf(t))
    BY <2>2, <2>3 DEF StageRecord
  <2>5. stages' = [stages EXCEPT ![JobOf(t)] = st]
    OBVIOUS
  <2> QED BY <1>1, <2>4, <2>5, StageTypes DEF StagesOK
<1>3. RepOK'
  <2>1. rep[t] \in RepRecord
    BY DEF RepOK
  <2>2. r \in RepRecord /\ r.stage \in StageRecord(JobOf(t))
    BY <1>1, <2>1, StageTypes DEF RepRecord, RepPCs, RepBusy
  <2>3. rep' = [rep EXCEPT ![t] = r]
    OBVIOUS
  <2> QED BY <2>2, <2>3, RepUpdate
<1>4. JobsOK' /\ TasksOK' /\ QueueOK' /\ CountersOK' /\ BoundsOK'
  BY DEF JobsOK, TasksOK, QueueOK, CountersOK, BoundsOK, counters, bounds
<1> QED BY <1>2, <1>3, <1>4, Shape_RepFrame

\* A restart of the master leaves the workers well-formed.
LEMMA Shape_MasterRestart ==
    ASSUME Shape, MasterRestart
    PROVE  Shape'
<1> USE DEF Shape, TypeOK, MasterRestart
<1>1. JobsOK' /\ TasksOK' /\ QueueOK' /\ CountersOK'
  BY DEF JobsOK, TasksOK, QueueOK, CountersOK, JobStatus, AbsentTask, TaskStatus
<1>2. StagesOK'
  BY StageTypes DEF StagesOK
<1>3. SubOK'
  BY DEF SubOK, SubPCs, SubOver
<1>4. PollOK'
  BY DEF PollOK, IdlePoll, PollPCs
<1>5. RepOK'
  <2> DEFINE r(t) == [IdleRep(t) EXCEPT !.pc = "lost"]
  <2>1. \A t \in Tasks : r(t) \in RepRecord /\ r(t).stage \in StageRecord(JobOf(t))
    BY TaskFacts, StageTypes
    DEF IdleRep, RepRecord, RepPCs, RepOver, Outcomes, JobStatus
  <2>2. \A t \in Tasks : rep'[t] = rep[t] \/ rep'[t] = r(t)
    OBVIOUS
  <2>3. rep' = [t \in Tasks |-> rep'[t]]
    OBVIOUS
  <2> QED BY <2>1, <2>2, <2>3 DEF RepOK
<1>6. WkOK'
  BY DEF WkOK, WkPCs
<1>7. BoundsOK'
  BY BoundsAssumption DEF BoundsOK
<1>8. TypeOK'
  BY <1>1, <1>2, <1>3, <1>4, <1>5, <1>6, <1>7
<1>9. SubShape'
  BY DEF SubShape, SubOK
<1>10. HoldShape'
  BY NoneAssumption DEF HoldShape, WkOK, PollBusy, IdlePoll
<1> QED BY <1>8, <1>9, <1>10

-----------------------------------------------------------------------------
(***************************************************************************)
(* The second layer.  Most steps only move a program counter, or let go of *)
(* a task; three frame lemmas cover them.                                  *)
(***************************************************************************)

\* Steps of submission handlers that insert nothing leave every task where it
\* is.
LEMMA DispatchFrame ==
    ASSUME DispatchInv, UNCHANGED <<tasks, pending, poll, rep>>,
           \A w \in Workers :
               /\ wk'[w].task = wk[w].task
               /\ wk'[w].task \in Tasks => wk'[w].pc = wk[w].pc,
           \A t \in Tasks : /\ Inserted(t)' <=> Inserted(t)
                            /\ Pushed(t)' <=> Pushed(t)
                            /\ Known(t)' <=> Known(t),
           pending \in Seq(Tasks)
    PROVE  DispatchInv'
<1> USE DEF DispatchInv
<1>1. TaskInv'
  BY DEF TaskInv
<1>2. QueueInv'
  <2>1. \A i \in DOMAIN pending : pending[i] \in Tasks
    OBVIOUS
  <2> QED BY <2>1 DEF QueueInv, Holds
<1>3. PollInv'
  BY DEF PollInv
<1>4. WorkInv'
  BY DEF WorkInv
<1>5. HolderInv'
  BY DEF HolderInv, Holds
<1>6. RepInv'
  BY DEF RepInv
<1> QED BY <1>1, <1>2, <1>3, <1>4, <1>5, <1>6

\* Polls and workers that go on with the task they have, or let go of it.
LEMMA DispatchRelease ==
    ASSUME Shape, DispatchInv, UNCHANGED <<tasks, pending, rep, sub>>,
           \A w \in Workers :
               \/ poll'[w].task = NoTask
               \/ /\ poll'[w].task = poll[w].task
                  /\ poll'[w].pc \in {"popped", "read"} =>
                         poll[w].pc \in {"popped", "read"}
                  /\ poll'[w].pc \in {"assigned", "stageRead", "reply"} =>
                         poll[w].pc \in {"assigned", "stageRead", "reply"},
           \A w \in Workers :
               \/ wk'[w].task = NoTask
               \/ wk'[w].task = wk[w].task /\ wk'[w].pc = wk[w].pc
    PROVE  DispatchInv'
<1> USE DEF DispatchInv
<1>1. TaskInv'
  BY DEF TaskInv, Inserted, Pushed
<1>2. QueueInv'
  <2>1. \A i \in DOMAIN pending : pending[i] \in Tasks /\ pending[i] # NoTask
    BY NoneAssumption DEF Shape, TypeOK, QueueOK
  <2> QED BY <2>1 DEF QueueInv, Holds, Pushed
<1>3. PollInv'
  BY NoneAssumption DEF PollInv, Pushed
<1>4. WorkInv'
  BY NoneAssumption DEF WorkInv, Known, Pushed
<1>5. HolderInv'
  BY NoneAssumption DEF HolderInv, Holds
<1>6. RepInv'
  BY DEF RepInv, Known, Pushed
<1> QED BY <1>1, <1>2, <1>3, <1>4, <1>5, <1>6

\* A report that moves on without writing its task.
LEMMA DispatchReport ==
    ASSUME DispatchInv, UNCHANGED <<tasks, pending, poll, wk, sub>>,
           NEW t \in Tasks, rep[t].pc # "none",
           rep'[t].pc \notin {"none", "wasTerminal"},
           rep'[t].outcome = rep[t].outcome,
           \A u \in Tasks : u # t => rep'[u] = rep[u],
           rep'[t].pc \in {"sent", "lost", "notFound"} =>
               tasks[t].status \in {"Assigned", "Absent"},
           rep'[t].pc \in {"read", "checked"} => tasks[t].status = "Assigned",
           rep'[t].pc \in Reported => rep[t].pc \in Reported,
           pending \in Seq(Tasks)
    PROVE  DispatchInv'
<1> USE DEF DispatchInv
<1>1. TaskInv'
  BY DEF TaskInv, Inserted, Pushed
<1>2. QueueInv'
  <2>1. \A i \in DOMAIN pending : pending[i] \in Tasks
    OBVIOUS
  <2> QED BY <2>1 DEF QueueInv, Holds, Pushed
<1>3. PollInv'
  BY DEF PollInv, Pushed
<1>4. WorkInv'
  BY DEF WorkInv, Known, Pushed
<1>5. HolderInv'
  BY DEF HolderInv, Holds
<1>6. RepInv'
  BY DEF RepInv, Known, Pushed
<1> QED BY <1>1, <1>2, <1>3, <1>4, <1>5, <1>6

\* Steps of the submission handlers that insert no task.
LEMMA Dispatch_Sub ==
    ASSUME Shape, DispatchInv, NEW j \in Jobs,
           \/ RequestArrives(j)
           \/ SubmitInsertJob(j) \/ SubmitRunJob(j) \/ SubmitRespond(j)
           \/ SqlStep(j) \/ ShowStep(j)
    PROVE  DispatchInv'
<1> USE DEF RequestArrives, SubmitRejected, SubmitBegin, ShowBegin,
        SubmitInsertJob, SubmitRunJob, SubmitRespond,
        SqlStep, SqlIncRound, SqlPlan, SqlExecute, SqlCountRound, RecordRound,
        ShowStep, ShowIncRound, ShowRendered, ShowRenderError
<1>1. UNCHANGED <<tasks, pending, poll, rep, wk>>
  BY DEF tables
<1>2. PICK p \in SubPCs :
        /\ sub' = [sub EXCEPT ![j].pc = p]
        /\ \/ sub[j].pc = "idle" /\ p = "rejected"
           \/ sub[j].pc = "idle" /\ p = "insert" /\ j \in PlannedJobs
           \/ sub[j].pc = "idle" /\ p = "round" /\ j \in ShowJobs
           \/ /\ sub[j].pc \notin {"idle", "insert", "push", "rejected", "lost"}
              /\ p \notin {"idle", "insert", "push", "rejected", "lost"}
  BY DEF SubPCs, SubBusy, SubOver
<1>3. sub[j] \in [pc : SubPCs, k : Nat] /\ sub \in [Jobs -> [pc : SubPCs, k : Nat]]
  BY DEF Shape, TypeOK, SubOK
<1>4. \A t \in Tasks : JobOf(t) \in PlannedJobs /\ t[2] \in Nat /\ t[2] > 0
  BY TaskFacts, PartsType
<1>5. sub[j].pc = "idle" => sub[j].k = 1
  BY DEF Shape, SubShape
<1>6. j \in ShowJobs => j \notin PlannedJobs
  BY JobsAssumption DEF PlannedJobs
<1>7. \A t \in Tasks : /\ Inserted(t)' <=> Inserted(t)
                       /\ Pushed(t)' <=> Pushed(t)
                       /\ Known(t)' <=> Known(t)
  <2> SUFFICES ASSUME NEW t \in Tasks
               PROVE  /\ Inserted(t)' <=> Inserted(t)
                      /\ Pushed(t)' <=> Pushed(t)
                      /\ Known(t)' <=> Known(t)
    OBVIOUS
  <2>1. CASE JobOf(t) # j
    BY <1>2, <1>3, <1>4, <2>1, TaskFacts DEF Inserted, Pushed, Known
  <2>2. CASE JobOf(t) = j
    BY <1>2, <1>3, <1>4, <1>5, <1>6, <2>2 DEF Inserted, Pushed, Known
  <2> QED BY <2>1, <2>2
<1> QED BY <1>1, <1>7, DispatchFrame DEF Shape, TypeOK, QueueOK

\* Steps of polls and workers that take no task.
LEMMA Dispatch_Release ==
    ASSUME Shape, DispatchInv, NEW w \in Workers,
           \/ PollRead(w) \/ PollStageRead(w) \/ PollStageWrite(w)
           \/ WorkerRegister(w) \/ WorkerPoll(w) \/ ReportAck(w)
           \/ RegisterReplyLost(w) \/ WorkerCrash(w) \/ PollRequestLost(w)
           \/ PollReplyLost(w) \/ PollTimeout(w) \/ ReportTimeout(w)
    PROVE  DispatchInv'
<1> USE DEF PollRead, PollStageRead, PollStageWrite, WorkerRegister,
        WorkerPoll, ReportAck, RegisterReplyLost, WorkerCrash,
        PollRequestLost, PollReplyLost, PollTimeout, ReportTimeout
<1>1. UNCHANGED <<tasks, pending, rep, sub>>
  BY DEF tables
<1>2. \A v \in Workers :
          \/ poll'[v].task = NoTask
          \/ /\ poll'[v].task = poll[v].task
             /\ poll'[v].pc \in {"popped", "read"} =>
                    poll[v].pc \in {"popped", "read"}
             /\ poll'[v].pc \in {"assigned", "stageRead", "reply"} =>
                    poll[v].pc \in {"assigned", "stageRead", "reply"}
  BY DEF Shape, TypeOK, PollOK, HoldShape, IdlePoll
<1>3. \A v \in Workers :
          \/ wk'[v].task = NoTask
          \/ wk'[v].task = wk[v].task /\ wk'[v].pc = wk[v].pc
  BY DEF Shape, TypeOK, WkOK, HoldShape
<1> QED BY <1>1, <1>2, <1>3, DispatchRelease

\* Steps of a report that leave the task itself alone.
LEMMA Dispatch_Report ==
    ASSUME Shape, DispatchInv, NEW t \in Tasks,
           \/ RepStart(t) \/ RepCheck(t) \/ RepRetain(t) \/ RepCount(t)
           \/ RepStageRead(t) \/ RepStageWrite(t) \/ RepTally(t)
           \/ RepJobRead(t) \/ RepJobWrite(t) \/ ReportLost(t)
    PROVE  DispatchInv'
<1> USE DEF RepStart, RepCheck, RepRetain, RepCount, RepStageRead,
        RepStageWrite, RepTally, RepJobRead, RepJobWrite, ReportLost
<1>1. ~Queued(t) \/ rep[t].pc = "none"
  BY DEF DispatchInv, QueueInv, Queued
<1>2. UNCHANGED <<tasks, pending, poll, wk, sub>>
  BY <1>1 DEF tables, Queued
<1>3. /\ rep[t].pc # "none"
      /\ rep'[t].pc \notin {"none", "wasTerminal"}
      /\ rep'[t].outcome = rep[t].outcome
      /\ \A u \in Tasks : u # t => rep'[u] = rep[u]
      /\ rep'[t].pc \in {"sent", "lost", "notFound"} =>
             tasks[t].status \in {"Assigned", "Absent"}
      /\ rep'[t].pc \in {"read", "checked"} => tasks[t].status = "Assigned"
      /\ rep'[t].pc \in Reported => rep[t].pc \in Reported
  BY DEF Shape, TypeOK, RepOK, RepRecord, DispatchInv, RepInv, Reported, Outcomes
<1> QED BY <1>2, <1>3, DispatchReport DEF Shape, TypeOK, QueueOK

\* A task that has never been in the queue is in nobody's hands.
LEMMA UnknownIsFree ==
    ASSUME DispatchInv, NEW u \in Tasks, ~Known(u)
    PROVE  /\ \A w \in Workers : ~Holds(w, u)
           /\ rep[u].pc = "none"
           /\ \A i \in DOMAIN pending : pending[i] # u
<1>1. ~Pushed(u)
  BY DEF Known
<1>2. \A w \in Workers : poll[w].task # u
  BY <1>1 DEF DispatchInv, PollInv
<1>3. \A w \in Workers : wk[w].task # u
  BY DEF DispatchInv, WorkInv
<1>4. rep[u].pc = "none"
  BY DEF DispatchInv, RepInv
<1>5. \A i \in DOMAIN pending : pending[i] # u
  BY <1>1 DEF DispatchInv, QueueInv
<1> QED BY <1>2, <1>3, <1>4, <1>5 DEF Holds

\* insert_task, first lock: nobody can know the task before.
LEMMA Dispatch_SubmitInsertTask ==
    ASSUME Shape, DispatchInv, NEW j \in Jobs, SubmitInsertTask(j)
    PROVE  DispatchInv'
<1> DEFINE u == <<j, sub[j].k>>
<1>1. u \in Tasks /\ JobOf(u) = j /\ u[2] = sub[j].k
  BY TaskIntro DEF Shape, SubShape, SubmitInsertTask
<1>2. ~Known(u) /\ ~Inserted(u)
  BY <1>1 DEF Shape, TypeOK, SubOK, SubmitInsertTask, Known, Pushed, Inserted
<1>3. /\ \A w \in Workers : ~Holds(w, u)
      /\ rep[u].pc = "none"
      /\ \A i \in DOMAIN pending : pending[i] # u
  BY <1>1, <1>2, UnknownIsFree
<1>4. \A t \in Tasks : /\ Inserted(t)' <=> (Inserted(t) \/ t = u)
                       /\ Pushed(t)' <=> Pushed(t)
                       /\ Known(t)' <=> Known(t)
  <2> SUFFICES ASSUME NEW t \in Tasks
               PROVE  /\ Inserted(t)' <=> (Inserted(t) \/ t = u)
                      /\ Pushed(t)' <=> Pushed(t)
                      /\ Known(t)' <=> Known(t)
    OBVIOUS
  <2>1. JobOf(t) \in Jobs /\ t = <<JobOf(t), t[2]>> /\ t[2] \in Nat
    BY TaskFacts, PartsType
  <2>2. t = u <=> (JobOf(t) = j /\ t[2] = sub[j].k)
    BY <1>1, <2>1
  <2> QED BY <1>1, <2>1, <2>2
          DEF Shape, TypeOK, SubOK, SubmitInsertTask, Inserted, Pushed, Known
<1>5. /\ tasks' = [tasks EXCEPT ![u] = [status |-> "Pending", worker |-> NoWorker]]
      /\ UNCHANGED <<pending, poll, rep, wk>>
  BY DEF SubmitInsertTask
<1>6. /\ \A i \in DOMAIN pending : pending[i] \in Tasks
      /\ tasks \in [Tasks -> [status : TaskStatus, worker : Workers \cup {NoWorker}]]
  BY DEF Shape, TypeOK, QueueOK, TasksOK
<1> HIDE DEF u
<1> USE <1>1, <1>3, <1>4, <1>5, <1>6 DEF DispatchInv
<1>7. TaskInv'
  BY DEF TaskInv
<1>8. QueueInv'
  BY DEF QueueInv, Holds
<1>9. PollInv'
  BY DEF PollInv, Holds
<1>10. WorkInv'
  BY DEF WorkInv, Holds
<1>11. HolderInv'
  BY DEF HolderInv, Holds
<1>12. RepInv'
  BY <1>2 DEF RepInv, Outcomes, Reported
<1> QED BY <1>7, <1>8, <1>9, <1>10, <1>11, <1>12

\* insert_task, second lock: the id enters the queue for the only time.
LEMMA Dispatch_SubmitPushPending ==
    ASSUME Shape, DispatchInv, NEW j \in Jobs, SubmitPushPending(j)
    PROVE  DispatchInv'
<1> DEFINE u == <<j, sub[j].k>>
<1>1. u \in Tasks /\ JobOf(u) = j /\ u[2] = sub[j].k
  BY TaskIntro DEF Shape, SubShape, SubmitPushPending
<1>2. ~Known(u) /\ Inserted(u)
  BY <1>1 DEF Shape, TypeOK, SubOK, SubmitPushPending, Known, Pushed, Inserted
<1>3. /\ \A w \in Workers : ~Holds(w, u)
      /\ rep[u].pc = "none"
      /\ \A i \in DOMAIN pending : pending[i] # u
  BY <1>1, <1>2, UnknownIsFree
<1>4. tasks[u].status = "Pending"
  <2>1. tasks[u].status \in TaskStatus /\ tasks[u].status \notin Outcomes
    BY <1>1, <1>3 DEF Shape, TypeOK, TasksOK, DispatchInv, RepInv
  <2>2. tasks[u].status # "Absent"
    BY <1>1, <1>2 DEF DispatchInv, TaskInv
  <2>3. tasks[u].status # "Assigned"
    BY <1>1, <1>2 DEF DispatchInv, TaskInv, Known
  <2> QED BY <2>1, <2>2, <2>3 DEF TaskStatus, Outcomes
<1>5. \A t \in Tasks : /\ Inserted(t)' <=> Inserted(t)
                       /\ Pushed(t)' <=> (Pushed(t) \/ t = u)
                       /\ Known(t)' <=> (Known(t) \/ t = u)
  <2> SUFFICES ASSUME NEW t \in Tasks
               PROVE  /\ Inserted(t)' <=> Inserted(t)
                      /\ Pushed(t)' <=> (Pushed(t) \/ t = u)
                      /\ Known(t)' <=> (Known(t) \/ t = u)
    OBVIOUS
  <2>1. JobOf(t) \in Jobs /\ t = <<JobOf(t), t[2]>> /\ t[2] \in 1..Parts(JobOf(t))
    BY TaskFacts
  <2>2. t = u <=> (JobOf(t) = j /\ t[2] = sub[j].k)
    BY <1>1, <2>1
  <2>3. sub[j].k \in 1..Parts(j) /\ Parts(j) \in Nat
    BY PartsType DEF Shape, SubShape, SubmitPushPending
  <2> QED BY <1>1, <2>1, <2>2, <2>3
          DEF Shape, TypeOK, SubOK, SubmitPushPending, Inserted, Pushed, Known
<1>6. pending' = Append(pending, u) /\ UNCHANGED <<tasks, poll, rep, wk>>
  BY DEF SubmitPushPending
<1>7. /\ pending \in Seq(Tasks)
      /\ \A i \in DOMAIN pending : pending[i] \in Tasks
  BY DEF Shape, TypeOK, QueueOK
<1>8. /\ DOMAIN pending' = 1..(Len(pending) + 1)
      /\ DOMAIN pending = 1..Len(pending)
      /\ Len(pending) \in Nat
      /\ pending'[Len(pending) + 1] = u
      /\ \A i \in DOMAIN pending : pending'[i] = pending[i]
  BY <1>1, <1>6, <1>7
<1> HIDE DEF u
<1> USE <1>1, <1>3, <1>4, <1>5, <1>6 DEF DispatchInv
<1>9. TaskInv'
  BY DEF TaskInv
<1>10. QueueInv'
  BY <1>7, <1>8 DEF QueueInv, Holds
<1>11. PollInv'
  BY DEF PollInv
<1>12. WorkInv'
  BY DEF WorkInv
<1>13. HolderInv'
  BY DEF HolderInv, Holds
<1>14. RepInv'
  BY DEF RepInv
<1> QED BY <1>9, <1>10, <1>11, <1>12, <1>13, <1>14

\* pop_front: the head of the queue passes to the poll of w.
LEMMA Dispatch_PollPop ==
    ASSUME Shape, DispatchInv, NEW w \in Workers, PollPop(w)
    PROVE  DispatchInv'
<1>1. CASE pending = <<>>
  <2>1. UNCHANGED <<tasks, pending, rep, sub, wk>>
    BY <1>1 DEF PollPop
  <2>2. \A v \in Workers : IF v = w THEN poll'[v].task = NoTask
                           ELSE poll'[v] = poll[v]
    BY <1>1 DEF PollPop, Shape, TypeOK, PollOK, HoldShape
  <2> QED BY <2>1, <2>2, DispatchRelease
<1>2. CASE pending # <<>>
  <2> DEFINE u == Head(pending)
  <2>1. /\ pending \in Seq(Tasks)
        /\ Len(pending) \in Nat /\ Len(pending) > 0
        /\ DOMAIN pending = 1..Len(pending)
        /\ u = pending[1] /\ u \in Tasks
        /\ \A i \in DOMAIN pending : pending[i] \in Tasks
    BY <1>2 DEF Shape, TypeOK, QueueOK
  <2>2. /\ pending' = Tail(pending)
        /\ poll' = [poll EXCEPT ![w].pc = "popped", ![w].task = u]
    BY <1>2 DEF PollPop
  <2>3. /\ DOMAIN pending' = 1..(Len(pending) - 1)
        /\ \A i \in DOMAIN pending' : pending'[i] = pending[i + 1]
    BY <2>1, <2>2
  <2>4. /\ tasks[u].status = "Pending"
        /\ Pushed(u)
        /\ rep[u].pc = "none"
        /\ \A v \in Workers : ~Holds(v, u)
    BY <2>1 DEF DispatchInv, QueueInv
  <2>5. /\ poll'[w].pc = "popped" /\ poll'[w].task = u
        /\ \A v \in Workers : v # w => poll'[v] = poll[v]
        /\ wk[w].task \notin Tasks
    BY <2>2 DEF PollPop, Shape, TypeOK, PollOK, HoldShape
  <2>6. UNCHANGED <<tasks, rep, wk, sub>>
    BY DEF PollPop
  <2> HIDE DEF u
  <2> USE DEF DispatchInv
  <2>7. TaskInv'
    BY <2>6 DEF TaskInv, Inserted, Pushed
  <2>8. QueueInv'
    <3>1. \A i \in DOMAIN pending' : /\ i + 1 \in DOMAIN pending /\ i + 1 # 1
                                     /\ pending'[i] = pending[i + 1]
                                     /\ pending'[i] \in Tasks
      BY <2>1, <2>3
    <3>2. \A i \in DOMAIN pending' : pending'[i] # u
      BY <2>1, <3>1 DEF QueueInv
    <3>3. \A i, k \in DOMAIN pending' : pending'[i] = pending'[k] => i = k
      BY <2>1, <2>3, <3>1 DEF QueueInv
    <3>4. \A i \in DOMAIN pending' : /\ tasks[pending'[i]].status = "Pending"
                                     /\ Pushed(pending'[i])
                                     /\ rep[pending'[i]].pc = "none"
                                     /\ \A v \in Workers : ~Holds(v, pending'[i])
      BY <3>1 DEF QueueInv
    <3>5. \A i \in DOMAIN pending', v \in Workers :
              poll'[v].task # pending'[i] /\ wk'[v].task # pending'[i]
      BY <2>6, <2>5, <3>2, <3>4 DEF Holds
    <3> QED BY <2>6, <3>3, <3>4, <3>5 DEF QueueInv, Holds, Pushed
  <2>9. PollInv'
    BY <2>6, <2>4, <2>5 DEF PollInv, Pushed
  <2>10. WorkInv'
    BY <2>6 DEF WorkInv, Known, Pushed
  <2>11. HolderInv'
    BY <2>6, <2>4, <2>5 DEF HolderInv, Holds
  <2>12. RepInv'
    BY <2>6 DEF RepInv, Known, Pushed
  <2> QED BY <2>7, <2>8, <2>9, <2>10, <2>11, <2>12
<1> QED BY <1>1, <1>2

\* update_task in try_assign_task.
LEMMA Dispatch_PollAssign ==
    ASSUME Shape, DispatchInv, NEW w \in Workers, PollAssign(w)
    PROVE  DispatchInv'
<1> DEFINE u == poll[w].task
<1>1. u \in Tasks /\ Pushed(u) /\ rep[u].pc = "none" /\ Holds(w, u)
  BY DEF PollAssign, Shape, HoldShape, PollBusy, DispatchInv, PollInv, Holds
<1>2. /\ tasks'[u] = [status |-> "Assigned", worker |-> w]
      /\ \A t \in Tasks : t # u => tasks'[t] = tasks[t]
      /\ tasks[u].status = "Pending"
  BY <1>1 DEF PollAssign, Shape, TypeOK, TasksOK, DispatchInv, PollInv
<1>3. /\ poll'[w].pc = "assigned" /\ poll'[w].task = u
      /\ \A v \in Workers : v # w => poll'[v] = poll[v]
      /\ UNCHANGED <<pending, rep, wk, sub>>
  BY DEF PollAssign, Shape, TypeOK, PollOK
<1>4. \A i \in DOMAIN pending : pending[i] \in Tasks /\ pending[i] # u
  BY <1>1 DEF Shape, TypeOK, QueueOK, DispatchInv, QueueInv
<1>5. \A v \in Workers : v # w => ~Holds(v, u)
  BY <1>1 DEF DispatchInv, HolderInv
<1>6. wk[w].task \notin Tasks
  BY DEF PollAssign, Shape, HoldShape
<1> HIDE DEF u
<1> USE <1>1, <1>2, <1>3, <1>4, <1>5 DEF DispatchInv
<1>7. TaskInv'
  BY DEF TaskInv, Inserted, Pushed
<1>8. QueueInv'
  BY DEF QueueInv, Holds, Pushed
<1>9. PollInv'
  BY DEF PollInv, Pushed, Holds
<1>10. WorkInv'
  BY <1>6 DEF WorkInv, Known, Pushed, Holds
<1>11. HolderInv'
  BY DEF HolderInv, Holds
<1>12. RepInv'
  BY DEF RepInv, Known, Pushed, Outcomes, Reported
<1> QED BY <1>7, <1>8, <1>9, <1>10, <1>11, <1>12

\* The task passes from the poll of w to the worker, or to nobody.
LEMMA Dispatch_PollRespond ==
    ASSUME Shape, DispatchInv, NEW w \in Workers, PollRespond(w)
    PROVE  DispatchInv'
<1>1. /\ poll'[w].task = NoTask
      /\ \A v \in Workers : v # w => poll'[v] = poll[v] /\ wk'[v] = wk[v]
      /\ UNCHANGED <<tasks, pending, rep, sub>>
  BY DEF PollRespond, Shape, TypeOK, PollOK, WkOK, IdlePoll, tables
<1>2. CASE wk[w].pc # "polling" \/ poll[w].task = NoTask
  <2>1. wk'[w] = wk[w] \/ (wk'[w].task = wk[w].task /\ wk[w].pc = "polling")
    BY <1>2 DEF PollRespond, Shape, TypeOK, WkOK
  <2>2. wk[w].pc = "polling" => wk[w].task = NoTask
    BY DEF Shape, TypeOK, WkOK, HoldShape
  <2> QED BY <1>1, <2>1, <2>2, DispatchRelease
<1>3. CASE wk[w].pc = "polling" /\ poll[w].task # NoTask
  <2> DEFINE u == poll[w].task
  <2>1. u \in Tasks /\ wk'[w].pc = "executing" /\ wk'[w].task = u
    BY <1>3 DEF PollRespond, Shape, TypeOK, WkOK, PollOK
  <2>2. poll[w].pc = "reply"
    BY DEF PollRespond
  <2>3. /\ Pushed(u) /\ rep[u].pc = "none" /\ Holds(w, u)
        /\ tasks[u].status = "Assigned"
    BY <2>1, <2>2 DEF DispatchInv, PollInv, Holds
  <2>4. \A i \in DOMAIN pending : pending[i] \in Tasks
    BY DEF Shape, TypeOK, QueueOK
  <2> HIDE DEF u
  <2> USE <1>1, <2>1, <2>3, NoneAssumption DEF DispatchInv
  <2>5. TaskInv'
    BY DEF TaskInv, Inserted, Pushed
  <2>6. QueueInv'
    BY <2>4 DEF QueueInv, Holds, Pushed
  <2>7. PollInv'
    BY DEF PollInv, Pushed
  <2>8. WorkInv'
    BY DEF WorkInv, Known, Pushed
  <2>9. HolderInv'
    BY DEF HolderInv, Holds
  <2>10. RepInv'
    BY DEF RepInv, Known, Pushed
  <2> QED BY <2>5, <2>6, <2>7, <2>8, <2>9, <2>10
<1> QED BY <1>2, <1>3

\* The worker that executes u sends its report.
LEMMA Dispatch_WorkerReport ==
    ASSUME Shape, DispatchInv, NEW w \in Workers, NEW outcome \in Outcomes,
           WorkerReport(w, outcome)
    PROVE  DispatchInv'
<1> DEFINE u == wk[w].task
<1>1. wk[w].pc = "executing" /\ u \in Tasks /\ Holds(w, u)
  BY DEF WorkerReport, Shape, HoldShape, Holds
<1>2. /\ Known(u) /\ rep[u].pc = "none"
      /\ tasks[u].status \in {"Assigned", "Absent"}
  BY <1>1 DEF DispatchInv, WorkInv
<1>3. /\ rep'[u].pc = "sent"
      /\ \A t \in Tasks : t # u => rep'[t] = rep[t]
  BY <1>1 DEF WorkerReport, Shape, TypeOK, RepOK, RepRecord
<1>4. /\ wk'[w].pc = "reporting" /\ wk'[w].task = u
      /\ \A v \in Workers : v # w => wk'[v] = wk[v]
  BY DEF WorkerReport, Shape, TypeOK, WkOK
<1>5. UNCHANGED <<tasks, pending, poll, sub>>
  BY DEF WorkerReport, tables
<1>6. \A i \in DOMAIN pending : pending[i] \in Tasks /\ pending[i] # u
  BY <1>1 DEF Shape, TypeOK, QueueOK, DispatchInv, QueueInv
<1>7. \A v \in Workers : v # w => ~Holds(v, u)
  BY <1>1 DEF DispatchInv, HolderInv
<1>8. poll[w].task # u
  BY <1>1, NoneAssumption DEF Shape, HoldShape
<1> HIDE DEF u
<1> USE <1>1, <1>2, <1>3, <1>4, <1>5 DEF DispatchInv
<1>9. TaskInv'
  BY DEF TaskInv, Inserted, Pushed
<1>10. QueueInv'
  BY <1>6 DEF QueueInv, Holds, Pushed
<1>11. PollInv'
  BY <1>7, <1>8 DEF PollInv, Pushed, Holds
<1>12. WorkInv'
  BY <1>7 DEF WorkInv, Known, Pushed, Holds
<1>13. HolderInv'
  BY DEF HolderInv, Holds
<1>14. RepInv'
  BY DEF RepInv, Known, Pushed, Reported
<1> QED BY <1>9, <1>10, <1>11, <1>12, <1>13, <1>14

\* update_task in complete_task: the one write of an outcome.
LEMMA Dispatch_RepWrite ==
    ASSUME Shape, DispatchInv, NEW t \in Tasks, RepWrite(t)
    PROVE  DispatchInv'
<1>1. /\ rep[t].pc = "checked" /\ tasks[t].status = "Assigned" /\ Pushed(t)
      /\ rep[t].outcome \in Outcomes
  BY DEF RepWrite, Shape, TypeOK, RepOK, RepRecord, DispatchInv, RepInv, TaskInv
<1>2. /\ tasks'[t].status = rep[t].outcome
      /\ \A u \in Tasks : u # t => tasks'[u] = tasks[u]
  BY DEF RepWrite, Shape, TypeOK, TasksOK
<1>3. /\ rep'[t].pc = "written" /\ rep'[t].outcome = rep[t].outcome
      /\ \A u \in Tasks : u # t => rep'[u] = rep[u]
  BY <1>1 DEF RepWrite, Shape, TypeOK, RepOK, RepRecord
<1>4. UNCHANGED <<pending, poll, wk, sub>>
  BY DEF RepWrite
<1>5. \A i \in DOMAIN pending : pending[i] \in Tasks /\ pending[i] # t
  BY <1>1 DEF Shape, TypeOK, QueueOK, DispatchInv, QueueInv
<1>6. \A w \in Workers : /\ poll[w].task # t
                         /\ wk[w].task = t => wk[w].pc = "reporting"
  BY <1>1 DEF DispatchInv, PollInv, WorkInv, Shape, HoldShape
<1> USE <1>1, <1>2, <1>3, <1>4 DEF DispatchInv
<1>7. TaskInv'
  BY DEF TaskInv, Inserted, Pushed, Outcomes
<1>8. QueueInv'
  BY <1>5 DEF QueueInv, Holds, Pushed
<1>9. PollInv'
  BY <1>6 DEF PollInv, Pushed
<1>10. WorkInv'
  BY <1>6 DEF WorkInv, Known, Pushed
<1>11. HolderInv'
  BY DEF HolderInv, Holds
<1>12. RepInv'
  BY DEF RepInv, Known, Pushed
<1> QED BY <1>7, <1>8, <1>9, <1>10, <1>11, <1>12

\* After a restart the tables are empty and every known task is lost.
LEMMA Dispatch_MasterRestart ==
    ASSUME Shape, DispatchInv, MasterRestart
    PROVE  DispatchInv'
<1>1. /\ \A j \in Jobs : IF sub[j].pc \in {"idle", "rejected"}
                         THEN sub'[j] = sub[j] ELSE sub'[j].pc = "lost"
      /\ \A t \in Tasks : tasks'[t].status = "Absent"
      /\ pending' = <<>>
      /\ \A w \in Workers : poll'[w].task = NoTask
      /\ \A t \in Tasks : IF rep[t].pc = "none" THEN rep'[t] = rep[t]
                          ELSE rep'[t].pc = "lost"
      /\ \A w \in Workers : /\ wk'[w].task = wk[w].task
                            /\ wk[w].task \in Tasks => wk'[w] = wk[w]
  BY ZenonT(30) DEF MasterRestart, AbsentTask, IdlePoll, IdleRep,
         Shape, TypeOK, SubOK, WkOK, HoldShape
<1>2. \A t \in Tasks : ~Inserted(t)' /\ (Known(t) => Known(t)')
  <2> SUFFICES ASSUME NEW t \in Tasks
               PROVE  ~Inserted(t)' /\ (Known(t) => Known(t)')
    OBVIOUS
  <2>1. JobOf(t) \in Jobs /\ t[2] \in Nat
    BY TaskFacts, PartsType
  <2> QED BY <1>1, <2>1 DEF Inserted, Known, Pushed
<1> USE <1>1, <1>2 DEF DispatchInv
<1>3. TaskInv'
  BY DEF TaskInv
<1>4. QueueInv'
  BY DEF QueueInv
<1>5. PollInv'
  BY NoneAssumption DEF PollInv
<1>6. WorkInv'
  BY DEF WorkInv
<1>7. HolderInv'
  BY NoneAssumption DEF HolderInv, Holds
<1>8. RepInv'
  BY DEF RepInv, Outcomes, Reported
<1> QED BY <1>3, <1>4, <1>5, <1>6, <1>7, <1>8
=============================================================================
