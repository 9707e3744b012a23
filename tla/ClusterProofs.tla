--------------------------- MODULE ClusterProofs ---------------------------
(***************************************************************************)
(* The third layer of the inductive invariant of Cluster, the induction    *)
(* that puts the layers together, and the theorems.                        *)
(***************************************************************************)
EXTENDS ClusterDispatchProofs

\* Who writes the task table, the job table, the reports and the polls.
LEMMA Writers ==
    ASSUME Next
    PROVE  /\ \/ tasks' = tasks
              \/ \E j \in Jobs : SubmitInsertTask(j)
              \/ \E w \in Workers : PollAssign(w)
              \/ \E t \in Tasks : RepWrite(t)
              \/ MasterRestart
           /\ \/ jobs' = jobs
              \/ \E j \in Jobs : \/ SubmitInsertJob(j) \/ SubmitRunJob(j)
                                 \/ \E o \in Outcomes : SqlExecute(j, o)
                                 \/ ShowBegin(j) \/ ShowRendered(j)
              \/ \E t \in Tasks : RepJobWrite(t)
              \/ MasterRestart
           /\ \/ rep' = rep
              \/ \E t \in Tasks : RepStart(t) \/ RepStep(t) \/ ReportLost(t)
              \/ \E w \in Workers, o \in Outcomes : WorkerReport(w, o)
              \/ MasterRestart
           /\ \/ poll' = poll
              \/ \E w \in Workers : \/ PollPop(w) \/ PollStep(w) \/ WorkerPoll(w)
                                    \/ PollRespond(w) \/ PollRequestLost(w)
                                    \/ PollReplyLost(w)
              \/ MasterRestart
           /\ \/ totalRuns' = totalRuns
              \/ \E t \in Tasks : RepCount(t)
              \/ MasterRestart
           /\ \/ faults' = faults
              \/ FaultStep
<1> USE DEF Next, RequestArrives, SubmitRejected, SubmitBegin, SubmitStep,
        SubmitPushPending, SubmitRespond, SqlStep, SqlIncRound, SqlPlan,
        SqlCountRound, RecordRound, ShowStep, ShowIncRound, ShowRenderError,
        WorkerStep, WorkerRegister, ReportAck, tables, counters, bounds
<1>1. \/ tasks' = tasks
      \/ \E j \in Jobs : SubmitInsertTask(j)
      \/ \E w \in Workers : PollAssign(w)
      \/ \E t \in Tasks : RepWrite(t)
      \/ MasterRestart
  BY Zenon DEF SubmitInsertJob, SubmitRunJob, SqlExecute, ShowBegin, ShowRendered,
         PollPop, PollStep, PollRead, PollStageRead, PollStageWrite, RepStart,
         RepStep, RepCheck, RepRetain, RepCount, RepStageRead, RepStageWrite,
         RepTally, RepJobRead, RepJobWrite, WorkerPoll, PollRespond,
         WorkerReport, FaultStep, RegisterReplyLost, WorkerCrash,
         PollRequestLost, PollReplyLost, PollTimeout, ReportTimeout,
         ReportLost
<1>2. \/ jobs' = jobs
      \/ \E j \in Jobs : \/ SubmitInsertJob(j) \/ SubmitRunJob(j)
                         \/ \E o \in Outcomes : SqlExecute(j, o)
                         \/ ShowBegin(j) \/ ShowRendered(j)
      \/ \E t \in Tasks : RepJobWrite(t)
      \/ MasterRestart
  BY Zenon DEF SubmitInsertTask, PollPop, PollStep, PollRead, PollAssign,
         PollStageRead, PollStageWrite, RepStart, RepStep, RepCheck, RepWrite,
         RepRetain, RepCount, RepStageRead, RepStageWrite, RepTally,
         RepJobRead, WorkerPoll, PollRespond, WorkerReport, FaultStep,
         RegisterReplyLost, WorkerCrash, PollRequestLost, PollReplyLost,
         PollTimeout, ReportTimeout, ReportLost
<1>3. \/ rep' = rep
      \/ \E t \in Tasks : RepStart(t) \/ RepStep(t) \/ ReportLost(t)
      \/ \E w \in Workers, o \in Outcomes : WorkerReport(w, o)
      \/ MasterRestart
  BY Zenon DEF SubmitInsertTask, SubmitInsertJob, SubmitRunJob, SqlExecute,
         ShowBegin, ShowRendered, PollPop, PollStep, PollRead, PollAssign,
         PollStageRead, PollStageWrite, WorkerPoll, PollRespond, FaultStep,
         RegisterReplyLost, WorkerCrash, PollRequestLost, PollReplyLost,
         PollTimeout, ReportTimeout
<1>4. \/ poll' = poll
      \/ \E w \in Workers : \/ PollPop(w) \/ PollStep(w) \/ WorkerPoll(w)
                            \/ PollRespond(w) \/ PollRequestLost(w)
                            \/ PollReplyLost(w)
      \/ MasterRestart
  BY Zenon DEF SubmitInsertTask, SubmitInsertJob, SubmitRunJob, SqlExecute,
         ShowBegin, ShowRendered, RepStart, RepStep, RepCheck, RepWrite,
         RepRetain, RepCount, RepStageRead, RepStageWrite, RepTally,
         RepJobRead, RepJobWrite, WorkerReport, FaultStep, RegisterReplyLost,
         WorkerCrash, PollTimeout, ReportTimeout, ReportLost
<1>5. \/ totalRuns' = totalRuns
      \/ \E t \in Tasks : RepCount(t)
      \/ MasterRestart
  BY ZenonT(30) DEF SubmitInsertTask, SubmitInsertJob, SubmitRunJob, SqlExecute,
         ShowBegin, ShowRendered, PollPop, PollStep, PollRead, PollAssign,
         PollStageRead, PollStageWrite, RepStart, RepStep, RepCheck, RepWrite,
         RepRetain, RepStageRead, RepStageWrite, RepTally, RepJobRead,
         RepJobWrite, WorkerPoll, PollRespond, WorkerReport, FaultStep,
         RegisterReplyLost, WorkerCrash, PollRequestLost, PollReplyLost,
         PollTimeout, ReportTimeout, ReportLost
<1>6. faults' = faults \/ FaultStep
  BY Zenon DEF SubmitInsertTask, SubmitInsertJob, SubmitRunJob, SqlExecute,
         ShowBegin, ShowRendered, PollPop, PollStep, PollRead, PollAssign,
         PollStageRead, PollStageWrite, RepStart, RepStep, RepCheck, RepWrite,
         RepRetain, RepCount, RepStageRead, RepStageWrite, RepTally,
         RepJobRead, RepJobWrite, WorkerPoll, PollRespond, WorkerReport
<1> QED BY <1>1, <1>2, <1>3, <1>4, <1>5, <1>6

\* Only a restart of the master takes back the outcome of a task.
LEMMA OutcomeKept ==
    ASSUME Shape, DispatchInv, Next, ~MasterRestart
    PROVE  \A t \in Tasks : tasks[t].status \in Outcomes => tasks'[t] = tasks[t]
<1> SUFFICES ASSUME NEW t \in Tasks, tasks[t].status \in Outcomes
             PROVE  tasks'[t] = tasks[t]
  OBVIOUS
<1> USE DEF Outcomes
<1>1. tasks' = tasks \/ \/ \E j \in Jobs : SubmitInsertTask(j)
                        \/ \E w \in Workers : PollAssign(w)
                        \/ \E u \in Tasks : RepWrite(u)
  BY Writers
<1>2. ASSUME NEW j \in Jobs, SubmitInsertTask(j)
      PROVE  tasks'[t] = tasks[t]
  <2>1. <<j, sub[j].k>> \in Tasks /\ JobOf(<<j, sub[j].k>>) = j
    BY <1>2, TaskIntro DEF Shape, SubShape, SubmitInsertTask
  <2>2. sub[j].k \in Nat
    BY DEF Shape, TypeOK, SubOK
  <2>3. ~Inserted(<<j, sub[j].k>>)
    BY <1>2, <2>1, <2>2 DEF Inserted, SubmitInsertTask
  <2>4. tasks[<<j, sub[j].k>>].status = "Absent"
    BY <2>1, <2>3 DEF DispatchInv, TaskInv
  <2> QED BY <1>2, <2>4 DEF SubmitInsertTask, Shape, TypeOK, TasksOK
<1>3. ASSUME NEW w \in Workers, PollAssign(w)
      PROVE  tasks'[t] = tasks[t]
  <2>1. tasks[poll[w].task].status = "Pending"
    BY <1>3 DEF PollAssign, DispatchInv, PollInv, Shape, HoldShape, PollBusy
  <2> QED BY <1>3, <2>1 DEF PollAssign, Shape, TypeOK, TasksOK
<1>4. ASSUME NEW u \in Tasks, RepWrite(u)
      PROVE  tasks'[t] = tasks[t]
  <2>1. tasks[u].status = "Assigned"
    BY <1>4 DEF RepWrite, DispatchInv, RepInv
  <2> QED BY <1>4, <2>1 DEF RepWrite, Shape, TypeOK, TasksOK
<1> QED BY <1>1, <1>2, <1>3, <1>4

-----------------------------------------------------------------------------
(* Verdicts.  Outcomes stay, so a copy that is true of the tasks before a  *)
(* step is true of them after it: it remains to look at new copies.        *)

\* A step that keeps outcomes and makes only sound copies keeps VerdictInv.
LEMMA VerdictFrame ==
    ASSUME \A t \in Tasks : tasks[t].status \in Outcomes => tasks'[t] = tasks[t],
           \A j \in Jobs : StageSound(j, stages'[j]),
           \A w \in Workers : poll'[w].pc = "stageRead" =>
               /\ JobOf(poll'[w].task) \in Jobs
               /\ StageSound(JobOf(poll'[w].task), poll'[w].stage),
           \A t \in Tasks : rep'[t].pc = "stageRead" =>
               StageSound(JobOf(t), rep'[t].stage),
           \A j \in ClusterJobs : StatusGrounded(j, jobs'[j]),
           \A t \in Tasks : rep'[t].pc \in {"tallied", "jobRead"} =>
               StatusGrounded(JobOf(t), rep'[t].verdict),
           \A t \in Tasks : rep'[t].pc = "jobRead" /\ JobOf(t) \in ClusterJobs =>
               StatusGrounded(JobOf(t), rep'[t].job)
    PROVE  VerdictInv'
<1>1. \A j \in Jobs : \A t \in TasksOf(j) :
          tasks[t].status \in Outcomes => tasks'[t] = tasks[t]
  BY TasksOfSubset
<1>2. \A j \in Jobs : \A st : StageSound(j, st) =>
          /\ \A t \in TasksOf(j) :
                 st.slots[t] \in Outcomes => tasks'[t].status = st.slots[t]
          /\ st.status = "Succeeded" =>
                 \A t \in TasksOf(j) : tasks'[t].status = "Succeeded"
          /\ st.status = "Failed" =>
                 \E t \in TasksOf(j) : tasks'[t].status = "Failed"
  BY <1>1 DEF StageSound, Outcomes
<1>3. \A j \in Jobs : \A s : StatusGrounded(j, s) =>
          (s \in Outcomes => \E t \in TasksOf(j) : tasks'[t].status = s)
  BY <1>1 DEF StatusGrounded
<1>4. \A t \in Tasks : JobOf(t) \in Jobs
  BY TaskFacts
<1>5. ClusterJobs \subseteq Jobs
  BY DEF Jobs, PlannedJobs
<1>6. (\A j \in Jobs : StageSound(j, stages[j]))'
  BY <1>2 DEF StageSound
<1>7. (\A w \in Workers : poll[w].pc = "stageRead" =>
           StageSound(JobOf(poll[w].task), poll[w].stage))'
  BY <1>2 DEF StageSound
<1>8. (\A t \in Tasks : rep[t].pc = "stageRead" =>
           StageSound(JobOf(t), rep[t].stage))'
  BY <1>2, <1>4 DEF StageSound
<1>9. JobInv'
  BY <1>3, <1>4, <1>5 DEF JobInv, StatusGrounded
<1> QED BY <1>6, <1>7, <1>8, <1>9 DEF VerdictInv, StageInv

\* A poll or a report that holds a copy belongs to a job.
LEMMA PollJob ==
    ASSUME Shape
    PROVE  \A w \in Workers : poll[w].pc \in PollBusy =>
               JobOf(poll[w].task) \in Jobs
BY TaskFacts DEF Shape, HoldShape

\* Steps that copy no stage and no job.
LEMMA Verdict_Quiet ==
    ASSUME Shape, VerdictInv,
           \A t \in Tasks : tasks[t].status \in Outcomes => tasks'[t] = tasks[t],
           UNCHANGED <<jobs, stages>>,
           \A w \in Workers : poll'[w].pc = "stageRead" => poll'[w] = poll[w],
           \A t \in Tasks : rep'[t].pc \in {"stageRead", "tallied", "jobRead"} =>
               rep'[t] = rep[t]
    PROVE  VerdictInv'
<1>1. \A w \in Workers : poll'[w].pc = "stageRead" =>
          JobOf(poll'[w].task) \in Jobs
  BY PollJob DEF PollBusy
<1> USE DEF VerdictInv, StageInv, JobInv
<1>2. \A j \in Jobs : StageSound(j, stages'[j])
  OBVIOUS
<1>3. \A w \in Workers : poll'[w].pc = "stageRead" =>
          StageSound(JobOf(poll'[w].task), poll'[w].stage)
  OBVIOUS
<1>4. \A t \in Tasks : rep'[t].pc = "stageRead" =>
          StageSound(JobOf(t), rep'[t].stage)
  OBVIOUS
<1>5. \A j \in ClusterJobs : StatusGrounded(j, jobs'[j])
  OBVIOUS
<1>6. \A t \in Tasks : rep'[t].pc \in {"tallied", "jobRead"} =>
          StatusGrounded(JobOf(t), rep'[t].verdict)
  OBVIOUS
<1>7. \A t \in Tasks : rep'[t].pc = "jobRead" /\ JobOf(t) \in ClusterJobs =>
          StatusGrounded(JobOf(t), rep'[t].job)
  OBVIOUS
<1> HIDE DEF VerdictInv, StageInv, JobInv
<1> QED BY <1>1, <1>2, <1>3, <1>4, <1>5, <1>6, <1>7, VerdictFrame

\* Steps of the submission handlers.  The inline result of a /v1/sql query
\* is not an outcome of its task, which is why JobInv leaves those jobs out.
LEMMA Verdict_Sub ==
    ASSUME Shape, VerdictInv, NEW j \in Jobs,
           \A t \in Tasks : tasks[t].status \in Outcomes => tasks'[t] = tasks[t],
           RequestArrives(j) \/ SubmitStep(j) \/ SqlStep(j) \/ ShowStep(j)
    PROVE  VerdictInv'
<1> USE DEF RequestArrives, SubmitRejected, SubmitBegin, ShowBegin,
        SubmitStep, SubmitInsertTask, SubmitPushPending,
        SubmitInsertJob, SubmitRunJob, SubmitRespond,
        SqlStep, SqlIncRound, SqlPlan, SqlExecute, SqlCountRound, RecordRound,
        ShowStep, ShowIncRound, ShowRendered, ShowRenderError
<1>1. UNCHANGED <<poll, rep>>
  BY DEF tables
<1>2. \/ jobs' = jobs
      \/ \E s \in {"Pending", "Running"} : jobs' = [jobs EXCEPT ![j] = s]
      \/ j \notin ClusterJobs /\ \E s \in Outcomes : jobs' = [jobs EXCEPT ![j] = s]
  BY JobsAssumption DEF tables, Outcomes
<1>3. \/ stages' = stages
      \/ stages' = [stages EXCEPT ![j] =
                        [status |-> "Pending",
                         slots |-> [t \in TasksOf(j) |-> "Pending"]]]
  BY DEF tables
<1>4. jobs \in [Jobs -> JobStatus] /\ stages \in [Jobs -> Stages]
      /\ ClusterJobs \subseteq Jobs
  BY DEF Shape, TypeOK, JobsOK, StagesOK, Jobs, PlannedJobs
<1> HIDE DEF RequestArrives, SubmitStep, SqlStep, ShowStep
<1>5. \A i \in Jobs : StageSound(i, stages'[i])
  <2>1. \A i \in Jobs : i # j => stages'[i] = stages[i]
    BY <1>3, <1>4
  <2>2. \A i \in Jobs : StageSound(i, stages[i])
    BY DEF VerdictInv, StageInv
  <2>3. StageSound(j, [status |-> "Pending",
                       slots |-> [t \in TasksOf(j) |-> "Pending"]])
    BY DEF StageSound, Outcomes
  <2>4. stages'[j] = stages[j] \/
        stages'[j] = [status |-> "Pending",
                      slots |-> [t \in TasksOf(j) |-> "Pending"]]
    BY <1>3, <1>4
  <2> QED BY <2>1, <2>2, <2>3, <2>4
<1>6. \A i \in ClusterJobs : StatusGrounded(i, jobs'[i])
  <2>1. \A i \in ClusterJobs : jobs'[i] \in {jobs[i], "Pending", "Running"}
    BY <1>2, <1>4
  <2>2. \A i \in ClusterJobs : StatusGrounded(i, jobs[i])
    BY DEF VerdictInv, JobInv
  <2> QED BY <2>1, <2>2 DEF StatusGrounded, Outcomes
<1>7. /\ \A w \in Workers : poll'[w].pc = "stageRead" =>
             /\ JobOf(poll'[w].task) \in Jobs
             /\ StageSound(JobOf(poll'[w].task), poll'[w].stage)
      /\ \A t \in Tasks : rep'[t].pc = "stageRead" =>
             StageSound(JobOf(t), rep'[t].stage)
      /\ \A t \in Tasks : rep'[t].pc \in {"tallied", "jobRead"} =>
             StatusGrounded(JobOf(t), rep'[t].verdict)
      /\ \A t \in Tasks : rep'[t].pc = "jobRead" /\ JobOf(t) \in ClusterJobs =>
             StatusGrounded(JobOf(t), rep'[t].job)
  BY <1>1, PollJob DEF VerdictInv, StageInv, JobInv, PollBusy
<1> QED BY <1>5, <1>6, <1>7, VerdictFrame

\* Steps of polls and workers: only PollStageRead and PollStageWrite copy.
LEMMA Verdict_Poll ==
    ASSUME Shape, VerdictInv, NEW w \in Workers,
           \A t \in Tasks : tasks[t].status \in Outcomes => tasks'[t] = tasks[t],
           PollStageRead(w) \/ PollStageWrite(w)
    PROVE  VerdictInv'
<1> DEFINE u == poll[w].task
<1>1. u \in Tasks /\ JobOf(u) \in Jobs /\ u \in TasksOf(JobOf(u))
  BY TaskFacts DEF PollStageRead, PollStageWrite, Shape, HoldShape, PollBusy
<1>2. /\ \A j \in Jobs : StageSound(j, stages[j])
      /\ \A v \in Workers : poll[v].pc = "stageRead" =>
             /\ JobOf(poll[v].task) \in Jobs
             /\ StageSound(JobOf(poll[v].task), poll[v].stage)
      /\ \A t \in Tasks : rep[t].pc = "stageRead" =>
             StageSound(JobOf(t), rep[t].stage)
      /\ \A j \in ClusterJobs : StatusGrounded(j, jobs[j])
      /\ \A t \in Tasks : rep[t].pc \in {"tallied", "jobRead"} =>
             StatusGrounded(JobOf(t), rep[t].verdict)
      /\ \A t \in Tasks : rep[t].pc = "jobRead" /\ JobOf(t) \in ClusterJobs =>
             StatusGrounded(JobOf(t), rep[t].job)
  BY PollJob DEF VerdictInv, StageInv, JobInv, PollBusy
<1>3. jobs' = jobs /\ rep' = rep
  BY DEF PollStageRead, PollStageWrite, tables
<1>4. \A v \in Workers : poll'[v].pc = "stageRead" =>
          /\ JobOf(poll'[v].task) \in Jobs
          /\ StageSound(JobOf(poll'[v].task), poll'[v].stage)
  <2>1. \A v \in Workers : v # w => poll'[v] = poll[v]
    BY DEF PollStageRead, PollStageWrite, Shape, TypeOK, PollOK
  <2>2. poll'[w].pc = "stageRead" =>
            poll'[w].task = u /\ poll'[w].stage = stages[JobOf(u)]
    BY DEF PollStageRead, PollStageWrite, Shape, TypeOK, PollOK
  <2> QED BY <1>1, <1>2, <2>1, <2>2
<1>5. \A j \in Jobs : StageSound(j, stages'[j])
  <2>1. CASE PollStageRead(w)
    BY <1>2, <2>1 DEF PollStageRead, tables
  <2>2. CASE PollStageWrite(w)
    <3> DEFINE st == poll[w].stage
               new == [st EXCEPT !.slots = [@ EXCEPT ![u] = "Assigned"]]
    <3>1. st \in StageRecord(JobOf(u)) /\ StageSound(JobOf(u), st)
      BY <1>2, <2>2 DEF PollStageWrite, Shape, TypeOK, PollOK
    <3>2. /\ new.status = st.status
          /\ \A t \in TasksOf(JobOf(u)) : new.slots[t] \in {st.slots[t], "Assigned"}
      BY <3>1 DEF StageRecord
    <3>3. StageSound(JobOf(u), new)
      <4> HIDE DEF new, st, u
      <4> QED BY <3>1, <3>2 DEF StageSound, Outcomes
    <3>4. stages' = [stages EXCEPT ![JobOf(u)] = new]
      BY <2>2 DEF PollStageWrite
    <3>5. stages \in [Jobs -> Stages]
      BY DEF Shape, TypeOK, StagesOK
    <3> HIDE DEF new
    <3> QED BY <1>1, <1>2, <3>3, <3>4, <3>5
  <2> QED BY <2>1, <2>2
<1> QED BY <1>2, <1>3, <1>4, <1>5, VerdictFrame

\* complete_task's verdict on the job is an outcome of one of its tasks.
LEMMA JobVerdictSound ==
    ASSUME NEW j \in Jobs
    PROVE  StatusGrounded(j, JobVerdict(j))
BY DEF StatusGrounded, JobVerdict, Outcomes

\* complete_task's new stage is sound if the stage it was made from was.
LEMMA StageVerdictKeeps ==
    ASSUME NEW j \in Jobs, NEW t \in TasksOf(j), NEW st \in StageRecord(j),
           StageSound(j, st), NEW o \in Outcomes, tasks[t].status = o
    PROVE  LET slots == [st.slots EXCEPT ![t] = o]
           IN  StageSound(j, [status |-> StageVerdict(slots), slots |-> slots])
<1> DEFINE slots == [st.slots EXCEPT ![t] = o]
           new == [status |-> StageVerdict(slots), slots |-> slots]
<1>1. DOMAIN slots = TasksOf(j)
  BY DEF StageRecord
<1>2. \A u \in TasksOf(j) : slots[u] \in Outcomes => tasks[u].status = slots[u]
  BY DEF StageRecord, StageSound
<1>3. new.status = StageVerdict(slots) /\ new.slots = slots
  OBVIOUS
<1> HIDE DEF slots, new
<1>4. StageSound(j, new)
  BY <1>1, <1>2, <1>3 DEF StageSound, StageVerdict, Outcomes
<1> QED BY <1>4 DEF slots, new

\* Steps of a report that copy: from and to the stage, and to the job.
LEMMA Verdict_Report ==
    ASSUME Shape, DispatchInv, VerdictInv, NEW t \in Tasks,
           \A u \in Tasks : tasks[u].status \in Outcomes => tasks'[u] = tasks[u],
           \/ RepStageRead(t) \/ RepStageWrite(t) \/ RepTally(t)
           \/ RepJobRead(t) \/ RepJobWrite(t)
    PROVE  VerdictInv'
<1> DEFINE j == JobOf(t)
<1>1. j \in Jobs /\ t \in TasksOf(j)
  BY TaskFacts
<1>2. /\ \A i \in Jobs : StageSound(i, stages[i])
      /\ \A v \in Workers : poll[v].pc = "stageRead" =>
             /\ JobOf(poll[v].task) \in Jobs
             /\ StageSound(JobOf(poll[v].task), poll[v].stage)
      /\ \A u \in Tasks : rep[u].pc = "stageRead" =>
             StageSound(JobOf(u), rep[u].stage)
      /\ \A i \in ClusterJobs : StatusGrounded(i, jobs[i])
      /\ \A u \in Tasks : rep[u].pc \in {"tallied", "jobRead"} =>
             StatusGrounded(JobOf(u), rep[u].verdict)
      /\ \A u \in Tasks : rep[u].pc = "jobRead" /\ JobOf(u) \in ClusterJobs =>
             StatusGrounded(JobOf(u), rep[u].job)
  BY PollJob DEF VerdictInv, StageInv, JobInv, PollBusy
<1>3. /\ \A u \in Tasks : u # t => rep'[u] = rep[u]
      /\ rep'[t].pc = "stageRead" => rep'[t].stage = stages[j]
      /\ rep'[t].pc = "tallied" => rep'[t].verdict = JobVerdict(j)
      /\ rep'[t].pc = "jobRead" => /\ rep[t].pc = "tallied"
                                   /\ rep'[t].verdict = rep[t].verdict
                                   /\ rep'[t].job = jobs[j]
  BY DEF RepStageRead, RepStageWrite, RepTally, RepJobRead, RepJobWrite,
         Shape, TypeOK, RepOK, RepRecord
<1>4. /\ \A u \in Tasks : rep'[u].pc = "stageRead" =>
             StageSound(JobOf(u), rep'[u].stage)
      /\ \A u \in Tasks : rep'[u].pc \in {"tallied", "jobRead"} =>
             StatusGrounded(JobOf(u), rep'[u].verdict)
      /\ \A u \in Tasks : rep'[u].pc = "jobRead" /\ JobOf(u) \in ClusterJobs =>
             StatusGrounded(JobOf(u), rep'[u].job)
  BY <1>1, <1>2, <1>3, JobVerdictSound
<1>5. poll' = poll
  BY DEF RepStageRead, RepStageWrite, RepTally, RepJobRead, RepJobWrite
<1>6. \A i \in ClusterJobs : StatusGrounded(i, jobs'[i])
  <2>1. CASE ~RepJobWrite(t)
    BY <1>2, <2>1 DEF RepStageRead, RepStageWrite, RepTally, RepJobRead, tables
  <2>2. CASE RepJobWrite(t)
    <3>1. jobs \in [Jobs -> JobStatus] /\ ClusterJobs \subseteq Jobs
      BY DEF Shape, TypeOK, JobsOK, Jobs, PlannedJobs
    <3>2. \/ jobs' = [jobs EXCEPT ![j] = rep[t].job]
          \/ jobs' = [jobs EXCEPT ![j] = rep[t].verdict]
      BY <2>2 DEF RepJobWrite
    <3>3. rep[t].pc = "jobRead"
      BY <2>2 DEF RepJobWrite
    <3> QED BY <1>1, <1>2, <3>1, <3>2, <3>3
  <2> QED BY <2>1, <2>2
<1>7. \A i \in Jobs : StageSound(i, stages'[i])
  <2>1. CASE ~RepStageWrite(t)
    BY <1>2, <2>1 DEF RepStageRead, RepJobWrite, RepTally, RepJobRead, tables
  <2>2. CASE RepStageWrite(t)
    <3> DEFINE slots == [rep[t].stage.slots EXCEPT ![t] = rep[t].outcome]
               new == [status |-> StageVerdict(slots), slots |-> slots]
    <3>1. /\ rep[t].stage \in StageRecord(j)
          /\ rep[t].outcome \in Outcomes
          /\ stages \in [Jobs -> Stages]
      BY DEF Shape, TypeOK, RepOK, RepRecord, StagesOK
    <3>2. /\ rep[t].pc = "stageRead"
          /\ stages' = [stages EXCEPT ![j] = new]
      BY <2>2 DEF RepStageWrite
    <3>3. tasks[t].status = rep[t].outcome
      BY <3>2 DEF DispatchInv, RepInv, Reported
    <3>4. StageSound(j, rep[t].stage)
      BY <1>2, <3>2
    <3>5. StageSound(j, new)
      BY <1>1, <3>1, <3>3, <3>4, StageVerdictKeeps
    <3> HIDE DEF new
    <3> QED BY <1>1, <1>2, <3>1, <3>2, <3>5
  <2> QED BY <2>1, <2>2
<1> QED BY <1>2, <1>4, <1>5, <1>6, <1>7, VerdictFrame

\* A stage that does not exist claims nothing.
LEMMA AbsentStageSilent ==
    ASSUME NEW j \in Jobs
    PROVE  /\ AbsentStage(j).status \notin {"Succeeded", "Failed"}
           /\ \A t \in TasksOf(j) : AbsentStage(j).slots[t] \notin Outcomes
BY DEF AbsentStage, Outcomes

\* A new master makes no claim at all.
LEMMA Verdict_MasterRestart ==
    ASSUME MasterRestart
    PROVE  VerdictInv'
<1> USE DEF MasterRestart
<1>1. \A j \in Jobs : stages'[j] = AbsentStage(j) /\ jobs'[j] = "Absent"
  OBVIOUS
<1>2. \A w \in Workers : poll'[w].pc = "none"
  BY DEF IdlePoll
<1>3. \A t \in Tasks : rep'[t].pc \in {"none", "lost"}
  BY DEF IdleRep
<1> HIDE DEF MasterRestart
<1>4. StageInv'
  BY <1>1, <1>2, <1>3, AbsentStageSilent DEF StageInv, StageSound
<1>5. JobInv'
  BY <1>1, <1>3 DEF JobInv, StatusGrounded, Outcomes, Jobs, PlannedJobs
<1> QED BY <1>4, <1>5 DEF VerdictInv

-----------------------------------------------------------------------------
(* The induction. *)

\* The master starts with empty tables and the workers with empty hands.
LEMMA InvInit == Init => CoreInv
<1> SUFFICES ASSUME Init PROVE CoreInv
  OBVIOUS
<1>1. Shape
  BY ShapeInit
<1>2. \A j \in Jobs : sub[j].pc = "idle"
  BY DEF Init, IdleSub
<1>3. \A t \in Tasks : rep[t].pc = "none" /\ tasks[t].status = "Absent"
  BY DEF Init, IdleRep, AbsentTask
<1>4. \A w \in Workers : /\ poll[w].pc = "none" /\ poll[w].task = NoTask
                         /\ wk[w].task = NoTask
  BY DEF Init, IdlePoll
<1>5. pending = <<>>
  BY DEF Init
<1>6. DispatchInv
  <2>1. TaskInv
    BY <1>2, <1>3, TaskFacts DEF TaskInv, Inserted
  <2>2. QueueInv
    BY <1>5 DEF QueueInv
  <2>3. PollInv /\ WorkInv /\ HolderInv
    BY <1>4, NoneAssumption DEF PollInv, WorkInv, HolderInv, Holds
  <2>4. RepInv
    BY <1>3 DEF RepInv, Outcomes, Reported
  <2> QED BY <2>1, <2>2, <2>3, <2>4 DEF DispatchInv
<1>7. VerdictInv
  <2>1. \A j \in Jobs : stages[j] = AbsentStage(j) /\ jobs[j] = "Absent"
    BY DEF Init
  <2>2. StageInv
    BY <1>3, <1>4, <2>1, AbsentStageSilent DEF StageInv, StageSound
  <2>3. JobInv
    BY <1>3, <2>1 DEF JobInv, StatusGrounded, Outcomes, Jobs, PlannedJobs
  <2> QED BY <2>2, <2>3 DEF VerdictInv
<1> QED BY <1>1, <1>6, <1>7 DEF CoreInv

\* Every step keeps the invariant: by action, and within it by layer.
LEMMA InvNext == CoreInv /\ [Next]_vars => CoreInv'
<1> SUFFICES ASSUME CoreInv, [Next]_vars PROVE CoreInv'
  OBVIOUS
<1>1. Shape /\ DispatchInv /\ VerdictInv /\ QueueInv
  BY DEF CoreInv, DispatchInv
<1>2. CASE UNCHANGED vars
  <2>1. Shape'
    BY <1>1, <1>2
    DEF vars, Shape, TypeOK, JobsOK, StagesOK, TasksOK, QueueOK, CountersOK,
        SubOK, PollOK, RepOK, WkOK, BoundsOK, SubShape, HoldShape
  <2>2. DispatchInv'
    BY <1>1, <1>2
    DEF vars, DispatchInv, TaskInv, QueueInv, PollInv, WorkInv, HolderInv,
        RepInv, Holds, Inserted, Pushed, Known
  <2>3. VerdictInv'
    BY <1>1, <1>2
    DEF vars, VerdictInv, StageInv, JobInv, StageSound, StatusGrounded
  <2> QED BY <2>1, <2>2, <2>3 DEF CoreInv
<1>3. CASE MasterRestart
  BY <1>1, <1>3, Shape_MasterRestart, Dispatch_MasterRestart,
     Verdict_MasterRestart DEF CoreInv
<1>4. CASE Next /\ ~MasterRestart
  <2>1. \A t \in Tasks : tasks[t].status \in Outcomes => tasks'[t] = tasks[t]
    BY <1>1, <1>4, OutcomeKept
  <2>2. ASSUME NEW j \in Jobs,
               RequestArrives(j) \/ SubmitStep(j) \/ SqlStep(j) \/ ShowStep(j)
        PROVE  CoreInv'
    <3>1. Shape'
      BY <1>1, <2>2, Shape_Sub, Shape_SubmitInsertTask, Shape_SubmitPushPending
      DEF SubmitStep
    <3>2. DispatchInv'
      BY <1>1, <2>2, Dispatch_Sub, Dispatch_SubmitInsertTask,
         Dispatch_SubmitPushPending DEF SubmitStep
    <3>3. VerdictInv'
      BY <1>1, <2>1, <2>2, Verdict_Sub
    <3> QED BY <3>1, <3>2, <3>3 DEF CoreInv
  <2>3. ASSUME NEW w \in Workers,
               \/ PollPop(w) \/ PollStep(w) \/ WorkerStep(w)
               \/ RegisterReplyLost(w) \/ WorkerCrash(w) \/ PollRequestLost(w)
               \/ PollReplyLost(w) \/ PollTimeout(w) \/ ReportTimeout(w)
        PROVE  CoreInv'
    <3>1. Shape'
      BY <1>1, <2>3, Shape_PollPop, Shape_PollRead, Shape_PollAssign,
         Shape_PollStageWrite, Shape_Worker, Shape_WorkerReport
      DEF PollStep, WorkerStep
    <3>2. DispatchInv'
      BY <1>1, <2>3, Dispatch_PollPop, Dispatch_PollAssign,
         Dispatch_PollRespond, Dispatch_WorkerReport, Dispatch_Release
      DEF PollStep, WorkerStep
    <3>3. CASE PollStageRead(w) \/ PollStageWrite(w)
      BY <1>1, <2>1, <3>1, <3>2, <3>3, Verdict_Poll DEF CoreInv
    <3>4. CASE ~(PollStageRead(w) \/ PollStageWrite(w))
      <4>1. UNCHANGED <<jobs, stages>>
        BY <2>3, <3>4
        DEF PollPop, PollStep, PollRead, PollAssign, WorkerStep,
            WorkerRegister, WorkerPoll, PollRespond, WorkerReport, ReportAck,
            RegisterReplyLost, WorkerCrash, PollRequestLost, PollReplyLost,
            PollTimeout, ReportTimeout, tables
      <4>2. \A v \in Workers : poll'[v].pc = "stageRead" => poll'[v] = poll[v]
        <5>1. CASE PollPop(w) \/ PollRead(w) \/ PollAssign(w)
          BY <1>1, <5>1 DEF PollPop, PollRead, PollAssign, Shape, TypeOK, PollOK
        <5>2. CASE WorkerPoll(w)
          BY <1>1, <5>2 DEF WorkerPoll, Shape, TypeOK, PollOK
        <5>3. CASE PollRespond(w) \/ PollRequestLost(w) \/ PollReplyLost(w)
          BY <1>1, <5>3 DEF PollRespond, PollRequestLost, PollReplyLost,
                            IdlePoll, Shape, TypeOK, PollOK
        <5>4. CASE \/ WorkerRegister(w) \/ ReportAck(w) \/ WorkerCrash(w)
                   \/ \E outcome \in Outcomes : WorkerReport(w, outcome)
                   \/ RegisterReplyLost(w) \/ PollTimeout(w) \/ ReportTimeout(w)
          BY <5>4 DEF WorkerRegister, ReportAck, WorkerCrash, WorkerReport,
                      RegisterReplyLost, PollTimeout, ReportTimeout
        <5> QED BY <2>3, <3>4, <5>1, <5>2, <5>3, <5>4 DEF PollStep, WorkerStep
      <4>3. \A u \in Tasks : rep'[u].pc \in {"stageRead", "tallied", "jobRead"}
                => rep'[u] = rep[u]
        <5>1. ASSUME NEW outcome \in Outcomes, WorkerReport(w, outcome)
              PROVE  \A u \in Tasks :
                         rep'[u].pc \in {"stageRead", "tallied", "jobRead"}
                             => rep'[u] = rep[u]
          <6>1. rep \in [Tasks -> RepRecord]
            BY <1>1 DEF Shape, TypeOK, RepOK
          <6>2. rep'[wk[w].task].pc = "sent" \/ wk[w].task \notin Tasks
            BY <5>1, <6>1 DEF WorkerReport, RepRecord
          <6>3. \A u \in Tasks : u # wk[w].task => rep'[u] = rep[u]
            BY <5>1, <6>1 DEF WorkerReport
          <6> QED BY <6>2, <6>3
        <5>2. CASE ~\E outcome \in Outcomes : WorkerReport(w, outcome)
          BY <2>3, <3>4, <5>2
          DEF PollPop, PollStep, PollRead, PollAssign, WorkerStep,
              WorkerRegister, WorkerPoll, PollRespond, ReportAck,
              RegisterReplyLost, WorkerCrash, PollRequestLost, PollReplyLost,
              PollTimeout, ReportTimeout
        <5> QED BY <5>1, <5>2
      <4>4. VerdictInv'
        BY <1>1, <2>1, <4>1, <4>2, <4>3, Verdict_Quiet
      <4> QED BY <3>1, <3>2, <4>4 DEF CoreInv
    <3> QED BY <3>3, <3>4
  <2>4. ASSUME NEW t \in Tasks, RepStart(t) \/ RepStep(t) \/ ReportLost(t)
        PROVE  CoreInv'
    <3>1. Shape'
      BY <1>1, <2>4, Shape_RepPC, Shape_RepRead, Shape_RepStageWrite DEF RepStep
    <3>2. DispatchInv'
      BY <1>1, <2>4, Dispatch_Report, Dispatch_RepWrite DEF RepStep
    <3>3. CASE \/ RepStageRead(t) \/ RepStageWrite(t) \/ RepTally(t)
               \/ RepJobRead(t) \/ RepJobWrite(t)
      BY <1>1, <2>1, <3>1, <3>2, <3>3, Verdict_Report DEF CoreInv
    <3>4. CASE \/ RepStart(t) \/ RepCheck(t) \/ RepWrite(t) \/ RepRetain(t)
               \/ RepCount(t) \/ ReportLost(t)
      <4>1. UNCHANGED <<jobs, stages, poll>>
        BY <3>4 DEF RepStart, RepCheck, RepWrite, RepRetain, RepCount,
                    ReportLost, tables
      <4>2. \A u \in Tasks : rep'[u].pc \in {"stageRead", "tallied", "jobRead"}
                => rep'[u] = rep[u]
        BY <1>1, <3>4 DEF RepStart, RepCheck, RepWrite, RepRetain, RepCount,
                          ReportLost, Shape, TypeOK, RepOK, RepRecord
      <4>3. VerdictInv'
        BY <1>1, <2>1, <4>1, <4>2, Verdict_Quiet
      <4> QED BY <3>1, <3>2, <4>3 DEF CoreInv
    <3> QED BY <2>4, <3>3, <3>4 DEF RepStep
  <2> QED BY <1>4, <2>2, <2>3, <2>4 DEF Next, FaultStep
<1> QED BY <1>2, <1>3, <1>4

\* CoreInv holds in every reachable state.
LEMMA Invariance == Spec => []CoreInv
BY InvInit, InvNext, PTL DEF Spec

-----------------------------------------------------------------------------
(* The theorems. *)

\* The tables of ClusterInner and the handlers' variables keep their types
\* in every interleaving, with any number of jobs, workers and threads.
THEOREM TypeCorrect == Spec => []TypeOK
<1>1. CoreInv => TypeOK
  BY DEF CoreInv, Shape
<1> QED BY <1>1, Invariance, PTL

\* pop_pending_task hands every task to at most one worker, and a task that
\* has been handed out or reported does not return to the queue, whatever is
\* lost, times out, crashes or restarts.
THEOREM AtMostOnce == Spec => []AtMostOnceDispatch
<1>1. CoreInv => AtMostOnceDispatch
  <2> SUFFICES ASSUME CoreInv, NEW t \in Tasks
               PROVE  /\ \A i, k \in DOMAIN pending :
                             pending[i] = t /\ pending[k] = t => i = k
                      /\ \A v, w \in Workers : Holds(v, t) /\ Holds(w, t) => v = w
                      /\ \A w \in Workers : Holds(w, t) => ~Queued(t)
                      /\ rep[t].pc # "none" => ~Queued(t)
    BY DEF AtMostOnceDispatch
  <2>1. QueueInv /\ HolderInv
    BY DEF CoreInv, DispatchInv
  <2> QED BY <2>1 DEF QueueInv, HolderInv, Queued
<1> QED BY <1>1, Invariance, PTL

\* update_task decides a task once: no later report, poll or timeout changes
\* its outcome or the worker recorded with it; only a restart forgets it.
THEOREM OutcomesStable == Spec => TerminalTaskStable
<1>1. CoreInv /\ [Next]_vars =>
          [\A t \in Tasks : tasks[t].status \in Outcomes =>
               tasks'[t] \in {tasks[t], AbsentTask}]_vars
  <2> SUFFICES ASSUME CoreInv, Next, NEW t \in Tasks, tasks[t].status \in Outcomes
               PROVE  tasks'[t] \in {tasks[t], AbsentTask}
    BY DEF vars
  <2>1. CASE MasterRestart
    BY <2>1 DEF MasterRestart
  <2>2. CASE ~MasterRestart
    BY <2>2, OutcomeKept DEF CoreInv
  <2> QED BY <2>1, <2>2
<1> QED BY <1>1, Invariance, PTL DEF Spec, TerminalTaskStable

\* A Succeeded stage has only succeeded tasks and a Failed one has a failed
\* task, although two reports of one stage may overwrite each other's slots.
THEOREM StagesSound == Spec => []StageVerdictSound
<1>1. CoreInv => StageVerdictSound
  <2> SUFFICES ASSUME CoreInv, NEW j \in PlannedJobs
               PROVE  /\ stages[j].status = "Succeeded" =>
                             \A t \in TasksOf(j) : tasks[t].status = "Succeeded"
                      /\ stages[j].status = "Failed" =>
                             \E t \in TasksOf(j) : tasks[t].status = "Failed"
    BY DEF StageVerdictSound
  <2>1. StageSound(j, stages[j])
    BY DEF CoreInv, VerdictInv, StageInv, Jobs
  <2> QED BY <2>1 DEF StageSound
<1> QED BY <1>1, Invariance, PTL

\* A job of POST /v1/jobs never shows an outcome that none of its tasks has,
\* although jobs are rewritten from verdicts and copies that are out of date.
THEOREM JobsGrounded == Spec => []JobVerdictGrounded
<1>1. CoreInv => JobVerdictGrounded
  BY DEF CoreInv, VerdictInv, JobInv, StatusGrounded, JobVerdictGrounded
<1> QED BY <1>1, Invariance, PTL
=============================================================================
