------------------------ MODULE ClusterLedgerProofs ------------------------
(***************************************************************************)
(* The fourth layer of the inductive invariant of Cluster, and what        *)
(* follows from the whole of it: no task is forgotten, every successful    *)
(* run is counted once, results of inline statements stay, and the cluster *)
(* implements TaskDispatch.  The last part says when a report can panic.   *)
(***************************************************************************)
EXTENDS ClusterProofs, ClusterRefinement, FiniteSetTheorems

-----------------------------------------------------------------------------
(* What one step can do to one task, to its report and to one poll. *)

\* A task is inserted, assigned by the poll that holds it, or settled by its
\* report, in this order.
LEMMA TaskMoves ==
    ASSUME CoreInv, Next, ~MasterRestart, NEW t \in Tasks
    PROVE  \/ tasks'[t] = tasks[t]
           \/ /\ tasks[t].status = "Absent"
              /\ tasks'[t] = [status |-> "Pending", worker |-> NoWorker]
              /\ sub'[JobOf(t)].pc = "push" /\ t = <<JobOf(t), sub'[JobOf(t)].k>>
              /\ ~Known(t)
              /\ UNCHANGED <<pending, poll, rep>>
           \/ /\ tasks[t].status = "Pending"
              /\ \E w \in Workers : /\ tasks'[t] = [status |-> "Assigned", worker |-> w]
                                    /\ poll[w].task = t /\ poll'[w].task = t
              /\ UNCHANGED <<pending, rep, sub>>
           \/ /\ tasks[t].status = "Assigned" /\ rep[t].pc = "checked"
              /\ tasks'[t] = [status |-> rep[t].outcome, worker |-> rep[t].worker]
              /\ rep'[t].pc = "written"
              /\ UNCHANGED <<pending, poll, sub>>
<1>1. Shape /\ DispatchInv
  BY DEF CoreInv
<1>2. tasks \in [Tasks -> [status : TaskStatus, worker : Workers \cup {NoWorker}]]
  BY <1>1 DEF Shape, TypeOK, TasksOK
<1>3. ASSUME NEW j \in Jobs, SubmitInsertTask(j), t = <<j, sub[j].k>>
      PROVE  /\ tasks[t].status = "Absent"
             /\ tasks'[t] = [status |-> "Pending", worker |-> NoWorker]
             /\ sub'[JobOf(t)].pc = "push" /\ t = <<JobOf(t), sub'[JobOf(t)].k>>
             /\ ~Known(t)
             /\ UNCHANGED <<pending, poll, rep>>
  <2>1. JobOf(t) = j /\ t[2] = sub[j].k /\ sub[j].k \in Nat
    BY <1>1, <1>3 DEF JobOf, Shape, TypeOK, SubOK
  <2>2. ~Inserted(t) /\ ~Known(t)
    BY <1>3, <2>1 DEF Inserted, Known, Pushed, SubmitInsertTask
  <2>3. tasks[t].status = "Absent"
    BY <1>1, <2>2 DEF DispatchInv, TaskInv
  <2>4. sub'[j].pc = "push" /\ sub'[j].k = sub[j].k
    BY <1>1, <1>3 DEF SubmitInsertTask, Shape, TypeOK, SubOK
  <2>5. /\ tasks'[t] = [status |-> "Pending", worker |-> NoWorker]
        /\ UNCHANGED <<pending, poll, rep>>
    BY <1>2, <1>3 DEF SubmitInsertTask
  <2> QED BY <1>3, <2>1, <2>2, <2>3, <2>4, <2>5
<1>4. ASSUME NEW w \in Workers, PollAssign(w), t = poll[w].task
      PROVE  /\ tasks[t].status = "Pending"
             /\ tasks'[t] = [status |-> "Assigned", worker |-> w]
             /\ poll[w].task = t /\ poll'[w].task = t
             /\ UNCHANGED <<pending, rep, sub>>
  <2>1. tasks[t].status = "Pending"
    BY <1>1, <1>4 DEF PollAssign, DispatchInv, PollInv
  <2>2. poll'[w].task = t
    BY <1>1, <1>4 DEF PollAssign, Shape, TypeOK, PollOK
  <2> QED BY <1>2, <1>4, <2>1, <2>2 DEF PollAssign
<1>5. ASSUME RepWrite(t)
      PROVE  /\ tasks[t].status = "Assigned" /\ rep[t].pc = "checked"
             /\ tasks'[t] = [status |-> rep[t].outcome, worker |-> rep[t].worker]
             /\ rep'[t].pc = "written"
             /\ UNCHANGED <<pending, poll, sub>>
  <2>1. rep[t].pc = "checked" /\ tasks[t].status = "Assigned"
    BY <1>1, <1>5 DEF RepWrite, DispatchInv, RepInv
  <2>2. rep[t] \in RepRecord /\ rep \in [Tasks -> RepRecord]
    BY <1>1 DEF Shape, TypeOK, RepOK
  <2> QED BY <1>2, <1>5, <2>1, <2>2 DEF RepWrite, RepRecord
<1>6. \/ tasks'[t] = tasks[t]
      \/ \E j \in Jobs : SubmitInsertTask(j) /\ t = <<j, sub[j].k>>
      \/ \E w \in Workers : PollAssign(w) /\ t = poll[w].task
      \/ RepWrite(t)
  <2>1. ASSUME NEW j \in Jobs, SubmitInsertTask(j), t # <<j, sub[j].k>>
        PROVE  tasks'[t] = tasks[t]
    BY <1>2, <2>1 DEF SubmitInsertTask
  <2>2. ASSUME NEW w \in Workers, PollAssign(w), t # poll[w].task
        PROVE  tasks'[t] = tasks[t]
    BY <1>2, <2>2 DEF PollAssign
  <2>3. ASSUME NEW u \in Tasks, RepWrite(u), t # u
        PROVE  tasks'[t] = tasks[t]
    BY <1>2, <2>3 DEF RepWrite
  <2> QED BY Writers, <2>1, <2>2, <2>3
<1> QED BY <1>3, <1>4, <1>5, <1>6

\* A report is sent once and goes through the lock sections of complete_task.
LEMMA ReportMoves ==
    ASSUME CoreInv, Next, ~MasterRestart, NEW t \in Tasks
    PROVE  \/ rep'[t] = rep[t]
           \/ rep[t].pc = "none" /\ rep'[t].pc = "sent"
           \/ rep[t].pc = "sent" /\ rep'[t].pc = "notFound" /\ tasks[t].status = "Absent"
           \/ /\ rep[t].pc = "sent" /\ rep'[t].pc = "read"
              /\ rep'[t].worker = tasks[t].worker
           \/ rep[t].pc = "sent" /\ rep'[t].pc = "lost" /\ faults' = faults + 1
           \/ /\ rep[t].pc = "read" /\ rep'[t].pc = "checked"
              /\ rep'[t].worker = rep[t].worker
           \/ rep[t].pc = "checked" /\ rep'[t].pc = "written" /\ RepWrite(t)
           \/ rep[t].pc = "written" /\ rep'[t].pc = "retained"
           \/ rep[t].pc = "retained" /\ rep'[t].pc = "counted" /\ RepCount(t)
           \/ /\ rep[t].pc \in Reported \ {"written", "retained"}
              /\ rep'[t].pc \in Reported \ {"written", "retained", "counted"}
<1>1. /\ Shape /\ DispatchInv
      /\ rep \in [Tasks -> RepRecord] /\ rep[t] \in RepRecord
  BY DEF CoreInv, Shape, TypeOK, RepOK
<1>2. ASSUME NEW u \in Tasks, RepStart(u) \/ RepStep(u) \/ ReportLost(u), u # t
      PROVE  rep'[t] = rep[t]
  BY <1>1, <1>2 DEF RepStart, RepStep, ReportLost, RepCheck, RepWrite, RepRetain,
                    RepCount, RepStageRead, RepStageWrite, RepTally,
                    RepJobRead, RepJobWrite
<1>3. ASSUME NEW w \in Workers, NEW o \in Outcomes, WorkerReport(w, o)
      PROVE  rep'[t] = rep[t] \/ (rep[t].pc = "none" /\ rep'[t].pc = "sent")
  <2>1. wk[w].task \in Tasks => rep[wk[w].task].pc = "none"
    BY <1>1, <1>3 DEF WorkerReport, DispatchInv, WorkInv
  <2> QED BY <1>1, <1>3, <2>1 DEF WorkerReport, RepRecord
<1>4. CASE RepStart(t)
  BY <1>1, <1>4 DEF RepStart, RepRecord
<1>5. CASE ReportLost(t)
  BY <1>1, <1>5 DEF ReportLost, RepRecord, Fault
<1>6. CASE RepCheck(t)
  <2>1. tasks[t].status \notin Outcomes
    BY <1>1, <1>6 DEF RepCheck, DispatchInv, RepInv, Outcomes
  <2> QED BY <1>1, <1>6, <2>1 DEF RepCheck, RepRecord
<1>7. CASE RepWrite(t)
  <2>1. rep[t].pc = "checked"
    BY <1>1, <1>7 DEF RepWrite, DispatchInv, RepInv
  <2> QED BY <1>1, <1>7, <2>1 DEF RepWrite, RepRecord
<1>8. CASE RepRetain(t) \/ RepCount(t)
  BY <1>1, <1>8 DEF RepRetain, RepCount, RepRecord
<1>9. CASE \/ RepStageRead(t) \/ RepStageWrite(t) \/ RepTally(t)
           \/ RepJobRead(t) \/ RepJobWrite(t)
  BY <1>1, <1>9 DEF RepStageRead, RepStageWrite, RepTally, RepJobRead,
                    RepJobWrite, RepRecord, Reported
<1> QED BY Writers, <1>2, <1>3, <1>4, <1>5, <1>6, <1>7, <1>8, <1>9 DEF RepStep

\* The queue gets the task a submission has just inserted, and loses its head
\* to a poll: the retain of update_task never finds anything to remove.
LEMMA QueueMoves ==
    ASSUME CoreInv, Next, ~MasterRestart
    PROVE  \/ pending' = pending
           \/ \E j \in Jobs : SubmitPushPending(j)
           \/ \E w \in Workers : PollPop(w) /\ pending # <<>>
<1>1. ASSUME NEW t \in Tasks, RepRetain(t)
      PROVE  pending' = pending
  <2>1. \A i \in DOMAIN pending : pending[i] # t
    BY <1>1 DEF CoreInv, DispatchInv, QueueInv, RepRetain
  <2> QED BY <1>1, <2>1 DEF RepRetain
<1>2. ASSUME NEW w \in Workers, PollPop(w), pending = <<>>
      PROVE  pending' = pending
  BY <1>2 DEF PollPop
<1>3. \/ pending' = pending
      \/ \E j \in Jobs : SubmitPushPending(j)
      \/ \E w \in Workers : PollPop(w)
      \/ \E t \in Tasks : RepRetain(t)
  BY Zenon
  DEF Next, RequestArrives, SubmitRejected, SubmitBegin, ShowBegin,
      SubmitStep, SubmitInsertTask, SubmitInsertJob, SubmitRunJob,
      SubmitRespond, SqlStep, SqlIncRound, SqlPlan, SqlExecute, SqlCountRound,
      RecordRound, ShowStep, ShowIncRound, ShowRendered, ShowRenderError,
      PollStep, PollRead, PollAssign, PollStageRead, PollStageWrite,
      RepStart, RepStep, RepCheck, RepWrite, RepCount, RepStageRead,
      RepStageWrite, RepTally, RepJobRead, RepJobWrite, WorkerStep,
      WorkerRegister, WorkerPoll, PollRespond, WorkerReport, ReportAck,
      FaultStep, RegisterReplyLost, WorkerCrash, PollRequestLost,
      PollReplyLost, PollTimeout, ReportTimeout, ReportLost, tables
<1> QED BY <1>1, <1>2, <1>3

\* Only the handler of its own request moves a submission.
LEMMA SubWriters ==
    ASSUME Next, ~MasterRestart
    PROVE  \/ sub' = sub
           \/ \E j \in Jobs :
                  RequestArrives(j) \/ SubmitStep(j) \/ SqlStep(j) \/ ShowStep(j)
BY Zenon
DEF Next, PollPop, PollStep, PollRead, PollAssign, PollStageRead,
    PollStageWrite, RepStart, RepStep, RepCheck, RepWrite, RepRetain,
    RepCount, RepStageRead, RepStageWrite, RepTally, RepJobRead,
    RepJobWrite, WorkerStep, WorkerRegister, WorkerPoll, PollRespond,
    WorkerReport, ReportAck, FaultStep, RegisterReplyLost, WorkerCrash,
    PollRequestLost, PollReplyLost, PollTimeout, ReportTimeout, ReportLost

\* A submission leaves its loop only by pushing, and no handler of this
\* master revives a submission that an earlier one has lost.
LEMMA SubMoves ==
    ASSUME CoreInv, Next, ~MasterRestart, NEW j \in Jobs
    PROVE  /\ sub'[j].pc = "lost" <=> sub[j].pc = "lost"
           /\ sub[j].pc = "push" => sub'[j] = sub[j] \/ SubmitPushPending(j)
<1>1. sub \in [Jobs -> [pc : SubPCs, k : Nat]]
  BY DEF CoreInv, Shape, TypeOK, SubOK
<1>2. ASSUME NEW i \in Jobs,
             RequestArrives(i) \/ SubmitStep(i) \/ SqlStep(i) \/ ShowStep(i)
      PROVE  /\ i # j => sub'[j] = sub[j]
             /\ sub'[i].pc # "lost" /\ sub[i].pc # "lost"
             /\ sub[i].pc = "push" => SubmitPushPending(i)
  BY <1>1, <1>2
  DEF RequestArrives, SubmitRejected, SubmitBegin, ShowBegin, SubmitStep,
      SubmitInsertTask, SubmitPushPending, SubmitInsertJob, SubmitRunJob,
      SubmitRespond, SqlStep, SqlIncRound, SqlPlan, SqlExecute, SqlCountRound,
      RecordRound, ShowStep, ShowIncRound, ShowRendered, ShowRenderError
<1>3. \/ sub' = sub
      \/ \E i \in Jobs :
             RequestArrives(i) \/ SubmitStep(i) \/ SqlStep(i) \/ ShowStep(i)
  BY SubWriters
<1> QED BY <1>2, <1>3

\* A poll takes the head of the queue and keeps it until it is answered.
LEMMA PollMoves ==
    ASSUME CoreInv, Next, ~MasterRestart, NEW w \in Workers
    PROVE  \/ poll'[w].task = poll[w].task
           \/ /\ PollPop(w) /\ pending # <<>>
              /\ poll[w].task = NoTask /\ poll'[w].task = Head(pending)
           \/ /\ PollRespond(w) \/ PollReplyLost(w)
              /\ poll[w].pc = "reply" /\ poll'[w].task = NoTask
<1>1. /\ Shape /\ DispatchInv
      /\ poll \in [Workers -> [pc : PollPCs, task : Tasks \cup {NoTask},
                              stage : Stages \cup {NoStage}]]
  BY DEF CoreInv, Shape, TypeOK, PollOK
<1>2. ASSUME NEW v \in Workers, v # w,
             \/ PollPop(v) \/ PollStep(v) \/ WorkerPoll(v) \/ PollRespond(v)
             \/ PollRequestLost(v) \/ PollReplyLost(v)
      PROVE  poll'[w] = poll[w]
  BY <1>1, <1>2 DEF PollPop, PollStep, PollRead, PollAssign, PollStageRead,
                    PollStageWrite, WorkerPoll, PollRespond, PollRequestLost,
                    PollReplyLost
<1>3. CASE PollPop(w)
  BY <1>1, <1>3 DEF PollPop, Shape, HoldShape
<1>4. CASE PollStep(w)
  <2>1. PollRead(w) => tasks[poll[w].task].status # "Absent"
    BY <1>1 DEF PollRead, Shape, HoldShape, PollBusy, DispatchInv, PollInv
  <2> QED BY <1>1, <1>4, <2>1 DEF PollStep, PollRead, PollAssign,
                                  PollStageRead, PollStageWrite
<1>5. CASE WorkerPoll(w)
  BY <1>1, <1>5 DEF WorkerPoll
<1>6. CASE PollRespond(w) \/ PollReplyLost(w)
  BY <1>1, <1>6 DEF PollRespond, PollReplyLost, IdlePoll
<1>7. CASE PollRequestLost(w)
  BY <1>1, <1>7 DEF PollRequestLost, IdlePoll, Shape, HoldShape
<1> QED BY Writers, <1>2, <1>3, <1>4, <1>5, <1>6, <1>7

-----------------------------------------------------------------------------
(* OwnerInv. *)

\* A task's worker is written with its assignment and then only copied.
LEMMA Owner_Next ==
    ASSUME CoreInv, OwnerInv, Next, ~MasterRestart
    PROVE  OwnerInv'
<1> SUFFICES ASSUME NEW t \in Tasks
             PROVE  /\ tasks'[t].status \in {"Absent", "Pending"} =>
                           tasks'[t].worker = NoWorker
                    /\ tasks'[t].status \notin {"Absent", "Pending"} =>
                           tasks'[t].worker \in Workers
                    /\ rep'[t].pc \in {"read", "checked"} =>
                           rep'[t].worker = tasks'[t].worker
  BY DEF OwnerInv
<1>1. /\ tasks[t].status \in {"Absent", "Pending"} => tasks[t].worker = NoWorker
      /\ tasks[t].status \notin {"Absent", "Pending"} => tasks[t].worker \in Workers
      /\ rep[t].pc \in {"read", "checked"} => rep[t].worker = tasks[t].worker
      /\ rep[t].outcome \in Outcomes
      /\ ~Known(t) => rep[t].pc = "none"
      /\ tasks[t].status = "Pending" => rep[t].pc \notin {"read", "checked"}
  BY DEF OwnerInv, CoreInv, Shape, TypeOK, RepOK, RepRecord, DispatchInv, RepInv
<1>2. /\ tasks'[t].status \in {"Absent", "Pending"} => tasks'[t].worker = NoWorker
      /\ tasks'[t].status \notin {"Absent", "Pending"} => tasks'[t].worker \in Workers
  <2>1. \/ tasks'[t] = tasks[t]
        \/ tasks'[t].status = "Pending" /\ tasks'[t].worker = NoWorker
        \/ tasks'[t].status = "Assigned" /\ tasks'[t].worker \in Workers
        \/ tasks'[t].status \in Outcomes /\ tasks'[t].worker \in Workers
    <3>1. CASE tasks'[t] = [status |-> "Pending", worker |-> NoWorker]
      BY <3>1
    <3>2. ASSUME NEW w \in Workers, tasks'[t] = [status |-> "Assigned", worker |-> w]
          PROVE  tasks'[t].status = "Assigned" /\ tasks'[t].worker \in Workers
      BY <3>2
    <3>3. ASSUME tasks[t].status = "Assigned", rep[t].pc = "checked",
                 tasks'[t] = [status |-> rep[t].outcome, worker |-> rep[t].worker]
          PROVE  tasks'[t].status \in Outcomes /\ tasks'[t].worker \in Workers
      BY <1>1, <3>3
    <3> QED BY TaskMoves, <3>1, <3>2, <3>3
  <2> QED BY <1>1, <2>1 DEF Outcomes
<1>3. rep'[t].pc \in {"read", "checked"} =>
          \/ rep'[t] = rep[t]
          \/ rep[t].pc = "sent" /\ rep'[t].worker = tasks[t].worker
          \/ rep[t].pc = "read" /\ rep'[t].worker = rep[t].worker
  BY ReportMoves DEF Reported
<1>4. rep'[t].pc \in {"read", "checked"} => tasks'[t] = tasks[t]
  <2>1. tasks'[t] # tasks[t] => \/ rep' = rep /\ rep[t].pc \notin {"read", "checked"}
                                \/ rep'[t].pc = "written"
    BY <1>1, TaskMoves
  <2> QED BY <2>1
<1> QED BY <1>1, <1>2, <1>3, <1>4

-----------------------------------------------------------------------------
(* AnswerInv. *)

\* Until something fails, only the handlers and the workers' loops move.
LEMMA NoFaultYet ==
    ASSUME CoreInv, Next, ~MasterRestart, faults' = 0
    PROVE  /\ faults = 0
           /\ \/ \E j \in Jobs : RequestArrives(j) \/ SubmitStep(j)
                                  \/ SqlStep(j) \/ ShowStep(j)
              \/ \E w \in Workers : PollPop(w) \/ PollStep(w) \/ WorkerStep(w)
              \/ \E t \in Tasks : RepStart(t) \/ RepStep(t)
<1>1. faults \in Nat
  BY BoundsAssumption DEF CoreInv, Shape, TypeOK, BoundsOK
<1>2. ~FaultStep
  <2>1. ASSUME Fault PROVE FALSE
    BY <1>1, <2>1 DEF Fault
  <2> QED BY <2>1 DEF FaultStep, RegisterReplyLost, WorkerCrash,
                      PollRequestLost, PollReplyLost, PollTimeout,
                      ReportTimeout, ReportLost
<1>3. faults' = faults
  BY <1>2, Writers
<1> QED BY <1>2, <1>3 DEF Next

\* A worker that asks waits, unless its request fails; a report that found no
\* task belongs to a submission this master has never seen.
LEMMA Answer_Next ==
    ASSUME CoreInv, AnswerInv, Next, ~MasterRestart
    PROVE  AnswerInv'
<1>1. ASSUME faults' = 0, NEW w \in Workers, poll'[w].pc # "none"
      PROVE  wk'[w].pc = "polling"
  <2>1. /\ poll \in [Workers -> [pc : PollPCs, task : Tasks \cup {NoTask},
                                stage : Stages \cup {NoStage}]]
        /\ wk \in [Workers -> [pc : WkPCs, task : Tasks \cup {NoTask}]]
    BY DEF CoreInv, Shape, TypeOK, PollOK, WkOK
  <2>2. faults = 0
    BY <1>1, NoFaultYet
  <2>3. poll[w].pc # "none" => wk[w].pc = "polling"
    BY <2>2 DEF AnswerInv
  <2>4. ASSUME NEW j \in Jobs, RequestArrives(j) \/ SubmitStep(j)
                                \/ SqlStep(j) \/ ShowStep(j)
        PROVE  poll' = poll /\ wk' = wk
    BY <2>4
    DEF RequestArrives, SubmitRejected, SubmitBegin, ShowBegin, SubmitStep,
        SubmitInsertTask, SubmitPushPending, SubmitInsertJob, SubmitRunJob,
        SubmitRespond, SqlStep, SqlIncRound, SqlPlan, SqlExecute,
        SqlCountRound, RecordRound, ShowStep, ShowIncRound, ShowRendered,
        ShowRenderError
  <2>5. ASSUME NEW t \in Tasks, RepStart(t) \/ RepStep(t)
        PROVE  poll' = poll /\ wk' = wk
    BY <2>5 DEF RepStart, RepStep, RepCheck, RepWrite, RepRetain, RepCount,
                RepStageRead, RepStageWrite, RepTally, RepJobRead, RepJobWrite
  <2>6. ASSUME NEW v \in Workers, PollPop(v) \/ PollStep(v)
        PROVE  wk' = wk /\ (poll'[w].pc # "none" => poll[w].pc # "none")
    BY <2>1, <2>6 DEF PollPop, PollStep, PollRead, PollAssign, PollStageRead,
                      PollStageWrite
  <2>7. ASSUME NEW v \in Workers, WorkerStep(v)
        PROVE  wk'[w].pc = "polling"
    <3>1. CASE v # w
      <4>1. poll'[w] = poll[w] /\ wk'[w] = wk[w]
        BY <2>1, <2>7, <3>1 DEF WorkerStep, WorkerRegister, WorkerPoll,
                                PollRespond, WorkerReport, ReportAck
      <4> QED BY <1>1, <2>3, <4>1
    <3>2. CASE v = w
      <4>1. CASE WorkerPoll(w)
        BY <2>1, <4>1 DEF WorkerPoll
      <4>2. CASE PollRespond(w)
        BY <1>1, <2>1, <4>2 DEF PollRespond, IdlePoll
      <4>3. CASE \/ WorkerRegister(w) \/ ReportAck(w)
                 \/ \E o \in Outcomes : WorkerReport(w, o)
        BY <1>1, <2>3, <4>3 DEF WorkerRegister, ReportAck, WorkerReport
      <4> QED BY <2>7, <3>2, <4>1, <4>2, <4>3 DEF WorkerStep
    <3> QED BY <3>1, <3>2
  <2> QED BY <1>1, <2>3, <2>4, <2>5, <2>6, <2>7, NoFaultYet
<1>2. ASSUME NEW t \in Tasks,
             rep'[t].pc = "notFound" \/ (rep'[t].pc = "lost" /\ faults' = 0)
      PROVE  tasks'[t].status = "Absent"
  <2>1. faults' = 0 => faults = 0
    BY NoFaultYet
  <2>2. tasks[t].status = "Absent"
    <3>1. faults \in Nat
      BY BoundsAssumption DEF CoreInv, Shape, TypeOK, BoundsOK
    <3> QED BY <1>2, <2>1, <3>1, ReportMoves DEF AnswerInv, Reported
  <2>3. ~Known(t) => rep[t].pc = "none"
    BY DEF CoreInv, DispatchInv, RepInv
  <2> QED BY <1>2, <2>2, <2>3, TaskMoves
<1> QED BY <1>1, <1>2 DEF AnswerInv

-----------------------------------------------------------------------------
(* NoForgottenTask: whoever lets go of a task has passed it on. *)

\* A task that is in the queue stays there until a poll takes it.
LEMMA QueuedKept ==
    ASSUME CoreInv, Next, ~MasterRestart, NEW t \in Tasks, Queued(t)
    PROVE  Queued(t)' \/ \E w \in Workers : poll'[w].task = t
<1>1. PICK i \in DOMAIN pending : pending[i] = t
  BY DEF Queued
<1>2. pending \in Seq(Tasks)
  BY DEF CoreInv, Shape, TypeOK, QueueOK
<1>3. CASE pending' = pending
  BY <1>1, <1>3 DEF Queued
<1>4. ASSUME NEW j \in Jobs, SubmitPushPending(j)
      PROVE  Queued(t)'
  <2>1. i \in DOMAIN pending' /\ pending'[i] = pending[i]
    BY <1>1, <1>2, <1>4 DEF SubmitPushPending
  <2> QED BY <1>1, <2>1 DEF Queued
<1>5. ASSUME NEW w \in Workers, PollPop(w), pending # <<>>
      PROVE  Queued(t)' \/ poll'[w].task = t
  <2>1. pending' = Tail(pending) /\ poll'[w].task = Head(pending)
    BY <1>5 DEF PollPop, CoreInv, Shape, TypeOK, PollOK
  <2>2. CASE i = 1
    BY <1>1, <1>2, <2>1, <2>2
  <2>3. CASE i # 1
    <3>1. i - 1 \in DOMAIN pending' /\ pending'[i - 1] = t
      BY <1>1, <1>2, <1>5, <2>1, <2>3
    <3> QED BY <3>1 DEF Queued
  <2> QED BY <2>2, <2>3
<1> QED BY <1>3, <1>4, <1>5, QueueMoves

\* Without a fault, a worker that lets go of a task has reported it, or the
\* task is over.
LEMMA HolderKept ==
    ASSUME CoreInv, AnswerInv, Next, ~MasterRestart, faults' = 0,
           NEW t \in Tasks, NEW w \in Workers, Holds(w, t),
           tasks[t].status \in {"Pending", "Assigned"}
    PROVE  Holds(w, t)' \/ rep'[t].pc = "sent"
<1>1. /\ Shape /\ DispatchInv /\ t # NoTask
      /\ wk \in [Workers -> [pc : WkPCs, task : Tasks \cup {NoTask}]]
      /\ poll \in [Workers -> [pc : PollPCs, task : Tasks \cup {NoTask},
                              stage : Stages \cup {NoStage}]]
      /\ rep \in [Tasks -> RepRecord]
  BY NoneAssumption DEF CoreInv, Shape, TypeOK, WkOK, PollOK, RepOK
<1>2. faults = 0 /\ faults' # faults + 1
  BY NoFaultYet, BoundsAssumption DEF CoreInv, Shape, TypeOK, BoundsOK
<1>3. CASE poll[w].task = t /\ poll'[w].task # t
  <2>1. PollRespond(w) /\ poll[w].pc = "reply"
    BY <1>1, <1>2, <1>3, PollMoves DEF PollReplyLost, Fault
  <2>2. wk[w].pc = "polling"
    BY <1>2, <2>1 DEF AnswerInv
  <2> QED BY <1>1, <1>3, <2>1, <2>2 DEF PollRespond, Holds
<1>4. CASE wk[w].task = t
  <2>1. ASSUME NEW v \in Workers, v # w, WorkerStep(v)
        PROVE  wk'[w] = wk[w]
    BY <1>1, <2>1 DEF WorkerStep, WorkerRegister, WorkerPoll, PollRespond,
                      WorkerReport, ReportAck
  <2>2. wk[w].pc \in {"executing", "reporting"} /\ poll[w].pc = "none"
    BY <1>1, <1>4 DEF Shape, HoldShape
  <2>3. ASSUME NEW o \in Outcomes, WorkerReport(w, o)
        PROVE  rep'[t].pc = "sent"
    BY <1>1, <1>4, <2>3 DEF WorkerReport, RepRecord
  <2>4. ~ReportAck(w)
    <3> SUFFICES ASSUME ReportAck(w) PROVE FALSE
      OBVIOUS
    <3>1. rep[t].pc \in {"done", "panicked", "notFound", "lost"}
      BY <1>4 DEF ReportAck, RepOver
    <3>2. rep[t].pc \in {"done", "panicked"} => tasks[t].status \in Outcomes
      BY <1>1 DEF DispatchInv, RepInv, Reported, RepRecord
    <3>3. rep[t].pc \in {"notFound", "lost"} => tasks[t].status = "Absent"
      BY <1>2 DEF AnswerInv
    <3> QED BY <3>1, <3>2, <3>3 DEF Outcomes
  <2>5. CASE WorkerStep(w)
    BY <2>2, <2>3, <2>4, <2>5 DEF WorkerStep, WorkerRegister, WorkerPoll, PollRespond
  <2>6. CASE ~\E v \in Workers : WorkerStep(v)
    <3>1. wk' = wk
      BY <2>6, NoFaultYet
      DEF RequestArrives, SubmitRejected, SubmitBegin, ShowBegin, SubmitStep,
          SubmitInsertTask, SubmitPushPending, SubmitInsertJob, SubmitRunJob,
          SubmitRespond, SqlStep, SqlIncRound, SqlPlan, SqlExecute,
          SqlCountRound, RecordRound, ShowStep, ShowIncRound, ShowRendered,
          ShowRenderError, PollPop, PollStep, PollRead, PollAssign,
          PollStageRead, PollStageWrite, RepStart, RepStep, RepCheck,
          RepWrite, RepRetain, RepCount, RepStageRead, RepStageWrite,
          RepTally, RepJobRead, RepJobWrite
    <3> QED BY <1>4, <3>1 DEF Holds
  <2> QED BY <1>4, <2>1, <2>5, <2>6 DEF Holds
<1> QED BY <1>3, <1>4 DEF Holds

\* A task passes from the submission to the queue, to a poll, to a worker and
\* to its report without a gap.
LEMMA Forgotten_Next ==
    ASSUME CoreInv, AnswerInv, NoForgottenTask, Next, ~MasterRestart
    PROVE  NoForgottenTask'
<1> SUFFICES ASSUME NEW t \in Tasks, tasks'[t].status \in {"Pending", "Assigned"},
                    faults' = 0
             PROVE  \/ Queued(t)'
                    \/ /\ sub'[JobOf(t)].pc = "push"
                       /\ t = <<JobOf(t), sub'[JobOf(t)].k>>
                    \/ \E w \in Workers : Holds(w, t)'
                    \/ rep'[t].pc \in RepBusy \cup {"sent"}
  <2>1. faults' \in Nat
    <3>1. faults \in Nat
      BY BoundsAssumption DEF CoreInv, Shape, TypeOK, BoundsOK
    <3>2. faults' \in {faults, faults + 1}
      BY Writers DEF FaultStep, RegisterReplyLost, WorkerCrash, PollRequestLost,
                     PollReplyLost, PollTimeout, ReportTimeout, ReportLost, Fault
    <3> QED BY <3>1, <3>2
  <2> QED BY <2>1 DEF NoForgottenTask
<1>1. faults = 0 /\ faults' # faults + 1
  BY NoFaultYet, BoundsAssumption DEF CoreInv, Shape, TypeOK, BoundsOK
<1>2. CASE tasks'[t] # tasks[t]
  <2>1. rep[t].outcome \notin {"Pending", "Assigned"}
    BY DEF CoreInv, Shape, TypeOK, RepOK, RepRecord, Outcomes
  <2>2. ~(tasks'[t] = [status |-> rep[t].outcome, worker |-> rep[t].worker])
    BY <2>1
  <2> QED BY <1>2, <2>2, TaskMoves DEF Holds
<1>3. CASE tasks'[t] = tasks[t]
  <2>1. \/ Queued(t)
        \/ sub[JobOf(t)].pc = "push" /\ t = <<JobOf(t), sub[JobOf(t)].k>>
        \/ \E w \in Workers : Holds(w, t)
        \/ rep[t].pc \in RepBusy \cup {"sent"}
    BY <1>1, <1>3 DEF NoForgottenTask
  <2>2. CASE Queued(t)
    BY <2>2, QueuedKept DEF Holds
  <2>3. CASE sub[JobOf(t)].pc = "push" /\ t = <<JobOf(t), sub[JobOf(t)].k>>
    <3>1. ASSUME SubmitPushPending(JobOf(t))
          PROVE  Queued(t)'
      <4>1. pending \in Seq(Tasks)
        BY DEF CoreInv, Shape, TypeOK, QueueOK
      <4>2. pending' = Append(pending, t)
        BY <2>3, <3>1 DEF SubmitPushPending
      <4>3. Len(pending) + 1 \in DOMAIN pending' /\ pending'[Len(pending) + 1] = t
        BY <4>1, <4>2
      <4> QED BY <4>3 DEF Queued
    <3> QED BY <2>3, <3>1, SubMoves, TaskFacts
  <2>4. ASSUME NEW w \in Workers, Holds(w, t)
        PROVE  Holds(w, t)' \/ rep'[t].pc = "sent"
    BY <1>3, <2>4, HolderKept
  <2>5. CASE rep[t].pc \in RepBusy \cup {"sent"}
    <3>1. rep[t].pc \notin Reported
      BY <1>3 DEF CoreInv, Shape, TypeOK, RepOK, RepRecord, DispatchInv, RepInv, Outcomes
    <3>2. tasks[t].status # "Absent"
      BY <1>3
    <3> QED BY <1>1, <2>5, <3>1, <3>2, ReportMoves DEF RepBusy, Reported
  <2> QED BY <2>1, <2>2, <2>3, <2>4, <2>5
<1> QED BY <1>2, <1>3

-----------------------------------------------------------------------------
(* CountInv. *)

\* total_runs grows with the set of counted tasks: update_task adds a task to
\* both in one lock section, and no other step changes either.
LEMMA Count_Next ==
    ASSUME CoreInv, CountInv, Next, ~MasterRestart
    PROVE  CountInv'
<1>1. /\ IsFiniteSet(CountedTasks) /\ totalRuns = Cardinality(CountedTasks)
      /\ rep \in [Tasks -> RepRecord]
      /\ DispatchInv
  BY DEF CountInv, CoreInv, Shape, TypeOK, RepOK
<1>2. \A t \in Tasks : rep[t].pc = "retained" => tasks[t].status = rep[t].outcome
  BY <1>1 DEF DispatchInv, RepInv, Reported
<1>3. \A t \in Tasks : ~RepCount(t) => (t \in CountedTasks' <=> t \in CountedTasks)
  <2> SUFFICES ASSUME NEW t \in Tasks, ~RepCount(t)
               PROVE  t \in CountedTasks' <=> t \in CountedTasks
    OBVIOUS
  <2> USE DEF CountedTasks
  <2>1. rep[t].pc = "none" => tasks[t].status # "Succeeded"
    BY <1>1 DEF DispatchInv, RepInv, Outcomes
  <2>2. rep[t].pc \in {"sent", "read", "checked"} => tasks[t].status # "Succeeded"
    BY <1>1 DEF DispatchInv, RepInv
  <2>3. CASE tasks'[t] = tasks[t]
    <3>1. CASE rep'[t] = rep[t]
      BY <2>3, <3>1
    <3>2. CASE rep'[t] # rep[t]
      BY <2>1, <2>2, <2>3, <3>2, ReportMoves DEF Reported
    <3> QED BY <3>1, <3>2
  <2>4. CASE tasks'[t] # tasks[t]
    <3>1. tasks[t].status # "Succeeded"
      BY <2>4, TaskMoves
    <3>2. tasks'[t].status # "Succeeded" \/ rep'[t].pc = "written"
      <4>1. \A w : /\ [status |-> "Assigned", worker |-> w].status # "Succeeded"
                   /\ [status |-> "Pending", worker |-> w].status # "Succeeded"
        OBVIOUS
      <4> QED BY <2>4, <4>1, TaskMoves
    <3> QED BY <3>1, <3>2
  <2> QED BY <2>3, <2>4
<1>4. CASE \E t \in Tasks : RepCount(t)
  <2>1. PICK t \in Tasks : RepCount(t)
    BY <1>4
  <2>2. /\ rep[t].pc = "retained" /\ rep'[t].pc = "counted" /\ tasks' = tasks
        /\ rep' = [rep EXCEPT ![t].pc = "counted"]
        /\ totalRuns' = IF rep[t].outcome = "Succeeded" THEN totalRuns + 1
                        ELSE totalRuns
    BY <1>1, <2>1 DEF RepCount, tables, RepRecord
  <2>3. \A u \in Tasks : u # t => rep'[u] = rep[u]
    BY <1>1, <2>2
  <2>4. t \notin CountedTasks
    BY <2>2 DEF CountedTasks
  <2>5. CASE rep[t].outcome = "Succeeded"
    <3>1. CountedTasks' = CountedTasks \cup {t}
      BY <1>2, <2>2, <2>3, <2>5 DEF CountedTasks
    <3> QED BY <1>1, <2>2, <2>4, <2>5, <3>1, FS_AddElement DEF CountInv
  <2>6. CASE rep[t].outcome # "Succeeded"
    <3>1. CountedTasks' = CountedTasks
      BY <1>2, <2>2, <2>3, <2>6 DEF CountedTasks
    <3> QED BY <1>1, <2>2, <2>6, <3>1 DEF CountInv
  <2> QED BY <2>5, <2>6
<1>5. CASE ~\E t \in Tasks : RepCount(t)
  <2>1. CountedTasks' = CountedTasks
    <3>1. CountedTasks \subseteq Tasks /\ CountedTasks' \subseteq Tasks
      BY DEF CountedTasks
    <3> QED BY <1>3, <1>5, <3>1
  <2>2. totalRuns' = totalRuns
    BY <1>5, Writers
  <2> QED BY <1>1, <2>1, <2>2 DEF CountInv
<1> QED BY <1>4, <1>5

-----------------------------------------------------------------------------
(* InlineResultSticks. *)

\* Between the update_job of execute_sql and its answer, only a report of the
\* same query writes the job, and that report is then over.
LEMMA Inline_Next ==
    ASSUME CoreInv, InlineInv, Next, ~MasterRestart
    PROVE  InlineInv'
<1>1. /\ sub \in [Jobs -> [pc : SubPCs, k : Nat]]
      /\ jobs \in [Jobs -> JobStatus]
      /\ rep \in [Tasks -> RepRecord]
  BY DEF CoreInv, Shape, TypeOK, SubOK, JobsOK, RepOK
<1>2. \A t \in Tasks : rep[t].pc = "done" => rep'[t].pc = "done"
  <2> SUFFICES ASSUME NEW t \in Tasks, rep[t].pc = "done"
               PROVE  rep'[t].pc = "done"
    OBVIOUS
  <2>1. ~(RepStart(t) \/ RepStep(t) \/ ReportLost(t))
    BY DEF RepStart, RepStep, ReportLost, RepCheck, RepWrite, RepRetain,
           RepCount, RepStageRead, RepStageWrite, RepTally, RepJobRead,
           RepJobWrite
  <2>2. ASSUME NEW u \in Tasks, u # t, RepStart(u) \/ RepStep(u) \/ ReportLost(u)
        PROVE  rep'[t] = rep[t]
    BY <1>1, <2>2 DEF RepStart, RepStep, ReportLost, RepCheck, RepWrite,
                      RepRetain, RepCount, RepStageRead, RepStageWrite,
                      RepTally, RepJobRead, RepJobWrite
  <2>3. ASSUME NEW w \in Workers, NEW o \in Outcomes, WorkerReport(w, o)
        PROVE  rep'[t] = rep[t]
    <3>1. wk[w].task # t
      BY <2>3 DEF WorkerReport, CoreInv, DispatchInv, WorkInv
    <3> QED BY <1>1, <2>3, <3>1 DEF WorkerReport
  <2> QED BY <2>1, <2>2, <2>3, Writers
<1>3. ASSUME NEW j \in Jobs, sub'[j].pc \in {"count", "record"}
      PROVE  \/ sub[j].pc \in {"count", "record"} /\ sub'[j].pc # "count"
             \/ sub[j].pc = "count" /\ sub'[j].pc = "count"
             \/ /\ sub[j].pc = "exec" /\ jobs'[j] = "Succeeded"
                /\ sub'[j].pc = "count" => j \in SqlJobs
  <2>1. ASSUME NEW i \in Jobs, i # j,
               RequestArrives(i) \/ SubmitStep(i) \/ SqlStep(i) \/ ShowStep(i)
        PROVE  sub'[j] = sub[j]
    BY <1>1, <2>1
    DEF RequestArrives, SubmitRejected, SubmitBegin, ShowBegin, SubmitStep,
        SubmitInsertTask, SubmitPushPending, SubmitInsertJob, SubmitRunJob,
        SubmitRespond, SqlStep, SqlIncRound, SqlPlan, SqlExecute,
        SqlCountRound, RecordRound, ShowStep, ShowIncRound, ShowRendered,
        ShowRenderError
  <2>2. CASE RequestArrives(j) \/ SubmitStep(j)
    BY <1>1, <1>3, <2>2
    DEF RequestArrives, SubmitRejected, SubmitBegin, ShowBegin, SubmitStep,
        SubmitInsertTask, SubmitPushPending, SubmitInsertJob, SubmitRunJob,
        SubmitRespond
  <2>3. CASE SqlStep(j) \/ ShowStep(j)
    BY <1>1, <1>3, <2>3
    DEF SqlStep, SqlIncRound, SqlPlan, SqlExecute, SqlCountRound, RecordRound,
        ShowStep, ShowIncRound, ShowRendered, ShowRenderError
  <2>4. \/ sub' = sub
        \/ \E i \in Jobs :
               RequestArrives(i) \/ SubmitStep(i) \/ SqlStep(i) \/ ShowStep(i)
    BY SubWriters
  <2> QED BY <1>3, <2>1, <2>2, <2>3, <2>4
<1>4. ASSUME NEW j \in Jobs, sub[j].pc \in {"count", "record"}
      PROVE  jobs'[j] = jobs[j] \/ \E t \in Tasks : RepJobWrite(t) /\ JobOf(t) = j
  <2>1. ASSUME NEW i \in Jobs,
               \/ SubmitInsertJob(i) \/ SubmitRunJob(i)
               \/ \E o \in Outcomes : SqlExecute(i, o)
               \/ ShowBegin(i) \/ ShowRendered(i)
        PROVE  jobs'[j] = jobs[j]
    BY <1>1, <1>4, <2>1 DEF SubmitInsertJob, SubmitRunJob, SqlExecute,
                            ShowBegin, ShowRendered
  <2>2. ASSUME NEW t \in Tasks, RepJobWrite(t), JobOf(t) # j
        PROVE  jobs'[j] = jobs[j]
    BY <1>1, <2>2 DEF RepJobWrite
  <2>3. \/ jobs' = jobs
        \/ \E i \in Jobs : \/ SubmitInsertJob(i) \/ SubmitRunJob(i)
                           \/ \E o \in Outcomes : SqlExecute(i, o)
                           \/ ShowBegin(i) \/ ShowRendered(i)
        \/ \E t \in Tasks : RepJobWrite(t)
    BY Writers
  <2> QED BY <2>1, <2>2, <2>3
<1>5. ASSUME NEW t \in Tasks, RepJobWrite(t)
      PROVE  rep'[t].pc = "done" /\ t \in TasksOf(JobOf(t)) /\ JobOf(t) \notin ShowJobs
  <2>1. JobOf(t) \in PlannedJobs /\ t \in TasksOf(JobOf(t))
    BY TaskFacts
  <2>2. JobOf(t) \notin ShowJobs
    BY <2>1, JobsAssumption DEF PlannedJobs
  <2> QED BY <1>1, <1>5, <2>1, <2>2 DEF RepJobWrite, RepRecord
<1>6. ASSUME NEW j \in SqlJobs, sub'[j].pc \in {"count", "record"}
      PROVE  jobs'[j] = "Succeeded" \/ \E t \in TasksOf(j) : rep'[t].pc = "done"
  <2>1. j \in Jobs /\ \A t \in TasksOf(j) : t \in Tasks
    BY TasksOfSubset DEF Jobs, PlannedJobs
  <2> QED BY <1>2, <1>3, <1>4, <1>5, <1>6, <2>1 DEF InlineInv, InlineResultSticks
<1>7. ASSUME NEW j \in ShowJobs, sub'[j].pc = "record"
      PROVE  jobs'[j] = "Succeeded"
  <2>1. j \in Jobs
    BY DEF Jobs
  <2>2. sub[j].pc # "count"
    BY <2>1, JobsAssumption DEF InlineInv
  <2> QED BY <1>3, <1>4, <1>5, <1>7, <2>1, <2>2 DEF InlineInv, InlineResultSticks
<1>8. ASSUME NEW j \in Jobs, sub'[j].pc = "count"
      PROVE  j \in SqlJobs
  BY <1>3, <1>8 DEF InlineInv
<1> QED BY <1>6, <1>7, <1>8 DEF InlineInv, InlineResultSticks

-----------------------------------------------------------------------------
(* The whole invariant. *)

LEMMA Ledger_Init == Init => LedgerInv
<1> SUFFICES ASSUME Init PROVE LedgerInv
  OBVIOUS
<1>1. \A t \in Tasks : /\ tasks[t].status = "Absent" /\ tasks[t].worker = NoWorker
                       /\ rep[t].pc = "none"
  BY DEF Init, AbsentTask, IdleRep
<1>2. \A j \in Jobs : sub[j].pc = "idle"
  BY DEF Init, IdleSub
<1>3. \A w \in Workers : poll[w].pc = "none"
  BY DEF Init, IdlePoll
<1>4. OwnerInv /\ AnswerInv /\ NoForgottenTask
  BY <1>1, <1>3 DEF OwnerInv, AnswerInv, NoForgottenTask
<1>5. CountInv
  <2>1. CountedTasks = {}
    BY <1>1 DEF CountedTasks
  <2> QED BY <2>1, FS_EmptySet DEF Init, CountInv
<1>6. InlineInv
  BY <1>2 DEF InlineInv, InlineResultSticks, Jobs, PlannedJobs
<1> QED BY <1>4, <1>5, <1>6 DEF LedgerInv

\* Nothing is persisted, so a new master has an empty ledger.
LEMMA Ledger_MasterRestart ==
    ASSUME CoreInv, MasterRestart
    PROVE  LedgerInv'
<1>1. \A t \in Tasks : tasks'[t].status = "Absent" /\ tasks'[t].worker = NoWorker
  BY DEF MasterRestart, AbsentTask
<1>2. \A t \in Tasks : rep'[t].pc \in {"none", "lost"}
  BY DEF MasterRestart, IdleRep
<1>3. \A j \in Jobs : sub'[j].pc \in {"idle", "rejected", "lost"}
  <2>1. sub \in [Jobs -> [pc : SubPCs, k : Nat]]
    BY DEF CoreInv, Shape, TypeOK, SubOK
  <2> QED BY <2>1 DEF MasterRestart
<1>4. \A w \in Workers : poll'[w].pc = "none"
  BY DEF MasterRestart, IdlePoll
<1>5. OwnerInv' /\ AnswerInv' /\ NoForgottenTask'
  BY <1>1, <1>2, <1>4 DEF OwnerInv, AnswerInv, NoForgottenTask
<1>6. CountInv'
  <2>1. CountedTasks' = {}
    BY <1>1 DEF CountedTasks
  <2> QED BY <2>1, FS_EmptySet DEF MasterRestart, CountInv
<1>7. InlineInv'
  BY <1>3 DEF InlineInv, InlineResultSticks, Jobs, PlannedJobs
<1> QED BY <1>5, <1>6, <1>7 DEF LedgerInv

LEMMA Ledger_Next == CoreInv /\ LedgerInv /\ [Next]_vars => LedgerInv'
<1> SUFFICES ASSUME CoreInv, LedgerInv, [Next]_vars PROVE LedgerInv'
  OBVIOUS
<1>1. CASE MasterRestart
  BY <1>1, Ledger_MasterRestart
<1>2. CASE Next /\ ~MasterRestart
  BY <1>2, Owner_Next, Answer_Next, Forgotten_Next, Count_Next, Inline_Next
  DEF LedgerInv
<1>3. CASE UNCHANGED vars
  <2>1. OwnerInv' /\ AnswerInv' /\ NoForgottenTask'
    BY <1>3 DEF vars, LedgerInv, OwnerInv, AnswerInv, NoForgottenTask, Queued,
                Holds
  <2>2. CountInv' /\ InlineInv'
    BY <1>3 DEF vars, LedgerInv, CountInv, CountedTasks, InlineInv,
                InlineResultSticks
  <2> QED BY <2>1, <2>2 DEF LedgerInv
<1> QED BY <1>1, <1>2, <1>3

\* The invariant that every run of the cluster checks holds of every cluster:
\* where each task is, that no copy of a stage or job contradicts the tasks,
\* and that the master's books are right, whatever locks of ClusterInner the
\* handlers take in whatever order, and whatever gets lost or restarted.
THEOREM Invariant == Spec => []IInv
<1>1. Init => LedgerInv
  BY Ledger_Init
<1>2. CoreInv /\ LedgerInv /\ [Next]_vars => LedgerInv'
  BY Ledger_Next
<1>3. Spec => []CoreInv
  BY Invariance
<1> QED BY <1>1, <1>2, <1>3, PTL DEF Spec, IInv

\* As long as nothing has failed, no task without an outcome drops out of
\* sight between insert_task, try_assign_task and complete_task.
THEOREM NothingForgotten == Spec => []NoForgottenTask
<1>1. IInv => NoForgottenTask
  BY DEF IInv, LedgerInv
<1> QED BY <1>1, Invariant, PTL

\* update_task adds to total_runs exactly once for each task that succeeds,
\* for any number of tasks and any interleaving of its four lock sections.
THEOREM RunsCounted == Spec => []TotalRunsExact
<1>1. IInv => TotalRunsExact
  BY DEF IInv, LedgerInv, CountInv, CountedTasks, TotalRunsExact
<1> QED BY <1>1, Invariant, PTL

\* Between the update_job of execute_sql and its answer, the recorded result
\* is replaced only by the report of a worker given the same query.
THEOREM InlineSticks == Spec => []InlineResultSticks
<1>1. IInv => InlineResultSticks
  BY DEF IInv, LedgerInv, InlineInv
<1> QED BY <1>1, Invariant, PTL

-----------------------------------------------------------------------------
(* The cluster implements TaskDispatch. *)

\* Whose a task is: the worker in the table, or else the one whose poll has
\* it, which is one worker only.
OwnerKnown ==
    \A t \in Tasks :
        /\ tasks[t].worker # NoWorker => OwnerOf(t) = tasks[t].worker
        /\ \A w \in Workers : poll[w].task = t => OwnerOf(t) = w
        /\ tasks[t].worker = NoWorker /\ (\A w \in Workers : poll[w].task # t) =>
               OwnerOf(t) = NoWorker

LEMMA OwnersKnown == IInv => OwnerKnown
<1> SUFFICES ASSUME IInv, NEW t \in Tasks
             PROVE  /\ tasks[t].worker # NoWorker => OwnerOf(t) = tasks[t].worker
                    /\ \A w \in Workers : poll[w].task = t => OwnerOf(t) = w
                    /\ tasks[t].worker = NoWorker
                       /\ (\A w \in Workers : poll[w].task # t) =>
                           OwnerOf(t) = NoWorker
  BY DEF OwnerKnown
<1>1. ASSUME NEW w \in Workers, poll[w].task = t, tasks[t].worker # NoWorker
      PROVE  tasks[t].worker = w
  <2>1. poll[w].pc \in PollPCs /\ t # NoTask
    BY NoneAssumption DEF IInv, CoreInv, Shape, TypeOK, PollOK
  <2>2. poll[w].pc \notin {"none", "sent"}
    BY <1>1, <2>1 DEF IInv, CoreInv, Shape, HoldShape
  <2>3. tasks[t].status # "Pending"
    BY <1>1 DEF IInv, LedgerInv, OwnerInv
  <2> QED BY <1>1, <2>1, <2>2, <2>3
          DEF IInv, CoreInv, DispatchInv, PollInv, PollPCs, PollBusy
<1>2. \A v, w \in Workers : poll[v].task = t /\ poll[w].task = t => v = w
  BY DEF IInv, CoreInv, DispatchInv, HolderInv, Holds
<1>3. ASSUME NEW w \in Workers, poll[w].task = t
      PROVE  OwnerOf(t) = w
  BY <1>1, <1>2, <1>3 DEF OwnerOf
<1> QED BY <1>3 DEF OwnerOf

\* Only a poll that takes a task out of the queue changes whose it is.
LEMMA OwnerMoves ==
    ASSUME IInv, IInv', Next, ~MasterRestart, NEW t \in Tasks,
           Queued(t) => Queued(t)'
    PROVE  OwnerOf(t)' = OwnerOf(t)
<1>1. OwnerKnown /\ OwnerKnown'
  <2>1. IInv' => OwnerKnown'
    BY OwnersKnown, PTL
  <2> QED BY <2>1, OwnersKnown
<1>2. CoreInv /\ OwnerInv /\ NoWorker \notin Workers /\ NoTask # t
  BY NoneAssumption DEF IInv, LedgerInv
<1>3. CASE tasks'[t].worker = tasks[t].worker /\ tasks[t].worker # NoWorker
  BY <1>1, <1>3 DEF OwnerKnown
<1>4. CASE tasks'[t].worker = tasks[t].worker /\ tasks[t].worker = NoWorker
  <2>1. ASSUME NEW w \in Workers
        PROVE  poll'[w].task = t <=> poll[w].task = t
    <3>1. CASE poll'[w].task = poll[w].task
      BY <3>1
    <3>2. CASE PollPop(w) /\ pending # <<>> /\ poll'[w].task = Head(pending)
      <4>1. pending \in Seq(Tasks) /\ pending' = Tail(pending)
        BY <1>2, <3>2 DEF PollPop, CoreInv, Shape, TypeOK, QueueOK
      <4>2. QueueInv
        BY <1>2 DEF CoreInv, DispatchInv
      <4>3. Head(pending) # t
        <5> SUFFICES ASSUME Head(pending) = t PROVE FALSE
          OBVIOUS
        <5>1. pending[1] = t /\ 1 \in DOMAIN pending
          BY <3>2, <4>1
        <5>2. PICK i \in DOMAIN pending' : pending'[i] = t
          BY <5>1 DEF Queued
        <5>3. i + 1 \in DOMAIN pending /\ pending[i + 1] = t /\ i + 1 # 1
          BY <3>2, <4>1, <5>2
        <5> QED BY <4>2, <5>1, <5>3 DEF QueueInv
      <4>4. poll[w].task = NoTask
        BY <1>2, <3>2 DEF PollPop, CoreInv, Shape, HoldShape
      <4> QED BY <1>2, <3>2, <4>3, <4>4
    <3>3. CASE poll[w].pc = "reply" /\ poll'[w].task = NoTask
      <4>1. poll[w].task # t
        BY <1>2, <1>4, <3>3 DEF CoreInv, DispatchInv, PollInv
      <4> QED BY <1>2, <3>3, <4>1
    <3> QED BY <1>2, <3>1, <3>2, <3>3, PollMoves
  <2> QED BY <1>1, <1>4, <2>1 DEF OwnerKnown
<1>5. CASE tasks'[t].worker # tasks[t].worker
  <2>1. ASSUME NEW w \in Workers, tasks'[t] = [status |-> "Assigned", worker |-> w],
               poll[w].task = t
        PROVE  OwnerOf(t)' = OwnerOf(t)
    <3>1. tasks'[t].worker = w
      BY <2>1
    <3> QED BY <1>1, <1>2, <2>1, <3>1 DEF OwnerKnown
  <2>2. ASSUME tasks[t].status = "Absent",
               tasks'[t] = [status |-> "Pending", worker |-> NoWorker]
        PROVE  FALSE
    BY <1>2, <1>5, <2>2 DEF OwnerInv
  <2>3. ASSUME rep[t].pc = "checked",
               tasks'[t] = [status |-> rep[t].outcome, worker |-> rep[t].worker]
        PROVE  FALSE
    BY <1>2, <1>5, <2>3 DEF OwnerInv
  <2> QED BY <1>2, <1>5, <2>1, <2>2, <2>3, TaskMoves
<1> QED BY <1>3, <1>4, <1>5

\* A task stays in its phase unless it enters or leaves the queue or its
\* report writes its outcome.
LEMMA PhaseMoves ==
    ASSUME IInv, IInv', Next, ~MasterRestart, NEW t \in Tasks,
           Queued(t)' <=> Queued(t),
           tasks'[t].status \in Outcomes => tasks[t].status \in Outcomes
    PROVE  PhaseOf(t)' = PhaseOf(t) /\ OwnerOf(t)' = OwnerOf(t)
<1>1. CoreInv /\ JobOf(t) \in Jobs
  BY TaskFacts DEF IInv
<1>2. OwnerOf(t)' = OwnerOf(t)
  BY OwnerMoves
<1>3. sub'[JobOf(t)].pc = "lost" <=> sub[JobOf(t)].pc = "lost"
  BY <1>1, SubMoves
<1>4. tasks[t].status \in Outcomes => tasks'[t] = tasks[t]
  BY <1>1, TaskMoves DEF Outcomes
<1> QED BY <1>2, <1>3, <1>4 DEF PhaseOf

\* insert_task's push to the back of the queue is Enqueue.
LEMMA Refines_Push ==
    ASSUME IInv, IInv', Next, ~MasterRestart,
           NEW j \in Jobs, SubmitPushPending(j)
    PROVE  Dispatch!DNext
<1>0. PICK t : t = <<j, sub[j].k>>
  OBVIOUS
<1>1. CoreInv /\ OwnerInv
  BY DEF IInv, LedgerInv
<1>2. /\ pending \in Seq(Tasks) /\ pending' = Append(pending, t)
      /\ tasks' = tasks /\ sub[j].pc = "push"
  BY <1>0, <1>1 DEF SubmitPushPending, CoreInv, Shape, TypeOK, QueueOK
<1>3. t \in Tasks /\ JobOf(t) = j /\ t[2] = sub[j].k /\ sub[j].k \in Nat
  <2>1. sub[j].k \in 1..Parts(j) /\ Parts(j) \in Nat
    BY <1>1, <1>2, PartsType DEF CoreInv, Shape, SubShape
  <2> QED BY <1>0, <2>1, TaskIntro
<1>4. Inserted(t) /\ ~Pushed(t)
  BY <1>2, <1>3 DEF Inserted, Pushed
<1>5. tasks[t].status \notin {"Absent", "Assigned", "Succeeded", "Failed"}
  BY <1>1, <1>3, <1>4 DEF CoreInv, DispatchInv, TaskInv
<1>6. tasks[t].status = "Pending" /\ tasks[t].worker = NoWorker
  BY <1>1, <1>3, <1>5 DEF OwnerInv, CoreInv, Shape, TypeOK, TasksOK, TaskStatus
<1>7. ~Queued(t) /\ \A w \in Workers : poll[w].task # t
  BY <1>1, <1>3, <1>4 DEF CoreInv, DispatchInv, QueueInv, PollInv, Queued
<1>8. OwnerOf(t) = NoWorker /\ PhaseOf(t) = "new"
  BY <1>2, <1>3, <1>6, <1>7, OwnersKnown DEF OwnerKnown, PhaseOf, Outcomes
<1>9. \A u \in Tasks : Queued(u)' <=> Queued(u) \/ u = t
  BY <1>2, <1>3 DEF Queued
<1>10. \A u \in Tasks : OwnerOf(u)' = OwnerOf(u)
  BY <1>9, OwnerMoves
<1>11. \A u \in Tasks : u # t => PhaseOf(u)' = PhaseOf(u)
  BY <1>2, <1>9, PhaseMoves
<1>12. PhaseOf(t)' = "queued"
  <2>1. sub'[JobOf(t)].pc # "lost"
    BY <1>1, <1>2, <1>3, SubMoves
  <2> QED BY <1>2, <1>3, <1>6, <1>9, <2>1 DEF PhaseOf, Outcomes
<1>13. Dispatch!Enqueue(t)
  BY <1>2, <1>3, <1>8, <1>10, <1>11, <1>12 DEF Dispatch!Enqueue
<1> QED BY <1>3, <1>13 DEF Dispatch!DNext

\* pop_pending_task's pop from the front of the queue is Hand.
LEMMA Refines_Pop ==
    ASSUME IInv, IInv', Next, ~MasterRestart,
           NEW w \in Workers, PollPop(w), pending # <<>>
    PROVE  Dispatch!DNext
<1>0. PICK t : t = Head(pending)
  OBVIOUS
<1>1. CoreInv /\ OwnerInv
  BY DEF IInv, LedgerInv
<1>2. /\ pending \in Seq(Tasks) /\ pending' = Tail(pending)
      /\ tasks' = tasks /\ poll[w].pc = "sent"
  BY <1>1 DEF PollPop, CoreInv, Shape, TypeOK, QueueOK
<1>3. t \in Tasks /\ 1 \in DOMAIN pending /\ pending[1] = t
  BY <1>0, <1>2
<1>4. \A u \in Tasks : Queued(u)' <=> Queued(u) /\ u # t
  <2>1. \A i \in DOMAIN pending' : /\ i + 1 \in DOMAIN pending /\ i + 1 # 1
                                   /\ pending'[i] = pending[i + 1]
    BY <1>2
  <2>2. \A i \in DOMAIN pending : i # 1 =>
            \E k \in DOMAIN pending' : pending'[k] = pending[i]
    <3> SUFFICES ASSUME NEW i \in DOMAIN pending, i # 1
                 PROVE  \E k \in DOMAIN pending' : pending'[k] = pending[i]
      OBVIOUS
    <3>1. i - 1 \in DOMAIN pending' /\ pending'[i - 1] = pending[i]
      BY <1>2
    <3> QED BY <3>1
  <2>3. QueueInv
    BY <1>1 DEF CoreInv, DispatchInv
  <2> QED BY <1>3, <2>1, <2>2, <2>3 DEF Queued, QueueInv
<1>5. tasks[t].status = "Pending" /\ sub[JobOf(t)].pc # "lost"
  BY <1>1, <1>3 DEF CoreInv, DispatchInv, QueueInv, Pushed
<1>6. poll'[w].task = t
  BY <1>0, <1>1 DEF PollPop, CoreInv, Shape, TypeOK, PollOK
<1>7. OwnerOf(t)' = w
  <2>1. OwnerKnown'
    BY OwnersKnown, PTL
  <2> QED BY <1>3, <1>6, <2>1 DEF OwnerKnown
<1>8. PhaseOf(t)' = "handed"
  <2>1. sub'[JobOf(t)].pc # "lost"
    BY <1>1, <1>3, <1>5, SubMoves, TaskFacts
  <2> QED BY <1>2, <1>3, <1>4, <1>5, <1>7, <2>1, NoneAssumption
          DEF PhaseOf, Outcomes
<1>9. \A u \in Tasks : u # t => PhaseOf(u)' = PhaseOf(u) /\ OwnerOf(u)' = OwnerOf(u)
  BY <1>2, <1>4, PhaseMoves
<1>10. Dispatch!Hand(w)
  BY <1>0, <1>2, <1>3, <1>7, <1>8, <1>9 DEF Dispatch!Hand
<1> QED BY <1>10 DEF Dispatch!DNext

\* update_task's write of the outcome is Settle.
LEMMA Refines_Write ==
    ASSUME IInv, IInv', Next, ~MasterRestart, NEW t \in Tasks, RepWrite(t)
    PROVE  Dispatch!DNext
<1>1. CoreInv /\ OwnerInv
  BY DEF IInv, LedgerInv
<1>2. /\ pending' = pending /\ sub' = sub
      /\ tasks' = [tasks EXCEPT ![t] = [status |-> rep[t].outcome,
                                        worker |-> rep[t].worker]]
      /\ tasks \in [Tasks -> [status : TaskStatus, worker : Workers \cup {NoWorker}]]
      /\ rep[t].outcome \in Outcomes
  BY <1>1 DEF RepWrite, CoreInv, Shape, TypeOK, TasksOK, RepOK, RepRecord
<1>3. tasks[t].status = "Assigned" /\ rep[t].pc = "checked"
  BY <1>1 DEF RepWrite, CoreInv, DispatchInv, RepInv
<1>4. sub[JobOf(t)].pc # "lost"
  BY <1>1, <1>3 DEF CoreInv, DispatchInv, TaskInv, Pushed
<1>5. ~Queued(t)
  BY <1>1, <1>3 DEF CoreInv, DispatchInv, QueueInv, Queued
<1>6. OwnerOf(t) # NoWorker
  BY <1>1, <1>3, NoneAssumption DEF OwnerInv, OwnerOf
<1>7. PhaseOf(t) = "handed"
  BY <1>3, <1>4, <1>5, <1>6 DEF PhaseOf, Outcomes
<1>8. PhaseOf(t)' = rep[t].outcome
  BY <1>2, <1>4 DEF PhaseOf
<1>9. \A u \in Tasks : Queued(u)' <=> Queued(u)
  BY <1>2 DEF Queued
<1>10. \A u \in Tasks : OwnerOf(u)' = OwnerOf(u)
  BY <1>9, OwnerMoves
<1>11. \A u \in Tasks : u # t => PhaseOf(u)' = PhaseOf(u)
  BY <1>2, <1>9, PhaseMoves
<1>12. Dispatch!Settle(t, rep[t].outcome)
  BY <1>2, <1>7, <1>8, <1>10, <1>11 DEF Dispatch!Settle
<1> QED BY <1>2, <1>12 DEF Dispatch!DNext, Outcomes

\* A new master is Restart: the tasks of requests it never saw are still new.
LEMMA Refines_Restart ==
    ASSUME IInv, IInv', MasterRestart
    PROVE  Dispatch!DNext
<1>1. CoreInv /\ OwnerInv /\ sub \in [Jobs -> [pc : SubPCs, k : Nat]]
  BY DEF IInv, LedgerInv, CoreInv, Shape, TypeOK, SubOK
<1>2. /\ pending' = <<>>
      /\ \A t \in Tasks : tasks'[t].status = "Absent" /\ tasks'[t].worker = NoWorker
      /\ \A w \in Workers : poll'[w].task = NoTask
  BY DEF MasterRestart, AbsentTask, IdlePoll
<1>3. \A t \in Tasks : ~Queued(t)'
  BY <1>2 DEF Queued
<1>4. ASSUME NEW t \in Tasks
      PROVE  /\ OwnerOf(t)' = NoWorker
             /\ PhaseOf(t)' = IF sub'[JobOf(t)].pc = "lost" THEN "gone" ELSE "new"
  <2>1. t # NoTask
    BY NoneAssumption
  <2>2. OwnerOf(t)' = NoWorker
    BY <1>2, <2>1 DEF OwnerOf
  <2> QED BY <1>2, <1>3, <2>2 DEF PhaseOf, Outcomes
<1>5. ASSUME NEW t \in Tasks, sub'[JobOf(t)].pc # "lost"
      PROVE  PhaseOf(t) = "new"
  <2>1. sub[JobOf(t)].pc \in {"idle", "rejected"}
    BY <1>1, <1>5, TaskFacts DEF MasterRestart
  <2>2. ~Inserted(t) /\ ~Pushed(t)
    BY <2>1 DEF Inserted, Pushed
  <2>3. tasks[t].status = "Absent" /\ tasks[t].worker = NoWorker
    BY <1>1, <2>2 DEF CoreInv, DispatchInv, TaskInv, OwnerInv
  <2>4. ~Queued(t) /\ \A w \in Workers : poll[w].task # t
    BY <1>1, <2>2 DEF CoreInv, DispatchInv, QueueInv, PollInv, Queued
  <2>5. OwnerOf(t) = NoWorker
    BY <2>3, <2>4, OwnersKnown DEF OwnerKnown
  <2> QED BY <2>1, <2>3, <2>4, <2>5 DEF PhaseOf, Outcomes
<1>6. Dispatch!Restart
  BY <1>2, <1>4, <1>5 DEF Dispatch!Restart
<1> QED BY <1>6 DEF Dispatch!DNext

LEMMA Refines_Next == IInv /\ IInv' /\ [Next]_vars => [Dispatch!DNext]_(Dispatch!dvars)
<1> SUFFICES ASSUME IInv, IInv', [Next]_vars PROVE [Dispatch!DNext]_(Dispatch!dvars)
  OBVIOUS
<1>1. CASE UNCHANGED vars
  BY <1>1 DEF vars, Dispatch!dvars, PhaseOf, OwnerOf, Queued
<1>2. CASE MasterRestart
  BY <1>2, Refines_Restart
<1>3. CASE Next /\ ~MasterRestart
  <2>1. CASE \E j \in Jobs : SubmitPushPending(j)
    BY <1>3, <2>1, Refines_Push
  <2>2. CASE \E w \in Workers : PollPop(w) /\ pending # <<>>
    BY <1>3, <2>2, Refines_Pop
  <2>3. CASE \E t \in Tasks : RepWrite(t)
    BY <1>3, <2>3, Refines_Write
  <2>4. CASE pending' = pending /\ ~\E t \in Tasks : RepWrite(t)
    <3>1. CoreInv
      BY DEF IInv
    <3>2. ASSUME NEW t \in Tasks
          PROVE  PhaseOf(t)' = PhaseOf(t) /\ OwnerOf(t)' = OwnerOf(t)
      <4>1. Queued(t)' <=> Queued(t)
        BY <2>4 DEF Queued
      <4>2. tasks'[t].status \in Outcomes => tasks[t].status \in Outcomes
        <5>1. ~(rep[t].pc = "checked" /\ rep'[t].pc = "written")
          BY <1>3, <2>4, <3>1, ReportMoves
        <5>2. \A w : /\ [status |-> "Pending", worker |-> w].status \notin Outcomes
                     /\ [status |-> "Assigned", worker |-> w].status \notin Outcomes
          BY DEF Outcomes
        <5> QED BY <1>3, <3>1, <5>1, <5>2, TaskMoves
      <4> QED BY <1>3, <4>1, <4>2, PhaseMoves
    <3> QED BY <2>4, <3>2 DEF Dispatch!dvars
  <2>5. CoreInv
    BY DEF IInv
  <2> QED BY <1>3, <2>1, <2>2, <2>3, <2>4, <2>5, QueueMoves
<1> QED BY <1>1, <1>2, <1>3

\* The handlers and workers, lock section by lock section, implement the
\* queue of TaskDispatch: tasks leave in the order in which insert_task put
\* them in, each to one worker and for one outcome, and a restarted master
\* forgets them all.
THEOREM Refinement == Spec => ImplementsTaskDispatch
<1>1. Init => Dispatch!DInit
  <2> SUFFICES ASSUME Init PROVE Dispatch!DInit
    OBVIOUS
  <2>1. ASSUME NEW t \in Tasks
        PROVE  OwnerOf(t) = NoWorker /\ PhaseOf(t) = "new"
    <3>1. /\ tasks[t].status = "Absent" /\ tasks[t].worker = NoWorker
          /\ \A w \in Workers : poll[w].task = NoTask
          /\ t # NoTask
      BY NoneAssumption DEF Init, AbsentTask, IdlePoll
    <3>2. OwnerOf(t) = NoWorker
      BY <3>1 DEF OwnerOf
    <3>3. sub[JobOf(t)].pc = "idle"
      BY TaskFacts DEF Init, IdleSub
    <3>4. ~Queued(t)
      BY DEF Init, Queued
    <3> QED BY <3>1, <3>2, <3>3, <3>4 DEF PhaseOf, Outcomes
  <2>2. pending = <<>>
    BY DEF Init
  <2> QED BY <2>1, <2>2 DEF Dispatch!DInit
<1>2. IInv /\ IInv' /\ [Next]_vars => [Dispatch!DNext]_(Dispatch!dvars)
  BY Refines_Next
<1> QED BY <1>1, <1>2, Invariant, PTL DEF Spec, ImplementsTaskDispatch, Dispatch!DSpec

-----------------------------------------------------------------------------
(***************************************************************************)
(* When complete_task can miss its job.                                    *)
(***************************************************************************)

\* The pcs of a request handler from insert_job on.
JobStored == {"run", "readback", "round", "plan", "exec", "count", "record", "returned"}

\* From insert_job on the job is in the table, and so is every copy of it.
JobKnown ==
    /\ \A j \in Jobs : sub[j].pc \in JobStored => jobs[j] # "Absent"
    /\ \A t \in Tasks : rep[t].pc = "jobRead" => rep[t].job # "Absent"

\* A job stays in the table until the master is replaced.
LEMMA JobStays ==
    ASSUME CoreInv, JobKnown, Next, ~MasterRestart, NEW j \in Jobs, jobs[j] # "Absent"
    PROVE  jobs'[j] # "Absent"
<1>1. jobs \in [Jobs -> JobStatus] /\ rep \in [Tasks -> RepRecord]
  BY DEF CoreInv, Shape, TypeOK, JobsOK, RepOK
<1>2. ASSUME NEW i \in Jobs,
             \/ SubmitInsertJob(i) \/ SubmitRunJob(i)
             \/ \E o \in Outcomes : SqlExecute(i, o)
             \/ ShowBegin(i) \/ ShowRendered(i)
      PROVE  jobs'[j] # "Absent"
  BY <1>1, <1>2 DEF SubmitInsertJob, SubmitRunJob, SqlExecute, ShowBegin, ShowRendered,
                    Outcomes
<1>3. ASSUME NEW t \in Tasks, RepJobWrite(t)
      PROVE  jobs'[j] # "Absent"
  <2>1. rep[t].job # "Absent" /\ rep[t].verdict \in {"none"} \cup Outcomes
    BY <1>1, <1>3 DEF JobKnown, RepJobWrite, RepRecord
  <2> QED BY <1>1, <1>3, <2>1 DEF RepJobWrite, Outcomes
<1> QED BY <1>2, <1>3, Writers

\* Whoever writes a job whose insertion has begun leaves it in the table.
LEMMA JobKnown_Next ==
    ASSUME CoreInv, JobKnown, Next, ~MasterRestart
    PROVE  JobKnown'
<1>1. /\ sub \in [Jobs -> [pc : SubPCs, k : Nat]] /\ jobs \in [Jobs -> JobStatus]
      /\ rep \in [Tasks -> RepRecord]
  BY DEF CoreInv, Shape, TypeOK, SubOK, JobsOK, RepOK
<1>2. ASSUME NEW j \in Jobs, sub'[j].pc \in JobStored
      PROVE  jobs'[j] # "Absent"
  <2>1. sub[j].pc \in JobStored \/ jobs'[j] # "Absent"
    <3>1. ASSUME NEW i \in Jobs, i # j,
                 RequestArrives(i) \/ SubmitStep(i) \/ SqlStep(i) \/ ShowStep(i)
          PROVE  sub'[j] = sub[j]
      BY <1>1, <3>1
      DEF RequestArrives, SubmitRejected, SubmitBegin, ShowBegin, SubmitStep,
          SubmitInsertTask, SubmitPushPending, SubmitInsertJob, SubmitRunJob,
          SubmitRespond, SqlStep, SqlIncRound, SqlPlan, SqlExecute, SqlCountRound,
          RecordRound, ShowStep, ShowIncRound, ShowRendered, ShowRenderError
    <3>2. CASE RequestArrives(j) \/ SubmitStep(j)
      BY <1>1, <1>2, <3>2
      DEF RequestArrives, SubmitRejected, SubmitBegin, ShowBegin, SubmitStep,
          SubmitInsertTask, SubmitPushPending, SubmitInsertJob, SubmitRunJob,
          SubmitRespond, JobStored
    <3>3. CASE SqlStep(j) \/ ShowStep(j)
      BY <1>1, <1>2, <3>3
      DEF SqlStep, SqlIncRound, SqlPlan, SqlExecute, SqlCountRound,
          RecordRound, ShowStep, ShowIncRound, ShowRendered, ShowRenderError, JobStored
    <3> QED BY <1>2, <3>1, <3>2, <3>3, SubWriters
  <2>2. sub[j].pc \in JobStored => jobs[j] # "Absent"
    BY DEF JobKnown
  <2> QED BY <2>1, <2>2, JobStays
<1>3. ASSUME NEW t \in Tasks
      PROVE  rep'[t].pc = "jobRead" => rep'[t].job # "Absent"
  <2>1. CASE RepJobRead(t)
    BY <1>1, <2>1 DEF RepJobRead, RepRecord
  <2>2. CASE ~RepJobRead(t)
    <3>1. ASSUME NEW u \in Tasks, RepStart(u) \/ RepStep(u) \/ ReportLost(u), u # t
          PROVE  rep'[t] = rep[t]
      BY <1>1, <3>1 DEF RepStart, RepStep, ReportLost, RepCheck, RepWrite, RepRetain,
                        RepCount, RepStageRead, RepStageWrite, RepTally,
                        RepJobRead, RepJobWrite
    <3>2. ASSUME NEW w \in Workers, NEW o \in Outcomes, WorkerReport(w, o)
          PROVE  rep'[t] = rep[t] \/ rep'[t].pc = "sent"
      BY <1>1, <3>2 DEF WorkerReport, RepRecord
    <3>3. ASSUME RepStart(t) \/ RepStep(t) \/ ReportLost(t)
          PROVE  rep'[t].pc # "jobRead"
      BY <1>1, <2>2, <3>3 DEF RepStart, RepStep, ReportLost, RepCheck, RepWrite,
                              RepRetain, RepCount, RepStageRead, RepStageWrite,
                              RepTally, RepJobWrite, RepRecord
    <3>4. rep'[t] = rep[t] \/ rep'[t].pc # "jobRead"
      BY <3>1, <3>2, <3>3, Writers, <1>1 DEF RepStart, RepStep, ReportLost
    <3> QED BY <3>4 DEF JobKnown
  <2> QED BY <2>1, <2>2
<1> QED BY <1>2, <1>3 DEF JobKnown

\* A report meets a missing job only while the submission of its task is still
\* before insert_job, for any number of threads, jobs, reports and restarts.
THEOREM MissingJobOnlyMidSubmit == Spec => []PanicsOnlyMidSubmit
<1>1. Init => JobKnown
  BY DEF Init, IdleSub, IdleRep, JobKnown, JobStored
<1>2. CoreInv /\ JobKnown /\ [Next]_vars => JobKnown'
  <2> SUFFICES ASSUME CoreInv, JobKnown, [Next]_vars PROVE JobKnown'
    OBVIOUS
  <2>1. CASE MasterRestart
    <3>1. \A j \in Jobs : sub'[j].pc \in {"idle", "rejected", "lost"}
      <4>1. sub \in [Jobs -> [pc : SubPCs, k : Nat]]
        BY DEF CoreInv, Shape, TypeOK, SubOK
      <4> QED BY <2>1, <4>1 DEF MasterRestart
    <3>2. \A t \in Tasks : rep'[t].pc \in {"none", "lost"}
      BY <2>1 DEF MasterRestart, IdleRep
    <3> QED BY <3>1, <3>2 DEF JobKnown, JobStored
  <2>2. CASE Next /\ ~MasterRestart
    BY <2>2, JobKnown_Next
  <2>3. CASE UNCHANGED vars
    BY <2>3 DEF vars, JobKnown
  <2> QED BY <2>1, <2>2, <2>3
<1>3. CoreInv /\ JobKnown => PanicsOnlyMidSubmit
  <2> SUFFICES ASSUME CoreInv, JobKnown, NEW t \in Tasks,
                      rep[t].pc = "tallied", jobs[JobOf(t)] = "Absent"
               PROVE  sub[JobOf(t)].pc \in {"insert", "push", "job"}
    BY DEF PanicsOnlyMidSubmit
  <2>1. JobOf(t) \in Jobs
    BY TaskFacts
  <2>2. Pushed(t)
    BY DEF CoreInv, DispatchInv, TaskInv, RepInv, Reported, Shape, TypeOK, RepOK,
           RepRecord, Outcomes
  <2>3. sub[JobOf(t)].pc \in SubPCs /\ sub[JobOf(t)].pc \notin JobStored
    BY <2>1 DEF JobKnown, CoreInv, Shape, TypeOK, SubOK
  <2> QED BY <2>2, <2>3 DEF Pushed, SubPCs, SubBusy, SubOver, JobStored
<1> QED BY <1>1, <1>2, <1>3, Invariance, PTL DEF Spec
=============================================================================
