# A TLA+ model of rspark

rspark is a small SQL engine in Rust with a master/worker cluster mode, declarative
pipelines, a Kubernetes operator and a dashboard. This directory models the cluster, the
catalog, the pipelines, the operator, the SQL engine and the file formats, checks the
models with TLC, and proves the safety properties of the cluster, the catalog, the
pipelines, the live flows, the operator and the file formats with TLAPS. Paths below are
relative to the repository's `crates/`, and `docs/` to its root.

## Inventory

| Component | State | Operations | Interacts with |
|---|---|---|---|
| Cluster state (`rspark-cluster/src/state.rs`) | worker, job, stage and task tables, pending queue, three counters, one RwLock each | insert/update/look up, `pop_pending_task`, `update_task` | called by the master and the API handlers |
| Master (`rspark-cluster/src/master.rs`) | none of its own | `submit_job`, `submit_job_skip_plan`, `try_assign_task`, `complete_task` | cluster state, planner, partitioner |
| Partitioner (`partitioner.rs`) | none | `plan_partitions` | called by `submit_job` |
| Worker (`worker.rs`, `rspark-cli/src/commands.rs` `run_worker`) | its id, the task in hand | register, poll, execute, report, heartbeat | HTTP to the master |
| HTTP API (`rspark-api/src/routes.rs`) | pipeline registry | job, SQL, worker, task, catalog and pipeline handlers | master, catalog, executor, pipelines |
| Session catalog (`rspark-sql/src/session.rs`) | table name to path, source, schema, kind | register, unregister, four separate reads | planner, pipelines, API |
| Pipelines (`rspark-pipelines`) | flow DAG, files already read, consumer offsets, destination files | `layers`, `run`, `run_live_streaming`, `poll_batch`, `append_destination` | catalog, executor, Kafka, file system |
| Operator (`rspark-operator`) | cluster resources in the API server | `reconcile`, `apply_owned`, `compute_status` | Kubernetes |
| SQL planner, executor, values (`rspark-sql`, `rspark-exec`, `rspark-core`) | none between calls | plan, run operators, evaluate expressions | catalog, storage |
| Storage (`rspark-storage`) | source registry | read, infer, write | files, S3 |
| Ingest (`rspark-ingest`) | none between requests | produce a batch of events | Kafka |
| Dashboard, CLI, REPL | none | render, parse | API |

What is hard here: handlers run on two threads and take one lock after another, so
reads are stale when they are used; tasks are visible before their job; messages and
processes fail while a task is in somebody's hands, without lease or retry; the master
forgets everything when it restarts and the workers do not. `PROJECT.json` lists the
hazards at their lines.

What makes each component correct: the cluster hands out every task once, in order,
and settles it once; stages and jobs tell the truth about their tasks; work that is
queued ends. A catalog read never mixes two tables; pipelines run flows after what
they depend on and neither lose nor repeat rows; reconciliation converges; operators
compute what SQL says.

## The modules

Each component has a module of its own; `MC...` modules hold the instances TLC checks.
Where one module is checked in several settings, its constant `Scenarios` lists them, the
variable `scenario` names the one of the behaviour and never changes, and `World` is its
record: which requests or resources there are and how often each thing may fail.

Operators whose comment starts with "Mutant" are deliberate mistakes: each stands in
for the definition that follows it, to show that a property would notice.

### The cluster

* `Cluster` - master, API handlers and workers. One action per **lock section**: the
  code never holds two locks at once, so between two sections of a handler any other
  handler may run. `sub[j]` is the handler of the request that creates job `j`,
  `poll[w]` the poll of worker `w`, `rep[t]` the report of task `t`, each with a
  program counter and the local variables the code carries from one lock to the next
  (the copied stage, the verdict, the copied job). `wk[w]` is the loop of a worker.
* `TaskDispatch` - the abstract specification: tasks are queued, handed out first in
  first out, each to one worker, and settled once; a restart forgets them.
* `ClusterRefinement` - the mapping from `Cluster` to `TaskDispatch`.
* `ClusterInv` - the inductive invariant.
* `ClusterDispatchProofs`, `ClusterProofs`, `ClusterLedgerProofs` - the proofs, each
  extending the one before.

How `Cluster` corresponds to the code:

| Code | Actions |
|---|---|
| `Master::submit_job` | `SubmitRejected`, `SubmitBegin`, `SubmitInsertTask`, `SubmitPushPending`, `SubmitInsertJob`, `SubmitRunJob` |
| `POST /v1/jobs` | the above, then `SubmitRespond` |
| `POST /v1/sql`, a query | the above, then `SqlIncRound`, `SqlPlan`, `SqlExecute`, `SqlCountRound`, `RecordRound` |
| `POST /v1/sql`, SHOW CREATE TABLE | `ShowBegin`, `ShowIncRound`, `ShowRendered`, `RecordRound`, or `ShowRenderError` |
| `poll_task`, `try_assign_task` | `PollPop`, `PollRead`, `PollAssign`, `PollStageRead`, `PollStageWrite`, `PollRespond` |
| `complete_task` (both reports) | `RepStart`, then `update_task`'s `RepCheck`, `RepWrite`, `RepRetain`, `RepCount`, then `RepStageRead`, `RepStageWrite`, `RepTally`, `RepJobRead`, `RepJobWrite` |
| `run_worker` | `WorkerRegister`, `WorkerPoll`, `WorkerReport`, `ReportAck` |
| network, clients, processes | `RegisterReplyLost`, `PollRequestLost`, `PollReplyLost`, `PollTimeout`, `ReportLost`, `ReportTimeout`, `WorkerCrash`, `MasterRestart` |

Abstractions. A status loses its error text; rows, timestamps, labels and SQL are left
out. A job's request is one of three kinds, and its tasks are named by job and
partition where the code draws UUIDs. Executing a query is a choice of outcome, except
that a worker without tables cannot execute a scan (`ExecuteTask`). The program's worker
has none (`rspark-cli/src/commands.rs:204`), so `WorkerHasCatalog` is FALSE in the program,
and it is in `job_stuck` and `report_panics`; `dispatch`, `mixed` and `liveness` set it to
TRUE, which adds the outcome of a scan that succeeds and takes none away. A worker has at
most one poll under way. The heartbeat writes a timestamp that nothing reads and is not
modelled. A request that has arrived starts when one of `WorkerThreads` is free and
then keeps its thread, since no handler awaits; counters are u64 in the code and
cannot reach their limit by counting requests.

### The catalog

`Catalog` - `SessionState` and its users in the master process. `SessionState` has one
RwLock that each of its methods takes for itself, so an action is one lock section or one
access to a file. `h[r]` is the handler of request `r` with its local variables. A file is
its content; a schema is the reader that inferred it and the content it read, or that of a
flow's output and the content it was written as. The flows of pipelines share the
`SessionState`: `Flows` are the flows there are, with their destinations.

| Code | Actions |
|---|---|
| `POST /v1/catalog/tables` | `RegisterBegin`, `RegisterInfer`, `RegisterInsert` |
| `DELETE /v1/catalog/tables/{name}` | `UnregisterBegin`, `Unregister` |
| the planner's table scan | `QueryBegin`, `ReadLocation`, `ReadSchema`, `QueryScan` |
| SHOW CREATE TABLE | `ShowBegin`, `ReadSchema`, `ReadLocation` |
| the listings and the editor's suggestions | `ListBegin`, `SuggestBegin`, `Names`, `ListSchema`, `ListLocation`, `SuggestSchema` |
| `run_one` and `run_live_streaming` of a flow, `register_flow_output` | `FlowBegin`, `FlowWrites`, `RegisterInsert`, `FlowFails` |
| `--load` at start-up | `Init` |
| other programs that write the files | `FileChange` |

`CatalogProofs` has its invariant and the proofs.

### Pipelines

* `FlowGraph` - `dag.rs`: names to nodes, edges, refusals, and one iteration of
  `layers()`, Kahn's algorithm layer by layer (`AtZero`, `Peeled`).
* `Pipeline` - the runner: `Submit` is the handler up to the run, `run[q]` the runner of
  request `q`. `Layer` is an iteration of `layers()`, so that the layers are built by steps
  and not by a recursion; `Pick` and `Finish` are the loop over the layers; `Poll`, `Execute`,
  `Truncate` and `Write` (or `PutObject`, or `AppendBatch` for a live flow) and
  `Register` are the steps of a flow, between which other requests run. `std::fs::write`
  truncates and then writes, so it is two steps. A file is its format and its rows:
  `write_file` renders a table for people, `append_file` writes NDJSON, S3 gets CSV, and
  `ReadOutcomes` says what each reader makes of each format. Directories change in
  `FileArrives` and `FileRemoved`; one that is missing, or that cannot be read, is
  `TailFails`. A streaming flow whose projection names a column that the polled rows do not
  have is a choice of `Execute`, since rows have no columns here.
* `PipelineProofs` - the invariant of `Pipeline` and the proofs.
* `LiveFlow` - `POST /v1/events` (`rspark-ingest`) through a Kafka topic into the NDJSON
  file of a `refresh: live` flow. `Receive`, `Send`, `Answer` are the producer's handler;
  `Start`, `Recv`, `PollEnds`, `AppendBatch`, `AppendFails`, `Cancel` a run of the flow;
  `Assign`, `AutoCommit`, `Fence` and `Rejoin` the consumer group (external); `Crash` the
  process. After `Fence` (`session.timeout.ms`) a consumer goes on with what it takes for its
  partition (`holds`) until it notices, and cannot commit; the commits of a rebalance and of
  a close may fail. An append that fails may have written any part of the batch, the last
  line in part too: the file is then `open`, and the next line written onto the fragment is
  `torn`, no row of either (`JsonSource` refuses the whole file for it). An error of
  `execute_flow` is an `AppendFails` that has written nothing; the bytes of two appends do
  not mix. A message is its offset, so that a lost or repeated line can be told.
* `LiveFlowProofs` - the invariant of `LiveFlow` and the proofs.

### The operator

`Operator` - one `SparkCluster`, its reconciler, the seven objects it owns and its
status. `Reconcile` is the reconciler, one action per request to the API server: `Start`,
`Apply` for each object in order, `Get` for the two deployments, `List` for the pods,
`Publish` for the status; `RequestFails` is an error of any of them and `Restart` of the
process. Kubernetes is external: `Watch` feeds the controller's cache, `Collect` is the
garbage collector, `Roll` the deployment controller within maxSurge and maxUnavailable.
Users create, edit and delete the resource (`Create`, `Edit`, `Delete`), delete or scale
what it owns (`Drift`, `Scale`), and pods are lost (`PodLost`). An object is its owner,
its body and the fields another manager owns; a pod is its template. `OperatorProofs` has
its invariant and the proofs.

### The SQL engine

* `Values` - `value.rs` and the scalar operators of `expr.rs`: casts, `try_cmp`,
  arithmetic at the width `Width`, LIKE. A value is a tag and its contents; floats are
  multiples of 1/`Unit`; what a string parses to is given by constants (`IntText`,
  `FloatText`, `NaNText`, `BoolText`).
* `Exprs` - `eval`, display names, types, and `build_expr` from the syntax tree.
* `Plans` - the planner: FROM, WHERE, GROUP BY, HAVING, DISTINCT, UNION, ORDER BY, LIMIT,
  EXPLAIN, and the schema of every plan.
* `RowBatch` - batches, and the operators that evaluate no expression.
* `Execution` - the executor and its operators on rows.
* `Query` - a request: `Plan`, then `Execute`. Its properties compare the answer with a
  reference defined from the syntax tree alone, by sets of row numbers, without plans.
* `Arrow` - the columnar boundary: `ArrowFromCore`, one operator, `ArrowToCore`. In the
  repository only tests call it.

### Files

`Storage` - CSV and JSON writers (`Rendered`), schema inference (`Inferred`), coercion and
scans (`Scanned`). `Write` replaces the file, `Register` infers the schema once, `Scan` uses
that schema whatever the file holds by then. S3 objects go through the same code.
`StorageProofs` has its invariant and the proofs.

## Runs

| Run | Instance | What it shows |
|---|---|---|
| `dispatch` | one job of two tasks, two workers, two threads, one fault, no restart | types, at-most-once dispatch, no task forgotten without a fault, stable outcomes, exact `total_runs`, sound stage and job verdicts, a report without its job only in the middle of the submission, refinement of `TaskDispatch` |
| `mixed` | a job with parallelism 0, a query, a SHOW, one worker, one restart | inline results are recorded; `IInv` holds across a restart (the refinement, checked in `dispatch`, is proved for restarts too) |
| `liveness` | as `dispatch`, no fault, no SQL request, `FairSpec` | every queued task gets an outcome |
| `job_stuck` | the program as shipped: one job without a scan, one worker without a catalog, no fault | **violated**: the submission's write of Running, from a copy made before, overwrites the verdict of a report handled after `insert_job`; the job stays Running although its only task has succeeded |
| `report_panics` | as shipped, likewise | **violated**: `unwrap` on a job that is not yet in the table |
| `catalog` | two requests of any kind or runs of flows, two tables, a CSV and an NDJSON path, an S3 key, one file change | entries are never mixed; what is answered about a table that nobody touched meanwhile is its entry; every handler answers |
| `pipeline` | two concurrent settings with live flows, S3, arriving files and one failed read or write, a sequential one, and all graphs of three flows, two of which may share a name | a flow runs after the flows it names; the report is complete; what is registered exists; outputs are whole when runs do not overlap; layers are those of the longest path; a run without a live flow is answered |
| `live_flow` | two runs, up to three events, one or two faults of the consumer or the producer | without faults each event is stored exactly once; repetition needs a message that was consumed and could not be committed; what is lost was in a run's hands or stands behind a fragment, one line per fault; `produced` counts only what is in the topic; acknowledged events are stored in the end |
| `operator` | deletion and recreation, a new image with a fault, unusable specs with a deleted child, scaling | children appear in the order of the code; objects, pods and status converge to the last spec |
| `query` | row queries and grouped queries over all tables `t(a, b)` of at most three rows with NULLs, of integers and of texts that collide | rows, order, groups and aggregates are what the syntax tree promises, with integers that wrap; of rows with the same text one is left, and no other row is lost |
| `group_expr` | `SELECT a + b, COUNT(*) FROM t GROUP BY a + b` | **violated**: the query fails |
| `storage` | batches of at most two rows over values of all types, with a repeated name, two writes; Arrow batches of at most three rows | which values survive a file and back, that JSON is read by name and CSV by place under a stale schema, that Arrow operators agree with the row-wise ones |

Bounds. For the cluster, two tasks, two workers and two threads are the least that let two
polls or two reports of one stage and one job overlap, which is all that any lost update
here needs; the program itself runs two threads. One fault is enough to lose a task at
each point; after one restart there are tasks of an old and of a new master. The bounds on
faults and restarts are the only ones on behaviour, and the proofs hold for every value of
them. `WorkerSymmetry` is used where only safety is checked: workers are interchangeable.
In the catalog and the pipelines the conflicts are between two requests: no check in the
code spans a third. `MaxPoll = 2` with three events fills a batch and leaves a rest; two
runs of a group are the least for a rebalance. The operator needs two edits for an edit
during a rollout and three for a deletion and recreation under one name. Three rows make
groups of two and one, ties and a LIMIT that cuts; `Width = 4` has the integers from -8 to
7, which `a + 7`, `(a - 6) * b`, `-(a - 6)` and `(a - 6) % (a + 1)` leave. Deadlock is not checked
where requests are finite and the system
may rest.

What the properties leave out, on purpose. `WholeOutputs` is claimed only where runs do
not overlap: the code truncates without a lock. `EveryRunAnswered` is claimed only for
pipelines without a live flow. `EventuallySettled` is claimed unless a deployment was
scaled by another field manager. `NoForgottenTask` is claimed until something fails, as the
code has no lease. `InlineResultSticks` allows the report of a worker that was given the same
query to replace the result: the code does that. `StableReadsExact` says nothing of tables
that somebody changed meanwhile, of which the code may mix two entries. `ReadsBack` is
claimed for the values whose text is read back as the same type: no whole floats, NaN, empty
texts or texts that look like something else; infinities are not modelled. `ArrowAgrees` is
claimed for columns that hold their declared type and for ascending NULLs. `RowsAnswer` and
`GroupsAnswer` are asked where no two different rows or groups have the same text
(`Confused`), of which `SameTextsMeet` speaks; and where the executor does not find an
aggregate or a column above an aggregation (`OutOfReach`), `GroupsAnswer` says that the query
fails. The section on deviations has these cases.

Fairness. In `liveness`, a started handler and a living worker keep going (weak fairness):
no lock is held between steps, so their next step stays enabled. Polls and reports wait
for a free thread, which comes and goes; the runtime serves its queue in order, hence
strong fairness for their first step. In `catalog` and `pipeline`, a started handler owns
its thread or its task and holds no lock between steps: weak fairness of its steps. In
`live_flow`, weak fairness of a request's sends and answer (each send has a timeout), of a
run's steps, and of the assignment of a partition that has no owner. In `operator`, weak
fairness of the reconciler, which requeues itself after 30 s or, on error, 15 s, and of
the watch, the garbage collector and the deployment controller. No request is obliged to
arrive, and no fault to happen.

## Proofs

Every theorem is about the `Spec` of its module, for all values of its constants that
satisfy the named assumptions beside their declarations: all sets of jobs, workers, tables,
requests and runs, all numbers of partitions and threads, all bounds on faults and restarts.

| Module | Theorem | Statement |
|---|---|---|
| `ClusterProofs` | `TypeCorrect` | `Spec => []TypeOK` |
| | `AtMostOnce` | `Spec => []AtMostOnceDispatch` |
| | `OutcomesStable` | `Spec => TerminalTaskStable` |
| | `StagesSound` | `Spec => []StageVerdictSound` |
| | `JobsGrounded` | `Spec => []JobVerdictGrounded` |
| `ClusterLedgerProofs` | `Invariant` | `Spec => []IInv` |
| | `NothingForgotten` | `Spec => []NoForgottenTask` |
| | `RunsCounted` | `Spec => []TotalRunsExact` |
| | `InlineSticks` | `Spec => []InlineResultSticks` |
| | `Refinement` | `Spec => ImplementsTaskDispatch` |
| | `MissingJobOnlyMidSubmit` | `Spec => []PanicsOnlyMidSubmit` |
| `CatalogProofs` | `TypeCorrect` | `Spec => []TypeOK` |
| | `EntriesAreWhole` | `Spec => []EntriesWhole` |
| | `StableReads` | `Spec => []StableReadsExact` |
| `LiveFlowProofs` | `TypeCorrect` | `Spec => []TypeOK` |
| | `RepeatsAreUncommitted` | `Spec => []RepeatedOnlyUncommitted` |
| | `NoOtherLosses` | `Spec => []LostOnlyInFlight` |
| | `ExactlyOnce` | `Spec => []ExactlyOnceWithoutFaults` |
| | `Produced` | `Spec => []ProducedAreInTopic` |
| `OperatorProofs` | `TypeCorrect` | `Spec => []TypeOK` |
| | `CreatedInOrder` | `Spec => []ChildrenInOrder` |
| `PipelineProofs` | `TypeCorrect` | `Spec => []TypeOK` |
| | `DependenciesRunFirst` | `Spec => []DependenciesFirst` |
| | `ReportsComplete` | `Spec => []ReportComplete` |
| | `RegisteredWritten` | `Spec => []RegisteredExists` |
| | `OutputsWhole` | `Spec => []WholeOutputs` |
| | `LayersAreLongestPaths` | `Spec => []LongestPathLayers` |
| `StorageProofs` | `TypeCorrect` | `Spec => []TypeOK` |
| | `ReadBack` | `Spec => []ReadsBack` |
| | `JsonByName` | `Spec => []JsonReadsByName` |
| | `CsvByPlace` | `Spec => []CsvReadsByPlace` |

### The cluster

The argument is one inductive invariant, `IInv` of `ClusterInv`, in four layers; TLC checks
it in run `mixed`.

1. `Shape`: types, and what goes with a program counter (a submission in its loop is at
   a partition of a planned job; a busy poll has a task).
2. `DispatchInv`: where a task is and what status it has there. `AtMostOnceDispatch`
   alone is not inductive: that a popped task cannot be popped again needs the queue to
   be free of duplicates and of tasks in hand, that needs tasks to be pushed once,
   which needs the loop index of the submission (`Inserted`, `Pushed`), and that a
   report writes only an assigned task needs the status of a task at each program
   counter of its poll and of its report.
3. `VerdictInv`: every copy of a stage or of a job, in a table or in a handler's
   variables, claims only what is true of the tasks. It survives because outcomes never
   change (`OutcomeKept`): a copy can be out of date but not become false.
4. `LedgerInv`: the master's books. A task names its worker from its assignment on
   (`OwnerInv`); until something fails, whoever asked still waits for the answer
   (`AnswerInv`), without which `NoForgottenTask` is not inductive; `total_runs` counts
   the tasks of `CountedTasks`, of which one step adds or removes at most one (`CountInv`);
   an inline result stays (`InlineInv`).

Layers 1 to 3 are `CoreInv`, which is inductive by itself; layer 4 is inductive given
`CoreInv`. There is one step per group of actions and layer; frame lemmas cover the actions
that leave a layer alone.

The refinement. Init maps to the initial state of `TaskDispatch`. Each action that moves a
task from one place to the next maps to the abstract step of that move, given the core
invariant and the owner of the task; a restart maps to the abstract restart; every other
action leaves each task's phase, owner and the queue as they are, and is a stutter.

The missing job. `ReportFindsJob` is false (run `report_panics`); `PanicsOnlyMidSubmit`
says that the window between the queue and `insert_job` is all there is to it: a report that
is about to unwrap a job finds it, unless its submission is still before `insert_job`.
`JobKnown` is the invariant: as nothing removes a job but a restart, which ends the handlers
too, from `insert_job` on the job is in the table. `JobReflectsTasks` has no such simple
exemption, since a late write can come from the submission and from any report.

The proof of `InlineSticks` corrected the property: with several partitions the report that
replaces the result may be that of any task of the query, not only of its first.

### The catalog

`Shape` has the types. `WholeInv` says that a handler about to insert an entry has a schema
which some content of that very file yields to the source it names, or which is that of the
output a flow has written there, so that the insertion cannot mix two registrations. `ReadInv`
says what a reader has learnt: if a table has had one entry ever
since the handler started, everything the handler has read of it so far is of that entry
(`Progress`), by operation and program counter; for the two listings, each such table is
either still to be visited or in the answer, exactly once (`ListProgress`). When the handler
has answered, this is `StableReadsExact`.

### Live flows

Exactly-once delivery is not inductive without the position of the consumers. `GroupInv`
puts the owner of the partition at or past the committed offset, and says that what anybody
has consumed beyond that, other than the owner, is in `uncommitted`: a failed commit, a
session that timed out, what a fenced consumer took, a crash. `OnceInv`: apart from these
messages, no two places among the batches, the file, the torn lines and the dropped rows hold
the same one, hence what the owner receives next is nowhere yet, and no line repeats.
`FileInv` follows each message that was consumed: it is a line, in a batch, torn or dropped;
and as only a fault leaves a fragment, there are no more torn lines than faults. `PostInv`
ties what an ingest handler counts to messages of its own in the topic.

### The operator

`ChildrenInOrder` needs to know what the reconcile under way has already passed:
`PassedInv`, which holds only for a reconcile of the current incarnation. A stale cache may
still start one for an earlier resource of the name, and the proof shows that this one
cannot disturb the order either, since what it creates has the old owner. `MadeInv` (owners
and generations come from edits users have made) keeps a new resource from meeting objects
that already carry its uid.

### Pipelines

The invariant of `PipelineProofs` follows a run through its program counter.

1. While the layers are built (`Peeling`): the nodes with a layer and those without one are
   the nodes of the graph; a node without one has as its degree the number of edges from
   others of that kind; each edge goes from a layer to a later one (`Forward`); each node of
   a later layer has an edge from the layer before (`Tight`), and each node that is left has
   one from another that is left or from the last layer. The last two are what makes a
   layer neither early nor late. When no node is at zero, each node that is left has an edge
   from another one, and since the graph was accepted, hence has no such set of nodes, none
   is left (`LongestPathLayers`).
2. While the flows run (`Walking`): the nodes no longer ahead have ended, except the one in
   hand and those that are shadowed by a later flow of their name. Ahead, every edge still
   goes from a layer to a later one. So what the flow in hand names is not ahead, and not
   the flow itself: it has ended (`DependenciesFirst`). When nothing is ahead, every name has
   ended, and since `done` and `failed` never repeat a flow (`Counted`), exactly once
   (`ReportComplete`).
3. What is in a destination (`DestInv`): a flow about to be registered has a file there, and
   no step removes a file. While runs do not overlap, it is the flow's output.

That shared names and shadowed nodes do no harm needed both properties to be stated for the
flow that a name stands for, and the report by names; before, they were claimed only for
pipelines in which names are unique.

Assumed of the constants (`PipelineAssumption`): flows have the fields of `spec.rs`, a source
that reads a directory names one, the markers `None` and `Garbage` are no data, and the
requests are finitely many.

### Files

The invariant of `StorageProofs`: the file is the rendering of the batch written last, the
result is the scan of the file under the registered schema with all rows of its length, and a
fresh schema is the one inferred from the file. The theorems then follow from lemmas on a
single value (`CsvCell`, `CsvText`, `JsonCell`, `JsonTyped`), on a column (`CsvColumn`: the
inferred type of a plain column is that of its values) and on the inferred JSON schema
(`JsonSchema`: every name has a field of its own with the type of its first value, since no
two names have the same rank in the order of strings).

`JsonReadsByName` once asked for the same value or text; the proof showed that this is only
true if no two texts are the same number ("1" and "01"), so it now allows the same number.

Assumed of the constants (`ValuesAssumption`, `StorageAssumption`): a text that parses as an
integer parses as the same float, and none as a float and as NaN; texts of numbers carry no
blanks and are not the words `null`, `none`, `true`, `false`; "true" and "false" stand for
themselves; a batch has a value for each field of each row and at least one field; and
printing a number of a batch and parsing it gives that number, which Rust promises for i64 and
f64.

### Only model-checked

Liveness under fairness (`QueuedTaskSettles`, `EveryRunAnswered`, `EventuallySettled` and
the like) is beyond the prover. So are the recursive definitions: `Exprs`, `Plans`,
`Execution`, `Query`, and what is built on those (`RowsAnswer`, `GroupsAnswer`,
`SameTextsMeet`); their properties compare what a recursion computes with a reference, which would
need an induction
over data. `ArrowAgrees` compares sorts and selections of sequences, whose library operators
the prover cannot expand, and is checked by enumeration.

## Deviations from the documentation

The models follow the code. Where the code does something else than its documentation or
comments say, the model does what the code does. `PROJECT.json` has the three that a run
demonstrates (`job_stuck`, `report_panics`, `group_expr`). The others, each with the text it
differs from:

Cluster and catalog

* A SQL query is also queued for the workers (`rspark-api/src/routes.rs:293`): "Always runs
  in-process on the master" (docs/api.md:58-60).
* A failed SHOW CREATE TABLE stays Running (`routes.rs:286`): "SQL currently running -
  verbatim SQL of any in-flight job" (docs/dashboard.md:74).
* A worker executes with an empty catalog (`rspark-cli/src/commands.rs:204`): "workers re-run
  the whole plan against the same data the master saw" (docs/architecture.md:17-18).
* Unregistered workers receive tasks of a restarted master (`routes.rs:142`): "the workers
  will idle until you also restart them" (docs/operator.md:161-163).
* SHOW CREATE TABLE reads schema and location under two locks and may mix two tables
  (`show_create.rs:12`): it "would recreate `table_name`" (show_create.rs:8-9).

Pipelines

* Two flows of one name are accepted and one is passed over (`dag.rs:32`): "one
  [`RunStats`] per flow" (runner.rs:80-81), "Unique within the pipeline"
  (docs/pipelines.md:34).
* A new run reads the first file again (`source.rs:124`): "a single file is never re-read
  after being committed" (source.rs:48-49).
* A run without new rows empties the destination (`sink.rs:40`): "a streaming table without
  new data stays at its last value" (runner.rs:13-14).
* A streaming flow prefers the scanned table to the polled rows (`executor.rs:165`): "The
  first `Scan` in the plan will be skipped" (executor.rs:157).
* Outputs rendered for people are registered as CSV (`runner.rs:225`): "downstream flows can
  read it" (runner.rs:138-139). An object is registered as "s3_csv", which no registry that
  plans are executed with holds (`runner.rs:232`), so no query can read it at all.
* An append that fails leaves a part of the batch, and of a line, behind (`sink.rs:71`):
  "downstream readers [...] can read the destination losslessly" (sink.rs:53-54).
* A pipeline with a live flow is never answered (`routes.rs:607`): "`202 Accepted` for
  `refresh: live` flows" (docs/api.md:194-195). docs/pipelines.md:53 calls the Kafka source
  a stub, which it no longer is.

Operator

* Ready counts pods of the old template (`controller.rs:576`): "status reflects rolling
  updates" (controller.rs:106-107).
* A cluster of no workers never becomes Ready (`controller.rs:574`): "the count of Ready pods
  vs the desired replica count" (docs/operator.md:58-59).
* After `kubectl scale` every apply conflicts, since it does not force (`controller.rs:496`):
  "try to update" (controller.rs:484-485).

SQL and files

* JOIN ignores its ON (`planner.rs:197`): "inner joins (with `ON` predicate)"
  (docs/sql-surface.md:50). NULL joins NULL (`operators.rs:539`; docs/sql-surface.md:139).
* `t.*` is `*` (`expr_builder.rs:287`; docs/sql-surface.md:13). CASE is refused
  (`expr_builder.rs:129`; docs/sql-surface.md:33-34). ABS, UPPER and LOWER return their
  argument and NVL prefers its second (`expr_builder.rs:203`; docs/sql-surface.md:28-29).
* Floats are cut to integers before `+`, `-`, `*` (`expr.rs:420`; docs/sql-surface.md:24-27).
* GROUP BY ALL groups by nothing (`planner.rs:127`; docs/sql-surface.md:41). HAVING sees only
  selected aggregates (`planner.rs:150`; docs/sql-surface.md:42), and fails when one is below
  NOT, IS NULL or arithmetic (`operators.rs:218`, `expr.rs:302`; docs/sql-surface.md:42).
* Above an aggregation, a selected expression that is neither an aggregate nor made of
  grouping columns fails: the GROUP BY expression itself (run `group_expr`), `COUNT(*) + 1`,
  a column that is not grouped (`operators.rs:286`; docs/sql-surface.md:45-46).
* Values of different types are never equal, so `HAVING SUM(x) = 2` is never true, as sums are
  floats (`expr.rs:375`, `operators.rs:226`; docs/sql-surface.md:24).
* Groups are told apart by the texts of their values, so NULL and 'null' are one group
  (`operators.rs:324`), and DISTINCT compares texts joined by bars (`executor.rs:301`;
  docs/sql-surface.md:11). MIN and MAX over
  types that do not compare depend on the order of rows (`operators.rs:424`;
  docs/sql-surface.md:134-135).
* A column of integers and booleans is declared Boolean (`csv_source.rs:150`): "A typed row of
  values aligned to a [`Schema`]" (record.rs:6).
* An Arrow column of type NULL loses its rows (`arrow_batch.rs:239`): "The conversion is
  lossless" (arrow_batch.rs:7-8).

Also kept as the code has it: a query's plan may mix two tables that have one name one after
the other (`planner.rs:221`); overlapping runs of a pipeline tear each other's destination
(`sink.rs:40`); an aggregate without GROUP BY over no rows answers no row;
AND and OR are NULL when either side is; OFFSET is ignored; EXPLAIN yields one row per row
of its input; integers wrap in release builds, and the least one % -1 panics
(`expr.rs:455`); a CSV scan pairs columns by position, as docs/architecture.md:56-58 says.

## Plan

All components with state have a model and a run, and every safety property that a run shows
to hold is a theorem, except for those of `Query` and `Arrow`. What is left: `execute_plan` with
partitions, should it get a caller, and proofs about single operators of `RowBatch` and
`Execution` (what a filter or a join returns for rows of any number), which need no induction
once they are stated over sets of row numbers.

## Not modelled

* The dashboard: constant pages and scripts, rendered from one snapshot. The arguments of
  the command line, the terminal of the REPL.
* Libraries: the S3 and Kafka clients, HTTP framing, the SQL parser, petgraph, Kubernetes;
  what the code relies on is modelled and marked external.
* Code without a caller or effect: `remove_worker`, `JobStatus::Cancelled`,
  `TaskStatus::Running`, the stage callback, `fetch_remote_state`, `execute_plan` with
  partitions, `lower_plan` (statistics). The heartbeat stores a timestamp nothing reads.
* `Int32` and `Float32` values, which no reader or planner makes; floats other than
  multiples of a unit; the order in which Rust leaves rows whose keys do not compare.
* The `rspark-pipeline` binary, which runs a pipeline with an empty catalog, is
  `HasCatalog = FALSE` in `Pipeline`; no run instantiates it.
