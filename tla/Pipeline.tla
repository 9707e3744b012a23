------------------------------ MODULE Pipeline ------------------------------
(***************************************************************************)
(* The pipeline runner (crates/rspark-pipelines): POST /v1/pipelines hands *)
(* it a list of flows, and it visits the layers of the flow graph, polling *)
(* a source, executing SQL, writing a destination and registering it as a  *)
(* table, one flow at a time.  Several requests may be under way; they     *)
(* share the destination files and the catalog.                            *)
(*                                                                         *)
(* A batch is a set of rows.  A flow's SQL is the table it reads and the   *)
(* rows its WHERE keeps.  What is kept of a file is its format and rows:   *)
(* write_file renders a table for humans, append_file writes NDJSON, the   *)
(* S3 writer CSV, and a reader of another format makes of it what          *)
(* ReadOutcomes says.                                                      *)
(***************************************************************************)
EXTENDS FlowGraph

CONSTANTS
    Scenarios,      \* Scenarios[w]: what happens around the runner
    Rows,           \* rows that sources produce
    Paths,          \* local files
    Keys,           \* S3 objects
    Dirs,           \* directories with NDJSON files
    Requests,       \* POST /v1/pipelines requests
    HasCatalog,     \* FALSE: the rspark-pipeline binary and its EmptyCatalog
    Seeded,         \* Seeded[t]: the CSV file table t is registered with, or None
    Garbage,        \* a row that no source produced: a ruler, a footer, a fragment
    None

(***************************************************************************)
(* A scenario: the pipelines that may be posted, by which requests, how    *)
(* many of them are under way at a time, and how often the directories     *)
(* change, a directory cannot be read and a file or S3 write fails.        *)
(***************************************************************************)
Specs == UNION {Scenarios[w].specs : w \in DOMAIN Scenarios}

FlowNames == UNION {NamesOf(fs) : fs \in Specs}

TableNames == FlowNames \cup DOMAIN Seeded

Flows == [name : STRING, deps : Seq(STRING), live : BOOLEAN,
          kind : {"streaming_table", "materialized_view"},
          source : {"tail_dir", "csv", "json", "s3", "sql"}, from : Paths \cup Dirs \cup {None},
          reads : TableNames \cup {None}, keeps : SUBSET Rows, dest : Paths \cup Keys]

Batches == SUBSET (Rows \cup {Garbage})

\* An entry of the catalog, and a file of a directory: its rows, or None for
\* one that does not parse.
Entries == [path : Paths \cup Keys, source : {"csv", "s3_csv"}]

Arrivals == [id : Nat, rows : (SUBSET Rows) \cup {None}]

ASSUME PipelineAssumption ==
    /\ \A w \in DOMAIN Scenarios :
         /\ Scenarios[w].posts \subseteq Requests /\ Scenarios[w].concurrent \in Nat \ {0}
         /\ Scenarios[w].maxArrivals \in Nat /\ Scenarios[w].maxErrors \in Nat
    /\ HasCatalog \in BOOLEAN /\ IsFiniteSet(Requests)
    /\ Garbage \notin Rows /\ Paths \cap Keys = {} /\ None \notin Paths \cup Keys
    /\ None \notin Entries \cup Arrivals /\ \A b \in Batches : b # None
    /\ \A t \in DOMAIN Seeded : Seeded[t] \in Paths \cup {None}
    /\ Specs \subseteq Seq(Flows)
    /\ \A fs \in Specs : \A i \in DOMAIN fs :
         /\ fs[i].source = "tail_dir" => fs[i].from \in Dirs
         /\ fs[i].source \in {"csv", "json"} => fs[i].from \in Paths

VARIABLES
    scenario,  \* the one of this behaviour; no step changes it
    files,     \* files[p]: [fmt, rows] of a local file or an S3 object
    inbox,     \* inbox[d]: the files of d in the order of their names
    tables,    \* the catalog: tables[t] is [path, source], or None
    run,       \* run[q]: the runner of request q and its local variables
    resp,      \* resp[q]: the HTTP answer
    registry,  \* PipelineRegistry: the pipelines posted since the start
    arrivals, errors

vars == <<scenario, files, inbox, tables, run, resp, registry, arrivals, errors>>

World == Scenarios[scenario]

-----------------------------------------------------------------------------
(***************************************************************************)
(* Storage.                                                                *)
(***************************************************************************)
File(fmt, rows) == [fmt |-> fmt, rows |-> rows]

Absent == File("none", {})

(***************************************************************************)
(* What reading a file through a source can give: a set of rows, or None   *)
(* for an error.  A rendered table read as CSV has one cell per line: a    *)
(* schema of several columns refuses it, a schema of one column takes the  *)
(* ruler and the footer for rows; "(0 rows)" is a header without rows.  Of *)
(* NDJSON the CSV reader takes the first line for the header.  "s3_csv" is *)
(* no source of the synchronous registry.                                  *)
(***************************************************************************)
ReadOutcomes(file, source) ==
    IF file = Absent \/ source \notin {"csv", "json"} THEN {None}
    ELSE IF file.fmt = source \/ file.fmt = "empty" THEN {file.rows}
    ELSE IF source = "json" THEN {None}
    ELSE IF file.fmt = "table"
         THEN IF file.rows = {} THEN {{}} ELSE {None, file.rows \cup {Garbage}}
    ELSE {None, {}, {Garbage}}

-----------------------------------------------------------------------------
(***************************************************************************)
(* The runner.                                                             *)
(***************************************************************************)
NoRun == [pc |-> "idle", flows |-> <<>>, remaining |-> <<>>, layers |-> <<>>, at |-> 0,
          input |-> {}, out |-> {}, seen |-> {}, listed |-> FALSE, done |-> <<>>, failed |-> <<>>]

Flow(q) == run[q].flows[run[q].at]

Active == {q \in Requests : run[q].pc \notin {"idle", "end"}}

(***************************************************************************)
(* submit_pipeline: a body that does not parse is answered 400; the others *)
(* are put in the registry before the run, and a graph that is refused is  *)
(* answered 500.                                                           *)
(***************************************************************************)
Submit(q) ==
    /\ q \in World.posts /\ run[q].pc = "idle" /\ Cardinality(Active) < World.concurrent
    /\ \/ /\ run' = [run EXCEPT ![q].pc = "end"]
          /\ resp' = [resp EXCEPT ![q] = "400"]
          /\ UNCHANGED registry
       \/ \E fs \in World.specs :
            /\ registry' = registry \cup {fs}
            /\ IF FromPipeline(fs) = "ok"
               THEN /\ run' = [run EXCEPT ![q] = [NoRun EXCEPT !.pc = "layer", !.flows = fs,
                                                               !.remaining = InDegrees(fs)]]
                    /\ UNCHANGED resp
               ELSE /\ run' = [run EXCEPT ![q].pc = "end"]
                    /\ resp' = [resp EXCEPT ![q] = "500"]
    /\ UNCHANGED <<scenario, files, inbox, tables, arrivals, errors>>

\* run: the layers of the graph, one iteration of layers() at a time.
Layer(q) ==
    /\ run[q].pc = "layer"
    /\ LET layer == AtZero(run[q].remaining) IN
         \/ layer = {} /\ run' = [run EXCEPT ![q].pc = "pick"]
         \/ /\ layer # {}
            /\ run' = [run EXCEPT ![q].layers = Append(@, layer),
                                  ![q].remaining = Peeled(run[q].flows, @)]
    /\ UNCHANGED <<scenario, files, inbox, tables, resp, registry, arrivals, errors>>

\* Mutant: the rest of a layer comes after the next one.
WithoutLater(layers, n) ==
    IF Head(layers) = {n} THEN Tail(layers) ELSE Tail(layers) \o <<Head(layers) \ {n}>>

\* The layers without node n of the first one.
Without(layers, n) ==
    IF Head(layers) = {n} THEN Tail(layers) ELSE <<Head(layers) \ {n}>> \o Tail(layers)

(***************************************************************************)
(* run: the next node of the current layer, in the order of a hash map; a  *)
(* node that stands for no flow is passed over.                            *)
(***************************************************************************)
Pick(q) ==
    /\ run[q].pc = "pick" /\ run[q].layers # <<>>
    /\ \E n \in Head(run[q].layers) :
         LET f == FlowAt(run[q].flows, n) IN
         run' = [run EXCEPT ![q].layers = Without(@, n), ![q].at = f,
                            ![q].pc = IF f = 0 THEN "pick" ELSE "poll",
                            ![q].seen = {}, ![q].listed = FALSE]
    /\ UNCHANGED <<scenario, files, inbox, tables, resp, registry, arrivals, errors>>

Finish(q) ==
    /\ run[q].pc = "pick" /\ run[q].layers = <<>>
    /\ run' = [run EXCEPT ![q].pc = "end"]
    /\ resp' = [resp EXCEPT ![q] = "200"]
    /\ UNCHANGED <<scenario, files, inbox, tables, registry, arrivals, errors>>

\* Mutant: the first error ends the run.
FailedAborts(rec) == [rec EXCEPT !.failed = Append(@, rec.at), !.pc = "pick", !.layers = <<>>]

\* An error of run_one is recorded, and the run goes on with the next flow,
\* as it does after a result.
Failed(rec) == [rec EXCEPT !.failed = Append(@, rec.at), !.pc = "pick"]

Succeeded(rec) == [rec EXCEPT !.done = Append(@, rec.at), !.pc = "pick"]

Fails(q) == run' = [run EXCEPT ![q] = Failed(@)]

(***************************************************************************)
(* build_source and poll_batch.  A run_one makes a new source and polls it *)
(* once; a live flow keeps its source.  The tail source takes the first    *)
(* file of the directory it has not yet emitted and remembers it after     *)
(* reading it; a file that does not parse is an error and not remembered.  *)
(* A one-shot source reads its file when it is built and gives it once; an *)
(* unreadable file is an empty batch.  S3 is refused, `sql` always empty.  *)
(***************************************************************************)
NextUnseen(q) ==
    LET new == {i \in DOMAIN inbox[Flow(q).from] : inbox[Flow(q).from][i].id \notin run[q].seen}
    IN  IF new = {} THEN None ELSE inbox[Flow(q).from][Min(new)]

\* The directory is missing, or it or the file cannot be read.
TailFails(q) ==
    /\ run[q].pc = "poll" /\ Flow(q).source = "tail_dir" /\ errors < World.maxErrors
    /\ errors' = errors + 1 /\ Fails(q)
    /\ UNCHANGED <<scenario, files, inbox, tables, resp, registry, arrivals>>

\* Mutant: a flow that is not live waits for data, too.
PolledWaits(rec, rows, id) ==
    [rec EXCEPT !.input = rows, !.seen = @ \cup id,
                !.pc = IF rows = {} THEN "poll"
                       ELSE IF rec.flows[rec.at].live THEN "append" ELSE "execute"]

\* Mutant: a live flow is registered before it has a batch.
PolledRegisters(rec, rows, id) ==
    [rec EXCEPT !.input = rows, !.seen = @ \cup id,
                !.pc = IF ~rec.flows[rec.at].live THEN "execute"
                       ELSE IF rows = {} THEN "register" ELSE "append"]

\* The runner's variables after polling the rows `rows` of the file `id`.
Polled(rec, rows, id) ==
    [rec EXCEPT !.input = rows, !.seen = @ \cup id,
                !.pc = IF ~rec.flows[rec.at].live THEN "execute"
                       ELSE IF rows = {} THEN "poll" ELSE "append"]

Poll(q) ==
    /\ run[q].pc = "poll"
    /\ LET flow == Flow(q) IN
         \/ flow.source = "s3" /\ Fails(q)
         \/ flow.source = "sql" /\ run' = [run EXCEPT ![q] = Polled(@, {}, {})]
         \/ /\ flow.source \in {"csv", "json"}
            /\ \E rows \in IF flow.from \in run[q].seen THEN {{}}
                           ELSE ReadOutcomes(files[flow.from], flow.source) :
                 run' = [run EXCEPT ![q] =
                           Polled(@, IF rows = None THEN {} ELSE rows, {flow.from})]
         \/ /\ flow.source = "tail_dir"
            /\ LET file == NextUnseen(q) IN
                 IF file = None THEN run' = [run EXCEPT ![q] = Polled(@, {}, {})]
                 ELSE IF file.rows = None THEN Fails(q)
                 ELSE run' = [run EXCEPT ![q] = Polled(@, file.rows, {file.id})]
    /\ UNCHANGED <<scenario, files, inbox, tables, resp, registry, arrivals, errors>>

(***************************************************************************)
(* execute_flow for a flow that is not live.  The planner resolves the     *)
(* table the query names; a query without FROM scans nothing.  A view is   *)
(* the filtered scan.  A streaming table goes through execute_with_input:  *)
(* the plan below its projection is executed first, filter included, and   *)
(* the polled batch takes the place of its result, unfiltered, only when   *)
(* that fails or is empty; a projection that names a column which the      *)
(* polled rows do not have then fails the flow.                            *)
(***************************************************************************)
TakesPolled(flow, scanned) == scanned # None => scanned \cap (flow.keeps \cup {Garbage}) = {}

StreamingOutput(flow, scanned, input) ==
    IF TakesPolled(flow, scanned) THEN input ELSE scanned \cap (flow.keeps \cup {Garbage})

ScanOf(flow) ==
    IF flow.reads = None THEN {{}}
    ELSE ReadOutcomes(files[tables[flow.reads].path], tables[flow.reads].source)

Execute(q) ==
    /\ run[q].pc = "execute"
    /\ LET flow == Flow(q) IN
         \/ flow.reads # None /\ tables[flow.reads] = None /\ Fails(q)
         \/ /\ flow.reads = None \/ tables[flow.reads] # None
            /\ \E scanned \in ScanOf(flow) :
                 \/ /\ flow.kind = "streaming_table"
                    /\ run' = [run EXCEPT ![q].pc = "truncate",
                                 ![q].out = StreamingOutput(flow, scanned, run[q].input)]
                 \/ /\ flow.kind = "streaming_table" /\ TakesPolled(flow, scanned)
                    /\ run[q].input # {} /\ Fails(q)
                 \/ /\ flow.kind = "materialized_view" /\ scanned # None
                    /\ run' = [run EXCEPT ![q].pc = "truncate",
                                 ![q].out = scanned \cap (flow.keeps \cup {Garbage})]
                 \/ flow.kind = "materialized_view" /\ scanned = None /\ Fails(q)
    /\ UNCHANGED <<scenario, files, inbox, tables, resp, registry, arrivals, errors>>

-----------------------------------------------------------------------------
(***************************************************************************)
(* Destinations.  write_file is std::fs::write: open with truncation, then *)
(* write from offset 0.  When somebody else has written in between, what   *)
(* is longer of his text remains behind ours.  An S3 object is put whole.  *)
(***************************************************************************)
WriteFails(q) ==
    /\ run[q].pc \in {"truncate", "write", "append"} /\ errors < World.maxErrors
    /\ errors' = errors + 1 /\ Fails(q)
    /\ UNCHANGED <<scenario, files, inbox, tables, resp, registry, arrivals>>

\* Mutant: the file is opened without truncation.
TruncateKeeps(q) ==
    /\ run[q].pc = "truncate" /\ Flow(q).dest \in Paths
    /\ run' = [run EXCEPT ![q].pc = "write"]
    /\ UNCHANGED <<scenario, files, inbox, tables, resp, registry, arrivals, errors>>

Truncate(q) ==
    /\ run[q].pc = "truncate" /\ Flow(q).dest \in Paths
    /\ files' = [files EXCEPT ![Flow(q).dest] = File("empty", {})]
    /\ run' = [run EXCEPT ![q].pc = "write"]
    /\ UNCHANGED <<scenario, inbox, tables, resp, registry, arrivals, errors>>

\* The contents the file can have once `rows` are rendered into it.
Written(old, rows) ==
    IF old.fmt = "empty" THEN {File("table", rows)}
    ELSE {File("table", rows), File("torn", rows \cup old.rows)}

Write(q) ==
    /\ run[q].pc = "write"
    /\ \E f \in Written(files[Flow(q).dest], run[q].out) :
         files' = [files EXCEPT ![Flow(q).dest] = f]
    /\ run' = [run EXCEPT ![q].pc = "register"]
    /\ UNCHANGED <<scenario, inbox, tables, resp, registry, arrivals, errors>>

PutObject(q) ==
    /\ run[q].pc = "truncate" /\ Flow(q).dest \in Keys
    /\ files' = [files EXCEPT ![Flow(q).dest] = File("csv", run[q].out)]
    /\ run' = [run EXCEPT ![q].pc = "register"]
    /\ UNCHANGED <<scenario, inbox, tables, resp, registry, arrivals, errors>>

(***************************************************************************)
(* append_destination of a live batch: the polled rows are the output.  S3 *)
(* cannot append, which is an error and ends the flow.                     *)
(***************************************************************************)
Appended(old, rows) ==
    File(IF old.fmt \in {"none", "empty", "json"} THEN "json" ELSE "torn", old.rows \cup rows)

AppendBatch(q) ==
    /\ run[q].pc = "append"
    /\ IF Flow(q).dest \in Keys THEN Fails(q) /\ UNCHANGED files
       ELSE /\ files' = [files EXCEPT ![Flow(q).dest] = Appended(@, run[q].input)]
            /\ run' = [run EXCEPT ![q].pc = IF run[q].listed THEN "poll" ELSE "register"]
    /\ UNCHANGED <<scenario, inbox, tables, resp, registry, arrivals, errors>>

(***************************************************************************)
(* register_flow_output: whatever the format, a file is registered as      *)
(* "csv" and an object as "s3_csv".  An error is only logged; a live flow  *)
(* then tries again after its next batch.                                  *)
(***************************************************************************)
\* Mutant: the output is registered with the format of the flow's source.
RegisteredAsInput(flow) == [path |-> flow.dest, source |-> flow.source]

Registered(flow) ==
    [path |-> flow.dest, source |-> IF flow.dest \in Paths THEN "csv" ELSE "s3_csv"]

Register(q) ==
    /\ run[q].pc = "register"
    /\ tables' = IF HasCatalog THEN [tables EXCEPT ![Flow(q).name] = Registered(Flow(q))]
                 ELSE tables
    /\ run' = [run EXCEPT ![q] =
                 IF Flow(q).live THEN [@ EXCEPT !.listed = HasCatalog, !.pc = "poll"]
                 ELSE Succeeded(@)]
    /\ UNCHANGED <<scenario, files, inbox, resp, registry, arrivals, errors>>

-----------------------------------------------------------------------------
(***************************************************************************)
(* Producers drop NDJSON files in the directories, whole or malformed, and *)
(* housekeeping removes the oldest.                                        *)
(***************************************************************************)
FileArrives ==
    /\ arrivals < World.maxArrivals /\ arrivals' = arrivals + 1
    /\ \E d \in Dirs, rows \in {{x} : x \in Rows} \cup {None} :
         inbox' = [inbox EXCEPT ![d] = Append(@, [id |-> arrivals, rows |-> rows])]
    /\ UNCHANGED <<scenario, files, tables, run, resp, registry, errors>>

FileRemoved ==
    /\ arrivals < World.maxArrivals /\ arrivals' = arrivals + 1
    /\ \E d \in Dirs : inbox[d] # <<>> /\ inbox' = [inbox EXCEPT ![d] = Tail(@)]
    /\ UNCHANGED <<scenario, files, tables, run, resp, registry, errors>>

SeedFiles == {Seeded[t] : t \in DOMAIN Seeded} \ {None}

Init ==
    /\ scenario \in DOMAIN Scenarios
    /\ files = [p \in Paths \cup Keys |->
                  IF p \in SeedFiles THEN File("csv", Rows) ELSE Absent]
    /\ inbox = [d \in Dirs |-> <<>>]
    /\ tables = [t \in TableNames |->
                   IF t \in DOMAIN Seeded /\ Seeded[t] # None /\ HasCatalog
                   THEN [path |-> Seeded[t], source |-> "csv"] ELSE None]
    /\ run = [q \in Requests |-> NoRun]
    /\ resp = [q \in Requests |-> "none"]
    /\ registry = {}
    /\ arrivals = 0 /\ errors = 0

RunStep(q) == \/ Layer(q) \/ Pick(q) \/ Finish(q) \/ Poll(q) \/ TailFails(q) \/ Execute(q)
              \/ Truncate(q) \/ Write(q) \/ PutObject(q) \/ AppendBatch(q) \/ Register(q)
              \/ WriteFails(q)

Next == FileArrives \/ FileRemoved \/ \E q \in Requests : Submit(q) \/ RunStep(q)

Spec == Init /\ [][Next]_vars

\* The runtime keeps polling a future that is ready; nothing else is promised.
FairSpec == Spec /\ \A q \in Requests : WF_vars(RunStep(q))

-----------------------------------------------------------------------------
TypeOK ==
    /\ scenario \in DOMAIN Scenarios
    /\ files \in [Paths \cup Keys ->
                    [fmt : {"none", "empty", "table", "json", "csv", "torn"}, rows : Batches]]
    /\ tables \in [TableNames -> Entries \cup {None}]
    /\ resp \in [Requests -> {"none", "200", "400", "500"}]
    /\ registry \subseteq Specs
    /\ \A q \in Requests :
         /\ run[q].pc \in {"idle", "layer", "pick", "poll", "execute", "truncate", "write",
                           "append", "register", "end"}
         /\ run[q].input \in Batches /\ run[q].out \in Batches
         /\ run[q].at \in 0..Len(run[q].flows)

Ended(q) == Range(run[q].done) \cup Range(run[q].failed)

(***************************************************************************)
(* A flow is polled, executed or written only after every flow that its    *)
(* depends_on names has ended in the same run, with a result or with a     *)
(* recorded error (run() walks layers() in order).  A name that several    *)
(* flows have stands for the one flow that the runner runs for it.         *)
(***************************************************************************)
DependenciesFirst ==
    \A q \in Requests : run[q].pc \in {"poll", "execute", "truncate", "write", "append"} =>
        \A k \in DOMAIN Flow(q).deps :
            FlowAt(run[q].flows, NodeOf(run[q].flows, Flow(q).deps[k])) \in Ended(q)

(***************************************************************************)
(* A run that is answered 200 has accounted for every name exactly once,   *)
(* as a result or as an error, whichever flows failed on the way           *)
(* (PipelineRunReport; "the runner does not abort on a single failure").   *)
(***************************************************************************)
ReportComplete ==
    \A q \in Requests : resp[q] = "200" =>
        /\ {run[q].flows[i].name : i \in Ended(q)} = NamesOf(run[q].flows)
        /\ Len(run[q].done) + Len(run[q].failed) = Cardinality(NamesOf(run[q].flows))

(***************************************************************************)
(* A destination that has just been written holds exactly the output of    *)
(* the flow that wrote it, whatever it held before, as long as no other    *)
(* request runs (write_file truncates, then writes).                       *)
(***************************************************************************)
WholeOutputs ==
    World.concurrent = 1 =>
        \A q \in Requests : run[q].pc = "register" /\ ~Flow(q).live =>
            /\ files[Flow(q).dest].rows = run[q].out
            /\ files[Flow(q).dest].fmt \in {"table", "csv"}

(***************************************************************************)
(* Whatever fails, a table of the catalog names a destination that has     *)
(* been written: run_one registers a flow only after its write succeeded.  *)
(***************************************************************************)
RegisteredExists == \A t \in TableNames : tables[t] # None => files[tables[t].path] # Absent

(***************************************************************************)
(* The layers of an accepted pipeline hold every flow exactly once, and a  *)
(* flow's layer is one past the last of the flows it depends on: no flow   *)
(* is early, none is needlessly late, also when dependencies repeat        *)
(* (dag.rs layers(), "longest-path layering").                             *)
(***************************************************************************)
LongestPathLayers ==
    \A q \in Requests : run[q].pc = "layer" /\ AtZero(run[q].remaining) = {} =>
        LET flows == run[q].flows
            layers == run[q].layers
            LayerOf(n) == CHOOSE k \in DOMAIN layers : n \in layers[k]
            Parents(n) == {EdgeFrom(flows, e) : e \in EdgesInto(flows, DOMAIN flows, n)}
        IN  /\ UNION Range(layers) = DOMAIN flows
            /\ \A j, k \in DOMAIN layers : j # k => layers[j] \cap layers[k] = {}
            /\ \A n \in DOMAIN flows :
                 LayerOf(n) = 1 + Max({0} \cup {LayerOf(m) : m \in Parents(n)})

(***************************************************************************)
(* A request is answered, whichever steps fail and whatever another        *)
(* request does, unless one of its flows is live (run_one of such a flow   *)
(* does not return by itself).                                             *)
(***************************************************************************)
EveryRunAnswered ==
    \A q \in Requests :
        run[q].pc # "idle" /\ (\A i \in DOMAIN run[q].flows : ~run[q].flows[i].live)
        ~> resp[q] # "none"
=============================================================================
