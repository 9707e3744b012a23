------------------------------ MODULE Catalog ------------------------------
(***************************************************************************)
(* The session catalog (crates/rspark-sql/src/session.rs) and everybody    *)
(* who uses it in the master process: the catalog handlers of the HTTP     *)
(* API, the planner's table scan, SHOW CREATE TABLE, the flows of          *)
(* pipelines, which register what they write                               *)
(* (crates/rspark-pipelines/src/runner.rs), and the preload at start-up.   *)
(*                                                                         *)
(* `SessionState` has one RwLock that each of its methods takes for itself,*)
(* so a caller that needs a table's location and its schema reads them in  *)
(* two lock sections; one action here is one lock section (or one access   *)
(* to the file system).  The handlers contain no await: a handler that has *)
(* started keeps one of the runtime's Threads until it returns.            *)
(*                                                                         *)
(* A file's bytes are a content; what a reader makes of a content is the   *)
(* schema [as |-> reader, of |-> content], and the schema of a flow's      *)
(* output, which nobody has inferred, is [as |-> "flow", of |-> content].  *)
(* Column lists are therefore equal exactly when they have one origin.     *)
(***************************************************************************)
EXTENDS Integers, FiniteSets

CONSTANTS
    Tables,         \* table names
    Paths,          \* file paths
    JsonPaths,      \* the paths that end in .json
    Keys,           \* the S3 URLs flows write to
    Flows,          \* the flows of pipelines: [name, path, kind, live]
    CsvContents,    \* contents of files that are not JSON
    JsonContents,   \* contents of NDJSON files
    Reqs,           \* requests to the master, each handled once
    Threads,        \* threads of the master's async runtime
    Load,           \* Load[t]: the path `--load t=path` gives t, or None
    MaxFileWrites,  \* bound on changes of files by others
    None            \* stands for Option::None, and for an absent file

Contents == CsvContents \cup JsonContents

Places == Paths \cup Keys

\* The synchronous sources that SourceRegistry::with_defaults holds.
Sources == {"csv", "json"}

Kinds == {"batch", "streaming_table", "materialized_view"}

Schemas == [as : Sources \cup {"flow"}, of : Contents]

\* What an entry may name as its source; no registry holds "s3_csv".
SourceNames == Sources \cup {"s3_csv"}

Entries == [path : Places, source : SourceNames, schema : Schemas, kind : Kinds]

ASSUME CatalogAssumption ==
    /\ JsonPaths \subseteq Paths /\ Keys \cap Paths = {}
    /\ Flows \subseteq [name : Tables, path : Places, kind : Kinds \ {"batch"},
                        live : BOOLEAN]
    /\ Load \in [Tables -> Paths \cup {None}]
    /\ Threads \in Nat \ {0} /\ MaxFileWrites \in Nat
    /\ None \notin Places \cup Contents \cup Tables \cup Entries \cup Schemas
    /\ IsFiniteSet(Reqs) /\ CsvContents \cap JsonContents = {}

VARIABLES
    files,    \* files[p]: the content of p, or None
    tables,   \* tables[t]: the entry of t, or None
    h,        \* h[r]: the handler of request r and its local variables
    writes,   \* file changes so far
    seen,     \* history: seen[r][t], what t was while r's handler ran
    held      \* history: held[p], every content p has had

vars == <<files, tables, h, writes, seen, held>>

-----------------------------------------------------------------------------
(***************************************************************************)
(* Storage as the catalog sees it.                                         *)
(***************************************************************************)

\* The source for a path when the request names none: .json, or else csv.
SourceOf(path) == IF path \in JsonPaths THEN "json" ELSE "csv"

(***************************************************************************)
(* infer_schema of the source `src`: an error (None) when the file is      *)
(* missing or when the JSON reader meets a line that is not JSON.  The CSV *)
(* reader takes any text.                                                  *)
(***************************************************************************)
InferSchema(src, content) ==
    IF content = None \/ (src = "json" /\ content \in CsvContents) THEN None
    ELSE [as |-> src, of |-> content]

-----------------------------------------------------------------------------
(***************************************************************************)
(* Handlers.  A request is for one operation; `todo` is the list of names  *)
(* a listing still has to visit, `out` what it has collected.              *)
(***************************************************************************)
Ops == {"register", "unregister", "query", "show", "list", "suggest", "flow", "live"}

Idle == [pc |-> "idle", op |-> None, name |-> None, path |-> None,
         source |-> None, kind |-> None, schema |-> None,
         todo |-> {}, out |-> {}]

Loc(e) == [path |-> e.path, source |-> e.source]

Running(r) == h[r].pc \notin {"idle", "ok", "error"}

\* The run of a flow gives its thread up whenever it awaits.
ThreadFree ==
    Cardinality({r \in Reqs : Running(r) /\ h[r].op \notin {"flow", "live"}}) < Threads

\* What every request has seen once the catalog is `tabs`.
Witnessed(tabs) ==
    [r \in Reqs |-> [t \in Tables |-> IF Running(r) THEN seen[r][t] \cup {tabs[t]}
                                      ELSE seen[r][t]]]

Begin(r, op, pc, name) ==
    /\ h[r].pc = "idle" /\ ThreadFree
    /\ h' = [h EXCEPT ![r] = [Idle EXCEPT !.pc = pc, !.op = op, !.name = name]]
    /\ seen' = [seen EXCEPT ![r] = [t \in Tables |-> {tables[t]}]]
    /\ UNCHANGED <<files, tables, writes, held>>

Goto(r, pc) == h' = [h EXCEPT ![r].pc = pc]

(***************************************************************************)
(* POST /v1/catalog/tables: the source, its registry entry and the schema  *)
(* come first, the insertion last.  An unknown source or an unreadable     *)
(* file answers 500 and leaves the catalog alone.                          *)
(***************************************************************************)
RegisterBegin(r) == \E t \in Tables : Begin(r, "register", "infer", t)

RegisterInfer(r) ==
    /\ h[r].op = "register" /\ h[r].pc = "infer"
    /\ \E p \in Paths, asked \in Sources \cup {None, "parquet"}, k \in Kinds :
         LET src    == IF asked = None THEN SourceOf(p) ELSE asked
             schema == IF src \in Sources THEN InferSchema(src, files[p]) ELSE None
         IN  h' = [h EXCEPT ![r] =
                     IF schema = None THEN [@ EXCEPT !.pc = "error"]
                     ELSE [@ EXCEPT !.pc = "insert", !.path = p, !.source = src,
                                    !.kind = k, !.schema = schema]]
    /\ UNCHANGED <<files, tables, writes, seen, held>>

\* Mutant: an insertion that keeps the schema of an existing entry.
InsertedKeepsSchema(t, e) ==
    [tables EXCEPT ![t] = IF @ = None THEN e
                          ELSE [e EXCEPT !.schema = tables[t].schema]]

(***************************************************************************)
(* SessionState::register_with_kind: one insertion under the write lock    *)
(* replaces the whole entry.                                               *)
(***************************************************************************)
Inserted(t, e) == [tables EXCEPT ![t] = e]

EntryOf(x) == [path |-> x.path, source |-> x.source, schema |-> x.schema, kind |-> x.kind]

\* Called by register_table and by register_flow_output.
RegisterInsert(r) ==
    /\ h[r].op \in {"register", "flow", "live"} /\ h[r].pc = "insert"
    /\ tables' = Inserted(h[r].name, EntryOf(h[r]))
    /\ seen' = Witnessed(tables')
    /\ Goto(r, IF h[r].op = "live" THEN "tail" ELSE "ok")
    /\ UNCHANGED <<files, writes, held>>

\* DELETE /v1/catalog/tables/:name: removing an absent table is no error.
UnregisterBegin(r) == \E t \in Tables : Begin(r, "unregister", "remove", t)

Unregister(r) ==
    /\ h[r].op = "unregister" /\ h[r].pc = "remove"
    /\ tables' = [tables EXCEPT ![h[r].name] = None]
    /\ seen' = Witnessed(tables')
    /\ Goto(r, "ok")
    /\ UNCHANGED <<files, writes, held>>

-----------------------------------------------------------------------------
(***************************************************************************)
(* A flow of a pipeline: run_one, or run_live_streaming up to its first    *)
(* batch.  The destination is written first, and then registered with the  *)
(* flow's name and kind, with the schema of the output, and as CSV, though *)
(* a file is a table rendered for people, or NDJSON that a live flow       *)
(* appends to.  (That the file is truncated before it is written, and that *)
(* a registered live flow appends more, are changes of FileChange.)        *)
(***************************************************************************)
FlowBegin(r) == \E f \in Flows : Begin(r, IF f.live THEN "live" ELSE "flow", "run", f.name)

DestSource(path) == IF path \in Keys THEN "s3_csv" ELSE "csv"

\* The entry of flow f when its destination holds c.
Declared(f, c) ==
    [path |-> f.path, source |-> DestSource(f.path), kind |-> f.kind,
     schema |-> [as |-> "flow", of |-> c]]

FlowWrites(r) ==
    /\ h[r].op \in {"flow", "live"} /\ h[r].pc = "run"
    /\ \E f \in Flows, c \in Contents, whole \in BOOLEAN :
         /\ f.name = h[r].name /\ f.live = (h[r].op = "live")
         /\ IF f.live THEN f.path \in Paths ELSE c \in CsvContents
         /\ files' = [files EXCEPT ![f.path] = c]
         /\ held' = [held EXCEPT ![f.path] = @ \cup {c}]
         /\ LET e == Declared(f, c) IN
              h' = [h EXCEPT ![r] =
                      IF whole THEN [@ EXCEPT !.pc = "insert", !.path = e.path,
                                       !.source = e.source, !.kind = e.kind,
                                       !.schema = e.schema]
                      ELSE [@ EXCEPT !.pc = "error"]]
    /\ UNCHANGED <<tables, writes, seen>>

\* The source, the plan or the destination fails: the flow ends with an error.
FlowFails(r) ==
    /\ h[r].op \in {"flow", "live"} /\ h[r].pc \in {"run", "tail"}
    /\ Goto(r, "error")
    /\ UNCHANGED <<files, tables, writes, seen, held>>

-----------------------------------------------------------------------------
(***************************************************************************)
(* The two reads.  A query's build_table_scan asks for the location and    *)
(* then for the schema; render_create_table asks for the schema and then   *)
(* for the location.  A table that is gone is an error either time.        *)
(***************************************************************************)
QueryBegin(r) == \E t \in Tables : Begin(r, "query", "location", t)

ShowBegin(r) == \E t \in Tables : Begin(r, "show", "schema", t)

\* The pc that follows a read of the location or of the schema.
AfterLocation(op) == IF op = "query" THEN "schema" ELSE "ok"

AfterSchema(op) == IF op = "query" THEN "scan" ELSE "location"

\* The local variables after table_location and table_schema.
WithLocation(rec, e) == [rec EXCEPT !.path = e.path, !.source = e.source]

\* Mutant: the whole entry where its schema is meant.
WithWholeEntry(rec, e) == [rec EXCEPT !.schema = e]

WithSchema(rec, e) == [rec EXCEPT !.schema = e.schema]

ReadLocation(r) ==
    /\ h[r].op \in {"query", "show"} /\ h[r].pc = "location"
    /\ LET e == tables[h[r].name] IN
         h' = [h EXCEPT ![r] =
                 IF e = None THEN [@ EXCEPT !.pc = "error"]
                 ELSE [WithLocation(@, e) EXCEPT !.pc = AfterLocation(h[r].op)]]
    /\ UNCHANGED <<files, tables, writes, seen, held>>

ReadSchema(r) ==
    /\ h[r].op \in {"query", "show"} /\ h[r].pc = "schema"
    /\ LET e == tables[h[r].name] IN
         h' = [h EXCEPT ![r] =
                 IF e = None THEN [@ EXCEPT !.pc = "error"]
                 ELSE [WithSchema(@, e) EXCEPT !.pc = AfterSchema(h[r].op)]]
    /\ UNCHANGED <<files, tables, writes, seen, held>>

(***************************************************************************)
(* The executor opens the file the plan names, with the plan's schema: the *)
(* rows are those of the file as it is now.  The readers map cells to the  *)
(* schema's fields without asking where the schema comes from; the CSV     *)
(* reader may refuse a ragged row that inference has passed over.  No      *)
(* reader is registered as "s3_csv".                                       *)
(***************************************************************************)
QueryScan(r) ==
    /\ h[r].pc = "scan"
    /\ \E ragged \in BOOLEAN :
         h' = [h EXCEPT ![r] =
                 IF \/ h[r].source \notin Sources
                    \/ InferSchema(h[r].source, files[h[r].path]) = None
                    \/ ragged /\ h[r].source = "csv"
                 THEN [@ EXCEPT !.pc = "error"]
                 ELSE [@ EXCEPT !.pc = "ok", !.out = {files[h[r].path]}]]
    /\ UNCHANGED <<files, tables, writes, seen, held>>

-----------------------------------------------------------------------------
(***************************************************************************)
(* The listings.  GET /v1/catalog/tables takes the names, then for each    *)
(* name, in the order of a hash map, the schema and the location; a name   *)
(* that has gone meanwhile is skipped.  GET /v1/catalog/suggestions takes  *)
(* names with kinds, then each schema; it keeps a name whose schema is     *)
(* gone.                                                                   *)
(***************************************************************************)
ListBegin(r) == Begin(r, "list", "names", None)

SuggestBegin(r) == Begin(r, "suggest", "names", None)

\* The pc of a listing whose names still to visit are `todo`.
NextName(todo) == IF todo = {} THEN "ok" ELSE "each"

Names(r) ==
    /\ h[r].op \in {"list", "suggest"} /\ h[r].pc = "names"
    /\ LET todo == {<<t, tables[t].kind>> : t \in {u \in Tables : tables[u] # None}}
       IN  h' = [h EXCEPT ![r].todo = todo, ![r].pc = NextName(todo)]
    /\ UNCHANGED <<files, tables, writes, seen, held>>

\* Mutant: a name that has gone ends the listing instead of being skipped.
VisitedBreaks(rec, n, row) ==
    LET rest == IF row = {} THEN {} ELSE rec.todo \ {n}
    IN  [rec EXCEPT !.todo = rest, !.out = @ \cup row, !.name = None, !.schema = None,
                    !.pc = NextName(rest)]

\* Mutant: the loop does not move on past a name that has gone.
VisitedStays(rec, n, row) ==
    IF row = {} THEN [rec EXCEPT !.name = None, !.schema = None, !.pc = "each"]
    ELSE [rec EXCEPT !.todo = @ \ {n}, !.out = @ \cup row, !.name = None,
                     !.schema = None, !.pc = NextName(rec.todo \ {n})]

\* The handler after it is done with the name `n`; `row` is what it adds.
Visited(rec, n, row) ==
    [rec EXCEPT !.todo = @ \ {n}, !.out = @ \cup row, !.name = None, !.schema = None,
                !.pc = NextName(rec.todo \ {n})]

ListSchema(r) ==
    /\ h[r].op = "list" /\ h[r].pc = "each"
    /\ \E n \in h[r].todo :
         h' = [h EXCEPT ![r] =
                 IF tables[n[1]] = None THEN Visited(@, n, {})
                 ELSE [@ EXCEPT !.name = n, !.pc = "location",
                                !.schema = tables[n[1]].schema]]
    /\ UNCHANGED <<files, tables, writes, seen, held>>

ListLocation(r) ==
    /\ h[r].op = "list" /\ h[r].pc = "location"
    /\ LET n == h[r].name
           e == tables[n[1]]
       IN  h' = [h EXCEPT ![r] =
                   IF e = None THEN Visited(@, n, {})
                   ELSE Visited(@, n, {[name |-> n[1], schema |-> h[r].schema,
                                        loc |-> Loc(e)]})]
    /\ UNCHANGED <<files, tables, writes, seen, held>>

SuggestSchema(r) ==
    /\ h[r].op = "suggest" /\ h[r].pc = "each"
    /\ \E n \in h[r].todo :
         h' = [h EXCEPT ![r] =
                 Visited(@, n, {[name |-> n[1], kind |-> n[2],
                                 columns |-> IF tables[n[1]] = None THEN None
                                             ELSE tables[n[1]].schema]})]
    /\ UNCHANGED <<files, tables, writes, seen, held>>

-----------------------------------------------------------------------------
(***************************************************************************)
(* Files change under the catalog: users and other programs rewrite and    *)
(* remove them.  Nobody reads an object that a flow has put.               *)
(***************************************************************************)
FileChange ==
    /\ writes < MaxFileWrites /\ writes' = writes + 1
    /\ \E p \in Paths, c \in Contents \cup {None} :
         /\ files[p] # c
         /\ files' = [files EXCEPT ![p] = c]
         /\ held' = [held EXCEPT ![p] = @ \cup {c}]
    /\ UNCHANGED <<tables, h, seen>>

(***************************************************************************)
(* run_master's preload, before the server listens: each `--load` table    *)
(* whose file can be read is registered as a batch table, the others are   *)
(* silently left out.                                                      *)
(***************************************************************************)
Preloaded(t, fs) ==
    IF Load[t] = None THEN None
    ELSE LET src    == SourceOf(Load[t])
             schema == InferSchema(src, fs[Load[t]])
         IN  IF schema = None THEN None
             ELSE [path |-> Load[t], source |-> src, schema |-> schema, kind |-> "batch"]

Init ==
    /\ files \in [Places -> Contents \cup {None}] /\ \A k \in Keys : files[k] = None
    /\ tables = [t \in Tables |-> Preloaded(t, files)]
    /\ h = [r \in Reqs |-> Idle]
    /\ writes = 0
    /\ seen = [r \in Reqs |-> [t \in Tables |-> {}]]
    /\ held = [p \in Places |-> {files[p]}]

Arrive(r) == \/ RegisterBegin(r) \/ UnregisterBegin(r) \/ QueryBegin(r)
             \/ ShowBegin(r) \/ ListBegin(r) \/ SuggestBegin(r) \/ FlowBegin(r)

\* What a flow does as long as its source and its destination permit.
FlowStep(r) == FlowWrites(r) \/ FlowFails(r)

Step(r) == \/ RegisterInfer(r) \/ RegisterInsert(r) \/ Unregister(r)
           \/ ReadLocation(r) \/ ReadSchema(r) \/ QueryScan(r)
           \/ Names(r) \/ ListSchema(r) \/ ListLocation(r) \/ SuggestSchema(r)

Next == FileChange \/ \E r \in Reqs : Arrive(r) \/ Step(r) \/ FlowStep(r)

Spec == Init /\ [][Next]_vars

(***************************************************************************)
(* A started handler owns its thread and holds no lock between steps, and  *)
(* each step of a flow that runs once ends, if by a timeout.  A live flow  *)
(* may wait for ever.                                                      *)
(***************************************************************************)
FairSpec ==
    Spec /\ \A r \in Reqs : WF_vars(Step(r)) /\ WF_vars(h[r].op = "flow" /\ FlowStep(r))

-----------------------------------------------------------------------------
TypeOK ==
    /\ files \in [Places -> Contents \cup {None}]
    /\ tables \in [Tables -> Entries \cup {None}]
    /\ \A r \in Reqs :
         /\ h[r].pc \in {"idle", "infer", "insert", "remove", "location", "schema",
                         "scan", "names", "each", "run", "tail", "ok", "error"}
         /\ h[r].op \in Ops \cup {None}
         /\ h[r].schema \in Schemas \cup {None}
         /\ h[r].path \in Places \cup {None} /\ h[r].source \in SourceNames \cup {None}
         /\ h[r].kind \in Kinds \cup {None}
    /\ writes \in 0..MaxFileWrites
    /\ seen \in [Reqs -> [Tables -> SUBSET (Entries \cup {None})]]
    /\ held \in [Places -> SUBSET (Contents \cup {None})]

(***************************************************************************)
(* The entry e of table t stems from one registration when its file held   *)
(* c: its schema is what its own source makes of c, or all of it is what   *)
(* one flow of that name declares about c.                                 *)
(***************************************************************************)
Stems(t, e, c) == \/ e.schema = InferSchema(e.source, c)
                  \/ \E f \in Flows : f.name = t /\ e = Declared(f, c)

Whole(t, e) == \E c \in held[e.path] : Stems(t, e, c)

(***************************************************************************)
(* However the registrations of one name from different files and by       *)
(* different flows race with each other and with changes of the files, the *)
(* path, the source, the schema and the kind of an entry belong together,  *)
(* and the schema is not of something the file has never held              *)
(* (register_with_kind replaces all of them under one lock, and callers    *)
(* carry them there from what they have read or written).                  *)
(***************************************************************************)
EntriesWhole == \A t \in Tables : tables[t] # None => Whole(t, tables[t])

\* Request r finished and the entry of t stayed `e` all the while.
Stable(r, t, e) == h[r].pc \in {"ok", "error"} /\ seen[r][t] = {e}

(***************************************************************************)
(* Readers that take several lock sections (a query's build_table_scan,    *)
(* SHOW CREATE TABLE, the listing and the suggestions) answer exactly what *)
(* the catalog says about every table that nobody touched meanwhile,       *)
(* whatever happened to the other tables: such a table is listed once with *)
(* its own columns, location and kind, and an absent one is not listed.    *)
(***************************************************************************)
StableReadsExact ==
    \A r \in Reqs, t \in Tables : \A e \in seen[r][t] : Stable(r, t, e) =>
      CASE h[r].op = "list" ->
             {x \in h[r].out : x.name = t} =
               IF e = None THEN {} ELSE {[name |-> t, schema |-> e.schema, loc |-> Loc(e)]}
        [] h[r].op = "suggest" ->
             {x \in h[r].out : x.name = t} =
               IF e = None THEN {}
               ELSE {[name |-> t, kind |-> e.kind, columns |-> e.schema]}
        [] h[r].op = "show" /\ h[r].name = t ->
             IF e = None THEN h[r].pc = "error"
             ELSE /\ h[r].pc = "ok"
                  /\ <<h[r].path, h[r].source, h[r].schema>> = <<e.path, e.source, e.schema>>
        [] h[r].op = "query" /\ h[r].name = t /\ h[r].pc = "ok" ->
             /\ e # None
             /\ <<h[r].path, h[r].source, h[r].schema>> = <<e.path, e.source, e.schema>>
        [] OTHER -> TRUE

(***************************************************************************)
(* Every handler that has started answers, unless it runs a live flow: the *)
(* listing loops end although tables come and go under them.               *)
(***************************************************************************)
EveryRequestAnswered ==
    \A r \in Reqs : Running(r) /\ h[r].op # "live" ~> h[r].pc \in {"ok", "error"}
=============================================================================
