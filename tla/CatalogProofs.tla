--------------------------- MODULE CatalogProofs ---------------------------
(***************************************************************************)
(* Catalog, for any tables, files, requests and runtime threads.  The      *)
(* inductive invariant says of every handler what it has learnt so far     *)
(* about a table that has not changed since the handler started.           *)
(***************************************************************************)
EXTENDS Catalog, TLAPS

PCs == {"idle", "infer", "insert", "remove", "location", "schema", "scan",
        "names", "each", "run", "tail", "ok", "error"}

Locs == [path : Places, source : SourceNames]

\* What a handler collects: rows of a listing, or the contents of a file.
Answers == [name : Tables, schema : Schemas \cup {None}, loc : Locs]
           \cup [name : Tables, kind : Kinds, columns : Schemas \cup {None}]
           \cup Contents \cup {None}

Handlers == [pc : PCs, op : Ops \cup {None},
             name : Tables \cup (Tables \X Kinds) \cup {None},
             path : Places \cup {None}, source : SourceNames \cup {None},
             kind : Kinds \cup {None}, schema : Schemas \cup {None},
             todo : SUBSET (Tables \X Kinds), out : SUBSET Answers]

Shape ==
    /\ files \in [Places -> Contents \cup {None}]
    /\ tables \in [Tables -> Entries \cup {None}]
    /\ h \in [Reqs -> Handlers]
    /\ writes \in 0..MaxFileWrites
    /\ seen \in [Reqs -> [Tables -> SUBSET (Entries \cup {None})]]
    /\ held \in [Places -> SUBSET (Contents \cup {None})]

\* A handler has at each point the local variables it is about to use.
HandlerOK(x) ==
    /\ x.op \in {"list", "suggest"} =>
         /\ x.pc \in {"idle", "names", "each", "location", "ok"}
         /\ x.pc = "ok" => x.todo = {}
         /\ x.pc = "location" => x.name \in x.todo
         /\ \A m, n \in x.todo : m[1] = n[1] => m = n
    /\ x.op \in {"register", "unregister", "query", "show", "flow", "live"}
       /\ x.pc # "idle" => x.name \in Tables
    /\ x.pc = "insert" => /\ x.path \in Places /\ x.source \in SourceNames
                          /\ x.kind \in Kinds /\ x.schema \in Schemas
    /\ x.op = "query" /\ x.pc \in {"schema", "scan"} =>
         x.path \in Places /\ x.source \in SourceNames
    /\ x.pc = "scan" => x.op = "query"

\* The entry to be inserted stems from one registration.
InsertOK(x) ==
    x.pc = "insert" => \E c \in held[x.path] : Stems(x.name, EntryOf(x), c)

WholeInv ==
    /\ \A p \in Places : files[p] \in held[p]
    /\ \A r \in Reqs : HandlerOK(h[r]) /\ InsertOK(h[r])
    /\ EntriesWhole

\* A listing under way: t, which has been e all the while, is still to be
\* visited, or its row has been collected.
ListProgress(x, t, e, row) ==
    /\ x.pc = "names" => x.out = {}
    /\ x.pc \in {"each", "location", "ok"} =>
         /\ \A n \in x.todo : n[1] = t => e # None /\ n[2] = e.kind
         /\ IF e = None \/ \E n \in x.todo : n[1] = t
            THEN \A y \in x.out : y.name # t
            ELSE row \in x.out /\ \A y \in x.out : y.name = t => y = row

\* What the handler x knows of a table t that has been e all the while.
Progress(x, t, e) ==
    /\ x.op = "list" =>
         /\ ListProgress(x, t, e, [name |-> t, schema |-> e.schema, loc |-> Loc(e)])
         /\ x.pc = "location" /\ x.name[1] = t => x.schema = e.schema
    /\ x.op = "suggest" =>
         ListProgress(x, t, e, [name |-> t, kind |-> e.kind, columns |-> e.schema])
    /\ x.op = "show" /\ x.name = t =>
         /\ x.pc \in {"location", "ok"} => e # None /\ x.schema = e.schema
         /\ x.pc = "ok" => x.path = e.path /\ x.source = e.source
         /\ x.pc = "error" => e = None
    /\ x.op = "query" /\ x.name = t =>
         /\ x.pc \in {"schema", "scan", "ok"} =>
              e # None /\ x.path = e.path /\ x.source = e.source
         /\ x.pc \in {"scan", "ok"} => x.schema = e.schema

ReadInv ==
    \A r \in Reqs, t \in Tables :
        /\ Running(r) => tables[t] \in seen[r][t]
        /\ \A e \in seen[r][t] : seen[r][t] = {e} => Progress(h[r], t, e)

IInv == Shape /\ WholeInv /\ ReadInv

-----------------------------------------------------------------------------
(* Steps. *)

\* An entry is never mistaken for an absent one.
LEMMA Facts ==
    /\ None \notin Entries /\ None \notin Schemas /\ None \notin Contents
    /\ \A e \in Entries : /\ e.path \in Places /\ e.source \in SourceNames
                          /\ e.schema \in Schemas /\ e.kind \in Kinds
BY CatalogAssumption DEF Entries

\* A step of one handler that leaves the catalog and the files alone.
LEMMA HandlerStep ==
    ASSUME IInv, NEW r \in Reqs, NEW x \in Handlers, Running(r),
           h' = [h EXCEPT ![r] = x], UNCHANGED <<files, tables, writes, seen, held>>,
           HandlerOK(x), InsertOK(x),
           \A t \in Tables : Progress(h[r], t, tables[t]) => Progress(x, t, tables[t])
    PROVE  IInv'
<1>1. Shape /\ WholeInv /\ ReadInv
  BY DEF IInv
<1>2. h'[r] = x /\ (\A q \in Reqs : q # r => h'[q] = h[q]) /\ h' \in [Reqs -> Handlers]
  BY <1>1 DEF Shape
<1>3. Shape'
  BY <1>1, <1>2 DEF Shape
<1>4. WholeInv'
  <2>1. \A q \in Reqs : HandlerOK(h'[q])
    BY <1>1, <1>2 DEF WholeInv
  <2>2. \A q \in Reqs : InsertOK(h[q])'
    BY <1>1, <1>2 DEF WholeInv, InsertOK
  <2>3. EntriesWhole'
    BY <1>1 DEF WholeInv, EntriesWhole, Whole
  <2> QED BY <1>1, <2>1, <2>2, <2>3 DEF WholeInv, HandlerOK
<1>5. ReadInv'
  <2> SUFFICES ASSUME NEW q \in Reqs, NEW t \in Tables
               PROVE  /\ Running(q)' => tables[t] \in seen[q][t]
                      /\ \A e \in seen[q][t] : seen[q][t] = {e} => Progress(h'[q], t, e)
    BY DEF ReadInv, Progress, ListProgress, Loc
  <2>1. CASE q # r
    BY <1>1, <1>2, <2>1 DEF ReadInv, Running
  <2>2. CASE q = r
    <3>1. tables[t] \in seen[r][t]
      BY <1>1 DEF ReadInv
    <3>2. ASSUME NEW e \in seen[r][t], seen[r][t] = {e} PROVE Progress(x, t, e)
      <4>1. e = tables[t]
        BY <3>1, <3>2
      <4>2. Progress(h[r], t, e)
        BY <1>1, <3>2 DEF ReadInv
      <4> QED BY <4>1, <4>2
    <3> QED BY <1>2, <2>2, <3>1, <3>2
  <2> QED BY <2>1, <2>2
<1> QED BY <1>3, <1>4, <1>5 DEF IInv

LEMMA Step_Begin ==
    ASSUME IInv, NEW r \in Reqs, Arrive(r)
    PROVE  IInv'
<1>1. Shape /\ WholeInv /\ ReadInv
  BY DEF IInv
<1>2. PICK op, pc, name :
          /\ \/ op = "register" /\ pc = "infer" /\ name \in Tables
             \/ op = "unregister" /\ pc = "remove" /\ name \in Tables
             \/ op = "query" /\ pc = "location" /\ name \in Tables
             \/ op = "show" /\ pc = "schema" /\ name \in Tables
             \/ op \in {"list", "suggest"} /\ pc = "names" /\ name = None
             \/ op \in {"flow", "live"} /\ pc = "run" /\ name \in Tables
          /\ Begin(r, op, pc, name)
  <2>1. \A f \in Flows : f.name \in Tables
    BY CatalogAssumption
  <2> QED BY <2>1 DEF Arrive, RegisterBegin, UnregisterBegin, QueryBegin, ShowBegin,
                      ListBegin, SuggestBegin, FlowBegin
<1>3. PICK x : x = [Idle EXCEPT !.pc = pc, !.op = op, !.name = name]
  OBVIOUS
<1>4. /\ h' = [h EXCEPT ![r] = x] /\ UNCHANGED <<files, tables, writes, held>>
      /\ seen' = [seen EXCEPT ![r] = [t \in Tables |-> {tables[t]}]]
  BY <1>2, <1>3 DEF Begin
<1>5. x.pc = pc /\ x.op = op /\ x.name = name /\ x.todo = {} /\ x.out = {}
  BY <1>3 DEF Idle
<1>6. x \in Handlers
  <2>1. Idle \in Handlers
    BY DEF Idle, Handlers, PCs
  <2>2. pc \in PCs /\ op \in Ops \cup {None} /\ name \in Tables \cup (Tables \X Kinds) \cup {None}
    BY <1>2 DEF PCs, Ops
  <2> QED BY <1>3, <2>1, <2>2 DEF Handlers
<1>7. /\ h'[r] = x /\ (\A q \in Reqs : q # r => h'[q] = h[q]) /\ h' \in [Reqs -> Handlers]
      /\ (\A t \in Tables : seen'[r][t] = {tables[t]})
      /\ \A q \in Reqs : q # r => seen'[q] = seen[q]
  BY <1>1, <1>4, <1>6 DEF Shape
<1>8. Shape'
  <2>1. [t \in Tables |-> {tables[t]}] \in [Tables -> SUBSET (Entries \cup {None})]
    BY <1>1 DEF Shape
  <2> QED BY <1>1, <1>4, <1>7, <2>1 DEF Shape
<1>9. WholeInv'
  <2>1. HandlerOK(x) /\ x.pc # "insert"
    BY <1>2, <1>5 DEF HandlerOK
  <2>2. \A q \in Reqs : HandlerOK(h'[q])
    BY <1>1, <1>7, <2>1 DEF WholeInv
  <2>3. \A q \in Reqs : InsertOK(h[q])'
    BY <1>1, <1>4, <1>7, <2>1 DEF WholeInv, InsertOK
  <2>4. EntriesWhole'
    BY <1>1, <1>4 DEF WholeInv, EntriesWhole, Whole
  <2> QED BY <1>1, <1>4, <2>2, <2>3, <2>4 DEF WholeInv, HandlerOK
<1>10. ReadInv'
  <2> SUFFICES ASSUME NEW q \in Reqs, NEW t \in Tables
               PROVE  /\ Running(q)' => tables'[t] \in seen'[q][t]
                      /\ \A e \in seen'[q][t] : seen'[q][t] = {e} => Progress(h'[q], t, e)
    BY DEF ReadInv, Progress, ListProgress, Loc
  <2>1. CASE q # r
    BY <1>1, <1>4, <1>7, <2>1 DEF ReadInv, Running
  <2>2. CASE q = r
    <3>1. \A e : Progress(x, t, e)
      BY <1>2, <1>5 DEF Progress, ListProgress
    <3> QED BY <1>4, <1>7, <2>2, <3>1
  <2> QED BY <2>1, <2>2
<1> QED BY <1>8, <1>9, <1>10 DEF IInv

\* A handler that only moves to another pc, or to an error.
LEMMA Moved ==
    ASSUME NEW x \in Handlers, NEW pc \in PCs
    PROVE  LET y == [x EXCEPT !.pc = pc]
           IN  /\ y \in Handlers /\ y.pc = pc /\ y.op = x.op /\ y.name = x.name
               /\ y.path = x.path /\ y.source = x.source /\ y.kind = x.kind
               /\ y.schema = x.schema /\ y.todo = x.todo /\ y.out = x.out
BY DEF Handlers

LEMMA Step_RegisterInfer ==
    ASSUME IInv, NEW r \in Reqs, RegisterInfer(r)
    PROVE  IInv'
<1>1. Shape /\ WholeInv /\ h[r] \in Handlers /\ HandlerOK(h[r])
  BY DEF IInv, Shape, WholeInv
<1>2. h[r].op = "register" /\ h[r].pc = "infer" /\ UNCHANGED <<files, tables, writes, seen, held>>
  BY DEF RegisterInfer
<1>3. Running(r) /\ h[r].name \in Tables
  BY <1>1, <1>2 DEF Running, HandlerOK
<1>0. PICK p \in Paths, asked \in Sources \cup {None, "parquet"}, k \in Kinds :
        RegisterInfer(r)!2!(p, asked, k)
  BY DEF RegisterInfer
<1>. PICK src : src = IF asked = None THEN SourceOf(p) ELSE asked
  OBVIOUS
<1>4. PICK schema :
        /\ schema = IF src \in Sources THEN InferSchema(src, files[p]) ELSE None
        /\ h' = [h EXCEPT ![r] =
                   IF schema = None THEN [@ EXCEPT !.pc = "error"]
                   ELSE [@ EXCEPT !.pc = "insert", !.path = p, !.source = src,
                                  !.kind = k, !.schema = schema]]
  BY <1>0
<1>5. CASE schema = None
  <2>1. PICK x : x = [h[r] EXCEPT !.pc = "error"]
    OBVIOUS
  <2>2. x \in Handlers /\ x.pc = "error" /\ x.op = "register" /\ x.name \in Tables
    BY <1>1, <1>2, <1>3, <2>1, Moved DEF PCs
  <2>3. h' = [h EXCEPT ![r] = x]
    BY <1>4, <1>5, <2>1
  <2>4. HandlerOK(x) /\ InsertOK(x)
    BY <2>2 DEF HandlerOK, InsertOK
  <2>5. \A t \in Tables : Progress(x, t, tables[t])
    BY <2>2 DEF Progress
  <2> QED BY <1>2, <1>3, <2>2, <2>3, <2>4, <2>5, HandlerStep
<1>6. CASE schema # None
  <2>1. PICK x : x = [h[r] EXCEPT !.pc = "insert", !.path = p, !.source = src,
                                  !.kind = k, !.schema = schema]
    OBVIOUS
  <2>2. /\ src \in Sources /\ schema = InferSchema(src, files[p])
        /\ files[p] \in Contents /\ files[p] \in held[p] /\ schema \in Schemas
        /\ p \in Places /\ src \in SourceNames
    <3>1. src \in Sources /\ schema = InferSchema(src, files[p])
      BY <1>4, <1>6
    <3>2. files[p] \in Contents /\ schema = [as |-> src, of |-> files[p]]
      BY <1>1, <1>6, <3>1 DEF InferSchema, Shape, Places
    <3> QED BY <1>1, <3>1, <3>2 DEF Schemas, SourceNames, Places, WholeInv
  <2>3. /\ x \in Handlers /\ x.pc = "insert" /\ x.op = "register" /\ x.name \in Tables
        /\ x.path = p /\ x.source = src /\ x.kind = k /\ x.schema = schema
    BY <1>1, <1>2, <1>3, <2>1, <2>2, ZenonT(30) DEF Handlers, PCs
  <2>4. h' = [h EXCEPT ![r] = x]
    BY <1>4, <1>6, <2>1
  <2>5. HandlerOK(x)
    BY <2>2, <2>3 DEF HandlerOK
  <2>6. InsertOK(x)
    <3>1. EntryOf(x).schema = schema /\ EntryOf(x).source = src
      BY <2>3 DEF EntryOf
    <3>2. Stems(x.name, EntryOf(x), files[p])
      BY <2>2, <3>1 DEF Stems
    <3> QED BY <2>2, <2>3, <3>2 DEF InsertOK
  <2>7. \A t \in Tables : Progress(x, t, tables[t])
    BY <2>3 DEF Progress
  <2> QED BY <1>2, <1>3, <2>3, <2>4, <2>5, <2>6, <2>7, HandlerStep
<1> QED BY <1>5, <1>6

\* The two reads of a query and of SHOW CREATE TABLE.
LEMMA Step_ReadLocation ==
    ASSUME IInv, NEW r \in Reqs, ReadLocation(r)
    PROVE  IInv'
<1>1. Shape /\ h[r] \in Handlers /\ HandlerOK(h[r])
  BY DEF IInv, Shape, WholeInv
<1>2. /\ h[r].op \in {"query", "show"} /\ h[r].pc = "location"
      /\ UNCHANGED <<files, tables, writes, seen, held>>
  BY DEF ReadLocation
<1>3. Running(r) /\ h[r].name \in Tables
  BY <1>1, <1>2 DEF Running, HandlerOK
<1>4. PICK n, e : n = h[r].name /\ e = tables[n]
  OBVIOUS
<1>5. CASE e = None
  <2>1. PICK x : x = [h[r] EXCEPT !.pc = "error"]
    OBVIOUS
  <2>2. x \in Handlers /\ x.pc = "error" /\ x.op = h[r].op /\ x.name = n
        /\ x.schema = h[r].schema
    BY <1>1, <1>4, <2>1, Moved DEF PCs
  <2>3. h' = [h EXCEPT ![r] = x]
    BY <1>4, <1>5, <2>1 DEF ReadLocation
  <2>4. HandlerOK(x) /\ InsertOK(x)
    BY <1>2, <1>3, <1>4, <2>2 DEF HandlerOK, InsertOK
  <2>5. ASSUME NEW t \in Tables, Progress(h[r], t, tables[t]) PROVE Progress(x, t, tables[t])
    BY <1>2, <1>4, <1>5, <2>2, <2>5 DEF Progress
  <2> QED BY <1>2, <1>3, <2>2, <2>3, <2>4, <2>5, HandlerStep
<1>6. CASE e # None
  <2>0. e \in Entries /\ e.path \in Places /\ e.source \in SourceNames
    BY <1>1, <1>3, <1>4, <1>6, Facts DEF Shape
  <2>1. PICK y, pc, x : /\ y = [h[r] EXCEPT !.path = e.path, !.source = e.source]
                        /\ pc = AfterLocation(h[r].op) /\ x = [y EXCEPT !.pc = pc]
    OBVIOUS
  <2>2. /\ y \in Handlers /\ y.op = h[r].op /\ y.name = n /\ y.schema = h[r].schema
        /\ y.path = e.path /\ y.source = e.source
    BY <1>1, <1>4, <2>0, <2>1 DEF Handlers
  <2>3. /\ pc \in PCs
        /\ h[r].op = "query" => pc = "schema"
        /\ h[r].op = "show" => pc = "ok"
    BY <1>2, <2>1 DEF AfterLocation, PCs
  <2>4. /\ x \in Handlers /\ x.pc = pc /\ x.op = h[r].op /\ x.name = n
        /\ x.schema = h[r].schema /\ x.path = e.path /\ x.source = e.source
    BY <2>1, <2>2, <2>3, Moved
  <2>5. h' = [h EXCEPT ![r] = x]
    BY <1>4, <1>6, <2>1 DEF ReadLocation, WithLocation
  <2>6. HandlerOK(x) /\ InsertOK(x)
    BY <1>2, <1>3, <1>4, <2>0, <2>3, <2>4 DEF HandlerOK, InsertOK
  <2>7. ASSUME NEW t \in Tables, Progress(h[r], t, tables[t]) PROVE Progress(x, t, tables[t])
    BY <1>2, <1>4, <1>6, <2>3, <2>4, <2>7 DEF Progress
  <2> QED BY <1>2, <1>3, <2>4, <2>5, <2>6, <2>7, HandlerStep
<1> QED BY <1>5, <1>6

LEMMA Step_ReadSchema ==
    ASSUME IInv, NEW r \in Reqs, ReadSchema(r)
    PROVE  IInv'
<1>1. Shape /\ h[r] \in Handlers /\ HandlerOK(h[r])
  BY DEF IInv, Shape, WholeInv
<1>2. /\ h[r].op \in {"query", "show"} /\ h[r].pc = "schema"
      /\ UNCHANGED <<files, tables, writes, seen, held>>
  BY DEF ReadSchema
<1>3. Running(r) /\ h[r].name \in Tables
  BY <1>1, <1>2 DEF Running, HandlerOK
<1>4. PICK n, e : n = h[r].name /\ e = tables[n]
  OBVIOUS
<1>5. CASE e = None
  <2>1. PICK x : x = [h[r] EXCEPT !.pc = "error"]
    OBVIOUS
  <2>2. x \in Handlers /\ x.pc = "error" /\ x.op = h[r].op /\ x.name = n
    BY <1>1, <1>4, <2>1, Moved DEF PCs
  <2>3. h' = [h EXCEPT ![r] = x]
    BY <1>4, <1>5, <2>1 DEF ReadSchema
  <2>4. HandlerOK(x) /\ InsertOK(x)
    BY <1>2, <1>3, <1>4, <2>2 DEF HandlerOK, InsertOK
  <2>5. ASSUME NEW t \in Tables, Progress(h[r], t, tables[t]) PROVE Progress(x, t, tables[t])
    BY <1>2, <1>4, <1>5, <2>2, <2>5 DEF Progress
  <2> QED BY <1>2, <1>3, <2>2, <2>3, <2>4, <2>5, HandlerStep
<1>6. CASE e # None
  <2>0. e \in Entries /\ e.schema \in Schemas
    BY <1>1, <1>3, <1>4, <1>6, Facts DEF Shape
  <2>1. PICK y, pc, x : /\ y = [h[r] EXCEPT !.schema = e.schema]
                        /\ pc = AfterSchema(h[r].op) /\ x = [y EXCEPT !.pc = pc]
    OBVIOUS
  <2>2. /\ y \in Handlers /\ y.op = h[r].op /\ y.name = n /\ y.schema = e.schema
        /\ y.path = h[r].path /\ y.source = h[r].source
    BY <1>1, <1>4, <2>0, <2>1 DEF Handlers
  <2>3. /\ pc \in PCs
        /\ h[r].op = "query" => pc = "scan"
        /\ h[r].op = "show" => pc = "location"
    BY <1>2, <2>1 DEF AfterSchema, PCs
  <2>4. /\ x \in Handlers /\ x.pc = pc /\ x.op = h[r].op /\ x.name = n
        /\ x.schema = e.schema /\ x.path = h[r].path /\ x.source = h[r].source
    BY <2>1, <2>2, <2>3, Moved
  <2>5. h' = [h EXCEPT ![r] = x]
    BY <1>4, <1>6, <2>1 DEF ReadSchema, WithSchema
  <2>6. HandlerOK(x) /\ InsertOK(x)
    BY <1>1, <1>2, <1>3, <1>4, <2>3, <2>4 DEF HandlerOK, InsertOK
  <2>7. ASSUME NEW t \in Tables, Progress(h[r], t, tables[t]) PROVE Progress(x, t, tables[t])
    BY <1>2, <1>4, <1>6, <2>3, <2>4, <2>7 DEF Progress
  <2> QED BY <1>2, <1>3, <2>4, <2>5, <2>6, <2>7, HandlerStep
<1> QED BY <1>5, <1>6

LEMMA Step_QueryScan ==
    ASSUME IInv, NEW r \in Reqs, QueryScan(r)
    PROVE  IInv'
<1>1. Shape /\ h[r] \in Handlers /\ HandlerOK(h[r])
  BY DEF IInv, Shape, WholeInv
<1>2. h[r].pc = "scan" /\ UNCHANGED <<files, tables, writes, seen, held>>
  BY DEF QueryScan
<1>3. Running(r) /\ h[r].op = "query" /\ h[r].name \in Tables /\ h[r].path \in Places
  BY <1>1, <1>2 DEF Running, HandlerOK
<1>4. PICK c, x : /\ c = files[h[r].path] /\ h' = [h EXCEPT ![r] = x]
                  /\ \/ x = [h[r] EXCEPT !.pc = "error"]
                     \/ x = [h[r] EXCEPT !.pc = "ok", !.out = {c}]
  BY DEF QueryScan
<1>5. c \in Answers
  BY <1>1, <1>3, <1>4 DEF Shape, Answers
<1>7. /\ x \in Handlers /\ x.pc \in {"ok", "error"} /\ x.op = h[r].op /\ x.name = h[r].name
      /\ x.schema = h[r].schema /\ x.path = h[r].path /\ x.source = h[r].source
  <2>1. CASE x = [h[r] EXCEPT !.pc = "error"]
    BY <1>1, <2>1, Moved DEF PCs
  <2>2. CASE x = [h[r] EXCEPT !.pc = "ok", !.out = {c}]
    BY <1>1, <1>5, <2>2 DEF Handlers, PCs
  <2> QED BY <1>4, <2>1, <2>2
<1>8. HandlerOK(x) /\ InsertOK(x)
  BY <1>3, <1>7 DEF HandlerOK, InsertOK
<1>9. ASSUME NEW t \in Tables, Progress(h[r], t, tables[t]) PROVE Progress(x, t, tables[t])
  BY <1>2, <1>3, <1>7, <1>9 DEF Progress
<1> QED BY <1>2, <1>3, <1>4, <1>7, <1>8, <1>9, HandlerStep

\* The names of a listing are those of the tables there are, once each.
LEMMA Step_Names ==
    ASSUME IInv, NEW r \in Reqs, Names(r)
    PROVE  IInv'
<1>1. Shape /\ h[r] \in Handlers
  BY DEF IInv, Shape
<1>2. /\ h[r].op \in {"list", "suggest"} /\ h[r].pc = "names"
      /\ UNCHANGED <<files, tables, writes, seen, held>>
  BY DEF Names
<1>3. Running(r)
  BY <1>2 DEF Running
<1>4. PICK todo : todo = {<<t, tables[t].kind>> : t \in {u \in Tables : tables[u] # None}}
  OBVIOUS
<1>5. /\ todo \in SUBSET (Tables \X Kinds)
      /\ \A n \in todo : tables[n[1]] # None /\ n[2] = tables[n[1]].kind
      /\ \A m, n \in todo : m[1] = n[1] => m = n
      /\ \A t \in Tables : tables[t] # None => \E n \in todo : n[1] = t
  <2>1. \A t \in Tables : tables[t] # None => tables[t].kind \in Kinds
    BY <1>1, Facts DEF Shape
  <2>2. \A n \in todo : /\ n[1] \in Tables /\ tables[n[1]] # None
                        /\ n = <<n[1], tables[n[1]].kind>>
    BY <1>4
  <2>3. \A t \in Tables : tables[t] # None => <<t, tables[t].kind>> \in todo
    BY <1>4
  <2>4. \A n \in todo : n \in Tables \X Kinds /\ n[2] = tables[n[1]].kind
    BY <2>1, <2>2
  <2> QED BY <2>2, <2>3, <2>4
<1>6. PICK pc, x : pc = NextName(todo) /\ x = [h[r] EXCEPT !.todo = todo, !.pc = pc]
  OBVIOUS
<1>7. pc \in {"ok", "each"} /\ (pc = "ok" => todo = {}) /\ pc \in PCs
  BY <1>6 DEF NextName, PCs
<1>8. x \in Handlers /\ x.pc = pc /\ x.todo = todo /\ x.op = h[r].op /\ x.out = h[r].out
  BY <1>1, <1>5, <1>6, <1>7 DEF Handlers
<1>9. h' = [h EXCEPT ![r] = x]
  BY <1>1, <1>4, <1>6 DEF Names, Shape
<1>10. HandlerOK(x) /\ InsertOK(x)
  BY <1>2, <1>5, <1>7, <1>8 DEF HandlerOK, InsertOK
<1>11. ASSUME NEW t \in Tables, Progress(h[r], t, tables[t]) PROVE Progress(x, t, tables[t])
  <2>1. x.out = {}
    BY <1>2, <1>8, <1>11 DEF Progress, ListProgress
  <2>2. \A row : ListProgress(x, t, tables[t], row)
    BY <1>5, <1>7, <1>8, <2>1 DEF ListProgress
  <2> QED BY <1>2, <1>7, <1>8, <2>2 DEF Progress
<1> QED BY <1>2, <1>3, <1>8, <1>9, <1>10, <1>11, HandlerStep

\* A listing is done with a name.
LEMMA VisitedFields ==
    ASSUME NEW x \in Handlers, NEW n, NEW row \in SUBSET Answers
    PROVE  LET y == Visited(x, n, row)
           IN  /\ y \in Handlers /\ y.op = x.op /\ y.out = x.out \cup row
               /\ y.todo = x.todo \ {n} /\ y.pc \in {"ok", "each"}
               /\ y.pc = "ok" => y.todo = {}
<1>1. PICK todo, pc : todo = x.todo \ {n} /\ pc = NextName(todo)
  OBVIOUS
<1>2. pc \in {"ok", "each"} /\ pc \in PCs /\ (pc = "ok" => todo = {})
  BY <1>1 DEF NextName, PCs
<1>3. PICK y : y = [x EXCEPT !.todo = todo, !.out = x.out \cup row, !.name = None,
                             !.schema = None, !.pc = pc]
  OBVIOUS
<1>4. y = Visited(x, n, row)
  BY <1>1, <1>3 DEF Visited, Handlers
<1>5. todo \in SUBSET (Tables \X Kinds) /\ x.out \cup row \in SUBSET Answers
  BY <1>1 DEF Handlers
<1>6. /\ y \in Handlers /\ y.op = x.op /\ y.out = x.out \cup row /\ y.todo = todo /\ y.pc = pc
  BY <1>2, <1>3, <1>5 DEF Handlers
<1> QED BY <1>1, <1>2, <1>4, <1>6

\* The row of a table that stayed is added when its name is visited, once.
LEMMA VisitedProgress ==
    ASSUME NEW x, NEW y, NEW t, NEW e, NEW want, NEW n \in x.todo, NEW row,
           x.pc \in {"each", "location"}, y.pc \in {"ok", "each"},
           \A m, k \in x.todo : m[1] = k[1] => m = k,
           y.todo = x.todo \ {n}, y.out = x.out \cup row,
           \A z \in row : z.name = n[1],
           n[1] = t /\ n[2] = e.kind /\ e # None => row = {want},
           ListProgress(x, t, e, want)
    PROVE  ListProgress(y, t, e, want)
<1>1. CASE n[1] = t
  <2>1. e # None /\ n[2] = e.kind /\ row = {want}
    BY <1>1 DEF ListProgress
  <2>2. \A z \in x.out : z.name # t
    BY <1>1 DEF ListProgress
  <2>3. ~ \E m \in y.todo : m[1] = t
    BY <1>1
  <2>4. \A z \in y.out : z.name = t => z = want
    BY <2>1, <2>2
  <2> QED BY <2>1, <2>3, <2>4 DEF ListProgress
<1>2. CASE n[1] # t
  <2>1. (\E m \in y.todo : m[1] = t) <=> (\E m \in x.todo : m[1] = t)
    BY <1>2
  <2>2. \A z \in row : z.name # t
    BY <1>2
  <2>3. \A m \in y.todo : m[1] = t => e # None /\ m[2] = e.kind
    BY DEF ListProgress
  <2>4. CASE e = None \/ \E m \in x.todo : m[1] = t
    <3>1. \A z \in x.out : z.name # t
      BY <2>4 DEF ListProgress
    <3> QED BY <2>1, <2>2, <2>3, <2>4, <3>1 DEF ListProgress
  <2>5. CASE ~(e = None \/ \E m \in x.todo : m[1] = t)
    <3>1. want \in x.out /\ \A z \in x.out : z.name = t => z = want
      BY <2>5 DEF ListProgress
    <3> QED BY <2>1, <2>2, <2>3, <2>5, <3>1 DEF ListProgress
  <2> QED BY <2>4, <2>5
<1> QED BY <1>1, <1>2

\* A listing's visit of the name n, which adds `row`.
LEMMA VisitStep ==
    ASSUME IInv, NEW r \in Reqs, NEW n \in h[r].todo, NEW row \in SUBSET Answers,
           h[r].op \in {"list", "suggest"}, h[r].pc \in {"each", "location"},
           h' = [h EXCEPT ![r] = Visited(h[r], n, row)],
           UNCHANGED <<files, tables, writes, seen, held>>,
           \A z \in row : z.name = n[1],
           h[r].op = "list" /\ tables[n[1]] # None /\ Progress(h[r], n[1], tables[n[1]]) =>
               row = {[name |-> n[1], schema |-> tables[n[1]].schema,
                       loc |-> Loc(tables[n[1]])]},
           h[r].op = "suggest" /\ tables[n[1]] # None /\ n[2] = tables[n[1]].kind =>
               row = {[name |-> n[1], kind |-> tables[n[1]].kind,
                       columns |-> tables[n[1]].schema]}
    PROVE  IInv'
<1>1. h[r] \in Handlers /\ HandlerOK(h[r]) /\ Running(r)
  BY DEF IInv, Shape, WholeInv, Running
<1>2. PICK x, y : x = h[r] /\ y = Visited(x, n, row)
  OBVIOUS
<1>3. /\ y \in Handlers /\ y.op = x.op /\ y.out = x.out \cup row
      /\ y.todo = x.todo \ {n} /\ y.pc \in {"ok", "each"}
      /\ y.pc = "ok" => y.todo = {}
  BY <1>1, <1>2, VisitedFields
<1>4. \A m, k \in x.todo : m[1] = k[1] => m = k
  BY <1>1, <1>2 DEF HandlerOK
<1>5. HandlerOK(y) /\ InsertOK(y)
  BY <1>2, <1>3, <1>4 DEF HandlerOK, InsertOK
<1>6. ASSUME NEW t \in Tables, Progress(x, t, tables[t]) PROVE Progress(y, t, tables[t])
  <2>1. PICK e : e = tables[t]
    OBVIOUS
  <2>2. CASE x.op = "list"
    <3>1. PICK want : want = [name |-> t, schema |-> e.schema, loc |-> Loc(e)]
      OBVIOUS
    <3>2. ListProgress(x, t, e, want)
      BY <1>6, <2>1, <2>2, <3>1 DEF Progress
    <3>3. n[1] = t /\ n[2] = e.kind /\ e # None => row = {want}
      BY <1>2, <1>6, <2>1, <2>2, <3>1
    <3>4. ListProgress(y, t, e, want)
      BY <1>2, <1>3, <1>4, <3>2, <3>3, VisitedProgress, SMTT(20)
    <3> QED BY <1>3, <2>1, <2>2, <3>1, <3>4 DEF Progress
  <2>3. CASE x.op = "suggest"
    <3>1. PICK want : want = [name |-> t, kind |-> e.kind, columns |-> e.schema]
      OBVIOUS
    <3>2. ListProgress(x, t, e, want)
      BY <1>6, <2>1, <2>3, <3>1 DEF Progress
    <3>3. n[1] = t /\ n[2] = e.kind /\ e # None => row = {want}
      BY <1>2, <2>1, <2>3, <3>1
    <3>4. ListProgress(y, t, e, want)
      BY <1>2, <1>3, <1>4, <3>2, <3>3, VisitedProgress, SMTT(20)
    <3> QED BY <1>3, <2>1, <2>3, <3>1, <3>4 DEF Progress
  <2> QED BY <1>2, <2>2, <2>3
<1>7. h' = [h EXCEPT ![r] = y]
  BY <1>2
<1> QED BY <1>1, <1>2, <1>3, <1>5, <1>6, <1>7, HandlerStep

LEMMA Step_ListSchema ==
    ASSUME IInv, NEW r \in Reqs, ListSchema(r)
    PROVE  IInv'
<1>1. Shape /\ h[r] \in Handlers /\ HandlerOK(h[r])
  BY DEF IInv, Shape, WholeInv
<1>2. /\ h[r].op = "list" /\ h[r].pc = "each"
      /\ UNCHANGED <<files, tables, writes, seen, held>>
  BY DEF ListSchema
<1>3. PICK n \in h[r].todo :
        h' = [h EXCEPT ![r] =
                IF tables[n[1]] = None THEN Visited(@, n, {})
                ELSE [@ EXCEPT !.name = n, !.pc = "location", !.schema = tables[n[1]].schema]]
  BY DEF ListSchema
<1>4. n \in Tables \X Kinds /\ n[1] \in Tables
  BY <1>1 DEF Handlers
<1>5. CASE tables[n[1]] = None
  <2>1. h' = [h EXCEPT ![r] = Visited(h[r], n, {})]
    BY <1>3, <1>5
  <2>2. PICK row \in SUBSET Answers : row = {}
    OBVIOUS
  <2>3. h' = [h EXCEPT ![r] = Visited(h[r], n, row)] /\ \A z \in row : z.name = n[1]
    BY <2>1, <2>2
  <2> QED BY <1>2, <1>5, <2>2, <2>3, VisitStep
<1>6. CASE tables[n[1]] # None
  <2>1. PICK e : e = tables[n[1]]
    OBVIOUS
  <2>2. e.schema \in Schemas
    BY <1>1, <1>4, <1>6, <2>1, Facts DEF Shape
  <2>3. PICK x : x = [h[r] EXCEPT !.name = n, !.pc = "location", !.schema = e.schema]
    OBVIOUS
  <2>4. /\ x \in Handlers /\ x.op = "list" /\ x.pc = "location" /\ x.name = n
        /\ x.schema = e.schema /\ x.todo = h[r].todo /\ x.out = h[r].out
    BY <1>1, <1>2, <1>4, <2>2, <2>3 DEF Handlers, PCs
  <2>5. h' = [h EXCEPT ![r] = x]
    BY <1>3, <1>6, <2>1, <2>3
  <2>6. HandlerOK(x) /\ InsertOK(x)
    BY <1>1, <1>2, <1>3, <2>4 DEF HandlerOK, InsertOK
  <2>7. ASSUME NEW t \in Tables, Progress(h[r], t, tables[t]) PROVE Progress(x, t, tables[t])
    <3>1. \A row : ListProgress(h[r], t, tables[t], row) => ListProgress(x, t, tables[t], row)
      BY <1>2, <2>4 DEF ListProgress
    <3>2. ListProgress(h[r], t, tables[t],
              [name |-> t, schema |-> tables[t].schema, loc |-> Loc(tables[t])])
      BY <1>2, <2>7 DEF Progress
    <3> QED BY <2>1, <2>4, <3>1, <3>2 DEF Progress
  <2>8. Running(r)
    BY <1>2 DEF Running
  <2> QED BY <1>2, <2>4, <2>5, <2>6, <2>7, <2>8, HandlerStep
<1> QED BY <1>5, <1>6

LEMMA Step_ListLocation ==
    ASSUME IInv, NEW r \in Reqs, ListLocation(r)
    PROVE  IInv'
<1>1. Shape /\ h[r] \in Handlers /\ HandlerOK(h[r])
  BY DEF IInv, Shape, WholeInv
<1>2. /\ h[r].op = "list" /\ h[r].pc = "location"
      /\ UNCHANGED <<files, tables, writes, seen, held>>
  BY DEF ListLocation
<1>3. PICK n, e, row :
        /\ n = h[r].name /\ e = tables[n[1]]
        /\ row = IF e = None THEN {}
                 ELSE {[name |-> n[1], schema |-> h[r].schema, loc |-> Loc(e)]}
  OBVIOUS
<1>4. n \in h[r].todo /\ n \in Tables \X Kinds /\ n[1] \in Tables
  <2>1. n \in h[r].todo
    BY <1>1, <1>2, <1>3 DEF HandlerOK
  <2> QED BY <1>1, <2>1 DEF Handlers
<1>5. h' = [h EXCEPT ![r] = Visited(h[r], n, row)]
  BY <1>3 DEF ListLocation
<1>6. row \in SUBSET Answers /\ \A z \in row : z.name = n[1]
  <2>1. CASE e = None
    BY <1>3, <2>1
  <2>2. CASE e # None
    <3>1. Loc(e) \in Locs /\ h[r].schema \in Schemas \cup {None}
      BY <1>1, <1>3, <1>4, <2>2, Facts DEF Shape, Locs, Loc, Handlers
    <3>2. [name |-> n[1], schema |-> h[r].schema, loc |-> Loc(e)]
            \in [name : Tables, schema : Schemas \cup {None}, loc : Locs]
      BY <1>4, <3>1
    <3> QED BY <1>3, <2>2, <3>2 DEF Answers
  <2> QED BY <2>1, <2>2
<1>7. tables[n[1]] # None /\ Progress(h[r], n[1], tables[n[1]]) =>
        row = {[name |-> n[1], schema |-> tables[n[1]].schema, loc |-> Loc(tables[n[1]])]}
  <2> SUFFICES ASSUME e # None, Progress(h[r], n[1], e)
               PROVE  row = {[name |-> n[1], schema |-> e.schema, loc |-> Loc(e)]}
    BY <1>3
  <2>1. h[r].schema = e.schema
    BY <1>2, <1>3 DEF Progress
  <2> QED BY <1>3, <2>1
<1> QED BY <1>2, <1>4, <1>5, <1>6, <1>7, VisitStep

LEMMA Step_SuggestSchema ==
    ASSUME IInv, NEW r \in Reqs, SuggestSchema(r)
    PROVE  IInv'
<1>1. Shape /\ h[r] \in Handlers
  BY DEF IInv, Shape
<1>2. /\ h[r].op = "suggest" /\ h[r].pc = "each"
      /\ UNCHANGED <<files, tables, writes, seen, held>>
  BY DEF SuggestSchema
<1>3. PICK n \in h[r].todo :
        h' = [h EXCEPT ![r] =
                Visited(@, n, {[name |-> n[1], kind |-> n[2],
                                columns |-> IF tables[n[1]] = None THEN None
                                            ELSE tables[n[1]].schema]})]
  BY DEF SuggestSchema
<1>4. n \in Tables \X Kinds /\ n[1] \in Tables /\ n[2] \in Kinds
  BY <1>1 DEF Handlers
<1>5. PICK c, row : /\ c = IF tables[n[1]] = None THEN None ELSE tables[n[1]].schema
                    /\ row = {[name |-> n[1], kind |-> n[2], columns |-> c]}
  OBVIOUS
<1>6. c \in Schemas \cup {None}
  BY <1>1, <1>4, <1>5, Facts DEF Shape
<1>7. row \in SUBSET Answers /\ \A z \in row : z.name = n[1]
  <2>1. [name |-> n[1], kind |-> n[2], columns |-> c]
          \in [name : Tables, kind : Kinds, columns : Schemas \cup {None}]
    BY <1>4, <1>6
  <2> QED BY <1>5, <2>1 DEF Answers
<1>8. h' = [h EXCEPT ![r] = Visited(h[r], n, row)]
  BY <1>3, <1>5
<1>9. tables[n[1]] # None /\ n[2] = tables[n[1]].kind =>
        row = {[name |-> n[1], kind |-> tables[n[1]].kind, columns |-> tables[n[1]].schema]}
  BY <1>5
<1> QED BY <1>2, <1>7, <1>8, <1>9, VisitStep

(***************************************************************************)
(* A step that writes the entry of the table n.  A table that has been one *)
(* entry while a handler ran, this step included, was that entry before.   *)
(***************************************************************************)
LEMMA WriteStep ==
    ASSUME IInv, NEW r \in Reqs, NEW n \in Tables, NEW e \in Entries \cup {None},
           NEW pc \in {"ok", "tail"}, Running(r),
           h[r].op \in {"register", "unregister", "flow", "live"}, h[r].name \in Tables,
           tables' = [tables EXCEPT ![n] = e], seen' = Witnessed(tables'),
           h' = [h EXCEPT ![r].pc = pc], UNCHANGED <<files, writes, held>>,
           e # None => \E c \in held[e.path] : Stems(n, e, c)
    PROVE  IInv'
<1>1. Shape /\ WholeInv /\ ReadInv
  BY DEF IInv
<1>2. PICK x : x = [h[r] EXCEPT !.pc = pc]
  OBVIOUS
<1>3. x \in Handlers /\ x.pc \in {"ok", "tail"} /\ x.op = h[r].op /\ x.name = h[r].name
  <2>1. pc \in PCs /\ h[r] \in Handlers
    BY <1>1 DEF Shape, PCs
  <2> QED BY <1>2, <2>1, Moved
<1>4. /\ h'[r] = x /\ (\A q \in Reqs : q # r => h'[q] = h[q]) /\ h' \in [Reqs -> Handlers]
  BY <1>1, <1>2, <1>3 DEF Shape
<1>5. /\ tables'[n] = e /\ (\A t \in Tables : t # n => tables'[t] = tables[t])
      /\ tables' \in [Tables -> Entries \cup {None}]
  BY <1>1 DEF Shape
<1>6. /\ \A q \in Reqs, t \in Tables :
           seen'[q][t] = IF Running(q) THEN seen[q][t] \cup {tables'[t]} ELSE seen[q][t]
      /\ seen' \in [Reqs -> [Tables -> SUBSET (Entries \cup {None})]]
  BY <1>1, <1>5 DEF Witnessed, Shape
<1>7. Shape'
  BY <1>1, <1>4, <1>5, <1>6 DEF Shape
<1>8. WholeInv'
  <2>1. HandlerOK(x)
    BY <1>3 DEF HandlerOK
  <2>2. \A q \in Reqs : HandlerOK(h'[q])
    BY <1>1, <1>4, <2>1 DEF WholeInv
  <2>3. \A q \in Reqs : InsertOK(h[q])'
    BY <1>1, <1>3, <1>4 DEF WholeInv, InsertOK
  <2>4. EntriesWhole'
    <3> SUFFICES ASSUME NEW t \in Tables, tables'[t] # None
                 PROVE  \E c \in held[tables'[t].path] : Stems(t, tables'[t], c)
      BY DEF EntriesWhole, Whole, Stems, Declared, DestSource, InferSchema
    <3>1. CASE t = n
      BY <1>5, <3>1
    <3>2. CASE t # n
      BY <1>1, <1>5, <3>2 DEF WholeInv, EntriesWhole, Whole
    <3> QED BY <3>1, <3>2
  <2> QED BY <1>1, <2>2, <2>3, <2>4 DEF WholeInv, HandlerOK
<1>9. ReadInv'
  <2> SUFFICES ASSUME NEW q \in Reqs, NEW t \in Tables
               PROVE  /\ Running(q)' => tables'[t] \in seen'[q][t]
                      /\ \A f \in seen'[q][t] : seen'[q][t] = {f} => Progress(h'[q], t, f)
    BY DEF ReadInv, Progress, ListProgress, Loc
  <2>1. Running(q)' => Running(q)
    BY <1>3, <1>4 DEF Running
  <2>2. Running(q)' => tables'[t] \in seen'[q][t]
    <3> SUFFICES ASSUME Running(q) PROVE tables'[t] \in seen'[q][t]
      BY <2>1
    <3>1. seen'[q][t] = seen[q][t] \cup {tables'[t]}
      BY <1>6, Zenon
    <3> QED BY <3>1, Zenon
  <2>3. ASSUME NEW f \in seen'[q][t], seen'[q][t] = {f} PROVE Progress(h'[q], t, f)
    <3>1. CASE q = r
      BY <1>3, <1>4, <3>1 DEF Progress
    <3>2. CASE q # r
      <4>1. CASE Running(q)
        <5>1. tables[t] \in seen[q][t] /\ seen[q][t] \subseteq {f}
          BY <1>1, <1>6, <2>3, <4>1, ZenonT(40) DEF ReadInv
        <5>2. f \in seen[q][t] /\ seen[q][t] = {f}
          BY <5>1
        <5> QED BY <1>1, <1>4, <3>2, <5>2 DEF ReadInv
      <4>2. CASE ~Running(q)
        BY <1>1, <1>4, <1>6, <2>3, <3>2, <4>2, ZenonT(40) DEF ReadInv
      <4> QED BY <4>1, <4>2
    <3> QED BY <3>1, <3>2
  <2> QED BY <2>2, <2>3
<1> QED BY <1>7, <1>8, <1>9 DEF IInv

LEMMA Step_RegisterInsert ==
    ASSUME IInv, NEW r \in Reqs, RegisterInsert(r)
    PROVE  IInv'
<1>1. h[r] \in Handlers /\ HandlerOK(h[r]) /\ InsertOK(h[r])
  BY DEF IInv, Shape, WholeInv
<1>2. h[r].op \in {"register", "flow", "live"} /\ h[r].pc = "insert"
  BY DEF RegisterInsert
<1>3. /\ Running(r) /\ h[r].name \in Tables /\ h[r].path \in Places
      /\ h[r].source \in SourceNames /\ h[r].kind \in Kinds /\ h[r].schema \in Schemas
  BY <1>1, <1>2 DEF Running, HandlerOK
<1>4. PICK e, pc : e = EntryOf(h[r]) /\ pc = IF h[r].op = "live" THEN "tail" ELSE "ok"
  OBVIOUS
<1>5. e \in Entries /\ e.path = h[r].path /\ pc \in {"ok", "tail"}
  BY <1>3, <1>4 DEF Entries, EntryOf
<1>6. \E c \in held[e.path] : Stems(h[r].name, e, c)
  BY <1>1, <1>2, <1>4, <1>5 DEF InsertOK
<1>7. /\ tables' = [tables EXCEPT ![h[r].name] = e] /\ seen' = Witnessed(tables')
      /\ h' = [h EXCEPT ![r].pc = pc] /\ UNCHANGED <<files, writes, held>>
  BY <1>4 DEF RegisterInsert, Inserted, Goto
<1> QED BY <1>2, <1>3, <1>5, <1>6, <1>7, WriteStep

LEMMA Step_Unregister ==
    ASSUME IInv, NEW r \in Reqs, Unregister(r)
    PROVE  IInv'
<1>1. h[r] \in Handlers /\ HandlerOK(h[r])
  BY DEF IInv, Shape, WholeInv
<1>2. h[r].op = "unregister" /\ h[r].pc = "remove"
  BY DEF Unregister
<1>3. Running(r) /\ h[r].name \in Tables
  BY <1>1, <1>2 DEF Running, HandlerOK
<1>4. /\ tables' = [tables EXCEPT ![h[r].name] = None] /\ seen' = Witnessed(tables')
      /\ h' = [h EXCEPT ![r].pc = "ok"] /\ UNCHANGED <<files, writes, held>>
  BY DEF Unregister, Goto
<1>5. PICK e, pc : e = None /\ pc = "ok"
  OBVIOUS
<1> QED BY <1>2, <1>3, <1>4, <1>5, WriteStep

\* What the invariant says of the files and their history still holds when a
\* file gets another content, or the same again.
LEMMA FilesStep ==
    ASSUME IInv, NEW p \in Places, NEW c \in Contents \cup {None},
           files' = [files EXCEPT ![p] = c], held' = [held EXCEPT ![p] = @ \cup {c}],
           UNCHANGED tables
    PROVE  /\ files' \in [Places -> Contents \cup {None}]
           /\ held' \in [Places -> SUBSET (Contents \cup {None})]
           /\ \A q \in Places : held[q] \subseteq held'[q] /\ files'[q] \in held'[q]
           /\ c \in held'[p] /\ EntriesWhole'
<1>1. Shape /\ WholeInv
  BY DEF IInv
<1>2. /\ files' \in [Places -> Contents \cup {None}]
      /\ held' \in [Places -> SUBSET (Contents \cup {None})]
      /\ \A q \in Places : held[q] \subseteq held'[q] /\ files'[q] \in held'[q]
      /\ c \in held'[p]
  BY <1>1 DEF Shape, WholeInv
<1>3. EntriesWhole'
  <2> SUFFICES ASSUME NEW t \in Tables, tables[t] # None
               PROVE  \E d \in held'[tables[t].path] : Stems(t, tables[t], d)
    BY DEF EntriesWhole, Whole, Stems, Declared, DestSource, InferSchema
  <2>1. tables[t].path \in Places
    BY <1>1, Facts DEF Shape
  <2>2. PICK d \in held[tables[t].path] : Stems(t, tables[t], d)
    BY <1>1 DEF WholeInv, EntriesWhole, Whole
  <2> QED BY <1>2, <2>1, <2>2
<1> QED BY <1>2, <1>3

\* A handler about to insert is still about to insert something whole.
LEMMA InsertStep ==
    ASSUME NEW q \in Reqs, HandlerOK(h[q]), InsertOK(h[q]), h'[q] = h[q],
           \A p \in Places : held[p] \subseteq held'[p]
    PROVE  InsertOK(h[q])'
<1> SUFFICES ASSUME h[q].pc = "insert"
             PROVE  \E c \in held'[h[q].path] : Stems(h[q].name, EntryOf(h[q]), c)
  BY ZenonT(40) DEF InsertOK, Stems, EntryOf, Declared, DestSource, InferSchema
<1>1. h[q].path \in Places
  BY DEF HandlerOK
<1> QED BY <1>1 DEF InsertOK

LEMMA Step_FileChange ==
    ASSUME IInv, FileChange
    PROVE  IInv'
<1>1. Shape /\ WholeInv /\ ReadInv
  BY DEF IInv
<1>2. /\ writes < MaxFileWrites /\ writes' = writes + 1 /\ UNCHANGED <<tables, h, seen>>
  BY DEF FileChange
<1>3. PICK p \in Paths, c \in Contents \cup {None} :
        files' = [files EXCEPT ![p] = c] /\ held' = [held EXCEPT ![p] = @ \cup {c}]
  BY DEF FileChange
<1>4. p \in Places
  BY DEF Places
<1>5. /\ files' \in [Places -> Contents \cup {None}]
      /\ held' \in [Places -> SUBSET (Contents \cup {None})]
      /\ \A q \in Places : held[q] \subseteq held'[q] /\ files'[q] \in held'[q]
      /\ EntriesWhole'
  BY <1>2, <1>3, <1>4, FilesStep
<1>6. Shape'
  BY <1>1, <1>2, <1>5, CatalogAssumption DEF Shape
<1>7. WholeInv'
  <2>1. \A q \in Reqs : InsertOK(h[q])'
    BY <1>1, <1>2, <1>5, InsertStep DEF WholeInv
  <2> QED BY <1>1, <1>2, <1>5, <2>1 DEF WholeInv, HandlerOK
<1>8. ReadInv'
  BY <1>1, <1>2 DEF ReadInv, Running, Progress, ListProgress, Loc
<1> QED BY <1>6, <1>7, <1>8 DEF IInv

LEMMA Step_FlowWrites ==
    ASSUME IInv, NEW r \in Reqs, FlowWrites(r)
    PROVE  IInv'
<1>1. /\ Shape /\ WholeInv /\ ReadInv
      /\ h[r] \in Handlers /\ HandlerOK(h[r])
  BY DEF IInv, Shape, WholeInv
<1>2. /\ h[r].op \in {"flow", "live"} /\ h[r].pc = "run"
      /\ UNCHANGED <<tables, writes, seen>>
  BY DEF FlowWrites
<1>3. PICK f \in Flows, c \in Contents, whole \in BOOLEAN : FlowWrites(r)!2!(f, c, whole)
  BY DEF FlowWrites
<1>4. PICK e : e = Declared(f, c)
  OBVIOUS
<1>5. /\ f.name = h[r].name /\ f.path \in Places /\ f.name \in Tables
      /\ e.path = f.path /\ e.source \in SourceNames /\ e.kind \in Kinds
      /\ e.schema \in Schemas
      /\ e = [path |-> e.path, source |-> e.source, schema |-> e.schema, kind |-> e.kind]
  BY <1>3, <1>4, CatalogAssumption DEF Declared, DestSource, SourceNames, Sources, Schemas
<1>6. /\ files' = [files EXCEPT ![f.path] = c]
      /\ held' = [held EXCEPT ![f.path] = @ \cup {c}]
  BY <1>3
<1>7. /\ files' \in [Places -> Contents \cup {None}]
      /\ held' \in [Places -> SUBSET (Contents \cup {None})]
      /\ \A q \in Places : held[q] \subseteq held'[q] /\ files'[q] \in held'[q]
      /\ c \in held'[f.path] /\ EntriesWhole'
  BY <1>2, <1>5, <1>6, FilesStep
<1>8. PICK x : /\ h' = [h EXCEPT ![r] = x]
               /\ \/ x = [h[r] EXCEPT !.pc = "insert", !.path = e.path, !.source = e.source,
                                       !.kind = e.kind, !.schema = e.schema]
                  \/ x = [h[r] EXCEPT !.pc = "error"]
  BY <1>3, <1>4
<1>9. /\ x \in Handlers /\ x.op = h[r].op /\ x.name = h[r].name /\ x.pc \in {"insert", "error"}
      /\ x.pc = "insert" => /\ x.path = e.path /\ x.source = e.source
                            /\ x.kind = e.kind /\ x.schema = e.schema
  <2>1. CASE x = [h[r] EXCEPT !.pc = "error"]
    BY <1>1, <2>1, Moved DEF PCs
  <2>2. CASE x = [h[r] EXCEPT !.pc = "insert", !.path = e.path, !.source = e.source,
                              !.kind = e.kind, !.schema = e.schema]
    BY <1>1, <1>5, <2>2, ZenonT(30) DEF Handlers, PCs
  <2> QED BY <1>8, <2>1, <2>2
<1>10. h'[r] = x /\ (\A q \in Reqs : q # r => h'[q] = h[q]) /\ h' \in [Reqs -> Handlers]
  BY <1>1, <1>8, <1>9 DEF Shape
<1>11. Shape'
  BY <1>1, <1>2, <1>7, <1>10 DEF Shape
<1>12. WholeInv'
  <2>1. HandlerOK(x)
    BY <1>2, <1>5, <1>9 DEF HandlerOK
  <2>2. \A q \in Reqs : HandlerOK(h'[q])
    BY <1>1, <1>10, <2>1 DEF WholeInv
  <2>3. InsertOK(h[r])'
    <3> SUFFICES ASSUME x.pc = "insert"
                 PROVE  \E d \in held'[x.path] : Stems(x.name, EntryOf(x), d)
      BY <1>10 DEF InsertOK, Stems, EntryOf, Declared, DestSource, InferSchema
    <3>1. EntryOf(x) = e
      BY <1>5, <1>9 DEF EntryOf
    <3>2. Stems(x.name, e, c)
      BY <1>4, <1>5, <1>9 DEF Stems
    <3> QED BY <1>5, <1>7, <1>9, <3>1, <3>2
  <2>4. \A q \in Reqs : q # r => InsertOK(h[q])'
    BY <1>1, <1>7, <1>10, InsertStep DEF WholeInv
  <2> QED BY <1>7, <2>2, <2>3, <2>4 DEF WholeInv, HandlerOK
<1>13. ReadInv'
  <2> SUFFICES ASSUME NEW q \in Reqs, NEW t \in Tables
               PROVE  /\ Running(q)' => tables[t] \in seen[q][t]
                      /\ \A d \in seen[q][t] : seen[q][t] = {d} => Progress(h'[q], t, d)
    BY <1>2 DEF ReadInv, Progress, ListProgress, Loc
  <2>1. CASE q # r
    BY <1>1, <1>10, <2>1 DEF ReadInv, Running
  <2>2. CASE q = r
    <3>1. \A d : Progress(x, t, d)
      BY <1>2, <1>9 DEF Progress
    <3>2. tables[t] \in seen[r][t]
      BY <1>1, <1>2 DEF ReadInv, Running
    <3> QED BY <1>10, <2>2, <3>1, <3>2
  <2> QED BY <2>1, <2>2
<1> QED BY <1>11, <1>12, <1>13 DEF IInv

LEMMA Step_FlowFails ==
    ASSUME IInv, NEW r \in Reqs, FlowFails(r)
    PROVE  IInv'
<1>1. h[r] \in Handlers /\ HandlerOK(h[r])
  BY DEF IInv, Shape, WholeInv
<1>2. /\ h[r].op \in {"flow", "live"} /\ h[r].pc \in {"run", "tail"}
      /\ UNCHANGED <<files, tables, writes, seen, held>>
  BY DEF FlowFails
<1>3. Running(r) /\ h[r].name \in Tables
  BY <1>1, <1>2 DEF Running, HandlerOK
<1>4. PICK x : x = [h[r] EXCEPT !.pc = "error"]
  OBVIOUS
<1>5. x \in Handlers /\ x.pc = "error" /\ x.op = h[r].op /\ x.name = h[r].name
  BY <1>1, <1>4, Moved DEF PCs
<1>6. h' = [h EXCEPT ![r] = x]
  BY <1>4 DEF FlowFails, Goto
<1>7. HandlerOK(x) /\ InsertOK(x)
  BY <1>2, <1>3, <1>5 DEF HandlerOK, InsertOK
<1>8. \A t \in Tables : Progress(x, t, tables[t])
  BY <1>2, <1>5 DEF Progress
<1> QED BY <1>2, <1>3, <1>5, <1>6, <1>7, <1>8, HandlerStep

-----------------------------------------------------------------------------
(* The invariant. *)

\* The preloaded tables are whole, and no request has started.
LEMMA InitIInv == Init => IInv
<1> SUFFICES ASSUME Init PROVE IInv
  OBVIOUS
<1>1. Idle \in Handlers /\ Idle.pc = "idle" /\ Idle.op = None
  BY DEF Idle, Handlers, PCs
<1>2. ASSUME NEW t \in Tables, tables[t] # None
      PROVE  /\ tables[t] \in Entries
             /\ tables[t].schema = InferSchema(tables[t].source, files[tables[t].path])
             /\ tables[t].path \in Places
  <2>1. PICK src, schema : /\ src = SourceOf(Load[t])
                           /\ schema = InferSchema(src, files[Load[t]])
    OBVIOUS
  <2>2. /\ Load[t] \in Paths /\ schema # None
        /\ tables[t] = [path |-> Load[t], source |-> src, schema |-> schema, kind |-> "batch"]
    BY <1>2, <2>1, CatalogAssumption DEF Init, Preloaded
  <2>3. src \in Sources /\ schema \in Schemas /\ Load[t] \in Places
    BY <2>1, <2>2 DEF SourceOf, Sources, InferSchema, Schemas, Places, Init
  <2> QED BY <2>1, <2>2, <2>3 DEF Entries, SourceNames, Kinds
<1>3. Shape
  BY <1>1, <1>2, CatalogAssumption DEF Init, Shape
<1>4. WholeInv
  <2>1. \A p \in Places : held[p] = {files[p]}
    BY DEF Init
  <2>2. EntriesWhole
    BY <1>2, <2>1 DEF EntriesWhole, Whole, Stems
  <2>3. \A r \in Reqs : HandlerOK(h[r]) /\ InsertOK(h[r])
    BY <1>1, CatalogAssumption DEF Init, HandlerOK, InsertOK, Idle
  <2> QED BY <2>1, <2>2, <2>3 DEF WholeInv
<1>5. ReadInv
  BY <1>1 DEF Init, ReadInv, Running
<1> QED BY <1>3, <1>4, <1>5 DEF IInv

LEMMA NextIInv == IInv /\ [Next]_vars => IInv'
<1> SUFFICES ASSUME IInv, [Next]_vars PROVE IInv'
  OBVIOUS
<1>1. CASE FileChange
  BY <1>1, Step_FileChange
<1>2. ASSUME NEW r \in Reqs, Arrive(r) PROVE IInv'
  BY <1>2, Step_Begin
<1>3. ASSUME NEW r \in Reqs, Step(r) PROVE IInv'
  BY <1>3, Step_RegisterInfer, Step_RegisterInsert, Step_Unregister, Step_ReadLocation,
     Step_ReadSchema, Step_QueryScan, Step_Names, Step_ListSchema, Step_ListLocation,
     Step_SuggestSchema DEF Step
<1>5. ASSUME NEW r \in Reqs, FlowStep(r) PROVE IInv'
  BY <1>5, Step_FlowWrites, Step_FlowFails DEF FlowStep
<1>4. CASE UNCHANGED vars
  <2>1. Shape /\ WholeInv /\ ReadInv
    BY DEF IInv
  <2>2. Shape'
    BY <1>4, <2>1 DEF Shape, vars
  <2>3. WholeInv'
    <3>1. \A q \in Reqs : InsertOK(h[q])'
      BY <1>4, <2>1, InsertStep DEF WholeInv, vars
    <3>2. EntriesWhole'
      BY <1>4, <2>1 DEF WholeInv, EntriesWhole, Whole, vars
    <3> QED BY <1>4, <2>1, <3>1, <3>2 DEF WholeInv, HandlerOK, vars
  <2>4. ReadInv'
    BY <1>4, <2>1 DEF ReadInv, Running, Progress, ListProgress, Loc, vars
  <2> QED BY <2>2, <2>3, <2>4 DEF IInv
<1> QED BY <1>1, <1>2, <1>3, <1>4, <1>5 DEF Next

LEMMA Inductive == Spec => []IInv
BY InitIInv, NextIInv, PTL DEF Spec

\* Whatever the interleaving of handlers and file changes, the catalog holds
\* entries, the handlers hold values of their types and the bound on file
\* changes is kept.
THEOREM TypeCorrect == Spec => []TypeOK
<1>1. IInv => TypeOK
  BY DEF IInv, Shape, TypeOK, Handlers, PCs
<1> QED BY <1>1, Inductive, PTL

\* However registrations by requests and by flows race with each other and with
\* changes of the files, all of an entry stems from one registration of its name,
\* and its schema from something its file has held.
THEOREM EntriesAreWhole == Spec => []EntriesWhole
<1>1. IInv => EntriesWhole
  BY DEF IInv, WholeInv
<1> QED BY <1>1, Inductive, PTL

\* Readers that take several lock sections answer exactly what the catalog
\* says of every table that nobody touched meanwhile.
THEOREM StableReads == Spec => []StableReadsExact
<1>1. ASSUME IInv PROVE StableReadsExact
  <2> SUFFICES ASSUME NEW r \in Reqs, NEW t \in Tables, NEW e \in seen[r][t],
                      Stable(r, t, e)
               PROVE  StableReadsExact!(r, t)!(e)!2
    BY DEF StableReadsExact
  <2>1. HandlerOK(h[r]) /\ Progress(h[r], t, e) /\ h[r].pc \in {"ok", "error"}
    BY <1>1 DEF IInv, WholeInv, ReadInv, Stable
  <2>2. CASE h[r].op = "list"
    <3>1. PICK row : row = [name |-> t, schema |-> e.schema, loc |-> Loc(e)]
      OBVIOUS
    <3>2. ListProgress(h[r], t, e, row) /\ h[r].pc = "ok" /\ h[r].todo = {}
      BY <2>1, <2>2, <3>1 DEF HandlerOK, Progress
    <3>3. {x \in h[r].out : x.name = t} = IF e = None THEN {} ELSE {row}
      BY <3>1, <3>2 DEF ListProgress
    <3> QED BY <2>2, <3>1, <3>3
  <2>3. CASE h[r].op = "suggest"
    <3>1. PICK row : row = [name |-> t, kind |-> e.kind, columns |-> e.schema]
      OBVIOUS
    <3>2. ListProgress(h[r], t, e, row) /\ h[r].pc = "ok" /\ h[r].todo = {}
      BY <2>1, <2>3, <3>1 DEF HandlerOK, Progress
    <3>3. {x \in h[r].out : x.name = t} = IF e = None THEN {} ELSE {row}
      BY <3>1, <3>2 DEF ListProgress
    <3> QED BY <2>3, <3>1, <3>3
  <2>4. CASE h[r].op = "show" /\ h[r].name = t
    BY <2>1, <2>4 DEF Progress
  <2>5. CASE h[r].op = "query" /\ h[r].name = t /\ h[r].pc = "ok"
    BY <2>1, <2>5 DEF Progress
  <2> QED BY <2>2, <2>3, <2>4, <2>5
<1> QED BY <1>1, Inductive, PTL
=============================================================================
