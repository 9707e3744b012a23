------------------------------ MODULE LiveFlow ------------------------------
(***************************************************************************)
(* Page events from POST /v1/events (crates/rspark-ingest) through a Kafka *)
(* topic into the NDJSON file of a `refresh: live` flow                    *)
(* (crates/rspark-pipelines: KafkaSource, run_live_streaming,              *)
(* append_file).  The topic has one partition, the runs of the flow form   *)
(* one consumer group, and all of them live in the master's process.       *)
(*                                                                         *)
(* Brokers and librdkafka are external: a send may be repeated or its      *)
(* acknowledgement lost; the group has given the partition to one owner,   *)
(* though a consumer whose session has timed out does not know at once     *)
(* that it is not the owner any more; offsets are stored as messages are   *)
(* handed to recv() and committed from time to time, when the partition is *)
(* given up, and when a consumer is closed, if the group takes the commit. *)
(* A message is its offset, so that a lost or repeated row of the file can *)
(* be told.                                                                *)
(***************************************************************************)
EXTENDS Integers, Sequences, FiniteSets, SequencesExt

CONSTANTS
    Posts,         \* POST /v1/events requests
    Events,        \* their events
    Objects,       \* the events that are JSON objects
    Runs,          \* runs of the live flow
    MaxPoll,       \* messages in a batch, 100 in the code
    Scenarios,     \* Scenarios[s]: who takes part, and how often things fail
    None

ASSUME LiveFlowAssumption ==
    /\ MaxPoll \in Nat \ {0}
    /\ \A s \in DOMAIN Scenarios :
         /\ Scenarios[s].posts \subseteq Posts /\ Scenarios[s].runs \subseteq Runs
         /\ Scenarios[s].maxEvents \in Nat      \* events of a request
         /\ Scenarios[s].maxSendFaults \in Nat  \* sends that are not acknowledged once
         /\ Scenarios[s].maxFaults \in Nat      \* all other faults
    /\ Objects \subseteq Events /\ None \notin Runs

VARIABLES
    scenario,    \* the one of this behaviour; no step changes it
    post,        \* post[c]: the handler of request c
    topic,       \* topic[o]: [event, post, i], what was sent
    committed,   \* the group's committed offset: messages up to it are consumed
    owner,       \* the run the group has assigned the partition to
    run,         \* run[r]: its consumer and its local variables
    file,        \* the offsets whose events are lines of the destination
    open,        \* the destination ends in a fragment of a line
    torn,        \* history: offsets written onto a fragment, in one line with it
    dropped,     \* history: the offsets a run held when it was stopped
    uncommitted, \* history: offsets consumed by a run that could not commit them
    sendFaults, faults

dest == <<file, open, torn>>

\* The scenario and what has happened of it.
counts == <<scenario, dropped, uncommitted, sendFaults, faults>>

vars == <<post, topic, committed, owner, run, dest, counts>>

World == Scenarios[scenario]

NoPost == [pc |-> "idle", events |-> <<>>, i |-> 1, produced |-> 0, failed |-> 0, acked |-> {}]

\* holds: the consumer takes the partition for its own; pos: offset of the last
\* message handed to recv(); n: messages of this poll.
NoRun == [pc |-> "off", joins |-> FALSE, holds |-> FALSE, pos |-> 0, n |-> 0, rows |-> <<>>]

-----------------------------------------------------------------------------
(***************************************************************************)
(* ingest: the events of a body are sent one after the other, each awaited *)
(* for five seconds.                                                       *)
(***************************************************************************)
Receive(c) ==
    /\ c \in World.posts /\ post[c].pc = "idle"
    /\ \E k \in 0..World.maxEvents : \E es \in [1..k -> Events] :
         post' = [post EXCEPT ![c] = [NoPost EXCEPT !.pc = "send", !.events = es]]
    /\ UNCHANGED <<topic, committed, owner, run, dest, counts>>

\* Mutant: whatever the producer returns counts as produced.
CountedAlways(p, ok) ==
    [p EXCEPT !.i = @ + 1, !.produced = @ + 1, !.acked = @ \cup {p.i}]

Counted(p, ok) ==
    [p EXCEPT !.i = @ + 1, !.produced = IF ok THEN @ + 1 ELSE @,
              !.failed = IF ok THEN @ ELSE @ + 1, !.acked = IF ok THEN @ \cup {p.i} ELSE @]

(***************************************************************************)
(* producer.send: the message is appended once and acknowledged.  Or it is *)
(* retried and appended twice, or it times out, appended or not.           *)
(***************************************************************************)
Send(c) ==
    /\ post[c].pc = "send" /\ post[c].i <= Len(post[c].events)
    /\ \E copies \in 0..2, ok \in BOOLEAN :
         LET m == [event |-> post[c].events[post[c].i], post |-> c, i |-> post[c].i] IN
         /\ ok => copies > 0
         /\ IF ok /\ copies = 1 THEN UNCHANGED sendFaults
            ELSE sendFaults < World.maxSendFaults /\ sendFaults' = sendFaults + 1
         /\ topic' = topic \o [k \in 1..copies |-> m]
         /\ post' = [post EXCEPT ![c] = Counted(@, ok)]
    /\ UNCHANGED <<scenario, committed, owner, run, dest, dropped, uncommitted, faults>>

\* 502 when nothing was produced and something failed; an empty body is 202.
Answer(c) ==
    /\ post[c].pc = "send" /\ post[c].i > Len(post[c].events)
    /\ post' = [post EXCEPT ![c].pc = IF post[c].failed > 0 /\ post[c].produced = 0
                                     THEN "502" ELSE "202"]
    /\ UNCHANGED <<topic, committed, owner, run, dest, counts>>

-----------------------------------------------------------------------------
(***************************************************************************)
(* The consumer group.                                                     *)
(***************************************************************************)
\* run_live_streaming builds its KafkaSource, which subscribes.
Start(r) ==
    /\ r \in World.runs /\ run[r].pc = "off"
    /\ run' = [run EXCEPT ![r] = [NoRun EXCEPT !.pc = "recv", !.joins = TRUE]]
    /\ UNCHANGED <<post, topic, committed, owner, dest, counts>>

\* The session of r has timed out, and r does not know.
Fenced(r) == run[r].holds /\ owner # r

\* What r has consumed since the last commit.
Pending(r) == (committed + 1)..run[r].pos

(***************************************************************************)
(* The group rebalances when a member joins or is gone: the partition goes *)
(* to some member, which resumes at the committed offset; the owner until  *)
(* then commits what it has stored as it gives the partition up, or fails  *)
(* to.  A run is cut off from the group until it notices that it is.       *)
(***************************************************************************)
Assign(r) ==
    /\ run[r].pc # "off" /\ ~Fenced(r) /\ (owner = None \/ \E q \in Runs : run[q].joins)
    /\ owner' = r
    /\ \/ owner = None /\ UNCHANGED <<committed, uncommitted, faults>>
       \/ owner # None /\ committed' = run[owner].pos /\ UNCHANGED <<uncommitted, faults>>
       \/ /\ owner # None /\ faults < World.maxFaults /\ faults' = faults + 1
          /\ uncommitted' = uncommitted \cup Pending(owner) /\ UNCHANGED committed
    /\ run' = [q \in Runs |-> [run[q] EXCEPT !.joins = FALSE,
                                             !.holds = q = r \/ Fenced(q),
                                             !.pos = IF q = r THEN committed' ELSE @]]
    /\ UNCHANGED <<post, topic, dest, scenario, dropped, sendFaults>>

AutoCommit(r) ==
    /\ owner = r /\ committed # run[r].pos
    /\ committed' = run[r].pos
    /\ UNCHANGED <<post, topic, owner, run, dest, counts>>

(***************************************************************************)
(* The group hears nothing of the owner for session.timeout.ms (a pause, a *)
(* broken connection) and takes the partition away.  The consumer goes on  *)
(* with what it fetches, but its commits are refused; it joins again when  *)
(* the group answers that it does not know it.                             *)
(***************************************************************************)
Fence(r) ==
    /\ owner = r /\ faults < World.maxFaults /\ faults' = faults + 1
    /\ owner' = None
    /\ uncommitted' = uncommitted \cup Pending(r)
    /\ UNCHANGED <<post, topic, committed, run, dest, scenario, dropped, sendFaults>>

Rejoin(r) ==
    /\ Fenced(r)
    /\ run' = [run EXCEPT ![r].holds = FALSE, ![r].joins = TRUE]
    /\ UNCHANGED <<post, topic, committed, owner, dest, counts>>

-----------------------------------------------------------------------------
(***************************************************************************)
(* The live loop.  A message that is not a JSON object is passed over but  *)
(* counts towards the batch.                                               *)
(***************************************************************************)
\* Mutant: a message that is no object ends the poll and drops the batch.
ReceivedStrict(rec, event) ==
    [rec EXCEPT !.pos = @ + 1, !.n = @ + 1,
                !.rows = IF event \in Objects THEN Append(@, rec.pos + 1) ELSE <<>>]

Received(rec, event) ==
    [rec EXCEPT !.pos = @ + 1, !.n = @ + 1,
                !.rows = IF event \in Objects THEN Append(@, rec.pos + 1) ELSE @]

\* Mutant: one message more than a batch may hold.
RecvOneMore(r) ==
    /\ run[r].pc = "recv" /\ run[r].holds /\ run[r].n <= MaxPoll /\ run[r].pos < Len(topic)
    /\ run' = [run EXCEPT ![r] = Received(@, topic[@.pos + 1].event)]
    /\ UNCHANGED <<post, topic, committed, owner, dest, counts>>

Recv(r) ==
    /\ run[r].pc = "recv" /\ run[r].holds /\ run[r].n < MaxPoll /\ run[r].pos < Len(topic)
    /\ run' = [run EXCEPT ![r] = Received(@, topic[@.pos + 1].event)]
    /\ uncommitted' = IF owner = r THEN uncommitted ELSE uncommitted \cup {run[r].pos + 1}
    /\ UNCHANGED <<post, topic, committed, owner, dest, scenario, dropped, sendFaults, faults>>

\* Mutant: a poll waits for a full batch.
PollEndsFull(r) ==
    /\ run[r].pc = "recv" /\ run[r].n = MaxPoll
    /\ run' = [run EXCEPT ![r].n = 0,
                          ![r].pc = IF run[r].rows = <<>> THEN "recv" ELSE "append"]
    /\ UNCHANGED <<post, topic, committed, owner, dest, counts>>

(***************************************************************************)
(* The batch is full, or 50 ms have passed without a message, or recv() is *)
(* an error.  Without rows the loop sleeps and polls again.                *)
(***************************************************************************)
PollEnds(r) ==
    /\ run[r].pc = "recv" /\ run[r].n > 0
    /\ run' = [run EXCEPT ![r].n = 0,
                          ![r].pc = IF run[r].rows = <<>> THEN "recv" ELSE "append"]
    /\ UNCHANGED <<post, topic, committed, owner, dest, counts>>

(***************************************************************************)
(* append_file: one line per row.  Here the first k rows of r's batch get  *)
(* to the file, and with `part` some bytes of the next one.  What is       *)
(* written onto a fragment makes one line with it, which is no row.        *)
(***************************************************************************)
Written(r, k, part) ==
    LET rows == run[r].rows
        onto == open /\ k > 0
    IN  /\ file' = file \o (IF onto THEN SubSeq(rows, 2, k) ELSE SubSeq(rows, 1, k))
        /\ torn' = IF onto THEN torn \cup {rows[1]} ELSE torn
        /\ open' = (part \/ (open /\ k = 0))

\* The file takes the batch.  commit() is never called, and does nothing.
AppendBatch(r) ==
    /\ run[r].pc = "append"
    /\ Written(r, Len(run[r].rows), FALSE)
    /\ run' = [run EXCEPT ![r].rows = <<>>, ![r].pc = "recv"]
    /\ UNCHANGED <<post, topic, committed, owner, counts>>

(***************************************************************************)
(* Faults.  An append that fails, for which write_all may have written any *)
(* part, ends the flow; so does the client of POST /v1/pipelines when it   *)
(* goes away, because the loop is polled by its request, at an await of    *)
(* recv() or sleep().  Both close the consumer, which commits what it has  *)
(* stored when the group lets it.  A crash of the master commits nothing.  *)
(***************************************************************************)
Closed(r) ==
    /\ run' = [run EXCEPT ![r] = NoRun]
    /\ owner' = IF owner = r THEN None ELSE owner
    /\ dropped' = dropped \cup Range(run[r].rows)
    /\ \/ owner # r /\ UNCHANGED <<committed, uncommitted>>
       \/ owner = r /\ committed' = run[r].pos /\ UNCHANGED uncommitted
       \/ owner = r /\ uncommitted' = uncommitted \cup Pending(r) /\ UNCHANGED committed

\* A part of r's batch, which is not empty.
WrittenInPart(r) ==
    \E k \in 0..(Len(run[r].rows) - 1), part \in BOOLEAN : Written(r, k, part)

\* Mutant: the loop writes the batch again.
AppendFailsRetries(r) ==
    /\ run[r].pc = "append" /\ faults < World.maxFaults
    /\ WrittenInPart(r)
    /\ faults' = faults + 1
    /\ UNCHANGED <<scenario, post, topic, committed, owner, run, dropped, uncommitted, sendFaults>>

\* Mutant: the loop goes on with the next batch.
AppendFailsSkips(r) ==
    /\ run[r].pc = "append" /\ faults < World.maxFaults
    /\ WrittenInPart(r)
    /\ run' = [run EXCEPT ![r].rows = <<>>, ![r].pc = "recv"]
    /\ faults' = faults + 1
    /\ UNCHANGED <<scenario, post, topic, committed, owner, dropped, uncommitted, sendFaults>>

AppendFails(r) ==
    /\ run[r].pc = "append" /\ faults < World.maxFaults
    /\ WrittenInPart(r) /\ Closed(r)
    /\ faults' = faults + 1
    /\ UNCHANGED <<scenario, post, topic, sendFaults>>

Cancel(r) ==
    /\ run[r].pc = "recv" /\ faults < World.maxFaults
    /\ Closed(r)
    /\ faults' = faults + 1
    /\ UNCHANGED <<scenario, post, topic, dest, sendFaults>>

\* At most one append is under way.
Crash ==
    /\ faults < World.maxFaults /\ \E r \in Runs : run[r].pc # "off"
    /\ \/ UNCHANGED dest
       \/ \E r \in Runs : run[r].pc = "append" /\ WrittenInPart(r)
    /\ run' = [r \in Runs |-> NoRun] /\ owner' = None
    /\ faults' = faults + 1
    /\ dropped' = dropped \cup UNION {Range(run[r].rows) : r \in Runs}
    /\ uncommitted' = IF owner = None THEN uncommitted ELSE uncommitted \cup Pending(owner)
    /\ UNCHANGED <<scenario, post, topic, committed, sendFaults>>

-----------------------------------------------------------------------------
Init ==
    /\ scenario \in DOMAIN Scenarios
    /\ post = [c \in Posts |-> NoPost]
    /\ topic = <<>> /\ committed = 0 /\ owner = None
    /\ run = [r \in Runs |-> NoRun]
    /\ file = <<>> /\ open = FALSE
    /\ torn = {} /\ dropped = {} /\ uncommitted = {}
    /\ sendFaults = 0 /\ faults = 0

Step(r) == Recv(r) \/ PollEnds(r) \/ AppendBatch(r)

Next ==
    \/ \E c \in Posts : Receive(c) \/ Send(c) \/ Answer(c)
    \/ \E r \in Runs : Start(r) \/ Assign(r) \/ AutoCommit(r) \/ Step(r)
                       \/ Fence(r) \/ Rejoin(r) \/ AppendFails(r) \/ Cancel(r)
    \/ Crash

Spec == Init /\ [][Next]_vars

(***************************************************************************)
(* tokio polls a ready task, the group assigns its partition to some       *)
(* member, and a handler is driven to its end.  Nobody starts a flow.      *)
(***************************************************************************)
FairSpec ==
    /\ Spec
    /\ \A c \in Posts : WF_vars(Send(c) \/ Answer(c))
    /\ \A r \in Runs : WF_vars(Step(r)) /\ WF_vars(owner = None /\ Assign(r))

-----------------------------------------------------------------------------
Wanted(k) == {o \in 1..k : topic[o].event \in Objects}

InFlight == UNION {Range(run[r].rows) : r \in Runs}

Stored == Range(file)

\* The events that requests have where nothing fails but sends.
EventNumbers ==
    1..Max({Scenarios[s].maxEvents : s \in {t \in DOMAIN Scenarios : Scenarios[t].maxFaults = 0}})

Highest == IF owner = None THEN committed ELSE run[owner].pos

TypeOK ==
    /\ scenario \in DOMAIN Scenarios
    /\ committed \in 0..Len(topic) /\ owner \in Runs \cup {None}
    /\ \A r \in Runs :
         /\ run[r].pc \in {"off", "recv", "append"} /\ run[r].pos \in 0..Len(topic)
         /\ run[r].n \in 0..MaxPoll /\ Range(run[r].rows) \subseteq 1..Len(topic)
    /\ Stored \subseteq 1..Len(topic) /\ open \in BOOLEAN
    /\ \A c \in Posts : post[c].pc \in {"idle", "send", "202", "502"}

(***************************************************************************)
(* The events a request reports as produced are in the topic, each of      *)
(* them, and a 502 reports none, whatever sends time out or are repeated   *)
(* and however requests interleave (ingest counts `produced` per event).   *)
(***************************************************************************)
ProducedAreInTopic ==
    \A c \in Posts :
        /\ Cardinality({m.i : m \in {topic[o] : o \in DOMAIN topic} \cap
                                    [event : Events, post : {c}, i : Nat]}) >= post[c].produced
        /\ post[c].pc = "502" => post[c].produced = 0 /\ post[c].failed > 0

(***************************************************************************)
(* Until something fails, the lines of the file and the batches on their   *)
(* way to it are exactly the objects consumed so far, each once, however   *)
(* runs of the flow take over from each other.                             *)
(***************************************************************************)
ExactlyOnceWithoutFaults ==
    faults = 0 =>
        /\ Stored \cup InFlight = Wanted(Highest) /\ Stored \cap InFlight = {}
        /\ IsInjective(file)
        /\ \A q, r \in Runs : q # r => Range(run[q].rows) \cap Range(run[r].rows) = {}

InjectiveBut(s, U) == \A a, b \in DOMAIN s : s[a] = s[b] /\ s[a] \notin U => a = b

(***************************************************************************)
(* A line is repeated only if its message was consumed by a run that lost  *)
(* the partition before it could commit it, by a crash, a session that     *)
(* timed out or a commit that failed.  However else runs end or take over  *)
(* from each other, failed appends included, no row is written twice.      *)
(***************************************************************************)
RepeatedOnlyUncommitted == InjectiveBut(file, uncommitted)

(***************************************************************************)
(* An object is lost only with a batch that a run held when it was         *)
(* stopped, or as the one row that is written onto what a failed append    *)
(* has left: whatever else was consumed is in the file or will be read     *)
(* again.  (A batch is lost when its offsets were committed before it was  *)
(* appended, which auto-commit allows.)                                    *)
(***************************************************************************)
LostOnlyInFlight ==
    /\ Wanted(Highest) \subseteq Stored \cup InFlight \cup dropped \cup torn
    /\ Cardinality(torn) + (IF open THEN 1 ELSE 0) <= faults

(***************************************************************************)
(* Every object that a request was told is produced gets into the file,    *)
(* when a run of the flow is up and nothing interrupts it.                 *)
(***************************************************************************)
AckedIsStored ==
    \A c \in Posts : \A i \in EventNumbers :
        (/\ World.maxFaults = 0 /\ i \in post[c].acked /\ post[c].events[i] \in Objects
         /\ \E r \in Runs : run[r].pc # "off")
        ~> \E o \in Stored : topic[o].post = c /\ topic[o].i = i
=============================================================================
