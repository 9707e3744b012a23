--------------------------- MODULE LiveFlowProofs ---------------------------
(***************************************************************************)
(* LiveFlow, for any requests, runs, batch size, topic and faults.  The    *)
(* inductive invariant has five parts: the types; where the consumers      *)
(* stand; that a message is in one place, a batch or a line, unless a run  *)
(* has consumed it and could not commit it; what has become of each of the *)
(* messages that were consumed; what the ingest handlers have counted.     *)
(***************************************************************************)
EXTENDS LiveFlow, TLAPS, FiniteSetTheorems

PostRecord == [pc : {"idle", "send", "202", "502"}, events : Seq(Events),
               i : Nat \ {0}, produced : Nat, failed : Nat, acked : SUBSET Nat]

RunRecord == [pc : {"off", "recv", "append"}, joins : BOOLEAN, holds : BOOLEAN,
              pos : Nat, n : 0..MaxPoll, rows : Seq(Nat)]

Message == [event : Events, post : Posts, i : Nat]

Shape ==
    /\ scenario \in DOMAIN Scenarios
    /\ post \in [Posts -> PostRecord] /\ topic \in Seq(Message)
    /\ committed \in Nat /\ owner \in Runs \cup {None}
    /\ run \in [Runs -> RunRecord] /\ file \in Seq(Nat) /\ open \in BOOLEAN
    /\ faults \in Nat

\* The owner stands at or past the committed offset, and takes the partition
\* for its own; another does only after a fault.
GroupInv ==
    /\ committed <= Len(topic)
    /\ \A r \in Runs :
         /\ run[r].pos <= Len(topic)
         /\ r = owner => committed <= run[r].pos /\ run[r].holds
         /\ run[r].pc = "off" => ~run[r].holds
         /\ faults = 0 => ~Fenced(r)

RowsOf(r) == Range(run[r].rows)

\* What has not been consumed in vain is in one place at most, and nobody has
\* got ahead of the owner.
OnceInv ==
    /\ \A o \in Stored \cup InFlight : o \in uncommitted \/ o <= Highest
    /\ InjectiveBut(file, uncommitted)
    /\ \A r \in Runs : InjectiveBut(run[r].rows, uncommitted)
    /\ \A q, r \in Runs : q # r => RowsOf(q) \cap RowsOf(r) \subseteq uncommitted
    /\ Stored \cap InFlight \subseteq uncommitted

\* Lines and rows are objects of the topic, a stopped run has none, and what was
\* consumed is accounted for.
FileInv ==
    /\ \A o \in Stored \cup InFlight : o \in 1..Len(topic) /\ topic[o].event \in Objects
    /\ \A r \in Runs : run[r].pc = "off" => run[r].rows = <<>>
    /\ LostOnlyInFlight /\ IsFiniteSet(torn)
    /\ faults = 0 => dropped = {} /\ uncommitted = {} /\ torn = {} /\ ~open

\* A request counts what it was acknowledged, and has sent no event twice on
\* its own account: its messages are of events it is past.
PostInv ==
    \A c \in Posts :
        /\ post[c].pc = "idle" => post[c] = NoPost
        /\ IsFiniteSet(post[c].acked) /\ Cardinality(post[c].acked) = post[c].produced
        /\ post[c].acked \subseteq 1..(post[c].i - 1)
        /\ \A i \in post[c].acked : \E o \in DOMAIN topic : topic[o].post = c /\ topic[o].i = i
        /\ \A o \in DOMAIN topic : topic[o].post = c => topic[o].i \in 1..(post[c].i - 1)
        /\ post[c].pc = "502" => post[c].produced = 0 /\ post[c].failed > 0

IInv == Shape /\ GroupInv /\ OnceInv /\ FileInv /\ PostInv

-----------------------------------------------------------------------------
(* Sequences. *)

LEMMA RangeAppend ==
    ASSUME NEW S, NEW s \in Seq(S), NEW x \in S
    PROVE  /\ Range(Append(s, x)) = Range(s) \cup {x}
           /\ \A U : InjectiveBut(s, U) /\ (x \in Range(s) => x \in U) =>
                      InjectiveBut(Append(s, x), U)
BY DEF Range, InjectiveBut

LEMMA RangeConcat ==
    ASSUME NEW S, NEW s \in Seq(S), NEW t \in Seq(S)
    PROVE  /\ s \o t \in Seq(S)
           /\ Range(s \o t) = Range(s) \cup Range(t)
           /\ \A U : InjectiveBut(s, U) /\ InjectiveBut(t, U)
                     /\ Range(s) \cap Range(t) \subseteq U => InjectiveBut(s \o t, U)
<1>1. /\ s \o t \in Seq(S) /\ Len(s \o t) = Len(s) + Len(t)
      /\ \A i \in 1..Len(s) : (s \o t)[i] = s[i]
      /\ \A i \in 1..Len(t) : (s \o t)[Len(s) + i] = t[i]
      /\ \A i \in (Len(s) + 1)..(Len(s) + Len(t)) :
             (s \o t)[i] = t[i - Len(s)] /\ i - Len(s) \in 1..Len(t)
  OBVIOUS
<1>2. Range(s \o t) = Range(s) \cup Range(t)
  <2>1. ASSUME NEW x \in Range(s \o t) PROVE x \in Range(s) \cup Range(t)
    <3>1. PICK i \in 1..Len(s \o t) : (s \o t)[i] = x
      BY <1>1 DEF Range
    <3>2. CASE i \in 1..Len(s)
      BY <1>1, <3>1, <3>2 DEF Range
    <3>3. CASE i \in (Len(s) + 1)..(Len(s) + Len(t))
      BY <1>1, <3>1, <3>3 DEF Range
    <3> QED BY <1>1, <3>1, <3>2, <3>3
  <2>2. ASSUME NEW x \in Range(s) PROVE x \in Range(s \o t)
    BY <1>1, <2>2 DEF Range
  <2>3. ASSUME NEW x \in Range(t) PROVE x \in Range(s \o t)
    <3>1. PICK i \in 1..Len(t) : t[i] = x
      BY DEF Range
    <3>2. (s \o t)[Len(s) + i] = x /\ Len(s) + i \in 1..Len(s \o t)
      BY <1>1, <3>1
    <3>3. DOMAIN (s \o t) = 1..Len(s \o t)
      BY <1>1
    <3> QED BY <3>2, <3>3 DEF Range
  <2> QED BY <2>1, <2>2, <2>3
<1>3. ASSUME NEW U, InjectiveBut(s, U), InjectiveBut(t, U), Range(s) \cap Range(t) \subseteq U,
             NEW a \in 1..Len(s \o t), NEW b \in 1..Len(s \o t),
             (s \o t)[a] = (s \o t)[b], (s \o t)[a] \notin U
      PROVE  a = b
  <2>1. ASSUME NEW i \in 1..Len(s), NEW k \in 1..Len(t), s[i] \notin U PROVE s[i] # t[k]
    <3>1. s[i] \in Range(s) /\ t[k] \in Range(t)
      BY DEF Range
    <3> QED BY <1>3, <2>1, <3>1
  <2>2. \A i \in 1..Len(s \o t) : i \in 1..Len(s) \/ i \in (Len(s) + 1)..(Len(s) + Len(t))
    BY <1>1
  <2>3. CASE a \in 1..Len(s)
    <3>1. b \in 1..Len(s)
      BY <1>1, <1>3, <2>1, <2>2, <2>3
    <3> QED BY <1>1, <1>3, <2>3, <3>1 DEF InjectiveBut
  <2>4. CASE a \in (Len(s) + 1)..(Len(s) + Len(t))
    <3>1. b \in (Len(s) + 1)..(Len(s) + Len(t))
      BY <1>1, <1>3, <2>1, <2>2, <2>4
    <3>2. a - Len(s) \in DOMAIN t /\ b - Len(s) \in DOMAIN t
          /\ t[a - Len(s)] = t[b - Len(s)] /\ t[a - Len(s)] \notin U
      BY <1>1, <1>3, <2>4, <3>1
    <3>3. a - Len(s) = b - Len(s)
      BY <1>3, <3>2 DEF InjectiveBut
    <3> QED BY <3>3
  <2> QED BY <2>2, <2>3, <2>4
<1>4. ASSUME NEW U, InjectiveBut(s, U), InjectiveBut(t, U), Range(s) \cap Range(t) \subseteq U
      PROVE  InjectiveBut(s \o t, U)
  <2>1. DOMAIN (s \o t) = 1..Len(s \o t)
    BY <1>1
  <2> QED BY <1>3, <1>4, <2>1 DEF InjectiveBut
<1> QED BY <1>1, <1>2, <1>4

\* A piece of a sequence, from its first or second place on.
LEMMA RangePiece ==
    ASSUME NEW S, NEW s \in Seq(S), NEW k \in 0..Len(s), NEW a \in {1, 2}, a = 2 => k > 0
    PROVE  /\ SubSeq(s, a, k) \in Seq(S)
           /\ Range(SubSeq(s, a, k)) \subseteq Range(s)
           /\ \A U : InjectiveBut(s, U) => InjectiveBut(SubSeq(s, a, k), U)
           /\ k = Len(s) => Range(s) \subseteq Range(SubSeq(s, a, k)) \cup
                                             (IF a = 2 THEN {s[1]} ELSE {})
<1>1. /\ SubSeq(s, a, k) \in Seq(S) /\ Len(SubSeq(s, a, k)) = k + 1 - a
      /\ \A i \in 1..(k + 1 - a) :
             SubSeq(s, a, k)[i] = s[i + a - 1] /\ i + a - 1 \in 1..Len(s)
  OBVIOUS
<1>2. DOMAIN SubSeq(s, a, k) = 1..(k + 1 - a) /\ DOMAIN s = 1..Len(s) /\ k + 1 - a \in Nat
  BY <1>1
<1>3. Range(SubSeq(s, a, k)) \subseteq Range(s)
  BY <1>1, <1>2 DEF Range
<1>4. ASSUME NEW U, InjectiveBut(s, U) PROVE InjectiveBut(SubSeq(s, a, k), U)
  <2> SUFFICES ASSUME NEW b \in 1..(k + 1 - a), NEW c \in 1..(k + 1 - a),
                      SubSeq(s, a, k)[b] = SubSeq(s, a, k)[c], SubSeq(s, a, k)[b] \notin U
               PROVE  b = c
    BY <1>2 DEF InjectiveBut
  <2>1. /\ s[b + a - 1] = s[c + a - 1] /\ s[b + a - 1] \notin U
        /\ b + a - 1 \in DOMAIN s /\ c + a - 1 \in DOMAIN s
    BY <1>1, <1>2
  <2>2. b + a - 1 = c + a - 1
    BY <1>4, <2>1 DEF InjectiveBut
  <2> QED BY <2>2
<1>5. ASSUME k = Len(s), NEW x \in Range(s)
      PROVE  x \in Range(SubSeq(s, a, k)) \/ (a = 2 /\ x = s[1])
  <2>1. PICK i \in 1..Len(s) : s[i] = x
    BY <1>2 DEF Range
  <2>2. CASE a = 2 /\ i = 1
    BY <2>1, <2>2
  <2>3. CASE ~(a = 2 /\ i = 1)
    <3>1. i + 1 - a \in 1..(k + 1 - a) /\ (i + 1 - a) + a - 1 = i
      BY <1>5, <2>3
    <3>2. SubSeq(s, a, k)[i + 1 - a] = x
      BY <1>1, <2>1, <3>1
    <3> QED BY <1>2, <3>1, <3>2 DEF Range
  <2> QED BY <2>2, <2>3
<1> QED BY <1>1, <1>3, <1>4, <1>5

LEMMA RangeEmpty == Range(<<>>) = {} /\ \A U : InjectiveBut(<<>>, U)
BY DEF Range, InjectiveBut

LEMMA NothingToWrite == \E s : s \in Seq(Nat) /\ s = <<>>
<1>1. PICK s : s = <<>>
  OBVIOUS
<1>2. s \in Seq(Nat)
  BY <1>1
<1> QED BY <1>1, <1>2

\* What is not among the numbers that are given up, and not above the old bound,
\* is not above the new one.
LEMMA NotAbove ==
    ASSUME NEW h \in Nat, NEW k \in 0..h, NEW U, \A o \in (k + 1)..h : o \in U
    PROVE  \A o \in Nat : o <= h => o \in U \/ o <= k
OBVIOUS

LEMMA InFlightRows == \A o : o \in InFlight <=> \E r \in Runs : o \in RowsOf(r)
BY DEF InFlight, RowsOf

-----------------------------------------------------------------------------
(* The ingest handlers. *)

\* Consumers and the file do not notice that the topic grows.
LEMMA TopicGrows ==
    ASSUME IInv, topic' \in Seq(Message), Len(topic) <= Len(topic'),
           \A o \in 1..Len(topic) : topic'[o] = topic[o],
           UNCHANGED <<committed, owner, run, dest, dropped, uncommitted, faults>>
    PROVE  GroupInv' /\ OnceInv' /\ FileInv'
<1> USE DEF IInv, Shape, dest
<1>1. GroupInv'
  BY DEF GroupInv, RunRecord, Fenced
<1>2. Stored' = Stored /\ InFlight' = InFlight /\ Highest' = Highest
  BY DEF Stored, InFlight, Highest
<1>3. OnceInv'
  BY <1>2 DEF OnceInv, RowsOf, InjectiveBut
<1>4. Highest \in 0..Len(topic)
  BY DEF Highest, GroupInv, RunRecord
<1>5. Wanted(Highest)' = Wanted(Highest)
  <2>1. \A o \in 1..Highest : topic'[o] = topic[o]
    BY <1>4
  <2> QED BY <1>2, <2>1 DEF Wanted
<1>6. FileInv'
  BY <1>2, <1>5 DEF FileInv, LostOnlyInFlight
<1> QED BY <1>1, <1>3, <1>6

\* One request: its record and its messages change, no other request's do.
LEMMA Post_Receive ==
    ASSUME IInv, NEW c \in Posts, Receive(c)
    PROVE  IInv'
<1> USE DEF IInv, Shape
<1>0. PICK k \in 0..World.maxEvents : \E es \in [1..k -> Events] :
          post' = [post EXCEPT ![c] = [NoPost EXCEPT !.pc = "send", !.events = es]]
  BY DEF Receive
<1>1. PICK es \in [1..k -> Events] :
          post' = [post EXCEPT ![c] = [NoPost EXCEPT !.pc = "send", !.events = es]]
  BY <1>0
<1>2. /\ post[c] = NoPost
      /\ UNCHANGED <<topic, committed, owner, run, dest, scenario, dropped, uncommitted, faults>>
  BY DEF Receive, PostInv, counts
<1>3. es \in Seq(Events)
  <2>1. World.maxEvents \in Nat
    BY LiveFlowAssumption DEF World
  <2> QED BY <2>1
<1>4. post'[c] = [NoPost EXCEPT !.pc = "send", !.events = es] /\ post'[c] \in PostRecord
  <2>1. post'[c] = [NoPost EXCEPT !.pc = "send", !.events = es]
    BY <1>1
  <2>2. NoPost \in PostRecord
    BY DEF NoPost, PostRecord
  <2>3. [NoPost EXCEPT !.pc = "send", !.events = es] \in PostRecord
    BY <1>3, <2>2 DEF PostRecord
  <2> QED BY <2>1, <2>3
<1>5. Shape'
  BY <1>1, <1>2, <1>4 DEF dest
<1>6. PostInv'
  <2>1. /\ post'[c].pc = "send" /\ post'[c].i = post[c].i /\ post'[c].acked = post[c].acked
        /\ post'[c].produced = post[c].produced /\ post'[c].failed = post[c].failed
    BY <1>2, <1>4 DEF NoPost
  <2>2. \A d \in Posts : d # c => post'[d] = post[d]
    BY <1>1
  <2>3. topic' = topic /\ PostInv
    BY <1>2
  <2>4. \A d \in Posts : /\ d = c => post'[d].pc = "send"
                         /\ d # c => post'[d] = post[d]
                         /\ post'[d].i = post[d].i /\ post'[d].acked = post[d].acked
                         /\ post'[d].produced = post[d].produced
                         /\ post'[d].failed = post[d].failed
    BY <2>1, <2>2
  <2> HIDE DEF IInv, Shape
  <2> QED BY <2>3, <2>4 DEF PostInv
<1>7. GroupInv' /\ OnceInv' /\ FileInv'
  BY <1>2, TopicGrows
<1> QED BY <1>5, <1>6, <1>7

LEMMA Post_Answer ==
    ASSUME IInv, NEW c \in Posts, Answer(c)
    PROVE  IInv'
<1> USE DEF IInv, Shape
<1>1. UNCHANGED <<topic, committed, owner, run, dest, scenario, dropped, uncommitted, faults>>
  BY DEF Answer, counts
<1>2. /\ post' = [post EXCEPT ![c].pc = IF post[c].failed > 0 /\ post[c].produced = 0
                                        THEN "502" ELSE "202"]
      /\ post[c] \in PostRecord
  BY DEF Answer
<1>3. Shape'
  BY <1>1, <1>2 DEF PostRecord, dest
<1>4. PostInv'
  <2>1. /\ post'[c].pc = IF post[c].failed > 0 /\ post[c].produced = 0 THEN "502" ELSE "202"
        /\ post'[c].i = post[c].i /\ post'[c].acked = post[c].acked
        /\ post'[c].produced = post[c].produced /\ post'[c].failed = post[c].failed
    BY <1>2 DEF PostRecord
  <2>2. \A d \in Posts : d # c => post'[d] = post[d]
    BY <1>2
  <2> QED BY <1>1, <2>1, <2>2 DEF PostInv
<1>5. GroupInv' /\ OnceInv' /\ FileInv'
  BY <1>1, TopicGrows
<1> QED BY <1>3, <1>4, <1>5

LEMMA Post_Send ==
    ASSUME IInv, NEW c \in Posts, Send(c)
    PROVE  IInv'
<1>1. PICK copies \in 0..2, ok \in BOOLEAN :
          LET m == [event |-> post[c].events[post[c].i], post |-> c, i |-> post[c].i] IN
          /\ ok => copies > 0
          /\ topic' = topic \o [k \in 1..copies |-> m]
          /\ post' = [post EXCEPT ![c] = Counted(post[c], ok)]
  BY DEF Send
<1>2. PICK m : m = [event |-> post[c].events[post[c].i], post |-> c, i |-> post[c].i]
  OBVIOUS
<1>3. /\ post[c] \in PostRecord /\ post[c].pc = "send" /\ post[c].i \in 1..Len(post[c].events)
      /\ post \in [Posts -> PostRecord] /\ topic \in Seq(Message) /\ PostInv
  BY DEF Send, PostRecord, IInv, Shape
<1>4. m \in Message /\ m.post = c /\ m.i = post[c].i
  BY <1>2, <1>3 DEF PostRecord, Message
<1>5. UNCHANGED <<committed, owner, run, dest, scenario, dropped, uncommitted, faults>>
  BY DEF Send
<1>0. PICK ms : ms = [k \in 1..copies |-> m]
  OBVIOUS
<1>6. ms \in Seq(Message) /\ Len(ms) = copies /\ \A k \in 1..copies : ms[k] = m
  BY <1>0, <1>4
<1>7. /\ topic' \in Seq(Message) /\ Len(topic') = Len(topic) + copies
      /\ \A o \in 1..Len(topic) : topic'[o] = topic[o]
      /\ \A o \in (Len(topic) + 1)..Len(topic') : topic'[o] = m
      /\ Len(topic) \in Nat
      /\ DOMAIN topic = 1..Len(topic) /\ DOMAIN topic' = 1..Len(topic')
  <2>1. topic' = topic \o ms
    BY <1>0, <1>1, <1>2
  <2> QED BY <1>3, <1>6, <2>1
<1>8. /\ \A o \in DOMAIN topic : o \in DOMAIN topic' /\ topic'[o] = topic[o]
      /\ \A o \in DOMAIN topic' :
             (o \in DOMAIN topic /\ topic'[o] = topic[o]) \/ topic'[o] = m
      /\ ok => \E o \in DOMAIN topic' : topic'[o] = m
  <2>1. ok => Len(topic) + 1 \in DOMAIN topic' /\ topic'[Len(topic) + 1] = m
    BY <1>1, <1>7
  <2> QED BY <1>7, <2>1
<1>9. /\ post'[c].pc = "send" /\ post'[c].i = post[c].i + 1
      /\ post'[c].produced = IF ok THEN post[c].produced + 1 ELSE post[c].produced
      /\ post'[c].acked = IF ok THEN post[c].acked \cup {post[c].i} ELSE post[c].acked
      /\ post'[c] \in PostRecord
  <2>1. post'[c] = Counted(post[c], ok)
    BY <1>1, <1>3
  <2>2. Counted(post[c], ok) \in PostRecord
    <3>1. /\ post[c].i + 1 \in Nat \ {0} /\ post[c].produced + 1 \in Nat
          /\ post[c].failed + 1 \in Nat /\ post[c].acked \cup {post[c].i} \in SUBSET Nat
      BY <1>3 DEF PostRecord
    <3>2. CASE ok
      BY <1>3, <3>1, <3>2 DEF Counted, PostRecord
    <3>3. CASE ~ok
      BY <1>3, <3>1, <3>3 DEF Counted, PostRecord
    <3> QED BY <3>2, <3>3
  <2> QED BY <1>3, <2>1, <2>2 DEF Counted, PostRecord
<1>10. \A d \in Posts : d # c => post'[d] = post[d]
  BY <1>1, <1>3
<1>11. Shape'
  BY <1>1, <1>3, <1>5, <1>7, <1>9 DEF IInv, Shape, dest
<1>12. GroupInv' /\ OnceInv' /\ FileInv'
  BY <1>5, <1>7, TopicGrows
<1>13. ASSUME NEW d \in Posts, d # c
       PROVE  /\ \A i \in post[d].acked :
                     \E o \in DOMAIN topic' : topic'[o].post = d /\ topic'[o].i = i
              /\ \A o \in DOMAIN topic' : topic'[o].post = d =>
                     topic'[o].i \in 1..(post[d].i - 1)
  BY <1>3, <1>4, <1>8, <1>13 DEF PostInv
<1>14. /\ IsFiniteSet(post[c].acked) /\ Cardinality(post[c].acked) = post[c].produced
       /\ post[c].acked \subseteq 1..(post[c].i - 1) /\ post[c].i \in Nat \ {0}
       /\ post[c].produced \in Nat
  BY <1>3 DEF PostInv, PostRecord
<1>15. /\ IsFiniteSet(post'[c].acked) /\ Cardinality(post'[c].acked) = post'[c].produced
  <2>1. post[c].i \notin post[c].acked
    BY <1>14
  <2>2. CASE ok
    BY <1>9, <1>14, <2>1, <2>2, FS_AddElement
  <2>3. CASE ~ok
    BY <1>9, <1>14, <2>3
  <2> QED BY <2>2, <2>3
<1>16. post'[c].acked \subseteq 1..(post'[c].i - 1)
  BY <1>9, <1>14
<1>17. ASSUME NEW i \in post'[c].acked
       PROVE  \E o \in DOMAIN topic' : topic'[o].post = c /\ topic'[o].i = i
  <2>1. CASE i \in post[c].acked
    BY <1>3, <1>8, <2>1 DEF PostInv
  <2>2. CASE i = post[c].i /\ ok
    BY <1>4, <1>8, <2>2
  <2> QED BY <1>9, <1>17, <2>1, <2>2
<1>18. ASSUME NEW o \in DOMAIN topic', topic'[o].post = c
       PROVE  topic'[o].i \in 1..(post'[c].i - 1)
  <2>1. CASE topic'[o] = m
    BY <1>4, <1>9, <1>14, <2>1
  <2>2. CASE o \in DOMAIN topic /\ topic'[o] = topic[o]
    <3>1. topic[o].i \in 1..(post[c].i - 1)
      BY <1>3, <1>18, <2>2 DEF PostInv
    <3> QED BY <1>9, <1>14, <2>2, <3>1
  <2> QED BY <1>8, <2>1, <2>2
<1>19. PostInv'
  BY <1>3, <1>9, <1>10, <1>13, <1>15, <1>16, <1>17, <1>18 DEF PostInv
<1> QED BY <1>11, <1>12, <1>19 DEF IInv

-----------------------------------------------------------------------------
(* The consumers. *)

LEMMA PostKept == IInv /\ UNCHANGED <<post, topic>> => PostInv'
BY DEF IInv, PostInv

\* The owner is ahead of what is committed, and everybody is within the topic.
LEMMA HighestBounds ==
    ASSUME IInv
    PROVE  /\ Highest \in 0..Len(topic) /\ Len(topic) \in Nat /\ committed \in 0..Highest
           /\ \A r \in Runs : /\ run[r].pos \in 0..Len(topic)
                              /\ owner = r => Highest = run[r].pos /\ r # None
           /\ owner = None => Highest = committed
<1>1. /\ committed \in Nat /\ owner \in Runs \cup {None} /\ Len(topic) \in Nat
      /\ \A r \in Runs : run[r].pos \in Nat
  BY DEF IInv, Shape, RunRecord
<1>2. GroupInv
  BY DEF IInv
<1>3. \A r \in Runs : owner = r => Highest = run[r].pos /\ r # None
  BY LiveFlowAssumption DEF Highest
<1>4. owner = None => Highest = committed
  BY DEF Highest
<1>5. Highest \in 0..Len(topic) /\ committed \in 0..Highest
  BY <1>1, <1>2, <1>3, <1>4 DEF GroupInv
<1> QED BY <1>1, <1>2, <1>3, <1>4, <1>5 DEF GroupInv

LEMMA RowsType ==
    ASSUME IInv
    PROVE  /\ \A r \in Runs : run[r].rows \in Seq(Nat) /\ RowsOf(r) \subseteq Nat
           /\ file \in Seq(Nat) /\ Stored \subseteq Nat /\ InFlight \subseteq Nat
<1>1. Shape /\ FileInv
  BY DEF IInv
<1>2. \A o \in Stored \cup InFlight : o \in Nat
  BY <1>1 DEF FileInv
<1>3. \A r \in Runs : run[r].rows \in Seq(Nat) /\ \A o \in RowsOf(r) : o \in InFlight
  BY <1>1, InFlightRows DEF Shape, RunRecord
<1> QED BY <1>1, <1>2, <1>3 DEF Shape

(***************************************************************************)
(* A step in which the rows s of r get into the file, other batches stay   *)
(* or are given up, and offsets that are consumed in vain are so for good. *)
(***************************************************************************)
LEMMA RowsStep ==
    ASSUME IInv, NEW r \in Runs, NEW s \in Seq(Nat), file' = file \o s, UNCHANGED topic,
           s = <<>> \/ (Range(s) \subseteq RowsOf(r) /\ run'[r].rows = <<>>),
           InjectiveBut(s, uncommitted),
           \A q \in Runs : \/ run'[q].rows = run[q].rows
                           \/ /\ run'[q].rows = <<>>
                              /\ RowsOf(q) \subseteq Range(s) \cup dropped' \cup torn',
           \A q \in Runs : run'[q].pc = "off" => run'[q].rows = <<>>,
           dropped \subseteq dropped', torn \subseteq torn', uncommitted \subseteq uncommitted',
           IsFiniteSet(torn'), Cardinality(torn') + (IF open' THEN 1 ELSE 0) <= faults',
           Highest' \in 0..Highest, \A o \in (Highest' + 1)..Highest : o \in uncommitted',
           faults' = 0 => dropped' = {} /\ uncommitted' = {} /\ torn' = {} /\ ~open'
    PROVE  OnceInv' /\ FileInv'
<1>1. Shape /\ OnceInv /\ FileInv
  BY DEF IInv
<1>2. file' \in Seq(Nat) /\ Stored' = Stored \cup Range(s)
  BY RowsType, RangeConcat DEF Stored
<1>3. \A q \in Runs : run'[q].rows = <<>> \/ run'[q].rows = run[q].rows
  OBVIOUS
<1>4. /\ \A q \in Runs : RowsOf(q)' \subseteq RowsOf(q)
      /\ \A q \in Runs : run'[q].rows = <<>> => RowsOf(q)' = {}
  BY <1>3, RangeEmpty DEF RowsOf
<1>5. /\ \A o : o \in InFlight' <=> \E q \in Runs : o \in RowsOf(q)'
      /\ \A o \in InFlight' : o \in InFlight
  <2>1. \A o : o \in InFlight' <=> \E q \in Runs : o \in RowsOf(q)'
    BY DEF InFlight, RowsOf
  <2> QED BY <1>4, <2>1, InFlightRows
<1>6. /\ Range(s) \subseteq InFlight
      /\ Range(s) # {} => Range(s) \subseteq RowsOf(r) /\ RowsOf(r)' = {}
  BY <1>4, InFlightRows, RangeEmpty
<1>7. \A o \in Stored' \cup InFlight' : o \in Stored \cup InFlight
  BY <1>2, <1>5, <1>6
<1>8. OnceInv'
  <2>1. \A o \in Stored' \cup InFlight' : o \in uncommitted' \/ o <= Highest'
    <3> SUFFICES ASSUME NEW o \in Stored' \cup InFlight', o \notin uncommitted'
                 PROVE  o <= Highest'
      OBVIOUS
    <3>1. o \in Nat /\ o <= Highest /\ Highest \in Nat
      BY <1>1, <1>7, RowsType, HighestBounds DEF OnceInv
    <3>2. \A i \in Nat : i <= Highest => i \in uncommitted' \/ i <= Highest'
      BY <3>1, NotAbove, Zenon
    <3> QED BY <3>1, <3>2, Zenon
  <2>2. InjectiveBut(file', uncommitted')
    <3>1. Range(file) \cap Range(s) \subseteq uncommitted
      BY <1>1, <1>6 DEF OnceInv, Stored
    <3>2. InjectiveBut(file', uncommitted)
      BY <1>1, <3>1, RowsType, RangeConcat DEF OnceInv
    <3> QED BY <3>2 DEF InjectiveBut
  <2>3. ASSUME NEW q \in Runs PROVE InjectiveBut(run'[q].rows, uncommitted')
    BY <1>1, <1>3, RangeEmpty DEF OnceInv, InjectiveBut
  <2>4. \A p, q \in Runs : p # q => RowsOf(p)' \cap RowsOf(q)' \subseteq uncommitted'
    BY <1>1, <1>4 DEF OnceInv
  <2>5. Stored' \cap InFlight' \subseteq uncommitted'
    <3> SUFFICES ASSUME NEW o \in Range(s), o \in InFlight' PROVE o \in uncommitted
      BY <1>1, <1>2, <1>5 DEF OnceInv
    <3>1. PICK q \in Runs : o \in RowsOf(q)'
      BY <1>5
    <3>2. q # r /\ o \in RowsOf(q) /\ o \in RowsOf(r)
      BY <1>4, <1>6, <3>1
    <3> QED BY <1>1, <3>2 DEF OnceInv
  <2> QED BY <2>1, <2>2, <2>3, <2>4, <2>5 DEF OnceInv, InjectiveBut
<1>9. FileInv'
  <2>1. \A o \in Stored' \cup InFlight' : o \in 1..Len(topic') /\ topic'[o].event \in Objects
    BY <1>1, <1>7 DEF FileInv
  <2>2. ASSUME NEW o \in Wanted(Highest)'
        PROVE  o \in Stored' \cup InFlight' \cup dropped' \cup torn'
    <3>1. o \in 1..Highest' /\ topic[o].event \in Objects
      BY <2>2 DEF Wanted
    <3>2. o \in Wanted(Highest)
      BY <3>1, HighestBounds DEF Wanted
    <3>3. o \in Stored \cup InFlight \cup dropped \cup torn
      BY <1>1, <3>2 DEF FileInv, LostOnlyInFlight
    <3>4. CASE o \in InFlight
      <4>1. PICK q \in Runs : o \in RowsOf(q)
        BY <3>4, InFlightRows
      <4>2. CASE run'[q].rows = run[q].rows
        BY <1>5, <4>1, <4>2 DEF RowsOf
      <4>3. CASE RowsOf(q) \subseteq Range(s) \cup dropped' \cup torn'
        BY <1>2, <4>1, <4>3
      <4> QED BY <4>2, <4>3
    <3> QED BY <1>2, <3>3, <3>4
  <2>3. LostOnlyInFlight'
    BY <2>2 DEF LostOnlyInFlight
  <2> QED BY <2>1, <2>3 DEF FileInv
<1> QED BY <1>8, <1>9

\* Steps that move no row.
LEMMA SameContents ==
    ASSUME IInv, NEW r \in Runs, UNCHANGED <<topic, dest, dropped>>,
           uncommitted \subseteq uncommitted', faults' >= faults, faults' \in Nat,
           faults' = 0 => uncommitted' = uncommitted,
           \A q \in Runs : run'[q].rows = run[q].rows /\ (run'[q].pc = "off" => run[q].pc = "off"),
           Highest' \in 0..Highest, \A o \in (Highest' + 1)..Highest : o \in uncommitted'
    PROVE  OnceInv' /\ FileInv'
<1>1. Shape /\ FileInv
  BY DEF IInv
<1>2. PICK s \in Seq(Nat) : s = <<>>
  BY NothingToWrite
<1>3. file' = file \o s /\ InjectiveBut(s, uncommitted)
  BY <1>1, <1>2, RangeEmpty DEF Shape, dest
<1>4. /\ IsFiniteSet(torn') /\ Cardinality(torn') + (IF open' THEN 1 ELSE 0) <= faults'
      /\ faults' = 0 => dropped' = {} /\ uncommitted' = {} /\ torn' = {} /\ ~open'
  <2>1. IsFiniteSet(torn) /\ Cardinality(torn) + (IF open THEN 1 ELSE 0) <= faults /\ faults \in Nat
    BY <1>1 DEF Shape, FileInv, LostOnlyInFlight
  <2>2. torn' = torn /\ open' = open /\ Cardinality(torn) \in Nat
    BY <2>1, FS_CardinalityType DEF dest
  <2>3. faults' = 0 => faults = 0
    BY <2>1
  <2> QED BY <1>1, <2>1, <2>2, <2>3 DEF FileInv
<1>5. \A q \in Runs : run'[q].pc = "off" => run'[q].rows = <<>>
  BY <1>1 DEF FileInv
<1>6. torn \subseteq torn' /\ dropped \subseteq dropped' /\ UNCHANGED topic
  BY DEF dest
<1> QED BY <1>2, <1>3, <1>4, <1>5, <1>6, RowsStep

LEMMA NoRunType == NoRun \in RunRecord
BY LiveFlowAssumption DEF NoRun, RunRecord

LEMMA Run_Start ==
    ASSUME IInv, NEW r \in Runs, Start(r)
    PROVE  IInv'
<1>1. Shape /\ GroupInv /\ FileInv
  BY DEF IInv
<1>2. UNCHANGED <<post, topic, committed, owner, dest, scenario, dropped, uncommitted, faults>>
  BY DEF Start, counts
<1>3. /\ run' = [run EXCEPT ![r] = [NoRun EXCEPT !.pc = "recv", !.joins = TRUE]]
      /\ run[r].pc = "off" /\ run[r].rows = <<>> /\ r # owner
  BY <1>1 DEF Start, FileInv, GroupInv
<1>4. /\ run'[r].pc = "recv" /\ run'[r].pos = 0 /\ run'[r].rows = <<>> /\ ~run'[r].holds
      /\ run'[r] \in RunRecord
      /\ \A q \in Runs : q # r => run'[q] = run[q]
  <2>1. [NoRun EXCEPT !.pc = "recv", !.joins = TRUE] \in RunRecord
    BY NoRunType DEF RunRecord
  <2>2. /\ [NoRun EXCEPT !.pc = "recv", !.joins = TRUE].pc = "recv"
        /\ [NoRun EXCEPT !.pc = "recv", !.joins = TRUE].pos = 0
        /\ [NoRun EXCEPT !.pc = "recv", !.joins = TRUE].rows = <<>>
        /\ ~[NoRun EXCEPT !.pc = "recv", !.joins = TRUE].holds
    BY DEF NoRun
  <2> QED BY <1>1, <1>3, <2>1, <2>2 DEF Shape
<1>5. Shape'
  BY <1>1, <1>2, <1>3, <1>4 DEF Shape, dest
<1>6. GroupInv'
  BY <1>1, <1>2, <1>3, <1>4 DEF GroupInv, Fenced, Shape
<1>7. OnceInv' /\ FileInv'
  <2>1. \A q \in Runs : run'[q].rows = run[q].rows /\ (run'[q].pc = "off" => run[q].pc = "off")
    BY <1>3, <1>4
  <2>2. Highest' = Highest
    BY <1>1, <1>2, <1>3, <1>4 DEF Highest, Shape
  <2>3. faults' >= faults /\ faults' \in Nat /\ Highest' \in 0..Highest
        /\ \A o \in (Highest' + 1)..Highest : o \in uncommitted'
    BY <1>1, <1>2, <2>2, HighestBounds DEF Shape
  <2> QED BY <1>2, <2>1, <2>3, SameContents
<1> QED BY <1>2, <1>5, <1>6, <1>7, PostKept DEF IInv

LEMMA Run_Assign ==
    ASSUME IInv, NEW r \in Runs, Assign(r)
    PROVE  IInv'
<1>1. Shape /\ GroupInv
  BY DEF IInv
<1>2. UNCHANGED <<post, topic, dest, scenario, dropped>>
  BY DEF Assign
<1>3. /\ owner' = r /\ run[r].pc # "off"
      /\ run' = [q \in Runs |-> [run[q] EXCEPT !.joins = FALSE,
                                             !.holds = q = r \/ Fenced(q),
                                             !.pos = IF q = r THEN committed' ELSE @]]
  BY DEF Assign
<1>4. /\ Highest \in 0..Len(topic) /\ Len(topic) \in Nat /\ committed \in 0..Highest
      /\ \A q \in Runs : run[q].pos \in 0..Len(topic)
  BY HighestBounds
<1>5. /\ committed' \in {committed, Highest} /\ uncommitted \subseteq uncommitted'
      /\ faults' \in Nat /\ faults' >= faults /\ faults \in Nat
      /\ faults' = 0 => uncommitted' = uncommitted /\ faults = 0
      /\ \A o \in (committed' + 1)..Highest : o \in uncommitted'
  <2>0. faults \in Nat /\ owner \in Runs \cup {None}
    BY <1>1 DEF Shape
  <2>1. CASE owner = None /\ UNCHANGED <<committed, uncommitted, faults>>
    BY <1>4, <2>0, <2>1, HighestBounds
  <2>2. CASE owner # None /\ committed' = run[owner].pos /\ UNCHANGED <<uncommitted, faults>>
    <3>1. committed' = Highest
      BY <2>0, <2>2, HighestBounds
    <3> QED BY <1>4, <2>0, <2>2, <3>1
  <2>3. CASE /\ owner # None /\ faults < World.maxFaults /\ faults' = faults + 1
             /\ uncommitted' = uncommitted \cup Pending(owner) /\ UNCHANGED committed
    <3>1. Pending(owner) = (committed + 1)..Highest
      BY <2>0, <2>3, HighestBounds DEF Pending
    <3> QED BY <2>0, <2>3, <3>1
  <2> QED BY <2>1, <2>2, <2>3 DEF Assign
<1>6. committed' \in 0..Highest /\ committed' \in Nat
  <2>1. committed' \in 0..Highest
    BY <1>4, <1>5
  <2> QED BY <1>4, <2>1
<1>7. \A q \in Runs :
          /\ run'[q].pos = IF q = r THEN committed' ELSE run[q].pos
          /\ run'[q].holds = (q = r \/ Fenced(q))
          /\ run'[q].pc = run[q].pc /\ run'[q].rows = run[q].rows
          /\ run'[q] \in RunRecord
  <2> SUFFICES ASSUME NEW q \in Runs
               PROVE  /\ run'[q].pos = IF q = r THEN committed' ELSE run[q].pos
                      /\ run'[q].holds = (q = r \/ Fenced(q))
                      /\ run'[q].pc = run[q].pc /\ run'[q].rows = run[q].rows
                      /\ run'[q] \in RunRecord
    OBVIOUS
  <2>1. run[q] \in RunRecord
    BY <1>1 DEF Shape
  <2>2. PICK pos \in Nat : pos = IF q = r THEN committed' ELSE run[q].pos
    <3>1. committed' \in Nat /\ run[q].pos \in Nat
      BY <1>4, <1>6
    <3> QED BY <3>1
  <2>3. PICK holds \in BOOLEAN : holds = (q = r \/ Fenced(q))
    OBVIOUS
  <2>4. run'[q] = [run[q] EXCEPT !.joins = FALSE, !.holds = holds, !.pos = pos]
    BY <1>3, <2>2, <2>3
  <2> QED BY <2>1, <2>2, <2>3, <2>4 DEF RunRecord
<1>8. Shape'
  <2>1. run' = [q \in Runs |-> run'[q]]
    BY <1>3
  <2>2. run' \in [Runs -> RunRecord]
    BY <1>7, <2>1
  <2>3. committed' \in Nat /\ owner' \in Runs \cup {None}
    BY <1>3, <1>6, Zenon
  <2> QED BY <1>1, <1>2, <1>5, <2>2, <2>3 DEF Shape, dest
<1>9. GroupInv'
  <2>1. committed' <= Len(topic') /\ \A q \in Runs : run'[q].pos <= Len(topic')
    BY <1>2, <1>4, <1>6, <1>7
  <2>0. owner' = r /\ run[r].pc # "off" /\ committed' \in Nat
    BY <1>3, <1>6, Zenon
  <2>2. \A q \in Runs : q = owner' => committed' <= run'[q].pos /\ run'[q].holds
    <3>1. committed' <= committed'
      BY <2>0
    <3> QED BY <1>7, <2>0, <3>1, Zenon
  <2>3. \A q \in Runs : run'[q].pc = "off" => ~run'[q].holds
    <3>1. \A q \in Runs : Fenced(q) => run[q].pc # "off"
      BY <1>1 DEF GroupInv, Fenced
    <3> QED BY <1>7, <2>0, <3>1
  <2>4. \A q \in Runs : faults' = 0 => ~Fenced(q)'
    <3>1. \A q \in Runs : faults' = 0 => ~Fenced(q)
      BY <1>1, <1>5 DEF GroupInv
    <3>2. \A q \in Runs : Fenced(q)' <=> run'[q].holds /\ q # r
      BY <2>0 DEF Fenced
    <3> QED BY <1>7, <3>1, <3>2
  <2> QED BY <2>1, <2>2, <2>3, <2>4 DEF GroupInv
<1>10. OnceInv' /\ FileInv'
  <2>1. Highest' = committed'
    BY <1>3, <1>7, LiveFlowAssumption DEF Highest
  <2> QED BY <1>2, <1>5, <1>6, <1>7, <2>1, SameContents
<1> QED BY <1>2, <1>8, <1>9, <1>10, PostKept DEF IInv

LEMMA Run_AutoCommit ==
    ASSUME IInv, NEW r \in Runs, AutoCommit(r)
    PROVE  IInv'
<1>1. /\ UNCHANGED <<post, topic, owner, run, dest, scenario, dropped, uncommitted, faults>>
      /\ owner = r /\ committed' = run[r].pos
  BY DEF AutoCommit, counts
<1>2. Shape /\ GroupInv
  BY DEF IInv
<1>3. Highest' = Highest /\ run[r].pos = Highest /\ Highest \in 0..Len(topic) /\ Len(topic) \in Nat
  BY <1>1, HighestBounds, LiveFlowAssumption DEF Highest
<1>4. Shape' /\ GroupInv'
  BY <1>1, <1>2, <1>3 DEF Shape, GroupInv, Fenced, dest
<1>5. OnceInv' /\ FileInv'
  <2>1. faults' >= faults /\ faults' \in Nat /\ Highest' \in 0..Highest
        /\ \A o \in (Highest' + 1)..Highest : o \in uncommitted'
    BY <1>1, <1>2, <1>3 DEF Shape
  <2> QED BY <1>1, <2>1, SameContents
<1> QED BY <1>1, <1>4, <1>5, PostKept DEF IInv

\* The group forgets the owner, which had not committed all.
LEMMA Run_Fence ==
    ASSUME IInv, NEW r \in Runs, Fence(r)
    PROVE  IInv'
<1>1. /\ UNCHANGED <<post, topic, committed, run, dest, scenario, dropped>>
      /\ owner = r /\ owner' = None /\ faults' = faults + 1
      /\ uncommitted' = uncommitted \cup Pending(r)
  BY DEF Fence
<1>2. Shape /\ GroupInv /\ faults \in Nat
  BY DEF IInv, Shape
<1>3. Highest' = committed /\ Highest = run[r].pos /\ committed \in 0..Highest /\ Highest \in Nat
  BY <1>1, HighestBounds, LiveFlowAssumption DEF Highest
<1>4. Shape' /\ GroupInv'
  BY <1>1, <1>2, LiveFlowAssumption DEF Shape, GroupInv, Fenced, dest
<1>5. OnceInv' /\ FileInv'
  <2>1. faults' >= faults /\ faults' \in Nat /\ faults' # 0 /\ Highest' \in 0..Highest
        /\ \A o \in (Highest' + 1)..Highest : o \in uncommitted'
    BY <1>1, <1>2, <1>3 DEF Pending
  <2> QED BY <1>1, <2>1, SameContents
<1> QED BY <1>1, <1>4, <1>5, PostKept DEF IInv

LEMMA Run_Rejoin ==
    ASSUME IInv, NEW r \in Runs, Rejoin(r)
    PROVE  IInv'
<1>1. /\ UNCHANGED <<post, topic, committed, owner, dest, scenario, dropped, uncommitted, faults>>
      /\ owner # r /\ run' = [run EXCEPT ![r].holds = FALSE, ![r].joins = TRUE]
  BY DEF Rejoin, Fenced, counts
<1>2. Shape /\ GroupInv
  BY DEF IInv
<1>3. /\ \A q \in Runs : /\ run'[q].pos = run[q].pos /\ run'[q].rows = run[q].rows
                         /\ run'[q].pc = run[q].pc
                         /\ run'[q].holds => run[q].holds
                         /\ q # r => run'[q].holds = run[q].holds
      /\ run' \in [Runs -> RunRecord]
  <2>1. run \in [Runs -> RunRecord]
    BY <1>2 DEF Shape
  <2>2. \A q \in Runs : q # r => run'[q] = run[q]
    BY <1>1, <2>1
  <2>3. /\ run'[r].pos = run[r].pos /\ run'[r].rows = run[r].rows /\ run'[r].pc = run[r].pc
        /\ ~run'[r].holds /\ run' \in [Runs -> RunRecord]
    BY <1>1, <2>1, ZenonT(30) DEF RunRecord
  <2> QED BY <2>2, <2>3
<1>4. Shape'
  BY <1>1, <1>2, <1>3 DEF Shape, dest
<1>5. GroupInv'
  BY <1>1, <1>2, <1>3 DEF GroupInv, Fenced
<1>6. OnceInv' /\ FileInv'
  <2>1. Highest' = Highest
    BY <1>1, <1>2, <1>3 DEF Highest, Shape
  <2>2. faults' >= faults /\ faults' \in Nat /\ Highest' \in 0..Highest
        /\ \A o \in (Highest' + 1)..Highest : o \in uncommitted'
    BY <1>1, <1>2, <2>1, HighestBounds DEF Shape
  <2> QED BY <1>1, <1>3, <2>2, SameContents
<1> QED BY <1>1, <1>4, <1>5, <1>6, PostKept DEF IInv

LEMMA Run_PollEnds ==
    ASSUME IInv, NEW r \in Runs, PollEnds(r)
    PROVE  IInv'
<1>1. Shape /\ GroupInv
  BY DEF IInv
<1>2. UNCHANGED <<post, topic, committed, owner, dest, scenario, dropped, uncommitted, faults>>
  BY DEF PollEnds, counts
<1>3. /\ \A q \in Runs : /\ run'[q].pos = run[q].pos /\ run'[q].rows = run[q].rows
                         /\ run'[q].holds = run[q].holds
                         /\ run'[q].pc = "off" <=> run[q].pc = "off"
      /\ run' \in [Runs -> RunRecord]
  <2>1. run \in [Runs -> RunRecord] /\ 0 \in 0..MaxPoll
    BY <1>1, LiveFlowAssumption DEF Shape
  <2>2. run' = [run EXCEPT ![r].n = 0,
                           ![r].pc = IF run[r].rows = <<>> THEN "recv" ELSE "append"]
    BY DEF PollEnds
  <2>3. \A q \in Runs : q # r => run'[q] = run[q]
    BY <2>1, <2>2
  <2>4. run[r].pc = "recv"
    BY DEF PollEnds
  <2>5. PICK pc \in {"recv", "append"} : run'[r] = [run[r] EXCEPT !.n = 0, !.pc = pc]
    BY <2>1, <2>2
  <2>6. /\ run'[r].pos = run[r].pos /\ run'[r].rows = run[r].rows
        /\ run'[r].holds = run[r].holds
        /\ run'[r].pc # "off" /\ run'[r] \in RunRecord
    BY <2>1, <2>5 DEF RunRecord
  <2>7. run' \in [Runs -> RunRecord]
    <3>1. DOMAIN run' = Runs /\ run' = [q \in Runs |-> run'[q]]
      BY <2>1, <2>2
    <3> QED BY <2>1, <2>3, <2>6, <3>1
  <2> QED BY <2>3, <2>4, <2>6, <2>7
<1>4. Shape' /\ GroupInv'
  BY <1>1, <1>2, <1>3 DEF Shape, GroupInv, Fenced, dest
<1>5. OnceInv' /\ FileInv'
  <2>1. Highest' = Highest
    BY <1>1, <1>2, <1>3 DEF Highest, Shape
  <2>2. faults' >= faults /\ faults' \in Nat /\ Highest' \in 0..Highest
        /\ \A o \in (Highest' + 1)..Highest : o \in uncommitted'
    BY <1>1, <1>2, <2>1, HighestBounds DEF Shape
  <2> QED BY <1>2, <1>3, <2>2, SameContents
<1> QED BY <1>2, <1>4, <1>5, PostKept DEF IInv

(***************************************************************************)
(* A message is handed over.  The owner gets one that nobody has got, or   *)
(* one that was consumed in vain; from a consumer that has lost the        *)
(* partition, it is consumed in vain.                                      *)
(***************************************************************************)
LEMMA Run_Recv ==
    ASSUME IInv, NEW r \in Runs, Recv(r)
    PROVE  IInv'
<1>1. Shape /\ GroupInv /\ OnceInv /\ FileInv
  BY DEF IInv
<1>2. UNCHANGED <<post, topic, committed, owner, dest, scenario, dropped, faults>>
  BY DEF Recv
<1>3. /\ run[r].pc = "recv" /\ run[r].n < MaxPoll /\ run[r].pos < Len(topic) /\ run[r].holds
      /\ run' = [run EXCEPT ![r] = Received(run[r], topic[run[r].pos + 1].event)]
      /\ uncommitted' = IF owner = r THEN uncommitted ELSE uncommitted \cup {run[r].pos + 1}
  BY DEF Recv
<1>4. /\ Highest \in 0..Len(topic) /\ Len(topic) \in Nat
      /\ \A q \in Runs : run[q].pos \in 0..Len(topic)
      /\ owner = r => Highest = run[r].pos
  BY HighestBounds
<1> DEFINE new == run[r].pos + 1
           object == topic[new].event \in Objects
<1>5. run[r] \in RunRecord /\ run \in [Runs -> RunRecord]
  BY <1>1 DEF Shape
<1>6. /\ run'[r].pc = "recv" /\ run'[r].pos = new /\ run'[r].holds
      /\ run'[r].rows = IF object THEN Append(run[r].rows, new) ELSE run[r].rows
      /\ run'[r] \in RunRecord
      /\ \A q \in Runs : q # r => run'[q] = run[q]
  <2>1. run'[r] = Received(run[r], topic[new].event)
    BY <1>3, <1>5
  <2>2. /\ run[r].n + 1 \in 0..MaxPoll /\ new \in Nat /\ run[r].rows \in Seq(Nat)
        /\ Append(run[r].rows, new) \in Seq(Nat)
    BY <1>3, <1>5, LiveFlowAssumption DEF RunRecord
  <2>3. CASE object
    BY <1>3, <1>5, <2>1, <2>2, <2>3 DEF Received, RunRecord
  <2>4. CASE ~object
    BY <1>3, <1>5, <2>1, <2>2, <2>4 DEF Received, RunRecord
  <2>5. \A q \in Runs : q # r => run'[q] = run[q]
    BY <1>3, <1>5
  <2> QED BY <2>3, <2>4, <2>5
<1>7. /\ new \in 1..Len(topic) /\ (owner = r => new = Highest + 1)
      /\ Highest' = IF owner = r THEN new ELSE Highest
      /\ uncommitted' = IF owner = r THEN uncommitted ELSE uncommitted \cup {new}
  BY <1>1, <1>2, <1>3, <1>4, <1>6, LiveFlowAssumption DEF Highest, Shape
<1> HIDE DEF new, object
<1>8. Shape'
  BY <1>1, <1>2, <1>3, <1>5, <1>6 DEF Shape, dest
<1>9. GroupInv'
  <2>1. committed \in Nat /\ (owner = r => committed <= run[r].pos /\ run[r].pos <= new)
    BY <1>1, <1>4 DEF Shape, GroupInv, new
  <2>2. /\ run'[r].pc # "off" /\ run'[r].holds /\ run'[r].pos <= Len(topic')
        /\ owner = r => committed' <= run'[r].pos
    <3>1. run'[r].pos = new /\ run'[r].pc = "recv" /\ run'[r].holds
      BY <1>6
    <3>2. new <= Len(topic) /\ (owner = r => committed <= new)
      BY <1>4, <1>7, <2>1
    <3> QED BY <1>2, <3>1, <3>2
  <2>3. faults = 0 => owner = r
    BY <1>1, <1>3 DEF GroupInv, Fenced
  <2> QED BY <1>1, <1>2, <1>6, <2>2, <2>3, SMTT(30) DEF GroupInv, Fenced
<1>10. RowsOf(r)' = IF object THEN RowsOf(r) \cup {new} ELSE RowsOf(r)
  <2>1. run[r].rows \in Seq(Nat) /\ new \in Nat
    BY <1>4, <1>5, <1>7 DEF RunRecord
  <2>2. Range(Append(run[r].rows, new)) = Range(run[r].rows) \cup {new}
    BY <2>1, RangeAppend
  <2> QED BY <1>6, <2>2 DEF RowsOf
<1>11. \A q \in Runs : q # r => RowsOf(q)' = RowsOf(q) /\ run'[q].rows = run[q].rows
  BY <1>6 DEF RowsOf
<1>12. Stored' = Stored /\ \A o : o \in InFlight' <=> o \in InFlight \/ (object /\ o = new)
  <2>1. \A o : o \in InFlight' <=> \E q \in Runs : o \in RowsOf(q)'
    BY DEF InFlight, RowsOf
  <2> QED BY <1>2, <1>10, <1>11, <2>1, InFlightRows DEF Stored, dest
<1>13. new \in Stored \cup InFlight => new \in uncommitted'
  <2>1. CASE owner = r
    BY <1>1, <1>4, <1>7, <2>1 DEF OnceInv
  <2>2. CASE owner # r
    BY <1>7, <2>2
  <2> QED BY <2>1, <2>2
<1>14. uncommitted \subseteq uncommitted' /\ Highest' \in Nat /\ Highest <= Highest' /\ Highest \in Nat
       /\ (new \in uncommitted' \/ new <= Highest') /\ new \in Nat
  BY <1>4, <1>7
<1>15. OnceInv'
  <2>1. \A o \in Stored' \cup InFlight' : o \in uncommitted' \/ o <= Highest'
    <3> SUFFICES ASSUME NEW o \in Stored \cup InFlight PROVE o \in uncommitted' \/ o <= Highest'
      BY <1>12, <1>14
    <3>1. o \in Nat /\ (o \in uncommitted \/ o <= Highest)
      BY <1>1, RowsType DEF OnceInv
    <3> QED BY <1>14, <3>1
  <2>2. InjectiveBut(file', uncommitted')
    BY <1>1, <1>2, <1>14 DEF OnceInv, InjectiveBut, dest
  <2>3. \A q \in Runs : InjectiveBut(run[q].rows, uncommitted')
    BY <1>1, <1>14 DEF OnceInv, InjectiveBut
  <2>4. InjectiveBut(run'[r].rows, uncommitted')
    <3>1. run[r].rows \in Seq(Nat) /\ new \in Nat
      BY <1>14, RowsType
    <3>2. new \in Range(run[r].rows) => new \in uncommitted'
      BY <1>13, InFlightRows DEF RowsOf
    <3> QED BY <1>6, <2>3, <3>1, <3>2, RangeAppend
  <2>5. \A p, q \in Runs : p # q => RowsOf(p)' \cap RowsOf(q)' \subseteq uncommitted'
    <3> SUFFICES ASSUME NEW p \in Runs, NEW q \in Runs, p # q,
                        NEW o \in RowsOf(p)', o \in RowsOf(q)'
                 PROVE  o \in uncommitted'
      OBVIOUS
    <3>1. CASE o \in RowsOf(p) /\ o \in RowsOf(q)
      BY <1>1, <1>14, <3>1 DEF OnceInv
    <3>2. CASE o = new /\ (o \in RowsOf(p) \/ o \in RowsOf(q))
      BY <1>13, <3>2, InFlightRows
    <3> QED BY <1>10, <1>11, <3>1, <3>2
  <2>6. Stored' \cap InFlight' \subseteq uncommitted'
    BY <1>1, <1>12, <1>13, <1>14 DEF OnceInv
  <2> QED BY <1>11, <2>1, <2>2, <2>3, <2>4, <2>5, <2>6 DEF OnceInv, InjectiveBut
<1>16. FileInv'
  <2>1. \A o \in Stored' \cup InFlight' : o \in 1..Len(topic') /\ topic'[o].event \in Objects
    BY <1>1, <1>2, <1>7, <1>12 DEF FileInv, object
  <2>2. ASSUME NEW o \in Wanted(Highest)'
        PROVE  o \in Stored' \cup InFlight' \cup dropped' \cup torn'
    <3>1. o \in 1..Highest' /\ topic[o].event \in Objects
      BY <1>2, <2>2 DEF Wanted
    <3>2. CASE o = new
      BY <1>12, <3>1, <3>2 DEF object
    <3>3. CASE o # new
      <4>1. o \in Wanted(Highest)
        BY <1>4, <1>7, <3>1, <3>3 DEF Wanted
      <4> QED BY <1>1, <1>2, <1>12, <4>1 DEF FileInv, LostOnlyInFlight, dest
    <3> QED BY <3>2, <3>3
  <2>3. LostOnlyInFlight'
    BY <1>1, <1>2, <2>2 DEF FileInv, LostOnlyInFlight, dest
  <2>4. \A q \in Runs : run'[q].pc = "off" => run'[q].rows = <<>>
    BY <1>1, <1>6 DEF FileInv
  <2>5. faults' = 0 => dropped' = {} /\ uncommitted' = {} /\ torn' = {} /\ ~open'
    BY <1>1, <1>2, <1>3 DEF FileInv, GroupInv, Fenced, dest
  <2> QED BY <1>1, <1>2, <2>1, <2>3, <2>4, <2>5 DEF FileInv, dest
<1> QED BY <1>2, <1>8, <1>9, <1>15, <1>16, PostKept DEF IInv

(***************************************************************************)
(* What a write brings into the file, what it tears, and how much of the   *)
(* batch that is: a fragment that is left behind costs a fault.            *)
(***************************************************************************)
LEMMA WrittenRows ==
    ASSUME IInv, NEW r \in Runs, NEW k \in 0..Len(run[r].rows), NEW part \in BOOLEAN,
           Written(r, k, part)
    PROVE  \E s \in Seq(Nat) :
             /\ file' = file \o s /\ Range(s) \subseteq RowsOf(r) /\ InjectiveBut(s, uncommitted)
             /\ torn \subseteq torn' /\ IsFiniteSet(torn') /\ open' \in BOOLEAN
             /\ Cardinality(torn') + (IF open' THEN 1 ELSE 0)
                  <= faults + (IF part THEN 1 ELSE 0)
             /\ k = Len(run[r].rows) => RowsOf(r) \subseteq Range(s) \cup torn'
             /\ ~open => torn' = torn /\ open' = part
<1>1. /\ run[r].rows \in Seq(Nat) /\ open \in BOOLEAN /\ faults \in Nat
      /\ InjectiveBut(run[r].rows, uncommitted) /\ IsFiniteSet(torn)
      /\ Cardinality(torn) + (IF open THEN 1 ELSE 0) <= faults
  BY RowsType DEF IInv, Shape, OnceInv, FileInv, LostOnlyInFlight
<1>2. Cardinality(torn) \in Nat
  BY <1>1, FS_CardinalityType
<1>3. CASE open /\ k > 0
  <2>1. PICK s, x : s = SubSeq(run[r].rows, 2, k) /\ x = run[r].rows[1]
    OBVIOUS
  <2>2. file' = file \o s /\ torn' = torn \cup {x} /\ open' = part
    BY <1>3, <2>1 DEF Written
  <2>3. /\ s \in Seq(Nat) /\ Range(s) \subseteq RowsOf(r) /\ InjectiveBut(s, uncommitted)
        /\ k = Len(run[r].rows) => RowsOf(r) \subseteq Range(s) \cup {x}
    BY <1>1, <1>3, <2>1, RangePiece DEF RowsOf
  <2>4. IsFiniteSet(torn') /\ Cardinality(torn') <= Cardinality(torn) + 1 /\ Cardinality(torn') \in Nat
    <3>1. /\ IsFiniteSet(torn \cup {x})
          /\ \/ Cardinality(torn \cup {x}) = Cardinality(torn)
             \/ Cardinality(torn \cup {x}) = Cardinality(torn) + 1
      BY <1>1, FS_AddElement
    <3> QED BY <1>2, <2>2, <3>1
  <2>5. Cardinality(torn) + 1 <= faults
    BY <1>1, <1>3
  <2>6. /\ (IF open' THEN 1 ELSE 0) = (IF part THEN 1 ELSE 0)
        /\ (IF part THEN 1 ELSE 0) \in Nat
    BY <2>2
  <2>7. Cardinality(torn') + (IF open' THEN 1 ELSE 0) <= faults + (IF part THEN 1 ELSE 0)
    BY <1>1, <1>2, <2>4, <2>5, <2>6
  <2>8. k = Len(run[r].rows) => RowsOf(r) \subseteq Range(s) \cup torn'
    BY <2>2, <2>3
  <2> QED BY <1>3, <2>2, <2>3, <2>4, <2>7, <2>8
<1>4. CASE ~(open /\ k > 0)
  <2>1. PICK s : s = SubSeq(run[r].rows, 1, k)
    OBVIOUS
  <2>2. file' = file \o s /\ torn' = torn /\ open' = (part \/ (open /\ k = 0))
    BY <1>4, <2>1 DEF Written
  <2>3. /\ s \in Seq(Nat) /\ Range(s) \subseteq RowsOf(r) /\ InjectiveBut(s, uncommitted)
        /\ k = Len(run[r].rows) => RowsOf(r) \subseteq Range(s)
    <3>1. k \in 0..Len(run[r].rows) /\ 1 \in {1, 2} /\ (1 = 2 => k > 0)
      OBVIOUS
    <3> QED BY <1>1, <2>1, <3>1, RangePiece, SMTT(30) DEF RowsOf
  <2>4. open' \in BOOLEAN /\ (~open => open' = part) /\ (open' => open \/ part)
    BY <1>1, <2>2
  <2>5. Cardinality(torn') + (IF open' THEN 1 ELSE 0) <= faults + (IF part THEN 1 ELSE 0)
    <3>1. /\ (IF open' THEN 1 ELSE 0) <= (IF open THEN 1 ELSE 0) + (IF part THEN 1 ELSE 0)
          /\ (IF open' THEN 1 ELSE 0) \in Nat /\ (IF open THEN 1 ELSE 0) \in Nat
          /\ (IF part THEN 1 ELSE 0) \in Nat
      BY <2>4
    <3> QED BY <1>1, <1>2, <2>2, <3>1
  <2> QED BY <1>1, <2>2, <2>3, <2>4, <2>5
<1> QED BY <1>3, <1>4

LEMMA Run_AppendBatch ==
    ASSUME IInv, NEW r \in Runs, AppendBatch(r)
    PROVE  IInv'
<1>1. Shape /\ GroupInv /\ FileInv
  BY DEF IInv
<1>2. UNCHANGED <<post, topic, committed, owner, scenario, dropped, uncommitted, faults>>
  BY DEF AppendBatch, counts
<1>3. /\ Written(r, Len(run[r].rows), FALSE) /\ run[r].pc = "append"
      /\ run' = [run EXCEPT ![r].rows = <<>>, ![r].pc = "recv"]
      /\ run \in [Runs -> RunRecord] /\ Len(run[r].rows) \in 0..Len(run[r].rows)
  <2>1. Len(run[r].rows) \in 0..Len(run[r].rows)
    BY RowsType
  <2> QED BY <1>1, <2>1 DEF AppendBatch, Shape
<1>4. PICK s \in Seq(Nat) :
        /\ file' = file \o s /\ Range(s) \subseteq RowsOf(r) /\ InjectiveBut(s, uncommitted)
        /\ torn \subseteq torn' /\ IsFiniteSet(torn') /\ open' \in BOOLEAN
        /\ Cardinality(torn') + (IF open' THEN 1 ELSE 0) <= faults + 0
        /\ RowsOf(r) \subseteq Range(s) \cup torn'
        /\ ~open => torn' = torn /\ open' = FALSE
  BY <1>3, WrittenRows
<1>5. /\ run'[r].rows = <<>> /\ run'[r].pc = "recv" /\ run'[r].pos = run[r].pos
      /\ run'[r].holds = run[r].holds /\ run' \in [Runs -> RunRecord]
  <2>1. <<>> \in Seq(Nat)
    OBVIOUS
  <2> QED BY <1>3, <2>1, ZenonT(30) DEF RunRecord
<1>6. \A q \in Runs : q # r => run'[q] = run[q]
  BY <1>3
<1>7. file' \in Seq(Nat)
  BY <1>4, RowsType, RangeConcat
<1>8. Shape'
  BY <1>1, <1>2, <1>4, <1>5, <1>7 DEF Shape
<1>9. GroupInv'
  BY <1>1, <1>2, <1>3, <1>5, <1>6 DEF GroupInv, Fenced
<1>10. OnceInv' /\ FileInv'
  <2>0. \A q \in Runs : run'[q].pos = run[q].pos
    BY <1>5, <1>6
  <2>1. Highest' = Highest /\ Highest \in Nat
    <3>1. Highest' = Highest
      BY <1>1, <1>2, <2>0 DEF Highest, Shape
    <3> QED BY <3>1, HighestBounds
  <2>2. Highest' \in 0..Highest /\ \A o \in (Highest' + 1)..Highest : o \in uncommitted'
    BY <2>1
  <2>3. faults' = 0 => dropped' = {} /\ uncommitted' = {} /\ torn' = {} /\ ~open'
    BY <1>1, <1>2, <1>4 DEF FileInv
  <2>4. \A q \in Runs : run'[q].pc = "off" => run'[q].rows = <<>>
    BY <1>1, <1>5, <1>6 DEF FileInv
  <2>5. /\ Cardinality(torn') + (IF open' THEN 1 ELSE 0) <= faults'
        /\ dropped \subseteq dropped' /\ uncommitted \subseteq uncommitted'
    BY <1>1, <1>2, <1>4 DEF Shape
  <2>6. \A q \in Runs : \/ run'[q].rows = run[q].rows
                        \/ /\ run'[q].rows = <<>>
                           /\ RowsOf(q) \subseteq Range(s) \cup dropped' \cup torn'
    BY <1>4, <1>5, <1>6
  <2> QED BY <1>2, <1>4, <1>5, <2>2, <2>3, <2>4, <2>5, <2>6, RowsStep
<1> QED BY <1>2, <1>8, <1>9, <1>10, PostKept DEF IInv

\* A consumer that is closed commits its position, or what it has consumed
\* since the last commit is consumed in vain.
LEMMA ClosedRun ==
    ASSUME IInv, NEW r \in Runs, Closed(r), UNCHANGED topic, faults' = faults + 1
    PROVE  /\ GroupInv' /\ run' \in [Runs -> RunRecord] /\ committed' \in Nat
           /\ owner' \in Runs \cup {None}
           /\ run'[r].rows = <<>> /\ \A q \in Runs : q # r => run'[q] = run[q]
           /\ dropped' = dropped \cup RowsOf(r) /\ uncommitted \subseteq uncommitted'
           /\ Highest' \in 0..Highest /\ \A o \in (Highest' + 1)..Highest : o \in uncommitted'
<1>1. Shape /\ GroupInv /\ faults \in Nat
  BY DEF IInv, Shape
<1>2. /\ run' = [run EXCEPT ![r] = NoRun]
      /\ owner' = IF owner = r THEN None ELSE owner
      /\ dropped' = dropped \cup RowsOf(r)
      /\ \/ owner # r /\ UNCHANGED <<committed, uncommitted>>
         \/ owner = r /\ committed' = run[r].pos /\ UNCHANGED uncommitted
         \/ owner = r /\ uncommitted' = uncommitted \cup Pending(r) /\ UNCHANGED committed
  BY DEF Closed, RowsOf
<1>3. /\ run'[r] = NoRun /\ \A q \in Runs : q # r => run'[q] = run[q]
      /\ run' \in [Runs -> RunRecord]
  BY <1>1, <1>2, NoRunType DEF Shape
<1>4. run'[r].rows = <<>> /\ run'[r].pos = 0 /\ run'[r].pc = "off" /\ ~run'[r].holds
  BY <1>3 DEF NoRun
<1>5. /\ Highest \in 0..Len(topic) /\ Len(topic) \in Nat /\ committed \in 0..Highest
      /\ owner = r => Highest = run[r].pos
      /\ owner \in Runs \cup {None}
  BY <1>1, HighestBounds DEF Shape
<1>6. owner = r => Highest' = committed'
  BY <1>2 DEF Highest
<1>7. owner # r => Highest' = Highest
  BY <1>1, <1>2, <1>3 DEF Highest, Shape
<1>8. /\ committed' \in 0..Highest /\ uncommitted \subseteq uncommitted'
      /\ Highest' \in 0..Highest /\ \A o \in (Highest' + 1)..Highest : o \in uncommitted'
  BY <1>2, <1>5, <1>6, <1>7 DEF Pending
<1>9. GroupInv'
  <2>1. committed' <= Len(topic') /\ \A q \in Runs : run'[q].pos <= Len(topic')
    BY <1>1, <1>3, <1>4, <1>5, <1>8 DEF GroupInv
  <2>2. \A q \in Runs : q = owner' => committed' <= run'[q].pos /\ run'[q].holds
    BY <1>1, <1>2, <1>3, LiveFlowAssumption DEF GroupInv
  <2>3. \A q \in Runs : run'[q].pc = "off" => ~run'[q].holds
    BY <1>1, <1>3, <1>4 DEF GroupInv
  <2>4. faults' # 0
    BY <1>1
  <2> QED BY <2>1, <2>2, <2>3, <2>4 DEF GroupInv
<1>10. committed' \in Nat /\ owner' \in Runs \cup {None} /\ dropped' = dropped \cup RowsOf(r)
  <2>1. committed' \in Nat
    BY <1>5, <1>8
  <2> QED BY <1>2, <1>5, <2>1
<1> QED BY <1>3, <1>4, <1>8, <1>9, <1>10

LEMMA Run_AppendFails ==
    ASSUME IInv, NEW r \in Runs, AppendFails(r)
    PROVE  IInv'
<1>1. Shape /\ FileInv /\ faults \in Nat
  BY DEF IInv, Shape
<1>2. UNCHANGED <<post, topic, scenario>> /\ Closed(r) /\ faults' = faults + 1
  BY DEF AppendFails
<1>3. PICK k \in 0..(Len(run[r].rows) - 1), part \in BOOLEAN : Written(r, k, part)
  BY DEF AppendFails, WrittenInPart
<1>4. k \in 0..Len(run[r].rows)
  BY <1>3, RowsType
<1>5. PICK s \in Seq(Nat) :
        /\ file' = file \o s /\ Range(s) \subseteq RowsOf(r) /\ InjectiveBut(s, uncommitted)
        /\ torn \subseteq torn' /\ IsFiniteSet(torn') /\ open' \in BOOLEAN
        /\ Cardinality(torn') + (IF open' THEN 1 ELSE 0) <= faults + (IF part THEN 1 ELSE 0)
  BY <1>3, <1>4, WrittenRows
<1>6. file' \in Seq(Nat)
  BY <1>5, RowsType, RangeConcat
<1>7. OnceInv' /\ FileInv'
  <2>1. Cardinality(torn') + (IF open' THEN 1 ELSE 0) <= faults' /\ faults' # 0
    <3>1. Cardinality(torn') \in Nat
      BY <1>5, FS_CardinalityType
    <3> QED BY <1>1, <1>2, <1>5, <3>1
  <2>2. \A q \in Runs : run'[q].pc = "off" => run'[q].rows = <<>>
    BY <1>1, <1>2, ClosedRun DEF FileInv
  <2>3. \A q \in Runs : \/ run'[q].rows = run[q].rows
                        \/ /\ run'[q].rows = <<>>
                           /\ RowsOf(q) \subseteq Range(s) \cup dropped' \cup torn'
    BY <1>2, ClosedRun
  <2>4. /\ run'[r].rows = <<>> /\ dropped \subseteq dropped' /\ uncommitted \subseteq uncommitted'
        /\ Highest' \in 0..Highest /\ \A o \in (Highest' + 1)..Highest : o \in uncommitted'
    BY <1>2, ClosedRun
  <2> QED BY <1>2, <1>5, <2>1, <2>2, <2>3, <2>4, RowsStep
<1>8. Shape'
  BY <1>1, <1>2, <1>5, <1>6, ClosedRun DEF Shape
<1> QED BY <1>2, <1>7, <1>8, ClosedRun, PostKept DEF IInv

LEMMA Run_Cancel ==
    ASSUME IInv, NEW r \in Runs, Cancel(r)
    PROVE  IInv'
<1>1. Shape /\ FileInv /\ faults \in Nat
  BY DEF IInv, Shape
<1>2. UNCHANGED <<post, topic, scenario, dest>> /\ Closed(r) /\ faults' = faults + 1
  BY DEF Cancel
<1>3. PICK s \in Seq(Nat) : s = <<>>
  BY NothingToWrite
<1>4. file' = file \o s /\ InjectiveBut(s, uncommitted)
  BY <1>1, <1>2, <1>3, RangeEmpty DEF Shape, dest
<1>5. OnceInv' /\ FileInv'
  <2>1. /\ IsFiniteSet(torn') /\ Cardinality(torn') + (IF open' THEN 1 ELSE 0) <= faults'
        /\ faults' # 0 /\ torn \subseteq torn'
    <3>1. /\ IsFiniteSet(torn) /\ Cardinality(torn) + (IF open THEN 1 ELSE 0) <= faults
          /\ Cardinality(torn) \in Nat
      BY <1>1, FS_CardinalityType DEF FileInv, LostOnlyInFlight
    <3> QED BY <1>1, <1>2, <3>1 DEF dest
  <2>2. \A q \in Runs : run'[q].pc = "off" => run'[q].rows = <<>>
    BY <1>1, <1>2, ClosedRun DEF FileInv
  <2>3. \A q \in Runs : \/ run'[q].rows = run[q].rows
                        \/ /\ run'[q].rows = <<>>
                           /\ RowsOf(q) \subseteq Range(s) \cup dropped' \cup torn'
    BY <1>2, ClosedRun
  <2>4. /\ dropped \subseteq dropped' /\ uncommitted \subseteq uncommitted'
        /\ Highest' \in 0..Highest /\ \A o \in (Highest' + 1)..Highest : o \in uncommitted'
    BY <1>2, ClosedRun
  <2> QED BY <1>2, <1>3, <1>4, <2>1, <2>2, <2>3, <2>4, RowsStep
<1>6. Shape'
  BY <1>1, <1>2, ClosedRun DEF Shape, dest
<1> QED BY <1>2, <1>5, <1>6, ClosedRun, PostKept DEF IInv

\* A crash commits nothing: the group goes back to the committed offset.
LEMMA Run_Crash ==
    ASSUME IInv, Crash
    PROVE  IInv'
<1>1. Shape /\ GroupInv /\ FileInv /\ faults \in Nat
  BY DEF IInv, Shape
<1>2. /\ UNCHANGED <<post, topic, scenario, committed>>
      /\ owner' = None /\ faults' = faults + 1 /\ dropped' = dropped \cup InFlight
      /\ uncommitted' = IF owner = None THEN uncommitted ELSE uncommitted \cup Pending(owner)
  BY DEF Crash, InFlight
<1>3. /\ \A r \in Runs : run'[r] = NoRun
      /\ run' \in [Runs -> RunRecord]
  BY NoRunType DEF Crash
<1>4. \A r \in Runs : /\ run'[r].pos = 0 /\ run'[r].pc = "off" /\ run'[r].rows = <<>>
                      /\ ~run'[r].holds
  BY <1>3 DEF NoRun
<1>5. PICK r \in Runs, s \in Seq(Nat) :
        /\ file' = file \o s /\ Range(s) \subseteq RowsOf(r) /\ InjectiveBut(s, uncommitted)
        /\ torn \subseteq torn' /\ IsFiniteSet(torn') /\ open' \in BOOLEAN
        /\ Cardinality(torn') + (IF open' THEN 1 ELSE 0) <= faults + 1
  <2>1. CASE UNCHANGED dest
    <3>1. PICK r \in Runs : run[r].pc # "off"
      BY DEF Crash
    <3>2. PICK s \in Seq(Nat) : s = <<>>
      BY NothingToWrite
    <3>3. /\ IsFiniteSet(torn) /\ Cardinality(torn) + (IF open THEN 1 ELSE 0) <= faults
          /\ Cardinality(torn) \in Nat /\ open \in BOOLEAN
      BY <1>1, FS_CardinalityType DEF FileInv, LostOnlyInFlight, Shape
    <3>4. file' = file \o s /\ Range(s) \subseteq RowsOf(r) /\ InjectiveBut(s, uncommitted)
      BY <1>1, <2>1, <3>2, RangeEmpty DEF dest, Shape
    <3> QED BY <1>1, <2>1, <3>3, <3>4 DEF dest
  <2>2. ASSUME NEW r \in Runs, WrittenInPart(r)
        PROVE  \E s \in Seq(Nat) :
                 /\ file' = file \o s /\ Range(s) \subseteq RowsOf(r)
                 /\ InjectiveBut(s, uncommitted)
                 /\ torn \subseteq torn' /\ IsFiniteSet(torn') /\ open' \in BOOLEAN
                 /\ Cardinality(torn') + (IF open' THEN 1 ELSE 0) <= faults + 1
    <3>1. PICK k \in 0..(Len(run[r].rows) - 1), part \in BOOLEAN : Written(r, k, part)
      BY <2>2 DEF WrittenInPart
    <3>2. k \in 0..Len(run[r].rows)
      BY <3>1, RowsType
    <3>3. PICK s \in Seq(Nat) :
            /\ file' = file \o s /\ Range(s) \subseteq RowsOf(r) /\ InjectiveBut(s, uncommitted)
            /\ torn \subseteq torn' /\ IsFiniteSet(torn') /\ open' \in BOOLEAN
            /\ Cardinality(torn') + (IF open' THEN 1 ELSE 0) <= faults + (IF part THEN 1 ELSE 0)
      BY <3>1, <3>2, WrittenRows
    <3>4. Cardinality(torn') \in Nat
      BY <3>3, FS_CardinalityType
    <3>5. (IF open' THEN 1 ELSE 0) \in Nat /\ (IF part THEN 1 ELSE 0) <= 1
          /\ (IF part THEN 1 ELSE 0) \in Nat
      OBVIOUS
    <3>6. Cardinality(torn') + (IF open' THEN 1 ELSE 0) <= faults + 1
      BY <1>1, <3>3, <3>4, <3>5
    <3> QED BY <3>3, <3>6
  <2> QED BY <2>1, <2>2 DEF Crash
<1>6. Shape'
  <2>1. file' \in Seq(Nat)
    BY <1>5, RowsType, RangeConcat
  <2> QED BY <1>1, <1>2, <1>3, <1>5, <2>1 DEF Shape
<1>7. GroupInv'
  BY <1>1, <1>2, <1>4, LiveFlowAssumption DEF GroupInv, Fenced, Shape
<1>8. OnceInv' /\ FileInv'
  <2>1. /\ Highest' = committed /\ Highest' \in 0..Highest
        /\ \A o \in (Highest' + 1)..Highest : o \in uncommitted'
    <3>1. Highest' = committed /\ committed \in 0..Highest /\ owner \in Runs \cup {None}
      BY <1>1, <1>2, HighestBounds DEF Highest, Shape
    <3>2. CASE owner = None
      BY <3>1, <3>2, HighestBounds
    <3>3. CASE owner # None
      <4>1. Pending(owner) = (committed + 1)..Highest
        BY <3>1, <3>3, HighestBounds DEF Pending
      <4> QED BY <1>2, <3>1, <3>3, <4>1
    <3> QED BY <3>2, <3>3
  <2>2. \A q \in Runs : run'[q].rows = <<>> /\ RowsOf(q) \subseteq dropped'
    BY <1>2, <1>4, InFlightRows
  <2>3. /\ Cardinality(torn') + (IF open' THEN 1 ELSE 0) <= faults' /\ faults' # 0
        /\ uncommitted \subseteq uncommitted' /\ dropped \subseteq dropped'
    BY <1>1, <1>2, <1>5
  <2> QED BY <1>2, <1>5, <2>1, <2>2, <2>3, RowsStep
<1> QED BY <1>2, <1>6, <1>7, <1>8, PostKept DEF IInv

-----------------------------------------------------------------------------
(* The invariant and what follows from it. *)

LEMMA InvInit == Init => IInv
<1> SUFFICES ASSUME Init PROVE IInv
  OBVIOUS
<1>1. NoPost \in PostRecord
  BY DEF NoPost, PostRecord
<1>2. Shape
  <2>1. post \in [Posts -> PostRecord] /\ run \in [Runs -> RunRecord]
    BY <1>1, NoRunType DEF Init
  <2>2. topic \in Seq(Message) /\ file \in Seq(Nat) /\ committed \in Nat /\ faults \in Nat
    BY DEF Init
  <2> QED BY <2>1, <2>2 DEF Init, Shape
<1>3. \A r \in Runs : run[r].pos = 0 /\ run[r].pc = "off" /\ run[r].rows = <<>>
  BY DEF Init, NoRun
<1>4. \A r \in Runs : RowsOf(r) = {} /\ ~run[r].holds
  BY <1>3, RangeEmpty DEF RowsOf, Init, NoRun
<1>5. GroupInv
  BY <1>3, <1>4, LiveFlowAssumption DEF Init, GroupInv, Fenced
<1>7. InFlight = {} /\ Stored = {} /\ Highest = 0
  BY <1>4, RangeEmpty DEF Init, InFlight, RowsOf, Stored, Highest
<1>6. OnceInv
  BY <1>3, <1>4, <1>7, RangeEmpty DEF Init, OnceInv
<1>8. FileInv
  <2>1. IsFiniteSet(torn) /\ Cardinality(torn) = 0 /\ ~open /\ faults = 0
    BY FS_EmptySet DEF Init
  <2>2. LostOnlyInFlight
    BY <1>7, <2>1 DEF LostOnlyInFlight, Wanted
  <2> QED BY <1>3, <1>7, <2>1, <2>2 DEF Init, FileInv
<1>9. PostInv
  <2>1. \A c \in Posts : post[c] = NoPost
    BY DEF Init
  <2>2. DOMAIN topic = {}
    BY DEF Init
  <2> QED BY <2>1, <2>2, FS_EmptySet DEF PostInv, NoPost
<1> QED BY <1>2, <1>5, <1>6, <1>8, <1>9 DEF IInv

LEMMA InvNext == IInv /\ [Next]_vars => IInv'
<1> SUFFICES ASSUME IInv, [Next]_vars PROVE IInv'
  OBVIOUS
<1>1. ASSUME NEW c \in Posts, Receive(c) \/ Send(c) \/ Answer(c)
      PROVE  IInv'
  BY <1>1, Post_Receive, Post_Send, Post_Answer
<1>2. ASSUME NEW r \in Runs, \/ Start(r) \/ Assign(r) \/ AutoCommit(r) \/ Step(r)
                              \/ Fence(r) \/ Rejoin(r)
      PROVE  IInv'
  BY <1>2, Run_Start, Run_Assign, Run_AutoCommit, Run_Fence, Run_Rejoin, Run_Recv,
     Run_PollEnds, Run_AppendBatch DEF Step
<1>3. ASSUME NEW r \in Runs, AppendFails(r) \/ Cancel(r)
      PROVE  IInv'
  BY <1>3, Run_AppendFails, Run_Cancel
<1>4. CASE Crash
  BY <1>4, Run_Crash
<1>5. CASE UNCHANGED vars
  <2>1. Shape' /\ GroupInv'
    BY <1>5 DEF vars, counts, dest, IInv, Shape, GroupInv, Fenced
  <2>2. OnceInv' /\ FileInv' /\ PostInv'
    <3>1. UNCHANGED <<post, topic, committed, owner, run, dest, dropped, uncommitted, faults>>
      BY <1>5 DEF vars, counts
    <3>2. topic' \in Seq(Message) /\ Len(topic) <= Len(topic')
      BY <3>1 DEF IInv, Shape
    <3> QED BY <3>1, <3>2, TopicGrows, PostKept
  <2> QED BY <2>1, <2>2 DEF IInv
<1> QED BY <1>1, <1>2, <1>3, <1>4, <1>5 DEF Next

LEMMA Invariance == Spec => []IInv
BY InvInit, InvNext, PTL DEF Spec

\* The topic, the consumers of KafkaSource, the file and the requests have
\* their types: no run of the live flow is past the end of the topic, and no
\* batch of poll() exceeds its bound.
THEOREM TypeCorrect == Spec => []TypeOK
<1>1. IInv => TypeOK
  <2> SUFFICES ASSUME IInv PROVE TypeOK
    OBVIOUS
  <2>1. Shape /\ GroupInv /\ FileInv
    BY DEF IInv
  <2>2. Len(topic) \in Nat /\ committed \in 0..Len(topic)
    BY <2>1 DEF Shape, GroupInv
  <2>3. \A r \in Runs :
          /\ run[r].pc \in {"off", "recv", "append"} /\ run[r].pos \in 0..Len(topic)
          /\ run[r].n \in 0..MaxPoll /\ Range(run[r].rows) \subseteq 1..Len(topic)
    BY <2>1, <2>2, InFlightRows DEF Shape, RunRecord, GroupInv, FileInv, RowsOf
  <2>4. \A c \in Posts : post[c].pc \in {"idle", "send", "202", "502"}
    BY <2>1 DEF Shape, PostRecord
  <2>5. Stored \subseteq 1..Len(topic)
    BY <2>1 DEF FileInv
  <2> QED BY <2>1, <2>2, <2>3, <2>4, <2>5 DEF Shape, TypeOK
<1> QED BY <1>1, Invariance, PTL

\* No line of the file is repeated, whatever appends fail, clients go away and
\* runs take over from each other, unless its message was consumed by a run that
\* could not commit it any more: the master crashed, the session of KafkaSource's
\* consumer timed out, or its last commit failed.
THEOREM RepeatsAreUncommitted == Spec => []RepeatedOnlyUncommitted
<1>1. IInv => RepeatedOnlyUncommitted
  BY DEF IInv, OnceInv, RepeatedOnlyUncommitted
<1> QED BY <1>1, Invariance, PTL

\* run_live_streaming loses nothing but the batch that a run held when it was
\* stopped, and for each failure at most the one row that append_file writes onto
\* the fragment of a line, however often runs are stopped, cut off from the group,
\* replaced and restarted.
THEOREM NoOtherLosses == Spec => []LostOnlyInFlight
<1>1. IInv => LostOnlyInFlight
  BY DEF IInv, FileInv
<1> QED BY <1>1, Invariance, PTL

\* Without faults the live flow is exact, for any number of runs in the
\* group: the file and the batches are the consumed objects, each once.
THEOREM ExactlyOnce == Spec => []ExactlyOnceWithoutFaults
<1>1. IInv => ExactlyOnceWithoutFaults
  <2> SUFFICES ASSUME IInv, faults = 0
               PROVE  /\ Stored \cup InFlight = Wanted(Highest)
                      /\ Stored \cap InFlight = {} /\ IsInjective(file)
                      /\ \A q, r \in Runs : q # r =>
                             Range(run[q].rows) \cap Range(run[r].rows) = {}
    BY DEF ExactlyOnceWithoutFaults
  <2>1. FileInv /\ OnceInv
    BY DEF IInv
  <2>2. dropped = {} /\ uncommitted = {} /\ torn = {}
    BY <2>1 DEF FileInv
  <2>3. ASSUME NEW o \in Stored \cup InFlight PROVE o \in Wanted(Highest)
    <3>1. o \in 1..Len(topic) /\ topic[o].event \in Objects /\ o <= Highest
      BY <2>1, <2>2 DEF FileInv, OnceInv
    <3> QED BY <3>1, HighestBounds DEF Wanted
  <2>4. Wanted(Highest) \subseteq Stored \cup InFlight
    BY <2>1, <2>2 DEF FileInv, LostOnlyInFlight
  <2>5. IsInjective(file)
    BY <2>1, <2>2 DEF OnceInv, InjectiveBut, IsInjective
  <2> QED BY <2>1, <2>2, <2>3, <2>4, <2>5 DEF OnceInv, RowsOf
<1> QED BY <1>1, Invariance, PTL

\* An ingest handler never reports more events as produced than the topic has
\* of its request, and answers 502 only when it has produced none.
THEOREM Produced == Spec => []ProducedAreInTopic
<1>1. IInv => ProducedAreInTopic
  <2> SUFFICES ASSUME IInv, NEW c \in Posts
               PROVE  /\ Cardinality({m.i : m \in {topic[o] : o \in DOMAIN topic} \cap
                                          [event : Events, post : {c}, i : Nat]})
                            >= post[c].produced
                      /\ post[c].pc = "502" => post[c].produced = 0 /\ post[c].failed > 0
    BY DEF ProducedAreInTopic
  <2> DEFINE sent == {m.i : m \in {topic[o] : o \in DOMAIN topic} \cap
                                   [event : Events, post : {c}, i : Nat]}
  <2>1. PostInv /\ post[c] \in PostRecord /\ topic \in Seq(Message)
    BY DEF IInv, Shape
  <2>2. /\ IsFiniteSet(post[c].acked) /\ Cardinality(post[c].acked) = post[c].produced
        /\ \A i \in post[c].acked : \E o \in DOMAIN topic : topic[o].post = c /\ topic[o].i = i
        /\ \A o \in DOMAIN topic : topic[o].post = c => topic[o].i \in 1..(post[c].i - 1)
        /\ post[c].pc = "502" => post[c].produced = 0 /\ post[c].failed > 0
    BY <2>1 DEF PostInv
  <2>3. \A o \in DOMAIN topic : topic[o] \in Message
    BY <2>1
  <2>4. sent \subseteq 1..(post[c].i - 1)
    BY <2>2
  <2>5. post[c].acked \subseteq sent
    <3> SUFFICES ASSUME NEW i \in post[c].acked PROVE i \in sent
      OBVIOUS
    <3>1. PICK o \in DOMAIN topic : topic[o].post = c /\ topic[o].i = i
      BY <2>2
    <3>2. topic[o] \in [event : Events, post : {c}, i : Nat]
      BY <2>3, <3>1 DEF Message
    <3> QED BY <3>1, <3>2
  <2>6. IsFiniteSet(sent)
    <3>1. IsFiniteSet(1..(post[c].i - 1))
      BY <2>1, FS_Interval DEF PostRecord
    <3> QED BY <2>4, <3>1, FS_Subset
  <2>7. Cardinality(post[c].acked) <= Cardinality(sent)
    BY <2>5, <2>6, FS_Subset
  <2>8. Cardinality(sent) \in Nat /\ post[c].produced \in Nat
    BY <2>1, <2>6, FS_CardinalityType DEF PostRecord
  <2> QED BY <2>2, <2>7, <2>8
<1> QED BY <1>1, Invariance, PTL
=============================================================================
