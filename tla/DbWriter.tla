------------------------------ MODULE DbWriter ------------------------------
(***************************************************************************)
(* The collector's BatchWriter (src/collector/db_writer.py): it reads the  *)
(* stream `prices` through the group writer-cg, stores each reply with one *)
(* COPY, or row by row when the COPY raises, and acknowledges the reply.   *)
(* The ticks are published by tasks of the same process; XADD trims the    *)
(* stream whatever the group has read (redis_publisher.py:35).             *)
(*                                                                         *)
(* `pc` names the call the loop awaits.  A tick is abstracted to what      *)
(* becomes of it:                                                          *)
(*   good     a row the table accepts                                      *)
(*   skipped  _to_record returns None: its price overflows                 *)
(*   refused  a row the table rejects: its price rounds to 0, CHECK fails  *)
(*   nan      a volume PriceTick lets through and whose comparison raises, *)
(*            outside the try of _to_record (lines 148-151)                *)
(***************************************************************************)
EXTENDS Integers, Sequences, FiniteSets

CONSTANTS
    MaxTicks,       \* bound: ticks published
    MaxLen,         \* PRICES_MAXLEN
    BatchSize,      \* BATCH_SIZE
    MaxFaults,      \* bound: calls that raise
    MaxStops        \* bound: shutdowns and crashes

ASSUME DbWriterAssumption ==
    /\ MaxTicks \in Nat /\ MaxFaults \in Nat /\ MaxStops \in Nat
    /\ MaxLen \in Nat \ {0} /\ BatchSize \in Nat \ {0}

Kinds == {"good", "skipped", "refused", "nan"}
Ids == 1 .. MaxTicks

VARIABLES
    ticks,          \* the kinds of the entries ever published
    trimmed,        \* the stream holds the entries past this id
    group,          \* whether writer-cg exists
    last,           \* its last-delivered id
    pel,            \* delivered and not acknowledged
    acked,          \* history: acknowledged
    rows,           \* rows of the table per tick
    pc,             \* the process, or the call its loop awaits
    ids,            \* the entries of the reply in hand
    records,        \* those of them still to be stored
    swallowed,      \* history: good ticks whose INSERT failed
    doubted,        \* history: ticks of a COPY carried out that raised
    poisoned,       \* history: replies _to_record raised on
    faults, stops   \* spent bounds

stream  == <<ticks, trimmed, group, last, pel, acked>>
history == <<swallowed, doubted, poisoned>>
vars    == <<stream, rows, pc, ids, records, history, faults, stops>>

Init ==
    /\ ticks = <<>> /\ trimmed = 0
    /\ group = FALSE /\ last = 0 /\ pel = {} /\ acked = {}
    /\ rows = [i \in Ids |-> 0]
    /\ pc = "down" /\ ids = {} /\ records = {}
    /\ swallowed = {} /\ doubted = {} /\ poisoned = 0
    /\ faults = 0 /\ stops = 0

----------------------------------------------------------------------------
(* A task of the collector publishes a tick: XADD appends it and removes   *)
(* old entries, of which it leaves at least MaxLen.                        *)
Trims(n) == {t \in trimmed .. n : t = trimmed \/ t + MaxLen <= n}

Publish ==
    /\ pc # "down" /\ Len(ticks) < MaxTicks
    /\ \E kind \in Kinds : ticks' = Append(ticks, kind)
    /\ trimmed' \in Trims(Len(ticks) + 1)
    /\ UNCHANGED <<group, last, pel, acked, rows, pc, ids, records, history,
                   faults, stops>>

----------------------------------------------------------------------------
(* lifespan and start: the collectors publish, then the writer starts.     *)
Boot ==
    /\ pc = "down" /\ pc' = "group"
    /\ UNCHANGED <<stream, rows, ids, records, history, faults, stops>>

\* XGROUP CREATE at id 0: BUSYGROUP when the group survived
GroupStart == IF group THEN last ELSE 0

EnsureGroup ==
    /\ pc = "group" /\ pc' = "read"
    /\ group' = TRUE /\ last' = GroupStart
    /\ UNCHANGED <<ticks, trimmed, pel, acked, rows, ids, records, history,
                   faults, stops>>

CountFault == faults < MaxFaults /\ faults' = faults + 1

\* no pool, or no answer of Redis: the process goes on without a writer
StartFails ==
    /\ pc = "group" /\ pc' = "disabled"
    /\ CountFault
    /\ \/ UNCHANGED <<group, last>>
       \/ group' = TRUE /\ last' = GroupStart
    /\ UNCHANGED <<ticks, trimmed, pel, acked, rows, ids, records, history,
                   stops>>

----------------------------------------------------------------------------
(* _consume_loop: XREADGROUP, then _to_record of every entry.              *)
FromPending == IF pel # {} THEN CHOOSE i \in pel : \A j \in pel : i <= j
               ELSE last + 1                                    \* mutant
FirstNew == (IF trimmed > last THEN trimmed ELSE last) + 1
Upto == IF Len(ticks) < FirstNew + BatchSize - 1
        THEN Len(ticks) ELSE FirstNew + BatchSize - 1
Reply == FirstNew .. Upto

\* the reply is delivered: the group moves on, whoever sees the reply
Delivered ==
    /\ last' = Upto /\ pel' = pel \cup Reply
    /\ UNCHANGED <<ticks, trimmed, group, acked>>

Storable(S) == {i \in S : ticks[i] \in {"good", "refused"}}

\* an entry raises: the reply is dropped and the loop sleeps
ReadPoison ==
    /\ poisoned' = poisoned + 1
    /\ pc' = "sleep" /\ UNCHANGED <<ids, records>>

ReadBatch ==
    /\ ids' = Reply /\ records' = Storable(Reply)
    /\ pc' = IF Storable(Reply) = {} THEN "ack" ELSE "copy"
    /\ UNCHANGED poisoned

Read ==
    /\ pc = "read" /\ Reply # {}
    /\ Delivered
    /\ IF \E i \in Reply : ticks[i] = "nan" THEN ReadPoison ELSE ReadBatch
    /\ UNCHANGED <<rows, swallowed, doubted, faults, stops>>

----------------------------------------------------------------------------
(* _flush: COPY stores every record or, when the table rejects one, none.  *)
Clean == \A i \in records : ticks[i] = "good"
StoreAll == rows' = [i \in Ids |-> rows[i] + (IF i \in records THEN 1 ELSE 0)]

Copy ==
    /\ pc = "copy"
    /\ IF Clean THEN StoreAll /\ records' = {} /\ pc' = "ack"
       ELSE pc' = "insert" /\ UNCHANGED <<rows, records>>
    /\ UNCHANGED <<stream, ids, history, faults, stops>>

\* the connection fails, before the COPY or after it
CopyRaises ==
    /\ pc = "copy" /\ CountFault
    /\ \/ UNCHANGED <<rows, doubted>>
       \/ Clean /\ StoreAll /\ doubted' = doubted \cup records
    /\ pc' = "insert"
    /\ UNCHANGED <<stream, ids, records, swallowed, poisoned, stops>>

(* _insert_individually: one INSERT after the other, errors are logged.    *)
NextRecord == CHOOSE i \in records : \A j \in records : i <= j

StopsAtRefused(i) == IF ticks[i] = "good" THEN records \ {i} ELSE {}  \* mutant
RetriesRefused(i) == IF ticks[i] = "good" THEN records \ {i} ELSE records \* mutant
RecordsAfter(i) == records \ {i}

StepOver(i) ==
    /\ records' = RecordsAfter(i)
    /\ pc' = IF RecordsAfter(i) = {} THEN "ack" ELSE "insert"

Store(i) == rows' = [rows EXCEPT ![i] = @ + 1]

Insert ==
    /\ pc = "insert"
    /\ LET i == NextRecord IN
        /\ IF ticks[i] = "good" THEN Store(i) ELSE UNCHANGED rows
        /\ StepOver(i)
    /\ UNCHANGED <<stream, ids, history, faults, stops>>

\* the connection fails at a good record, before the INSERT or after it
InsertRaises ==
    /\ pc = "insert" /\ CountFault
    /\ LET i == NextRecord IN
        /\ ticks[i] = "good"
        /\ \/ swallowed' = swallowed \cup {i} /\ UNCHANGED rows
           \/ Store(i) /\ UNCHANGED swallowed
        /\ StepOver(i)
    /\ UNCHANGED <<stream, ids, doubted, poisoned, stops>>

----------------------------------------------------------------------------
OnlyStored == {i \in ids : ticks[i] # "skipped"}                \* mutant
ToAck == ids

AckEffect ==
    /\ acked' = acked \cup ToAck /\ pel' = pel \ ToAck
    /\ UNCHANGED <<ticks, trimmed, group, last>>

Ack ==
    /\ pc = "ack" /\ pc' = "read" /\ ids' = {}
    /\ AckEffect
    /\ UNCHANGED <<rows, records, history, faults, stops>>

\* Redis fails, before the call or after it: the reply is dropped
ConsumeRaises ==
    /\ pc \in {"read", "ack"} /\ CountFault
    /\ \/ UNCHANGED stream
       \/ pc = "read" /\ Reply # {} /\ Delivered
       \/ pc = "ack" /\ AckEffect
    /\ pc' = "sleep" /\ ids' = {}
    /\ UNCHANGED <<rows, records, history, stops>>

NeverWakes == "sleep"                                           \* mutant
AfterSleep == "read"

Wake ==
    /\ pc = "sleep" /\ pc' = AfterSleep
    /\ UNCHANGED <<stream, rows, ids, records, history, faults, stops>>

(* stop() cancels the loop wherever it is, and a crash ends it the same    *)
(* way; a call carried out all the same is its action followed by Stop.    *)
Stop ==
    /\ pc # "down" /\ stops < MaxStops
    /\ stops' = stops + 1
    /\ pc' = "down" /\ ids' = {} /\ records' = {}
    /\ UNCHANGED <<stream, rows, history, faults>>

WriterStep == Boot \/ EnsureGroup \/ Read \/ Copy \/ Insert \/ Ack \/ Wake

Next ==
    \/ Publish
    \/ WriterStep
    \/ StartFails \/ CopyRaises \/ InsertRaises \/ ConsumeRaises
    \/ Stop

(* The container is restarted, the loop is scheduled, and a call returns   *)
(* or raises.                                                              *)
Spec == Init /\ [][Next]_vars /\ WF_vars(WriterStep)

----------------------------------------------------------------------------
TypeOK ==
    /\ ticks \in Seq(Kinds) /\ Len(ticks) <= MaxTicks
    /\ trimmed \in 0 .. Len(ticks) /\ last \in 0 .. Len(ticks)
    /\ group \in BOOLEAN
    /\ pel \subseteq 1 .. last /\ acked \subseteq 1 .. last
    /\ rows \in [Ids -> 0 .. 2]
    /\ pc \in {"down", "group", "disabled", "read", "copy", "insert", "ack",
               "sleep"}
    /\ ids \subseteq pel /\ records \subseteq Storable(ids)
    /\ pc \in {"copy", "insert"} <=> records # {}
    /\ swallowed \subseteq 1 .. last /\ doubted \subseteq 1 .. last
    /\ poisoned \in Nat
    /\ faults \in 0 .. MaxFaults /\ stops \in 0 .. MaxStops

(* An acknowledged tick is in the table, unless the code chose to drop it  *)
(* or the table rejected it, or its own INSERT failed: of what is          *)
(* acknowledged, a refused row never costs its neighbours                  *)
(* (db_writer.py:94-96), a failing COPY costs none.  A NaN, which raises   *)
(* before, costs its whole reply, the XACK included: see OneReplyEach.     *)
AckedIsSettled ==
    \A i \in acked :
        ticks[i] = "good" /\ i \notin swallowed => rows[i] > 0

(* No tick is stored twice, except when a COPY was carried out and raised  *)
(* all the same: _insert_individually stores its rows a second time, and   *)
(* the table has no key to refuse them (init-db.sql:122).                  *)
StoredOnce == \A i \in Ids : rows[i] > 1 => i \in doubted

(* A tick the writer never saw had been trimmed: MaxLen newer ones were    *)
(* published before the writer reached it, whatever failed and however     *)
(* often the service restarted (the group starts at id 0, db_writer.py:59).*)
UnseenIsTrimmed ==
    \A i \in 1 .. last :
        i \notin pel \cup acked => i <= trimmed /\ i + MaxLen <= Len(ticks)

(* A failing call, a shutdown or a NaN leaves at most one reply            *)
(* unacknowledged for good; nothing else does.                             *)
OneReplyEach ==
    Cardinality(pel \ ids) <= BatchSize * (faults + stops + poisoned)

(* As long as the writer was started, every tick reaches it or is trimmed. *)
TicksAreRead ==
    \A i \in Ids :
        i <= Len(ticks) ~> i <= last \/ i <= trimmed \/ pc = "disabled"

(* Without a failure every tick the writer reads is acknowledged, and so   *)
(* settled, at last.                                                       *)
ReadIsAcked ==
    \A i \in Ids : i \in pel ~> i \in acked \/ faults + stops + poisoned > 0
=============================================================================
