------------------------------ MODULE Notifier ------------------------------
(***************************************************************************)
(* The notifier service (src/notifier/main.py): _consume_loop reads the    *)
(* streams `opportunities` and `trades` through the group notifier-cg in   *)
(* one XREADGROUP, handles the reply stream by stream, and acknowledges a  *)
(* stream's entries after its last one.  An entry above its threshold      *)
(* becomes a message of TelegramQueue, whose sender task runs beside the   *)
(* loop.                                                                   *)
(*                                                                         *)
(* `pc` names the call the loop awaits, proc the phase of the lifespan.    *)
(* The comparison with the threshold in force is abstracted to the kind of *)
(* the entry: "alert" makes a message; "quiet" makes none, being below the *)
(* threshold or unreadable.                                                *)
(***************************************************************************)
EXTENDS TelegramQueue

CONSTANTS
    MaxEntries,     \* bound: entries published, in both streams
    MaxLen,         \* OPP_MAXLEN, TRADES_MAXLEN: what trimming leaves at least
    BatchCount,     \* count=50 of XREADGROUP
    Notes,          \* bound: the messages of POST /notify
    MaxStops        \* bound: shutdowns and crashes

Streams == {"opportunities", "trades"}
Kinds == {"alert", "quiet"}
Ids == 1 .. MaxEntries
Alerts == Streams \X Ids        \* the message an entry becomes

ASSUME NotifierAssumption ==
    /\ Messages = Alerts \cup Notes
    /\ Notes \cap Alerts = {}
    /\ MaxEntries \in Nat /\ MaxLen \in Nat \ {0}
    /\ BatchCount \in Nat \ {0} /\ MaxStops \in Nat

VARIABLES
    entries,        \* per stream, the kinds of its entries
    trimmed,        \* per stream, how many of them are gone from it
    group,          \* per stream, whether notifier-cg exists
    last,           \* per stream, the last-delivered id of the group
    pel,            \* per stream, delivered and not acknowledged
    acked,          \* history: acknowledged entries
    proc, pc,       \* the lifespan and the loop
    reply,          \* what is left of the reply, by stream
    cur,            \* the entry in hand, of the first stream of reply
    stops           \* spent bound

stream == <<entries, trimmed, group, last, pel, acked>>
task   == <<pc, reply, cur>>
vars   == <<qvars, stream, proc, task, stops>>

Empty == [s \in Streams |-> {}]

Init ==
    /\ QueueInit
    /\ entries = [s \in Streams |-> <<>>]
    /\ trimmed = [s \in Streams |-> 0]
    /\ group = [s \in Streams |-> FALSE]
    /\ last = [s \in Streams |-> 0]
    /\ pel = Empty /\ acked = Empty
    /\ proc = "down" /\ pc = "off"
    /\ reply = <<>> /\ cur = 0
    /\ stops = 0

----------------------------------------------------------------------------
(* The scanner and the executor append entries, at any time.  XADD trims   *)
(* approximately: it may drop the oldest entries, read or not, and leaves  *)
(* at least MaxLen (what the group has been given already is nothing to    *)
(* it: trimmed may stay behind).                                           *)
Trims(s, n) == {t \in trimmed[s] .. n :
                   t = trimmed[s] \/ (last[s] < t /\ t + MaxLen <= n)}

Publish(s) ==
    /\ Len(entries["opportunities"]) + Len(entries["trades"]) < MaxEntries
    /\ \E kind \in Kinds : entries' = [entries EXCEPT ![s] = Append(@, kind)]
    /\ \E t \in Trims(s, Len(entries[s]) + 1) :
          trimmed' = [trimmed EXCEPT ![s] = t]
    /\ UNCHANGED <<qvars, group, last, pel, acked, proc, task, stops>>

\* POST /notify, served between startup and shutdown
Notify ==
    /\ proc = "up"
    /\ \E m \in Notes : Enqueue(m)
    /\ UNCHANGED <<stream, proc, task, stops>>

----------------------------------------------------------------------------
(* lifespan: the sender starts first, then the groups, then the loop.      *)
Boot ==
    /\ proc = "down"
    /\ StartSender
    /\ proc' = "boot" /\ pc' = "group1"
    /\ UNCHANGED <<stream, reply, cur, stops>>

\* XGROUP CREATE at '$': BUSYGROUP when the group survived
CreateGroup(s) ==
    /\ group' = [group EXCEPT ![s] = TRUE]
    /\ last' = [last EXCEPT ![s] = IF group[s] THEN @ ELSE Len(entries[s])]

EnsureGroups ==
    /\ proc = "boot"
    /\ \/ /\ pc = "group1" /\ CreateGroup("opportunities")
          /\ pc' = "group2" /\ UNCHANGED proc
       \/ /\ pc = "group2" /\ CreateGroup("trades")
          /\ pc' = "read" /\ proc' = "up"
    /\ UNCHANGED <<qvars, entries, trimmed, pel, acked, reply, cur, stops>>

----------------------------------------------------------------------------
(* One read: per stream, up to BatchCount entries past the cursor, of      *)
(* those the stream still holds.                                           *)
FromPending(s) == IF pel[s] # {} THEN CHOOSE i \in pel[s] :     \* mutant
                      \A j \in pel[s] : i <= j ELSE last[s] + 1
FirstNew(s) == (IF trimmed[s] > last[s] THEN trimmed[s] ELSE last[s]) + 1

Upto(s) == IF Len(entries[s]) < FirstNew(s) + BatchCount - 1
           THEN Len(entries[s]) ELSE FirstNew(s) + BatchCount - 1
Part(s) == IF FirstNew(s) <= Upto(s)
           THEN <<[stream |-> s, lo |-> FirstNew(s), hi |-> Upto(s)]>>
           ELSE <<>>
Reply == Part("opportunities") \o Part("trades")

\* the reply is delivered: the group moves on, whoever sees the reply
Delivered ==
    /\ last' = [s \in Streams |-> Upto(s)]
    /\ pel' = [s \in Streams |-> pel[s] \cup (FirstNew(s) .. Upto(s))]
    /\ UNCHANGED <<entries, trimmed, group, acked>>

\* where the loop goes with the rest of a reply
Proceed(rest) ==
    /\ reply' = rest
    /\ IF rest # <<>> THEN pc' = "handle" /\ cur' = Head(rest).lo
       ELSE /\ pc' = IF proc = "stopping" THEN "ended" ELSE "read"
            /\ cur' = 0

Read ==
    /\ pc = "read" /\ Reply # <<>>
    /\ Delivered
    /\ Proceed(Reply)
    /\ UNCHANGED <<qvars, proc, stops>>

\* block=1000 passes without an entry
ReadNothing ==
    /\ pc = "read" /\ Reply = <<>>
    /\ Proceed(<<>>)
    /\ UNCHANGED <<qvars, stream, proc, stops>>

Current == <<Head(reply).stream, cur>>
IsAlert(m) == entries[m[1]][m[2]] = "alert"

\* the next entry of the stream, or its XACK after the last one
SkipsLast == cur + 1 >= Head(reply).hi                          \* mutant
WasLast == cur = Head(reply).hi

NextEntry ==
    /\ IF WasLast THEN pc' = "ack" /\ UNCHANGED cur
       ELSE cur' = cur + 1 /\ UNCHANGED pc
    /\ UNCHANGED <<stream, proc, reply, stops>>

\* _handle_entry; a failing enqueue is logged and the entry counts as done
HandleQuiet ==
    /\ pc = "handle" /\ ~IsAlert(Current)
    /\ NextEntry /\ UNCHANGED qvars

HandleAlert ==
    /\ pc = "handle" /\ IsAlert(Current)
    /\ Put(Current)
    /\ NextEntry

CountFault ==
    /\ faults < MaxFaults /\ faults' = faults + 1
    /\ UNCHANGED <<queue, deadLetter, sender, hand, enqueued, attempts, sent,
                   passed>>

EnqueueRaises ==
    /\ pc = "handle" /\ IsAlert(Current)
    /\ CountFault
    /\ NextEntry

AckEffect ==
    LET s == Head(reply).stream
        ids == Head(reply).lo .. Head(reply).hi IN
    /\ acked' = [acked EXCEPT ![s] = @ \cup ids]
    /\ pel' = [pel EXCEPT ![s] = @ \ ids]
    /\ UNCHANGED <<entries, trimmed, group, last>>

OnlyFirstStream == <<>>                                         \* mutant
OtherStreams == Tail(reply)

Ack ==
    /\ pc = "ack"
    /\ AckEffect
    /\ Proceed(OtherStreams)
    /\ UNCHANGED <<qvars, proc, stops>>

\* except Exception: the rest of the reply is dropped
ConsumeRaises ==
    /\ pc \in {"read", "ack"}
    /\ CountFault
    /\ \/ UNCHANGED stream
       \/ pc = "read" /\ Delivered
       \/ pc = "ack" /\ AckEffect
    /\ pc' = "sleep" /\ reply' = <<>> /\ cur' = 0
    /\ UNCHANGED <<proc, stops>>

Wake ==
    /\ pc = "sleep"
    /\ Proceed(<<>>)
    /\ UNCHANGED <<qvars, stream, proc, stops>>

----------------------------------------------------------------------------
(* The end of the lifespan.  queue.stop() runs first: it cancels the       *)
(* sender wherever it is, while the loop goes on until it is cancelled in  *)
(* turn.                                                                   *)
BeginStop ==
    /\ proc = "up" /\ stops < MaxStops
    /\ proc' = "stopping" /\ stops' = stops + 1
    /\ DropSender
    /\ UNCHANGED <<stream, task>>

\* the loop ends in the middle of its call; when the call was carried out
\* all the same, it is the call's action followed by the end
DropLoop ==
    /\ pc' = "off" /\ reply' = <<>> /\ cur' = 0 /\ proc' = "down"
    /\ UNCHANGED stream

FinishStop ==
    /\ proc = "stopping"
    /\ DropLoop
    /\ UNCHANGED <<qvars, stops>>

Crash ==
    /\ proc \in {"boot", "up"} /\ stops < MaxStops
    /\ stops' = stops + 1
    /\ DropLoop
    /\ DropSender

ConsumeStep == Read \/ ReadNothing \/ HandleQuiet \/ HandleAlert \/ Ack \/ Wake
LifeStep == Boot \/ EnsureGroups \/ FinishStop

Next ==
    \/ \E s \in Streams : Publish(s)
    \/ Notify
    \/ LifeStep
    \/ ConsumeStep
    \/ EnqueueRaises \/ ConsumeRaises
    \/ (SenderStep \/ SenderRaises) /\ UNCHANGED <<stream, proc, task, stops>>
    \/ BeginStop \/ Crash

(* The two tasks are scheduled, Redis and Telegram answer, a shutdown ends *)
(* and the container is restarted.                                         *)
Fairness ==
    /\ WF_vars(LifeStep)
    /\ WF_vars(ConsumeStep)
    /\ WF_vars(SenderStep /\ UNCHANGED <<stream, proc, task, stops>>)

Spec == Init /\ [][Next]_vars /\ Fairness

----------------------------------------------------------------------------
Parts == [stream : Streams, lo : Ids, hi : Ids]

TypeOK ==
    /\ QueueTypeOK
    /\ entries \in [Streams -> Seq(Kinds)]
    /\ trimmed \in [Streams -> Nat]
    /\ \A s \in Streams :
          trimmed[s] = 0 \/ trimmed[s] + MaxLen <= Len(entries[s])
    /\ group \in [Streams -> BOOLEAN]
    /\ last \in [Streams -> Nat]
    /\ \A s \in Streams : last[s] <= Len(entries[s])
    /\ Len(entries["opportunities"]) + Len(entries["trades"]) <= MaxEntries
    /\ pel \in [Streams -> SUBSET Ids] /\ acked \in [Streams -> SUBSET Ids]
    /\ proc \in {"down", "boot", "up", "stopping"}
    /\ pc \in {"off", "group1", "group2", "read", "handle", "ack", "sleep",
               "ended"}
    /\ reply \in Seq(Parts) /\ (pc \in {"handle", "ack"} <=> reply # <<>>)
    /\ cur \in Nat
    /\ stops \in 0 .. MaxStops

(* The loop is a producer of TelegramQueue that enqueues no entry twice,   *)
(* whatever calls fail and however often the service restarts: it reads    *)
(* with id '>' (main.py:105) and never goes back to its pending entries.   *)
ImplementsQueue == QueueSpec

\* acknowledged alerts that never got into the list
Unqueued == {m \in Alerts :
                m[2] \in acked[m[1]] /\ IsAlert(m) /\ m \notin enqueued}

(* An acknowledged alert was put in the queue (main.py:114 before 116), but *)
(* for one per failing Redis call: _handle_entry swallows a failed LPUSH   *)
(* (lines 137-138).  A restart costs none, wherever it falls: what it cuts *)
(* off is not acknowledged.                                                *)
AckedIsQueued == Cardinality(Unqueued) <= faults

(* A failing Redis call or an end of the service costs at most the one     *)
(* message the sender holds or is about to get (tg_queue.py:52, 73-81);    *)
(* nothing else loses one, however often Telegram refuses it: every other  *)
(* path of _sender_loop leaves it sent, in the list or in the dead letters.*)
OneLostEach == Cardinality(Lost) <= faults + stops

(* Every message in the list leaves it for good: after MAX_RETRIES failed  *)
(* sends it is not pushed back any more (tg_queue.py:64), and a restarted  *)
(* service goes on with the list Redis kept.                               *)
QueueDrains == \A m \in Messages : m \in QueuedIds ~> [](m \notin QueuedIds)

\* gone from its stream before the notifier came to read it
TrimmedUnread(m) == last[m[1]] < m[2] /\ m[2] <= trimmed[m[1]]

(* Without a failing call and without a restart, every alert the scanner   *)
(* or the executor publishes after the groups exist reaches Telegram or    *)
(* the dead letters (N-003, N-004), unless the notifier is behind by more  *)
(* than OPP_MAXLEN or TRADES_MAXLEN entries and its entry is trimmed.      *)
AlertsAreSettled ==
    \A m \in Alerts :
        (m[2] \in DOMAIN entries[m[1]] /\ IsAlert(m) /\ m[2] > last[m[1]]
            /\ group[m[1]])
        ~> (Settled(m) \/ TrimmedUnread(m) \/ faults + stops > 0)
=============================================================================
