--------------------------- MODULE TelegramQueue ---------------------------
(***************************************************************************)
(* The outgoing Telegram messages of the notifier (src/notifier/tg_queue): *)
(* a Redis list that producers LPUSH to, and one sender task that takes    *)
(* the oldest message with BRPOP, sends it, and on a failure pushes it     *)
(* back with its retry count or moves it to the dead-letter list.          *)
(*                                                                         *)
(* `sender` names the call the task awaits.  A call that raises because    *)
(* its reply was lost, or that is cancelled, may have been carried out.    *)
(* queue[1] is the right end of the list: LPUSH appends, BRPOP takes the   *)
(* head.                                                                   *)
(***************************************************************************)
EXTENDS Naturals, Sequences, FiniteSets

CONSTANTS
    Messages,       \* what producers enqueue, each at most once
    NoMessage,      \* the id of NoItem
    MaxRetries,     \* MAX_RETRIES
    MaxFaults       \* bound: Redis calls that raise

ASSUME QueueAssumption ==
    /\ NoMessage \notin Messages
    /\ MaxRetries \in Nat
    /\ MaxFaults \in Nat

VARIABLES
    queue,          \* the list telegram_queue
    deadLetter,     \* the list telegram_dead_letter, as the ids in it
    sender,         \* the call the sender task awaits, "off" without a task
    hand,           \* the message between BRPOP and the end of its handling
    \* history variables
    enqueued,       \* the messages LPUSHed by a producer
    attempts,       \* calls of send_message per message
    sent,           \* the messages Telegram took, once or more
    passed,         \* of a queued message, what was attempted since its push
    faults          \* spent bound

qvars == <<queue, deadLetter, sender, hand, enqueued, attempts, sent, passed,
           faults>>

Items == [id : Messages, retries : 0 .. MaxRetries]
NoItem == [id |-> NoMessage, retries |-> 0]
Holding == {"send", "requeue", "bury"}

QueuedIds == {queue[k].id : k \in DOMAIN queue}
Settled(m) == m \in sent \cup deadLetter

\* enqueued, in no list, in nobody's hand, and never taken by Telegram
Lost == {m \in enqueued : ~Settled(m) /\ m \notin QueuedIds /\ m # hand.id}

QueueInit ==
    /\ queue = <<>> /\ deadLetter = {}
    /\ sender = "off" /\ hand = NoItem
    /\ enqueued = {}
    /\ attempts = [m \in Messages |-> 0]
    /\ sent = {}
    /\ passed = [m \in Messages |-> {}]
    /\ faults = 0

----------------------------------------------------------------------------
(* LPUSH of an item, by a producer or by the sender.                       *)
Push(item) ==
    /\ queue' = Append(queue, item)
    /\ passed' = [passed EXCEPT ![item.id] = {}]

\* enqueue(), of the consume loop or of POST /notify
Put(m) ==
    /\ enqueued' = enqueued \cup {m}
    /\ Push([id |-> m, retries |-> 0])
    /\ UNCHANGED <<deadLetter, sender, hand, attempts, sent, faults>>

\* ... of a message that was not enqueued before
Enqueue(m) == m \notin enqueued /\ Put(m)

\* queue.start() in the lifespan
StartSender ==
    /\ sender = "off"
    /\ sender' = "pop"
    /\ UNCHANGED <<queue, deadLetter, hand, enqueued, attempts, sent, passed,
                   faults>>

\* the list after a BRPOP
AfterPop == Tail(queue)

\* attempts are told apart up to one more than there may be
Counted(n) == IF n <= MaxRetries + 1 THEN n + 1 ELSE n

\* BRPOP returns the oldest message, and send_message is called for it
Pop ==
    /\ sender = "pop" /\ queue # <<>>
    /\ hand' = Head(queue) /\ queue' = AfterPop
    /\ attempts' = [attempts EXCEPT ![Head(queue).id] = Counted(@)]
    /\ passed' = [m \in Messages |->
                     IF \E k \in 2 .. Len(queue) : queue[k].id = m
                     THEN passed[m] \cup {Head(queue).id} ELSE {}]
    /\ sender' = "send"
    /\ UNCHANGED <<deadLetter, enqueued, sent, faults>>

\* Telegram takes the message
Deliver == sent' = sent \cup {hand.id}

SendOk ==
    /\ sender = "send"
    /\ Deliver
    /\ sender' = "pause" /\ hand' = NoItem
    /\ UNCHANGED <<queue, deadLetter, enqueued, attempts, passed, faults>>

\* which LPUSH the except branch of a failed send awaits
RetryOnceMore ==                                                \* mutant
    IF hand.retries <= MaxRetries THEN "requeue" ELSE "bury"
DropExhausted ==                                                \* mutant
    IF hand.retries < MaxRetries THEN "requeue" ELSE "pause"
AfterFailure == IF hand.retries < MaxRetries THEN "requeue" ELSE "bury"

\* send_message raises: Telegram may have taken the message all the same
SendRaises ==
    /\ sender = "send"
    /\ Deliver \/ UNCHANGED sent
    /\ sender' = AfterFailure
    /\ hand' = IF sender' = "pause" THEN NoItem ELSE hand
    /\ UNCHANGED <<queue, deadLetter, enqueued, attempts, passed, faults>>

SameRetries == hand                                             \* mutant
Requeued == [hand EXCEPT !.retries = @ + 1]

Requeue ==
    /\ sender = "requeue"
    /\ Push(Requeued)
    /\ sender' = "pause" /\ hand' = NoItem
    /\ UNCHANGED <<deadLetter, enqueued, attempts, sent, faults>>

Bury ==
    /\ sender = "bury"
    /\ deadLetter' = deadLetter \cup {hand.id}
    /\ sender' = "pause" /\ hand' = NoItem
    /\ UNCHANGED <<queue, enqueued, attempts, sent, passed, faults>>

\* the sleep at the end of an iteration, or after an exception
Resume ==
    /\ sender = "pause"
    /\ sender' = "pop"
    /\ UNCHANGED <<queue, deadLetter, hand, enqueued, attempts, sent, passed,
                   faults>>

(* The awaited call ends without an answer the task sees, and what the    *)
(* task held is gone.  A BRPOP may have taken a message out; that another  *)
(* call was carried out all the same is that call's own action.            *)
Unanswered ==
    /\ hand' = NoItem
    /\ \/ UNCHANGED queue
       \/ sender = "pop" /\ queue # <<>> /\ queue' = Tail(queue)
    /\ UNCHANGED <<deadLetter, enqueued, attempts, sent, passed>>

\* the outer except: a Redis call of the sender raises
AfterError == "pause"

SenderRaises ==
    /\ sender \in {"pop", "requeue", "bury"}
    /\ faults < MaxFaults /\ faults' = faults + 1
    /\ Unanswered
    /\ sender' = AfterError

\* queue.stop() cancels the task; a crash ends it the same way
DropSender ==
    /\ Unanswered
    /\ sender' = "off"
    /\ UNCHANGED faults

SenderStep == Pop \/ SendOk \/ SendRaises \/ Requeue \/ Bury \/ Resume

QueueNext ==
    \/ \E m \in Messages : Enqueue(m)
    \/ StartSender
    \/ SenderStep
    \/ SenderRaises
    \/ DropSender
    \/ /\ faults < MaxFaults /\ faults' = faults + 1
       /\ UNCHANGED <<queue, deadLetter, sender, hand, enqueued, attempts,
                      sent, passed>>

QueueSpec == QueueInit /\ [][QueueNext]_qvars

----------------------------------------------------------------------------
QueueTypeOK ==
    /\ queue \in Seq(Items)
    /\ deadLetter \subseteq enqueued
    /\ sender \in Holding \cup {"off", "pop", "pause"}
    /\ IF sender \in Holding THEN hand \in Items ELSE hand = NoItem
    /\ enqueued \subseteq Messages
    /\ attempts \in [Messages -> Nat]
    /\ sent \subseteq enqueued
    /\ passed \in [Messages -> SUBSET Messages]
    /\ faults \in 0 .. MaxFaults

(* A message is in the list once, in the sender's hand, or in the          *)
(* dead-letter list, never in two of them: _sender_loop puts it back       *)
(* (tg_queue.py:66, 68) only after BRPOP has taken it out.                 *)
OneCopy ==
    /\ \A j, k \in DOMAIN queue : queue[j].id = queue[k].id => j = k
    /\ hand.id \notin QueuedIds
    /\ hand.id \notin deadLetter
    /\ QueuedIds \cap deadLetter = {}

(* A message is sent at most MAX_RETRIES + 1 times however often a send    *)
(* fails and the process restarts, and the dead-letter list (line 68)      *)
(* holds only messages that had all of these attempts.  So a message shows  *)
(* up at most so often in the chat: a failed call may have been carried    *)
(* out.                                                                    *)
AttemptsBounded ==
    \A m \in Messages :
        /\ attempts[m] <= MaxRetries + 1
        /\ m \in sent => attempts[m] > 0
        /\ m \in deadLetter => attempts[m] = MaxRetries + 1

(* A retried message queues behind the others: while a message waits, no   *)
(* other message is attempted twice (LPUSH at line 66, BRPOP at line 52).  *)
RetriesGoLast ==
    [][\A n \in Messages : attempts'[n] > attempts[n] =>
          \A k \in DOMAIN queue' : n \notin passed[queue'[k].id]]_qvars
=============================================================================
