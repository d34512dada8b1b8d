--------------------------- MODULE NotifierProofs ---------------------------
(***************************************************************************)
(* Proofs about TelegramQueue and Notifier, for every number of messages,  *)
(* entries, batch size, retry limit, fault and restart.                    *)
(*                                                                         *)
(* The queue: QInv says where each message is (OneCopy), that the retry    *)
(* count it carries is the number of attempts made (CountsAgree), and that *)
(* what overtook a waiting message is behind it (OrderKept).               *)
(*                                                                         *)
(* The service: what the loop still has to handle was never enqueued       *)
(* (Fresh), because a reply starts past the group's cursor and its parts   *)
(* are of different streams (ReplyShape); so the service is a producer     *)
(* TelegramQueue allows, and the theorems of the queue hold of it.         *)
(***************************************************************************)
EXTENDS Notifier, FiniteSetTheorems, TLAPS

(* The retry count of a message is the number of its attempts: those made  *)
(* before the push for a queued message, those before the one under way    *)
(* for the message in hand.                                                *)
CountsAgree ==
    /\ QueuedIds \subseteq enqueued
    /\ \A k \in DOMAIN queue : attempts[queue[k].id] = queue[k].retries
    /\ sender \in Holding => /\ hand.id \in enqueued
                             /\ attempts[hand.id] = hand.retries + 1
    /\ sender = "requeue" => hand.retries < MaxRetries
    /\ sender = "bury" => hand.retries = MaxRetries
    /\ \A m \in Messages \ enqueued : attempts[m] = 0

(* What was attempted while a message waits is not in front of it.         *)
OrderKept ==
    \A j, k \in DOMAIN queue : j < k => queue[j].id \notin passed[queue[k].id]

QInv == QueueTypeOK /\ OneCopy /\ CountsAgree /\ AttemptsBounded /\ OrderKept

----------------------------------------------------------------------------
(* Appending to a list: what LPUSH does to the positions.                  *)
LEMMA AppendFacts ==
    ASSUME NEW S, NEW q \in Seq(S), NEW e \in S
    PROVE  /\ Append(q, e) \in Seq(S)
           /\ DOMAIN Append(q, e) = 1 .. Len(q) + 1
           /\ DOMAIN q = 1 .. Len(q) /\ Len(q) \in Nat
           /\ \A k \in 1 .. Len(q) : Append(q, e)[k] = q[k]
           /\ Append(q, e)[Len(q) + 1] = e
OBVIOUS

(* Taking the head of a list: what BRPOP does to the positions.            *)
LEMMA TailFacts ==
    ASSUME NEW S, NEW q \in Seq(S), q # <<>>
    PROVE  /\ Tail(q) \in Seq(S)
           /\ DOMAIN q = 1 .. Len(q) /\ Len(q) \in Nat /\ Len(q) > 0
           /\ DOMAIN Tail(q) = 1 .. Len(q) - 1
           /\ \A k \in 1 .. Len(q) - 1 : Tail(q)[k] = q[k + 1]
           /\ Head(q) = q[1] /\ Head(q) \in S
OBVIOUS

(* The initial state: nothing enqueued, nothing in hand.                   *)
LEMMA QInit == QueueInit => QInv
BY QueueAssumption
   DEF QueueInit, QInv, QueueTypeOK, OneCopy, CountsAgree, AttemptsBounded,
       OrderKept, QueuedIds, Holding, NoItem

(* A push of an item that is in none of the three places, by a producer or *)
(* by the sender: the list part of the invariant.                          *)
LEMMA PushKeeps ==
    ASSUME QInv, NEW item \in Items, Push(item),
           item.id \notin QueuedIds, item.id \notin deadLetter
    PROVE  /\ queue' \in Seq(Items)
           /\ passed' \in [Messages -> SUBSET Messages]
           /\ QueuedIds' = QueuedIds \cup {item.id}
           /\ \A j, k \in DOMAIN queue' : queue'[j].id = queue'[k].id => j = k
           /\ OrderKept'
           /\ \A k \in DOMAIN queue' :
                 queue'[k] = item \/ (k \in DOMAIN queue /\ queue'[k] = queue[k])
<1> DEFINE n == Len(queue)
<1>0. item.id \in Messages  BY DEF Items
<1>1. /\ queue \in Seq(Items) /\ passed \in [Messages -> SUBSET Messages]
      /\ queue' = Append(queue, item)
      /\ passed' = [passed EXCEPT ![item.id] = {}]
    BY DEF QInv, QueueTypeOK, Push
<1>2. /\ queue' \in Seq(Items) /\ DOMAIN queue' = 1 .. n + 1
      /\ DOMAIN queue = 1 .. n /\ n \in Nat
      /\ \A k \in 1 .. n : queue'[k] = queue[k]
      /\ queue'[n + 1] = item
    BY <1>1, AppendFacts
<1> HIDE DEF n
<1>3. \A k \in DOMAIN queue' :
          queue'[k] = item \/ (k \in DOMAIN queue /\ queue'[k] = queue[k])
    BY <1>2
<1>4. \A k \in 1 .. n : queue[k].id # item.id /\ queue[k].id \in Messages
  <2> SUFFICES ASSUME NEW k \in 1 .. n
               PROVE  queue[k].id # item.id /\ queue[k].id \in Messages
      OBVIOUS
  <2>1. queue[k] \in Items  BY <1>1, <1>2
  <2>2. queue[k].id \in Messages  BY <2>1 DEF Items
  <2>3. queue[k].id \in QueuedIds  BY <1>2 DEF QueuedIds
  <2> QED  BY <2>2, <2>3
<1>5. passed' \in [Messages -> SUBSET Messages]  BY <1>0, <1>1
<1>6. QueuedIds' = QueuedIds \cup {item.id}  BY <1>2 DEF QueuedIds
<1>7. \A j, k \in DOMAIN queue' : queue'[j].id = queue'[k].id => j = k
  <2> SUFFICES ASSUME NEW j \in 1 .. n + 1, NEW k \in 1 .. n + 1,
                      queue'[j].id = queue'[k].id
               PROVE  j = k
      BY <1>2
  <2>1. CASE j \in 1 .. n /\ k \in 1 .. n
      BY <2>1, <1>2 DEF QInv, OneCopy
  <2>2. CASE j = n + 1 \/ k = n + 1  BY <2>2, <1>2, <1>4
  <2> QED  BY <2>1, <2>2, <1>2
<1>8. OrderKept'
  <2> SUFFICES ASSUME NEW j \in 1 .. n + 1, NEW k \in 1 .. n + 1, j < k
               PROVE  queue'[j].id \notin passed'[queue'[k].id]
      BY <1>2 DEF OrderKept
  <2>1. CASE k = n + 1
      BY <2>1, <1>0, <1>1, <1>2
  <2>2. CASE k \in 1 .. n
    <3>1. j \in 1 .. n  BY <2>2, <1>2
    <3>2. passed'[queue[k].id] = passed[queue[k].id]  BY <2>2, <1>1, <1>4
    <3> QED  BY <2>2, <3>1, <3>2, <1>2 DEF QInv, OrderKept
  <2> QED  BY <2>1, <2>2, <1>2
<1> QED  BY <1>2, <1>3, <1>5, <1>6, <1>7, <1>8

(* A BRPOP: the list part of the invariant, with passed kept or, when the  *)
(* message is attempted, noted for those that stay.                        *)
LEMMA TakeKeeps ==
    ASSUME QInv, queue # <<>>, queue' = Tail(queue)
    PROVE  /\ queue' \in Seq(Items)
           /\ Head(queue) \in Items /\ 1 \in DOMAIN queue
           /\ Head(queue) = queue[1]
           /\ QueuedIds' \subseteq QueuedIds
           /\ Head(queue).id \in QueuedIds /\ Head(queue).id \notin QueuedIds'
           /\ \A j, k \in DOMAIN queue' : queue'[j].id = queue'[k].id => j = k
           /\ \A k \in DOMAIN queue' :
                 k + 1 \in DOMAIN queue /\ queue'[k] = queue[k + 1]
           /\ DOMAIN queue' \subseteq Nat \ {0}
<1> DEFINE n == Len(queue)
<1>1. queue \in Seq(Items)  BY DEF QInv, QueueTypeOK
<1>2. /\ queue' \in Seq(Items) /\ DOMAIN queue' = 1 .. n - 1
      /\ DOMAIN queue = 1 .. n /\ n \in Nat /\ n > 0
      /\ \A k \in 1 .. n - 1 : queue'[k] = queue[k + 1]
      /\ Head(queue) = queue[1] /\ Head(queue) \in Items
    BY <1>1, TailFacts
<1> HIDE DEF n
<1>3. \A j, k \in 1 .. n : queue[j].id = queue[k].id => j = k
    BY <1>2 DEF QInv, OneCopy
<1>4. \A k \in DOMAIN queue' : /\ k + 1 \in 1 .. n /\ k + 1 # 1
                               /\ queue'[k] = queue[k + 1]
    BY <1>2
<1>5. QueuedIds' \subseteq QueuedIds  BY <1>2, <1>4 DEF QueuedIds
<1>6. 1 \in 1 .. n  BY <1>2
<1>7. Head(queue).id \in QueuedIds  BY <1>2, <1>6 DEF QueuedIds
<1>8. Head(queue).id \notin QueuedIds'
    BY <1>2, <1>3, <1>4, <1>6 DEF QueuedIds
<1>9. \A j, k \in DOMAIN queue' : queue'[j].id = queue'[k].id => j = k
  <2> SUFFICES ASSUME NEW j \in DOMAIN queue', NEW k \in DOMAIN queue',
                      queue'[j].id = queue'[k].id
               PROVE  j = k
      OBVIOUS
  <2>1. j + 1 = k + 1  BY <1>3, <1>4
  <2> QED  BY <2>1, <1>2
<1> QED  BY <1>2, <1>4, <1>5, <1>6, <1>7, <1>8, <1>9

----------------------------------------------------------------------------
(* A step that leaves the list, the dead letters, what was attempted and   *)
(* the message in hand alone keeps the invariant, whatever call the sender *)
(* turns to.                                                               *)
LEMMA IdleKeeps ==
    ASSUME QInv, UNCHANGED <<queue, deadLetter, hand, enqueued, attempts, passed>>,
           sender' \in {"off", "pop", "pause"}, sender \notin Holding,
           sent' = sent, faults' \in 0 .. MaxFaults
    PROVE  QInv'
BY DEF QInv, QueueTypeOK, OneCopy, CountsAgree, AttemptsBounded, OrderKept,
       QueuedIds, Holding, Items, NoItem

(* enqueue() of a new message.                                             *)
LEMMA EnqueueKeeps == ASSUME QInv, NEW m \in Messages, Enqueue(m) PROVE QInv'
<1> DEFINE item == [id |-> m, retries |-> 0]
<1>1. /\ item \in Items /\ item.id = m /\ item.retries = 0
    BY QueueAssumption DEF Items
<1>2. /\ Push(item) /\ enqueued' = enqueued \cup {m} /\ m \notin enqueued
      /\ UNCHANGED <<deadLetter, sender, hand, attempts, sent, faults>>
    BY DEF Enqueue, Put
<1>3. m \notin QueuedIds /\ m \notin deadLetter /\ attempts[m] = 0
    BY <1>2 DEF QInv, CountsAgree, QueueTypeOK
<1>4. m # hand.id
    BY <1>2, QueueAssumption DEF QInv, CountsAgree, QueueTypeOK, NoItem
<1>5. /\ queue' \in Seq(Items)
      /\ passed' \in [Messages -> SUBSET Messages]
      /\ QueuedIds' = QueuedIds \cup {m}
      /\ \A j, k \in DOMAIN queue' : queue'[j].id = queue'[k].id => j = k
      /\ OrderKept'
      /\ \A k \in DOMAIN queue' :
            queue'[k] = item \/ (k \in DOMAIN queue /\ queue'[k] = queue[k])
    BY <1>1, <1>2, <1>3, PushKeeps
<1> HIDE DEF item
<1>6. QueueTypeOK'
    BY <1>2, <1>5 DEF QInv, QueueTypeOK, Holding
<1>7. OneCopy'
    BY <1>2, <1>3, <1>4, <1>5 DEF QInv, OneCopy
<1>8. CountsAgree'
    BY <1>1, <1>2, <1>3, <1>5 DEF QInv, CountsAgree
<1>9. AttemptsBounded'
    BY <1>2 DEF QInv, AttemptsBounded
<1> QED  BY <1>5, <1>6, <1>7, <1>8, <1>9 DEF QInv

(* Up to one past the bound an attempt is counted.                         *)
LEMMA CountedFacts ==
    ASSUME NEW n \in Nat
    PROVE  Counted(n) \in Nat /\ (n \in 0 .. MaxRetries => Counted(n) = n + 1)
BY QueueAssumption DEF Counted

(* BRPOP and the call of send_message.                                     *)
LEMMA PopKeeps == ASSUME QInv, Pop PROVE QInv'
<1> DEFINE n == Head(queue).id
<1>1. /\ queue # <<>> /\ queue' = Tail(queue) /\ hand' = Head(queue)
      /\ attempts' = [attempts EXCEPT ![n] = Counted(@)]
      /\ passed' = [m \in Messages |->
                        IF \E k \in 2 .. Len(queue) : queue[k].id = m
                        THEN passed[m] \cup {n} ELSE {}]
      /\ sender = "pop" /\ sender' = "send"
      /\ UNCHANGED <<deadLetter, enqueued, sent, faults>>
    BY DEF Pop, AfterPop
<1>2. /\ queue' \in Seq(Items)
      /\ Head(queue) \in Items /\ 1 \in DOMAIN queue
      /\ Head(queue) = queue[1]
      /\ QueuedIds' \subseteq QueuedIds
      /\ n \in QueuedIds /\ n \notin QueuedIds'
      /\ \A j, k \in DOMAIN queue' : queue'[j].id = queue'[k].id => j = k
      /\ \A k \in DOMAIN queue' :
            k + 1 \in DOMAIN queue /\ queue'[k] = queue[k + 1]
      /\ DOMAIN queue' \subseteq Nat \ {0}
    BY <1>1, TakeKeeps
<1>3. n \in Messages /\ Head(queue).retries \in 0 .. MaxRetries
    BY <1>2 DEF Items
<1>4. attempts[n] = Head(queue).retries  BY <1>2 DEF QInv, CountsAgree
<1> HIDE DEF n
<1>5. /\ attempts \in [Messages -> Nat] /\ passed \in [Messages -> SUBSET Messages]
      /\ n \in enqueued /\ n \notin deadLetter
    BY <1>2 DEF QInv, QueueTypeOK, OneCopy, CountsAgree
<1>6. QueueTypeOK'
  <2>1. attempts' \in [Messages -> Nat]
      BY <1>1, <1>5, CountedFacts
  <2> QED  BY <1>1, <1>2, <1>3, <1>5, <2>1 DEF QInv, QueueTypeOK, Holding, n
<1>7. OneCopy'
    BY <1>1, <1>2, <1>5 DEF QInv, OneCopy, n
<1>8. CountsAgree'
  <2>1. \A k \in DOMAIN queue' : attempts'[queue'[k].id] = queue'[k].retries
    <3> SUFFICES ASSUME NEW k \in DOMAIN queue'
                 PROVE  attempts'[queue'[k].id] = queue'[k].retries
        OBVIOUS
    <3>1. queue'[k].id \in QueuedIds'  BY DEF QueuedIds
    <3>2. queue'[k].id # n  BY <3>1, <1>2
    <3>3. attempts[queue[k + 1].id] = queue[k + 1].retries
        BY <1>2 DEF QInv, CountsAgree
    <3> QED  BY <3>2, <3>3, <1>1, <1>2, <1>5
  <2>2. attempts'[n] = Head(queue).retries + 1
      BY <1>1, <1>3, <1>4, <1>5, CountedFacts
  <2> QED  BY <2>1, <2>2, <1>1, <1>2, <1>3, <1>5 DEF QInv, CountsAgree, n
<1>9. AttemptsBounded'
  <2>3. attempts'[n] = Head(queue).retries + 1
      BY <1>1, <1>3, <1>4, <1>5, CountedFacts
  <2>1. attempts'[n] \in 1 .. MaxRetries + 1
      BY <1>3, <2>3, QueueAssumption
  <2>2. \A m \in Messages : m # n => attempts'[m] = attempts[m]
      BY <1>1, <1>5
  <2> QED  BY <2>1, <2>2, <1>1, <1>5 DEF QInv, AttemptsBounded
<1>10. OrderKept'
  <2> SUFFICES ASSUME NEW j \in DOMAIN queue', NEW k \in DOMAIN queue', j < k
               PROVE  queue'[j].id \notin passed'[queue'[k].id]
      BY DEF OrderKept
  <2>1. queue'[j].id \in QueuedIds' /\ queue'[j].id # n
      BY <1>2 DEF QueuedIds
  <2>2. /\ queue'[j] = queue[j + 1] /\ queue'[k] = queue[k + 1]
        /\ j + 1 \in DOMAIN queue /\ k + 1 \in DOMAIN queue /\ j + 1 < k + 1
      BY <1>2
  <2>3. queue[j + 1].id \notin passed[queue[k + 1].id]
      BY <2>2 DEF QInv, OrderKept
  <2>4. queue'[k].id \in Messages
    <3>1. queue'[k] \in Items  BY <1>2
    <3> QED  BY <3>1 DEF Items
  <2>5. passed'[queue'[k].id] \subseteq passed[queue'[k].id] \cup {n}
      BY <1>1, <2>4
  <2> QED  BY <2>1, <2>2, <2>3, <2>5
<1> QED  BY <1>6, <1>7, <1>8, <1>9, <1>10 DEF QInv

(* The send: the message stays in hand, or is gone for good.               *)
LEMMA SendKeeps == ASSUME QInv, SendOk \/ SendRaises PROVE QInv'
<1>1. /\ sender = "send" /\ hand \in Items /\ hand.id \in Messages
      /\ hand.retries \in 0 .. MaxRetries
      /\ attempts[hand.id] = hand.retries + 1 /\ hand.id \in enqueued
    BY DEF QInv, QueueTypeOK, CountsAgree, Holding, SendOk, SendRaises, Items
<1>2. /\ UNCHANGED <<queue, deadLetter, enqueued, attempts, passed, faults>>
      /\ sent' \subseteq sent \cup {hand.id}
      /\ \/ sender' = "pause" /\ hand' = NoItem
         \/ sender' = "requeue" /\ hand.retries < MaxRetries /\ hand' = hand
         \/ sender' = "bury" /\ hand.retries = MaxRetries /\ hand' = hand
    BY <1>1, QueueAssumption DEF SendOk, SendRaises, Deliver, AfterFailure
<1>3. QueueTypeOK'
    BY <1>1, <1>2 DEF QInv, QueueTypeOK, Holding
<1>4. NoMessage \notin QueuedIds /\ NoMessage \notin deadLetter
    BY QueueAssumption DEF QInv, QueueTypeOK, CountsAgree
<1>5. OneCopy'
    BY <1>2, <1>4 DEF QInv, OneCopy, QueuedIds, NoItem
<1>6. CountsAgree'
    BY <1>1, <1>2 DEF QInv, CountsAgree, QueuedIds, Holding
<1>7. AttemptsBounded'
    BY <1>1, <1>2 DEF QInv, AttemptsBounded
<1>8. OrderKept'  BY <1>2 DEF QInv, OrderKept
<1> QED  BY <1>3, <1>5, <1>6, <1>7, <1>8 DEF QInv

(* LPUSH of the message in hand with its next retry count.                 *)
LEMMA RequeueKeeps == ASSUME QInv, Requeue PROVE QInv'
<1> DEFINE item == Requeued
<1>1. /\ sender = "requeue" /\ hand \in Items /\ hand.id \in Messages
      /\ hand.retries \in 0 .. MaxRetries /\ hand.retries < MaxRetries
      /\ attempts[hand.id] = hand.retries + 1 /\ hand.id \in enqueued
      /\ hand.id \notin QueuedIds /\ hand.id \notin deadLetter
    BY DEF QInv, QueueTypeOK, CountsAgree, OneCopy, Holding, Requeue, Items
<1>2. item \in Items /\ item.id = hand.id /\ item.retries = hand.retries + 1
    BY <1>1, QueueAssumption DEF Items, Requeued
<1>3. /\ Push(item) /\ sender' = "pause" /\ hand' = NoItem
      /\ UNCHANGED <<deadLetter, enqueued, attempts, sent, faults>>
    BY DEF Requeue
<1> HIDE DEF item
<1>4. /\ queue' \in Seq(Items)
      /\ passed' \in [Messages -> SUBSET Messages]
      /\ QueuedIds' = QueuedIds \cup {hand.id}
      /\ \A j, k \in DOMAIN queue' : queue'[j].id = queue'[k].id => j = k
      /\ OrderKept'
      /\ \A k \in DOMAIN queue' :
            queue'[k] = item \/ (k \in DOMAIN queue /\ queue'[k] = queue[k])
    BY <1>1, <1>2, <1>3, PushKeeps
<1>5. NoMessage \notin QueuedIds' /\ NoMessage \notin deadLetter
    BY <1>1, <1>4, QueueAssumption DEF QInv, QueueTypeOK, CountsAgree
<1>6. QueueTypeOK'
    BY <1>3, <1>4 DEF QInv, QueueTypeOK, Holding
<1>7. OneCopy'
    BY <1>1, <1>3, <1>4, <1>5 DEF QInv, OneCopy, NoItem
<1>8. CountsAgree'
    BY <1>1, <1>2, <1>3, <1>4 DEF QInv, CountsAgree, Holding
<1>9. AttemptsBounded'
    BY <1>3 DEF QInv, AttemptsBounded
<1> QED  BY <1>4, <1>6, <1>7, <1>8, <1>9 DEF QInv

(* LPUSH of the message in hand to the dead letters.                       *)
LEMMA BuryKeeps == ASSUME QInv, Bury PROVE QInv'
<1>1. /\ sender = "bury" /\ hand \in Items /\ hand.id \in Messages
      /\ hand.retries = MaxRetries
      /\ attempts[hand.id] = MaxRetries + 1 /\ hand.id \in enqueued
      /\ hand.id \notin QueuedIds
    BY DEF QInv, QueueTypeOK, CountsAgree, OneCopy, Holding, Bury, Items
<1>2. /\ deadLetter' = deadLetter \cup {hand.id}
      /\ sender' = "pause" /\ hand' = NoItem
      /\ UNCHANGED <<queue, enqueued, attempts, sent, passed, faults>>
    BY DEF Bury
<1>3. NoMessage \notin QueuedIds /\ NoMessage \notin deadLetter'
    BY <1>1, <1>2, QueueAssumption DEF QInv, QueueTypeOK, CountsAgree
<1>4. QueueTypeOK'
    BY <1>1, <1>2 DEF QInv, QueueTypeOK, Holding
<1>5. QueuedIds' = QueuedIds  BY <1>2 DEF QueuedIds
<1>6. OneCopy'
    BY <1>1, <1>2, <1>3, <1>5 DEF QInv, OneCopy, NoItem
<1>7. CountsAgree'
    BY <1>2, <1>5 DEF QInv, CountsAgree, Holding
<1>8. AttemptsBounded'
    BY <1>1, <1>2 DEF QInv, AttemptsBounded
<1>9. OrderKept'  BY <1>2 DEF QInv, OrderKept
<1> QED  BY <1>4, <1>6, <1>7, <1>8, <1>9 DEF QInv

(* The task loses what it held, and perhaps a message BRPOP took out.      *)
LEMMA UnansweredKeeps ==
    ASSUME QInv, Unanswered, sender' \in {"off", "pause"},
           faults' \in 0 .. MaxFaults
    PROVE  QInv'
<1>1. /\ hand' = NoItem
      /\ UNCHANGED <<deadLetter, enqueued, attempts, sent, passed>>
    BY DEF Unanswered
<1>2. /\ queue' \in Seq(Items) /\ QueuedIds' \subseteq QueuedIds
      /\ \A j, k \in DOMAIN queue' : queue'[j].id = queue'[k].id => j = k
      /\ \A k \in DOMAIN queue' :
            \E i \in DOMAIN queue : queue'[k] = queue[i]
      /\ OrderKept'
  <2>1. CASE UNCHANGED queue
      BY <2>1, <1>1 DEF QInv, QueueTypeOK, OneCopy, OrderKept, QueuedIds
  <2>2. CASE queue # <<>> /\ queue' = Tail(queue)
    <3>1. /\ queue' \in Seq(Items) /\ QueuedIds' \subseteq QueuedIds
          /\ \A j, k \in DOMAIN queue' : queue'[j].id = queue'[k].id => j = k
          /\ \A k \in DOMAIN queue' :
                k + 1 \in DOMAIN queue /\ queue'[k] = queue[k + 1]
          /\ DOMAIN queue' \subseteq Nat \ {0}
        BY <2>2, TakeKeeps
    <3>2. ASSUME NEW j \in DOMAIN queue', NEW k \in DOMAIN queue', j < k
          PROVE  queue'[j].id \notin passed'[queue'[k].id]
      <4>1. j + 1 \in DOMAIN queue /\ k + 1 \in DOMAIN queue /\ j + 1 < k + 1
          BY <3>1, <3>2
      <4> QED  BY <4>1, <3>1, <1>1 DEF QInv, OrderKept
    <3> QED  BY <3>1, <3>2 DEF OrderKept
  <2> QED  BY <2>1, <2>2 DEF Unanswered
<1>3. NoMessage \notin QueuedIds' /\ NoMessage \notin deadLetter
    BY <1>2, QueueAssumption DEF QInv, QueueTypeOK, CountsAgree
<1>4. QueueTypeOK'
    BY <1>1, <1>2 DEF QInv, QueueTypeOK, Holding
<1>5. OneCopy'
    BY <1>1, <1>2, <1>3 DEF QInv, OneCopy, NoItem
<1>6. CountsAgree'
    BY <1>1, <1>2 DEF QInv, CountsAgree, Holding
<1>7. AttemptsBounded'
    BY <1>1 DEF QInv, AttemptsBounded
<1> QED  BY <1>2, <1>4, <1>5, <1>6, <1>7 DEF QInv

----------------------------------------------------------------------------
(* Every step of the queue keeps the invariant.                            *)
LEMMA QStep == ASSUME QInv, [QueueNext]_qvars PROVE QInv'
<1>1. CASE UNCHANGED qvars
    BY <1>1 DEF qvars, QInv, QueueTypeOK, OneCopy, CountsAgree,
                AttemptsBounded, OrderKept, QueuedIds
<1>2. ASSUME NEW m \in Messages, Enqueue(m) PROVE QInv'
    BY <1>2, EnqueueKeeps
<1>3. CASE StartSender
    BY <1>3, IdleKeeps DEF StartSender, QInv, QueueTypeOK, Holding
<1>4. CASE Pop  BY <1>4, PopKeeps
<1>5. CASE SendOk \/ SendRaises  BY <1>5, SendKeeps
<1>6. CASE Requeue  BY <1>6, RequeueKeeps
<1>7. CASE Bury  BY <1>7, BuryKeeps
<1>8. CASE Resume
    BY <1>8, IdleKeeps DEF Resume, QInv, QueueTypeOK, Holding
<1>9. CASE SenderRaises
  <2>1. faults' \in 0 .. MaxFaults
      BY <1>9, QueueAssumption DEF SenderRaises, QInv, QueueTypeOK
  <2> QED  BY <2>1, <1>9, UnansweredKeeps DEF SenderRaises, AfterError
<1>10. CASE DropSender
    BY <1>10, UnansweredKeeps DEF DropSender, QInv, QueueTypeOK
<1>11. CASE /\ faults < MaxFaults /\ faults' = faults + 1
            /\ UNCHANGED <<queue, deadLetter, sender, hand, enqueued, attempts,
                           sent, passed>>
    BY <1>11, QueueAssumption
       DEF QInv, QueueTypeOK, OneCopy, CountsAgree, AttemptsBounded, OrderKept,
           QueuedIds
<1> QED
    BY <1>1, <1>2, <1>3, <1>4, <1>5, <1>6, <1>7, <1>8, <1>9, <1>10, <1>11
       DEF QueueNext, SenderStep

(* The invariant of the queue holds in every reachable state.              *)
THEOREM QueueCorrect == QueueSpec => []QInv
<1>1. QueueInit => QInv  BY QInit
<1>2. QInv /\ [QueueNext]_qvars => QInv'  BY QStep
<1> QED  BY <1>1, <1>2, PTL DEF QueueSpec

(* A message is in one place only: never twice in the list, never in the   *)
(* list and in the sender's hand or the dead letters (tg_queue.py:52-68).  *)
THEOREM OneCopyCorrect == QueueSpec => []OneCopy
<1>1. QInv => OneCopy  BY DEF QInv
<1> QED  BY <1>1, QueueCorrect, PTL

(* A message is sent at most MAX_RETRIES + 1 times, and a dead letter had  *)
(* all of these attempts (tg_queue.py:64-68).                              *)
THEOREM AttemptsCorrect == QueueSpec => []AttemptsBounded
<1>1. QInv => AttemptsBounded  BY DEF QInv
<1> QED  BY <1>1, QueueCorrect, PTL

(* While a message waits in the list, no other message is attempted twice  *)
(* (tg_queue.py:66 pushes at the end BRPOP does not take from).            *)
THEOREM RetriesGoLastCorrect == QueueSpec => RetriesGoLast
<1> DEFINE A == \A n \in Messages : attempts'[n] > attempts[n] =>
                   \A k \in DOMAIN queue' : n \notin passed[queue'[k].id]
<1>1. ASSUME QInv, [QueueNext]_qvars PROVE [A]_qvars
  <2> SUFFICES ASSUME NEW n \in Messages, attempts'[n] > attempts[n],
                      NEW k \in DOMAIN queue'
               PROVE  n \notin passed[queue'[k].id]
      OBVIOUS
  <2>1. attempts \in [Messages -> Nat]  BY <1>1 DEF QInv, QueueTypeOK
  <2>2. attempts' # attempts  BY <2>1
  <2>3. Pop
      BY <1>1, <2>2 DEF QueueNext, SenderStep, Enqueue, Put, StartSender,
         SendOk, SendRaises, Requeue, Bury, Resume, SenderRaises, DropSender,
         Unanswered, qvars
  <2>4. /\ queue # <<>> /\ queue' = Tail(queue)
        /\ attempts' = [attempts EXCEPT ![Head(queue).id] = Counted(@)]
      BY <2>3 DEF Pop, AfterPop
  <2>5. n = Head(queue).id  BY <2>1, <2>4
  <2>6. /\ Head(queue) = queue[1] /\ 1 \in DOMAIN queue
        /\ k + 1 \in DOMAIN queue /\ queue'[k] = queue[k + 1]
        /\ k \in Nat \ {0}
      BY <1>1, <2>4, TakeKeeps
  <2> QED  BY <1>1, <2>5, <2>6 DEF QInv, OrderKept
<1>2. QInv /\ [QueueNext]_qvars => [A]_qvars  BY <1>1
<1> QED  BY <1>2, QueueCorrect, PTL DEF QueueSpec, RetriesGoLast

----------------------------------------------------------------------------
(***************************************************************************)
(* The service.                                                            *)
(***************************************************************************)
(* The reply in hand: parts of different streams, delivered, not empty,    *)
(* with cur walking through the first; acknowledged entries were           *)
(* delivered; a stopped process has no reply.                              *)
ReplyShape ==
    /\ \A s \in Streams : \A i \in acked[s] : i <= last[s]
    /\ \A k \in DOMAIN reply : /\ reply[k].lo <= reply[k].hi
                               /\ reply[k].hi <= last[reply[k].stream]
    /\ \A j, k \in DOMAIN reply : reply[j].stream = reply[k].stream => j = k
    /\ pc = "handle" => cur \in reply[1].lo .. reply[1].hi
    /\ proc = "down" => pc = "off"

\* entry i of the k-th part of the reply has not been handled yet
Waiting(k, i) == /\ i \in reply[k].lo .. reply[k].hi
                 /\ k = 1 => pc = "handle" /\ cur <= i

(* An enqueued entry was delivered and is not waiting to be handled.       *)
Fresh ==
    \A s \in Streams, i \in Ids : <<s, i>> \in enqueued =>
        /\ i <= last[s]
        /\ \A k \in DOMAIN reply : reply[k].stream = s => ~Waiting(k, i)

\* entry i of stream s was handled and its XACK is done or next
Handled(s, i) ==
    \/ i \in acked[s]
    \/ /\ reply # <<>> /\ reply[1].stream = s
       /\ i \in reply[1].lo .. reply[1].hi
       /\ pc = "handle" => i < cur

(* entry i of stream s is an alert that was handled and not enqueued       *)
Missed(s, i) ==
    /\ i \in DOMAIN entries[s] /\ entries[s][i] = "alert"
    /\ Handled(s, i) /\ <<s, i>> \notin enqueued

(* A step adds no missed alert, or the one whose enqueue has just failed.  *)
MissesNone == \A s \in Streams, i \in Ids : Missed(s, i)' => Missed(s, i)
MissesOne ==
    /\ faults' = faults + 1
    /\ \A s \in Streams, i \in Ids :
          Missed(s, i)' => Missed(s, i) \/ <<s, i>> = Current

NInv == QInv /\ TypeOK /\ ReplyShape /\ Fresh

----------------------------------------------------------------------------
(* Two parts in a row.                                                     *)
LEMMA TwoParts ==
    ASSUME NEW S, NEW a \in S, NEW b \in S
    PROVE  /\ <<a>> \o <<b>> \in Seq(S) /\ DOMAIN (<<a>> \o <<b>>) = {1, 2}
           /\ (<<a>> \o <<b>>)[1] = a /\ (<<a>> \o <<b>>)[2] = b
<1>1. <<a>> \in Seq(S) /\ <<b>> \in Seq(S) /\ Len(<<a>>) = 1 /\ Len(<<b>>) = 1
    OBVIOUS
<1> QED  BY <1>1

(* What a read returns: parts past the cursor, up to what is published, at *)
(* most one per stream.                                                    *)
LEMMA ReplyFacts ==
    ASSUME TypeOK
    PROVE  /\ Reply \in Seq(Parts)
           /\ \A s \in Streams : /\ Upto(s) \in Nat /\ last[s] <= Upto(s)
                                 /\ Upto(s) <= Len(entries[s])
                                 /\ FirstNew(s) \in Nat /\ last[s] < FirstNew(s)
                                 /\ FirstNew(s) .. Upto(s) \subseteq Ids
           /\ \A k \in DOMAIN Reply :
                 /\ Reply[k].stream \in Streams
                 /\ Reply[k].lo = FirstNew(Reply[k].stream)
                 /\ Reply[k].hi = Upto(Reply[k].stream)
                 /\ Reply[k].lo <= Reply[k].hi
           /\ \A j, k \in DOMAIN Reply : Reply[j].stream = Reply[k].stream => j = k
<1> DEFINE O == "opportunities"
           T == "trades"
<1>1. /\ \A s \in Streams : last[s] \in Nat /\ last[s] <= Len(entries[s])
      /\ \A s \in Streams : entries[s] \in Seq(Kinds)
      /\ \A s \in Streams : /\ trimmed[s] \in Nat
                            /\ trimmed[s] = 0 \/ trimmed[s] + MaxLen <= Len(entries[s])
      /\ Len(entries[O]) + Len(entries[T]) <= MaxEntries
    BY DEF TypeOK
<1>2. \A s \in Streams : Len(entries[s]) \in Nat  BY <1>1
<1>3. O \in Streams /\ T \in Streams /\ Streams = {O, T} /\ O # T  BY DEF Streams
<1>4. \A s \in Streams : Len(entries[s]) <= MaxEntries
  <2>1. Len(entries[O]) \in Nat /\ Len(entries[T]) \in Nat  BY <1>2, <1>3
  <2>2. Len(entries[O]) <= MaxEntries /\ Len(entries[T]) <= MaxEntries
    <3>1. \A a, b, c \in Nat : a + b <= c => a <= c /\ b <= c  OBVIOUS
    <3>2. MaxEntries \in Nat  BY NotifierAssumption
    <3> HIDE DEF O, T
    <3> QED  BY <1>1, <2>1, <3>1, <3>2
  <2> QED  BY <1>3, <2>2
<1>5. \A s \in Streams : /\ Upto(s) \in Nat /\ last[s] <= Upto(s)
                         /\ Upto(s) <= Len(entries[s])
                         /\ FirstNew(s) \in Nat /\ last[s] < FirstNew(s)
  <2> SUFFICES ASSUME NEW s \in Streams
               PROVE  /\ Upto(s) \in Nat /\ last[s] <= Upto(s)
                      /\ Upto(s) <= Len(entries[s])
                      /\ FirstNew(s) \in Nat /\ last[s] < FirstNew(s)
      OBVIOUS
  <2>1. /\ last[s] \in Nat /\ trimmed[s] \in Nat /\ Len(entries[s]) \in Nat
        /\ last[s] <= Len(entries[s])
        /\ trimmed[s] = 0 \/ trimmed[s] + MaxLen <= Len(entries[s])
      BY <1>2 DEF TypeOK
  <2>2. BatchCount \in Nat \ {0} /\ MaxLen \in Nat \ {0}
      BY NotifierAssumption
  <2>3. /\ FirstNew(s) \in Nat /\ last[s] < FirstNew(s)
        /\ FirstNew(s) <= Len(entries[s]) + 1
      BY <2>1, <2>2 DEF FirstNew
  <2> QED  BY <2>1, <2>2, <2>3 DEF Upto
<1>6. \A s \in Streams : FirstNew(s) .. Upto(s) \subseteq Ids
    BY <1>1, <1>2, <1>4, <1>5, NotifierAssumption DEF Ids
<1> DEFINE part(s) == [stream |-> s, lo |-> FirstNew(s), hi |-> Upto(s)]
<1>7. \A s \in Streams :
         \/ Part(s) = <<>>
         \/ Part(s) = <<part(s)>> /\ FirstNew(s) <= Upto(s) /\ part(s) \in Parts
  <2> SUFFICES ASSUME NEW s \in Streams, FirstNew(s) <= Upto(s)
               PROVE  part(s) \in Parts
      BY DEF Part
  <2>1. FirstNew(s) \in Ids /\ Upto(s) \in Ids
    <3>1. FirstNew(s) \in FirstNew(s) .. Upto(s) /\ Upto(s) \in FirstNew(s) .. Upto(s)
        BY <1>1, <1>5
    <3> QED  BY <3>1, <1>6
  <2> QED  BY <2>1 DEF Parts
<1>8. \A s \in Streams : /\ part(s).stream = s /\ part(s).lo = FirstNew(s)
                         /\ part(s).hi = Upto(s)
    OBVIOUS
<1> HIDE DEF part, O, T
<1>9. Reply = Part(O) \o Part(T)  BY DEF Reply, O, T
<1>10. CASE Part(O) = <<>> /\ Part(T) = <<>>
    BY <1>5, <1>6, <1>9, <1>10
<1>11. CASE Part(O) = <<part(O)>> /\ Part(T) = <<>>
  <2>1. Reply = <<part(O)>>  BY <1>9, <1>11
  <2>2. part(O) \in Parts /\ FirstNew(O) <= Upto(O)  BY <1>3, <1>7, <1>11
  <2>3. Reply \in Seq(Parts) /\ DOMAIN Reply = {1} /\ Reply[1] = part(O)
      BY <2>1, <2>2
  <2> HIDE DEF Reply
  <2> QED  BY <1>3, <1>5, <1>6, <1>8, <2>2, <2>3
<1>12. CASE Part(O) = <<>> /\ Part(T) = <<part(T)>>
  <2>1. Reply = <<part(T)>>  BY <1>9, <1>12
  <2>2. part(T) \in Parts /\ FirstNew(T) <= Upto(T)  BY <1>3, <1>7, <1>12
  <2>3. Reply \in Seq(Parts) /\ DOMAIN Reply = {1} /\ Reply[1] = part(T)
      BY <2>1, <2>2
  <2> QED  BY <1>3, <1>5, <1>6, <1>8, <2>2, <2>3
<1>13. CASE Part(O) = <<part(O)>> /\ Part(T) = <<part(T)>>
  <2>1. Reply = <<part(O)>> \o <<part(T)>>  BY <1>9, <1>13
  <2>2. /\ part(O) \in Parts /\ FirstNew(O) <= Upto(O)
        /\ part(T) \in Parts /\ FirstNew(T) <= Upto(T)
      BY <1>3, <1>7, <1>13
  <2>3. /\ Reply \in Seq(Parts) /\ DOMAIN Reply = {1, 2}
        /\ Reply[1] = part(O) /\ Reply[2] = part(T)
      BY <2>1, <2>2, TwoParts
  <2> QED  BY <1>3, <1>5, <1>6, <1>8, <2>2, <2>3
<1> QED  BY <1>3, <1>7, <1>10, <1>11, <1>12, <1>13

(* The first part of a reply, and what is left after it.                   *)
LEMMA RestFacts ==
    ASSUME TypeOK, reply # <<>>
    PROVE  /\ 1 \in DOMAIN reply /\ Head(reply) = reply[1] /\ reply[1] \in Parts
           /\ Tail(reply) \in Seq(Parts)
           /\ DOMAIN Tail(reply) \subseteq Nat \ {0}
           /\ \A k \in DOMAIN Tail(reply) :
                 k + 1 \in DOMAIN reply /\ Tail(reply)[k] = reply[k + 1]
<1>1. reply \in Seq(Parts)  BY DEF TypeOK
<1>2. /\ Tail(reply) \in Seq(Parts)
      /\ DOMAIN reply = 1 .. Len(reply) /\ Len(reply) \in Nat /\ Len(reply) > 0
      /\ DOMAIN Tail(reply) = 1 .. Len(reply) - 1
      /\ \A k \in 1 .. Len(reply) - 1 : Tail(reply)[k] = reply[k + 1]
      /\ Head(reply) = reply[1] /\ Head(reply) \in Parts
    BY <1>1, TailFacts
<1> QED  BY <1>2

(* The entry in hand: published, delivered and never enqueued.             *)
LEMMA CurrentFacts ==
    ASSUME NInv, pc = "handle"
    PROVE  /\ reply # <<>> /\ reply[1] \in Parts /\ Head(reply) = reply[1]
           /\ Current = <<reply[1].stream, cur>>
           /\ reply[1].stream \in Streams /\ cur \in Ids
           /\ cur \in reply[1].lo .. reply[1].hi
           /\ cur \in DOMAIN entries[reply[1].stream]
           /\ Current \in Messages /\ Current \notin enqueued
<1>1. reply # <<>>  BY DEF NInv, TypeOK
<1>2. 1 \in DOMAIN reply /\ Head(reply) = reply[1] /\ reply[1] \in Parts
    BY <1>1, RestFacts DEF NInv
<1>3. /\ reply[1].stream \in Streams /\ reply[1].lo \in Ids /\ reply[1].hi \in Ids
    BY <1>2 DEF Parts
<1>4. cur \in reply[1].lo .. reply[1].hi /\ reply[1].hi <= last[reply[1].stream]
    BY <1>2 DEF NInv, ReplyShape
<1>5. cur \in Ids  BY <1>3, <1>4, NotifierAssumption DEF Ids
<1>6. cur \in DOMAIN entries[reply[1].stream]
  <2>1. /\ entries[reply[1].stream] \in Seq(Kinds)
        /\ last[reply[1].stream] \in Nat
        /\ last[reply[1].stream] <= Len(entries[reply[1].stream])
      BY <1>3 DEF NInv, TypeOK
  <2> QED  BY <2>1, <1>3, <1>4, <1>5 DEF Ids
<1>7. Current = <<reply[1].stream, cur>>  BY <1>2 DEF Current
<1>8. Current \in Messages  BY <1>3, <1>5, <1>7, NotifierAssumption DEF Alerts
<1>9. Current \notin enqueued
  <2>1. Waiting(1, cur)  BY <1>3, <1>4, <1>5 DEF Waiting, Ids
  <2> QED  BY <2>1, <1>2, <1>3, <1>5, <1>7 DEF NInv, Fresh
<1> QED  BY <1>1, <1>2, <1>3, <1>4, <1>5, <1>6, <1>7, <1>8, <1>9

----------------------------------------------------------------------------
(* Every step of the service is a step of the queue or leaves it alone.    *)
LEMMA QueueSteps == ASSUME NInv, [Next]_vars PROVE [QueueNext]_qvars
<1>1. ASSUME pc = "handle", Put(Current) PROVE QueueNext
    BY <1>1, CurrentFacts DEF Enqueue, QueueNext
<1>2. CASE Notify
    BY <1>2, NotifierAssumption DEF Notify, QueueNext
<1>3. CASE LifeStep
    BY <1>3 DEF LifeStep, Boot, EnsureGroups, FinishStop, QueueNext
<1>4. CASE HandleAlert
    BY <1>1, <1>4 DEF HandleAlert
<1>5. CASE Read \/ ReadNothing \/ HandleQuiet \/ Ack \/ Wake
    BY <1>5 DEF Read, ReadNothing, HandleQuiet, Ack, Wake
<1>6. CASE EnqueueRaises \/ ConsumeRaises
    BY <1>6 DEF EnqueueRaises, ConsumeRaises, CountFault, QueueNext
<1>7. CASE SenderStep \/ SenderRaises
    BY <1>7 DEF QueueNext
<1>8. CASE BeginStop \/ Crash
    BY <1>8 DEF BeginStop, Crash, QueueNext
<1>9. CASE \E s \in Streams : Publish(s)
    BY <1>9 DEF Publish
<1>10. CASE UNCHANGED vars
    BY <1>10 DEF vars
<1> QED
    BY <1>2, <1>3, <1>4, <1>5, <1>6, <1>7, <1>8, <1>9, <1>10
       DEF Next, ConsumeStep

(* What a step of the queue can do to its history.                         *)
LEMMA QueueGrows ==
    ASSUME NInv, [QueueNext]_qvars
    PROVE  /\ enqueued \subseteq enqueued'
           /\ faults \in Nat /\ faults' \in Nat /\ faults <= faults'
<1>1. faults \in Nat  BY QueueAssumption DEF NInv, QInv, QueueTypeOK
<1>2. CASE UNCHANGED qvars  BY <1>1, <1>2 DEF qvars
<1>3. CASE \E m \in Messages : Enqueue(m)  BY <1>1, <1>3 DEF Enqueue, Put
<1>4. CASE StartSender \/ SenderStep \/ DropSender
    BY <1>1, <1>4 DEF StartSender, SenderStep, DropSender, Pop, SendOk, SendRaises,
                Requeue, Bury, Resume, Unanswered
<1>5. CASE SenderRaises  BY <1>1, <1>5 DEF SenderRaises, Unanswered
<1> QED  BY <1>1, <1>2, <1>3, <1>4, <1>5 DEF QueueNext

----------------------------------------------------------------------------
(* A handled entry was delivered.                                          *)
LEMMA HandledBehind ==
    ASSUME NInv, NEW s \in Streams, NEW i, Handled(s, i)
    PROVE  i \in Nat /\ i <= last[s]
<1>1. CASE i \in acked[s]
  <2>1. i \in Ids  BY <1>1 DEF NInv, TypeOK
  <2> QED  BY <1>1, <2>1 DEF NInv, ReplyShape, Ids
<1>2. CASE reply # <<>> /\ reply[1].stream = s /\ i \in reply[1].lo .. reply[1].hi
  <2>1. 1 \in DOMAIN reply /\ reply[1] \in Parts  BY <1>2, RestFacts DEF NInv
  <2>2. reply[1].hi \in Nat /\ reply[1].lo \in Nat  BY <2>1 DEF Parts, Ids
  <2>3. reply[1].hi <= last[s]  BY <1>2, <2>1 DEF NInv, ReplyShape
  <2>4. last[s] \in Nat  BY DEF NInv, TypeOK
  <2> QED  BY <1>2, <2>2, <2>3, <2>4
<1> QED  BY <1>1, <1>2 DEF Handled

(* The loop stands still: the sender moves, a note is enqueued, or the     *)
(* lifespan turns to its end.                                              *)
LEMMA StillKeeps ==
    ASSUME NInv, QueueTypeOK', UNCHANGED <<stream, task>>,
           enqueued' \cap Alerts \subseteq enqueued, enqueued \subseteq enqueued',
           proc' = "down" => proc = "down",
           proc' \in {"down", "boot", "up", "stopping"}, stops' \in 0 .. MaxStops
    PROVE  TypeOK' /\ ReplyShape' /\ Fresh' /\ MissesNone
<1>1. UNCHANGED <<entries, trimmed, group, last, pel, acked, pc, reply, cur>>
    BY DEF stream, task
<1>2. TypeOK'  BY <1>1 DEF NInv, TypeOK
<1>3. ReplyShape'  BY <1>1 DEF NInv, ReplyShape
<1>4. Fresh'
  <2>1. \A s \in Streams, i \in Ids : <<s, i>> \in enqueued' => <<s, i>> \in enqueued
      BY DEF Alerts
  <2> QED  BY <1>1, <2>1 DEF NInv, Fresh, Waiting
<1>5. MissesNone  BY <1>1 DEF MissesNone, Missed, Handled
<1> QED  BY <1>2, <1>3, <1>4, <1>5

(* The loop has no reply in hand after the step: a restart, a read that    *)
(* raises, the end of a sleep.  The cursors may have moved on.             *)
LEMMA EmptyKeeps ==
    ASSUME NInv, QueueTypeOK', reply' = <<>>, cur' \in Nat,
           pc' \in {"off", "group1", "group2", "read", "sleep", "ended"},
           proc' \in {"down", "boot", "up", "stopping"}, stops' \in 0 .. MaxStops,
           enqueued' = enqueued,
           proc' = "down" => pc' = "off", UNCHANGED <<entries, trimmed>>, group' \in [Streams -> BOOLEAN],
           last' \in [Streams -> Nat],
           \A s \in Streams : last[s] <= last'[s] /\ last'[s] <= Len(entries[s]),
           pel' \in [Streams -> SUBSET Ids], acked' \in [Streams -> SUBSET Ids],
           \A s \in Streams : \A i \in acked'[s] : Handled(s, i)
    PROVE  TypeOK' /\ ReplyShape' /\ Fresh' /\ MissesNone
<1>1. TypeOK'
  <2>1. reply' \in Seq(Parts) /\ reply' = <<>>  OBVIOUS
  <2>2. \A s \in Streams : last'[s] <= Len(entries'[s])  OBVIOUS
  <2>3. /\ entries' \in [Streams -> Seq(Kinds)]
        /\ Len(entries'["opportunities"]) + Len(entries'["trades"]) <= MaxEntries
        /\ trimmed' \in [Streams -> Nat]
        /\ \A s \in Streams :
              trimmed'[s] = 0 \/ trimmed'[s] + MaxLen <= Len(entries'[s])
      BY DEF NInv, TypeOK
  <2> QED  BY <2>1, <2>2, <2>3 DEF TypeOK
<1>2. ReplyShape'
  <2>1. ASSUME NEW s \in Streams, NEW i \in acked'[s] PROVE i <= last'[s]
    <3>1. i \in Nat /\ i <= last[s]  BY <2>1, HandledBehind
    <3>2. last[s] \in Nat /\ last'[s] \in Nat /\ last[s] <= last'[s]
        BY DEF NInv, TypeOK
    <3> QED  BY <3>1, <3>2
  <2> QED  BY <2>1 DEF ReplyShape
<1>3. Fresh'
  <2> SUFFICES ASSUME NEW s \in Streams, NEW i \in Ids, <<s, i>> \in enqueued
               PROVE  i <= last'[s]
      BY DEF Fresh
  <2>1. i <= last[s]  BY DEF NInv, Fresh
  <2>2. i \in Nat /\ last[s] \in Nat /\ last'[s] \in Nat /\ last[s] <= last'[s]
      BY DEF NInv, TypeOK, Ids
  <2> QED  BY <2>1, <2>2
<1>4. MissesNone  BY DEF MissesNone, Missed, Handled
<1> QED  BY <1>1, <1>2, <1>3, <1>4

(* The cursors after a reply is delivered.                                 *)
LEMMA DeliveredFacts ==
    ASSUME NInv, Delivered
    PROVE  /\ last' \in [Streams -> Nat] /\ pel' \in [Streams -> SUBSET Ids]
           /\ \A s \in Streams : /\ last'[s] = Upto(s) /\ last[s] <= last'[s]
                                 /\ last'[s] <= Len(entries[s])
           /\ UNCHANGED <<entries, trimmed, group, acked>>
<1>1. \A s \in Streams : /\ Upto(s) \in Nat /\ last[s] <= Upto(s)
                         /\ Upto(s) <= Len(entries[s])
                         /\ FirstNew(s) .. Upto(s) \subseteq Ids
    BY ReplyFacts DEF NInv
<1>2. \A s \in Streams : pel[s] \subseteq Ids  BY DEF NInv, TypeOK
<1> QED  BY <1>1, <1>2 DEF Delivered

(* The acknowledgement of the first part of the reply.                     *)
LEMMA AckFacts ==
    ASSUME NInv, pc = "ack", AckEffect
    PROVE  /\ pel' \in [Streams -> SUBSET Ids] /\ acked' \in [Streams -> SUBSET Ids]
           /\ \A s \in Streams : \A i \in acked'[s] : Handled(s, i)
           /\ UNCHANGED <<entries, trimmed, group, last>>
<1> DEFINE p == reply[1]
<1>1. /\ reply # <<>> /\ p \in Parts /\ Head(reply) = p
    BY RestFacts DEF NInv, TypeOK
<1>2. p.stream \in Streams /\ p.lo \in Ids /\ p.hi \in Ids  BY <1>1 DEF Parts
<1>3. p.lo .. p.hi \subseteq Ids  BY <1>2, NotifierAssumption DEF Ids
<1>4. pel \in [Streams -> SUBSET Ids] /\ acked \in [Streams -> SUBSET Ids]
    BY DEF NInv, TypeOK
<1>5. /\ acked' = [acked EXCEPT ![p.stream] = @ \cup (p.lo .. p.hi)]
      /\ pel' = [pel EXCEPT ![p.stream] = @ \ (p.lo .. p.hi)]
      /\ UNCHANGED <<entries, trimmed, group, last>>
    BY <1>1 DEF AckEffect
<1>6. \A s \in Streams : \A i \in acked'[s] :
          i \in acked[s] \/ (s = p.stream /\ i \in p.lo .. p.hi)
    BY <1>4, <1>5
<1> QED  BY <1>1, <1>2, <1>3, <1>4, <1>5, <1>6 DEF Handled

(* A new entry is past every cursor.                                       *)
LEMMA PublishKeeps ==
    ASSUME NInv, NEW s \in Streams, Publish(s)
    PROVE  TypeOK' /\ ReplyShape' /\ Fresh' /\ MissesNone
<1> DEFINE O == "opportunities"
           T == "trades"
<1>1. /\ UNCHANGED <<qvars, group, last, pel, acked, proc, task, stops>>
      /\ Len(entries[O]) + Len(entries[T]) < MaxEntries
    BY DEF Publish
<1>2. PICK kind \in Kinds, n \in Trims(s, Len(entries[s]) + 1) :
         /\ entries' = [entries EXCEPT ![s] = Append(@, kind)]
         /\ trimmed' = [trimmed EXCEPT ![s] = n]
    BY DEF Publish
<1>3. /\ UNCHANGED <<enqueued, faults, pc, reply, cur>> /\ QueueTypeOK'
    BY <1>1 DEF qvars, task, NInv, TypeOK, QueueTypeOK, Holding
<1>4. /\ entries \in [Streams -> Seq(Kinds)]
      /\ \A t \in Streams : last[t] \in Nat /\ last[t] <= Len(entries[t])
      /\ \A t \in Streams : Len(entries[t]) \in Nat
    BY DEF NInv, TypeOK
<1>5. /\ Append(entries[s], kind) \in Seq(Kinds)
      /\ DOMAIN Append(entries[s], kind) = 1 .. Len(entries[s]) + 1
      /\ DOMAIN entries[s] = 1 .. Len(entries[s])
      /\ \A i \in 1 .. Len(entries[s]) : Append(entries[s], kind)[i] = entries[s][i]
    BY <1>4, AppendFacts
<1>6. /\ entries' \in [Streams -> Seq(Kinds)]
      /\ \A t \in Streams \ {s} : entries'[t] = entries[t]
      /\ entries'[s] = Append(entries[s], kind)
    BY <1>2, <1>4, <1>5
<1>7. Len(entries'[s]) = Len(entries[s]) + 1  BY <1>4, <1>6
<1>8. \A t \in Streams : last'[t] <= Len(entries'[t])
  <2> SUFFICES ASSUME NEW t \in Streams PROVE last[t] <= Len(entries'[t])
      BY <1>1
  <2>1. /\ last[t] \in Nat /\ Len(entries[t]) \in Nat
        /\ last[t] <= Len(entries[t])
      BY <1>4
  <2>2. Len(entries'[t]) = Len(entries[t]) \/ Len(entries'[t]) = Len(entries[t]) + 1
      BY <1>6, <1>7
  <2> QED  BY <2>1, <2>2
<1>9. Len(entries'[O]) + Len(entries'[T]) <= MaxEntries
  <2>1. O \in Streams /\ T \in Streams /\ O # T /\ s \in {O, T}  BY DEF Streams
  <2>2. Len(entries[O]) \in Nat /\ Len(entries[T]) \in Nat  BY <1>4, <2>1
  <2>3. \/ /\ Len(entries'[O]) = Len(entries[O]) + 1
           /\ Len(entries'[T]) = Len(entries[T])
        \/ /\ Len(entries'[T]) = Len(entries[T]) + 1
           /\ Len(entries'[O]) = Len(entries[O])
      BY <1>6, <1>7, <2>1
  <2>4. \A a, b, c \in Nat : a + b < c => a + 1 + b <= c /\ a + (b + 1) <= c
      OBVIOUS
  <2>5. MaxEntries \in Nat  BY NotifierAssumption
  <2> HIDE DEF O, T
  <2> QED  BY <1>1, <2>2, <2>3, <2>4, <2>5
<1>10. TypeOK'
  <2>1. /\ trimmed \in [Streams -> Nat] /\ MaxLen \in Nat
        /\ \A t \in Streams :
              trimmed[t] = 0 \/ trimmed[t] + MaxLen <= Len(entries[t])
      BY NotifierAssumption DEF NInv, TypeOK
  <2>2. /\ n \in trimmed[s] .. Len(entries[s]) + 1
        /\ n = trimmed[s] \/ n + MaxLen <= Len(entries[s]) + 1
      BY DEF Trims
  <2>3. n \in Nat  BY <1>4, <2>1, <2>2
  <2>4. trimmed' \in [Streams -> Nat]  BY <1>2, <2>1, <2>3
  <2>5. ASSUME NEW t \in Streams
        PROVE  trimmed'[t] = 0 \/ trimmed'[t] + MaxLen <= Len(entries'[t])
    <3>1. CASE t = s
      <4>1. trimmed'[t] = n /\ Len(entries'[t]) = Len(entries[s]) + 1
          BY <1>2, <1>7, <2>1, <3>1
      <4>2. /\ trimmed[s] = 0 \/ trimmed[s] + MaxLen <= Len(entries[s])
            /\ trimmed[s] \in Nat /\ Len(entries[s]) \in Nat
          BY <1>4, <2>1
      <4> QED  BY <2>1, <2>2, <2>3, <4>1, <4>2
    <3>2. CASE t # s  BY <1>2, <1>6, <2>1, <3>2
    <3> QED  BY <3>1, <3>2
  <2> QED
      BY <1>1, <1>3, <1>6, <1>8, <1>9, <2>4, <2>5 DEF NInv, TypeOK, task
<1>11. ReplyShape' /\ Fresh'
    BY <1>1, <1>3 DEF NInv, ReplyShape, Fresh, Waiting
<1>12. MissesNone
  <2> SUFFICES ASSUME NEW t \in Streams, NEW i \in Ids, Missed(t, i)'
               PROVE  Missed(t, i)
      BY DEF MissesNone
  <2>0. /\ i \in DOMAIN entries'[t] /\ entries'[t][i] = "alert"
        /\ Handled(t, i) /\ <<t, i>> \notin enqueued
      BY <1>1, <1>3 DEF Missed, Handled
  <2>1. i \in Nat /\ i <= last[t]  BY <2>0, HandledBehind
  <2>2. i \in 1 .. Len(entries'[t]) /\ i \in 1 .. Len(entries[t])
      BY <2>0, <2>1, <1>4, <1>6
  <2>3. entries[t][i] = entries'[t][i]  BY <2>2, <1>5, <1>6
  <2>4. i \in DOMAIN entries[t]  BY <2>2, <1>4
  <2> QED  BY <2>0, <2>3, <2>4 DEF Missed
<1> QED  BY <1>10, <1>11, <1>12

(* A reply is delivered to the loop: every part is past the old cursor.    *)
LEMMA ReadKeeps ==
    ASSUME NInv, Read PROVE TypeOK' /\ ReplyShape' /\ Fresh' /\ MissesNone
<1>1. /\ pc = "read" /\ Reply # <<>> /\ Delivered
      /\ reply' = Reply /\ pc' = "handle" /\ cur' = Head(Reply).lo
      /\ UNCHANGED <<qvars, proc, stops>>
    BY DEF Read, Proceed
<1>2. /\ last' \in [Streams -> Nat] /\ pel' \in [Streams -> SUBSET Ids]
      /\ \A s \in Streams : /\ last'[s] = Upto(s) /\ last[s] <= last'[s]
                            /\ last'[s] <= Len(entries[s])
      /\ UNCHANGED <<entries, trimmed, group, acked>>
    BY <1>1, DeliveredFacts
<1>3. /\ Reply \in Seq(Parts)
      /\ \A k \in DOMAIN Reply : /\ Reply[k].stream \in Streams
                                 /\ Reply[k].lo = FirstNew(Reply[k].stream)
                                 /\ Reply[k].hi = Upto(Reply[k].stream)
                                 /\ Reply[k].lo <= Reply[k].hi
      /\ \A j, k \in DOMAIN Reply : Reply[j].stream = Reply[k].stream => j = k
    BY ReplyFacts DEF NInv
<1>4. 1 \in DOMAIN Reply /\ Head(Reply) = Reply[1] /\ Reply[1] \in Parts
    BY <1>1, <1>3
<1>5. Reply[1].lo \in Nat /\ Reply[1].hi \in Nat  BY <1>4 DEF Parts, Ids
<1>6. UNCHANGED <<enqueued, faults>> /\ QueueTypeOK'
    BY <1>1 DEF qvars, NInv, TypeOK, QueueTypeOK, Holding
<1>7. TypeOK'
  <2>1. reply' \in Seq(Parts) /\ reply' # <<>> /\ cur' \in Nat
      BY <1>1, <1>3, <1>4, <1>5
  <2>2. \A s \in Streams : last'[s] <= Len(entries'[s])  BY <1>2
  <2>3. proc' = proc /\ stops' = stops  BY <1>1
  <2> QED  BY <1>1, <1>2, <1>6, <2>1, <2>2, <2>3 DEF NInv, TypeOK
<1>8. ReplyShape'
  <2>1. \A s \in Streams : \A i \in acked'[s] : i <= last'[s]
    <3> SUFFICES ASSUME NEW s \in Streams, NEW i \in acked[s] PROVE i <= last'[s]
        BY <1>2
    <3>1. i \in Nat /\ i <= last[s]  BY HandledBehind DEF Handled
    <3>2. last[s] \in Nat /\ last'[s] \in Nat  BY <1>2 DEF NInv, TypeOK
    <3> QED  BY <1>2, <3>1, <3>2
  <2>2. \A k \in DOMAIN reply' : reply'[k].hi <= last'[reply'[k].stream]
    <3> SUFFICES ASSUME NEW k \in DOMAIN Reply
                 PROVE  Reply[k].hi <= last'[Reply[k].stream]
        BY <1>1
    <3>1. Reply[k].hi = last'[Reply[k].stream] /\ Reply[k].stream \in Streams
        BY <1>2, <1>3
    <3> QED  BY <1>2, <3>1
  <2>3. cur' \in reply'[1].lo .. reply'[1].hi
      BY <1>1, <1>3, <1>4, <1>5
  <2>4. proc' # "down"  BY <1>1 DEF NInv, ReplyShape
  <2> QED  BY <1>1, <1>3, <2>1, <2>2, <2>3, <2>4 DEF ReplyShape
<1>9. Fresh'
  <2> SUFFICES ASSUME NEW s \in Streams, NEW i \in Ids, <<s, i>> \in enqueued
               PROVE  /\ i <= last'[s]
                      /\ \A k \in DOMAIN Reply : Reply[k].stream = s =>
                            i \notin Reply[k].lo .. Reply[k].hi
      BY <1>1, <1>6 DEF Fresh, Waiting
  <2>1. i \in Nat /\ i <= last[s] /\ last[s] \in Nat /\ last'[s] \in Nat
      BY <1>2 DEF NInv, Fresh, TypeOK, Ids
  <2>2. ASSUME NEW k \in DOMAIN Reply, Reply[k].stream = s
        PROVE  i \notin Reply[k].lo .. Reply[k].hi
    <3>1. Reply[k].lo = FirstNew(s)  BY <1>3, <2>2
    <3>2. FirstNew(s) \in Nat /\ last[s] < FirstNew(s)
        BY ReplyFacts DEF NInv
    <3> QED  BY <2>1, <3>1, <3>2
  <2> QED  BY <1>2, <2>1, <2>2
<1>10. MissesNone
  <2> SUFFICES ASSUME NEW s \in Streams, NEW i \in Ids, Handled(s, i)'
               PROVE  Handled(s, i)
      BY <1>2, <1>6 DEF MissesNone, Missed
  <2>1. i \in acked[s]
      BY <1>1, <1>2, <1>4, <1>5 DEF Handled
  <2> QED  BY <2>1 DEF Handled
<1> QED  BY <1>7, <1>8, <1>9, <1>10

(* The loop goes to the next entry, after enqueueing the one in hand,      *)
(* after finding nothing to enqueue, or after a failed enqueue.            *)
LEMMA NextKeeps ==
    ASSUME NInv, QueueTypeOK', pc = "handle", NextEntry,
           enqueued' \in {enqueued, enqueued \cup {Current}}
    PROVE  /\ TypeOK' /\ ReplyShape' /\ Fresh'
           /\ \A s \in Streams, i \in Ids :
                 Missed(s, i)' =>
                    \/ Missed(s, i)
                    \/ /\ <<s, i>> = Current /\ IsAlert(Current)
                       /\ Current \notin enqueued'
<1> DEFINE p == reply[1]
<1>1. /\ reply # <<>> /\ p \in Parts /\ Head(reply) = p
      /\ Current = <<p.stream, cur>> /\ p.stream \in Streams
      /\ cur \in Ids /\ cur \in p.lo .. p.hi
    BY CurrentFacts
<1>2. p.lo \in Nat /\ p.hi \in Nat /\ cur \in Nat  BY <1>1 DEF Parts, Ids
<1>3. /\ UNCHANGED <<entries, trimmed, group, last, pel, acked, proc, reply, stops>>
      /\ \/ cur = p.hi /\ pc' = "ack" /\ cur' = cur
         \/ cur # p.hi /\ pc' = "handle" /\ cur' = cur + 1
    BY <1>1 DEF NextEntry, WasLast, stream
<1>4. 1 \in DOMAIN reply  BY <1>1, RestFacts DEF NInv
<1>5. TypeOK'
  <2>1. reply' # <<>> /\ pc' \in {"handle", "ack"} /\ cur' \in Nat
      BY <1>1, <1>2, <1>3
  <2>2. UNCHANGED <<entries, trimmed, group, last, pel, acked, proc, reply, stops>>
      BY <1>3
  <2> HIDE DEF p
  <2> QED  BY <2>1, <2>2 DEF NInv, TypeOK
<1>6. ReplyShape'
  <2>1. pc' = "handle" => cur' \in reply'[1].lo .. reply'[1].hi
      BY <1>1, <1>2, <1>3
  <2> QED  BY <1>3, <2>1 DEF NInv, ReplyShape
<1>7. Fresh'
  <2> SUFFICES ASSUME NEW s \in Streams, NEW i \in Ids, <<s, i>> \in enqueued'
               PROVE  /\ i <= last[s]
                      /\ \A k \in DOMAIN reply :
                            reply[k].stream = s => ~Waiting(k, i)'
      BY <1>3 DEF Fresh
  <2>1. CASE <<s, i>> \in enqueued
    <3>1. i <= last[s] /\ \A k \in DOMAIN reply :
                reply[k].stream = s => ~Waiting(k, i)
        BY <2>1 DEF NInv, Fresh
    <3>2. i \in Nat  BY DEF Ids
    <3>3. \A k \in DOMAIN reply : Waiting(k, i)' => Waiting(k, i)
        BY <1>2, <1>3, <3>2 DEF Waiting
    <3> QED  BY <3>1, <3>3
  <2>2. CASE s = p.stream /\ i = cur
    <3>1. i <= last[s]
      <4>1. p.hi <= last[s] /\ last[s] \in Nat
          BY <1>4, <2>2 DEF NInv, ReplyShape, TypeOK
      <4> QED  BY <1>1, <1>2, <2>2, <4>1
    <3>2. ASSUME NEW k \in DOMAIN reply, reply[k].stream = s
          PROVE  ~Waiting(k, i)'
      <4>1. k = 1  BY <1>4, <2>2, <3>2 DEF NInv, ReplyShape
      <4> QED  BY <1>2, <1>3, <2>2, <4>1 DEF Waiting
    <3> QED  BY <3>1, <3>2
  <2> QED  BY <1>1, <2>1, <2>2
<1>8. ASSUME NEW s \in Streams, NEW i \in Ids, Missed(s, i)'
      PROVE  \/ Missed(s, i)
             \/ /\ <<s, i>> = Current /\ IsAlert(Current)
                /\ Current \notin enqueued'
  <2>1. /\ i \in DOMAIN entries[s] /\ entries[s][i] = "alert"
        /\ Handled(s, i)' /\ <<s, i>> \notin enqueued'
      BY <1>3, <1>8 DEF Missed
  <2>2. CASE s = p.stream /\ i = cur
      BY <1>1, <2>1, <2>2 DEF IsAlert
  <2>3. CASE ~(s = p.stream /\ i = cur)
    <3>1. Handled(s, i)
        BY <1>1, <1>2, <1>3, <2>1, <2>3 DEF Handled
    <3> QED  BY <2>1, <3>1 DEF Missed
  <2> QED  BY <2>2, <2>3
<1> QED  BY <1>5, <1>6, <1>7, <1>8

(* XACK of the first part, and on to the next one.                         *)
LEMMA AckKeeps ==
    ASSUME NInv, Ack PROVE TypeOK' /\ ReplyShape' /\ Fresh' /\ MissesNone
<1> DEFINE rest == Tail(reply)
<1>1. /\ pc = "ack" /\ AckEffect /\ reply' = rest
      /\ \/ rest # <<>> /\ pc' = "handle" /\ cur' = Head(rest).lo
         \/ rest = <<>> /\ pc' \in {"ended", "read"} /\ cur' = 0
      /\ UNCHANGED <<qvars, proc, stops>>
    BY DEF Ack, Proceed, OtherStreams
<1>2. /\ pel' \in [Streams -> SUBSET Ids] /\ acked' \in [Streams -> SUBSET Ids]
      /\ \A s \in Streams : \A i \in acked'[s] : Handled(s, i)
      /\ UNCHANGED <<entries, trimmed, group, last>>
    BY <1>1, AckFacts
<1>3. reply # <<>>  BY <1>1 DEF NInv, TypeOK
<1>4. /\ 1 \in DOMAIN reply /\ reply[1] \in Parts /\ rest \in Seq(Parts)
      /\ DOMAIN rest \subseteq Nat \ {0}
      /\ \A k \in DOMAIN rest : k + 1 \in DOMAIN reply /\ rest[k] = reply[k + 1]
    BY <1>3, RestFacts DEF NInv
<1>5. rest # <<>> => /\ 1 \in DOMAIN rest /\ Head(rest) = rest[1]
                    /\ rest[1] \in Parts /\ rest[1].lo \in Nat
                    /\ rest[1].hi \in Nat /\ rest[1].lo <= rest[1].hi
  <2> SUFFICES ASSUME rest # <<>>
               PROVE  /\ 1 \in DOMAIN rest /\ Head(rest) = rest[1]
                      /\ rest[1] \in Parts /\ rest[1].lo \in Nat
                      /\ rest[1].hi \in Nat /\ rest[1].lo <= rest[1].hi
      OBVIOUS
  <2> HIDE DEF rest
  <2>1. 1 \in DOMAIN rest /\ Head(rest) = rest[1] /\ rest[1] \in Parts  BY <1>4
  <2>2. rest[1].lo \in Nat /\ rest[1].hi \in Nat  BY <2>1 DEF Parts, Ids
  <2>3. rest[1].lo <= rest[1].hi  BY <1>4, <2>1 DEF NInv, ReplyShape
  <2> QED  BY <2>1, <2>2, <2>3
<1> HIDE DEF rest
<1>6. UNCHANGED <<enqueued, faults>> /\ QueueTypeOK'
    BY <1>1 DEF qvars, NInv, TypeOK, QueueTypeOK, Holding
<1>7. TypeOK'
  <2>1. /\ reply' \in Seq(Parts) /\ cur' \in Nat
        /\ pc' \in {"handle", "read", "ended"}
        /\ pc' \in {"handle", "ack"} <=> reply' # <<>>
      BY <1>1, <1>4, <1>5
  <2>2. UNCHANGED <<entries, trimmed, group, last, proc, stops>>  BY <1>1, <1>2
  <2> QED  BY <1>2, <1>6, <2>1, <2>2 DEF NInv, TypeOK
<1>8. ReplyShape'
  <2>1. \A s \in Streams : \A i \in acked'[s] : i <= last'[s]
      BY <1>2, HandledBehind
  <2>0. proc' # "down"  BY <1>1 DEF NInv, ReplyShape
  <2>2. \A k \in DOMAIN rest : /\ rest[k].lo <= rest[k].hi
                               /\ rest[k].hi <= last[rest[k].stream]
      BY <1>4 DEF NInv, ReplyShape
  <2>3. \A j, k \in DOMAIN rest : rest[j].stream = rest[k].stream => j = k
    <3> SUFFICES ASSUME NEW j \in DOMAIN rest, NEW k \in DOMAIN rest,
                        rest[j].stream = rest[k].stream
                 PROVE  j = k
        OBVIOUS
    <3>1. j + 1 = k + 1  BY <1>4 DEF NInv, ReplyShape
    <3> QED  BY <1>4, <3>1
  <2>4. pc' = "handle" => cur' \in rest[1].lo .. rest[1].hi
      BY <1>1, <1>5
  <2> QED  BY <1>1, <1>2, <2>0, <2>1, <2>2, <2>3, <2>4 DEF ReplyShape
<1>9. Fresh'
  <2> SUFFICES ASSUME NEW s \in Streams, NEW i \in Ids, <<s, i>> \in enqueued,
                      NEW k \in DOMAIN rest, rest[k].stream = s
               PROVE  i \notin rest[k].lo .. rest[k].hi
      BY <1>1, <1>2, <1>6 DEF NInv, Fresh, Waiting
  <2>1. /\ k + 1 \in DOMAIN reply /\ rest[k] = reply[k + 1] /\ k + 1 # 1
      BY <1>4
  <2>2. ~Waiting(k + 1, i)  BY <2>1 DEF NInv, Fresh
  <2> QED  BY <2>1, <2>2 DEF Waiting
<1>10. MissesNone
  <2> SUFFICES ASSUME NEW s \in Streams, NEW i \in Ids, Handled(s, i)'
               PROVE  Handled(s, i)
      BY <1>2, <1>6 DEF MissesNone, Missed
  <2>1. i \in acked'[s]
    <3> SUFFICES ASSUME rest # <<>>, i \in rest[1].lo .. rest[1].hi,
                        pc' = "handle", i < rest[1].lo
                 PROVE  FALSE
        BY <1>1, <1>5 DEF Handled
    <3> QED  BY <1>5
  <2> QED  BY <1>2, <2>1
<1> QED  BY <1>7, <1>8, <1>9, <1>10

----------------------------------------------------------------------------
(* The initial state: no reply, nothing published.                         *)
LEMMA NInit == Init => NInv
<1> SUFFICES ASSUME Init PROVE NInv  OBVIOUS
<1>1. QInv  BY QInit DEF Init
<1>2. TypeOK
  <2>1. \A s \in Streams : entries[s] = <<>> /\ Len(entries[s]) = 0  BY DEF Init
  <2>2. entries \in [Streams -> Seq(Kinds)] /\ reply \in Seq(Parts) /\ reply = <<>>
      BY DEF Init
  <2>5. /\ trimmed \in [Streams -> Nat]
        /\ \A s \in Streams : trimmed[s] = 0
      BY DEF Init
  <2>3. Len(entries["opportunities"]) + Len(entries["trades"]) <= MaxEntries
    <3>1. Len(entries["opportunities"]) = 0 /\ Len(entries["trades"]) = 0
        BY <2>1 DEF Streams
    <3>2. MaxEntries \in Nat  BY NotifierAssumption
    <3> QED  BY <3>1, <3>2
  <2>4. /\ QueueTypeOK /\ group \in [Streams -> BOOLEAN] /\ last \in [Streams -> Nat]
        /\ \A s \in Streams : last[s] <= Len(entries[s])
        /\ pel \in [Streams -> SUBSET Ids] /\ acked \in [Streams -> SUBSET Ids]
        /\ proc = "down" /\ pc = "off" /\ cur \in Nat /\ stops \in 0 .. MaxStops
      BY <1>1, <2>1, NotifierAssumption DEF QInv, Init, Empty
  <2> QED  BY <2>2, <2>3, <2>4, <2>5 DEF TypeOK
<1>3. ReplyShape  BY DEF Init, ReplyShape, Empty
<1>4. Fresh  BY DEF Init, QueueInit, Fresh
<1> QED  BY <1>1, <1>2, <1>3, <1>4 DEF NInv

(* Every step of the service keeps the invariant, and misses at most the   *)
(* alert whose enqueue fails.                                              *)
LEMMA NStep ==
    ASSUME NInv, [Next]_vars PROVE NInv' /\ (MissesNone \/ MissesOne)
<1>1. [QueueNext]_qvars  BY QueueSteps
<1>2. QInv' /\ QueueTypeOK'  BY <1>1, QStep DEF NInv, QInv
<1>3. enqueued \subseteq enqueued'  BY <1>1, QueueGrows
<1>4. /\ proc \in {"down", "boot", "up", "stopping"} /\ stops \in 0 .. MaxStops
      /\ pel \in [Streams -> SUBSET Ids] /\ acked \in [Streams -> SUBSET Ids]
      /\ group \in [Streams -> BOOLEAN] /\ last \in [Streams -> Nat] /\ cur \in Nat
      /\ \A s \in Streams : last[s] <= last[s] /\ last[s] <= Len(entries[s])
      /\ \A s \in Streams : \A i \in acked[s] : Handled(s, i)
      /\ reply = <<>> <=> pc \notin {"handle", "ack"}
      /\ proc = "down" => pc = "off" /\ reply = <<>>
  <2>1. \A s \in Streams : last[s] <= last[s] /\ last[s] <= Len(entries[s])
      BY DEF NInv, TypeOK
  <2>2. \A s \in Streams : \A i \in acked[s] : Handled(s, i)  BY DEF Handled
  <2>3. reply = <<>> <=> pc \notin {"handle", "ack"}  BY DEF NInv, TypeOK
  <2>4. proc = "down" => pc = "off"  BY DEF NInv, ReplyShape
  <2> QED  BY <2>1, <2>2, <2>3, <2>4 DEF NInv, TypeOK
<1> SUFFICES TypeOK' /\ ReplyShape' /\ Fresh' /\ (MissesNone \/ MissesOne)
    BY <1>2 DEF NInv
<1>5. CASE Notify
  <2>1. enqueued' \cap Alerts \subseteq enqueued
      BY <1>5, NotifierAssumption DEF Notify, Enqueue, Put
  <2> QED  BY <1>2, <1>3, <1>4, <1>5, <2>1, StillKeeps DEF Notify
<1>6. CASE (SenderStep \/ SenderRaises) /\ UNCHANGED <<stream, proc, task, stops>>
  <2>1. enqueued' = enqueued
      BY <1>6 DEF SenderStep, SenderRaises, Pop, SendOk, SendRaises, Requeue,
                  Bury, Resume, Unanswered
  <2> QED  BY <1>2, <1>3, <1>4, <1>6, <2>1, StillKeeps
<1>7. CASE BeginStop
  <2>1. enqueued' = enqueued  BY <1>7 DEF BeginStop, DropSender, Unanswered
  <2>2. stops' \in 0 .. MaxStops  BY <1>4, <1>7, NotifierAssumption DEF BeginStop
  <2> QED  BY <1>2, <1>3, <1>7, <2>1, <2>2, StillKeeps DEF BeginStop
<1>8. CASE Crash
  <2>1. enqueued' = enqueued  BY <1>8 DEF Crash, DropSender, Unanswered
  <2>2. stops' \in 0 .. MaxStops  BY <1>4, <1>8, NotifierAssumption DEF Crash
  <2> QED  BY <1>2, <1>3, <1>4, <1>8, <2>1, <2>2, EmptyKeeps
              DEF Crash, DropLoop, stream
<1>9. CASE FinishStop
    BY <1>2, <1>3, <1>4, <1>9, EmptyKeeps DEF FinishStop, DropLoop, stream, qvars
<1>10. CASE Boot
  <2>1. /\ UNCHANGED <<entries, trimmed, group, last, pel, acked, reply, cur, stops>>
        /\ proc' = "boot" /\ pc' = "group1" /\ enqueued' = enqueued
      BY <1>10 DEF Boot, StartSender, stream
  <2>2. reply = <<>>  BY <1>4, <1>10 DEF Boot
  <2> QED  BY <1>2, <1>3, <1>4, <2>1, <2>2, EmptyKeeps
<1>11. CASE EnsureGroups
  <2>1. PICK t \in Streams : CreateGroup(t)
      BY <1>11 DEF EnsureGroups, Streams
  <2>2. /\ group' \in [Streams -> BOOLEAN] /\ last' \in [Streams -> Nat]
        /\ \A s \in Streams : last[s] <= last'[s] /\ last'[s] <= Len(entries[s])
      BY <1>4, <2>1 DEF CreateGroup
  <2>3. /\ UNCHANGED <<qvars, entries, trimmed, pel, acked, reply, cur, stops>>
        /\ pc' \in {"group2", "read"} /\ proc' \in {"boot", "up"}
        /\ pc \in {"group1", "group2"}
      BY <1>11 DEF EnsureGroups
  <2> QED  BY <1>2, <1>3, <1>4, <2>2, <2>3, EmptyKeeps DEF qvars
<1>12. CASE Read  BY <1>12, ReadKeeps
<1>13. CASE ReadNothing \/ Wake
  <2>1. /\ UNCHANGED <<qvars, stream, proc, stops>> /\ reply' = <<>> /\ cur' = 0
        /\ pc' \in {"ended", "read"} /\ pc \in {"read", "sleep"}
      BY <1>13 DEF ReadNothing, Wake, Proceed
  <2> QED  BY <1>2, <1>3, <1>4, <2>1, EmptyKeeps DEF qvars, stream
<1>14. CASE HandleQuiet
    BY <1>2, <1>14, NextKeeps DEF HandleQuiet, qvars, MissesNone
<1>15. CASE HandleAlert
    BY <1>2, <1>15, NextKeeps DEF HandleAlert, Put, MissesNone
<1>16. CASE EnqueueRaises
    BY <1>2, <1>16, NextKeeps DEF EnqueueRaises, CountFault, MissesOne
<1>17. CASE Ack  BY <1>17, AckKeeps
<1>18. CASE ConsumeRaises
  <2>1. /\ enqueued' = enqueued /\ pc' = "sleep" /\ reply' = <<>> /\ cur' = 0
        /\ UNCHANGED <<proc, stops>> /\ pc \in {"read", "ack"}
      BY <1>18 DEF ConsumeRaises, CountFault
  <2>2. CASE UNCHANGED stream
      BY <1>2, <1>3, <1>4, <2>1, <2>2, EmptyKeeps DEF stream
  <2>3. CASE Delivered
    <3>1. /\ last' \in [Streams -> Nat] /\ pel' \in [Streams -> SUBSET Ids]
          /\ \A s \in Streams : last[s] <= last'[s] /\ last'[s] <= Len(entries[s])
          /\ UNCHANGED <<entries, trimmed, group, acked>>
        BY <2>3, DeliveredFacts
    <3> QED  BY <1>2, <1>3, <1>4, <2>1, <3>1, EmptyKeeps
  <2>4. CASE pc = "ack" /\ AckEffect
    <3>1. /\ pel' \in [Streams -> SUBSET Ids] /\ acked' \in [Streams -> SUBSET Ids]
          /\ \A s \in Streams : \A i \in acked'[s] : Handled(s, i)
          /\ UNCHANGED <<entries, trimmed, group, last>>
        BY <2>4, AckFacts
    <3> QED  BY <1>2, <1>3, <1>4, <2>1, <3>1, EmptyKeeps
  <2> QED  BY <1>18, <2>2, <2>3, <2>4 DEF ConsumeRaises
<1>19. ASSUME NEW s \in Streams, Publish(s)
       PROVE  TypeOK' /\ ReplyShape' /\ Fresh' /\ MissesNone
    BY <1>19, PublishKeeps
<1>20. CASE UNCHANGED vars
    BY <1>2, <1>3, <1>4, <1>20, StillKeeps DEF vars, qvars, NInv, TypeOK
<1> QED
    BY <1>5, <1>6, <1>7, <1>8, <1>9, <1>10, <1>11, <1>12, <1>13, <1>14, <1>15,
       <1>16, <1>17, <1>18, <1>19, <1>20 DEF Next, LifeStep, ConsumeStep

(* The inductive invariant of the service holds in every reachable state.  *)
THEOREM NotifierCorrect == Spec => []NInv
<1>1. Init => NInv  BY NInit
<1>2. NInv /\ [Next]_vars => NInv'  BY NStep
<1> QED  BY <1>1, <1>2, PTL DEF Spec

(* Every reachable state of the service has its type.                      *)
THEOREM TypeCorrect == Spec => []TypeOK
<1>1. NInv => TypeOK  BY DEF NInv
<1> QED  BY <1>1, NotifierCorrect, PTL

(* The service implements TelegramQueue: it enqueues no entry of the       *)
(* streams twice, through failing calls and restarts (main.py:103-116).    *)
THEOREM Implements == Spec => ImplementsQueue
<1>1. Init => QueueInit  BY DEF Init
<1>2. NInv /\ [Next]_vars => [QueueNext]_qvars  BY QueueSteps
<1> QED  BY <1>1, <1>2, NotifierCorrect, PTL DEF Spec, ImplementsQueue, QueueSpec

----------------------------------------------------------------------------
(* A set that grows by one element, or not at all.                         *)
LEMMA OneMore ==
    ASSUME NEW S, IsFiniteSet(S), NEW n \in Nat, Cardinality(S) <= n,
           NEW x, NEW T, T \subseteq S \cup {x}
    PROVE  /\ IsFiniteSet(T) /\ Cardinality(T) <= n + 1
           /\ T \subseteq S => Cardinality(T) <= n
<1>1. /\ IsFiniteSet(S \cup {x}) /\ Cardinality(S) \in Nat
      /\ Cardinality(S \cup {x}) \in {Cardinality(S), Cardinality(S) + 1}
    BY FS_AddElement, FS_CardinalityType
<1>2. IsFiniteSet(T) /\ Cardinality(T) <= Cardinality(S \cup {x})
    BY <1>1, FS_Subset
<1>3. Cardinality(T) \in Nat  BY <1>2, FS_CardinalityType
<1>4. T \subseteq S => Cardinality(T) <= Cardinality(S)  BY FS_Subset
<1> QED  BY <1>1, <1>2, <1>3, <1>4

(* Failing calls and ends of the service are counted, never forgotten.     *)
LEMMA CountsGrow ==
    ASSUME NInv, [Next]_vars
    PROVE  /\ faults \in Nat /\ faults' \in Nat /\ faults <= faults'
           /\ stops \in Nat /\ stops' \in Nat
           /\ stops' = stops \/ ((BeginStop \/ Crash) /\ stops' = stops + 1)
<1>1. faults \in Nat /\ faults' \in Nat /\ faults <= faults'
    BY QueueSteps, QueueGrows
<1>2. stops \in Nat /\ stops' \in Nat
  <2>1. NInv'  BY NStep
  <2>2. stops \in 0 .. MaxStops /\ stops' \in 0 .. MaxStops
      BY <2>1 DEF NInv, TypeOK
  <2> QED  BY <2>2, NotifierAssumption
<1>3. stops' = stops \/ ((BeginStop \/ Crash) /\ stops' = stops + 1)
    BY DEF Next, Publish, Notify, LifeStep, Boot, EnsureGroups, FinishStop,
           ConsumeStep, Read, ReadNothing, HandleQuiet, HandleAlert, NextEntry,
           Ack, Wake, EnqueueRaises, ConsumeRaises, BeginStop, Crash, vars
<1> QED  BY <1>1, <1>2, <1>3

(* The missed alerts, as messages: at most one for each failing call.      *)
Skipped == {m \in Alerts : Missed(m[1], m[2])}
FewSkipped == IsFiniteSet(Skipped) /\ Cardinality(Skipped) <= faults

(* An acknowledged alert was put in the queue, but for one per failing     *)
(* Redis call (main.py:111-116, 137-138).                                  *)
THEOREM AcknowledgedIsQueued == Spec => []AckedIsQueued
<1>1. Init => FewSkipped
  <2> SUFFICES ASSUME Init PROVE FewSkipped  OBVIOUS
  <2>1. Skipped = {}
      BY DEF Init, Skipped, Missed, Alerts
  <2>2. faults = 0  BY DEF Init, QueueInit
  <2> QED  BY <2>1, <2>2, FS_EmptySet DEF FewSkipped
<1>2. ASSUME NInv, FewSkipped, [Next]_vars PROVE FewSkipped'
  <2>1. faults \in Nat /\ faults' \in Nat /\ faults <= faults'
      BY <1>2, CountsGrow
  <2>2. CASE MissesNone
    <3>1. Skipped' \subseteq Skipped
        BY <2>2 DEF MissesNone, Skipped, Alerts
    <3>2. IsFiniteSet(Skipped') /\ Cardinality(Skipped') <= Cardinality(Skipped)
        BY <1>2, <3>1, FS_Subset DEF FewSkipped
    <3>3. Cardinality(Skipped') \in Nat /\ Cardinality(Skipped) \in Nat
        BY <1>2, <3>2, FS_CardinalityType DEF FewSkipped
    <3> QED  BY <1>2, <2>1, <3>2, <3>3 DEF FewSkipped
  <2>3. CASE MissesOne
    <3>1. Skipped' \subseteq Skipped \cup {Current} /\ faults' = faults + 1
        BY <2>3 DEF MissesOne, Skipped, Alerts
    <3> HIDE DEF Skipped
    <3> QED  BY <1>2, <2>1, <3>1, OneMore DEF FewSkipped
  <2> QED  BY <1>2, <2>2, <2>3, NStep
<1>3. ASSUME NInv, FewSkipped PROVE AckedIsQueued
  <2>1. Unqueued \subseteq Skipped
    <3> SUFFICES ASSUME NEW m \in Alerts, m[2] \in acked[m[1]], IsAlert(m),
                        m \notin enqueued
                 PROVE  Missed(m[1], m[2])
        BY DEF Unqueued, Skipped
    <3>1. /\ m[1] \in Streams /\ m[2] \in Ids /\ m = <<m[1], m[2]>>
        BY DEF Alerts
    <3>2. Handled(m[1], m[2])  BY DEF Handled
    <3>3. m[2] \in Nat /\ m[2] <= last[m[1]]
        BY <1>3, <3>1, <3>2, HandledBehind
    <3>4. m[2] \in DOMAIN entries[m[1]]
      <4>1. /\ entries[m[1]] \in Seq(Kinds) /\ last[m[1]] \in Nat
            /\ last[m[1]] <= Len(entries[m[1]])
          BY <1>3, <3>1 DEF NInv, TypeOK
      <4> QED  BY <3>1, <3>3, <4>1 DEF Ids
    <3> QED  BY <3>1, <3>2, <3>4 DEF Missed, IsAlert
  <2>2. IsFiniteSet(Unqueued) /\ Cardinality(Unqueued) <= Cardinality(Skipped)
      BY <1>3, <2>1, FS_Subset DEF FewSkipped
  <2>3. Cardinality(Unqueued) \in Nat /\ Cardinality(Skipped) \in Nat
      BY <1>3, <2>2, FS_CardinalityType DEF FewSkipped
  <2>4. faults \in Nat  BY <1>3, QueueAssumption DEF NInv, QInv, QueueTypeOK
  <2> QED  BY <1>3, <2>2, <2>3, <2>4 DEF FewSkipped, AckedIsQueued
<1>4. NInv /\ FewSkipped /\ [Next]_vars => FewSkipped'  BY <1>2
<1>5. NInv /\ FewSkipped => AckedIsQueued  BY <1>3
<1> QED  BY <1>1, <1>4, <1>5, NotifierCorrect, PTL DEF Spec

----------------------------------------------------------------------------
(***************************************************************************)
(* What becomes of a message.                                              *)
(***************************************************************************)
(* A BRPOP takes out the message at the head only.                         *)
LEMMA TailLeaves ==
    ASSUME QInv, queue # <<>>, queue' = Tail(queue)
    PROVE  QueuedIds \subseteq QueuedIds' \cup {Head(queue).id}
<1>1. queue \in Seq(Items)  BY DEF QInv, QueueTypeOK
<1>2. /\ DOMAIN queue = 1 .. Len(queue) /\ Len(queue) \in Nat
      /\ DOMAIN Tail(queue) = 1 .. Len(queue) - 1
      /\ \A k \in 1 .. Len(queue) - 1 : Tail(queue)[k] = queue[k + 1]
      /\ Head(queue) = queue[1]
    BY <1>1, TailFacts
<1>3. ASSUME NEW k \in 1 .. Len(queue)
      PROVE  queue[k].id \in QueuedIds' \cup {Head(queue).id}
  <2>1. CASE k = 1  BY <1>2, <2>1
  <2>2. CASE k # 1
    <3>1. k - 1 \in DOMAIN queue' /\ queue'[k - 1] = queue[k]
        BY <1>2, <2>2
    <3> QED  BY <3>1 DEF QueuedIds
  <2> QED  BY <2>1, <2>2
<1> QED  BY <1>2, <1>3 DEF QueuedIds

(* Every step of the producers and of the sender that is not a failure     *)
(* takes a message from one place to the next: list, hand, then sent, back *)
(* in the list, or dead letter.                                            *)
LEMMA StepLosesNothing ==
    ASSUME QInv,
           (\E m \in Messages : Enqueue(m)) \/ StartSender \/ SenderStep
    PROVE  Lost' \subseteq Lost
<1>1. ASSUME NEW m \in Messages, Enqueue(m) PROVE Lost' \subseteq Lost
  <2> DEFINE item == [id |-> m, retries |-> 0]
  <2>1. /\ item \in Items /\ item.id = m  BY QueueAssumption DEF Items
  <2>2. /\ Push(item) /\ enqueued' = enqueued \cup {m} /\ m \notin enqueued
        /\ UNCHANGED <<deadLetter, hand, sent>>
      BY <1>1 DEF Enqueue, Put
  <2>3. m \notin QueuedIds /\ m \notin deadLetter
      BY <2>2 DEF QInv, CountsAgree, QueueTypeOK
  <2> HIDE DEF item
  <2>4. QueuedIds' = QueuedIds \cup {m}  BY <2>1, <2>2, <2>3, PushKeeps
  <2> QED  BY <2>2, <2>4 DEF Lost, Settled
<1>2. CASE StartSender \/ Resume
  <2>1. QueuedIds' = QueuedIds  BY <1>2 DEF StartSender, Resume, QueuedIds
  <2> QED  BY <1>2, <2>1 DEF StartSender, Resume, Lost, Settled
<1>3. CASE Pop
  <2>1. /\ queue # <<>> /\ queue' = Tail(queue) /\ hand' = Head(queue)
        /\ UNCHANGED <<deadLetter, enqueued, sent>>
      BY <1>3 DEF Pop, AfterPop
  <2>2. hand.id \notin enqueued
      BY <1>3, QueueAssumption DEF Pop, QInv, QueueTypeOK, Holding, NoItem
  <2>3. QueuedIds \subseteq QueuedIds' \cup {Head(queue).id}
      BY <2>1, TailLeaves
  <2> QED  BY <2>1, <2>2, <2>3 DEF Lost, Settled
<1>4. CASE SendOk
  <2>1. QueuedIds' = QueuedIds  BY <1>4 DEF SendOk, QueuedIds
  <2> QED  BY <1>4, <2>1 DEF SendOk, Deliver, Lost, Settled
<1>5. CASE SendRaises
  <2>1. /\ hand' = hand /\ sent \subseteq sent'
        /\ UNCHANGED <<queue, deadLetter, enqueued>>
      BY <1>5 DEF SendRaises, AfterFailure, Deliver
  <2>2. QueuedIds' = QueuedIds  BY <2>1 DEF QueuedIds
  <2> QED  BY <2>1, <2>2 DEF Lost, Settled
<1>6. CASE Requeue
  <2>1. /\ hand \in Items /\ hand.retries < MaxRetries
        /\ hand.id \notin QueuedIds /\ hand.id \notin deadLetter
      BY <1>6 DEF Requeue, QInv, QueueTypeOK, CountsAgree, OneCopy, Holding
  <2>2. Requeued \in Items /\ Requeued.id = hand.id
      BY <2>1, QueueAssumption DEF Items, Requeued
  <2>3. QueuedIds' = QueuedIds \cup {hand.id}
      BY <1>6, <2>1, <2>2, PushKeeps DEF Requeue
  <2> QED  BY <1>6, <2>3 DEF Requeue, Lost, Settled
<1>7. CASE Bury
  <2>1. QueuedIds' = QueuedIds  BY <1>7 DEF Bury, QueuedIds
  <2> QED  BY <1>7, <2>1 DEF Bury, Lost, Settled
<1> QED
    BY <1>1, <1>2, <1>3, <1>4, <1>5, <1>6, <1>7 DEF SenderStep

(* A call without an answer costs at most the message the sender holds, or *)
(* the one a BRPOP has taken out.                                          *)
LEMMA UnansweredLosesOne ==
    ASSUME QInv, Unanswered
    PROVE  \E m : Lost' \subseteq Lost \cup {m}
<1>1. hand' = NoItem /\ UNCHANGED <<deadLetter, enqueued, sent>>
    BY DEF Unanswered
<1>2. CASE UNCHANGED queue
  <2>1. QueuedIds' = QueuedIds  BY <1>2 DEF QueuedIds
  <2>2. Lost' \subseteq Lost \cup {hand.id}  BY <1>1, <2>1 DEF Lost, Settled
  <2> QED  BY <2>2
<1>3. CASE sender = "pop" /\ queue # <<>> /\ queue' = Tail(queue)
  <2>1. hand = NoItem  BY <1>3 DEF QInv, QueueTypeOK, Holding
  <2>2. QueuedIds \subseteq QueuedIds' \cup {Head(queue).id}
      BY <1>3, TailLeaves
  <2>3. Lost' \subseteq Lost \cup {Head(queue).id}
      BY <1>1, <2>1, <2>2 DEF Lost, Settled
  <2> QED  BY <2>3
<1> QED  BY <1>2, <1>3 DEF Unanswered

(* A step loses nothing, or one message with one more failing call or one  *)
(* more end of the service.                                                *)
LEMMA StepLosesOne ==
    ASSUME NInv, [Next]_vars
    PROVE  \/ Lost' \subseteq Lost
           \/ /\ faults' = faults + 1 \/ stops' = stops + 1
              /\ \E m : Lost' \subseteq Lost \cup {m}
<1>1. ASSUME UNCHANGED <<queue, deadLetter, hand, enqueued, sent>>
      PROVE  Lost' \subseteq Lost
  <2>1. QueuedIds' = QueuedIds  BY <1>1 DEF QueuedIds
  <2> QED  BY <1>1, <2>1 DEF Lost, Settled
<1>2. ASSUME (\E m \in Messages : Enqueue(m)) \/ StartSender \/ SenderStep
      PROVE  Lost' \subseteq Lost
    BY <1>2, StepLosesNothing DEF NInv
<1>3. CASE Notify
    BY <1>2, <1>3, NotifierAssumption DEF Notify
<1>4. CASE SenderStep
    BY <1>2, <1>4
<1>5. CASE Boot
    BY <1>2, <1>5 DEF Boot
<1>6. CASE HandleAlert
    BY <1>2, <1>6, CurrentFacts DEF HandleAlert, Enqueue
<1>7. CASE \/ EnsureGroups \/ FinishStop \/ Read \/ ReadNothing
           \/ HandleQuiet \/ Ack \/ Wake \/ (\E s \in Streams : Publish(s))
           \/ EnqueueRaises \/ ConsumeRaises \/ UNCHANGED vars
    BY <1>1, <1>7
       DEF EnsureGroups, FinishStop, Read, ReadNothing, HandleQuiet, NextEntry,
           Ack, Wake, Publish, EnqueueRaises, ConsumeRaises, CountFault, vars,
           qvars
<1>8. CASE SenderRaises
    BY <1>8, UnansweredLosesOne DEF SenderRaises, NInv
<1>9. CASE BeginStop \/ Crash
    BY <1>9, UnansweredLosesOne DEF BeginStop, Crash, DropSender, NInv
<1> QED
    BY <1>3, <1>4, <1>5, <1>6, <1>7, <1>8, <1>9 DEF Next, LifeStep, ConsumeStep

(* The lost messages are counted.                                          *)
FewLost == IsFiniteSet(Lost) /\ Cardinality(Lost) <= faults + stops

(* A failing Redis call or an end of the service costs at most one message,*)
(* and nothing else loses any, however often Telegram refuses it           *)
(* (tg_queue.py:52-81).                                                    *)
THEOREM LostOnlyByFailure == Spec => []OneLostEach
<1>1. Init => FewLost
  <2> SUFFICES ASSUME Init PROVE FewLost  OBVIOUS
  <2>1. Lost = {} /\ faults = 0 /\ stops = 0  BY DEF Init, QueueInit, Lost
  <2> QED  BY <2>1, FS_EmptySet DEF FewLost
<1>2. ASSUME NInv, FewLost, [Next]_vars PROVE FewLost'
  <2>1. /\ faults \in Nat /\ faults' \in Nat /\ faults <= faults'
        /\ stops \in Nat /\ stops' \in Nat /\ stops <= stops'
      BY <1>2, CountsGrow
  <2>2. CASE Lost' \subseteq Lost
    <3>1. IsFiniteSet(Lost') /\ Cardinality(Lost') <= Cardinality(Lost)
        BY <1>2, <2>2, FS_Subset DEF FewLost
    <3>2. Cardinality(Lost') \in Nat /\ Cardinality(Lost) \in Nat
        BY <1>2, <3>1, FS_CardinalityType DEF FewLost
    <3> QED  BY <1>2, <2>1, <3>1, <3>2 DEF FewLost
  <2>3. ASSUME faults' = faults + 1 \/ stops' = stops + 1,
               NEW m, Lost' \subseteq Lost \cup {m}
        PROVE  FewLost'
    <3>1. faults + stops \in Nat /\ faults + stops + 1 <= faults' + stops'
      <4>1. \A a, b, c, d \in Nat :
               a <= c /\ b <= d /\ (c = a + 1 \/ d = b + 1)
                  => a + b \in Nat /\ a + b + 1 <= c + d
          OBVIOUS
      <4> QED  BY <2>1, <2>3, <4>1
    <3>2. IsFiniteSet(Lost') /\ Cardinality(Lost') <= faults + stops + 1
        BY <1>2, <2>3, <3>1, OneMore DEF FewLost
    <3>3. Cardinality(Lost') \in Nat  BY <3>2, FS_CardinalityType
    <3>4. faults' + stops' \in Nat
      <4>1. \A a, b \in Nat : a + b \in Nat  OBVIOUS
      <4> QED  BY <2>1, <4>1, Zenon
    <3>5. Cardinality(Lost') <= faults' + stops'
      <4>1. \A a, b, c \in Nat : a <= b + 1 /\ b + 1 <= c => a <= c  OBVIOUS
      <4> QED  BY <3>1, <3>2, <3>3, <3>4, <4>1
    <3> QED  BY <3>2, <3>5 DEF FewLost
  <2> QED  BY <1>2, <2>2, <2>3, StepLosesOne
<1>3. FewLost => OneLostEach  BY DEF FewLost, OneLostEach
<1>4. NInv /\ FewLost /\ [Next]_vars => FewLost'  BY <1>2
<1> QED  BY <1>1, <1>3, <1>4, NotifierCorrect, PTL DEF Spec
=============================================================================
