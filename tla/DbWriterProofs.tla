--------------------------- MODULE DbWriterProofs ---------------------------
(***************************************************************************)
(* Proofs about DbWriter, for every number of ticks, length of the stream, *)
(* batch size, failure and restart.  The argument: the cursor only moves   *)
(* forward, so an entry is delivered once (Cursor); the reply in hand is   *)
(* split into records still to store and entries that are settled          *)
(* (Settled); and how often a tick is stored follows from where the loop   *)
(* is and whether its COPY was doubted (Counted).                          *)
(***************************************************************************)
EXTENDS DbWriter, FiniteSetTheorems, TLAPS

Holding == {"copy", "insert", "ack"}

\* The group has an id once it was created, and the loop runs with a group;
\* an entry is pending or acknowledged; only a call of _flush holds a reply.
Cursor ==
    /\ ~group => last = 0
    /\ pc \in Holding \cup {"read", "sleep"} => group
    /\ pel \cap acked = {}
    /\ pc \notin Holding => ids = {}

\* What is not delivered was not stored, and a row is stored by the COPY, by
\* its INSERT, or by both when the COPY is doubted.
Counted ==
    /\ \A i \in Ids : i > last => rows[i] = 0
    /\ \A i \in Ids : rows[i] <= (IF i \in doubted THEN 2 ELSE 1)
    /\ \A i \in records :
         /\ pc = "copy" => rows[i] = 0
         /\ i \in doubted => rows[i] <= 1
         /\ i \notin doubted => rows[i] = 0

\* What the reply in hand has no record of is settled.
IsSettled(i) == ticks[i] = "good" /\ i \notin swallowed => rows[i] > 0
Settled == \A i \in acked \cup (ids \ records) : IsSettled(i)

DInv == TypeOK /\ Cursor /\ Counted /\ Settled

-----------------------------------------------------------------------------
\* A reply starts past the cursor and past what is trimmed, and is bounded.
LEMMA ReplyFacts ==
  ASSUME TypeOK
  PROVE  /\ FirstNew \in Nat /\ FirstNew > last /\ FirstNew > trimmed
         /\ FirstNew = last + 1 \/ FirstNew = trimmed + 1
         /\ Upto \in Int /\ Upto <= Len(ticks) /\ Upto <= FirstNew + BatchSize - 1
         /\ Reply # {} => Upto >= FirstNew /\ Upto \in Nat
         /\ Reply \subseteq 1 .. Upto
         /\ Len(ticks) \in Nat /\ last \in Nat /\ trimmed \in Nat
<1>1. Len(ticks) \in Nat /\ last \in Nat /\ trimmed \in Nat
  BY DEF TypeOK
<1>2. /\ FirstNew \in Nat /\ FirstNew > last /\ FirstNew > trimmed
      /\ FirstNew = last + 1 \/ FirstNew = trimmed + 1
  BY <1>1 DEF FirstNew
<1>3. /\ Upto \in Int /\ Upto <= Len(ticks) /\ Upto <= FirstNew + BatchSize - 1
  BY <1>1, <1>2, DbWriterAssumption DEF Upto
<1>4. Reply # {} => Upto >= FirstNew /\ Upto \in Nat
  BY <1>2, <1>3 DEF Reply
<1>5. \A i \in Reply : i \in 1 .. Upto
  <2>1. \A i \in FirstNew .. Upto : i \in 1 .. Upto
    <3> HIDE DEF FirstNew, Upto
    <3> QED BY <1>1, <1>2, <1>3
  <2> QED BY <2>1 DEF Reply
<1> QED BY <1>1, <1>2, <1>3, <1>4, <1>5

LEMMA InitD == Init => DInv
<1> SUFFICES ASSUME Init PROVE DInv
  OBVIOUS
<1>1. TypeOK
  <2>1. rows \in [Ids -> 0 .. 2]
    BY DEF Init
  <2>2. ticks \in Seq(Kinds) /\ Len(ticks) = 0
    BY DEF Init
  <2>3. /\ Len(ticks) <= MaxTicks /\ trimmed \in 0 .. Len(ticks)
        /\ last \in 0 .. Len(ticks) /\ poisoned \in Nat
        /\ faults \in 0 .. MaxFaults /\ stops \in 0 .. MaxStops
    BY <2>2, DbWriterAssumption DEF Init
  <2> QED BY <2>1, <2>2, <2>3 DEF Init, TypeOK
<1>2. Cursor /\ Counted /\ Settled
  BY DbWriterAssumption DEF Init, Cursor, Counted, Settled, Holding, Ids
<1> QED BY <1>1, <1>2 DEF DInv

\* A new tick changes no delivered one.
LEMMA PublishKeeps == ASSUME DInv, Publish PROVE DInv'
<1>1. PICK kind \in Kinds : ticks' = Append(ticks, kind)
  BY DEF Publish
<1>2. /\ ticks' \in Seq(Kinds) /\ Len(ticks') = Len(ticks) + 1 /\ Len(ticks) \in Nat
      /\ \A i \in 1 .. Len(ticks) : ticks'[i] = ticks[i]
  BY <1>1 DEF DInv, TypeOK
<1>3. /\ UNCHANGED <<group, last, pel, acked, rows, pc, ids, records, swallowed,
                     doubted, poisoned, faults, stops>>
      /\ Len(ticks) < MaxTicks /\ trimmed' \in Trims(Len(ticks) + 1)
  BY DEF Publish, history
<1>4. \A i \in acked \cup pel : i \in 1 .. Len(ticks)
  BY <1>2 DEF DInv, TypeOK
<1>5. TypeOK'
  <2>1. records' \subseteq Storable(ids)'
    BY <1>2, <1>3, <1>4 DEF DInv, TypeOK, Storable
  <2>2. trimmed' \in 0 .. Len(ticks')
    BY <1>2, <1>3, DbWriterAssumption DEF DInv, TypeOK, Trims
  <2>3. Len(ticks') <= MaxTicks /\ last' \in 0 .. Len(ticks')
    BY <1>2, <1>3, DbWriterAssumption DEF DInv, TypeOK
  <2> QED BY <1>2, <1>3, <2>1, <2>2, <2>3 DEF DInv, TypeOK
<1>6. Cursor' /\ Counted'
  BY <1>3 DEF DInv, Cursor, Counted
<1>7. Settled'
  BY <1>2, <1>3, <1>4 DEF DInv, TypeOK, Settled, IsSettled
<1> QED BY <1>5, <1>6, <1>7 DEF DInv

\* Boot, group, sleep and stop: no reply in hand afterwards, no tick stored.
LEMMA IdleKeeps ==
  ASSUME DInv, Boot \/ EnsureGroup \/ StartFails \/ Wake \/ Stop PROVE DInv'
<1>1. /\ UNCHANGED <<ticks, trimmed, last, pel, acked, rows, swallowed, doubted,
                     poisoned>>
      /\ ids' = {} /\ records' = {} /\ pc' \notin Holding
      /\ pc' \in {"down", "group", "disabled", "read", "sleep"}
      /\ group' \in BOOLEAN /\ (group => group')
      /\ pc' \in {"read", "sleep"} => group'
  <2>1. \/ ids = {} /\ records = {} /\ GroupStart = last
        \/ pc \in Holding
    BY DEF DInv, TypeOK, Cursor, Holding, GroupStart, Storable
  <2>2. CASE Boot \/ Wake
    BY <2>1, <2>2 DEF Boot, Wake, AfterSleep, DInv, TypeOK, Cursor, Holding,
       stream, history
  <2>3. CASE EnsureGroup \/ StartFails
    BY <2>1, <2>3 DEF EnsureGroup, StartFails, DInv, TypeOK, Holding, history
  <2>4. CASE Stop
    BY <2>4 DEF Stop, DInv, TypeOK, Holding, stream, history
  <2> QED BY <2>2, <2>3, <2>4
<1>2. faults' \in 0 .. MaxFaults /\ stops' \in 0 .. MaxStops
  BY DbWriterAssumption DEF Boot, EnsureGroup, StartFails, CountFault, Wake,
     Stop, DInv, TypeOK
<1>3. TypeOK'
  BY <1>1, <1>2 DEF DInv, TypeOK, Holding, Storable
<1>4. Cursor' /\ Counted' /\ Settled'
  BY <1>1 DEF DInv, Cursor, Counted, Settled, IsSettled
<1> QED BY <1>3, <1>4 DEF DInv

-----------------------------------------------------------------------------
\* A delivered reply is new: it is disjoint from what is pending or
\* acknowledged, and none of it is stored.
LEMMA DeliveredFacts ==
  ASSUME DInv, Reply # {}, Delivered
  PROVE  /\ last' = Upto /\ last' \in Nat /\ last < last' /\ last' <= Len(ticks)
         /\ pel' = pel \cup Reply /\ UNCHANGED <<ticks, trimmed, group, acked>>
         /\ Reply \cap (pel \cup acked \cup swallowed \cup doubted) = {}
         /\ Reply \subseteq 1 .. last'
         /\ \A i \in Reply : i \in Ids /\ rows[i] = 0
<1> USE DbWriterAssumption
<1>1. /\ last' = Upto /\ pel' = pel \cup Reply
      /\ UNCHANGED <<ticks, trimmed, group, acked>>
  BY DEF Delivered
<1>2. /\ FirstNew \in Nat /\ FirstNew > last /\ Upto <= Len(ticks)
      /\ Upto >= FirstNew /\ Upto \in Nat /\ Reply \subseteq 1 .. Upto
      /\ last \in Nat /\ Len(ticks) \in Nat
  BY ReplyFacts DEF DInv
<1>3. \A i \in Reply : i \in Nat /\ i > last /\ i \in 1 .. Len(ticks)
  BY <1>2 DEF Reply
<1>4. \A i \in Reply : i \in Ids
  BY <1>2, <1>3 DEF DInv, TypeOK, Ids
<1>5. \A i \in pel \cup acked \cup swallowed \cup doubted : i <= last /\ i \in Nat
  BY <1>2 DEF DInv, TypeOK
<1>6. Reply \cap (pel \cup acked \cup swallowed \cup doubted) = {}
  BY <1>2, <1>3, <1>5
<1>7. \A i \in Reply : rows[i] = 0
  BY <1>3, <1>4 DEF DInv, Counted
<1> QED BY <1>1, <1>2, <1>4, <1>6, <1>7

\* What stays true of the rows when the cursor moves on.
LEMMA ReadKeeps == ASSUME DInv, Read PROVE DInv'
<1> USE DbWriterAssumption
<1>1. /\ pc = "read" /\ Reply # {} /\ Delivered /\ ids = {} /\ records = {} /\ group
      /\ UNCHANGED <<rows, swallowed, doubted, faults, stops>>
  BY DEF Read, DInv, Cursor, TypeOK, Holding, Storable
<1>2. /\ last' = Upto /\ last' \in Nat /\ last < last' /\ last' <= Len(ticks)
      /\ pel' = pel \cup Reply /\ UNCHANGED <<ticks, trimmed, group, acked>>
      /\ Reply \cap (pel \cup acked \cup swallowed \cup doubted) = {}
      /\ Reply \subseteq 1 .. last'
      /\ \A i \in Reply : i \in Ids /\ rows[i] = 0
  BY <1>1, DeliveredFacts
<1>3. \/ /\ ids' = {} /\ records' = {} /\ pc' = "sleep" /\ poisoned' = poisoned + 1
      \/ /\ ids' = Reply /\ records' = Storable(Reply) /\ poisoned' = poisoned
         /\ pc' = IF Storable(Reply) = {} THEN "ack" ELSE "copy"
  BY <1>1 DEF Read, ReadPoison, ReadBatch
<1>4. Storable(ids)' = Storable(ids')
  BY <1>2 DEF Storable
<1>5. TypeOK'
  <2>1. /\ last' \in 0 .. Len(ticks) /\ pel' \subseteq 1 .. last'
        /\ acked' \subseteq 1 .. last' /\ swallowed' \subseteq 1 .. last'
        /\ doubted' \subseteq 1 .. last'
    BY <1>1, <1>2 DEF DInv, TypeOK
  <2>2. /\ ids' \subseteq pel' /\ records' \subseteq Storable(ids)'
        /\ pc' \in {"copy", "insert"} <=> records' # {}
        /\ pc' \in {"sleep", "ack", "copy"} /\ poisoned' \in Nat
    BY <1>2, <1>3, <1>4 DEF DInv, TypeOK, Storable
  <2> QED BY <1>1, <1>2, <2>1, <2>2 DEF DInv, TypeOK
<1>6. Cursor'
  BY <1>1, <1>2, <1>3 DEF DInv, Cursor, Holding
<1>7. Counted'
  <2>1. \A i \in Ids : i > last' => rows'[i] = 0
    BY <1>1, <1>2 DEF DInv, TypeOK, Counted, Ids
  <2>2. \A i \in records' : i \in Reply
    BY <1>3 DEF Storable
  <2> QED BY <1>1, <1>2, <2>1, <2>2 DEF DInv, Counted
<1>8. Settled'
  <2>1. ASSUME NEW i \in ids' \ records' PROVE ticks[i] # "good"
    BY <1>3, <2>1 DEF Storable
  <2> QED BY <1>1, <1>2, <2>1 DEF DInv, Settled, IsSettled
<1> QED BY <1>5, <1>6, <1>7, <1>8 DEF DInv

\* A COPY stores all records or none.
LEMMA CopyKeeps == ASSUME DInv, Copy \/ CopyRaises PROVE DInv'
<1> USE DbWriterAssumption
<1>1. /\ pc = "copy" /\ records # {} /\ records \subseteq ids
      /\ UNCHANGED <<stream, ids, swallowed, poisoned, stops>>
      /\ faults' \in 0 .. MaxFaults
  BY DEF Copy, CopyRaises, CountFault, DInv, TypeOK, Storable, history
<1>2. /\ UNCHANGED <<ticks, trimmed, group, last, pel, acked>>
      /\ \A i \in ids : i \in Ids /\ i <= last /\ i \notin acked /\ i \in 1 .. last
      /\ group
  BY <1>1 DEF stream, DInv, TypeOK, Cursor, Ids, Holding
<1>3. \/ /\ UNCHANGED <<rows, records, doubted>> /\ pc' = "insert"
      \/ /\ StoreAll /\ records' = {} /\ UNCHANGED doubted /\ pc' = "ack"
      \/ /\ StoreAll /\ doubted' = doubted \cup records /\ UNCHANGED records
         /\ pc' = "insert"
  BY DEF Copy, CopyRaises, history
<1>4. CASE UNCHANGED <<rows, records, doubted>> /\ pc' = "insert"
  BY <1>1, <1>2, <1>4 DEF DInv, TypeOK, Cursor, Counted, Settled, IsSettled,
     Holding, Storable
<1>5. CASE StoreAll /\ (\/ records' = {} /\ UNCHANGED doubted /\ pc' = "ack"
                        \/ /\ doubted' = doubted \cup records
                           /\ UNCHANGED records /\ pc' = "insert")
  <2>1. /\ rows' \in [Ids -> 0 .. 2]
        /\ \A i \in Ids \ records : rows'[i] = rows[i]
        /\ \A i \in records : rows[i] = 0 /\ rows'[i] = 1
    <3>1. \A i \in records : rows[i] = 0 /\ i \in Ids
      BY <1>1, <1>2 DEF DInv, Counted
    <3>2. /\ DOMAIN rows' = Ids
          /\ \A i \in Ids : rows'[i] = rows[i] + (IF i \in records THEN 1 ELSE 0)
          /\ rows' = [i \in Ids |-> rows'[i]]
      BY <1>5 DEF StoreAll
    <3>3. \A i \in Ids : rows[i] \in 0 .. 2
      BY DEF DInv, TypeOK
    <3> QED BY <3>1, <3>2, <3>3
  <2>2. TypeOK'
    BY <1>1, <1>2, <1>5, <2>1 DEF DInv, TypeOK, Storable
  <2>3. Cursor'
    BY <1>1, <1>2, <1>5 DEF DInv, Cursor, Holding
  <2>4. Counted'
    <3>1. \A i \in Ids : i > last => rows'[i] = 0
      BY <1>1, <1>2, <2>1 DEF DInv, TypeOK, Counted
    <3>2. \A i \in Ids : rows'[i] <= (IF i \in doubted' THEN 2 ELSE 1)
      <4> SUFFICES ASSUME NEW i \in Ids
                   PROVE  rows'[i] <= (IF i \in doubted' THEN 2 ELSE 1)
        OBVIOUS
      <4>1. doubted \subseteq doubted'
        BY <1>5
      <4>2. rows[i] \in 0 .. 2 /\ rows[i] <= (IF i \in doubted THEN 2 ELSE 1)
        BY DEF DInv, TypeOK, Counted
      <4> QED BY <2>1, <4>1, <4>2
    <3>3. \A i \in records' : i \in doubted' /\ rows'[i] = 1 /\ pc' = "insert"
      BY <1>5, <2>1
    <3> QED BY <1>2, <3>1, <3>2, <3>3 DEF Counted
  <2>5. Settled'
    BY <1>1, <1>2, <1>5, <2>1 DEF DInv, TypeOK, Settled, IsSettled, Ids
  <2> QED BY <2>2, <2>3, <2>4, <2>5 DEF DInv
<1> QED BY <1>3, <1>4, <1>5

\* A set of numbers has a least element: NextRecord is one of the records.
LEMMA NextRecordFacts ==
  ASSUME TypeOK, records # {} PROVE NextRecord \in records
<1>1. records \subseteq Nat
  BY DEF TypeOK, Storable
<1> DEFINE R == {p \in Nat \X Nat : p[1] < p[2]}
<1>2. IsWellFoundedOn(R, Nat)
  BY NatLessThanWellFounded DEF OpToRel
<1>3. PICK x \in records : \A y \in records : <<y, x>> \notin R
  <2> HIDE DEF R
  <2> QED BY <1>1, <1>2, WFMin
<1>4. ASSUME NEW y \in records PROVE x <= y
  <2>1. x \in Nat /\ y \in Nat /\ ~(y < x)
    BY <1>1, <1>3
  <2> QED BY <2>1
<1> QED BY <1>4 DEF NextRecord

\* One INSERT takes one record out; a good one is stored, or its call failed.
LEMMA InsertKeeps == ASSUME DInv, Insert \/ InsertRaises PROVE DInv'
<1> USE DbWriterAssumption
<1> DEFINE i == NextRecord
<1>1. /\ pc = "insert" /\ i \in records /\ records' = records \ {i}
      /\ pc' = IF records \ {i} = {} THEN "ack" ELSE "insert"
      /\ UNCHANGED <<stream, ids, doubted, poisoned, stops>>
      /\ faults' \in 0 .. MaxFaults
  BY NextRecordFacts DEF Insert, InsertRaises, StepOver, RecordsAfter,
     CountFault, DInv, TypeOK, history
<1>2. /\ UNCHANGED <<ticks, trimmed, group, last, pel, acked>> /\ group
      /\ \A j \in ids : j \in Ids /\ j <= last /\ j \notin acked /\ j \in 1 .. last
      /\ records \subseteq ids
  BY <1>1 DEF stream, DInv, TypeOK, Cursor, Ids, Holding, Storable
<1>3. \/ /\ ticks[i] = "good" /\ rows' = [rows EXCEPT ![i] = @ + 1]
         /\ UNCHANGED swallowed
      \/ /\ ticks[i] # "good" /\ UNCHANGED <<rows, swallowed>>
      \/ /\ ticks[i] = "good" /\ swallowed' = swallowed \cup {i}
         /\ UNCHANGED rows
  BY DEF Insert, InsertRaises, Store, history
<1>4. /\ i \in Ids /\ rows[i] \in 0 .. 2
      /\ rows[i] <= 1 /\ (i \notin doubted => rows[i] = 0)
  BY <1>1, <1>2 DEF DInv, TypeOK, Counted
<1>5. /\ rows' \in [Ids -> 0 .. 2]
      /\ \A j \in Ids \ {i} : rows'[j] = rows[j]
      /\ rows'[i] = rows[i] \/ rows'[i] = rows[i] + 1
      /\ ticks[i] = "good" /\ i \notin swallowed' => rows'[i] > 0
      /\ swallowed' \subseteq 1 .. last /\ swallowed \subseteq swallowed'
  <2> HIDE DEF i
  <2>1. rows \in [Ids -> 0 .. 2] /\ i \in 1 .. last /\ swallowed \subseteq 1 .. last
    BY <1>1, <1>2 DEF DInv, TypeOK
  <2>2. CASE ticks[i] # "good" /\ UNCHANGED <<rows, swallowed>>
    BY <2>1, <2>2
  <2>3. CASE swallowed' = swallowed \cup {i} /\ UNCHANGED rows
    BY <2>1, <2>3
  <2>4. CASE rows' = [rows EXCEPT ![i] = @ + 1] /\ UNCHANGED swallowed
    BY <2>1, <2>4, <1>4
  <2> QED BY <1>3, <2>2, <2>3, <2>4
<1> HIDE DEF i
<1>6. TypeOK'
  BY <1>1, <1>2, <1>5 DEF DInv, TypeOK, Storable
<1>7. Cursor'
  BY <1>1, <1>2 DEF DInv, Cursor, Holding
<1>8. Counted'
  BY <1>1, <1>2, <1>4, <1>5 DEF DInv, TypeOK, Counted
<1>9. Settled'
  BY <1>1, <1>2, <1>5 DEF DInv, TypeOK, Settled, IsSettled, Ids
<1> QED BY <1>6, <1>7, <1>8, <1>9 DEF DInv

\* The XACK settles the reply; a raising call of Redis may have done as much.
LEMMA AckKeeps == ASSUME DInv, Ack \/ ConsumeRaises PROVE DInv'
<1> USE DbWriterAssumption
<1>1. /\ pc \in {"read", "ack"} /\ records = {} /\ group
      /\ ids' = {} /\ records' = {} /\ pc' \in {"read", "sleep"}
      /\ UNCHANGED <<rows, swallowed, doubted, poisoned, stops>>
      /\ faults' \in 0 .. MaxFaults
  BY DEF Ack, ConsumeRaises, CountFault, DInv, TypeOK, Cursor, Holding, history
<1>2. \/ UNCHANGED stream
      \/ pc = "read" /\ Reply # {} /\ Delivered
      \/ AckEffect
  BY DEF Ack, ConsumeRaises
<1>3. CASE UNCHANGED stream
  BY <1>1, <1>3 DEF stream, DInv, TypeOK, Cursor, Counted, Settled, IsSettled,
     Holding, Storable
<1>4. CASE pc = "read" /\ Reply # {} /\ Delivered
  <2>1. /\ last' \in Nat /\ last < last' /\ last' <= Len(ticks) /\ last \in Nat
        /\ pel' = pel \cup Reply /\ UNCHANGED <<ticks, trimmed, group, acked>>
        /\ Reply \cap (pel \cup acked \cup swallowed \cup doubted) = {}
        /\ Reply \subseteq 1 .. last'
    BY <1>4, DeliveredFacts DEF DInv, TypeOK
  <2>2. TypeOK'
    BY <1>1, <2>1 DEF DInv, TypeOK, Storable
  <2>3. Cursor' /\ Settled'
    BY <1>1, <2>1 DEF DInv, Cursor, Settled, IsSettled, Holding
  <2>4. Counted'
    BY <1>1, <2>1 DEF DInv, TypeOK, Counted, Ids
  <2> QED BY <2>2, <2>3, <2>4 DEF DInv
<1>5. CASE AckEffect
  <2>1. /\ acked' = acked \cup ids /\ pel' = pel \ ids
        /\ UNCHANGED <<ticks, trimmed, group, last>>
    BY <1>5 DEF AckEffect, ToAck
  <2>2. TypeOK'
    BY <1>1, <2>1 DEF DInv, TypeOK, Storable
  <2>3. Cursor' /\ Counted' /\ Settled'
    BY <1>1, <2>1 DEF DInv, Cursor, Counted, Settled, IsSettled, Holding
  <2> QED BY <2>2, <2>3 DEF DInv
<1> QED BY <1>2, <1>3, <1>4, <1>5

LEMMA NextD == ASSUME DInv, [Next]_vars PROVE DInv'
<1>1. CASE Next
  BY <1>1, PublishKeeps, IdleKeeps, ReadKeeps, CopyKeeps, InsertKeeps, AckKeeps
     DEF Next, WriterStep
<1>2. CASE UNCHANGED vars
  BY <1>2 DEF vars, stream, history, DInv, TypeOK, Cursor, Counted, Settled,
     IsSettled, Storable, Ids
<1> QED BY <1>1, <1>2

-----------------------------------------------------------------------------
\* The inductive invariant holds of every reachable state.
THEOREM DInvCorrect == Spec => []DInv
BY InitD, NextD, PTL DEF Spec

\* Every reachable state has its type: in particular no tick is stored more
\* than twice (BatchWriter of collector/db_writer.py).
THEOREM TypeCorrect == Spec => []TypeOK
<1>1. DInv => TypeOK
  BY DEF DInv
<1> QED BY <1>1, DInvCorrect, PTL

\* An acknowledged tick is stored, refused by the table, or its own INSERT
\* failed (db_writer.py:89-123).
THEOREM AckedIsSettledCorrect == Spec => []AckedIsSettled
<1>1. DInv => AckedIsSettled
  BY DEF DInv, Settled, IsSettled, AckedIsSettled
<1> QED BY <1>1, DInvCorrect, PTL

\* Only a COPY that was carried out and raised stores a tick twice
\* (db_writer.py:93-98).
THEOREM StoredOnceCorrect == Spec => []StoredOnce
<1>1. DInv => StoredOnce
  BY DEF DInv, TypeOK, Counted, StoredOnce
<1> QED BY <1>1, DInvCorrect, PTL

-----------------------------------------------------------------------------
(***************************************************************************)
(* What the writer never saw.                                              *)
(***************************************************************************)
TrimLeaves == trimmed > 0 => trimmed + MaxLen <= Len(ticks)

\* Steps that leave the stream and the union of pending and acknowledged alone.
LEMMA SameSeen ==
  ASSUME DInv, UnseenIsTrimmed /\ TrimLeaves, UNCHANGED <<ticks, trimmed, last>>,
         pel' \cup acked' = pel \cup acked
  PROVE  UnseenIsTrimmed' /\ TrimLeaves'
BY DEF UnseenIsTrimmed, TrimLeaves

\* A delivery leaves out only what is trimmed.
LEMMA DeliveredSeen ==
  ASSUME DInv, UnseenIsTrimmed /\ TrimLeaves, Reply # {}, Delivered
  PROVE  UnseenIsTrimmed' /\ TrimLeaves'
<1>1. /\ last' = Upto /\ pel' = pel \cup Reply /\ UNCHANGED <<ticks, trimmed, acked>>
  BY DEF Delivered
<1>2. /\ FirstNew \in Nat /\ (FirstNew = last + 1 \/ FirstNew = trimmed + 1)
      /\ Upto \in Nat /\ last \in Nat /\ trimmed \in Nat /\ Len(ticks) \in Nat
  BY ReplyFacts DEF DInv
<1>3. ASSUME NEW i \in 1 .. Upto, i \notin pel \cup Reply \cup acked
      PROVE  i <= trimmed /\ i + MaxLen <= Len(ticks)
  <2>1. CASE i <= last
    BY <1>2, <1>3, <2>1 DEF UnseenIsTrimmed
  <2>2. CASE i > last
    <3>1. i < FirstNew
      BY <1>2, <1>3 DEF Reply
    <3>2. i <= trimmed
      BY <1>2, <2>2, <3>1
    <3> QED BY <1>2, <3>2, DbWriterAssumption DEF TrimLeaves
  <2> QED BY <1>2, <2>1, <2>2
<1> QED BY <1>1, <1>3 DEF UnseenIsTrimmed, TrimLeaves

LEMMA NextSeen ==
  ASSUME DInv, UnseenIsTrimmed /\ TrimLeaves, [Next]_vars
  PROVE  UnseenIsTrimmed' /\ TrimLeaves'
<1>1. CASE Publish
  <2>1. PICK kind \in Kinds : ticks' = Append(ticks, kind)
    BY <1>1 DEF Publish
  <2>2. Len(ticks') = Len(ticks) + 1 /\ Len(ticks) \in Nat
    BY <2>1 DEF DInv, TypeOK
  <2>3. /\ UNCHANGED <<last, pel, acked>> /\ trimmed \in Nat /\ trimmed' \in Nat
        /\ trimmed' >= trimmed
        /\ trimmed' = trimmed \/ trimmed' + MaxLen <= Len(ticks')
    BY <1>1, <2>2 DEF Publish, Trims, DInv, TypeOK
  <2>4. TrimLeaves'
    BY <2>2, <2>3, DbWriterAssumption DEF TrimLeaves
  <2>5. last \in Nat
    BY DEF DInv, TypeOK
  <2>6. UnseenIsTrimmed'
    BY <2>2, <2>3, <2>5, DbWriterAssumption DEF UnseenIsTrimmed
  <2> QED BY <2>4, <2>6
<1>2. CASE Reply # {} /\ Delivered
  BY <1>2, DeliveredSeen
<1>3. CASE AckEffect
  <2>1. pel' \cup acked' = pel \cup acked /\ UNCHANGED <<ticks, trimmed, last>>
    BY <1>3 DEF AckEffect, ToAck, DInv, TypeOK
  <2> QED BY <2>1, SameSeen
<1>4. CASE UNCHANGED <<ticks, trimmed, last, pel, acked>>
  BY <1>4, SameSeen
<1>5. \/ Publish
      \/ Reply # {} /\ Delivered
      \/ AckEffect
      \/ UNCHANGED <<ticks, trimmed, last, pel, acked>>
  <2>1. CASE EnsureGroup \/ StartFails
    BY <2>1 DEF EnsureGroup, StartFails, GroupStart, DInv, Cursor
  <2>2. CASE Boot \/ Read \/ Ack \/ ConsumeRaises \/ UNCHANGED vars
    BY <2>2 DEF Boot, Read, Ack, ConsumeRaises, vars, stream
  <2>3. CASE \/ Copy \/ CopyRaises \/ Insert \/ InsertRaises \/ Wake \/ Stop
    BY <2>3 DEF Copy, CopyRaises, Insert, InsertRaises, Wake, Stop, stream
  <2> QED BY <2>1, <2>2, <2>3, Zenon DEF Next, WriterStep
<1> QED BY <1>1, <1>2, <1>3, <1>4, <1>5

\* What the writer never saw had been trimmed, with MaxLen newer ticks in the
\* stream (redis_publisher.py:35, db_writer.py:59).
THEOREM UnseenIsTrimmedCorrect == Spec => []UnseenIsTrimmed
<1>1. Init => UnseenIsTrimmed /\ TrimLeaves
  BY DEF Init, UnseenIsTrimmed, TrimLeaves
<1> QED BY <1>1, NextSeen, DInvCorrect, PTL DEF Spec

-----------------------------------------------------------------------------
(***************************************************************************)
(* How many entries stay pending: one reply per failure, stop or NaN.      *)
(***************************************************************************)
Losses == faults + stops + poisoned
Lost == pel \ ids

FewLost ==
    /\ Cardinality(Lost) <= BatchSize * Losses
    /\ Cardinality(ids) <= BatchSize

\* The sets the loop handles are finite.
LEMMA Finite ==
  ASSUME TypeOK
  PROVE  IsFiniteSet(pel) /\ IsFiniteSet(ids) /\ IsFiniteSet(Lost)
<1>1. IsFiniteSet(1 .. last)
  BY FS_Interval DEF TypeOK
<1> QED BY <1>1, FS_Subset DEF TypeOK, Lost

\* The losses are counted.
LEMMA LossesType == ASSUME TypeOK PROVE Losses \in Nat
<1>1. faults \in 0 .. MaxFaults /\ stops \in 0 .. MaxStops /\ poisoned \in Nat
  BY Zenon DEF TypeOK
<1> QED BY <1>1, DbWriterAssumption DEF Losses

LEMMA LossesTypeNext == ASSUME TypeOK' PROVE Losses' \in Nat
<1>1. faults' \in 0 .. MaxFaults /\ stops' \in 0 .. MaxStops /\ poisoned' \in Nat
  BY Zenon DEF TypeOK
<1>2. Losses' = faults' + stops' + poisoned'
  BY DEF Losses
<1>3. faults' \in Nat /\ stops' \in Nat
  BY <1>1, DbWriterAssumption
<1>4. \A a, b, c \in Nat : a + b + c \in Nat
  OBVIOUS
<1> QED BY <1>1, <1>2, <1>3, <1>4, Zenon

\* A reply has at most BatchSize entries.
LEMMA ReplyIsSmall ==
  ASSUME TypeOK PROVE IsFiniteSet(Reply) /\ Cardinality(Reply) <= BatchSize
<1>1. FirstNew \in Int /\ Upto \in Int /\ Upto <= FirstNew + BatchSize - 1
  BY ReplyFacts
<1>2. /\ IsFiniteSet(Reply)
      /\ Cardinality(Reply) = IF FirstNew > Upto THEN 0 ELSE Upto - FirstNew + 1
  BY <1>1, FS_Interval DEF Reply
<1> QED BY <1>1, <1>2, DbWriterAssumption

\* One more loss pays for the entries of one more reply.
LEMMA OneMore ==
  ASSUME TypeOK, TypeOK', FewLost, Losses' >= Losses, NEW X, IsFiniteSet(X),
         Cardinality(X) <= BatchSize, Lost' \subseteq Lost \cup X,
         X = {} \/ Losses' > Losses
  PROVE  Cardinality(Lost') <= BatchSize * Losses'
<1>1. IsFiniteSet(Lost) /\ IsFiniteSet(Lost')
  <2>1. IsFiniteSet(1 .. last')
    BY FS_Interval DEF TypeOK
  <2> QED BY <2>1, Finite, FS_Subset DEF TypeOK, Lost
<1>2. /\ Losses \in Nat /\ Losses' \in Nat /\ BatchSize \in Nat
  BY DbWriterAssumption, LossesType, LossesTypeNext
<1>3. /\ Cardinality(Lost) \in Nat /\ Cardinality(X) \in Nat
      /\ Cardinality(Lost') \in Nat
  BY <1>1, FS_CardinalityType
<1>4. Cardinality(Lost') <= Cardinality(Lost) + Cardinality(X)
  <2>1. /\ IsFiniteSet(Lost \cup X) /\ IsFiniteSet(Lost \cap X)
        /\ Cardinality(Lost \cup X)
             = Cardinality(Lost) + Cardinality(X) - Cardinality(Lost \cap X)
    BY <1>1, FS_Union, FS_Subset
  <2>2. Cardinality(Lost \cap X) \in Nat /\ Cardinality(Lost \cup X) \in Nat
    BY <2>1, FS_CardinalityType
  <2>3. Cardinality(Lost') <= Cardinality(Lost \cup X)
    BY <2>1, FS_Subset
  <2> QED BY <1>3, <2>1, <2>2, <2>3
<1> DEFINE m == Losses
           n == Losses'
<1>5. m \in Nat /\ n \in Nat /\ BatchSize * m \in Nat /\ BatchSize * n \in Nat
  <2> HIDE DEF m, n
  <2>1. \A k \in Nat : BatchSize * k \in Nat
    BY <1>2
  <2>2. m \in Nat /\ n \in Nat
    BY <1>2 DEF m, n
  <2> QED BY <2>1, <2>2
<1>6. /\ n >= m => BatchSize * n >= BatchSize * m
      /\ n > m => BatchSize * n >= BatchSize * m + BatchSize
  <2> HIDE DEF m, n
  <2>1. n = m + (n - m) /\ BatchSize * (m + (n - m)) = BatchSize * m + BatchSize * (n - m)
    BY <1>2, <1>5
  <2>2. /\ n >= m => BatchSize * (n - m) >= 0
        /\ n > m => BatchSize * (n - m) >= BatchSize
    BY <1>2, <1>5
  <2> QED BY <1>2, <1>5, <2>1, <2>2
<1>7. Cardinality(Lost) <= BatchSize * m
  BY DEF FewLost
<1> HIDE DEF m, n
<1>8. CASE X = {}
  <2>1. Cardinality(X) = 0
    BY <1>8, FS_EmptySet
  <2>2. BatchSize * n >= BatchSize * m
    BY <1>6 DEF m, n
  <2>3. Cardinality(Lost') <= BatchSize * n
    BY <1>2, <1>3, <1>4, <1>5, <1>7, <2>1, <2>2
  <2> QED BY <2>3 DEF n
<1>9. CASE Losses' > Losses
  <2>1. BatchSize * n >= BatchSize * m + BatchSize
    BY <1>6, <1>9 DEF m, n
  <2>2. Cardinality(Lost') <= BatchSize * n
    BY <1>2, <1>3, <1>4, <1>5, <1>7, <2>1
  <2> QED BY <2>2 DEF n
<1> QED BY <1>8, <1>9

LEMMA NextLost ==
  ASSUME DInv, DInv', FewLost, [Next]_vars PROVE FewLost'
<1> USE DbWriterAssumption
<1>1. TypeOK /\ TypeOK' /\ Losses \in Nat /\ Losses' \in Nat
  BY LossesType, LossesTypeNext DEF DInv
<1>0. faults \in Nat /\ stops \in Nat /\ poisoned \in Nat
  <2>1. faults \in 0 .. MaxFaults /\ stops \in 0 .. MaxStops /\ poisoned \in Nat
    BY <1>1, Zenon DEF TypeOK
  <2> QED BY <2>1
<1>2. IsFiniteSet(ids) /\ IsFiniteSet({}) /\ Cardinality({}) = 0
  BY <1>1, Finite, FS_EmptySet
<1>3. IsFiniteSet(Reply) /\ Cardinality(Reply) <= BatchSize
  BY <1>1, ReplyIsSmall
<1>a. Losses = faults + stops + poisoned /\ Losses' = faults' + stops' + poisoned'
  BY DEF Losses
<1>4. CASE Losses' >= Losses /\ ids' \in {{}, ids} /\ Lost' \subseteq Lost
  <2>1. Cardinality(Lost') <= BatchSize * Losses'
    BY <1>1, <1>2, <1>4, OneMore
  <2> QED BY <1>2, <1>4, <2>1 DEF FewLost
<1>5. CASE Losses' > Losses /\ ids' = {} /\ Lost' \subseteq Lost \cup ids
  <2>1. Losses' >= Losses
    BY <1>1, <1>5
  <2>2. Cardinality(Lost') <= BatchSize * Losses'
    BY <1>1, <1>2, <1>5, <2>1, OneMore DEF FewLost
  <2> QED BY <1>2, <1>5, <2>2 DEF FewLost
<1>6. CASE Losses' > Losses /\ ids' = {} /\ Lost' \subseteq Lost \cup Reply
  <2>1. Losses' >= Losses
    BY <1>1, <1>6
  <2>2. Cardinality(Lost') <= BatchSize * Losses'
    BY <1>1, <1>3, <1>6, <2>1, OneMore
  <2> QED BY <1>2, <1>6, <2>2 DEF FewLost
<1>7. CASE Losses' = Losses /\ ids' = Reply /\ Lost' \subseteq Lost
  <2>1. Losses' >= Losses
    BY <1>1, <1>7
  <2>2. Cardinality(Lost') <= BatchSize * Losses'
    BY <1>1, <1>2, <1>7, <2>1, OneMore
  <2> QED BY <1>3, <1>7, <2>2 DEF FewLost
<1>8. CASE Read
  <2>1. /\ ids = {} /\ pel' = pel \cup Reply /\ UNCHANGED <<faults, stops>>
        /\ \/ ids' = {} /\ poisoned' = poisoned + 1
           \/ ids' = Reply /\ UNCHANGED poisoned
    BY <1>8 DEF Read, ReadPoison, ReadBatch, Delivered, DInv, Cursor, Holding
  <2> QED BY <1>0, <1>a, <1>6, <1>7, <2>1 DEF Lost
<1>9. CASE Ack \/ ConsumeRaises
  <2>1. /\ ids' = {} /\ UNCHANGED <<stops, poisoned>>
        /\ \/ Ack /\ UNCHANGED faults
           \/ faults' = faults + 1
    BY <1>9 DEF Ack, ConsumeRaises, CountFault, history
  <2>2. CASE AckEffect
    BY <1>0, <1>a, <1>4, <2>1, <2>2 DEF AckEffect, ToAck, Lost
  <2>3. CASE ConsumeRaises /\ UNCHANGED stream
    BY <1>0, <1>a, <1>5, <2>1, <2>3 DEF stream, Lost, ConsumeRaises, CountFault
  <2>4. CASE ConsumeRaises /\ pc = "read" /\ Delivered
    BY <1>0, <1>a, <1>6, <2>1, <2>4 DEF Delivered, Lost, ConsumeRaises, CountFault,
       DInv, Cursor, Holding
  <2> QED BY <1>9, <2>2, <2>3, <2>4 DEF Ack, ConsumeRaises
<1>10. CASE Stop
  BY <1>0, <1>a, <1>5, <1>10 DEF Stop, stream, history, Lost
<1>11. CASE \/ Publish \/ Boot \/ EnsureGroup \/ StartFails \/ Copy \/ CopyRaises
            \/ Insert \/ InsertRaises \/ Wake \/ UNCHANGED vars
  <2>1. /\ UNCHANGED <<pel, ids, stops, poisoned>>
        /\ UNCHANGED faults \/ faults' = faults + 1
    BY <1>11 DEF Publish, Boot, EnsureGroup, StartFails, Copy, CopyRaises, Insert,
       InsertRaises, Wake, CountFault, vars, stream, history
  <2> QED BY <1>0, <1>a, <1>4, <2>1 DEF Lost
<1> QED BY <1>8, <1>9, <1>10, <1>11 DEF Next, WriterStep

\* A failing call, a shutdown or a NaN costs at most one reply its XACK
\* (db_writer.py:64-100, 169-176).
THEOREM OneReplyEachCorrect == Spec => []OneReplyEach
<1>1. Init => FewLost
  <2> SUFFICES ASSUME Init PROVE FewLost
    OBVIOUS
  <2>1. Lost = {} /\ ids = {} /\ Losses = 0
    BY DEF Init, Lost, Losses
  <2> QED BY <2>1, FS_EmptySet, DbWriterAssumption DEF FewLost
<1>2. FewLost => OneReplyEach
  BY DEF FewLost, Lost, Losses, OneReplyEach
<1> QED BY <1>1, <1>2, NextLost, DInvCorrect, PTL DEF Spec
=============================================================================
