-------------------------- MODULE CollectorProofs ---------------------------
(***************************************************************************)
(* Proofs about Collector, for any set of symbols and chunks, any number   *)
(* of permits, failures and stops.  The invariant says which tasks may be  *)
(* where (Shape), that a depth trails its price only while the task that   *)
(* published the price awaits the SET, or by a failure or a stop that came *)
(* in between (Trails), and that a permit is taken before a handshake and  *)
(* given back by the first book or an error (Bounded).                     *)
(***************************************************************************)
EXTENDS Collector, FiniteSetTheorems, TLAPS

Labels == {"off", "delay", "queued", "watch", "price", "depth", "sleep"}

\* Only tasks of the mode run; a task with a book in hand is connected and the
\* book is of one of its symbols; the queue holds each waiting task once.
Shape ==
    /\ \A t \in AllTasks : pc[t] # "off" => t \in Tasks(mode)
    /\ once = live
    /\ \A t \in AllTasks : pc[t] \in {"price", "depth"} => cur[t] \in t /\ t \in once
    /\ \A i \in 1 .. Len(waiting) : pc[waiting[i]] = "queued"
    /\ \A i, j \in 1 .. Len(waiting) : waiting[i] = waiting[j] => i = j

\* a task has published the price of s and not its depth
Between(s) == \E t \in AllTasks : pc[t] = "depth" /\ cur[t] = s

Trails ==
    \A s \in Symbols : age[s] \in Nat =>
        /\ age[s] <= 1 + faults + stops
        /\ ~Between(s) => age[s] <= faults + stops

Bounded ==
    mode = "per_symbol" => IsFiniteSet(Holders) /\ Cardinality(Holders) <= Permits

CInv == TypeOK /\ Shape /\ StatusIsWitnessed /\ Trails /\ Bounded

-----------------------------------------------------------------------------
\* The tasks of a mode are disjoint and not empty.
LEMMA TaskFacts ==
  ASSUME mode \in Modes
  PROVE  /\ Tasks(mode) \subseteq AllTasks
         /\ \A t \in AllTasks : t \subseteq Symbols
         /\ \A t, u \in Tasks(mode) : \A s \in Symbols : s \in t /\ s \in u => t = u
<1>1. CASE mode = "multiplexed"
  BY <1>1, CollectorAssumption DEF Tasks, AllTasks
<1>2. CASE mode = "per_symbol"
  <2>1. Tasks(mode) = {{s} : s \in Symbols}
    BY <1>2 DEF Tasks
  <2>2. \A t \in AllTasks : t \subseteq Symbols
    BY CollectorAssumption DEF Tasks, AllTasks
  <2>3. ASSUME NEW t \in Tasks(mode), NEW u \in Tasks(mode), NEW s \in Symbols,
               s \in t, s \in u
        PROVE  t = u
    <3>1. PICK a \in Symbols : t = {a}
      BY <2>1
    <3>2. PICK b \in Symbols : u = {b}
      BY <2>1
    <3> QED BY <2>3, <3>1, <3>2
  <2>4. Tasks(mode) \subseteq AllTasks
    BY <1>2 DEF AllTasks
  <2> QED BY <2>2, <2>3, <2>4
<1> QED BY <1>1, <1>2 DEF Modes

\* The counters stay in their bounds, and the bounds are numbers.
LEMMA CountFacts ==
  ASSUME TypeOK
  PROVE  /\ faults \in Nat /\ stops \in Nat
         /\ faults < MaxFaults => faults + 1 \in 0 .. MaxFaults
         /\ stops < MaxStops => stops + 1 \in 0 .. MaxStops
<1>1. faults \in 0 .. MaxFaults /\ stops \in 0 .. MaxStops
  BY Zenon DEF TypeOK
<1> QED BY <1>1, CollectorAssumption

\* Holders that become fewer stay bounded.
LEMMA FewerHolders ==
  ASSUME Bounded, mode' = mode, mode = "per_symbol" => Holders' \subseteq Holders
  PROVE  Bounded'
<1> SUFFICES ASSUME mode = "per_symbol"
             PROVE  IsFiniteSet(Holders)' /\ Cardinality(Holders)' <= Permits
  BY DEF Bounded
<1>1. IsFiniteSet(Holders) /\ Cardinality(Holders) <= Permits /\ Permits \in Nat
  BY CollectorAssumption DEF Bounded
<1>2. IsFiniteSet(Holders') /\ Cardinality(Holders') <= Cardinality(Holders)
  BY <1>1, FS_Subset
<1>3. Cardinality(Holders) \in Nat /\ Cardinality(Holders') \in Nat
  BY <1>1, <1>2, FS_CardinalityType
<1> QED BY <1>1, <1>2, <1>3

\* At the head of the loop a task watches on, or queues for a permit.
LEMMA WatchFacts ==
  ASSUME TypeOK, NEW t \in AllTasks, Watch(t)
  PROVE  \/ /\ pc' = [pc EXCEPT ![t] = "watch"] /\ waiting' = waiting
            /\ mode = "multiplexed" \/ t \in once
         \/ /\ pc' = [pc EXCEPT ![t] = "queued"] /\ waiting' = Append(waiting, t)
BY DEF Watch, Goto

LEMMA InitC == Init => CInv
<1> SUFFICES ASSUME Init PROVE CInv
  OBVIOUS
<1>1. TypeOK
  <2>1. waiting \in Seq(Tasks(mode)) /\ age \in [Symbols -> 0 .. MaxAge \cup {Expired}]
        /\ pc \in [AllTasks -> {"off", "delay", "queued", "watch", "price",
                                "depth", "sleep"}]
        /\ cur \in [AllTasks -> Symbols \cup {NoSymbol}]
    BY DEF Init
  <2> QED BY <2>1, CollectorAssumption DEF Init, TypeOK
<1>2. Shape /\ StatusIsWitnessed
  BY DEF Init, Shape, StatusIsWitnessed
<1>3. Trails
  BY CollectorAssumption DEF Init, Trails
<1>4. Bounded
  <2>1. Holders = {}
    BY DEF Init, Holders, Tasks, AllTasks, Modes
  <2> QED BY <2>1, FS_EmptySet, CollectorAssumption DEF Bounded
<1> QED BY <1>1, <1>2, <1>3, <1>4 DEF CInv

-----------------------------------------------------------------------------
\* Steps of the whole collector: start, stop, a new object.
LEMMA StartKeeps == ASSUME CInv, Start PROVE CInv'
<1>1. /\ \A t \in AllTasks : pc[t] = "off"
      /\ pc' = [t \in AllTasks |-> IF t \notin Tasks(mode) THEN "off"
                                   ELSE IF mode = "multiplexed" THEN "watch"
                                   ELSE "delay"]
      /\ UNCHANGED <<mode, status, once, cur, waiting, live, age, faults, stops>>
  BY DEF Start, Running
<1>2. TypeOK'
  BY <1>1 DEF CInv, TypeOK
<1>3. waiting = <<>>
  <2>1. waiting \in Seq(Tasks(mode)) /\ Tasks(mode) \subseteq AllTasks
    BY TaskFacts DEF CInv, TypeOK
  <2>2. SUFFICES ASSUME waiting # <<>> PROVE FALSE
    OBVIOUS
  <2>3. 1 \in 1 .. Len(waiting) /\ waiting[1] \in AllTasks
    BY <2>1, <2>2
  <2> QED BY <1>1, <2>3 DEF CInv, Shape
<1>4. Shape' /\ StatusIsWitnessed'
  BY <1>1, <1>3 DEF CInv, Shape, StatusIsWitnessed
<1>5. Trails'
  BY <1>1 DEF CInv, Trails, Between
<1>6. Bounded'
  <2>1. mode = "per_symbol" => Holders' \subseteq Holders
    BY <1>1, TaskFacts DEF Holders, CInv, TypeOK
  <2> QED BY <1>1, <2>1, FewerHolders DEF CInv, Bounded
<1> QED BY <1>2, <1>4, <1>5, <1>6 DEF CInv

LEMMA StopKeeps == ASSUME CInv, Stop PROVE CInv'
<1>1. /\ pc' = [t \in AllTasks |-> "off"] /\ waiting' = <<>>
      /\ once' = {} /\ live' = {} /\ cur' = [t \in AllTasks |-> NoSymbol]
      /\ status' = "disconnected" /\ stops' = stops + 1 /\ stops' \in 0 .. MaxStops
      /\ UNCHANGED <<mode, age, faults>>
  BY CountFacts DEF Stop, CInv
<1>2. TypeOK'
  BY <1>1 DEF CInv, TypeOK
<1>3. Shape' /\ StatusIsWitnessed'
  BY <1>1 DEF Shape, StatusIsWitnessed
<1>4. Trails'
  BY <1>1, CountFacts, CollectorAssumption DEF CInv, TypeOK, Trails
<1>5. Bounded'
  <2>1. Holders' \subseteq Holders
    BY <1>1, TaskFacts DEF Holders, CInv, TypeOK
  <2> QED BY <1>1, <2>1, FewerHolders DEF CInv
<1> QED BY <1>2, <1>3, <1>4, <1>5 DEF CInv

LEMMA QuietKeeps ==
  ASSUME CInv, Restart \/ UNCHANGED vars \/ (\E s \in Symbols : Expire(s)) PROVE CInv'
<1>1. /\ UNCHANGED <<mode, pc, once, cur, waiting, live, faults, stops>>
      /\ UNCHANGED status \/ status' = "connecting"
  BY DEF Restart, Expire, vars, task
<1>2. /\ \A s \in Symbols : age'[s] \in {age[s], Expired}
      /\ age' \in [Symbols -> 0 .. MaxAge \cup {Expired}]
  BY DEF Restart, Expire, vars, CInv, TypeOK
<1>3. TypeOK'
  <2>1. status' \in {"connecting", "connected", "reconnecting", "disconnected"}
    <3>1. status \in {"connecting", "connected", "reconnecting", "disconnected"}
      BY DEF CInv, TypeOK
    <3> QED BY <1>1, <3>1
  <2> QED BY <1>1, <1>2, <2>1 DEF CInv, TypeOK
<1>4. Shape' /\ StatusIsWitnessed'
  BY <1>1 DEF CInv, Shape, StatusIsWitnessed
<1>5. Trails'
  BY <1>1, <1>2, CollectorAssumption DEF CInv, Trails, Between
<1>6. Bounded'
  BY <1>1 DEF CInv, Bounded, Holders
<1> QED BY <1>3, <1>4, <1>5, <1>6 DEF CInv

-----------------------------------------------------------------------------
\* A permit is handed to the first task of the queue.
LEMMA AcquireKeeps == ASSUME CInv, Acquire PROVE CInv'
<1> DEFINE h == Head(waiting)
<1>1. /\ waiting # <<>> /\ Cardinality(Holders) < Permits
      /\ pc' = [pc EXCEPT ![h] = "watch"] /\ waiting' = Tail(waiting)
      /\ UNCHANGED <<mode, status, once, cur, live, age, faults, stops>>
  BY DEF Acquire, Goto
<1>2. /\ waiting \in Seq(Tasks(mode)) /\ Tasks(mode) \subseteq AllTasks
      /\ pc \in [AllTasks -> Labels]
  BY TaskFacts DEF CInv, TypeOK, Labels
<1>3. /\ h \in Tasks(mode) /\ h \in AllTasks /\ h = waiting[1] /\ pc[h] = "queued"
      /\ waiting' \in Seq(Tasks(mode)) /\ Len(waiting') = Len(waiting) - 1
      /\ \A i \in 1 .. Len(waiting') : /\ waiting'[i] = waiting[i + 1]
                                       /\ i + 1 \in 1 .. Len(waiting)
                                       /\ waiting[i + 1] # h
                                       /\ waiting[i + 1] \in AllTasks
  BY <1>1, <1>2 DEF CInv, Shape
<1> HIDE DEF h
<1>4. TypeOK'
  BY <1>1, <1>3 DEF CInv, TypeOK
<1>5. Shape'
  BY <1>1, <1>2, <1>3 DEF CInv, Shape
<1>6. StatusIsWitnessed' /\ Trails'
  <2>1. \A s \in Symbols : Between(s)' <=> Between(s)
    BY <1>1, <1>2, <1>3 DEF Between
  <2> QED BY <1>1, <2>1 DEF CInv, StatusIsWitnessed, Trails
<1>7. Bounded'
  <2>1. SUFFICES ASSUME mode = "per_symbol"
                 PROVE  IsFiniteSet(Holders)' /\ Cardinality(Holders)' <= Permits
    BY <1>1 DEF Bounded
  <2>2. IsFiniteSet(Holders) /\ Permits \in Nat
    BY <2>1, CollectorAssumption DEF CInv, Bounded
  <2>3. Holders' \subseteq Holders \cup {h}
    BY <1>1, <1>2, <1>3 DEF Holders
  <2>4. /\ IsFiniteSet(Holders \cup {h})
        /\ Cardinality(Holders \cup {h}) \in {Cardinality(Holders), Cardinality(Holders) + 1}
    BY <2>2, FS_AddElement
  <2>5. /\ IsFiniteSet(Holders') /\ Cardinality(Holders') <= Cardinality(Holders \cup {h})
    BY <2>3, <2>4, FS_Subset
  <2>6. Cardinality(Holders) \in Nat /\ Cardinality(Holders') \in Nat
    BY <2>2, <2>5, FS_CardinalityType
  <2> QED BY <1>1, <2>2, <2>4, <2>5, <2>6
<1> QED BY <1>4, <1>5, <1>6, <1>7 DEF CInv

-----------------------------------------------------------------------------
\* Steps of one task.  A task that comes to the head of the loop: what it did
\* before leaves the marks, the status and the counters as they were.
LEMMA LoopHeadShape ==
  ASSUME CInv, NEW t \in AllTasks, Watch(t), pc[t] \notin {"off", "queued"},
         UNCHANGED <<mode, status, once, live, faults, stops>>,
         \A u \in AllTasks \ {t} : cur'[u] = cur[u],
         cur' \in [AllTasks -> Symbols \cup {NoSymbol}]
  PROVE  Shape' /\ StatusIsWitnessed'
<1>1. /\ t \in Tasks(mode) /\ waiting \in Seq(Tasks(mode)) /\ Tasks(mode) \subseteq AllTasks
      /\ pc \in [AllTasks -> Labels]
  BY TaskFacts DEF CInv, TypeOK, Shape, Labels
<1>2. StatusIsWitnessed'
  BY DEF CInv, StatusIsWitnessed
<1>3. \A i \in 1 .. Len(waiting) : waiting[i] # t /\ waiting[i] \in AllTasks
  BY <1>1 DEF CInv, Shape
<1>4. CASE pc' = [pc EXCEPT ![t] = "watch"] /\ waiting' = waiting
  <2>1. /\ \A i \in 1 .. Len(waiting') : pc'[waiting'[i]] = "queued"
        /\ \A i, j \in 1 .. Len(waiting') : waiting'[i] = waiting'[j] => i = j
    BY <1>1, <1>3, <1>4 DEF CInv, Shape
  <2>2. /\ \A u \in AllTasks : pc'[u] # "off" => u \in Tasks(mode)'
        /\ once' = live'
        /\ \A u \in AllTasks : pc'[u] \in {"price", "depth"} => cur'[u] \in u /\ u \in once'
    BY <1>1, <1>4 DEF CInv, Shape, Tasks
  <2> QED BY <1>2, <2>1, <2>2 DEF Shape
<1>5. CASE pc' = [pc EXCEPT ![t] = "queued"] /\ waiting' = Append(waiting, t)
  <2>1. /\ Len(waiting') = Len(waiting) + 1 /\ Len(waiting) \in Nat
        /\ waiting'[Len(waiting) + 1] = t
        /\ \A i \in 1 .. Len(waiting) : waiting'[i] = waiting[i]
    BY <1>1, <1>5
  <2>2. \A i \in 1 .. Len(waiting') : i \in 1 .. Len(waiting) \/ i = Len(waiting) + 1
    BY <2>1
  <2>3. \A i \in 1 .. Len(waiting') : pc'[waiting'[i]] = "queued"
    BY <1>1, <1>3, <1>5, <2>1, <2>2 DEF CInv, Shape
  <2>4. \A i, j \in 1 .. Len(waiting') : waiting'[i] = waiting'[j] => i = j
    BY <1>3, <2>1, <2>2 DEF CInv, Shape
  <2>5. /\ \A u \in AllTasks : pc'[u] # "off" => u \in Tasks(mode)'
        /\ once' = live'
        /\ \A u \in AllTasks : pc'[u] \in {"price", "depth"} => cur'[u] \in u /\ u \in once'
    BY <1>1, <1>5 DEF CInv, Shape, Tasks
  <2> QED BY <1>2, <2>3, <2>4, <2>5 DEF Shape
<1> QED BY <1>2, <1>4, <1>5, WatchFacts DEF CInv

LEMMA LoopHeadType ==
  ASSUME CInv, NEW t \in AllTasks, Watch(t), pc[t] \notin {"off", "queued"},
         UNCHANGED mode
  PROVE  /\ pc' \in [AllTasks -> Labels] /\ waiting' \in Seq(Tasks(mode))
         /\ UNCHANGED once /\ mode = "per_symbol" => Holders' \subseteq Holders
<1>1. /\ t \in Tasks(mode) /\ waiting \in Seq(Tasks(mode)) /\ Tasks(mode) \subseteq AllTasks
      /\ pc \in [AllTasks -> Labels]
  BY TaskFacts DEF CInv, TypeOK, Shape, Labels
<1>2. CASE /\ pc' = [pc EXCEPT ![t] = "watch"] /\ waiting' = waiting
           /\ mode = "multiplexed" \/ t \in once
  BY <1>1, <1>2 DEF Holders, Labels
<1>3. CASE pc' = [pc EXCEPT ![t] = "queued"] /\ waiting' = Append(waiting, t)
  BY <1>1, <1>3 DEF Holders, Labels
<1> QED BY <1>2, <1>3, WatchFacts DEF CInv

LEMMA WakeKeeps == ASSUME CInv, NEW t \in AllTasks, Wake(t) PROVE CInv'
<1>1. /\ pc[t] \in {"delay", "sleep"} /\ Watch(t)
      /\ UNCHANGED <<mode, status, once, cur, live, age, faults, stops>>
      /\ cur \in [AllTasks -> Symbols \cup {NoSymbol}] /\ pc \in [AllTasks -> Labels]
  BY DEF Wake, CInv, TypeOK, Labels
<1>2. /\ pc' \in [AllTasks -> Labels] /\ waiting' \in Seq(Tasks(mode))
      /\ UNCHANGED once /\ mode = "per_symbol" => Holders' \subseteq Holders
  BY <1>1, LoopHeadType
<1>3. TypeOK'
  BY <1>1, <1>2 DEF CInv, TypeOK, Labels
<1>4. Shape' /\ StatusIsWitnessed'
  BY <1>1, LoopHeadShape
<1>5. Trails'
  <2>1. \A s \in Symbols : Between(s)' <=> Between(s)
    BY <1>1, WatchFacts DEF Between, CInv
  <2> QED BY <1>1, <2>1 DEF CInv, Trails
<1>6. Bounded'
  BY <1>1, <1>2, FewerHolders DEF CInv
<1> QED BY <1>3, <1>4, <1>5, <1>6 DEF CInv

\* A book arrives: its task is connected from here on and gives its permit back.
LEMMA UpdateKeeps ==
  ASSUME CInv, NEW t \in AllTasks, NEW s \in t, Update(t, s) PROVE CInv'
<1>1. /\ pc[t] = "watch" /\ status' = "connected" /\ live' = live \cup {t}
      /\ once' = once \cup {t} /\ cur' = [cur EXCEPT ![t] = s]
      /\ pc' = [pc EXCEPT ![t] = "price"]
      /\ UNCHANGED <<mode, waiting, age, faults, stops>>
  BY DEF Update, Watchable, MarkLive, Goto
<1>2. /\ t \in Tasks(mode) /\ s \in Symbols /\ Tasks(mode) \subseteq AllTasks
      /\ waiting \in Seq(Tasks(mode))
      /\ cur \in [AllTasks -> Symbols \cup {NoSymbol}] /\ pc \in [AllTasks -> Labels]
  BY <1>1, TaskFacts DEF CInv, TypeOK, Shape, Labels
<1>3. TypeOK'
  BY <1>1, <1>2 DEF CInv, TypeOK
<1>4. Shape'
  <2>1. \A i \in 1 .. Len(waiting) : waiting[i] # t /\ waiting[i] \in AllTasks
    BY <1>1, <1>2 DEF CInv, Shape
  <2> QED BY <1>1, <1>2, <2>1 DEF CInv, Shape, Tasks
<1>5. StatusIsWitnessed'
  BY <1>1 DEF StatusIsWitnessed
<1>6. Trails'
  <2>1. \A r \in Symbols : Between(r)' <=> Between(r)
    BY <1>1, <1>2 DEF Between
  <2> QED BY <1>1, <2>1 DEF CInv, Trails
<1>7. Bounded'
  <2>1. Holders' \subseteq Holders
    BY <1>1, <1>2 DEF Holders
  <2> QED BY <1>1, <2>1, FewerHolders DEF CInv
<1> QED BY <1>3, <1>4, <1>5, <1>6, <1>7 DEF CInv

LEMMA EmptyUpdateKeeps ==
  ASSUME CInv, NEW t \in AllTasks, EmptyUpdate(t) PROVE CInv'
<1>1. /\ pc[t] = "watch" /\ status' = "connected" /\ live' = live \cup {t}
      /\ once' = once \cup {t} /\ faults' = faults + 1 /\ faults' \in 0 .. MaxFaults
      /\ UNCHANGED <<mode, pc, cur, waiting, age, stops>>
  BY CountFacts DEF EmptyUpdate, Watchable, MarkLive, CInv
<1>2. t \in Tasks(mode)
  BY <1>1 DEF CInv, Shape
<1>3. TypeOK'
  BY <1>1, <1>2 DEF CInv, TypeOK
<1>4. Shape' /\ StatusIsWitnessed'
  BY <1>1 DEF CInv, Shape, StatusIsWitnessed, Tasks
<1>5. Trails'
  <2>1. \A r \in Symbols : Between(r)' <=> Between(r)
    BY <1>1 DEF Between
  <2>2. faults \in Nat /\ stops \in Nat /\ age \in [Symbols -> 0 .. MaxAge \cup {Expired}]
    BY CountFacts DEF CInv, TypeOK
  <2> QED BY <1>1, <2>1, <2>2 DEF CInv, Trails
<1>6. Bounded'
  <2>1. Holders' \subseteq Holders
    BY <1>1 DEF Holders
  <2> QED BY <1>1, <2>1, FewerHolders DEF CInv
<1> QED BY <1>3, <1>4, <1>5, <1>6 DEF CInv

-----------------------------------------------------------------------------
\* One more tick makes the book at most one older.
LEMMA OlderFacts ==
  ASSUME NEW a \in 0 .. MaxAge \cup {Expired}
  PROVE  /\ Older(a) \in 0 .. MaxAge \cup {Expired}
         /\ Older(a) \in Nat => a \in Nat /\ Older(a) <= a + 1
BY CollectorAssumption DEF Older

\* No other task has the symbol of the book in hand.
LEMMA OwnSymbol ==
  ASSUME CInv, NEW t \in AllTasks, pc[t] \in {"price", "depth"}
  PROVE  /\ t \in Tasks(mode) /\ t \in once /\ cur[t] \in t /\ cur[t] \in Symbols
         /\ \A u \in AllTasks : pc[u] \in {"price", "depth"} /\ cur[u] = cur[t] => u = t
<1>1. /\ t \in Tasks(mode) /\ t \in once /\ cur[t] \in t /\ cur[t] \in Symbols
  BY TaskFacts DEF CInv, TypeOK, Shape
<1>2. ASSUME NEW u \in AllTasks, pc[u] \in {"price", "depth"}, cur[u] = cur[t]
      PROVE  u = t
  <2>1. u \in Tasks(mode) /\ cur[u] \in u
    BY <1>2 DEF CInv, Shape
  <2> QED BY <1>1, <1>2, <2>1, TaskFacts DEF CInv, TypeOK
<1> QED BY <1>1, <1>2

LEMMA PublishPriceKeeps ==
  ASSUME CInv, NEW t \in AllTasks, PublishPrice(t) PROVE CInv'
<1> DEFINE c == cur[t]
<1>1. /\ pc[t] = "price" /\ age' = [age EXCEPT ![c] = Older(age[c])]
      /\ pc' = [pc EXCEPT ![t] = "depth"]
      /\ UNCHANGED <<mode, status, once, cur, waiting, live, faults, stops>>
  BY DEF PublishPrice, Goto
<1>2. /\ t \in Tasks(mode) /\ t \in once /\ c \in t /\ c \in Symbols
      /\ Tasks(mode) \subseteq AllTasks /\ waiting \in Seq(Tasks(mode))
      /\ pc \in [AllTasks -> Labels] /\ age \in [Symbols -> 0 .. MaxAge \cup {Expired}]
  BY <1>1, OwnSymbol, TaskFacts DEF CInv, TypeOK, Labels
<1>3. /\ Older(age[c]) \in 0 .. MaxAge \cup {Expired}
      /\ Older(age[c]) \in Nat => age[c] \in Nat /\ Older(age[c]) <= age[c] + 1
  BY <1>2, OlderFacts
<1>4. ~Between(c)
  BY <1>1, OwnSymbol DEF Between
<1> HIDE DEF c
<1>5. TypeOK'
  BY <1>1, <1>2, <1>3 DEF CInv, TypeOK
<1>6. Shape' /\ StatusIsWitnessed'
  <2>1. \A i \in 1 .. Len(waiting) : waiting[i] # t /\ waiting[i] \in AllTasks
    BY <1>1, <1>2 DEF CInv, Shape
  <2>2. cur[t] \in t
    BY <1>2 DEF c
  <2> QED BY <1>1, <1>2, <2>1, <2>2 DEF CInv, Shape, StatusIsWitnessed, Tasks
<1>7. Trails'
  <2>1. \A r \in Symbols : Between(r) => Between(r)'
    BY <1>1, <1>2 DEF Between
  <2>2. \A r \in Symbols : r = c => Between(r)'
    BY <1>1, <1>2 DEF Between, c
  <2>3. faults \in Nat /\ stops \in Nat
    BY CountFacts DEF CInv
  <2>4. ASSUME NEW r \in Symbols, age'[r] \in Nat
        PROVE  /\ age'[r] <= 1 + faults' + stops'
               /\ ~Between(r)' => age'[r] <= faults' + stops'
    <3>1. CASE r = c
      <4>1. age'[r] = Older(age[c])
        BY <1>1, <1>2, <3>1
      <4>2. age[c] \in Nat => age[c] <= faults + stops
        BY <1>2, <1>4 DEF CInv, Trails
      <4> QED BY <1>1, <1>3, <2>2, <2>3, <2>4, <3>1, <4>1, <4>2
    <3>2. CASE r # c
      <4>1. age'[r] = age[r]
        BY <1>1, <1>2, <3>2
      <4>2. /\ age[r] <= 1 + faults + stops
            /\ ~Between(r) => age[r] <= faults + stops
        BY <2>4, <4>1 DEF CInv, Trails
      <4> QED BY <1>1, <2>1, <4>1, <4>2
    <3> QED BY <3>1, <3>2
  <2> QED BY <2>4 DEF Trails
<1>8. Bounded'
  <2>1. Holders' \subseteq Holders
    BY <1>1, <1>2 DEF Holders
  <2> QED BY <1>1, <2>1, FewerHolders DEF CInv
<1> QED BY <1>5, <1>6, <1>7, <1>8 DEF CInv

LEMMA PublishDepthKeeps ==
  ASSUME CInv, NEW t \in AllTasks, PublishDepth(t) PROVE CInv'
<1> DEFINE c == cur[t]
<1>1. /\ pc[t] = "depth" /\ age' = [age EXCEPT ![c] = 0] /\ Watch(t)
      /\ cur' = [cur EXCEPT ![t] = NoSymbol]
      /\ UNCHANGED <<mode, status, once, live, faults, stops>>
  BY DEF PublishDepth, DepthSet
<1>2. /\ c \in Symbols /\ pc \in [AllTasks -> Labels]
      /\ \A u \in AllTasks : pc[u] \in {"price", "depth"} /\ cur[u] = c => u = t
      /\ cur \in [AllTasks -> Symbols \cup {NoSymbol}]
      /\ age \in [Symbols -> 0 .. MaxAge \cup {Expired}]
  BY <1>1, OwnSymbol DEF CInv, TypeOK, Labels
<1> HIDE DEF c
<1>3. /\ pc' \in [AllTasks -> Labels] /\ waiting' \in Seq(Tasks(mode))
      /\ mode = "per_symbol" => Holders' \subseteq Holders
  BY <1>1, LoopHeadType
<1>4. TypeOK'
  BY <1>1, <1>2, <1>3, CollectorAssumption DEF CInv, TypeOK, Labels
<1>5. Shape' /\ StatusIsWitnessed'
  BY <1>1, <1>2, LoopHeadShape
<1>6. Trails'
  <2>1. \A r \in Symbols \ {c} : Between(r) => Between(r)'
    BY <1>1, <1>2, WatchFacts DEF Between, CInv, c
  <2>2. faults \in Nat /\ stops \in Nat
    BY CountFacts DEF CInv
  <2>3. ASSUME NEW r \in Symbols, age'[r] \in Nat
        PROVE  /\ age'[r] <= 1 + faults' + stops'
               /\ ~Between(r)' => age'[r] <= faults' + stops'
    <3>1. CASE r = c
      BY <1>1, <1>2, <2>2, <3>1
    <3>2. CASE r # c
      <4>1. age'[r] = age[r]
        BY <1>1, <1>2, <3>2
      <4>2. /\ age[r] <= 1 + faults + stops
            /\ ~Between(r) => age[r] <= faults + stops
        BY <2>3, <4>1 DEF CInv, Trails
      <4> QED BY <1>1, <2>1, <3>2, <4>1, <4>2
    <3> QED BY <3>1, <3>2
  <2> QED BY <2>3 DEF Trails
<1>7. Bounded'
  BY <1>1, <1>3, FewerHolders DEF CInv
<1> QED BY <1>4, <1>5, <1>6, <1>7 DEF CInv

-----------------------------------------------------------------------------
\* A task that fails leaves its handshake, its book and its marks behind.
LEMMA FailsKeeps ==
  ASSUME CInv, NEW t \in AllTasks, pc[t] \in {"watch", "price", "depth"}, Fails(t),
         faults' \in 0 .. MaxFaults, age' \in [Symbols -> 0 .. MaxAge \cup {Expired}]
  PROVE  TypeOK' /\ Shape' /\ StatusIsWitnessed' /\ Bounded'
<1>1. /\ status' = "reconnecting" /\ once' = once \ {t} /\ live' = live \ {t}
      /\ cur' = [cur EXCEPT ![t] = NoSymbol] /\ pc' = [pc EXCEPT ![t] = "sleep"]
      /\ UNCHANGED <<mode, waiting, stops>>
  BY DEF Fails, StatusOnError, Forget, Goto, AfterError
<1>2. /\ t \in Tasks(mode) /\ Tasks(mode) \subseteq AllTasks
      /\ waiting \in Seq(Tasks(mode)) /\ pc \in [AllTasks -> Labels]
      /\ cur \in [AllTasks -> Symbols \cup {NoSymbol}]
  BY TaskFacts DEF CInv, TypeOK, Shape, Labels
<1>3. TypeOK'
  BY <1>1, <1>2 DEF CInv, TypeOK, Labels
<1>4. Shape'
  <2>1. \A i \in 1 .. Len(waiting) : waiting[i] # t /\ waiting[i] \in AllTasks
    BY <1>2 DEF CInv, Shape
  <2> QED BY <1>1, <1>2, <2>1 DEF CInv, Shape, Tasks
<1>5. StatusIsWitnessed'
  BY <1>1, <1>2 DEF StatusIsWitnessed, Tasks
<1>6. Bounded'
  <2>1. Holders' \subseteq Holders
    BY <1>1, <1>2 DEF Holders
  <2> QED BY <1>1, <2>1, FewerHolders DEF CInv
<1> QED BY <1>3, <1>4, <1>5, <1>6

LEMMA BadSymbolKeeps ==
  ASSUME CInv, NEW t \in AllTasks, BadSymbol(t) PROVE CInv'
<1>1. pc[t] = "watch" /\ Fails(t) /\ UNCHANGED <<age, faults>>
  BY DEF BadSymbol
<1>2. TypeOK' /\ Shape' /\ StatusIsWitnessed' /\ Bounded'
  <2>1. /\ faults' \in 0 .. MaxFaults
        /\ age' \in [Symbols -> 0 .. MaxAge \cup {Expired}]
    BY <1>1 DEF CInv, TypeOK
  <2> QED BY <1>1, <2>1, FailsKeeps
<1>3. Trails'
  <2>1. /\ pc' = [pc EXCEPT ![t] = "sleep"] /\ cur' = [cur EXCEPT ![t] = NoSymbol]
        /\ stops' = stops
    BY <1>1 DEF Fails, Goto, AfterError
  <2>2. \A r \in Symbols : Between(r) => Between(r)'
    BY <1>1, <2>1 DEF Between, CInv, TypeOK
  <2> QED BY <1>1, <2>1, <2>2 DEF CInv, Trails
<1> QED BY <1>2, <1>3 DEF CInv

\* A failure is the one more tick that an abandoned depth trails by.
LEMMA ErrorKeeps ==
  ASSUME CInv, NEW t \in AllTasks, Error(t) PROVE CInv'
<1> DEFINE c == cur[t]
<1>1. /\ pc[t] \in {"watch", "price", "depth"} /\ Fails(t)
      /\ faults' = faults + 1 /\ faults' \in 0 .. MaxFaults /\ stops' = stops
      /\ \/ age' = age
         \/ pc[t] = "price" /\ age' = [age EXCEPT ![c] = Older(age[c])]
         \/ pc[t] = "depth" /\ age' = [age EXCEPT ![c] = 0]
  BY CountFacts DEF Error, Fails, CInv, DepthSet
<1>2. age \in [Symbols -> 0 .. MaxAge \cup {Expired}] /\ faults \in Nat /\ stops \in Nat
  BY CountFacts DEF CInv, TypeOK
<1>3. pc[t] = "price" =>
        /\ c \in Symbols /\ ~Between(c)
        /\ Older(age[c]) \in 0 .. MaxAge \cup {Expired}
        /\ Older(age[c]) \in Nat => age[c] \in Nat /\ Older(age[c]) <= age[c] + 1
  BY <1>2, OwnSymbol, OlderFacts DEF Between
<1> HIDE DEF c
<1>4. age' \in [Symbols -> 0 .. MaxAge \cup {Expired}]
  BY <1>1, <1>2, <1>3, CollectorAssumption
<1>5. TypeOK' /\ Shape' /\ StatusIsWitnessed' /\ Bounded'
  BY <1>1, <1>4, FailsKeeps
<1>6. ASSUME NEW r \in Symbols, age'[r] \in Nat
      PROVE  age'[r] <= faults' + stops'
  <2>1. age[r] \in Nat => /\ age[r] <= 1 + faults + stops
                          /\ ~Between(r) => age[r] <= faults + stops
    BY DEF CInv, Trails
  <2>2. CASE age' = age
    BY <1>1, <1>2, <1>6, <2>1, <2>2
  <2>3. CASE pc[t] = "price" /\ age' = [age EXCEPT ![c] = Older(age[c])]
    BY <1>1, <1>2, <1>3, <1>6, <2>1, <2>3
  <2>4. CASE pc[t] = "depth" /\ age' = [age EXCEPT ![c] = 0]
    BY <1>1, <1>2, <1>6, <2>1, <2>4
  <2> QED BY <1>1, <2>2, <2>3, <2>4
<1>7. Trails'
  BY <1>1, <1>2, <1>6 DEF Trails
<1> QED BY <1>5, <1>7 DEF CInv

-----------------------------------------------------------------------------
LEMMA NextC == ASSUME CInv, [Next]_vars PROVE CInv'
<1>1. CASE Start
  BY <1>1, StartKeeps
<1>2. CASE Stop
  BY <1>2, StopKeeps
<1>3. CASE Restart \/ UNCHANGED vars \/ (\E s \in Symbols : Expire(s))
  BY <1>3, QuietKeeps
<1>4. CASE Acquire
  BY <1>4, AcquireKeeps
<1>5. CASE \E t \in AllTasks : Step(t)
  BY <1>5, WakeKeeps, PublishPriceKeeps, PublishDepthKeeps, BadSymbolKeeps DEF Step
<1>6. CASE \E t \in AllTasks : (\E s \in t : Update(t, s)) \/ EmptyUpdate(t) \/ Error(t)
  BY <1>6, UpdateKeeps, EmptyUpdateKeeps, ErrorKeeps
<1> QED BY <1>1, <1>2, <1>3, <1>4, <1>5, <1>6 DEF Next

\* The invariant holds of every state the collector of an exchange reaches.
THEOREM CInvCorrect == Spec => []CInv
<1> QED BY InitC, NextC, PTL DEF Spec

\* Every variable keeps its type: the fields of ExchangeCollector and the local
\* variables of its tasks (ws_client.py:42-78, 81-172).
THEOREM TypeCorrect == Spec => []TypeOK
<1>1. CInv => TypeOK
  BY DEF CInv
<1> QED BY <1>1, CInvCorrect, PTL

\* The shared status is true of some task, through any interleaving of failures,
\* books, stops and restarts (ws_client.py:49, 108, 116, 138, 145).
THEOREM StatusIsWitnessedCorrect == Spec => []StatusIsWitnessed
<1>1. CInv => StatusIsWitnessed
  BY DEF CInv
<1> QED BY <1>1, CInvCorrect, PTL

\* No more sockets shake hands at once than there are permits: a task that has had
\* a book watches without one, and one that fails asks again (ws_client.py:133-146).
THEOREM HandshakesBoundedCorrect == Spec => []HandshakesBounded
<1>1. CInv => HandshakesBounded
  <2> SUFFICES ASSUME CInv PROVE HandshakesBounded
    OBVIOUS
  <2>1. Holders = {t \in Tasks(mode) : pc[t] = "watch" /\ t \notin live}
    BY DEF CInv, Shape, Holders
  <2> QED BY <2>1 DEF CInv, Bounded, HandshakesBounded
<1> QED BY <1>1, CInvCorrect, PTL

\* The depth is at most one tick behind the price, and one more per failure or stop
\* (ws_client.py:173-174).
THEOREM DepthKeepsUpCorrect == Spec => []DepthKeepsUp
<1>1. CInv => DepthKeepsUp
  BY DEF CInv, Trails, DepthKeepsUp
<1> QED BY <1>1, CInvCorrect, PTL
=============================================================================
