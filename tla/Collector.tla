----------------------------- MODULE Collector ------------------------------
(***************************************************************************)
(* The watch tasks of one exchange (src/collector/ws_client.py) and what   *)
(* they publish.  An exchange that can watch many symbols at once gets a   *)
(* task per chunk of its symbols; any other gets a task per symbol, whose  *)
(* handshakes share a semaphore.  A task is the set of its symbols.        *)
(*                                                                         *)
(* pc[t] names what task t awaits.  The delays of reconnect.py have no     *)
(* duration here, so the count of attempts is left out.  Of the depth key  *)
(* of a symbol the model keeps its age: how many ticks of the symbol have  *)
(* been published since the book it holds.                                 *)
(***************************************************************************)
EXTENDS Integers, Sequences, FiniteSets

CONSTANTS
    Symbols,        \* what _load_targets found for the exchange
    Chunks,         \* its partition by MULTIPLEX_CHUNK_SIZE
    Unlisted,       \* symbols the exchange does not list: a watch raises
    Silent,         \* symbols it accepts and never sends an update of
    Permits,        \* HANDSHAKE_CONCURRENCY
    NoSymbol,
    Expired,        \* the depth key is gone
    MaxAge,         \* bound: ages are counted up to here
    MaxFaults,      \* bound: failures
    MaxStops        \* bound: stops

Modes == {"multiplexed", "per_symbol"}
Tasks(m) == IF m = "multiplexed" THEN Chunks ELSE {{s} : s \in Symbols}
AllTasks == Tasks("multiplexed") \cup Tasks("per_symbol")

ASSUME CollectorAssumption ==
    /\ UNION Chunks = Symbols /\ {} \notin Chunks
    /\ \A c, d \in Chunks : c = d \/ c \cap d = {}
    /\ Unlisted \subseteq Symbols /\ Silent \subseteq Symbols
    /\ Permits \in Nat \ {0} /\ MaxAge \in Nat \ {0}
    /\ MaxFaults \in Nat /\ MaxStops \in Nat
    /\ NoSymbol \notin Symbols /\ Expired \notin Nat

VARIABLES
    mode,           \* exchange.has["watchOrderBookForSymbols"]
    status,         \* self.status, written by every task
    pc,             \* per task, what it awaits
    once,           \* the tasks whose connected_once is set
    cur,            \* per task, the symbol of the book in hand
    waiting,        \* the tasks in the queue of the semaphore
    live,           \* history: the tasks that got a book since they failed
    age,            \* per symbol, the age of its depth key
    faults, stops   \* spent bounds

task == <<pc, once, cur, waiting, live>>
vars == <<mode, status, task, age, faults, stops>>

Init ==
    /\ mode \in Modes
    /\ status = "connecting"
    /\ pc = [t \in AllTasks |-> "off"]
    /\ once = {} /\ live = {} /\ waiting = <<>>
    /\ cur = [t \in AllTasks |-> NoSymbol]
    /\ age = [s \in Symbols |-> Expired]
    /\ faults = 0 /\ stops = 0

----------------------------------------------------------------------------
Running == \E t \in AllTasks : pc[t] # "off"
Goto(t, label) == pc' = [pc EXCEPT ![t] = label]

(* start: a new object with its tasks; those of one symbol start one after *)
(* the other.                                                              *)
Start ==
    /\ ~Running /\ status # "disconnected"
    /\ pc' = [t \in AllTasks |-> IF t \notin Tasks(mode) THEN "off"
                                 ELSE IF mode = "multiplexed" THEN "watch"
                                 ELSE "delay"]
    /\ UNCHANGED <<mode, status, once, cur, waiting, live, age, faults, stops>>

(* The head of the loop: without a connection a task of one symbol queues  *)
(* for a permit, which it holds until its watch returns or raises.         *)
Watch(t) ==
    IF mode = "multiplexed" \/ t \in once
    THEN Goto(t, "watch") /\ UNCHANGED waiting
    ELSE Goto(t, "queued") /\ waiting' = Append(waiting, t)

Holders == {t \in Tasks(mode) : pc[t] = "watch" /\ t \notin once}

Acquire ==
    /\ waiting # <<>> /\ Cardinality(Holders) < Permits
    /\ Goto(Head(waiting), "watch") /\ waiting' = Tail(waiting)
    /\ UNCHANGED <<mode, status, once, cur, live, age, faults, stops>>

\* the stagger delay of the start or the backoff of an error is over
Wake(t) ==
    /\ pc[t] \in {"delay", "sleep"}
    /\ Watch(t)
    /\ UNCHANGED <<mode, status, once, cur, live, age, faults, stops>>

----------------------------------------------------------------------------
(* The watch returns a book of symbol s.                                   *)
MarkLive(t) == status' = "connected" /\ live' = live \cup {t}

Watchable(t, s) == pc[t] = "watch" /\ s \in t \ Silent /\ t \cap Unlisted = {}

Update(t, s) ==
    /\ Watchable(t, s)
    /\ MarkLive(t) /\ once' = once \cup {t}
    /\ cur' = [cur EXCEPT ![t] = s] /\ Goto(t, "price")
    /\ UNCHANGED <<mode, waiting, age, faults, stops>>

\* a side of the book is empty: nothing is published
EmptyUpdate(t) ==
    /\ \E s \in t : Watchable(t, s)
    /\ faults < MaxFaults /\ faults' = faults + 1
    /\ MarkLive(t) /\ once' = once \cup {t}
    /\ UNCHANGED <<mode, pc, cur, waiting, age, stops>>

(* _handle_order_book: XADD of the tick, then SET of the depth.            *)
Older(a) == IF a \in Nat /\ a < MaxAge THEN a + 1 ELSE a

PublishPrice(t) ==
    /\ pc[t] = "price"
    /\ age' = [age EXCEPT ![cur[t]] = Older(@)]
    /\ Goto(t, "depth")
    /\ UNCHANGED <<mode, status, once, cur, waiting, live, faults, stops>>

DepthOnlyNew(a) == IF a = Expired THEN 0 ELSE a                 \* mutant
DepthSet(a) == 0

PublishDepth(t) ==
    /\ pc[t] = "depth"
    /\ age' = [age EXCEPT ![cur[t]] = DepthSet(@)]
    /\ cur' = [cur EXCEPT ![t] = NoSymbol]
    /\ Watch(t)
    /\ UNCHANGED <<mode, status, once, live, faults, stops>>

\* DEPTH_TTL_SEC after the SET
Expire(s) ==
    /\ age[s] # Expired
    /\ age' = [age EXCEPT ![s] = Expired]
    /\ UNCHANGED <<mode, status, task, faults, stops>>

----------------------------------------------------------------------------
(* except Exception: the task reports it and reconnects after a delay.     *)
ForgetNothing(t) == once                                        \* mutant
Forget(t) == once \ {t}

StatusKept == status                                            \* mutant
StatusOnError == "reconnecting"

TaskEnds == "off"                                               \* mutant
AfterError == "sleep"

Fails(t) ==
    /\ status' = StatusOnError
    /\ once' = Forget(t) /\ live' = live \ {t}
    /\ cur' = [cur EXCEPT ![t] = NoSymbol]
    /\ Goto(t, AfterError)
    /\ UNCHANGED <<mode, waiting, stops>>

\* a symbol the exchange does not list costs the whole chunk, every time
BadSymbol(t) ==
    /\ pc[t] = "watch" /\ t \cap Unlisted # {}
    /\ Fails(t)
    /\ UNCHANGED <<age, faults>>

\* the socket fails, the tick is invalid, or Redis fails, before or after
Error(t) ==
    /\ pc[t] \in {"watch", "price", "depth"}
    /\ faults < MaxFaults /\ faults' = faults + 1
    /\ \/ UNCHANGED age
       \/ pc[t] = "price" /\ age' = [age EXCEPT ![cur[t]] = Older(@)]
       \/ pc[t] = "depth" /\ age' = [age EXCEPT ![cur[t]] = DepthSet(@)]
    /\ Fails(t)

(* stop() cancels the tasks and closes the exchange; a restarted process   *)
(* makes a new object.                                                     *)
Stop ==
    /\ Running /\ stops < MaxStops
    /\ pc' = [t \in AllTasks |-> "off"] /\ waiting' = <<>>
    /\ once' = {} /\ live' = {}
    /\ cur' = [t \in AllTasks |-> NoSymbol]
    /\ status' = "disconnected" /\ stops' = stops + 1
    /\ UNCHANGED <<mode, age, faults>>

Restart ==
    /\ status = "disconnected" /\ status' = "connecting"
    /\ UNCHANGED <<mode, task, age, faults, stops>>

Step(t) ==
    Wake(t) \/ PublishPrice(t) \/ PublishDepth(t) \/ BadSymbol(t)

Next ==
    \/ Start \/ Restart \/ Stop
    \/ Acquire
    \/ \E t \in AllTasks :
        \/ Step(t)
        \/ \E s \in t : Update(t, s)
        \/ EmptyUpdate(t) \/ Error(t)
    \/ \E s \in Symbols : Expire(s)

(* The event loop runs every task, the semaphore serves its queue, and an  *)
(* exchange goes on sending updates of every symbol that is not silent.    *)
Fairness ==
    /\ WF_vars(Start) /\ WF_vars(Restart) /\ WF_vars(Acquire)
    /\ \A t \in AllTasks :
        /\ WF_vars(Step(t))
        /\ \A s \in t : SF_vars(Update(t, s))

Spec == Init /\ [][Next]_vars /\ Fairness

----------------------------------------------------------------------------
TypeOK ==
    /\ mode \in Modes
    /\ status \in {"connecting", "connected", "reconnecting", "disconnected"}
    /\ pc \in [AllTasks -> {"off", "delay", "queued", "watch", "price",
                            "depth", "sleep"}]
    /\ once \subseteq Tasks(mode) /\ live \subseteq Tasks(mode)
    /\ cur \in [AllTasks -> Symbols \cup {NoSymbol}]
    /\ waiting \in Seq(Tasks(mode))
    /\ age \in [Symbols -> 0 .. MaxAge \cup {Expired}]
    /\ faults \in 0 .. MaxFaults /\ stops \in 0 .. MaxStops

(* The one status the tasks of an exchange share (ws_client.py:49) is true *)
(* of some of them: "connected", which /health counts, of one that has had *)
(* a book since it last failed; "reconnecting" of one that has not.        *)
StatusIsWitnessed ==
    /\ status = "connected" => live # {}
    /\ status = "reconnecting" => live # Tasks(mode)

(* At most Permits sockets of one exchange shake hands at once, through    *)
(* any run of failures (ws_client.py:25-29, "Too many connections").       *)
HandshakesBounded ==
    mode = "per_symbol" =>
        Cardinality({t \in Tasks(mode) : pc[t] = "watch" /\ t \notin live})
            <= Permits

(* The depth the scanner and the executor read is at most one tick behind  *)
(* the price they read, and one more for each failure or stop between the  *)
(* two calls (ws_client.py:173-174).                                       *)
DepthKeepsUp ==
    \A s \in Symbols : age[s] \in Nat => age[s] <= 1 + faults + stops

(* A symbol is published again and again, unless the exchange is silent    *)
(* about it, or its task has a symbol the exchange does not list, or the   *)
(* silent symbols hold every permit; failures pass.                        *)
Published(s) == \E t \in AllTasks : pc[t] = "depth" /\ cur[t] = s
Servable(s) ==
    /\ s \notin Silent
    /\ \A t \in Tasks(mode) : s \in t => t \cap Unlisted = {}
    /\ mode = "per_symbol" => Cardinality(Silent \ Unlisted) < Permits
SymbolsAreServed == \A s \in Symbols : Servable(s) => []<>Published(s)
=============================================================================
