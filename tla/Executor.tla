------------------------------ MODULE Executor ------------------------------
(***************************************************************************)
(* The paper-trading executor (src/executor): one asyncio task,            *)
(* _consume_loop, that reads entries of the Redis stream `opportunities`   *)
(* through the consumer group executor-cg, moves the virtual balances in   *)
(* Redis, and writes what it did to the tables `trades` and `balance` and  *)
(* to the stream `trades`.  Around it act the scanner (appends entries),   *)
(* the POST /killswitch handler of the same process, the API gateway's     *)
(* kill switch, a failing Redis or database call, and a stop and restart   *)
(* of the process.                                                         *)
(*                                                                         *)
(* One action stands for one awaited call of the code together with the    *)
(* synchronous code that follows it: everything the event loop can run     *)
(* between two awaits of the loop, and every other process, interleaves    *)
(* there.  `pc` names the call the loop awaits next.                       *)
(*                                                                         *)
(* The loop is taken to be the only writer of the balances: PUT /balance   *)
(* of the gateway, an operator's correction, is not part of this module.   *)
(*                                                                         *)
(* Money is counted in whole units.  The walk through the order books is   *)
(* abstracted to its outcome: no fill, or a fill whose proceeds differ     *)
(* from the notional by one of Gains.                                      *)
(***************************************************************************)
EXTENDS Integers, Sequences, FiniteSets

CONSTANTS
    Order,          \* the exchanges in the order of INITIAL_BALANCES_USDT
    Initial,        \* INITIAL_BALANCES_USDT
    Withdrawal,     \* EXCHANGES[e].withdrawal_usdt
    Threshold,      \* setting rebalance_threshold_usd
    PositionPct,    \* setting max_position_pct
    BuyFeePct,      \* buy_fee_pct of an opportunity
    MinNotional,    \* MIN_NOTIONAL_USDT
    Gains,          \* sell proceeds (after the sell fee) minus the notional
    Routes,         \* the [buy, sell] pairs an opportunity can have
    Malformed,      \* an entry Opportunity.from_redis rejects
    BatchCount,     \* count=100 of XREADGROUP
    MaxLen,         \* OPP_MAXLEN: entries that trimming leaves at least
    MaxEntries,     \* bound: entries the scanner publishes
    MaxAsks,        \* bound: kill-switch requests of the operators
    MaxFaults,      \* bound: Redis or database calls that raise
    MaxStops        \* bound: shutdowns and crashes of the executor

Exchanges == {Order[k] : k \in DOMAIN Order}

ASSUME OrderAssumption ==
    /\ Order \in Seq(Exchanges)
    /\ Len(Order) > 0
    /\ \A j, k \in DOMAIN Order : Order[j] = Order[k] => j = k

ASSUME MoneyAssumption ==
    /\ Initial \in [Exchanges -> Nat]
    /\ Withdrawal \in [Exchanges -> Nat]
    /\ Threshold \in Nat /\ PositionPct \in Nat
    /\ BuyFeePct \in Nat /\ MinNotional \in Nat
    /\ \A g \in Gains : g \in Int /\ g + MinNotional >= 0

ASSUME RouteAssumption ==
    /\ \A r \in Routes : /\ r \in [buy : Exchanges, sell : Exchanges]
                         /\ r.buy # r.sell
    /\ Malformed \notin Routes

ASSUME BoundAssumption ==
    /\ BatchCount \in Nat \ {0} /\ MaxLen \in Nat \ {0}
    /\ MaxEntries \in Nat /\ MaxAsks \in Nat
    /\ MaxFaults \in Nat /\ MaxStops \in Nat

Ids == 1 .. MaxEntries      \* entry ids, in stream order

VARIABLES
    \* Redis: the kill-switch key, the hashes balance:{exchange}, and every
    \* entry ever appended to the stream
    killKey, bal, has, stream,
    \* Redis: the stream holds the entries past trimmed; the group executor-cg
    trimmed, group, last, pel,
    \* TimescaleDB and the stream `trades`
    trades, ledger, booked, seeded, announced,
    \* the process: engine.kill_switch and the position in _consume_loop
    flag, pc, lo, cur, hi,
    \* locals of the loop and of execute_opportunity / maybe_rebalance
    reply, buyBal, snap, rb, fill, results, due,
    \* POST /killswitch between its assignment and its SET
    post,
    \* history variables: what has been done to the balances, and for whom
    acked, bought, settled, orphaned, barred,
    \* spent bounds
    asks, faults, stops

redis  == <<killKey, bal, has>>
cgroup == <<trimmed, group, last, pel>>
db     == <<trades, ledger, booked, seeded, announced>>
loop   == <<lo, cur, hi>>
locals == <<reply, buyBal, snap, rb, fill>>
output == <<results, due>>
ghosts == <<acked, bought, settled, orphaned, barred>>
spent  == <<asks, faults, stops>>
vars   == <<redis, stream, cgroup, db, flag, pc, loop, locals, output, post,
            ghosts, spent>>

BootPcs  == {"down", "bootBalances", "bootSeed", "bootCopy", "bootGroup",
             "bootKill"}
EntryPcs == {"entry", "balance", "scan", "credit", "depth", "buy", "sell"}

LoopPcs == EntryPcs \cup
            {"poll", "apply", "read", "copyTrades", "copyBalances",
             "announce", "ack"}

\* RebalanceResult, and the None of maybe_rebalance
NoRebalance == [donor |-> Order[1], receiver |-> Order[1],
                gross |-> 0, net |-> 0]
NoFill == [cost |-> 0, proceeds |-> 0]
Zero == [e \in Exchanges |-> 0]

Opp == stream[cur]          \* the opportunity execute_opportunity works on

(***************************************************************************)
(* Sizes.  notional is the planned buy, cost what the buy leg takes off    *)
(* the balance (the notional and its fee).                                 *)
(***************************************************************************)
Notional(b) == (b * PositionPct) \div 100
CostFeeNotPercent(n) == n + n * BuyFeePct                       \* mutant
Cost(n) == n + (n * BuyFeePct) \div 100

\* max(balances, key=balances.get): the first exchange with the most
Scanned == Len(snap) = Len(Order)
Richest(k) == /\ \A j \in DOMAIN Order : snap[j] <= snap[k]
              /\ \A j \in DOMAIN Order : snap[j] = snap[k] => k <= j
CanDonate(k) == Order[k] # Opp.buy /\ snap[k] > Threshold
Transfer(k) == [donor |-> Order[k], receiver |-> Opp.buy,
                gross |-> snap[k] \div 2,
                net |-> (snap[k] \div 2) - Withdrawal[Order[k]]]

\* the rows _persist writes for one ExecutionResult, summed per exchange
RebalanceRowsNetDebit(r) ==                                     \* mutant
    [e \in Exchanges |-> (IF e = r.donor THEN - r.net ELSE 0)
                       + (IF e = r.receiver THEN r.net ELSE 0)]
RebalanceRows(r) ==
    [e \in Exchanges |-> (IF e = r.donor THEN - r.gross ELSE 0)
                       + (IF e = r.receiver THEN r.net ELSE 0)]
TradeRows(o, f) ==
    [e \in Exchanges |-> (IF e = o.buy THEN - f.cost ELSE 0)
                       + (IF e = o.sell THEN f.proceeds ELSE 0)]
Plus(f, g) == [e \in Exchanges |-> f[e] + g[e]]

Executing == {results[k] : k \in DOMAIN results}
\* entries that moved money no row of `balance` accounts for yet
Unrecorded == (Executing \ booked)
              \cup (IF rb # NoRebalance \/ pc = "sell" THEN {cur} ELSE {})

-----------------------------------------------------------------------------
Init ==
    /\ killKey = FALSE /\ bal = Zero /\ has = {} /\ stream = << >>
    /\ trimmed = 0 /\ group = FALSE /\ last = 0 /\ pel = {}
    /\ trades = {} /\ ledger = Zero /\ booked = {} /\ seeded = FALSE
    /\ announced = {}
    /\ flag = FALSE /\ pc = "down" /\ lo = 0 /\ cur = 0 /\ hi = 0
    /\ reply = FALSE /\ buyBal = 0 /\ snap = << >> /\ rb = NoRebalance
    /\ fill = NoFill /\ results = << >> /\ due = Zero
    /\ post = "none"
    /\ acked = {} /\ bought = [i \in Ids |-> 0] /\ settled = {}
    /\ orphaned = {} /\ barred = FALSE
    /\ asks = 0 /\ faults = 0 /\ stops = 0

-----------------------------------------------------------------------------
(***************************************************************************)
(* The lifespan of the process: wait_until_ready and get_db_pool, then     *)
(* init_balances (HSETNX: only missing keys), the seeding of an empty      *)
(* `balance` table, the group at "$", the settings and the first GET of    *)
(* the kill switch.  The settings the engine reads are constants here.  A  *)
(* call that raises ends the process: that is Stop.                        *)
(***************************************************************************)
Start ==
    /\ pc = "down"
    /\ pc' = "bootBalances"
    /\ UNCHANGED <<redis, stream, cgroup, db, flag, loop, locals, output,
                   post, ghosts, spent>>

\* one HSETNX per exchange, in dict order; a key that is there stays
InitBalances ==
    /\ pc = "bootBalances"
    /\ \/ /\ has = Exchanges
          /\ pc' = "bootSeed"
          /\ UNCHANGED <<bal, has>>
       \/ /\ \E k \in DOMAIN Order :
                /\ Order[k] \notin has
                /\ \A j \in DOMAIN Order : j < k => Order[j] \in has
                /\ bal' = [bal EXCEPT ![Order[k]] = Initial[Order[k]]]
                /\ has' = has \cup {Order[k]}
          /\ UNCHANGED pc
    /\ UNCHANGED <<killKey, stream, cgroup, db, flag, loop, locals, output,
                   post, ghosts, spent>>

\* SELECT count(*): an empty table gets the opening rows ...
CountHistory ==
    /\ pc = "bootSeed"
    /\ pc' = IF seeded THEN "bootGroup" ELSE "bootCopy"
    /\ UNCHANGED <<redis, stream, cgroup, db, flag, loop, locals, output,
                   post, ghosts, spent>>

\* ... in one COPY, whatever has been written since the SELECT
SeedHistory ==
    /\ pc = "bootCopy"
    /\ ledger' = Plus(ledger, Initial)
    /\ seeded' = TRUE
    /\ pc' = "bootGroup"
    /\ UNCHANGED <<redis, stream, cgroup, trades, booked, announced, flag,
                   loop, locals, output, post, ghosts, spent>>

EnsureGroupAfresh ==                                            \* mutant
    /\ pc = "bootGroup"
    /\ last' = Len(stream)
    /\ group' = TRUE
    /\ pc' = "bootKill"
    /\ UNCHANGED <<redis, stream, trimmed, pel, db, flag, loop, locals, output,
                   post, ghosts, spent>>
EnsureGroup ==
    /\ pc = "bootGroup"
    /\ last' = IF group THEN last ELSE Len(stream)
    /\ group' = TRUE
    /\ pc' = "bootKill"
    /\ UNCHANGED <<redis, stream, trimmed, pel, db, flag, loop, locals, output,
                   post, ghosts, spent>>

StartLoop ==
    /\ pc = "bootKill"
    /\ flag' = killKey
    /\ pc' = "poll"
    /\ UNCHANGED <<redis, stream, cgroup, db, loop, locals, output, post,
                   ghosts, spent>>

Boot == \/ Start \/ InitBalances \/ CountHistory \/ SeedHistory
        \/ EnsureGroup \/ StartLoop

-----------------------------------------------------------------------------
(***************************************************************************)
(* One iteration of _consume_loop.                                         *)
(***************************************************************************)
\* r.get(KILL_SWITCH_KEY) is answered ...
PollKill ==
    /\ pc = "poll"
    /\ reply' = killKey
    /\ barred' = killKey
    /\ pc' = "apply"
    /\ UNCHANGED <<redis, stream, cgroup, db, flag, loop, buyBal, snap, rb,
                   fill, output, post, acked, bought, settled, orphaned,
                   spent>>

\* ... and the loop resumes: the answer overwrites engine.kill_switch.
\* POST /killswitch may have run in between.
ApplyKillAtStartOnly ==                                         \* mutant
    /\ pc = "apply"
    /\ pc' = "read"
    /\ UNCHANGED <<redis, stream, cgroup, db, flag, loop, locals, output,
                   post, ghosts, spent>>
ApplyKill ==
    /\ pc = "apply"
    /\ flag' = reply
    /\ pc' = "read"
    /\ UNCHANGED <<redis, stream, cgroup, db, loop, locals, output, post,
                   ghosts, spent>>

\* XREADGROUP timed out after one second: `continue`
ReadNothing ==
    /\ pc = "read"
    /\ last = Len(stream)
    /\ pc' = "poll"
    /\ UNCHANGED <<redis, stream, cgroup, db, flag, loop, locals, output,
                   post, ghosts, spent>>

\* id ">": the first entry of the stream no XREADGROUP has returned (id "0"
\* would return the pending entries again)
Passed == IF trimmed > last THEN trimmed ELSE last
FirstPending ==                                                 \* mutant
    IF pel = {} THEN Passed + 1
    ELSE CHOOSE i \in pel : \A j \in pel : i <= j
FirstToRead == Passed + 1

\* count=100
BatchEnd(first) == IF Len(stream) < first + BatchCount
                   THEN Len(stream) ELSE first + BatchCount - 1

ReadBatch ==
    /\ pc = "read"
    /\ last < Len(stream)
    /\ lo' = FirstToRead
    /\ cur' = FirstToRead
    /\ hi' = BatchEnd(FirstToRead)
    /\ last' = hi'
    /\ pel' = pel \cup (lo' .. hi')
    /\ pc' = "entry"
    /\ UNCHANGED <<redis, stream, trimmed, group, db, flag, locals, output,
                   post, ghosts, spent>>

Readable == {i \in cur .. hi : stream[i] # Malformed}

\* the kill check of execute_opportunity, for the next entry that parses
BeginEntry ==
    /\ pc = "entry"
    /\ ~flag
    /\ \E i \in Readable :
          /\ \A j \in Readable : i <= j
          /\ cur' = i
    /\ pc' = "balance"
    /\ UNCHANGED <<redis, stream, cgroup, db, flag, lo, hi, locals, output,
                   post, ghosts, spent>>

\* the rest of the batch is skipped without an await; `if results: _persist`,
\* then XACK in any case
AnnounceFirst == IF results = << >> THEN "ack" ELSE "announce"  \* mutant
BalancesOnly == IF results = << >> THEN "ack" ELSE "copyBalances" \* mutant
AckIfResults == IF results = << >> THEN "poll" ELSE "copyTrades" \* mutant
AfterEntries == IF results = << >> THEN "ack" ELSE "copyTrades"

EndEntries ==
    /\ pc = "entry"
    /\ flag \/ Readable = {}
    /\ pc' = AfterEntries
    /\ cur' = hi + 1
    /\ UNCHANGED <<redis, stream, cgroup, db, flag, lo, hi, locals, output,
                   post, ghosts, spent>>

-----------------------------------------------------------------------------
(***************************************************************************)
(* execute_opportunity and maybe_rebalance.                                *)
(***************************************************************************)
\* `return None`: the RebalanceResult, if any, goes with it
ReturnNone ==
    /\ orphaned' = IF rb # NoRebalance THEN orphaned \cup {cur} ELSE orphaned
    /\ rb' = NoRebalance
    /\ snap' = << >>
    /\ buyBal' = 0
    /\ cur' = cur + 1
    /\ pc' = "entry"

\* the size check, made as soon as the buy balance b is settled
Size(b) ==
    \/ /\ Notional(b) >= MinNotional
       /\ buyBal' = b
       /\ pc' = "depth"
       /\ UNCHANGED <<cur, snap, rb, orphaned>>
    \/ /\ Notional(b) < MinNotional
       /\ ReturnNone

ReadBuyBalance ==
    /\ pc = "balance"
    /\ \/ /\ bal[Opp.buy] <= Threshold
          /\ buyBal' = bal[Opp.buy]
          /\ pc' = "scan"
          /\ UNCHANGED <<snap, rb, orphaned, cur>>
       \/ /\ bal[Opp.buy] > Threshold
          /\ Size(bal[Opp.buy])
    /\ UNCHANGED <<redis, stream, cgroup, db, flag, lo, hi, reply, fill,
                   output, post, acked, bought, settled, barred, spent>>

\* all_balances: one HGET per exchange, in dict order
ScanBalance ==
    /\ pc = "scan"
    /\ ~Scanned
    /\ snap' = Append(snap, bal[Order[Len(snap) + 1]])
    /\ UNCHANGED <<redis, stream, cgroup, db, flag, pc, loop, reply, buyBal,
                   rb, fill, output, post, ghosts, spent>>

\* no exchange can help: the executor pulls the kill switch itself
NoDonor ==
    /\ pc = "scan"
    /\ Scanned
    /\ \E k \in DOMAIN Order : Richest(k) /\ ~CanDonate(k)
    /\ killKey' = TRUE
    /\ ReturnNone
    /\ UNCHANGED <<bal, has, stream, cgroup, db, flag, lo, hi, reply, fill,
                   output, post, acked, bought, settled, barred, spent>>

DebitDonor ==
    /\ pc = "scan"
    /\ Scanned
    /\ \E k \in DOMAIN Order :
          /\ Richest(k)
          /\ CanDonate(k)
          /\ rb' = Transfer(k)
          /\ bal' = [bal EXCEPT ![Order[k]] = @ - Transfer(k).gross]
    /\ pc' = "credit"
    /\ snap' = << >>
    /\ UNCHANGED <<killKey, has, stream, cgroup, db, flag, loop, reply,
                   buyBal, fill, output, post, ghosts, spent>>

\* buy_balance = rebalance_result.receiver_new_balance
BuyBalanceNow == bal[rb.receiver] + rb.net

CreditReceiver ==
    /\ pc = "credit"
    /\ bal' = [bal EXCEPT ![rb.receiver] = @ + rb.net]
    /\ Size(BuyBalanceNow)
    /\ UNCHANGED <<killKey, has, stream, cgroup, db, flag, lo, hi, reply,
                   fill, output, post, acked, bought, settled, barred,
                   spent>>

\* depth missing, stale or too thin on one side: the trade is skipped
SkipFill ==
    /\ pc = "depth"
    /\ ReturnNone
    /\ UNCHANGED <<redis, stream, cgroup, db, flag, lo, hi, reply, fill,
                   output, post, acked, bought, settled, barred, spent>>

\* both walks fill: the books decide what the sell leg returns
Fill(gain) ==
    /\ pc = "depth"
    /\ fill' = [cost |-> Cost(Notional(buyBal)),
                proceeds |-> Notional(buyBal) + gain]
    /\ pc' = "buy"
    /\ UNCHANGED <<redis, stream, cgroup, db, flag, loop, reply, buyBal,
                   snap, rb, output, post, ghosts, spent>>

BuyLeg ==
    /\ pc = "buy"
    /\ bal' = [bal EXCEPT ![Opp.buy] = @ - fill.cost]
    /\ bought' = [bought EXCEPT ![cur] = @ + 1]
    /\ pc' = "sell"
    /\ UNCHANGED <<killKey, has, stream, cgroup, db, flag, loop, locals,
                   output, post, acked, settled, orphaned, barred, spent>>

\* the second leg; the ExecutionResult joins the results of the batch
SellLeg ==
    /\ pc = "sell"
    /\ bal' = [bal EXCEPT ![Opp.sell] = @ + fill.proceeds]
    /\ settled' = settled \cup {cur}
    /\ results' = Append(results, cur)
    /\ due' = Plus(due, Plus(RebalanceRows(rb), TradeRows(Opp, fill)))
    /\ rb' = NoRebalance
    /\ fill' = NoFill
    /\ buyBal' = 0
    /\ cur' = cur + 1
    /\ pc' = "entry"
    /\ UNCHANGED <<killKey, has, stream, cgroup, db, flag, lo, hi, reply,
                   snap, post, acked, bought, orphaned, barred, spent>>

Execute ==
    \/ ReadBuyBalance \/ ScanBalance \/ NoDonor \/ DebitDonor
    \/ CreditReceiver \/ SkipFill \/ (\E g \in Gains : Fill(g))
    \/ BuyLeg \/ SellLeg

-----------------------------------------------------------------------------
(***************************************************************************)
(* _persist, then XACK.                                                    *)
(***************************************************************************)
CopyTrades ==
    /\ pc = "copyTrades"
    /\ trades' = trades \cup Executing
    /\ pc' = "copyBalances"
    /\ UNCHANGED <<redis, stream, cgroup, ledger, booked, seeded, announced,
                   flag, loop, locals, output, post, ghosts, spent>>

CopyBalances ==
    /\ pc = "copyBalances"
    /\ ledger' = Plus(ledger, due)
    /\ booked' = booked \cup Executing
    /\ due' = Zero
    /\ pc' = "announce"
    /\ UNCHANGED <<redis, stream, cgroup, trades, seeded, announced, flag,
                   loop, locals, results, post, ghosts, spent>>

\* one XADD per result; the next call after the last one is the XACK
Announce ==
    /\ pc = "announce"
    /\ announced' = announced \cup {Head(results)}
    /\ results' = Tail(results)
    /\ pc' = IF Tail(results) = << >> THEN "ack" ELSE "announce"
    /\ UNCHANGED <<redis, stream, cgroup, trades, ledger, booked, seeded,
                   flag, loop, locals, due, post, ghosts, spent>>

Ack ==
    /\ pc = "ack"
    /\ pel' = pel \ (lo .. hi)
    /\ acked' = acked \cup (lo .. hi)
    /\ pc' = "poll"
    /\ UNCHANGED <<redis, stream, trimmed, group, last, db, flag, loop,
                   locals, output, post, bought, settled, orphaned, barred,
                   spent>>

Persist == CopyTrades \/ CopyBalances \/ Announce

\* asyncio.sleep(1) after an error is over: `while` goes on
Wake ==
    /\ pc = "sleep"
    /\ pc' = "poll"
    /\ UNCHANGED <<redis, stream, cgroup, db, flag, loop, locals, output,
                   post, ghosts, spent>>

Iterate == \/ PollKill \/ ApplyKill \/ ReadNothing \/ ReadBatch
           \/ BeginEntry \/ EndEntries \/ Execute \/ Persist \/ Ack \/ Wake

-----------------------------------------------------------------------------
(***************************************************************************)
(* Failures.  The locals of the iteration are gone: nothing retries it.    *)
(***************************************************************************)
Forget ==
    /\ orphaned' = orphaned \cup Unrecorded
    /\ reply' = FALSE /\ buyBal' = 0 /\ snap' = << >>
    /\ rb' = NoRebalance /\ fill' = NoFill
    /\ results' = << >> /\ due' = Zero

\* the `except` of the loop neither acknowledges nor retries
AckFinally == IF pc \in EntryPcs THEN "ack" ELSE "sleep"         \* mutant
AfterError == "sleep"

\* a Redis or database call of the loop raises, before or after its effect
Raise ==
    /\ pc \in LoopPcs
    /\ faults < MaxFaults
    /\ faults' = faults + 1
    /\ Forget
    /\ pc' = AfterError
    /\ UNCHANGED <<redis, stream, cgroup, db, flag, loop, post, acked,
                   bought, settled, barred, asks, stops>>

\* shutdown (lifespan cancels the task at the await it is in) or a crash
Stop ==
    /\ pc # "down"
    /\ stops < MaxStops
    /\ stops' = stops + 1
    /\ Forget
    /\ pc' = "down"
    /\ post' = "none"
    /\ flag' = FALSE
    /\ UNCHANGED <<redis, stream, cgroup, db, loop, acked, bought, settled,
                   barred, asks, faults>>

-----------------------------------------------------------------------------
(***************************************************************************)
(* The other actors.                                                       *)
(***************************************************************************)
\* the scanner appends an opportunity, or something that does not parse; XADD
\* then removes old entries, read or not, and leaves at least MaxLen (what the
\* group has been given already is nothing to it: trimmed may stay behind)
Trims(n) == {t \in trimmed .. n : t = trimmed \/ (last < t /\ t + MaxLen <= n)}

Publish(entry) ==
    /\ Len(stream) < MaxEntries
    /\ stream' = Append(stream, entry)
    /\ trimmed' \in Trims(Len(stream) + 1)
    /\ UNCHANGED <<redis, group, last, pel, db, flag, pc, loop, locals,
                   output, post, ghosts, spent>>

\* POST /killswitch of the executor: the flag at once ...
PostKill(active) ==
    /\ pc \notin BootPcs
    /\ post = "none"
    /\ asks < MaxAsks
    /\ asks' = asks + 1
    /\ flag' = active
    /\ post' = IF active THEN "on" ELSE "off"
    /\ barred' = (barred /\ active)
    /\ UNCHANGED <<redis, stream, cgroup, db, pc, loop, locals, output,
                   acked, bought, settled, orphaned, faults, stops>>

\* ... and the key when its SET is answered
StoreKill ==
    /\ post # "none"
    /\ killKey' = (post = "on")
    /\ post' = "none"
    /\ UNCHANGED <<bal, has, stream, cgroup, db, flag, pc, loop, locals,
                   output, ghosts, spent>>

\* POST /api/v1/killswitch of the gateway: the key only
GatewayKill(active) ==
    /\ asks < MaxAsks
    /\ asks' = asks + 1
    /\ killKey' = active
    /\ UNCHANGED <<bal, has, stream, cgroup, db, flag, pc, loop, locals,
                   output, post, ghosts, faults, stops>>

Environment ==
    \/ \E entry \in Routes \cup {Malformed} : Publish(entry)
    \/ \E active \in BOOLEAN : PostKill(active) \/ GatewayKill(active)

Next == Boot \/ Iterate \/ StoreKill \/ Raise \/ Stop \/ Environment

\* asyncio resumes the loop and the handler, the orchestrator restarts the
\* process (restart: unless-stopped), and Redis and TimescaleDB answer
Fairness == WF_vars(Boot) /\ WF_vars(Iterate) /\ WF_vars(StoreKill)

Spec == Init /\ [][Next]_vars
FairSpec == Spec /\ Fairness

-----------------------------------------------------------------------------
(***************************************************************************)
(* Properties.                                                             *)
(***************************************************************************)
Rebalances == [donor : Exchanges, receiver : Exchanges,
               gross : Int, net : Int]
Fills == [cost : Int, proceeds : Int]
Accounts == [Exchanges -> Int]

FlagType ==
    /\ killKey \in BOOLEAN /\ group \in BOOLEAN /\ seeded \in BOOLEAN
    /\ flag \in BOOLEAN /\ reply \in BOOLEAN /\ barred \in BOOLEAN
ControlType ==
    /\ pc \in BootPcs \cup LoopPcs \cup {"sleep"}
    /\ post \in {"none", "on", "off"}
CountType ==
    /\ trimmed \in Nat /\ last \in Nat
    /\ lo \in Nat /\ cur \in Nat /\ hi \in Nat
    /\ asks \in Nat /\ faults \in Nat /\ stops \in Nat
MoneyType ==
    /\ bal \in Accounts /\ ledger \in Accounts /\ due \in Accounts
    /\ buyBal \in Int /\ rb \in Rebalances /\ fill \in Fills
SequenceType ==
    /\ stream \in Seq(Routes \cup {Malformed})
    /\ snap \in Seq(Int) /\ results \in Seq(Ids)
MarkType ==
    /\ has \subseteq Exchanges
    /\ pel \subseteq Ids /\ acked \subseteq Ids
    /\ trades \subseteq Ids /\ booked \subseteq Ids /\ announced \subseteq Ids
    /\ settled \subseteq Ids /\ orphaned \subseteq Ids
    /\ bought \in [Ids -> Nat]

\* Every variable keeps its type: the state _consume_loop, Redis and the
\* database can be in.
TypeOK == /\ FlagType /\ ControlType /\ CountType
          /\ MoneyType /\ SequenceType /\ MarkType

\* An opportunity is bought at most once, whatever fails and however often
\* the executor restarts: XREADGROUP ">" (main.py:128) never returns an entry
\* twice and no error path runs an entry again.
AtMostOnce == \A i \in Ids : bought[i] <= 1

\* XACK (main.py:146) comes after everything an executed entry leaves behind:
\* both legs, the trade row, the balance rows and the entry of `trades`.
AckedIsRecorded ==
    \A i \in acked : bought[i] > 0 =>
        i \in settled /\ i \in trades /\ i \in booked /\ i \in announced

\* Whoever reads the stream `trades` (notifier, dashboard) finds the trade and
\* its balance rows already in the database (order of _persist, 112-117).
AnnouncedIsStored == announced \subseteq trades \cap booked

\* money moved by the entry in hand and by the results not yet copied
InHand ==
    [e \in Exchanges |->
        due[e]
        + (IF pc = "credit" THEN (IF e = rb.donor THEN - rb.gross ELSE 0)
                            ELSE RebalanceRows(rb)[e])
        + (IF pc = "sell" THEN (IF e = Opp.buy THEN - fill.cost ELSE 0)
                          ELSE 0)]

\* While no result has been dropped, the balance in Redis is the sum of the
\* change_amount column of the history (opening rows, trades, rebalances) plus
\* what the loop is about to write (main.py:96-115).
HistoryExplainsBalance ==
    seeded /\ orphaned = {} =>
        \A e \in Exchanges : bal[e] = ledger[e] + InHand[e]

\* The balance a position was sized on (paper_trading.py:53-63) is still the
\* balance of the buy exchange when the buy leg is charged (107).
SizedOnCurrentBalance == pc \in {"depth", "buy"} => buyBal = bal[Opp.buy]

\* settings under which the sizes below leave something on the account: a
\* position and its fee fit the balance, a donor's half covers the fee
Solvent == /\ PositionPct * (100 + BuyFeePct) <= 10000
           /\ \A e \in Exchanges : 2 * Withdrawal[e] <= Threshold

\* No balance goes below zero, so the max(0.0, ...) of the recorded amounts
\* (paper_trading.py:133-134) never hides anything and no row violates
\* balance_positive (init-db.sql:241).
NonNegative == Solvent => \A e \in Exchanges : bal[e] >= 0

\* An iteration whose GET saw the kill switch on buys nothing more, as long as
\* nobody switches it off through the executor's own endpoint (main.py:127,
\* paper_trading.py:49).
BarredBuysNothing == [][barred => UNCHANGED bought]_vars

\* One failing batch, error or restart does not stop the loop: an entry that
\* waits past the group's cursor, even while the executor is down, is delivered,
\* unless the scanner's XADD (scanner/main.py:107) trims it first.
TrimmedUnread(i) == last < i /\ i <= trimmed
EntriesAreRead ==
    \A i \in Ids : (group /\ last < i /\ i <= Len(stream))
                       ~> (i \in pel \/ i \in acked \/ TrimmedUnread(i))

\* A kill switch left on takes hold of engine.kill_switch for good, whatever
\* POST /killswitch and the GET of the loop do to each other on the way.
KillTakesHold == <>[]killKey => <>[]flag

\* What is delivered is acknowledged, unless a call fails or the process
\* stops: the pending list of executor-cg grows only by failures.
DeliveredIsAcked ==
    \A i \in Ids : i \in pel ~> (i \in acked \/ faults + stops > 0)

-----------------------------------------------------------------------------
(***************************************************************************)
(* The executor implements TradeLifecycle.                                 *)
(***************************************************************************)
StageOf(i) ==
    IF i > Passed THEN "unread"
    ELSE IF i \in acked THEN IF bought[i] = 0 THEN "skipped" ELSE "finished"
    ELSE IF i \notin pel THEN "missed"
    ELSE IF bought[i] = 0 THEN "pending"
    ELSE IF i \notin settled THEN "half"
    ELSE IF i \notin trades THEN "settled"
    ELSE IF i \notin booked THEN "stored"
    ELSE IF i \notin announced THEN "booked"
    ELSE "announced"

Life == INSTANCE TradeLifecycle
            WITH Entries <- Ids, stage <- [i \in Ids |-> StageOf(i)]

\* Every step of the executor, failures included, is a step of the life of
\* its entries or leaves them where they are.
FollowsLifecycle == Life!LifeSpec

-----------------------------------------------------------------------------
(***************************************************************************)
(* What the documents say and the code does not do.                        *)
(***************************************************************************)
\* "The kill switch stops the creation of trades instantly" (README.md:133,
\* paper_trading.py:7): the flag is refreshed once per iteration, so a batch
\* that was already being read goes on taking up opportunities.
KillIsImmediate == [][killKey => ~(pc = "entry" /\ pc' = "balance")]_vars

\* "Graceful shutdown: finish the current trade, flush to the database"
\* (TZ_ARCHITECTURE.md:220): lifespan cancels the task at the await it is in.
ShutdownFinishesTrades ==
    pc = "down" => \A i \in Ids : bought[i] > 0 => i \in booked

\* The table `balance` "keeps the history of the virtual balance"
\* (TZ_ARCHITECTURE.md:743): a rebalance whose trade is then skipped moves
\* money on two exchanges and leaves no row.
HistoryIsComplete == orphaned = {}
=============================================================================
