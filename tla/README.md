# TLA+ models of the arbitrage system

This directory specifies the services of the crypto-arbitrage system in TLA+,
checks the specifications with TLC on small instances, and proves the main
safety properties with TLAPS for every value of the constants.  Paths below are
relative to `src/`.

- [1. The system](#1-the-system): components, state, interactions, hard spots
- [2. Plan](#2-plan): modules, order, runs, theorems, what is still to do
- [3. The models](#3-the-models): how modules correspond to the code
- [4. The runs](#4-the-runs): what TLC checks, bounds, fairness
- [5. The proofs](#5-the-proofs): theorems, invariants, assumptions
- [6. Findings](#6-findings): where documents and code disagree
- [7. Limits](#7-limits): what is only checked, what is left out, and why

## 1. The system

Five Python services and a React dashboard talk through Redis streams and keys
and a TimescaleDB.  Every service is one process with one asyncio event loop, so
within a service tasks interleave at `await` only; between services everything
interleaves.

```
exchanges --ws--> collector --XADD prices--> scanner --XADD opportunities--> executor --XADD trades--> notifier --> Telegram
                     | SET depth:*              |  COPY opportunities           | HINCRBYFLOAT balance:*
                     | COPY prices (writer-cg)  |  SET NX dedup:opp:*           | COPY trades, balance
                     v                          v                               v
                  TimescaleDB <---------------- api-gateway (REST, /ws) ------> dashboard
                                                   | SET killswitch, HSET balance:*
```

| Component | State it keeps | Operations that change state | Talks to |
|---|---|---|---|
| Collector, watch tasks (`collector/ws_client.py`, `redis_publisher.py`, `reconnect.py`) | a task per symbol or chunk, retry counter, one `status` per exchange, a semaphore for handshakes | start, one update of an order book, reconnect with backoff, stop | exchanges; `XADD prices`, `SET depth:*` |
| Collector, start (`collector/main.py`) | tables `exchange_configs`, `tracked_pairs`; the list of targets | validate the pairs of each exchange against its markets, read the targets | exchanges, database |
| Collector, batch writer (`collector/db_writer.py`) | group `writer-cg`, its cursor and pending list | read, COPY or row by row, XACK, stop | table `prices` |
| Scanner (`scanner/main.py`, `spread_calculator.py`, `dedup.py`) | price book, settings, group `scanner-cg`, `dedup:opp:*` keys with a TTL | apply a batch, compute spreads, claim, publish, store, acknowledge | streams `prices`, `opportunities`; table `opportunities` |
| Executor (`executor/main.py`, `paper_trading.py`, `rebalance.py`, `balance.py`) | `engine.kill_switch`, settings, group `executor-cg`, hashes `balance:*` | seed, read, size, rebalance, buy and sell leg, persist, acknowledge, POST /killswitch | streams `opportunities`, `trades`; key `killswitch`; tables `trades`, `balance` |
| Notifier (`notifier/main.py`, `tg_queue.py`) | group `notifier-cg` on two streams, the Redis lists of pending and dead messages, retry counts in the messages | read, enqueue, acknowledge, send, retry, bury, POST /notify | Telegram |
| API gateway (`api-gateway/`) | WebSocket clients, read positions of the broadcasters, rate-limit windows | POST /killswitch, PUT /balance, PUT /settings, PATCH /exchanges, DELETE /trades, broadcast | Redis, database, dashboard |
| Dashboard (`frontend/src/hooks`, `store`) | connection state with reconnect timers, lists of the last 50 opportunities and trades, filters | connect, ping, watchdog, merge a message, fetch a page | gateway |
| Shared (`shared/depth.py`, `models.py`, `config.py`, `db.py`) | none | pure functions: walks through a depth, parsing, fees | everyone |
| Schema and deployment (`scripts/`, `docker-compose.yml`) | constraints, restart policy | | |

What makes each of them correct:

- **Executor.** No opportunity is traded twice; every movement of money is
  explained by a row; no account is overdrawn; the kill switch takes hold and
  what it bars stays barred; an acknowledged entry left all its records.
- **Scanner.** The price book is current; a spread is announced once per TTL and
  not silently suppressed; an acknowledged batch was published in full; no tick
  published during a restart is skipped.
- **Notifier.** An alert is queued once, sent a bounded number of times, and
  ends in the chat or in the dead letters; one bad message does not block the
  others; a restart goes on where Redis stands.
- **Collector.** It collects what the tables and the markets say; a symbol is
  always subscribed again; the depth belongs to the price; every tick is written
  once, or the reason is known; the status is the truth.
- **Gateway.** Corrections of balances do not lose concurrent trades; every
  client sees the events in order; the rate limit holds in every window.
- **Dashboard.** One connection at a time, which comes back; lists without
  duplicates; the page shown belongs to the filters shown.

Hard spots, all listed line by line in `PROJECT.json` under `hazards`:

- **Interleaving at `await`.** The executor's flag is set by an HTTP handler
  while a GET of the loop is under way; sizes are computed on balances read
  several awaits ago; dedup keys are set long before the publication.
- **Failure in the middle.** No service uses a transaction across Redis and the
  database.  An exception anywhere drops the batch; a failed call may have been
  carried out.
- **Restart.** All groups are read with id `>` only.  What was delivered and not
  acknowledged is never seen again; groups, lists and keys outlive the process,
  locals do not.
- **Shutdown.** `lifespan` cancels the loop at whatever await it is in.
- **Time.** The dedup keys expire while the batch that set them is still being
  published.
- **Limits.** Every stream is trimmed whatever its readers have read;
  handshakes share a few permits, which a silent symbol keeps.
- **Callbacks.** The hook's `onclose`, its timers and the cleanup of its effect
  share refs, and run in any order around a remount.

## 2. Plan

Order: the part that moves money first, then the services before and behind it,
then what crosses services.

| # | Modules | Subject | State |
|---|---|---|---|
| 1 | `Executor`, `TradeLifecycle`, `ExecutorInvariants` | the consume loop with every await; the life of an opportunity as its abstract specification | done |
| 2 | `ExecutorProofs` | inductive invariants and theorems, the refinement of `TradeLifecycle` | done |
| 3 | `TelegramQueue`, `Notifier`, `NotifierProofs` | the queue as a component, the service as an implementation of it | done |
| 4 | `Scanner`, `ScannerProofs` | price book, dedup with time, publication | done |
| 5 | `TradingSystem` (extends `Executor`), `TradingSystemProofs` | PUT /balance and DELETE /trades beside the executor: which of its properties survive an operator, and what the history then explains | done |
| 6 | `Targets`, `Collector`, `DbWriter`, `TargetsProofs`, `CollectorProofs`, `DbWriterProofs` | what to collect, the watch tasks, the writer behind a trimmed stream | done |
| 7 | `LiveFeed`, `LiveFeedProofs` | events from the stream to the list of the dashboard, through broadcaster, socket and hook | done |
| 8 | `DepthWalk` | the walks of `shared/depth.py` against a reference definition; also feeds the free outcomes of `Executor` and `Scanner` | open |
| 9 | `TradesPage`, `RateLimiter` | fetches of the trades page answered out of order; the sliding window | open |

Abstract specifications: `TradeLifecycle` (what the executor promises about one
opportunity), `TelegramQueue` (what the notifier's loop is a client of).

Every safety property the runs check, and both refinements, are theorems.  Still
worth proving: that a trade the dashboard shows or the notifier queues is in the
database or was deleted, once a module composes `Executor` with the readers of
its stream; and the results of the modules that are open above.

## 3. The models

An action is one awaited call together with the synchronous code up to the next
await; `pc` names the call a loop awaits next.  A Redis stream is a sequence, an
entry's id is its position, and a consumer group is a cursor `last`, a pending
set `pel` and a set `acked`.  `XREADGROUP >` returns the next entries past
`last` and never older ones.  Every stream is trimmed by the XADD of its
producer: `prices` at 100,000 entries (redis_publisher.py:16, 35),
`opportunities` and `trades` at 10,000 (scanner/main.py:38, 107;
executor/main.py:38, 117), whatever their readers have read.  The trimming is
approximate, so `Trims` lets each XADD remove any number of the oldest entries
that leaves at least `MaxLen`; `trimmed` is the last one gone, and a read goes
on past it.  Where only unread entries matter, `trimmed` stays behind the
cursor; `DbWriter` follows it further, because it also looks at pending ids.  A
call that raises may or may not have been carried out.

### Executor

| Code | Model |
|---|---|
| `lifespan`, `_ensure_group`, `_seed_*` (main.py:61-80, 154-194) | `Start`, `InitBalances` (one HSETNX per exchange), `CountHistory`, `SeedHistory`, `EnsureGroup`, `StartLoop` |
| GET of the key and the assignment of `engine.kill_switch` (125-127) | `PollKill`, `ApplyKill` |
| XREADGROUP (128-131) | `ReadBatch`, `ReadNothing` |
| the loop over the entries (133-143) | `BeginEntry`, `EndEntries` |
| `execute_opportunity` (paper_trading.py:47-137) | `ReadBuyBalance`, `Fill`, `SkipFill`, `BuyLeg`, `SellLeg` |
| `maybe_rebalance` (rebalance.py:33-82) | `ScanBalance` (one HGET per exchange), `NoDonor` (sets the kill switch), `DebitDonor`, `CreditReceiver` |
| `_persist` (main.py:93-117), XACK (146) | `CopyTrades`, `CopyBalances`, `Announce`, `Ack` |
| `except` and `sleep(1)` (148-151) | `Raise`, `Wake` |
| shutdown or crash | `Stop` |
| POST /killswitch of the executor (205-216) | `PostKill`, then `StoreKill` |
| POST /killswitch of the gateway | `GatewayKill` |
| the scanner's XADD with its `maxlen` (scanner/main.py:107) | `Publish`, `Trims` |

Balances are whole units; the percentage of a position and of a fee are computed
with integer division, so that a fee or a share that does not fit shows.  The
walks through the depths are an outcome: no fill, or proceeds that differ from
the notional by one of `Gains`.  The history variables `bought`, `settled`,
`orphaned`, `barred` record what was done; `orphaned` are the entries whose
result was dropped.

`TradeLifecycle` describes an opportunity from `unread` to `finished`; the
executor implements it under the mapping `StageOf`.

### TelegramQueue and Notifier

`TelegramQueue` models `tg_queue.py`: `Enqueue` (LPUSH), and the sender with
`Pop` (BRPOP), `SendOk`, `SendRaises` (the message may have arrived), `Requeue`,
`Bury`, `Resume` (the pauses), `SenderRaises` (a Redis error in the loop) and
`DropSender` (cancelled or crashed).  `Notifier` extends it with
`_consume_loop`: `Read` delivers from one or both streams, the opportunities
first, which is the order of the call (main.py:105), `HandleQuiet` /
`HandleAlert` handle one entry (an alert below the thresholds is `quiet`),
`EnqueueRaises` is the swallowed failure of `_handle_entry`, `Ack` acknowledges
one stream's part; `Boot`, `EnsureGroups`, `BeginStop` (which stops the queue
first), `FinishStop` and `Crash` are the lifespan, `Notify` is POST /notify.
`ImplementsQueue` says that the service is a producer `TelegramQueue` allows: it
never enqueues an id twice.

### Scanner

| Code | Model |
|---|---|
| `_ensure_group` (main.py:66-71), `lifespan` | `Boot`, `EnsureGroup`, `End` |
| `_refresh_min_spread` (74-90), one SELECT at a time | `Refresh` |
| XREADGROUP, update of `_state["prices"]` (119-133) | `Read`, `ReadNothing` |
| MGET of the depths, `calculate_spreads` per symbol (136-150) | `Calculate` |
| `OpportunityDedup.is_new` (dedup.py:18-22) | `Claim` |
| `_publish_and_store` (104-109) | `Publish` per XADD, `Store` for the COPY |
| XACK (157-158), `except`, `sleep(1)` | `Ack`, `LoopRaises`, `Wake` |
| the expiry of the keys | `Tick` |

`marks[k]` is the remaining life of the dedup key of (symbol, buy, sell) and
`since[k]` the time since its last publication, up to `Ttl`.  Where both depths
are fresh the outcome of the walks is free; otherwise the top of the book
decides with the quote it has, of any age, as in `calculate_spreads`.  A
notional of 0 in the settings makes the division of spread_calculator.py:68
raise and drops the batch.

### Targets (the start of the collector)

| Code | Model |
|---|---|
| `lifespan` up to `_sync_pairs` (main.py:150-158) | `Boot` |
| `_sync_pairs`, the list of active exchanges (main.py:87-99) | `ListExchanges` |
| per exchange: `load_markets`, upsert of the desired pairs, SELECT and UPDATE of those without a market (101-147) | `LoadMarkets`, `Upsert`, `FindUnknown`, `Deactivate`; `SyncRaises` for its `except` |
| `_load_targets` (46-72), two SELECTs | `LoadExchanges`, `LoadPairs`, `LoadRaises` (the fallback) |
| PATCH /exchanges/{exchange} (`routers/exchanges.py`) | `Patch`, between any two of the calls |
| the end of the process | `Stop` |

The two tables are sets of exchanges and of pairs; `Init` takes any contents.
The histories `before`, `patched` and `failed` belong to the start under way.

### Collector (the watch tasks of one exchange)

| Code | Model |
|---|---|
| `start` (ws_client.py:55-96) | `Start`: a task per chunk or per symbol |
| the head of the loops, with the semaphore (126-137) | `Watch`, `Acquire` |
| a book arrives, and the status is `connected` (106-109, 137-140) | `Update`; `EmptyUpdate` when a side of it is empty |
| `_handle_order_book` (155-175): XADD of the tick, SET of the depth | `PublishPrice`, `PublishDepth`; `Expire` for the TTL of the key |
| `except Exception`, the backoff | `Error`, `BadSymbol` (an unlisted symbol in the chunk), `Wake` |
| `stop`, and a new process | `Stop`, `Restart` |

A task is the set of its symbols, so that the two modes, one socket for a chunk
and one per symbol, differ in `Tasks(mode)` only.  Of a depth key the model
keeps its age: the ticks of its symbol published since its book.

### DbWriter

| Code | Model |
|---|---|
| `publish_price` (redis_publisher.py:29-37) by the tasks of the process | `Publish`, which trims all but at least `MaxLen` entries |
| `start`, `_ensure_group` (db_writer.py:48-62; main.py:165-172) | `Boot`, `EnsureGroup`, `StartFails` (the process runs on without a writer) |
| XREADGROUP, `_to_record` (64-86, 126-167) | `Read` with `ReadBatch` or `ReadPoison` |
| `_flush`: COPY (87-98) | `Copy`, `CopyRaises` |
| `_insert_individually` (102-123) | `Insert`, `InsertRaises`, one record at a time |
| XACK, `except`, `sleep(1)` | `Ack`, `ConsumeRaises`, `Wake` |
| `stop` or a crash | `Stop` |

A tick is `good`, `skipped` (its price overflows the column), `refused` (its
price rounds to 0, the CHECK fails) or `nan` (a volume that parses and whose
comparison raises).  A COPY with one refused record stores none.

### TradingSystem

Extends `Executor`: `ExecutorStep` is its `Next`, beside it PUT /balance
(`PutBegin`, `PutGet` and `PutSet` per exchange, in the order of the payload,
which is any, `PutCopy`, `PutRaises`) and
DELETE /trades (`DeleteFiltered`, or `DeleteCount` and `DeleteTruncate`), each
call an action.  The histories `broken` and `undercut` name the exchanges whose
history an edit broke, or which were edited while a trade was in hand; `told`
is what answers of DELETE reported, `removed` what was deleted.

### LiveFeed

| Code | Model |
|---|---|
| `events_broadcaster` (websocket.py:45-66) | `GatewayBoot`, `Ask` (from `$`), `Read`, `ReadNothing`, `ReadRaises`, `Send` per client and entry |
| `ConnectionManager`, `/ws` (20-41, 96-120) | `Accept`, `Disconnect`, the end of `Send` |
| `connect`, `onopen`, `onclose`, the watchdog, the cleanup of the effect (useWebSocket.ts) | `Mount`, `Reconnect`, `OnOpen`, `OnClose`, `Watchdog`, `Unmount` |
| `onmessage` and `addTrade` (dashboardStore.ts:33-36) | `OnMessage` |
| the load of the dashboard (Dashboard.tsx:28-40) | `Load`, `Answer` |
| the network and the process | `Cut` (closed by the other end, or silently dead), `GatewayStop` |
| the executor's COPY and XADD with its `maxlen` (executor/main.py:113-117) | `Announce`, `Trims` |

A socket has two ends: `active` is the gateway's view, `state` the page's.
`beating` and `pingRef` differ when two sockets are open at once; `timers` and
`armed` say how many reconnects are pending and whether `timerRef` still names
one of them, since the cleanup can only clear that one.  `overrun` are the
entries that were trimmed between two the broadcaster read.

## 4. The runs

| Run | Instance | Properties | States |
|---|---|---|---|
| `executor` | 2 exchanges, 2 entries of either route or malformed, `MaxLen` 1, batches of 2, 2 kill-switch requests through either endpoint, 1 failing call, 1 stop | `AtMostOnce`, `AckedIsRecorded`, `HistoryExplainsBalance`, `NonNegative`, `FollowsLifecycle`, `BarredBuysNothing`; `KillTakesHold`, `EntriesAreRead`, `DeliveredIsAcked` | 364,381 |
| `notifier_safety` | 2 stream entries, `MaxLen` 1, 1 POST /notify, 1 retry, 1 fault, 1 stop | `AttemptsBounded`, `AckedIsQueued`, `OneLostEach`, `ImplementsQueue` | 1,756,307 |
| `notifier_liveness` | the same without POST /notify | `QueueDrains`, `AlertsAreSettled` | 82,701 |
| `scanner` | 1 symbol, 2 exchanges, one of them with depths, 3 ticks with normal or crossed quotes, `MaxLen` 2, batches of 2, TTL 2, 1 fault, 1 stop | `AckedIsPublished`, `BookIsLatest`, `PublicationsApart`; `EntriesAreDelivered`, `SpreadIsAnnounced` | 404,895 |
| `targets` | 2 exchanges, 3 symbols, any contents of the tables, 2 PATCHes, 2 faults, 1 stop | `QuietStartIsExact`, `DisabledIsLeftAlone`, `UnlistedIsExplained` | 353,604 |
| `collector` | 4 symbols, one unlisted, one silent, 2 chunks, 2 permits, either mode, 1 fault, 1 stop | `StatusIsWitnessed`, `HandshakesBounded`, `DepthKeepsUp`; `SymbolsAreServed` | 38,951 |
| `db_writer` | 3 ticks of any kind, `MaxLen` 1, batches of 2, 2 faults, 1 stop | `AckedIsSettled`, `StoredOnce`, `OneReplyEach`; `TicksAreRead`, `ReadIsAcked` | 160,842 |
| `trading_system` | the executor with 2 entries, none trimmed, in batches of 1 and 1 fault, 1 PUT, 1 DELETE | `EditsAreExplained`, `OverdrawnByEdit`, `StoredOrDeleted` | 2,992,527 |
| `live_feed` | 2 sockets, 2 trades, `MaxLen` 1, a list of 2, pages of 1, 2 mounts, 1 load, 1 fault | `TypeOK`, `OneChain`, `FeedIsGapless`, `ListIsExplained`; `FeedComesBack` | 761,628 |
| `executor_kill_delay`, `executor_shutdown`, `executor_history` | see [Findings](#6-findings) | violations | |

Behind the semicolon are the liveness properties.  What each property says, and
which lines it is about, stands above its definition.

**Bounds.**  Every bound is a constant named `Max...` and guards one action.

- *Executor, TradingSystem.*  Two exchanges are enough for a buyer, a seller and
  a donor; the amounts (9 and 13, position 50 %, fee 20 %, threshold 10) are
  chosen so that the first buy on `a` needs a rebalance, the next one still
  finds a donor or not depending on the route taken, and a fee is no multiple of
  anything.  Two entries give a batch with two results, a batch with a malformed
  entry beside a good one, and an entry that waits while a batch is in hand.
  One failing call and one stop can hit every await, in either order.  In
  `trading_system` batches of one keep the second entry for after the edit; the
  operator sets 2, less than a position that was sized before it.
  `MaxLen 1` in `executor` lets the first entry be trimmed before, while and
  after the group is made and while the process is down; in the runs about
  something else `MaxLen 2` leaves both entries alone.
- *Notifier.*  Two entries are two of one stream, so that a batch has a next
  entry and one can be trimmed behind the other, or one of each, so that a reply
  has two parts.  With POST /notify the list holds up to three messages, enough
  for a retried one to queue behind others; one retry tells a second attempt
  from a last one.
- *Scanner.*  Buying at `Low` (bid 99, ask 100) and selling at `Crossed` (bid
  102, ask 99) earns more than the minimal spread, and so does buying and
  selling among two crossed quotes in either direction: a batch finds no, one or
  two opportunities.  Three ticks in batches of two give an update within a
  batch and across batches.  `Ttl 2` with `MaxLag 1` lets a key expire while its
  spread is still unpublished in the next round.  One exchange only has a depth,
  so the top of the book decides every pair: it already gives each set of
  spreads a batch can find, and with depths on both the walks, whose outcome is
  free, add states and no new step.  The theorems about the scanner include them.
  `MaxLen 2` with three ticks lets the first be lost to a scanner that is down
  or busy.
- *Targets.*  Exchange `x` lists two symbols, `y` the third; one is desired and
  the fallback is another, so an exchange may have pairs to keep, to add and to
  deactivate, and none at all.  Two PATCHes switch an exchange off and on again
  during one start; two faults hit the validation and the load.
- *Collector.*  One chunk is healthy, one has a symbol that costs it its
  connection and a silent one; task per symbol, two permits are one more than
  the silent symbol keeps.  Ages are counted to 4, which `DepthKeepsUp` stays
  below.
- *DbWriter.*  With `MaxLen` 1 a tick can be trimmed before it was read, while
  it is in hand, and between two replies; a batch of two mixes kinds.
- *LiveFeed.*  Two sockets are the former page's and the present one's.  With
  two trades the first can be trimmed before the broadcaster reads it; a gap
  between two entries of one feed takes three or more, which is left to the
  theorem.  A list of two is full with two trades, and a page of one makes a
  load shorten it.

A second fault after the same step would repeat what the first one showed,
because each leaves its loop at the same place with its locals empty; the proofs
do not depend on any of these numbers.

**Deadlock** is checked for the executor, the notifier, the scanner, the
collector and the composed system, whose loops can always poll again.  It is not
checked where a model comes to rest by design: the writer that was not started
(and a loop that waits on a stream whose ticks are used up), a start that is
over, a feed without trades to come.

**Fairness.**  Weak fairness, and only for what the code keeps running:
the boot steps (docker-compose: `restart: unless-stopped`), the steps of a loop
(asyncio resumes a task whose call is answered; Redis, the database and Telegram
answer or raise), the SET of POST /killswitch, and in the browser timers that
fire, an intact network that delivers and events that are handled.  The
exception is `Collector`, whose `Update` is strongly fair per task and symbol:
an exchange goes on sending updates of every symbol that is not `Silent`,
however often the task is busy with another one.  Nothing is assumed about
producers, operators, faults, stops, expiring keys or the clock.

Under it a liveness property that speaks of loss names what excuses the service:
`DeliveredIsAcked`, `AlertsAreSettled`, `SpreadIsAnnounced` and `ReadIsAcked`
except runs with a fault or a stop (these drop the batch, see `hazards`),
`TicksAreRead` the writer that was not started, `SymbolsAreServed` the symbols
whose chunk, or whose permits, others take.  `EntriesAreRead`,
`EntriesAreDelivered`, `KillTakesHold`, `QueueDrains` and `FeedComesBack` hold
through faults and stops; the first two, like `TicksAreRead` and
`AlertsAreSettled`, except an entry that was trimmed before it was read.
`QueueDrains` says that a message leaves the list and from then on never comes
back, so a message that is requeued for ever violates it.

**Mutants.**  Every property has a definition it would catch: a cursor reset at
start, a read of pending entries, a retry that forgets its count, an early XACK, a
rebalance row without the fee, a watchdog that is not armed, and so on.  They
stand beside the originals, marked `mutant`, and no specification uses them.

## 5. The proofs

All theorems are of the form `Spec => []Inv`, `Spec => [][A]_vars` or, for a
refinement, `Spec => Abstract`, for every value of the constants that satisfies
the named assumptions: any number of exchanges, symbols, entries, ticks,
sockets, retries, faults, stops; any batch size, TTL, trimming length and number
of permits.  The type invariant of every module is a theorem; only `live_feed`
checks one as well.  The proofs share one argument for control: the locals of a
loop are tied to the call `pc` names, and each failing or ending step clears
them.

**Executor.**  `ExecutorInvariants` holds the strengthenings, as conjuncts per
subject.  `BatchShape`: the batch in hand is `lo .. hi`, the last one delivered,
and `cur` walks through it.  `OnceShape`: nothing past the cursor has been
touched and what is in hand is exactly as far as `pc` says; needed because
`AtMostOnce` alone does not know that a bought entry is never reached again.
`FundsShape`: the locals of `execute_opportunity` agree with Redis at every
await, so a position and its fee fit the account they are charged to
(`CostFits`) and a donor's half covers its withdrawal fee (`HalfCovers`).
`HistoryShape`: amounts moved without a row belong to the entry in hand or to
one marked `orphaned`.  `StoredShape` and `BarredShape` for the order of
`_persist` and the kill switch.  `LifeShape`: the marks an entry carries are set
in the order of the stages, the batch in hand is pending in the group, and the
results are as far as `pc` says; without it a mark could be set on an entry that
has not been through the stage before.
Theorems of `ExecutorProofs`: `TypeCorrect`, `BoughtOnce`,
`AcknowledgedIsRecorded`, `MarksInOrder`, `NeverOverdrawn`, `SizedOnCurrent`,
`BalancesAreExplained`, `AnnouncedAreStored`, `KillSwitchBars`.
`ExecutorImplementsLifecycle` is the refinement: for each action a lemma names
the step of `TradeLifecycle` it is, under `StageOf`: `ReadBatch` is `Read` of
the batch, `BuyLeg` and `SellLeg` take one entry on, the COPYs and the XADD take
on what is in `results`, the XACK ends the traded and the skipped entries at
once, a group that is made at `$` misses what came before, and every failure is
a stutter.

**Notifier.**  The first part of `NotifierProofs` is about the queue alone.
`QInv` says where each message is
(`OneCopy`), that the count it carries is the number of its attempts
(`CountsAgree`), and that what overtook a waiting message is behind it
(`OrderKept`); from it `OneCopyCorrect`, `AttemptsCorrect`,
`RetriesGoLastCorrect`.  For the service it adds that a reply is
made of parts of different streams past the cursor (`ReplyShape`), hence what is
still to handle was never enqueued (`Fresh`); so each step of the service is a
step of the queue or a stutter, `Implements` gives `Spec => QueueSpec`, and the
three theorems carry over.  `AcknowledgedIsQueued` counts the alerts
that were handled and not enqueued, which is more than those acknowledged: a
step adds none, or the one whose LPUSH has just failed (`MissesNone`,
`MissesOne`).  `LostOnlyByFailure` counts in the same way: each step that is no
failure takes a message from one place to the next (`StepLosesNothing`), and a
call without an answer costs the one message that is in the sender's hand or
that its BRPOP has taken out (`UnansweredLosesOne`).

**Scanner.**  `SInv` adds to the type what the loop's locals hold at each await
(`TaskShape`), that a batch claims no key twice (`Distinct`), how the claims in
hand relate to the histories (`InHand`), and `Spaced`:
`since[k] + marks[k] >= Ttl - MaxLag`.  A tick moves one unit from `marks` to
`since`; a claim is made at `marks[k] = 0`, so `since[k]` alone is large enough;
a publication resets `since[k]` when at most `MaxLag` of the key's life is spent.
`PublicationsApartCorrect` is read off at the XADD.  `AckedIsPublishedCorrect`,
`SuppressedWasPublishedCorrect` and `BookIsLatestCorrect` follow along the same
invariant; the last one rests on `NewestJoins`, that the newest quote of two
consecutive stretches of the stream is that of the later one, if it has any.

**DbWriter.**  `Cursor`: pending and acknowledged are disjoint, and a reply is
in hand only during `_flush`.  `Counted`: past the cursor nothing has a row, and
a record still to be stored has none unless its COPY was doubted; without it
`StoredOnce` would not survive an INSERT.  `Settled`: what is acknowledged, or in
hand and no longer a record, is settled; it makes the XACK harmless.
`TrimLeaves`: a trimmed stream has `MaxLen` entries past the cut, hence what a
delivery skips was trimmed behind that many newer ones.  `FewLost`: the pending
entries that are not in hand come in at most one reply of `BatchSize` per
failure, stop or poisoned reply.  From them `AckedIsSettledCorrect`,
`StoredOnceCorrect`, `UnseenIsTrimmedCorrect`, `OneReplyEachCorrect`.

**Collector.**  `Shape`: only tasks of the mode run, a task with a book in hand
is connected, the queue of the semaphore holds each waiting task once.
`Trails`: the depth of a symbol is a tick behind only while a task is between
its two calls, and one more per failure or stop.  `Bounded`: at most `Permits`
tasks hold a permit; a place is taken from the queue below that number only, and
given back by the first book or an error.  `StatusIsWitnessed` is inductive
beside them.

**Targets.**  `Shape`: the locals of the two functions at each await; what was
read of `exchange_configs` differs from the table by the exchanges patched
since.  `Checked`: an active pair without a market is of an exchange that is
still to be validated, whose validation failed, or that was patched.  `Exact`:
in a start without failure or PATCH the table holds, per exchange that was
validated, what `before`, `Desired` and `Listed` say, and what it held before
for the others.  The three properties follow at `LoadPairs`.

**TradingSystem.**  The steps of the executor are those of `ExecutorProofs`;
what is new is that a balance or a row changes between two of them.

- *Balances.*  `FundsOutside(U)` is `FundsShape` for the exchanges outside `U`.
  Each step of the executor keeps it for any `U` (`NextFunds`); an edit beside a
  trade in hand adds its exchange to `undercut`, any other edit finds no local
  that speaks of the balance.  With `U = undercut` this is `OverdrawnOnlyByEdit`.
- *History.*  Each step of the executor leaves `Gap(e)`, what neither the history
  nor what is in hand accounts for, where it is, or marks an entry `orphaned`
  (`StepConserves`).  `PutSet` moves the balance and `changes` by the same amount
  if `prev` is still the balance; `PutCopy` moves `changes` into the history.
  `EditMarks` carries the boundary: before the opening rows are written every
  exchange that is not `broken` has its initial balance.  The theorem is
  `BalancesAreExplainedAmongEdits`.
- *Rows.*  `Shadow` is the executor with `Stored`, the rows ever written, in
  place of `trades`.  No step depends on the rows there are (`ShadowNext`), so
  each step of the executor is one of `Shadow`, and the step lemmas of
  `ExecutorProofs` are cited of it; a deletion moves a row within `Stored`.
  Hence `TradesAreStoredOrDeleted`, `BoughtOnceAmongOperators`, and
  `LifecycleAmongOperators`: the refinement of `TradeLifecycle` with `Stored`.
- *Kill switch.*  No request touches the flag or the marks:
  `KillSwitchBarsAmongOperators`.

**LiveFeed.**  `LiveInv` ties together the ends of the path.  `ReaderShape`: the
rest of a reply continues the entry that is being sent, and a call with an id
continues the last one.  `FeedsEnd`: what a client was sent ends at the entry in
flight, or just before it for the clients it is still to be sent to; what lies
between two entries of a feed is in `overrun`, which a read fills with what was
trimmed past the last entry it had; a client that joins in the middle is in
neither set, which is why `FeedIsGapless` alone is not inductive.  `ChainShape`
counts `Held`, the sockets the cleanup has not dropped, and the timers against
`late`: it is stronger than `OneChain`, because a socket that is closing can
still start a timer.  `ListIsExplained` is inductive once a page is no longer
than the list.  The theorems are `LiveFeedTypes`, `OneConnectionPerPage`,
`FeedsHaveNoGap`, `ListKeepsTrades`.

**Assumptions.**  `OrderAssumption` (the exchanges are listed once each),
`MoneyAssumption` (amounts and percentages are natural numbers, a fill's loss is
at most the minimal notional), `RouteAssumption` (buy and sell differ),
`BoundAssumption`, `QueueAssumption`, `NotifierAssumption`, `ScannerAssumption`
(types of the constants, TTL and batch size positive), `DbWriterAssumption`,
`TargetsAssumption`, `CollectorAssumption` (the chunks are a partition of the
symbols), `OperatorAssumption` (amounts are natural numbers), `LiveFeedAssumption`
(a page is no longer than the list: `page_size` 8 in Dashboard.tsx:34 against 50
in dashboardStore.ts:35).  TLC evaluates all of them.
`NonNegative` has a premise, `Solvent`: a position with its fee is at most
100 % and a donor above the threshold can pay the fee from its half.  The
settings are not validated (`routers/exchanges.py:112-123`), so the premise is
the operator's.

## 6. Findings

Checked as violations:

- **`KillIsImmediate`** (executor/main.py:127).  README.md:133 says the kill
  switch stops the creation of trades at once.  The flag is refreshed once per
  iteration, so the rest of a batch of up to 100 entries is traded.
  `BarredBuysNothing` and `KillTakesHold` say what does hold.
- **`ShutdownFinishesTrades`** (executor/main.py:190).  TZ_ARCHITECTURE.md:220
  (E-013) promises to finish the current trade; the task is cancelled at its
  await, between the legs or before the rows.
- **`HistoryIsComplete`** (executor/paper_trading.py:79).  TZ_ARCHITECTURE.md:743
  calls `balance` the history of the balances; a rebalance whose trade is then
  skipped leaves no row, without any failure.

Met while modelling and kept as text, because the models show them in the
properties that do hold:

- S-006 (TZ_ARCHITECTURE.md:144) asks that the same opportunity is not
  published again within 5 seconds, which is the TTL of the code (main.py:172).
  The key is set before the publication (scanner/main.py:151, 155), so two
  publications are a TTL apart less the time between claim and XADD:
  `PublicationsApart`.
- S-009 (147) asks the scanner to finish the batch at shutdown; main.py:185
  cancels it.  The batch stays in the pending list; its claims suppress the
  spreads for a TTL.
- N-011 (277) asks the notifier to send its queue at shutdown; main.py:190
  stops the sender first.  What is in the Redis list is sent after the restart
  (`QueueDrains`), the message in the sender's hand is lost.
- Layout.tsx:10 speaks of a single WebSocket connection.  `closedRef` is shared
  by the runs of the effect (useWebSocket.ts:26, 72, 84): a close of the former
  page's socket that is handled after the next mount opens one more connection,
  and both stay open.  `OneChain` counts these closes as `late`.
- The docstring of PATCH /exchanges (routers/exchanges.py:51-53) says that
  disabling an exchange takes effect with the collector's restart; a start that
  cannot read the tables, or finds no active exchange, collects the fallback on
  binance whatever is disabled: `DisabledIsLeftAlone` names these cases.
- init-db.sql:101 says that pairs an exchange does not support are not
  subscribed.  `UnlistedIsExplained` has the exceptions: an exchange whose
  validation failed or that is patched during the start, and the default symbol.
- DELETE /trades without a filter counts and then truncates
  (routers/trades.py:115-117): what it reports is gone, but more may be.

## 7. Limits

**Only model-checked:** all liveness properties (`EntriesAreRead`,
`KillTakesHold`, `DeliveredIsAcked`, `QueueDrains`, `AlertsAreSettled`,
`EntriesAreDelivered`, `SpreadIsAnnounced`, `TicksAreRead`, `ReadIsAcked`,
`SymbolsAreServed`, `FeedComesBack`), because the prover handles neither
liveness under fairness nor ENABLED.

**Only proved:** the type invariants but that of `LiveFeed`, `OneCopy`,
`RetriesGoLast`, `AnnouncedIsStored`, `SizedOnCurrentBalance`,
`SuppressedWasPublished`, `UnseenIsTrimmed`; of the composed system,
`BoughtOnceAmongOperators`, `LifecycleAmongOperators` and
`KillSwitchBarsAmongOperators`; and, of the scanner, a notional of
0 and pairs with depths on both exchanges, which the run leaves out and the
theorems include.

**What is lost by design.**  A reader that is down or behind by more than 10,000
entries (`opportunities`, `trades`) or 100,000 (`prices`) loses the oldest
unread ones to the trimming of their stream, without a trace: opportunities are
not traded, alerts not sent, events not shown, ticks not scanned or not written.
The models have this step; the liveness properties and `FeedIsGapless` name it
as the exception.

**Abstractions.**  Amounts are whole units instead of floats.  The depth walks
are an outcome.  A quote at the top of the book has no age: the scanner uses it
however old it is (spread_calculator.py:49), and so does the model.  The
notifier's thresholds and their refresh are the kind of an entry, fixed when it
is published.  Backoffs, stagger delays, the pauses between messages and retries
and the ping interval are steps without a duration.  Counters for /health and
/metrics and all logging are left out.  `PAPER=false` is left out: the executor
then starts no loop.  In `LiveFeed` the expiry of a token is left out, and with
it the refusal of a socket by the gateway.

**Assumed of the surroundings.**  Redis keeps its data: a Redis that restarts
empty takes groups, balances and the kill switch with it, `_ensure_group` is not
called again before a service starts, and every read raises NOGROUP until then.
In `Executor` the executor is the only writer of the balances; what is left of
its properties beside an operator is what `TradingSystem` checks.

**Not modelled yet:** the pure walks of `shared/depth.py`; the filters and pages
of `tradeStore.ts`, whose fetches may be answered out of order; the sliding
window of the rate limiter; the opportunities channel of the broadcaster, whose
entries take the path of the trades, and `prices_broadcaster`, which sends a
snapshot and keeps no position.  **Not to be modelled:** authentication and the
read-only routers (library calls and SELECTs), the bot's commands, message
texts, rendering, monitoring.
