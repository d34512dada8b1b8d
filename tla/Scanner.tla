------------------------------ MODULE Scanner ------------------------------
(***************************************************************************)
(* The scanner service (src/scanner): _scan_loop reads the stream `prices` *)
(* through the group scanner-cg, keeps the newest quote per symbol and     *)
(* exchange in memory, looks for profitable pairs of exchanges in the      *)
(* symbols a batch touched, claims each in Redis with SET NX EX (dedup.py),*)
(* publishes what it claimed to the stream `opportunities`, copies it to   *)
(* the table and acknowledges the batch.  Beside it run the task that      *)
(* rereads the settings, and the clock that expires the claims.            *)
(*                                                                         *)
(* `pc` names the call the loop awaits.  Time is counted in ticks; since   *)
(* is the time since a key was last published, up to Ttl.  The walks       *)
(* through the books (shared/depth.py) are a nondeterministic outcome.     *)
(***************************************************************************)
EXTENDS Integers, Sequences, FiniteSets

CONSTANTS
    Symbols, Exchanges,
    Quotes,         \* the [bid, ask] records a tick can carry
    NoQuote,        \* no quote in the price book
    Malformed,      \* an entry whose fields are missing or no numbers
    WithDepth,      \* exchanges whose depth keys may be fresh
    MinSpreads,     \* values of the setting min_spread_pct
    Notionals,      \* values of the setting estimated_trade_notional
    DefaultMin, DefaultNotional,    \* _state before the first refresh
    Ttl,            \* EX of the dedup keys
    MaxLag,         \* bound: ticks between a claim and its publication
    BatchCount,     \* count=300 of XREADGROUP
    MaxLen,         \* PRICES_MAXLEN: entries that trimming leaves at least
    MaxEntries,     \* bound: ticks the collector publishes
    MaxFaults,      \* bound: Redis or database calls that raise
    MaxStops        \* bound: shutdowns and crashes

Ids == 1 .. MaxEntries
Prices == [symbol : Symbols, exchange : Exchanges, quote : Quotes]
Keys == {k \in Symbols \X Exchanges \X Exchanges : k[2] # k[3]}
Claims == Keys \X Ids       \* a key and the last entry of its batch

ASSUME ScannerAssumption ==
    /\ Quotes \subseteq [bid : Nat, ask : Nat] /\ NoQuote \notin Quotes
    /\ Malformed \notin Prices
    /\ MinSpreads \subseteq Int /\ DefaultMin \in MinSpreads
    /\ Notionals \subseteq Int /\ DefaultNotional \in Notionals
    /\ Ttl \in Nat \ {0} /\ MaxLag \in Nat /\ BatchCount \in Nat \ {0}
    /\ MaxLen \in Nat \ {0} /\ MaxEntries \in Nat /\ MaxFaults \in Nat /\ MaxStops \in Nat

VARIABLES
    entries, trimmed,                   \* the stream holds those past trimmed
    group, last, pel, acked,            \* scanner-cg
    marks,          \* remaining life of the dedup keys
    since,          \* history: ticks since a key was published
    book,           \* _state["prices"]
    minSpread, notional,                \* _state, from the settings
    proc, pc,       \* the lifespan and the loop
    lo,             \* first entry of the batch in hand; last is its last
    todo, cand,     \* symbols to look at; spreads to claim
    found, out,     \* the claimed spreads, how many are published
    claimed, published, stored,         \* history, as sets of Claims
    base,           \* history: last when the process started
    raised,         \* history: an iteration ended in `except Exception`
    faults, stops   \* spent bounds

stream   == <<entries, trimmed, group, last, pel, acked>>
dedup    == <<marks, since>>
settings == <<minSpread, notional>>
task     == <<pc, lo, todo, cand, found, out>>
history  == <<claimed, published, stored>>
life     == <<proc, base>>
bounds   == <<raised, faults, stops>>
vars     == <<stream, dedup, book, settings, task, history, life, bounds>>

NoBook == [s \in Symbols |-> [e \in Exchanges |-> NoQuote]]

Init ==
    /\ entries = <<>> /\ trimmed = 0
    /\ group = FALSE /\ last = 0 /\ pel = {} /\ acked = {}
    /\ marks = [k \in Keys |-> 0] /\ since = [k \in Keys |-> Ttl]
    /\ book = NoBook /\ minSpread = DefaultMin /\ notional = DefaultNotional
    /\ pc = "off" /\ lo = 0 /\ todo = {} /\ cand = {} /\ found = <<>> /\ out = 0
    /\ claimed = {} /\ published = {} /\ stored = {}
    /\ proc = "down" /\ base = 0
    /\ raised = FALSE /\ faults = 0 /\ stops = 0

----------------------------------------------------------------------------
(* The collector appends a tick, at any time; XADD then removes old        *)
(* entries, read or not, and leaves at least MaxLen (what the group has    *)
(* been given already is nothing to it: trimmed may stay behind).          *)
Trims(n) == {t \in trimmed .. n : t = trimmed \/ (last < t /\ t + MaxLen <= n)}

Quote ==
    /\ Len(entries) < MaxEntries
    /\ \E t \in Prices \cup {Malformed} : entries' = Append(entries, t)
    /\ trimmed' \in Trims(Len(entries) + 1)
    /\ UNCHANGED <<group, last, pel, acked, dedup, book, settings, task,
                   history, life, bounds>>

(* Time passes.  A claim waits for its publication at most MaxLag.         *)
Waiting == {found[j] : j \in {j \in DOMAIN found : j > out}}

Tick ==
    /\ \A k \in Waiting : Ttl - marks[k] < MaxLag
    /\ marks' = [k \in Keys |-> IF marks[k] > 0 THEN marks[k] - 1 ELSE 0]
    /\ since' = [k \in Keys |-> IF since[k] < Ttl THEN since[k] + 1 ELSE Ttl]
    /\ UNCHANGED <<stream, book, settings, task, history, life, bounds>>

\* _refresh_min_spread: two SELECTs, either of which may fail
Refresh ==
    /\ proc = "up"
    /\ \/ minSpread' \in MinSpreads /\ UNCHANGED notional
       \/ notional' \in Notionals /\ UNCHANGED minSpread
    /\ UNCHANGED <<stream, dedup, book, task, history, life, bounds>>

----------------------------------------------------------------------------
\* lifespan: the group at '$' (BUSYGROUP when it survived), then the tasks
Boot ==
    /\ proc = "down"
    /\ proc' = "boot" /\ pc' = "group"
    /\ UNCHANGED <<stream, dedup, book, settings, lo, todo, cand, found, out,
                   history, base, bounds>>

FromEnd == Len(entries)                                         \* mutant
Cursor == IF group THEN last ELSE Len(entries)

EnsureGroup ==
    /\ pc = "group"
    /\ group' = TRUE /\ last' = Cursor
    /\ base' = last'
    /\ proc' = "up" /\ pc' = "read"
    /\ UNCHANGED <<entries, trimmed, pel, acked, dedup, book, settings, lo,
                   todo, cand, found, out, history, bounds>>

----------------------------------------------------------------------------
(* One batch: up to BatchCount entries past the cursor of the group, of    *)
(* those the stream still holds.                                           *)
FirstNew == (IF trimmed > last THEN trimmed ELSE last) + 1
Upto == IF Len(entries) < FirstNew + BatchCount - 1
        THEN Len(entries) ELSE FirstNew + BatchCount - 1
Reply == FirstNew .. Upto

Delivered ==
    /\ last' = Upto /\ pel' = pel \cup Reply
    /\ UNCHANGED <<entries, trimmed, group, acked>>

\* the newest quote in the entries I, or else the one in old
QuotesOf(s, e, I) ==
    {i \in I : /\ i \in DOMAIN entries /\ entries[i] \in Prices
               /\ entries[i].symbol = s /\ entries[i].exchange = e}
Newest(s, e, I, old) ==
    LET Q == QuotesOf(s, e, I) IN
    IF Q = {} THEN old
    ELSE entries[CHOOSE i \in Q : \A j \in Q : j <= i].quote

\* prices.setdefault(sym, {})[ex] = ...
FirstKept(s, e) == IF book[s][e] # NoQuote THEN book[s][e]      \* mutant
                   ELSE Newest(s, e, Reply, NoQuote)
Applied(s, e) == Newest(s, e, Reply, book[s][e])

Updated == {s \in Symbols : \E e \in Exchanges : QuotesOf(s, e, Reply) # {}}

\* the await that follows, for what is left to do
After(symbols, spreads, claims) ==
    IF spreads # {} THEN "claim" ELSE IF symbols # {} THEN "depth"
    ELSE IF claims # <<>> THEN "publish" ELSE "ack"

Read ==
    /\ pc = "read" /\ last < Len(entries)
    /\ Delivered
    /\ book' = [s \in Symbols |-> [e \in Exchanges |-> Applied(s, e)]]
    /\ lo' = FirstNew /\ todo' = Updated
    /\ pc' = After(Updated, {}, <<>>)
    /\ UNCHANGED <<dedup, settings, cand, found, out, history, life, bounds>>

ReadNothing ==              \* block=1000 passes without an entry
    /\ pc = "read" /\ last = Len(entries)
    /\ UNCHANGED vars

----------------------------------------------------------------------------
(* One symbol: MGET of the depths, then calculate_spreads.  Where both     *)
(* depths are fresh the walks decide, otherwise the top of the book does,  *)
(* however old its quotes are.                                             *)
Known(s) == {e \in Exchanges : book[s][e] # NoQuote}

Pairs(s) == {k \in Keys : /\ k[1] = s /\ {k[2], k[3]} \subseteq Known(s)
                          /\ book[s][k[2]].ask > 0 /\ book[s][k[3]].bid > 0}

TopSpread(k, min) ==
    LET ask == book[k[1]][k[2]].ask
        bid == book[k[1]][k[3]].bid IN
    (bid - ask) * 100 >= min * ask

Spreads(s, fresh, filled) ==
    {k \in Pairs(s) : IF {k[2], k[3]} \subseteq fresh
                      THEN notional > 0 /\ k \in filled ELSE TopSpread(k, minSpread)}

\* an iteration that raises drops what is left of its batch
Drop == pc' = "sleep" /\ lo' = 0 /\ todo' = {} /\ cand' = {} /\ found' = <<>>
        /\ out' = 0 /\ raised' = TRUE

\* withdrawal_usd / estimated_notional_usd
DividesByZero(spreads) == notional = 0 /\ spreads # {}

Calculate(s) ==
    /\ pc = "depth" /\ s \in todo
    /\ \E fresh \in SUBSET (Known(s) \cap WithDepth), filled \in SUBSET Pairs(s) :
          LET spreads == Spreads(s, fresh, filled) IN
          IF DividesByZero(spreads) THEN Drop
          ELSE /\ todo' = todo \ {s} /\ cand' = spreads
               /\ pc' = After(todo \ {s}, spreads, found)
               /\ UNCHANGED <<lo, found, out, raised>>
    /\ UNCHANGED <<stream, dedup, book, settings, history, life, faults, stops>>

----------------------------------------------------------------------------
(* is_new: SET NX EX.  The claim is made here, its publication comes after *)
(* the other symbols, claims and publications of the batch.                *)
AlwaysNew(k) == TRUE                                            \* mutant
IsNew(k) == marks[k] = 0

LongLife == 2 * Ttl                                             \* mutant
Lifetime == Ttl

Mark(k) == marks' = [marks EXCEPT ![k] = Lifetime]

Claim(k) ==
    /\ pc = "claim" /\ k \in cand
    /\ cand' = cand \ {k}
    /\ IF IsNew(k)
       THEN /\ Mark(k)
            /\ found' = Append(found, k)
            /\ claimed' = claimed \cup {<<k, last>>}
       ELSE UNCHANGED <<marks, found, claimed>>
    /\ pc' = After(todo, cand \ {k}, found')
    /\ UNCHANGED <<stream, since, book, settings, lo, todo, out, published,
                   stored, life, bounds>>

Announced ==                \* XADD of the next opportunity
    LET k == found[out + 1] IN
    /\ published' = published \cup {<<k, last>>}
    /\ since' = [since EXCEPT ![k] = 0]

FirstIsAll == TRUE                                              \* mutant
AllOut == out + 1 = Len(found)

Publish ==
    /\ pc = "publish"
    /\ Announced
    /\ out' = out + 1
    /\ pc' = IF AllOut THEN "store" ELSE "publish"
    /\ UNCHANGED <<stream, marks, book, settings, lo, todo, cand, found,
                   claimed, stored, life, bounds>>

Copied == stored' = stored \cup {<<found[j], last>> : j \in DOMAIN found}

Store ==                    \* COPY of all of them
    /\ pc = "store"
    /\ Copied
    /\ pc' = "ack"
    /\ UNCHANGED <<stream, dedup, book, settings, lo, todo, cand, found, out,
                   claimed, published, life, bounds>>

Acknowledged ==
    /\ acked' = acked \cup (lo .. last)
    /\ pel' = pel \ (lo .. last)
    /\ UNCHANGED <<entries, trimmed, group, last>>

Ack ==
    /\ pc = "ack"
    /\ Acknowledged
    /\ pc' = "read" /\ lo' = 0 /\ found' = <<>> /\ out' = 0
    /\ UNCHANGED <<dedup, book, settings, todo, cand, history, life, bounds>>

----------------------------------------------------------------------------
(* A call of the loop raises; Redis or the database may have carried it    *)
(* out all the same.  Nothing is acknowledged, and the group never         *)
(* delivers these entries again.                                           *)
LoopRaises ==
    /\ pc \in {"read", "depth", "claim", "publish", "store", "ack"}
    /\ faults < MaxFaults /\ faults' = faults + 1
    /\ \/ UNCHANGED <<stream, dedup, history>>
       \/ /\ pc = "read" /\ last < Len(entries)
          /\ Delivered /\ UNCHANGED <<dedup, history>>
       \/ /\ pc = "claim" /\ \E k \in cand : IsNew(k) /\ Mark(k)
          /\ UNCHANGED <<stream, since, history>>
       \/ pc = "publish" /\ Announced /\ UNCHANGED <<stream, marks, claimed, stored>>
       \/ pc = "store" /\ Copied /\ UNCHANGED <<stream, dedup, claimed, published>>
       \/ pc = "ack" /\ Acknowledged /\ UNCHANGED <<dedup, history>>
    /\ Drop
    /\ UNCHANGED <<book, settings, life, stops>>

Wake ==
    /\ pc = "sleep" /\ pc' = "read"
    /\ UNCHANGED <<stream, dedup, book, settings, lo, todo, cand, found, out,
                   history, life, bounds>>

(* The process ends in a crash, or gracefully: lifespan cancels the loop   *)
(* at the await it is in, so the batch in hand is dropped either way (a    *)
(* call that was carried out is its action followed by this one).          *)
End ==
    /\ proc \in {"boot", "up"} /\ stops < MaxStops /\ stops' = stops + 1
    /\ proc' = "down"
    /\ book' = NoBook /\ minSpread' = DefaultMin /\ notional' = DefaultNotional
    /\ pc' = "off" /\ lo' = 0 /\ todo' = {} /\ cand' = {} /\ found' = <<>>
    /\ out' = 0
    /\ UNCHANGED <<stream, dedup, history, base, raised, faults>>

LifeStep == Boot \/ EnsureGroup
LoopStep ==
    \/ Read \/ ReadNothing
    \/ \E s \in Symbols : Calculate(s)
    \/ \E k \in Keys : Claim(k)
    \/ Publish \/ Store \/ Ack \/ Wake

Next == Quote \/ Tick \/ Refresh \/ LifeStep \/ LoopStep \/ LoopRaises
        \/ End

(* The event loop runs the task, Redis and the database answer, and the    *)
(* container is restarted (restart: unless-stopped).                       *)
Fairness == WF_vars(LifeStep) /\ WF_vars(LoopStep)

Spec == Init /\ [][Next]_vars /\ Fairness
----------------------------------------------------------------------------
TypeOK ==
    /\ entries \in Seq(Prices \cup {Malformed}) /\ Len(entries) <= MaxEntries
    /\ trimmed \in Nat /\ (trimmed = 0 \/ trimmed + MaxLen <= Len(entries))
    /\ group \in BOOLEAN /\ last \in 0 .. Len(entries)
    /\ pel \subseteq 1 .. last /\ acked \subseteq 1 .. last
    /\ marks \in [Keys -> 0 .. Ttl] /\ since \in [Keys -> 0 .. Ttl]
    /\ book \in [Symbols -> [Exchanges -> Quotes \cup {NoQuote}]]
    /\ minSpread \in MinSpreads /\ notional \in Notionals
    /\ proc \in {"down", "boot", "up"}
    /\ pc \in {"off", "group", "read", "depth", "claim", "publish", "store",
               "ack", "sleep"}
    /\ lo \in 0 .. last /\ todo \subseteq Symbols /\ cand \subseteq Keys
    /\ found \in Seq(Keys) /\ out \in 0 .. Len(found)
    /\ claimed \subseteq Claims /\ published \subseteq claimed
    /\ stored \subseteq claimed
    /\ base \in 0 .. last
    /\ raised \in BOOLEAN
    /\ faults \in 0 .. MaxFaults /\ stops \in 0 .. MaxStops

(* A batch is acknowledged only when all that was claimed in it has been   *)
(* published and stored (main.py:154-158), whatever calls fail; and        *)
(* nothing is stored that was not published (107 before 109).              *)
AckedIsPublished ==
    /\ \A c \in claimed : c[2] \in acked => c \in published /\ c \in stored
    /\ stored \subseteq published

(* The price book holds, per symbol and exchange, the newest quote the     *)
(* group delivered since the process started (main.py:129), as long as no  *)
(* iteration fails: a reply that gets lost leaves the book behind.         *)
SinceStart == (pel \cup acked) \cap (base + 1 .. last)
BookIsLatest ==
    proc = "up" /\ ~raised =>
        \A s \in Symbols, e \in Exchanges :
            book[s][e] = Newest(s, e, SinceStart, NoQuote)

(* Without a failing iteration and without a restart, a spread the dedup   *)
(* key holds back has been published since the key was set, or waits in    *)
(* this batch for its publication.                                         *)
SuppressedWasPublished ==
    ~raised /\ stops = 0 =>
        \A k \in Keys : marks[k] > 0 /\ k \notin Waiting
                            => since[k] <= Ttl - marks[k]

(* Two publications of one spread are Ttl apart, less the time the first   *)
(* one waited between its claim and its XADD (main.py:151 and 107),        *)
(* whatever fails or restarts: S-006 as far as the code keeps it.          *)
Publishes(k) == \E c \in published' \ published : c[1] = k
PublicationsApart ==
    [][\A k \in Keys : Publishes(k) => since[k] >= Ttl - MaxLag]_vars

(* Every tick is delivered to the loop, also one that is published while   *)
(* the scanner is down, for the group survives a restart; unless the       *)
(* collector's XADD (redis_publisher.py:35) trims it before it is read.    *)
TrimmedUnread(i) == last < i /\ i <= trimmed
EntriesAreDelivered ==
    \A i \in Ids : (group /\ i \in DOMAIN entries /\ i > last)
                       ~> (i \in pel \cup acked \/ TrimmedUnread(i))

(* A spread at the top of the book of a symbol the batch touched is        *)
(* announced, or has been within the last Ttl, unless an iteration fails   *)
(* or the service stops; a spread that both depths decide is not promised. *)
Standing(k) ==
    /\ k[1] \in todo /\ k \in Pairs(k[1])
    /\ \A min \in MinSpreads : TopSpread(k, min)
    /\ ~({k[2], k[3]} \subseteq WithDepth)
SpreadIsAnnounced ==
    \A k \in Keys : Standing(k) ~> (since[k] < Ttl \/ raised \/ stops > 0)
=============================================================================
