------------------------------ MODULE Targets -------------------------------
(***************************************************************************)
(* What the collector decides to collect at its start (_sync_pairs,        *)
(* _load_targets and lifespan of src/collector/main.py): it validates the  *)
(* table tracked_pairs against the markets of every active exchange, then  *)
(* reads exchange_configs and tracked_pairs.  The tables are read in calls *)
(* of their own, and PATCH /exchanges (api-gateway/routers/exchanges.py)   *)
(* writes exchange_configs at any time.                                    *)
(*                                                                         *)
(* `pc` names the call the start awaits; in "up" the collectors run with   *)
(* targets, which no one computes again until the next start.              *)
(***************************************************************************)
EXTENDS Integers, FiniteSets

CONSTANTS
    Exchanges,      \* the keys of EXCHANGES
    Symbols,
    Default,        \* the pair <<"binance", "BTC/USDT">> of the fallback
    Listed,         \* the pairs whose market exists
    Desired,        \* TRACKED_SYMBOLS, may be empty
    NoExchange,
    MaxPatches,     \* bound: PATCHes of an operator
    MaxFaults,      \* bound: calls that raise
    MaxStops        \* bound: ends of the process

Pairs == Exchanges \X Symbols

ASSUME TargetsAssumption ==
    /\ Default \in Pairs /\ Listed \subseteq Pairs /\ Desired \subseteq Symbols
    /\ NoExchange \notin Exchanges
    /\ MaxPatches \in Nat /\ MaxFaults \in Nat /\ MaxStops \in Nat

VARIABLES
    active,         \* exchange_configs: exchanges with is_active
    tracked,        \* tracked_pairs: pairs with is_active
    pc,
    todo,           \* active_exchanges still to validate
    cur,            \* the exchange being validated
    unknown,        \* its pairs without a market
    exRows,         \* ex_rows of _load_targets
    targets,        \* pairs the collectors subscribe to
    patched,        \* history: exchanges patched since this start began
    before,         \* history: tracked when this start began
    failed,         \* history: exchanges a call of this start failed for
    patches, faults, stops

tables  == <<active, tracked>>
task    == <<pc, todo, cur, unknown, exRows, targets>>
history == <<patched, before, failed>>
bounds  == <<patches, faults, stops>>
vars    == <<tables, task, history, bounds>>

\* the tables as the schema, earlier starts and operators left them
Init ==
    /\ active \in SUBSET Exchanges /\ tracked \in SUBSET Pairs
    /\ pc = "down" /\ todo = {} /\ cur = NoExchange /\ unknown = {}
    /\ exRows = {} /\ targets = {}
    /\ patched = {} /\ before = {} /\ failed = {}
    /\ patches = 0 /\ faults = 0 /\ stops = 0

----------------------------------------------------------------------------
\* PATCH /exchanges/{exchange}
Patch(e) ==
    /\ patches < MaxPatches /\ patches' = patches + 1
    /\ \/ active' = active \cup {e}
       \/ active' = active \ {e}
    /\ patched' = patched \cup {e}
    /\ UNCHANGED <<tracked, task, before, failed, faults, stops>>

\* lifespan: Redis is ready, _sync_pairs begins
Boot ==
    /\ pc = "down" /\ pc' = "exchanges"
    /\ patched' = {} /\ before' = tracked /\ failed' = {}
    /\ UNCHANGED <<tables, todo, cur, unknown, exRows, targets, bounds>>

----------------------------------------------------------------------------
(* _sync_pairs.                                                            *)
\* the next exchange, or on to _load_targets
NextExchange(rest) ==
    /\ unknown' = {}
    /\ IF rest = {} THEN pc' = "loadExchanges" /\ cur' = NoExchange /\ todo' = {}
       ELSE /\ pc' = "markets"
            /\ \E e \in rest : cur' = e /\ todo' = rest \ {e}

ListExchanges ==
    /\ pc = "exchanges"
    /\ NextExchange(active)
    /\ UNCHANGED <<tables, exRows, targets, history, bounds>>

Wanted == {<<cur, s>> : s \in Desired} \cap Listed
Mine(P) == {p \in P : p[1] = cur}

LoadMarkets ==
    /\ pc = "markets"
    /\ pc' = IF Wanted # {} THEN "upsert" ELSE "pairs"
    /\ UNCHANGED <<tables, todo, cur, unknown, exRows, targets, history, bounds>>

Upserted == tracked' = tracked \cup Wanted

Upsert ==
    /\ pc = "upsert" /\ pc' = "pairs"
    /\ Upserted
    /\ UNCHANGED <<active, todo, cur, unknown, exRows, targets, history, bounds>>

FindUnknown ==
    /\ pc = "pairs"
    /\ IF Mine(tracked) \subseteq Listed THEN NextExchange(todo)
       ELSE /\ unknown' = Mine(tracked) \ Listed
            /\ pc' = "deactivate" /\ UNCHANGED <<todo, cur>>
    /\ UNCHANGED <<tables, exRows, targets, history, bounds>>

AllOfExchange == tracked \ Mine(tracked)                        \* mutant
WithoutUnknown == tracked \ unknown

Deactivate ==
    /\ pc = "deactivate"
    /\ tracked' = WithoutUnknown
    /\ NextExchange(todo)
    /\ UNCHANGED <<active, exRows, targets, history, bounds>>

FailsFor(E) ==
    /\ faults < MaxFaults /\ faults' = faults + 1
    /\ failed' = failed \cup E

AbandonSync == {}                                               \* mutant
OnError == todo

\* except: the exchange is left as it is, the others go on
SyncRaises ==
    /\ pc \in {"exchanges", "markets", "upsert", "pairs", "deactivate"}
    /\ FailsFor(IF pc = "exchanges" THEN Exchanges ELSE {cur})
    /\ \/ UNCHANGED tracked
       \/ pc = "upsert" /\ Upserted
       \/ pc = "deactivate" /\ tracked' = WithoutUnknown
    /\ NextExchange(OnError)
    /\ UNCHANGED <<active, exRows, targets, patched, before, patches, stops>>

----------------------------------------------------------------------------
(* _load_targets.                                                          *)
LoadExchanges ==
    /\ pc = "loadExchanges" /\ pc' = "loadPairs"
    /\ exRows' = active
    /\ UNCHANGED <<tables, todo, cur, unknown, targets, history, bounds>>

\* symbols_by_ex.get(name, DEFAULT_SYMBOLS)
TargetsOf(e) ==
    LET P == {p \in tracked : p[1] = e}
    IN  IF P = {} THEN {<<e, Default[2]>>} ELSE P

RowsAreExchanges == {p[1] : p \in tracked}                      \* mutant
Rows == exRows

OrDefault(found) == IF found = {} THEN {Default} ELSE found

LoadPairs ==
    /\ pc = "loadPairs" /\ pc' = "up"
    /\ targets' = OrDefault(UNION {TargetsOf(e) : e \in Rows})
    /\ exRows' = {}
    /\ UNCHANGED <<tables, todo, cur, unknown, history, bounds>>

\* except: the fallback, until the next start
LoadRaises ==
    /\ pc \in {"loadExchanges", "loadPairs"}
    /\ FailsFor(Exchanges)
    /\ targets' = {Default} /\ pc' = "up" /\ exRows' = {}
    /\ UNCHANGED <<tables, todo, cur, unknown, patched, before, patches, stops>>

\* a shutdown or a crash, at any await
Stop ==
    /\ pc # "down" /\ stops < MaxStops /\ stops' = stops + 1
    /\ pc' = "down" /\ todo' = {} /\ cur' = NoExchange /\ unknown' = {}
    /\ exRows' = {} /\ targets' = {}
    /\ UNCHANGED <<tables, history, patches, faults>>

StartStep ==
    \/ Boot \/ ListExchanges \/ LoadMarkets \/ Upsert \/ FindUnknown
    \/ Deactivate \/ LoadExchanges \/ LoadPairs

Next ==
    \/ StartStep
    \/ SyncRaises \/ LoadRaises \/ Stop
    \/ \E e \in Exchanges : Patch(e)

Spec == Init /\ [][Next]_vars

----------------------------------------------------------------------------
TypeOK ==
    /\ active \subseteq Exchanges /\ tracked \subseteq Pairs
    /\ pc \in {"down", "exchanges", "markets", "upsert", "pairs", "deactivate",
               "loadExchanges", "loadPairs", "up"}
    /\ todo \subseteq Exchanges /\ cur \in Exchanges \cup {NoExchange}
    /\ (cur = NoExchange) <=>
            pc \in {"down", "exchanges", "loadExchanges", "loadPairs", "up"}
    /\ unknown \subseteq Pairs \ Listed
    /\ exRows \subseteq Exchanges /\ targets \subseteq Pairs
    /\ (pc = "up") <=> targets # {}
    /\ patched \subseteq Exchanges /\ failed \subseteq Exchanges
    /\ before \subseteq Pairs
    /\ patches \in 0 .. MaxPatches /\ faults \in 0 .. MaxFaults
    /\ stops \in 0 .. MaxStops

(* What a start without a failing call and without a PATCH collects: the   *)
(* listed pairs, tracked or desired, of the active exchanges, BTC/USDT for *)
(* an exchange without any and the default pair without any exchange       *)
(* (main.py:71, 72).                                                       *)
Reference ==
    LET wanted(e) == {p \in Listed : p[1] = e /\ (p \in before \/ p[2] \in Desired)}
        found == UNION {IF wanted(e) = {} THEN {<<e, Default[2]>>} ELSE wanted(e)
                        : e \in active}
    IN  IF found = {} THEN {Default} ELSE found

QuietStartIsExact ==
    pc = "up" /\ failed = {} /\ patched = {} => targets = Reference

(* An exchange disabled before the start is left alone, except by the      *)
(* fallback: when the tables could not be read or no exchange was active.  *)
DisabledIsLeftAlone ==
    \A p \in targets :
        \/ p[1] \in active \cup patched
        \/ targets = {Default} /\ (failed # {} \/ active \subseteq patched)

(* A symbol without a market, whose watch fails for ever, is subscribed    *)
(* only on an exchange whose own validation failed or that was patched     *)
(* during the start, and else as the default symbol (main.py:71).          *)
UnlistedIsExplained ==
    \A p \in targets \ Listed :
        p[1] \in failed \cup patched \/ p[2] = Default[2]
=============================================================================
