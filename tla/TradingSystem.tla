--------------------------- MODULE TradingSystem ----------------------------
(***************************************************************************)
(* The executor together with the operators' requests of the API gateway   *)
(* that write the state it works on: PUT /balance                          *)
(* (src/api-gateway/routers/balance.py), an HGET and an HSET per exchange  *)
(* and one COPY of history rows, and DELETE /trades (routers/trades.py), a *)
(* DELETE, or a COUNT and a TRUNCATE.  Between any two of their calls the  *)
(* loop of the executor goes on.                                           *)
(*                                                                         *)
(* One PUT and one DELETE are in flight at a time.  A request that is      *)
(* refused (4xx) writes nothing and is left out.                           *)
(***************************************************************************)
EXTENDS Executor

CONSTANTS
    Amounts,        \* the balances an operator sets
    MaxPuts,        \* bound: PUT /balance
    MaxDeletes      \* bound: DELETE /trades

ASSUME OperatorAssumption ==
    /\ Amounts \subseteq Nat /\ MaxPuts \in Nat /\ MaxDeletes \in Nat

VARIABLES
    \* set_balances: its await, the payload, what is left of it, the exchange
    \* in hand and its prev, records
    put, payload, todo, target, prev, changes,
    \* delete_trades: its await and the rows counted
    del, counted,
    \* history: exchanges whose history an edit broke, exchanges edited while
    \* a trade was in hand, rows deleted, rows reported as deleted
    broken, undercut, removed, told,
    puts, deletes   \* spent bounds

putVars == <<put, payload, todo, target, prev, changes, broken, undercut, puts>>
delVars == <<del, counted, removed, told, deletes>>
sysVars == <<vars, putVars, delVars>>

\* what a request to the gateway leaves alone of the executor's process
process == <<flag, pc, loop, locals, output, post, ghosts>>

SysInit ==
    /\ Init
    /\ put = "none" /\ payload = Zero /\ todo = {} /\ target = Order[1]
    /\ prev = 0 /\ changes = Zero
    /\ del = "none" /\ counted = {}
    /\ broken = {} /\ undercut = {} /\ removed = {} /\ told = {}
    /\ puts = 0 /\ deletes = 0

----------------------------------------------------------------------------
(* PUT /balance.                                                           *)
PutBegin ==
    /\ put = "none" /\ puts < MaxPuts /\ puts' = puts + 1
    /\ \E S \in (SUBSET Exchanges) \ {{}} : \E f \in [S -> Amounts] :
        /\ todo' = S
        /\ payload' = [e \in Exchanges |-> IF e \in S THEN f[e] ELSE 0]
    /\ put' = "get"
    /\ UNCHANGED <<vars, delVars, target, prev, changes, broken, undercut>>

\* HGET of the next exchange, in the order of the payload, which the operator
\* chooses; a missing key counts as 0
PutGet ==
    /\ put = "get" /\ put' = "set"
    /\ \E e \in todo : target' = e /\ prev' = bal[e]
    /\ UNCHANGED <<vars, delVars, payload, todo, changes, broken, undercut, puts>>

TradeInHand == pc \in EntryPcs \ {"entry"}

\* HSET of a new balance, beside whatever the executor is doing
Edit(e) ==
    /\ bal' = [bal EXCEPT ![e] = payload[e]] /\ has' = has \cup {e}
    /\ undercut' = IF TradeInHand THEN undercut \cup {e} ELSE undercut
    /\ UNCHANGED <<killKey, stream, cgroup, db, process, asks, stops>>

WholeAmount(e) == payload[e]                                    \* mutant
Change(e) == payload[e] - prev

\* the change that is recorded is the one from prev
PutSet ==
    /\ put = "set"
    /\ Edit(target)
    /\ changes' = [changes EXCEPT ![target] = Change(target)]
    /\ todo' = todo \ {target}
    /\ put' = IF todo' = {} THEN "copy" ELSE "get"
    /\ broken' = IF bal[target] # prev \/ ~seeded
                 THEN broken \cup {target} ELSE broken
    /\ UNCHANGED <<faults, delVars, payload, target, prev, puts>>

\* the rows, with reason "adjustment"; they make the table non-empty, so an
\* executor that starts later does not seed the opening rows
Adjust ==
    /\ ledger' = Plus(ledger, changes) /\ seeded' = TRUE
    /\ broken' = IF seeded THEN broken ELSE Exchanges
    /\ UNCHANGED <<redis, stream, cgroup, trades, booked, announced, process,
                   asks, stops>>

PutEnds ==
    /\ put' = "none" /\ payload' = Zero /\ todo' = {} /\ target' = Order[1]
    /\ prev' = 0 /\ changes' = Zero

PutCopy ==
    /\ put = "copy"
    /\ Adjust /\ PutEnds
    /\ UNCHANGED <<faults, delVars, undercut, puts>>

\* a call raises, or the gateway stops: what was set stays without its row
Unexplained == {e \in Exchanges : changes[e] # 0}

PutRaises ==
    /\ put # "none" /\ faults < MaxFaults /\ faults' = faults + 1
    /\ \/ /\ broken' = broken \cup Unexplained
          /\ UNCHANGED <<redis, stream, cgroup, db, process, asks, stops, undercut>>
       \/ /\ put = "set"
          /\ Edit(target)
          /\ broken' = broken \cup Unexplained \cup {target}
       \/ put = "copy" /\ Adjust /\ UNCHANGED undercut
    /\ PutEnds
    /\ UNCHANGED <<delVars, puts>>

----------------------------------------------------------------------------
(* DELETE /trades.                                                         *)
Remove(S) ==
    /\ trades' = trades \ S /\ removed' = removed \cup S
    /\ UNCHANGED <<redis, stream, cgroup, ledger, booked, seeded, announced,
                   process, spent>>

\* with a filter: one DELETE, which reports what it removed
DeleteFiltered ==
    /\ del = "none" /\ deletes < MaxDeletes /\ deletes' = deletes + 1
    /\ \E S \in SUBSET trades : Remove(S) /\ told' = told \cup S
    /\ UNCHANGED <<putVars, del, counted>>

\* without: COUNT ...
DeleteCount ==
    /\ del = "none" /\ deletes < MaxDeletes /\ deletes' = deletes + 1
    /\ counted' = trades /\ del' = "truncate"
    /\ UNCHANGED <<vars, putVars, removed, told>>

\* ... and TRUNCATE, whatever came in between
DeleteTruncate ==
    /\ del = "truncate" /\ del' = "none"
    /\ Remove(trades)
    /\ told' = told \cup counted /\ counted' = {}
    /\ UNCHANGED <<putVars, deletes>>

ExecutorStep == Next /\ UNCHANGED <<putVars, delVars>>
OperatorStep ==
    \/ PutBegin \/ PutGet \/ PutSet \/ PutCopy \/ PutRaises
    \/ DeleteFiltered \/ DeleteCount \/ DeleteTruncate

SysNext == ExecutorStep \/ OperatorStep
SysSpec == SysInit /\ [][SysNext]_sysVars

----------------------------------------------------------------------------
(* The history explains every balance, edits included, except where an     *)
(* edit broke it: a leg between HGET and HSET, a failure before the COPY   *)
(* (balance.py:76-93), or an edit before the opening rows, which then are  *)
(* never written (executor/main.py:72).                                    *)
EditsAreExplained ==
    seeded /\ orphaned = {} =>
        \A e \in Exchanges \ broken :
            bal[e] = ledger[e] + InHand[e] + changes[e]

(* A balance goes below zero only after it was edited while a trade was in *)
(* hand: the position was sized on the balance before the edit             *)
(* (paper_trading.py:53-107).                                              *)
OverdrawnByEdit ==
    Solvent => \A e \in Exchanges : bal[e] < 0 => e \in undercut

(* A trade the stream announces, or an acknowledged one, is in the table   *)
(* or an operator deleted it (executor/main.py:113-117); and what an       *)
(* answer of DELETE reports is gone for good (trades.py:110-117).          *)
StoredOrDeleted ==
    /\ announced \subseteq trades \cup removed
    /\ \A i \in acked : bought[i] > 0 => i \in trades \cup removed
    /\ told \cap trades = {}
=============================================================================
