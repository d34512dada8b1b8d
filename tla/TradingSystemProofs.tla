------------------------ MODULE TradingSystemProofs -------------------------
(***************************************************************************)
(* Theorems about TradingSystem, for every value of its constants: what    *)
(* the executor does with the balances and the trades while operators set  *)
(* the ones and delete the others.  The steps of the executor are those of *)
(* ExecutorProofs; what is new is what they find changed between them.     *)
(***************************************************************************)
EXTENDS TradingSystem, ExecutorProofs

-----------------------------------------------------------------------------
(***************************************************************************)
(* The inductive invariants.                                               *)
(***************************************************************************)
\* The types of the requests and of their history.
OperatorType ==
    /\ put \in {"none", "get", "set", "copy"}
    /\ payload \in [Exchanges -> Nat] /\ prev \in Int /\ changes \in Accounts
    /\ todo \subseteq Exchanges /\ target \in Exchanges
    /\ put = "set" => target \in todo
    /\ broken \subseteq Exchanges /\ undercut \subseteq Exchanges
    /\ removed \subseteq Ids

\* What the executor finds of the work of PUT /balance: rows are there once the
\* loop runs; an exchange whose history is whole has its initial balance until
\* the opening rows are written; and nothing is changed that is still to do.
EditMarks ==
    /\ pc \notin {"down", "bootBalances"} => has = Exchanges
    /\ pc \notin BootPcs \/ pc \in {"bootGroup", "bootKill"} => seeded
    /\ seeded => has = Exchanges \/ broken = Exchanges
    /\ pc = "bootCopy" /\ seeded => broken = Exchanges
    /\ ~seeded => ledger = Zero
    /\ ~seeded => \A e \in Exchanges \ broken :
          changes[e] = 0 /\ (e \in has => bal[e] = Initial[e])
    /\ put = "none" => changes = Zero
    /\ \A e \in todo : changes[e] = 0

\* What was ever written to `trades`: an operator moves a row from one part of
\* this set to the other.
Stored == trades \cup removed

\* The executor as it would be if no row were ever deleted.
Shadow == INSTANCE ExecutorProofs WITH trades <- Stored

\* What is counted or reported was stored once, and what is reported is gone.
RowMarks ==
    /\ counted \subseteq Stored /\ told \subseteq Stored
    /\ told \cap trades = {}

-----------------------------------------------------------------------------
(***************************************************************************)
(* Types.                                                                  *)
(***************************************************************************)
\* A request touches nothing the loop of the executor works with but the
\* balances, the history and the rows.
LEMMA RequestLeaves ==
  ASSUME OperatorStep
  PROVE  /\ UNCHANGED <<killKey, stream, cgroup, booked, announced, process,
                        asks, stops>>
         /\ UNCHANGED <<pc, lo, cur, hi, results, due, bought, acked, orphaned,
                        rb, fill, trimmed, last>>
BY DEF OperatorStep, PutBegin, PutGet, PutSet, PutCopy, PutRaises, Edit,
   Adjust, DeleteFiltered, DeleteCount, DeleteTruncate, Remove, vars, redis, cgroup, db,
   loop, locals, output, ghosts, spent, process

\* The initial state.
LEMMA InitOperator == SysInit => OperatorType
<1>1. Order[1] \in Exchanges
  BY OrderAssumption DEF Exchanges
<1> QED BY <1>1, NoneTyped DEF SysInit, OperatorType, Zero

\* The executor and the requests keep the types of the requests.
LEMMA NextOperatorType ==
  ASSUME TypeOK, OperatorType, [SysNext]_sysVars PROVE OperatorType'
<1> USE OperatorAssumption DEF OperatorType
<1>1. CASE ExecutorStep \/ UNCHANGED sysVars
  BY <1>1 DEF ExecutorStep, putVars, delVars, sysVars
<1>2. CASE PutBegin
  <2>0. PICK S \in (SUBSET Exchanges) \ {{}} : \E f \in [S -> Amounts] :
          /\ todo' = S
          /\ payload' = [e \in Exchanges |-> IF e \in S THEN f[e] ELSE 0]
    BY <1>2 DEF PutBegin
  <2>1. PICK f \in [S -> Amounts] :
          /\ todo' = S
          /\ payload' = [e \in Exchanges |-> IF e \in S THEN f[e] ELSE 0]
    BY <2>0
  <2>2. payload' \in [Exchanges -> Nat]
    BY <2>1
  <2>3. put' = "get" /\ UNCHANGED <<target, prev, changes, broken, undercut, removed>>
    BY <1>2 DEF PutBegin, delVars
  <2>4. todo' \subseteq Exchanges /\ todo' # {}
    BY <2>1
  <2> QED BY <2>2, <2>3, <2>4
<1>3. CASE PutGet
  <2>1. PICK e \in todo : target' = e /\ prev' = bal[e]
    BY <1>3 DEF PutGet
  <2>2. bal[e] \in Int
    BY <2>1 DEF TypeOK, MoneyType, Accounts
  <2> QED BY <1>3, <2>1, <2>2 DEF PutGet, delVars
<1>4. CASE PutSet
  <2>1. target \in Exchanges
    OBVIOUS
  <2>2. Change(target) \in Int
    BY <2>1 DEF Change
  <2>3. changes' \in Accounts
    BY <1>4, <2>1, <2>2 DEF PutSet, Accounts
  <2> QED BY <1>4, <2>1, <2>3 DEF PutSet, Edit, delVars
<1>5. CASE PutCopy \/ PutRaises
  <2>1. put' = "none" /\ payload' = Zero /\ todo' = {} /\ prev' = 0 /\ changes' = Zero
        /\ target' \in Exchanges /\ removed' = removed
    BY <1>5, OrderAssumption DEF PutCopy, PutRaises, PutEnds, delVars, Exchanges
  <2>2. Zero \in [Exchanges -> Nat] /\ Zero \in Accounts
    BY NoneTyped DEF Zero
  <2>3. broken' \subseteq Exchanges /\ undercut' \subseteq Exchanges
    BY <1>5 DEF PutCopy, PutRaises, Adjust, Edit, Unexplained
  <2> QED BY <2>1, <2>2, <2>3
<1>6. CASE DeleteFiltered \/ DeleteCount \/ DeleteTruncate
  BY <1>6 DEF DeleteFiltered, DeleteCount, DeleteTruncate, Remove, putVars,
     TypeOK, MarkType
<1> QED BY <1>1, <1>2, <1>3, <1>4, <1>5, <1>6 DEF SysNext, OperatorStep

\* A request leaves the executor what it is made of.
LEMMA RequestTypes ==
  ASSUME TypeOK, OperatorType, OperatorStep
  PROVE  /\ bal' \in Accounts /\ ledger' \in Accounts
         /\ has' \subseteq Exchanges /\ trades' \subseteq Ids
         /\ seeded' \in BOOLEAN /\ faults' \in Nat
<1> USE DEF TypeOK, MoneyType, MarkType, FlagType, CountType, OperatorType
<1>1. CASE PutSet \/ PutRaises
  <2>1. ASSUME Edit(target), put = "set"
        PROVE  bal' \in Accounts /\ has' \subseteq Exchanges
    <3>1. target \in Exchanges
      OBVIOUS
    <3>2. payload[target] \in Int
      BY <3>1
    <3> QED BY <2>1, <3>1, <3>2 DEF Edit, Accounts
  <2>2. ASSUME Adjust
        PROVE  ledger' \in Accounts /\ seeded' \in BOOLEAN
    BY <2>2, PlusTyped DEF Adjust
  <2>3. CASE PutSet
    BY <2>1, <2>3 DEF PutSet, Edit, db
  <2>4. CASE PutRaises
    <3>1. faults' \in Nat
      BY <2>4 DEF PutRaises
    <3>2. CASE UNCHANGED <<redis, db>>
      BY <3>1, <3>2 DEF redis, db
    <3>3. CASE put = "set" /\ Edit(target)
      BY <2>1, <3>1, <3>3 DEF Edit, db
    <3>4. CASE Adjust
      BY <2>2, <3>1, <3>4 DEF Adjust, redis
    <3> QED BY <2>4, <3>2, <3>3, <3>4 DEF PutRaises
  <2> QED BY <1>1, <2>3, <2>4
<1>2. CASE PutCopy
  BY <1>2, PlusTyped DEF PutCopy, Adjust, redis
<1>3. CASE PutBegin \/ PutGet \/ DeleteCount
  BY <1>3 DEF PutBegin, PutGet, DeleteCount, vars, redis, db, spent
<1>4. CASE DeleteFiltered \/ DeleteTruncate
  BY <1>4 DEF DeleteFiltered, DeleteTruncate, Remove, redis, spent
<1> QED BY <1>1, <1>2, <1>3, <1>4 DEF OperatorStep

\* Types and the batch in hand survive the requests.
LEMMA RequestShape ==
  ASSUME TypeOK, BatchShape, DueMarks, OperatorType, OperatorStep
  PROVE  TypeOK' /\ BatchShape' /\ DueMarks'
<1>1. TypeOK'
  BY RequestLeaves, RequestTypes
     DEF TypeOK, FlagType, ControlType, CountType, MoneyType, SequenceType,
         MarkType, cgroup, process, loop, locals, output, ghosts
<1>2. BatchShape'
  BY RequestLeaves DEF BatchShape, cgroup, process, loop, locals
<1>3. DueMarks'
  BY RequestLeaves DEF DueMarks, Executing
<1> QED BY <1>1, <1>2, <1>3

\* The types, the batch in hand and what is due, whatever the operators do.
THEOREM SystemTypes == SysSpec => [](TypeOK /\ BatchShape /\ DueMarks /\ OperatorType)
<1>1. SysInit => TypeOK /\ BatchShape /\ DueMarks /\ OperatorType
  BY InitShape, InitHistory, InitOperator DEF SysInit, HistoryShape
<1>2. TypeOK /\ BatchShape /\ DueMarks /\ OperatorType /\ [SysNext]_sysVars
        => TypeOK' /\ BatchShape' /\ DueMarks' /\ OperatorType'
  <2> SUFFICES ASSUME TypeOK, BatchShape, DueMarks, OperatorType,
                      [SysNext]_sysVars
               PROVE  TypeOK' /\ BatchShape' /\ DueMarks' /\ OperatorType'
    OBVIOUS
  <2>1. CASE OperatorStep
    BY <2>1, RequestShape, NextOperatorType
  <2>2. CASE ~OperatorStep
    <3>1. [Next]_vars
      BY <2>2 DEF SysNext, ExecutorStep, sysVars
    <3> QED BY <3>1, NextShape, NextDueMarks, NextOperatorType
  <2> QED BY <2>1, <2>2
<1> QED BY <1>1, <1>2, PTL DEF SysSpec

-----------------------------------------------------------------------------
(***************************************************************************)
(* Overdrafts.                                                             *)
(***************************************************************************)
\* A step of the executor leaves undercut alone.
LEMMA ExecutorCovered ==
  ASSUME TypeOK, BatchShape, FundsOutside(undercut), [Next]_vars,
         UNCHANGED undercut
  PROVE  FundsOutside(undercut)'
<1>1. PICK U : U = undercut
  OBVIOUS
<1>2. FundsOutside(U)
  BY <1>1 DEF FundsOutside, CoveredOutside
<1>3. FundsOutside(U)'
  BY <1>2, NextFunds
<1> QED BY <1>1, <1>3 DEF FundsOutside, CoveredOutside

\* An amount is set beside a trade in hand, whose exchange is noted, or where
\* no local of the loop speaks of it.
LEMMA EditCovered ==
  ASSUME TypeOK, OperatorType, FundsOutside(undercut), put = "set",
         Edit(target)
  PROVE  FundsOutside(undercut)'
<1> DEFINE n == target
<1>1. n \in Exchanges /\ payload[n] \in Nat
  BY DEF OperatorType
<1>2. /\ bal' = [bal EXCEPT ![n] = payload[n]]
      /\ UNCHANGED <<stream, pc, cur, buyBal, snap, rb, fill>>
      /\ undercut' = IF TradeInHand THEN undercut \cup {n} ELSE undercut
  BY DEF Edit, process, loop, locals
<1>3. /\ bal'[n] >= 0
      /\ \A e \in Exchanges \ {n} : bal'[e] = bal[e]
  BY <1>1, <1>2 DEF TypeOK, MoneyType, Accounts
<1>4. CoveredOutside(undercut)'
  BY <1>1, <1>2, <1>3 DEF FundsOutside, CoveredOutside, Solvent
<1>5. CASE TradeInHand
  <2>1. undercut' = undercut \cup {n} /\ Opp' = Opp
    BY <1>2, <1>5 DEF Opp
  <2>2. \A e : e \notin undercut' => e \notin undercut /\ bal'[e] = bal[e]
    BY <1>2, <2>1 DEF TypeOK, MoneyType, Accounts
  <2> QED BY <1>2, <1>4, <2>1, <2>2 DEF FundsOutside
<1>6. CASE ~TradeInHand
  BY <1>2, <1>4, <1>6 DEF FundsOutside, TradeInHand, EntryPcs
<1> QED BY <1>5, <1>6

\* The other calls of the requests set no balance.
LEMMA RequestCovered ==
  ASSUME TypeOK, OperatorType, FundsOutside(undercut), OperatorStep
  PROVE  FundsOutside(undercut)'
<1>1. CASE put = "set" /\ Edit(target)
  BY <1>1, EditCovered
<1>2. CASE ~(put = "set" /\ Edit(target))
  <2>1. UNCHANGED <<bal, undercut>>
    BY <1>2 DEF OperatorStep, PutBegin, PutGet, PutSet, PutCopy, PutRaises,
       Adjust, DeleteFiltered, DeleteCount, DeleteTruncate, Remove, vars,
       redis, putVars
  <2>2. UNCHANGED <<stream, pc, cur, buyBal, snap, rb, fill>>
    BY RequestLeaves DEF process, loop, locals
  <2> QED BY <2>1, <2>2 DEF FundsOutside, CoveredOutside, Opp
<1> QED BY <1>1, <1>2

\* Under settings that leave room for the fees, a balance below zero is that of
\* an exchange an operator set while a trade was in hand.
THEOREM OverdrawnOnlyByEdit == SysSpec => []OverdrawnByEdit
<1>1. SysInit => FundsOutside(undercut)
  BY DEF SysInit, Init, FundsOutside, CoveredOutside, Zero
<1>2. TypeOK /\ BatchShape /\ OperatorType /\ FundsOutside(undercut)
        /\ [SysNext]_sysVars => FundsOutside(undercut)'
  BY ExecutorCovered, RequestCovered DEF SysNext, ExecutorStep, sysVars,
     putVars
<1>3. TypeOK /\ FundsOutside(undercut) => OverdrawnByEdit
  BY DEF FundsOutside, CoveredOutside, OverdrawnByEdit, TypeOK, MoneyType,
     Accounts
<1> QED BY <1>1, <1>2, <1>3, SystemTypes, PTL DEF SysSpec

-----------------------------------------------------------------------------
(***************************************************************************)
(* The rows of `trades`.  The executor never reads them back: it goes on   *)
(* as if what was deleted were still there, so the invariants of           *)
(* ExecutorProofs and the refinement of TradeLifecycle hold of Stored.     *)
(***************************************************************************)
\* A step of the executor that stores a row adds it to Stored; no step depends
\* on the rows there are.
LEMMA ShadowNext ==
  ASSUME [Next]_vars, UNCHANGED removed PROVE [Shadow!Next]_(Shadow!vars)
<1> USE DEF Stored, redis, cgroup, db, loop, locals, output, ghosts, spent,
    Shadow!redis, Shadow!cgroup, Shadow!db, Shadow!loop, Shadow!locals,
    Shadow!output, Shadow!ghosts, Shadow!spent
<1>1. /\ Start => Shadow!Start
      /\ InitBalances => Shadow!InitBalances
      /\ CountHistory => Shadow!CountHistory
      /\ SeedHistory => Shadow!SeedHistory
      /\ EnsureGroup => Shadow!EnsureGroup
      /\ StartLoop => Shadow!StartLoop
  BY DEF Start, InitBalances, Exchanges, CountHistory, SeedHistory, Plus,
      EnsureGroup, StartLoop, Shadow!Start, Shadow!InitBalances,
      Shadow!Exchanges, Shadow!CountHistory, Shadow!SeedHistory, Shadow!Plus,
      Shadow!EnsureGroup, Shadow!StartLoop
<1>2. /\ PollKill => Shadow!PollKill
      /\ ApplyKill => Shadow!ApplyKill
      /\ ReadNothing => Shadow!ReadNothing
      /\ ReadBatch => Shadow!ReadBatch
      /\ Wake => Shadow!Wake
      /\ Ack => Shadow!Ack
  BY DEF PollKill, ApplyKill, ReadNothing, ReadBatch, FirstToRead, Passed,
      BatchEnd, Wake, Ack, Shadow!PollKill, Shadow!ApplyKill,
      Shadow!ReadNothing, Shadow!ReadBatch, Shadow!FirstToRead, Shadow!Passed,
      Shadow!BatchEnd, Shadow!Wake, Shadow!Ack
<1>3. /\ BeginEntry => Shadow!BeginEntry
      /\ EndEntries => Shadow!EndEntries
  BY DEF BeginEntry, Readable, EndEntries, AfterEntries, Shadow!BeginEntry,
      Shadow!Readable, Shadow!EndEntries, Shadow!AfterEntries
<1>4. /\ ReadBuyBalance => Shadow!ReadBuyBalance
      /\ ScanBalance => Shadow!ScanBalance
      /\ SkipFill => Shadow!SkipFill
  BY DEF ReadBuyBalance, Opp, Size, ReturnNone, NoRebalance, Notional,
      ScanBalance, Scanned, SkipFill, Shadow!ReadBuyBalance, Shadow!Opp,
      Shadow!Size, Shadow!ReturnNone, Shadow!NoRebalance, Shadow!Notional,
      Shadow!ScanBalance, Shadow!Scanned, Shadow!SkipFill
<1>5. /\ NoDonor => Shadow!NoDonor
      /\ DebitDonor => Shadow!DebitDonor
  BY DEF NoDonor, ReturnNone, NoRebalance, CanDonate, Opp, Richest, Scanned,
      DebitDonor, Transfer, Shadow!NoDonor, Shadow!ReturnNone,
      Shadow!NoRebalance, Shadow!CanDonate, Shadow!Opp, Shadow!Richest,
      Shadow!Scanned, Shadow!DebitDonor, Shadow!Transfer
<1>6. CreditReceiver => Shadow!CreditReceiver
  BY DEF CreditReceiver, BuyBalanceNow, Size, ReturnNone, NoRebalance,
      Notional, Shadow!CreditReceiver, Shadow!BuyBalanceNow, Shadow!Size,
      Shadow!ReturnNone, Shadow!NoRebalance, Shadow!Notional
<1>7. /\ BuyLeg => Shadow!BuyLeg
      /\ SellLeg => Shadow!SellLeg
  BY DEF BuyLeg, Opp, SellLeg, NoFill, NoRebalance, TradeRows, Exchanges,
      RebalanceRows, Plus, Shadow!BuyLeg, Shadow!Opp, Shadow!SellLeg,
      Shadow!NoFill, Shadow!NoRebalance, Shadow!TradeRows, Shadow!Exchanges,
      Shadow!RebalanceRows, Shadow!Plus
<1>8. /\ CopyTrades => Shadow!CopyTrades
      /\ CopyBalances => Shadow!CopyBalances
      /\ Announce => Shadow!Announce
  BY DEF CopyTrades, Executing, CopyBalances, Zero, Exchanges, Plus, Announce,
      Shadow!CopyTrades, Shadow!Executing, Shadow!CopyBalances, Shadow!Zero,
      Shadow!Exchanges, Shadow!Plus, Shadow!Announce
<1>9. /\ Raise => Shadow!Raise
      /\ Stop => Shadow!Stop
  BY DEF Raise, AfterError, Forget, Zero, Exchanges, NoFill, NoRebalance,
      Unrecorded, Executing, LoopPcs, EntryPcs, Stop, Shadow!Raise,
      Shadow!AfterError, Shadow!Forget, Shadow!Zero, Shadow!Exchanges,
      Shadow!NoFill, Shadow!NoRebalance, Shadow!Unrecorded, Shadow!Executing,
      Shadow!LoopPcs, Shadow!EntryPcs, Shadow!Stop
<1>10. StoreKill => Shadow!StoreKill
  BY DEF StoreKill, Shadow!StoreKill
<1>11. \A g \in Gains : Fill(g) => Shadow!Fill(g)
  BY DEF Fill, Cost, Notional, Shadow!Fill, Shadow!Cost, Shadow!Notional
<1>12. Environment => Shadow!Environment
  BY DEF Environment, Publish, Trims, PostKill, GatewayKill, BootPcs,
     Shadow!Environment, Shadow!Publish, Shadow!Trims, Shadow!PostKill,
     Shadow!GatewayKill, Shadow!BootPcs
<1>13. UNCHANGED vars => UNCHANGED Shadow!vars
  BY DEF vars, Shadow!vars
<1> QED BY <1>1, <1>2, <1>3, <1>4, <1>5, <1>6, <1>7, <1>8, <1>9, <1>10, <1>11,
           <1>12, <1>13 DEF Next, Boot, Iterate, Execute, Persist,
           Shadow!Next, Shadow!Boot, Shadow!Iterate, Shadow!Execute,
           Shadow!Persist

\* Deleting rows is nothing to the constants.
LEMMA ShadowAssumptions ==
  /\ Shadow!OrderAssumption /\ Shadow!MoneyAssumption
  /\ Shadow!RouteAssumption /\ Shadow!BoundAssumption
BY OrderAssumption, MoneyAssumption, RouteAssumption, BoundAssumption
   DEF Exchanges, Shadow!Exchanges, Shadow!OrderAssumption,
       Shadow!MoneyAssumption, Shadow!RouteAssumption, Shadow!BoundAssumption

\* The types and the shape of the batch do not depend on the rows either.
LEMMA ShadowTypes ==
  ASSUME TypeOK, BatchShape, OperatorType
  PROVE  Shadow!TypeOK /\ Shadow!BatchShape
<1>1. Shadow!TypeOK
  BY DEF TypeOK, FlagType, ControlType, CountType, MoneyType, SequenceType,
     MarkType, OperatorType, Stored, BootPcs, LoopPcs, EntryPcs, Accounts,
     Rebalances, Fills, Ids, Exchanges, Shadow!TypeOK, Shadow!FlagType,
     Shadow!ControlType, Shadow!CountType, Shadow!MoneyType,
     Shadow!SequenceType, Shadow!MarkType, Shadow!BootPcs, Shadow!LoopPcs,
     Shadow!EntryPcs, Shadow!Accounts, Shadow!Rebalances, Shadow!Fills,
     Shadow!Ids, Shadow!Exchanges
<1>2. Shadow!BatchShape
  BY DEF BatchShape, BatchPcs, TradePcs, EntryPcs, PersistPcs, NoRebalance,
     Shadow!BatchShape, Shadow!BatchPcs, Shadow!TradePcs, Shadow!EntryPcs,
     Shadow!PersistPcs, Shadow!NoRebalance
<1> QED BY <1>1, <1>2

\* The initial state is one of the executor alone.
LEMMA ShadowInit == SysInit => Shadow!Init /\ RowMarks
BY DEF SysInit, Init, Stored, RowMarks, Zero, Exchanges, NoRebalance, NoFill,
   Ids,
   Shadow!Init, Shadow!Zero, Shadow!Exchanges, Shadow!NoRebalance,
   Shadow!NoFill, Shadow!Ids

\* A row that is deleted stays a row that was stored.
LEMMA RequestRows ==
  ASSUME RowMarks, OperatorStep PROVE RowMarks' /\ Stored' = Stored
<1>1. CASE PutBegin \/ PutGet \/ PutSet \/ PutCopy \/ PutRaises
  <2>1. UNCHANGED <<trades, removed, counted, told>>
    BY <1>1 DEF PutBegin, PutGet, PutSet, PutCopy, PutRaises, Edit, Adjust,
       vars, db, delVars
  <2> QED BY <2>1 DEF RowMarks, Stored
<1>2. CASE DeleteFiltered
  BY <1>2 DEF DeleteFiltered, Remove, RowMarks, Stored
<1>3. CASE DeleteCount
  BY <1>3 DEF DeleteCount, vars, db, RowMarks, Stored
<1>4. CASE DeleteTruncate
  BY <1>4 DEF DeleteTruncate, Remove, RowMarks, Stored
<1> QED BY <1>1, <1>2, <1>3, <1>4 DEF OperatorStep

\* No request sets a mark of an entry or moves it to another stage.
LEMMA RequestShadow ==
  ASSUME RowMarks, Shadow!OnceShape, Shadow!LifeShape, OperatorStep
  PROVE  /\ Shadow!OnceShape' /\ Shadow!LifeShape'
         /\ UNCHANGED [i \in Shadow!Ids |-> Shadow!StageOf(i)]
<1>1. /\ UNCHANGED <<pc, lo, cur, hi, results, bought, acked, trimmed, last, Stored>>
      /\ UNCHANGED <<pel, settled, booked, announced>>
  BY RequestLeaves, RequestRows DEF cgroup, process, ghosts
<1>2. Shadow!Executing' = Shadow!Executing
  BY <1>1 DEF Shadow!Executing
<1>3. Shadow!OnceShape'
  BY <1>1, <1>2 DEF Shadow!OnceShape, Shadow!Reached, Shadow!AckedIsRecorded
<1>4. Shadow!LifeShape'
  BY <1>1, <1>2 DEF Shadow!LifeShape
<1>5. \A i \in Shadow!Ids : Shadow!StageOf(i)' = Shadow!StageOf(i)
  BY <1>1 DEF Shadow!StageOf, Shadow!Passed
<1>6. Shadow!Ids' = Shadow!Ids
  BY DEF Shadow!Ids
<1> QED BY <1>3, <1>4, <1>5, <1>6

\* The COPY of the executor writes rows that were never stored before.
LEMMA ExecutorRows ==
  ASSUME RowMarks, Shadow!LifeShape, [Next]_vars, UNCHANGED delVars
  PROVE  RowMarks'
<1>1. UNCHANGED <<removed, counted, told>>
  BY DEF delVars
<1>2. CASE CopyTrades
  <2>1. trades' = trades \cup Executing /\ Executing \cap Stored = {}
    BY <1>2 DEF CopyTrades, Executing, Shadow!LifeShape, Shadow!Executing
  <2> QED BY <1>1, <2>1 DEF RowMarks, Stored
<1>3. CASE ~CopyTrades
  <2>1. trades' = trades
    BY <1>3 DEF Next, Boot, Start, InitBalances, CountHistory, SeedHistory, EnsureGroup,
       StartLoop, Iterate, PollKill, ApplyKill, ReadNothing, ReadBatch,
       BeginEntry, EndEntries, Execute, ReadBuyBalance, ScanBalance, NoDonor,
       DebitDonor, CreditReceiver, SkipFill, Fill, BuyLeg, SellLeg, Persist,
       CopyBalances, Announce, Ack, Wake, Raise, Stop, StoreKill, Environment,
       Publish, PostKill, GatewayKill, vars, db
  <2> QED BY <1>1, <2>1 DEF RowMarks, Stored
<1> QED BY <1>2, <1>3

\* The invariants of the executor, of the rows that were ever stored.
ShadowShape == Shadow!OnceShape /\ Shadow!LifeShape /\ RowMarks

\* One step of the system: the shape is kept, and the entries go on in their
\* life or stay where they are.
LEMMA SystemStage ==
  ASSUME TypeOK, BatchShape, OperatorType, ShadowShape, [SysNext]_sysVars
  PROVE  /\ ShadowShape'
         /\ \/ Shadow!Life!LifeNext
            \/ UNCHANGED [i \in Shadow!Ids |-> Shadow!StageOf(i)]
<1>1. CASE OperatorStep
  BY <1>1, RequestRows, RequestShadow DEF ShadowShape
<1>2. CASE ~OperatorStep
  <2>1. [Next]_vars /\ UNCHANGED delVars /\ UNCHANGED removed
    BY <1>2 DEF SysNext, ExecutorStep, sysVars, delVars
  <2>2. RowMarks'
    BY <2>1, ExecutorRows DEF ShadowShape
  <2>3. [Shadow!Next]_(Shadow!vars)
    BY <2>1, ShadowNext
  <2>4. Shadow!TypeOK /\ Shadow!BatchShape
    BY ShadowTypes
  <2>5. Shadow!OnceShape'
    BY <2>3, <2>4, Shadow!NextOnce, ShadowAssumptions DEF ShadowShape
  <2>6. Shadow!LifeShape'
    BY <2>3, <2>4, Shadow!NextLife, ShadowAssumptions DEF ShadowShape
  <2>7. \/ Shadow!Life!LifeNext
        \/ UNCHANGED [i \in Shadow!Ids |-> Shadow!StageOf(i)]
    BY <2>3, <2>4, Shadow!NextStage, ShadowAssumptions DEF ShadowShape
  <2> QED BY <2>2, <2>5, <2>6, <2>7 DEF ShadowShape
<1> QED BY <1>1, <1>2

\* The rows and the marks of the entries, whatever the operators delete.
LEMMA SystemMarks == SysSpec => []ShadowShape
<1>1. TypeOK /\ BatchShape /\ OperatorType /\ ShadowShape
        /\ [SysNext]_sysVars => ShadowShape'
  BY SystemStage
<1>2. SysInit => ShadowShape
  BY ShadowInit, ShadowAssumptions, Shadow!InitOnce, Shadow!InitLife DEF
     ShadowShape
<1> QED BY <1>1, <1>2, SystemTypes, PTL DEF SysSpec

\* An announced or acknowledged trade is in the table or was deleted from it,
\* and what DELETE reports never comes back.
THEOREM TradesAreStoredOrDeleted == SysSpec => []StoredOrDeleted
<1>1. ShadowShape => StoredOrDeleted
  BY DEF ShadowShape, Shadow!OnceShape, Shadow!AckedIsRecorded,
     Shadow!LifeShape, RowMarks, Stored, StoredOrDeleted
<1> QED BY <1>1, SystemMarks, PTL

\* Neither do requests of the operators make the executor buy twice.
THEOREM BoughtOnceAmongOperators == SysSpec => []AtMostOnce
<1>1. ShadowShape => AtMostOnce
  BY DEF ShadowShape, Shadow!OnceShape, AtMostOnce, Ids, Shadow!Ids
<1> QED BY <1>1, SystemMarks, PTL

\* What TradeLifecycle promises about an entry survives the operators, with the
\* rows that were ever stored for those that are in the table.
LifecycleOfStored == Shadow!FollowsLifecycle

\* No edit and no deletion takes an entry back to a stage it has left, or past
\* one it has not been through.
THEOREM LifecycleAmongOperators == SysSpec => LifecycleOfStored
<1>1. TypeOK /\ BatchShape /\ OperatorType /\ ShadowShape
        /\ [SysNext]_sysVars
        => [Shadow!Life!LifeNext]_([i \in Shadow!Ids |-> Shadow!StageOf(i)])
  BY SystemStage
<1>2. SysInit => Shadow!Life!LifeInit
  BY ShadowInit, ShadowAssumptions, Shadow!InitStage
<1> QED
  BY <1>1, <1>2, SystemTypes, SystemMarks, PTL
     DEF SysSpec, LifecycleOfStored, Shadow!FollowsLifecycle,
         Shadow!Life!LifeSpec

\* Nor do they get past the kill switch: the iteration that saw it on buys
\* nothing, whatever is set or deleted meanwhile.
THEOREM KillSwitchBarsAmongOperators == SysSpec => BarredBuysNothing
<1>1. TypeOK /\ BarredShape /\ [SysNext]_sysVars
        => BarredShape' /\ [barred => UNCHANGED bought]_vars
  <2> SUFFICES ASSUME TypeOK, BarredShape, [SysNext]_sysVars
               PROVE  BarredShape' /\ (barred => UNCHANGED bought)
    OBVIOUS
  <2>1. CASE OperatorStep
    <3>1. UNCHANGED <<pc, flag, reply, barred, bought>>
      BY <2>1, RequestLeaves DEF process, locals, ghosts
    <3> QED BY <3>1 DEF BarredShape
  <2>2. CASE ~OperatorStep
    <3>1. [Next]_vars
      BY <2>2 DEF SysNext, ExecutorStep, sysVars
    <3> QED BY <3>1, NextBarred, BarredBuys
  <2> QED BY <2>1, <2>2
<1>2. SysInit => BarredShape
  BY InitStored DEF SysInit
<1> QED BY <1>1, <1>2, SystemTypes, PTL DEF SysSpec, BarredBuysNothing

-----------------------------------------------------------------------------
(***************************************************************************)
(* The history of the balances.                                            *)
(***************************************************************************)
\* An equation in the two forms the proofs use.
LEMMA GapForm ==
  \A a, b, c, d : a \in Int /\ b \in Int /\ c \in Int /\ d \in Int =>
      (a - b - c = d <=> a = b + c + d)
OBVIOUS

\* What EditsAreExplained says of one exchange.
LEMMA ExplainedIsGap ==
  ASSUME TypeOK, OperatorType
  PROVE  EditsAreExplained <=>
           (seeded /\ orphaned = {} =>
               \A e \in Exchanges \ broken : Gap(e) = changes[e])
<1>1. \A e \in Exchanges : /\ bal[e] \in Int /\ ledger[e] \in Int
                           /\ InHand[e] \in Int /\ changes[e] \in Int
  BY MoneyIsInt DEF OperatorType, Accounts
<1>2. \A e \in Exchanges :
         Gap(e) = changes[e] <=> bal[e] = ledger[e] + InHand[e] + changes[e]
  BY <1>1, GapForm DEF Gap
<1> QED BY <1>2 DEF EditsAreExplained

\* No history, no changes.
LEMMA InitEdits == SysInit => EditMarks /\ EditsAreExplained
BY DEF SysInit, Init, EditMarks, EditsAreExplained, BootPcs, Zero

\* The executor writes the rows of the boot once, and finds the rest seeded.
LEMMA ExecutorEditMarks ==
  ASSUME TypeOK, BatchShape, OperatorType, EditMarks, [Next]_vars,
         UNCHANGED <<put, todo, changes, broken>>
  PROVE  EditMarks'
<1>1. CASE Start \/ CountHistory \/ EnsureGroup \/ StartLoop
  BY <1>1 DEF Start, CountHistory, EnsureGroup, StartLoop, redis, db, EditMarks, BootPcs
<1>2. CASE InitBalances
  <2>1. /\ has \subseteq has' /\ has' \subseteq Exchanges
        /\ \A e \in Exchanges :
              bal'[e] = IF e \in has' \ has THEN Initial[e] ELSE bal[e]
    BY <1>2, InitBalancesMoves
  <2>2. /\ UNCHANGED <<seeded, ledger>>
        /\ pc = "bootBalances" /\ pc' \in {"bootBalances", "bootSeed"}
        /\ pc' = "bootSeed" => has' = Exchanges
    BY <1>2 DEF InitBalances, db
  <2> QED BY <2>1, <2>2 DEF EditMarks, BootPcs
<1>3. CASE SeedHistory
  BY <1>3 DEF SeedHistory, redis, EditMarks, BootPcs
<1>4. CASE Iterate \/ Raise
  <2>1. seeded /\ has = Exchanges
    BY <1>4 DEF Iterate, PollKill, ApplyKill, ReadNothing, ReadBatch,
       BeginEntry, EndEntries, Execute, ReadBuyBalance, ScanBalance, NoDonor,
       DebitDonor, CreditReceiver, SkipFill, Fill, BuyLeg, SellLeg, Persist,
       CopyTrades, CopyBalances, Announce, Ack, Wake, Raise, LoopPcs, EntryPcs,
       BootPcs, EditMarks
  <2>2. UNCHANGED <<seeded, has>>
    BY <1>4 DEF Iterate, PollKill, ApplyKill, ReadNothing, ReadBatch,
       BeginEntry, EndEntries, Execute, ReadBuyBalance, ScanBalance, NoDonor,
       DebitDonor, CreditReceiver, SkipFill, Fill, BuyLeg, SellLeg, Persist,
       CopyTrades, CopyBalances, Announce, Ack, Wake, Raise, redis, db
  <2>3. pc' # "bootCopy"
    BY <1>4 DEF Iterate, PollKill, ApplyKill, ReadNothing, ReadBatch,
       BeginEntry, EndEntries, AfterEntries, Execute, ReadBuyBalance,
       ScanBalance, NoDonor, DebitDonor, CreditReceiver, SkipFill, Size,
       ReturnNone, Fill, BuyLeg, SellLeg, Persist, CopyTrades, CopyBalances,
       Announce, Ack, Wake, Raise, AfterError
  <2> QED BY <2>1, <2>2, <2>3 DEF EditMarks
<1>5. CASE Stop
  BY <1>5 DEF Stop, redis, db, EditMarks, BootPcs
<1>6. CASE StoreKill \/ Environment \/ UNCHANGED vars
  <2>1. UNCHANGED <<has, bal, seeded, ledger, pc>>
    BY <1>6 DEF StoreKill, Environment, Publish, PostKill, GatewayKill, vars,
       redis, db
  <2> QED BY <2>1 DEF EditMarks
<1> QED BY <1>1, <1>2, <1>3, <1>4, <1>5, <1>6 DEF Next, Boot

\* A step of the executor leaves every gap where it is, or closes it with the
\* opening rows.
LEMMA ExecutorExplained ==
  ASSUME TypeOK, TypeOK', BatchShape, DueMarks, OperatorType, OperatorType',
         EditMarks, EditsAreExplained, [Next]_vars, UNCHANGED putVars
  PROVE  EditsAreExplained'
<1>0. UNCHANGED <<changes, broken>>
  BY DEF putVars
<1>1. /\ seeded /\ orphaned = {} =>
            \A e \in Exchanges \ broken : Gap(e) = changes[e]
      /\ (EditsAreExplained <=>
            (seeded /\ orphaned = {} =>
                \A e \in Exchanges \ broken : Gap(e) = changes[e]))'
  <2>1. (TypeOK /\ OperatorType)' =>
          (EditsAreExplained <=>
            (seeded /\ orphaned = {} =>
                \A e \in Exchanges \ broken : Gap(e) = changes[e]))'
    BY ExplainedIsGap, PTL
  <2> QED BY <2>1, ExplainedIsGap
<1>2. CASE InitBalances \/ SeedHistory
  <2>1. /\ pc \in BootPcs /\ pc \notin HalfPcs /\ pc' \notin HalfPcs
        /\ rb = NoRebalance /\ due = Zero /\ UNCHANGED <<rb, due, orphaned>>
    BY <1>2 DEF InitBalances, SeedHistory, locals, output, ghosts, BootPcs,
       HalfPcs, BatchShape, DueMarks, UncopiedPcs, EntryPcs
  <2>2. \A e \in Exchanges : InHand'[e] = 0 /\ InHand[e] = 0
    BY <2>1, NoRows DEF InHand, HalfPcs, Zero, RebalanceRows
  <2>3. CASE InitBalances
    <3>1. seeded => broken = Exchanges \/ bal' = bal
      BY <2>3 DEF InitBalances, EditMarks, Exchanges
    <3>2. UNCHANGED <<seeded, ledger>>
      BY <2>3 DEF InitBalances, db
    <3> QED BY <1>0, <2>1, <2>2, <3>1, <3>2 DEF EditsAreExplained
  <2>4. CASE SeedHistory
    <3>1. CASE seeded
      <4>1. broken = Exchanges
        BY <2>4, <3>1 DEF SeedHistory, EditMarks
      <4> QED BY <1>0, <4>1 DEF EditsAreExplained
    <3>2. CASE ~seeded
      <4>1. /\ \A e \in Exchanges \ broken : bal[e] = Initial[e] /\ changes[e] = 0
            /\ bal' = bal /\ ledger' = Plus(Zero, Initial)
        BY <2>4, <3>2 DEF SeedHistory, redis, EditMarks
      <4>2. \A e \in Exchanges : Initial[e] \in Int
        BY MoneyAssumption
      <4>3. \A e \in Exchanges : ledger'[e] = Initial[e]
        BY <4>1, <4>2 DEF Plus, Zero
      <4> QED BY <1>0, <2>2, <4>1, <4>2, <4>3 DEF EditsAreExplained
    <3> QED BY <3>1, <3>2
  <2> QED BY <1>2, <2>3, <2>4
<1>3. CASE ~(InitBalances \/ SeedHistory)
  <2>1. Conserved
    BY <1>3, StepConserves
  <2>2. UNCHANGED seeded
    BY <1>3 DEF Next, Boot, Start, CountHistory, EnsureGroup, StartLoop, Iterate,
       PollKill, ApplyKill, ReadNothing, ReadBatch, BeginEntry, EndEntries, Execute,
       ReadBuyBalance, ScanBalance, NoDonor, DebitDonor, CreditReceiver,
       SkipFill, Fill, BuyLeg, SellLeg, Persist, CopyTrades, CopyBalances,
       Announce, Ack, Wake, Raise, Stop, StoreKill, Environment, Publish,
       PostKill, GatewayKill, vars, db
  <2>3. orphaned' = {} => orphaned = {}
    BY <2>1 DEF Conserved
  <2>4. orphaned' = {} => \A e \in Exchanges : Gap(e)' = Gap(e)
    BY <2>1 DEF Conserved
  <2> QED BY <1>0, <1>1, <2>2, <2>3, <2>4
<1> QED BY <1>2, <1>3

\* A request moves nothing that is in hand.
LEMMA RequestInHand ==
  ASSUME OperatorStep PROVE InHand' = InHand /\ orphaned' = orphaned
<1>1. UNCHANGED <<stream, pc, cur, rb, fill, due, orphaned>>
  BY RequestLeaves
<1> QED BY <1>1 DEF InHand, RebalanceRows, Opp

\* What PutSet and a failing HSET do to the balance they set.
LEMMA EditMoves ==
  ASSUME TypeOK, OperatorType, put = "set", Edit(target)
  PROVE  /\ target \in Exchanges /\ target \in todo
         /\ payload[target] \in Int
         /\ bal' = [bal EXCEPT ![target] = payload[target]]
         /\ bal'[target] = payload[target]
         /\ \A e \in Exchanges : e # target => bal'[e] = bal[e]
         /\ has' = has \cup {target} /\ UNCHANGED <<ledger, seeded, pc, orphaned>>
<1>1. target \in todo
  BY DEF OperatorType
<1>2. target \in Exchanges /\ payload[target] \in Int
  BY <1>1 DEF OperatorType
<1>3. bal' = [bal EXCEPT ![target] = payload[target]]
  BY DEF Edit
<1>4. /\ bal'[target] = payload[target]
      /\ \A e \in Exchanges : e # target => bal'[e] = bal[e]
  BY <1>2, <1>3 DEF TypeOK, MoneyType, Accounts
<1> QED BY <1>1, <1>2, <1>3, <1>4 DEF Edit, db, process, ghosts

\* PutSet: the change that is recorded is the one that was made, unless a leg
\* came between HGET and HSET.
LEMMA PutSetExplained ==
  ASSUME TypeOK, OperatorType, EditMarks, EditsAreExplained, PutSet
  PROVE  EditMarks' /\ EditsAreExplained'
<1> DEFINE n == target
<1>1. /\ n \in Exchanges /\ n \in todo /\ payload[n] \in Int
      /\ bal'[n] = payload[n]
      /\ \A e \in Exchanges : e # n => bal'[e] = bal[e]
      /\ has' = has \cup {n} /\ UNCHANGED <<ledger, seeded, pc, orphaned>>
  BY EditMoves DEF PutSet
<1>2. /\ changes'[n] = payload[n] - prev
      /\ \A e \in Exchanges : e # n => changes'[e] = changes[e]
      /\ todo' = todo \ {n} /\ put' # "none"
      /\ broken' = IF bal[n] # prev \/ ~seeded THEN broken \cup {n} ELSE broken
  BY <1>1 DEF PutSet, Change, OperatorType, Accounts
<1>3. InHand' = InHand
  BY RequestInHand DEF OperatorStep
<1> HIDE DEF n
<1>4. EditMarks'
  BY <1>1, <1>2 DEF EditMarks, OperatorType, TypeOK, MarkType
<1>5. changes[n] = 0
  BY <1>1 DEF EditMarks
<1>6. /\ bal[n] \in Int /\ ledger[n] \in Int /\ InHand[n] \in Int /\ prev \in Int
  BY <1>1, MoneyIsInt DEF OperatorType
<1>7. ASSUME seeded, orphaned = {}, NEW e \in Exchanges \ broken'
      PROVE  bal'[e] = ledger[e] + InHand[e] + changes'[e]
  <2>1. bal[e] = ledger[e] + InHand[e] + changes[e]
    BY <1>2, <1>7 DEF EditsAreExplained
  <2>2. CASE e # n
    BY <1>1, <1>2, <2>1, <2>2
  <2>3. CASE e = n
    <3>1. bal[n] = prev
      BY <1>2, <1>7, <2>3
    <3> QED BY <1>1, <1>2, <1>5, <1>6, <2>1, <2>3, <3>1
  <2> QED BY <2>2, <2>3
<1> QED BY <1>1, <1>3, <1>4, <1>7 DEF EditsAreExplained

\* The rows are written: the history takes over what the request changed.
LEMMA AdjustExplained ==
  ASSUME TypeOK, OperatorType, EditMarks, EditsAreExplained, OperatorStep,
         Adjust, PutEnds
  PROVE  EditMarks' /\ EditsAreExplained'
<1>1. /\ UNCHANGED <<bal, has, pc, orphaned>> /\ seeded' = TRUE
      /\ ledger' = Plus(ledger, changes)
      /\ broken' = IF seeded THEN broken ELSE Exchanges
      /\ put' = "none" /\ todo' = {} /\ changes' = Zero
  BY RequestLeaves DEF Adjust, PutEnds, redis
<1>2. InHand' = InHand
  BY RequestInHand
<1>3. EditMarks'
  BY <1>1 DEF EditMarks
<1>4. ASSUME seeded, orphaned = {}, NEW e \in Exchanges \ broken
      PROVE  bal[e] = ledger'[e] + InHand[e] + changes'[e]
  <2>1. bal[e] = ledger[e] + InHand[e] + changes[e]
    BY <1>4 DEF EditsAreExplained
  <2>2. ledger'[e] = ledger[e] + changes[e] /\ changes'[e] = 0
    BY <1>1 DEF Plus, Zero
  <2>3. ledger[e] \in Int /\ InHand[e] \in Int /\ changes[e] \in Int
    BY MoneyIsInt DEF OperatorType, Accounts
  <2> QED BY <2>1, <2>2, <2>3
<1> QED BY <1>1, <1>2, <1>3, <1>4 DEF EditsAreExplained

\* A request that fails leaves what it has set without its rows.
LEMMA PutRaisesExplained ==
  ASSUME TypeOK, OperatorType, EditMarks, EditsAreExplained, PutRaises
  PROVE  EditMarks' /\ EditsAreExplained'
<1>0. OperatorStep /\ put' = "none" /\ todo' = {} /\ changes' = Zero
  BY DEF PutRaises, OperatorStep, PutEnds
<1>1. InHand' = InHand /\ orphaned' = orphaned
  BY <1>0, RequestInHand
<1>2. CASE Adjust
  BY <1>0, <1>2, AdjustExplained DEF PutRaises
<1>3. CASE /\ broken' = broken \cup Unexplained
           /\ UNCHANGED <<redis, db, process>>
  <2>1. UNCHANGED <<bal, has, ledger, seeded, pc>>
    BY <1>3 DEF redis, db, process
  <2>2. \A e \in Exchanges \ broken' : e \notin broken /\ changes[e] = 0 /\ changes'[e] = 0
    BY <1>0, <1>3 DEF Unexplained, Zero
  <2>3. broken \subseteq broken' /\ broken' \subseteq Exchanges
    BY <1>3 DEF Unexplained, OperatorType
  <2>4. EditMarks'
    BY <1>0, <2>1, <2>2, <2>3 DEF EditMarks
  <2> QED BY <1>1, <2>1, <2>2, <2>4 DEF EditsAreExplained
<1>4. CASE /\ put = "set" /\ Edit(target)
           /\ broken' = broken \cup Unexplained \cup {target}
  <2> DEFINE n == target
  <2>1. /\ n \in Exchanges
        /\ \A e \in Exchanges : e # n => bal'[e] = bal[e]
        /\ has' = has \cup {n} /\ UNCHANGED <<ledger, seeded, pc>>
    BY <1>4, EditMoves
  <2>2. \A e \in Exchanges \ broken' :
           e # n /\ e \notin broken /\ changes[e] = 0 /\ changes'[e] = 0
    BY <1>0, <1>4 DEF Unexplained, Zero
  <2>3. broken \subseteq broken' /\ broken' \subseteq Exchanges
    BY <1>4, <2>1 DEF Unexplained, OperatorType
  <2> HIDE DEF n
  <2>4. EditMarks'
    BY <1>0, <2>1, <2>2, <2>3 DEF EditMarks, TypeOK, MarkType
  <2> QED BY <1>1, <2>1, <2>2, <2>4 DEF EditsAreExplained
<1> QED BY <1>2, <1>3, <1>4 DEF PutRaises

\* Every call of a request.
LEMMA RequestExplained ==
  ASSUME TypeOK, OperatorType, EditMarks, EditsAreExplained, OperatorStep
  PROVE  EditMarks' /\ EditsAreExplained'
<1>1. InHand' = InHand /\ UNCHANGED <<pc, orphaned>>
  BY RequestInHand, RequestLeaves
<1>2. CASE PutBegin
  <2>1. /\ UNCHANGED <<bal, has, ledger, seeded, changes, broken>>
        /\ todo' \subseteq Exchanges /\ put' # "none" /\ changes = Zero
    BY <1>2 DEF PutBegin, vars, redis, db, EditMarks
  <2>2. EditMarks'
    BY <1>1, <2>1 DEF EditMarks, Zero
  <2> QED BY <1>1, <2>1, <2>2 DEF EditsAreExplained
<1>3. CASE PutGet \/ DeleteFiltered \/ DeleteCount \/ DeleteTruncate
  <2>1. /\ UNCHANGED <<bal, has, ledger, seeded, changes, broken, todo>>
        /\ put' = "none" => put = "none"
    BY <1>3 DEF PutGet, DeleteFiltered, DeleteCount, DeleteTruncate, Remove,
       vars, redis, db, putVars
  <2>2. EditMarks'
    BY <1>1, <2>1 DEF EditMarks
  <2> QED BY <1>1, <2>1, <2>2 DEF EditsAreExplained
<1>4. CASE PutCopy
  BY <1>4, AdjustExplained DEF PutCopy
<1> QED BY <1>2, <1>3, <1>4, PutSetExplained, PutRaisesExplained
        DEF OperatorStep

\* The history, edits included, explains every balance whose history no edit
\* broke.
THEOREM BalancesAreExplainedAmongEdits == SysSpec => []EditsAreExplained
<1>1. TypeOK /\ TypeOK' /\ BatchShape /\ DueMarks /\ OperatorType
        /\ OperatorType' /\ EditMarks /\ EditsAreExplained /\ [SysNext]_sysVars
        => EditMarks' /\ EditsAreExplained'
  BY ExecutorEditMarks, ExecutorExplained, RequestExplained
     DEF SysNext, ExecutorStep, sysVars, putVars
<1> QED BY <1>1, InitEdits, SystemTypes, PTL DEF SysSpec

=============================================================================
