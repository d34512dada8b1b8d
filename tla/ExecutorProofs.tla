--------------------------- MODULE ExecutorProofs ---------------------------
(***************************************************************************)
(* Theorems about Executor, for every value of its constants: an entry is  *)
(* bought at most once and goes through the stages of TradeLifecycle; with *)
(* settings that leave room for the fees no account is overdrawn; the      *)
(* history explains the balances; a trade is stored before it is           *)
(* announced; and an iteration that saw the kill switch on buys nothing.   *)
(***************************************************************************)
EXTENDS ExecutorInvariants, SequenceTheorems, TLAPS

\* The None values have the type of what they stand for.
LEMMA NoneTyped == /\ NoRebalance \in Rebalances /\ NoFill \in Fills
                   /\ Zero \in Accounts
<1>1. Order[1] \in Exchanges
  BY OrderAssumption DEF Exchanges
<1> QED BY <1>1 DEF NoRebalance, Rebalances, NoFill, Fills, Zero, Accounts

\* The sum of two accounts is an account.
LEMMA PlusTyped == \A f, g \in Accounts : Plus(f, g) \in Accounts
BY DEF Plus, Accounts

\* Trimming removes no more than MaxLen allows.
LEMMA TrimsTyped ==
  ASSUME trimmed \in Nat, NEW n \in Nat, NEW t \in Trims(n)
  PROVE  t \in Nat /\ (t = trimmed \/ t + MaxLen <= n)
BY DEF Trims

\* What XREADGROUP is bound to return: a stretch past the cursor that nothing
\* has trimmed.
LEMMA ReadBatchBounds ==
  ASSUME TypeOK, BatchShape, ReadBatch
  PROVE  /\ last \in Nat /\ Passed \in Nat /\ Len(stream) \in Nat
         /\ last <= Passed /\ trimmed <= Passed /\ UNCHANGED trimmed
         /\ lo' = Passed + 1 /\ cur' = lo' /\ hi' \in Nat /\ last' = hi'
         /\ lo' <= hi' /\ hi' <= Len(stream) /\ last < hi'
         /\ pel' = pel \cup (lo' .. hi')
<1>1. /\ last \in Nat /\ trimmed \in Nat /\ Len(stream) \in Nat
      /\ last < Len(stream)
  BY LenProperties DEF ReadBatch, TypeOK, CountType, SequenceType
<1>2. Passed \in Nat /\ last <= Passed /\ trimmed <= Passed
  BY <1>1 DEF Passed
<1>3. Passed < Len(stream)
  BY <1>1, BoundAssumption DEF Passed, BatchShape
<1> QED BY <1>1, <1>2, <1>3, BoundAssumption
        DEF ReadBatch, FirstToRead, BatchEnd

\* HSETNX: a key that is there stays, one that comes gets its opening balance.
LEMMA InitBalancesMoves ==
  ASSUME TypeOK, InitBalances
  PROVE  /\ bal' \in Accounts /\ has \subseteq has' /\ has' \subseteq Exchanges
         /\ \A e \in Exchanges :
               bal'[e] = IF e \in has' \ has THEN Initial[e] ELSE bal[e]
<1>0. bal \in Accounts /\ has \subseteq Exchanges
  BY DEF TypeOK, MoneyType, MarkType
<1>1. CASE UNCHANGED <<bal, has>>
  BY <1>0, <1>1
<1>2. CASE ~UNCHANGED <<bal, has>>
  <2>1. PICK k \in DOMAIN Order :
           /\ Order[k] \notin has
           /\ bal' = [bal EXCEPT ![Order[k]] = Initial[Order[k]]]
           /\ has' = has \cup {Order[k]}
    BY <1>2 DEF InitBalances
  <2>2. Order[k] \in Exchanges /\ Initial[Order[k]] \in Int
    BY MoneyAssumption DEF Exchanges
  <2> QED BY <1>0, <2>1, <2>2 DEF Accounts
<1> QED BY <1>1, <1>2

\* The initial state.
LEMMA InitShape == Init => TypeOK /\ BatchShape
<1> SUFFICES ASSUME Init PROVE TypeOK /\ BatchShape
  OBVIOUS
<1>2. FlagType
  BY DEF Init, FlagType
<1>3. ControlType
  BY DEF Init, ControlType, BootPcs
<1>4. CountType
  BY DEF Init, CountType
<1>6. MoneyType
  BY NoneTyped DEF Init, MoneyType
<1>7. SequenceType
  BY EmptySeq DEF Init, SequenceType
<1>8. MarkType
  BY DEF Init, MarkType
<1>9. BatchShape
  BY BoundAssumption DEF Init, BatchShape, BatchPcs, EntryPcs, PersistPcs, TradePcs
<1> QED BY <1>2, <1>3, <1>4, <1>6, <1>7, <1>8, <1>9 DEF TypeOK

\* The steps of lifespan.
LEMMA BootShape ==
  ASSUME TypeOK, BatchShape, Boot PROVE TypeOK' /\ BatchShape'
<1> USE DEF redis, cgroup, db, loop, locals, output, ghosts, spent,
            TypeOK, FlagType, ControlType, CountType, MoneyType,
            SequenceType, MarkType, BatchShape,
            BootPcs, LoopPcs, BatchPcs, EntryPcs, PersistPcs, TradePcs
<1>1. CASE Start
  BY <1>1 DEF Start
<1>2. CASE InitBalances
  <2>1. bal' \in Accounts /\ has' \subseteq Exchanges
    BY <1>2, InitBalancesMoves
  <2> QED BY <1>2, <2>1 DEF InitBalances
<1>3. CASE SeedHistory
  <2>1. ledger' \in Accounts
    BY <1>3, MoneyAssumption DEF SeedHistory, Plus, Accounts
  <2> QED BY <1>3, <2>1 DEF SeedHistory
<1>6. CASE CountHistory
  BY <1>6 DEF CountHistory
<1>4. CASE EnsureGroup
  BY <1>4 DEF EnsureGroup
<1>5. CASE StartLoop
  BY <1>5 DEF StartLoop
<1> QED BY <1>1, <1>2, <1>3, <1>4, <1>5, <1>6 DEF Boot

\* The GET of the kill switch and its assignment.
LEMMA PollShape ==
  ASSUME TypeOK, BatchShape,
         PollKill \/ ApplyKill \/ ReadNothing \/ EndEntries \/ Wake
  PROVE  TypeOK' /\ BatchShape'
<1> USE DEF redis, cgroup, db, loop, locals, output, ghosts, spent,
            TypeOK, FlagType, ControlType, CountType, MoneyType,
            SequenceType, MarkType, BatchShape,
            BootPcs, LoopPcs, BatchPcs, EntryPcs, PersistPcs, TradePcs
<1>1. CASE PollKill
  BY <1>1 DEF PollKill
<1>2. CASE ApplyKill
  BY <1>2 DEF ApplyKill
<1>3. CASE ReadNothing
  BY <1>3 DEF ReadNothing
<1>4. CASE EndEntries
  BY <1>4 DEF EndEntries, AfterEntries
<1>5. CASE Wake
  BY <1>5 DEF Wake
<1> QED BY <1>1, <1>2, <1>3, <1>4, <1>5

\* XREADGROUP delivers the entries after the cursor.
LEMMA ReadBatchShape ==
  ASSUME TypeOK, BatchShape, ReadBatch PROVE TypeOK' /\ BatchShape'
<1> USE DEF redis, cgroup, db, loop, locals, output, ghosts, spent,
            TypeOK, FlagType, ControlType, CountType, MoneyType,
            SequenceType, MarkType, BatchShape,
            BootPcs, LoopPcs, BatchPcs, EntryPcs, PersistPcs, TradePcs
<1>1. /\ Passed \in Nat /\ Len(stream) \in Nat /\ hi' \in Nat /\ last' = hi'
      /\ lo' = Passed + 1 /\ cur' = lo' /\ lo' <= hi' /\ hi' <= Len(stream)
      /\ UNCHANGED trimmed
  BY ReadBatchBounds
<1>2. lo' .. hi' \subseteq Ids
  BY <1>1, BoundAssumption DEF Ids
<1>3. pel' \subseteq Ids
  BY <1>2, ReadBatchBounds
<1> QED BY <1>1, <1>3 DEF ReadBatch

\* An entry is taken up, skipped, or rejected.
LEMMA BeginEntryShape ==
  ASSUME TypeOK, BatchShape, BeginEntry PROVE TypeOK' /\ BatchShape'
<1> USE DEF redis, cgroup, db, loop, locals, output, ghosts, spent,
            TypeOK, FlagType, ControlType, CountType, MoneyType,
            SequenceType, MarkType, BatchShape,
            BootPcs, LoopPcs, BatchPcs, EntryPcs, PersistPcs, TradePcs
<1>1. PICK i \in Readable : cur' = i
  BY DEF BeginEntry
<1>2. i \in cur .. hi /\ i \in 1 .. Len(stream) /\ stream[i] # Malformed
  BY <1>1 DEF Readable, BeginEntry
<1>3. stream[i] \in Routes
  BY <1>2, ElementOfSeq
<1> QED BY <1>1, <1>2, <1>3 DEF BeginEntry

\* The opportunity in hand has a route, and its sizes are numbers.
LEMMA OppRoute ==
  ASSUME TypeOK, BatchShape, pc \in TradePcs
  PROVE  /\ Opp \in Routes /\ Opp.buy \in Exchanges /\ Opp.sell \in Exchanges
         /\ Opp.buy # Opp.sell /\ cur \in Ids
<1>1. stream[cur] \in Routes /\ lo <= cur /\ cur <= hi /\ 1 <= lo
      /\ hi = last /\ last <= Len(stream) /\ Len(stream) <= MaxEntries
  BY DEF BatchShape, TradePcs, BatchPcs, EntryPcs
<1>2. lo \in Nat /\ cur \in Nat /\ hi \in Nat /\ Len(stream) \in Nat
  BY LenProperties DEF TypeOK, CountType, SequenceType
<1>3. cur \in Ids
  BY <1>1, <1>2, BoundAssumption DEF Ids
<1> QED BY <1>1, <1>3, RouteAssumption DEF Opp

\* A percentage of an integer balance is an integer.
LEMMA SizeIsInt ==
  ASSUME NEW b \in Int
  PROVE  Notional(b) \in Int /\ Cost(Notional(b)) \in Int
<1>1. Notional(b) \in Int
  BY MoneyAssumption DEF Notional
<1>2. \A n \in Int : Cost(n) \in Int
  BY MoneyAssumption DEF Cost
<1> QED BY <1>1, <1>2

\* execute_opportunity returns None.
LEMMA ReturnNoneShape ==
  ASSUME TypeOK, BatchShape, pc \in TradePcs, ReturnNone
  PROVE  /\ orphaned' \subseteq Ids /\ rb' \in Rebalances
         /\ snap' = << >> /\ buyBal' \in Int
         /\ cur' = cur + 1 /\ pc' = "entry" /\ rb' = NoRebalance
<1>1. NoRebalance \in Rebalances
  BY NoneTyped
<1>2. orphaned' \subseteq Ids
  BY OppRoute DEF ReturnNone, TypeOK, MarkType
<1> QED BY <1>1, <1>2, EmptySeq DEF ReturnNone

\* The notional is compared with its minimum.
LEMMA SizeShape ==
  ASSUME TypeOK, BatchShape, pc \in TradePcs \ {"scan"}, NEW b \in Int, Size(b)
  PROVE  /\ orphaned' \subseteq Ids /\ rb' \in Rebalances
         /\ snap' = << >> /\ buyBal' \in Int
         /\ \/ cur' = cur /\ pc' = "depth"
            \/ cur' = cur + 1 /\ pc' = "entry" /\ rb' = NoRebalance
<1>1. CASE ReturnNone
  BY <1>1, ReturnNoneShape
<1>2. CASE ~ReturnNone
  BY <1>2 DEF Size, TypeOK, MarkType, MoneyType, BatchShape
<1> QED BY <1>1, <1>2

\* maybe_rebalance reads the buy balance.
LEMMA ReadBuyBalanceShape ==
  ASSUME TypeOK, BatchShape, ReadBuyBalance PROVE TypeOK' /\ BatchShape'
<1>0. pc \in TradePcs \ {"scan"}
  BY DEF ReadBuyBalance, TradePcs, EntryPcs
<1>1. bal[Opp.buy] \in Int
  BY <1>0, OppRoute DEF TypeOK, MoneyType, Accounts
<1>2. \/ /\ orphaned' \subseteq Ids /\ rb' \in Rebalances
         /\ snap' = << >> /\ buyBal' \in Int
         /\ \/ cur' = cur /\ pc' = "depth"
            \/ cur' = cur + 1 /\ pc' = "entry" /\ rb' = NoRebalance
      \/ /\ buyBal' = bal[Opp.buy] /\ pc' = "scan"
         /\ UNCHANGED <<snap, rb, orphaned, cur>>
  BY <1>0, <1>1, SizeShape DEF ReadBuyBalance
<1>3. /\ snap = << >> /\ Len(snap) = 0 /\ << >> \in Seq(Int)
      /\ Len(Order) \in Nat
  BY <1>0, EmptySeq, LenProperties, OrderAssumption DEF BatchShape
<1> USE DEF redis, cgroup, db, loop, locals, output, ghosts, spent,
            TypeOK, FlagType, ControlType, CountType, MoneyType,
            SequenceType, MarkType, BatchShape,
            BootPcs, LoopPcs, BatchPcs, EntryPcs, PersistPcs, TradePcs
<1>4. CASE pc' = "scan"
  BY <1>0, <1>1, <1>2, <1>3, <1>4 DEF ReadBuyBalance
<1>5. CASE pc' = "depth"
  BY <1>0, <1>1, <1>2, <1>3, <1>5 DEF ReadBuyBalance
<1>6. CASE pc' = "entry"
  BY <1>0, <1>1, <1>2, <1>3, <1>6 DEF ReadBuyBalance
<1> QED BY <1>2, <1>4, <1>5, <1>6

\* all_balances reads one exchange after the other.
LEMMA ScanBalanceShape ==
  ASSUME TypeOK, BatchShape, ScanBalance PROVE TypeOK' /\ BatchShape'
<1>1. Len(snap) \in Nat /\ Len(Order) \in Nat /\ Len(snap) < Len(Order)
  BY LenProperties, OrderAssumption DEF ScanBalance, Scanned, TypeOK, SequenceType, BatchShape
<1>2. Len(snap) + 1 \in DOMAIN Order /\ Order[Len(snap) + 1] \in Exchanges
  BY <1>1, LenProperties, ElementOfSeq, OrderAssumption
<1>3. bal[Order[Len(snap) + 1]] \in Int
  BY <1>2 DEF Accounts, TypeOK, MoneyType
<1>4. snap' \in Seq(Int) /\ Len(snap') = Len(snap) + 1
  BY <1>3, AppendProperties DEF ScanBalance, TypeOK, SequenceType
<1> USE DEF redis, cgroup, db, loop, locals, output, ghosts, spent,
            TypeOK, FlagType, ControlType, CountType, MoneyType,
            SequenceType, MarkType, BatchShape,
            BootPcs, LoopPcs, BatchPcs, EntryPcs, PersistPcs, TradePcs
<1> QED BY <1>1, <1>4 DEF ScanBalance

\* No donor: the kill switch goes on.
LEMMA NoDonorShape ==
  ASSUME TypeOK, BatchShape, NoDonor PROVE TypeOK' /\ BatchShape'
<1>0. pc \in TradePcs
  BY DEF NoDonor, TradePcs, EntryPcs
<1>1. /\ orphaned' \subseteq Ids /\ rb' \in Rebalances
      /\ snap' = << >> /\ buyBal' \in Int
      /\ cur' = cur + 1 /\ pc' = "entry" /\ rb' = NoRebalance
  BY <1>0, ReturnNoneShape DEF NoDonor
<1> USE DEF redis, cgroup, db, loop, locals, output, ghosts, spent,
            TypeOK, FlagType, ControlType, CountType, MoneyType,
            SequenceType, MarkType, BatchShape,
            BootPcs, LoopPcs, BatchPcs, EntryPcs, PersistPcs, TradePcs
<1> QED BY <1>0, <1>1, EmptySeq DEF NoDonor

\* The donor is debited.
LEMMA DebitDonorShape ==
  ASSUME TypeOK, BatchShape, DebitDonor PROVE TypeOK' /\ BatchShape'
<1>0. pc \in TradePcs
  BY DEF DebitDonor, TradePcs, EntryPcs
<1>1. PICK k \in DOMAIN Order :
        /\ rb' = Transfer(k)
        /\ bal' = [bal EXCEPT ![Order[k]] = @ - Transfer(k).gross]
  BY DEF DebitDonor
<1>2. k \in 1 .. Len(snap) /\ Order[k] \in Exchanges
  BY <1>1, LenProperties, ElementOfSeq, OrderAssumption DEF DebitDonor, Scanned
<1>3. snap[k] \in Int
  BY <1>2, ElementOfSeq DEF TypeOK, SequenceType
<1>4. snap[k] \div 2 \in Int /\ Withdrawal[Order[k]] \in Nat
  BY <1>2, <1>3, MoneyAssumption
<1>5. Transfer(k) \in Rebalances /\ Transfer(k).gross \in Int
  BY <1>0, <1>2, <1>4, OppRoute DEF Transfer, Rebalances
<1>6. bal' \in Accounts
  BY <1>1, <1>2, <1>5 DEF Accounts, TypeOK, MoneyType
<1> USE DEF redis, cgroup, db, loop, locals, output, ghosts, spent,
            TypeOK, FlagType, ControlType, CountType, MoneyType,
            SequenceType, MarkType, BatchShape,
            BootPcs, LoopPcs, BatchPcs, EntryPcs, PersistPcs, TradePcs
<1> QED BY <1>0, <1>1, <1>5, <1>6, EmptySeq DEF DebitDonor

\* The receiver is credited.
LEMMA CreditReceiverShape ==
  ASSUME TypeOK, BatchShape, CreditReceiver PROVE TypeOK' /\ BatchShape'
<1>0. pc \in TradePcs \ {"scan"}
  BY DEF CreditReceiver, TradePcs, EntryPcs
<1>1. BuyBalanceNow \in Int /\ bal' \in Accounts
  BY DEF CreditReceiver, BuyBalanceNow, Accounts, Rebalances, TypeOK, MoneyType
<1>2. /\ orphaned' \subseteq Ids /\ rb' \in Rebalances
      /\ snap' = << >> /\ buyBal' \in Int
      /\ \/ cur' = cur /\ pc' = "depth"
         \/ cur' = cur + 1 /\ pc' = "entry" /\ rb' = NoRebalance
  BY <1>0, <1>1, SizeShape DEF CreditReceiver
<1> USE DEF redis, cgroup, db, loop, locals, output, ghosts, spent,
            TypeOK, FlagType, ControlType, CountType, MoneyType,
            SequenceType, MarkType, BatchShape,
            BootPcs, LoopPcs, BatchPcs, EntryPcs, PersistPcs, TradePcs
<1> QED BY <1>0, <1>1, <1>2, EmptySeq DEF CreditReceiver

\* The books do not fill the order.
LEMMA SkipFillShape ==
  ASSUME TypeOK, BatchShape, SkipFill PROVE TypeOK' /\ BatchShape'
<1>0. pc \in TradePcs
  BY DEF SkipFill, TradePcs, EntryPcs
<1>1. /\ orphaned' \subseteq Ids /\ rb' \in Rebalances
      /\ snap' = << >> /\ buyBal' \in Int
      /\ cur' = cur + 1 /\ pc' = "entry" /\ rb' = NoRebalance
  BY <1>0, ReturnNoneShape DEF SkipFill
<1> USE DEF redis, cgroup, db, loop, locals, output, ghosts, spent,
            TypeOK, FlagType, ControlType, CountType, MoneyType,
            SequenceType, MarkType, BatchShape,
            BootPcs, LoopPcs, BatchPcs, EntryPcs, PersistPcs, TradePcs
<1> QED BY <1>0, <1>1, EmptySeq DEF SkipFill

\* The books fill the order.
LEMMA FillShape ==
  ASSUME TypeOK, BatchShape, NEW g \in Gains, Fill(g) PROVE TypeOK' /\ BatchShape'
<1>1. g \in Int /\ buyBal \in Int
  BY MoneyAssumption DEF TypeOK, MoneyType
<1>2. fill' \in Fills
  BY <1>1, SizeIsInt DEF Fill, Fills
<1> USE DEF redis, cgroup, db, loop, locals, output, ghosts, spent,
            TypeOK, FlagType, ControlType, CountType, MoneyType,
            SequenceType, MarkType, BatchShape,
            BootPcs, LoopPcs, BatchPcs, EntryPcs, PersistPcs, TradePcs
<1> QED BY <1>2 DEF Fill

\* The buy leg.
LEMMA BuyLegShape ==
  ASSUME TypeOK, BatchShape, BuyLeg PROVE TypeOK' /\ BatchShape'
<1>0. pc \in TradePcs
  BY DEF BuyLeg, TradePcs, EntryPcs
<1>1. fill.cost \in Int
  BY DEF TypeOK, MoneyType, Fills
<1>2. bal' \in Accounts
  BY <1>0, <1>1, OppRoute DEF BuyLeg, Accounts, TypeOK, MoneyType
<1>3. bought' \in [Ids -> Nat]
  BY <1>0, OppRoute DEF BuyLeg, TypeOK, MarkType
<1> USE DEF redis, cgroup, db, loop, locals, output, ghosts, spent,
            TypeOK, FlagType, ControlType, CountType, MoneyType,
            SequenceType, MarkType, BatchShape,
            BootPcs, LoopPcs, BatchPcs, EntryPcs, PersistPcs, TradePcs
<1> QED BY <1>2, <1>3 DEF BuyLeg

\* The sell leg and the result.
LEMMA SellLegShape ==
  ASSUME TypeOK, BatchShape, SellLeg PROVE TypeOK' /\ BatchShape'
<1>0. pc \in TradePcs
  BY DEF SellLeg, TradePcs, EntryPcs
<1>1. fill.cost \in Int /\ fill.proceeds \in Int /\ rb.gross \in Int /\ rb.net \in Int
  BY DEF TypeOK, MoneyType, Fills, Rebalances
<1>2. bal' \in Accounts
  BY <1>0, <1>1, OppRoute DEF SellLeg, Accounts, TypeOK, MoneyType
<1>3. RebalanceRows(rb) \in Accounts /\ TradeRows(Opp, fill) \in Accounts
  BY <1>1 DEF RebalanceRows, TradeRows, Accounts
<1>4. due' \in Accounts
  BY <1>3, PlusTyped DEF SellLeg, TypeOK, MoneyType
<1>5. cur \in Ids /\ results' \in Seq(Ids) /\ settled' \subseteq Ids
  BY <1>0, OppRoute, AppendProperties DEF SellLeg, TypeOK, SequenceType, MarkType
<1>6. NoRebalance \in Rebalances /\ NoFill \in Fills
  BY NoneTyped
<1> USE DEF redis, cgroup, db, loop, locals, output, ghosts, spent,
            TypeOK, FlagType, ControlType, CountType, MoneyType,
            SequenceType, MarkType, BatchShape,
            BootPcs, LoopPcs, BatchPcs, EntryPcs, PersistPcs, TradePcs
<1> QED BY <1>0, <1>2, <1>4, <1>5, <1>6, EmptySeq DEF SellLeg

\* All of execute_opportunity.
LEMMA ExecuteShape ==
  ASSUME TypeOK, BatchShape, Execute PROVE TypeOK' /\ BatchShape'
BY ReadBuyBalanceShape, ScanBalanceShape, NoDonorShape, DebitDonorShape,
   CreditReceiverShape, SkipFillShape, FillShape, BuyLegShape, SellLegShape
   DEF Execute

\* All of _persist, and XACK.
LEMMA PersistShape ==
  ASSUME TypeOK, BatchShape, Persist \/ Ack PROVE TypeOK' /\ BatchShape'
<1>1. Executing \subseteq Ids
  BY ElementOfSeq DEF Executing, TypeOK, SequenceType
<1>2. ledger' \in Accounts /\ due' \in Accounts
  BY PlusTyped, NoneTyped DEF Persist, CopyTrades, CopyBalances, Announce, Ack, output, db, TypeOK, MoneyType
<1>3. results # << >> => /\ Head(results) \in Ids
                         /\ Tail(results) \in Seq(Ids)
  BY HeadTailProperties DEF TypeOK, SequenceType
<1> USE DEF redis, cgroup, db, loop, locals, output, ghosts, spent,
            TypeOK, FlagType, ControlType, CountType, MoneyType,
            SequenceType, MarkType, BatchShape,
            BootPcs, LoopPcs, BatchPcs, EntryPcs, PersistPcs, TradePcs
<1>4. CASE CopyTrades
  BY <1>1, <1>4 DEF CopyTrades
<1>5. CASE CopyBalances
  BY <1>1, <1>2, <1>5 DEF CopyBalances
<1>6. CASE Announce
  BY <1>3, <1>6 DEF Announce
<1>7. CASE Ack
  <2>1. lo .. hi \subseteq Ids
    BY <1>7, BoundAssumption, LenProperties DEF Ack, Ids
  <2> QED BY <1>7, <2>1 DEF Ack
<1> QED BY <1>4, <1>5, <1>6, <1>7 DEF Persist

\* What a failure marks are entries.
LEMMA UnrecordedTyped ==
  ASSUME TypeOK, BatchShape PROVE Unrecorded \subseteq Ids
<1>1. Executing \subseteq Ids
  BY ElementOfSeq DEF Executing, TypeOK, SequenceType
<1>2. rb # NoRebalance \/ pc = "sell" => cur \in Ids
  BY OppRoute DEF BatchShape, TradePcs, EntryPcs
<1> QED BY <1>1, <1>2 DEF Unrecorded

\* A failing call, a stop, and the end of the sleep.
LEMMA FailureShape ==
  ASSUME TypeOK, BatchShape, Raise \/ Stop PROVE TypeOK' /\ BatchShape'
<1>1. FlagType'
  BY DEF Raise, Stop, Forget, TypeOK, FlagType, redis, cgroup, db, ghosts
<1>2. ControlType'
  BY DEF Raise, Stop, Forget, AfterError, TypeOK, ControlType, BootPcs
<1>3. CountType'
  BY DEF Raise, Stop, Forget, TypeOK, CountType, cgroup, loop
<1>4. MoneyType'
  BY NoneTyped DEF Raise, Stop, Forget, TypeOK, MoneyType, redis, db
<1>5. SequenceType'
  BY EmptySeq DEF Raise, Stop, Forget, TypeOK, SequenceType
<1>6. orphaned' \subseteq Ids
  BY UnrecordedTyped DEF Raise, Stop, Forget, TypeOK, MarkType
<1>7. MarkType'
  BY <1>6 DEF Raise, Stop, Forget, TypeOK, MarkType, redis, cgroup, db
<1>8. BatchShape'
  BY DEF Raise, Stop, Forget, AfterError, BatchShape, BatchPcs, EntryPcs,
         PersistPcs, TradePcs, cgroup, loop
<1> QED BY <1>1, <1>2, <1>3, <1>4, <1>5, <1>7, <1>8 DEF TypeOK

\* The scanner, the operators and POST /killswitch.
LEMMA EnvironmentShape ==
  ASSUME TypeOK, BatchShape, StoreKill \/ Environment
  PROVE  TypeOK' /\ BatchShape'
<1>1. ASSUME NEW entry \in Routes \cup {Malformed}, Publish(entry)
      PROVE  TypeOK' /\ BatchShape'
  <2>1. /\ stream' \in Seq(Routes \cup {Malformed})
        /\ Len(stream') = Len(stream) + 1
        /\ Len(stream) \in Nat /\ Len(stream) < MaxEntries
        /\ \A i \in 1 .. Len(stream) : stream'[i] = stream[i]
    BY <1>1, AppendProperties, LenProperties DEF Publish, TypeOK, SequenceType
  <2>3. trimmed' \in Nat /\ (trimmed' = 0 \/ trimmed' + MaxLen <= Len(stream'))
    <3>1. trimmed \in Nat /\ trimmed' \in Trims(Len(stream) + 1)
      BY <1>1 DEF Publish, TypeOK, CountType
    <3>2. trimmed' \in Nat
          /\ (trimmed' = trimmed \/ trimmed' + MaxLen <= Len(stream) + 1)
      BY <2>1, <3>1, TrimsTyped
    <3> QED BY <2>1, <3>1, <3>2, BoundAssumption DEF BatchShape
  <2>2. pc \in TradePcs => cur \in 1 .. Len(stream)
    BY <2>1 DEF TypeOK, CountType, BatchShape, TradePcs, BatchPcs, EntryPcs
  <2>4. TypeOK'
    BY <1>1, <2>1, <2>3
       DEF Publish, redis, db, loop, locals, output, ghosts, spent,
           TypeOK, FlagType, ControlType, CountType, MoneyType,
           SequenceType, MarkType
  <2>5. UNCHANGED <<last, pc, lo, cur, hi, rb, snap, results>>
    BY <1>1 DEF Publish, loop, locals, output
  <2>6. last \in Nat /\ last <= Len(stream) /\ last <= Len(stream')
        /\ Len(stream') <= MaxEntries
    BY <2>1, BoundAssumption DEF TypeOK, CountType, BatchShape
  <2>7. pc \in TradePcs => stream'[cur] \in Routes
    BY <2>1, <2>2 DEF BatchShape
  <2> QED BY <2>3, <2>4, <2>5, <2>6, <2>7 DEF BatchShape
<1>2. ASSUME NEW active \in BOOLEAN, PostKill(active)
      PROVE  TypeOK' /\ BatchShape'
  BY <1>2 DEF PostKill, redis, cgroup, db, loop, locals, output, spent,
         TypeOK, FlagType, ControlType, CountType, MoneyType, SequenceType,
         MarkType, BatchShape
<1>3. ASSUME NEW active \in BOOLEAN, GatewayKill(active)
      PROVE  TypeOK' /\ BatchShape'
  BY <1>3 DEF GatewayKill, cgroup, db, loop, locals, output, ghosts,
         TypeOK, FlagType, ControlType, CountType, MoneyType, SequenceType,
         MarkType, BatchShape
<1>4. CASE StoreKill
  BY <1>4 DEF StoreKill, cgroup, db, loop, locals, output, ghosts, spent,
         TypeOK, FlagType, ControlType, CountType, MoneyType, SequenceType,
         MarkType, BatchShape
<1> QED BY <1>1, <1>2, <1>3, <1>4 DEF Environment

\* No step disturbs the types or the batch in hand.
LEMMA NextShape ==
  ASSUME TypeOK, BatchShape, [Next]_vars PROVE TypeOK' /\ BatchShape'
<1>1. CASE Boot
  BY <1>1, BootShape
<1>2. CASE Iterate
  BY <1>2, PollShape, ReadBatchShape, BeginEntryShape, ExecuteShape,
     PersistShape DEF Iterate
<1>3. CASE Raise \/ Stop
  BY <1>3, FailureShape
<1>4. CASE StoreKill \/ Environment
  BY <1>4, EnvironmentShape
<1>5. CASE UNCHANGED vars
  BY <1>5 DEF vars, redis, cgroup, db, loop, locals, output, ghosts, spent,
       TypeOK, FlagType, ControlType, CountType, MoneyType, SequenceType,
       MarkType, BatchShape
<1> QED BY <1>1, <1>2, <1>3, <1>4, <1>5 DEF Next

\* The variables keep their types and the batch in hand its shape.
THEOREM TypeCorrect == Spec => [](TypeOK /\ BatchShape)
<1>1. TypeOK /\ BatchShape /\ [Next]_vars => TypeOK' /\ BatchShape'
  BY NextShape
<1> QED BY <1>1, InitShape, PTL DEF Spec

-----------------------------------------------------------------------------
(***************************************************************************)
(* At most one buy per entry, and acknowledged only when recorded.         *)
(***************************************************************************)
LEMMA AppendRange ==
  ASSUME NEW S, NEW s \in Seq(S), NEW e \in S
  PROVE  {Append(s, e)[k] : k \in DOMAIN Append(s, e)}
           = {s[k] : k \in DOMAIN s} \cup {e}
<1>1. /\ DOMAIN s = 1 .. Len(s) /\ Len(s) \in Nat
      /\ DOMAIN Append(s, e) = 1 .. (Len(s) + 1)
      /\ \A k \in 1 .. Len(s) : Append(s, e)[k] = s[k]
      /\ Append(s, e)[Len(s) + 1] = e
  BY AppendProperties, LenProperties
<1> QED BY <1>1

\* The elements of a sequence are its head and those of its tail.
LEMMA TailRange ==
  ASSUME NEW S, NEW s \in Seq(S), s # << >>
  PROVE  {s[k] : k \in DOMAIN s}
           = {Tail(s)[k] : k \in DOMAIN Tail(s)} \cup {Head(s)}
<1>1. /\ DOMAIN s = 1 .. Len(s) /\ Len(s) \in Nat \ {0}
      /\ DOMAIN Tail(s) = 1 .. (Len(s) - 1)
      /\ \A k \in 1 .. (Len(s) - 1) : Tail(s)[k] = s[k + 1]
      /\ Head(s) = s[1]
  BY HeadTailProperties, LenProperties, EmptySeq
<1>2. ASSUME NEW k \in 1 .. Len(s)
      PROVE  \/ s[k] = Head(s)
             \/ k - 1 \in DOMAIN Tail(s) /\ s[k] = Tail(s)[k - 1]
  BY <1>1
<1>3. ASSUME NEW k \in DOMAIN Tail(s)
      PROVE  k + 1 \in DOMAIN s /\ Tail(s)[k] = s[k + 1]
  BY <1>1
<1>4. 1 \in DOMAIN s /\ Head(s) = s[1]
  BY <1>1
<1>5. ASSUME NEW k \in DOMAIN s
      PROVE  s[k] \in {Tail(s)[j] : j \in DOMAIN Tail(s)} \cup {Head(s)}
  BY <1>1, <1>2
<1>6. \A j \in DOMAIN Tail(s) : Tail(s)[j] \in {s[k] : k \in DOMAIN s}
  BY <1>3
<1>7. Head(s) \in {s[k] : k \in DOMAIN s}
  BY <1>4
<1> QED BY <1>5, <1>6, <1>7, Zenon

\* A step that leaves the entries in hand alone keeps OnceShape.
LEMMA IdleOnce ==
  ASSUME TypeOK, BatchShape, OnceShape,
         \/ Boot \/ PollKill \/ ApplyKill \/ ReadNothing \/ Wake
         \/ Raise \/ Stop \/ StoreKill \/ Environment \/ UNCHANGED vars
  PROVE  OnceShape'
<1>1. /\ UNCHANGED <<acked, bought, settled, trades, booked, announced>>
      /\ last' >= last
  BY LenProperties
     DEF Boot, Start, InitBalances, CountHistory, SeedHistory,
         EnsureGroup, StartLoop,
         PollKill, ApplyKill, ReadNothing, Wake, Raise, Stop, StoreKill,
         Environment, Publish, PostKill, GatewayKill, vars, cgroup, db, ghosts,
         TypeOK, CountType, SequenceType, BatchShape
<1>2. \/ pc' \notin BatchPcs
      \/ UNCHANGED <<pc, lo, cur, hi, results>>
  BY DEF Boot, Start, InitBalances, CountHistory, SeedHistory,
         EnsureGroup, StartLoop,
         PollKill, ApplyKill, ReadNothing, Wake, Raise, Stop, StoreKill,
         Environment, Publish, PostKill, GatewayKill, vars, loop, output,
         BatchPcs, EntryPcs, PersistPcs, AfterError
<1>3. Executing' = Executing \/ pc' \notin BatchPcs
  BY <1>2 DEF Executing
<1>4. last \in Nat /\ last' \in Nat
  BY LenProperties
     DEF Boot, Start, InitBalances, CountHistory, SeedHistory,
         EnsureGroup, StartLoop,
         PollKill, ApplyKill, ReadNothing, Wake, Raise, Stop, StoreKill,
         Environment, Publish, PostKill, GatewayKill, vars, cgroup,
         TypeOK, CountType, SequenceType
<1>5. AckedIsRecorded' /\ (\A i \in Ids : bought'[i] <= 1)
  BY <1>1 DEF OnceShape, AckedIsRecorded
<1>6. \A i \in Ids : i > last' => bought'[i] = 0 /\ i \notin acked'
  BY <1>1, <1>4 DEF OnceShape, Ids
<1>7. CASE pc' \notin BatchPcs
  BY <1>5, <1>6, <1>7 DEF OnceShape
<1>8. CASE UNCHANGED <<pc, lo, cur, hi, results>>
  <2>1. \A i \in Ids : Reached(i)' = Reached(i)
    BY <1>1, <1>8 DEF Reached, Executing
  <2> QED BY <1>1, <1>5, <1>6, <1>8, <2>1 DEF OnceShape
<1> QED BY <1>2, <1>7, <1>8

\* A new batch lies past everything bought so far.
LEMMA ReadBatchOnce ==
  ASSUME TypeOK, BatchShape, OnceShape, ReadBatch PROVE OnceShape'
<1>1. /\ Passed \in Nat /\ last \in Nat /\ last <= Passed
      /\ lo' = Passed + 1 /\ hi' \in Nat /\ last' = hi' /\ last < hi'
  BY ReadBatchBounds
<1>2. UNCHANGED <<acked, bought, settled, trades, booked, announced>>
  BY DEF ReadBatch, db, ghosts
<1>3. \A i \in Ids : i > last => bought'[i] = 0 /\ i \notin acked'
  BY <1>2 DEF OnceShape
<1>4. AckedIsRecorded' /\ \A i \in Ids : bought'[i] <= 1
  BY <1>2 DEF OnceShape, AckedIsRecorded
<1> QED BY <1>1, <1>3, <1>4 DEF OnceShape, Ids

\* Nothing from cur on has been bought, except by the sell leg that is due.
LEMMA AheadIsUntouched ==
  ASSUME TypeOK, BatchShape, OnceShape, pc \in EntryPcs,
         NEW i \in Ids, cur <= i, i <= hi, bought[i] > 0
  PROVE  i = cur /\ pc = "sell"
<1>1. lo <= i /\ i \in Int /\ cur \in Int /\ lo \in Int
  BY DEF BatchShape, Ids, TypeOK, CountType
<1>2. Reached(i)
  BY <1>1 DEF OnceShape, BatchPcs
<1> QED BY <1>1, <1>2 DEF Reached

\* steps inside the batch that move the position but write nothing
LEMMA MoveOnce ==
  ASSUME TypeOK, BatchShape, OnceShape,
         pc \in EntryPcs \ {"sell"}, pc' \in EntryPcs \ {"sell"},
         cur' >= cur, cur' \in Nat,
         UNCHANGED <<last, lo, hi, results, acked, bought, settled, trades,
                     booked, announced>>
  PROVE  OnceShape'
<1>1. ASSUME NEW i \in Ids, lo <= i, i <= hi, bought[i] > 0
      PROVE  Reached(i)'
  <2>1. Reached(i)
    BY <1>1 DEF OnceShape, BatchPcs
  <2> QED BY <1>1, <2>1 DEF Reached, Executing, Ids, TypeOK, CountType
<1>2. AckedIsRecorded' /\ \A i \in Ids : bought'[i] <= 1
  BY DEF OnceShape, AckedIsRecorded
<1> QED BY <1>1, <1>2 DEF OnceShape, BatchPcs

\* Going from entry to entry without a trade.
LEMMA EntryMoveOnce ==
  ASSUME TypeOK, BatchShape, OnceShape,
         \/ BeginEntry \/ ReadBuyBalance \/ ScanBalance \/ NoDonor
         \/ DebitDonor \/ CreditReceiver \/ SkipFill
  PROVE  OnceShape'
<1>1. pc \in EntryPcs \ {"sell"} /\ pc' \in EntryPcs \ {"sell"}
  BY DEF BeginEntry, ReadBuyBalance, ScanBalance, NoDonor, DebitDonor,
         CreditReceiver, SkipFill, Size, ReturnNone, EntryPcs
<1>2. cur' >= cur /\ cur' \in Nat
  BY DEF BeginEntry, ReadBuyBalance, ScanBalance, NoDonor, DebitDonor,
         CreditReceiver, SkipFill, Size, ReturnNone, Readable, loop,
         TypeOK, CountType
<1>3. UNCHANGED <<last, lo, hi, results, acked, bought, settled, trades,
                  booked, announced>>
  BY DEF BeginEntry, ReadBuyBalance, ScanBalance, NoDonor, DebitDonor,
         CreditReceiver, SkipFill, Size, ReturnNone, cgroup, loop, output,
         db, ghosts
<1> QED BY <1>1, <1>2, <1>3, MoveOnce

\* From the depth check to the buy leg.
LEMMA FillOnce ==
  ASSUME TypeOK, BatchShape, OnceShape, NEW g \in Gains, Fill(g)
  PROVE  OnceShape'
<1>1. /\ pc \in EntryPcs \ {"sell"} /\ pc' \in EntryPcs \ {"sell"}
      /\ cur' >= cur /\ cur' \in Nat
      /\ UNCHANGED <<last, lo, hi, results, acked, bought, settled, trades,
                     booked, announced>>
  BY DEF Fill, EntryPcs, cgroup, loop, output, db, ghosts, TypeOK, CountType
<1> QED BY <1>1, MoveOnce

\* The entry in hand is bought, for the first time.
LEMMA BuyLegOnce ==
  ASSUME TypeOK, BatchShape, OnceShape, BuyLeg PROVE OnceShape'
<1>1. pc = "buy" /\ pc \in TradePcs /\ pc \in EntryPcs /\ pc \in BatchPcs
  BY DEF BuyLeg, TradePcs, EntryPcs, BatchPcs
<1>2. cur \in Ids /\ lo <= cur /\ cur <= hi /\ hi = last
  BY <1>1, OppRoute DEF BatchShape
<1>3. bought[cur] = 0 /\ cur \notin acked
  BY <1>1, <1>2, AheadIsUntouched
     DEF OnceShape, TypeOK, MarkType, CountType
<1>4. /\ bought'[cur] = 1
      /\ \A i \in Ids \ {cur} : bought'[i] = bought[i]
      /\ UNCHANGED <<last, lo, cur, hi, results, acked, settled, trades,
                     booked, announced>>
      /\ pc' = "sell"
  BY <1>2, <1>3 DEF BuyLeg, TypeOK, MarkType, cgroup, loop, locals, output, db
<1>5. ASSUME NEW i \in Ids, lo <= i, i <= hi
      PROVE  i \notin acked /\ (bought'[i] > 0 => Reached(i)')
  <2>1. CASE i = cur
    BY <1>3, <1>4, <2>1 DEF Reached, EntryPcs
  <2>2. CASE i # cur
    <3>1. i \notin acked /\ (bought[i] > 0 => Reached(i))
      BY <1>1, <1>5 DEF OnceShape
    <3> QED BY <1>1, <1>4, <2>2, <3>1 DEF Reached, Executing, EntryPcs
  <2> QED BY <2>1, <2>2
<1>6. AckedIsRecorded'
  BY <1>3, <1>4 DEF OnceShape, AckedIsRecorded, TypeOK, MarkType
<1>7. \A i \in Ids : bought'[i] <= 1
  BY <1>4 DEF OnceShape
<1>8. \A i \in Ids : i > last => bought'[i] = 0 /\ i \notin acked
  BY <1>2, <1>4 DEF OnceShape, TypeOK, CountType
<1> QED BY <1>4, <1>5, <1>6, <1>7, <1>8 DEF OnceShape

\* The entry in hand is settled.
LEMMA SellLegOnce ==
  ASSUME TypeOK, BatchShape, OnceShape, SellLeg PROVE OnceShape'
<1>1. pc = "sell" /\ pc \in TradePcs /\ pc \in EntryPcs /\ pc \in BatchPcs
  BY DEF SellLeg, TradePcs, EntryPcs, BatchPcs
<1>2. cur \in Ids /\ cur \in Nat
  BY <1>1, OppRoute DEF TypeOK, CountType
<1>3. /\ cur' = cur + 1 /\ pc' = "entry" /\ settled' = settled \cup {cur}
      /\ UNCHANGED <<last, lo, hi, acked, bought, trades, booked, announced>>
  BY DEF SellLeg, cgroup, db
<1>4. Executing' = Executing \cup {cur}
  <2>1. results \in Seq(Ids) /\ results' = Append(results, cur)
    BY DEF SellLeg, TypeOK, SequenceType
  <2>2. {Append(results, cur)[k] : k \in DOMAIN Append(results, cur)}
          = {results[k] : k \in DOMAIN results} \cup {cur}
    BY <1>2, <2>1, AppendRange
  <2> QED BY <2>1, <2>2 DEF Executing
<1>5. ASSUME NEW i \in Ids, lo <= i, i <= hi
      PROVE  i \notin acked /\ (bought[i] > 0 => Reached(i)')
  <2>1. i \notin acked /\ (bought[i] > 0 => Reached(i))
    BY <1>1, <1>5 DEF OnceShape
  <2> QED BY <1>1, <1>2, <1>3, <1>4, <2>1 DEF Reached, EntryPcs, Ids
<1>6. AckedIsRecorded' /\ \A i \in Ids : bought'[i] <= 1
  BY <1>3 DEF OnceShape, AckedIsRecorded
<1> QED BY <1>3, <1>5, <1>6 DEF OnceShape

\* The end of the batch: results go to _persist or the entries to XACK.
LEMMA EndEntriesOnce ==
  ASSUME TypeOK, BatchShape, OnceShape, EndEntries PROVE OnceShape'
<1>1. /\ pc = "entry" /\ pc \in EntryPcs /\ pc \in BatchPcs
      /\ pc' = IF results = << >> THEN "ack" ELSE "copyTrades"
      /\ UNCHANGED <<last, lo, hi, results, acked, bought, settled, trades,
                     booked, announced>>
  BY DEF EndEntries, AfterEntries, EntryPcs, BatchPcs, cgroup, output, db, ghosts
<1>2. results = << >> => Executing = {}
  BY DEF Executing
<1>3. ASSUME NEW i \in Ids, lo <= i, i <= hi
      PROVE  i \notin acked /\ (bought[i] > 0 => Reached(i)')
  <2>1. i \notin acked /\ (bought[i] > 0 => Reached(i))
    BY <1>1, <1>3 DEF OnceShape
  <2> QED BY <1>1, <1>2, <2>1 DEF Reached, Executing, EntryPcs
<1>4. AckedIsRecorded' /\ \A i \in Ids : bought'[i] <= 1
  BY <1>1 DEF OnceShape, AckedIsRecorded
<1> QED BY <1>1, <1>3, <1>4 DEF OnceShape

\* _persist takes the results one by one.
LEMMA PersistOnce ==
  ASSUME TypeOK, BatchShape, OnceShape, Persist PROVE OnceShape'
<1>1. /\ pc \in BatchPcs /\ trades \subseteq trades'
      /\ booked \subseteq booked' /\ announced \subseteq announced'
      /\ UNCHANGED <<last, lo, hi, acked, bought, settled>>
  BY DEF Persist, CopyTrades, CopyBalances, Announce, BatchPcs, PersistPcs,
         cgroup, loop, ghosts
<1>2. AckedIsRecorded' /\ \A i \in Ids : bought'[i] <= 1
  BY <1>1 DEF OnceShape, AckedIsRecorded
<1>3. ASSUME NEW i \in Ids, lo <= i, i <= hi
      PROVE  i \notin acked /\ (bought[i] > 0 => Reached(i)')
  <2>1. i \notin acked /\ (bought[i] > 0 => Reached(i))
    BY <1>1, <1>3 DEF OnceShape
  <2>2. CASE CopyTrades
    BY <2>1, <2>2 DEF CopyTrades, Reached, Executing, EntryPcs, output, ghosts
  <2>3. CASE CopyBalances
    BY <2>1, <2>3 DEF CopyBalances, Reached, Executing, EntryPcs, ghosts
  <2>4. CASE Announce
    <3>1. Executing = Executing' \cup {Head(results)}
      BY <2>4, TailRange DEF Announce, Executing, TypeOK, SequenceType,
         BatchShape, PersistPcs
    <3>2. Tail(results) = << >> => Executing' = {}
      BY <2>4 DEF Announce, Executing
    <3> QED BY <2>1, <2>4, <3>1, <3>2 DEF Announce, Reached, EntryPcs, ghosts
  <2> QED BY <2>2, <2>3, <2>4 DEF Persist
<1> QED BY <1>1, <1>2, <1>3 DEF OnceShape

\* XACK ends the batch.
LEMMA AckOnce ==
  ASSUME TypeOK, BatchShape, OnceShape, Ack PROVE OnceShape'
<1>1. /\ pc = "ack" /\ pc \in BatchPcs /\ pc' = "poll" /\ pc' \notin BatchPcs
      /\ acked' = acked \cup (lo .. hi)
      /\ UNCHANGED <<last, bought, settled, trades, booked, announced>>
  BY DEF Ack, BatchPcs, EntryPcs, PersistPcs, db
<1>2. hi = last /\ hi \in Nat /\ lo \in Nat
  BY <1>1 DEF BatchShape, TypeOK, CountType
<1>3. \A i \in Ids : lo <= i /\ i <= hi /\ bought[i] > 0 =>
          i \in settled /\ i \in trades /\ i \in booked /\ i \in announced
  BY <1>1 DEF OnceShape, Reached, EntryPcs
<1>4. AckedIsRecorded'
  BY <1>1, <1>2, <1>3, PersistShape DEF OnceShape, AckedIsRecorded, TypeOK, MarkType
<1>5. \A i \in Ids : i > last => bought[i] = 0 /\ i \notin acked'
  BY <1>1, <1>2 DEF OnceShape
<1> QED BY <1>1, <1>4, <1>5 DEF OnceShape

\* Nothing bought.
LEMMA InitOnce == Init => OnceShape
BY DEF Init, OnceShape, AckedIsRecorded, BatchPcs, EntryPcs, PersistPcs

\* A step of the executor.
LEMMA NextOnce ==
  ASSUME TypeOK, BatchShape, OnceShape, [Next]_vars PROVE OnceShape'
<1>1. CASE Boot \/ Raise \/ Stop \/ StoreKill \/ Environment \/ UNCHANGED vars
  BY <1>1, IdleOnce
<1>2. CASE Iterate
  BY <1>2, IdleOnce, ReadBatchOnce, EntryMoveOnce, FillOnce, BuyLegOnce,
     SellLegOnce, EndEntriesOnce, PersistOnce, AckOnce DEF Iterate, Execute
<1> QED BY <1>1, <1>2 DEF Next

\* Whatever fails, and however often the executor restarts, the strengthening
\* OnceShape holds.
THEOREM OnceCorrect == Spec => []OnceShape
<1>1. TypeOK /\ BatchShape /\ OnceShape /\ [Next]_vars => OnceShape'
  BY NextOnce
<1> QED BY <1>1, InitOnce, TypeCorrect, PTL DEF Spec

\* No opportunity is bought twice.
THEOREM BoughtOnce == Spec => []AtMostOnce
<1>1. OnceShape => AtMostOnce
  BY DEF OnceShape, AtMostOnce
<1> QED BY <1>1, OnceCorrect, PTL

\* XACK covers executed entries only when everything about them is stored.
THEOREM AcknowledgedIsRecorded == Spec => []AckedIsRecorded
<1>1. OnceShape => AckedIsRecorded
  BY DEF OnceShape
<1> QED BY <1>1, OnceCorrect, PTL

-----------------------------------------------------------------------------
(***************************************************************************)
(* The executor implements TradeLifecycle: LifeShape, then one lemma per   *)
(* stage an entry can go to.                                               *)
(***************************************************************************)
\* Nothing bought, nothing read.
LEMMA InitLife == Init => LifeShape
BY DEF Init, LifeShape, Executing, BatchPcs, EntryPcs, PersistPcs

\* Outside the batch a step leaves the marks of the entries alone; the cursor
\* may be set past them, and an iteration that fails drops its results.
LEMMA IdleLife ==
  ASSUME TypeOK, BatchShape, LifeShape,
         \/ Boot \/ PollKill \/ ApplyKill \/ ReadNothing \/ Wake
         \/ Raise \/ Stop \/ StoreKill \/ Environment \/ UNCHANGED vars
  PROVE  LifeShape'
<1>0. UNCHANGED <<pel, bought, settled, trades, booked, announced>>
  BY DEF Boot, Start, InitBalances, CountHistory, SeedHistory,
         EnsureGroup, StartLoop,
         PollKill, ApplyKill, ReadNothing, Wake, Raise, Stop, StoreKill,
         Environment, Publish, PostKill, GatewayKill, vars, cgroup, db, ghosts
<1>1. last' >= last /\ last \in Nat /\ last' \in Nat
  BY LenProperties
     DEF Boot, Start, InitBalances, CountHistory, SeedHistory,
         EnsureGroup, StartLoop,
         PollKill, ApplyKill, ReadNothing, Wake, Raise, Stop, StoreKill,
         Environment, Publish, PostKill, GatewayKill, vars, cgroup,
         TypeOK, CountType, SequenceType, BatchShape
<1>2. \/ UNCHANGED <<pc, lo, cur, hi, results>>
      \/ pc' \notin BatchPcs /\ results' = << >>
      \/ /\ pc \notin EntryPcs \cup PersistPcs /\ pc' \notin BatchPcs
         /\ UNCHANGED results
  BY DEF Boot, Start, InitBalances, CountHistory, SeedHistory,
         EnsureGroup, StartLoop,
         PollKill, ApplyKill, ReadNothing, Wake, Raise, Stop, StoreKill,
         Environment, Publish, PostKill, GatewayKill, vars, loop, output,
         Forget, BatchPcs, EntryPcs, PersistPcs, AfterError
<1>3. \A i \in pel' : i <= last'
  BY <1>0, <1>1 DEF LifeShape, TypeOK, MarkType, Ids
<1>4. CASE UNCHANGED <<pc, lo, cur, hi, results>>
  BY <1>0, <1>3, <1>4 DEF LifeShape, Executing
<1>5. CASE pc' \notin BatchPcs /\ Executing' = {}
  BY <1>0, <1>3, <1>5 DEF LifeShape, BatchPcs, EntryPcs, PersistPcs
<1>6. CASE results' = << >> /\ pc' \notin BatchPcs
  BY <1>5, <1>6 DEF Executing
<1>7. CASE /\ pc \notin EntryPcs \cup PersistPcs /\ pc' \notin BatchPcs
           /\ UNCHANGED results
  BY <1>5, <1>7 DEF Executing, LifeShape
<1> QED BY <1>2, <1>4, <1>6, <1>7

\* A new batch is pending, and nothing of it is in hand yet.
LEMMA ReadBatchLife ==
  ASSUME TypeOK, BatchShape, LifeShape, ReadBatch PROVE LifeShape'
<1>1. /\ last \in Nat /\ lo' = Passed + 1 /\ Passed \in Nat /\ last <= Passed
      /\ hi' \in Nat /\ last' = hi'
      /\ last < hi' /\ pel' = pel \cup (lo' .. hi') /\ pc' = "entry"
      /\ UNCHANGED <<bought, settled, trades, booked, announced, results>>
  BY ReadBatchBounds DEF ReadBatch, db, ghosts, output
<1>2. Executing' = {}
  BY <1>1 DEF ReadBatch, LifeShape, Executing, EntryPcs, PersistPcs
<1>3. \A i \in pel' : i <= last'
  BY <1>1 DEF LifeShape, TypeOK, MarkType, Ids
<1>4. \A i \in Ids : lo' <= i /\ i <= hi' => i \in pel'
  BY <1>1 DEF Ids
<1> QED BY <1>1, <1>2, <1>3, <1>4 DEF LifeShape

\* Steps inside the batch that move the position but mark nothing.
LEMMA EntryMoveLife ==
  ASSUME TypeOK, BatchShape, LifeShape,
         \/ BeginEntry \/ EndEntries \/ ReadBuyBalance \/ ScanBalance
         \/ NoDonor \/ DebitDonor \/ CreditReceiver \/ SkipFill
         \/ \E g \in Gains : Fill(g)
  PROVE  LifeShape'
<1>1. /\ pc \in EntryPcs
      /\ \/ pc' \in EntryPcs \ {"sell"}
         \/ pc' = "copyTrades"
         \/ pc' = "ack" /\ results = << >>
  BY DEF BeginEntry, EndEntries, AfterEntries, ReadBuyBalance, ScanBalance,
         NoDonor, DebitDonor, CreditReceiver, SkipFill, Fill, Size,
         ReturnNone, EntryPcs
<1>2. UNCHANGED <<last, pel, lo, hi, results, bought, settled, trades, booked,
                  announced>>
  BY DEF BeginEntry, EndEntries, ReadBuyBalance, ScanBalance, NoDonor,
         DebitDonor, CreditReceiver, SkipFill, Fill, Size, ReturnNone,
         cgroup, loop, output, db, ghosts
<1>3. Executing' = Executing /\ (results = << >> => Executing = {})
  BY <1>2 DEF Executing
<1> QED BY <1>1, <1>2, <1>3 DEF LifeShape, BatchPcs, EntryPcs, PersistPcs

\* The entry that is bought has not been settled.
LEMMA BuyLegLife ==
  ASSUME TypeOK, BatchShape, OnceShape, LifeShape, BuyLeg PROVE LifeShape'
<1>1. pc = "buy" /\ pc \in TradePcs /\ pc \in EntryPcs /\ pc \in BatchPcs
  BY DEF BuyLeg, TradePcs, EntryPcs, BatchPcs
<1>2. cur \in Ids /\ cur <= hi
  BY <1>1, OppRoute DEF BatchShape
<1>7. bought[cur] = 0
  BY <1>1, <1>2, AheadIsUntouched DEF TypeOK, MarkType, CountType
<1>3. /\ bought'[cur] = 1
      /\ \A i \in Ids \ {cur} : bought'[i] = bought[i]
      /\ UNCHANGED <<last, pel, lo, cur, hi, results, settled, trades, booked,
                     announced>>
      /\ pc' = "sell"
  BY <1>2, <1>7 DEF BuyLeg, TypeOK, MarkType, cgroup, loop, locals, output, db
<1>4. cur \notin settled
  BY <1>7 DEF LifeShape
<1>5. \A i \in settled : bought'[i] > 0
  BY <1>3, <1>4 DEF LifeShape, TypeOK, MarkType
<1>6. Executing' = Executing
  BY <1>3 DEF Executing
<1> QED BY <1>1, <1>3, <1>4, <1>5, <1>6
        DEF LifeShape, BatchPcs, EntryPcs, PersistPcs

\* The entry that is settled joins the results.
LEMMA SellLegLife ==
  ASSUME TypeOK, BatchShape, LifeShape, SellLeg PROVE LifeShape'
<1>1. pc = "sell" /\ pc \in TradePcs /\ pc \in EntryPcs /\ pc \in BatchPcs
  BY DEF SellLeg, TradePcs, EntryPcs, BatchPcs
<1>2. cur \in Ids /\ lo <= cur /\ cur <= hi
  BY <1>1, OppRoute DEF BatchShape
<1>3. /\ pc' = "entry" /\ settled' = settled \cup {cur}
      /\ UNCHANGED <<last, pel, lo, hi, bought, trades, booked, announced>>
  BY DEF SellLeg, cgroup, db
<1>4. Executing' = Executing \cup {cur}
  <2>1. results \in Seq(Ids) /\ results' = Append(results, cur)
    BY DEF SellLeg, TypeOK, SequenceType
  <2>2. {Append(results, cur)[k] : k \in DOMAIN Append(results, cur)}
          = {results[k] : k \in DOMAIN results} \cup {cur}
    BY <1>2, <2>1, AppendRange
  <2> QED BY <2>1, <2>2 DEF Executing
<1> QED BY <1>1, <1>2, <1>3, <1>4
        DEF LifeShape, BatchPcs, EntryPcs, PersistPcs

\* _persist marks the results, and drops them one by one.
LEMMA PersistLife ==
  ASSUME TypeOK, BatchShape, LifeShape, Persist PROVE LifeShape'
<1>1. CASE CopyTrades
  <2>1. /\ pc = "copyTrades" /\ pc' = "copyBalances" /\ Executing' = Executing
        /\ trades' = trades \cup Executing
        /\ UNCHANGED <<last, pel, lo, hi, bought, settled, booked, announced>>
    BY <1>1 DEF CopyTrades, Executing, cgroup, loop, output, ghosts
  <2> QED BY <2>1 DEF LifeShape, BatchPcs, EntryPcs, PersistPcs
<1>2. CASE CopyBalances
  <2>1. /\ pc = "copyBalances" /\ pc' = "announce" /\ Executing' = Executing
        /\ booked' = booked \cup Executing
        /\ UNCHANGED <<last, pel, lo, hi, bought, settled, trades, announced>>
    BY <1>2 DEF CopyBalances, Executing, cgroup, loop, ghosts
  <2> QED BY <2>1 DEF LifeShape, BatchPcs, EntryPcs, PersistPcs
<1>3. CASE Announce
  <2>1. /\ pc = "announce" /\ pc' \in {"announce", "ack"}
        /\ announced' = announced \cup {Head(results)}
        /\ pc' = "ack" => results' = << >>
        /\ UNCHANGED <<last, pel, lo, hi, bought, settled, trades, booked>>
    BY <1>3 DEF Announce, cgroup, loop, ghosts
  <2>2. Executing = Executing' \cup {Head(results)}
    BY <1>3, TailRange DEF Announce, Executing, TypeOK, SequenceType,
       BatchShape, PersistPcs
  <2>3. pc' = "ack" => Executing' = {}
    BY <2>1 DEF Executing
  <2> QED BY <2>1, <2>2, <2>3 DEF LifeShape, BatchPcs, EntryPcs, PersistPcs
<1> QED BY <1>1, <1>2, <1>3 DEF Persist

\* XACK takes the batch off the pending list.
LEMMA AckLife ==
  ASSUME TypeOK, BatchShape, LifeShape, Ack PROVE LifeShape'
<1>1. /\ pc = "ack" /\ pc' = "poll" /\ pel' \subseteq pel
      /\ Executing' = Executing
      /\ UNCHANGED <<last, lo, hi, bought, settled, trades, booked, announced>>
  BY DEF Ack, Executing, output, loop, db
<1> QED BY <1>1 DEF LifeShape, BatchPcs, EntryPcs, PersistPcs

\* A step of the executor.
LEMMA NextLife ==
  ASSUME TypeOK, BatchShape, OnceShape, LifeShape, [Next]_vars PROVE LifeShape'
<1>1. CASE Boot \/ Raise \/ Stop \/ StoreKill \/ Environment \/ UNCHANGED vars
  BY <1>1, IdleLife
<1>2. CASE Iterate
  BY <1>2, IdleLife, ReadBatchLife, EntryMoveLife, BuyLegLife, SellLegLife,
     PersistLife, AckLife DEF Iterate, Execute
<1> QED BY <1>1, <1>2 DEF Next

\* The marks of the entries are set in the order of the stages.
THEOREM MarksInOrder == Spec => []LifeShape
<1>1. TypeOK /\ BatchShape /\ OnceShape /\ LifeShape /\ [Next]_vars
        => LifeShape'
  BY NextLife
<1> QED BY <1>1, InitLife, TypeCorrect, OnceCorrect, PTL DEF Spec

\* Entries that are all at one stage and all go to the next advance.
LEMMA AdvanceLife ==
  ASSUME NEW S \in SUBSET Ids, NEW from, NEW to,
         \A i \in S : StageOf(i) = from,
         \A i \in Ids : StageOf(i)' = IF i \in S THEN to ELSE StageOf(i)
  PROVE  Life!Advance(S, from, to)
BY DEF Life!Advance

\* Marks that stay leave every entry at its stage.
LEMMA StayLife ==
  ASSUME \A i \in Ids : StageOf(i)' = StageOf(i)
  PROVE  UNCHANGED [i \in Ids |-> StageOf(i)]
OBVIOUS

\* The entries up to the cursor are passed.
LEMMA LastPassed ==
  ASSUME TypeOK
  PROVE  last \in Int /\ Passed \in Int /\ last <= Passed
BY DEF TypeOK, CountType, Passed

\* No entry has been read at the start.
LEMMA InitStage == Init => Life!LifeInit
<1> SUFFICES ASSUME Init PROVE \A i \in Ids : StageOf(i) = "unread"
  BY DEF Life!LifeInit
<1>1. Passed = 0
  BY DEF Init, Passed
<1> QED BY <1>1 DEF StageOf, Ids

\* Steps that mark no entry; the group that is made at "$" misses what was
\* published before.
LEMMA IdleStage ==
  ASSUME TypeOK, BatchShape, OnceShape, LifeShape,
         \/ Boot \/ PollKill \/ ApplyKill \/ ReadNothing \/ Wake
         \/ Raise \/ Stop \/ StoreKill \/ Environment \/ UNCHANGED vars
  PROVE  \E S \in SUBSET Ids : Life!Miss(S)
<1>0. UNCHANGED <<pel, acked, bought, settled, trades, booked, announced>>
  BY DEF Boot, Start, InitBalances, CountHistory, SeedHistory,
         EnsureGroup, StartLoop,
         PollKill, ApplyKill, ReadNothing, Wake, Raise, Stop, StoreKill,
         Environment, Publish, PostKill, GatewayKill, vars, cgroup, db, ghosts
<1>1. /\ last' >= last /\ last \in Nat /\ last' \in Nat
      /\ trimmed' >= trimmed /\ trimmed \in Nat /\ trimmed' \in Nat
  BY LenProperties
     DEF Boot, Start, InitBalances, CountHistory, SeedHistory, EnsureGroup,
         StartLoop, PollKill, ApplyKill, ReadNothing, Wake, Raise, Stop,
         StoreKill, Environment, Publish, Trims, PostKill, GatewayKill, vars,
         cgroup, TypeOK, CountType, SequenceType, BatchShape
<1>6. /\ Passed \in Nat /\ Passed' \in Nat /\ Passed <= Passed'
      /\ last <= Passed
  BY <1>1 DEF Passed
<1> DEFINE S == {i \in Ids : Passed < i /\ i <= Passed'}
<1>2. \A i \in S : StageOf(i) = "unread" /\ i \notin acked /\ i \notin pel
  BY <1>1, <1>6 DEF StageOf, Ids, OnceShape, LifeShape
<1>3. ASSUME NEW i \in S PROVE StageOf(i)' = "missed"
  BY <1>0, <1>6, <1>2 DEF StageOf, Ids
<1>4. ASSUME NEW i \in Ids \ S PROVE StageOf(i)' = StageOf(i)
  BY <1>0, <1>6 DEF StageOf, Ids
<1>5. Life!Advance(S, "unread", "missed")
  BY <1>2, <1>3, <1>4, AdvanceLife
<1> QED BY <1>5 DEF Life!Miss

\* XREADGROUP makes the entries it delivers pending.
LEMMA ReadStage ==
  ASSUME TypeOK, BatchShape, OnceShape, LifeShape, ReadBatch
  PROVE  \E S \in SUBSET Ids : Life!Read(S)
<1>1. /\ last \in Nat /\ Passed \in Nat /\ last <= Passed
      /\ lo' = Passed + 1 /\ hi' \in Nat /\ last' = hi' /\ lo' <= hi'
      /\ pel' = pel \cup (lo' .. hi') /\ Passed' = hi'
  BY ReadBatchBounds, LastPassed DEF Passed, TypeOK, CountType
<1>2. UNCHANGED <<acked, bought, settled, trades, booked, announced>>
  BY DEF ReadBatch, db, ghosts
<1> DEFINE S == {i \in Ids : Passed < i /\ i <= Passed'}
<1>3. \A i \in S : StageOf(i) = "unread" /\ i \notin acked /\ bought[i] = 0
  BY <1>1 DEF StageOf, Ids, OnceShape
<1>4. ASSUME NEW i \in S PROVE StageOf(i)' = "pending"
  BY <1>1, <1>2, <1>3 DEF StageOf, Ids
<1>5. ASSUME NEW i \in Ids \ S PROVE StageOf(i)' = StageOf(i)
  BY <1>1, <1>2 DEF StageOf, Ids
<1>6. Life!Advance(S, "unread", "pending")
  BY <1>3, <1>4, <1>5, AdvanceLife
<1> QED BY <1>6 DEF Life!Read

\* Going through the batch marks nothing.
LEMMA EntryMoveStage ==
  ASSUME \/ BeginEntry \/ EndEntries \/ ReadBuyBalance \/ ScanBalance
         \/ NoDonor \/ DebitDonor \/ CreditReceiver \/ SkipFill
         \/ \E g \in Gains : Fill(g)
  PROVE  UNCHANGED [i \in Ids |-> StageOf(i)]
<1>1. UNCHANGED <<Passed, pel, acked, bought, settled, trades, booked, announced>>
  BY DEF Passed, BeginEntry, EndEntries, ReadBuyBalance, ScanBalance, NoDonor,
         DebitDonor, CreditReceiver, SkipFill, Fill, Size, ReturnNone,
         cgroup, db, ghosts
<1>2. \A i \in Ids : StageOf(i)' = StageOf(i)
  BY <1>1 DEF StageOf
<1> QED BY <1>2, StayLife

\* The buy leg takes the entry in hand from pending to half.
LEMMA BuyLegStage ==
  ASSUME TypeOK, BatchShape, OnceShape, LifeShape, BuyLeg
  PROVE  \E i \in Ids : Life!Buy(i)
<1>1. pc = "buy" /\ pc \in TradePcs /\ pc \in EntryPcs /\ pc \in BatchPcs
  BY DEF BuyLeg, TradePcs, EntryPcs, BatchPcs
<1>2. /\ cur \in Ids /\ lo <= cur /\ cur <= hi /\ hi = last
      /\ cur \in Int /\ Passed \in Int /\ cur <= Passed
  BY <1>1, OppRoute, LastPassed DEF BatchShape, Ids, TypeOK, CountType
<1>3. bought[cur] = 0
  BY <1>1, <1>2, AheadIsUntouched DEF TypeOK, MarkType, CountType
<1>4. cur \in pel /\ cur \notin acked /\ cur \notin settled
  BY <1>1, <1>2, <1>3 DEF OnceShape, LifeShape
<1>5. /\ bought'[cur] = 1
      /\ \A i \in Ids \ {cur} : bought'[i] = bought[i]
      /\ UNCHANGED <<Passed, pel, acked, settled, trades, booked, announced>>
  BY <1>2, <1>3 DEF Passed, BuyLeg, TypeOK, MarkType, cgroup, db
<1>6. PICK i \in Ids : i = cur
  BY <1>2
<1>7. StageOf(i) = "pending" /\ StageOf(i)' = "half"
  BY <1>2, <1>3, <1>4, <1>5, <1>6 DEF StageOf
<1>8. ASSUME NEW j \in Ids \ {i} PROVE StageOf(j)' = StageOf(j)
  BY <1>5, <1>6 DEF StageOf
<1>9. Life!Advance({i}, "pending", "half")
  BY <1>7, <1>8, AdvanceLife
<1> QED BY <1>9 DEF Life!Buy

\* The sell leg settles it.
LEMMA SellLegStage ==
  ASSUME TypeOK, BatchShape, OnceShape, LifeShape, SellLeg
  PROVE  \E i \in Ids : Life!Sell(i)
<1>1. pc = "sell" /\ pc \in TradePcs /\ pc \in EntryPcs /\ pc \in BatchPcs
  BY DEF SellLeg, TradePcs, EntryPcs, BatchPcs
<1>2. /\ cur \in Ids /\ lo <= cur /\ cur <= hi /\ hi = last
      /\ cur \in Int /\ Passed \in Int /\ cur <= Passed /\ bought[cur] \in Nat
  BY <1>1, OppRoute, LastPassed DEF BatchShape, Ids, TypeOK, CountType, MarkType
<1>3. /\ cur \in pel /\ cur \notin acked /\ cur \notin settled
      /\ cur \notin trades /\ bought[cur] # 0
  BY <1>1, <1>2 DEF OnceShape, LifeShape
<1>4. /\ settled' = settled \cup {cur}
      /\ UNCHANGED <<Passed, pel, acked, bought, trades, booked, announced>>
  BY DEF Passed, SellLeg, cgroup, db
<1>5. PICK i \in Ids : i = cur
  BY <1>2
<1>6. StageOf(i) = "half" /\ StageOf(i)' = "settled"
  BY <1>2, <1>3, <1>4, <1>5 DEF StageOf
<1>7. ASSUME NEW j \in Ids \ {i} PROVE StageOf(j)' = StageOf(j)
  BY <1>4, <1>5 DEF StageOf
<1>8. Life!Advance({i}, "half", "settled")
  BY <1>6, <1>7, AdvanceLife
<1> QED BY <1>8 DEF Life!Sell

\* What the results in hand stand for: delivered, bought, settled.
LEMMA ExecutingStage ==
  ASSUME TypeOK, BatchShape, OnceShape, LifeShape, pc \in PersistPcs,
         NEW i \in Executing
  PROVE  /\ i \in Ids /\ i <= Passed /\ i \in pel /\ i \notin acked
         /\ bought[i] # 0 /\ i \in settled /\ Passed \in Int
<1>1. pc \in BatchPcs /\ i \in settled /\ i \in Ids /\ lo <= i /\ i <= hi
  BY DEF LifeShape, BatchPcs, TypeOK, MarkType
<1>2. hi = last /\ last \in Int
  BY <1>1 DEF BatchShape, TypeOK, CountType
<1>3. bought[i] \in Nat /\ bought[i] > 0
  BY <1>1 DEF LifeShape, TypeOK, MarkType
<1>4. i <= Passed
  BY <1>1, <1>2, LastPassed DEF Ids, TypeOK, CountType
<1> QED BY <1>1, <1>2, <1>3, <1>4, LastPassed DEF LifeShape, OnceShape

\* _persist stores the results, books them and announces them.
LEMMA PersistStage ==
  ASSUME TypeOK, BatchShape, OnceShape, LifeShape, Persist
  PROVE  \/ \E S \in SUBSET Ids : Life!Store(S) \/ Life!Book(S)
         \/ \E i \in Ids : Life!Announce(i)
         \/ UNCHANGED [i \in Ids |-> StageOf(i)]
<1>0. pc \in PersistPcs /\ pc \in BatchPcs /\ pc \notin EntryPcs
  BY DEF Persist, CopyTrades, CopyBalances, Announce, PersistPcs, BatchPcs,
         EntryPcs
<1>1. /\ Executing \in SUBSET Ids /\ Executing \subseteq settled
      /\ UNCHANGED <<Passed, pel, acked, bought, settled>>
  BY <1>0, ExecutingStage
     DEF Passed, Persist, CopyTrades, CopyBalances, Announce, cgroup, ghosts
<1>2. CASE CopyTrades
  <2>1. /\ trades' = trades \cup Executing /\ UNCHANGED <<booked, announced>>
        /\ Executing \cap trades = {} /\ Executing \cap booked = {}
    BY <1>2 DEF CopyTrades, LifeShape
  <2>2. ASSUME NEW i \in Executing
        PROVE  StageOf(i) = "settled" /\ StageOf(i)' = "stored"
    <3>1. /\ i <= Passed /\ i \in pel /\ i \notin acked /\ bought[i] # 0
          /\ i \in settled /\ Passed \in Int /\ i \in Int
      BY <1>0, <2>2, ExecutingStage DEF Ids
    <3> QED BY <1>1, <2>1, <2>2, <3>1 DEF StageOf
  <2>3. ASSUME NEW i \in Ids \ Executing PROVE StageOf(i)' = StageOf(i)
    BY <1>1, <2>1 DEF StageOf
  <2>4. Life!Advance(Executing, "settled", "stored")
    BY <1>1, <2>2, <2>3, AdvanceLife
  <2> QED BY <1>1, <2>4 DEF Life!Store
<1>3. CASE CopyBalances
  <2>1. /\ booked' = booked \cup Executing /\ UNCHANGED <<trades, announced>>
        /\ Executing \subseteq trades /\ Executing \cap booked = {}
        /\ Executing \cap announced = {}
    BY <1>3 DEF CopyBalances, LifeShape
  <2>2. ASSUME NEW i \in Executing
        PROVE  StageOf(i) = "stored" /\ StageOf(i)' = "booked"
    <3>1. /\ i <= Passed /\ i \in pel /\ i \notin acked /\ bought[i] # 0
          /\ i \in settled /\ Passed \in Int /\ i \in Int
      BY <1>0, <2>2, ExecutingStage DEF Ids
    <3> QED BY <1>1, <2>1, <2>2, <3>1 DEF StageOf
  <2>3. ASSUME NEW i \in Ids \ Executing PROVE StageOf(i)' = StageOf(i)
    BY <1>1, <2>1 DEF StageOf
  <2>4. Life!Advance(Executing, "stored", "booked")
    BY <1>1, <2>2, <2>3, AdvanceLife
  <2> QED BY <1>1, <2>4 DEF Life!Book
<1>4. CASE Announce
  <2>0. Head(results) \in Executing
    BY <1>0, TailRange DEF Executing, TypeOK, SequenceType, BatchShape
  <2>1. PICK i \in Executing : i = Head(results)
    BY <2>0
  <2>2. /\ announced' = announced \cup {i} /\ UNCHANGED <<trades, booked>>
        /\ Executing \subseteq booked /\ Executing \subseteq trades
    BY <1>4, <2>1 DEF Announce, LifeShape
  <2>3. ASSUME NEW j \in Ids \ {i} PROVE StageOf(j)' = StageOf(j)
    BY <1>1, <2>2 DEF StageOf
  <2>4. CASE i \in announced
    <3>1. StageOf(i)' = StageOf(i)
      BY <1>1, <2>2, <2>4 DEF StageOf
    <3> QED BY <2>3, <3>1, StayLife
  <2>5. CASE i \notin announced
    <3>0. /\ i <= Passed /\ i \in pel /\ i \notin acked /\ bought[i] # 0
          /\ i \in settled /\ Passed \in Int /\ i \in Int
      BY <1>0, <2>1, ExecutingStage DEF Ids
    <3>1. StageOf(i) = "booked" /\ StageOf(i)' = "announced"
      BY <1>1, <2>1, <2>2, <2>5, <3>0 DEF StageOf
    <3>2. Life!Advance({i}, "booked", "announced")
      BY <1>1, <2>1, <2>3, <3>1, AdvanceLife
    <3> QED BY <1>1, <2>1, <3>2 DEF Life!Announce
  <2> QED BY <2>4, <2>5
<1> QED BY <1>2, <1>3, <1>4 DEF Persist

\* XACK ends the life of the entries of the batch.
LEMMA AckStage ==
  ASSUME TypeOK, BatchShape, OnceShape, LifeShape, Ack
  PROVE  \E S \in SUBSET Ids : Life!Acknowledge(S)
<1>1. /\ pc = "ack" /\ pc \in BatchPcs
      /\ pel' = pel \ (lo .. hi) /\ acked' = acked \cup (lo .. hi)
      /\ UNCHANGED <<Passed, bought, settled, trades, booked, announced>>
  BY DEF Passed, Ack, BatchPcs, db
<1>2. hi = last /\ hi \in Nat /\ lo \in Nat
  BY <1>1 DEF BatchShape, TypeOK, CountType
<1> DEFINE S == {i \in Ids : lo <= i /\ i <= hi}
<1>3. ASSUME NEW i \in S
      PROVE  /\ i <= Passed /\ i \in pel /\ i \notin acked /\ i \in acked'
             /\ bought[i] > 0 => i \in settled \cap trades \cap booked \cap announced
  BY <1>1, <1>2, LastPassed DEF OnceShape, LifeShape, Reached, EntryPcs, Ids
<1>4. ASSUME NEW i \in S
      PROVE  \/ StageOf(i) = "pending" /\ StageOf(i)' = "skipped"
             \/ StageOf(i) = "announced" /\ StageOf(i)' = "finished"
  <2>1. i \in Int /\ Passed \in Int /\ bought[i] \in Nat
    BY LastPassed DEF Ids, TypeOK, MarkType
  <2> QED BY <1>1, <1>3, <2>1 DEF StageOf
<1>5. ASSUME NEW i \in Ids \ S PROVE StageOf(i)' = StageOf(i)
  <2>1. i \in acked' <=> i \in acked
    BY <1>1, <1>2 DEF Ids
  <2>2. i \in pel' <=> i \in pel
    BY <1>1, <1>2 DEF Ids
  <2> QED BY <1>1, <2>1, <2>2 DEF StageOf
<1>6. Life!Acknowledge(S)
  <2>1. \A i \in S : StageOf(i) \in {"pending", "announced"}
    BY <1>4
  <2>2. \A i \in Ids :
          StageOf(i)' = IF i \notin S THEN StageOf(i)
                        ELSE IF StageOf(i) = "pending" THEN "skipped"
                        ELSE "finished"
    BY <1>4, <1>5
  <2> QED BY <2>1, <2>2 DEF Life!Acknowledge
<1> QED BY <1>6

\* A step of the executor is a step of the life of its entries.
LEMMA NextStage ==
  ASSUME TypeOK, BatchShape, OnceShape, LifeShape, [Next]_vars
  PROVE  Life!LifeNext \/ UNCHANGED [i \in Ids |-> StageOf(i)]
<1>1. CASE Boot \/ Raise \/ Stop \/ StoreKill \/ Environment \/ UNCHANGED vars
  BY <1>1, IdleStage DEF Life!LifeNext
<1>2. CASE PollKill \/ ApplyKill \/ ReadNothing \/ Wake
  BY <1>2, IdleStage DEF Life!LifeNext
<1>3. CASE ReadBatch
  BY <1>3, ReadStage DEF Life!LifeNext
<1>4. CASE BeginEntry \/ EndEntries \/ Execute
  BY <1>4, EntryMoveStage, BuyLegStage, SellLegStage DEF Execute, Life!LifeNext
<1>5. CASE Persist \/ Ack
  BY <1>5, PersistStage, AckStage DEF Life!LifeNext
<1> QED BY <1>1, <1>2, <1>3, <1>4, <1>5 DEF Next, Iterate

\* Whatever fails and whoever interferes, an entry goes through the stages of
\* TradeLifecycle in their order: it is never traded twice, announced before it
\* is stored, or acknowledged halfway.
THEOREM ExecutorImplementsLifecycle == Spec => FollowsLifecycle
<1>1. TypeOK /\ BatchShape /\ OnceShape /\ LifeShape /\ [Next]_vars
        => [Life!LifeNext]_([i \in Ids |-> StageOf(i)])
  BY NextStage
<1> QED
  BY <1>1, InitStage, TypeCorrect, OnceCorrect, MarksInOrder, PTL
     DEF Spec, FollowsLifecycle, Life!LifeSpec

-----------------------------------------------------------------------------
(***************************************************************************)
(* Solvency.                                                               *)
(***************************************************************************)
\* Multiplying by a natural number keeps the order.
LEMMA MulMono ==
  \A x, y, k \in Int : x <= y /\ k >= 0 => x * k <= y * k
OBVIOUS

\* Integer division rounds down.
LEMMA DivBound ==
  \A x \in Int : /\ x \div 100 \in Int /\ 100 * (x \div 100) <= x
                 /\ x >= 0 => x \div 100 >= 0
OBVIOUS

\* A position and its fee fit the balance they are sized on.
LEMMA CostFits ==
  ASSUME Solvent, NEW b \in Int, b >= 0
  PROVE  Cost(Notional(b)) <= b
<1> DEFINE n == Notional(b)
           K == 100 + BuyFeePct
<1>1. n \in Int /\ 100 * n <= b * PositionPct /\ K \in Nat
  BY MoneyAssumption, DivBound DEF Notional
<1>2. (100 * n) * K <= (b * PositionPct) * K
  BY <1>1, MulMono, MoneyAssumption
<1>3. (b * PositionPct) * K = (PositionPct * K) * b
  BY <1>1, MoneyAssumption
<1>4. (PositionPct * K) * b <= 10000 * b
  BY <1>1, MulMono, MoneyAssumption DEF Solvent
<1>5. (100 * n) * K = 100 * (n * K) /\ n * K = 100 * n + n * BuyFeePct
  BY <1>1, MoneyAssumption
<1>6. n * K <= 100 * b
  BY <1>1, <1>2, <1>3, <1>4, <1>5, MoneyAssumption
<1>7. 100 * ((n * BuyFeePct) \div 100) <= n * BuyFeePct
      /\ (n * BuyFeePct) \div 100 \in Int /\ n * BuyFeePct \in Int
  BY <1>1, MoneyAssumption, DivBound
<1> QED BY <1>1, <1>5, <1>6, <1>7 DEF Cost

\* A donor's half covers the withdrawal fee.
LEMMA HalfCovers ==
  ASSUME Solvent, NEW e \in Exchanges, NEW b \in Int, b > Threshold
  PROVE  /\ b \div 2 \in Int /\ 0 <= b \div 2 /\ b \div 2 <= b
         /\ (b \div 2) - Withdrawal[e] >= 0
<1>1. 2 * Withdrawal[e] <= Threshold /\ Withdrawal[e] \in Nat /\ Threshold \in Nat
  BY MoneyAssumption DEF Solvent
<1> QED BY <1>1

-----------------------------------------------------------------------------
FundsPcs == {"scan", "credit", "depth", "buy", "sell"}

\* Before the first start no local speaks of a balance.
LEMMA InitFunds == ASSUME Init PROVE \A U : FundsOutside(U)
BY DEF Init, FundsOutside, CoveredOutside, Zero

\* a step that leaves execute_opportunity, or stays out of it, and moves no
\* balance below zero
LEMMA LeaveFunds ==
  ASSUME NEW U, pc' \notin FundsPcs, CoveredOutside(U)'
  PROVE  FundsOutside(U)'
BY DEF FundsOutside, FundsPcs

\* A step that moves no money and ends the work on the entry keeps FundsOutside.
LEMMA IdleFunds ==
  ASSUME NEW U, TypeOK, BatchShape, FundsOutside(U),
         \/ Boot \/ PollKill \/ ApplyKill \/ ReadNothing \/ ReadBatch
         \/ BeginEntry \/ EndEntries \/ NoDonor \/ SkipFill \/ Persist \/ Ack
         \/ Wake \/ Raise \/ Stop
  PROVE  FundsOutside(U)'
<1>1. pc' \notin FundsPcs
  BY DEF Boot, Start, InitBalances, CountHistory, SeedHistory,
         EnsureGroup, StartLoop,
         PollKill, ApplyKill, ReadNothing, ReadBatch, BeginEntry, EndEntries,
         AfterEntries, NoDonor, SkipFill, ReturnNone, Persist, CopyTrades,
         CopyBalances, Announce, Ack, Wake, Raise, AfterError, Stop, FundsPcs
<1>2. CASE InitBalances
  <2>1. \A e \in Exchanges : Initial[e] \in Nat
    BY MoneyAssumption
  <2>2. \A e \in Exchanges : bal'[e] = bal[e] \/ bal'[e] = Initial[e]
    BY <1>2, InitBalancesMoves
  <2>3. CoveredOutside(U)'
    BY <2>1, <2>2 DEF FundsOutside, CoveredOutside, Solvent
  <2> QED BY <1>1, <2>3, LeaveFunds
<1>3. CASE ~InitBalances
  <2>1. UNCHANGED bal
    BY <1>3 DEF Boot, Start, CountHistory, SeedHistory, EnsureGroup, StartLoop,
         PollKill, ApplyKill, ReadNothing, ReadBatch, BeginEntry, EndEntries,
         NoDonor, SkipFill, Persist, CopyTrades, CopyBalances, Announce, Ack,
         Wake, Raise, Stop, redis
  <2> QED BY <1>1, <2>1, LeaveFunds DEF FundsOutside, CoveredOutside
<1> QED BY <1>2, <1>3

\* The scanner and the operators move no money.
LEMMA EnvironmentFunds ==
  ASSUME NEW U, TypeOK, BatchShape, FundsOutside(U),
         StoreKill \/ Environment \/ UNCHANGED vars
  PROVE  FundsOutside(U)'
<1>1. UNCHANGED <<bal, pc, cur, buyBal, snap, rb, fill>>
  BY DEF StoreKill, Environment, Publish, PostKill, GatewayKill, vars, redis,
         loop, locals
<1>2. pc \in TradePcs => stream'[cur] = stream[cur]
  <2>1. CASE UNCHANGED stream
    BY <2>1
  <2>2. CASE \E entry \in Routes \cup {Malformed} : Publish(entry)
    <3>1. PICK entry \in Routes \cup {Malformed} : stream' = Append(stream, entry)
      BY <2>2 DEF Publish
    <3>2. \A i \in 1 .. Len(stream) : stream'[i] = stream[i]
      BY <3>1, AppendProperties DEF TypeOK, SequenceType
    <3>3. pc \in TradePcs => cur \in 1 .. Len(stream)
      BY LenProperties DEF TypeOK, CountType, SequenceType, BatchShape,
         TradePcs, BatchPcs, EntryPcs
    <3> QED BY <3>2, <3>3
  <2> QED BY <2>1, <2>2 DEF StoreKill, Environment, PostKill, GatewayKill, vars
<1>3. pc \in FundsPcs => Opp' = Opp
  BY <1>1, <1>2 DEF Opp, FundsPcs, TradePcs, EntryPcs
<1> QED BY <1>1, <1>3 DEF FundsOutside, FundsPcs, CoveredOutside

\* maybe_rebalance reads the balance of the buy exchange.
LEMMA ReadBuyBalanceFunds ==
  ASSUME NEW U, TypeOK, BatchShape, FundsOutside(U), ReadBuyBalance PROVE FundsOutside(U)'
<1>1. /\ UNCHANGED <<bal, stream, fill>> /\ CoveredOutside(U)'
      /\ snap = << >> /\ Len(snap) = 0
  BY EmptySeq DEF ReadBuyBalance, redis, BatchShape, FundsOutside, CoveredOutside
<1>2. CASE pc' = "scan"
  <2>1. buyBal' = bal[Opp.buy] /\ cur' = cur /\ snap' = snap
    BY <1>2 DEF ReadBuyBalance, Size, ReturnNone
  <2>2. Opp' = Opp
    BY <1>1, <2>1 DEF Opp
  <2> QED BY <1>1, <1>2, <2>1, <2>2 DEF FundsOutside
<1>3. CASE pc' = "depth"
  <2>1. /\ buyBal' = bal[Opp.buy] /\ cur' = cur
        /\ Notional(bal[Opp.buy]) >= MinNotional
    BY <1>3 DEF ReadBuyBalance, Size, ReturnNone
  <2>2. Opp' = Opp
    BY <1>1, <2>1 DEF Opp
  <2> QED BY <1>1, <1>3, <2>1, <2>2 DEF FundsOutside
<1>4. CASE pc' = "entry"
  BY <1>1, <1>4, LeaveFunds DEF FundsPcs
<1> QED BY <1>2, <1>3, <1>4 DEF ReadBuyBalance, Size, ReturnNone

\* all_balances reads one exchange: nobody else writes the hashes in between.
LEMMA ScanBalanceFunds ==
  ASSUME NEW U, TypeOK, BatchShape, FundsOutside(U), ScanBalance PROVE FundsOutside(U)'
<1>1. /\ UNCHANGED <<bal, stream, cur, buyBal>> /\ pc = "scan" /\ pc' = "scan"
      /\ Opp' = Opp
  BY DEF ScanBalance, redis, loop, Opp
<1>2. Len(snap) \in Nat /\ Len(Order) \in Nat /\ Len(snap) < Len(Order)
  BY LenProperties, OrderAssumption DEF ScanBalance, Scanned, TypeOK, SequenceType, BatchShape
<1>3. Len(snap) + 1 \in DOMAIN Order /\ Order[Len(snap) + 1] \in Exchanges
  BY <1>2, LenProperties, ElementOfSeq, OrderAssumption
<1>4. bal[Order[Len(snap) + 1]] \in Int
  BY <1>3 DEF Accounts, TypeOK, MoneyType
<1>5. /\ Len(snap') = Len(snap) + 1
      /\ \A k \in 1 .. Len(snap) : snap'[k] = snap[k]
      /\ snap'[Len(snap) + 1] = bal[Order[Len(snap) + 1]]
  BY <1>4, AppendProperties DEF ScanBalance, TypeOK, SequenceType
<1>6. \A k \in 1 .. Len(snap') : Order[k] \notin U => snap'[k] = bal[Order[k]]
  BY <1>1, <1>2, <1>5 DEF FundsOutside
<1> QED BY <1>1, <1>6 DEF FundsOutside, CoveredOutside

\* The donor has what it gives, because it was read above the threshold.
LEMMA DebitDonorFunds ==
  ASSUME NEW U, TypeOK, BatchShape, FundsOutside(U), DebitDonor PROVE FundsOutside(U)'
<1>1. PICK k \in DOMAIN Order :
        /\ snap[k] > Threshold
        /\ rb' = Transfer(k)
        /\ bal' = [bal EXCEPT ![Order[k]] = @ - Transfer(k).gross]
  BY DEF DebitDonor, CanDonate
<1>2. k \in 1 .. Len(snap) /\ Order[k] \in Exchanges
  BY <1>1, LenProperties, ElementOfSeq, OrderAssumption DEF DebitDonor, Scanned
<1>3. /\ Order[k] \notin U => snap[k] = bal[Order[k]]
      /\ snap[k] \in Int /\ bal[Order[k]] \in Int
  BY <1>2, ElementOfSeq DEF TypeOK, SequenceType, MoneyType, Accounts, FundsOutside,
     DebitDonor
<1>4. /\ rb'.receiver = Opp.buy /\ Opp' = Opp /\ pc' = "credit"
      /\ rb'.net = (snap[k] \div 2) - Withdrawal[Order[k]]
      /\ Transfer(k).gross = snap[k] \div 2
  BY <1>1 DEF DebitDonor, Transfer, Opp, loop
<1>5. ASSUME Solvent
      PROVE  rb'.net >= 0 /\ \A e \in Exchanges \ U : bal'[e] >= 0
  BY <1>1, <1>2, <1>3, <1>4, <1>5, HalfCovers
     DEF FundsOutside, CoveredOutside, TypeOK, MoneyType, Accounts
<1> QED BY <1>4, <1>5 DEF FundsOutside, CoveredOutside, Solvent

\* The credit lands on the balance the size was computed with.
LEMMA CreditReceiverFunds ==
  ASSUME NEW U, TypeOK, BatchShape, FundsOutside(U), CreditReceiver PROVE FundsOutside(U)'
<1>1. /\ rb.receiver = Opp.buy /\ rb.receiver \in Exchanges /\ rb.net \in Int
      /\ Solvent => rb.net >= 0
  BY DEF CreditReceiver, FundsOutside, TypeOK, MoneyType, Rebalances
<1>2. bal'[Opp.buy] = BuyBalanceNow /\ CoveredOutside(U)'
  BY <1>1 DEF CreditReceiver, BuyBalanceNow, FundsOutside, CoveredOutside, Solvent,
     TypeOK, MoneyType, Accounts
<1>3. CASE pc' = "depth"
  <2>1. /\ buyBal' = BuyBalanceNow /\ Notional(BuyBalanceNow) >= MinNotional
        /\ Opp' = Opp
    BY <1>3 DEF CreditReceiver, Size, ReturnNone, Opp
  <2> QED BY <1>2, <1>3, <2>1 DEF FundsOutside
<1>4. CASE pc' = "entry"
  BY <1>2, <1>4, LeaveFunds DEF FundsPcs
<1> QED BY <1>3, <1>4 DEF CreditReceiver, Size, ReturnNone

\* The fill charges at most the balance it was sized on.
LEMMA FillFunds ==
  ASSUME NEW U, TypeOK, BatchShape, FundsOutside(U), NEW g \in Gains, Fill(g)
  PROVE  FundsOutside(U)'
<1>1. /\ UNCHANGED <<bal, buyBal>> /\ Opp' = Opp /\ pc = "depth" /\ pc' = "buy"
      /\ fill' = [cost |-> Cost(Notional(buyBal)), proceeds |-> Notional(buyBal) + g]
  BY DEF Fill, redis, loop, Opp
<1>2. Notional(buyBal) \in Int /\ MinNotional \in Nat /\ g \in Int /\ g + MinNotional >= 0
  BY SizeIsInt, MoneyAssumption DEF TypeOK, MoneyType
<1>3. fill'.proceeds >= 0 /\ fill'.cost = Cost(Notional(buyBal))
  BY <1>1, <1>2 DEF FundsOutside
<1> QED BY <1>1, <1>3 DEF FundsOutside, CoveredOutside

\* The buy leg takes no more than there is.
LEMMA BuyLegFunds ==
  ASSUME NEW U, TypeOK, BatchShape, FundsOutside(U), BuyLeg PROVE FundsOutside(U)'
<1>1. Opp.buy \in Exchanges /\ pc = "buy" /\ pc' = "sell"
  BY OppRoute DEF BuyLeg, TradePcs, EntryPcs
<1>2. /\ Opp.buy \notin U => buyBal = bal[Opp.buy]
      /\ buyBal \in Int
      /\ fill.cost = Cost(Notional(buyBal)) /\ fill.proceeds >= 0
      /\ fill' = fill
  BY <1>1 DEF BuyLeg, FundsOutside, TypeOK, MoneyType, locals
<1>3. ASSUME Solvent, NEW e \in Exchanges \ U PROVE bal'[e] >= 0
  <2>0. bal[e] >= 0 /\ bal[e] \in Int
    BY <1>3 DEF FundsOutside, CoveredOutside, TypeOK, MoneyType, Accounts
  <2>1. CASE e # Opp.buy
    BY <1>1, <2>0, <2>1 DEF BuyLeg, TypeOK, MoneyType, Accounts
  <2>2. CASE e = Opp.buy
    <3>1. fill.cost <= bal[e] /\ fill.cost \in Int
      BY <1>2, <1>3, <2>0, <2>2, CostFits, SizeIsInt
    <3> QED BY <1>1, <1>2, <2>0, <2>2, <3>1
            DEF BuyLeg, TypeOK, MoneyType, Accounts
  <2> QED BY <2>1, <2>2
<1> QED BY <1>1, <1>2, <1>3 DEF FundsOutside, CoveredOutside, Solvent

\* The sell leg only adds.
LEMMA SellLegFunds ==
  ASSUME NEW U, TypeOK, BatchShape, FundsOutside(U), SellLeg PROVE FundsOutside(U)'
<1>1. Opp.sell \in Exchanges /\ pc = "sell" /\ pc' = "entry"
  BY OppRoute DEF SellLeg, TradePcs, EntryPcs
<1>2. fill.proceeds >= 0 /\ fill.proceeds \in Int
  BY <1>1 DEF FundsOutside, TypeOK, MoneyType, Fills
<1>3. CoveredOutside(U)'
  BY <1>1, <1>2 DEF SellLeg, FundsOutside, CoveredOutside, Solvent, TypeOK,
     MoneyType, Accounts
<1> QED BY <1>1, <1>3, LeaveFunds DEF FundsPcs

\* Whoever edits the balances in U, the steps of the executor keep to the rest.
LEMMA NextFunds ==
  ASSUME NEW U, TypeOK, BatchShape, FundsOutside(U), [Next]_vars
  PROVE  FundsOutside(U)'
<1>1. CASE Boot \/ Raise \/ Stop
  BY <1>1, IdleFunds
<1>2. CASE StoreKill \/ Environment \/ UNCHANGED vars
  BY <1>2, EnvironmentFunds
<1>3. CASE Iterate
  BY <1>3, IdleFunds, ReadBuyBalanceFunds, ScanBalanceFunds,
     DebitDonorFunds, CreditReceiverFunds, FillFunds, BuyLegFunds,
     SellLegFunds DEF Iterate, Execute
<1> QED BY <1>1, <1>2, <1>3 DEF Next

\* The locals of execute_opportunity and maybe_rebalance agree with Redis at every await.
THEOREM FundsCorrect == Spec => []FundsShape
<1>1. TypeOK /\ BatchShape /\ FundsShape /\ [Next]_vars => FundsShape'
  BY NextFunds DEF FundsShape
<1>2. Init => FundsShape
  BY InitFunds DEF FundsShape
<1> QED BY <1>1, <1>2, TypeCorrect, PTL DEF Spec

\* Under settings that leave room for the fees no balance becomes negative.
THEOREM NeverOverdrawn == Spec => []NonNegative
<1>1. FundsShape => NonNegative
  BY DEF FundsShape, FundsOutside, CoveredOutside, NonNegative
<1> QED BY <1>1, FundsCorrect, PTL

\* The balance a position was sized on is the one the buy leg is charged to.
THEOREM SizedOnCurrent == Spec => []SizedOnCurrentBalance
<1>1. FundsShape => SizedOnCurrentBalance
  BY DEF FundsShape, FundsOutside, SizedOnCurrentBalance
<1> QED BY <1>1, FundsCorrect, PTL

-----------------------------------------------------------------------------
(***************************************************************************)
(* The history explains the balances.                                      *)
(***************************************************************************)
\* pc values at which the hand holds half of a transfer or of a trade
HalfPcs == {"credit", "sell"}

\* There is an exchange.
LEMMA SomeExchange == Exchanges # {}
<1>1. 1 \in DOMAIN Order
  BY LenProperties, OrderAssumption
<1> QED BY <1>1 DEF Exchanges

\* No rebalance, no rows.
LEMMA NoRows == \A e \in Exchanges : RebalanceRows(NoRebalance)[e] = 0
BY DEF RebalanceRows, NoRebalance

\* When no trade is half done, what moved without rows is what is due.
LEMMA NothingInHand ==
  ASSUME TypeOK, pc \notin HalfPcs, rb = NoRebalance
  PROVE  \A e \in Exchanges : InHand[e] = due[e]
BY NoRows DEF InHand, HalfPcs, TypeOK, MoneyType, Accounts

-----------------------------------------------------------------------------
\* Steps that move no money, write no row and end no half-made transfer.
LEMMA QuietExplains ==
  ASSUME TypeOK, UNCHANGED <<bal, ledger, due, rb>>, orphaned \subseteq orphaned',
         pc \notin HalfPcs, pc' \notin HalfPcs
  PROVE  Conserved
<1>1. InHand' = InHand
  BY DEF InHand, HalfPcs, RebalanceRows
<1> QED BY <1>1 DEF Conserved, Gap

\* The group and the switch have nothing to do with money.
LEMMA BootExplains ==
  ASSUME TypeOK, BatchShape, Start \/ CountHistory \/ EnsureGroup \/ StartLoop
  PROVE  Conserved
<1>1. /\ UNCHANGED <<bal, ledger, due, rb, orphaned>>
      /\ pc \notin HalfPcs /\ pc' \notin HalfPcs
  BY DEF Start, CountHistory, EnsureGroup, StartLoop, redis, db, locals,
     output, ghosts, HalfPcs
<1> QED BY <1>1, QuietExplains

\* The scanner and the operators change neither balances nor rows.
LEMMA EnvironmentExplains ==
  ASSUME TypeOK, BatchShape, DueMarks,
         StoreKill \/ Environment \/ UNCHANGED vars
  PROVE  Conserved
<1>1. UNCHANGED <<bal, pc, cur, rb, fill, due, ledger, seeded, orphaned>>
  BY DEF StoreKill, Environment, Publish, PostKill, GatewayKill, vars, redis,
         loop, locals, output, db, ghosts
<1>2. pc \in TradePcs => Opp' = Opp
  <2>1. CASE UNCHANGED stream
    BY <1>1, <2>1 DEF Opp
  <2>2. CASE \E entry \in Routes \cup {Malformed} : Publish(entry)
    <3>1. PICK entry \in Routes \cup {Malformed} : stream' = Append(stream, entry)
      BY <2>2 DEF Publish
    <3>2. \A i \in 1 .. Len(stream) : stream'[i] = stream[i]
      BY <3>1, AppendProperties DEF TypeOK, SequenceType
    <3>3. pc \in TradePcs => cur \in 1 .. Len(stream)
      BY LenProperties DEF TypeOK, CountType, SequenceType, BatchShape,
         TradePcs, BatchPcs, EntryPcs
    <3> QED BY <1>1, <3>2, <3>3 DEF Opp
  <2> QED BY <2>1, <2>2 DEF StoreKill, Environment, PostKill, GatewayKill, vars
<1>3. InHand' = InHand
  <2>1. CASE pc = "sell"
    BY <1>1, <1>2, <2>1 DEF InHand, RebalanceRows, TradePcs, EntryPcs
  <2>2. CASE pc # "sell"
    BY <1>1, <2>2 DEF InHand, RebalanceRows
  <2> QED BY <2>1, <2>2
<1> QED BY <1>1, <1>3 DEF Conserved, Gap

\* Nor do the steps of the loop that move no money.
LEMMA LoopExplains ==
  ASSUME TypeOK, BatchShape, DueMarks,
         \/ PollKill \/ ApplyKill \/ ReadNothing \/ ReadBatch \/ BeginEntry
         \/ EndEntries \/ ReadBuyBalance \/ ScanBalance \/ NoDonor
         \/ (\E g \in Gains : Fill(g)) \/ CopyTrades \/ Announce \/ Ack \/ Wake
  PROVE  Conserved
<1>1. UNCHANGED <<bal, ledger, seeded, due>> /\ pc \notin HalfPcs
      /\ pc' \notin HalfPcs
  BY DEF PollKill, ApplyKill, ReadNothing, ReadBatch, BeginEntry, EndEntries,
     AfterEntries, ReadBuyBalance, ScanBalance, NoDonor, Size, ReturnNone, Fill,
     CopyTrades, Announce, Ack, Wake, redis, db, output, HalfPcs
<1>2. UNCHANGED rb /\ orphaned \subseteq orphaned'
  <2>1. CASE ReadBuyBalance \/ NoDonor
    <3>1. rb = NoRebalance
      BY <2>1 DEF ReadBuyBalance, NoDonor, BatchShape
    <3> QED BY <2>1, <3>1 DEF ReadBuyBalance, NoDonor, Size, ReturnNone
  <2>2. CASE ~(ReadBuyBalance \/ NoDonor)
    BY <2>2 DEF PollKill, ApplyKill, ReadNothing, ReadBatch, BeginEntry,
       EndEntries, ScanBalance, Fill, CopyTrades, Announce, Ack, Wake, locals,
       ghosts
  <2> QED BY <2>1, <2>2
<1> QED BY <1>1, <1>2, QuietExplains

\* The debit of the donor is in flight until its row is due.
LEMMA DebitDonorExplains ==
  ASSUME TypeOK, BatchShape, DueMarks, DebitDonor
  PROVE  Conserved
<1>1. PICK k \in DOMAIN Order :
        /\ rb' = Transfer(k)
        /\ bal' = [bal EXCEPT ![Order[k]] = @ - Transfer(k).gross]
  BY DEF DebitDonor
<1>2. /\ Order[k] \in Exchanges /\ rb'.donor = Order[k]
      /\ rb'.gross = Transfer(k).gross /\ Transfer(k).gross \in Int
  <2>1. k \in DOMAIN snap /\ snap[k] \in Int
    BY LenProperties, OrderAssumption, ElementOfSeq
       DEF DebitDonor, Scanned, TypeOK, SequenceType
  <2> QED BY <1>1, <2>1 DEF Transfer, Exchanges
<1>3. /\ pc = "scan" /\ pc' = "credit" /\ rb = NoRebalance
      /\ UNCHANGED <<ledger, seeded, due, orphaned>>
  BY DEF DebitDonor, BatchShape, db, output, ghosts
<1>4. \A e \in Exchanges : InHand[e] = due[e]
  BY <1>3, NothingInHand DEF HalfPcs
<1>5. \A e \in Exchanges :
         InHand'[e] = due[e] + (IF e = Order[k] THEN - Transfer(k).gross ELSE 0)
  BY <1>2, <1>3 DEF InHand, TypeOK, MoneyType, Accounts
<1>6. \A e \in Exchanges : bal[e] \in Int /\ ledger[e] \in Int /\ due[e] \in Int
  BY DEF TypeOK, MoneyType, Accounts
<1>7. \A e \in Exchanges :
         bal'[e] = bal[e] + (IF e = Order[k] THEN - Transfer(k).gross ELSE 0)
  BY <1>1, <1>2, <1>6 DEF TypeOK, MoneyType, Accounts
<1> QED BY <1>2, <1>3, <1>4, <1>5, <1>6, <1>7
        DEF Conserved, Gap

\* The credit completes the transfer the rows describe.
LEMMA CreditReceiverExplains ==
  ASSUME TypeOK, BatchShape, DueMarks, CreditReceiver
  PROVE  Conserved
<1>1. /\ pc = "credit" /\ rb.receiver \in Exchanges /\ rb.donor \in Exchanges
      /\ rb.net \in Int /\ rb.gross \in Int /\ rb # NoRebalance
      /\ UNCHANGED <<ledger, seeded, due>>
      /\ bal' = [bal EXCEPT ![rb.receiver] = @ + rb.net]
  BY DEF CreditReceiver, DueMarks, NoRebalance, TypeOK,
     MoneyType, Rebalances, db, output
<1>2. CASE pc' = "entry"
  <2>1. orphaned' # {} /\ orphaned \subseteq orphaned'
    BY <1>1, <1>2 DEF CreditReceiver, Size, ReturnNone
  <2> QED BY <2>1 DEF Conserved, Gap
<1>3. CASE pc' = "depth"
  <2>1. UNCHANGED <<rb, orphaned>>
    BY <1>3 DEF CreditReceiver, Size, ReturnNone
  <2>2. \A e \in Exchanges : bal[e] \in Int /\ ledger[e] \in Int /\ due[e] \in Int
    BY DEF TypeOK, MoneyType, Accounts
  <2>3. \A e \in Exchanges :
           /\ InHand[e] = due[e] + (IF e = rb.donor THEN - rb.gross ELSE 0)
           /\ InHand'[e] = due[e] + ((IF e = rb.donor THEN - rb.gross ELSE 0)
                                     + (IF e = rb.receiver THEN rb.net ELSE 0))
    BY <1>1, <1>3, <2>1, <2>2 DEF InHand, RebalanceRows
  <2>4. \A e \in Exchanges :
           bal'[e] = bal[e] + (IF e = rb.receiver THEN rb.net ELSE 0)
    BY <1>1, <2>2 DEF TypeOK, MoneyType, Accounts
  <2> QED BY <1>1, <2>1, <2>2, <2>3, <2>4
          DEF Conserved, Gap
<1> QED BY <1>2, <1>3 DEF CreditReceiver, Size, ReturnNone

\* A skipped trade leaves its rebalance without rows: the entry is marked.
LEMMA SkipFillExplains ==
  ASSUME TypeOK, BatchShape, DueMarks, SkipFill
  PROVE  Conserved
<1>1. CASE rb = NoRebalance
  BY <1>1, QuietExplains
     DEF SkipFill, ReturnNone, HalfPcs, redis, db, output
<1>2. CASE rb # NoRebalance
  <2>1. orphaned' # {} /\ orphaned \subseteq orphaned'
    BY <1>2 DEF SkipFill, ReturnNone
  <2> QED BY <2>1 DEF Conserved, Gap
<1> QED BY <1>1, <1>2

\* The buy leg is in flight until the sell leg.
LEMMA BuyLegExplains ==
  ASSUME TypeOK, BatchShape, DueMarks, BuyLeg
  PROVE  Conserved
<1>1. /\ pc = "buy" /\ pc' = "sell" /\ Opp' = Opp /\ Opp.buy \in Exchanges
      /\ UNCHANGED <<ledger, seeded, due, rb, fill, orphaned>>
      /\ fill.cost \in Int
      /\ bal' = [bal EXCEPT ![Opp.buy] = @ - fill.cost]
  BY OppRoute DEF BuyLeg, TradePcs, EntryPcs, Opp, loop, locals, db, output,
     TypeOK, MoneyType, Fills
<1>2. \A e \in Exchanges : /\ bal[e] \in Int /\ ledger[e] \in Int
                           /\ due[e] \in Int /\ RebalanceRows(rb)[e] \in Int
  BY DEF TypeOK, MoneyType, Accounts, RebalanceRows, Rebalances
<1>3. \A e \in Exchanges :
         /\ InHand[e] = due[e] + RebalanceRows(rb)[e]
         /\ InHand'[e] = due[e] + RebalanceRows(rb)[e]
                         + (IF e = Opp.buy THEN - fill.cost ELSE 0)
  BY <1>1, <1>2 DEF InHand, RebalanceRows
<1>4. \A e \in Exchanges :
         bal'[e] = bal[e] + (IF e = Opp.buy THEN - fill.cost ELSE 0)
  BY <1>1, <1>2 DEF TypeOK, MoneyType, Accounts
<1> QED BY <1>1, <1>2, <1>3, <1>4 DEF Conserved, Gap

\* After the sell leg both are due as rows of the result.
LEMMA SellLegExplains ==
  ASSUME TypeOK, BatchShape, DueMarks, SellLeg
  PROVE  Conserved
<1> DEFINE row(e) == RebalanceRows(rb)[e]
           cost(e) == IF e = Opp.buy THEN - fill.cost ELSE 0
           sold(e) == IF e = Opp.sell THEN fill.proceeds ELSE 0
<1>1. /\ pc = "sell" /\ pc' = "entry" /\ Opp.sell \in Exchanges
      /\ UNCHANGED <<ledger, seeded, orphaned>>
      /\ rb' = NoRebalance
      /\ bal' = [bal EXCEPT ![Opp.sell] = @ + fill.proceeds]
      /\ due' = Plus(due, Plus(RebalanceRows(rb), TradeRows(Opp, fill)))
  BY OppRoute DEF SellLeg, TradePcs, EntryPcs, db
<1>2. \A e \in Exchanges : /\ bal[e] \in Int /\ ledger[e] \in Int
                           /\ due[e] \in Int /\ row(e) \in Int
                           /\ cost(e) \in Int /\ sold(e) \in Int
  BY DEF TypeOK, MoneyType, Accounts, RebalanceRows, Rebalances, Fills
<1>3. \A e \in Exchanges : InHand[e] = due[e] + row(e) + cost(e)
  BY <1>1, <1>2 DEF InHand
<1>4. \A e \in Exchanges : due'[e] = due[e] + (row(e) + (cost(e) + sold(e)))
  BY <1>1 DEF Plus, TradeRows
<1>5. \A e \in Exchanges : InHand'[e] = due'[e]
  <2>1. \A e \in Exchanges : due'[e] \in Int
    BY <1>2, <1>4
  <2> QED BY <1>1, <2>1 DEF InHand, RebalanceRows, NoRebalance
<1>6. \A e \in Exchanges : bal'[e] = bal[e] + sold(e)
  BY <1>1, <1>2 DEF TypeOK, MoneyType, Accounts
<1> HIDE DEF row, cost, sold
<1> QED BY <1>1, <1>2, <1>3, <1>4, <1>5, <1>6
        DEF Conserved, Gap

\* The COPY writes what is due.
LEMMA CopyBalancesExplains ==
  ASSUME TypeOK, BatchShape, DueMarks, CopyBalances
  PROVE  Conserved
<1>1. /\ rb = NoRebalance /\ rb' = rb /\ pc \notin HalfPcs /\ pc' \notin HalfPcs
      /\ UNCHANGED <<bal, seeded, orphaned>>
      /\ ledger' = Plus(ledger, due) /\ due' = Zero
  BY DEF CopyBalances, BatchShape, HalfPcs, redis, locals, ghosts
<1>2. \A e \in Exchanges : InHand[e] = due[e]
  BY <1>1, NothingInHand
<1>3. \A e \in Exchanges : InHand'[e] = 0
  BY <1>1, NoRows DEF InHand, HalfPcs, Zero, RebalanceRows
<1>4. \A e \in Exchanges : /\ ledger'[e] = ledger[e] + due[e]
                           /\ ledger[e] \in Int /\ due[e] \in Int
                           /\ bal[e] \in Int
  BY <1>1 DEF Plus, TypeOK, MoneyType, Accounts
<1> QED BY <1>1, <1>2, <1>3, <1>4 DEF Conserved, Gap

\* A failure or a stop marks every entry whose rows are still due.
LEMMA FailureExplains ==
  ASSUME TypeOK, BatchShape, DueMarks, Raise \/ Stop
  PROVE  Conserved
<1>1. /\ Forget /\ UNCHANGED <<bal, ledger, seeded>>
      /\ pc' \notin HalfPcs
  BY DEF Raise, Stop, AfterError, redis, db, HalfPcs
<1>2. SUFFICES ASSUME orphaned' = {} PROVE Conserved
  BY <1>1 DEF Conserved, Forget
<1>3. orphaned = {} /\ rb = NoRebalance /\ pc # "sell" /\ Executing \subseteq booked
  BY <1>1, <1>2 DEF Forget, Unrecorded
<1>4. pc # "credit"
  BY <1>3 DEF DueMarks, NoRebalance
<1>5. due = Zero
  <2>1. CASE pc \in UncopiedPcs
    <3>1. Executing = {}
      BY <1>3, <2>1 DEF DueMarks
    <3>2. results = << >>
      <4>1. results \in Seq(Ids)
        BY DEF TypeOK, SequenceType
      <4>2. DOMAIN results = {}
        BY <3>1 DEF Executing
      <4> QED BY <4>1, <4>2, LenProperties, EmptySeq
    <3> QED BY <3>2 DEF DueMarks
  <2>2. CASE pc \notin UncopiedPcs
    BY <2>2 DEF DueMarks
  <2> QED BY <2>1, <2>2
<1>6. \A e \in Exchanges : InHand[e] = 0
  BY <1>3, <1>4, <1>5, NothingInHand DEF HalfPcs, Zero
<1>7. \A e \in Exchanges : InHand'[e] = 0
  BY <1>1, NoRows DEF Forget, InHand, HalfPcs, Zero, RebalanceRows
<1> QED BY <1>1, <1>3, <1>6, <1>7 DEF Conserved, Gap

-----------------------------------------------------------------------------
\* Nothing has moved before the history is seeded.
LEMMA NextSeedMarks ==
  ASSUME TypeOK, BatchShape, HistoryShape, [Next]_vars PROVE SeedMarks'
<1>1. CASE Boot
  <2>1. UNCHANGED due /\ has \subseteq Exchanges
    BY <1>1 DEF Boot, Start, InitBalances, CountHistory, SeedHistory,
       EnsureGroup, StartLoop, output, TypeOK, MarkType
  <2>2. CASE Start \/ CountHistory \/ EnsureGroup \/ StartLoop
    BY <2>1, <2>2 DEF Start, CountHistory, EnsureGroup, StartLoop, redis, db,
       HistoryShape, SeedMarks, BootPcs
  <2>3. CASE InitBalances
    <3>1. /\ has \subseteq has' /\ has' \subseteq Exchanges
          /\ \A e \in Exchanges :
                bal'[e] = IF e \in has' \ has THEN Initial[e] ELSE bal[e]
      BY <2>3, InitBalancesMoves
    <3>2. /\ UNCHANGED <<seeded, ledger>>
          /\ pc = "bootBalances" /\ pc' \in {"bootBalances", "bootSeed"}
          /\ pc' = "bootSeed" => has' = Exchanges
      BY <2>3 DEF InitBalances, db
    <3>3. ~seeded => \A e \in has' : bal'[e] = Initial[e]
      BY <2>1, <3>1 DEF HistoryShape, SeedMarks
    <3> QED BY <2>1, <3>1, <3>2, <3>3 DEF HistoryShape, SeedMarks, BootPcs
  <2>4. CASE SeedHistory
    BY <2>1, <2>4 DEF SeedHistory, redis, HistoryShape, SeedMarks, BootPcs
  <2> QED BY <1>1, <2>2, <2>3, <2>4 DEF Boot
<1>2. CASE Iterate \/ Raise
  <2>1. seeded /\ has = Exchanges
    BY <1>2 DEF Iterate, PollKill, ApplyKill, ReadNothing, ReadBatch,
       BeginEntry, EndEntries, Execute, ReadBuyBalance, ScanBalance, NoDonor,
       DebitDonor, CreditReceiver, SkipFill, Fill, BuyLeg, SellLeg, Persist,
       CopyTrades, CopyBalances, Announce, Ack, Wake, Raise, LoopPcs, EntryPcs,
       BootPcs, HistoryShape, SeedMarks
  <2>2. UNCHANGED <<seeded, has>>
    BY <1>2 DEF Iterate, PollKill, ApplyKill, ReadNothing, ReadBatch,
       BeginEntry, EndEntries, Execute, ReadBuyBalance, ScanBalance, NoDonor,
       DebitDonor, CreditReceiver, SkipFill, Fill, BuyLeg, SellLeg, Persist,
       CopyTrades, CopyBalances, Announce, Ack, Wake, Raise, redis, db
  <2>3. pc' # "bootCopy"
    BY <1>2 DEF Iterate, PollKill, ApplyKill, ReadNothing, ReadBatch,
       BeginEntry, EndEntries, AfterEntries, Execute, ReadBuyBalance,
       ScanBalance, NoDonor, DebitDonor, CreditReceiver, SkipFill, Size,
       ReturnNone, Fill, BuyLeg, SellLeg, Persist, CopyTrades, CopyBalances,
       Announce, Ack, Wake, Raise, AfterError
  <2> QED BY <2>1, <2>2, <2>3 DEF SeedMarks
<1>3. CASE Stop
  BY <1>3 DEF Stop, Forget, redis, db, HistoryShape, SeedMarks, BootPcs
<1>4. CASE StoreKill \/ Environment \/ UNCHANGED vars
  <2>1. UNCHANGED <<has, bal, seeded, ledger, due, pc>>
    BY <1>4 DEF StoreKill, Environment, Publish, PostKill, GatewayKill, vars,
       redis, db, output
  <2> QED BY <2>1 DEF HistoryShape, SeedMarks
<1> QED BY <1>1, <1>2, <1>3, <1>4 DEF Next

\* Steps that neither touch the results nor what is due or booked.
LEMMA QuietMarks ==
  ASSUME TypeOK, BatchShape, DueMarks,
         UNCHANGED <<results, due, booked, lo, hi, last>>,
         pc' \in EntryPcs => pc \in EntryPcs,
         pc' \in {"copyTrades", "copyBalances"} => pc \in UncopiedPcs,
         pc' \in BatchPcs => pc \in BatchPcs,
         pc' \notin UncopiedPcs => pc \notin UncopiedPcs \/ results = << >>,
         pc' \notin EntryPcs \cup PersistPcs =>
             pc \notin EntryPcs \cup PersistPcs \/ results = << >>,
         pc' = "credit" => rb'.donor # rb'.receiver
  PROVE  DueMarks'
<1>1. Executing' = Executing
  BY DEF Executing
<1>2. pc' \in UncopiedPcs => pc \in UncopiedPcs
  BY DEF UncopiedPcs
<1> QED BY <1>1, <1>2 DEF DueMarks

\* Only entries that moved money are due.
LEMMA NextDueMarks ==
  ASSUME TypeOK, BatchShape, DueMarks, [Next]_vars PROVE DueMarks'
<1> USE DEF EntryPcs, PersistPcs, BatchPcs, UncopiedPcs
<1>1. CASE Boot \/ PollKill \/ ApplyKill \/ ReadNothing \/ Wake
  <2>1. /\ UNCHANGED <<results, due, booked, lo, hi, last>> \/ EnsureGroup
        /\ pc' \in BootPcs \cup {"poll", "apply", "read"}
        /\ pc \in BootPcs \cup {"poll", "apply", "read", "sleep"}
    BY <1>1 DEF Boot, Start, InitBalances, CountHistory, SeedHistory,
         EnsureGroup, StartLoop,
       PollKill, ApplyKill, ReadNothing, Wake, BootPcs, output, loop, db, cgroup
  <2>2. CASE ~EnsureGroup
    BY <2>1, <2>2, QuietMarks DEF BootPcs
  <2>3. CASE EnsureGroup
    <3>1. /\ UNCHANGED <<results, due, booked, lo, hi>> /\ last <= last'
          /\ last \in Int /\ last' \in Int
      BY <2>3, LenProperties DEF EnsureGroup, output, loop, db, BatchShape,
         TypeOK, CountType, SequenceType
    <3>2. \A i \in booked : i \in Int
      BY DEF TypeOK, MarkType, Ids
    <3>3. \A i \in booked' : i <= last'
      BY <3>1, <3>2 DEF DueMarks
    <3> QED BY <2>1, <3>1, <3>3 DEF DueMarks, BootPcs
  <2> QED BY <2>2, <2>3
<1>2. CASE ReadBatch
  <2>1. /\ pc = "read" /\ pc' = "entry" /\ last' = hi'
        /\ UNCHANGED <<results, due, booked>> /\ results = << >>
    BY <1>2 DEF ReadBatch, output, db, DueMarks
  <2>2. last < lo' /\ last <= hi' /\ last \in Int /\ hi' \in Int /\ lo' \in Int
    BY <1>2, ReadBatchBounds
  <2>3. \A i \in booked : i <= last /\ i \in Int
    BY DEF DueMarks, TypeOK, MarkType, Ids
  <2>4. Executing' = {}
    BY <2>1, EmptySeq DEF Executing
  <2>5. \A i \in booked : i < lo' /\ i <= last'
    BY <2>1, <2>2, <2>3
  <2> QED BY <2>1, <2>4, <2>5 DEF DueMarks
<1>3. CASE BeginEntry \/ ReadBuyBalance \/ ScanBalance \/ NoDonor
           \/ CreditReceiver \/ SkipFill \/ (\E g \in Gains : Fill(g)) \/ BuyLeg
  <2>1. /\ UNCHANGED <<results, due, booked, lo, hi, last>>
        /\ pc \in EntryPcs /\ pc' \in EntryPcs /\ pc' # "credit"
    BY <1>3 DEF BeginEntry, ReadBuyBalance, ScanBalance, NoDonor,
       CreditReceiver, SkipFill, Fill, BuyLeg, Size, ReturnNone, output, db,
       loop, cgroup
  <2> QED BY <2>1, QuietMarks
<1>4. CASE DebitDonor
  <2>1. /\ UNCHANGED <<results, due, booked, lo, hi, last>>
        /\ pc \in EntryPcs /\ pc' \in EntryPcs
    BY <1>4 DEF DebitDonor, output, db, loop, cgroup
  <2>2. rb'.donor # rb'.receiver
    BY <1>4 DEF DebitDonor, Transfer, CanDonate
  <2> QED BY <2>1, <2>2, QuietMarks
<1>5. CASE SellLeg
  <2>1. /\ pc = "sell" /\ pc' = "entry" /\ UNCHANGED <<booked, lo, hi, last>>
        /\ results' = Append(results, cur) /\ results \in Seq(Ids)
    BY <1>5 DEF SellLeg, db, cgroup, TypeOK, SequenceType
  <2>2. cur \in Ids /\ lo <= cur /\ cur <= hi
    BY <2>1, OppRoute DEF BatchShape, TradePcs
  <2>3. Executing' = Executing \cup {cur}
    <3>1. {Append(results, cur)[k] : k \in DOMAIN Append(results, cur)}
            = {results[k] : k \in DOMAIN results} \cup {cur}
      BY <2>1, <2>2, AppendRange
    <3> QED BY <2>1, <3>1 DEF Executing
  <2>4. results' # << >>
    BY <2>1, <2>2, AppendProperties, EmptySeq
  <2>5. \A i \in booked : i < lo /\ i \in Int
    BY <2>1 DEF DueMarks, TypeOK, MarkType, Ids
  <2>6. cur \notin booked
    BY <2>2, <2>5 DEF TypeOK, CountType
  <2>7. booked' \cap Executing' = {}
    BY <2>1, <2>3, <2>6 DEF DueMarks
  <2>8. \A i \in Executing' : lo <= i /\ i <= hi
    BY <2>1, <2>2, <2>3 DEF DueMarks
  <2> QED BY <2>1, <2>4, <2>7, <2>8 DEF DueMarks
<1>6. CASE EndEntries \/ CopyTrades \/ Ack
  <2>1. UNCHANGED <<results, due, booked, lo, hi, last>>
    BY <1>6 DEF EndEntries, CopyTrades, Ack, output, db, loop, cgroup
  <2>2. \/ pc = "entry" /\ pc' = "ack" /\ results = << >>
        \/ pc = "entry" /\ pc' = "copyTrades"
        \/ pc = "copyTrades" /\ pc' = "copyBalances"
        \/ pc = "ack" /\ pc' = "poll"
    BY <1>6 DEF EndEntries, AfterEntries, CopyTrades, Ack
  <2> QED BY <2>1, <2>2, QuietMarks
<1>7. CASE CopyBalances
  <2>1. /\ pc = "copyBalances" /\ pc' = "announce" /\ due' = Zero
        /\ UNCHANGED <<results, lo, hi, last>>
        /\ booked' = booked \cup Executing /\ Executing' = Executing
    BY <1>7 DEF CopyBalances, cgroup, loop, Executing
  <2>2. \A i \in Executing : i <= last
    BY <2>1 DEF DueMarks, BatchShape
  <2> QED BY <2>1, <2>2 DEF DueMarks
<1>8. CASE Announce
  <2>1. /\ pc = "announce" /\ due' = due /\ due = Zero
        /\ UNCHANGED <<booked, lo, hi, last>>
        /\ \/ pc' = "ack" /\ results' = << >>
           \/ pc' = "announce"
    BY <1>8 DEF Announce, db, loop, cgroup, DueMarks
  <2>2. Executing' \subseteq Executing
    BY <1>8, TailRange DEF Announce, Executing, BatchShape, TypeOK, SequenceType
  <2> QED BY <2>1, <2>2 DEF DueMarks
<1>9. CASE Raise \/ Stop
  <2>1. /\ results' = << >> /\ due' = Zero /\ pc' \in {"down", "sleep"}
        /\ UNCHANGED <<booked, last>>
    BY <1>9 DEF Raise, AfterError, Stop, Forget, db, cgroup
  <2> QED BY <2>1 DEF DueMarks
<1>10. CASE StoreKill \/ Environment \/ UNCHANGED vars
  <2>1. UNCHANGED <<results, due, booked, lo, hi, last, pc, rb>>
    BY <1>10 DEF StoreKill, Environment, Publish, PostKill, GatewayKill, vars,
       loop, locals, output, db, cgroup
  <2>2. pc' = "credit" => rb'.donor # rb'.receiver
    BY <2>1 DEF DueMarks
  <2> QED BY <2>1, <2>2, QuietMarks
<1> QED BY <1>1, <1>2, <1>3, <1>4, <1>5, <1>6, <1>7, <1>8, <1>9, <1>10
        DEF Next, Iterate, Execute, Persist

\* Outside the writes of the boot, what a balance gains is what the history and
\* the hand gain, unless rows are dropped.
LEMMA StepConserves ==
  ASSUME TypeOK, BatchShape, DueMarks, [Next]_vars
  PROVE  InitBalances \/ SeedHistory \/ Conserved
BY BootExplains, FailureExplains, EnvironmentExplains, LoopExplains,
   DebitDonorExplains, CreditReceiverExplains, SkipFillExplains,
   BuyLegExplains, SellLegExplains, CopyBalancesExplains
   DEF Next, Boot, Iterate, Execute, Persist

\* The rows of the boot are the balances of the boot.
LEMMA SeedExplains ==
  ASSUME TypeOK, BatchShape, HistoryShape, InitBalances \/ SeedHistory
  PROVE  HistoryExplainsBalance'
<1>1. /\ pc \in BootPcs /\ pc \notin HalfPcs /\ pc' \notin HalfPcs
      /\ rb = NoRebalance /\ due = Zero /\ UNCHANGED <<rb, due, orphaned>>
  BY DEF InitBalances, SeedHistory, locals, output, ghosts, BootPcs, HalfPcs,
     BatchShape, HistoryShape, DueMarks, UncopiedPcs, EntryPcs
<1>2. \A e \in Exchanges : InHand'[e] = 0 /\ InHand[e] = 0
  BY <1>1, NoRows DEF InHand, HalfPcs, Zero, RebalanceRows
<1>3. CASE InitBalances
  <2>1. seeded => \A e \in Exchanges : bal'[e] = bal[e]
    BY <1>3, InitBalancesMoves DEF HistoryShape, SeedMarks
  <2> QED BY <1>1, <1>2, <1>3, <2>1
          DEF InitBalances, db, HistoryShape, HistoryExplainsBalance
<1>4. CASE SeedHistory
  <2>1. /\ \A e \in Exchanges : bal[e] = Initial[e] /\ ledger[e] = 0
        /\ ledger' = Plus(ledger, Initial) /\ UNCHANGED bal
    BY <1>4 DEF SeedHistory, redis, HistoryShape, SeedMarks, Zero
  <2> QED BY <1>1, <1>2, <2>1, MoneyAssumption
          DEF Plus, HistoryExplainsBalance
<1> QED BY <1>3, <1>4

\* The types of what a balance is made up of.
LEMMA MoneyIsInt ==
  ASSUME TypeOK
  PROVE  \A e \in Exchanges : /\ bal[e] \in Int /\ ledger[e] \in Int
                              /\ InHand[e] \in Int
<1>1. \A e \in Exchanges : /\ bal[e] \in Int /\ ledger[e] \in Int
                           /\ due[e] \in Int /\ RebalanceRows(rb)[e] \in Int
                           /\ rb.gross \in Int /\ fill.cost \in Int
  BY DEF TypeOK, MoneyType, Accounts, RebalanceRows, Rebalances, Fills
<1>2. \A e \in Exchanges : InHand[e] \in Int
  BY <1>1 DEF InHand
<1> QED BY <1>1, <1>2

\* The history goes on explaining the balances.
LEMMA NextExplains ==
  ASSUME TypeOK, TypeOK', BatchShape, HistoryShape, [Next]_vars
  PROVE  HistoryExplainsBalance'
<1>1. CASE InitBalances \/ SeedHistory
  BY <1>1, SeedExplains
<1>2. CASE ~(InitBalances \/ SeedHistory)
  <2>1. Conserved
    BY <1>2, StepConserves DEF HistoryShape
  <2>2. UNCHANGED seeded
    BY <1>2 DEF Next, Boot, Start, CountHistory, EnsureGroup, StartLoop,
       Iterate, PollKill, ApplyKill, ReadNothing, ReadBatch, BeginEntry, EndEntries, Execute,
       ReadBuyBalance, ScanBalance, NoDonor, DebitDonor, CreditReceiver,
       SkipFill, Fill, BuyLeg, SellLeg, Persist, CopyTrades, CopyBalances,
       Announce, Ack, Wake, Raise, Stop, StoreKill, Environment, Publish,
       PostKill, GatewayKill, vars, db
  <2>3. /\ \A e \in Exchanges : /\ bal[e] \in Int /\ ledger[e] \in Int
                                /\ InHand[e] \in Int
        /\ \A e \in Exchanges : /\ bal'[e] \in Int /\ ledger'[e] \in Int
                                /\ InHand'[e] \in Int
    <3>1. TypeOK' => (\A e \in Exchanges : /\ bal[e] \in Int /\ ledger[e] \in Int
                                           /\ InHand[e] \in Int)'
      BY MoneyIsInt, PTL
    <3> QED BY <3>1, MoneyIsInt
  <2>4. \A a, b, c : a \in Int /\ b \in Int /\ c \in Int =>
           (a - b - c = 0 <=> a = b + c)
    OBVIOUS
  <2> QED BY <2>1, <2>2, <2>3, <2>4
          DEF Conserved, Gap, HistoryShape, HistoryExplainsBalance
<1> QED BY <1>1, <1>2

\* Nothing moved, nothing written.
LEMMA InitHistory == Init => HistoryShape
<1> SUFFICES ASSUME Init PROVE HistoryShape
  OBVIOUS
<1>1. Executing = {}
  BY EmptySeq DEF Init, Executing
<1> QED BY <1>1 DEF Init, HistoryShape, SeedMarks, DueMarks,
           HistoryExplainsBalance, BootPcs, BatchPcs, EntryPcs, PersistPcs,
           UncopiedPcs

\* The inductive invariant: what is seeded, due, booked and in hand.
THEOREM HistoryCorrect == Spec => []HistoryShape
<1>1. TypeOK /\ TypeOK' /\ BatchShape /\ HistoryShape /\ [Next]_vars
        => HistoryShape'
  <2> SUFFICES ASSUME TypeOK, TypeOK', BatchShape, HistoryShape, [Next]_vars
               PROVE  HistoryShape'
    OBVIOUS
  <2>1. HistoryExplainsBalance'
    BY NextExplains
  <2>2. DueMarks'
    BY NextDueMarks DEF HistoryShape
  <2> QED BY <2>1, <2>2, NextSeedMarks DEF HistoryShape
<1> QED BY <1>1, InitHistory, TypeCorrect, PTL DEF Spec

\* While no result has been dropped, the balances are the sums of the history.
THEOREM BalancesAreExplained == Spec => []HistoryExplainsBalance
<1>1. HistoryShape => HistoryExplainsBalance
  BY DEF HistoryShape
<1> QED BY <1>1, HistoryCorrect, PTL

-----------------------------------------------------------------------------
(***************************************************************************)
(* The order of _persist, and the kill switch.                             *)
(***************************************************************************)
\* Nothing announced, nothing bought.
LEMMA InitStored == Init => StoredShape /\ BarredShape
BY DEF Init, StoredShape, AnnouncedIsStored, BarredShape

\* _persist writes the rows before it announces them.
LEMMA NextStored ==
  ASSUME TypeOK, BatchShape, StoredShape, [Next]_vars PROVE StoredShape'
<1>1. CASE CopyTrades
  BY <1>1 DEF CopyTrades, StoredShape, AnnouncedIsStored, Executing, output
<1>2. CASE CopyBalances
  BY <1>2 DEF CopyBalances, StoredShape, AnnouncedIsStored, Executing
<1>3. CASE Announce
  <2>1. Executing = Executing' \cup {Head(results)}
    BY <1>3, TailRange DEF Announce, Executing, TypeOK, SequenceType,
       BatchShape, PersistPcs
  <2> QED BY <1>3, <2>1 DEF Announce, StoredShape, AnnouncedIsStored
<1>4. CASE /\ UNCHANGED <<announced, booked, trades>>
           /\ \/ pc' \notin {"copyBalances", "announce"}
              \/ UNCHANGED <<pc, results>>
  BY <1>4 DEF StoredShape, AnnouncedIsStored, Executing
<1>5. ~CopyTrades /\ ~CopyBalances /\ ~Announce =>
         /\ UNCHANGED <<announced, booked, trades>>
         /\ \/ pc' \notin {"copyBalances", "announce"}
            \/ UNCHANGED <<pc, results>>
  <2>1. ASSUME Boot \/ Raise \/ Stop \/ StoreKill \/ Environment \/ UNCHANGED vars
        PROVE  /\ UNCHANGED <<announced, booked, trades>>
               /\ \/ pc' \notin {"copyBalances", "announce"}
                  \/ UNCHANGED <<pc, results>>
    BY <2>1 DEF Boot, Start, InitBalances, CountHistory, SeedHistory,
         EnsureGroup, StartLoop,
         Raise, Stop, StoreKill, AfterError,
         Environment, Publish, PostKill, GatewayKill, vars, db, output
  <2>2. ASSUME \/ PollKill \/ ApplyKill \/ ReadNothing \/ ReadBatch
               \/ BeginEntry \/ EndEntries \/ Execute \/ Ack \/ Wake
        PROVE  /\ UNCHANGED <<announced, booked, trades>>
               /\ pc' \notin {"copyBalances", "announce"}
    BY <2>2 DEF PollKill, ApplyKill, ReadNothing, ReadBatch, BeginEntry,
         EndEntries, AfterEntries, Execute, ReadBuyBalance, ScanBalance,
         NoDonor, DebitDonor, CreditReceiver, SkipFill, Fill, BuyLeg, SellLeg,
         Size, ReturnNone, Ack, Wake, db
  <2> QED BY <2>1, <2>2 DEF Next, Iterate, Persist
<1> QED BY <1>1, <1>2, <1>3, <1>4, <1>5

\* The loop applies the switch before it reads a batch.
LEMMA NextBarred ==
  ASSUME TypeOK, BarredShape, [Next]_vars PROVE BarredShape'
<1>1. CASE PollKill
  BY <1>1 DEF PollKill, BarredShape, TradePcs, EntryPcs
<1>2. CASE ApplyKill
  BY <1>2 DEF ApplyKill, BarredShape, TradePcs, EntryPcs, ghosts
<1>3. CASE \E active \in BOOLEAN : PostKill(active)
  <2>1. PICK active \in BOOLEAN : PostKill(active)
    BY <1>3
  <2>2. /\ UNCHANGED <<pc, reply>> /\ flag' = active
        /\ barred' = (barred /\ active)
    BY <2>1 DEF PostKill, locals
  <2>3. SUFFICES ASSUME barred'
                 PROVE  /\ pc' \notin TradePcs
                        /\ pc' = "apply" => reply'
                        /\ pc' \in {"read", "entry"} => flag'
    BY DEF BarredShape
  <2>4. barred /\ active
    BY <2>2, <2>3, Zenon
  <2> QED BY <2>2, <2>4, Zenon DEF BarredShape
<1>4. CASE Boot \/ Raise \/ Stop \/ StoreKill \/ UNCHANGED vars
           \/ (\E entry \in Routes \cup {Malformed} : Publish(entry))
           \/ (\E active \in BOOLEAN : GatewayKill(active))
  <2>1. CASE Boot \/ Raise \/ Stop
    <3>1. pc' \in BootPcs \cup {"poll", "sleep"}
      BY <2>1 DEF Boot, Start, InitBalances, CountHistory, SeedHistory,
         EnsureGroup, StartLoop, Raise, Stop, AfterError, BootPcs
    <3> QED BY <3>1 DEF BarredShape, BootPcs, TradePcs, EntryPcs
  <2>2. CASE StoreKill \/ UNCHANGED vars
             \/ (\E entry \in Routes \cup {Malformed} : Publish(entry))
             \/ (\E active \in BOOLEAN : GatewayKill(active))
    <3>1. UNCHANGED <<pc, flag, reply, barred>>
      BY <2>2 DEF StoreKill, Publish, GatewayKill, vars, locals, ghosts
    <3> QED BY <3>1 DEF BarredShape
  <2> QED BY <1>4, <2>1, <2>2
<1>5. CASE ReadNothing \/ ReadBatch \/ BeginEntry \/ EndEntries \/ Persist
           \/ Ack \/ Wake
  BY <1>5 DEF ReadNothing, ReadBatch, BeginEntry, EndEntries, AfterEntries,
       Persist, CopyTrades, CopyBalances, Announce, Ack, Wake, ghosts, locals,
       BarredShape, TradePcs, EntryPcs
<1>6. CASE Execute
  <2>1. pc \in TradePcs /\ barred' = barred
    BY <1>6 DEF Execute, ReadBuyBalance, ScanBalance,
         NoDonor, DebitDonor, CreditReceiver, SkipFill, Fill, BuyLeg, SellLeg,
         TradePcs, EntryPcs, ghosts
  <2> QED BY <2>1 DEF BarredShape
<1> QED BY <1>1, <1>2, <1>3, <1>4, <1>5, <1>6 DEF Next, Iterate, Environment

\* What the stream `trades` announces can be found in the database.
THEOREM AnnouncedAreStored == Spec => []AnnouncedIsStored
<1>1. Spec => []StoredShape
  BY InitStored, NextStored, TypeCorrect, PTL DEF Spec
<1>2. StoredShape => AnnouncedIsStored
  BY DEF StoredShape
<1> QED BY <1>1, <1>2, PTL

\* Where the switch was seen on, the loop is before or past its purchases.
LEMMA BarredBuys ==
  ASSUME BarredShape, [Next]_vars PROVE barred => UNCHANGED bought
BY DEF Next, Boot, Start, InitBalances, CountHistory, SeedHistory,
         EnsureGroup, StartLoop,
   Iterate, PollKill, ApplyKill, ReadNothing, ReadBatch, BeginEntry,
   EndEntries, Execute, ReadBuyBalance, ScanBalance, NoDonor, DebitDonor,
   CreditReceiver, SkipFill, Fill, BuyLeg, SellLeg, Persist, CopyTrades,
   CopyBalances, Announce, Ack, Wake, Raise, Stop, StoreKill, Environment,
   Publish, PostKill, GatewayKill, ghosts, vars, BarredShape, TradePcs,
   EntryPcs

\* An iteration whose GET saw the kill switch on buys nothing.
THEOREM KillSwitchBars == Spec => BarredBuysNothing
<1>1. Spec => []BarredShape
  BY InitStored, NextBarred, TypeCorrect, PTL DEF Spec
<1>2. BarredShape /\ [Next]_vars => [barred => UNCHANGED bought]_vars
  BY BarredBuys
<1> QED BY <1>1, <1>2, PTL DEF Spec, BarredBuysNothing
=============================================================================
