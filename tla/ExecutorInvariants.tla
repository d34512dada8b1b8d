------------------------- MODULE ExecutorInvariants -------------------------
(***************************************************************************)
(* The inductive strengthening of the safety properties of Executor: what  *)
(* holds at each point of _consume_loop.  ExecutorProofs proves that       *)
(* every reachable state satisfies it.                                     *)
(***************************************************************************)
EXTENDS Executor

PersistPcs == {"copyTrades", "copyBalances", "announce"}
BatchPcs == EntryPcs \cup PersistPcs \cup {"ack"}     \* a batch is in hand
TradePcs == EntryPcs \ {"entry"}                      \* an entry is in hand

\* Trimming has left MaxLen entries; the batch in hand is lo .. hi, it is the
\* last one delivered, and cur walks through it; an entry in hand is a readable
\* opportunity.
BatchShape ==
    /\ Len(stream) <= MaxEntries
    /\ last <= Len(stream)
    /\ trimmed = 0 \/ trimmed + MaxLen <= Len(stream)
    /\ pc \in BatchPcs => (1 <= lo /\ lo <= hi /\ hi = last)
    /\ pc \in EntryPcs => (lo <= cur /\ cur <= hi + 1)
    /\ pc \in TradePcs => (cur <= hi /\ stream[cur] \in Routes)
    /\ IF pc = "scan" THEN Len(snap) <= Len(Order) ELSE snap = << >>
    /\ rb = NoRebalance \/ pc \in {"credit", "depth", "buy", "sell"}
    /\ pc \in PersistPcs => results # << >>

\* How far an entry of the batch that has been bought has come.
Reached(i) ==
    IF pc \in EntryPcs
    THEN \/ i \in Executing /\ i \in settled /\ i < cur
         \/ i = cur /\ pc = "sell"
    ELSE IF pc = "copyTrades" THEN i \in Executing /\ i \in settled
    ELSE IF pc = "copyBalances"
    THEN i \in Executing /\ i \in settled /\ i \in trades
    ELSE /\ i \in settled /\ i \in trades /\ i \in booked
         /\ \/ pc = "announce" /\ i \in Executing
            \/ i \in announced

\* Nothing past the cursor has been touched, an entry has at most one buy, and
\* what is in hand is exactly as far as pc says.
OnceShape ==
    /\ \A i \in Ids : bought[i] <= 1
    /\ \A i \in Ids : i > last => bought[i] = 0 /\ i \notin acked
    /\ pc \in BatchPcs =>
          \A i \in Ids : lo <= i /\ i <= hi =>
              i \notin acked /\ (bought[i] > 0 => Reached(i))
    /\ AckedIsRecorded

\* What StageOf takes for granted: the marks of an entry are set in the order
\* of the stages, the batch in hand is pending in the group, and the results
\* are as far as pc says.
LifeShape ==
    /\ \A i \in pel : i <= last
    /\ pc \in BatchPcs => \A i \in Ids : lo <= i /\ i <= hi => i \in pel
    /\ \A i \in settled : bought[i] > 0
    /\ trades \subseteq settled /\ booked \subseteq trades
    /\ announced \subseteq booked
    /\ pc = "sell" => bought[cur] > 0 /\ cur \notin settled
    /\ \A i \in Executing : i \in settled /\ lo <= i /\ i <= hi
    /\ Executing # {} => pc \in EntryPcs \cup PersistPcs
    /\ pc \in EntryPcs \cup {"copyTrades"} => Executing \cap trades = {}
    /\ pc = "copyBalances" => Executing \subseteq trades \ booked
    /\ pc = "announce" => Executing \subseteq booked

\* No balance outside U is below zero.
CoveredOutside(U) == Solvent => \A e \in Exchanges \ U : bal[e] >= 0

\* The locals of execute_opportunity agree with Redis, except for the exchanges
\* in U, whose balances somebody else moves while the loop is between a read and
\* the write it leads to.
FundsOutside(U) ==
    /\ pc \in {"scan", "depth", "buy"} /\ Opp.buy \notin U =>
          buyBal = bal[Opp.buy]
    /\ pc = "scan" => \A k \in 1 .. Len(snap) :
          Order[k] \notin U => snap[k] = bal[Order[k]]
    /\ pc = "credit" => /\ rb.receiver = Opp.buy
                        /\ Solvent => rb.net >= 0
    /\ pc \in {"depth", "buy"} => Notional(buyBal) >= MinNotional
    /\ pc = "buy" => fill.cost = Cost(Notional(buyBal))
    /\ pc \in {"buy", "sell"} => fill.proceeds >= 0
    /\ CoveredOutside(U)

\* The loop alone moves the balances: nobody is in its way anywhere.
FundsShape == FundsOutside({})

\* Before the history is seeded nothing has moved and no row is there; what is due has not been
\* booked, and nothing is due outside the stretch that ends with the COPY.
UncopiedPcs == EntryPcs \cup {"copyTrades", "copyBalances"}
SeedMarks ==
    /\ pc \notin {"down", "bootBalances"} => has = Exchanges
    /\ pc \notin BootPcs \/ pc \in {"bootGroup", "bootKill"} => seeded
    /\ seeded => has = Exchanges
    /\ ~seeded => /\ \A e \in has : bal[e] = Initial[e]
                  /\ ledger = Zero /\ due = Zero
    /\ pc = "bootCopy" => ~seeded
DueMarks ==
    /\ pc \notin UncopiedPcs \/ results = << >> => due = Zero
    /\ pc \notin EntryPcs \cup PersistPcs => results = << >>
    /\ pc \in UncopiedPcs => booked \cap Executing = {}
    /\ pc \in BatchPcs => \A i \in Executing : lo <= i /\ i <= hi
    /\ pc \in EntryPcs => \A i \in booked : i < lo
    /\ \A i \in booked : i <= last
    /\ pc = "credit" => rb.donor # rb.receiver

\* The history and what is in hand make up the balances.
HistoryShape == SeedMarks /\ DueMarks /\ HistoryExplainsBalance

\* What neither the history nor what is in hand accounts for, and a step that
\* leaves it where it is or drops rows that were due.
Gap(e) == bal[e] - ledger[e] - InHand[e]
Conserved == /\ orphaned \subseteq orphaned'
             /\ orphaned' = {} => \A e \in Exchanges : Gap(e)' = Gap(e)

\* announced comes after the COPYs of the same results
StoredShape ==
    /\ AnnouncedIsStored
    /\ pc = "copyBalances" => Executing \subseteq trades
    /\ pc = "announce" => Executing \subseteq trades \cap booked

\* an iteration that saw the switch on never gets past the kill check
BarredShape ==
    barred => /\ pc \notin TradePcs
              /\ pc = "apply" => reply
              /\ pc \in {"read", "entry"} => flag
=============================================================================
