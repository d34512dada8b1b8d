--------------------------- MODULE TradeLifecycle ---------------------------
(***************************************************************************)
(* What the executor promises about one opportunity, without saying how:   *)
(* an entry of the stream goes through the stages below in this order and  *)
(* never back.  It may stop anywhere for good (the process died, a call    *)
(* failed), but it is not traded twice, not announced before it is stored, *)
(* not acknowledged before it is announced.                                *)
(*                                                                         *)
(*   unread -> pending -> skipped                                          *)
(*                     -> half -> settled -> stored -> booked              *)
(*                             -> announced -> finished                    *)
(*   unread -> missed      (appended before the group existed, or trimmed  *)
(*                          before it was read)                            *)
(***************************************************************************)
EXTENDS Naturals

CONSTANT Entries        \* the ids of the stream's entries

VARIABLE stage

Stages == {"unread", "missed", "pending", "skipped", "half", "settled",
           "stored", "booked", "announced", "finished"}

LifeInit == stage = [i \in Entries |-> "unread"]

\* the entries of S, all at stage `from`, go to stage `to` in one step
Advance(S, from, to) ==
    /\ \A i \in S : stage[i] = from
    /\ stage' = [i \in Entries |-> IF i \in S THEN to ELSE stage[i]]

Read(S) == Advance(S, "unread", "pending")
Miss(S) == Advance(S, "unread", "missed")
Buy(i) == Advance({i}, "pending", "half")
Sell(i) == Advance({i}, "half", "settled")
Store(S) == Advance(S, "settled", "stored")
Book(S) == Advance(S, "stored", "booked")
Announce(i) == Advance({i}, "booked", "announced")

\* one XACK for the batch: what was not traded is skipped, the rest finished
Acknowledge(S) ==
    /\ \A i \in S : stage[i] \in {"pending", "announced"}
    /\ stage' = [i \in Entries |->
                    IF i \notin S THEN stage[i]
                    ELSE IF stage[i] = "pending" THEN "skipped"
                    ELSE "finished"]

LifeNext ==
    \/ \E S \in SUBSET Entries :
          \/ Read(S) \/ Miss(S) \/ Store(S) \/ Book(S) \/ Acknowledge(S)
    \/ \E i \in Entries : Buy(i) \/ Sell(i) \/ Announce(i)

LifeSpec == LifeInit /\ [][LifeNext]_stage
=============================================================================
