----------------------------- MODULE MCExecutor -----------------------------
(***************************************************************************)
(* Small instances of Executor for TLC: two exchanges, money in            *)
(* single units, sizes chosen so that the first buy on exchange "a"        *)
(* needs a rebalance and a later one finds no donor.                       *)
(***************************************************************************)
EXTENDS ExecutorInvariants

MCOrder == <<"a", "b">>
MCInitial == [e \in {"a", "b"} |-> IF e = "a" THEN 9 ELSE 13]
MCWithdrawal == [e \in {"a", "b"} |-> IF e = "a" THEN 1 ELSE 5]
MCGains == {-1, 1}
MCOneGain == {1}
MCRoutes == {[buy |-> "a", sell |-> "b"], [buy |-> "b", sell |-> "a"]}
=============================================================================
