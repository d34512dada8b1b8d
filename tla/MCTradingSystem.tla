-------------------------- MODULE MCTradingSystem ---------------------------
(***************************************************************************)
(* Small instances of TradingSystem for TLC, with the money of MCExecutor. *)
(***************************************************************************)
EXTENDS TradingSystem

MCOrder == <<"a", "b">>
MCInitial == [e \in {"a", "b"} |-> IF e = "a" THEN 9 ELSE 13]
MCWithdrawal == [e \in {"a", "b"} |-> IF e = "a" THEN 1 ELSE 5]
MCRoutes == {[buy |-> "a", sell |-> "b"], [buy |-> "b", sell |-> "a"]}
=============================================================================
