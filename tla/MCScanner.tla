---------------------------- MODULE MCScanner -----------------------------
(***************************************************************************)
(* Small instances of Scanner for TLC.  Buying at the ask of one quote and *)
(* selling at the bid of another earns 2 percent or more only where the    *)
(* latter is crossed, as a book is that missed an update; two crossed      *)
(* quotes give an opportunity in either direction, in one batch.           *)
(***************************************************************************)
EXTENDS Scanner

Low == [bid |-> 99, ask |-> 100]
Crossed == [bid |-> 102, ask |-> 99]
MCQuotes == {Low, Crossed}
=============================================================================
