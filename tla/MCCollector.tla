---------------------------- MODULE MCCollector -----------------------------
(***************************************************************************)
(* Small instances of Collector for TLC: two chunks, the first with every  *)
(* symbol that can be served, the second with one the exchange does not    *)
(* list.                                                                   *)
(***************************************************************************)
EXTENDS Collector

CONSTANTS a, b, silent, unlisted

MCSymbols == {a, b, silent, unlisted}
MCChunks == {{a, b}, {silent, unlisted}}
MCSilent == {silent}
MCUnlisted == {unlisted}
=============================================================================
