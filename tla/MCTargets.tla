---------------------------- MODULE MCTargets ------------------------------
(***************************************************************************)
(* Small instances of Targets for TLC: exchange x lists s and t, y lists u *)
(* only; the operator wants t, and the fallback is s on x, so that each    *)
(* exchange may have pairs to keep, to add and to deactivate.              *)
(***************************************************************************)
EXTENDS Targets

CONSTANTS x, y, s, t, u

MCDefault == <<x, s>>
MCListed == {<<x, s>>, <<x, t>>, <<y, u>>}
=============================================================================
