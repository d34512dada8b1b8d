----------------------------- MODULE MCDbWriter -----------------------------
(***************************************************************************)
(* Small instances of DbWriter for TLC.                                    *)
(***************************************************************************)
EXTENDS DbWriter
=============================================================================
