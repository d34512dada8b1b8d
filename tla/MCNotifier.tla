----------------------------- MODULE MCNotifier -----------------------------
(***************************************************************************)
(* Small instances of Notifier for TLC.                                    *)
(***************************************************************************)
EXTENDS Notifier

CONSTANT note               \* a message of POST /notify

MCNotes == {note}
MCNoNotes == {}
MCMessages == ({"opportunities", "trades"} \X (1 .. MaxEntries)) \cup Notes
=============================================================================
