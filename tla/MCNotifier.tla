----------------------------- MODULE MCNotifier -----------------------------
(***************************************************************************)
(* Small instances of Notifier.                                            *)
(***************************************************************************)
EXTENDS Notifier

CONSTANTS d
OneOrNone == {{}, {d}}
=============================================================================
