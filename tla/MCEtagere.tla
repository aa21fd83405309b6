----------------------------- MODULE MCEtagere -----------------------------
(***************************************************************************)
(* Small instances of Etagere.  Processes are alike, and names are.        *)
(***************************************************************************)
EXTENDS Etagere, TLC

Alike == Permutations(Procs) \cup Permutations(Names)
=============================================================================
