---------------------------- MODULE MCContextVM ----------------------------
(***************************************************************************)
(* Small instances of ContextVM: a root and at most three contexts below   *)
(* it, in the shapes a reclaim tells apart.                                *)
(***************************************************************************)
EXTENDS ContextVM, TLC

CONSTANTS root, dir, f, g

\* A directory with two files.
TreeUp == [c \in Ctx |-> CASE c = root -> NoCtx [] c = dir -> root [] OTHER -> dir]
DistinctNames == [c \in Ctx |-> c]
=============================================================================
