----------------------------- MODULE PagedTree -----------------------------
(***************************************************************************)
(* What the context cache promises its client: contexts are brought into   *)
(* memory below their parent, and one that the client holds, or that is    *)
(* above another one in memory, is never let go.                           *)
(***************************************************************************)
EXTENDS Naturals

CONSTANTS Ctx, NoCtx, Up

VARIABLES
    resident,   \* the contexts in memory
    held        \* held[c]: the client's handles to c

vars == <<resident, held>>

Roots == {c \in Ctx : Up[c] = NoCtx}

Init == resident = Roots /\ held = [c \in Ctx |-> 0]

\* A context comes into memory, for the client or for the library itself.
PageIn(c) ==
    /\ c \notin resident
    /\ Up[c] \in resident
    /\ resident' = resident \cup {c}
    /\ \E n \in {0, 1} : held' = [held EXCEPT ![c] = n]

Take(c) ==
    /\ c \in resident
    /\ held' = [held EXCEPT ![c] = @ + 1]
    /\ UNCHANGED resident

Give(c) ==
    /\ held[c] > 0
    /\ held' = [held EXCEPT ![c] = @ - 1]
    /\ UNCHANGED resident

\* Only a leaf that the client does not hold goes away.
PageOut(c) ==
    /\ c \in resident \ Roots
    /\ held[c] = 0
    /\ \A k \in resident : Up[k] # c
    /\ resident' = resident \ {c}
    /\ UNCHANGED held

Next == \E c \in Ctx : PageIn(c) \/ Take(c) \/ Give(c) \/ PageOut(c)

Spec == Init /\ [][Next]_vars
=============================================================================
