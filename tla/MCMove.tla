------------------------------- MODULE MCMove -------------------------------
(***************************************************************************)
(* A directory with two subdirectories that have a file each.  The         *)
(* destination may have any of them already, of either kind, and a file of *)
(* its own below what is a file in the source; another program may add a   *)
(* file to a subdirectory, with the name of the other one.                 *)
(***************************************************************************)
EXTENDS Move

CONSTANTS top, sub, b, other, c, x, y

Tree == [n \in Paths |-> CASE n = top -> None [] n \in {sub, other} -> top
                           [] n \in {b, y} -> sub [] n = c -> other [] OTHER -> b]
OneTree == {[n \in Paths |-> CASE n \in {top, sub, other} -> Dir
                               [] n \in {b, c} -> "first" [] OTHER -> Absent]}

\* A file system: what is in it is in a directory; nothing else has the names
\* of the destination's own file x and of the new file y.
WellFormed(t) ==
    /\ \A n \in Paths \ {top} : t[n] # Absent => t[Up[n]] = Dir
    /\ t[y] = Absent /\ t[x] \in {Absent, "older"} /\ t[other] \in {Absent, Dir} /\ t[c] = Absent
AnyTarget == {t \in [Paths -> Own \cup {Dir, Absent}] : WellFormed(t)}
\* Where the source has a file the destination has a directory.
Occupied == {[n \in Paths |-> CASE n \in {top, sub, b} -> Dir [] n = x -> "older" [] OTHER -> Absent]}

\* In sub, y has the name of other.
OneName == [n \in Paths |-> IF n = other THEN {y} ELSE {}]

AnyOptions == {o \in Opts : o.Force => ~ o.Interactive}
Plain == {o \in Opts : ~ o.Force /\ ~ o.Interactive /\ ~ o.UpdateMode}
=============================================================================
