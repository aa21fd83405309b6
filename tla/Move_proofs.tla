---------------------------- MODULE Move_proofs ----------------------------
(***************************************************************************)
(* A file that has gone from the source of a move is complete at the       *)
(* destination, or the copy has passed over it, or was astray when it sent *)
(* it: for every tree, every destination, any number of failures and any   *)
(* number of writes of another program.                                    *)
(*                                                                         *)
(* The invariant follows the walk of the copy: what is there and was not   *)
(* copied is below something the walk has passed over or has still to do.  *)
(* When the stack is empty nothing is still to do, and then the removal    *)
(* begins.                                                                 *)
(*                                                                         *)
(* And a move that nothing disturbs empties its source: what the removal   *)
(* has taken off the disk is what it has walked, so that it ends at the    *)
(* top with nothing below it (UndisturbedInv).                             *)
(***************************************************************************)
EXTENDS Move, TLAPS

\* What a directory f of the walk has still to do with m, in the source t.
Waits(t, f, m) ==
    \/ f.at = "enter" /\ f.dir = m /\ t[m] = Dir
    \/ f.at = "list" /\ m \in f.names /\ t[m] = Dir
    \/ f.at = "list" /\ m \in f.left /\ t[m] # Dir
    \/ f.at = "recurse" /\ m \in f.left /\ t[m] = Dir
Pending(t, s, m) == \E i \in 1 .. Len(s) : Waits(t, s[i], m)

Passed(n)  == Above[n] \cap passed # {}
Delivered(n) == n \in sent /\ (astray \/ Arrived(n))
Reached(n) == IF src[n] = Dir THEN n \in listed ELSE Delivered(n)
Walked(n)  == Reached(n) \/ Passed(n) \/ \E m \in Above[n] : Pending(src, stack, m)

\* Up to the end of the copy nothing goes.
Kept == phase \in {"start", "copy"} =>
    /\ src[Top] = Dir
    /\ \A n \in Paths \ {Top} : src[n] # Absent => src[Up[n]] = Dir
    /\ \A n \in Paths : had[n] # Absent => src[n] = had[n]

\* Everything is copied, passed over, or still to be met.
CopyInv == phase = "copy" =>
    \A n \in Paths : src[n] # Absent /\ n \notin late \cup rewritten => Walked(n)

\* The removal never meets a directory the copy did not list, unless it is
\* below what was passed over: what is added to it then is late.
RemoveInv == phase \in {"remove", "target"} =>
    \A n \in Paths : src[n] = Dir => n \in listed \/ Passed(n)

\* What is there is in the history; only files are late.
HistoryInv ==
    \A n \in Paths : /\ IsFile(src, n) => had[n] = src[n]
                     /\ src[n] = Dir => n \notin late \cup rewritten

\* The copy goes astray only when a call fails.
StraightInv == faults = 0 => ~ astray

Covered == phase \notin {"start", "copy"} => GoneIsCopied
\* Not only what has gone: what is going to.
Safe == phase \in {"remove", "target"} => \A n \in Paths :
    had[n] # Absent /\ n \notin late \cup rewritten => Delivered(n) \/ Passed(n)

Inv == TypeOK /\ Kept /\ CopyInv /\ RemoveInv /\ HistoryInv /\ StraightInv /\ Covered /\ Safe
-----------------------------------------------------------------------------
(***************************************************************************)
(* The directories above a path.                                           *)
(***************************************************************************)
LEMMA AboveSelf == ASSUME NEW n \in Paths PROVE n \in Above[n]
BY DEF Above

LEMMA AboveClosed ==
    ASSUME NEW n \in Paths, NEW m \in Above[n], Up[m] # None
    PROVE  Up[m] \in Above[n]
BY PathAssumption DEF Above

LEMMA AboveUp ==
    ASSUME NEW n \in Paths, Up[n] # None
    PROVE  Up[n] \in Paths /\ Above[Up[n]] \subseteq Above[n]
BY PathAssumption DEF Above

\* Between n and a directory above it there is a child of the directory.
LEMMA AboveChild ==
    ASSUME NEW n \in Paths, NEW d \in Above[n], d # n
    PROVE  \E c \in Above[n] : Up[c] = d
<1> SUFFICES ASSUME \A c \in Above[n] : Up[c] # d PROVE FALSE
  OBVIOUS
<1> DEFINE s == Above[n] \ {d}
<1>1. s \in SUBSET Paths BY DEF Above
<1>2. n \in s BY AboveSelf
<1>3. \A k \in s : Up[k] # None => Up[k] \in s BY AboveClosed
<1>4. d \in s BY <1>1, <1>2, <1>3 DEF Above
<1> QED BY <1>4

\* What is above something is a directory.
LEMMA AboveIsDir ==
    ASSUME NEW t, t[Top] = Dir,
           \A k \in Paths \ {Top} : t[k] # Absent => t[Up[k]] = Dir,
           NEW n \in Paths, t[n] # Absent, NEW m \in Above[n]
    PROVE  m = n \/ t[m] = Dir
<1> DEFINE s == {k \in Paths : k = n \/ t[k] = Dir}
<1>1. \A k \in s : Up[k] # None => Up[k] \in s BY PathAssumption DEF Dir, Absent
<1>2. m \in s BY <1>1 DEF Above
<1> QED BY <1>2
-----------------------------------------------------------------------------
(***************************************************************************)
(* The stack.                                                              *)
(***************************************************************************)
LEMMA StackType ==
    ASSUME TypeOK, stack # <<>>
    PROVE  /\ Head(stack) \in Frame /\ Tail(stack) \in Seq(Frame)
           /\ \A f \in Frame : <<f>> \o Tail(stack) \in Seq(Frame)
           /\ \A f, g \in Frame : <<f, g>> \o Tail(stack) \in Seq(Frame)
BY DEF TypeOK

LEMMA EnteringType ==
    ASSUME NEW n \in Paths PROVE Entering(n) \in Frame /\ <<Entering(n)>> \in Seq(Frame)
<1>1. Entering(n) \in Frame BY DEF Entering, Frame
<1> QED BY <1>1

LEMMA FrameType ==
    ASSUME NEW n \in Paths, NEW a \in {"enter", "list", "recurse"},
           NEW k \in SUBSET Paths, NEW l \in SUBSET Paths
    PROVE  /\ [dir |-> n, at |-> a, names |-> k, left |-> l] \in Frame
           /\ \A f \in Frame : /\ [f EXCEPT !.left = l] \in Frame
                               /\ [f EXCEPT !.at = a, !.left = l] \in Frame
BY DEF Frame

LEMMA KidsType == ASSUME NEW d, NEW t PROVE Kids(t, d) \subseteq Paths
BY DEF Kids

\* One call of perform_copy(): it copies, passes over, or throws.
Outcome(n, rest) ==
    /\ dst' \in [Paths -> Copied \cup Own \cup {Dir, Absent, "part"}]
    /\ faults' \in 0 .. MaxFaults
    /\ ~ astray => \A k \in Paths \ {n} : dst'[k] = dst[k]
    /\ \/ /\ stack' = rest /\ sent' = sent \cup {n} /\ UNCHANGED <<phase, passed>>
          /\ src[n] # Dir /\ ~ astray => dst'[n] = src[n]
       \/ stack' = rest /\ passed' = passed \cup {n} /\ UNCHANGED <<phase, sent>>
       \/ stack' = <<>> /\ phase' = "failed" /\ UNCHANGED <<passed, sent>>

LEMMA CopyObjectOutcome ==
    ASSUME TypeOK, NEW n \in Paths, NEW rest, CopyObject(n, rest)
    PROVE  Outcome(n, rest)
<1>1. faults \in 0 .. MaxFaults /\ dst \in [Paths -> Copied \cup Own \cup {Dir, Absent, "part"}]
  BY DEF TypeOK
<1>2. src[n] \in Copied \cup {Dir, Absent} /\ astray \in BOOLEAN BY DEF TypeOK
<1>3. ASSUME NEW m \in Paths, ~ astray => m = n, src[n] = Dir, CopyDir(n, m, rest)
      PROVE  Outcome(n, rest)
  <2>1. CreateDir(n, m, rest) => Outcome(n, rest)
    BY <1>1, <1>3, BoundAssumption
    DEF Outcome, CreateDir, Complete, Fails, Put, Return, Throw, Fault
  <2> QED BY <1>1, <1>3, <2>1, BoundAssumption
          DEF Outcome, CopyDir, PerformCopy, Complete, Fails, PassOver, Return, Throw, Fault
<1>4. ASSUME NEW m \in Paths, ~ astray => m = n, src[n] # Dir, CopyFile(n, m, rest)
      PROVE  Outcome(n, rest)
  <2>1. Opened(m) \in Copied \cup Own \cup {"part", Dir, Absent}
    BY <1>1 DEF Opened, IsFile
  <2>2. Write(n, m, rest) => Outcome(n, rest)
    BY <1>1, <1>2, <1>4, <2>1, BoundAssumption
    DEF Outcome, Write, Put, Complete, Fails, PassOver, Return, Throw, Fault
  <2>3. CreateFile(n, m, rest) => Outcome(n, rest)
    BY <1>1, <1>4, <2>2, BoundAssumption
    DEF Outcome, CreateFile, Put, Fails, Throw, Fault
  <2> QED BY <1>1, <1>4, <2>2, <2>3, BoundAssumption
          DEF Outcome, CopyFile, PerformCopy, Fails, PassOver, Return, Throw, Fault
<1>5. ASSUME Elsewhere(n, rest) PROVE Outcome(n, rest)
  BY <1>1, <1>5 DEF Outcome, Elsewhere, Complete, Fails, PassOver, Return, Throw
<1>6. \A m \in Place(n) : m \in Paths /\ (~ astray => m = n)
  BY TargetAssumption DEF Place
<1> QED BY <1>3, <1>4, <1>5, <1>6 DEF CopyObject

LEMMA CopyEnterOutcome ==
    ASSUME TypeOK, CopyEnter
    PROVE  LET d == Head(stack).dir
               k == Kids(src, d)
           IN /\ Head(stack).at = "enter"
              /\ \/ src[d] # Dir /\ stack' = Tail(stack) /\ UNCHANGED <<dst, faults, astray, sent, passed, listed, phase>>
                 \/ /\ src[d] = Dir /\ stack' = Tail(stack) /\ passed' = passed \cup {d}
                    /\ faults' \in 0 .. MaxFaults /\ astray' \in {astray, TRUE}
                    /\ UNCHANGED <<dst, sent, listed, phase>>
                 \/ /\ src[d] = Dir /\ listed' = listed \cup {d} /\ astray' = astray
                    /\ Outcome(d, <<[dir |-> d, at |-> "list", names |-> k, left |-> k]>> \o Tail(stack))
<1> DEFINE d == Head(stack).dir
           k == Kids(src, d)
           rest == <<[dir |-> d, at |-> "list", names |-> k, left |-> k]>> \o Tail(stack)
<1>1. d \in Paths BY StackType DEF CopyEnter, Frame
<1>2. ASSUME CopyObject(d, rest) PROVE Outcome(d, rest)
  <2> HIDE DEF d, rest
  <2> QED BY <1>1, <1>2, CopyObjectOutcome
<1>3. Fault => faults' \in 0 .. MaxFaults BY BoundAssumption DEF TypeOK, Fault
<1>4. /\ Head(stack).at = "enter"
      /\ \/ src[d] # Dir /\ Return(Tail(stack)) /\ UNCHANGED <<dst, faults, astray, sent, passed, listed>>
         \/ /\ src[d] = Dir /\ Fault /\ PassOver({d}, Tail(stack))
            /\ astray' \in {astray, TRUE} /\ UNCHANGED <<dst, listed>>
         \/ /\ src[d] = Dir /\ CopyObject(d, rest)
            /\ listed' = listed \cup {d} /\ UNCHANGED astray
  BY DEF CopyEnter
<1> HIDE DEF rest, d
<1>5. CASE src[d] # Dir /\ Return(Tail(stack)) /\ UNCHANGED <<dst, faults, astray, sent, passed, listed>>
  BY <1>4, <1>5 DEF Return, d
<1>6. CASE /\ src[d] = Dir /\ Fault /\ PassOver({d}, Tail(stack))
           /\ astray' \in {astray, TRUE} /\ UNCHANGED <<dst, listed>>
  BY <1>3, <1>4, <1>6 DEF PassOver, Return, d
<1>7. CASE src[d] = Dir /\ CopyObject(d, rest) /\ listed' = listed \cup {d} /\ UNCHANGED astray
  BY <1>2, <1>4, <1>7 DEF d, rest
<1> QED BY <1>4, <1>5, <1>6, <1>7

LEMMA CopyChildOutcome ==
    ASSUME TypeOK, CopyChild
    PROVE  \E n \in Head(stack).left :
               Outcome(n, <<[Head(stack) EXCEPT !.left = @ \ {n}]>> \o Tail(stack))
<1>1. PICK n \in Head(stack).left :
          CopyObject(n, <<[Head(stack) EXCEPT !.left = @ \ {n}]>> \o Tail(stack))
  BY DEF CopyChild
<1>2. n \in Paths BY StackType DEF CopyChild, Frame
<1> QED BY <1>1, <1>2, CopyObjectOutcome

LEMMA CopyBreaksOutcome ==
    ASSUME TypeOK, CopyBreaks
    PROVE  /\ Head(stack).at \in {"list", "recurse"} /\ stack' = Tail(stack) /\ astray' = TRUE
           /\ \A m : Waits(src, Head(stack), m) => m \in passed'
           /\ passed \subseteq passed' /\ passed' \subseteq Paths /\ faults' \in 0 .. MaxFaults
           /\ UNCHANGED <<phase, sent, fileVars, opts, last, edits, had, listed, late, rewritten>>
<1> DEFINE f == Head(stack)
<1>1. f \in Frame /\ f.left \subseteq Paths /\ f.names \subseteq Paths
  BY StackType DEF CopyBreaks, Frame
<1>2. passed \subseteq Paths /\ faults \in 0 .. MaxFaults BY DEF TypeOK
<1> HIDE DEF f
<1>3. /\ f.at = "list" \/ (f.at = "recurse" /\ f.left = {})
      /\ passed' = passed \cup (f.left \cup {n \in f.names : f.at = "list" /\ src[n] = Dir})
      /\ stack' = Tail(stack) /\ astray' = TRUE /\ Fault
      /\ UNCHANGED <<phase, sent, fileVars, opts, last, edits, had, listed, late, rewritten>>
  BY DEF CopyBreaks, PassOver, Return, f
<1>4. \A m : Waits(src, f, m) => m \in passed' BY <1>3 DEF Waits
<1>5. passed \subseteq passed' /\ passed' \subseteq Paths BY <1>1, <1>2, <1>3
<1>6. faults' \in 0 .. MaxFaults BY <1>2, <1>3, BoundAssumption DEF Fault
<1> QED BY <1>3, <1>4, <1>5, <1>6 DEF f

\* One call more has failed, or none, and then the copy is where it was.
LEMMA FaultOrNot == ASSUME Next PROVE Fault \/ (faults' = faults /\ astray' = astray)
<1>1. ASSUME NEW n, NEW rest, CopyObject(n, rest) PROVE Fault \/ faults' = faults
  <2>1. ASSUME NEW m, CreateDir(n, m, rest) PROVE Fault \/ faults' = faults
    BY <2>1 DEF CreateDir
  <2>2. ASSUME NEW m, Write(n, m, rest) PROVE Fault \/ faults' = faults
    BY <2>2 DEF Write
  <2>3. ASSUME NEW m, CreateFile(n, m, rest) PROVE Fault \/ faults' = faults
    BY <2>2, <2>3 DEF CreateFile
  <2>4. ASSUME NEW m, CopyDir(n, m, rest) PROVE Fault \/ faults' = faults
    BY <2>1, <2>4 DEF CopyDir, PerformCopy
  <2>5. ASSUME NEW m, CopyFile(n, m, rest) PROVE Fault \/ faults' = faults
    BY <2>2, <2>3, <2>5 DEF CopyFile, PerformCopy
  <2> QED BY <1>1, <2>4, <2>5 DEF CopyObject, Elsewhere
<1>2. ASSUME NEW n, NEW ACTION then, RemoveObject(n, then) PROVE Fault \/ faults' = faults
  BY <1>2 DEF RemoveObject
<1>3. ASSUME NEW ACTION then, RemoveLast(then) PROVE Fault \/ faults' = faults
  BY <1>2, <1>3 DEF RemoveLast
<1>4. CASE CopyEnter BY <1>1, <1>4 DEF CopyEnter
<1>5. CASE CopyChild BY <1>1, <1>5 DEF CopyChild
<1>6. CASE CopyBreaks BY <1>6 DEF CopyBreaks
<1>7. CASE CopyRecurse \/ CopyLeave BY <1>7 DEF CopyRecurse, CopyLeave
<1>8. CASE RmEnter \/ RmRecurse BY <1>8 DEF RmEnter, RmRecurse
<1>9. CASE RmChild BY <1>3, <1>9 DEF RmChild
<1>10. CASE RmDone BY <1>3, <1>10 DEF RmDone
<1>11. CASE RmTarget BY <1>2, <1>11 DEF RmTarget
<1>12. CASE Begin \/ CopyDone BY <1>12 DEF Begin, CopyDone
<1>13. ASSUME NEW n \in Paths, Modify(n) PROVE faults' = faults /\ astray' = astray
  BY <1>13 DEF Modify, walkVars
<1> QED BY <1>4, <1>5, <1>6, <1>7, <1>8, <1>9, <1>10, <1>11, <1>12, <1>13 DEF Next, Step
-----------------------------------------------------------------------------
(***************************************************************************)
(* Types.                                                                  *)
(***************************************************************************)
\* What FerrisRm does to the source: nothing, or one object less.
Removal ==
    /\ src' \in [Paths -> Copied \cup {Dir, Absent}]
    /\ \A n \in Paths : src'[n] = src[n] \/ src'[n] = Absent
    /\ faults' \in 0 .. MaxFaults
    /\ UNCHANGED <<dst, opts, astray, edits, history>>

LEMMA RmEnterRemoval ==
    ASSUME TypeOK, RmEnter PROVE Removal /\ stack' \in Seq(Frame) /\ phase' = phase /\ last' = last
<1> DEFINE d == Head(stack).dir
<1>1. d \in Paths BY StackType DEF RmEnter, Frame
<1>2. \A k \in Listings(d) :
          <<[dir |-> d, at |-> "recurse", names |-> {}, left |-> k]>> \o Tail(stack) \in Seq(Frame)
  BY <1>1, StackType, FrameType, KidsType DEF RmEnter, Listings
<1>3. stack' \in Seq(Frame) /\ phase' = phase
  BY <1>2, StackType DEF RmEnter, Return
<1>4. faults' \in 0 .. MaxFaults
  BY BoundAssumption DEF RmEnter, Fault, TypeOK
<1> QED BY <1>3, <1>4 DEF RmEnter, Removal, TypeOK, fileVars, history

LEMMA RmRecurseRemoval ==
    ASSUME TypeOK, RmRecurse PROVE Removal /\ stack' \in Seq(Frame) /\ phase' = phase /\ last' = last
<1> DEFINE f == Head(stack)
<1>1. f \in Frame /\ f.left \subseteq Paths /\ f.dir \in Paths BY StackType DEF RmRecurse, Frame
<1>2. \A k \in Listings(f.dir) :
          <<[f EXCEPT !.at = "list", !.left = k]>> \o Tail(stack) \in Seq(Frame)
  BY <1>1, StackType, FrameType, KidsType DEF RmRecurse, Listings
<1>3. \A n \in f.left : <<Entering(n), [f EXCEPT !.left = @ \ {n}]>> \o Tail(stack) \in Seq(Frame)
  BY <1>1, StackType, FrameType, EnteringType DEF RmRecurse
<1>4. <<[f EXCEPT !.left = {}]>> \o Tail(stack) \in Seq(Frame) /\ Tail(stack) \in Seq(Frame)
  BY <1>1, StackType, FrameType DEF RmRecurse
<1>5. stack' \in Seq(Frame) /\ phase' = phase
  <2> HIDE DEF f
  <2> QED BY <1>2, <1>3, <1>4 DEF RmRecurse, Return, f
<1>6. faults' \in 0 .. MaxFaults
  <2>1. Fault \/ faults' = faults BY DEF RmRecurse
  <2> QED BY <2>1, BoundAssumption DEF Fault, TypeOK
<1> QED BY <1>5, <1>6 DEF RmRecurse, Removal, TypeOK, fileVars, history

\* removeObject() does what comes after it, or throws.
LEMMA RemoveObjectRemoval ==
    ASSUME TypeOK, NEW n \in Paths, NEW ACTION then, RemoveObject(n, then)
    PROVE  /\ src' \in [Paths -> Copied \cup {Dir, Absent}]
           /\ \A k \in Paths : src'[k] = src[k] \/ src'[k] = Absent
           /\ faults' \in 0 .. MaxFaults
           /\ then \/ (phase' = "failed" /\ stack' = <<>>)
BY BoundAssumption DEF RemoveObject, TypeOK, Throw, Fault

LEMMA RemoveLastRemoval ==
    ASSUME TypeOK, NEW ACTION then, RemoveLast(then)
    PROVE  /\ src' \in [Paths -> Copied \cup {Dir, Absent}]
           /\ \A k \in Paths : src'[k] = src[k] \/ src'[k] = Absent
           /\ faults' \in 0 .. MaxFaults
           /\ then \/ (phase' = "failed" /\ stack' = <<>>)
<1>1. CASE last = None BY <1>1 DEF RemoveLast, TypeOK
<1>2. CASE last # None
  <2>1. last \in Paths /\ RemoveObject(last, then) BY <1>2 DEF RemoveLast, TypeOK
  <2> QED BY <2>1, RemoveObjectRemoval
<1> QED BY <1>1, <1>2

LEMMA RmChildRemoval ==
    ASSUME TypeOK, RmChild
    PROVE  Removal /\ stack' \in Seq(Frame) /\ phase' \in {phase, "failed"} /\ last' \in Paths \cup {None}
<1>0. UNCHANGED <<dst, opts, astray, edits, history>> BY DEF RmChild
<1> DEFINE f == Head(stack)
<1>1. f \in Frame /\ f.left \subseteq Paths /\ stack # <<>> BY StackType DEF RmChild, Frame
<1>2. \A n \in f.left : <<[f EXCEPT !.left = @ \ {n}]>> \o Tail(stack) \in Seq(Frame)
  BY <1>1, StackType, FrameType
<1>3. CASE f.left = {} /\ Return(Tail(stack)) /\ UNCHANGED <<src, faults, last>>
  BY <1>1, <1>3, StackType DEF Removal, Return, TypeOK, RmChild, history
<1>4. ASSUME NEW n \in f.left,
             RemoveLast(Return(<<[f EXCEPT !.left = @ \ {n}]>> \o Tail(stack))), last' = n
      PROVE  Removal /\ stack' \in Seq(Frame) /\ phase' \in {phase, "failed"} /\ last' \in Paths \cup {None}
  <2> DEFINE rest == <<[f EXCEPT !.left = @ \ {n}]>> \o Tail(stack)
  <2>1. rest \in Seq(Frame) BY <1>2
  <2>2. RemoveLast(Return(rest)) BY <1>4
  <2> HIDE DEF rest
  <2>3. /\ src' \in [Paths -> Copied \cup {Dir, Absent}]
        /\ \A k \in Paths : src'[k] = src[k] \/ src'[k] = Absent
        /\ faults' \in 0 .. MaxFaults
        /\ Return(rest) \/ (phase' = "failed" /\ stack' = <<>>)
    BY <2>2, RemoveLastRemoval
  <2>4. last' \in Paths BY <1>1, <1>4
  <2>5. <<>> \in Seq(Frame) OBVIOUS
  <2>6. stack' \in Seq(Frame) /\ phase' \in {phase, "failed"} BY <2>1, <2>3, <2>5 DEF Return
  <2> QED BY <1>0, <2>3, <2>4, <2>6 DEF Removal
<1> QED BY <1>3, <1>4 DEF RmChild

LEMMA RmDoneRemoval ==
    ASSUME TypeOK, RmDone
    PROVE  Removal /\ stack' = <<>> /\ phase' \in {"target", "failed"} /\ last' \in Paths \cup {None}
<1>1. RemoveLast(phase' = "target" /\ UNCHANGED stack) BY DEF RmDone
<1>2. /\ src' \in [Paths -> Copied \cup {Dir, Absent}]
      /\ \A k \in Paths : src'[k] = src[k] \/ src'[k] = Absent
      /\ faults' \in 0 .. MaxFaults
      /\ (phase' = "target" /\ UNCHANGED stack) \/ (phase' = "failed" /\ stack' = <<>>)
  BY <1>1, RemoveLastRemoval
<1> QED BY <1>2 DEF RmDone, Removal, history

LEMMA RmTargetRemoval ==
    ASSUME TypeOK, RmTarget
    PROVE  Removal /\ stack' \in Seq(Frame) /\ phase' \in {"done", "failed"} /\ last' = last
<1>1. RemoveObject(Top, phase' = "done" /\ UNCHANGED stack) BY DEF RmTarget
<1>2. /\ src' \in [Paths -> Copied \cup {Dir, Absent}]
      /\ \A k \in Paths : src'[k] = src[k] \/ src'[k] = Absent
      /\ faults' \in 0 .. MaxFaults
      /\ (phase' = "done" /\ UNCHANGED stack) \/ (phase' = "failed" /\ stack' = <<>>)
  BY <1>1, PathAssumption, RemoveObjectRemoval
<1>3. UNCHANGED <<dst, opts, last, astray, edits, history>> BY DEF RmTarget
<1>4. stack \in Seq(Frame) /\ <<>> \in Seq(Frame) BY DEF TypeOK
<1> QED BY <1>2, <1>3, <1>4 DEF Removal, history

LEMMA TypeInit == ASSUME Init PROVE TypeOK
<1>1. src \in [Paths -> Copied \cup {Dir, Absent}] BY SourceAssumption DEF Init
<1>2. dst \in [Paths -> Own \cup {Dir, Absent}] /\ opts \in Opts BY TargetAssumption DEF Init
<1>3. had \in [Paths -> Copied \cup {Absent}] BY <1>1 DEF Init, IsFile
<1>4. stack \in Seq(Frame) BY DEF Init
<1>5. /\ phase = "start" /\ last = None /\ astray = FALSE /\ faults = 0 /\ edits = 0
      /\ sent = {} /\ passed = {} /\ listed = {} /\ late = {} /\ rewritten = {}
  BY DEF Init
<1>6. 0 \in 0 .. MaxFaults /\ 0 \in 0 .. MaxEdits BY BoundAssumption
<1> QED BY <1>1, <1>2, <1>3, <1>4, <1>5, <1>6 DEF TypeOK

LEMMA TypeStep == ASSUME TypeOK, Next PROVE TypeOK'
<1>1. CASE Begin
  <2>1. stack' \in Seq(Frame) /\ phase' \in {"copy", "done"}
    BY <1>1, PathAssumption, EnteringType DEF Begin, TypeOK
  <2> QED BY <1>1, <2>1 DEF Begin, TypeOK, fileVars, history
<1>2. CASE CopyEnter
  <2> DEFINE d == Head(stack).dir
             rest == <<[dir |-> d, at |-> "list", names |-> Kids(src, d), left |-> Kids(src, d)]>> \o Tail(stack)
  <2>1. d \in Paths BY <1>2, StackType DEF CopyEnter, Frame
  <2>2. rest \in Seq(Frame) /\ Tail(stack) \in Seq(Frame)
    BY <1>2, <2>1, StackType, FrameType, KidsType DEF CopyEnter
  <2>3. UNCHANGED <<src, opts, last, edits, had, late, rewritten>> BY <1>2 DEF CopyEnter
  <2>4. /\ dst' \in [Paths -> Copied \cup Own \cup {Dir, Absent, "part"}]
        /\ faults' \in 0 .. MaxFaults /\ stack' \in Seq(Frame)
        /\ phase' \in {phase, "failed"} /\ passed' \subseteq Paths /\ listed' \subseteq Paths
        /\ sent' \subseteq Paths /\ astray' \in BOOLEAN
    <3>0. \/ stack' = Tail(stack) /\ UNCHANGED <<dst, faults, astray, sent, passed, listed, phase>>
          \/ /\ stack' = Tail(stack) /\ passed' = passed \cup {d} /\ astray' \in {astray, TRUE}
             /\ faults' \in 0 .. MaxFaults /\ UNCHANGED <<dst, sent, listed, phase>>
          \/ listed' = listed \cup {d} /\ astray' = astray /\ Outcome(d, rest)
      BY <1>2, CopyEnterOutcome
    <3> HIDE DEF d, rest
    <3>1. CASE stack' = Tail(stack) /\ UNCHANGED <<dst, faults, astray, sent, passed, listed, phase>>
      BY <3>1, <2>2 DEF TypeOK
    <3>2. CASE /\ stack' = Tail(stack) /\ passed' = passed \cup {d} /\ astray' \in {astray, TRUE}
               /\ faults' \in 0 .. MaxFaults /\ UNCHANGED <<dst, sent, listed, phase>>
      BY <3>2, <2>1, <2>2 DEF TypeOK
    <3>3. CASE listed' = listed \cup {d} /\ astray' = astray /\ Outcome(d, rest)
      <4>1. /\ passed \subseteq Paths /\ listed \subseteq Paths /\ sent \subseteq Paths
            /\ astray \in BOOLEAN /\ <<>> \in Seq(Frame)
        BY DEF TypeOK
      <4> QED BY <3>3, <2>1, <2>2, <4>1 DEF Outcome
    <3> QED BY <3>0, <3>1, <3>2, <3>3
  <2> QED BY <2>3, <2>4 DEF TypeOK
<1>3. CASE CopyChild
  <2>1. PICK n \in Head(stack).left :
            Outcome(n, <<[Head(stack) EXCEPT !.left = @ \ {n}]>> \o Tail(stack))
    BY <1>3, CopyChildOutcome
  <2> DEFINE rest == <<[Head(stack) EXCEPT !.left = @ \ {n}]>> \o Tail(stack)
  <2>2. n \in Paths /\ rest \in Seq(Frame)
    BY <1>3, StackType, FrameType DEF CopyChild, Frame
  <2>3. Outcome(n, rest) BY <2>1
  <2> HIDE DEF rest
  <2>4. passed \subseteq Paths /\ sent \subseteq Paths /\ <<>> \in Seq(Frame) BY DEF TypeOK
  <2>5. /\ dst' \in [Paths -> Copied \cup Own \cup {Dir, Absent, "part"}]
        /\ faults' \in 0 .. MaxFaults /\ stack' \in Seq(Frame)
        /\ phase' \in {phase, "failed"} /\ passed' \subseteq Paths /\ sent' \subseteq Paths
    BY <2>2, <2>3, <2>4 DEF Outcome
  <2>6. UNCHANGED <<src, opts, last, astray, edits, had, listed, late, rewritten>> BY <1>3 DEF CopyChild
  <2> QED BY <2>5, <2>6 DEF TypeOK
<1>4. CASE CopyRecurse
  <2> DEFINE f == Head(stack)
  <2>1. f \in Frame /\ f.left \subseteq Paths /\ f.names \subseteq Paths BY <1>4, StackType DEF CopyRecurse, Frame
  <2>0. [f EXCEPT !.at = "recurse", !.left = f.names] \in Frame
    BY <2>1 DEF Frame
  <2>2. /\ <<[f EXCEPT !.at = "recurse", !.left = f.names]>> \o Tail(stack) \in Seq(Frame)
        /\ \A n \in f.left : <<Entering(n), [f EXCEPT !.left = @ \ {n}]>> \o Tail(stack) \in Seq(Frame)
        /\ <<[f EXCEPT !.left = {}]>> \o Tail(stack) \in Seq(Frame)
    <3>1. stack # <<>> BY <1>4 DEF CopyRecurse
    <3>2. \A n \in f.left : Entering(n) \in Frame /\ [f EXCEPT !.left = @ \ {n}] \in Frame
      BY <2>1, FrameType, EnteringType
    <3>3. [f EXCEPT !.left = {}] \in Frame BY <2>1 DEF Frame
    <3> QED BY <2>0, <3>1, <3>2, <3>3, StackType
  <2>3. /\ stack' \in Seq(Frame) /\ phase' = phase
        /\ sent' = sent /\ passed' \in {passed, passed \cup f.left}
    <3> HIDE DEF f
    <3> QED BY <1>4, <2>2 DEF CopyRecurse, PassOver, Return, f
  <2>4. f.left \subseteq Paths /\ passed \subseteq Paths BY <2>1 DEF TypeOK
  <2>5. passed' \subseteq Paths BY <2>3, <2>4
  <2>6. faults' \in 0 .. MaxFaults
    <3>1. Fault \/ faults' = faults BY <1>4 DEF CopyRecurse
    <3> QED BY <3>1, BoundAssumption DEF Fault, TypeOK
  <2> QED BY <1>4, <2>3, <2>5, <2>6 DEF CopyRecurse, TypeOK, fileVars
<1>5. CASE CopyLeave
  <2>1. stack' \in Seq(Frame) /\ phase' \in {phase, "failed"}
    <3>1. Tail(stack) \in Seq(Frame) /\ <<>> \in Seq(Frame) BY <1>5, StackType DEF CopyLeave
    <3> QED BY <1>5, <3>1 DEF CopyLeave, Return, Throw
  <2>2. faults' \in 0 .. MaxFaults
    BY <1>5, BoundAssumption DEF CopyLeave, Fault, TypeOK
  <2> QED BY <1>5, <2>1, <2>2 DEF CopyLeave, TypeOK, fileVars, history
<1>14. CASE CopyBreaks
  <2>1. Tail(stack) \in Seq(Frame)
    BY <1>14, StackType DEF CopyBreaks
  <2> QED BY <1>14, <2>1, CopyBreaksOutcome DEF TypeOK, fileVars
<1>6. CASE CopyDone
  BY <1>6, PathAssumption, EnteringType DEF CopyDone, TypeOK, fileVars, history
<1>7. CASE RmEnter \/ RmRecurse \/ RmChild \/ RmDone \/ RmTarget
  <2>1. <<>> \in Seq(Frame) /\ last \in Paths \cup {None}
        /\ phase \in {"start", "copy", "remove", "target", "done", "failed"}
    BY DEF TypeOK
  <2>2. /\ Removal /\ stack' \in Seq(Frame) /\ last' \in Paths \cup {None}
        /\ phase' \in {"start", "copy", "remove", "target", "done", "failed"}
    BY <1>7, <2>1, RmEnterRemoval, RmRecurseRemoval, RmChildRemoval, RmDoneRemoval, RmTargetRemoval
  <2> QED BY <2>2 DEF Removal, TypeOK, history
<1>8. ASSUME NEW n \in Paths, Modify(n) PROVE TypeOK'
  BY <1>8, BoundAssumption DEF Modify, TypeOK, walkVars, Copied
<1> QED BY <1>1, <1>2, <1>3, <1>4, <1>5, <1>6, <1>7, <1>8, <1>14 DEF Next, Step
-----------------------------------------------------------------------------
(***************************************************************************)
(* The walk of the copy.                                                   *)
(***************************************************************************)
LEMMA PendingHead ==
    ASSUME NEW t, NEW s \in Seq(Frame), s # <<>>, NEW m
    PROVE  Pending(t, s, m) <=> Waits(t, Head(s), m) \/ Pending(t, Tail(s), m)
<1>1. Len(s) \in Nat \ {0} /\ Head(s) = s[1] /\ Len(Tail(s)) = Len(s) - 1
  OBVIOUS
<1>2. \A i \in 1 .. Len(s) - 1 : Tail(s)[i] = s[i + 1]
  OBVIOUS
<1>3. ASSUME NEW i \in 1 .. Len(s), Waits(t, s[i], m)
      PROVE  Waits(t, Head(s), m) \/ Pending(t, Tail(s), m)
  <2>1. CASE i = 1 BY <1>1, <1>3, <2>1
  <2>2. CASE i # 1
    <3>1. i - 1 \in 1 .. Len(s) - 1 /\ Tail(s)[i - 1] = s[i] BY <1>1, <1>2, <2>2
    <3> QED BY <1>1, <1>3, <3>1 DEF Pending
  <2> QED BY <2>1, <2>2
<1>4. ASSUME NEW i \in 1 .. Len(Tail(s)), Waits(t, Tail(s)[i], m) PROVE Pending(t, s, m)
  <2>1. i + 1 \in 1 .. Len(s) /\ Tail(s)[i] = s[i + 1] BY <1>1, <1>2
  <2> QED BY <1>4, <2>1 DEF Pending
<1>5. Waits(t, Head(s), m) => Pending(t, s, m) BY <1>1 DEF Pending
<1> QED BY <1>3, <1>4, <1>5 DEF Pending

LEMMA PendingCons ==
    ASSUME NEW t, NEW f \in Frame, NEW s \in Seq(Frame), NEW m, Waits(t, f, m) \/ Pending(t, s, m)
    PROVE  Pending(t, <<f>> \o s, m)
<1> DEFINE r == <<f>> \o s
<1>1. <<f>> \in Seq(Frame) /\ Len(<<f>>) = 1 /\ <<f>>[1] = f /\ Len(s) \in Nat
  OBVIOUS
<1>2. /\ Len(r) = Len(s) + 1
      /\ \A i \in 1 .. Len(r) : r[i] = IF i <= 1 THEN <<f>>[i] ELSE s[i - 1]
  BY <1>1
<1>3. 1 \in 1 .. Len(r) /\ r[1] = f BY <1>1, <1>2
<1>4. \A i \in 1 .. Len(s) : i + 1 \in 1 .. Len(r) /\ r[i + 1] = s[i] BY <1>1, <1>2
<1> HIDE DEF r
<1>5. Pending(t, r, m) BY <1>3, <1>4 DEF Pending
<1> QED BY <1>5 DEF r

LEMMA PendingConsTwo ==
    ASSUME NEW t, NEW f \in Frame, NEW g \in Frame, NEW s \in Seq(Frame), NEW m,
           Waits(t, f, m) \/ Waits(t, g, m) \/ Pending(t, s, m)
    PROVE  Pending(t, <<f, g>> \o s, m)
<1> DEFINE r == <<f, g>> \o s
<1>1. /\ <<f, g>> \in Seq(Frame) /\ Len(<<f, g>>) = 2 /\ Len(s) \in Nat
      /\ <<f, g>>[1] = f /\ <<f, g>>[2] = g
  OBVIOUS
<1>2. /\ Len(r) = Len(s) + 2
      /\ \A i \in 1 .. Len(r) : r[i] = IF i <= 2 THEN <<f, g>>[i] ELSE s[i - 2]
  BY <1>1
<1>3. 1 \in 1 .. Len(r) /\ r[1] = f /\ 2 \in 1 .. Len(r) /\ r[2] = g BY <1>1, <1>2
<1>4. \A i \in 1 .. Len(s) : i + 2 \in 1 .. Len(r) /\ r[i + 2] = s[i] BY <1>1, <1>2
<1> HIDE DEF r
<1>5. Pending(t, r, m) BY <1>3, <1>4 DEF Pending
<1> QED BY <1>5 DEF r

LEMMA PendingEmpty == ASSUME NEW t, NEW m PROVE ~ Pending(t, <<>>, m)
BY DEF Pending

\* What the copy has done stays done; only what it had to do changes.
LEMMA WalkedStep ==
    ASSUME NEW n \in Paths, Walked(n), src' = src, listed \subseteq listed', passed \subseteq passed',
           src[n] # Dir /\ Delivered(n) => Delivered(n)' \/ n \in passed',
           ASSUME NEW m \in Above[n], Pending(src, stack, m) PROVE Walked(n)'
    PROVE  Walked(n)'
<1>1. CASE Reached(n) BY <1>1, AboveSelf DEF Reached, Walked, Passed
<1>2. CASE Passed(n) BY <1>2 DEF Passed, Walked
<1> QED BY <1>1, <1>2 DEF Walked

\* What is above something in the source, in a copy.
LEMMA CopyTree ==
    ASSUME TypeOK, Kept, phase = "copy", NEW n \in Paths, src[n] # Absent, NEW m \in Above[n]
    PROVE  m \in Paths /\ (m = n \/ src[m] = Dir)
BY AboveIsDir DEF Kept, Above

LEMMA WalkEnter ==
    ASSUME Inv, CopyEnter, phase' # "failed", NEW n \in Paths, src[n] # Absent, Walked(n)
    PROVE  Walked(n)'
<1> DEFINE d == Head(stack).dir
           f == [dir |-> d, at |-> "list", names |-> Kids(src, d), left |-> Kids(src, d)]
<1>1. /\ TypeOK /\ Kept /\ phase = "copy" /\ stack # <<>> /\ src' = src
      /\ Head(stack).at = "enter"
  BY DEF Inv, CopyEnter
<1>2. d \in Paths /\ Tail(stack) \in Seq(Frame) /\ stack \in Seq(Frame)
  BY <1>1, StackType DEF Frame, TypeOK
<1>3. f \in Frame BY <1>2, FrameType, KidsType
<1>4. \/ src[d] # Dir /\ stack' = Tail(stack) /\ UNCHANGED <<dst, faults, astray, sent, passed, listed, phase>>
      \/ /\ src[d] = Dir /\ stack' = Tail(stack) /\ passed' = passed \cup {d}
         /\ astray' \in {astray, TRUE} /\ UNCHANGED <<dst, sent, listed, phase>>
      \/ /\ src[d] = Dir /\ listed' = listed \cup {d} /\ astray' = astray
         /\ Outcome(d, <<f>> \o Tail(stack))
  BY <1>1, CopyEnterOutcome
<1>5. listed \subseteq listed' /\ passed \subseteq passed'
  <2> HIDE DEF d, f
  <2> QED BY <1>4 DEF Outcome
<1>6. ASSUME src[n] # Dir, Delivered(n) PROVE Delivered(n)'
  <2>1. had' = had BY DEF CopyEnter
  <2>2. n \in sent' /\ (astray' \/ (~ astray /\ dst'[n] = dst[n]))
    <3> HIDE DEF f, d
    <3>1. astray \in BOOLEAN BY <1>1 DEF TypeOK
    <3>2. n \in sent BY <1>6 DEF Delivered
    <3>3. CASE dst' = dst /\ sent' = sent /\ astray' \in {astray, TRUE}
      BY <3>1, <3>2, <3>3
    <3>4. CASE src[d] = Dir /\ astray' = astray /\ Outcome(d, <<f>> \o Tail(stack))
      <4>1. n # d BY <1>6, <3>4
      <4>2. sent \subseteq sent' BY <3>4 DEF Outcome
      <4>3. ~ astray => dst'[n] = dst[n] BY <3>4, <4>1 DEF Outcome
      <4> QED BY <3>1, <3>2, <3>4, <4>2, <4>3
    <3> QED BY <1>4, <3>3, <3>4
  <2> QED BY <1>6, <2>1, <2>2 DEF Delivered, Arrived
<1>7. ASSUME NEW m \in Above[n], Pending(src, stack, m) PROVE Walked(n)'
  <2>1. Waits(src, Head(stack), m) \/ Pending(src, Tail(stack), m)
    BY <1>1, <1>2, <1>7, PendingHead
  <2>2. CASE stack' = Tail(stack) /\ passed' = passed \cup {d}
    <3>1. CASE Pending(src, Tail(stack), m) BY <1>1, <2>2, <3>1 DEF Walked
    <3>2. CASE Waits(src, Head(stack), m)
      <4>1. m = d BY <1>1, <3>2 DEF Waits
      <4>2. Passed(n)' BY <2>2, <4>1 DEF Passed
      <4> QED BY <4>2 DEF Walked
    <3> QED BY <2>1, <3>1, <3>2
  <2>3. CASE src[d] # Dir /\ stack' = Tail(stack)
    <3>1. ~ Waits(src, Head(stack), m) BY <1>1, <2>3 DEF Waits
    <3> QED BY <1>1, <2>1, <2>3, <3>1 DEF Walked
  <2>4. CASE src[d] = Dir /\ listed' = listed \cup {d} /\ stack' = <<f>> \o Tail(stack)
    <3>1. CASE Pending(src, Tail(stack), m)
      <4>1. Pending(src, stack', m) BY <1>2, <1>3, <2>4, <3>1, PendingCons
      <4> QED BY <1>1, <4>1 DEF Walked
    <3>2. CASE Waits(src, Head(stack), m)
      <4>1. m = d BY <1>1, <3>2 DEF Waits
      <4>2. CASE d = n BY <1>1, <2>4, <4>2 DEF Walked, Reached
      <4>3. CASE d # n
        <5>1. PICK c \in Above[n] : Up[c] = d BY <4>1, <4>3, AboveChild
        <5>2. c \in Paths /\ (c = n \/ src[c] = Dir) BY <1>1, <5>1, CopyTree
        <5>3. c \in Kids(src, d) BY <5>1, <5>2 DEF Kids, Dir, Absent
        <5>4. Waits(src, f, c) BY <5>3 DEF Waits
        <5>5. Pending(src, stack', c) BY <1>2, <1>3, <2>4, <5>4, PendingCons
        <5> QED BY <1>1, <5>1, <5>5 DEF Walked
      <4> QED BY <4>2, <4>3
    <3> QED BY <2>1, <3>1, <3>2
  <2>5. CASE stack' = <<f>> \o Tail(stack) /\ passed' = passed \cup {d}
    <3>1. CASE Pending(src, Tail(stack), m)
      <4>1. Pending(src, stack', m) BY <1>2, <1>3, <2>5, <3>1, PendingCons
      <4> QED BY <1>1, <4>1 DEF Walked
    <3>2. CASE Waits(src, Head(stack), m)
      <4>1. m = d BY <1>1, <3>2 DEF Waits
      <4>2. Passed(n)' BY <2>5, <4>1 DEF Passed
      <4> QED BY <4>2 DEF Walked
    <3> QED BY <2>1, <3>1, <3>2
  <2> HIDE DEF f, d
  <2> QED BY <1>4, <2>2, <2>3, <2>4, <2>5 DEF Outcome
<1> QED BY <1>1, <1>5, <1>6, <1>7, WalkedStep

LEMMA WalkChild ==
    ASSUME Inv, CopyChild, phase' # "failed", NEW n \in Paths, src[n] # Absent, Walked(n)
    PROVE  Walked(n)'
<1>1. /\ TypeOK /\ Kept /\ phase = "copy" /\ stack # <<>> /\ src' = src /\ listed' = listed
      /\ Head(stack).at = "list"
  BY DEF Inv, CopyChild
<1>2. PICK k \in Head(stack).left :
          Outcome(k, <<[Head(stack) EXCEPT !.left = @ \ {k}]>> \o Tail(stack))
  BY <1>1, CopyChildOutcome
<1> DEFINE f == [Head(stack) EXCEPT !.left = @ \ {k}]
<1>3. /\ Head(stack) \in Frame /\ f \in Frame /\ k \in Paths
      /\ Tail(stack) \in Seq(Frame) /\ stack \in Seq(Frame)
  BY <1>1, StackType, FrameType DEF Frame, TypeOK
<1>4. f.at = "list" /\ f.names = Head(stack).names /\ f.left = Head(stack).left \ {k}
  BY <1>1, <1>3 DEF Frame
<1>5. Outcome(k, <<f>> \o Tail(stack)) BY <1>2
<1> HIDE DEF f
<1>6. passed \subseteq passed' /\ stack' = <<f>> \o Tail(stack)
  BY <1>5 DEF Outcome
<1>7. src[k] # Dir => k \in passed' \/ (k \in sent' /\ (astray \/ dst'[k] = src[k]))
  BY <1>5, <1>6 DEF Outcome
<1>8. /\ astray' = astray /\ had' = had /\ sent \subseteq sent'
      /\ src[n] # Dir => src[n] = had[n]
  <2>1. src[n] # Dir => src[n] = had[n] BY DEF Inv, HistoryInv, IsFile
  <2>2. astray' = astray /\ had' = had BY DEF CopyChild
  <2> QED BY <1>5, <1>6, <2>1, <2>2 DEF Outcome
<1>11. n = k /\ src[n] # Dir => Delivered(n)' \/ n \in passed'
  BY <1>7, <1>8 DEF Delivered, Arrived
<1>9. src[n] # Dir /\ Delivered(n) => Delivered(n)' \/ n \in passed'
  <2>1. CASE n = k BY <1>11, <2>1
  <2>2. CASE n # k
    <3>1. ~ astray => dst'[n] = dst[n] BY <1>5, <2>2 DEF Outcome
    <3> QED BY <1>8, <3>1 DEF Delivered, Arrived
  <2> QED BY <2>1, <2>2
<1>10. ASSUME NEW m \in Above[n], Pending(src, stack, m) PROVE Walked(n)'
  <2>1. Waits(src, Head(stack), m) \/ Pending(src, Tail(stack), m)
    BY <1>1, <1>3, <1>10, PendingHead
  <2>2. CASE Waits(src, f, m) \/ Pending(src, Tail(stack), m)
    <3>1. Pending(src, stack', m) BY <1>3, <1>6, <2>2, PendingCons
    <3> QED BY <1>1, <3>1 DEF Walked
  <2>3. CASE Waits(src, Head(stack), m) /\ ~ Waits(src, f, m)
    <3>1. m = k /\ src[m] # Dir BY <1>1, <1>4, <2>3 DEF Waits
    <3>2. m = n BY <1>1, <3>1, CopyTree
    <3>3. Delivered(n)' \/ n \in passed' BY <1>11, <3>1, <3>2
    <3> QED BY <1>1, <3>1, <3>2, <3>3, AboveSelf DEF Walked, Reached, Passed
  <2> QED BY <2>1, <2>2, <2>3
<1> QED BY <1>1, <1>6, <1>9, <1>10, WalkedStep

LEMMA WalkRecurse ==
    ASSUME Inv, CopyRecurse, NEW n \in Paths, src[n] # Absent, Walked(n)
    PROVE  Walked(n)'
<1> DEFINE f == Head(stack)
<1>1. /\ TypeOK /\ Kept /\ phase = "copy" /\ stack # <<>>
      /\ UNCHANGED <<src, dst, listed, astray, had>>
  BY DEF Inv, CopyRecurse, fileVars
<1>2. f \in Frame /\ f.left \subseteq Paths /\ f.names \subseteq Paths
      /\ Tail(stack) \in Seq(Frame) /\ stack \in Seq(Frame)
  BY <1>1, StackType DEF Frame, TypeOK
<1>5. passed \subseteq passed' /\ sent' = sent
  <2> HIDE DEF f
  <2> QED BY DEF CopyRecurse, PassOver
<1>3. ASSUME NEW m \in Above[n], Pending(src, stack, m) PROVE Walked(n)'
  <2>1. Waits(src, f, m) \/ Pending(src, Tail(stack), m)
    BY <1>1, <1>2, <1>3, PendingHead
  <2>2. CASE f.at = "list" /\ f.left = {} /\
             Return(<<[f EXCEPT !.at = "recurse", !.left = f.names]>> \o Tail(stack))
    <3> DEFINE g == [f EXCEPT !.at = "recurse", !.left = f.names]
    <3>1. g \in Frame /\ g.at = "recurse" /\ g.left = f.names BY <1>2 DEF Frame
    <3>2. stack' = <<g>> \o Tail(stack) BY <2>2 DEF Return
    <3> HIDE DEF g
    <3>3. Waits(src, f, m) => Waits(src, g, m) BY <2>2, <3>1 DEF Waits
    <3>4. Pending(src, stack', m) BY <1>2, <2>1, <3>1, <3>2, <3>3, PendingCons
    <3> QED BY <1>1, <3>4 DEF Walked
  <2>3. ASSUME f.at = "recurse", NEW k \in f.left,
               Return(<<Entering(k), [f EXCEPT !.left = @ \ {k}]>> \o Tail(stack))
        PROVE  Walked(n)'
    <3> DEFINE g == [f EXCEPT !.left = @ \ {k}]
    <3>1. g \in Frame /\ g.at = "recurse" /\ g.left = f.left \ {k} BY <1>2, <2>3 DEF Frame
    <3>2. Entering(k) \in Frame /\ Entering(k).at = "enter" /\ Entering(k).dir = k
      BY <1>2, EnteringType DEF Entering
    <3>3. stack' = <<Entering(k), g>> \o Tail(stack) BY <2>3 DEF Return
    <3> HIDE DEF g
    <3>4. Waits(src, f, m) => Waits(src, Entering(k), m) \/ Waits(src, g, m)
      BY <2>3, <3>1, <3>2 DEF Waits
    <3>5. Pending(src, stack', m) BY <1>2, <2>1, <3>1, <3>2, <3>3, <3>4, PendingConsTwo
    <3> QED BY <1>1, <3>5 DEF Walked
  <2>4. CASE /\ f.at = "recurse"
             /\ PassOver(f.left, <<[f EXCEPT !.left = {}]>> \o Tail(stack))
    <3> DEFINE g == [f EXCEPT !.left = {}]
    <3>1. g \in Frame BY <1>2 DEF Frame
    <3>2. stack' = <<g>> \o Tail(stack) /\ f.left \subseteq passed' BY <2>4 DEF PassOver, Return
    <3> HIDE DEF g
    <3>3. CASE Pending(src, Tail(stack), m)
      <4>1. Pending(src, stack', m) BY <1>2, <3>1, <3>2, <3>3, PendingCons
      <4> QED BY <1>1, <4>1 DEF Walked
    <3>4. CASE Waits(src, f, m)
      <4>1. m \in f.left BY <2>4, <3>4 DEF Waits
      <4>2. Passed(n)' BY <3>2, <4>1 DEF Passed
      <4> QED BY <4>2 DEF Walked
    <3> QED BY <2>1, <3>3, <3>4
  <2> QED BY <2>2, <2>3, <2>4 DEF CopyRecurse
<1>4. Delivered(n) => Delivered(n)' BY <1>1, <1>5 DEF Delivered, Arrived
<1> QED BY <1>1, <1>3, <1>4, <1>5, WalkedStep

LEMMA WalkBreaks ==
    ASSUME Inv, CopyBreaks, NEW n \in Paths, src[n] # Absent, Walked(n)
    PROVE  Walked(n)'
<1>1. /\ TypeOK /\ stack # <<>> /\ stack \in Seq(Frame) /\ stack' = Tail(stack)
      /\ astray' = TRUE /\ passed \subseteq passed'
      /\ \A m : Waits(src, Head(stack), m) => m \in passed'
      /\ UNCHANGED <<src, dst, had, sent, listed>>
  BY CopyBreaksOutcome DEF Inv, CopyBreaks, TypeOK, fileVars
<1>2. ASSUME NEW m \in Above[n], Pending(src, stack, m) PROVE Walked(n)'
  <2>1. CASE Waits(src, Head(stack), m)
    <3>1. Passed(n)' BY <1>1, <2>1 DEF Passed
    <3> QED BY <3>1 DEF Walked
  <2>2. CASE ~ Waits(src, Head(stack), m)
    <3>1. Pending(src, stack', m) BY <1>1, <1>2, <2>2, PendingHead
    <3> QED BY <1>1, <3>1 DEF Walked
  <2> QED BY <2>1, <2>2
<1>3. Delivered(n) => Delivered(n)' BY <1>1 DEF Delivered, Arrived
<1> QED BY <1>1, <1>2, <1>3, WalkedStep

LEMMA WalkLeave ==
    ASSUME Inv, CopyLeave, phase' # "failed", NEW n \in Paths, src[n] # Absent, Walked(n)
    PROVE  Walked(n)'
<1>1. /\ TypeOK /\ stack # <<>> /\ stack' = Tail(stack) /\ stack \in Seq(Frame)
      /\ Head(stack).at = "recurse" /\ Head(stack).left = {}
      /\ UNCHANGED <<src, dst, listed, passed, astray, sent, had>>
  BY DEF Inv, CopyLeave, Return, Throw, fileVars, history, TypeOK
<1>2. ASSUME NEW m \in Above[n], Pending(src, stack, m) PROVE Walked(n)'
  <2>1. ~ Waits(src, Head(stack), m) BY <1>1 DEF Waits
  <2>2. Pending(src, stack', m) BY <1>1, <1>2, <2>1, PendingHead
  <2> QED BY <1>1, <2>2 DEF Walked
<1>3. Delivered(n) => Delivered(n)' BY <1>1 DEF Delivered, Arrived
<1> QED BY <1>1, <1>2, <1>3, WalkedStep
-----------------------------------------------------------------------------
(***************************************************************************)
(* The invariant.                                                          *)
(***************************************************************************)
LEMMA InvInit == ASSUME Init PROVE Inv
<1>1. TypeOK BY TypeInit
<1>2. /\ phase = "start" /\ late = {} /\ rewritten = {} /\ astray = FALSE
      /\ had = [n \in Paths |-> IF IsFile(src, n) THEN src[n] ELSE Absent]
  BY DEF Init
<1>3. Kept BY <1>2, SourceAssumption DEF Kept, Init
<1>4. HistoryInv /\ StraightInv BY <1>2 DEF HistoryInv, StraightInv
<1> QED BY <1>1, <1>2, <1>3, <1>4 DEF Inv, CopyInv, RemoveInv, Covered, Safe

\* As long as nothing is removed nothing has gone.
LEMMA NothingGone ==
    ASSUME Kept, phase \in {"start", "copy"}, UNCHANGED <<src, had>>
    PROVE  GoneIsCopied'
BY DEF Kept, GoneIsCopied, Gone

LEMMA NothingGoneNow == ASSUME Kept, phase \in {"start", "copy"} PROVE GoneIsCopied
BY DEF Kept, GoneIsCopied, Gone

\* An invariant of its own: no other part of Inv speaks of the calls that failed.
LEMMA StraightStep == ASSUME TypeOK, StraightInv, Next PROVE StraightInv'
<1>1. faults \in Nat BY BoundAssumption DEF TypeOK
<1>2. Fault => faults' # 0 BY <1>1 DEF Fault
<1> QED BY <1>2, FaultOrNot DEF StraightInv

LEMMA BeginKeeps == ASSUME Inv, Begin, TypeOK', StraightInv' PROVE Inv'
<1>1. /\ TypeOK /\ Kept /\ HistoryInv /\ phase = "start"
      /\ UNCHANGED <<src, dst, had, passed, listed, late, rewritten>>
  BY DEF Inv, Begin, fileVars, history
<1>2. Kept' /\ HistoryInv' BY <1>1 DEF Kept, HistoryInv, IsFile
<1>3. CASE phase' = "copy" /\ stack' = <<Entering(Top)>>
  <2>1. Waits(src, Entering(Top), Top) /\ Len(stack') = 1 /\ stack'[1] = Entering(Top)
    BY <1>1, <1>3 DEF Kept, Waits, Entering
  <2>2. Pending(src, stack', Top) BY <2>1 DEF Pending
  <2>3. CopyInv' BY <1>1, <2>2, PathAssumption DEF CopyInv, Walked
  <2> QED BY <1>2, <1>3, <2>3 DEF Inv, RemoveInv, Covered, Safe
<1>4. CASE phase' = "done"
  <2>1. GoneIsCopied' BY <1>1, NothingGone
  <2> QED BY <1>2, <1>4, <2>1 DEF Inv, CopyInv, RemoveInv, Covered, Safe
<1> QED BY <1>3, <1>4 DEF Begin

LEMMA CopyKeeps ==
    ASSUME Inv, CopyEnter \/ CopyChild \/ CopyBreaks \/ CopyRecurse \/ CopyLeave,
           TypeOK', StraightInv'
    PROVE  Inv'
<1>1. /\ TypeOK /\ Kept /\ HistoryInv /\ CopyInv /\ phase = "copy"
      /\ UNCHANGED <<src, had, late, rewritten>>
  BY DEF Inv, CopyEnter, CopyChild, CopyBreaks, CopyRecurse, CopyLeave, fileVars, history
<1>2. phase' \in {"copy", "failed"}
  <2>1. CASE CopyEnter BY <1>1, <2>1, CopyEnterOutcome DEF Outcome
  <2>2. CASE CopyChild
    <3>1. PICK n \in Head(stack).left :
              Outcome(n, <<[Head(stack) EXCEPT !.left = @ \ {n}]>> \o Tail(stack))
      BY <1>1, <2>2, CopyChildOutcome
    <3> QED BY <1>1, <3>1 DEF Outcome
  <2>3. CASE CopyRecurse BY <1>1, <2>3 DEF CopyRecurse, PassOver, Return
  <2>4. CASE CopyLeave BY <1>1, <2>4 DEF CopyLeave, Return, Throw
  <2>5. CASE CopyBreaks BY <1>1, <2>5, CopyBreaksOutcome
  <2> QED BY <2>1, <2>2, <2>3, <2>4, <2>5
<1>3. Kept' /\ HistoryInv' BY <1>1, <1>2 DEF Kept, HistoryInv, IsFile
<1>4. CASE phase' = "copy"
  <2>1. ASSUME NEW n \in Paths, src[n] # Absent, n \notin late \cup rewritten PROVE Walked(n)'
    <3>1. Walked(n) BY <1>1, <2>1 DEF CopyInv
    <3> QED BY <1>4, <2>1, <3>1, WalkEnter, WalkChild, WalkBreaks, WalkRecurse, WalkLeave
  <2>2. CopyInv' BY <1>1, <2>1 DEF CopyInv
  <2> QED BY <1>3, <1>4, <2>2 DEF Inv, RemoveInv, Covered, Safe
<1>5. CASE phase' = "failed"
  <2>1. GoneIsCopied' BY <1>1, NothingGone
  <2> QED BY <1>3, <1>5, <2>1 DEF Inv, CopyInv, RemoveInv, Covered, Safe
<1> QED BY <1>2, <1>4, <1>5

LEMMA CopyDoneKeeps == ASSUME Inv, CopyDone, TypeOK', StraightInv' PROVE Inv'
<1>1. /\ TypeOK /\ Kept /\ HistoryInv /\ CopyInv /\ phase = "copy" /\ stack = <<>>
      /\ phase' = "remove"
      /\ UNCHANGED <<src, dst, astray, had, sent, passed, listed, late, rewritten>>
  BY DEF Inv, CopyDone, fileVars, history
<1>2. ASSUME NEW n \in Paths, src[n] # Absent, n \notin late \cup rewritten PROVE Reached(n) \/ Passed(n)
  BY <1>1, <1>2, PendingEmpty DEF CopyInv, Walked
<1>3. ASSUME NEW n \in Paths, had[n] # Absent, n \notin late \cup rewritten
      PROVE  Delivered(n) \/ Passed(n)
  <2>1. had[n] \in Copied \cup {Absent} BY <1>1 DEF TypeOK
  <2>2. src[n] # Absent /\ src[n] # Dir BY <1>1, <1>3, <2>1 DEF Kept, Copied, Dir, Absent
  <2> QED BY <1>2, <1>3, <2>2 DEF Reached
<1>4. ASSUME NEW n \in Paths, src[n] = Dir PROVE n \in listed \/ Passed(n)
  <2>1. src[n] # Absent /\ n \notin late \cup rewritten BY <1>1, <1>4 DEF HistoryInv, Dir, Absent
  <2> QED BY <1>2, <1>4, <2>1 DEF Reached
<1>5. RemoveInv' /\ Safe' BY <1>1, <1>3, <1>4 DEF RemoveInv, Safe, Delivered, Arrived, Passed
<1>6. GoneIsCopied' BY <1>1, NothingGone
<1>7. HistoryInv' BY <1>1 DEF HistoryInv, IsFile
<1> QED BY <1>1, <1>5, <1>6, <1>7 DEF Inv, Kept, CopyInv, Covered

LEMMA RemovalKeeps ==
    ASSUME Inv, Removal, phase \in {"remove", "target"}, TypeOK', StraightInv',
           phase' \in {"remove", "target", "done", "failed"}
    PROVE  Inv'
<1>1. /\ TypeOK /\ HistoryInv /\ RemoveInv /\ Safe
      /\ UNCHANGED <<dst, astray, had, sent, passed, listed, late, rewritten>>
      /\ \A n \in Paths : src'[n] = src[n] \/ src'[n] = Absent
  BY DEF Inv, Removal, history
<1>2. \A n \in Paths : had[n] # Absent /\ n \notin late \cup rewritten => Delivered(n) \/ Passed(n)
  BY DEF Inv, Safe
<1>3. Safe' /\ GoneIsCopied'
  BY <1>1, <1>2 DEF Safe, GoneIsCopied, Gone, Delivered, Arrived, Passed
<1>4. RemoveInv' BY <1>1 DEF RemoveInv, Passed, Dir, Absent
<1>5. HistoryInv' BY <1>1 DEF HistoryInv, IsFile, Dir, Absent
<1> QED BY <1>3, <1>4, <1>5 DEF Inv, Kept, CopyInv, Covered

LEMMA ModifyKeeps == ASSUME Inv, NEW n \in Paths, Modify(n), TypeOK', StraightInv' PROVE Inv'
<1>1. /\ TypeOK /\ Kept /\ HistoryInv /\ CopyInv /\ RemoveInv /\ Safe
      /\ phase \in {"start", "copy", "remove", "target"}
      /\ UNCHANGED <<dst, phase, stack, astray, sent, passed, listed>>
      /\ src[n] # Dir /\ n # Top /\ src[Up[n]] = Dir
      /\ src' = [src EXCEPT ![n] = "second"] /\ had' = [had EXCEPT ![n] = "second"]
      /\ late' = IF src[n] = Absent /\ Up[n] \in listed THEN late \cup {n} ELSE late
      /\ rewritten' = IF n \in sent THEN rewritten \cup {n} ELSE rewritten
  BY DEF Inv, Modify, Ended, walkVars, TypeOK
<1>2. /\ src'[n] = "second" /\ \A k \in Paths : k # n => src'[k] = src[k]
      /\ \A k \in Paths : (src'[k] = Dir) <=> (src[k] = Dir)
      /\ had'[n] = "second" /\ \A k \in Paths : k # n => had'[k] = had[k]
      /\ late \subseteq late' /\ rewritten \subseteq rewritten'
      /\ \A k \in Paths : k # n => (k \in late' <=> k \in late) /\ (k \in rewritten' <=> k \in rewritten)
  BY <1>1 DEF TypeOK, Dir
<1>3. HistoryInv' BY <1>1, <1>2 DEF HistoryInv, IsFile, Dir
<1>4. Up[n] \in Paths /\ Above[Up[n]] \subseteq Above[n] BY <1>1, PathAssumption, AboveUp
<1>5. Up[n] \notin late \cup rewritten BY <1>1, <1>4 DEF HistoryInv
<1>6. CASE phase \in {"start", "copy"}
  <2>1. Kept'
    BY <1>1, <1>2, <1>6, PathAssumption DEF Kept, IsFile, Dir, Absent, TypeOK
  <2>2. ASSUME phase = "copy", NEW k \in Paths, src'[k] # Absent, k \notin (late \cup rewritten)'
        PROVE  Walked(k)'
    <3>1. \A m \in Paths : Pending(src, stack, m) => Pending(src', stack, m)
      BY <1>2 DEF Pending, Waits
    <3>2. Above[k] \subseteq Paths BY DEF Above
    <3>3. CASE src[k] # Absent
      <4>1. Walked(k) BY <1>1, <1>2, <2>2, <3>3 DEF CopyInv
      <4>2. Reached(k) => Reached(k)'
        <5>1. k = n => k \notin sent /\ src[k] # Dir BY <1>1, <2>2
        <5> QED BY <1>1, <1>2, <5>1 DEF Reached, Delivered, Arrived
      <4> QED BY <1>1, <3>1, <3>2, <4>1, <4>2 DEF Walked, Passed
    <3>4. CASE src[k] = Absent
      <4>1. k = n /\ Up[n] \notin listed BY <1>1, <1>2, <2>2, <3>4
      <4>2. Walked(Up[n]) BY <1>1, <1>4, <1>5, <2>2 DEF CopyInv, Dir, Absent
      <4>3. Passed(Up[n]) \/ \E m \in Above[Up[n]] : Pending(src, stack, m)
        BY <1>1, <4>1, <4>2 DEF Walked, Reached
      <4> QED BY <1>1, <1>4, <3>1, <3>2, <4>1, <4>3 DEF Walked, Passed
    <3> QED BY <3>3, <3>4
  <2>3. CopyInv' BY <1>1, <2>2 DEF CopyInv
  <2> QED BY <1>1, <1>3, <1>6, <2>1, <2>3 DEF Inv, RemoveInv, Covered, Safe
<1>7. CASE phase \in {"remove", "target"}
  <2>1. RemoveInv' BY <1>1, <1>2 DEF RemoveInv, Passed
  <2>2. ASSUME NEW k \in Paths, had'[k] # Absent, k \notin (late \cup rewritten)'
        PROVE  Delivered(k)' \/ Passed(k)
    <3>1. CASE k # n
      <4>1. Delivered(k) \/ Passed(k) BY <1>1, <1>2, <1>7, <2>2, <3>1 DEF Safe
      <4> QED BY <1>1, <1>2, <3>1, <4>1 DEF Delivered, Arrived
    <3>2. CASE k = n /\ had[n] # Absent
      <4>1. n \notin sent /\ n \notin late \cup rewritten BY <1>1, <1>2, <2>2, <3>2
      <4> QED BY <1>1, <1>7, <3>2, <4>1 DEF Safe, Delivered
    <3>3. CASE k = n /\ had[n] = Absent
      <4>1. src[n] = Absent BY <1>1, <3>3 DEF HistoryInv, IsFile
      <4>2. Up[n] \notin listed BY <1>1, <2>2, <3>3, <4>1
      <4>3. Passed(Up[n]) BY <1>1, <1>4, <1>7, <4>2 DEF RemoveInv
      <4> QED BY <1>4, <3>3, <4>3 DEF Passed
    <3> QED BY <3>1, <3>2, <3>3
  <2>3. Safe' /\ GoneIsCopied'
    BY <1>1, <2>2 DEF Safe, GoneIsCopied, Gone, Delivered, Arrived, Passed
  <2> QED BY <1>1, <1>3, <1>7, <2>1, <2>3 DEF Inv, Kept, CopyInv, Covered
<1> QED BY <1>1, <1>6, <1>7

LEMMA InvStep == ASSUME Inv, [Next]_vars PROVE Inv'
<1>1. TypeOK BY DEF Inv
<1>2. CASE Next
  <2>1. TypeOK' /\ StraightInv' BY <1>1, <1>2, TypeStep, StraightStep DEF Inv
  <2>2. CASE RmEnter \/ RmRecurse \/ RmChild \/ RmDone \/ RmTarget
    <3>1. phase \in {"remove", "target"}
      BY <2>2 DEF RmEnter, RmRecurse, RmChild, RmDone, RmTarget
    <3>2. Removal /\ phase' \in {"remove", "target", "done", "failed"}
      BY <1>1, <2>2, <3>1, RmEnterRemoval, RmRecurseRemoval, RmChildRemoval, RmDoneRemoval, RmTargetRemoval
    <3> QED BY <2>1, <3>1, <3>2, RemovalKeeps
  <2> QED BY <1>2, <2>1, <2>2, BeginKeeps, CopyKeeps, CopyDoneKeeps, ModifyKeeps DEF Next, Step
<1>3. CASE UNCHANGED vars
  BY <1>3 DEF vars, fileVars, walkVars, history, Inv, TypeOK, Kept, CopyInv, RemoveInv,
     HistoryInv, StraightInv, Covered, Safe, Walked, Reached, Delivered, Passed, Arrived, IsFile, GoneIsCopied, Gone
<1> QED BY <1>2, <1>3

THEOREM Invariance == Spec => []Inv
<1>1. Init => Inv BY InvInit
<1>2. Inv /\ [Next]_vars => Inv' BY InvStep
<1> QED BY <1>1, <1>2, PTL DEF Spec

\* Every variable of a move keeps the type of what it stands for: the stack
\* is one of directories and names, for every tree.
THEOREM TypeCorrect == Spec => []TypeOK
<1>1. Inv => TypeOK BY DEF Inv
<1> QED BY <1>1, Invariance, PTL

\* What crossVolumeMove() removes it has copied as it was, or has passed over,
\* or has sent to a place of another after it left a directory by an exception:
\* for every tree of files, every destination, any options, and whatever
\* calls fail and whatever another program writes on the way.
THEOREM RemovesWhatIsCopied == Spec => []GoneIsCopied
<1>1. Inv => GoneIsCopied
  BY NothingGoneNow DEF Inv, Covered
<1> QED BY <1>1, Invariance, PTL
-----------------------------------------------------------------------------
(***************************************************************************)
(* A move that nothing disturbs.                                           *)
(***************************************************************************)
Undisturbed == passed = {} /\ faults = 0 /\ edits = 0 /\ ~ opts.Interactive

\* The destination d has a directory for what a frame f of the copy of t has
\* still to do.
Ready(t, d, f) ==
    IF f.at = "enter" THEN t[f.dir] = Dir /\ f.dir # Top => d[Up[f.dir]] = Dir
    ELSE /\ t[f.dir] = Dir /\ d[f.dir] = Dir
         /\ \A n \in f.names \cup f.left : Up[n] = f.dir

\* In the walk s of the removal what a frame has not to enter any more is
\* empty, but for the object l that was met last, and so is what it lists.
Entered(s, i) == IF i > 1 THEN s[i - 1].dir ELSE None
Emptied(t, l, f, inner) ==
    /\ f.left \subseteq Paths \ {Top}
    /\ f.at = "recurse" => \A n \in Kids(t, f.dir) :
           n \in f.left \/ n = inner \/ Kids(t, n) \subseteq {l}
    /\ f.at = "list" => /\ \A n \in Kids(t, f.dir) : n \in f.left \/ n = l
                        /\ \A n \in f.left : Kids(t, n) \subseteq {l}
WalkEmpties(t, l, s) ==
    /\ s = <<>> => Kids(t, Top) \subseteq {l}
    /\ s # <<>> => s[Len(s)].dir = Top
    /\ \A i \in 1 .. Len(s) : /\ Emptied(t, l, s[i], Entered(s, i))
                              /\ i > 1 => s[i].at = "recurse"

CopyReady == phase = "copy" => \A i \in 1 .. Len(stack) : Ready(src, dst, stack[i])
Rooted == \A n \in Paths \ {Top} : src[n] # Absent => src[Up[n]] = Dir
LastIsEmpty == last # None => last # Top /\ Kids(src, last) = {}
RemovalEmpties ==
    /\ phase \in {"remove", "target"} => Rooted
    /\ phase = "remove" => LastIsEmpty /\ WalkEmpties(src, last, stack)
    /\ phase = "target" => Kids(src, Top) = {}
NothingLeft == \A n \in Paths : src[n] = Absent

Goes ==
    /\ late = {} /\ phase # "failed"
    /\ phase = "start" => listed = {}
    /\ phase \in {"start", "copy"} => last = None
    /\ phase = "done" => listed = {} \/ NothingLeft
    /\ CopyReady
    /\ RemovalEmpties
UndisturbedInv == Undisturbed => Goes

LEMMA Positions ==
    ASSUME NEW s \in Seq(Frame), s # <<>>
    PROVE  /\ Len(s) \in Nat \ {0} /\ Head(s) = s[1] /\ Head(s) \in Frame
           /\ Len(Tail(s)) = Len(s) - 1
           /\ \A i \in 1 .. Len(s) - 1 : Tail(s)[i] = s[i + 1]
<1>1. Len(s) \in Nat \ {0} /\ Head(s) = s[1] /\ Len(Tail(s)) = Len(s) - 1
  OBVIOUS
<1>2. \A i \in 1 .. Len(s) - 1 : Tail(s)[i] = s[i + 1]
  OBVIOUS
<1> QED BY <1>1, <1>2

LEMMA PositionsCons ==
    ASSUME NEW s \in Seq(Frame), s # <<>>, NEW f \in Frame
    PROVE  LET r == <<f>> \o Tail(s)
           IN /\ Len(r) = Len(s) /\ r # <<>> /\ r[1] = f
              /\ \A i \in 2 .. Len(s) : r[i] = s[i]
<1> DEFINE q == Tail(s)
           r == <<f>> \o q
<1>1. /\ Len(s) \in Nat \ {0} /\ Len(q) = Len(s) - 1 /\ q \in Seq(Frame)
      /\ \A i \in 1 .. Len(s) - 1 : q[i] = s[i + 1]
  BY Positions
<1> HIDE DEF q
<1>2. <<f>> \in Seq(Frame) /\ Len(<<f>>) = 1 /\ <<f>>[1] = f
  OBVIOUS
<1>3. Len(r) = Len(q) + 1 /\ \A i \in 1 .. Len(r) : r[i] = IF i <= 1 THEN <<f>>[i] ELSE q[i - 1]
  BY <1>1, <1>2
<1> HIDE DEF r
<1>4. \A i \in 2 .. Len(s) : i - 1 \in 1 .. Len(s) - 1 /\ q[i - 1] = s[i] BY <1>1
<1>5. Len(r) = Len(s) /\ r[1] = f BY <1>1, <1>2, <1>3
<1>6. r # <<>> BY <1>1, <1>5
<1>7. \A i \in 2 .. Len(s) : r[i] = s[i] BY <1>1, <1>3, <1>4, <1>5
<1> QED BY <1>5, <1>6, <1>7 DEF r, q

LEMMA PositionsConsTwo ==
    ASSUME NEW s \in Seq(Frame), s # <<>>, NEW e \in Frame, NEW f \in Frame
    PROVE  LET r == <<e, f>> \o Tail(s)
           IN /\ Len(r) = Len(s) + 1 /\ r # <<>> /\ r[1] = e /\ r[2] = f
              /\ \A i \in 2 .. Len(s) : r[i + 1] = s[i]
<1> DEFINE q == Tail(s)
           r == <<e, f>> \o q
<1>1. /\ Len(s) \in Nat \ {0} /\ Len(q) = Len(s) - 1 /\ q \in Seq(Frame)
      /\ \A i \in 1 .. Len(s) - 1 : q[i] = s[i + 1]
  BY Positions
<1> HIDE DEF q
<1>2. /\ <<e, f>> \in Seq(Frame) /\ Len(<<e, f>>) = 2
      /\ <<e, f>>[1] = e /\ <<e, f>>[2] = f
  OBVIOUS
<1>3. Len(r) = Len(q) + 2 /\ \A i \in 1 .. Len(r) : r[i] = IF i <= 2 THEN <<e, f>>[i] ELSE q[i - 2]
  BY <1>1, <1>2
<1> HIDE DEF r
<1>4. \A i \in 2 .. Len(s) : i - 1 \in 1 .. Len(s) - 1 /\ q[i - 1] = s[i] BY <1>1
<1>5. Len(r) = Len(s) + 1 /\ r[1] = e /\ r[2] = f BY <1>1, <1>2, <1>3
<1>6. r # <<>> BY <1>1, <1>5
<1>7. \A i \in 2 .. Len(s) : r[i + 1] = s[i]
  <2> SUFFICES ASSUME NEW i \in 2 .. Len(s) PROVE r[i + 1] = s[i] OBVIOUS
  <2>1. i + 1 \in 1 .. Len(r) /\ ~ (i + 1 <= 2) /\ (i + 1) - 2 = i - 1 BY <1>1, <1>5
  <2>2. r[i + 1] = q[i - 1] BY <1>3, <2>1
  <2> QED BY <1>4, <2>2
<1> QED BY <1>5, <1>6, <1>7 DEF r, q

\* A frame that has emptied its directory is left.
LEMMA EmptiesPop ==
    ASSUME NEW t, NEW l, NEW s \in Seq(Frame), s # <<>>, WalkEmpties(t, l, s),
           Kids(t, Head(s).dir) \subseteq {l}
    PROVE  WalkEmpties(t, l, Tail(s))
<1> DEFINE r == Tail(s)
<1>1. /\ Len(s) \in Nat \ {0} /\ Head(s) = s[1] /\ r \in Seq(Frame) /\ Len(r) = Len(s) - 1
      /\ \A i \in 1 .. Len(s) - 1 : r[i] = s[i + 1]
  BY Positions
<1> HIDE DEF r
<1>2. r = <<>> => Kids(t, Top) \subseteq {l}
  <2>1. r = <<>> => Len(s) = 1 BY <1>1
  <2> QED BY <1>1, <2>1 DEF WalkEmpties
<1>3. r # <<>> => r[Len(r)].dir = Top
  <2> SUFFICES ASSUME r # <<>> PROVE r[Len(r)].dir = Top OBVIOUS
  <2>1. Len(r) # 0 BY <1>1
  <2>2. Len(r) \in 1 .. Len(s) - 1 /\ Len(r) + 1 = Len(s) BY <1>1, <2>1
  <2> QED BY <1>1, <2>2 DEF WalkEmpties
<1>4. ASSUME NEW i \in 1 .. Len(r)
      PROVE  Emptied(t, l, r[i], Entered(r, i)) /\ r[i].at = "recurse"
  <2>1. i \in 1 .. Len(s) - 1 /\ i + 1 \in 1 .. Len(s) /\ i + 1 > 1 /\ (i + 1) - 1 = i BY <1>1
  <2>2. r[i] = s[i + 1] /\ Entered(s, i + 1) = s[i].dir BY <1>1, <2>1 DEF Entered
  <2>3. Emptied(t, l, r[i], s[i].dir) /\ r[i].at = "recurse" BY <2>1, <2>2 DEF WalkEmpties
  <2>4. CASE i = 1 BY <1>1, <2>3, <2>4 DEF Emptied
  <2>5. CASE i # 1
    <3>1. i - 1 \in 1 .. Len(s) - 1 /\ (i - 1) + 1 = i /\ i > 1 BY <2>1, <2>5
    <3>2. Entered(r, i) = s[i].dir BY <1>1, <3>1 DEF Entered
    <3> QED BY <2>3, <3>2
  <2> QED BY <2>4, <2>5
<1>5. WalkEmpties(t, l, r) BY <1>2, <1>3, <1>4 DEF WalkEmpties
<1> QED BY <1>5 DEF r

\* The innermost frame goes on.
LEMMA EmptiesHead ==
    ASSUME NEW t, NEW l, NEW s \in Seq(Frame), s # <<>>, WalkEmpties(t, l, s),
           NEW f \in Frame, f.dir = Head(s).dir, Emptied(t, l, f, None)
    PROVE  WalkEmpties(t, l, <<f>> \o Tail(s))
<1> DEFINE r == <<f>> \o Tail(s)
<1>1. Len(r) = Len(s) /\ r # <<>> /\ r[1] = f /\ \A i \in 2 .. Len(s) : r[i] = s[i]
  BY PositionsCons
<1>2. Len(s) \in Nat \ {0} /\ Head(s) = s[1] BY Positions
<1> HIDE DEF r
<1>3. \A i \in 1 .. Len(s) : r[i].dir = s[i].dir /\ (i > 1 => r[i] = s[i]) BY <1>1, <1>2
<1>4. r[Len(r)].dir = Top BY <1>1, <1>2, <1>3 DEF WalkEmpties
<1>5. ASSUME NEW i \in 1 .. Len(s)
      PROVE  Emptied(t, l, r[i], Entered(r, i)) /\ (i > 1 => r[i].at = "recurse")
  <2>1. CASE i = 1
    <3>1. Entered(r, i) = None BY <2>1 DEF Entered
    <3> QED BY <1>1, <2>1, <3>1
  <2>2. CASE i # 1
    <3>1. i > 1 /\ i - 1 \in 1 .. Len(s) BY <1>2, <2>2
    <3>2. Entered(r, i) = Entered(s, i) BY <1>3, <3>1 DEF Entered
    <3>3. r[i] = s[i] BY <1>3, <3>1
    <3> QED BY <3>1, <3>2, <3>3 DEF WalkEmpties
  <2> QED BY <2>1, <2>2
<1>6. WalkEmpties(t, l, r) BY <1>1, <1>4, <1>5 DEF WalkEmpties
<1> QED BY <1>6 DEF r

\* A directory is entered.
LEMMA EmptiesPush ==
    ASSUME NEW t, NEW l, NEW s \in Seq(Frame), s # <<>>, WalkEmpties(t, l, s),
           Head(s).at = "recurse", NEW n \in Head(s).left
    PROVE  WalkEmpties(t, l, <<Entering(n), [Head(s) EXCEPT !.left = @ \ {n}]>> \o Tail(s))
<1> DEFINE h == Head(s)
           f == [h EXCEPT !.left = @ \ {n}]
           r == <<Entering(n), f>> \o Tail(s)
<1>1. Len(s) \in Nat \ {0} /\ h = s[1] /\ h \in Frame BY Positions
<1>2. n \in Paths /\ f \in Frame /\ f.dir = h.dir /\ f.at = "recurse" /\ f.left = h.left \ {n}
  BY <1>1 DEF Frame
<1>3. Entering(n) \in Frame BY <1>2, EnteringType
<1> HIDE DEF h, f
<1>4. /\ Len(r) = Len(s) + 1 /\ r # <<>> /\ r[1] = Entering(n) /\ r[2] = f
      /\ \A i \in 2 .. Len(s) : r[i + 1] = s[i]
  BY <1>2, <1>3, PositionsConsTwo
<1> HIDE DEF r
<1>5. Emptied(t, l, h, None) /\ h.at = "recurse"
  <2>1. 1 \in 1 .. Len(s) /\ Entered(s, 1) = None BY <1>1 DEF Entered
  <2> QED BY <1>1, <2>1 DEF WalkEmpties, h
<1>6. \A i \in 1 .. Len(s) : r[i + 1].dir = s[i].dir
  BY <1>1, <1>2, <1>4
<1>7. r[Len(r)].dir = Top
  <2>1. Len(s) \in 1 .. Len(s) BY <1>1
  <2> QED BY <1>1, <1>4, <1>6, <2>1 DEF WalkEmpties
<1>8. Emptied(t, l, Entering(n), None) BY DEF Emptied, Entering
<1>9. Emptied(t, l, f, n)
  <2>1. h.left \subseteq Paths \ {Top} BY <1>5 DEF Emptied
  <2>2. \A k \in Kids(t, f.dir) : k \in f.left \/ k = n \/ Kids(t, k) \subseteq {l}
    <3> SUFFICES ASSUME NEW k \in Kids(t, h.dir)
                 PROVE  k \in h.left \ {n} \/ k = n \/ Kids(t, k) \subseteq {l}
      BY <1>2
    <3>1. k \in Paths BY DEF Kids
    <3>2. k \in h.left \/ k = None \/ Kids(t, k) \subseteq {l} BY <1>5 DEF Emptied
    <3> QED BY <3>1, <3>2, PathAssumption
  <2> QED BY <1>2, <2>1, <2>2 DEF Emptied
<1>10. ASSUME NEW i \in 1 .. Len(r)
       PROVE  Emptied(t, l, r[i], Entered(r, i)) /\ (i > 1 => r[i].at = "recurse")
  <2>1. CASE i = 1
    <3>1. Entered(r, i) = None BY <2>1 DEF Entered
    <3> QED BY <1>4, <1>8, <2>1, <3>1
  <2>2. CASE i = 2
    <3>1. Entered(r, i) = n BY <1>4, <2>2 DEF Entered, Entering
    <3> QED BY <1>2, <1>4, <1>9, <2>2, <3>1
  <2>3. CASE i \notin {1, 2}
    <3> DEFINE j == i - 1
    <3>1. j \in 2 .. Len(s) /\ j \in 1 .. Len(s) /\ j > 1 /\ i = j + 1 /\ i > 1 BY <1>1, <1>4, <2>3
    <3>2. j - 1 \in 1 .. Len(s) /\ (j - 1) + 1 = j /\ (j + 1) - 1 = j BY <1>1, <3>1
    <3> HIDE DEF j
    <3>3. r[i] = s[j] BY <1>4, <3>1
    <3>4. r[j].dir = s[j - 1].dir BY <1>6, <3>2
    <3>5. Entered(r, i) = r[j].dir BY <3>1, <3>2 DEF Entered
    <3>6. Entered(s, j) = s[j - 1].dir BY <3>1 DEF Entered
    <3>7. Emptied(t, l, s[j], Entered(s, j)) /\ s[j].at = "recurse" BY <3>1 DEF WalkEmpties
    <3> QED BY <3>1, <3>3, <3>4, <3>5, <3>6, <3>7
  <2> QED BY <2>1, <2>2, <2>3
<1>11. WalkEmpties(t, l, r) BY <1>4, <1>7, <1>10 DEF WalkEmpties
<1> QED BY <1>11 DEF r, f, h

\* The object met last is removed and the next one of a listing is met.
LEMMA EmptiesMeet ==
    ASSUME NEW t, NEW u, NEW l, NEW s \in Seq(Frame), s # <<>>, WalkEmpties(t, l, s),
           \A d : Kids(u, d) = Kids(t, d) \ {l},
           Head(s).at = "list", NEW n \in Head(s).left
    PROVE  /\ WalkEmpties(u, n, <<[Head(s) EXCEPT !.left = @ \ {n}]>> \o Tail(s))
           /\ n \in Paths \ {Top} /\ Kids(u, n) = {}
<1> DEFINE h == Head(s)
           f == [h EXCEPT !.left = @ \ {n}]
<1>1. Len(s) \in Nat \ {0} /\ h = s[1] /\ h \in Frame BY Positions
<1>2. f \in Frame /\ f.dir = h.dir /\ f.at = "list" /\ f.left = h.left \ {n}
  BY <1>1 DEF Frame
<1> HIDE DEF h, f
<1>3. Emptied(t, l, h, None) /\ h.at = "list"
  <2>1. 1 \in 1 .. Len(s) /\ Entered(s, 1) = None BY <1>1 DEF Entered
  <2> QED BY <1>1, <2>1 DEF WalkEmpties, h
<1>4. n \in Paths \ {Top} BY <1>3 DEF Emptied, h
<1>5. \A k : Kids(t, k) \subseteq {l} => Kids(u, k) \subseteq {n} OBVIOUS
<1>6. \A k, d : k \in Kids(u, d) => k \in Kids(t, d) /\ k # l OBVIOUS
<1>7. Emptied(u, n, f, None)
  BY <1>2, <1>3, <1>5, <1>6 DEF Emptied
<1>8. ASSUME NEW g, NEW inner, Emptied(t, l, g, inner), g.at = "recurse"
      PROVE  Emptied(u, n, g, inner)
  BY <1>5, <1>6, <1>8 DEF Emptied
<1> DEFINE r == <<f>> \o Tail(s)
<1>9. Len(r) = Len(s) /\ r # <<>> /\ r[1] = f /\ \A i \in 2 .. Len(s) : r[i] = s[i]
  BY <1>2, PositionsCons
<1> HIDE DEF r
<1>10. \A i \in 1 .. Len(s) : r[i].dir = s[i].dir /\ (i > 1 => r[i] = s[i]) BY <1>1, <1>2, <1>9
<1>11. r[Len(r)].dir = Top BY <1>1, <1>9, <1>10 DEF WalkEmpties
<1>12. ASSUME NEW i \in 1 .. Len(s)
       PROVE  Emptied(u, n, r[i], Entered(r, i)) /\ (i > 1 => r[i].at = "recurse")
  <2>1. CASE i = 1
    <3>1. Entered(r, i) = None BY <2>1 DEF Entered
    <3> QED BY <1>7, <1>9, <2>1, <3>1
  <2>2. CASE i # 1
    <3>1. i > 1 /\ i - 1 \in 1 .. Len(s) BY <1>1, <2>2
    <3>2. Entered(r, i) = Entered(s, i) BY <1>10, <3>1 DEF Entered
    <3>3. r[i] = s[i] BY <1>10, <3>1
    <3>4. Emptied(t, l, s[i], Entered(s, i)) /\ s[i].at = "recurse" BY <3>1 DEF WalkEmpties
    <3> QED BY <1>8, <3>2, <3>3, <3>4
  <2> QED BY <2>1, <2>2
<1>13. WalkEmpties(u, n, r) BY <1>9, <1>11, <1>12 DEF WalkEmpties
<1>14. Kids(t, n) \subseteq {l} BY <1>3 DEF Emptied, h
<1> QED BY <1>4, <1>13, <1>14 DEF r, f, h

\* What the copy makes is a directory where the source has one.
LEMMA CopyDirDone ==
    ASSUME TypeOK, NEW n \in Paths, NEW rest, CopyDir(n, n, rest), passed' = {}, faults' = 0,
           passed = {} /\ faults = 0 => n = Top \/ dst[Up[n]] = Dir
    PROVE  /\ passed = {} /\ faults = 0 /\ stack' = rest /\ phase' = phase
           /\ dst'[n] = Dir /\ \A k \in Paths \ {n} : dst'[k] = dst[k]
<1>1. dst \in [Paths -> Copied \cup Own \cup {Dir, Absent, "part"}] /\ faults \in Nat
  BY BoundAssumption DEF TypeOK
<1>2. ~ Fault BY <1>1 DEF Fault
<1>3. \A r : ~ PassOver({n}, r) BY DEF PassOver
<1>4. (n # Top => dst[Up[n]] = Dir) =>
        \/ dst[n] = Dir /\ Return(rest) /\ UNCHANGED <<dst, faults, passed>>
        \/ Put(n, Dir) /\ Return(rest) /\ UNCHANGED <<faults, passed>>
  BY <1>2, <1>3 DEF CopyDir, PerformCopy, CreateDir, Complete
<1>5. passed = {} /\ faults = 0
  BY <1>2, <1>3 DEF CopyDir, PerformCopy, CreateDir, Complete, Fails
<1> QED BY <1>1, <1>4, <1>5 DEF Put, Return

LEMMA CopyFileDone ==
    ASSUME TypeOK, NEW n \in Paths, NEW rest, CopyFile(n, n, rest), passed' = {}, faults' = 0,
           passed = {} /\ faults = 0 => n = Top \/ dst[Up[n]] = Dir
    PROVE  /\ passed = {} /\ faults = 0 /\ stack' = rest /\ phase' = phase
           /\ \A k \in Paths \ {n} : dst'[k] = dst[k]
<1>1. dst \in [Paths -> Copied \cup Own \cup {Dir, Absent, "part"}] /\ faults \in Nat
  BY BoundAssumption DEF TypeOK
<1>2. ~ Fault BY <1>1 DEF Fault
<1>3. \A r : ~ PassOver({n}, r) BY DEF PassOver
<1>4. Write(n, n, rest) => Put(n, src[n]) /\ Return(rest) /\ UNCHANGED <<faults, passed>>
  BY <1>2 DEF Write, Complete
<1>5. CreateFile(n, n, rest) => Put(n, src[n]) /\ Return(rest) /\ UNCHANGED <<faults, passed>>
  BY <1>2, <1>4 DEF CreateFile
<1>6. (n # Top => dst[Up[n]] = Dir) => Put(n, src[n]) /\ Return(rest)
  BY <1>2, <1>3, <1>4, <1>5 DEF CopyFile, PerformCopy
<1>7. passed = {} /\ faults = 0
  BY <1>2, <1>3, <1>4, <1>5 DEF CopyFile, PerformCopy, Fails
<1> QED BY <1>1, <1>6, <1>7 DEF Put, Return

\* A directory of the destination that a frame needs stays one.
ReadyAll(t, d, s) == \A i \in 1 .. Len(s) : Ready(t, d, s[i])

LEMMA ReadyKept ==
    ASSUME Kept, phase = "copy", NEW s \in Seq(Frame), NEW d, ReadyAll(src, dst, s),
           \A k \in Paths : src[k] = Dir /\ dst[k] = Dir => d[k] = Dir
    PROVE  ReadyAll(src, d, s)
<1> SUFFICES ASSUME NEW i \in 1 .. Len(s) PROVE Ready(src, d, s[i]) BY DEF ReadyAll
<1>1. s[i] \in Frame /\ Ready(src, dst, s[i]) BY DEF ReadyAll
<1> DEFINE f == s[i]
<1>2. f \in Frame /\ Ready(src, dst, f) BY <1>1
<1> HIDE DEF f
<1>3. f.dir \in Paths BY <1>2 DEF Frame
<1>4. f.dir # Top => Up[f.dir] \in Paths BY <1>3, PathAssumption
<1>5. src[f.dir] = Dir /\ f.dir # Top => src[Up[f.dir]] = Dir
  BY <1>3 DEF Kept, Dir, Absent
<1>6. Ready(src, d, f) BY <1>2, <1>3, <1>4, <1>5 DEF Ready
<1> QED BY <1>6 DEF f

LEMMA ReadyStack ==
    ASSUME NEW t, NEW d, NEW s \in Seq(Frame), s # <<>>, ReadyAll(t, d, s)
    PROVE  /\ Ready(t, d, Head(s)) /\ ReadyAll(t, d, Tail(s))
           /\ \A f \in Frame : Ready(t, d, f) => ReadyAll(t, d, <<f>> \o Tail(s))
           /\ \A e, f \in Frame : Ready(t, d, e) /\ Ready(t, d, f)
                                    => ReadyAll(t, d, <<e, f>> \o Tail(s))
<1>1. /\ Len(s) \in Nat \ {0} /\ Head(s) = s[1] /\ Len(Tail(s)) = Len(s) - 1
      /\ \A i \in 1 .. Len(s) - 1 : Tail(s)[i] = s[i + 1]
  BY Positions
<1>2. Ready(t, d, Head(s)) BY <1>1 DEF ReadyAll
<1>3. ReadyAll(t, d, Tail(s))
  <2> SUFFICES ASSUME NEW i \in 1 .. Len(Tail(s)) PROVE Ready(t, d, Tail(s)[i])
    BY DEF ReadyAll
  <2>1. i + 1 \in 1 .. Len(s) /\ Tail(s)[i] = s[i + 1] BY <1>1
  <2> QED BY <2>1 DEF ReadyAll
<1>4. ASSUME NEW f \in Frame, Ready(t, d, f) PROVE ReadyAll(t, d, <<f>> \o Tail(s))
  <2> DEFINE r == <<f>> \o Tail(s)
  <2>1. Len(r) = Len(s) /\ r[1] = f /\ \A i \in 2 .. Len(s) : r[i] = s[i] BY PositionsCons
  <2> HIDE DEF r
  <2>2. ASSUME NEW i \in 1 .. Len(r) PROVE Ready(t, d, r[i])
    <3>1. CASE i = 1 BY <1>4, <2>1, <3>1
    <3>2. CASE i # 1
      <4>1. i \in 2 .. Len(s) /\ i \in 1 .. Len(s) BY <1>1, <2>1, <3>2
      <4> QED BY <2>1, <4>1 DEF ReadyAll
    <3> QED BY <3>1, <3>2
  <2> QED BY <2>2 DEF ReadyAll, r
<1>5. ASSUME NEW e \in Frame, NEW f \in Frame, Ready(t, d, e), Ready(t, d, f)
      PROVE  ReadyAll(t, d, <<e, f>> \o Tail(s))
  <2> DEFINE r == <<e, f>> \o Tail(s)
  <2>1. /\ Len(r) = Len(s) + 1 /\ r[1] = e /\ r[2] = f
        /\ \A i \in 2 .. Len(s) : r[i + 1] = s[i]
    BY PositionsConsTwo
  <2> HIDE DEF r
  <2>2. ASSUME NEW i \in 1 .. Len(r) PROVE Ready(t, d, r[i])
    <3>1. CASE i \in {1, 2} BY <1>5, <2>1, <3>1
    <3>2. CASE i \notin {1, 2}
      <4>1. i - 1 \in 2 .. Len(s) /\ i - 1 \in 1 .. Len(s) /\ (i - 1) + 1 = i BY <1>1, <2>1, <3>2
      <4>2. r[i] = s[i - 1] BY <2>1, <4>1
      <4> QED BY <4>1, <4>2 DEF ReadyAll
    <3> QED BY <3>1, <3>2
  <2> QED BY <2>2 DEF ReadyAll, r
<1> QED BY <1>2, <1>3, <1>4, <1>5

\* Nothing has been removed, and nothing has been written.
LEMMA GoesOnCopying ==
    ASSUME Undisturbed /\ phase = "copy" => Goes, Undisturbed, phase = "copy",
           late' = late, last' = last, phase' = "copy", ReadyAll(src', dst', stack')
    PROVE  Goes'
BY DEF Goes, CopyReady, ReadyAll, RemovalEmpties

LEMMA CopyGoes ==
    ASSUME Inv, UndisturbedInv, CopyEnter \/ CopyChild \/ CopyBreaks \/ CopyRecurse \/ CopyLeave,
           Undisturbed'
    PROVE  Goes'
<1>1. /\ TypeOK /\ Kept /\ phase = "copy" /\ stack # <<>> /\ stack \in Seq(Frame)
      /\ src' = src /\ opts' = opts /\ edits' = edits /\ late' = late /\ last' = last
  BY DEF Inv, TypeOK, CopyEnter, CopyChild, CopyBreaks, CopyRecurse, CopyLeave, fileVars, history
<1>2. passed = {} /\ faults = 0 => Goes /\ ReadyAll(src, dst, stack) /\ Undisturbed
  BY <1>1 DEF Undisturbed, UndisturbedInv, Goes, CopyReady, ReadyAll
<1> DEFINE h == Head(stack)
<1>3. h \in Frame /\ h.dir \in Paths /\ h.left \subseteq Paths /\ h.names \subseteq Paths
  BY <1>1, StackType DEF Frame
<1>4. passed' = {} /\ faults' = 0 /\ faults \in Nat
  BY <1>1, BoundAssumption DEF Undisturbed, TypeOK
<1>5. ~ Fault /\ faults = 0 /\ ~ astray
  <2>1. ~ Fault BY <1>4 DEF Fault
  <2>2. faults = 0 BY <1>4, <2>1, FaultOrNot DEF Next, Step
  <2> QED BY <2>1, <2>2 DEF Inv, StraightInv
<1>6. passed = {} /\ faults = 0 => Ready(src, dst, h) /\ ReadyAll(src, dst, Tail(stack))
  BY <1>1, <1>2, ReadyStack
<1> SUFFICES passed = {} /\ faults = 0 /\ phase' = "copy" /\ ReadyAll(src, dst', stack')
  BY <1>1, <1>2, GoesOnCopying
<1>7. CASE CopyEnter
  <2> DEFINE d == h.dir
             k == Kids(src, d)
             f == [dir |-> d, at |-> "list", names |-> k, left |-> k]
  <2>1. /\ h.at = "enter"
        /\ \/ src[d] # Dir /\ Return(Tail(stack)) /\ UNCHANGED <<dst, faults, passed, listed>>
           \/ src[d] = Dir /\ CopyObject(d, <<f>> \o Tail(stack))
    BY <1>4, <1>5, <1>7 DEF CopyEnter, PassOver
  <2>2. CASE src[d] # Dir BY <1>1, <1>4, <1>6, <2>1, <2>2 DEF Return
  <2>3. CASE src[d] = Dir
    <3>1. f \in Frame BY <1>3, KidsType, FrameType
    <3>2. passed = {} /\ faults = 0 => d = Top \/ dst[Up[d]] = Dir
      BY <1>6, <2>1, <2>3 DEF Ready
    <3>3. CopyDir(d, d, <<f>> \o Tail(stack)) BY <1>5, <2>1, <2>3 DEF CopyObject, Place, Elsewhere
    <3>4. /\ passed = {} /\ faults = 0 /\ stack' = <<f>> \o Tail(stack) /\ phase' = phase
          /\ dst'[d] = Dir /\ \A m \in Paths \ {d} : dst'[m] = dst[m]
      BY <1>1, <1>3, <1>4, <3>2, <3>3, CopyDirDone
    <3>5. ReadyAll(src, dst', stack) BY <1>1, <1>2, <3>4, ReadyKept
    <3>6. Ready(src, dst', f) BY <2>3, <3>4 DEF Ready, Kids
    <3> QED BY <1>1, <3>1, <3>4, <3>5, <3>6, ReadyStack
  <2> QED BY <2>2, <2>3
<1>8. CASE CopyChild
  <2>1. PICK n \in h.left : CopyObject(n, <<[h EXCEPT !.left = @ \ {n}]>> \o Tail(stack))
    BY <1>8 DEF CopyChild
  <2> DEFINE f == [h EXCEPT !.left = @ \ {n}]
  <2>2. n \in Paths /\ h.at = "list" BY <1>3, <1>8 DEF CopyChild
  <2>3. /\ f \in Frame /\ f.dir = h.dir /\ f.at = "list" /\ f.left \subseteq h.left
        /\ f.names = h.names
    BY <1>3, <2>2 DEF Frame
  <2>4. IF src[n] = Dir THEN CopyDir(n, n, <<f>> \o Tail(stack)) ELSE CopyFile(n, n, <<f>> \o Tail(stack))
    BY <1>5, <2>1 DEF CopyObject, Place, Elsewhere
  <2> HIDE DEF f
  <2>5. passed = {} /\ faults = 0 => dst[Up[n]] = Dir BY <1>6, <2>2 DEF Ready
  <2>6. /\ passed = {} /\ faults = 0 /\ stack' = <<f>> \o Tail(stack) /\ phase' = phase
        /\ src[n] = Dir => dst'[n] = Dir
        /\ \A m \in Paths \ {n} : dst'[m] = dst[m]
    BY <1>1, <1>4, <2>2, <2>4, <2>5, CopyDirDone, CopyFileDone
  <2>7. ReadyAll(src, dst', stack) BY <1>1, <1>2, <2>6, ReadyKept
  <2>8. Ready(src, dst', h) BY <1>1, <2>7, ReadyStack
  <2>9. Ready(src, dst', f) BY <2>2, <2>3, <2>8 DEF Ready
  <2> QED BY <1>1, <2>3, <2>6, <2>7, <2>9, ReadyStack
<1>9. CASE CopyRecurse
  <2>0. passed = {} /\ faults = 0 /\ dst' = dst
    BY <1>4, <1>5, <1>9 DEF CopyRecurse, fileVars
  <2>1. CASE /\ h.at = "list" /\ h.left = {}
             /\ Return(<<[h EXCEPT !.at = "recurse", !.left = h.names]>> \o Tail(stack))
    <3> DEFINE f == [h EXCEPT !.at = "recurse", !.left = h.names]
    <3>1. f \in Frame /\ f.dir = h.dir /\ f.at = "recurse" /\ f.left = h.names /\ f.names = h.names
      BY <1>3 DEF Frame
    <3>2. stack' = <<f>> \o Tail(stack) /\ phase' = phase BY <2>1 DEF Return
    <3> HIDE DEF f
    <3>3. Ready(src, dst, f) BY <1>6, <2>0, <2>1, <3>1 DEF Ready
    <3> QED BY <1>1, <1>2, <2>0, <3>1, <3>2, <3>3, ReadyStack
  <2>2. ASSUME h.at = "recurse", NEW n \in h.left,
               Return(<<Entering(n), [h EXCEPT !.left = @ \ {n}]>> \o Tail(stack))
        PROVE  phase' = "copy" /\ ReadyAll(src, dst', stack')
    <3> DEFINE f == [h EXCEPT !.left = @ \ {n}]
    <3>1. f \in Frame /\ f.dir = h.dir /\ f.at = "recurse" /\ f.left \subseteq h.left /\ f.names = h.names
      BY <1>3, <2>2 DEF Frame
    <3>2. stack' = <<Entering(n), f>> \o Tail(stack) /\ phase' = phase BY <2>2 DEF Return
    <3> HIDE DEF f
    <3>3. Ready(src, dst, h) BY <1>6, <2>0
    <3>4. Ready(src, dst, f) BY <2>2, <3>1, <3>3 DEF Ready
    <3>5. Up[n] = h.dir /\ dst[h.dir] = Dir BY <2>2, <3>3 DEF Ready
    <3>6. Ready(src, dst, Entering(n)) BY <3>5 DEF Ready, Entering
    <3>7. Entering(n) \in Frame BY <1>3, EnteringType
    <3> QED BY <1>1, <1>2, <2>0, <3>1, <3>2, <3>4, <3>6, <3>7, ReadyStack
  <2>3. \/ /\ h.at = "list" /\ h.left = {}
           /\ Return(<<[h EXCEPT !.at = "recurse", !.left = h.names]>> \o Tail(stack))
        \/ /\ h.at = "recurse"
           /\ \E n \in h.left : Return(<<Entering(n), [h EXCEPT !.left = @ \ {n}]>> \o Tail(stack))
    BY <1>5, <1>9 DEF CopyRecurse
  <2> QED BY <2>0, <2>1, <2>2, <2>3
<1>10. CASE CopyLeave
  <2>1. passed = {} /\ faults = 0 /\ dst' = dst BY <1>4, <1>5, <1>10 DEF CopyLeave, history, fileVars
  <2> QED BY <1>1, <1>5, <1>6, <1>10, <2>1 DEF CopyLeave, Return
<1>11. CASE CopyBreaks BY <1>5, <1>11 DEF CopyBreaks
<1> QED BY <1>7, <1>8, <1>9, <1>10, <1>11

\* removeObject() without a failure: the object is gone, and what comes
\* after it is done.
LEMMA RemoveLastDone ==
    ASSUME TypeOK, NEW ACTION then, RemoveLast(then), ~ opts.Interactive, faults' = 0,
           faults = 0 /\ last # None => Kids(src, last) = {}
    PROVE  /\ faults = 0 /\ then
           /\ \A n \in Paths : src'[n] = IF n = last THEN Absent ELSE src[n]
           /\ \A d : Kids(src', d) = Kids(src, d) \ {last}
<1>1. src \in [Paths -> Copied \cup {Dir, Absent}] /\ faults \in Nat /\ None \notin Paths
  BY PathAssumption, BoundAssumption DEF TypeOK
<1>2. ~ Fault BY <1>1 DEF Fault
<1>3. CASE last = None BY <1>1, <1>3 DEF RemoveLast, Kids
<1>4. CASE last # None
  <2>1. RemoveObject(last, then) /\ last \in Paths BY <1>4 DEF RemoveLast, TypeOK
  <2>2. faults = 0 BY <1>2, <2>1 DEF RemoveObject
  <2>3. Kids(src, last) = {} BY <1>4, <2>2
  <2>4. then /\ \/ src[last] = Absent /\ src' = src
                \/ src' = [src EXCEPT ![last] = Absent]
    BY <1>2, <2>1, <2>3 DEF RemoveObject
  <2>5. \A n \in Paths : src'[n] = IF n = last THEN Absent ELSE src[n] BY <1>1, <2>1, <2>4
  <2> QED BY <2>2, <2>4, <2>5 DEF Kids
<1> QED BY <1>3, <1>4

\* What an empty object leaves behind is still in directories.
LEMMA RootedAfter ==
    ASSUME Rooted, NEW l, NEW u, l # None => Kids(src, l) = {},
           \A n \in Paths : u[n] = IF n = l THEN Absent ELSE src[n]
    PROVE  \A n \in Paths \ {Top} : u[n] # Absent => u[Up[n]] = Dir
<1> SUFFICES ASSUME NEW n \in Paths \ {Top}, u[n] # Absent PROVE u[Up[n]] = Dir OBVIOUS
<1>1. src[n] # Absent /\ Up[n] \in Paths BY PathAssumption
<1>2. src[Up[n]] = Dir BY <1>1 DEF Rooted
<1>3. Up[n] # l BY <1>1, PathAssumption DEF Kids
<1> QED BY <1>1, <1>2, <1>3

\* When nothing is in Top there is nothing below it.
LEMMA EmptyTop ==
    ASSUME NEW u, \A n \in Paths \ {Top} : u[n] # Absent => u[Up[n]] = Dir, Kids(u, Top) = {},
           NEW n \in Paths \ {Top}
    PROVE  u[n] = Absent
<1> SUFFICES ASSUME u[n] # Absent PROVE FALSE OBVIOUS
<1> DEFINE s == {k \in Paths \ {Top} : u[k] # Absent}
<1>1. n \in s /\ s \subseteq Paths OBVIOUS
<1>2. ASSUME NEW k \in s PROVE Up[k] \in s
  <2>1. Up[k] \in Paths /\ u[Up[k]] = Dir BY PathAssumption
  <2>2. Up[k] # Top BY DEF Kids
  <2> QED BY <2>1, <2>2 DEF Dir, Absent
<1>3. Top \in s BY <1>1, <1>2, PathAssumption DEF Above
<1> QED BY <1>3

\* What is no directory is empty.
LEMMA NoKids ==
    ASSUME Rooted, NEW d \in Paths, src[d] # Dir PROVE Kids(src, d) = {}
BY PathAssumption DEF Rooted, Kids

LEMMA CopyDoneGoes == ASSUME Inv, UndisturbedInv, CopyDone, Undisturbed' PROVE Goes'
<1>1. /\ TypeOK /\ Kept /\ phase = "copy" /\ phase' = "remove" /\ stack' = <<Entering(Top)>>
      /\ UNCHANGED <<src, opts, last, faults, edits, passed, late>>
  BY DEF Inv, CopyDone, fileVars, history
<1>2. late = {} /\ last = None BY <1>1 DEF UndisturbedInv, Undisturbed, Goes
<1>3. Rooted' BY <1>1 DEF Rooted, Kept
<1>4. Len(stack') = 1 /\ stack'[1] = Entering(Top) /\ stack' # <<>> BY <1>1
<1>5. Emptied(src, last, Entering(Top), None) BY DEF Emptied, Entering
<1>6. WalkEmpties(src, last, stack')
  <2>1. \A i \in 1 .. Len(stack') : i = 1 BY <1>4
  <2>2. Entered(stack', 1) = None BY DEF Entered
  <2>3. stack'[Len(stack')].dir = Top BY <1>4 DEF Entering
  <2> QED BY <1>4, <1>5, <2>1, <2>2, <2>3 DEF WalkEmpties
<1>7. WalkEmpties(src, last, stack)' BY <1>1, <1>6
<1> QED BY <1>1, <1>2, <1>3, <1>7 DEF Goes, CopyReady, RemovalEmpties, LastIsEmpty

\* The removal walks on: the source and the object met last stay.
LEMMA GoesOnRemoving ==
    ASSUME Goes, phase = "remove", UNCHANGED <<src, last, late, phase>>,
           WalkEmpties(src, last, stack')
    PROVE  Goes'
BY DEF Goes, CopyReady, RemovalEmpties, Rooted, LastIsEmpty

LEMMA ListingsAreKids == ASSUME late = {}, NEW d, NEW k \in Listings(d) PROVE k = Kids(src, d)
BY DEF Listings

LEMMA KidsNotTop == ASSUME NEW t, NEW d \in Paths PROVE Kids(t, d) \subseteq Paths \ {Top}
BY PathAssumption DEF Kids

LEMMA RmEnterGoes == ASSUME Inv, UndisturbedInv, RmEnter, Undisturbed' PROVE Goes'
<1> DEFINE h == Head(stack)
           d == h.dir
<1>1. /\ TypeOK /\ phase = "remove" /\ stack # <<>> /\ stack \in Seq(Frame) /\ h.at = "enter"
      /\ UNCHANGED <<src, opts, last, edits, passed, late>> /\ faults \in Nat
  BY BoundAssumption DEF Inv, TypeOK, RmEnter, fileVars, history
<1>2. ~ Fault BY <1>1 DEF Fault, Undisturbed
<1>3. \/ src[d] # Dir /\ Return(Tail(stack)) /\ UNCHANGED faults
      \/ /\ src[d] = Dir
         /\ \E k \in Listings(d) :
                Return(<<[dir |-> d, at |-> "recurse", names |-> {}, left |-> k]>> \o Tail(stack))
         /\ UNCHANGED faults
  BY <1>2 DEF RmEnter
<1>4. Goes
  <2>1. UNCHANGED faults BY <1>3
  <2> QED BY <1>1, <2>1 DEF UndisturbedInv, Undisturbed
<1>5. Rooted /\ WalkEmpties(src, last, stack) /\ late = {} BY <1>1, <1>4 DEF Goes, RemovalEmpties
<1>6. d \in Paths BY <1>1, StackType DEF Frame
<1>7. CASE src[d] # Dir /\ Return(Tail(stack))
  <2>1. Kids(src, d) = {} BY <1>5, <1>6, <1>7, NoKids
  <2>2. WalkEmpties(src, last, Tail(stack)) BY <1>1, <1>5, <2>1, EmptiesPop
  <2> QED BY <1>1, <1>4, <1>7, <2>2, GoesOnRemoving DEF Return
<1>8. ASSUME NEW k \in Listings(d),
             Return(<<[dir |-> d, at |-> "recurse", names |-> {}, left |-> k]>> \o Tail(stack))
      PROVE  Goes'
  <2> DEFINE f == [dir |-> d, at |-> "recurse", names |-> {}, left |-> k]
  <2>1. k = Kids(src, d) BY <1>5, ListingsAreKids
  <2>2. f \in Frame BY <1>6, <2>1, KidsType, FrameType
  <2>3. Emptied(src, last, f, None) BY <1>6, <2>1, KidsNotTop DEF Emptied
  <2>4. WalkEmpties(src, last, <<f>> \o Tail(stack)) BY <1>1, <1>5, <2>2, <2>3, EmptiesHead
  <2> QED BY <1>1, <1>4, <1>8, <2>4, GoesOnRemoving DEF Return
<1> QED BY <1>3, <1>7, <1>8

LEMMA RmRecurseGoes == ASSUME Inv, UndisturbedInv, RmRecurse, Undisturbed' PROVE Goes'
<1> DEFINE h == Head(stack)
<1>1. /\ TypeOK /\ phase = "remove" /\ stack # <<>> /\ stack \in Seq(Frame) /\ h.at = "recurse"
      /\ UNCHANGED <<src, opts, last, edits, passed, late>> /\ faults \in Nat
  <2>1. TypeOK /\ stack \in Seq(Frame) /\ faults \in Nat BY BoundAssumption DEF Inv, TypeOK
  <2> QED BY <2>1 DEF RmRecurse, fileVars, history
<1>8. ~ Fault BY <1>1 DEF Fault, Undisturbed
<1>2. Goes
  <2>1. UNCHANGED faults BY <1>8 DEF RmRecurse
  <2> QED BY <1>1, <2>1 DEF UndisturbedInv, Undisturbed
<1>3. WalkEmpties(src, last, stack) /\ late = {} BY <1>1, <1>2 DEF Goes, RemovalEmpties
<1>4. h \in Frame /\ h.dir \in Paths BY <1>1, StackType DEF Frame
<1>5. \/ \E n \in h.left : Return(<<Entering(n), [h EXCEPT !.left = @ \ {n}]>> \o Tail(stack))
      \/ /\ h.left = {}
         /\ \E k \in Listings(h.dir) :
                Return(<<[h EXCEPT !.at = "list", !.left = k]>> \o Tail(stack))
  BY <1>8 DEF RmRecurse
<1>6. ASSUME NEW n \in h.left,
             Return(<<Entering(n), [h EXCEPT !.left = @ \ {n}]>> \o Tail(stack))
      PROVE  Goes'
  <2>1. WalkEmpties(src, last, <<Entering(n), [h EXCEPT !.left = @ \ {n}]>> \o Tail(stack))
    BY <1>1, <1>3, EmptiesPush
  <2> QED BY <1>1, <1>2, <1>6, <2>1, GoesOnRemoving DEF Return
<1>7. ASSUME h.left = {}, NEW k \in Listings(h.dir),
             Return(<<[h EXCEPT !.at = "list", !.left = k]>> \o Tail(stack))
      PROVE  Goes'
  <2> DEFINE f == [h EXCEPT !.at = "list", !.left = k]
  <2>1. k = Kids(src, h.dir) BY <1>3, ListingsAreKids
  <2>2. f \in Frame /\ f.dir = h.dir /\ f.at = "list" /\ f.left = k
    BY <1>4, <2>1, KidsType DEF Frame
  <2>3. Emptied(src, last, h, None)
    <3>1. 1 \in 1 .. Len(stack) /\ h = stack[1] /\ Entered(stack, 1) = None
      BY <1>1, Positions DEF Entered
    <3> QED BY <1>3, <3>1 DEF WalkEmpties
  <2> HIDE DEF f
  <2>4. \A n \in Kids(src, h.dir) : Kids(src, n) \subseteq {last}
    <3> SUFFICES ASSUME NEW n \in Kids(src, h.dir) PROVE Kids(src, n) \subseteq {last} OBVIOUS
    <3>1. n \in Paths BY DEF Kids
    <3> QED BY <1>1, <1>7, <2>3, <3>1, PathAssumption DEF Emptied
  <2>5. Emptied(src, last, f, None) BY <1>4, <2>1, <2>2, <2>4, KidsNotTop DEF Emptied
  <2>6. WalkEmpties(src, last, <<f>> \o Tail(stack)) BY <1>1, <1>3, <2>2, <2>5, EmptiesHead
  <2> QED BY <1>1, <1>2, <1>7, <2>6, GoesOnRemoving DEF Return, f
<1> QED BY <1>5, <1>6, <1>7

LEMMA RmChildGoes == ASSUME Inv, UndisturbedInv, RmChild, Undisturbed' PROVE Goes'
<1> DEFINE h == Head(stack)
<1>1. /\ TypeOK /\ phase = "remove" /\ stack # <<>> /\ stack \in Seq(Frame) /\ h.at = "list"
      /\ UNCHANGED <<opts, edits, passed, late>>
  BY DEF Inv, TypeOK, RmChild, history
<1>2. faults = 0 => Goes /\ Rooted /\ LastIsEmpty /\ WalkEmpties(src, last, stack) /\ late = {}
  BY <1>1 DEF UndisturbedInv, Undisturbed, Goes, RemovalEmpties
<1>3. faults' = 0 /\ ~ opts.Interactive BY <1>1 DEF Undisturbed
<1>4. ASSUME NEW n \in h.left,
             RemoveLast(Return(<<[h EXCEPT !.left = @ \ {n}]>> \o Tail(stack))), last' = n
      PROVE  Goes'
  <2> DEFINE rest == <<[h EXCEPT !.left = @ \ {n}]>> \o Tail(stack)
  <2>0. RemoveLast(Return(rest)) BY <1>4
  <2> HIDE DEF rest
  <2>1. /\ faults = 0 /\ Return(rest)
        /\ \A k \in Paths : src'[k] = IF k = last THEN Absent ELSE src[k]
        /\ \A d : Kids(src', d) = Kids(src, d) \ {last}
    BY <1>1, <1>2, <1>3, <2>0, RemoveLastDone DEF LastIsEmpty
  <2>2. WalkEmpties(src', n, rest) /\ n \in Paths \ {Top} /\ Kids(src', n) = {}
    BY <1>1, <1>2, <2>1, EmptiesMeet DEF rest
  <2>3. Rooted'
    <3>1. last # None => Kids(src, last) = {} BY <1>2, <2>1 DEF LastIsEmpty
    <3> QED BY <1>2, <2>1, <3>1, RootedAfter DEF Rooted
  <2>4. LastIsEmpty' BY <1>4, <2>2 DEF LastIsEmpty
  <2>5. phase' = "remove" /\ stack' = rest BY <1>1, <2>1 DEF Return
  <2>6. WalkEmpties(src, last, stack)' BY <1>4, <2>2, <2>5
  <2> QED BY <1>1, <1>2, <2>1, <2>3, <2>4, <2>5, <2>6 DEF Goes, CopyReady, RemovalEmpties
<1>5. CASE h.left = {} /\ Return(Tail(stack)) /\ UNCHANGED <<src, faults, last>>
  <2>1. Goes /\ WalkEmpties(src, last, stack) BY <1>2, <1>3, <1>5
  <2>2. Emptied(src, last, h, None)
    <3>1. 1 \in 1 .. Len(stack) /\ h = stack[1] /\ Entered(stack, 1) = None
      BY <1>1, Positions DEF Entered
    <3> QED BY <2>1, <3>1 DEF WalkEmpties
  <2>3. Kids(src, h.dir) \subseteq {last} BY <1>1, <1>5, <2>2 DEF Emptied
  <2>4. WalkEmpties(src, last, Tail(stack)) BY <1>1, <2>1, <2>3, EmptiesPop
  <2> QED BY <1>1, <1>5, <2>1, <2>4, GoesOnRemoving DEF Return
<1> QED BY <1>4, <1>5 DEF RmChild

LEMMA RmDoneGoes == ASSUME Inv, UndisturbedInv, RmDone, Undisturbed' PROVE Goes'
<1>1. /\ TypeOK /\ phase = "remove" /\ stack = <<>>
      /\ UNCHANGED <<opts, edits, passed, late>>
      /\ RemoveLast(phase' = "target" /\ UNCHANGED stack)
  BY DEF Inv, RmDone, history
<1>2. faults = 0 => Goes /\ Rooted /\ LastIsEmpty /\ WalkEmpties(src, last, stack) /\ late = {}
  BY <1>1 DEF UndisturbedInv, Undisturbed, Goes, RemovalEmpties
<1>3. /\ faults = 0 /\ phase' = "target"
      /\ \A k \in Paths : src'[k] = IF k = last THEN Absent ELSE src[k]
      /\ \A d : Kids(src', d) = Kids(src, d) \ {last}
  <2>1. faults' = 0 /\ ~ opts.Interactive BY <1>1 DEF Undisturbed
  <2> QED BY <1>1, <1>2, <2>1, RemoveLastDone DEF LastIsEmpty
<1>4. Kids(src', Top) = {} BY <1>1, <1>2, <1>3 DEF WalkEmpties
<1>5. Rooted'
  <2>1. last # None => Kids(src, last) = {} BY <1>2, <1>3 DEF LastIsEmpty
  <2> QED BY <1>2, <1>3, <2>1, RootedAfter DEF Rooted
<1> QED BY <1>1, <1>2, <1>3, <1>4, <1>5 DEF Goes, CopyReady, RemovalEmpties

LEMMA RmTargetGoes == ASSUME Inv, UndisturbedInv, RmTarget, Undisturbed' PROVE Goes'
<1>1. /\ TypeOK /\ phase = "target" /\ UNCHANGED <<opts, edits, passed, late>>
      /\ RemoveObject(Top, phase' = "done" /\ UNCHANGED stack)
      /\ faults' = 0 /\ faults \in Nat /\ ~ opts.Interactive
  BY BoundAssumption DEF Inv, TypeOK, RmTarget, history, Undisturbed
<1>2. ~ Fault BY <1>1 DEF Fault
<1>3. faults = 0 BY <1>1, <1>2 DEF RemoveObject
<1>4. late = {} /\ Rooted /\ Kids(src, Top) = {}
  BY <1>1, <1>3 DEF UndisturbedInv, Undisturbed, Goes, RemovalEmpties
<1>5. /\ phase' = "done"
      /\ \/ src[Top] = Absent /\ src' = src
         \/ src' = [src EXCEPT ![Top] = Absent]
  BY <1>1, <1>2, <1>4 DEF RemoveObject
<1>6. \A n \in Paths \ {Top} : src[n] = Absent BY <1>4, EmptyTop DEF Rooted
<1>7. NothingLeft' BY <1>1, <1>5, <1>6 DEF NothingLeft, TypeOK
<1> QED BY <1>1, <1>4, <1>5, <1>7 DEF Goes, CopyReady, RemovalEmpties

LEMMA UndisturbedStep == ASSUME Inv, UndisturbedInv, [Next]_vars PROVE UndisturbedInv'
<1> SUFFICES ASSUME Undisturbed' PROVE Goes' BY DEF UndisturbedInv
<1>1. CASE Begin
  <2>1. /\ phase = "start" /\ Undisturbed /\ UNCHANGED <<late, listed, last>>
        /\ \/ phase' = "copy" /\ stack' = <<Entering(Top)>>
           \/ phase' = "done"
    BY <1>1 DEF Begin, history, Undisturbed
  <2>2. late = {} /\ listed = {} /\ last = None BY <2>1 DEF UndisturbedInv, Goes
  <2>3. CASE phase' = "copy" /\ stack' = <<Entering(Top)>>
    <3>1. Len(stack') = 1 /\ stack'[1] = Entering(Top) BY <2>3
    <3>2. Ready(src', dst', Entering(Top)) BY DEF Ready, Entering
    <3> QED BY <2>1, <2>2, <2>3, <3>1, <3>2 DEF Goes, CopyReady, RemovalEmpties
  <2>4. CASE phase' = "done" BY <2>1, <2>2, <2>4 DEF Goes, CopyReady, RemovalEmpties
  <2> QED BY <2>1, <2>3, <2>4
<1>2. ASSUME NEW n \in Paths, Modify(n) PROVE FALSE
  <2>1. edits \in Nat BY BoundAssumption DEF Inv, TypeOK
  <2> QED BY <1>2, <2>1 DEF Modify, Undisturbed
<1>3. CASE UNCHANGED vars
  BY <1>3 DEF vars, fileVars, walkVars, history, UndisturbedInv, Undisturbed, Goes, CopyReady,
     RemovalEmpties, Rooted, LastIsEmpty, NothingLeft
<1> QED BY <1>1, <1>2, <1>3, CopyGoes, CopyDoneGoes, RmEnterGoes, RmRecurseGoes, RmChildGoes,
           RmDoneGoes, RmTargetGoes DEF Next, Step

\* A move in which no call fails, nobody is asked and nobody else writes
\* empties the source, whatever the tree is and whatever the destination has:
\* FerrisRm has met an object after each it has left, and finds every
\* directory empty when it comes to remove it.
THEOREM SourceIsEmptied == Spec => []EmptiesTheSource
<1>1. Init => UndisturbedInv
  BY DEF Init, UndisturbedInv, Goes, CopyReady, RemovalEmpties
<1>2. Inv /\ UndisturbedInv /\ [Next]_vars => UndisturbedInv' BY UndisturbedStep
<1>3. UndisturbedInv /\ Inv => EmptiesTheSource
  <2> SUFFICES ASSUME Inv, UndisturbedInv, Ended, listed # {}, passed = {}, faults + edits = 0,
                      ~ opts.Interactive
               PROVE  NothingLeft
    BY DEF EmptiesTheSource, NothingLeft
  <2>1. faults \in Nat /\ edits \in Nat BY BoundAssumption DEF Inv, TypeOK
  <2>2. Undisturbed BY <2>1 DEF Undisturbed
  <2> QED BY <2>2 DEF UndisturbedInv, Goes, Ended
<1> QED BY <1>1, <1>2, <1>3, Invariance, PTL DEF Spec
=============================================================================
