-------------------------------- MODULE Move --------------------------------
(***************************************************************************)
(* FerrisMv::crossVolumeMove(): a directory is moved to another file       *)
(* system by a recursive FerrisCopy and a recursive FerrisRm.              *)
(*                                                                         *)
(* Both walk the source with Ferrisls, which calls them back for each      *)
(* object it meets; the stack is the recursion of Ferrisls::operator()().  *)
(* The copy lists a directory and copies what is in it before it goes into *)
(* the subdirectories; the removal goes in first, and removes each object  *)
(* when the next one is met.  Between any two steps another program may    *)
(* write to the source, and any call may fail, MaxFaults times.            *)
(* FerrisCopy keeps the place it copies to in one url, to which each       *)
(* directory adds its name and from which it takes one on leaving: where   *)
(* Ferrisls leaves a directory by an exception the copy is astray.         *)
(*                                                                         *)
(* A path stands for an object of the source and for the place it has at   *)
(* the destination.  Links, attributes, backups and holes are left out.    *)
(***************************************************************************)
EXTENDS Integers, Sequences

CONSTANTS
    Paths,      \* what there is, or may be, in the source or the destination
    Up,         \* Up[n]: the directory of n
    Top,        \* the source that is to be moved, a directory
    None,       \* no path; the directory of Top
    Sources,    \* the sources a move may begin with
    Targets,    \* the destinations it may find
    Namesakes,  \* Namesakes[n]: places that may be taken for that of n, by its name
    Options,    \* the options it may be given
    MaxFaults,  \* bound: calls that fail
    MaxEdits    \* bound: writes of another program

Dir    == "dir"
Absent == "absent"
Copied == {"first", "second"}              \* what a file of the source holds
Own    == {"older", "newer"}               \* a file the destination had
Opts   == [Force : BOOLEAN, Interactive : BOOLEAN, UpdateMode : BOOLEAN]

\* n and the directories above it: what is in every set that has n and, of
\* what it has, the directory.
Above == [n \in Paths |-> {m \in Paths : \A s \in SUBSET Paths :
    n \in s /\ (\A k \in s : Up[k] # None => Up[k] \in s) => m \in s}]

\* A tree below Top; a source has Top, and what it has is in a directory.
ASSUME PathAssumption ==
    /\ Top \in Paths /\ None \notin Paths
    /\ Up \in [Paths -> Paths \cup {None}]
    /\ \A n \in Paths : (Up[n] = None <=> n = Top) /\ Top \in Above[n]
ASSUME SourceAssumption == \A t \in Sources :
    /\ t \in [Paths -> Copied \cup {Dir, Absent}]
    /\ t[Top] = Dir
    /\ \A n \in Paths \ {Top} : t[n] # Absent => t[Up[n]] = Dir
ASSUME TargetAssumption ==
    /\ Targets \subseteq [Paths -> Own \cup {Dir, Absent}]
    /\ Namesakes \in [Paths -> SUBSET Paths]
    /\ Options \subseteq Opts
ASSUME BoundAssumption == MaxFaults \in Nat /\ MaxEdits \in Nat

VARIABLES
    src,      \* src[n]: the source at n
    dst,      \* dst[n]: the destination at n
    opts,     \* Force, Interactive, UpdateMode
    phase,    \* where crossVolumeMove() is
    stack,    \* Ferrisls::operator(): the directories it is in, innermost first
    last,     \* FerrisRm::LastRecursiveContext
    astray,   \* FerrisCopy::dstURL has the name of a directory that has been left
    faults,   \* the calls that have failed
    edits,    \* the writes of another program
    had,      \* history: had[n] is what the file n of the source had at last
    sent,     \* history: what the copy has made or written to the end, anywhere
    passed,   \* history: what the copy has passed over or could not finish
    listed,   \* history: the directories that the copy has listed
    late,     \* history: files that came to a directory after that
    rewritten \* history: files that were written to after they were sent

fileVars == <<src, dst>>
walkVars == <<phase, stack, last, astray>>
history  == <<had, sent, passed, listed, late, rewritten>>
vars == <<fileVars, opts, walkVars, faults, edits, history>>

Kids(t, d) == {n \in Paths : Up[n] = d /\ t[n] # Absent}
IsFile(t, n) == t[n] \notin {Dir, Absent}
Frame == [dir : Paths, at : {"enter", "list", "recurse"}, names : SUBSET Paths, left : SUBSET Paths]
Entering(n) == [dir |-> n, at |-> "enter", names |-> {}, left |-> {}]

\* Can one more call fail?
Fault == faults < MaxFaults /\ faults' = faults + 1

\* The call returns to rest; an exception leaves crossVolumeMove().
Return(rest) == stack' = rest /\ UNCHANGED phase
\* Mutant: the copy has its own catch.
Throw_Mutant == phase' = "remove" /\ stack' = <<Entering(Top)>>
Throw == phase' = "failed" /\ stack' = <<>>

(***************************************************************************)
(* FerrisMv                                                                *)
(***************************************************************************)
Init ==
    /\ src \in Sources /\ dst \in Targets
    /\ opts \in Options
    /\ phase = "start" /\ stack = <<>> /\ last = None /\ astray = FALSE
    /\ faults = 0 /\ edits = 0
    /\ had = [n \in Paths |-> IF IsFile(src, n) THEN src[n] ELSE Absent]
    /\ sent = {} /\ passed = {} /\ listed = {} /\ late = {} /\ rewritten = {}

\* move(): handleUpdateMode() and handleInteractiveMode() may end it here.
Begin ==
    /\ phase = "start"
    /\ \/ phase' = "copy" /\ stack' = <<Entering(Top)>>
       \/ /\ opts.Interactive \/ opts.UpdateMode
          /\ phase' = "done" /\ UNCHANGED stack
    /\ UNCHANGED <<fileVars, opts, last, astray, faults, edits, history>>

(***************************************************************************)
(* FerrisCopy                                                              *)
(***************************************************************************)
Put(m, v) == dst' = [dst EXCEPT ![m] = v]

\* perform_copy() has copied n; it returns without having copied it, or
\* catches what it does not throw again; it throws.
Complete(n, rest) == sent' = sent \cup {n} /\ Return(rest) /\ UNCHANGED passed
PassOver(ns, rest) == passed' = passed \cup ns /\ Return(rest) /\ UNCHANGED sent
Fails == Throw /\ UNCHANGED <<passed, sent>>

\* OpenDestination() and copyTo(), of n to the place m.  With -f a destination
\* that does not open is removed and made again; the exception of that removal
\* is not one of those that perform_copy() throws again, nor is CopyFailed.
Opened(m) == IF IsFile(dst, m) THEN dst[m] ELSE "part"
Write(n, m, rest) ==
    \/ Put(m, src[n]) /\ Complete(n, rest) /\ UNCHANGED faults
    \/ Fault /\ Put(m, "part") /\ PassOver({n}, rest)
    \/ Fault /\ Put(m, Opened(m)) /\ ~ opts.Force /\ Fails
    \/ Fault /\ Put(m, Opened(m)) /\ opts.Force /\ PassOver({n}, rest)
    \/ Fault /\ Put(m, "part") /\ opts.Force /\ Fails

\* CreateObj() at a place where there is nothing.
CreateDir(n, m, rest) ==
    \/ Put(m, Dir) /\ Complete(n, rest) /\ UNCHANGED faults
    \/ Fault /\ Put(m, Absent) /\ Fails

CreateFile(n, m, rest) ==
    \/ Write(n, m, rest)
    \/ Fault /\ Put(m, Absent) /\ Fails

\* The destination has a file of its own: -i asks, -u compares the times.
Refused(m)   == IsFile(dst, m) /\ (opts.Interactive \/ (opts.UpdateMode /\ dst[m] # "older"))
MayReplace(m) == IsFile(dst, m) => ~ (opts.UpdateMode /\ dst[m] # "older")

\* RemoveDst: the destination is of another kind.
OtherKind(n, m) == dst[m] # Absent /\ (src[n] = Dir) # (dst[m] = Dir)
Removable(m) == Kids(dst, m) = {}

\* perform_copy() up to where it makes the object.
PerformCopy(n, m, rest, make) ==
    \/ /\ m # Top /\ dst[Up[m]] # Dir
       /\ Fails /\ UNCHANGED <<dst, faults>>
    \/ /\ m # Top => dst[Up[m]] = Dir
       /\ \/ Refused(m) /\ PassOver({n}, rest) /\ UNCHANGED <<dst, faults>>
          \/ /\ MayReplace(m) /\ OtherKind(n, m)
             /\ PassOver({n}, rest) /\ UNCHANGED dst
             /\ IF Removable(m) THEN Fault ELSE UNCHANGED faults
          \/ MayReplace(m) /\ (OtherKind(n, m) => Removable(m)) /\ make

CopyDir(n, m, rest) ==
    PerformCopy(n, m, rest, IF dst[m] = Dir THEN Complete(n, rest) /\ UNCHANGED <<dst, faults>>
                                            ELSE CreateDir(n, m, rest))
CopyFile(n, m, rest) ==
    PerformCopy(n, m, rest, IF IsFile(dst, m) THEN Write(n, m, rest) ELSE CreateFile(n, m, rest))

\* dstURL and the name of n.  A copy that is astray takes another place for
\* that of n, or one that is none of Paths.
Place(n) == IF astray THEN Namesakes[n] ELSE {n}
Elsewhere(n, rest) ==
    /\ astray
    /\ Complete(n, rest) \/ PassOver({n}, rest) \/ Fails
    /\ UNCHANGED <<dst, faults>>
CopyObject(n, rest) ==
    \/ \E m \in Place(n) : IF src[n] = Dir THEN CopyDir(n, m, rest) ELSE CopyFile(n, m, rest)
    \/ Elsewhere(n, rest)

\* The directory is read, made at the destination, and listed again.  A file
\* is no directory, and one that cannot be read is passed over; when it is the
\* directory of the destination that cannot be read, dstURL has the name already.
CopyEnter ==
    /\ phase = "copy" /\ stack # <<>>
    /\ LET d == Head(stack).dir
           k == Kids(src, d)
       IN /\ Head(stack).at = "enter"
          /\ \/ /\ src[d] # Dir
                /\ Return(Tail(stack)) /\ UNCHANGED <<dst, faults, astray, sent, passed, listed>>
             \/ /\ src[d] = Dir /\ Fault /\ PassOver({d}, Tail(stack))
                /\ astray' \in {astray, TRUE}
                /\ UNCHANGED <<dst, listed>>
             \/ /\ src[d] = Dir
                /\ CopyObject(d, <<[dir |-> d, at |-> "list", names |-> k, left |-> k]>> \o Tail(stack))
                /\ listed' = listed \cup {d}
                /\ UNCHANGED astray
    /\ UNCHANGED <<src, opts, last, edits, had, late, rewritten>>

\* ShowAttributes() for an object of the listing.
CopyChild ==
    /\ phase = "copy" /\ stack # <<>> /\ Head(stack).at = "list"
    /\ \E n \in Head(stack).left :
           CopyObject(n, <<[Head(stack) EXCEPT !.left = @ \ {n}]>> \o Tail(stack))
    /\ UNCHANGED <<src, opts, last, astray, edits, had, listed, late, rewritten>>

\* The second read(), a ShowAttributes() or the LeavingContext() of the
\* directory ends in the catch of operator(), which calls no LeavingContext().
CopyBreaks ==
    /\ phase = "copy" /\ stack # <<>>
    /\ LET f == Head(stack)
       IN /\ f.at = "list" \/ (f.at = "recurse" /\ f.left = {})
          /\ Fault
          /\ PassOver(f.left \cup {n \in f.names : f.at = "list" /\ src[n] = Dir}, Tail(stack))
    /\ astray' = TRUE
    /\ UNCHANGED <<fileVars, opts, last, edits, had, listed, late, rewritten>>

\* MaybeRecurse(): operator() for each name; it has a catch of its own.
CopyRecurse ==
    /\ phase = "copy" /\ stack # <<>>
    /\ LET f == Head(stack)
       IN \/ /\ f.at = "list" /\ f.left = {}
             /\ Return(<<[f EXCEPT !.at = "recurse", !.left = f.names]>> \o Tail(stack))
             /\ UNCHANGED <<faults, sent, passed>>
          \/ /\ f.at = "recurse"
             /\ \E n \in f.left :
                    Return(<<Entering(n), [f EXCEPT !.left = @ \ {n}]>> \o Tail(stack))
             /\ UNCHANGED <<faults, sent, passed>>
          \/ /\ f.at = "recurse" /\ Fault
             /\ PassOver(f.left, <<[f EXCEPT !.left = {}]>> \o Tail(stack))
    /\ UNCHANGED <<fileVars, opts, last, astray, edits, had, listed, late, rewritten>>

\* LeavingContext(); it may throw what nothing catches.
CopyLeave ==
    /\ phase = "copy" /\ stack # <<>>
    /\ Head(stack).at = "recurse" /\ Head(stack).left = {}
    /\ \/ Return(Tail(stack)) /\ UNCHANGED faults
       \/ Fault /\ Throw
    /\ UNCHANGED <<fileVars, opts, last, astray, edits, history>>

\* Mutant: the removal begins at the directory of the source.
CopyDone_Mutant ==
    /\ phase = "copy" /\ stack = <<>>
    /\ phase' = "remove" /\ stack' = <<Entering(Up[Top])>>
    /\ UNCHANGED <<fileVars, opts, last, astray, faults, edits, history>>
CopyDone ==
    /\ phase = "copy" /\ stack = <<>>
    /\ phase' = "remove" /\ stack' = <<Entering(Top)>>
    /\ UNCHANGED <<fileVars, opts, last, astray, faults, edits, history>>

(***************************************************************************)
(* FerrisRm                                                                *)
(***************************************************************************)
\* removeObject(): what is gone is skipped, -i asks, a directory that is not
\* empty is not removed.
RemoveObject(n, then) ==
    \/ /\ src[n] = Absent \/ opts.Interactive
       /\ then /\ UNCHANGED <<src, faults>>
    \/ /\ src[n] # Absent /\ Kids(src, n) = {}
       /\ src' = [src EXCEPT ![n] = Absent]
       /\ then /\ UNCHANGED faults
    \/ Kids(src, n) # {} /\ Throw /\ UNCHANGED <<src, faults>>
    \/ src[n] # Absent /\ Fault /\ Throw /\ UNCHANGED src

\* The object that was met before is removed when another is met.
RemoveLast(then) ==
    IF last = None THEN then /\ UNCHANGED <<src, faults>> ELSE RemoveObject(last, then)

\* A watched directory that has been read is not read again: what the event
\* loop has not heard of is not in it.
Listings(d) == {Kids(src, d), Kids(src, d) \ late}

RmEnter ==
    /\ phase = "remove" /\ stack # <<>> /\ Head(stack).at = "enter"
    /\ LET d == Head(stack).dir
       IN \/ src[d] # Dir /\ Return(Tail(stack)) /\ UNCHANGED faults
          \/ src[d] = Dir /\ Fault /\ Return(Tail(stack))
          \/ /\ src[d] = Dir
             /\ \E k \in Listings(d) :
                    Return(<<[dir |-> d, at |-> "recurse", names |-> {}, left |-> k]>> \o Tail(stack))
             /\ UNCHANGED faults
    /\ UNCHANGED <<fileVars, opts, last, astray, edits, history>>

\* MaybeRecurse() first, then the directory is listed again.  MaybeRecurse()
\* may give up, or that listing, for which FerrisRm has nothing to put back.
RmRecurse ==
    /\ phase = "remove" /\ stack # <<>> /\ Head(stack).at = "recurse"
    /\ LET f == Head(stack)
       IN \/ \E n \in f.left :
                /\ Return(<<Entering(n), [f EXCEPT !.left = @ \ {n}]>> \o Tail(stack))
                /\ UNCHANGED faults
          \/ /\ f.left = {}
             /\ \E k \in Listings(f.dir) :
                    Return(<<[f EXCEPT !.at = "list", !.left = k]>> \o Tail(stack))
             /\ UNCHANGED faults
          \/ Fault /\ Return(<<[f EXCEPT !.left = {}]>> \o Tail(stack))
          \/ f.left = {} /\ Fault /\ Return(Tail(stack))
    /\ UNCHANGED <<fileVars, opts, last, astray, edits, history>>

\* ShowAttributes() for an object of the listing.
RmChild ==
    /\ phase = "remove" /\ stack # <<>> /\ Head(stack).at = "list"
    /\ LET f == Head(stack)
       IN \/ \E n \in f.left :
                /\ RemoveLast(Return(<<[f EXCEPT !.left = @ \ {n}]>> \o Tail(stack)))
                /\ last' = n
          \/ /\ f.left = {} /\ Return(Tail(stack))
             /\ UNCHANGED <<src, faults, last>>
    /\ UNCHANGED <<dst, opts, astray, edits, history>>

\* workComplete()
\* Mutant: it does nothing, as that of most displays.
RmDone_Mutant ==
    /\ phase = "remove" /\ stack = <<>>
    /\ phase' = "target" /\ last' = None
    /\ UNCHANGED <<fileVars, opts, stack, astray, faults, edits, history>>
RmDone ==
    /\ phase = "remove" /\ stack = <<>>
    /\ RemoveLast(phase' = "target" /\ UNCHANGED stack)
    /\ last' = None
    /\ UNCHANGED <<dst, opts, astray, edits, history>>

\* remove(): the directory itself.
RmTarget ==
    /\ phase = "target"
    /\ RemoveObject(Top, phase' = "done" /\ UNCHANGED stack)
    /\ UNCHANGED <<dst, opts, last, astray, edits, history>>

(***************************************************************************)
(* Another program                                                         *)
(***************************************************************************)
Ended == phase \in {"done", "failed"}

Modify(n) ==
    /\ ~ Ended /\ edits < MaxEdits /\ edits' = edits + 1
    /\ src[n] # Dir /\ n # Top /\ src[Up[n]] = Dir
    /\ src' = [src EXCEPT ![n] = "second"]
    /\ late' = IF src[n] = Absent /\ Up[n] \in listed THEN late \cup {n} ELSE late
    /\ rewritten' = IF n \in sent THEN rewritten \cup {n} ELSE rewritten
    /\ had' = [had EXCEPT ![n] = "second"]
    /\ UNCHANGED <<dst, opts, walkVars, faults, sent, passed, listed>>

Step == \/ Begin \/ CopyEnter \/ CopyChild \/ CopyBreaks \/ CopyRecurse \/ CopyLeave
        \/ CopyDone        \/ RmEnter \/ RmRecurse \/ RmChild \/ RmDone \/ RmTarget
Next == Step \/ \E n \in Paths : Modify(n)
Spec == Init /\ [][Next]_vars
------------------------------------------------------------------------------
TypeOK ==
    /\ src \in [Paths -> Copied \cup {Dir, Absent}]
    /\ dst \in [Paths -> Copied \cup Own \cup {Dir, Absent, "part"}]
    /\ opts \in Opts
    /\ phase \in {"start", "copy", "remove", "target", "done", "failed"}
    /\ stack \in Seq(Frame)
    /\ last \in Paths \cup {None} /\ astray \in BOOLEAN
    /\ faults \in 0 .. MaxFaults /\ edits \in 0 .. MaxEdits
    /\ had \in [Paths -> Copied \cup {Absent}]
    /\ sent \subseteq Paths /\ passed \subseteq Paths /\ listed \subseteq Paths
    /\ late \subseteq Paths /\ rewritten \subseteq Paths

\* A file has gone that came, and was last written to, in time for the copy.
Gone(n) == had[n] # Absent /\ n \notin late \cup rewritten /\ src[n] = Absent
Arrived(n) == dst[n] = had[n]

\* "copy it and delete src": a file that has gone from the source is at its
\* place at the destination with all that was in it, unless the copy has
\* passed over it or over a directory above it; after a directory was left
\* without LeavingContext() it has at least been written to the end, but at a
\* place of another.  What another program adds to a directory after the copy
\* has listed it, or to a file after the copy has read it, is not the copy's.
GoneIsCopied == \A n \in Paths :
    Gone(n) => (n \in sent /\ (astray \/ Arrived(n))) \/ Above[n] \cap passed # {}

\* The same without the exception: a file that has gone was copied.
MoveKeepsAll == \A n \in Paths : Gone(n) => Arrived(n)

\* A move in which no call fails, nobody is asked and nobody else writes
\* leaves nothing of the source, although each object is removed only when
\* FerrisRm has met the next one.
EmptiesTheSource ==
    Ended /\ listed # {} /\ passed = {} /\ faults + edits = 0 /\ ~ opts.Interactive
        => \A n \in Paths : src[n] = Absent
=============================================================================
