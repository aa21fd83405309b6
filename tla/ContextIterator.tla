-------------------------- MODULE ContextIterator --------------------------
(***************************************************************************)
(* The iterator over the children of a context (ContextIterator.cpp),      *)
(* while the directory changes under it.                                   *)
(*                                                                         *)
(* An iterator holds the context it shows and that context's name, and the *)
(* value DirOpVersion of the parent had at its last use.  Before it moves  *)
(* it revalidates: when the value has changed and its context is gone, it  *)
(* looks for the place where the context was.  The listing of an ordinary  *)
(* context is in the order of the names and the place is found by a search *)
(* for the name.  The order of a SortedContext depends on the attributes   *)
(* of contexts that may be gone, so there the iterator remembers the names *)
(* of the listing in their order, and goes to the name that came next.     *)
(*                                                                         *)
(* A name stands for its place in the order of the listing, so names are   *)
(* numbers.  DirOpVersion is modelled by what the iterator compares it     *)
(* for: whether it still is the one of the last use.                       *)
(***************************************************************************)
EXTENDS Integers, FiniteSets

CONSTANTS
    Names,          \* the names a directory may have, in the order of the listing
    Strides         \* the distances a client moves the iterator by

ASSUME NamesAreNumbers == Names \subseteq Nat /\ IsFiniteSet(Names)
ASSUME StridesAreNumbers == Strides \subseteq Int \ {0}

End  == -1          \* theContext is null: the iterator is the end()
Wild == -2          \* the iterator was made from an end() of the std::set

VARIABLES
    sorted,         \* isSortedContext
    items,          \* the names in the parent's Items and in its getSortedItems()
    marked,         \* those whose context has HasBeenDeleted set
    at,             \* the name of theContext, or End or Wild
    fresh,          \* Version is the parent's DirOpVersion
    memory,         \* the names in m_OldRdnSet
    freshMemory,    \* m_Version of it is the parent's DirOpVersion
    there           \* history: the items that have stayed since the last use

listing == << sorted, items, marked >>
vars == << sorted, items, marked, at, fresh, memory, freshMemory, there >>

----------------------------------------------------------------------------
(* The listing.                                                            *)

First(S) == CHOOSE x \in S : \A y \in S : x <= y
Last(S)  == CHOOSE x \in S : \A y \in S : y <= x

After(S, n)  == { x \in S : n < x }
Before(S, n) == { x \in S : x < n }

Listed == items \ marked

FirstOrEnd(S) == IF S = {} THEN End ELSE First(S)

\* A child appears, found in a read or made.
Insert(n) ==
    /\ n \in Names \ items
    /\ items' = items \cup {n}
    /\ fresh' = FALSE
    /\ freshMemory' = FALSE
    /\ UNCHANGED << sorted, marked, at, memory, there >>

\* Mutant: the mark stays with the name.
Remove_Mutant(n) ==
    /\ n \in items
    /\ items' = items \ {n}
    /\ there' = there \ {n}
    /\ fresh' = FALSE
    /\ freshMemory' = FALSE
    /\ UNCHANGED << sorted, marked, at, memory >>

\* A child is removed.  The iterator keeps the object alive, not its place.
Remove(n) ==
    /\ n \in items
    /\ items' = items \ {n}
    /\ marked' = marked \ {n}
    /\ there' = there \ {n}
    /\ fresh' = FALSE
    /\ freshMemory' = FALSE
    /\ UNCHANGED << sorted, at, memory >>

\* A read of a directory that is not watched marks the children it does not
\* meet again and leaves them, and DirOpVersion, as they are.
Reread ==
    /\ marked' \in SUBSET items
    /\ UNCHANGED << sorted, items, at, fresh, memory, freshMemory, there >>

----------------------------------------------------------------------------
(* revalidate().                                                           *)

\* getNextRDN().
Remembered == IF at \in memory THEN FirstOrEnd(After(memory, at)) ELSE End

\* Where a sorted iterator goes to whose context is gone: the search for the
\* remembered name leaves the iterator at the last child when it fails.
SortedPlace ==
    IF Remembered = End THEN End
    ELSE IF Remembered \in items THEN Remembered
    ELSE IF items = {} THEN End
    ELSE Last(items)

\* The same in a listing that is in the order of the names: the lower_bound()
\* of the name, which setContext() reads even when it is the end.
NamePlace ==
    IF After(items, at) # {} THEN First(After(items, at))
    ELSE IF items = {} THEN End ELSE Wild

\* The name under the iterator after revalidate().
Place ==
    IF at = End \/ fresh \/ at \in items THEN at
    ELSE IF sorted THEN SortedPlace ELSE NamePlace

\* revalidateDidntFindOldContext.
Moved == Place # at

\* What revalidate() leaves in the iterator besides the place; update() of the
\* memory does nothing while it is fresh and not empty.
Revalidated ==
    IF at = End
    THEN /\ memory' = {}
         /\ freshMemory' = FALSE
         /\ fresh' = fresh
    ELSE /\ fresh' = TRUE
         /\ IF fresh \/ ~sorted \/ (freshMemory /\ memory # {})
            THEN UNCHANGED << memory, freshMemory >>
            ELSE memory' = items /\ freshMemory' = TRUE

----------------------------------------------------------------------------
(* shiftIterator() and the client.                                         *)

\* The k-th child after n that is not marked.  To go beyond the end of a
\* std::set is undefined.
Ahead(k, n) ==
    IF n = End THEN Wild
    ELSE FirstOrEnd({ m \in After(Listed, n) :
                        Cardinality({ x \in After(Listed, n) : x <= m }) = k })

\* The k-th child before n that is not marked; the walk stops at the first
\* child, marked or not.
Behind(k, n) ==
    LET before == IF n = End THEN Listed ELSE Before(Listed, n)
        kth    == { m \in before : Cardinality({ x \in before : m <= x }) = k }
    IN  IF kth # {} THEN First(kth) ELSE FirstOrEnd(items)

\* Mutant: the step is made whether revalidate() has moved the iterator or not.
Shift_Mutant(d) ==
    IF Place \in {Wild, End} /\ d > 0 THEN Place
    ELSE IF Place = Wild THEN Wild
    ELSE IF d > 0 THEN Ahead(d, Place) ELSE Behind(-d, Place)

\* A revalidation that has moved the iterator has made its first step.
Shift(d) ==
    LET k == IF Moved /\ d > 0 THEN d - 1 ELSE d
    IN  IF Place = Wild \/ k = 0 THEN Place
        ELSE IF k > 0 THEN Ahead(k, Place) ELSE Behind(-k, Place)

Step(d) ==
    /\ at # Wild
    /\ at = End => d < 0
    /\ at' = Shift(d)
    /\ Revalidated
    /\ there' = items
    /\ UNCHANGED listing

\* begin(), end() and find() make an iterator.
Start(n) ==
    /\ n \in items \cup {End}
    /\ at' = n
    /\ memory' = IF sorted /\ n # End THEN items ELSE {}
    /\ freshMemory' = (n # End)
    /\ fresh' = TRUE
    /\ there' = items
    /\ UNCHANGED listing

Init ==
    /\ sorted \in BOOLEAN
    /\ items \in SUBSET Names
    /\ marked = {}
    /\ at = End
    /\ fresh = TRUE
    /\ memory = {}
    /\ freshMemory = FALSE
    /\ there = items

Next ==
    \/ \E n \in Names : Insert(n) \/ Remove(n)
    \/ Reread
    \/ \E n \in Names \cup {End} : Start(n)
    \/ \E d \in Strides : Step(d)

Spec == Init /\ [][Next]_vars

----------------------------------------------------------------------------
(* Properties.                                                             *)

\* An end's iterator remembers nothing; the memory and what has stayed are
\* names of the directory.
TypeOK ==
    /\ sorted \in BOOLEAN
    /\ items \subseteq Names
    /\ marked \subseteq items
    /\ at \in Names \cup {End, Wild}
    /\ fresh \in BOOLEAN
    /\ memory \subseteq Names
    /\ freshMemory \in BOOLEAN
    /\ there \subseteq items

\* The iterator of a sorted listing has lost its place: its context is gone
\* and so is the one that it remembers as the next, or it remembers none
\* because it has come back from the end.
Forgotten ==
    /\ sorted
    /\ at \notin items
    /\ at \notin memory \/ (Remembered # End /\ Remembered \notin items)

\* What stays in the listing, between n and m.
Stayed(n, m) == { x \in there \cap Listed : n < x /\ (m = End \/ x < m) }

\* operator++ and operator+=: a step forward by d leads over less than d of the children that stay in
\* the listing, and over d of the listing's places unless it reaches the end:
\* no child is passed over and none is met twice.
StepsForward(d) ==
    /\ Cardinality(Stayed(at, at')) < d
    /\ at' # End => Cardinality({ x \in items : at < x /\ x <= at' }) >= d

\* The same for a step back, which stops at the first child.  It may meet a
\* child that has come between a removed context and the next one first.
StepsBack(d) ==
    /\ Cardinality(Stayed(at', at)) < d
    /\ \/ at' < at \/ at = End \/ Before(items, at) = {}
       \/ at' \notin there

\* Every step is such a step, whatever is removed, the context under the
\* iterator included, or inserted since the last one (revalidate() and
\* shiftIterator()).
Sweeps == [][\A d \in Strides : Step(d) /\ at' # Wild =>
               \/ Forgotten
               \/ IF d > 0 THEN StepsForward(d) ELSE StepsBack(-d)]_vars
=============================================================================
