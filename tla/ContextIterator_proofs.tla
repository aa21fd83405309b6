----------------------- MODULE ContextIterator_proofs -----------------------
(***************************************************************************)
(* Theorems of ContextIterator for every directory and every distance an   *)
(* iterator is moved by.                                                   *)
(*                                                                         *)
(* An iterator whose context is gone is right about where to go on because *)
(* of what it remembers: MemoryInv says that an iterator over a sorted     *)
(* listing, if it remembers any name at all, remembers every child that    *)
(* has been there since its last use.                                      *)
(***************************************************************************)
EXTENDS ContextIterator, FiniteSetTheorems, WellFoundedInduction, TLAPS

-----------------------------------------------------------------------------
(***************************************************************************)
(* Sets of numbers.                                                        *)
(***************************************************************************)

\* A set of numbers has a least one.
LEMMA FirstIsLeast ==
    ASSUME NEW S, S \subseteq Nat, S # {}
    PROVE  First(S) \in S /\ \A y \in S : First(S) <= y
<1>1. \E x \in S : \A y \in S : ~ (<<y, x>> \in OpToRel(<, Nat))
  BY WFMin, NatLessThanWellFounded
<1>2. PICK x \in S : \A y \in S : ~ (<<y, x>> \in OpToRel(<, Nat))
  BY <1>1
<1>3. ASSUME NEW y \in S PROVE x <= y
  <2>1. x \in Nat /\ y \in Nat
    OBVIOUS
  <2>2. ~ (y < x)
    BY <1>2, <2>1 DEF OpToRel
  <2> QED
    BY <2>1, <2>2
<1> QED
  BY <1>3 DEF First

UpTo(S, m) == { x \in S : x <= m }
From(S, m) == { x \in S : m <= x }

\* The k-th of the numbers in a finite set.
LEMMA KthExists ==
    ASSUME NEW S, S \subseteq Nat, IsFiniteSet(S),
           NEW k \in Nat, 0 < k, k <= Cardinality(S)
    PROVE  \E m \in S : Cardinality(UpTo(S, m)) = k
<1> DEFINE Bad == { j \in Nat : /\ 0 < j /\ j <= Cardinality(S)
                                /\ \A m \in S : Cardinality(UpTo(S, m)) # j }
<1> SUFFICES ASSUME k \in Bad PROVE FALSE
  OBVIOUS
<1> DEFINE j == First(Bad)
<1>1. j \in Bad /\ \A i \in Bad : j <= i
  BY FirstIsLeast
<1> HIDE DEF j
<1>2. Cardinality(S) \in Nat
  BY FS_CardinalityType
<1>3. CASE j = 1
  <2>1. S # {}
    BY <1>2, FS_EmptySet
  <2>2. First(S) \in S /\ \A y \in S : First(S) <= y
    BY <2>1, FirstIsLeast
  <2>3. UpTo(S, First(S)) = {First(S)}
    <3>1. ASSUME NEW y \in UpTo(S, First(S)) PROVE y = First(S)
      <4>1. y \in Nat /\ First(S) \in Nat /\ First(S) <= y /\ y <= First(S)
        BY <2>2 DEF UpTo
      <4> QED
        BY <4>1
    <3> QED
      BY <2>2, <3>1 DEF UpTo
  <2>4. Cardinality(UpTo(S, First(S))) = 1
    BY <2>3, FS_Singleton
  <2> QED
    BY <1>1, <1>3, <2>2, <2>4
<1>4. CASE j # 1
  <2>1. j - 1 \in Nat /\ 0 < j - 1 /\ j - 1 <= Cardinality(S) /\ j - 1 \notin Bad
    BY <1>1, <1>2, <1>4
  <2>2. PICK m \in S : Cardinality(UpTo(S, m)) = j - 1
    BY <2>1
  <2>3. After(S, m) # {}
    <3>1. SUFFICES ASSUME After(S, m) = {} PROVE FALSE
      OBVIOUS
    <3>2. ASSUME NEW y \in S PROVE y \in UpTo(S, m)
      <4>1. y \in Nat /\ m \in Nat /\ ~ (m < y)
        BY <3>1 DEF After
      <4> QED
        BY <4>1 DEF UpTo
    <3>3. UpTo(S, m) = S
      BY <3>2 DEF UpTo
    <3> QED
      BY <1>1, <1>2, <2>2, <3>3
  <2> DEFINE n == First(After(S, m))
  <2>4. n \in After(S, m) /\ \A y \in After(S, m) : n <= y
    BY <2>3, FirstIsLeast DEF After
  <2> HIDE DEF n
  <2>5. n \in S /\ n \notin UpTo(S, m) /\ UpTo(S, n) = UpTo(S, m) \cup {n}
    <3>1. n \in S /\ m < n /\ n \in Nat /\ m \in Nat
      BY <2>4 DEF After
    <3>2. ASSUME NEW y \in S PROVE y <= n <=> y <= m \/ y = n
      <4>1. y \in Nat
        OBVIOUS
      <4>2. m < y => n <= y
        BY <2>4 DEF After
      <4> QED
        BY <3>1, <4>1, <4>2
    <3>3. ~ (n <= m)
      BY <3>1
    <3> QED
      BY <3>1, <3>2, <3>3 DEF UpTo
  <2>6. IsFiniteSet(UpTo(S, m))
    BY FS_Subset DEF UpTo
  <2>7. Cardinality(UpTo(S, n)) = j
    BY <1>1, <2>2, <2>5, <2>6, FS_AddElement
  <2> QED
    BY <1>1, <2>5, <2>7
<1> QED
  BY <1>3, <1>4

\* Counting from the other end.
LEMMA CountedBack ==
    ASSUME NEW S, S \subseteq Nat, IsFiniteSet(S), NEW m \in S
    PROVE  /\ Cardinality(UpTo(S, m)) \in Nat
           /\ Cardinality(From(S, m)) \in Nat
           /\ Cardinality(From(S, m)) = Cardinality(S) - Cardinality(UpTo(S, m)) + 1
<1>1. IsFiniteSet(UpTo(S, m)) /\ IsFiniteSet(From(S, m))
  BY FS_Subset DEF UpTo, From
<1>2. UpTo(S, m) \cup From(S, m) = S /\ UpTo(S, m) \cap From(S, m) = {m}
  <2>1. m \in Nat /\ \A y \in S : y \in Nat
    OBVIOUS
  <2>2. \A y \in S : (y <= m \/ m <= y) /\ (y <= m /\ m <= y <=> y = m)
    BY <2>1
  <2> QED
    BY <2>2 DEF UpTo, From
<1>3. Cardinality({m}) = 1
  BY FS_Singleton
<1>4. /\ Cardinality(UpTo(S, m)) \in Nat /\ Cardinality(From(S, m)) \in Nat
      /\ Cardinality(S) \in Nat
  BY <1>1, FS_CardinalityType
<1>5. Cardinality(S) = Cardinality(UpTo(S, m)) + Cardinality(From(S, m)) - 1
  BY <1>1, <1>2, <1>3, FS_Union
<1> QED
  BY <1>4, <1>5

\* A finite set of numbers that is not empty has a greatest one.
LEMMA LastIsGreatest ==
    ASSUME NEW S, S \subseteq Nat, IsFiniteSet(S), S # {}
    PROVE  Last(S) \in S /\ \A y \in S : y <= Last(S)
<1>1. Cardinality(S) \in Nat /\ 0 < Cardinality(S) /\ Cardinality(S) <= Cardinality(S)
  BY FS_CardinalityType, FS_EmptySet
<1>2. PICK m \in S : Cardinality(UpTo(S, m)) = Cardinality(S)
  BY <1>1, KthExists
<1>3. UpTo(S, m) = S
  BY <1>2, FS_Subset DEF UpTo
<1>4. \A y \in S : y <= m
  BY <1>3 DEF UpTo
<1> QED
  BY <1>4 DEF Last

-----------------------------------------------------------------------------
(***************************************************************************)
(* Where an iterator goes.                                                 *)
(***************************************************************************)

LEMMA FiniteItems ==
    ASSUME TypeOK
    PROVE  /\ items \subseteq Nat /\ IsFiniteSet(items)
           /\ Listed \subseteq items /\ IsFiniteSet(Listed)
<1>1. items \subseteq Names /\ Names \subseteq Nat /\ IsFiniteSet(Names)
  BY NamesAreNumbers DEF TypeOK
<1>2. IsFiniteSet(items)
  BY <1>1, FS_Subset
<1> QED
  BY <1>1, <1>2, FS_Subset DEF Listed

\* The walk forward from n ends at the k-th child after it, or there are not
\* as many.
LEMMA AheadIs ==
    ASSUME TypeOK, NEW n \in Names, NEW k \in Nat, 0 < k
    PROVE  LET A == After(Listed, n)
               r == Ahead(k, n)
           IN  /\ A \subseteq Nat /\ IsFiniteSet(A)
               /\ \/ r = End /\ Cardinality(A) < k
                  \/ r \in A /\ Cardinality(UpTo(A, r)) = k
<1> DEFINE A   == After(Listed, n)
           kth == { m \in A : Cardinality(UpTo(A, m)) = k }
<1>1. A \subseteq Nat /\ IsFiniteSet(A)
  BY FiniteItems, FS_Subset DEF After
<1>2. n # End
  BY NamesAreNumbers DEF End
<1>3. Ahead(k, n) = FirstOrEnd(kth)
  BY <1>2 DEF Ahead, UpTo
<1>4. CASE kth = {}
  <2>1. ~ (k <= Cardinality(A))
    BY <1>1, <1>4, KthExists
  <2>2. Cardinality(A) \in Nat
    BY <1>1, FS_CardinalityType
  <2> QED
    BY <1>1, <1>3, <1>4, <2>1, <2>2 DEF FirstOrEnd
<1>5. CASE kth # {}
  <2>1. First(kth) \in kth
    BY <1>1, <1>5, FirstIsLeast
  <2> QED
    BY <1>1, <1>3, <1>5, <2>1 DEF FirstOrEnd
<1> QED
  BY <1>4, <1>5

Behinds(n) == IF n = End THEN Listed ELSE Before(Listed, n)

\* The walk back from n ends at the k-th child before it, or at the first of
\* all when there are not as many.
LEMMA BehindIs ==
    ASSUME TypeOK, NEW n \in Names \cup {End}, NEW k \in Nat, 0 < k
    PROVE  LET B == Behinds(n)
               r == Behind(k, n)
           IN  /\ B \subseteq Nat /\ IsFiniteSet(B)
               /\ \/ r = FirstOrEnd(items) /\ Cardinality(B) < k
                  \/ r \in B /\ Cardinality(From(B, r)) = k
<1> DEFINE B   == Behinds(n)
           kth == { m \in B : Cardinality(From(B, m)) = k }
<1>1. B \subseteq Nat /\ IsFiniteSet(B)
  BY FiniteItems, FS_Subset DEF Behinds, Before
<1>2. Behind(k, n) = IF kth # {} THEN First(kth) ELSE FirstOrEnd(items)
  BY DEF Behind, Behinds, From
<1>3. CASE kth # {}
  <2>1. First(kth) \in kth
    BY <1>1, <1>3, FirstIsLeast
  <2> QED
    BY <1>1, <1>2, <1>3, <2>1
<1>4. CASE kth = {}
  <2>1. SUFFICES ASSUME k <= Cardinality(B) PROVE FALSE
    <3>1. Cardinality(B) \in Nat
      BY <1>1, FS_CardinalityType
    <3> QED
      BY <1>1, <1>2, <1>4, <2>1, <3>1
  <2> DEFINE j == Cardinality(B) - k + 1
  <2>2. j \in Nat /\ 0 < j /\ j <= Cardinality(B) /\ Cardinality(B) \in Nat
    BY <1>1, <2>1, FS_CardinalityType
  <2>3. PICK m \in B : Cardinality(UpTo(B, m)) = j
    BY <1>1, <2>2, KthExists
  <2>4. Cardinality(From(B, m)) = Cardinality(B) - j + 1
    BY <1>1, <2>3, CountedBack
  <2>5. Cardinality(From(B, m)) = k
    BY <2>2, <2>4
  <2> QED
    BY <1>4, <2>5
<1> QED
  BY <1>3, <1>4

\* An iterator that revalidate() has moved was on a child that is gone.
LEMMA WhereMoved ==
    ASSUME TypeOK, Moved
    PROVE  /\ at # End /\ at \notin items /\ ~ fresh
           /\ Place = IF sorted THEN SortedPlace ELSE NamePlace
           /\ Place \in items \cup {End, Wild}
<1>1. at # End /\ at \notin items /\ ~ fresh
  BY DEF Moved, Place
<1>2. Place = IF sorted THEN SortedPlace ELSE NamePlace
  BY <1>1 DEF Place
<1>3. SortedPlace \in items \cup {End}
  <2>1. items # {} => Last(items) \in items
    BY FiniteItems, LastIsGreatest
  <2> QED
    BY <2>1 DEF SortedPlace
<1>4. NamePlace \in items \cup {End, Wild}
  <2>1. After(items, at) # {} => First(After(items, at)) \in After(items, at)
    BY FiniteItems, FirstIsLeast DEF After
  <2> QED
    BY <2>1 DEF NamePlace, After
<1> QED
  BY <1>1, <1>2, <1>3, <1>4

LEMMA PlaceType ==
    ASSUME TypeOK
    PROVE  Place \in Names \cup {End, Wild}
<1>1. CASE Moved
  BY <1>1, WhereMoved DEF TypeOK
<1>2. CASE ~ Moved
  BY <1>2 DEF Moved, TypeOK
<1> QED
  BY <1>1, <1>2

LEMMA ShiftType ==
    ASSUME TypeOK, NEW d \in Int
    PROVE  Shift(d) \in Names \cup {End, Wild}
<1> DEFINE k == IF Moved /\ d > 0 THEN d - 1 ELSE d
<1>1. k \in Int
  OBVIOUS
<1>2. Shift(d) = IF Place = Wild \/ k = 0 THEN Place
                 ELSE IF k > 0 THEN Ahead(k, Place) ELSE Behind(-k, Place)
  BY DEF Shift
<1> HIDE DEF k
<1>3. CASE Place = Wild \/ k = 0
  BY <1>2, <1>3, PlaceType
<1>4. CASE Place # Wild /\ k > 0
  <2>1. Shift(d) = Ahead(k, Place)
    BY <1>2, <1>4
  <2>2. CASE Place = End
    BY <2>1, <2>2 DEF Ahead
  <2>3. CASE Place # End
    <3>1. Place \in Names /\ k \in Nat /\ 0 < k
      BY <1>1, <1>4, <2>3, PlaceType
    <3>2. Ahead(k, Place) = End \/ Ahead(k, Place) \in After(Listed, Place)
      BY <3>1, AheadIs
    <3> QED
      BY <2>1, <3>2, FiniteItems DEF After, TypeOK
  <2> QED
    BY <2>2, <2>3
<1>5. CASE Place # Wild /\ k < 0
  <2>1. Shift(d) = Behind(-k, Place)
    BY <1>1, <1>2, <1>5
  <2>2. Place \in Names \cup {End} /\ -k \in Nat /\ 0 < -k
    BY <1>1, <1>5, PlaceType
  <2>3. \/ Behind(-k, Place) = FirstOrEnd(items)
        \/ Behind(-k, Place) \in Behinds(Place)
    BY <2>2, BehindIs
  <2>4. Behinds(Place) \subseteq items
    BY FiniteItems DEF Behinds, Before
  <2>5. items # {} => First(items) \in items
    BY FiniteItems, FirstIsLeast
  <2> QED
    BY <2>1, <2>3, <2>4, <2>5 DEF FirstOrEnd, TypeOK
<1> QED
  BY <1>1, <1>3, <1>4, <1>5

-----------------------------------------------------------------------------
(***************************************************************************)
(* The invariant.                                                          *)
(***************************************************************************)

\* What a sorted iterator remembers, if anything, has every child that was
\* there at its last use, and is the listing while the directory stays as it
\* is.
MemoryInv ==
    sorted /\ memory # {} =>
        /\ there \subseteq memory
        /\ fresh \/ freshMemory => memory = items

Inv == TypeOK /\ MemoryInv

LEMMA InvInit == Init => Inv
<1> SUFFICES ASSUME Init PROVE Inv
  OBVIOUS
<1>1. TypeOK
  BY DEF Init, TypeOK
<1>2. MemoryInv
  BY DEF Init, MemoryInv
<1> QED
  BY <1>1, <1>2 DEF Inv

LEMMA TypeStep ==
    ASSUME Inv, [Next]_vars
    PROVE  TypeOK'
<1> USE DEF Inv
<1>1. ASSUME NEW n \in Names, Insert(n) PROVE TypeOK'
  BY <1>1 DEF Insert, TypeOK
<1>2. ASSUME NEW n \in Names, Remove(n) PROVE TypeOK'
  BY <1>2 DEF Remove, TypeOK
<1>3. CASE Reread
  BY <1>3 DEF Reread, TypeOK
<1>4. ASSUME NEW n \in Names \cup {End}, Start(n) PROVE TypeOK'
  BY <1>4 DEF Start, TypeOK, listing
<1>5. ASSUME NEW d \in Strides, Step(d) PROVE TypeOK'
  <2>1. at' \in Names \cup {End, Wild}
    BY <1>5, ShiftType, StridesAreNumbers DEF Step
  <2>2. /\ fresh' \in BOOLEAN /\ freshMemory' \in BOOLEAN
        /\ memory' \subseteq Names
    BY <1>5 DEF Step, Revalidated, TypeOK
  <2> QED
    BY <1>5, <2>1, <2>2 DEF Step, TypeOK, listing
<1>6. CASE UNCHANGED vars
  BY <1>6 DEF vars, listing, TypeOK
<1> QED
  BY <1>1, <1>2, <1>3, <1>4, <1>5, <1>6 DEF Next

LEMMA MemoryStep ==
    ASSUME Inv, [Next]_vars
    PROVE  MemoryInv'
<1> USE DEF Inv
<1>1. ASSUME NEW n \in Names, Insert(n) PROVE MemoryInv'
  BY <1>1 DEF Insert, MemoryInv
<1>2. ASSUME NEW n \in Names, Remove(n) PROVE MemoryInv'
  BY <1>2 DEF Remove, MemoryInv
<1>3. CASE Reread
  BY <1>3 DEF Reread, MemoryInv
<1>4. ASSUME NEW n \in Names \cup {End}, Start(n) PROVE MemoryInv'
  BY <1>4 DEF Start, MemoryInv, listing
<1>5. ASSUME NEW d \in Strides, Step(d) PROVE MemoryInv'
  <2>1. Revalidated /\ there' = items /\ items' = items /\ sorted' = sorted
    BY <1>5 DEF Step, listing
  <2>2. CASE at = End
    BY <2>1, <2>2 DEF Revalidated, MemoryInv
  <2>3. CASE at # End
    BY <2>1, <2>3 DEF Revalidated, MemoryInv, TypeOK
  <2> QED
    BY <2>2, <2>3
<1>6. CASE UNCHANGED vars
  BY <1>6 DEF vars, listing, MemoryInv
<1> QED
  BY <1>1, <1>2, <1>3, <1>4, <1>5, <1>6 DEF Next

LEMMA InvAlways == Spec => []Inv
<1>1. Inv /\ [Next]_vars => Inv'
  BY TypeStep, MemoryStep DEF Inv
<1> QED
  BY <1>1, InvInit, PTL DEF Spec

\* What an iterator holds are names of its directory, or that it is at the
\* end, however far it is moved and however the directory changes.
THEOREM TypeCorrect == Spec => []TypeOK
<1>1. Inv => TypeOK
  BY DEF Inv
<1> QED
  BY <1>1, InvAlways, PTL

-----------------------------------------------------------------------------
(***************************************************************************)
(* The steps.                                                              *)
(***************************************************************************)

\* The place a moved iterator goes to comes before every child after its old
\* place that has stayed, unless it had nothing to find it by.
LEMMA NothingBetween ==
    ASSUME Inv, Moved, Place # Wild, at # Wild, ~ Forgotten
    PROVE  /\ at \in Names
           /\ Place \in items \cup {End}
           /\ Place # End => at < Place
           /\ \A x \in there : at < x => Place # End /\ Place <= x
<1>1. /\ at # End /\ at \notin items /\ ~ fresh
      /\ Place = IF sorted THEN SortedPlace ELSE NamePlace
      /\ Place \in items \cup {End}
  BY WhereMoved DEF Inv
<1>2. at \in Names /\ at \in Nat /\ items \subseteq Nat /\ there \subseteq items
  BY <1>1, NamesAreNumbers DEF Inv, TypeOK
<1>3. CASE ~ sorted
  <2>1. Place = NamePlace
    BY <1>1, <1>3
  <2>2. CASE After(items, at) # {}
    <3>1. Place = First(After(items, at))
      BY <2>1, <2>2 DEF NamePlace
    <3>2. Place \in After(items, at) /\ \A y \in After(items, at) : Place <= y
      BY <1>2, <2>2, <3>1, FirstIsLeast DEF After
    <3> QED
      BY <1>1, <1>2, <3>2 DEF After, End
  <2>3. CASE After(items, at) = {}
    <3>1. items = {} /\ Place = End
      BY <2>1, <2>3 DEF NamePlace
    <3> QED
      BY <1>1, <1>2, <3>1
  <2> QED
    BY <2>2, <2>3
<1>4. CASE sorted
  <2>1. Place = SortedPlace
    BY <1>1, <1>4
  <2>2. at \in memory /\ (Remembered = End \/ Remembered \in items)
    BY <1>1, <1>4 DEF Forgotten
  <2>3. there \subseteq memory /\ memory \subseteq Nat
    BY <1>4, <2>2, NamesAreNumbers DEF Inv, MemoryInv, TypeOK
  <2>4. CASE After(memory, at) = {}
    <3>1. Place = End
      BY <2>1, <2>2, <2>4 DEF SortedPlace, Remembered, FirstOrEnd
    <3>2. \A x \in there : ~ (at < x)
      BY <2>3, <2>4 DEF After
    <3> QED
      BY <1>1, <1>2, <3>1, <3>2
  <2>5. CASE After(memory, at) # {}
    <3>1. Remembered = First(After(memory, at))
      BY <2>2, <2>5 DEF Remembered, FirstOrEnd
    <3>2. /\ Remembered \in After(memory, at)
          /\ \A y \in After(memory, at) : Remembered <= y
      BY <2>3, <2>5, <3>1, FirstIsLeast DEF After
    <3>3. Remembered # End /\ at < Remembered
      BY <2>3, <3>2 DEF After, End
    <3>4. Place = Remembered
      BY <2>1, <2>2, <3>3 DEF SortedPlace
    <3>5. \A x \in there : at < x => Remembered <= x
      BY <2>3, <3>2 DEF After
    <3> QED
      BY <1>1, <1>2, <3>3, <3>4, <3>5
  <2> QED
    BY <2>4, <2>5
<1> QED
  BY <1>3, <1>4

\* The walk forward from p: of A, the listed children after p, it leads over
\* less than k and to the k-th.
LEMMA WalkForward ==
    ASSUME TypeOK, NEW p \in Names, NEW k \in Nat, 0 < k
    PROVE  LET r == Ahead(k, p)
               S == { x \in After(Listed, p) : r = End \/ x < r }
               T == { x \in After(Listed, p) : x <= r }
           IN  /\ IsFiniteSet(S) /\ Cardinality(S) \in Nat /\ Cardinality(S) < k
               /\ r # End => /\ r \in After(Listed, p)
                             /\ IsFiniteSet(T) /\ Cardinality(T) = k
<1> DEFINE A == After(Listed, p)
           r == Ahead(k, p)
           S == { x \in A : r = End \/ x < r }
           T == { x \in A : x <= r }
<1> SUFFICES /\ IsFiniteSet(S) /\ Cardinality(S) \in Nat /\ Cardinality(S) < k
             /\ r # End => r \in A /\ IsFiniteSet(T) /\ Cardinality(T) = k
  OBVIOUS
<1>1. /\ A \subseteq Nat /\ IsFiniteSet(A)
      /\ \/ r = End /\ Cardinality(A) < k
         \/ r \in A /\ Cardinality(UpTo(A, r)) = k
  BY AheadIs
<1> HIDE DEF A, r
<1>2. IsFiniteSet(S) /\ Cardinality(S) \in Nat /\ IsFiniteSet(T)
  BY <1>1, FS_Subset, FS_CardinalityType
<1>3. CASE r = End /\ Cardinality(A) < k
  <2>1. S = A
    BY <1>3
  <2> QED
    BY <1>2, <1>3, <2>1
<1>4. CASE r \in A /\ Cardinality(UpTo(A, r)) = k
  <2>1. r \in Nat /\ r # End
    BY <1>1, <1>4 DEF End
  <2>2. T = UpTo(A, r)
    BY DEF UpTo
  <2>3. r \in T
    BY <1>4, <2>1
  <2>4. ASSUME NEW x \in A PROVE x < r <=> x <= r /\ x # r
    BY <1>1, <2>1
  <2>5. S = T \ {r}
    BY <2>1, <2>4
  <2>6. Cardinality(S) = k - 1
    BY <1>2, <1>4, <2>2, <2>3, <2>5, FS_RemoveElement
  <2> QED
    BY <1>2, <1>4, <2>2, <2>6
<1> QED
  BY <1>1, <1>3, <1>4

LEMMA Forward ==
    ASSUME Inv, NEW d \in Strides, d > 0, Step(d), at' # Wild, ~ Forgotten
    PROVE  StepsForward(d)
<1> DEFINE passed == Stayed(at, at')
           led    == { x \in items : at < x /\ x <= at' }
<1> SUFFICES /\ Cardinality(passed) < d
             /\ at' # End => Cardinality(led) >= d
  BY DEF StepsForward
<1>1. /\ at # Wild /\ at # End /\ at' = Shift(d) /\ d \in Nat
      /\ Place # Wild /\ TypeOK
  BY StridesAreNumbers DEF Step, Shift, Inv
<1>2. /\ at \in Names /\ at \in Nat /\ items \subseteq Nat /\ IsFiniteSet(items)
      /\ Listed \subseteq items
  BY <1>1, FiniteItems, NamesAreNumbers DEF TypeOK
<1>3. /\ passed \subseteq items /\ IsFiniteSet(passed)
      /\ IsFiniteSet(led) /\ Cardinality(led) \in Nat
  BY <1>2, FS_Subset, FS_CardinalityType DEF Stayed
<1>4. CASE ~ Moved
  <2>1. at' = Ahead(d, at)
    BY <1>1, <1>4 DEF Shift, Moved
  <2> DEFINE S == { x \in After(Listed, at) : at' = End \/ x < at' }
             T == { x \in After(Listed, at) : x <= at' }
  <2>2. /\ IsFiniteSet(S) /\ Cardinality(S) \in Nat /\ Cardinality(S) < d
        /\ at' # End => IsFiniteSet(T) /\ Cardinality(T) = d
    BY <1>1, <1>2, <2>1, WalkForward
  <2>3. passed \subseteq S
    BY DEF Stayed, After
  <2>4. T \subseteq led
    BY <1>2 DEF After
  <2>5. Cardinality(passed) <= Cardinality(S) /\ Cardinality(passed) \in Nat
    BY <1>3, <2>2, <2>3, FS_Subset, FS_CardinalityType
  <2>6. at' # End => Cardinality(T) <= Cardinality(led)
    BY <1>3, <2>4, FS_Subset
  <2> QED
    BY <1>1, <1>3, <2>2, <2>5, <2>6
<1>5. CASE Moved
  <2> DEFINE k == d - 1
  <2>1. /\ Place \in items \cup {End}
        /\ Place # End => at < Place
        /\ \A x \in there : at < x => Place # End /\ Place <= x
    BY <1>1, <1>5, NothingBetween
  <2>2. CASE k = 0
    <3>1. at' = Place
      BY <1>1, <1>5, <2>2 DEF Shift
    <3>2. ASSUME NEW x \in passed PROVE FALSE
      <4>1. x \in there /\ at < x /\ (at' = End \/ x < at') /\ x \in Nat
        BY <1>2, <1>3 DEF Stayed
      <4>2. Place # End /\ Place <= x /\ Place \in Nat
        BY <1>2, <2>1, <4>1
      <4> QED
        BY <3>1, <4>1, <4>2
    <3>3. Cardinality(passed) = 0
      BY <3>2, FS_EmptySet
    <3>4. ASSUME at' # End PROVE Cardinality(led) >= 1
      <4>1. at' \in led
        BY <1>2, <2>1, <3>1, <3>4
      <4>2. Cardinality(led) # 0
        BY <1>3, <4>1, FS_EmptySet
      <4> QED
        BY <1>3, <4>2
    <3> QED
      BY <2>2, <3>3, <3>4
  <2>3. CASE k # 0
    <3>1. k \in Nat /\ 0 < k /\ d = k + 1
      BY <1>1, <2>3
    <3>2. at' = Ahead(k, Place)
      BY <1>1, <1>5, <3>1 DEF Shift
    <3> HIDE DEF k
    <3>3. Place # End
      BY <1>1, <3>2 DEF Ahead
    <3>4. Place \in Names /\ Place \in items /\ at < Place /\ Place \in Nat
      BY <1>1, <1>2, <2>1, <3>3 DEF TypeOK
    <3> DEFINE S == { x \in After(Listed, Place) : at' = End \/ x < at' }
               T == { x \in After(Listed, Place) : x <= at' }
    <3>5. /\ IsFiniteSet(S) /\ Cardinality(S) \in Nat /\ Cardinality(S) < k
          /\ at' # End => /\ at' \in After(Listed, Place)
                          /\ IsFiniteSet(T) /\ Cardinality(T) = k
      <4> DEFINE r == Ahead(k, Place)
      <4>1. /\ IsFiniteSet({ x \in After(Listed, Place) : r = End \/ x < r })
            /\ Cardinality({ x \in After(Listed, Place) : r = End \/ x < r }) \in Nat
            /\ Cardinality({ x \in After(Listed, Place) : r = End \/ x < r }) < k
            /\ r # End => /\ r \in After(Listed, Place)
                          /\ IsFiniteSet({ x \in After(Listed, Place) : x <= r })
                          /\ Cardinality({ x \in After(Listed, Place) : x <= r }) = k
        BY <1>1, <3>1, <3>4, WalkForward
      <4> QED
        BY <3>2, <4>1
    <3>6. Place \notin S /\ Place \notin T
      BY <3>4 DEF After
    <3>7. passed \subseteq S \cup {Place}
      <4>1. SUFFICES ASSUME NEW x \in passed, x # Place PROVE x \in S
        OBVIOUS
      <4>2. /\ x \in there /\ x \in Listed /\ at < x /\ x \in Nat
            /\ at' = End \/ x < at'
        BY <1>2, <1>3 DEF Stayed
      <4>3. Place < x
        BY <2>1, <3>4, <4>1, <4>2
      <4> QED
        BY <4>2, <4>3 DEF After
    <3>8. at' # End => T \cup {Place} \subseteq led
      <4>1. SUFFICES ASSUME at' # End, NEW x \in T \cup {Place} PROVE x \in led
        OBVIOUS
      <4>2. at' \in Nat /\ Place < at'
        BY <1>2, <3>5, <4>1 DEF After
      <4>3. x \in items /\ x \in Nat /\ Place <= x /\ x <= at'
        BY <1>2, <3>4, <4>2 DEF After
      <4> QED
        BY <1>2, <3>4, <4>3
    <3>9. /\ IsFiniteSet(S \cup {Place})
          /\ Cardinality(S \cup {Place}) = Cardinality(S) + 1
          /\ at' # End => Cardinality(T \cup {Place}) = k + 1
      BY <3>5, <3>6, FS_AddElement
    <3>10. Cardinality(passed) <= Cardinality(S) + 1 /\ Cardinality(passed) \in Nat
      BY <1>3, <3>7, <3>9, FS_Subset, FS_CardinalityType
    <3>11. at' # End => k + 1 <= Cardinality(led)
      BY <1>3, <3>8, <3>9, FS_Subset
    <3>12. Cardinality(S) + 1 < d
      BY <3>1, <3>5
    <3> QED
      BY <1>3, <3>1, <3>5, <3>10, <3>11, <3>12
  <2> QED
    BY <2>2, <2>3
<1> QED
  BY <1>4, <1>5

LEMMA Backward ==
    ASSUME Inv, NEW d \in Strides, d < 0, Step(d), at' # Wild, ~ Forgotten
    PROVE  StepsBack(-d)
<1> DEFINE k      == -d
           B      == Behinds(Place)
           passed == Stayed(at', at)
<1>1. /\ at # Wild /\ at' = Shift(d) /\ d \in Int /\ k \in Nat /\ 0 < k
      /\ Place # Wild /\ TypeOK
  BY StridesAreNumbers DEF Step, Shift, Inv
<1>2. /\ at \in Names \cup {End} /\ Place \in Names \cup {End}
      /\ items \subseteq Nat /\ Names \subseteq Nat /\ there \subseteq items
      /\ Listed \subseteq items
  BY <1>1, PlaceType, FiniteItems, NamesAreNumbers DEF TypeOK
<1>3. at' = Behind(k, Place)
  BY <1>1 DEF Shift
<1>4. /\ B \subseteq Nat /\ IsFiniteSet(B)
      /\ \/ at' = FirstOrEnd(items) /\ Cardinality(B) < k
         \/ at' \in B /\ Cardinality(From(B, at')) = k
  BY <1>1, <1>2, <1>3, BehindIs
<1>5. Moved => /\ at \in Names /\ at \notin items
               /\ Place # End => at < Place
               /\ \A x \in there : at < x => Place # End /\ Place <= x
  BY <1>1, WhereMoved, NothingBetween
<1>6. ASSUME NEW x \in passed
      PROVE  x \in B /\ x \in Nat /\ at' < x
  <2>1. x \in there /\ x \in Listed /\ at' < x /\ (at = End \/ x < at) /\ x \in Nat
    BY <1>2 DEF Stayed
  <2>2. CASE Place = End
    BY <2>1, <2>2 DEF Behinds
  <2>3. CASE Place # End
    <3>1. at # End /\ x < at
      BY <1>5, <2>1, <2>3 DEF Moved, Place
    <3>2. x < Place
      BY <1>2, <1>5, <2>1, <2>3, <3>1 DEF Moved
    <3> QED
      BY <2>1, <2>3, <3>2 DEF Behinds, Before
  <2> QED
    BY <2>2, <2>3
<1>7. IsFiniteSet(passed) /\ Cardinality(passed) \in Nat /\ Cardinality(B) \in Nat
  BY <1>4, <1>6, FS_Subset, FS_CardinalityType
<1>8. Cardinality(passed) < k
  <2>1. CASE Cardinality(B) < k
    <3>1. Cardinality(passed) <= Cardinality(B)
      BY <1>4, <1>6, FS_Subset
    <3> QED
      BY <1>1, <1>7, <2>1, <3>1
  <2>2. CASE at' \in B /\ Cardinality(From(B, at')) = k
    <3>1. at' \in Nat
      BY <1>4, <2>2
    <3>2. passed \subseteq From(B, at') \ {at'}
      <4>1. SUFFICES ASSUME NEW x \in passed PROVE x \in From(B, at') /\ x # at'
        OBVIOUS
      <4>2. x \in B /\ x \in Nat /\ at' < x
        BY <1>6
      <4> QED
        BY <3>1, <4>2 DEF From
    <3>3. IsFiniteSet(From(B, at')) /\ at' \in From(B, at')
      BY <1>4, <2>2, <3>1, FS_Subset DEF From
    <3>4. /\ IsFiniteSet(From(B, at') \ {at'})
          /\ Cardinality(From(B, at') \ {at'}) = k - 1
      BY <2>2, <3>3, FS_RemoveElement
    <3>5. Cardinality(passed) <= k - 1
      BY <3>2, <3>4, FS_Subset
    <3> QED
      BY <1>1, <1>7, <3>5
  <2> QED
    BY <1>4, <2>1, <2>2
<1>9. \/ at' < at \/ at = End \/ Before(items, at) = {}
      \/ at' \notin there
  <2>1. CASE at' = FirstOrEnd(items)
    <3>1. CASE items = {}
      BY <3>1 DEF Before
    <3>2. CASE items # {}
      <4>1. at' \in items /\ \A y \in items : at' <= y
        BY <1>2, <2>1, <3>2, FirstIsLeast DEF FirstOrEnd
      <4>2. ASSUME at # End, NEW y \in Before(items, at) PROVE at' < at
        <5>1. y \in items /\ y \in Nat /\ y < at /\ at \in Nat /\ at' \in Nat
          BY <1>2, <4>1, <4>2 DEF Before
        <5> QED
          BY <4>1, <5>1
      <4> QED
        BY <4>2
    <3> QED
      BY <3>1, <3>2
  <2>2. CASE at' \in B
    <3>1. SUFFICES ASSUME at # End, at' \in there PROVE at' < at
      OBVIOUS
    <3>2. at' \in Nat /\ at \in Nat
      BY <1>2, <3>1
    <3>3. CASE ~ Moved
      BY <2>2, <3>1, <3>3 DEF Moved, Behinds, Before
    <3>4. CASE Moved
      <4>1. at' # at
        BY <1>2, <1>5, <3>1, <3>4
      <4>2. ~ (at < at')
        <5>1. SUFFICES ASSUME at < at' PROVE FALSE
          OBVIOUS
        <5>2. Place # End /\ Place <= at' /\ Place \in Nat
          BY <1>2, <1>5, <3>1, <3>4, <5>1
        <5>3. at' < Place
          BY <2>2, <5>2 DEF Behinds, Before
        <5> QED
          BY <3>2, <5>2, <5>3
      <4> QED
        BY <3>2, <4>1, <4>2
    <3> QED
      BY <3>3, <3>4
  <2> QED
    BY <1>4, <2>1, <2>2
<1> QED
  BY <1>8, <1>9 DEF StepsBack

\* operator++, operator+= and operator-- pass over no child that stays, and
\* meet none twice but what has come since, whatever is removed or inserted
\* between two steps.
THEOREM SweepsTheDirectory == Spec => Sweeps
<1>1. Inv => \A d \in Strides : Step(d) /\ at' # Wild =>
                \/ Forgotten
                \/ IF d > 0 THEN StepsForward(d) ELSE StepsBack(-d)
  <2>1. \A d \in Strides : d > 0 \/ d < 0
    BY StridesAreNumbers
  <2> QED
    BY <2>1, Forward, Backward
<1> QED
  BY <1>1, InvAlways, PTL DEF Sweeps
=============================================================================
