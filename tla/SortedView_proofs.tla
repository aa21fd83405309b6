------------------------- MODULE SortedView_proofs -------------------------
(***************************************************************************)
(* The two collections of a sorted view have the same children, and a read *)
(* of it emits them in order: for every set of names and of values, every  *)
(* number of changes, and whatever events and reads interleave.            *)
(*                                                                         *)
(* The argument about std::set: a search passes the entries on both sides  *)
(* of the place it ends at, whatever the shape of the tree (BothPassed).   *)
(* When the entries it goes right of are a prefix, that is when the set is *)
(* in order, it ends at the boundary (EndSplits).  So a child is inserted  *)
(* at its place (Inserted) and erased alone (Erased), and the second       *)
(* erasure, of a child that is gone, finds none (NoneErased).              *)
(***************************************************************************)
EXTENDS SortedView, FiniteSetTheorems, SequenceTheorems, TLAPS

\* What is known of a set that nothing has put out of order: its entries are
\* in order, their contexts are in Items, and no name is there twice.
NamesIn(s) == { s[i].name : i \in DOMAIN s }
Once(s) == \A i, j \in DOMAIN s : s[i].name = s[j].name => i = j
Current(s) == \A i \in DOMAIN s : s[i].current
Fine(at, s) == Ordered(at, s) /\ Once(s) /\ Current(s)
InStep == sound => Fine(key, itemsSorted) /\ NamesIn(itemsSorted) = items

\* Nothing is left to find when no one reads.
Held == reader = "none" => toFind = {}

\* While the delegate is watched its children are files, the view has no other
\* children, and what it shows its delegate shows or the reading will meet.
Shown == ~renamed =>
    /\ base \ baseMarked \subseteq items \ marked
    /\ active => /\ base \subseteq files
                 /\ items \subseteq base
                 /\ items \ marked \subseteq (base \ baseMarked) \cup toFind

Inv == TypeOK /\ Held /\ InStep /\ Shown

----------------------------------------------------------------------------
(* Searches.                                                               *)

LEMMA SizesAreNumbers == MaxEntries \in Nat /\ Cardinality(Names) \in Nat
  BY ViewAssumption, FS_CardinalityType DEF MaxEntries

LEMMA BothPassed ==
  ASSUME NEW n \in 0..MaxEntries, NEW tree \in Trees[n], NEW p \in 1..(n + 1)
  PROVE  /\ tree[p] \subseteq 1..n
         /\ p > 1 => p - 1 \in tree[p]
         /\ p <= n => p \in tree[p]
  <1>1. n \in Nat
    BY SizesAreNumbers
  <1>2. PICK d : tree = Ways(d, n)
    BY DEF Trees
  <1>3. tree[p] = Passed(d, n, p)
    BY <1>2 DEF Ways
  <1> QED
    BY <1>1, <1>3 DEF Passed

LEMMA EndSplits ==
  ASSUME NEW n \in 0..MaxEntries, NEW tree \in Trees[n], NEW right \in SUBSET (1..n),
         \A i, j \in 1..n : i < j /\ j \in right => i \in right,
         NEW p \in Ends(tree, n, right)
  PROVE  /\ p \in 1..(n + 1)
         /\ \A j \in 1..n : j < p <=> j \in right
  <1>1. n \in Nat
    BY SizesAreNumbers
  <1>2. p \in 1..(n + 1) /\ \A m \in tree[p] : m < p <=> m \in right
    BY DEF Ends
  <1>3. p > 1 => p - 1 \in right
    BY <1>1, <1>2, BothPassed
  <1>4. p <= n => p \notin right
    BY <1>1, <1>2, BothPassed
  <1>5. ASSUME NEW j \in 1..n, j < p
        PROVE  j \in right
    <2>1. p > 1 /\ p - 1 \in 1..n /\ (j < p - 1 \/ j = p - 1)
      BY <1>1, <1>2, <1>5
    <2> QED
      BY <1>3, <2>1
  <1>6. ASSUME NEW j \in 1..n, j \in right
        PROVE  j < p
    <2>1. SUFFICES ASSUME ~(j < p)
                   PROVE  FALSE
      OBVIOUS
    <2>2. p \in 1..n /\ (p < j \/ p = j)
      BY <1>1, <1>2, <2>1
    <2> QED
      BY <1>4, <1>6, <2>2
  <1> QED
    BY <1>2, <1>5, <1>6

----------------------------------------------------------------------------
(* The order.                                                              *)

LEMMA LessIsAnOrder ==
  ASSUME lazy \in BOOLEAN, NEW at \in [Names -> Keys],
         NEW x \in Entry, NEW y \in Entry, NEW z \in Entry
  PROVE  /\ ~Less(at, x, x)
         /\ Less(at, x, y) => ~Less(at, y, x)
         /\ Less(at, x, y) /\ Less(at, y, z) => Less(at, x, z)
         /\ x.name # y.name => Less(at, x, y) \/ Less(at, y, x)
  <1>1. /\ x.name \in Int /\ y.name \in Int /\ z.name \in Int
        /\ x.created \in BOOLEAN /\ y.created \in BOOLEAN /\ z.created \in BOOLEAN
        /\ at[x.name] \in Int /\ at[y.name] \in Int /\ at[z.name] \in Int
    BY ViewAssumption DEF Entry
  <1> QED
    BY <1>1 DEF Less

\* An entry is on one side of every entry of another name.
LEMMA Sides ==
  ASSUME lazy \in BOOLEAN, NEW at \in [Names -> Keys], NEW s \in Seq(Entry),
         Ordered(at, s), NEW x \in Entry
  PROVE  /\ Smaller(at, s, x) \subseteq 1..Len(s)
         /\ NotGreater(at, s, x) \subseteq 1..Len(s)
         /\ \A i, j \in 1..Len(s) :
              i < j /\ j \in Smaller(at, s, x) => i \in Smaller(at, s, x)
         /\ \A i, j \in 1..Len(s) :
              i < j /\ j \in NotGreater(at, s, x) => i \in NotGreater(at, s, x)
         /\ Smaller(at, s, x) \subseteq NotGreater(at, s, x)
         /\ \A i \in 1..Len(s) : s[i].name # x.name /\ i \in NotGreater(at, s, x)
                                   => i \in Smaller(at, s, x)
  <1>1. DOMAIN s = 1..Len(s) /\ \A i \in 1..Len(s) : s[i] \in Entry
    OBVIOUS
  <1>2. \A i, j \in 1..Len(s) : i < j => Less(at, s[i], s[j])
    BY <1>1 DEF Ordered
  <1>3. ASSUME NEW i \in 1..Len(s), NEW j \in 1..Len(s), i < j
        PROVE  /\ j \in Smaller(at, s, x) => i \in Smaller(at, s, x)
               /\ j \in NotGreater(at, s, x) => i \in NotGreater(at, s, x)
    <2>1. Less(at, s[i], s[j]) /\ s[i] \in Entry /\ s[j] \in Entry
      BY <1>1, <1>2, <1>3
    <2>2. Less(at, s[j], x) => Less(at, s[i], x)
      BY <2>1, LessIsAnOrder
    <2>3. Less(at, x, s[i]) => Less(at, x, s[j])
      BY <2>1, LessIsAnOrder
    <2> QED
      BY <1>1, <2>2, <2>3 DEF Smaller, NotGreater
  <1>4. ASSUME NEW i \in 1..Len(s)
        PROVE  /\ i \in Smaller(at, s, x) => i \in NotGreater(at, s, x)
               /\ s[i].name # x.name /\ i \in NotGreater(at, s, x) => i \in Smaller(at, s, x)
    <2>1. s[i] \in Entry
      BY <1>1
    <2>2. Less(at, s[i], x) => ~Less(at, x, s[i])
      BY <2>1, LessIsAnOrder
    <2>3. s[i].name # x.name => Less(at, s[i], x) \/ Less(at, x, s[i])
      BY <2>1, LessIsAnOrder
    <2> QED
      BY <1>1, <2>2, <2>3 DEF Smaller, NotGreater
  <1> QED
    BY <1>1, <1>3, <1>4 DEF Smaller, NotGreater

----------------------------------------------------------------------------
(* Insertion.                                                              *)

LEMMA InsertAtIs ==
  ASSUME NEW S, NEW s \in Seq(S), NEW x \in S, NEW p \in 1..(Len(s) + 1)
  PROVE  /\ InsertAt(s, p, x) \in Seq(S)
         /\ Len(InsertAt(s, p, x)) = Len(s) + 1
         /\ \A i \in 1..(Len(s) + 1) :
              InsertAt(s, p, x)[i] = IF i < p THEN s[i] ELSE IF i = p THEN x ELSE s[i - 1]
  <1> DEFINE a == SubSeq(s, 1, p - 1)
             b == SubSeq(s, p, Len(s))
  <1>1. Len(s) \in Nat /\ DOMAIN s = 1..Len(s)
    OBVIOUS
  <1>2. /\ a \in Seq(S) /\ Len(a) = p - 1
        /\ \A i \in 1..(p - 1) : a[i] = s[i]
    BY <1>1
  <1>3. /\ b \in Seq(S) /\ Len(b) = Len(s) - p + 1
        /\ \A i \in 1..(Len(s) - p + 1) : b[i] = s[p + i - 1]
    BY <1>1
  <1> HIDE DEF a, b
  <1> DEFINE c == a \o << x >>
  <1>4. /\ c \in Seq(S) /\ Len(c) = p
        /\ \A i \in 1..p : c[i] = IF i < p THEN s[i] ELSE x
    BY <1>1, <1>2
  <1> HIDE DEF c
  <1>5. /\ c \o b \in Seq(S) /\ Len(c \o b) = Len(s) + 1
        /\ \A i \in 1..(Len(s) + 1) : (c \o b)[i] = IF i <= p THEN c[i] ELSE b[i - p]
    <2>1. /\ c \o b \in Seq(S) /\ Len(c \o b) = Len(c) + Len(b)
          /\ \A i \in 1..(Len(c) + Len(b)) :
               (c \o b)[i] = IF i <= Len(c) THEN c[i] ELSE b[i - Len(c)]
      BY <1>3, <1>4, ConcatProperties
    <2>2. Len(c) = p /\ Len(c) + Len(b) = Len(s) + 1
      BY <1>1, <1>3, <1>4
    <2> QED
      BY <2>1, <2>2
  <1>6. ASSUME NEW i \in 1..(Len(s) + 1)
        PROVE  (c \o b)[i] = IF i < p THEN s[i] ELSE IF i = p THEN x ELSE s[i - 1]
    <2>1. CASE i <= p
      BY <1>1, <1>4, <1>5, <2>1
    <2>2. CASE i > p
      <3>1. i - p \in 1..(Len(s) - p + 1) /\ p + (i - p) - 1 = i - 1
        BY <1>1, <2>2
      <3> QED
        BY <1>1, <1>3, <1>5, <2>2, <3>1
    <2>3. i <= p \/ i > p
      BY <1>1
    <2> QED
      BY <2>1, <2>2, <2>3
  <1>7. InsertAt(s, p, x) = c \o b
    BY DEF InsertAt, a, b, c
  <1> QED
    BY <1>5, <1>6, <1>7

\* Wherever the search ends, the entries stay entries.
LEMMA InsertionsAreSets ==
  ASSUME NEW at, NEW s \in Seq(Entry), NEW x \in Entry, NEW r \in Insertions(at, s, x)
  PROVE  r \in Seq(Entry)
  <1>1. PICK tree \in Trees[Len(s)] : \E p \in Ends(tree, Len(s), NotGreater(at, s, x)) :
            r = IF p = 1 \/ Less(at, s[p - 1], x) THEN InsertAt(s, p, x) ELSE s
    BY DEF Insertions
  <1>2. PICK p \in 1..(Len(s) + 1) :
            r = IF p = 1 \/ Less(at, s[p - 1], x) THEN InsertAt(s, p, x) ELSE s
    BY <1>1 DEF Ends
  <1> QED
    BY <1>2, InsertAtIs

\* A child of a name that is not there is inserted between the entries that
\* are smaller and those that are greater.
LEMMA Inserted ==
  ASSUME lazy \in BOOLEAN, NEW at \in [Names -> Keys],
         NEW s \in Seq(Entry), Fine(at, s), Len(s) <= MaxEntries,
         NEW x \in Entry, x.current, x.name \notin NamesIn(s),
         NEW r \in Insertions(at, s, x)
  PROVE  /\ Fine(at, r) /\ NamesIn(r) = NamesIn(s) \cup {x.name}
         /\ \A i \in DOMAIN r : r[i].name = x.name => r[i] = x
  <1> DEFINE n == Len(s)
             right == NotGreater(at, s, x)
  <1>1. n \in Nat /\ DOMAIN s = 1..n /\ n \in 0..MaxEntries
    BY SizesAreNumbers
  <1>2. Ordered(at, s)
    BY DEF Fine
  <1>3. /\ right \in SUBSET (1..n)
        /\ \A i, j \in 1..n : i < j /\ j \in right => i \in right
    BY <1>2, Sides
  <1>4. PICK tree \in Trees[n] : \E p \in Ends(tree, n, right) :
            r = IF p = 1 \/ Less(at, s[p - 1], x) THEN InsertAt(s, p, x) ELSE s
    BY DEF Insertions
  <1>5. PICK p \in Ends(tree, n, right) :
            r = IF p = 1 \/ Less(at, s[p - 1], x) THEN InsertAt(s, p, x) ELSE s
    BY <1>4
  <1> HIDE DEF n, right
  <1>6. p \in 1..(n + 1) /\ \A j \in 1..n : j < p <=> j \in right
    BY <1>1, <1>3, EndSplits
  <1>7. \A j \in 1..n : s[j] \in Entry /\ s[j].name # x.name
    BY <1>1 DEF NamesIn
  <1>8. ASSUME NEW j \in 1..n
        PROVE  /\ j < p => Less(at, s[j], x)
               /\ ~(j < p) => Less(at, x, s[j])
    <2>1. s[j].name # x.name /\ j \in right => j \in Smaller(at, s, x)
      BY <1>2, Sides DEF n, right
    <2> QED
      BY <1>1, <1>6, <1>7, <2>1 DEF Smaller, NotGreater, right
  <1>9. r = InsertAt(s, p, x)
    <2>1. p > 1 => p - 1 \in 1..n /\ p - 1 < p
      BY <1>1, <1>6
    <2>2. p = 1 \/ p > 1
      BY <1>1, <1>6
    <2> QED
      BY <1>5, <1>8, <2>1, <2>2
  <1>10. /\ r \in Seq(Entry) /\ Len(r) = n + 1 /\ DOMAIN r = 1..(n + 1)
         /\ \A i \in 1..(n + 1) : r[i] = IF i < p THEN s[i] ELSE IF i = p THEN x ELSE s[i - 1]
    <2>1. p \in 1..(Len(s) + 1)
      BY <1>6 DEF n
    <2>2. /\ InsertAt(s, p, x) \in Seq(Entry) /\ Len(InsertAt(s, p, x)) = Len(s) + 1
          /\ \A i \in 1..(Len(s) + 1) :
               InsertAt(s, p, x)[i] = IF i < p THEN s[i] ELSE IF i = p THEN x ELSE s[i - 1]
      BY <2>1, InsertAtIs
    <2>3. r \in Seq(Entry) /\ Len(r) = n + 1
      BY <1>9, <2>2 DEF n
    <2>4. DOMAIN r = 1..(n + 1)
      BY <2>3
    <2> QED
      BY <1>9, <2>2, <2>3, <2>4 DEF n
  <1>11. ASSUME NEW i \in 1..(n + 1)
         PROVE  \/ i < p /\ i \in 1..n /\ r[i] = s[i]
                \/ i = p /\ r[i] = x
                \/ p < i /\ i - 1 \in 1..n /\ ~(i - 1 < p) /\ r[i] = s[i - 1]
    BY <1>1, <1>6, <1>10
  <1>12. ASSUME NEW i \in 1..n
         PROVE  \E j \in 1..(n + 1) : r[j] = s[i]
    <2>1. i < p => r[i] = s[i]
      BY <1>1, <1>6, <1>10
    <2>2. ~(i < p) => i + 1 \in 1..(n + 1) /\ r[i + 1] = s[i]
      BY <1>1, <1>6, <1>10
    <2> QED
      BY <1>1, <2>1, <2>2
  <1>13. Ordered(at, r)
    <2> SUFFICES ASSUME NEW i \in 1..(n + 1), NEW j \in 1..(n + 1), i < j
                 PROVE  Less(at, r[i], r[j])
      BY <1>10 DEF Ordered
    <2>1. \A k, l \in 1..n : k < l => Less(at, s[k], s[l])
      BY <1>1, <1>2 DEF Ordered
    <2>2. CASE j < p
      BY <1>1, <1>6, <1>11, <2>1, <2>2
    <2>3. CASE j = p
      BY <1>1, <1>6, <1>8, <1>11, <2>3
    <2>4. CASE p < j /\ i < p
      <3>1. i \in 1..n /\ j - 1 \in 1..n /\ (i < j - 1 \/ i = j - 1)
        BY <1>1, <1>6, <2>4
      <3>2. r[i] = s[i] /\ r[j] = s[j - 1] /\ ~(j - 1 < p)
        BY <1>1, <1>6, <1>10, <2>4
      <3> QED
        BY <1>1, <1>6, <2>1, <2>4, <3>1, <3>2
    <2>5. CASE i = p
      BY <1>1, <1>6, <1>8, <1>11, <2>5
    <2>6. CASE p < i
      <3>1. i - 1 \in 1..n /\ j - 1 \in 1..n /\ i - 1 < j - 1
        BY <1>1, <1>6, <2>6
      <3>2. r[i] = s[i - 1] /\ r[j] = s[j - 1]
        BY <1>1, <1>6, <1>10, <2>6
      <3> QED
        BY <2>1, <3>1, <3>2
    <2> QED
      BY <1>1, <1>6, <2>2, <2>3, <2>4, <2>5, <2>6
  <1>14. Once(r)
    <2> SUFFICES ASSUME NEW i \in 1..(n + 1), NEW j \in 1..(n + 1), i < j,
                        r[i].name = r[j].name
                 PROVE  FALSE
      BY <1>1, <1>10 DEF Once
    <2>1. \A k, l \in 1..n : s[k].name = s[l].name => k = l
      BY <1>1 DEF Fine, Once
    <2> QED
      BY <1>1, <1>6, <1>7, <1>11, <2>1
  <1>15. Current(r)
    <2>1. \A i \in 1..n : s[i].current
      BY <1>1 DEF Fine, Current
    <2> QED
      BY <1>10, <1>11, <2>1 DEF Current
  <1>16. NamesIn(r) = NamesIn(s) \cup {x.name}
    <2>1. NamesIn(r) \subseteq NamesIn(s) \cup {x.name}
      BY <1>1, <1>10, <1>11 DEF NamesIn
    <2>2. NamesIn(s) \subseteq NamesIn(r)
      BY <1>1, <1>10, <1>12 DEF NamesIn
    <2>3. p \in 1..(n + 1) /\ r[p] = x
      BY <1>1, <1>6, <1>10
    <2> QED
      BY <1>10, <2>1, <2>2, <2>3 DEF NamesIn
  <1>17. \A i \in DOMAIN r : r[i].name = x.name => r[i] = x
    BY <1>7, <1>10, <1>11
  <1> QED
    BY <1>13, <1>14, <1>15, <1>16, <1>17 DEF Fine

----------------------------------------------------------------------------
(* Erasure.                                                                *)

Cut(s, p, q) == SubSeq(s, 1, p - 1) \o SubSeq(s, q, Len(s))
CutBy(at, s, x, r, tree) ==
    \E p \in Ends(tree, Len(s), Smaller(at, s, x)), q \in Ends(tree, Len(s), NotGreater(at, s, x)) :
        r = Cut(s, p, q)

LEMMA CutIs ==
  ASSUME NEW s \in Seq(Entry), NEW p \in 1..(Len(s) + 1), NEW q \in 1..(Len(s) + 1)
  PROVE  /\ Cut(s, p, q) \in Seq(Entry)
         /\ Len(Cut(s, p, q)) = p - 1 + (Len(s) - q + 1)
         /\ \A i \in 1..Len(Cut(s, p, q)) :
              Cut(s, p, q)[i] = IF i < p THEN s[i] ELSE s[i - p + q]
  <1> DEFINE a == SubSeq(s, 1, p - 1)
             b == SubSeq(s, q, Len(s))
  <1>1. Len(s) \in Nat /\ DOMAIN s = 1..Len(s)
    OBVIOUS
  <1>2. /\ a \in Seq(Entry) /\ Len(a) = p - 1
        /\ \A i \in 1..(p - 1) : a[i] = s[i]
    BY <1>1
  <1>3. /\ b \in Seq(Entry) /\ Len(b) = Len(s) - q + 1
        /\ \A i \in 1..(Len(s) - q + 1) : b[i] = s[q + i - 1]
    BY <1>1
  <1> HIDE DEF a, b
  <1>4. /\ a \o b \in Seq(Entry) /\ Len(a \o b) = Len(a) + Len(b)
        /\ \A i \in 1..(Len(a) + Len(b)) :
              (a \o b)[i] = IF i <= Len(a) THEN a[i] ELSE b[i - Len(a)]
    BY <1>2, <1>3, ConcatProperties
  <1>5. Len(a \o b) = p - 1 + (Len(s) - q + 1)
    BY <1>2, <1>3, <1>4
  <1>6. ASSUME NEW i \in 1..Len(a \o b)
        PROVE  (a \o b)[i] = IF i < p THEN s[i] ELSE s[i - p + q]
    <2>1. (a \o b)[i] = IF i <= p - 1 THEN a[i] ELSE b[i - (p - 1)]
      BY <1>2, <1>4
    <2>2. CASE i < p
      BY <1>1, <1>2, <2>1, <2>2
    <2>3. CASE ~(i < p)
      <3>1. /\ i - (p - 1) \in 1..(Len(s) - q + 1)
            /\ q + (i - (p - 1)) - 1 = i - p + q
            /\ ~(i <= p - 1)
        BY <1>1, <1>5, <2>3
      <3> QED
        BY <1>3, <2>1, <2>3, <3>1
    <2> QED
      BY <2>2, <2>3
  <1> QED
    BY <1>4, <1>5, <1>6 DEF a, b, Cut

LEMMA ErasuresAreCuts ==
  ASSUME NEW at, NEW s \in Seq(Entry), NEW x \in Entry, NEW r \in Erasures(at, s, x)
  PROVE  \E tree \in Trees[Len(s)] : CutBy(at, s, x, r, tree)
  <1>1. PICK w \in EqualRanges(at, s, x) :
            r = SubSeq(s, 1, w[1] - 1) \o SubSeq(s, w[2], Len(s))
    BY DEF Erasures
  <1>2. PICK tree \in Trees[Len(s)] :
            w \in Ends(tree, Len(s), Smaller(at, s, x)) \X Ends(tree, Len(s), NotGreater(at, s, x))
    BY DEF EqualRanges
  <1>3. /\ w[1] \in Ends(tree, Len(s), Smaller(at, s, x))
        /\ w[2] \in Ends(tree, Len(s), NotGreater(at, s, x))
    BY <1>2
  <1> QED
    BY <1>1, <1>3 DEF CutBy, Cut

\* Wherever the searches end, the entries stay entries.
LEMMA ErasuresAreSets ==
  ASSUME NEW at, NEW s \in Seq(Entry), NEW x \in Entry, NEW r \in Erasures(at, s, x)
  PROVE  r \in Seq(Entry)
  <1>1. PICK tree \in Trees[Len(s)] : CutBy(at, s, x, r, tree)
    BY ErasuresAreCuts
  <1>2. PICK p \in 1..(Len(s) + 1), q \in 1..(Len(s) + 1) : r = Cut(s, p, q)
    BY <1>1 DEF CutBy, Ends
  <1> QED
    BY <1>2, CutIs

EntriesOf(s) == { s[i] : i \in DOMAIN s }

\* Of a set in order the child that is looked for is erased, and no other.
LEMMA Erased ==
  ASSUME lazy \in BOOLEAN, NEW at \in [Names -> Keys],
         NEW s \in Seq(Entry), Fine(at, s), Len(s) <= MaxEntries,
         NEW x \in EntriesOf(s), NEW r \in Erasures(at, s, x)
  PROVE  /\ Fine(at, r) /\ Len(r) = Len(s) - 1
         /\ NamesIn(r) = NamesIn(s) \ {x.name}
  <1>0. PICK e \in DOMAIN s : x = s[e]
    BY DEF EntriesOf
  <1> DEFINE n == Len(s)
             left == Smaller(at, s, s[e])
             right == NotGreater(at, s, s[e])
  <1>1. n \in Nat /\ DOMAIN s = 1..n /\ n \in 0..MaxEntries /\ e \in 1..n /\ s[e] \in Entry
    BY SizesAreNumbers
  <1>2. Ordered(at, s)
    BY DEF Fine
  <1>3. PICK tree \in Trees[n] : CutBy(at, s, s[e], r, tree)
    BY <1>0, <1>1, ErasuresAreCuts
  <1>4. PICK p \in Ends(tree, n, left), q \in Ends(tree, n, right) : r = Cut(s, p, q)
    BY <1>3 DEF CutBy
  <1>5. /\ left \in SUBSET (1..n) /\ right \in SUBSET (1..n)
        /\ \A i, j \in 1..n : i < j /\ j \in left => i \in left
        /\ \A i, j \in 1..n : i < j /\ j \in right => i \in right
    BY <1>1, <1>2, Sides
  <1> HIDE DEF left, right
  <1>6. /\ p \in 1..(n + 1) /\ \A j \in 1..n : j < p <=> j \in left
        /\ q \in 1..(n + 1) /\ \A j \in 1..n : j < q <=> j \in right
    BY <1>1, <1>5, EndSplits
  <1>7. ASSUME NEW j \in 1..n
        PROVE  (j \in left <=> j < e) /\ (j \in right <=> j <= e)
    <2>1. s[j] \in Entry
      BY <1>1
    <2>2. j < e => Less(at, s[j], s[e])
      BY <1>1, <1>2 DEF Ordered
    <2>3. e < j => Less(at, s[e], s[j])
      BY <1>1, <1>2 DEF Ordered
    <2>4. ~Less(at, s[e], s[e])
      BY <1>1, LessIsAnOrder
    <2>5. ~(Less(at, s[j], s[e]) /\ Less(at, s[e], s[j]))
      BY <1>1, <2>1, LessIsAnOrder
    <2>6. j < e \/ j = e \/ e < j
      BY <1>1
    <2> QED
      BY <1>1, <2>2, <2>3, <2>4, <2>5, <2>6 DEF left, right, Smaller, NotGreater
  <1>8. p = e
    BY <1>1, <1>6, <1>7
  <1>9. q = e + 1
    BY <1>1, <1>6, <1>7
  <1>10. /\ r \in Seq(Entry) /\ Len(r) = p - 1 + (Len(s) - q + 1)
         /\ \A i \in 1..Len(r) : r[i] = IF i < p THEN s[i] ELSE s[i - p + q]
    <2>1. p \in 1..(Len(s) + 1) /\ q \in 1..(Len(s) + 1)
      BY <1>6
    <2>2. /\ Cut(s, p, q) \in Seq(Entry) /\ Len(Cut(s, p, q)) = p - 1 + (Len(s) - q + 1)
          /\ \A i \in 1..Len(Cut(s, p, q)) :
               Cut(s, p, q)[i] = IF i < p THEN s[i] ELSE s[i - p + q]
      BY <2>1, CutIs
    <2> QED
      BY <1>4, <2>2
  <1> HIDE DEF n
  <1>11. Len(r) = n - 1 /\ DOMAIN r = 1..(n - 1)
    <2>1. p - 1 + (Len(s) - q + 1) = n - 1
      BY <1>1, <1>8, <1>9 DEF n
    <2> QED
      BY <1>10, <2>1
  <1>12. ASSUME NEW i \in 1..(n - 1)
         PROVE  \/ i < e /\ i \in 1..n /\ r[i] = s[i]
                \/ e <= i /\ i + 1 \in 1..n /\ r[i] = s[i + 1]
    <2>1. r[i] = IF i < e THEN s[i] ELSE s[i - e + (e + 1)]
      BY <1>8, <1>9, <1>10, <1>11
    <2>2. i - e + (e + 1) = i + 1
      BY <1>1
    <2> QED
      BY <1>1, <2>1, <2>2
  <1>13. Ordered(at, r)
    <2> SUFFICES ASSUME NEW i \in 1..(n - 1), NEW j \in 1..(n - 1), i < j
                 PROVE  Less(at, r[i], r[j])
      BY <1>11 DEF Ordered
    <2>1. \A k, l \in 1..n : k < l => Less(at, s[k], s[l])
      BY <1>1, <1>2 DEF Ordered
    <2> QED
      BY <1>1, <1>12, <2>1
  <1>14. Once(r)
    <2> SUFFICES ASSUME NEW i \in 1..(n - 1), NEW j \in 1..(n - 1), i < j,
                        r[i].name = r[j].name
                 PROVE  FALSE
      BY <1>1, <1>11 DEF Once
    <2>1. \A k, l \in 1..n : s[k].name = s[l].name => k = l
      BY <1>1 DEF Fine, Once
    <2> QED
      BY <1>1, <1>12, <2>1
  <1>15. Current(r)
    <2>1. \A i \in 1..n : s[i].current
      BY <1>1 DEF Fine, Current
    <2> QED
      BY <1>11, <1>12, <2>1 DEF Current
  <1>16. NamesIn(r) = NamesIn(s) \ {s[e].name}
    <2>1. \A k, l \in 1..n : s[k].name = s[l].name => k = l
      BY <1>1 DEF Fine, Once
    <2>2. ASSUME NEW i \in 1..(n - 1)
          PROVE  r[i].name \in NamesIn(s) /\ r[i].name # s[e].name
      <3>1. PICK k \in 1..n : k # e /\ r[i] = s[k]
        BY <1>1, <1>12
      <3> QED
        BY <1>1, <2>1, <3>1 DEF NamesIn
    <2>3. ASSUME NEW k \in 1..n, k # e
          PROVE  \E i \in 1..(n - 1) : r[i] = s[k]
      <3>1. CASE k < e
        <4>1. k \in 1..(n - 1) /\ ~(e <= k)
          BY <1>1, <3>1
        <4> QED
          BY <1>12, <4>1
      <3>2. CASE e < k
        <4>1. k - 1 \in 1..(n - 1) /\ ~(k - 1 < e) /\ (k - 1) + 1 = k
          BY <1>1, <3>2
        <4> QED
          BY <1>12, <4>1
      <3> QED
        BY <1>1, <2>3, <3>1, <3>2
    <2>4. NamesIn(r) \subseteq NamesIn(s) \ {s[e].name}
      BY <1>11, <2>2 DEF NamesIn
    <2>5. NamesIn(s) \ {s[e].name} \subseteq NamesIn(r)
      BY <1>1, <1>11, <2>3 DEF NamesIn
    <2> QED
      BY <2>4, <2>5
  <1> QED
    BY <1>0, <1>11, <1>13, <1>14, <1>15, <1>16 DEF Fine, n

\* A child that is not there is not found: both searches end at its place.
LEMMA NoneErased ==
  ASSUME lazy \in BOOLEAN, NEW at \in [Names -> Keys],
         NEW s \in Seq(Entry), Ordered(at, s), Len(s) <= MaxEntries,
         NEW x \in Entry, x.name \notin NamesIn(s), NEW r \in Erasures(at, s, x)
  PROVE  r = s
  <1> DEFINE n == Len(s)
             left == Smaller(at, s, x)
             right == NotGreater(at, s, x)
  <1>1. n \in Nat /\ DOMAIN s = 1..n /\ n \in 0..MaxEntries
    BY SizesAreNumbers
  <1>2. PICK tree \in Trees[n] : CutBy(at, s, x, r, tree)
    BY ErasuresAreCuts
  <1>3. PICK p \in Ends(tree, n, left), q \in Ends(tree, n, right) : r = Cut(s, p, q)
    BY <1>2 DEF CutBy
  <1>4. /\ left \in SUBSET (1..n) /\ right \in SUBSET (1..n)
        /\ \A i, j \in 1..n : i < j /\ j \in left => i \in left
        /\ \A i, j \in 1..n : i < j /\ j \in right => i \in right
    BY Sides
  <1>5. \A j \in 1..n : j \in left <=> j \in right
    <2>1. \A j \in 1..n : s[j].name # x.name
      BY <1>1 DEF NamesIn
    <2> QED
      BY <2>1, Sides
  <1> HIDE DEF left, right
  <1>6. /\ p \in 1..(n + 1) /\ \A j \in 1..n : j < p <=> j \in left
        /\ q \in 1..(n + 1) /\ \A j \in 1..n : j < q <=> j \in right
    BY <1>1, <1>4, EndSplits
  <1>7. p = q
    <2>1. ~(p < q)
      BY <1>1, <1>5, <1>6
    <2>2. ~(q < p)
      BY <1>1, <1>5, <1>6
    <2> QED
      BY <1>1, <1>6, <2>1, <2>2
  <1>8. /\ r \in Seq(Entry) /\ Len(r) = p - 1 + (Len(s) - q + 1)
        /\ \A i \in 1..Len(r) : r[i] = IF i < p THEN s[i] ELSE s[i - p + q]
    <2>1. p \in 1..(Len(s) + 1) /\ q \in 1..(Len(s) + 1)
      BY <1>6
    <2>2. /\ Cut(s, p, q) \in Seq(Entry) /\ Len(Cut(s, p, q)) = p - 1 + (Len(s) - q + 1)
          /\ \A i \in 1..Len(Cut(s, p, q)) :
               Cut(s, p, q)[i] = IF i < p THEN s[i] ELSE s[i - p + q]
      BY <2>1, CutIs
    <2> QED
      BY <1>3, <2>2
  <1>9. Len(r) = Len(s)
    BY <1>1, <1>6, <1>7, <1>8
  <1>10. ASSUME NEW i \in 1..Len(r)
         PROVE  r[i] = s[i]
    <2>1. i - p + q = i
      BY <1>1, <1>6, <1>7, <1>9
    <2> QED
      BY <1>8, <2>1
  <1> QED
    BY <1>8, <1>9, <1>10, SeqEqual

----------------------------------------------------------------------------
(* The handlers of the view.                                               *)

\* Where no name is there twice, a set has as many entries as names.
LEMMA SizeIsCount ==
  ASSUME NEW s \in Seq(Entry), Once(s)
  PROVE  /\ Len(s) = Cardinality(NamesIn(s))
         /\ Len(s) <= MaxEntries
  <1> DEFINE f == [ i \in 1..Len(s) |-> s[i].name ]
  <1>1. Len(s) \in Nat /\ DOMAIN s = 1..Len(s) /\ \A i \in 1..Len(s) : s[i] \in Entry
    OBVIOUS
  <1>2. f \in Injection(1..Len(s), NamesIn(s))
    BY <1>1 DEF NamesIn, Once, Injection, IsInjective
  <1>3. f \in Surjection(1..Len(s), NamesIn(s))
    BY <1>1 DEF NamesIn, Surjection
  <1>4. ExistsBijection(1..Len(s), NamesIn(s))
    BY <1>2, <1>3 DEF Bijection, ExistsBijection
  <1>5. Len(s) = Cardinality(NamesIn(s))
    BY <1>1, <1>4, FS_CountingElements
  <1>6. NamesIn(s) \subseteq Names
    BY <1>1 DEF NamesIn, Entry
  <1>7. Cardinality(NamesIn(s)) <= Cardinality(Names)
    BY <1>6, FS_Subset, ViewAssumption
  <1> QED
    BY <1>1, <1>5, <1>7, SizesAreNumbers, ViewAssumption DEF MaxEntries

\* The set after the marks of the child of a name have been written.
Marked(s, n, created) == [ i \in DOMAIN s |->
    IF i \in Places(s, n) THEN [ s[i] EXCEPT !.created = created ] ELSE s[i] ]
Dropped(s, n) == [ i \in DOMAIN s |->
    IF i \in Places(s, n) THEN [ s[i] EXCEPT !.current = FALSE ] ELSE s[i] ]

LEMMA MarkedIs ==
  ASSUME NEW s \in Seq(Entry), NEW n, NEW created \in BOOLEAN
  PROVE  /\ Marked(s, n, created) \in Seq(Entry)
         /\ DOMAIN Marked(s, n, created) = DOMAIN s
         /\ \A i \in DOMAIN s : /\ Marked(s, n, created)[i].name = s[i].name
                                /\ Marked(s, n, created)[i].current = s[i].current
                                /\ i \in Places(s, n) => Marked(s, n, created)[i].created = created
         /\ (\A i \in Places(s, n) : s[i].created = created) => Marked(s, n, created) = s
  <1> DEFINE m == Marked(s, n, created)
  <1>1. Len(s) \in Nat /\ DOMAIN s = 1..Len(s) /\ \A i \in 1..Len(s) : s[i] \in Entry
    OBVIOUS
  <1>2. DOMAIN m = DOMAIN s
    BY DEF Marked
  <1>3. ASSUME NEW i \in DOMAIN s
        PROVE  /\ m[i] \in Entry /\ m[i].name = s[i].name /\ m[i].current = s[i].current
               /\ i \in Places(s, n) => m[i].created = created
               /\ (i \in Places(s, n) => s[i].created = created) => m[i] = s[i]
    <2>1. m[i] = IF i \in Places(s, n) THEN [ s[i] EXCEPT !.created = created ] ELSE s[i]
      BY DEF Marked
    <2>2. s[i] \in Entry
      BY <1>1
    <2> QED
      BY <2>1, <2>2 DEF Entry
  <1>4. m \in Seq(Entry)
    BY <1>1, <1>2, <1>3 DEF Marked
  <1>5. (\A i \in Places(s, n) : s[i].created = created) => m = s
    <2>1. m = [ i \in DOMAIN s |-> m[i] ] /\ s = [ i \in DOMAIN s |-> s[i] ]
      BY DEF Marked
    <2> QED
      BY <1>3, <2>1
  <1> QED
    BY <1>2, <1>3, <1>4, <1>5

LEMMA DroppedIs ==
  ASSUME NEW s \in Seq(Entry), NEW n
  PROVE  /\ Dropped(s, n) \in Seq(Entry)
         /\ Places(s, n) = {} => Dropped(s, n) = s
  <1>1. Len(s) \in Nat /\ DOMAIN s = 1..Len(s) /\ \A i \in 1..Len(s) : s[i] \in Entry
    OBVIOUS
  <1>2. ASSUME NEW i \in DOMAIN s
        PROVE  Dropped(s, n)[i] \in Entry
    <2>1. Dropped(s, n)[i] = IF i \in Places(s, n) THEN [ s[i] EXCEPT !.current = FALSE ] ELSE s[i]
      BY DEF Dropped
    <2> QED
      BY <1>1, <2>1 DEF Entry
  <1>3. Dropped(s, n) \in Seq(Entry)
    BY <1>1, <1>2 DEF Dropped
  <1>4. Places(s, n) = {} => Dropped(s, n) = s
    BY <1>1 DEF Dropped
  <1> QED
    BY <1>3, <1>4

\* A mark changes no order but that of a sort string with an 'L'.
LEMMA MarkKeepsOrder ==
  ASSUME lazy = FALSE, NEW at, NEW s \in Seq(Entry), Ordered(at, s),
         NEW n, NEW created \in BOOLEAN
  PROVE  Ordered(at, Marked(s, n, created))
  <1> DEFINE m == Marked(s, n, created)
  <1> SUFFICES ASSUME NEW i \in DOMAIN m, NEW j \in DOMAIN m, i < j
               PROVE  Less(at, m[i], m[j])
    BY DEF Ordered
  <1>1. i \in DOMAIN s /\ j \in DOMAIN s /\ m[i].name = s[i].name /\ m[j].name = s[j].name
    BY MarkedIs
  <1>2. Less(at, s[i], s[j])
    BY <1>1 DEF Ordered
  <1> QED
    BY <1>1, <1>2 DEF Less

\* What the entries of a set tell is the same after a mark.
LEMMA MarkKeepsNames ==
  ASSUME NEW s \in Seq(Entry), Once(s), Current(s), NEW n, NEW created \in BOOLEAN
  PROVE  /\ Once(Marked(s, n, created)) /\ Current(Marked(s, n, created))
         /\ NamesIn(Marked(s, n, created)) = NamesIn(s)
  <1> DEFINE m == Marked(s, n, created)
  <1>1. /\ DOMAIN m = DOMAIN s
        /\ \A i \in DOMAIN s : m[i].name = s[i].name /\ m[i].current = s[i].current
    BY MarkedIs
  <1> HIDE DEF m
  <1>2. Once(m) /\ Current(m)
    BY <1>1 DEF Once, Current
  <1>3. NamesIn(m) = NamesIn(s)
    BY <1>1 DEF NamesIn
  <1> QED
    BY <1>2, <1>3 DEF m

\* What is in order stays in order where the history says so.
LEMMA WatchTells ==
  ASSUME Watch
  PROVE  /\ sound' \in BOOLEAN
         /\ sound' => sound /\ Ordered(key', itemsSorted)
         /\ sound' /\ lazy /\ (\E i \in DOMAIN itemsSorted' : itemsSorted'[i].created)
              => Ordered(key', itemsSorted')
  BY DEF Watch

LEMMA InStepAfter ==
  ASSUME lazy' = lazy,
         sound' => Fine(key', itemsSorted') /\ NamesIn(itemsSorted') = items'
  PROVE  InStep'
  BY DEF InStep, Fine, Ordered, Less, Once, Current, NamesIn

\* OnCreated() and OnExists(): the view has the child, and without a mark.
LEMMA DiscoverKeeps ==
  ASSUME TypeOK, InStep, lazy' = lazy, key' \in [Names -> Keys],
         NEW n \in Names, NEW created \in BOOLEAN, Discover(n, created), Watch
  PROVE  /\ items' = items \cup {n}
         /\ marked' = marked \ {n}
         /\ itemsSorted' \in Seq(Entry)
         /\ InStep'
  <1>1. lazy \in BOOLEAN /\ itemsSorted \in Seq(Entry) /\ marked \subseteq items
    BY DEF TypeOK
  <1>2. CASE n \in items
    <2>1. items' = items /\ itemsSorted' = itemsSorted /\ marked' = marked \ {n}
      BY <1>2 DEF Discover
    <2>2. ASSUME sound'
          PROVE  Fine(key', itemsSorted') /\ NamesIn(itemsSorted') = items'
      BY <2>1, <2>2, WatchTells DEF InStep, Fine
    <2> QED
      BY <1>1, <1>2, <2>1, <2>2, InStepAfter
  <1>3. CASE n \notin items
    <2>1. /\ items' = items \cup {n} /\ marked' = marked
          /\ \E s \in Insertions(key', itemsSorted, Child(n)) :
                itemsSorted' = Marked(s, n, created)
      BY <1>3 DEF Discover, AddToSorted, Marked
    <2>2. PICK s \in Insertions(key', itemsSorted, Child(n)) :
                itemsSorted' = Marked(s, n, created)
      BY <2>1
    <2>3. Child(n) \in Entry /\ Child(n).name = n /\ Child(n).current /\ Child(n).created = FALSE
      BY DEF Child, Entry
    <2>4. s \in Seq(Entry)
      BY <1>1, <2>3, InsertionsAreSets
    <2>5. itemsSorted' \in Seq(Entry)
      BY <2>2, <2>4, MarkedIs
    <2>6. ASSUME sound'
          PROVE  Fine(key', itemsSorted') /\ NamesIn(itemsSorted') = items'
      <3>1. sound /\ Ordered(key', itemsSorted)
        BY <2>6, WatchTells
      <3>2. Fine(key', itemsSorted) /\ NamesIn(itemsSorted) = items
        BY <3>1 DEF InStep, Fine
      <3>3. Len(itemsSorted) <= MaxEntries
        BY <1>1, <3>2, SizeIsCount DEF Fine
      <3>4. /\ Fine(key', s) /\ NamesIn(s) = items \cup {n}
            /\ \A i \in DOMAIN s : s[i].name = n => s[i] = Child(n)
        <4>1. Child(n).name \notin NamesIn(itemsSorted)
          BY <1>3, <2>3, <3>2
        <4>2. /\ Fine(key', s) /\ NamesIn(s) = NamesIn(itemsSorted) \cup {Child(n).name}
              /\ \A i \in DOMAIN s : s[i].name = Child(n).name => s[i] = Child(n)
          BY <1>1, <2>3, <3>2, <3>3, <4>1, Inserted
        <4> QED
          BY <2>3, <3>2, <4>2
      <3>5. /\ Once(itemsSorted') /\ Current(itemsSorted')
            /\ NamesIn(itemsSorted') = items'
        BY <2>1, <2>2, <2>4, <3>4, MarkKeepsNames DEF Fine
      <3>6. CASE lazy = FALSE
        BY <2>2, <2>4, <3>4, <3>5, <3>6, MarkKeepsOrder DEF Fine
      <3>7. CASE created = FALSE
        <4>1. \A i \in Places(s, n) : s[i].created = created
          BY <2>3, <3>4, <3>7 DEF Places
        <4>2. itemsSorted' = s
          BY <2>2, <2>4, <4>1, MarkedIs
        <4> QED
          BY <3>4, <3>5, <4>2
      <3>8. CASE lazy = TRUE /\ created = TRUE
        <4>1. PICK i \in DOMAIN s : s[i].name = n
          BY <3>4 DEF NamesIn
        <4>2. i \in Places(s, n)
          BY <3>4, <4>1 DEF Places, Fine, Current
        <4>3. i \in DOMAIN itemsSorted' /\ itemsSorted'[i].created
          <5>1. /\ DOMAIN Marked(s, n, created) = DOMAIN s
                /\ i \in Places(s, n) => Marked(s, n, created)[i].created = created
            BY <2>4, MarkedIs
          <5> QED
            BY <2>2, <3>8, <4>2, <5>1
        <4>4. Ordered(key', itemsSorted')
          BY <2>6, <3>8, <4>3, WatchTells
        <4> QED
          BY <3>5, <4>4 DEF Fine
      <3> QED
        BY <1>1, <3>6, <3>7, <3>8
    <2> QED
      BY <1>1, <1>3, <2>1, <2>5, <2>6, InStepAfter
  <1> QED
    BY <1>2, <1>3

\* OnDeleted(): the view does not have the child.
LEMMA OnDeletedKeeps ==
  ASSUME TypeOK, InStep, lazy' = lazy, key' = key,
         NEW n \in Names, OnDeleted(n), Watch
  PROVE  /\ items' = items \ {n}
         /\ marked' = marked \ {n}
         /\ itemsSorted' \in Seq(Entry)
         /\ InStep'
  <1>1. /\ lazy \in BOOLEAN /\ itemsSorted \in Seq(Entry) /\ marked \subseteq items
        /\ key \in [Names -> Keys] /\ DOMAIN itemsSorted = 1..Len(itemsSorted)
    BY DEF TypeOK
  <1>2. CASE n \notin items
    <2>1. items' = items /\ itemsSorted' = itemsSorted /\ marked' = marked
      BY <1>2 DEF OnDeleted, view
    <2>2. ASSUME sound'
          PROVE  Fine(key', itemsSorted') /\ NamesIn(itemsSorted') = items'
      BY <2>1, <2>2, WatchTells DEF InStep, Fine
    <2> QED
      BY <1>1, <1>2, <2>1, <2>2, InStepAfter
  <1>3. CASE n \in items
    <2> DEFINE child == IF Places(itemsSorted, n) = {} THEN Child(n)
                        ELSE itemsSorted[CHOOSE i \in Places(itemsSorted, n) : TRUE]
    <2>1. /\ items' = items \ {n} /\ marked' = marked \ {n}
          /\ \E once \in Erasures(key, itemsSorted, child) :
               \E twice \in IF once = itemsSorted THEN {once} ELSE Erasures(key, once, child) :
                 itemsSorted' = Dropped(twice, n)
      BY <1>3 DEF OnDeleted, Dropped
    <2>2. \/ Places(itemsSorted, n) = {} /\ child = Child(n)
          \/ \E e \in Places(itemsSorted, n) : child = itemsSorted[e]
      OBVIOUS
    <2> HIDE DEF child
    <2>3. PICK once \in Erasures(key, itemsSorted, child) :
             \E twice \in IF once = itemsSorted THEN {once} ELSE Erasures(key, once, child) :
                itemsSorted' = Dropped(twice, n)
      BY <2>1
    <2>4. PICK twice \in IF once = itemsSorted THEN {once} ELSE Erasures(key, once, child) :
                itemsSorted' = Dropped(twice, n)
      BY <2>3
    <2>5. child \in Entry
      <3>1. Child(n) \in Entry
        BY DEF Child, Entry
      <3>2. \A e \in Places(itemsSorted, n) : itemsSorted[e] \in Entry
        BY <1>1 DEF Places
      <3> QED
        BY <2>2, <3>1, <3>2
    <2>6. once \in Seq(Entry)
      BY <1>1, <2>5, ErasuresAreSets
    <2>7. twice \in Seq(Entry)
      BY <2>5, <2>6, ErasuresAreSets
    <2>8. itemsSorted' \in Seq(Entry)
      BY <2>4, <2>7, DroppedIs
    <2>9. ASSUME sound'
          PROVE  Fine(key', itemsSorted') /\ NamesIn(itemsSorted') = items'
      <3>1. Fine(key, itemsSorted) /\ NamesIn(itemsSorted) = items
        BY <2>9, WatchTells DEF InStep
      <3>2. Len(itemsSorted) <= MaxEntries
        BY <1>1, <3>1, SizeIsCount DEF Fine
      <3>3. PICK e \in DOMAIN itemsSorted : itemsSorted[e].name = n /\ child = itemsSorted[e]
        <4>1. PICK i \in DOMAIN itemsSorted : itemsSorted[i].name = n
          BY <1>3, <3>1 DEF NamesIn
        <4>2. i \in Places(itemsSorted, n)
          BY <3>1, <4>1 DEF Places, Fine, Current
        <4> QED
          BY <2>2, <4>2 DEF Places
      <3>4. /\ Fine(key, once) /\ Len(once) = Len(itemsSorted) - 1
            /\ NamesIn(once) = items \ {n}
        <4>1. child \in EntriesOf(itemsSorted) /\ child.name = n
          BY <3>3 DEF EntriesOf
        <4>2. /\ Fine(key, once) /\ Len(once) = Len(itemsSorted) - 1
              /\ NamesIn(once) = NamesIn(itemsSorted) \ {child.name}
          <5>1. Fine(key, once)
            BY <1>1, <3>1, <3>2, <4>1, Erased
          <5>2. Len(once) = Len(itemsSorted) - 1
            BY <1>1, <3>1, <3>2, <4>1, Erased
          <5>3. NamesIn(once) = NamesIn(itemsSorted) \ {child.name}
            BY <1>1, <3>1, <3>2, <4>1, Erased
          <5> QED
            BY <5>1, <5>2, <5>3
        <4> QED
          BY <3>1, <4>1, <4>2
      <3>5. twice = once
        <4>1. child.name \notin NamesIn(once) /\ Ordered(key, once)
          BY <3>3, <3>4 DEF Fine
        <4>2. Len(once) <= MaxEntries
          BY <2>6, <3>4, SizeIsCount DEF Fine
        <4>3. twice \in Erasures(key, once, child) => twice = once
          BY <1>1, <2>5, <2>6, <4>1, <4>2, NoneErased
        <4> QED
          BY <2>4, <4>3
      <3>6. Places(once, n) = {}
        BY <3>4 DEF Places, NamesIn
      <3>7. itemsSorted' = once
        BY <2>4, <2>6, <3>5, <3>6, DroppedIs
      <3> QED
        BY <2>1, <3>4, <3>7
    <2> QED
      BY <2>1, <2>8, <2>9, InStepAfter
  <1> QED
    BY <1>2, <1>3

----------------------------------------------------------------------------
(* The steps.                                                              *)

\* What most steps leave alone.
LEMMA ViewUnchanged ==
  ASSUME InStep, lazy' = lazy, UNCHANGED << itemsSorted, items >>,
         Watch \/ UNCHANGED << key, sound >>
  PROVE  InStep'
  <1>1. CASE Watch
    <2>1. sound' => Fine(key', itemsSorted') /\ NamesIn(itemsSorted') = items'
      BY <1>1, WatchTells DEF InStep, Fine
    <2> QED
      BY <2>1, InStepAfter
  <1>2. CASE UNCHANGED << key, sound >>
    <2>1. sound' => Fine(key', itemsSorted') /\ NamesIn(itemsSorted') = items'
      BY <1>2 DEF InStep
    <2> QED
      BY <2>1, InStepAfter
  <1> QED
    BY <1>1, <1>2

THEOREM InitInv == Init => Inv
  <1> SUFFICES ASSUME Init
               PROVE  Inv
    OBVIOUS
  <1>1. << >> \in Seq(Entry) /\ DOMAIN << >> = {}
    OBVIOUS
  <1>2. TypeOK
    <2>1. /\ lazy \in BOOLEAN /\ active \in BOOLEAN
          /\ files \subseteq Names /\ key \in [Names -> Keys]
      BY ViewAssumption DEF Init
    <2>2. itemsSorted \in Seq(Entry)
      BY <1>1 DEF Init
    <2>3. changes \in 0..MaxChanges
      BY ViewAssumption DEF Init
    <2> QED
      BY <2>1, <2>2, <2>3 DEF Init, TypeOK
  <1>3. Fine(key, << >>) /\ NamesIn(<< >>) = {}
    BY DEF Fine, Ordered, Once, Current, NamesIn
  <1>4. InStep
    BY <1>3 DEF Init, InStep
  <1>5. Held /\ Shown
    BY DEF Init, Held, Shown
  <1> QED
    BY <1>2, <1>4, <1>5 DEF Inv

THEOREM NextInv ==
  ASSUME Inv, [Next]_vars
  PROVE  Inv'
  <1> USE DEF Inv
  <1>0. /\ key \in [Names -> Keys] /\ lazy \in BOOLEAN /\ active \in BOOLEAN
        /\ changes \in 0..MaxChanges /\ MaxChanges \in Nat
    BY ViewAssumption DEF TypeOK
  <1>1. ASSUME NEW n \in Names, NEW k \in Keys, Create(n, k)
        PROVE  Inv'
    <2>1. key' \in [Names -> Keys] /\ lazy' = lazy /\ Watch /\ (n \notin base) \in BOOLEAN
      BY <1>0, <1>1 DEF Create
    <2>2. /\ items' = items \cup {n} /\ marked' = marked \ {n}
          /\ itemsSorted' \in Seq(Entry) /\ InStep'
      BY <1>1, <2>1, DiscoverKeeps DEF Create
    <2>3. TypeOK'
      BY <1>1, <2>1, <2>2, WatchTells DEF Create, TypeOK, reads
    <2>4. Held'
      BY <1>1 DEF Create, Held, reads
    <2>5. Shown'
      BY <1>1, <2>2 DEF Create, Shown, reads, TypeOK
    <2> QED
      BY <2>2, <2>3, <2>4, <2>5
  <1>2. ASSUME NEW n \in Names, NEW k \in Keys, Change(n, k)
        PROVE  Inv'
    <2>1. /\ key' \in [Names -> Keys] /\ lazy' = lazy /\ Watch
          /\ UNCHANGED << itemsSorted, items >>
      BY <1>0, <1>2 DEF Change, view
    <2>2. InStep'
      BY <2>1, ViewUnchanged
    <2>3. changes' \in 0..MaxChanges
      BY <1>0, <1>2 DEF Change, Counted
    <2>4. TypeOK'
      BY <1>2, <2>1, <2>3, WatchTells DEF Change, TypeOK, delegate, view, reads
    <2>5. Held'
      BY <1>2 DEF Change, Held, reads
    <2>6. Shown'
      BY <1>2 DEF Change, Shown, delegate, view, reads
    <2> QED
      BY <2>2, <2>4, <2>5, <2>6
  <1>3. ASSUME NEW n \in Names, Delete(n)
        PROVE  Inv'
    <2>1. key' = key /\ lazy' = lazy /\ Watch
      BY <1>3 DEF Delete
    <2>2. /\ items' = items \ {n} /\ marked' = marked \ {n}
          /\ itemsSorted' \in Seq(Entry) /\ InStep'
      BY <1>3, <2>1, OnDeletedKeeps DEF Delete
    <2>3. TypeOK'
      BY <1>3, <2>1, <2>2, WatchTells DEF Delete, TypeOK
    <2>4. Held'
      BY <1>3 DEF Delete, Held
    <2>5. Shown'
      BY <1>3, <2>2 DEF Delete, Shown
    <2> QED
      BY <2>2, <2>3, <2>4, <2>5
  <1>4. ASSUME NEW n \in Names, Silent(n)
        PROVE  Inv'
    <2>1. lazy' = lazy /\ UNCHANGED << itemsSorted, items, key, sound >>
      BY <1>4 DEF Silent, view
    <2>2. InStep'
      BY <2>1, ViewUnchanged
    <2>3. changes' \in 0..MaxChanges
      BY <1>0, <1>4 DEF Silent, Counted
    <2>4. TypeOK'
      BY <1>4, <2>3 DEF Silent, TypeOK, delegate, view
    <2>5. Held'
      BY <1>4 DEF Silent, Held
    <2>6. Shown'
      BY <1>4 DEF Silent, Shown, delegate, view
    <2> QED
      BY <2>2, <2>4, <2>5, <2>6
  <1>5. ASSUME NEW n \in Names, Meet(n)
        PROVE  Inv'
    <2>1. key' \in [Names -> Keys] /\ lazy' = lazy /\ Watch
      BY <1>0, <1>5 DEF Meet
    <2>2. /\ items' = items \cup {n} /\ marked' = marked \ {n}
          /\ itemsSorted' \in Seq(Entry) /\ InStep'
      BY <1>5, <2>1, DiscoverKeeps DEF Meet
    <2>3. TypeOK'
      BY <1>5, <2>1, <2>2, WatchTells DEF Meet, TypeOK
    <2>4. Held'
      BY <1>5 DEF Meet, Held
    <2>5. Shown'
      BY <1>5, <2>2 DEF Meet, Shown, TypeOK
    <2> QED
      BY <2>2, <2>3, <2>4, <2>5
  <1>6. ASSUME NEW n \in Names, NEW m \in Names, Rename(n, m)
        PROVE  Inv'
    <2>1. key' \in [Names -> Keys] /\ lazy' = lazy /\ Watch
      BY <1>0, <1>6 DEF Rename
    <2>2. /\ items' = items \cup {m} /\ marked' = marked \ {m}
          /\ itemsSorted' \in Seq(Entry) /\ InStep'
      BY <1>6, <2>1, DiscoverKeeps DEF Rename
    <2>3. changes' \in 0..MaxChanges
      BY <1>0, <1>6 DEF Rename, Counted
    <2>4. toFind = {} /\ UNCHANGED << reader, toFind >>
      BY <1>6 DEF Rename, Held, reads
    <2>5. TypeOK'
      BY <1>6, <2>1, <2>2, <2>3, <2>4, WatchTells DEF Rename, TypeOK
    <2>6. Held' /\ Shown'
      BY <1>6, <2>4 DEF Rename, Held, Shown
    <2> QED
      BY <2>2, <2>5, <2>6
  <1>7. ASSUME BaseReads
        PROVE  Inv'
    <2>1. lazy' = lazy /\ UNCHANGED << itemsSorted, items, key, sound >>
      BY <1>7 DEF BaseReads, ReadBase
    <2>2. InStep'
      BY <2>1, ViewUnchanged
    <2>3. TypeOK' /\ Held' /\ Shown'
      BY <1>7 DEF BaseReads, ReadBase, TypeOK, Held, Shown
    <2> QED
      BY <2>2, <2>3
  <1>8. ASSUME QuickRead
        PROVE  Inv'
    <2>1. /\ UNCHANGED << lazy, active, files, key, base, baseMarked, baseRead >>
          /\ UNCHANGED << items, marked, itemsSorted, reader, toFind, sound, renamed, changes >>
      BY <1>8 DEF QuickRead, delegate, view, reads
    <2>2. InStep'
      BY <2>1, ViewUnchanged
    <2>3. TypeOK' /\ Held' /\ Shown'
      BY <2>1 DEF TypeOK, Held, Shown
    <2> QED
      BY <2>2, <2>3
  <1>9. ASSUME NEW force \in BOOLEAN, ReadView(force)
        PROVE  Inv'
    <2>1. lazy' = lazy /\ UNCHANGED << itemsSorted, items, key, sound >>
      BY <1>9 DEF ReadView, ReadBase
    <2>2. InStep'
      BY <2>1, ViewUnchanged
    <2>3. TypeOK' /\ Held' /\ Shown'
      BY <1>9 DEF ReadView, ReadBase, TypeOK, Held, Shown
    <2> QED
      BY <2>2, <2>3
  <1>10. ASSUME ReadEnds
         PROVE  Inv'
    <2>1. /\ UNCHANGED << lazy, active, files, key, base, baseMarked, baseRead >>
          /\ UNCHANGED << items, marked, itemsSorted, toFind, sound, renamed, changes >>
          /\ toFind = {} /\ reader' = "none"
      BY <1>10 DEF ReadEnds, delegate, view
    <2>2. InStep'
      BY <2>1, ViewUnchanged
    <2>3. TypeOK' /\ Held' /\ Shown'
      BY <2>1 DEF TypeOK, Held, Shown
    <2> QED
      BY <2>2, <2>3
  <1>11. ASSUME UNCHANGED vars
         PROVE  Inv'
    <2>1. /\ UNCHANGED << lazy, active, files, key, base, baseMarked, baseRead >>
          /\ UNCHANGED << items, marked, itemsSorted, reader, toFind, sound, renamed, changes >>
      BY <1>11 DEF vars, delegate, view, reads
    <2>2. InStep'
      BY <2>1, ViewUnchanged
    <2>3. TypeOK' /\ Held' /\ Shown'
      BY <2>1 DEF TypeOK, Held, Shown
    <2> QED
      BY <2>2, <2>3
  <1> QED
    BY <1>1, <1>2, <1>3, <1>4, <1>5, <1>6, <1>7, <1>8, <1>9, <1>10, <1>11 DEF Next

THEOREM InvHolds == Spec => []Inv
  <1> QED
    BY InitInv, NextInv, PTL DEF Spec

----------------------------------------------------------------------------
(* The theorems.                                                           *)

\* The two collections, the marks and what is left to find have the values
\* that the code gives them, whatever the attributes do meanwhile.
THEOREM TypeCorrect == Spec => []TypeOK
  <1>1. Inv => TypeOK
    BY DEF Inv
  <1> QED
    BY <1>1, InvHolds, PTL

\* ItemsSorted and Items have the same children, each of them once, as long as
\* nothing has put ItemsSorted out of its own order: an insertion finds the
\* place of the child and an erasure the child, whatever the shape of the tree
\* (SortedContext::addToSorted() and Remove()).
THEOREM CollectionsAgree == Spec => []SameChildren
  <1>1. Inv => SameChildren
    <2> SUFFICES ASSUME Inv, sound
                 PROVE  SameChildrenAlways
      BY DEF SameChildren
    <2>1. itemsSorted \in Seq(Entry) /\ DOMAIN itemsSorted = 1..Len(itemsSorted)
      BY DEF Inv, TypeOK
    <2>2. Once(itemsSorted) /\ NamesIn(itemsSorted) = items
      BY DEF Inv, InStep, Fine
    <2>3. Len(itemsSorted) = Cardinality(items)
      BY <2>1, <2>2, SizeIsCount
    <2>4. ToSet(Announced) = NamesIn(itemsSorted)
      BY DEF ToSet, Announced, NamesIn
    <2> QED
      BY <2>2, <2>3, <2>4 DEF SameChildrenAlways
  <1> QED
    BY <1>1, InvHolds, PTL

\* Between reads the view shows what its delegate shows, however the events,
\* the reads of the view and those of other clients have interleaved.
THEOREM ViewShowsTheDelegate == Spec => []ShowsTheDelegate
  <1>1. Inv => ShowsTheDelegate
    BY DEF Inv, Held, Shown, ShowsTheDelegate
  <1> QED
    BY <1>1, InvHolds, PTL

\* A read of the view emits Exists for each child the delegate has, once and in
\* the order of the sort string (SortedContext::read()).
THEOREM ReadsAreSorted == Spec => ReadIsSorted
  <1>1. Inv /\ [Next]_vars =>
          [(QuickRead \/ (ReadEnds /\ reader = "view")) /\ sound /\ ~renamed
              => ListingIsSorted]_vars
    <2> SUFFICES ASSUME Inv, sound, ~renamed
                 PROVE  ListingIsSorted
      OBVIOUS
    <2> DEFINE there == base \ baseMarked
               listed == { i \in DOMAIN itemsSorted : itemsSorted[i].name \in there }
    <2>1. /\ lazy \in BOOLEAN /\ key \in [Names -> Keys]
          /\ itemsSorted \in Seq(Entry) /\ DOMAIN itemsSorted = 1..Len(itemsSorted)
          /\ \A i \in DOMAIN itemsSorted : itemsSorted[i] \in Entry
      BY DEF Inv, TypeOK
    <2>2. /\ Ordered(key, itemsSorted) /\ Once(itemsSorted)
          /\ NamesIn(itemsSorted) = items
      BY DEF Inv, InStep, Fine
    <2>3. there \subseteq items
      BY DEF Inv, Shown
    <2>4. there = { itemsSorted[i].name : i \in listed }
      BY <2>2, <2>3 DEF NamesIn
    <2>5. ASSUME NEW i \in listed, NEW j \in listed, i < j
          PROVE  /\ itemsSorted[i].name # itemsSorted[j].name
                 /\ Precedes(itemsSorted[i], itemsSorted[j])
      <3> DEFINE x == itemsSorted[i]
                 y == itemsSorted[j]
      <3>1. x \in Entry /\ y \in Entry /\ Less(key, x, y)
        BY <2>1, <2>2, <2>5 DEF Ordered
      <3>2. x.name # y.name
        BY <2>1, <2>2, <2>5 DEF Once
      <3> HIDE DEF x, y
      <3>3. /\ x.name \in Int /\ y.name \in Int /\ key[x.name] \in Int /\ key[y.name] \in Int
            /\ x.created \in BOOLEAN /\ y.created \in BOOLEAN
        BY <2>1, <3>1, ViewAssumption DEF Entry
      <3>4. Precedes(x, y)
        BY <2>1, <3>1, <3>3 DEF Precedes, Less
      <3> QED
        BY <3>2, <3>4 DEF x, y
    <2> QED
      BY <2>4, <2>5 DEF ListingIsSorted
  <1> QED
    BY <1>1, InvHolds, PTL DEF Spec, ReadIsSorted

=============================================================================
