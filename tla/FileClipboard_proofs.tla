------------------------ MODULE FileClipboard_proofs ------------------------
(***************************************************************************)
(* Undoing a paste puts every file back, and no file is lost on the way:   *)
(* for a user who waits for the commands, for every number of directories, *)
(* files, urls and pastes, every size of the ring, and every order in      *)
(* which the commands of an undo handle their files.                       *)
(*                                                                         *)
(* While a paste or its undoing runs, the files are those before the paste *)
(* with some of its urls pasted: Pasted(b, a, S, d).  A command of the     *)
(* paste adds a url to S, one of the undoing takes one away.  The ring     *)
(* holds, for as long as no later paste has taken its place, for each      *)
(* paste that is not undone the commands that undo it, as many places      *)
(* behind the cursor as there were pastes since.                           *)
(*                                                                         *)
(* And the mime history lists the places of the last pastes, the latest    *)
(* first, for urls of any length: the text of the attribute begins with    *)
(* them, whatever a longer old text has left behind them.                  *)
(***************************************************************************)
EXTENDS FileClipboard, FiniteSetTheorems, SequenceTheorems, WellFoundedInduction, TLAPS

Contexts == [Urls -> Contents]
Jobs == {c \in Commands : c.urls # <<>>}
Running == [id : 1 .. MaxCommands, command : Jobs]
Undone == [paste : 1 .. MaxPastes, before : Contexts]

\* Not only the types of TypeOK: what runs is a command with a number and
\* files left to handle.
Types == /\ TypeOK
         /\ running \subseteq Running
         /\ done \in Seq(Undone)
         /\ DOMAIN entries = Slots
         /\ \A s \in Slots : entries[s].redo \in Seq(Jobs) /\ entries[s].undo \in Seq(Jobs)
-----------------------------------------------------------------------------
(***************************************************************************)
(* The elements of a set of numbers, in order.                             *)
(***************************************************************************)
UpTo(S, i) == {j \in S : j <= i}
Rank(S, i) == Cardinality(UpTo(S, i))

LEMMA LeastNumber ==
    ASSUME NEW S \in SUBSET Nat, S # {} PROVE \E m \in S : \A j \in S : m <= j
<1> DEFINE R == OpToRel(<, Nat)
<1>1. IsWellFoundedOn(R, Nat) BY NatLessThanWellFounded
<1> HIDE DEF R
<1>2. PICK m \in S : \A j \in S : ~ (<<j, m>> \in R) BY <1>1, WFMin
<1>3. \A j \in S : j \in Nat /\ m \in Nat /\ ~ (j < m) BY <1>2 DEF R, OpToRel
<1>4. \A j \in S : m <= j BY <1>3
<1> QED BY <1>4

LEMMA GreatestNumber ==
    ASSUME NEW n \in Nat, NEW S \in SUBSET (0 .. n), S # {}
    PROVE  \E m \in S : \A j \in S : j <= m
<1> DEFINE T == {n - j : j \in S}
<1>1. T \in SUBSET Nat /\ T # {}
  <2>1. \A j \in S : n - j \in Nat OBVIOUS
  <2> QED BY <2>1
<1>2. PICK k \in T : \A x \in T : k <= x
  <2> HIDE DEF T
  <2> QED BY <1>1, LeastNumber
<1>3. PICK m \in S : k = n - m OBVIOUS
<1>4. \A j \in S : n - m <= n - j BY <1>2, <1>3
<1>5. \A j \in S : j <= m BY <1>4
<1> QED BY <1>5

\* Ranks are numbers that grow with the elements.
LEMMA Ranks ==
    ASSUME NEW n \in Nat, NEW S \in SUBSET (0 .. n)
    PROVE  /\ IsFiniteSet(S) /\ Cardinality(S) \in Nat
           /\ \A a \in S : Rank(S, a) \in 1 .. Cardinality(S)
           /\ \A a, b \in S : a < b => Rank(S, a) < Rank(S, b)
<1>1. IsFiniteSet(S)
  <2>1. 0 \in Int /\ n \in Int OBVIOUS
  <2>2. IsFiniteSet(0 .. n) BY <2>1, FS_Interval
  <2> QED BY <2>2, FS_Subset
<1>2. Cardinality(S) \in Nat BY <1>1, FS_CardinalityType
<1>3. ASSUME NEW i \in Int
      PROVE  /\ UpTo(S, i) \in SUBSET S /\ IsFiniteSet(UpTo(S, i))
             /\ Rank(S, i) \in Nat /\ Rank(S, i) <= Cardinality(S)
  <2>1. UpTo(S, i) \in SUBSET S BY DEF UpTo
  <2>2. IsFiniteSet(UpTo(S, i)) /\ Cardinality(UpTo(S, i)) <= Cardinality(S)
    BY <1>1, <2>1, FS_Subset
  <2>3. Cardinality(UpTo(S, i)) \in Nat BY <2>2, FS_CardinalityType
  <2> QED BY <2>1, <2>2, <2>3 DEF Rank
<1>4. ASSUME NEW a \in S PROVE Rank(S, a) \in 1 .. Cardinality(S)
  <2>1. a \in Int /\ a \in UpTo(S, a) BY DEF UpTo
  <2>2. Rank(S, a) # 0 BY <1>3, <2>1, FS_EmptySet DEF Rank
  <2> QED BY <1>2, <1>3, <2>1, <2>2
<1>5. ASSUME NEW a \in S, NEW b \in S, a < b PROVE Rank(S, a) < Rank(S, b)
  <2>1. a \in Int /\ b \in Int OBVIOUS
  <2>2. UpTo(S, a) \in SUBSET UpTo(S, b) /\ b \in UpTo(S, b) /\ b \notin UpTo(S, a)
    <3>1. \A j \in S : j \in Int OBVIOUS
    <3>2. ~ (b <= a) /\ b <= b /\ \A j \in S : j <= a => j <= b BY <1>5, <2>1, <3>1
    <3> QED BY <3>2 DEF UpTo
  <2>3. Rank(S, a) <= Rank(S, b) /\ Rank(S, a) # Rank(S, b)
    BY <1>3, <2>1, <2>2, FS_Subset DEF Rank
  <2>4. Rank(S, a) \in Nat /\ Rank(S, b) \in Nat BY <1>3, <2>1
  <2> QED BY <2>3, <2>4
<1> QED BY <1>1, <1>2, <1>4, <1>5

\* There is an element of each rank.
LEMMA SomeRank ==
    ASSUME NEW n \in Nat, NEW S \in SUBSET (0 .. n), NEW k \in 1 .. Cardinality(S)
    PROVE  \E i \in S : Rank(S, i) = k
<1>1. /\ IsFiniteSet(S) /\ Cardinality(S) \in Nat
      /\ \A a \in S : Rank(S, a) \in 1 .. Cardinality(S)
  BY Ranks
<1> DEFINE T == {i \in S : Rank(S, i) >= k}
<1>2. T \in SUBSET Nat /\ T # {}
  <2>1. S # {} BY <1>1, FS_EmptySet
  <2>2. PICK m \in S : \A j \in S : j <= m BY <2>1, GreatestNumber
  <2>3. UpTo(S, m) = S BY <2>2 DEF UpTo
  <2>4. m \in T BY <1>1, <2>3 DEF Rank
  <2>5. \A i \in S : i \in Nat OBVIOUS
  <2> QED BY <2>4, <2>5
<1>3. PICK i \in T : \A j \in T : i <= j
  <2> HIDE DEF T
  <2> QED BY <1>2, LeastNumber
<1>4. ASSUME Rank(S, i) # k PROVE FALSE
  <2> DEFINE Below == {j \in S : j < i}
  <2>1. i \in S /\ i \in Nat /\ Rank(S, i) > k /\ Rank(S, i) \in Nat BY <1>1, <1>4
  <2>2. UpTo(S, i) = Below \cup {i} /\ i \notin Below
    <3>1. \A j \in S : j \in Int OBVIOUS
    <3>2. \A j \in S : j <= i <=> j < i \/ j = i BY <2>1, <3>1
    <3>3. ~ (i < i) BY <2>1
    <3> QED BY <2>1, <3>2, <3>3 DEF UpTo
  <2>3. IsFiniteSet(Below) BY <1>1, FS_Subset
  <2>4. Rank(S, i) = Cardinality(Below) + 1
    <3> HIDE DEF Below
    <3> QED BY <2>2, <2>3, FS_AddElement DEF Rank
  <2>5. Cardinality(Below) \in Nat
    <3> HIDE DEF Below
    <3> QED BY <2>3, FS_CardinalityType
  <2>6. Cardinality(Below) >= k BY <2>1, <2>4, <2>5
  <2>7. Below # {}
    <3> HIDE DEF Below
    <3> QED BY <2>3, <2>6, FS_EmptySet
  <2>8. PICK m \in Below : \A j \in Below : j <= m
    <3>1. Below \in SUBSET (0 .. n) OBVIOUS
    <3> HIDE DEF Below
    <3> QED BY <2>7, <3>1, GreatestNumber
  <2>9. UpTo(S, m) = Below
    <3>1. m \in Int /\ m < i OBVIOUS
    <3>2. ASSUME NEW j \in S PROVE j <= m <=> j < i BY <2>1, <2>8, <3>1
    <3> QED BY <3>2 DEF UpTo
  <2>10. m \in T BY <2>6, <2>9 DEF Rank
  <2>11. i <= m /\ m < i /\ m \in Int BY <1>3, <2>10
  <2> QED BY <2>1, <2>11
<1> QED BY <1>4

LEMMA NthIs ==
    ASSUME NEW n \in Nat, NEW S \in SUBSET (0 .. n), NEW k \in 1 .. Cardinality(S)
    PROVE  Nth(S, k) \in S /\ Rank(S, Nth(S, k)) = k
<1>1. \E i \in S : Cardinality({j \in S : j <= i}) = k BY SomeRank DEF Rank, UpTo
<1>2. Nth(S, k) \in S /\ Cardinality({j \in S : j <= Nth(S, k)}) = k BY <1>1 DEF Nth
<1> QED BY <1>2 DEF Rank, UpTo

LEMMA NthOfRank ==
    ASSUME NEW n \in Nat, NEW S \in SUBSET (0 .. n), NEW i \in S
    PROVE  Rank(S, i) \in 1 .. Cardinality(S) /\ Nth(S, Rank(S, i)) = i
<1> DEFINE k == Rank(S, i)
           x == Nth(S, k)
<1>1. k \in 1 .. Cardinality(S) /\ \A a, b \in S : a < b => Rank(S, a) < Rank(S, b) BY Ranks
<1>2. x \in S /\ Rank(S, x) = k
  <2> HIDE DEF k
  <2> QED BY <1>1, NthIs
<1>3. ~ (x < i) /\ ~ (i < x)
  <2>1. k \in Int BY <1>1, Ranks
  <2>2. ~ (k < k) BY <2>1
  <2> HIDE DEF x, k
  <2> QED BY <1>1, <1>2, <2>2 DEF k
<1>4. x \in Int /\ i \in Int
  <2> HIDE DEF x
  <2> QED BY <1>2
<1>5. x = i
  <2> HIDE DEF x
  <2> QED BY <1>3, <1>4
<1> QED BY <1>1, <1>5

LEMMA NthGrows ==
    ASSUME NEW n \in Nat, NEW S \in SUBSET (0 .. n),
           NEW k \in 1 .. Cardinality(S), NEW l \in 1 .. Cardinality(S)
    PROVE  /\ Nth(S, k) \in S /\ Nth(S, l) \in S
           /\ k < l => Nth(S, k) < Nth(S, l) 
           /\ k <= l => Nth(S, k) <= Nth(S, l)
<1> DEFINE a == Nth(S, k)
           b == Nth(S, l)
<1>1. a \in S /\ Rank(S, a) = k BY NthIs
<1>2. b \in S /\ Rank(S, b) = l BY NthIs
<1>3. \A x, y \in S : x < y => Rank(S, x) < Rank(S, y) BY Ranks
<1> HIDE DEF a, b
<1>4. a \in Int /\ b \in Int /\ k \in Int /\ l \in Int BY <1>1, <1>2, Ranks
<1>5. k <= l => a <= b BY <1>1, <1>2, <1>3, <1>4
<1>6. k < l => a < b BY <1>1, <1>2, <1>3, <1>4
<1> QED BY <1>1, <1>2, <1>5, <1>6 DEF a, b
-----------------------------------------------------------------------------
(***************************************************************************)
(* A place that is added to the history becomes its first line, before the *)
(* lines that were kept.                                                   *)
(***************************************************************************)
Symbols == Characters \cup {NewLine}
Ended(t) == t \o <<NewLine>>

LEMMA EndedType ==
    ASSUME NEW t \in Texts
    PROVE  /\ Len(t) \in Nat /\ Ended(t) \in Texts /\ Len(Ended(t)) = Len(t) + 1
           /\ \A i \in 1 .. Len(t) : Ended(t)[i] = t[i] /\ t[i] \in Symbols
           /\ Ended(t)[Len(t) + 1] = NewLine
<1>1. t \in Seq(Symbols) /\ <<NewLine>> \in Seq(Symbols) /\ Len(<<NewLine>>) = 1
      /\ <<NewLine>>[1] = NewLine /\ Texts = Seq(Symbols)
  BY DEF Texts, Symbols
<1> HIDE DEF Symbols
<1>2. Len(t) \in Nat /\ \A i \in 1 .. Len(t) : t[i] \in Symbols BY <1>1
<1>3. /\ Ended(t) \in Seq(Symbols) /\ Len(Ended(t)) = Len(t) + 1
      /\ \A i \in 1 .. Len(t) + 1 : Ended(t)[i] = IF i <= Len(t) THEN t[i]
                                                ELSE <<NewLine>>[i - Len(t)]
  BY <1>1, ConcatProperties DEF Ended
<1>4. Ended(t)[Len(t) + 1] = <<NewLine>>[1] BY <1>2, <1>3
<1> QED BY <1>1, <1>2, <1>3, <1>4

\* A break after the start is where a line ends.
LEMMA BreaksAre ==
    ASSUME NEW t \in Texts
    PROVE  /\ Breaks(t) \in SUBSET (0 .. Len(t) + 1) /\ 0 \in Breaks(t)
           /\ \A b \in Breaks(t) : b # 0 => Ended(t)[b] = NewLine
           /\ \A i \in 1 .. Len(t) : Ended(t)[i] = NewLine => i \in Breaks(t)
           /\ (t = <<>> \/ t[Len(t)] = NewLine) => Len(t) + 1 \notin Breaks(t)
           /\ LineCount(t) = Cardinality(Breaks(t)) - 1 /\ LineCount(t) \in Nat
<1>1. /\ Len(t) \in Nat /\ DOMAIN t = 1 .. Len(t)
      /\ \A i \in 1 .. Len(t) : Ended(t)[i] = t[i]
      /\ Ended(t)[Len(t) + 1] = NewLine
  BY EndedType DEF Texts
<1>2. Len(t) + 1 \notin 1 .. Len(t) /\ Len(t) + 1 # 0 /\ Len(t) + 1 \in 0 .. Len(t) + 1
      /\ 0 \in 0 .. Len(t) + 1 /\ \A i \in 1 .. Len(t) : i \in 0 .. Len(t) + 1
  BY <1>1
<1>3. Breaks(t) \in SUBSET (0 .. Len(t) + 1) /\ 0 \in Breaks(t) BY <1>1, <1>2 DEF Breaks
<1>4. \A b \in Breaks(t) : b # 0 => Ended(t)[b] = NewLine BY <1>1 DEF Breaks
<1>5. \A i \in 1 .. Len(t) : Ended(t)[i] = NewLine => i \in Breaks(t) BY <1>1 DEF Breaks
<1>6. (t = <<>> \/ t[Len(t)] = NewLine) => Len(t) + 1 \notin Breaks(t) BY <1>1, <1>2 DEF Breaks
<1>7. LineCount(t) = Cardinality(Breaks(t)) - 1 /\ LineCount(t) \in Nat
  <2>1. Len(t) + 1 \in Nat BY <1>1
  <2>2. IsFiniteSet(Breaks(t)) /\ Cardinality(Breaks(t)) \in Nat BY <1>3, <2>1, Ranks
  <2>3. Cardinality(Breaks(t)) # 0 BY <1>3, <2>2, FS_EmptySet
  <2> QED BY <2>2, <2>3 DEF LineCount
<1> QED BY <1>3, <1>4, <1>5, <1>6, <1>7

\* The lines that are written again end at the break e.
LEMMA KeptAre ==
    ASSUME NEW t \in Texts
    PROVE  LET n == KeptCount(t)
               e == Nth(Breaks(t), n + 1)
           IN /\ n \in Nat /\ n + 1 \in 1 .. Cardinality(Breaks(t))
              /\ n = Smaller(MimeHistorySize, LineCount(t))
              /\ e \in Breaks(t) /\ e \in 0 .. Len(t) + 1
              /\ KeptLines(t) \in Texts /\ Len(KeptLines(t)) = e
              /\ \A i \in 1 .. e : KeptLines(t)[i] = Ended(t)[i]
<1> DEFINE n == KeptCount(t)
           e == Nth(Breaks(t), n + 1)
<1>1. /\ Breaks(t) \in SUBSET (0 .. Len(t) + 1) /\ Len(t) \in Nat
      /\ LineCount(t) = Cardinality(Breaks(t)) - 1 /\ LineCount(t) \in Nat
  BY BreaksAre, EndedType
<1>2. Cardinality(Breaks(t)) \in Nat
  <2>1. Len(t) + 1 \in Nat BY <1>1
  <2> QED BY <1>1, <2>1, Ranks
<1>3. n \in Nat /\ n <= LineCount(t) /\ n = Smaller(MimeHistorySize, LineCount(t))
  BY <1>1, MimeHistoryAssumption DEF KeptCount, Smaller
<1>4. n + 1 \in 1 .. Cardinality(Breaks(t))
  <2> HIDE DEF n
  <2> QED BY <1>1, <1>2, <1>3
<1>5. e \in Breaks(t)
  <2>1. Len(t) + 1 \in Nat BY <1>1
  <2> HIDE DEF n
  <2> QED BY <1>1, <1>4, <2>1, NthIs
<1>6. KeptLines(t) = SubSeq(Ended(t), 1, e) BY DEF KeptLines, Ended
<1> HIDE DEF n, e
<1>7. e \in 0 .. Len(t) + 1 BY <1>1, <1>5
<1>8. \A i \in 1 .. e : Ended(t)[i] \in Symbols
  <2>1. Ended(t) \in Seq(Symbols) /\ Len(Ended(t)) = Len(t) + 1
    BY EndedType DEF Texts, Symbols
  <2>2. \A i \in 1 .. Len(Ended(t)) : Ended(t)[i] \in Symbols BY <2>1
  <2> QED BY <1>1, <1>7, <2>1, <2>2
<1>9. /\ KeptLines(t) \in Seq(Symbols) /\ Len(KeptLines(t)) = e
      /\ \A i \in 1 .. e : KeptLines(t)[i] = Ended(t)[i]
  <2>1. e \in Int /\ 1 \in Int /\ e >= 0 BY <1>1, <1>7
  <2>2. /\ SubSeq(Ended(t), 1, e) \in Seq(Symbols)
        /\ Len(SubSeq(Ended(t), 1, e)) = IF 1 <= e THEN e - 1 + 1 ELSE 0
        /\ \A i \in 1 .. e - 1 + 1 : SubSeq(Ended(t), 1, e)[i] = Ended(t)[1 + i - 1]
    BY <1>8, <2>1, SubSeqProperties
  <2>3. e - 1 + 1 = e /\ \A i \in 1 .. e : 1 + i - 1 = i BY <2>1
  <2>4. (IF 1 <= e THEN e - 1 + 1 ELSE 0) = e BY <2>1
  <2> QED BY <1>6, <2>2, <2>3, <2>4
<1>10. KeptLines(t) \in Texts BY <1>9 DEF Texts, Symbols
<1> QED BY <1>3, <1>4, <1>5, <1>7, <1>9, <1>10 DEF n, e

LEMMA AddedIs ==
    ASSUME NEW t \in Texts, NEW p \in Seq(Characters)
    PROVE  LET new == AddToClipMimeHistory(t, p)
               e == Nth(Breaks(t), KeptCount(t) + 1)
           IN /\ new \in Texts /\ Len(p) \in Nat /\ Len(new) \in Nat /\ Len(new) >= Len(p) + 1 + e
              /\ \A i \in 1 .. Len(p) : new[i] = p[i] /\ p[i] \in Symbols /\ p[i] # NewLine
              /\ new[Len(p) + 1] = NewLine
              /\ \A i \in 1 .. e : new[Len(p) + 1 + i] = Ended(t)[i]
<1> DEFINE new == AddToClipMimeHistory(t, p)
           e == Nth(Breaks(t), KeptCount(t) + 1)
           k == KeptLines(t)
           q == Ended(p)
           w == q \o k
           rest == SubSeq(t, Len(w) + 1, Len(t))
<1>1. /\ k \in Seq(Symbols) /\ Len(k) = e /\ Len(t) \in Nat /\ e \in 0 .. Len(t) + 1
      /\ \A i \in 1 .. e : k[i] = Ended(t)[i]
  BY KeptAre, EndedType DEF Texts, Symbols
<1>2. p \in Texts /\ \A i \in 1 .. Len(p) : p[i] \in Symbols /\ p[i] # NewLine
  <2>1. \A i \in 1 .. Len(p) : p[i] \in Characters OBVIOUS
  <2>2. p \in Seq(Symbols) BY DEF Symbols
  <2> QED BY <2>1, <2>2, ClipboardAssumption DEF Texts, Symbols
<1>3. /\ Len(p) \in Nat /\ q \in Seq(Symbols) /\ Len(q) = Len(p) + 1
      /\ \A i \in 1 .. Len(p) : q[i] = p[i]
      /\ q[Len(p) + 1] = NewLine
  BY <1>2, EndedType DEF Texts, Symbols
<1>4. new = w \o rest
  <2>1. w = Written(p, k) BY DEF Written, Ended
  <2> HIDE DEF w, k
  <2> QED BY <2>1 DEF AddToClipMimeHistory, Overwrite, k
<1> HIDE DEF q, k, e, new
<1>5. /\ w \in Seq(Symbols) /\ Len(w) = Len(p) + 1 + e
      /\ \A i \in 1 .. Len(p) + 1 + e : w[i] = IF i <= Len(p) + 1 THEN q[i] ELSE k[i - (Len(p) + 1)]
  <2>1. /\ w \in Seq(Symbols) /\ Len(w) = Len(q) + Len(k)
        /\ \A i \in 1 .. Len(q) + Len(k) : w[i] = IF i <= Len(q) THEN q[i] ELSE k[i - Len(q)]
    BY <1>1, <1>3, ConcatProperties
  <2> HIDE DEF w
  <2> QED BY <1>1, <1>3, <2>1
<1>6. Len(p) + 1 + e \in Nat /\ e \in Nat BY <1>1, <1>3
<1> HIDE DEF w
<1>7. rest \in Seq(Symbols) /\ Len(rest) \in Nat
  <2>1. Len(w) + 1 \in Int /\ Len(t) \in Int BY <1>1, <1>5, <1>6
  <2>2. \A i \in 1 .. Len(t) : t[i] \in Symbols BY EndedType
  <2>3. \A i \in Len(w) + 1 .. Len(t) : t[i] \in Symbols BY <1>1, <1>5, <1>6, <2>2
  <2>4. rest \in Seq(Symbols) BY <2>1, <2>3, SubSeqProperties
  <2> HIDE DEF rest
  <2> QED BY <2>4
<1> HIDE DEF rest
<1>8. /\ new \in Seq(Symbols) /\ Len(new) = Len(w) + Len(rest)
      /\ \A i \in 1 .. Len(w) + Len(rest) : new[i] = IF i <= Len(w) THEN w[i] ELSE rest[i - Len(w)]
  BY <1>4, <1>5, <1>7, ConcatProperties
<1>9. \A i \in 1 .. Len(p) + 1 + e : new[i] = w[i] BY <1>5, <1>6, <1>7, <1>8
<1>10. \A i \in 1 .. Len(p) + 1 : new[i] = q[i] BY <1>3, <1>5, <1>6, <1>9
<1>11. \A i \in 1 .. Len(p) : new[i] = p[i] BY <1>3, <1>10
<1>12. new[Len(p) + 1] = NewLine BY <1>3, <1>10
<1>13. ASSUME NEW i \in 1 .. e PROVE new[Len(p) + 1 + i] = Ended(t)[i]
  <2>1. Len(p) + 1 + i \in 1 .. Len(p) + 1 + e /\ ~ (Len(p) + 1 + i <= Len(p) + 1)
        /\ Len(p) + 1 + i - (Len(p) + 1) = i
    BY <1>3, <1>6
  <2> QED BY <1>1, <1>5, <1>9, <2>1
<1>14. Len(new) \in Nat /\ Len(new) >= Len(p) + 1 + e BY <1>5, <1>6, <1>7, <1>8
<1>15. new \in Texts BY <1>8 DEF Texts, Symbols
<1> QED BY <1>2, <1>3, <1>11, <1>12, <1>13, <1>14, <1>15 DEF new, e

LEMMA Shifted ==
    ASSUME NEW S \in SUBSET Nat, IsFiniteSet(S), NEW m \in Nat
    PROVE  IsFiniteSet({m + j : j \in S}) /\ Cardinality({m + j : j \in S}) = Cardinality(S)
<1> DEFINE T == {m + j : j \in S}
           f == [j \in S |-> m + j]
<1>1. \A j \in S : j \in Nat OBVIOUS
<1>2. f \in Injection(S, T)
  <2>1. \A i, j \in S : m + i = m + j => i = j BY <1>1
  <2> QED BY <2>1 DEF Injection, IsInjective
<1>3. f \in Surjection(S, T) BY DEF Surjection
<1>4. ExistsBijection(S, T) BY <1>2, <1>3 DEF ExistsBijection, Bijection
<1> HIDE DEF T, f
<1>5. IsFiniteSet(T) /\ Cardinality(T) = Cardinality(S) BY <1>4, FS_Bijection
<1> QED BY <1>5 DEF T

\* The breaks of the new text, up to the end of what was written: its start,
\* and those of the old text behind the place.
LEMMA BreaksOfAdded ==
    ASSUME NEW t \in Texts, NEW p \in Seq(Characters), NEW b \in Breaks(t),
           b <= Nth(Breaks(t), KeptCount(t) + 1)
    PROVE  LET new == Breaks(AddToClipMimeHistory(t, p))
           IN /\ Len(p) + 1 + b \in new
              /\ Rank(new, Len(p) + 1 + b) = Rank(Breaks(t), b) + 1
<1> DEFINE new == AddToClipMimeHistory(t, p)
           e == Nth(Breaks(t), KeptCount(t) + 1)
           l == Len(p) + 1
           B == Breaks(t)
           N == Breaks(new)
<1>1. /\ new \in Texts /\ Len(p) \in Nat /\ Len(new) \in Nat /\ Len(new) >= l + e
      /\ \A i \in 1 .. Len(p) : new[i] # NewLine
      /\ new[l] = NewLine
      /\ \A i \in 1 .. e : new[l + i] = Ended(t)[i]
  BY AddedIs
<1>2. e \in B /\ e \in 0 .. Len(t) + 1 /\ Len(t) \in Nat BY KeptAre, EndedType
<1>3. b \in 0 .. e BY <1>2, BreaksAre
<1>4. /\ B \in SUBSET (0 .. Len(t) + 1) /\ 0 \in B
      /\ \A i \in B : i # 0 => Ended(t)[i] = NewLine
      /\ \A i \in 1 .. Len(t) : Ended(t)[i] = NewLine => i \in B
  BY BreaksAre
<1> HIDE DEF new
<1>5. /\ N \in SUBSET (0 .. Len(new) + 1) /\ 0 \in N
      /\ \A i \in N : i # 0 => Ended(new)[i] = NewLine
      /\ \A i \in 1 .. Len(new) : Ended(new)[i] = NewLine => i \in N
  BY <1>1, BreaksAre
<1>6. \A i \in 1 .. Len(new) : Ended(new)[i] = new[i] BY <1>1, EndedType
<1> HIDE DEF B, N, e
<1>7. \A i \in 1 .. e : i \in B <=> Ended(t)[i] = NewLine
  <2> SUFFICES ASSUME NEW i \in 1 .. e PROVE i \in B <=> Ended(t)[i] = NewLine OBVIOUS
  <2>1. i # 0 /\ (i \in 1 .. Len(t) \/ i = e) BY <1>2
  <2> QED BY <1>2, <1>4, <2>1
<1>8. \A i \in 1 .. l + e : i \in N <=> new[i] = NewLine
  <2> SUFFICES ASSUME NEW i \in 1 .. l + e PROVE i \in N <=> new[i] = NewLine OBVIOUS
  <2>1. i # 0 /\ i \in 1 .. Len(new) BY <1>1, <1>2
  <2> QED BY <1>5, <1>6, <2>1
<1>9. \A j \in 1 .. e : l + j \in N <=> j \in B
  <2> SUFFICES ASSUME NEW j \in 1 .. e PROVE l + j \in N <=> j \in B OBVIOUS
  <2>1. l + j \in 1 .. l + e BY <1>1, <1>2
  <2> QED BY <1>1, <1>7, <1>8, <2>1
<1>10. l \in N /\ \A i \in 1 .. Len(p) : i \notin N
  <2>1. l \in 1 .. l + e /\ \A i \in 1 .. Len(p) : i \in 1 .. l + e BY <1>1, <1>2
  <2> QED BY <1>1, <1>8, <2>1
<1>11. l + b \in N
  <2>1. CASE b = 0
    <3>1. l + b = l BY <1>1, <2>1
    <3> QED BY <1>10, <3>1
  <2>2. CASE b # 0
    <3>1. b \in 1 .. e /\ b \in B BY <1>2, <1>3, <2>2 DEF B
    <3> QED BY <1>9, <3>1
  <2> QED BY <2>1, <2>2
<1> DEFINE U == UpTo(B, b)
           T == {l + j : j \in U}
<1>12. UpTo(N, l + b) = T \cup {0}
  <2>1. ASSUME NEW i \in UpTo(N, l + b), i # 0 PROVE i \in T
    <3>1. i \in N /\ i \in 1 .. l + b BY <1>1, <1>3, <1>5, <2>1 DEF UpTo
    <3>2. ~ (i \in 1 .. Len(p)) BY <1>10, <3>1
    <3>3. i - l \in 0 .. b /\ i = l + (i - l) BY <1>1, <1>3, <3>1, <3>2
    <3>4. i - l \in B
      <4>1. CASE i - l = 0 BY <1>4, <4>1
      <4>2. CASE i - l # 0
        <5>1. i - l \in 1 .. e BY <1>2, <1>3, <3>3, <4>2
        <5> QED BY <1>9, <3>1, <3>3, <5>1
      <4> QED BY <4>1, <4>2
    <3>5. i - l \in U BY <3>3, <3>4 DEF UpTo
    <3> QED BY <3>3, <3>5
  <2>2. ASSUME NEW j \in U PROVE l + j \in UpTo(N, l + b)
    <3>1. j \in B /\ j \in 0 .. b BY <1>3, <1>4 DEF UpTo
    <3>2. l + j <= l + b /\ l + j \in Int BY <1>1, <1>3, <3>1
    <3>3. l + j \in N
      <4>1. CASE j = 0
        <5>1. l + j = l BY <1>1, <4>1
        <5> QED BY <1>10, <5>1
      <4>2. CASE j # 0
        <5>1. j \in 1 .. e BY <1>2, <1>3, <3>1, <4>2
        <5> QED BY <1>9, <3>1, <5>1
      <4> QED BY <4>1, <4>2
    <3> QED BY <3>2, <3>3 DEF UpTo
  <2>3. 0 \in UpTo(N, l + b)
    <3>1. 0 <= l + b BY <1>1, <1>3
    <3> QED BY <1>5, <3>1 DEF UpTo
  <2> HIDE DEF U
  <2> QED BY <2>1, <2>2, <2>3
<1>13. U \in SUBSET Nat /\ IsFiniteSet(U)
  <2>1. Len(t) + 1 \in Nat BY <1>2
  <2>2. IsFiniteSet(B) BY <1>4, <2>1, Ranks
  <2>3. U \in SUBSET B BY DEF UpTo
  <2>4. IsFiniteSet(U) BY <2>2, <2>3, FS_Subset
  <2>5. \A i \in B : i \in Nat BY <1>4
  <2> QED BY <2>3, <2>4, <2>5
<1>14. IsFiniteSet(T) /\ Cardinality(T) = Cardinality(U)
  <2>1. l \in Nat BY <1>1
  <2> HIDE DEF U, l
  <2> QED BY <1>13, <2>1, Shifted
<1>15. 0 \notin T
  <2>1. \A j \in U : j \in Nat BY <1>13
  <2>2. \A j \in U : l + j # 0 BY <1>1, <2>1
  <2> QED BY <2>2
<1>16. Cardinality(T \cup {0}) = Cardinality(U) + 1
  <2> HIDE DEF T
  <2> QED BY <1>14, <1>15, FS_AddElement
<1>17. Rank(N, l + b) = Rank(B, b) + 1 BY <1>12, <1>16 DEF Rank
<1> QED BY <1>11, <1>17 DEF N, B, new

\* The lines of the new text are the place and the lines that were kept.
LEMMA LinesOfAdded ==
    ASSUME NEW t \in Texts, NEW p \in Seq(Characters)
    PROVE  LET new == AddToClipMimeHistory(t, p)
           IN /\ new \in Texts
              /\ LineCount(new) \in Nat /\ LineCount(new) >= KeptCount(t) + 1
              /\ Line(new, 1) = p
              /\ \A k \in 1 .. KeptCount(t) : Line(new, k + 1) = Line(t, k)
<1> DEFINE new == AddToClipMimeHistory(t, p)
           n == KeptCount(t)
           e == Nth(Breaks(t), n + 1)
           l == Len(p) + 1
           B == Breaks(t)
           N == Breaks(new)
<1>1. /\ new \in Texts /\ Len(p) \in Nat /\ Len(new) \in Nat /\ Len(new) >= l + e
      /\ \A i \in 1 .. Len(p) : new[i] = p[i] /\ p[i] \in Symbols
      /\ \A i \in 1 .. e : new[l + i] = Ended(t)[i]
  BY AddedIs
<1>2. /\ n \in Nat /\ n + 1 \in 1 .. Cardinality(B) /\ e \in B /\ e \in 0 .. Len(t) + 1
      /\ Len(t) \in Nat
  BY KeptAre, EndedType
<1>3. B \in SUBSET (0 .. Len(t) + 1) /\ 0 \in B BY BreaksAre
<1> HIDE DEF new
<1>4. /\ N \in SUBSET (0 .. Len(new) + 1) /\ 0 \in N
      /\ LineCount(new) = Cardinality(N) - 1 /\ LineCount(new) \in Nat
  BY <1>1, BreaksAre
<1>5. Len(t) + 1 \in Nat /\ Len(new) + 1 \in Nat BY <1>1, <1>2
<1>6. Cardinality(N) \in Nat /\ Cardinality(B) \in Nat BY <1>3, <1>4, <1>5, Ranks
<1> HIDE DEF B, N, n, l
\* The k-th break of the old text is the one after the k-th of the new text.
<1>7. ASSUME NEW k \in 1 .. n + 1
      PROVE  /\ Nth(B, k) \in 0 .. e
             /\ k + 1 \in 1 .. Cardinality(N) /\ Nth(N, k + 1) = l + Nth(B, k)
  <2> DEFINE b == Nth(B, k)
  <2>1. k \in 1 .. Cardinality(B) /\ k <= n + 1 /\ k \in Nat BY <1>2, <1>6
  <2>2. b \in B /\ Rank(B, b) = k BY <1>3, <1>5, <2>1, NthIs
  <2>3. b <= e BY <1>2, <1>3, <1>5, <2>1, NthGrows DEF B
  <2>4. b \in 0 .. e
    <3> HIDE DEF b
    <3> QED BY <1>2, <1>3, <2>2, <2>3
  <2>5. l + b \in N /\ Rank(N, l + b) = k + 1
    <3>1. b \in Breaks(t) /\ b <= Nth(Breaks(t), KeptCount(t) + 1) BY <2>2, <2>3 DEF B, n
    <3> HIDE DEF b, e
    <3>2. /\ Len(p) + 1 + b \in Breaks(AddToClipMimeHistory(t, p))
          /\ Rank(Breaks(AddToClipMimeHistory(t, p)), Len(p) + 1 + b) = Rank(Breaks(t), b) + 1
      BY <3>1, BreaksOfAdded
    <3> QED BY <2>2, <3>2 DEF l, N, B, new
  <2>6. Rank(N, l + b) \in 1 .. Cardinality(N) /\ Nth(N, Rank(N, l + b)) = l + b
    <3> HIDE DEF b
    <3> QED BY <1>4, <1>5, <2>5, NthOfRank
  <2> QED BY <2>4, <2>5, <2>6
<1>8. LineCount(new) \in Nat /\ LineCount(new) >= n + 1
  <2>1. n + 1 \in 1 .. n + 1 /\ n + 1 + 1 \in Int BY <1>2
  <2>2. n + 1 + 1 \in 1 .. Cardinality(N) BY <1>7, <2>1
  <2> QED BY <1>2, <1>4, <1>6, <2>2
<1>9. Nth(N, 1) = 0 /\ Nth(N, 2) = l
  <2>1. UpTo(N, 0) = {0}
    <3>1. \A i \in N : i <= 0 <=> i = 0 BY <1>1, <1>4
    <3> QED BY <1>4, <3>1 DEF UpTo
  <2>2. Rank(N, 0) = 1 BY <2>1, FS_Singleton DEF Rank
  <2>3. Nth(N, 1) = 0 BY <1>4, <1>5, <2>2, NthOfRank
  <2>4. UpTo(B, 0) = {0}
    <3>1. \A i \in B : i <= 0 <=> i = 0 BY <1>2, <1>3
    <3> QED BY <1>3, <3>1 DEF UpTo
  <2>5. Rank(B, 0) = 1 BY <2>4, FS_Singleton DEF Rank
  <2>6. Nth(B, 1) = 0 BY <1>3, <1>5, <2>5, NthOfRank
  <2>7. 1 \in 1 .. n + 1 /\ 1 + 1 = 2 BY <1>2
  <2>8. Nth(N, 2) = l + 0 BY <1>7, <2>6, <2>7
  <2> QED BY <1>1, <2>3, <2>8 DEF l
<1>10. Line(new, 1) = p
  <2>1. Line(new, 1) = SubSeq(new, 0 + 1, l - 1)
    <3>1. Line(new, 1) = SubSeq(new, Nth(N, 1) + 1, Nth(N, 1 + 1) - 1) BY DEF Line, N
    <3>2. 1 + 1 = 2 OBVIOUS
    <3> QED BY <1>9, <3>1, <3>2
  <2>2. 0 + 1 = 1 /\ l - 1 = Len(p) BY <1>1 DEF l
  <2>3. Line(new, 1) = SubSeq(new, 1, Len(p)) BY <2>1, <2>2
  <2>4. \A i \in 1 .. Len(p) : new[i] \in Symbols BY <1>1
  <2>5. 1 \in Int /\ Len(p) \in Int BY <1>1
  <2>6. /\ SubSeq(new, 1, Len(p)) \in Seq(Symbols)
        /\ Len(SubSeq(new, 1, Len(p))) = IF 1 <= Len(p) THEN Len(p) - 1 + 1 ELSE 0
        /\ \A i \in 1 .. Len(p) - 1 + 1 : SubSeq(new, 1, Len(p))[i] = new[1 + i - 1]
    BY <2>4, <2>5, SubSeqProperties
  <2>7. Len(SubSeq(new, 1, Len(p))) = Len(p) BY <1>1, <2>6
  <2>8. \A i \in 1 .. Len(p) : SubSeq(new, 1, Len(p))[i] = p[i]
    <3>1. Len(p) - 1 + 1 = Len(p) /\ \A i \in 1 .. Len(p) : 1 + i - 1 = i BY <1>1
    <3> QED BY <1>1, <2>6, <3>1
  <2>9. p \in Seq(Symbols) BY DEF Symbols
  <2> DEFINE s == SubSeq(new, 1, Len(p))
  <2> HIDE DEF s
  <2>10. s = p BY <2>6, <2>7, <2>8, <2>9, SeqEqual DEF s
  <2> QED BY <2>3, <2>10 DEF s
<1>11. ASSUME NEW k \in 1 .. n PROVE Line(new, k + 1) = Line(t, k)
  <2> DEFINE a == Nth(B, k)
             z == Nth(B, k + 1)
  <2>1. k \in 1 .. n + 1 /\ k + 1 \in 1 .. n + 1 /\ k \in Nat BY <1>2
  <2>2. Nth(N, k + 1) = l + a /\ Nth(N, k + 1 + 1) = l + z /\ a \in 0 .. e /\ z \in 0 .. e
    BY <1>7, <2>1
  <2>3. Line(t, k) = SubSeq(t, a + 1, z - 1) BY DEF Line, B
  <2> HIDE DEF a, z, e
  <2>4. a \in Int /\ z \in Int /\ l \in Int /\ e \in Nat /\ z <= e /\ e <= Len(t) + 1 /\ 0 <= a
    BY <1>1, <1>2, <2>2 DEF l
  <2>5. Line(new, k + 1) = SubSeq(new, l + a + 1, l + z - 1)
    <3>1. Line(new, k + 1) = SubSeq(new, Nth(N, k + 1) + 1, Nth(N, k + 1 + 1) - 1) BY DEF Line, N
    <3> DEFINE f == Nth(N, k + 1)
               h == Nth(N, k + 1 + 1)
    <3>2. f = l + a /\ h = l + z BY <2>2
    <3>3. Line(new, k + 1) = SubSeq(new, f + 1, h - 1) BY <3>1
    <3> HIDE DEF a, z, f, h
    <3>4. f + 1 = l + a + 1 BY <3>2
    <3>5. h - 1 = l + z - 1 BY <2>4, <3>2
    <3> QED BY <3>3, <3>4, <3>5
  <2>6. \A i \in a + 1 .. z - 1 : i \in 1 .. Len(t) /\ i \in 1 .. e BY <1>2, <2>4
  <2>7. \A i \in 1 .. Len(t) : Ended(t)[i] = t[i] /\ t[i] \in Symbols BY EndedType
  <2>8. \A i \in a + 1 .. z - 1 : new[l + i] = t[i] /\ t[i] \in Symbols BY <1>1, <2>6, <2>7
  <2> DEFINE u == SubSeq(t, a + 1, z - 1)
             v == SubSeq(new, l + a + 1, l + z - 1)
  <2>9. /\ u \in Seq(Symbols)
        /\ Len(u) = IF a + 1 <= z - 1 THEN z - 1 - (a + 1) + 1 ELSE 0
        /\ \A i \in 1 .. z - 1 - (a + 1) + 1 : u[i] = t[a + 1 + i - 1]
    <3>1. a + 1 \in Int /\ z - 1 \in Int BY <2>4
    <3> QED BY <2>8, <3>1, SubSeqProperties
  <2>10. /\ v \in Seq(Symbols)
         /\ Len(v) = IF l + a + 1 <= l + z - 1 THEN l + z - 1 - (l + a + 1) + 1 ELSE 0
         /\ \A i \in 1 .. l + z - 1 - (l + a + 1) + 1 : v[i] = new[l + a + 1 + i - 1]
    <3>1. l + a + 1 \in Int /\ l + z - 1 \in Int BY <2>4
    <3>2. ASSUME NEW i \in l + a + 1 .. l + z - 1 PROVE new[i] \in Symbols
      <4>1. i - l \in a + 1 .. z - 1 /\ l + (i - l) = i BY <2>4
      <4> QED BY <2>8, <4>1
    <3> DEFINE c == l + a + 1
               d == l + z - 1
    <3> HIDE DEF c, d
    <3>3. c \in Int /\ d \in Int /\ \A i \in c .. d : new[i] \in Symbols BY <3>1, <3>2 DEF c, d
    <3>4. /\ SubSeq(new, c, d) \in Seq(Symbols)
          /\ Len(SubSeq(new, c, d)) = IF c <= d THEN d - c + 1 ELSE 0
          /\ \A i \in 1 .. d - c + 1 : SubSeq(new, c, d)[i] = new[c + i - 1]
      BY <3>3, SubSeqProperties
    <3>5. v = SubSeq(new, c, d) BY DEF c, d
    <3> HIDE DEF v
    <3>6. c = l + a + 1 /\ d = l + z - 1 BY DEF c, d
    <3>7. /\ c <= d <=> l + a + 1 <= l + z - 1
          /\ d - c + 1 = l + z - 1 - (l + a + 1) + 1
          /\ \A i \in Int : c + i - 1 = l + a + 1 + i - 1
      BY <2>4, <3>6
    <3>8. d - c + 1 \in Int BY <3>3
    <3> QED BY <3>4, <3>5, <3>7, <3>8
  <2> HIDE DEF u, v
  <2>11. Len(u) = Len(v)
    <3>1. a + 1 <= z - 1 <=> l + a + 1 <= l + z - 1 BY <2>4
    <3>2. z - 1 - (a + 1) + 1 = l + z - 1 - (l + a + 1) + 1 BY <2>4
    <3> QED BY <2>9, <2>10, <3>1, <3>2
  <2>12. \A i \in 1 .. Len(u) : u[i] = v[i]
    <3> SUFFICES ASSUME NEW i \in 1 .. Len(u) PROVE u[i] = v[i] OBVIOUS
    <3>1. /\ i \in 1 .. z - 1 - (a + 1) + 1 /\ i \in 1 .. l + z - 1 - (l + a + 1) + 1
          /\ a + 1 + i - 1 = a + i /\ l + a + 1 + i - 1 = l + (a + i)
          /\ a + i \in a + 1 .. z - 1
      BY <2>4, <2>9
    <3>2. u[i] = t[a + i] /\ v[i] = new[l + (a + i)] BY <2>9, <2>10, <3>1
    <3> QED BY <2>8, <3>1, <3>2
  <2>13. u = v BY <2>9, <2>10, <2>11, <2>12, SeqEqual
  <2> QED BY <2>3, <2>5, <2>13 DEF u, v
<1> QED BY <1>1, <1>8, <1>10, <1>11 DEF n, new

-----------------------------------------------------------------------------
(***************************************************************************)
(* A list without the repetitions.                                         *)
(***************************************************************************)
LEMMA OnceIs ==
    ASSUME NEW n \in Nat, NEW s, DOMAIN s = 1 .. n
    PROVE  /\ \A i, j \in DOMAIN Once(s) : Once(s)[i] = Once(s)[j] => i = j
           /\ \A k \in 1 .. n : \E i \in DOMAIN Once(s) :
                /\ Once(s)[i] = s[k]
                /\ \A h \in 1 .. i - 1 : \E l \in 1 .. k - 1 : Once(s)[h] = s[l]
<1> DEFINE F == {i \in DOMAIN s : \A j \in 1 .. i - 1 : s[j] # s[i]}
           D == Once(s)
<1>1. F \in SUBSET (0 .. n) /\ F \in SUBSET (1 .. n) OBVIOUS
<1>2. \A f \in F : \A j \in 1 .. f - 1 : s[j] # s[f] OBVIOUS
<1>3. D = [k \in 1 .. Cardinality(F) |-> s[Nth(F, k)]] BY DEF Once
<1>4. \A x \in 1 .. n : (\A j \in 1 .. x - 1 : s[j] # s[x]) => x \in F OBVIOUS
<1> HIDE DEF F, D
<1>5. Cardinality(F) \in Nat BY <1>1, Ranks
<1>6. ASSUME NEW i \in DOMAIN D, NEW j \in DOMAIN D, i < j PROVE D[i] # D[j]
  <2> DEFINE x == Nth(F, i)
             y == Nth(F, j)
  <2>1. i \in 1 .. Cardinality(F) /\ j \in 1 .. Cardinality(F) /\ D[i] = s[x] /\ D[j] = s[y]
    BY <1>3
  <2>2. x \in F /\ y \in F /\ x < y BY <1>1, <1>6, <2>1, NthGrows
  <2> HIDE DEF x, y
  <2>3. x \in 1 .. y - 1 BY <1>1, <2>2
  <2> QED BY <1>2, <2>1, <2>2, <2>3
<1>7. ASSUME NEW i \in DOMAIN D, NEW j \in DOMAIN D, D[i] = D[j] PROVE i = j
  <2>1. i \in Int /\ j \in Int BY <1>3, <1>5
  <2> QED BY <1>6, <1>7, <2>1
<1>8. ASSUME NEW k \in 1 .. n
      PROVE  \E i \in DOMAIN D :
                /\ D[i] = s[k]
                /\ \A h \in 1 .. i - 1 : \E l \in 1 .. k - 1 : D[h] = s[l]
  <2> DEFINE S == {x \in 1 .. n : s[x] = s[k]}
  <2>1. PICK f \in S : \A x \in S : f <= x
    <3>1. S \in SUBSET Nat /\ k \in S OBVIOUS
    <3> HIDE DEF S
    <3> QED BY <3>1, LeastNumber
  <2>2. f \in 1 .. n /\ s[f] = s[k] /\ f <= k BY <2>1
  <2>3. \A j \in 1 .. f - 1 : s[j] # s[f]
    <3> SUFFICES ASSUME NEW j \in 1 .. f - 1, s[j] = s[f] PROVE FALSE OBVIOUS
    <3>1. j \in 1 .. n /\ ~ (f <= j) BY <2>2
    <3> QED BY <2>1, <2>2, <3>1
  <2>4. f \in F BY <1>4, <2>2, <2>3
  <2> DEFINE i == Rank(F, f)
  <2>5. i \in 1 .. Cardinality(F) /\ Nth(F, i) = f BY <1>1, <2>4, NthOfRank
  <2> HIDE DEF i
  <2>6. i \in DOMAIN D /\ D[i] = s[k] BY <1>3, <2>2, <2>5
  <2>7. ASSUME NEW h \in 1 .. i - 1 PROVE \E l \in 1 .. k - 1 : D[h] = s[l]
    <3>1. h \in 1 .. Cardinality(F) /\ h < i BY <1>5, <2>5
    <3> DEFINE l == Nth(F, h)
    <3>2. l \in F /\ l < f BY <1>1, <2>5, <3>1, NthGrows
    <3>3. D[h] = s[l] BY <1>3, <3>1
    <3> HIDE DEF l
    <3>4. l \in 1 .. k - 1 BY <1>1, <2>2, <3>2
    <3> QED BY <3>3, <3>4
  <2> QED BY <2>6, <2>7
<1> QED BY <1>7, <1>8 DEF D
-----------------------------------------------------------------------------
(***************************************************************************)
(* What a paste adds, once for each url.                                   *)
(***************************************************************************)
\* The text begins with the places s, as far as they are kept.
Begins(t, s) == \A k \in 1 .. Smaller(MimeHistorySize, Len(s)) :
    k <= LineCount(t) /\ Line(t, k) = UrlOf[s[k]]

LEMMA UrlsAre ==
    ASSUME NEW d \in Dirs PROVE UrlOf[d] \in Seq(Characters)
BY ClipboardAssumption

LEMMA BeginsAdded ==
    ASSUME NEW t \in Texts, NEW d \in Dirs, NEW s \in Seq(Dirs), NEW s1 \in Seq(Dirs),
           Len(s1) = Len(s) + 1, s1[1] = d, \A k \in 1 .. Len(s) : s1[k + 1] = s[k],
           Begins(t, s)
    PROVE  /\ AddToClipMimeHistory(t, UrlOf[d]) \in Texts
           /\ Begins(AddToClipMimeHistory(t, UrlOf[d]), s1)
<1> DEFINE new == AddToClipMimeHistory(t, UrlOf[d])
           m == MimeHistorySize
<1>1. UrlOf[d] \in Seq(Characters) BY UrlsAre
<1>2. /\ new \in Texts /\ LineCount(new) \in Nat /\ LineCount(new) >= KeptCount(t) + 1
      /\ Line(new, 1) = UrlOf[d]
      /\ \A k \in 1 .. KeptCount(t) : Line(new, k + 1) = Line(t, k)
  BY <1>1, LinesOfAdded
<1>3. KeptCount(t) = Smaller(m, LineCount(t)) /\ LineCount(t) \in Nat /\ m \in Nat /\ m # 0
      /\ KeptCount(t) \in Nat
  BY KeptAre, BreaksAre, MimeHistoryAssumption
<1> HIDE DEF new, m
<1>4. Len(s) \in Nat OBVIOUS
<1>5. ASSUME NEW k \in 1 .. Smaller(m, Len(s1))
      PROVE  k <= LineCount(new) /\ Line(new, k) = UrlOf[s1[k]]
  <2>1. k \in Nat /\ 1 <= k /\ k <= m /\ k <= Len(s) + 1 BY <1>3, <1>4 DEF Smaller
  <2>2. CASE k = 1 BY <1>2, <1>3, <2>2
  <2>3. CASE k # 1
    <3> DEFINE j == k - 1
    <3>1. j \in 1 .. Smaller(m, Len(s)) /\ j \in 1 .. Len(s) /\ k = j + 1
      BY <1>3, <1>4, <2>1, <2>3 DEF Smaller
    <3> HIDE DEF j
    <3>2. j <= LineCount(t) /\ Line(t, j) = UrlOf[s[j]] BY <3>1 DEF Begins, m
    <3>3. j \in 1 .. KeptCount(t) BY <1>3, <1>4, <2>1, <3>1, <3>2 DEF Smaller
    <3>4. k <= LineCount(new) BY <1>2, <1>3, <3>1, <3>3
    <3> QED BY <1>2, <3>1, <3>2, <3>3, <3>4
  <2> QED BY <2>2, <2>3
<1> QED BY <1>2, <1>5 DEF Begins, new, m

\* The texts that the additions go through.
Additions(t, p, n, f) ==
    f = [i \in 0 .. n |-> IF i = 0 THEN t ELSE AddToClipMimeHistory(f[i - 1], p)]

LEMMA AdditionsExist ==
    ASSUME NEW t, NEW p PROVE \A n \in Nat : \E f : Additions(t, p, n, f)
<1> DEFINE S == {n \in Nat : ~ \E f : Additions(t, p, n, f)}
<1>1. ASSUME S # {} PROVE FALSE
  <2>1. PICK m \in S : \A j \in S : m <= j
    <3>1. S \in SUBSET Nat OBVIOUS
    <3> HIDE DEF S
    <3> QED BY <1>1, <3>1, LeastNumber
  <2>2. m \in Nat /\ ~ \E f : Additions(t, p, m, f) OBVIOUS
  <2>3. m # 0
    <3> DEFINE f == [i \in 0 .. 0 |-> t]
    <3>1. f = [i \in 0 .. 0 |-> IF i = 0 THEN t ELSE AddToClipMimeHistory(f[i - 1], p)] OBVIOUS
    <3>2. Additions(t, p, 0, f) BY <3>1 DEF Additions
    <3> QED BY <2>2, <3>2
  <2>4. m - 1 \in Nat /\ ~ (m <= m - 1) BY <2>2, <2>3
  <2>5. PICK f : Additions(t, p, m - 1, f) BY <2>1, <2>4
  <2> DEFINE A(x) == AddToClipMimeHistory(x, p)
             g == [i \in 0 .. m |-> IF i = m THEN A(f[m - 1]) ELSE f[i]]
             h == [i \in 0 .. m |-> IF i = 0 THEN t ELSE A(g[i - 1])]
  <2>6. f = [i \in 0 .. m - 1 |-> IF i = 0 THEN t ELSE A(f[i - 1])] BY <2>5 DEF Additions
  <2> HIDE DEF A
  <2>7. \A i \in 0 .. m - 1 : f[i] = IF i = 0 THEN t ELSE A(f[i - 1]) BY <2>6
  <2>8. g[m] = A(f[m - 1]) /\ \A i \in 0 .. m - 1 : g[i] = f[i] BY <2>2, <2>3
  <2>9. \A i \in 0 .. m : g[i] = h[i]
    <3> SUFFICES ASSUME NEW i \in 0 .. m PROVE g[i] = h[i] OBVIOUS
    <3>1. h[i] = IF i = 0 THEN t ELSE A(g[i - 1]) OBVIOUS
    <3> HIDE DEF g, h
    <3>2. CASE i = m
      <4>1. i - 1 \in 0 .. m - 1 BY <2>4, <3>2
      <4>2. g[i - 1] = f[i - 1] BY <2>8, <4>1
      <4> QED BY <2>3, <2>8, <3>1, <3>2, <4>2
    <3>3. CASE i # m
      <4>1. i \in 0 .. m - 1 /\ (i # 0 => i - 1 \in 0 .. m - 1) BY <2>4, <3>3
      <4>2. i # 0 => g[i - 1] = f[i - 1] BY <2>8, <4>1
      <4> QED BY <2>7, <2>8, <3>1, <4>1, <4>2
    <3> QED BY <3>2, <3>3
  <2>10. g = h BY <2>9
  <2>11. Additions(t, p, m, g) BY <2>10 DEF Additions, A
  <2> QED BY <2>2, <2>11
<1> QED BY <1>1

\* The place d before the places s, n times.
Again(d, n, s) == [i \in 1 .. n |-> d] \o s

\* d on the first n places, s after them.
RepeatsFirst(r, d, n, s) ==
    /\ r \in Seq(Dirs) /\ Len(r) = n + Len(s) /\ Len(s) \in Nat
    /\ \A k \in 1 .. n : r[k] = d
    /\ \A k \in 1 .. Len(s) : r[n + k] = s[k]

LEMMA AgainIs ==
    ASSUME NEW d \in Dirs, NEW n \in Nat, NEW s \in Seq(Dirs)
    PROVE  RepeatsFirst(Again(d, n, s), d, n, s)
<1> DEFINE q == [i \in 1 .. n |-> d]
<1>1. q \in Seq(Dirs) /\ Len(q) = n /\ \A i \in 1 .. n : q[i] = d OBVIOUS
<1>2. Len(s) \in Nat OBVIOUS
<1>3. Again(d, n, s) = q \o s BY DEF Again
<1> HIDE DEF q
<1>4. /\ q \o s \in Seq(Dirs) /\ Len(q \o s) = Len(q) + Len(s)
      /\ \A i \in 1 .. Len(q) + Len(s) : (q \o s)[i] = IF i <= Len(q) THEN q[i] ELSE s[i - Len(q)]
  BY <1>1, ConcatProperties
<1>5. ASSUME NEW k \in 1 .. n PROVE (q \o s)[k] = d
  <2>1. k \in 1 .. Len(q) + Len(s) /\ k <= Len(q) BY <1>1, <1>2
  <2> QED BY <1>1, <1>4, <2>1
<1>6. ASSUME NEW k \in 1 .. Len(s) PROVE (q \o s)[n + k] = s[k]
  <2>1. n + k \in 1 .. Len(q) + Len(s) /\ ~ (n + k <= Len(q)) /\ n + k - Len(q) = k
    BY <1>1, <1>2
  <2> QED BY <1>4, <2>1
<1> QED BY <1>1, <1>2, <1>3, <1>4, <1>5, <1>6 DEF RepeatsFirst

\* One place more.
LEMMA AgainOnce ==
    ASSUME NEW d \in Dirs, NEW n \in Nat, NEW s \in Seq(Dirs)
    PROVE  /\ Again(d, 0, s) = s
           /\ Len(Again(d, n + 1, s)) = Len(Again(d, n, s)) + 1
           /\ Again(d, n + 1, s)[1] = d
           /\ \A k \in 1 .. Len(Again(d, n, s)) : Again(d, n + 1, s)[k + 1] = Again(d, n, s)[k]
<1> DEFINE a == Again(d, n, s)
           b == Again(d, n + 1, s)
           z == Again(d, 0, s)
<1>0. /\ RepeatsFirst(a, d, n, s) /\ RepeatsFirst(b, d, n + 1, s) /\ RepeatsFirst(z, d, 0, s)
  <2>1. n + 1 \in Nat /\ 0 \in Nat OBVIOUS
  <2> QED BY <2>1, AgainIs
<1>1. /\ a \in Seq(Dirs) /\ Len(a) = n + Len(s) /\ Len(s) \in Nat
      /\ \A k \in 1 .. n : a[k] = d
      /\ \A k \in 1 .. Len(s) : a[n + k] = s[k]
  BY <1>0 DEF RepeatsFirst
<1>2. /\ b \in Seq(Dirs) /\ Len(b) = n + 1 + Len(s)
      /\ \A k \in 1 .. n + 1 : b[k] = d
      /\ \A k \in 1 .. Len(s) : b[n + 1 + k] = s[k]
  BY <1>0 DEF RepeatsFirst
<1>3. /\ z \in Seq(Dirs) /\ Len(z) = 0 + Len(s)
      /\ \A k \in 1 .. Len(s) : z[0 + k] = s[k]
  BY <1>0 DEF RepeatsFirst
<1> HIDE DEF a, b, z
<1>4. z = s
  <2>1. Len(z) = Len(s) /\ \A k \in 1 .. Len(z) : 0 + k = k BY <1>1, <1>3
  <2>2. \A k \in 1 .. Len(z) : z[k] = s[k] BY <1>3, <2>1
  <2> QED BY <1>3, <2>1, <2>2, SeqEqual
<1>5. ASSUME NEW k \in 1 .. Len(a) PROVE b[k + 1] = a[k]
  <2>1. CASE k <= n
    <3>1. k \in 1 .. n /\ k + 1 \in 1 .. n + 1 BY <1>1, <2>1
    <3> QED BY <1>1, <1>2, <3>1
  <2>2. CASE ~ (k <= n)
    <3>1. k - n \in 1 .. Len(s) /\ n + (k - n) = k /\ n + 1 + (k - n) = k + 1 BY <1>1, <2>2
    <3> QED BY <1>1, <1>2, <3>1
  <2> QED BY <2>1, <2>2
<1>6. Len(b) = Len(a) + 1 /\ b[1] = d
  <2>1. 1 \in 1 .. n + 1 /\ n + 1 + Len(s) = n + Len(s) + 1 BY <1>1
  <2> QED BY <1>1, <1>2, <2>1
<1> QED BY <1>4, <1>5, <1>6 DEF a, b, z

LEMMA NotedBegins ==
    ASSUME NEW t \in Texts, NEW d \in Dirs, NEW s \in Seq(Dirs), NEW n \in Nat, Begins(t, s)
    PROVE  Noted(t, UrlOf[d], n) \in Texts /\ Begins(Noted(t, UrlOf[d], n), Again(d, n, s))
<1> DEFINE p == UrlOf[d]
           after == CHOOSE f : Additions(t, p, n, f)
<1>1. Noted(t, p, n) = after[n] BY DEF Noted, Additions
<1>2. Additions(t, p, n, after)
  <2>1. \E f : Additions(t, p, n, f) BY AdditionsExist
  <2> QED BY <2>1
<1> HIDE DEF after
<1>3. \A i \in 0 .. n : after[i] = IF i = 0 THEN t ELSE AddToClipMimeHistory(after[i - 1], p)
  BY <1>2 DEF Additions
<1> DEFINE Good(i) == after[i] \in Texts /\ Begins(after[i], Again(d, i, s))
           S == {i \in 0 .. n : ~ Good(i)}
<1>4. ASSUME S # {} PROVE FALSE
  <2>1. PICK m \in S : \A j \in S : m <= j
    <3>1. S \in SUBSET Nat OBVIOUS
    <3> HIDE DEF S
    <3> QED BY <1>4, <3>1, LeastNumber
  <2>2. m \in 0 .. n /\ ~ Good(m) OBVIOUS
  <2>3. m # 0
    <3>1. 0 \in 0 .. n OBVIOUS
    <3>2. after[0] = t BY <1>3, <3>1
    <3>3. Good(0) BY <3>2, AgainOnce
    <3> QED BY <2>2, <3>3
  <2> DEFINE j == m - 1
  <2>4. j \in 0 .. n /\ j \in Nat /\ m = j + 1 /\ ~ (m <= j) BY <2>2, <2>3
  <2>5. Good(j) BY <2>1, <2>4
  <2>6. after[m] = AddToClipMimeHistory(after[j], p) BY <1>3, <2>2, <2>3
  <2> HIDE DEF j
  <2>7. Again(d, j, s) \in Seq(Dirs) /\ Again(d, j + 1, s) \in Seq(Dirs)
    <3>1. j + 1 \in Nat BY <2>4
    <3> QED BY <2>4, <3>1, AgainIs DEF RepeatsFirst
  <2>8. /\ Len(Again(d, j + 1, s)) = Len(Again(d, j, s)) + 1
        /\ Again(d, j + 1, s)[1] = d
        /\ \A k \in 1 .. Len(Again(d, j, s)) : Again(d, j + 1, s)[k + 1] = Again(d, j, s)[k]
    BY <2>4, AgainOnce
  <2>9. /\ AddToClipMimeHistory(after[j], p) \in Texts
        /\ Begins(AddToClipMimeHistory(after[j], p), Again(d, j + 1, s))
    BY <2>5, <2>7, <2>8, BeginsAdded
  <2>10. Good(m) BY <2>4, <2>6, <2>9
  <2> QED BY <2>2, <2>10
<1>5. Good(n)
  <2>1. n \in 0 .. n OBVIOUS
  <2> QED BY <1>4, <2>1
<1> QED BY <1>1, <1>5
-----------------------------------------------------------------------------
(***************************************************************************)
(* Types.                                                                  *)
(***************************************************************************)
LEMMA Modulo ==
    ASSUME NEW i \in Int
    PROVE  /\ Modulas \in Nat \ {0} /\ At(i) \in Slots
           /\ i \in Slots => At(i) = i
           /\ i \in Slots => At(i + 1) = IF i = ListSize THEN 0 ELSE i + 1
           /\ i \in Slots => At(i - 1) = IF i = 0 THEN ListSize ELSE i - 1
<1>1. Modulas \in Nat \ {0} /\ Modulas = ListSize + 1 /\ ListSize \in Nat
  BY ClipboardAssumption DEF Modulas
<1>2. At(i) \in 0 .. Modulas - 1 BY <1>1 DEF At
<1>3. \A k \in Slots : At(k) = k BY <1>1 DEF At, Slots
<1>4. At(ListSize + 1) = 0 BY <1>1 DEF At
<1>5. At(0 - 1) = ListSize BY <1>1 DEF At
<1> QED BY <1>1, <1>2, <1>3, <1>4, <1>5 DEF Slots

\* A set of places of a list has a last one.
LEMMA LastPlace ==
    ASSUME NEW n \in Nat, NEW S \in SUBSET (1 .. n), S # {}
    PROVE  Max(S) \in S
<1>1. PICK i \in S : \A j \in S : j <= i
  <2>1. S \in SUBSET (0 .. n) OBVIOUS
  <2> QED BY <2>1, GreatestNumber
<1>2. \A j \in S : i >= j BY <1>1
<1> QED BY <1>2 DEF Max

LEMMA TargetType == ASSUME NEW u \in Urls, NEW d \in Dirs PROVE Target(u, d) \in Urls
BY DEF Target, Urls

LEMMA EffectType ==
    ASSUME NEW g \in Contexts, NEW c \in Commands, NEW u \in Urls
    PROVE  Effect(g, c, u) \in Contexts
<1>1. Target(u, c.to) \in Urls /\ c.op \in {"cp", "mv", "ln", "rm"}
  BY TargetType DEF Commands
<1>2. g[u] \in Contents /\ None \in Contents /\ Linked \in Contents BY DEF Contexts, Contents
<1>3. CASE g[u] = None \/ (c.op # "rm" /\ Target(u, c.to) = u) BY <1>3 DEF Effect
<1>4. CASE ~ (g[u] = None \/ (c.op # "rm" /\ Target(u, c.to) = u))
  BY <1>1, <1>2, <1>4 DEF Effect, Contexts
<1> QED BY <1>3, <1>4

LEMMA EffectOfType ==
    ASSUME NEW g \in Contexts, NEW c \in Commands PROVE EffectOf(g, c) \in Contexts
<1> SUFFICES ASSUME NEW u \in Urls
             PROVE  (IF u[1] = c.to /\ Comers(g, c, u) # {}
                     THEN IF c.op = "ln" THEN Linked ELSE g[c.urls[Max(Comers(g, c, u))]]
                     ELSE IF c.op = "mv" /\ u[1] # c.to /\ u \in ToSet(c.urls) THEN None
                     ELSE g[u]) \in Contents
  BY DEF EffectOf, Contexts
<1>1. None \in Contents /\ Linked \in Contents /\ g[u] \in Contents BY DEF Contexts, Contents
<1>2. ASSUME Comers(g, c, u) # {} PROVE g[c.urls[Max(Comers(g, c, u))]] \in Contents
  <2> DEFINE S == Comers(g, c, u)
  <2>1. c.urls \in Seq(Urls) BY DEF Commands
  <2>2. Len(c.urls) \in Nat /\ S \subseteq 1 .. Len(c.urls) BY <2>1 DEF Comers
  <2> HIDE DEF S
  <2>3. Max(S) \in S BY <1>2, <2>2, LastPlace DEF S
  <2>4. c.urls[Max(S)] \in Urls
    <3>1. \A i \in 1 .. Len(c.urls) : c.urls[i] \in Urls BY <2>1
    <3> QED BY <2>2, <2>3, <3>1
  <2> QED BY <2>4 DEF S, Contexts
<1> QED BY <1>1, <1>2

LEMMA RedoType ==
    ASSUME NEW a \in Actions, NEW urls \in Seq(Urls), urls # <<>>, NEW d \in Dirs
    PROVE  /\ Redo(a, urls, d) \in Seq(Jobs) /\ Redo(a, urls, d)[1] \in Commands
           /\ Len(Redo(a, urls, d)) = 1
<1> DEFINE op == CASE a = "copy" -> "cp" [] a = "cut" -> "mv" [] a = "link" -> "ln"
           c == [op |-> op, urls |-> urls, to |-> d]
<1>1. op \in {"cp", "mv", "ln", "rm"} BY DEF Actions
<1> HIDE DEF op
<1>2. c \in Commands /\ c \in Jobs BY <1>1 DEF Commands, Jobs
<1>3. Redo(a, urls, d) = <<c>> BY DEF Redo, op
<1> HIDE DEF c
<1> QED BY <1>2, <1>3

LEMMA UndoType ==
    ASSUME NEW a, NEW urls \in Seq(Urls), urls # <<>>, NEW d \in Dirs
    PROVE  Undo(a, urls, d) \in Seq(Jobs)
<1>0. DOMAIN urls = 1 .. Len(urls) /\ Len(urls) \in Nat OBVIOUS
<1>1. \A i \in DOMAIN urls : urls[i] \in Urls /\ Target(urls[i], d) \in Urls /\ urls[i][1] \in Dirs
  BY TargetType DEF Urls
<1>2. CASE a = "cut"
  <2> DEFINE c(i) == [op |-> "mv", urls |-> <<Target(urls[i], d)>>, to |-> urls[i][1]]
  <2>1. \A i \in DOMAIN urls : c(i) \in Jobs
    <3> SUFFICES ASSUME NEW i \in DOMAIN urls PROVE c(i) \in Jobs OBVIOUS
    <3> DEFINE t == Target(urls[i], d)
    <3>1. t \in Urls /\ urls[i][1] \in Dirs BY <1>1
    <3> HIDE DEF t
    <3>2. <<t>> \in Seq(Urls) /\ <<t>> # <<>> BY <3>1
    <3>3. [op |-> "mv", urls |-> <<t>>, to |-> urls[i][1]] \in Jobs BY <3>1, <3>2 DEF Commands, Jobs
    <3> QED BY <3>3 DEF t
  <2>2. Undo(a, urls, d) = [i \in DOMAIN urls |-> c(i)] BY <1>2 DEF Undo
  <2> HIDE DEF c
  <2> QED BY <1>0, <2>1, <2>2
<1>3. CASE a # "cut"
  <2> DEFINE q == [i \in DOMAIN urls |-> Target(urls[i], d)]
             c == [op |-> "rm", urls |-> q, to |-> d]
  <2>1. q \in Seq(Urls) /\ Len(q) = Len(urls) BY <1>0, <1>1
  <2>2. Len(urls) # 0 BY <1>0
  <2> HIDE DEF q
  <2>3. c \in Jobs BY <2>1, <2>2 DEF Commands, Jobs
  <2>4. Undo(a, urls, d) = <<c>> BY <1>3 DEF Undo, q
  <2> HIDE DEF c
  <2> QED BY <2>3, <2>4
<1> QED BY <1>2, <1>3

\* exe_sync() gives its commands the next numbers.
LEMMA ExeSyncType ==
    ASSUME Types, NEW cs \in Seq(Jobs), ExeSync(cs)
    PROVE  /\ running' \subseteq Running /\ commands' \in 0 .. MaxCommands
           /\ \A r \in running' : r.id \in 1 .. commands' /\ r.command \in Commands
<1>1. /\ commands + Len(cs) <= MaxCommands /\ commands' = commands + Len(cs)
      /\ running' = running \cup {[id |-> commands + i, command |-> cs[i]] : i \in DOMAIN cs}
      /\ commands \in Nat /\ Len(cs) \in Nat /\ MaxCommands \in Nat
      /\ DOMAIN cs = 1 .. Len(cs) /\ \A i \in DOMAIN cs : cs[i] \in Jobs
  BY ClipboardAssumption DEF ExeSync, Types, TypeOK
<1>2. \A r \in running : r \in Running /\ r.id \in 1 .. commands /\ r.command \in Commands
  BY DEF Types, TypeOK
<1>3. ASSUME NEW i \in DOMAIN cs
      PROVE  /\ [id |-> commands + i, command |-> cs[i]] \in Running
             /\ commands + i \in 1 .. commands'
  BY <1>1 DEF Running, Jobs
<1>4. ASSUME NEW r \in running'
      PROVE  r \in Running /\ r.id \in 1 .. commands' /\ r.command \in Commands
  <2>1. CASE r \in running BY <1>1, <1>2, <2>1
  <2>2. CASE r \notin running
    <3>1. PICK i \in DOMAIN cs : r = [id |-> commands + i, command |-> cs[i]]
      BY <1>1, <2>2
    <3> QED BY <1>1, <1>3, <3>1 DEF Jobs
  <2> QED BY <2>1, <2>2
<1> QED BY <1>1, <1>4

LEMMA TypesInit == ASSUME Init PROVE Types
<1>1. fs \in Contexts /\ ideal \in Contexts BY DEF Init, Contexts, Contents
<1>2. <<>> \in Seq(Urls) /\ Len(<<>>) = 0 /\ <<>> \in Seq(Commands) /\ <<>> \in Seq(Dirs)
      /\ <<>> \in Seq(Undone) /\ <<>> \in Seq(Jobs)
  OBVIOUS
<1>3. \A s \in Slots : /\ entries[s].paste \in 0 .. MaxPastes
                       /\ entries[s].redo = <<>> /\ entries[s].undo = <<>>
  BY ClipboardAssumption DEF Init, NoEntry
<1>4. added \in [Actions -> Seq(Dirs)] /\ mimeText \in [Actions -> Texts]
  <2>1. <<>> \in Texts BY DEF Texts
  <2> QED BY <1>2, <2>1 DEF Init
<1>5. TypeOK
  <2>1. /\ action = "none" /\ contexts = <<>> /\ pasted = TRUE /\ cursor = -1 /\ running = {}
        /\ commands = 0 /\ selections = 0 /\ pastes = 0 /\ plain = TRUE
    BY DEF Init
  <2>2. MaxSelections \in Nat /\ MaxPastes \in Nat /\ MaxCommands \in Nat BY ClipboardAssumption
  <2>3. 0 \in 0 .. MaxPastes /\ 0 \in 0 .. MaxCommands /\ 0 \in 0 .. MaxSelections BY <2>2
  <2>4. contexts \in Seq(Urls) BY <1>2, <2>1
  <2> QED BY <1>1, <1>2, <1>3, <1>4, <2>1, <2>3, <2>4 DEF TypeOK, Contexts
<1> QED BY <1>2, <1>3, <1>5 DEF Init, Types

\* A command handles its next file and keeps the rest.
LEMMA OtherUrls ==
    ASSUME NEW I, NEW O, NEW U, NEW D, NEW C, C = [op : O, urls : U, to : D],
           NEW r \in [id : I, command : C], NEW x \in U
    PROVE  /\ [r EXCEPT !.command.urls = x].id = r.id
           /\ [r EXCEPT !.command.urls = x].command
                = [op |-> r.command.op, urls |-> x, to |-> r.command.to]
           /\ [r EXCEPT !.command.urls = x]
                = [id |-> r.id, command |-> [op |-> r.command.op, urls |-> x, to |-> r.command.to]]
<1>1. r.command \in C OBVIOUS
<1>2. [r.command EXCEPT !.urls = x] = [op |-> r.command.op, urls |-> x, to |-> r.command.to]
  BY <1>1
<1>3. /\ [r EXCEPT !.command.urls = x].command = [r.command EXCEPT !.urls = x]
      /\ [r EXCEPT !.command.urls = x].id = r.id
  OBVIOUS
<1>4. [r EXCEPT !.command.urls = x] \in [id : I, command : C] OBVIOUS
<1>5. \A q \in [id : I, command : C] : q = [id |-> q.id, command |-> q.command] OBVIOUS
<1> QED BY <1>2, <1>3, <1>4, <1>5

LEMMA JobStep ==
    ASSUME NEW r \in Running
    PROVE  /\ r.command \in Commands /\ Head(r.command.urls) \in Urls
           /\ Len(r.command.urls) \in Nat \ {0}
           /\ Len(r.command.urls) # 1 => [r EXCEPT !.command.urls = Tail(@)] \in Running
           /\ [r EXCEPT !.command.urls = Tail(@)].id = r.id
           /\ [r EXCEPT !.command.urls = Tail(@)].command
                = [op |-> r.command.op, urls |-> Tail(r.command.urls), to |-> r.command.to]
<1>1. r.command \in Commands /\ r.command.urls # <<>> /\ r.id \in 1 .. MaxCommands
  BY DEF Running, Jobs
<1>2. r.command.urls \in Seq(Urls) BY <1>1 DEF Commands
<1>3. Head(r.command.urls) \in Urls /\ Len(r.command.urls) \in Nat \ {0}
      /\ Tail(r.command.urls) \in Seq(Urls)
  BY <1>1, <1>2
<1>4. Len(r.command.urls) # 1 => Tail(r.command.urls) # <<>>
  <2> DEFINE q == r.command.urls
  <2>1. q \in Seq(Urls) /\ q # <<>> BY <1>1, <1>2
  <2> HIDE DEF q
  <2>2. Len(q) \in Nat /\ Tail(q) \in Seq(Urls) /\ Len(Tail(q)) = Len(q) - 1 BY <2>1
  <2>3. Tail(q) = <<>> => Len(Tail(q)) = 0 BY <2>2
  <2>4. Len(q) # 1 => Tail(q) # <<>> BY <2>2, <2>3
  <2> QED BY <2>4 DEF q
<1> DEFINE t == [op |-> r.command.op, urls |-> Tail(r.command.urls), to |-> r.command.to]
<1>5. /\ [r EXCEPT !.command.urls = Tail(@)].id = r.id
      /\ [r EXCEPT !.command.urls = Tail(@)].command = t
      /\ [r EXCEPT !.command.urls = Tail(@)] = [id |-> r.id, command |-> t]
  <2> DEFINE O == {"cp", "mv", "ln", "rm"}
             U == Seq(Urls)
  <2>1. Commands = [op : O, urls : U, to : Dirs] BY DEF Commands
  <2>2. r \in [id : 1 .. MaxCommands, command : Commands] BY DEF Running, Jobs
  <2> DEFINE x == Tail(r.command.urls)
             I == 1 .. MaxCommands
  <2>3. x \in U BY <1>3
  <2> HIDE DEF O, U, x, I
  <2>4. r \in [id : I, command : Commands] BY <2>2 DEF I
  <2>5. /\ [r EXCEPT !.command.urls = x].id = r.id
        /\ [r EXCEPT !.command.urls = x].command
                = [op |-> r.command.op, urls |-> x, to |-> r.command.to]
        /\ [r EXCEPT !.command.urls = x]
                = [id |-> r.id, command |-> [op |-> r.command.op, urls |-> x, to |-> r.command.to]]
    BY <2>1, <2>3, <2>4, OtherUrls
  <2> QED BY <2>5 DEF x
<1>6. Len(r.command.urls) # 1 => t \in Jobs BY <1>1, <1>3, <1>4 DEF Jobs, Commands
<1> HIDE DEF t
<1>7. Len(r.command.urls) # 1 => [id |-> r.id, command |-> t] \in Running
  BY <1>1, <1>6 DEF Running
<1> QED BY <1>1, <1>3, <1>5, <1>7 DEF t

LEMMA TypesRunStep == ASSUME Types, RunStep PROVE Types'
<1>1. PICK r \in running :
        /\ fs' = Effect(fs, r.command, Head(r.command.urls))
        /\ running' = (running \ {r}) \cup
             IF Len(r.command.urls) = 1 THEN {}
             ELSE {[r EXCEPT !.command.urls = Tail(@)]}
  BY DEF RunStep
<1>2. UNCHANGED <<clipVars, mimeVars, ringVars, commands, history>> BY DEF RunStep
<1>3. r \in Running BY DEF Types
<1>4. fs' \in [Urls -> Contents]
  <2>1. fs \in Contexts BY DEF Types, TypeOK, Contexts
  <2> QED BY <1>1, <1>3, <2>1, JobStep, EffectType DEF Contexts
<1>5. running' \subseteq Running
  <2>1. running \subseteq Running BY DEF Types
  <2>2. Len(r.command.urls) # 1 => [r EXCEPT !.command.urls = Tail(@)] \in Running
    BY <1>3, JobStep
  <2> QED BY <1>1, <2>1, <2>2
<1>6. \A q \in running' : q.id \in 1 .. commands' /\ q.command \in Commands
  <2>1. \A q \in running : q.id \in 1 .. commands BY DEF Types, TypeOK
  <2>2. \A q \in running' : q.id \in 1 .. commands
    <3>1. [r EXCEPT !.command.urls = Tail(@)].id = r.id BY <1>3, JobStep
    <3> QED BY <1>1, <2>1, <3>1
  <2>3. \A q \in running' : q.command \in Commands BY <1>5 DEF Running, Jobs
  <2> QED BY <1>2, <2>2, <2>3
<1>7. TypeOK'
  BY <1>2, <1>4, <1>6 DEF Types, TypeOK, clipVars, mimeVars, ringVars, history
<1> QED BY <1>2, <1>5, <1>7 DEF Types, ringVars, history

\* A ring with a new entry under the cursor.
LEMMA TypesRing ==
    ASSUME Types, NEW new \in Slots, NEW a \in Actions, NEW urls \in Seq(Urls), urls # <<>>,
           NEW d \in Dirs, pastes < MaxPastes,
           entries' = [entries EXCEPT ![new] =
               [paste |-> pastes + 1, redo |-> Redo(a, urls, d), undo |-> Undo(a, urls, d)]]
    PROVE  /\ DOMAIN entries' = Slots
           /\ entries'[new] = [paste |-> pastes + 1, redo |-> Redo(a, urls, d), undo |-> Undo(a, urls, d)]
           /\ \A s \in Slots \ {new} : entries'[s] = entries[s]
           /\ \A s \in Slots : /\ entries'[s].paste \in 0 .. MaxPastes
                               /\ entries'[s].redo \in Seq(Jobs) /\ entries'[s].undo \in Seq(Jobs)
                               /\ entries'[s].redo \in Seq(Commands)
                               /\ entries'[s].undo \in Seq(Commands)
<1>1. DOMAIN entries = Slots BY DEF Types
<1>2. /\ DOMAIN entries' = Slots
      /\ entries'[new] = [paste |-> pastes + 1, redo |-> Redo(a, urls, d), undo |-> Undo(a, urls, d)]
      /\ \A s \in Slots \ {new} : entries'[s] = entries[s]
  BY <1>1
<1>3. pastes + 1 \in 0 .. MaxPastes BY ClipboardAssumption DEF Types, TypeOK
<1>4. Redo(a, urls, d) \in Seq(Jobs) /\ Undo(a, urls, d) \in Seq(Jobs) BY RedoType, UndoType
<1>5. \A q \in Seq(Jobs) : q \in Seq(Commands)
  <2>1. Jobs \subseteq Commands BY DEF Jobs
  <2> QED BY <2>1
<1>6. \A s \in Slots : /\ entries'[s].paste \in 0 .. MaxPastes
                       /\ entries'[s].redo \in Seq(Jobs) /\ entries'[s].undo \in Seq(Jobs)
  <2> SUFFICES ASSUME NEW s \in Slots
               PROVE  /\ entries'[s].paste \in 0 .. MaxPastes
                      /\ entries'[s].redo \in Seq(Jobs) /\ entries'[s].undo \in Seq(Jobs)
    OBVIOUS
  <2>1. CASE s = new BY <1>2, <1>3, <1>4, <2>1
  <2>2. CASE s # new BY <1>2, <2>2 DEF Types, TypeOK
  <2> QED BY <2>1, <2>2
<1> QED BY <1>2, <1>5, <1>6

\* The places of a paste are in front of those of earlier pastes, in the list
\* and in the attribute.
Remembered == \A a \in Actions : Begins(mimeText[a], added[a])

LEMMA NothingBegins == ASSUME NEW t PROVE Begins(t, <<>>)
<1>1. Smaller(MimeHistorySize, Len(<<>>)) = 0 BY MimeHistoryAssumption DEF Smaller
<1> QED BY <1>1 DEF Begins

LEMMA PlacesType ==
    ASSUME Types, NEW d \in Dirs, action \in Actions, NotePlaces(d)
    PROVE  /\ mimeText' \in [Actions -> Texts] /\ added' \in [Actions -> Seq(Dirs)]
           /\ Remembered => Remembered'
<1> DEFINE n == Cardinality(Resolved)
           t == Noted(mimeText[action], UrlOf[d], n)
           s == Again(d, n, added[action])
<1>1. /\ contexts \in Seq(Urls) /\ mimeText \in [Actions -> Texts]
      /\ added \in [Actions -> Seq(Dirs)]
  BY DEF Types, TypeOK
<1>2. Len(contexts) \in Nat /\ Resolved \subseteq 1 .. Len(contexts) BY <1>1 DEF Resolved
<1>3. n \in Nat
  <2>1. 1 \in Int /\ Len(contexts) \in Int BY <1>2
  <2>2. IsFiniteSet(1 .. Len(contexts)) BY <2>1, FS_Interval
  <2>3. IsFiniteSet(Resolved) BY <1>2, <2>2, FS_Subset
  <2> QED BY <2>3, FS_CardinalityType
<1>4. mimeText' = [mimeText EXCEPT ![action] = t] /\ added' = [added EXCEPT ![action] = s]
  <2> DEFINE places == [i \in 1 .. n |-> d]
  <2>1. Len(places) = n BY <1>3
  <2>2. /\ mimeText' = [mimeText EXCEPT ![action] = Noted(@, UrlOf[d], Len(places))]
        /\ added' = [added EXCEPT ![action] = places \o @]
    BY DEF NotePlaces
  <2>3. places \o added[action] = s BY DEF Again
  <2> HIDE DEF places, n
  <2> QED BY <2>1, <2>2, <2>3
<1>5. mimeText[action] \in Texts /\ added[action] \in Seq(Dirs) BY <1>1
<1> HIDE DEF n
<1>6. t \in Texts
  <2>1. <<>> \in Seq(Dirs) OBVIOUS
  <2> QED BY <1>3, <1>5, <2>1, NothingBegins, NotedBegins
<1>7. s \in Seq(Dirs) BY <1>3, <1>5, AgainIs DEF RepeatsFirst
<1>8. ASSUME Remembered PROVE Begins(t, s)
  <2>1. Begins(mimeText[action], added[action]) BY <1>8 DEF Remembered
  <2> QED BY <1>3, <1>5, <2>1, NotedBegins
<1> HIDE DEF t, s
<1>9. ASSUME Remembered PROVE Remembered'
  <2> SUFFICES ASSUME NEW a \in Actions PROVE Begins(mimeText'[a], added'[a])
    BY DEF Remembered, Begins
  <2>1. CASE a = action
    <3>1. mimeText'[a] = t /\ added'[a] = s BY <1>1, <1>4, <2>1
    <3> QED BY <1>8, <1>9, <3>1
  <2>2. CASE a # action
    <3>1. mimeText'[a] = mimeText[a] /\ added'[a] = added[a] BY <1>1, <1>4, <2>2
    <3> QED BY <1>9, <3>1 DEF Remembered
  <2> QED BY <2>1, <2>2
<1> QED BY <1>1, <1>4, <1>6, <1>7, <1>9

LEMMA TypesPasteFails == ASSUME Types, NEW d \in Dirs, PasteFails(d) PROVE Types'
<1>1. /\ pastes < MaxPastes /\ pastes' = pastes + 1 /\ action # "none" /\ NotePlaces(d)
      /\ UNCHANGED <<clipVars, ringVars, runVars, selections, ideal, done, plain>>
  BY DEF PasteFails, CanPaste
<1>2. action \in Actions BY <1>1 DEF Types, TypeOK
<1>3. mimeText' \in [Actions -> Texts] /\ added' \in [Actions -> Seq(Dirs)] BY <1>1, <1>2, PlacesType
<1>4. pastes' \in 0 .. MaxPastes BY <1>1, ClipboardAssumption DEF Types, TypeOK
<1>5. TypeOK'
  BY <1>1, <1>3, <1>4 DEF Types, TypeOK, clipVars, ringVars, runVars
<1> QED BY <1>1, <1>5 DEF Types, ringVars, runVars

LEMMA TypesPaste == ASSUME Types, NEW d \in Dirs, Paste(d) PROVE Types'
<1>1. /\ pastes < MaxPastes /\ pastes' = pastes + 1 /\ action # "none" /\ contexts # <<>>
      /\ NotePlaces(d)
  BY DEF Paste, CanPaste
<1> DEFINE new == At(At(cursor) + 1)
<1>2. /\ cursor' = new
      /\ entries' = [entries EXCEPT ![new] =
           [paste |-> pastes + 1, redo |-> Redo(action, contexts, d),
            undo |-> Undo(action, contexts, d)]]
      /\ done' = Append(done, [paste |-> pastes + 1, before |-> ideal])
      /\ contexts' = (IF action = "cut" THEN <<>> ELSE contexts)
      /\ pasted' = (action # "cut")
      /\ ExeSync(Redo(action, contexts, d))
      /\ UNCHANGED <<action, selections>>
      /\ ideal' = EffectOf(ideal, Redo(action, contexts, d)[1])
      /\ plain' \in BOOLEAN
  BY DEF Paste, PastesOnce
<1> HIDE DEF new
<1>3. /\ action \in Actions /\ contexts \in Seq(Urls)
      /\ ideal \in Contexts /\ done \in Seq(Undone)
      /\ pastes + 1 \in 1 .. MaxPastes /\ cursor \in Int
  BY <1>1, ClipboardAssumption DEF Types, TypeOK, Contexts, Slots
<1>4. new \in Slots
  <2>1. At(cursor) \in Int BY <1>3, Modulo DEF Slots
  <2>2. At(cursor) + 1 \in Int BY <2>1
  <2> QED BY <2>2, Modulo DEF new
<1>5. mimeText' \in [Actions -> Texts] /\ added' \in [Actions -> Seq(Dirs)] BY <1>1, <1>3, PlacesType
<1>6. /\ DOMAIN entries' = Slots
      /\ \A s \in Slots : /\ entries'[s].paste \in 0 .. MaxPastes
                          /\ entries'[s].redo \in Seq(Jobs) /\ entries'[s].undo \in Seq(Jobs)
                          /\ entries'[s].redo \in Seq(Commands)
                          /\ entries'[s].undo \in Seq(Commands)
  BY <1>1, <1>2, <1>3, <1>4, TypesRing
<1>7. /\ Redo(action, contexts, d) \in Seq(Jobs)
      /\ Redo(action, contexts, d)[1] \in Commands
  BY <1>1, <1>3, RedoType
<1>8. /\ running' \subseteq Running /\ commands' \in 0 .. MaxCommands /\ fs' = fs
      /\ \A r \in running' : r.id \in 1 .. commands' /\ r.command \in Commands
  BY <1>2, <1>7, ExeSyncType DEF ExeSync
<1>9. ideal' \in [Urls -> Contents] BY <1>2, <1>3, <1>7, EffectOfType DEF Contexts
<1>10. done' \in Seq(Undone)
  <2>1. [paste |-> pastes + 1, before |-> ideal] \in Undone BY <1>3 DEF Undone
  <2> QED BY <1>2, <1>3, <2>1
<1>11. /\ contexts' \in Seq(Urls) /\ selections' \in 0 .. MaxSelections
       /\ pasted' \in BOOLEAN
  BY <1>2, <1>3 DEF Types, TypeOK
<1>12. TypeOK'
  BY <1>1, <1>2, <1>3, <1>4, <1>5, <1>6, <1>8, <1>9, <1>11 DEF Types, TypeOK
<1> QED BY <1>6, <1>8, <1>10, <1>12 DEF Types

LEMMA TypesClear == ASSUME Types, Clear PROVE Types'
<1>1. <<>> \in Seq(Urls) OBVIOUS
<1>2. /\ action' = "none" /\ contexts' = <<>> /\ pasted' = FALSE
      /\ UNCHANGED <<mimeVars, ringVars, runVars, selections, pastes, ideal, done, plain>>
  BY DEF Clear
<1>3. contexts' \in Seq(Urls) BY <1>1, <1>2
<1>4. TypeOK' BY <1>2, <1>3 DEF Types, TypeOK, mimeVars, ringVars, runVars
<1> QED BY <1>2, <1>4 DEF Types, ringVars, runVars

LEMMA TypesSelect ==
    ASSUME Types, NEW a \in Actions, NEW u \in Urls, Select(a, u) PROVE Types'
<1>1. /\ action' = a /\ contexts' = Append(Kept, u) /\ pasted' = FALSE
      /\ selections < MaxSelections /\ selections' = selections + 1
      /\ UNCHANGED <<mimeVars, ringVars, runVars, pastes, ideal, done, plain>>
  BY DEF Select
<1>2. Kept \in Seq(Urls) BY DEF Kept, Types, TypeOK
<1>3. selections' \in 0 .. MaxSelections BY <1>1, ClipboardAssumption DEF Types, TypeOK
<1>4. contexts' \in Seq(Urls) /\ selections' \in 0 .. MaxSelections BY <1>1, <1>2, <1>3
<1>5. TypeOK' BY <1>1, <1>4 DEF Types, TypeOK, mimeVars, ringVars, runVars
<1> QED BY <1>1, <1>5 DEF Types, ringVars, runVars

\* The pastes that are left when the last one is undone.
LEMMA FrontType ==
    ASSUME NEW S, NEW q \in Seq(S), q # <<>>
    PROVE  /\ Len(q) \in Nat \ {0} /\ Last(q) = q[Len(q)] /\ Last(q) \in S
           /\ Front(q) \in Seq(S) /\ Len(Front(q)) = Len(q) - 1
           /\ \A i \in 1 .. Len(q) - 1 : Front(q)[i] = q[i]
<1>1. Len(q) \in Nat \ {0} /\ \A i \in 1 .. Len(q) : q[i] \in S OBVIOUS
<1>2. Last(q) = q[Len(q)] /\ Front(q) = [i \in 1 .. Len(q) - 1 |-> q[i]] BY <1>1 DEF Last, Front
<1> DEFINE n == Len(q) - 1
<1>3. n \in Nat /\ \A i \in 1 .. n : q[i] \in S BY <1>1
<1> HIDE DEF n
<1>4. [i \in 1 .. n |-> q[i]] \in Seq(S) /\ Len([i \in 1 .. n |-> q[i]]) = n BY <1>3
<1> QED BY <1>1, <1>2, <1>4 DEF n

LEMMA TypesUndo == ASSUME Types, ClipUndo PROVE Types'
<1>1. /\ Undoes # <<>> /\ ExeSync(Undoes) /\ cursor' = At(At(cursor) - 1)
      /\ done' = IF done = <<>> THEN <<>> ELSE Front(done)
      /\ ideal' = IF done = <<>> THEN ideal ELSE Last(done).before
      /\ plain' \in BOOLEAN
      /\ UNCHANGED <<clipVars, mimeVars, entries, selections, pastes>>
  BY DEF ClipUndo
<1>2. cursor \in Int BY ClipboardAssumption DEF Types, TypeOK, Slots
<1>3. At(cursor) \in Slots /\ At(cursor) \in Int BY <1>2, Modulo DEF Slots
<1>4. cursor' \in Slots
  <2>1. At(cursor) - 1 \in Int BY <1>3
  <2> QED BY <1>1, <2>1, Modulo
<1>5. Undoes \in Seq(Jobs) BY <1>3 DEF Undoes, Types
<1>6. /\ running' \subseteq Running /\ commands' \in 0 .. MaxCommands /\ fs' = fs
      /\ \A r \in running' : r.id \in 1 .. commands' /\ r.command \in Commands
  BY <1>1, <1>5, ExeSyncType DEF ExeSync
<1>7. done' \in Seq(Undone) /\ ideal' \in [Urls -> Contents]
  <2>1. CASE done = <<>> BY <1>1, <2>1 DEF Types, TypeOK
  <2>2. CASE done # <<>>
    <3>1. Front(done) \in Seq(Undone) /\ Last(done) \in Undone BY <2>2, FrontType DEF Types
    <3> QED BY <1>1, <2>2, <3>1 DEF Undone, Contexts
  <2> QED BY <2>1, <2>2
<1>8. TypeOK' BY <1>1, <1>4, <1>6, <1>7 DEF Types, TypeOK, clipVars, mimeVars
<1> QED BY <1>1, <1>6, <1>7, <1>8 DEF Types

LEMMA TypesRedo == ASSUME Types, ClipRedo PROVE Types'
<1>1. /\ Redoes # <<>> /\ ExeSync(Redoes) /\ cursor' = At(At(cursor) + 1) /\ plain' = FALSE
      /\ UNCHANGED <<clipVars, mimeVars, entries, selections, pastes, ideal, done>>
  BY DEF ClipRedo
<1>2. cursor \in Int BY ClipboardAssumption DEF Types, TypeOK, Slots
<1>3. At(cursor) \in Slots /\ At(cursor) \in Int BY <1>2, Modulo DEF Slots
<1>4. cursor' \in Slots
  <2>1. At(cursor) + 1 \in Int BY <1>3
  <2> QED BY <1>1, <2>1, Modulo
<1>5. Redoes \in Seq(Jobs) BY <1>3 DEF Redoes, Types
<1>6. /\ running' \subseteq Running /\ commands' \in 0 .. MaxCommands /\ fs' = fs
      /\ \A r \in running' : r.id \in 1 .. commands' /\ r.command \in Commands
  BY <1>1, <1>5, ExeSyncType DEF ExeSync
<1>7. TypeOK' BY <1>1, <1>4, <1>6 DEF Types, TypeOK, clipVars, mimeVars
<1> QED BY <1>1, <1>6, <1>7 DEF Types

LEMMA TypesUnchanged == ASSUME Types, UNCHANGED vars PROVE Types'
BY DEF Types, TypeOK, vars, clipVars, mimeVars, ringVars, runVars, history

LEMMA TypesNext == ASSUME Types, [Next]_vars PROVE Types'
<1>1. CASE RunStep BY <1>1, TypesRunStep
<1>2. CASE Clear BY <1>2, TypesClear
<1>3. ASSUME NEW a \in Actions, NEW u \in Urls, Select(a, u) PROVE Types'
  BY <1>3, TypesSelect
<1>4. ASSUME NEW d \in Dirs, Paste(d) \/ PasteFails(d) PROVE Types'
  BY <1>4, TypesPaste, TypesPasteFails
<1>5. CASE ClipUndo BY <1>5, TypesUndo
<1>6. CASE ClipRedo BY <1>6, TypesRedo
<1>7. CASE UNCHANGED vars BY <1>7, TypesUnchanged
<1> QED BY <1>1, <1>2, <1>3, <1>4, <1>5, <1>6, <1>7 DEF Next

LEMMA TypesInvariance == Spec => []Types
<1>1. Init => Types BY TypesInit
<1>2. Types /\ [Next]_vars => Types' BY TypesNext
<1> QED BY <1>1, <1>2, PTL DEF Spec

\* The clipboard, the ring, the commands that run and the files keep the types
\* of what they stand for.
THEOREM TypeCorrect == Spec => []TypeOK
<1>1. Types => TypeOK BY DEF Types
<1> QED BY <1>1, TypesInvariance, PTL
-----------------------------------------------------------------------------
(***************************************************************************)
(* What a paste does to the files, and what is done of it.                 *)
(***************************************************************************)

\* The urls are there, and no file has the name that they will have in d.
Free(b, S, d) ==
    /\ \A u \in S : b[u] # None /\ b[Target(u, d)] = None
    /\ \A u, v \in S : Target(u, d) = Target(v, d) => u = v
Value(b, a, u) == IF a = "link" THEN Linked ELSE b[u]
\* The files f are b with the urls S pasted into d.
IsPasted(f, b, a, S, d) == \A x \in Urls :
    /\ \A u \in S : Target(u, d) = x => f[x] = Value(b, a, u)
    /\ (\A u \in S : Target(u, d) # x) => f[x] = IF a = "cut" /\ x \in S THEN None ELSE b[x]
HasFiles(f) == \A x \in Files : \E u \in Urls : f[u] = x

OpOf(a) == CASE a = "copy" -> "cp" [] a = "cut" -> "mv" [] a = "link" -> "ln"
Distinct(q) == \A i, j \in DOMAIN q : q[i] = q[j] => i = j
\* What runs is one command with the files X left, or nothing is left.
OneJob(R, op, X, d) ==
    \/ R = {} /\ X = {}
    \/ \E r \in R : /\ R = {r} /\ r.command.op = op /\ r.command.to = d
                    /\ Distinct(r.command.urls) /\ ToSet(r.command.urls) = X
\* What runs moves back the urls S, each by a command of its own.
Back(u, d) == [op |-> "mv", urls |-> <<Target(u, d)>>, to |-> u[1]]
MovesBack(R, S, d) ==
    /\ \A r \in R : \E u \in S : r.command = Back(u, d)
    /\ \A u \in S : \E r \in R : r.command = Back(u, d)
    /\ \A r, q \in R : r.command = q.command => r = q

\* Of a paste of U, S is done; of one that is undone S is still pasted.
PasteGoes(R, f, b, g) == \E a \in Actions, d \in Dirs, U \in SUBSET Urls : \E S \in SUBSET U :
    /\ Free(b, U, d) /\ IsPasted(f, b, a, S, d) /\ IsPasted(g, b, a, U, d)
    /\ OneJob(R, OpOf(a), U \ S, d)
UndoGoes(R, f, g) == \E a \in Actions, d \in Dirs, S \in SUBSET Urls :
    /\ Free(g, S, d) /\ IsPasted(f, g, a, S, d)
    /\ IF a = "cut" THEN MovesBack(R, S, d)
       ELSE OneJob(R, "rm", {Target(u, d) : u \in S}, d)
Goes ==
    \/ running = {} /\ fs = ideal
    \/ done # <<>> /\ PasteGoes(running, fs, Last(done).before, ideal)
    \/ UndoGoes(running, fs, ideal)
NoneLost == HasFiles(ideal) /\ \A j \in DOMAIN done : HasFiles(done[j].before)
-----------------------------------------------------------------------------
(***************************************************************************)
(* What the ring holds.                                                    *)
(***************************************************************************)
Numbered ==
    /\ \A i \in DOMAIN done : done[i].paste <= pastes
    /\ \A i, j \in DOMAIN done : i < j => done[i].paste < done[j].paste
    /\ \A s \in Slots : entries[s].paste <= pastes
\* k places behind c in the ring.
Behind(c, k) == IF k <= c THEN c - k ELSE c - k + Modulas
\* The files after a paste that is not undone, as it should leave them.
Later(j) == IF j = Len(done) THEN ideal ELSE done[j + 1].before
Undoing(e, b, g) == \E a \in Actions :
    LET c == e.redo[1]
        U == ToSet(c.urls)
    IN /\ e.undo = Undo(a, c.urls, c.to) /\ e.redo = Redo(a, c.urls, c.to)
       /\ c.urls # <<>> /\ Distinct(c.urls)
       /\ Free(b, U, c.to) /\ IsPasted(g, b, a, U, c.to)
Ring == \A s \in Slots, j \in DOMAIN done : entries[s].paste = done[j].paste =>
    /\ Len(done) - j <= ListSize
    /\ s = Behind(At(cursor), Len(done) - j)
    /\ Undoing(entries[s], done[j].before, Later(j))

Deep == Goes /\ NoneLost /\ Numbered /\ Ring
DeepInv == plain /\ Patient => Deep
-----------------------------------------------------------------------------
(***************************************************************************)
(* Pasting, one url after the other.                                       *)
(***************************************************************************)

\* None of the urls pasted is where another one comes to.
LEMMA FreeApart ==
    ASSUME NEW b, NEW S \in SUBSET Urls, NEW d, Free(b, S, d), NEW u \in S, NEW v \in S
    PROVE  Target(u, d) # v
BY DEF Free

LEMMA ValueIsThere ==
    ASSUME NEW b, NEW S \in SUBSET Urls, NEW d, Free(b, S, d), NEW u \in S, NEW a
    PROVE  Value(b, a, u) # None
BY ClipboardAssumption DEF Free, Value

\* All of them pasted is one state of the files.
LEMMA PastedIsOne ==
    ASSUME NEW f \in Contexts, NEW g \in Contexts, NEW b, NEW a, NEW S \in SUBSET Urls, NEW d,
           IsPasted(f, b, a, S, d), IsPasted(g, b, a, S, d)
    PROVE  f = g
<1>1. ASSUME NEW x \in Urls PROVE f[x] = g[x]
  <2>1. CASE \E u \in S : Target(u, d) = x BY <2>1 DEF IsPasted
  <2>2. CASE \A u \in S : Target(u, d) # x BY <2>2 DEF IsPasted
  <2> QED BY <2>1, <2>2
<1> QED BY <1>1 DEF Contexts

LEMMA NothingPasted ==
    ASSUME NEW f \in Contexts, NEW b \in Contexts, NEW a, NEW d
    PROVE  IsPasted(f, b, a, {}, d) <=> f = b
BY DEF IsPasted, Contexts

\* The next url.
LEMMA PasteOne ==
    ASSUME NEW f \in Contexts, NEW b \in Contexts, NEW a \in Actions, NEW d \in Dirs,
           NEW U \in SUBSET Urls, NEW S \in SUBSET U, Free(b, U, d), IsPasted(f, b, a, S, d),
           NEW u \in U, u \notin S, NEW c, c.op = OpOf(a), c.to = d
    PROVE  IsPasted(Effect(f, c, u), b, a, S \cup {u}, d)
<1> DEFINE t == Target(u, d)
           e == Effect(f, c, u)
<1>1. u \in Urls /\ t \in Urls /\ b[u] # None /\ b[t] = None BY TargetType DEF Free
<1>2. \A v \in U : Target(v, d) # u BY FreeApart
<1>3. f[u] = b[u] /\ t # u BY <1>1, <1>2 DEF IsPasted
<1>4. \A v \in S : v # u /\ Target(v, d) # t BY DEF Free
<1>5. t \notin U BY <1>1 DEF Free
<1>6. e \in Contexts /\ e[t] = Value(b, a, u)
      /\ \A x \in Urls \ {t} : e[x] = IF a = "cut" /\ x = u THEN None ELSE f[x]
  <2>1. CASE a = "copy"
    <3>1. e = [f EXCEPT ![t] = f[u]] BY <1>1, <1>3, <2>1 DEF Effect, OpOf
    <3> HIDE DEF e, t
    <3>2. f[u] \in Contents BY <1>1 DEF Contexts
    <3> QED BY <1>1, <1>3, <2>1, <3>1, <3>2 DEF Contexts, Value
  <2>2. CASE a = "cut"
    <3>1. e = [f EXCEPT ![t] = f[u], ![u] = None] BY <1>1, <1>3, <2>2 DEF Effect, OpOf
    <3> HIDE DEF e, t
    <3>2. f[u] \in Contents /\ None \in Contents BY <1>1 DEF Contexts, Contents
    <3> QED BY <1>1, <1>3, <2>2, <3>1, <3>2 DEF Contexts, Value
  <2>3. CASE a = "link"
    <3>1. e = [f EXCEPT ![t] = Linked] BY <1>1, <1>3, <2>3 DEF Effect, OpOf
    <3> HIDE DEF e, t
    <3>2. Linked \in Contents BY DEF Contents
    <3> QED BY <1>1, <1>3, <2>3, <3>1, <3>2 DEF Contexts, Value
  <2> QED BY <2>1, <2>2, <2>3 DEF Actions
<1> SUFFICES ASSUME NEW x \in Urls
             PROVE  /\ \A v \in S \cup {u} : Target(v, d) = x => e[x] = Value(b, a, v)
                    /\ (\A v \in S \cup {u} : Target(v, d) # x) =>
                         e[x] = IF a = "cut" /\ x \in S \cup {u} THEN None ELSE b[x]
  BY DEF IsPasted
<1>7. CASE x = t BY <1>4, <1>6, <1>7
<1>8. CASE x # t /\ \E v \in S : Target(v, d) = x
  <2>1. x # u BY <1>2, <1>8
  <2>2. e[x] = f[x] BY <1>6, <1>8, <2>1
  <2> HIDE DEF e
  <2> QED BY <1>8, <2>2 DEF IsPasted
<1>9. CASE x # t /\ \A v \in S : Target(v, d) # x
  <2>1. f[x] = IF a = "cut" /\ x \in S THEN None ELSE b[x] BY <1>9 DEF IsPasted
  <2>2. e[x] = IF a = "cut" /\ x = u THEN None ELSE f[x] BY <1>6, <1>9
  <2>3. x = u => f[x] = b[x] BY <1>3
  <2> HIDE DEF e, t
  <2>4. Target(u, d) # x BY <1>9 DEF t
  <2> QED BY <1>9, <2>1, <2>2, <2>3, <2>4
<1> QED BY <1>7, <1>8, <1>9

\* gfrm takes a copy or a link away again.
LEMMA RemoveOne ==
    ASSUME NEW f \in Contexts, NEW b \in Contexts, NEW a \in Actions \ {"cut"}, NEW d \in Dirs,
           NEW S \in SUBSET Urls, Free(b, S, d), IsPasted(f, b, a, S, d),
           NEW u \in S, NEW c, c.op = "rm"
    PROVE  IsPasted(Effect(f, c, Target(u, d)), b, a, S \ {u}, d)
<1> DEFINE t == Target(u, d)
           e == Effect(f, c, t)
<1>1. t \in Urls /\ b[t] = None BY TargetType DEF Free
<1>2. \A v \in S \ {u} : Target(v, d) # t BY DEF Free
<1>3. f[t] = Value(b, a, u) BY <1>1 DEF IsPasted
<1>4. f[t] # None BY <1>3, ValueIsThere
<1>5. e = [f EXCEPT ![t] = None] BY <1>4 DEF Effect
<1> HIDE DEF e, t
<1>6. e[t] = None /\ \A x \in Urls \ {t} : e[x] = f[x] BY <1>1, <1>5 DEF Contexts
<1> SUFFICES ASSUME NEW x \in Urls
             PROVE  /\ \A v \in S \ {u} : Target(v, d) = x => e[x] = Value(b, a, v)
                    /\ (\A v \in S \ {u} : Target(v, d) # x) => e[x] = b[x]
  BY DEF IsPasted, e, t
<1>7. CASE x = t BY <1>1, <1>2, <1>6, <1>7
<1>8. CASE x # t
  <2>1. e[x] = f[x] BY <1>6, <1>8
  <2>2. Target(u, d) # x BY <1>8 DEF t
  <2> QED BY <2>1, <2>2 DEF IsPasted
<1> QED BY <1>7, <1>8

\* gfmv moves a file back that was cut.
LEMMA MoveBackOne ==
    ASSUME NEW f \in Contexts, NEW b \in Contexts, NEW d \in Dirs,
           NEW S \in SUBSET Urls, Free(b, S, d), IsPasted(f, b, "cut", S, d), NEW u \in S
    PROVE  IsPasted(Effect(f, Back(u, d), Target(u, d)), b, "cut", S \ {u}, d)
<1> DEFINE t == Target(u, d)
           e == Effect(f, Back(u, d), t)
<1>1. u \in Urls /\ t \in Urls /\ b[u] # None /\ b[t] = None BY TargetType DEF Free
<1>2. \A v \in S \ {u} : Target(v, d) # t BY DEF Free
<1>3. \A v \in S : Target(v, d) # u BY FreeApart
<1>4. f[t] = b[u] BY <1>1 DEF IsPasted, Value
<1>5. Target(t, u[1]) = u BY <1>1 DEF Target, Urls
<1>6. e = [f EXCEPT ![u] = f[t], ![t] = None]
  <2>1. f[t] # None /\ t # u BY <1>1, <1>3, <1>4
  <2>2. Back(u, d).op = "mv" /\ Back(u, d).to = u[1] BY DEF Back
  <2> QED BY <1>5, <2>1, <2>2 DEF Effect
<1> HIDE DEF e, t
<1>7. e[t] = None /\ e[u] = b[u] /\ \A x \in Urls \ {t, u} : e[x] = f[x]
  BY <1>1, <1>4, <1>6 DEF Contexts
<1>8. t \notin S BY <1>1 DEF Free
<1> SUFFICES ASSUME NEW x \in Urls
             PROVE  /\ \A v \in S \ {u} : Target(v, d) = x => e[x] = Value(b, "cut", v)
                    /\ (\A v \in S \ {u} : Target(v, d) # x) =>
                          e[x] = IF x \in S \ {u} THEN None ELSE b[x]
  BY DEF IsPasted, e, t
<1>9. CASE x = t BY <1>1, <1>2, <1>7, <1>8, <1>9
<1>10. CASE x = u BY <1>3, <1>7, <1>10
<1>11. CASE x # t /\ x # u
  <2>1. e[x] = f[x] BY <1>7, <1>11
  <2>2. Target(u, d) # x BY <1>11 DEF t
  <2> QED BY <1>11, <2>1, <2>2 DEF IsPasted
<1> QED BY <1>9, <1>10, <1>11

\* No file is lost, however much is pasted.
LEMMA PastedHasFiles ==
    ASSUME NEW f \in Contexts, NEW b \in Contexts, NEW a, NEW d \in Dirs,
           NEW S \in SUBSET Urls, Free(b, S, d), IsPasted(f, b, a, S, d), HasFiles(b)
    PROVE  HasFiles(f)
<1> SUFFICES ASSUME NEW x \in Files PROVE \E u \in Urls : f[u] = x BY DEF HasFiles
<1>1. PICK v \in Urls : b[v] = x BY DEF HasFiles
<1>2. x # None BY ClipboardAssumption
<1>3. \A u \in S : Target(u, d) # v BY <1>1, <1>2 DEF Free
<1>4. CASE a = "cut" /\ v \in S
  <2>1. Target(v, d) \in Urls BY TargetType
  <2>2. f[Target(v, d)] = b[v] BY <1>4, <2>1 DEF IsPasted, Value
  <2> QED BY <1>1, <2>1, <2>2
<1>5. CASE ~ (a = "cut" /\ v \in S) BY <1>1, <1>3, <1>5 DEF IsPasted
<1> QED BY <1>4, <1>5

\* EffectOf() pastes all of them.
LEMMA PasteAll ==
    ASSUME NEW b \in Contexts, NEW a \in Actions, NEW d \in Dirs, NEW urls \in Seq(Urls),
           Distinct(urls), Free(b, ToSet(urls), d), NEW c,
           c.op = OpOf(a), c.to = d, c.urls = urls
    PROVE  IsPasted(EffectOf(b, c), b, a, ToSet(urls), d)
<1> DEFINE S == ToSet(urls)
           g == EffectOf(b, c)
<1>1. DOMAIN urls = 1 .. Len(urls) /\ Len(urls) \in Nat /\ S = {urls[i] : i \in DOMAIN urls}
      /\ \A i \in DOMAIN urls : urls[i] \in Urls
  BY DEF ToSet
<1>2. S \subseteq Urls BY <1>1
<1>3. \A u \in S : u[1] # d /\ b[u] # None
  <2> SUFFICES ASSUME NEW u \in S PROVE u[1] # d /\ b[u] # None OBVIOUS
  <2>1. Target(u, d) # u /\ b[u] # None BY <1>2, FreeApart DEF Free
  <2>2. u = <<u[1], u[2]>> BY <1>2 DEF Urls
  <2> QED BY <2>1, <2>2 DEF Target
<1>4. \A u, v \in S : u[2] = v[2] => u = v BY DEF Free, Target
<1>5. (a = "cut" <=> c.op = "mv") /\ (a = "link" <=> c.op = "ln") BY DEF OpOf, Actions
<1> SUFFICES ASSUME NEW x \in Urls
             PROVE  /\ \A u \in S : Target(u, d) = x => g[x] = Value(b, a, u)
                    /\ (\A u \in S : Target(u, d) # x) =>
                         g[x] = IF a = "cut" /\ x \in S THEN None ELSE b[x]
  BY DEF IsPasted
<1> DEFINE C == Comers(b, c, x)
<1>6. g[x] = IF x[1] = d /\ C # {}
             THEN IF a = "link" THEN Linked ELSE b[urls[Max(C)]]
             ELSE IF a = "cut" /\ x[1] # d /\ x \in S THEN None ELSE b[x]
  BY <1>5 DEF EffectOf
<1> HIDE DEF g
<1>7. C = {i \in DOMAIN urls : urls[i][2] = x[2]}
  <2>1. \A i \in DOMAIN urls : urls[i][1] # d /\ b[urls[i]] # None
    <3>1. \A i \in DOMAIN urls : urls[i] \in S BY <1>1
    <3> QED BY <1>3, <3>1
  <2>2. \A i \in DOMAIN urls : \A j \in 1 .. i - 1 : urls[j] # urls[i]
    <3>1. \A i \in DOMAIN urls : \A j \in 1 .. i - 1 : j \in DOMAIN urls /\ j # i BY <1>1
    <3> QED BY <3>1 DEF Distinct
  <2> QED BY <2>1, <2>2 DEF Comers
<1>8. ASSUME NEW u \in S, Target(u, d) = x PROVE g[x] = Value(b, a, u)
  <2>1. x[1] = d /\ u[2] = x[2] BY <1>8 DEF Target
  <2>2. PICK i \in DOMAIN urls : u = urls[i] BY <1>1
  <2>3. i \in C BY <1>7, <2>1, <2>2
  <2>4. C \subseteq 1 .. Len(urls) BY <1>1, <1>7
  <2> HIDE DEF C
  <2>5. Max(C) \in C BY <1>1, <2>3, <2>4, LastPlace
  <2>6. Max(C) \in DOMAIN urls /\ urls[Max(C)][2] = x[2] BY <1>7, <2>5 DEF C
  <2>7. urls[Max(C)] = u BY <1>1, <1>4, <2>1, <2>6
  <2> QED BY <1>6, <2>1, <2>3, <2>7 DEF Value
<1>9. ASSUME \A u \in S : Target(u, d) # x
      PROVE  g[x] = IF a = "cut" /\ x \in S THEN None ELSE b[x]
  <2>1. x[1] = d => C = {}
    <3> SUFFICES ASSUME x[1] = d, NEW i \in DOMAIN urls, urls[i][2] = x[2] PROVE FALSE
      BY <1>7
    <3>1. urls[i] \in S BY <1>1
    <3>2. x = <<x[1], x[2]>> BY DEF Urls
    <3> QED BY <1>9, <3>1, <3>2 DEF Target
  <2>2. x \in S => x[1] # d BY <1>3
  <2> QED BY <1>6, <2>1, <2>2
<1> QED BY <1>8, <1>9
-----------------------------------------------------------------------------
(***************************************************************************)
(* What runs.                                                              *)
(***************************************************************************)
LEMMA HeadAndTail ==
    ASSUME NEW q \in Seq(Urls), q # <<>>, Distinct(q)
    PROVE  /\ Head(q) \in ToSet(q) /\ Distinct(Tail(q)) /\ ToSet(Tail(q)) = ToSet(q) \ {Head(q)}
           /\ Len(q) = 1 => ToSet(q) \ {Head(q)} = {}
<1> DEFINE n == Len(q) - 1
<1>1. /\ Len(q) \in Nat /\ n \in Nat /\ DOMAIN q = 1 .. n + 1 /\ Head(q) = q[1]
      /\ Tail(q) \in Seq(Urls) /\ DOMAIN Tail(q) = 1 .. n /\ \A i \in 1 .. n : Tail(q)[i] = q[i + 1]
  OBVIOUS
<1> HIDE DEF n
<1>2. \A i, j \in 1 .. n + 1 : q[i] = q[j] => i = j BY <1>1 DEF Distinct
<1>3. \A i \in 1 .. n : i + 1 \in 1 .. n + 1 /\ i + 1 # 1 BY <1>1
<1>4. ToSet(q) = {q[i] : i \in 1 .. n + 1} /\ ToSet(Tail(q)) = {q[i + 1] : i \in 1 .. n}
  BY <1>1 DEF ToSet
<1>5. \A i \in 1 .. n + 1 : i # 1 => i - 1 \in 1 .. n /\ (i - 1) + 1 = i BY <1>1
<1>6. 1 \in 1 .. n + 1 BY <1>1
<1>7. Distinct(Tail(q))
  <2> SUFFICES ASSUME NEW i \in 1 .. n, NEW j \in 1 .. n, q[i + 1] = q[j + 1] PROVE i = j
    BY <1>1 DEF Distinct
  <2>1. i + 1 = j + 1 BY <1>2, <1>3
  <2> QED BY <2>1
<1>8. ToSet(Tail(q)) = ToSet(q) \ {q[1]}
  <2>1. ASSUME NEW x \in ToSet(Tail(q)) PROVE x \in ToSet(q) /\ x # q[1]
    BY <1>2, <1>3, <1>4, <1>6
  <2>2. ASSUME NEW x \in ToSet(q), x # q[1] PROVE x \in ToSet(Tail(q))
    <3>1. PICK i \in 1 .. n + 1 : x = q[i] BY <1>4
    <3>2. i # 1 BY <2>2, <3>1
    <3> QED BY <1>4, <1>5, <3>1, <3>2
  <2> QED BY <2>1, <2>2
<1>9. Len(q) = 1 => ToSet(q) \ {q[1]} = {}
  <2>1. Len(q) = 1 => n = 0 BY DEF n
  <2> QED BY <1>4, <2>1
<1> QED BY <1>1, <1>4, <1>6, <1>7, <1>8, <1>9

\* What runs when r has handled its next file.
Stepped(R, r) == (R \ {r}) \cup IF Len(r.command.urls) = 1 THEN {}
                                ELSE {[r EXCEPT !.command.urls = Tail(@)]}

\* One step of the only command.
LEMMA OneJobStep ==
    ASSUME NEW R \in SUBSET Running, NEW op, NEW X, NEW d, OneJob(R, op, X, d), NEW r \in R
    PROVE  /\ r.command.op = op /\ r.command.to = d
           /\ Head(r.command.urls) \in X
           /\ OneJob(Stepped(R, r), op, X \ {Head(r.command.urls)}, d)
<1> DEFINE q == r.command.urls
           t == [r EXCEPT !.command.urls = Tail(@)]
<1>1. R = {r} /\ r.command.op = op /\ r.command.to = d /\ Distinct(q) /\ ToSet(q) = X
  BY DEF OneJob
<1>2. r \in Running OBVIOUS
<1>3. q \in Seq(Urls) /\ q # <<>> BY <1>2 DEF Running, Jobs, Commands
<1>4. t.command = [op |-> op, urls |-> Tail(q), to |-> d] BY <1>1, <1>2, JobStep
<1> DEFINE R2 == Stepped(R, r)
<1>5. R2 = IF Len(q) = 1 THEN {} ELSE {t} BY <1>1 DEF Stepped
<1> HIDE DEF q, t, R2
<1>6. /\ Head(q) \in X /\ Distinct(Tail(q)) /\ ToSet(Tail(q)) = X \ {Head(q)}
      /\ Len(q) = 1 => X \ {Head(q)} = {}
  BY <1>1, <1>3, HeadAndTail
<1>7. OneJob(R2, op, X \ {Head(q)}, d)
  <2>1. CASE Len(q) = 1 BY <1>5, <1>6, <2>1 DEF OneJob
  <2>2. CASE Len(q) # 1
    <3>1. R2 = {t} /\ t.command.op = op /\ t.command.to = d /\ t.command.urls = Tail(q)
      BY <1>4, <1>5, <2>2
    <3> QED BY <1>6, <3>1 DEF OneJob
  <2> QED BY <2>1, <2>2
<1> QED BY <1>1, <1>6, <1>7 DEF q, R2

LEMMA BackIsOne ==
    ASSUME NEW S \in SUBSET Urls, NEW d, NEW u \in S, NEW v \in S, Back(v, d) = Back(u, d)
    PROVE  v = u
<1>1. v = <<v[1], v[2]>> /\ u = <<u[1], u[2]>> BY DEF Urls
<1>2. v[1] = u[1] /\ <<Target(v, d)>> = <<Target(u, d)>>
  <2>1. Back(v, d).to = v[1] /\ Back(u, d).to = u[1] BY DEF Back
  <2>2. Back(v, d).urls = <<Target(v, d)>> /\ Back(u, d).urls = <<Target(u, d)>> BY DEF Back
  <2> QED BY <2>1, <2>2
<1>3. Target(v, d) = Target(u, d)
  <2>1. <<Target(v, d)>>[1] = Target(v, d) /\ <<Target(u, d)>>[1] = Target(u, d) OBVIOUS
  <2> QED BY <1>2, <2>1
<1>4. v[2] = u[2]
  <2>1. Target(v, d)[2] = v[2] /\ Target(u, d)[2] = u[2] BY DEF Target
  <2> QED BY <1>3, <2>1
<1> QED BY <1>1, <1>2, <1>4

LEMMA MovesBackStep ==
    ASSUME NEW R \in SUBSET Running, NEW S \in SUBSET Urls, NEW d, MovesBack(R, S, d),
           NEW r \in R
    PROVE  \E u \in S : /\ r.command = Back(u, d) /\ Head(r.command.urls) = Target(u, d)
                        /\ MovesBack(Stepped(R, r), S \ {u}, d)
<1>1. PICK u \in S : r.command = Back(u, d) BY DEF MovesBack
<1>2. r.command.urls = <<Target(u, d)>> BY <1>1 DEF Back
<1>3. Len(r.command.urls) = 1 /\ Head(r.command.urls) = Target(u, d) BY <1>2
<1> DEFINE R2 == Stepped(R, r)
<1>4. R2 = R \ {r} BY <1>3 DEF Stepped
<1> HIDE DEF R2
<1>5. \A v \in S : Back(v, d) = Back(u, d) => v = u BY BackIsOne
<1>6. MovesBack(R2, S \ {u}, d)
  <2>1. \A q \in R2 : \E v \in S \ {u} : q.command = Back(v, d)
    <3> SUFFICES ASSUME NEW q \in R2 PROVE \E v \in S \ {u} : q.command = Back(v, d) OBVIOUS
    <3>1. q \in R /\ q # r BY <1>4
    <3>2. PICK v \in S : q.command = Back(v, d) BY <3>1 DEF MovesBack
    <3>3. v # u BY <1>1, <3>1, <3>2 DEF MovesBack
    <3> QED BY <3>2, <3>3
  <2>2. \A v \in S \ {u} : \E q \in R2 : q.command = Back(v, d)
    <3> SUFFICES ASSUME NEW v \in S \ {u} PROVE \E q \in R2 : q.command = Back(v, d) OBVIOUS
    <3>1. PICK q \in R : q.command = Back(v, d) BY DEF MovesBack
    <3>2. q # r BY <1>1, <1>5, <3>1
    <3> QED BY <1>4, <3>1, <3>2
  <2>3. \A p, q \in R2 : p.command = q.command => p = q BY <1>4 DEF MovesBack
  <2> QED BY <2>1, <2>2, <2>3 DEF MovesBack
<1> QED BY <1>1, <1>3, <1>6 DEF R2

LEMMA GoesOn == ASSUME Types, Goes, RunStep PROVE Goes'
<1>1. PICK r \in running :
        /\ fs' = Effect(fs, r.command, Head(r.command.urls))
        /\ running' = Stepped(running, r)
  BY DEF RunStep, Stepped
<1>2. ideal' = ideal /\ done' = done BY DEF RunStep, history
<1>3. fs \in Contexts /\ ideal \in Contexts /\ running \in SUBSET Running /\ done \in Seq(Undone)
  BY DEF Types, TypeOK, Contexts
<1>4. CASE done # <<>> /\ PasteGoes(running, fs, Last(done).before, ideal)
  <2> DEFINE b == Last(done).before
  <2>1. b \in Contexts
    <3>1. Last(done) \in Undone BY <1>3, <1>4, FrontType
    <3> QED BY <3>1 DEF Undone
  <2> HIDE DEF b
  <2>2. PICK a \in Actions, d \in Dirs, U \in SUBSET Urls : \E S \in SUBSET U :
          /\ Free(b, U, d) /\ IsPasted(fs, b, a, S, d) /\ IsPasted(ideal, b, a, U, d)
          /\ OneJob(running, OpOf(a), U \ S, d)
    BY <1>4 DEF PasteGoes, b
  <2>3. PICK S \in SUBSET U :
          /\ Free(b, U, d) /\ IsPasted(fs, b, a, S, d) /\ IsPasted(ideal, b, a, U, d)
          /\ OneJob(running, OpOf(a), U \ S, d)
    BY <2>2
  <2> DEFINE u == Head(r.command.urls)
             X == U \ S
  <2>4. /\ r.command.op = OpOf(a) /\ r.command.to = d /\ u \in X
        /\ OneJob(running', OpOf(a), X \ {u}, d)
    <3>1. OneJob(running, OpOf(a), X, d) BY <2>3
    <3> HIDE DEF X
    <3> QED BY <1>1, <1>3, <3>1, OneJobStep
  <2> HIDE DEF u
  <2>5. u \in U /\ u \notin S BY <2>4
  <2>6. IsPasted(fs', b, a, S \cup {u}, d)
    <3>1. IsPasted(Effect(fs, r.command, u), b, a, S \cup {u}, d)
      BY <1>3, <2>1, <2>3, <2>4, <2>5, PasteOne
    <3> QED BY <1>1, <3>1 DEF u
  <2>7. X \ {u} = U \ (S \cup {u}) /\ S \cup {u} \in SUBSET U BY <2>5
  <2>8. PasteGoes(running', fs', b, ideal)
    <3> DEFINE T == S \cup {u}
    <3>1. /\ T \in SUBSET U /\ Free(b, U, d) /\ IsPasted(fs', b, a, T, d)
          /\ IsPasted(ideal, b, a, U, d) /\ OneJob(running', OpOf(a), U \ T, d)
      BY <2>3, <2>4, <2>6, <2>7
    <3> HIDE DEF T
    <3> QED BY <3>1 DEF PasteGoes
  <2>9. PasteGoes(running', fs', Last(done').before, ideal') BY <1>2, <2>8 DEF b
  <2> QED BY <1>2, <1>4, <2>9 DEF Goes
<1>5. CASE UndoGoes(running, fs, ideal)
  <2>1. PICK a \in Actions, d \in Dirs, S \in SUBSET Urls :
          /\ Free(ideal, S, d) /\ IsPasted(fs, ideal, a, S, d)
          /\ IF a = "cut" THEN MovesBack(running, S, d)
             ELSE OneJob(running, "rm", {Target(u, d) : u \in S}, d)
    BY <1>5 DEF UndoGoes
  <2>2. \A u \in S : Free(ideal, S \ {u}, d) BY <2>1 DEF Free
  <2>3. CASE a = "cut"
    <3>1. PICK u \in S : /\ r.command = Back(u, d) /\ Head(r.command.urls) = Target(u, d)
                         /\ MovesBack(running', S \ {u}, d)
      BY <1>1, <1>3, <2>1, <2>3, MovesBackStep
    <3>2. IsPasted(fs', ideal, a, S \ {u}, d)
      <4>1. IsPasted(Effect(fs, Back(u, d), Target(u, d)), ideal, "cut", S \ {u}, d)
        BY <1>3, <2>1, <2>3, MoveBackOne
      <4> QED BY <1>1, <2>3, <3>1, <4>1
    <3>3. UndoGoes(running', fs', ideal)
      <4> DEFINE T == S \ {u}
      <4>1. /\ T \in SUBSET Urls /\ Free(ideal, T, d) /\ IsPasted(fs', ideal, a, T, d)
            /\ MovesBack(running', T, d)
        BY <2>2, <3>1, <3>2
      <4> HIDE DEF T
      <4> QED BY <2>3, <4>1 DEF UndoGoes
    <3> QED BY <1>2, <3>3 DEF Goes
  <2>4. CASE a # "cut"
    <3> DEFINE X == {Target(u, d) : u \in S}
               h == Head(r.command.urls)
    <3>1. OneJob(running, "rm", X, d) BY <2>1, <2>4
    <3> HIDE DEF X
    <3>2. r.command.op = "rm" /\ h \in X /\ OneJob(running', "rm", X \ {h}, d)
      BY <1>1, <1>3, <3>1, OneJobStep
    <3>3. PICK u \in S : h = Target(u, d) BY <3>2 DEF X
    <3> HIDE DEF h
    <3> DEFINE T == S \ {u}
    <3>4. X \ {h} = {Target(v, d) : v \in T}
      <4>1. \A v \in S : Target(v, d) = Target(u, d) => v = u BY <2>1 DEF Free
      <4> QED BY <3>3, <4>1 DEF X
    <3>5. IsPasted(fs', ideal, a, T, d)
      <4>1. IsPasted(Effect(fs, r.command, Target(u, d)), ideal, a, T, d)
        BY <1>3, <2>1, <2>4, <3>2, RemoveOne
      <4> QED BY <1>1, <3>3, <4>1 DEF h
    <3>6. T \in SUBSET Urls /\ Free(ideal, T, d) BY <2>2
    <3> HIDE DEF T
    <3>7. UndoGoes(running', fs', ideal) BY <2>4, <3>2, <3>4, <3>5, <3>6 DEF UndoGoes
    <3> QED BY <1>2, <3>7 DEF Goes
  <2> QED BY <2>3, <2>4
<1> QED BY <1>1, <1>4, <1>5 DEF Goes

\* When nothing runs any more, the paste is made, or it is undone.
LEMMA GoneThrough == ASSUME Types, Goes, running = {} PROVE fs = ideal
<1>1. fs \in Contexts /\ ideal \in Contexts /\ done \in Seq(Undone)
  BY DEF Types, TypeOK, Contexts
<1>2. CASE done # <<>> /\ PasteGoes(running, fs, Last(done).before, ideal)
  <2> DEFINE b == Last(done).before
  <2>1. b \in Contexts
    <3>1. Last(done) \in Undone BY <1>1, <1>2, FrontType
    <3> QED BY <3>1 DEF Undone
  <2> HIDE DEF b
  <2>2. PICK a \in Actions, d \in Dirs, U \in SUBSET Urls : \E S \in SUBSET U :
          /\ Free(b, U, d) /\ IsPasted(fs, b, a, S, d) /\ IsPasted(ideal, b, a, U, d)
          /\ OneJob(running, OpOf(a), U \ S, d)
    BY <1>2 DEF PasteGoes, b
  <2>3. PICK S \in SUBSET U : IsPasted(fs, b, a, S, d) /\ OneJob(running, OpOf(a), U \ S, d)
    BY <2>2
  <2>4. S = U BY <2>3 DEF OneJob
  <2> QED BY <1>1, <2>1, <2>2, <2>3, <2>4, PastedIsOne
<1>3. CASE UndoGoes(running, fs, ideal)
  <2>1. PICK a \in Actions, d \in Dirs, S \in SUBSET Urls :
          /\ Free(ideal, S, d) /\ IsPasted(fs, ideal, a, S, d)
          /\ IF a = "cut" THEN MovesBack(running, S, d)
             ELSE OneJob(running, "rm", {Target(u, d) : u \in S}, d)
    BY <1>3 DEF UndoGoes
  <2>2. S = {} BY <2>1 DEF MovesBack, OneJob
  <2> QED BY <1>1, <2>1, <2>2, NothingPasted
<1> QED BY <1>2, <1>3 DEF Goes

\* And no file is lost.
LEMMA GoesLosesNothing == ASSUME Types, Goes, NoneLost PROVE HasFiles(fs)
<1>1. fs \in Contexts /\ ideal \in Contexts /\ done \in Seq(Undone)
  BY DEF Types, TypeOK, Contexts
<1>2. CASE done # <<>> /\ PasteGoes(running, fs, Last(done).before, ideal)
  <2> DEFINE b == Last(done).before
  <2>1. b \in Contexts /\ HasFiles(b)
    <3>1. Last(done) \in Undone /\ Last(done) = done[Len(done)] /\ Len(done) \in DOMAIN done
      BY <1>1, <1>2, FrontType
    <3> QED BY <3>1 DEF Undone, NoneLost
  <2> HIDE DEF b
  <2>2. PICK a \in Actions, d \in Dirs, U \in SUBSET Urls : \E S \in SUBSET U :
          /\ Free(b, U, d) /\ IsPasted(fs, b, a, S, d) /\ IsPasted(ideal, b, a, U, d)
          /\ OneJob(running, OpOf(a), U \ S, d)
    BY <1>2 DEF PasteGoes, b
  <2>3. PICK S \in SUBSET U : IsPasted(fs, b, a, S, d) BY <2>2
  <2>4. Free(b, S, d) BY <2>2 DEF Free
  <2> QED BY <1>1, <2>1, <2>3, <2>4, PastedHasFiles
<1>3. CASE UndoGoes(running, fs, ideal)
  <2>1. PICK a \in Actions, d \in Dirs, S \in SUBSET Urls :
          Free(ideal, S, d) /\ IsPasted(fs, ideal, a, S, d)
    BY <1>3 DEF UndoGoes
  <2> QED BY <1>1, <2>1, PastedHasFiles DEF NoneLost
<1> QED BY <1>2, <1>3 DEF Goes, NoneLost

\* A paste starts one command.
LEMMA RedoIs ==
    ASSUME NEW a, NEW urls, NEW d
    PROVE  Redo(a, urls, d) = <<[op |-> OpOf(a), urls |-> urls, to |-> d]>>
BY DEF Redo, OpOf

LEMMA PasteStarts ==
    ASSUME Types, running = {}, fs = ideal, NEW d \in Dirs, Paste(d), plain'
    PROVE  /\ action \in Actions /\ contexts \in Seq(Urls) /\ contexts # <<>>
           /\ Distinct(contexts) /\ Free(ideal, ToSet(contexts), d)
           /\ IsPasted(ideal', ideal, action, ToSet(contexts), d)
           /\ PasteGoes(running', fs', ideal, ideal')
<1> DEFINE U == ToSet(contexts)
           c == [op |-> OpOf(action), urls |-> contexts, to |-> d]
<1>1. /\ action # "none" /\ contexts # <<>>
      /\ ExeSync(Redo(action, contexts, d)) /\ ideal' = EffectOf(ideal, Redo(action, contexts, d)[1])
  BY DEF Paste, CanPaste
<1>2. \A i \in DOMAIN contexts :
        /\ ideal[contexts[i]] # None
        /\ ideal[Target(contexts[i], d)] = None
        /\ \A j \in DOMAIN contexts : contexts[j][2] = contexts[i][2] => i = j
  BY DEF Paste
<1>3. action \in Actions /\ contexts \in Seq(Urls) /\ ideal \in Contexts
  BY <1>1 DEF Types, TypeOK, Contexts
<1>4. Distinct(contexts) BY <1>2 DEF Distinct
<1>5. U = {contexts[i] : i \in DOMAIN contexts} BY DEF ToSet
<1>6. U \in SUBSET Urls
  <2>1. \A i \in DOMAIN contexts : contexts[i] \in Urls BY <1>3
  <2> QED BY <1>5, <2>1
<1>7. Free(ideal, U, d)
  <2>1. \A u \in U : ideal[u] # None /\ ideal[Target(u, d)] = None BY <1>2, <1>5
  <2>2. ASSUME NEW u \in U, NEW v \in U, Target(u, d) = Target(v, d) PROVE u = v
    <3>1. PICK i, j \in DOMAIN contexts : u = contexts[i] /\ v = contexts[j] BY <1>5
    <3>2. Target(u, d)[2] = u[2] /\ Target(v, d)[2] = v[2] BY DEF Target
    <3>3. u[2] = v[2] BY <2>2, <3>2
    <3> QED BY <1>2, <3>1, <3>3
  <2> QED BY <2>1, <2>2 DEF Free
<1>8. Redo(action, contexts, d) = <<c>> BY RedoIs
<1>9. c.op = OpOf(action) /\ c.to = d /\ c.urls = contexts OBVIOUS
<1> HIDE DEF c
<1>10. ideal' = EffectOf(ideal, c) BY <1>1, <1>8
<1>11. IsPasted(ideal', ideal, action, U, d) BY <1>3, <1>4, <1>7, <1>9, <1>10, PasteAll
<1>12. running' = {[id |-> commands + 1, command |-> c]} /\ fs' = fs
  <2>1. running' = running \cup {[id |-> commands + i, command |-> <<c>>[i]] : i \in DOMAIN <<c>>}
    BY <1>1, <1>8 DEF ExeSync
  <2>2. DOMAIN <<c>> = {1} /\ <<c>>[1] = c OBVIOUS
  <2>3. running' = {[id |-> commands + 1, command |-> c]} BY <2>1, <2>2
  <2> QED BY <1>1, <2>3 DEF ExeSync
<1>13. OneJob(running', OpOf(action), U \ {}, d) BY <1>4, <1>9, <1>12 DEF OneJob
<1>14. IsPasted(fs', ideal, action, {}, d) BY <1>3, <1>12, NothingPasted
<1> HIDE DEF U
<1>15. PasteGoes(running', fs', ideal, ideal')
  <2> DEFINE S == {}
  <2>1. /\ S \in SUBSET U /\ IsPasted(fs', ideal, action, S, d)
        /\ OneJob(running', OpOf(action), U \ S, d)
    BY <1>13, <1>14
  <2> HIDE DEF S
  <2> QED BY <1>3, <1>6, <1>7, <1>11, <2>1 DEF PasteGoes
<1> QED BY <1>1, <1>3, <1>4, <1>7, <1>11, <1>15 DEF U

\* An undo starts the commands that take back what is pasted.
LEMMA UndoStarts ==
    ASSUME Types, running = {}, fs = ideal, NEW b \in Contexts, NEW e, e.redo \in Seq(Jobs),
           e.undo = Undoes, Undoing(e, b, ideal), ExeSync(Undoes)
    PROVE  UndoGoes(running', fs', b)
<1>1. PICK a \in Actions :
        /\ e.undo = Undo(a, e.redo[1].urls, e.redo[1].to)
        /\ e.redo = Redo(a, e.redo[1].urls, e.redo[1].to)
        /\ e.redo[1].urls # <<>> /\ Distinct(e.redo[1].urls)
        /\ Free(b, ToSet(e.redo[1].urls), e.redo[1].to)
        /\ IsPasted(ideal, b, a, ToSet(e.redo[1].urls), e.redo[1].to)
  BY DEF Undoing
<1> DEFINE urls == e.redo[1].urls
           d == e.redo[1].to
           S == ToSet(urls)
<1>2. e.redo[1] \in Commands
  <2>1. Len(e.redo) = 1 BY <1>1, RedoIs
  <2>2. e.redo[1] \in Jobs BY <2>1
  <2> QED BY <2>2 DEF Jobs
<1>3. urls \in Seq(Urls) /\ d \in Dirs BY <1>2 DEF Commands
<1>4. Undoes = Undo(a, urls, d) /\ urls # <<>> /\ Distinct(urls) /\ Free(b, S, d)
      /\ IsPasted(ideal, b, a, S, d)
  BY <1>1
<1> HIDE DEF urls, d
<1>5. DOMAIN urls = 1 .. Len(urls) /\ Len(urls) \in Nat /\ S = {urls[i] : i \in DOMAIN urls}
  BY <1>3 DEF ToSet
<1>6. S \in SUBSET Urls
  <2>1. \A i \in DOMAIN urls : urls[i] \in Urls BY <1>3
  <2> QED BY <1>5, <2>1
<1>7. fs' = fs /\ running' = {[id |-> commands + i, command |-> Undoes[i]] : i \in DOMAIN Undoes}
  BY DEF ExeSync
<1> HIDE DEF S
<1>8. CASE a = "cut"
  <2>1. Undoes = [i \in DOMAIN urls |-> Back(urls[i], d)] BY <1>4, <1>8 DEF Undo, Back
  <2>2. running' = {[id |-> commands + i, command |-> Back(urls[i], d)] : i \in DOMAIN urls}
    BY <1>7, <2>1
  <2>3. \A r \in running' : \E i \in DOMAIN urls :
          r = [id |-> commands + i, command |-> Back(urls[i], d)]
    BY <2>2
  <2>4. \A r \in running' : \E u \in S : r.command = Back(u, d) BY <1>5, <2>3
  <2>5. \A u \in S : \E r \in running' : r.command = Back(u, d)
    <3> SUFFICES ASSUME NEW i \in DOMAIN urls
                 PROVE  \E r \in running' : r.command = Back(urls[i], d)
      BY <1>5
    <3>1. [id |-> commands + i, command |-> Back(urls[i], d)] \in running' BY <2>2
    <3> QED BY <3>1
  <2>6. ASSUME NEW r \in running', NEW q \in running', r.command = q.command PROVE r = q
    <3>1. PICK i \in DOMAIN urls : r = [id |-> commands + i, command |-> Back(urls[i], d)]
      BY <2>3
    <3>2. PICK j \in DOMAIN urls : q = [id |-> commands + j, command |-> Back(urls[j], d)]
      BY <2>3
    <3>3. Back(urls[i], d) = Back(urls[j], d) BY <2>6, <3>1, <3>2
    <3>4. urls[i] \in S /\ urls[j] \in S BY <1>5
    <3>5. urls[i] = urls[j] BY <1>6, <3>3, <3>4, BackIsOne
    <3>6. i = j BY <1>4, <3>5 DEF Distinct
    <3> QED BY <3>1, <3>2, <3>6
  <2>7. MovesBack(running', S, d) BY <2>4, <2>5, <2>6 DEF MovesBack
  <2> QED BY <1>3, <1>4, <1>6, <1>7, <1>8, <2>7 DEF UndoGoes
<1>9. CASE a # "cut"
  <2> DEFINE q == [i \in DOMAIN urls |-> Target(urls[i], d)]
             c == [op |-> "rm", urls |-> q, to |-> d]
             X == {Target(u, d) : u \in S}
  <2>1. Undoes = <<c>> BY <1>4, <1>9 DEF Undo
  <2>2. c.op = "rm" /\ c.to = d /\ c.urls = q OBVIOUS
  <2> HIDE DEF c
  <2>3. DOMAIN <<c>> = {1} /\ <<c>>[1] = c OBVIOUS
  <2>4. running' = {[id |-> commands + 1, command |-> c]} BY <1>7, <2>1, <2>3
  <2>5. DOMAIN q = DOMAIN urls /\ \A i \in DOMAIN urls : q[i] = Target(urls[i], d) OBVIOUS
  <2> HIDE DEF q
  <2>6. Distinct(q)
    <3> SUFFICES ASSUME NEW i \in DOMAIN urls, NEW j \in DOMAIN urls, q[i] = q[j] PROVE i = j
      BY <2>5 DEF Distinct
    <3>1. urls[i] \in S /\ urls[j] \in S BY <1>5
    <3>2. urls[i] = urls[j] BY <1>4, <2>5, <3>1 DEF Free
    <3> QED BY <1>4, <3>2 DEF Distinct
  <2>7. ToSet(q) = X
    <3>1. ToSet(q) = {Target(urls[i], d) : i \in DOMAIN urls} BY <2>5 DEF ToSet
    <3> QED BY <1>5, <3>1
  <2> HIDE DEF X
  <2>8. OneJob(running', "rm", X, d) BY <2>2, <2>4, <2>6, <2>7 DEF OneJob
  <2> QED BY <1>3, <1>4, <1>6, <1>7, <1>9, <2>8 DEF UndoGoes, X
<1> QED BY <1>8, <1>9
-----------------------------------------------------------------------------
(***************************************************************************)
(* The ring.                                                               *)
(***************************************************************************)
LEMMA Steps ==
    ASSUME NEW c \in Slots
    PROVE  /\ Behind(c, 0) = c
           /\ At(c + 1) \in Slots /\ Behind(At(c + 1), 0) = At(c + 1)
           /\ \A k \in 0 .. ListSize :
                /\ k = ListSize => Behind(c, k) = At(c + 1)
                /\ k # ListSize => Behind(At(c + 1), k + 1) = Behind(c, k)
           /\ At(c - 1) \in Slots
           /\ \A k \in 0 .. ListSize : k # 0 => Behind(At(c - 1), k - 1) = Behind(c, k)
<1>1. ListSize \in Nat /\ Modulas = ListSize + 1 /\ c \in 0 .. ListSize
  BY ClipboardAssumption DEF Modulas, Slots
<1>2. c \in Int /\ c + 1 \in Int /\ c - 1 \in Int BY <1>1
<1>3. /\ At(c + 1) = IF c = ListSize THEN 0 ELSE c + 1
      /\ At(c - 1) = IF c = 0 THEN ListSize ELSE c - 1
      /\ At(c + 1) \in Slots /\ At(c - 1) \in Slots
  BY <1>2, Modulo
<1>4. Behind(c, 0) = c BY <1>1 DEF Behind
<1>5. Behind(At(c + 1), 0) = At(c + 1) BY <1>1, <1>3 DEF Behind
<1>6. \A k \in 0 .. ListSize : k = ListSize => Behind(c, k) = At(c + 1)
  BY <1>1, <1>3 DEF Behind
<1>7. ASSUME NEW k \in 0 .. ListSize, k # ListSize
      PROVE  Behind(At(c + 1), k + 1) = Behind(c, k)
  <2>1. CASE c = ListSize BY <1>1, <1>3, <1>7, <2>1 DEF Behind
  <2>2. CASE c # ListSize BY <1>1, <1>3, <1>7, <2>2 DEF Behind
  <2> QED BY <2>1, <2>2
<1>8. ASSUME NEW k \in 0 .. ListSize, k # 0
      PROVE  Behind(At(c - 1), k - 1) = Behind(c, k)
  <2>1. CASE c = 0 BY <1>1, <1>3, <1>8, <2>1 DEF Behind
  <2>2. CASE c # 0 BY <1>1, <1>3, <1>8, <2>2 DEF Behind
  <2> QED BY <2>1, <2>2
<1> QED BY <1>3, <1>4, <1>5, <1>6, <1>7, <1>8

\* What a new entry says of the paste it is for.
LEMMA EntryUndoes ==
    ASSUME NEW a \in Actions, NEW urls \in Seq(Urls), urls # <<>>, NEW d \in Dirs, Distinct(urls),
           NEW b, NEW g, Free(b, ToSet(urls), d), IsPasted(g, b, a, ToSet(urls), d),
           NEW e, e.redo = Redo(a, urls, d), e.undo = Undo(a, urls, d)
    PROVE  Undoing(e, b, g)
<1>1. e.redo[1] = [op |-> OpOf(a), urls |-> urls, to |-> d]
  <2> DEFINE c == [op |-> OpOf(a), urls |-> urls, to |-> d]
  <2>1. e.redo = <<c>> BY RedoIs
  <2> HIDE DEF c
  <2>2. e.redo[1] = c BY <2>1
  <2> QED BY <2>2 DEF c
<1>2. e.redo[1].urls = urls /\ e.redo[1].to = d BY <1>1
<1> QED BY <1>2 DEF Undoing

\* A paste goes on at the next place, and takes that of the paste that is as
\* many pastes ago as the ring has places.
LEMMA RingAfterPaste ==
    ASSUME Types, Numbered, Ring, running = {}, fs = ideal, NEW d \in Dirs, Paste(d), plain'
    PROVE  Numbered' /\ Ring'
<1> DEFINE c == At(cursor)
           new == At(c + 1)
           n == Len(done)
           x == [paste |-> pastes + 1, before |-> ideal]
<1>1. /\ cursor' = new /\ pastes' = pastes + 1 /\ done' = Append(done, x) /\ pastes < MaxPastes
      /\ entries' = [entries EXCEPT ![new] =
           [paste |-> pastes + 1, redo |-> Redo(action, contexts, d),
            undo |-> Undo(action, contexts, d)]]
  BY DEF Paste, CanPaste
<1>2. c \in Slots
  <2>1. cursor \in Int BY ClipboardAssumption DEF Types, TypeOK, Slots
  <2> QED BY <2>1, Modulo
<1> HIDE DEF c
<1>3. new \in Slots BY <1>2, Steps
<1> HIDE DEF new
<1>4. /\ action \in Actions /\ contexts \in Seq(Urls) /\ contexts # <<>>
      /\ Distinct(contexts) /\ Free(ideal, ToSet(contexts), d)
      /\ IsPasted(ideal', ideal, action, ToSet(contexts), d)
  BY PasteStarts
<1>5. /\ entries'[new] = [paste |-> pastes + 1, redo |-> Redo(action, contexts, d),
                         undo |-> Undo(action, contexts, d)]
      /\ \A s \in Slots \ {new} : entries'[s] = entries[s]
  BY <1>1, <1>3, <1>4, TypesRing
<1>6. /\ done \in Seq(Undone) /\ n \in Nat /\ DOMAIN done = 1 .. n /\ pastes \in Nat
      /\ \A i \in 1 .. n : done[i].paste \in Nat
  <2>1. done \in Seq(Undone) BY DEF Types
  <2>2. n \in Nat /\ DOMAIN done = 1 .. n /\ \A i \in 1 .. n : done[i] \in Undone BY <2>1
  <2>3. pastes \in Nat /\ MaxPastes \in Nat BY ClipboardAssumption DEF Types, TypeOK
  <2>4. \A e \in Undone : e.paste \in Nat BY <2>3 DEF Undone
  <2> HIDE DEF n
  <2> QED BY <2>1, <2>2, <2>3, <2>4
<1>7. /\ DOMAIN done' = 1 .. n + 1 /\ Len(done') = n + 1 /\ done'[n + 1] = x
      /\ \A i \in 1 .. n : done'[i] = done[i]
  <2>1. x \in Undone
    <3>1. pastes + 1 \in 1 .. MaxPastes BY <1>1, <1>6, ClipboardAssumption
    <3> QED BY <3>1 DEF Undone, Types, TypeOK, Contexts
  <2> HIDE DEF x
  <2> QED BY <1>1, <1>6, <2>1
<1>8. x.paste = pastes + 1 /\ x.before = ideal OBVIOUS
<1> HIDE DEF x, n
<1>9. \A i \in 1 .. n : done[i].paste <= pastes BY <1>6 DEF Numbered
<1>10. \A s \in Slots : entries[s].paste <= pastes /\ entries[s].paste \in Nat
  BY ClipboardAssumption DEF Numbered, Types, TypeOK
<1>11. Numbered'
  <2>1. \A i \in 1 .. n + 1 : done'[i].paste <= pastes'
    <3> SUFFICES ASSUME NEW i \in 1 .. n + 1 PROVE done'[i].paste <= pastes' OBVIOUS
    <3>1. CASE i = n + 1 BY <1>1, <1>6, <1>7, <1>8, <3>1
    <3>2. CASE i # n + 1
      <4>1. i \in 1 .. n BY <1>6, <3>2
      <4> QED BY <1>1, <1>6, <1>7, <1>9, <4>1
    <3> QED BY <3>1, <3>2
  <2>2. ASSUME NEW i \in 1 .. n + 1, NEW j \in 1 .. n + 1, i < j
        PROVE  done'[i].paste < done'[j].paste
    <3>1. i \in 1 .. n BY <1>6, <2>2
    <3>2. CASE j = n + 1 BY <1>6, <1>7, <1>8, <1>9, <3>1, <3>2
    <3>3. CASE j # n + 1
      <4>1. j \in 1 .. n BY <1>6, <3>3
      <4>2. done[i].paste < done[j].paste BY <1>6, <2>2, <3>1, <4>1 DEF Numbered
      <4> QED BY <1>7, <3>1, <4>1, <4>2
    <3> QED BY <3>2, <3>3
  <2>3. \A s \in Slots : entries'[s].paste <= pastes'
    <3> SUFFICES ASSUME NEW s \in Slots PROVE entries'[s].paste <= pastes' OBVIOUS
    <3>1. CASE s = new BY <1>1, <1>5, <1>6, <3>1
    <3>2. CASE s # new BY <1>1, <1>5, <1>6, <1>10, <3>2
    <3> QED BY <3>1, <3>2
  <2> QED BY <1>7, <2>1, <2>2, <2>3 DEF Numbered
<1>12. At(cursor') = new
  <2>1. new \in Int BY <1>3, ClipboardAssumption DEF Slots
  <2> QED BY <1>1, <1>3, <2>1, Modulo
<1>13. ASSUME NEW s \in Slots, NEW j \in 1 .. n + 1, entries'[s].paste = done'[j].paste
       PROVE  /\ Len(done') - j <= ListSize
              /\ s = Behind(new, Len(done') - j)
              /\ Undoing(entries'[s], done'[j].before, Later(j)')
  <2>1. CASE j = n + 1
    <3>1. s = new
      <4> SUFFICES ASSUME s # new PROVE FALSE OBVIOUS
      <4>1. entries[s].paste = pastes + 1 BY <1>5, <1>7, <1>8, <1>13, <2>1
      <4> QED BY <1>6, <1>10, <4>1
    <3>2. Len(done') - j = 0 /\ ListSize \in Nat BY <1>6, <1>7, <2>1, ClipboardAssumption
    <3>3. Behind(new, 0) = new BY <1>2, Steps DEF new
    <3>4. Later(j)' = ideal' BY <1>7, <2>1 DEF Later
    <3>5. entries'[s].redo = Redo(action, contexts, d) /\ entries'[s].undo = Undo(action, contexts, d)
      BY <1>5, <3>1
    <3>6. Undoing(entries'[s], ideal, ideal') BY <1>4, <3>5, EntryUndoes
    <3> QED BY <1>7, <1>8, <2>1, <3>1, <3>2, <3>3, <3>4, <3>6
  <2>2. CASE j # n + 1
    <3> DEFINE k == n - j
    <3>1. j \in 1 .. n BY <1>6, <2>2
    <3>2. s # new
      <4> SUFFICES ASSUME s = new PROVE FALSE OBVIOUS
      <4>1. done[j].paste = pastes + 1 BY <1>5, <1>7, <1>13, <3>1
      <4> QED BY <1>6, <1>9, <3>1, <4>1
    <3>3. entries'[s] = entries[s] /\ done'[j] = done[j] BY <1>5, <1>7, <3>1, <3>2
    <3>4. k <= ListSize /\ s = Behind(c, k) /\ Undoing(entries[s], done[j].before, Later(j))
      BY <1>6, <1>13, <3>1, <3>3 DEF Ring, n, c
    <3>5. k \in 0 .. ListSize /\ Len(done') - j = k + 1 /\ ListSize \in Nat
      BY <1>6, <1>7, <3>1, <3>4, ClipboardAssumption
    <3> HIDE DEF k
    <3>6. k # ListSize BY <1>2, <3>2, <3>4, <3>5, Steps DEF new
    <3>7. Behind(new, k + 1) = Behind(c, k) BY <1>2, <3>5, <3>6, Steps DEF new
    <3>8. k + 1 <= ListSize BY <3>5, <3>6
    <3>9. Later(j)' = Later(j)
      <4>1. j # n + 1 /\ j + 1 \in 1 .. n + 1 BY <1>6, <3>1
      <4>2. Later(j)' = done'[j + 1].before BY <1>7, <4>1 DEF Later
      <4>3. CASE j = n BY <1>7, <1>8, <4>2, <4>3 DEF Later, n
      <4>4. CASE j # n
        <5>1. j + 1 \in 1 .. n BY <1>6, <3>1, <4>4
        <5> QED BY <1>7, <4>2, <4>4, <5>1 DEF Later, n
      <4> QED BY <4>3, <4>4
    <3> QED BY <3>3, <3>4, <3>5, <3>7, <3>8, <3>9
  <2> QED BY <2>1, <2>2
<1>14. Ring' BY <1>7, <1>12, <1>13 DEF Ring
<1> QED BY <1>11, <1>14

\* The last paste is under the cursor, and when it is undone the one before is.
LEMMA RingAfterUndo ==
    ASSUME Types, Numbered, Ring, ClipUndo, plain'
    PROVE  /\ Numbered' /\ Ring'
           /\ done # <<>> /\ ideal' = Last(done).before
           /\ Undoing(entries[At(cursor)], Last(done).before, ideal)
<1> DEFINE c == At(cursor)
           new == At(c - 1)
           n == Len(done)
<1>1. /\ done # <<>> /\ cursor' = new /\ entries' = entries /\ pastes' = pastes
      /\ done' = Front(done) /\ ideal' = Last(done).before
      /\ \E s \in Slots : entries[s].paste = Last(done).paste
  BY DEF ClipUndo
<1>2. c \in Slots
  <2>1. cursor \in Int BY ClipboardAssumption DEF Types, TypeOK, Slots
  <2> QED BY <2>1, Modulo
<1> HIDE DEF c
<1>3. new \in Slots BY <1>2, Steps
<1>4. done \in Seq(Undone) BY DEF Types
<1>5. /\ n \in Nat \ {0} /\ DOMAIN done = 1 .. n /\ Last(done) = done[n]
      /\ DOMAIN done' = 1 .. n - 1 /\ Len(done') = n - 1
      /\ \A i \in 1 .. n - 1 : done'[i] = done[i] /\ i \in 1 .. n
  <2>1. /\ n \in Nat \ {0} /\ Last(done) = done[n] /\ Len(done') = n - 1
        /\ done' \in Seq(Undone) /\ \A i \in 1 .. n - 1 : done'[i] = done[i]
    BY <1>1, <1>4, FrontType
  <2> QED BY <1>4, <2>1
<1>6. Undoing(entries[c], Last(done).before, ideal)
  <2>1. PICK s \in Slots : entries[s].paste = done[n].paste BY <1>1, <1>5
  <2>2. n \in DOMAIN done BY <1>5
  <2>3. s = Behind(c, n - n) /\ Undoing(entries[s], done[n].before, Later(n))
    BY <2>1, <2>2 DEF Ring, c, n
  <2>4. n - n = 0 BY <1>5
  <2>5. s = c BY <1>2, <2>3, <2>4, Steps
  <2>6. Later(n) = ideal BY DEF Later, n
  <2> QED BY <1>5, <2>3, <2>5, <2>6
<1> HIDE DEF new, n
<1>7. Numbered' BY <1>1, <1>5 DEF Numbered
<1>8. At(cursor') = new
  <2>1. new \in Int BY <1>3, ClipboardAssumption DEF Slots
  <2> QED BY <1>1, <1>3, <2>1, Modulo
<1>9. ASSUME NEW s \in Slots, NEW j \in 1 .. n - 1, entries'[s].paste = done'[j].paste
      PROVE  /\ Len(done') - j <= ListSize
             /\ s = Behind(new, Len(done') - j)
             /\ Undoing(entries'[s], done'[j].before, Later(j)')
  <2> DEFINE k == n - j
  <2>1. j \in DOMAIN done /\ entries[s].paste = done[j].paste /\ done'[j] = done[j]
    BY <1>1, <1>5, <1>9
  <2>2. k <= ListSize /\ s = Behind(c, k) /\ Undoing(entries[s], done[j].before, Later(j))
    BY <2>1 DEF Ring, n, c
  <2>3. k \in 0 .. ListSize /\ k # 0 /\ Len(done') - j = k - 1 /\ k - 1 <= ListSize
    BY <1>5, <2>2, ClipboardAssumption
  <2> HIDE DEF k
  <2>4. Behind(new, k - 1) = Behind(c, k) BY <1>2, <2>3, Steps DEF new
  <2>5. Later(j)' = Later(j)
    <3>1. Later(j) = done[j + 1].before
      <4>1. j # n BY <1>5
      <4> QED BY <4>1 DEF Later, n
    <3>2. CASE j = n - 1
      <4>1. Later(j)' = ideal' BY <1>5, <3>2 DEF Later
      <4>2. j + 1 = n BY <1>5, <3>2
      <4> QED BY <1>1, <1>5, <3>1, <4>1, <4>2
    <3>3. CASE j # n - 1
      <4>1. j + 1 \in 1 .. n - 1 BY <1>5, <3>3
      <4>2. Later(j)' = done'[j + 1].before BY <1>5, <3>3 DEF Later
      <4> QED BY <1>5, <3>1, <4>1, <4>2
    <3> QED BY <3>2, <3>3
  <2> QED BY <1>1, <2>1, <2>2, <2>3, <2>4, <2>5
<1>10. Ring' BY <1>5, <1>8, <1>9 DEF Ring
<1> QED BY <1>1, <1>6, <1>7, <1>10 DEF c
-----------------------------------------------------------------------------
\* Actions of the user that start nothing.
LEMMA DeepStays ==
    ASSUME Types, Deep, UNCHANGED <<ringVars, runVars, ideal, done>>, pastes' \in {pastes, pastes + 1}
    PROVE  Deep'
<1>1. UNCHANGED <<cursor, entries, fs, running, ideal, done>> BY DEF ringVars, runVars
<1>2. pastes \in Nat BY ClipboardAssumption DEF Types, TypeOK
<1>3. Numbered'
  <2>1. \A i \in DOMAIN done : done[i].paste \in Nat
    <3>1. \A i \in DOMAIN done : done[i] \in Undone BY DEF Types
    <3>2. MaxPastes \in Nat BY ClipboardAssumption
    <3> QED BY <3>1, <3>2 DEF Undone
  <2>2. \A s \in Slots : entries[s].paste \in Nat BY ClipboardAssumption DEF Types, TypeOK
  <2>3. /\ \A i \in DOMAIN done : done[i].paste <= pastes
        /\ \A s \in Slots : entries[s].paste <= pastes
        /\ \A i, j \in DOMAIN done : i < j => done[i].paste < done[j].paste
    BY DEF Deep, Numbered
  <2>4. pastes' \in Nat /\ pastes <= pastes' BY <1>2
  <2>5. \A i \in DOMAIN done : done[i].paste <= pastes' BY <1>2, <2>1, <2>3, <2>4
  <2>6. \A s \in Slots : entries[s].paste <= pastes' BY <1>2, <2>2, <2>3, <2>4
  <2> QED BY <1>1, <2>3, <2>5, <2>6 DEF Numbered
<1>4. Goes' BY <1>1 DEF Deep, Goes
<1>5. NoneLost' BY <1>1 DEF Deep, NoneLost
<1>6. Ring' BY <1>1 DEF Deep, Ring, Later
<1> QED BY <1>3, <1>4, <1>5, <1>6 DEF Deep

LEMMA DeepRunStep == ASSUME Types, Deep, RunStep PROVE Deep'
<1>1. UNCHANGED <<cursor, entries, pastes, ideal, done>> BY DEF RunStep, ringVars, history
<1>2. Goes' BY GoesOn DEF Deep
<1>3. NoneLost' BY <1>1 DEF Deep, NoneLost
<1>4. Numbered' BY <1>1 DEF Deep, Numbered
<1>5. Ring' BY <1>1 DEF Deep, Ring, Later
<1> QED BY <1>2, <1>3, <1>4, <1>5 DEF Deep

LEMMA DeepPaste ==
    ASSUME Types, Types', Deep, Patient, NEW d \in Dirs, Paste(d), plain' PROVE Deep'
<1>1. running = {} BY DEF Paste, CanPaste, UserMoves
<1>2. fs = ideal BY <1>1, GoneThrough DEF Deep
<1>3. Numbered' /\ Ring' BY <1>1, <1>2, RingAfterPaste DEF Deep
<1> DEFINE x == [paste |-> pastes + 1, before |-> ideal]
<1>4. done \in Seq(Undone) /\ done' \in Seq(Undone) /\ done' = Append(done, x)
  BY DEF Types, Paste
<1>5. /\ Len(done) \in Nat /\ DOMAIN done = 1 .. Len(done) /\ Len(done') = Len(done) + 1
      /\ DOMAIN done' = 1 .. Len(done) + 1 /\ done'[Len(done) + 1] = x
      /\ \A i \in 1 .. Len(done) : done'[i] = done[i]
  <2> HIDE DEF x
  <2> QED BY <1>4
<1>6. done' # <<>> /\ Last(done').before = ideal
  <2>1. done' # <<>>
    <3> HIDE DEF x
    <3> QED BY <1>4, <1>5
  <2>2. Last(done') = done'[Len(done')] BY <1>4, <2>1, FrontType
  <2> QED BY <1>5, <2>1, <2>2
<1>7. /\ action \in Actions /\ contexts \in Seq(Urls) /\ Free(ideal, ToSet(contexts), d)
      /\ IsPasted(ideal', ideal, action, ToSet(contexts), d)
      /\ PasteGoes(running', fs', ideal, ideal')
  BY <1>1, <1>2, PasteStarts
<1>8. Goes' BY <1>6, <1>7 DEF Goes
<1>9. NoneLost'
  <2>1. HasFiles(ideal')
    <3>1. ideal \in Contexts /\ ideal' \in Contexts BY DEF Types, TypeOK, Contexts
    <3>2. ToSet(contexts) \in SUBSET Urls
      <4>1. \A i \in DOMAIN contexts : contexts[i] \in Urls BY <1>7
      <4> QED BY <4>1 DEF ToSet
    <3> DEFINE S == ToSet(contexts)
    <3>3. S \in SUBSET Urls /\ Free(ideal, S, d) /\ IsPasted(ideal', ideal, action, S, d)
      BY <1>7, <3>2
    <3> HIDE DEF S
    <3>4. HasFiles(ideal) BY DEF Deep, NoneLost
    <3> QED BY <3>1, <3>3, <3>4, PastedHasFiles
  <2>2. ASSUME NEW j \in DOMAIN done' PROVE HasFiles(done'[j].before)
    <3>1. CASE j = Len(done) + 1
      <4>1. done'[j].before = ideal BY <1>5, <3>1
      <4> QED BY <4>1 DEF Deep, NoneLost
    <3>2. CASE j # Len(done) + 1
      <4>1. j \in DOMAIN done /\ done'[j] = done[j] BY <1>5, <3>2
      <4> QED BY <4>1 DEF Deep, NoneLost
    <3> QED BY <3>1, <3>2
  <2> QED BY <2>1, <2>2 DEF NoneLost
<1> QED BY <1>3, <1>8, <1>9 DEF Deep

LEMMA DeepUndo ==
    ASSUME Types, Deep, Patient, ClipUndo, plain' PROVE Deep'
<1>1. running = {} BY DEF ClipUndo, UserMoves
<1>2. fs = ideal BY <1>1, GoneThrough DEF Deep
<1>3. /\ Numbered' /\ Ring' /\ done # <<>> /\ ideal' = Last(done).before
      /\ Undoing(entries[At(cursor)], Last(done).before, ideal)
  BY RingAfterUndo DEF Deep
<1>4. done \in Seq(Undone) BY DEF Types
<1>5. /\ Len(done) \in Nat \ {0} /\ DOMAIN done = 1 .. Len(done)
      /\ Last(done) = done[Len(done)] /\ Last(done) \in Undone
      /\ Front(done) \in Seq(Undone) /\ Len(Front(done)) = Len(done) - 1
      /\ \A i \in 1 .. Len(done) - 1 : Front(done)[i] = done[i]
  BY <1>3, <1>4, FrontType
<1>6. UndoGoes(running', fs', ideal')
  <2> DEFINE e == entries[At(cursor)]
             b == Last(done).before
  <2>1. At(cursor) \in Slots
    <3>1. cursor \in Int BY ClipboardAssumption DEF Types, TypeOK, Slots
    <3> QED BY <3>1, Modulo
  <2>2. b \in Contexts /\ e.redo \in Seq(Jobs) /\ e.undo = Undoes /\ ExeSync(Undoes)
    BY <1>5, <2>1 DEF Undone, Types, Undoes, ClipUndo
  <2>3. Undoing(e, b, ideal) BY <1>3
  <2> HIDE DEF e, b
  <2>4. UndoGoes(running', fs', b) BY <1>1, <1>2, <2>2, <2>3, UndoStarts
  <2> QED BY <1>3, <2>4 DEF b
<1>7. NoneLost'
  <2>1. done' = Front(done) BY <1>3 DEF ClipUndo
  <2>2. DOMAIN done' = 1 .. Len(done) - 1 BY <1>5, <2>1
  <2>3. \A j \in DOMAIN done' : j \in DOMAIN done /\ done'[j] = done[j] BY <1>5, <2>1, <2>2
  <2>4. Len(done) \in DOMAIN done BY <1>5
  <2>5. HasFiles(ideal') BY <1>3, <1>5, <2>4 DEF Deep, NoneLost
  <2> QED BY <2>3, <2>5 DEF Deep, NoneLost
<1> QED BY <1>3, <1>6, <1>7 DEF Deep, Goes

LEMMA DeepInit == ASSUME Init PROVE Deep
<1>1. done = <<>> /\ running = {} /\ fs = ideal /\ pastes = 0 BY DEF Init
<1>2. DOMAIN done = {} BY <1>1
<1>3. HasFiles(ideal)
  <2>1. \A x \in Files : x \in Urls /\ ideal[x] = x BY ClipboardAssumption DEF Init
  <2> QED BY <2>1 DEF HasFiles
<1>4. \A s \in Slots : entries[s].paste <= pastes BY DEF Init, NoEntry
<1> QED BY <1>1, <1>2, <1>3, <1>4 DEF Deep, Goes, NoneLost, Numbered, Ring

LEMMA DeepNext == ASSUME Types, Types', DeepInv, [Next]_vars PROVE DeepInv'
<1> SUFFICES ASSUME plain', Patient PROVE Deep'
  BY DEF DeepInv
<1>1. plain
  <2>1. CASE RunStep BY <2>1 DEF RunStep, history
  <2>2. CASE Clear BY <2>2 DEF Clear
  <2>3. ASSUME NEW a \in Actions, NEW u \in Urls, Select(a, u) PROVE plain
    BY <2>3 DEF Select
  <2>4. ASSUME NEW d \in Dirs, Paste(d) PROVE plain BY <2>4 DEF Paste
  <2>5. ASSUME NEW d \in Dirs, PasteFails(d) PROVE plain BY <2>5 DEF PasteFails
  <2>6. CASE ClipUndo BY <2>6 DEF ClipUndo
  <2>7. CASE ClipRedo BY <2>7 DEF ClipRedo
  <2>8. CASE UNCHANGED vars BY <2>8 DEF vars, history
  <2> QED BY <2>1, <2>2, <2>3, <2>4, <2>5, <2>6, <2>7, <2>8 DEF Next
<1>2. Deep BY <1>1 DEF DeepInv
<1>3. CASE RunStep BY <1>2, <1>3, DeepRunStep
<1>4. CASE Clear
  <2>1. UNCHANGED <<ringVars, runVars, ideal, done>> /\ pastes' = pastes BY <1>4 DEF Clear
  <2> QED BY <1>2, <2>1, DeepStays
<1>5. ASSUME NEW a \in Actions, NEW u \in Urls, Select(a, u) PROVE Deep'
  <2>1. UNCHANGED <<ringVars, runVars, ideal, done>> /\ pastes' = pastes BY <1>5 DEF Select
  <2> QED BY <1>2, <2>1, DeepStays
<1>6. ASSUME NEW d \in Dirs, Paste(d) PROVE Deep' BY <1>2, <1>6, DeepPaste
<1>7. ASSUME NEW d \in Dirs, PasteFails(d) PROVE Deep'
  <2>1. UNCHANGED <<ringVars, runVars, ideal, done>> /\ pastes' = pastes + 1
    BY <1>7 DEF PasteFails, CanPaste
  <2> QED BY <1>2, <2>1, DeepStays
<1>8. CASE ClipUndo BY <1>2, <1>8, DeepUndo
<1>9. CASE ClipRedo BY <1>9 DEF ClipRedo
<1>10. CASE UNCHANGED vars
  <2>1. UNCHANGED <<ringVars, runVars, ideal, done>> /\ pastes' = pastes
    BY <1>10 DEF vars, history
  <2> QED BY <1>2, <2>1, DeepStays
<1> QED BY <1>3, <1>4, <1>5, <1>6, <1>7, <1>8, <1>9, <1>10 DEF Next

LEMMA DeepInvariance == Spec => [](Types /\ DeepInv)
<1>1. Init => Types /\ DeepInv BY TypesInit, DeepInit DEF DeepInv
<1>2. Types /\ DeepInv /\ [Next]_vars => (Types /\ DeepInv)' BY TypesNext, DeepNext
<1> QED BY <1>1, <1>2, PTL DEF Spec

\* Undo() leaves no trace of a paste, and Redo() aside the files are what the
\* pastes that were not undone have made of them, however many there are and
\* in whatever order the commands that undo a cut come to their files.
THEOREM UndoingRestores == Spec => []UndoRestores
<1>1. Types /\ DeepInv => UndoRestores BY GoneThrough DEF DeepInv, Deep, UndoRestores
<1> QED BY <1>1, DeepInvariance, PTL

\* No command loses the last copy of a file while nothing is pasted over one.
THEOREM NoFileIsLost == Spec => []NothingLost
<1>1. Types /\ DeepInv => NothingLost
  BY GoesLosesNothing DEF DeepInv, Deep, NothingLost, HasFiles
<1> QED BY <1>1, DeepInvariance, PTL
-----------------------------------------------------------------------------
(***************************************************************************)
(* The places of the last pastes.                                          *)
(***************************************************************************)
LEMMA RememberedStays == ASSUME Types, Remembered, [Next]_vars PROVE Remembered'
<1>1. ASSUME NEW d \in Dirs, CanPaste(d) PROVE Remembered'
  <2>1. action \in Actions /\ NotePlaces(d) BY <1>1 DEF CanPaste, Types, TypeOK
  <2> QED BY <2>1, PlacesType
<1>2. ASSUME UNCHANGED mimeVars PROVE Remembered'
  <2>1. mimeText' = mimeText /\ added' = added BY <1>2 DEF mimeVars
  <2> SUFFICES ASSUME NEW a \in Actions PROVE Begins(mimeText'[a], added'[a])
    BY DEF Remembered, Begins
  <2> QED BY <2>1 DEF Remembered
<1>3. CASE RunStep BY <1>2, <1>3 DEF RunStep
<1>4. CASE Clear BY <1>2, <1>4 DEF Clear
<1>5. ASSUME NEW a \in Actions, NEW u \in Urls, Select(a, u) PROVE Remembered'
  BY <1>2, <1>5 DEF Select
<1>6. ASSUME NEW d \in Dirs, Paste(d) \/ PasteFails(d) PROVE Remembered'
  BY <1>1, <1>6 DEF Paste, PasteFails
<1>7. CASE ClipUndo BY <1>2, <1>7 DEF ClipUndo
<1>8. CASE ClipRedo BY <1>2, <1>8 DEF ClipRedo
<1>9. CASE UNCHANGED vars BY <1>2, <1>9 DEF vars
<1> QED BY <1>3, <1>4, <1>5, <1>6, <1>7, <1>8, <1>9 DEF Next

LEMMA RememberedListed == ASSUME Types, Remembered PROVE LatestFirst
<1> SUFFICES ASSUME NEW a \in Actions
             PROVE  LET list == GetMimeHistory(mimeText[a])
                        latest == SubSeq(added[a], 1, Smaller(MimeHistorySize, Len(added[a])))
                    IN /\ \A i, j \in DOMAIN list : list[i] = list[j] => i = j
                       /\ \A k \in DOMAIN latest : \E i \in DOMAIN list :
                            /\ list[i] = UrlOf[latest[k]]
                            /\ \A h \in 1 .. i - 1 : \E l \in 1 .. k - 1 :
                                 list[h] = UrlOf[latest[l]]
  BY DEF LatestFirst
<1> DEFINE t == mimeText[a]
           s == added[a]
           q == Lines(t)
           list == GetMimeHistory(t)
           m == Smaller(MimeHistorySize, Len(s))
           latest == SubSeq(s, 1, m)
<1>1. t \in Texts /\ s \in Seq(Dirs) BY DEF Types, TypeOK
<1>2. Begins(t, s) BY DEF Remembered
<1>3. LineCount(t) \in Nat BY <1>1, BreaksAre
<1>4. DOMAIN q = 1 .. LineCount(t) /\ \A k \in 1 .. LineCount(t) : q[k] = Line(t, k) BY DEF Lines
<1>5. list = Once(q) BY DEF GetMimeHistory
<1> HIDE DEF t, s, q, list
<1>6. /\ \A i, j \in DOMAIN list : list[i] = list[j] => i = j
      /\ \A k \in 1 .. LineCount(t) : \E i \in DOMAIN list :
           /\ list[i] = q[k]
           /\ \A h \in 1 .. i - 1 : \E l \in 1 .. k - 1 : list[h] = q[l]
  BY <1>3, <1>4, <1>5, OnceIs
<1>7. m \in Nat /\ m <= Len(s) /\ Len(s) \in Nat BY <1>1, MimeHistoryAssumption DEF Smaller
<1>8. DOMAIN latest = 1 .. m /\ \A k \in 1 .. m : latest[k] = s[k]
  <2>1. latest = [i \in 1 .. m |-> s[i]] BY <1>1, <1>7
  <2> QED BY <2>1
<1>9. \A k \in 1 .. m : k \in 1 .. LineCount(t) /\ q[k] = UrlOf[latest[k]]
  <2> SUFFICES ASSUME NEW k \in 1 .. m PROVE k \in 1 .. LineCount(t) /\ q[k] = UrlOf[latest[k]]
    OBVIOUS
  <2>1. k <= LineCount(t) /\ Line(t, k) = UrlOf[s[k]] BY <1>2 DEF Begins
  <2>2. k \in 1 .. LineCount(t) BY <1>3, <1>7, <2>1
  <2> QED BY <1>4, <1>8, <2>1, <2>2
<1> HIDE DEF latest, m
<1>10. ASSUME NEW k \in DOMAIN latest
       PROVE  \E i \in DOMAIN list :
                /\ list[i] = UrlOf[latest[k]]
                /\ \A h \in 1 .. i - 1 : \E l \in 1 .. k - 1 : list[h] = UrlOf[latest[l]]
  <2>1. k \in 1 .. m BY <1>8
  <2>2. PICK i \in DOMAIN list :
           /\ list[i] = q[k]
           /\ \A h \in 1 .. i - 1 : \E l \in 1 .. k - 1 : list[h] = q[l]
    BY <1>6, <1>9, <2>1
  <2>3. \A l \in 1 .. k - 1 : q[l] = UrlOf[latest[l]]
    <3>1. \A l \in 1 .. k - 1 : l \in 1 .. m BY <1>7, <2>1
    <3> QED BY <1>9, <3>1
  <2>4. list[i] = UrlOf[latest[k]] BY <1>9, <2>1, <2>2
  <2> QED BY <2>2, <2>3, <2>4
<1> QED BY <1>6, <1>10 DEF list, latest, t, s, m

\* For each action the list of getMimeHistory() has the places of the last
\* pastes, the latest first and none twice, whatever the lengths of the urls,
\* how many lines are kept, and which of the pastes failed.
THEOREM LatestComesFirst == Spec => []LatestFirst
<1>1. Init => Remembered
  <2> SUFFICES ASSUME Init, NEW a \in Actions PROVE Begins(mimeText[a], added[a])
    BY DEF Remembered
  <2>1. added[a] = <<>> BY DEF Init
  <2> QED BY <2>1, NothingBegins
<1>2. Types /\ Remembered /\ [Next]_vars => Remembered' BY RememberedStays
<1>3. Types /\ Remembered => LatestFirst BY RememberedListed
<1> QED BY <1>1, <1>2, <1>3, TypesInvariance, PTL DEF Spec
=============================================================================
