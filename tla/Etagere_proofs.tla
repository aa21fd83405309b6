--------------------------- MODULE Etagere_proofs ---------------------------
(***************************************************************************)
(* For every number of processes, all of which make emblems, of            *)
(* identifiers, messages and crashes:                                      *)
(*                                                                         *)
(* No identifier is handed out twice unless two processes have been inside *)
(* getNextID() at the same time.  An identifier is raised on disk before   *)
(* its emblem exists, so that all emblems, in memory, in the archives and  *)
(* in a torn archive, are below the next identifier, and a process that    *)
(* loads them does not change it.                                          *)
(*                                                                         *)
(* And as long as no two saves have overlapped, the archives hold nothing  *)
(* but the last save and the one in progress, and one crash leaves one of  *)
(* the two whole (Disk).                                                   *)
(***************************************************************************)
EXTENDS Etagere, WellFoundedInduction, TLAPS

\* The identifiers of emblems, wherever they are.
Known == In(txt.data) \cup In(bin.data) \cup UNION {In(mem[p]) : p \in Procs}
KnownBelowNext == \A i \in Known : i < nextid
\* The identifier that a process has read is still the next one, and no other
\* process has read one.
TakesNext == \A p \in Procs : pc[p] = "allocating" =>
    /\ got[p] = nextid /\ nextid <= MaxId
    /\ \A q \in Procs : pc[q] = "allocating" => q = p
HandedBelow == \A i \in Ids : handed[i] <= 1 /\ (nextid <= i => handed[i] = 0)
Ordered == KnownBelowNext /\ TakesNext /\ HandedBelow

TakesAnId == \A p \in Procs : pc[p] = "allocating" => got[p] \in Ids

Inv == TypeOK /\ TakesAnId /\ ("id" \notin raced => Ordered)

Pcs == {"idle", "allocating", "text", "between", "binary"}
-----------------------------------------------------------------------------
(***************************************************************************)
(* Contents.                                                               *)
(***************************************************************************)
\* A set of identifiers has a largest one.
LEMMA Largest ==
    ASSUME NEW c
    PROVE  LET i == LargestId(c) IN i \in 0 .. MaxId /\ (i = 0 \/ i \in In(c))
<1>1. \E i \in 0 .. MaxId : (i = 0 \/ i \in In(c)) /\ \A j \in In(c) : j <= i
  <2>1. CASE In(c) = {} BY <2>1, EtagereAssumption
  <2>2. CASE In(c) # {}
    <3> DEFINE R == OpToRel(<, Nat)
               T == {k \in Nat : MaxId - k \in In(c)}
    <3>1. IsWellFoundedOn(R, Nat) BY NatLessThanWellFounded
    <3>2. \A j \in In(c) : j \in 1 .. MaxId /\ MaxId - j \in T BY EtagereAssumption DEF In, Ids
    <3>3. T \subseteq Nat /\ T # {} BY <2>2, <3>2
    <3> HIDE DEF R, T
    <3>4. PICK k \in T : \A y \in T : ~ (<<y, k>> \in R) BY <3>1, <3>3, WFMin
    <3>5. \A y \in T : ~ (y < k) BY <3>3, <3>4 DEF R, OpToRel
    <3>6. MaxId - k \in In(c) /\ k \in Nat BY DEF T
    <3>7. \A j \in In(c) : j <= MaxId - k
      <4> SUFFICES ASSUME NEW j \in In(c) PROVE j <= MaxId - k OBVIOUS
      <4>1. j \in 1 .. MaxId /\ MaxId - j \in T /\ ~ (MaxId - j < k) BY <3>2, <3>5
      <4> QED BY <4>1, <3>6, EtagereAssumption
    <3>8. MaxId - k \in 1 .. MaxId BY <3>2, <3>6
    <3> QED BY <3>6, <3>7, <3>8, EtagereAssumption
  <2> QED BY <2>1, <2>2
<1> QED BY <1>1 DEF LargestId

\* Loading what is below the next identifier leaves it as it is.
LEMMA AdjustKeeps ==
    ASSUME NEW c, nextid \in 1 .. MaxId + 1, AdjustNextId(c)
    PROVE  /\ nextid' \in 1 .. MaxId + 1
           /\ (\A i \in In(c) : i < nextid) => nextid' = nextid
<1> DEFINE i == LargestId(c)
<1>1. i \in 0 .. MaxId /\ (i = 0 \/ i \in In(c)) BY Largest
<1> HIDE DEF i
<1>2. nextid' = IF i > nextid THEN i + 1 ELSE nextid BY DEF AdjustNextId, i
<1>3. (\A j \in In(c) : j < nextid) => ~ (i > nextid) BY <1>1, EtagereAssumption
<1> QED BY <1>1, <1>2, <1>3, EtagereAssumption

LEMMA NothingType == Nothing \in Contents /\ In(Nothing) = {}
BY DEF Nothing, Contents, In

LEMMA InsertAllType ==
    ASSUME NEW a \in Contents, NEW b \in Contents
    PROVE  InsertAll(a, b) \in Contents /\ In(InsertAll(a, b)) \subseteq In(a) \cup In(b)
BY DEF InsertAll, Contents, In

LEMMA PrefixType ==
    ASSUME NEW a \in Contents, NEW k
    PROVE  Prefix(a, k) \in Contents /\ In(Prefix(a, k)) \subseteq In(a)
BY DEF Prefix, Contents, In

LEMMA FileData == ASSUME NEW f \in Files PROVE f.data \in Contents
BY DEF Files

\* The steps of a save write what the process has in memory, or a mixture of
\* it and what was in the archive.
LEMMA Archive ==
    ASSUME NEW c \in Contents
    PROVE  /\ Whole(c) \in Files /\ Whole(c).data = c /\ Whole(c).state = "whole"
           /\ Torn(c) \in Files /\ Torn(c).data = c /\ Torn(c).state = "torn"
BY DEF Whole, Torn, Files

LEMMA WrittenType ==
    ASSUME NEW p, mem[p] \in Contents, NEW f \in Files, NEW g \in Written(p, f)
    PROVE  g \in Files /\ In(g.data) \subseteq In(mem[p]) \cup In(f.data)
<1>1. CASE "save" \notin raced
  <2>1. g = Whole(mem[p]) BY <1>1 DEF Written
  <2> QED BY <2>1, Archive
<1>2. CASE "save" \in raced
  <2>1. g \in [state : {"torn", "whole"}, data : Mixtures(mem[p], f.data)]
    BY <1>2 DEF Written
  <2>2. g.data \in Contents /\ \A i \in Ids : g.data[i] \in {mem[p][i], f.data[i]}
    BY <2>1 DEF Mixtures
  <2>3. g \in Files BY <2>1, <2>2 DEF Files
  <2> QED BY <2>2, <2>3 DEF In
<1> QED BY <1>1, <1>2

\* Whatever a crash has left of the archives.
LEMMA LoadableType ==
    ASSUME txt \in Files, bin \in Files, NEW c \in Loadable
    PROVE  c \in Contents /\ In(c) \subseteq In(txt.data) \cup In(bin.data)
<1>1. txt.data \in Contents /\ bin.data \in Contents BY FileData
<1>2. CASE c = Nothing BY <1>2, NothingType
<1>3. CASE c = bin.data BY <1>1, <1>3
<1>4. ASSUME NEW k, c = InsertAll(Prefix(bin.data, k), txt.data)
      PROVE  c \in Contents /\ In(c) \subseteq In(txt.data) \cup In(bin.data)
  <2>1. Prefix(bin.data, k) \in Contents /\ In(Prefix(bin.data, k)) \subseteq In(bin.data)
    BY <1>1, PrefixType
  <2> QED BY <1>1, <1>4, <2>1, InsertAllType
<1>5. \/ c = Nothing \/ c = bin.data
      \/ \E k \in 0 .. MaxId : c = InsertAll(Prefix(bin.data, k), txt.data)
  BY DEF Loadable
<1> QED BY <1>2, <1>3, <1>4, <1>5

LEMMA ReadableType ==
    ASSUME bin \in Files, NEW c \in Readable
    PROVE  c \in Contents /\ In(c) \subseteq In(bin.data)
<1>1. c = bin.data \/ \E k : c = Prefix(bin.data, k) BY DEF Readable
<1> QED BY <1>1, FileData, PrefixType

\* A message that is handled inserts some of what is in the archive.
LEMMA TakenIn ==
    ASSUME TypeOK, NEW p \in Procs, OnNewEmblems(p)
    PROVE  \E c \in Readable, new \in SUBSET In(bin.data), d \in Contents :
             /\ dirty[p] => new = {}
             /\ new \subseteq In(c)
             /\ d = [i \in Ids |-> IF i \in new THEN c[i] ELSE NoName]
             /\ mem' = [mem EXCEPT ![p] = InsertAll(mem[p], d)]
             /\ byName' = [byName EXCEPT ![p] = @ \cup Pairs(d)]
<1>1. PICK c \in Readable :
         LET new == IF dirty[p] THEN {} ELSE Learnt(c, Head(mail[p]))
             d   == [i \in Ids |-> IF i \in new THEN c[i] ELSE NoName]
         IN /\ mem' = [mem EXCEPT ![p] = InsertAll(@, d)]
            /\ byName' = [byName EXCEPT ![p] = @ \cup Pairs(d)]
  BY DEF OnNewEmblems
<1> DEFINE new == IF dirty[p] THEN {} ELSE Learnt(c, Head(mail[p]))
           d   == [i \in Ids |-> IF i \in new THEN c[i] ELSE NoName]
<1>2. c \in Contents /\ In(c) \subseteq In(bin.data) BY ReadableType DEF TypeOK
<1>3. new \subseteq In(c) /\ (dirty[p] => new = {}) BY DEF Learnt, Announced
<1>4. /\ mem' = [mem EXCEPT ![p] = InsertAll(mem[p], d)]
      /\ byName' = [byName EXCEPT ![p] = @ \cup Pairs(d)]
  BY <1>1
<1> HIDE DEF new
<1>5. d \in Contents BY <1>2 DEF Contents
<1> QED BY <1>2, <1>3, <1>4, <1>5
-----------------------------------------------------------------------------
(***************************************************************************)
(* Types and identifiers.                                                  *)
(***************************************************************************)
LEMMA InvInit == ASSUME Init PROVE Inv
<1>1. Missing \in Files /\ Missing.data = Nothing BY NothingType DEF Missing, Files
<1>2. TypeOK BY <1>1, NothingType, EtagereAssumption DEF Init, TypeOK
<1>3. Known = {} BY <1>1, NothingType DEF Init, Known
<1> QED BY <1>2, <1>3 DEF Init, Inv, TakesAnId, Ordered, KnownBelowNext, TakesNext,
                            HandedBelow, Ids

LEMMA KnownIds ==
    /\ In(txt.data) \subseteq Known /\ In(bin.data) \subseteq Known
    /\ \A p \in Procs : In(mem[p]) \subseteq Known
BY DEF Known

\* What is known after a step, by where it is.
LEMMA KnownAfter ==
    ASSUME NEW S, In(txt'.data) \subseteq S, In(bin'.data) \subseteq S,
           ASSUME NEW p \in Procs PROVE In(mem'[p]) \subseteq S
    PROVE  Known' \subseteq S
BY DEF Known, In

\* A step that leaves the identifiers alone: what is in memory and in the
\* archives is of what was there, and nobody reads the next identifier.
LEMMA NoNewId ==
    ASSUME Inv, TypeOK', "id" \notin raced => nextid' = nextid /\ Known' \subseteq Known,
           handed' = handed, "id" \notin raced' => "id" \notin raced,
           \A p \in Procs : pc'[p] = "allocating" => pc[p] = "allocating" /\ got'[p] = got[p]
    PROVE  Inv'
<1>0. TakesAnId' BY DEF Inv, TakesAnId
<1> SUFFICES ASSUME "id" \notin raced, nextid' = nextid, Known' \subseteq Known PROVE Ordered'
  BY <1>0 DEF Inv
<1>1. KnownBelowNext' BY DEF Inv, Ordered, KnownBelowNext
<1>2. TakesNext' BY DEF Inv, Ordered, TakesNext
<1>3. HandedBelow' BY DEF Inv, Ordered, HandedBelow
<1> QED BY <1>1, <1>2, <1>3 DEF Ordered

LEMMA StartKeeps == ASSUME Inv, NEW p \in Procs, Start(p) PROVE Inv'
<1>1. PICK c \in Loadable :
        /\ mem' = [mem EXCEPT ![p] = c] /\ byName' = [byName EXCEPT ![p] = Pairs(c)]
        /\ AdjustNextId(c)
        /\ current' = IF Saving = {} /\ Loadable = {c} THEN current \cup {p} ELSE current \ {p}
  BY DEF Start
<1>2. TypeOK BY DEF Inv
<1>3. c \in Contents /\ In(c) \subseteq In(txt.data) \cup In(bin.data)
  BY <1>2, LoadableType DEF TypeOK
<1>4. nextid' \in 1 .. MaxId + 1 /\ ((\A i \in In(c) : i < nextid) => nextid' = nextid)
  BY <1>1, <1>2, AdjustKeeps DEF TypeOK
<1>5. UNCHANGED <<txt, bin, pc, got, mail, counters, handed, saved, attempt, raced>> BY DEF Start
<1>6. Pairs(c) \subseteq Ids \X Names BY <1>3 DEF Pairs, Contents, In
<1>7. TypeOK'
  <2>1. up' \subseteq Procs /\ fresh' \in [Procs -> SUBSET Ids] /\ dirty' \in [Procs -> BOOLEAN]
    BY <1>2 DEF Start, TypeOK
  <2>2. mem' \in [Procs -> Contents] /\ byName' \in [Procs -> SUBSET (Ids \X Names)]
    BY <1>1, <1>2, <1>3, <1>6 DEF TypeOK
  <2>3. current' \subseteq Procs BY <1>1, <1>2 DEF TypeOK
  <2> QED BY <1>2, <1>4, <1>5, <2>1, <2>2, <2>3 DEF TypeOK, counters
<1>8. Known' \subseteq Known
  <2>1. ASSUME NEW q \in Procs PROVE In(mem'[q]) \subseteq Known
    <3>1. CASE q = p
      <4>1. mem'[q] = c BY <1>1, <1>2, <3>1 DEF TypeOK
      <4> QED BY <1>3, <4>1, KnownIds
    <3>2. CASE q # p
      <4>1. mem'[q] = mem[q] BY <1>1, <1>2, <3>2 DEF TypeOK
      <4> QED BY <4>1, KnownIds
    <3> QED BY <3>1, <3>2
  <2> QED BY <1>5, <2>1, KnownIds, KnownAfter
<1>9. "id" \notin raced => nextid' = nextid
  <2> SUFFICES ASSUME "id" \notin raced PROVE \A i \in In(c) : i < nextid BY <1>4
  <2> QED BY <1>3, KnownIds DEF Inv, Ordered, KnownBelowNext
<1> QED BY <1>5, <1>7, <1>8, <1>9, NoNewId

LEMMA ReadNextIdKeeps == ASSUME Inv, NEW p \in Procs, ReadNextId(p) PROVE Inv'
<1>1. /\ TypeOK
      /\ UNCHANGED <<nextid, txt, bin, up, mem, byName, fresh, mail, crashes, handed, saved,
                     attempt, current>>
      /\ got' = [got EXCEPT ![p] = nextid] /\ dirty' = [dirty EXCEPT ![p] = TRUE]
      /\ pc' = [pc EXCEPT ![p] = "allocating"]
      /\ raced' = raced \cup (IF Allocating = {} THEN {} ELSE {"id"})
  BY DEF Inv, ReadNextId, shared
<1>2. nextid \in 1 .. MaxId BY <1>1, EtagereAssumption DEF ReadNextId, TypeOK
<1>3. changes' \in 0 .. MaxChanges
  <2>1. changes \in 0 .. MaxChanges BY <1>1 DEF TypeOK
  <2> QED BY <2>1, EtagereAssumption DEF ReadNextId, Change
<1>4. got' \in [Procs -> 0 .. MaxId] /\ dirty' \in [Procs -> BOOLEAN] /\ pc' \in [Procs -> Pcs]
  BY <1>1, <1>2 DEF TypeOK, Pcs
<1>5. TypeOK'
  <2>1. raced' \subseteq {"id", "save"} BY <1>1 DEF TypeOK
  <2> QED BY <1>1, <1>3, <1>4, <2>1 DEF TypeOK, Pcs
<1>6. ASSUME "id" \notin raced' PROVE Ordered'
  <2>1. "id" \notin raced /\ Allocating = {} BY <1>1, <1>6
  <2>2. TakesNext'
    <3> SUFFICES ASSUME NEW q \in Procs, pc'[q] = "allocating"
                 PROVE  /\ got'[q] = nextid' /\ nextid' <= MaxId
                        /\ \A r \in Procs : pc'[r] = "allocating" => r = q
      BY DEF TakesNext
    <3>1. \A r \in Procs : pc'[r] = "allocating" => r = p
      BY <1>1, <2>1 DEF Allocating, TypeOK
    <3>2. got'[p] = nextid BY <1>1 DEF TypeOK
    <3> QED BY <1>1, <1>2, <3>1, <3>2, EtagereAssumption
  <2> QED BY <1>1, <2>1, <2>2 DEF Inv, Ordered, KnownBelowNext, Known, HandedBelow
<1>7. TakesAnId'
  BY <1>1, <1>2, EtagereAssumption DEF Inv, TakesAnId, TypeOK, Ids
<1> QED BY <1>5, <1>6, <1>7 DEF Inv

LEMMA CreateKeeps == ASSUME Inv, NEW p \in Procs, NEW n \in Names, Create(p, n) PROVE Inv'
<1> DEFINE g == got[p]
           b == [Nothing EXCEPT ![g] = n]
<1>1. /\ TypeOK /\ pc[p] = "allocating"
      /\ UNCHANGED <<txt, bin, up, dirty, mail, counters, saved, attempt, raced, current>>
  BY DEF Inv, Create
<1>2. g \in Ids /\ nextid' = g + 1 BY <1>1 DEF Create, RaisedId, Inv, TakesAnId
<1>3. nextid' \in 1 .. MaxId + 1 /\ g \in 1 .. MaxId BY <1>2, EtagereAssumption DEF Ids
<1> HIDE DEF g
<1>4. b \in Contents /\ In(b) \subseteq {g}
  BY <1>2, EtagereAssumption DEF Nothing, Contents, In
<1> HIDE DEF b
<1>5. /\ mem' = [mem EXCEPT ![p] = InsertAll(mem[p], b)]
      /\ byName' = [byName EXCEPT ![p] = @ \cup {<<g, n>>}]
      /\ fresh' = [fresh EXCEPT ![p] = @ \cup {g}]
      /\ handed' = [handed EXCEPT ![g] = @ + 1]
      /\ got' = [got EXCEPT ![p] = 0]
      /\ pc' = [pc EXCEPT ![p] = "idle"]
  BY DEF Create, g, b
<1>6. mem[p] \in Contents BY <1>1 DEF TypeOK
<1>7. InsertAll(mem[p], b) \in Contents /\ In(InsertAll(mem[p], b)) \subseteq In(mem[p]) \cup {g}
  BY <1>4, <1>6, InsertAllType
<1>8. TypeOK'
  <2>1. mem' \in [Procs -> Contents] /\ byName' \in [Procs -> SUBSET (Ids \X Names)]
    BY <1>1, <1>2, <1>5, <1>7 DEF TypeOK
  <2>2. fresh' \in [Procs -> SUBSET Ids] /\ handed' \in [Ids -> Nat] /\ got' \in [Procs -> 0 .. MaxId]
        /\ pc' \in [Procs -> Pcs]
    BY <1>1, <1>2, <1>5, EtagereAssumption DEF TypeOK, Pcs
  <2> QED BY <1>1, <1>3, <2>1, <2>2 DEF TypeOK, Pcs, counters
<1>9. TakesAnId' BY <1>1, <1>5 DEF Inv, TakesAnId, TypeOK
<1>10. ASSUME "id" \notin raced PROVE Ordered'
  <2>1. g = nextid /\ \A q \in Procs : pc[q] = "allocating" => q = p
    BY <1>1, <1>10 DEF Inv, Ordered, TakesNext, g
  <2>2. g \in Nat /\ nextid' = nextid + 1 /\ nextid \in Nat BY <1>2, <1>3, <2>1
  <2>3. Known' \subseteq Known \cup {g}
    <3>1. ASSUME NEW q \in Procs PROVE In(mem'[q]) \subseteq Known \cup {g}
      <4>1. CASE q = p
        <5>1. mem'[q] = InsertAll(mem[p], b) BY <1>1, <1>5, <4>1 DEF TypeOK
        <5> QED BY <1>7, <5>1, KnownIds
      <4>2. CASE q # p
        <5>1. mem'[q] = mem[q] BY <1>1, <1>5, <4>2 DEF TypeOK
        <5> QED BY <5>1, KnownIds
      <4> QED BY <4>1, <4>2
    <3> QED BY <1>1, <3>1, KnownIds, KnownAfter
  <2>4. KnownBelowNext'
    <3> SUFFICES ASSUME NEW i \in Known' PROVE i < nextid' BY DEF KnownBelowNext
    <3>1. CASE i = g BY <2>1, <2>2, <3>1
    <3>2. CASE i # g
      <4>1. i \in Known BY <2>3, <3>2
      <4>2. i < nextid BY <1>10, <4>1 DEF Inv, Ordered, KnownBelowNext
      <4>3. i \in Nat BY <4>1, EtagereAssumption DEF Known, In, Ids
      <4> QED BY <2>2, <4>2, <4>3
    <3> QED BY <3>1, <3>2
  <2>5. TakesNext'
    <3> SUFFICES ASSUME NEW q \in Procs, pc'[q] = "allocating" PROVE FALSE BY DEF TakesNext
    <3>1. q # p BY <1>1, <1>5 DEF TypeOK
    <3>2. pc[q] = "allocating" BY <1>1, <1>5, <3>1 DEF TypeOK
    <3> QED BY <2>1, <3>1, <3>2
  <2>6. HandedBelow'
    <3> SUFFICES ASSUME NEW i \in Ids PROVE handed'[i] <= 1 /\ (nextid' <= i => handed'[i] = 0)
      BY DEF HandedBelow
    <3>1. handed[i] <= 1 /\ (nextid <= i => handed[i] = 0) /\ i \in Nat /\ handed[i] \in Nat
      BY <1>1, <1>10, EtagereAssumption DEF Inv, Ordered, HandedBelow, Ids, TypeOK
    <3>2. CASE i = g
      <4>1. handed'[i] = handed[i] + 1 BY <1>1, <1>5, <3>2 DEF TypeOK
      <4> QED BY <2>1, <2>2, <3>1, <3>2, <4>1
    <3>3. CASE i # g
      <4>1. handed'[i] = handed[i] BY <1>1, <1>5, <3>3 DEF TypeOK
      <4> QED BY <2>1, <2>2, <3>1, <4>1
    <3> QED BY <3>2, <3>3
  <2> QED BY <2>4, <2>5, <2>6 DEF Ordered
<1> QED BY <1>1, <1>8, <1>9, <1>10 DEF Inv

LEMMA ChangeType == ASSUME TypeOK, Change PROVE changes' \in 0 .. MaxChanges
<1>1. changes \in 0 .. MaxChanges BY DEF TypeOK
<1> QED BY <1>1, EtagereAssumption DEF Change

LEMMA EraseKeeps == ASSUME Inv, NEW p \in Procs, NEW i \in Ids, Erase(p, i) PROVE Inv'
<1>1. /\ TypeOK /\ Change
      /\ UNCHANGED <<nextid, txt, bin, up, pc, got, mail, crashes, handed, saved, attempt, raced, current>>
  BY DEF Inv, Erase, shared, history
<1>2. /\ dirty' = [dirty EXCEPT ![p] = TRUE]
      /\ fresh' = [fresh EXCEPT ![p] = @ \ {i}]
      /\ mem' = [mem EXCEPT ![p][i] = NoName]
  BY DEF Erase
<1>3. dirty' \in [Procs -> BOOLEAN] /\ fresh' \in [Procs -> SUBSET Ids]
  BY <1>1, <1>2 DEF TypeOK
<1>4. byName' \in [Procs -> SUBSET (Ids \X Names)]
  <2>1. byName' = byName \/ \E e : byName' = [byName EXCEPT ![p] = @ \ {e}] BY DEF Erase
  <2>2. byName \in [Procs -> SUBSET (Ids \X Names)] BY <1>1 DEF TypeOK
  <2>3. ASSUME NEW e, byName' = [byName EXCEPT ![p] = @ \ {e}]
        PROVE  byName' \in [Procs -> SUBSET (Ids \X Names)]
    <3>1. byName[p] \ {e} \in SUBSET (Ids \X Names) BY <2>2
    <3> QED BY <2>2, <2>3, <3>1
  <2> QED BY <2>1, <2>2, <2>3
<1>5. mem' \in [Procs -> Contents] BY <1>1, <1>2 DEF TypeOK, Contents
<1>6. TypeOK' BY <1>1, <1>3, <1>4, <1>5, ChangeType DEF TypeOK
<1>7. ASSUME NEW q \in Procs PROVE In(mem'[q]) \subseteq In(mem[q])
  BY <1>1, <1>2 DEF TypeOK, Contents, In
<1>8. Known' \subseteq Known BY <1>1, <1>7, KnownIds, KnownAfter
<1> QED BY <1>1, <1>6, <1>8, NoNewId

LEMMA RenameKeeps ==
    ASSUME Inv, NEW p \in Procs, NEW i \in Ids, NEW n \in Names, Rename(p, i, n) PROVE Inv'
<1>1. /\ TypeOK /\ Change /\ i \in In(mem[p])
      /\ UNCHANGED <<nextid, txt, bin, up, pc, got, fresh, mail, crashes, handed, saved, attempt,
                     raced, current>>
  BY DEF Inv, Rename, shared, history
<1>2. /\ dirty' = [dirty EXCEPT ![p] = TRUE]
      /\ byName' = [byName EXCEPT ![p] = DropOldName(@, i, mem[p][i]) \cup {<<i, n>>}]
      /\ mem' = [mem EXCEPT ![p][i] = n]
  BY DEF Rename
<1>3. dirty' \in [Procs -> BOOLEAN] BY <1>1, <1>2 DEF TypeOK
<1>4. byName' \in [Procs -> SUBSET (Ids \X Names)] BY <1>1, <1>2 DEF TypeOK, DropOldName
<1>5. mem' \in [Procs -> Contents] BY <1>1, <1>2 DEF TypeOK, Contents
<1>6. TypeOK' BY <1>1, <1>3, <1>4, <1>5, ChangeType DEF TypeOK
<1>7. ASSUME NEW q \in Procs PROVE In(mem'[q]) \subseteq In(mem[q])
  BY <1>1, <1>2 DEF TypeOK, Contents, In
<1>8. Known' \subseteq Known BY <1>1, <1>7, KnownIds, KnownAfter
<1> QED BY <1>1, <1>6, <1>8, NoNewId

LEMMA SaveBeginsKeeps == ASSUME Inv, NEW p \in Procs, SaveBegins(p) PROVE Inv'
<1>1. /\ TypeOK
      /\ txt' = Torn(mem[p]) /\ attempt' = mem[p] /\ pc' = [pc EXCEPT ![p] = "text"]
      /\ current' = {p} /\ raced' = raced \cup (IF Saving = {} THEN {} ELSE {"save"})
      /\ UNCHANGED <<nextid, bin, up, got, mem, byName, fresh, dirty, mail, counters, handed, saved>>
  BY DEF Inv, SaveBegins
<1>2. mem[p] \in Contents BY <1>1 DEF TypeOK
<1>3. pc' \in [Procs -> Pcs] /\ raced' \subseteq {"id", "save"} BY <1>1 DEF TypeOK, Pcs
<1>4. TypeOK' BY <1>1, <1>2, <1>3, Archive DEF TypeOK, Pcs, counters
<1>5. ASSUME NEW q \in Procs, pc'[q] = "allocating" PROVE pc[q] = "allocating"
  BY <1>1, <1>5 DEF TypeOK
<1>6. Known' \subseteq Known BY <1>1, <1>2, Archive, KnownIds, KnownAfter
<1>7. "id" \notin raced' => "id" \notin raced BY <1>1
<1> QED BY <1>1, <1>4, <1>5, <1>6, <1>7, NoNewId

LEMMA TextWrittenKeeps == ASSUME Inv, NEW p \in Procs, TextWritten(p) PROVE Inv'
<1>1. /\ TypeOK
      /\ txt' \in Written(p, txt) /\ pc' = [pc EXCEPT ![p] = "between"]
      /\ UNCHANGED <<nextid, bin, up, got, mem, byName, fresh, dirty, mail, counters, handed,
                     saved, attempt, raced, current>>
  BY DEF Inv, TextWritten, history
<1>2. txt' \in Files /\ In(txt'.data) \subseteq In(mem[p]) \cup In(txt.data)
  BY <1>1, WrittenType DEF TypeOK
<1>3. pc' \in [Procs -> Pcs] BY <1>1 DEF TypeOK, Pcs
<1>4. TypeOK' BY <1>1, <1>2, <1>3 DEF TypeOK, Pcs, counters
<1>5. ASSUME NEW q \in Procs, pc'[q] = "allocating" PROVE pc[q] = "allocating"
  BY <1>1, <1>5 DEF TypeOK
<1>6. Known' \subseteq Known BY <1>1, <1>2, KnownIds, KnownAfter
<1> QED BY <1>1, <1>4, <1>5, <1>6, NoNewId

LEMMA BinaryOpenedKeeps == ASSUME Inv, NEW p \in Procs, BinaryOpened(p) PROVE Inv'
<1>1. /\ TypeOK
      /\ bin' = Torn(mem[p]) /\ pc' = [pc EXCEPT ![p] = "binary"]
      /\ UNCHANGED <<nextid, txt, up, got, mem, byName, fresh, dirty, mail, counters, handed,
                     saved, attempt, raced, current>>
  BY DEF Inv, BinaryOpened, history
<1>2. mem[p] \in Contents BY <1>1 DEF TypeOK
<1>3. pc' \in [Procs -> Pcs] BY <1>1 DEF TypeOK, Pcs
<1>4. TypeOK' BY <1>1, <1>2, <1>3, Archive DEF TypeOK, Pcs, counters
<1>5. ASSUME NEW q \in Procs, pc'[q] = "allocating" PROVE pc[q] = "allocating"
  BY <1>1, <1>5 DEF TypeOK
<1>6. Known' \subseteq Known BY <1>1, <1>2, Archive, KnownIds, KnownAfter
<1> QED BY <1>1, <1>4, <1>5, <1>6, NoNewId

LEMMA SaveEndsKeeps == ASSUME Inv, NEW p \in Procs, SaveEnds(p) PROVE Inv'
<1>1. /\ TypeOK
      /\ bin' \in Written(p, bin) /\ saved' = mem[p] /\ pc' = [pc EXCEPT ![p] = "idle"]
      /\ dirty' = [dirty EXCEPT ![p] = FALSE]
      /\ UNCHANGED <<nextid, txt, up, got, mem, byName, fresh, counters, handed, attempt, raced, current>>
  BY DEF Inv, SaveEnds
<1>2. PICK to \in SUBSET (up \ {p}) :
        /\ \A q \in to : Len(mail[q]) < MaxMail
        /\ mail' = [q \in Procs |-> IF q \in to THEN Append(mail[q], fresh[p]) ELSE mail[q]]
  BY DEF SaveEnds
<1>3. mem[p] \in Contents /\ fresh[p] \in SUBSET Ids BY <1>1 DEF TypeOK
<1>4. /\ pc' \in [Procs -> Pcs]
      /\ dirty' \in [Procs -> BOOLEAN]
  BY <1>1 DEF TypeOK, Pcs
<1>5. ASSUME NEW q \in Procs PROVE mail'[q] \in Seq(SUBSET Ids) /\ Len(mail'[q]) <= MaxMail
  <2>1. mail[q] \in Seq(SUBSET Ids) /\ Len(mail[q]) <= MaxMail BY <1>1 DEF TypeOK
  <2>2. CASE q \in to
    <3>1. mail'[q] = Append(mail[q], fresh[p]) BY <1>2, <2>2
    <3>2. Len(mail[q]) < MaxMail BY <1>2, <2>2
    <3>3. Append(mail[q], fresh[p]) \in Seq(SUBSET Ids) BY <1>3, <2>1
    <3>4. Len(Append(mail[q], fresh[p])) = Len(mail[q]) + 1 /\ Len(mail[q]) \in Nat
      BY <1>3, <2>1
    <3> QED BY <3>1, <3>2, <3>3, <3>4, EtagereAssumption
  <2>3. CASE q \notin to
    <3>1. mail'[q] = mail[q] BY <1>2, <2>3
    <3> QED BY <2>1, <3>1
  <2> QED BY <2>2, <2>3
<1>6. mail' \in [Procs -> Seq(SUBSET Ids)]
  <2>1. mail' = [q \in Procs |-> mail'[q]] BY <1>2
  <2> QED BY <1>5, <2>1
<1>7. bin' \in Files /\ In(bin'.data) \subseteq In(mem[p]) \cup In(bin.data)
  BY <1>1, WrittenType DEF TypeOK
<1>8. TypeOK' BY <1>1, <1>3, <1>4, <1>5, <1>6, <1>7 DEF TypeOK, Pcs, counters
<1>9. ASSUME NEW q \in Procs, pc'[q] = "allocating" PROVE pc[q] = "allocating"
  BY <1>1, <1>9 DEF TypeOK
<1>10. Known' \subseteq Known BY <1>1, <1>7, KnownIds, KnownAfter
<1> QED BY <1>1, <1>8, <1>9, <1>10, NoNewId

\* A mailbox from which the first message is taken.
LEMMA MailTaken ==
    ASSUME TypeOK, NEW p \in Procs, mail[p] # <<>>, mail' = [mail EXCEPT ![p] = Tail(@)]
    PROVE  mail' \in [Procs -> Seq(SUBSET Ids)] /\ \A q \in Procs : Len(mail'[q]) <= MaxMail
<1>1. mail[p] \in Seq(SUBSET Ids) /\ Len(mail[p]) <= MaxMail BY DEF TypeOK
<1>2. Tail(mail[p]) \in Seq(SUBSET Ids) BY <1>1
<1>3. Len(Tail(mail[p])) = Len(mail[p]) - 1 /\ Len(mail[p]) \in Nat BY <1>1
<1>4. Len(Tail(mail[p])) <= MaxMail BY <1>1, <1>3, EtagereAssumption
<1> QED BY <1>2, <1>4 DEF TypeOK

LEMMA OnNewEmblemsKeeps == ASSUME Inv, NEW p \in Procs, OnNewEmblems(p) PROVE Inv'
<1>1. /\ TypeOK /\ mail[p] # <<>> /\ mail' = [mail EXCEPT ![p] = Tail(@)]
      /\ UNCHANGED <<nextid, txt, bin, up, pc, got, fresh, dirty, counters, handed, saved, attempt,
                     raced, current>>
  BY DEF Inv, OnNewEmblems, shared, history
<1>2. PICK c \in Readable, new \in SUBSET In(bin.data), d \in Contents :
             /\ dirty[p] => new = {}
             /\ new \subseteq In(c)
             /\ d = [i \in Ids |-> IF i \in new THEN c[i] ELSE NoName]
             /\ mem' = [mem EXCEPT ![p] = InsertAll(mem[p], d)]
             /\ byName' = [byName EXCEPT ![p] = @ \cup Pairs(d)]
  BY <1>1, TakenIn
<1>3. mem[p] \in Contents /\ In(d) \subseteq In(bin.data) BY <1>1, <1>2 DEF TypeOK, In
<1>4. InsertAll(mem[p], d) \in Contents /\ In(InsertAll(mem[p], d)) \subseteq In(mem[p]) \cup In(bin.data)
  BY <1>3, InsertAllType
<1>5. Pairs(d) \subseteq Ids \X Names BY DEF Pairs, Contents, In
<1>6. mem' \in [Procs -> Contents] /\ byName' \in [Procs -> SUBSET (Ids \X Names)]
  BY <1>1, <1>2, <1>4, <1>5 DEF TypeOK
<1>7. TypeOK' BY <1>1, <1>6, MailTaken DEF TypeOK, counters
<1>8. ASSUME NEW q \in Procs PROVE In(mem'[q]) \subseteq Known
  <2>1. CASE q = p
    <3>1. mem'[q] = InsertAll(mem[p], d) BY <1>1, <1>2, <2>1 DEF TypeOK
    <3> QED BY <1>4, <3>1, KnownIds
  <2>2. CASE q # p
    <3>1. mem'[q] = mem[q] BY <1>1, <1>2, <2>2 DEF TypeOK
    <3> QED BY <3>1, KnownIds
  <2> QED BY <2>1, <2>2
<1>9. Known' \subseteq Known BY <1>1, <1>8, KnownIds, KnownAfter
<1> QED BY <1>1, <1>7, <1>9, NoNewId

\* A process that ends, by itself or killed, takes its emblems with it.
LEMMA GoneKeeps ==
    ASSUME Inv, NEW p \in Procs, Gone(p), crashes' \in 0 .. MaxCrashes,
           UNCHANGED <<shared, changes, history>>
    PROVE  Inv'
<1>1. TypeOK /\ UNCHANGED <<nextid, txt, bin, handed, saved, attempt, raced, current>>
  BY DEF Inv, shared, history
<1>2. Nothing \in Contents /\ In(Nothing) = {} BY DEF Nothing, Contents, In
<1>3. /\ up' \subseteq Procs /\ pc' \in [Procs -> Pcs]
      /\ got' \in [Procs -> 0 .. MaxId] /\ mem' \in [Procs -> Contents]
  BY <1>1, <1>2, EtagereAssumption DEF Gone, TypeOK, Pcs
<1>4. /\ byName' \in [Procs -> SUBSET (Ids \X Names)] /\ fresh' \in [Procs -> SUBSET Ids]
      /\ dirty' \in [Procs -> BOOLEAN]
  BY <1>1 DEF Gone, TypeOK
<1>5. mail' \in [Procs -> Seq(SUBSET Ids)] /\ \A q \in Procs : Len(mail'[q]) <= MaxMail
  <2>1. <<>> \in Seq(SUBSET Ids) /\ Len(<<>>) = 0 OBVIOUS
  <2>2. mail' = [mail EXCEPT ![p] = <<>>] BY DEF Gone
  <2> QED BY <1>1, <2>1, <2>2, EtagereAssumption DEF TypeOK
<1>6. TypeOK' BY <1>1, <1>3, <1>4, <1>5 DEF TypeOK, Pcs
<1>7. ASSUME NEW q \in Procs, pc'[q] = "allocating"
      PROVE  pc[q] = "allocating" /\ got'[q] = got[q]
  <2>1. q # p BY <1>1, <1>7 DEF Gone, TypeOK
  <2> QED BY <1>1, <1>7, <2>1 DEF Gone, TypeOK
<1>8. ASSUME NEW q \in Procs PROVE In(mem'[q]) \subseteq In(mem[q])
  <2>1. CASE q = p BY <1>1, <1>2, <2>1 DEF Gone, TypeOK
  <2>2. CASE q # p BY <1>1, <2>2 DEF Gone, TypeOK
  <2> QED BY <2>1, <2>2
<1>9. Known' \subseteq Known BY <1>1, <1>8, KnownIds, KnownAfter
<1> QED BY <1>1, <1>6, <1>7, <1>9, NoNewId

LEMMA ExitKeeps == ASSUME Inv, NEW p \in Procs, Exit(p) PROVE Inv'
<1>1. UNCHANGED <<shared, counters, history>> /\ Gone(p) BY DEF Exit
<1>2. crashes' \in 0 .. MaxCrashes BY <1>1 DEF Inv, TypeOK, counters
<1> QED BY <1>1, <1>2, GoneKeeps DEF counters

LEMMA CrashKeeps == ASSUME Inv, NEW p \in Procs, Crash(p) PROVE Inv'
<1>1. crashes \in 0 .. MaxCrashes BY DEF Inv, TypeOK
<1>2. crashes' \in 0 .. MaxCrashes BY <1>1, EtagereAssumption DEF Crash
<1> QED BY <1>2, GoneKeeps DEF Crash

LEMMA InvStep == ASSUME Inv, [Next]_vars PROVE Inv'
<1>1. CASE Next
  <2>1. PICK p \in Procs :
          \/ Start(p) \/ ReadNextId(p) \/ (\E n \in Names : Create(p, n))
          \/ (\E i \in Ids : Erase(p, i)) \/ (\E i \in Ids, n \in Names : Rename(p, i, n))
          \/ SaveBegins(p) \/ TextWritten(p) \/ BinaryOpened(p) \/ SaveEnds(p)
          \/ OnNewEmblems(p) \/ Exit(p) \/ Crash(p)
    BY <1>1 DEF Next
  <2> QED BY <2>1, StartKeeps, ReadNextIdKeeps, CreateKeeps, EraseKeeps, RenameKeeps,
             SaveBeginsKeeps, TextWrittenKeeps, BinaryOpenedKeeps, SaveEndsKeeps, OnNewEmblemsKeeps,
             ExitKeeps, CrashKeeps
<1>2. CASE UNCHANGED vars
  <2>1. TypeOK' BY <1>2 DEF Inv, TypeOK, vars, shared, private, counters, history
  <2> QED BY <1>2, <2>1 DEF Inv, TakesAnId, Ordered, KnownBelowNext, Known, TakesNext, HandedBelow,
                            vars, shared, private, counters, history
<1> QED BY <1>1, <1>2
-----------------------------------------------------------------------------
\* Every emblem is below the next identifier, and a process that makes one
\* has the next identifier in its hand.
THEOREM Invariance == Spec => []Inv
<1>1. Init => Inv BY InvInit
<1>2. Inv /\ [Next]_vars => Inv' BY InvStep
<1> QED BY <1>1, <1>2, PTL DEF Spec

\* The maps, the archives and the mailboxes hold identifiers that exist, and
\* no mailbox overflows.
THEOREM TypeCorrect == Spec => []TypeOK
<1>1. Inv => TypeOK BY DEF Inv
<1> QED BY <1>1, Invariance, PTL

\* getNextID() hands out no identifier twice, whatever is saved, read, lost
\* in a crash or erased in between, unless two processes were in it at the
\* same time.
THEOREM IdsAreUnique == Spec => []UniqueIds
<1>1. Inv => UniqueIds BY DEF Inv, Ordered, HandedBelow, UniqueIds
<1> QED BY <1>1, Invariance, PTL
-----------------------------------------------------------------------------
(***************************************************************************)
(* What is on disk.                                                        *)
(***************************************************************************)
(***************************************************************************)
(* What is on disk.                                                        *)
(***************************************************************************)
\* A process that is making an emblem or saving is dirty.
Busy == \A p \in Procs : pc[p] # "idle" => p \in up /\ dirty[p]
Empty == bin.state = "missing" => bin.data = Nothing
\* What a process is saving stays in its memory until both archives are
\* written, one after the other.
Writes == \A p \in Procs :
    /\ p \in Saving => mem[p] = attempt /\ current = {p}
    /\ pc[p] = "text" => txt = Torn(attempt)
    /\ pc[p] \in {"between", "binary"} => txt = Whole(attempt)
    /\ pc[p] = "binary" => bin = Torn(attempt)
OneSaves == \A p, q \in Saving : p = q
\* A whole archive is what the history says, and the text archive is the
\* first that there is.
SavedOrAttempt ==
    /\ bin.state = "whole" => bin.data = saved
    /\ bin.state = "missing" => saved = Nothing
    /\ txt.state = "whole" => txt.data = attempt
    /\ txt.state = "missing" => bin.state = "missing"
\* An archive is torn by the save that writes it; after one crash in a save,
\* when the binary archive is torn, the text archive is the whole of it.
TornByCrashes ==
    /\ crashes = 0 => /\ txt.state = "torn" => \E p \in Procs : pc[p] = "text"
                      /\ bin.state = "torn" => \E p \in Procs : pc[p] = "binary"
    /\ crashes <= 1 /\ Saving = {} /\ bin.state = "torn" =>
           txt = Whole(attempt) /\ bin = Torn(attempt)
CurrentIsSaved == \A p \in current :
    p \in up /\ pc[p] = "idle" /\ ~ dirty[p] => Loadable = {mem[p]}

Apart == Writes /\ OneSaves /\ SavedOrAttempt /\ TornByCrashes /\ CurrentIsSaved
Disk == Busy /\ Empty /\ ("save" \notin raced => Apart)

LEMMA DiskInit == ASSUME Init PROVE Disk
<1>1. txt = Missing /\ bin = Missing /\ Missing.state = "missing" /\ Missing.data = Nothing
  BY DEF Init, Missing
<1>2. (\A p \in Procs : pc[p] = "idle") /\ Saving = {} BY DEF Init, Saving
<1> QED BY <1>1, <1>2 DEF Init, Disk, Busy, Empty, Apart, Writes, OneSaves, SavedOrAttempt,
                          TornByCrashes, CurrentIsSaved

\* A process that does not save changes nothing that others have or that is
\* on disk: it is clean afterwards only if what it has is on disk.
LEMMA NotSaving ==
    ASSUME TypeOK, Disk, NEW p \in Procs, UNCHANGED <<txt, bin, crashes, saved, attempt>>,
           "save" \notin raced' => "save" \notin raced,
           p \notin Saving, pc'[p] \in {"idle", "allocating"},
           \A q \in Procs \ {p} : /\ pc'[q] = pc[q] /\ dirty'[q] = dirty[q]
                                  /\ mem'[q] = mem[q] /\ (q \in up' <=> q \in up),
           pc'[p] # "idle" => p \in up' /\ dirty'[p],
           \/ current' = current
           \/ current' = current \ {p}
           \/ current' = current \cup {p} /\ Saving = {},
           "save" \notin raced /\ p \in current' /\ p \in up' /\ pc'[p] = "idle" /\ ~ dirty'[p]
               => Loadable = {mem'[p]}
    PROVE  Disk'
<1>1. Busy' BY DEF Disk, Busy
<1>2. Empty' BY DEF Disk, Empty
<1>3. Saving' = Saving BY DEF Saving
<1>4. Loadable' = Loadable BY DEF Loadable
<1>5. ASSUME "save" \notin raced' PROVE Apart'
  <2>1. "save" \notin raced /\ Apart BY <1>5 DEF Disk
  <2>2. Writes'
    <3> SUFFICES ASSUME NEW q \in Procs
                 PROVE  /\ q \in Saving' => mem'[q] = attempt' /\ current' = {q}
                        /\ pc'[q] = "text" => txt' = Torn(attempt')
                        /\ pc'[q] \in {"between", "binary"} => txt' = Whole(attempt')
                        /\ pc'[q] = "binary" => bin' = Torn(attempt')
      BY DEF Writes
    <3>1. CASE q = p BY <1>3, <3>1
    <3>2. CASE q # p
      <4>1. q \in Saving => current' = {q}
        BY <2>1, <3>2 DEF Apart, Writes
      <4> QED BY <1>3, <2>1, <3>2, <4>1 DEF Apart, Writes
    <3> QED BY <3>1, <3>2
  <2>3. OneSaves' BY <1>3, <2>1 DEF Apart, OneSaves
  <2>4. SavedOrAttempt' BY <2>1 DEF Apart, SavedOrAttempt
  <2>5. TornByCrashes'
    <3>1. \A q \in Procs : pc[q] \in {"text", "binary"} => pc'[q] = pc[q] BY DEF Saving
    <3> QED BY <1>3, <2>1, <3>1 DEF Apart, TornByCrashes
  <2>6. CurrentIsSaved'
    <3> SUFFICES ASSUME NEW q \in current', q \in up', pc'[q] = "idle", ~ dirty'[q]
                 PROVE  Loadable = {mem'[q]}
      BY <1>4 DEF CurrentIsSaved
    <3>1. CASE q = p BY <2>1, <3>1
    <3>2. CASE q # p
      <4>1. q \in current /\ q \in Procs BY <3>2 DEF TypeOK
      <4> QED BY <2>1, <3>2, <4>1 DEF Apart, CurrentIsSaved
    <3> QED BY <3>1, <3>2
  <2> QED BY <2>2, <2>3, <2>4, <2>5, <2>6 DEF Apart
<1> QED BY <1>1, <1>2, <1>5 DEF Disk

LEMMA DiskStart == ASSUME TypeOK, Disk, NEW p \in Procs, Start(p) PROVE Disk'
<1>1. PICK c \in Loadable :
        /\ mem' = [mem EXCEPT ![p] = c]
        /\ current' = IF Saving = {} /\ Loadable = {c} THEN current \cup {p} ELSE current \ {p}
  BY DEF Start
<1>2. /\ pc[p] = "idle" /\ dirty' = [dirty EXCEPT ![p] = FALSE] /\ up' = up \cup {p} /\ pc' = pc
      /\ UNCHANGED <<txt, bin, crashes, saved, attempt, raced>>
  BY DEF Start, Disk, Busy, counters
<1>3. mem'[p] = c BY <1>1 DEF TypeOK
<1>4. \A q \in Procs \ {p} : /\ pc'[q] = pc[q] /\ dirty'[q] = dirty[q]
                             /\ mem'[q] = mem[q] /\ (q \in up' <=> q \in up)
  BY <1>1, <1>2 DEF TypeOK
<1>5. p \notin Saving BY <1>2 DEF Saving
<1>6. p \in current' => Loadable = {mem'[p]} BY <1>1, <1>3
<1>7. \/ current' = current \ {p}
      \/ current' = current \cup {p} /\ Saving = {}
  BY <1>1
<1> QED BY <1>2, <1>4, <1>5, <1>6, <1>7, NotSaving

LEMMA DiskReadNextId == ASSUME TypeOK, Disk, NEW p \in Procs, ReadNextId(p) PROVE Disk'
<1>1. /\ pc[p] = "idle" /\ p \in up
      /\ dirty' = [dirty EXCEPT ![p] = TRUE] /\ pc' = [pc EXCEPT ![p] = "allocating"]
      /\ UNCHANGED <<up, mem, txt, bin, crashes, saved, attempt, current>>
      /\ "save" \notin raced' => "save" \notin raced
  BY DEF ReadNextId, Idle, shared
<1>2. pc'[p] = "allocating" /\ dirty'[p] /\ p \notin Saving BY <1>1 DEF TypeOK, Saving
<1>3. \A q \in Procs \ {p} : /\ pc'[q] = pc[q] /\ dirty'[q] = dirty[q]
                             /\ mem'[q] = mem[q] /\ (q \in up' <=> q \in up)
  BY <1>1 DEF TypeOK
<1> QED BY <1>1, <1>2, <1>3, NotSaving

LEMMA DiskCreate ==
    ASSUME TypeOK, Disk, NEW p \in Procs, NEW n \in Names, Create(p, n) PROVE Disk'
<1>1. /\ pc[p] = "allocating" /\ p \in up /\ pc' = [pc EXCEPT ![p] = "idle"]
      /\ UNCHANGED <<up, dirty, txt, bin, crashes, saved, attempt, raced, current>>
      /\ \E c : mem' = [mem EXCEPT ![p] = c]
  BY DEF Create, counters
<1>2. dirty[p] /\ p \notin Saving BY <1>1 DEF Disk, Busy, Saving
<1>3. pc'[p] = "idle" BY <1>1 DEF TypeOK
<1>4. \A q \in Procs \ {p} : /\ pc'[q] = pc[q] /\ dirty'[q] = dirty[q]
                             /\ mem'[q] = mem[q] /\ (q \in up' <=> q \in up)
  BY <1>1 DEF TypeOK
<1> QED BY <1>1, <1>2, <1>3, <1>4, NotSaving

\* Erase() and setName() make the process dirty.
LEMMA DiskChange ==
    ASSUME TypeOK, Disk, NEW p \in Procs, Idle(p),
           dirty' = [dirty EXCEPT ![p] = TRUE], \E c : mem' = [mem EXCEPT ![p] = c],
           UNCHANGED <<up, pc, txt, bin, crashes, history>>
    PROVE  Disk'
<1>1. pc[p] = "idle" /\ p \in up /\ dirty'[p] /\ p \notin Saving BY DEF Idle, TypeOK, Saving
<1>2. \A q \in Procs \ {p} : /\ pc'[q] = pc[q] /\ dirty'[q] = dirty[q]
                             /\ mem'[q] = mem[q] /\ (q \in up' <=> q \in up)
  BY DEF TypeOK
<1>3. UNCHANGED <<txt, bin, crashes, saved, attempt, raced, current>> BY DEF history
<1> QED BY <1>1, <1>2, <1>3, NotSaving

LEMMA DiskErase ==
    ASSUME TypeOK, Disk, NEW p \in Procs, NEW i \in Ids, Erase(p, i) PROVE Disk'
<1>1. mem' = [mem EXCEPT ![p] = [mem[p] EXCEPT ![i] = NoName]] BY DEF Erase
<1> QED BY <1>1, DiskChange DEF Erase, shared

LEMMA DiskRename ==
    ASSUME TypeOK, Disk, NEW p \in Procs, NEW i \in Ids, NEW n \in Names, Rename(p, i, n)
    PROVE  Disk'
<1>1. mem' = [mem EXCEPT ![p] = [mem[p] EXCEPT ![i] = n]] BY DEF Rename
<1> QED BY <1>1, DiskChange DEF Rename, shared

\* What can be read of a binary archive is loaded, if anything is.
LEMMA ReadIsLoaded ==
    ASSUME TypeOK, Empty, NEW m, Loadable = {m}, NEW c \in Readable, NEW i \in In(c)
    PROVE  m[i] = c[i]
<1>1. i \in Ids /\ c[i] # NoName BY DEF In
<1>2. CASE bin.state = "whole" BY <1>2 DEF Loadable, Readable
<1>3. CASE bin.state # "whole"
  <2>1. PICK k \in 0 .. MaxId : c = Prefix(bin.data, k) BY <1>3 DEF Readable
  <2>2. c[i] = bin.data[i] BY <1>1, <2>1 DEF Prefix
  <2>3. bin.state # "missing" BY <1>1, <2>2 DEF Empty, Nothing
  <2>4. InsertAll(Prefix(bin.data, k), txt.data) \in Loadable
    BY <1>3, <2>3 DEF Loadable
  <2>5. m = InsertAll(c, txt.data) BY <2>1, <2>4
  <2> QED BY <1>1, <2>5 DEF InsertAll
<1> QED BY <1>2, <1>3

\* What an announcement brings a current process it has already.
LEMMA DiskOnNewEmblems ==
    ASSUME TypeOK, Disk, NEW p \in Procs, OnNewEmblems(p) PROVE Disk'
<1>1. /\ pc[p] = "idle" /\ p \in up
      /\ UNCHANGED <<up, pc, dirty, txt, bin, crashes, saved, attempt, raced, current>>
  BY DEF OnNewEmblems, Idle, shared, history, counters
<1>2. PICK c \in Readable, new \in SUBSET In(bin.data), d \in Contents :
             /\ dirty[p] => new = {}
             /\ new \subseteq In(c)
             /\ d = [i \in Ids |-> IF i \in new THEN c[i] ELSE NoName]
             /\ mem' = [mem EXCEPT ![p] = InsertAll(mem[p], d)]
             /\ byName' = [byName EXCEPT ![p] = @ \cup Pairs(d)]
  BY TakenIn
<1>3. mem[p] \in Contents /\ mem'[p] = InsertAll(mem[p], d) BY <1>2 DEF TypeOK
<1>4. ASSUME "save" \notin raced, p \in current, ~ dirty[p] PROVE Loadable = {mem'[p]}
  <2>1. Loadable = {mem[p]} BY <1>1, <1>4 DEF Disk, Apart, CurrentIsSaved
  <2>2. mem[p] = [i \in Ids |-> mem[p][i]] BY <1>3 DEF Contents
  <2>3. ASSUME NEW i \in Ids PROVE d[i] \in {mem[p][i], NoName}
    <3>1. CASE i \in new
      <4>1. i \in In(c) /\ d[i] = c[i] BY <1>2, <3>1
      <4> QED BY <2>1, <4>1, ReadIsLoaded DEF Disk
    <3>2. CASE i \notin new BY <1>2, <3>2
    <3> QED BY <3>1, <3>2
  <2>4. InsertAll(mem[p], d) = [i \in Ids |-> mem[p][i]] BY <2>3 DEF InsertAll
  <2> QED BY <1>3, <2>1, <2>2, <2>4
<1>5. \A q \in Procs \ {p} : /\ pc'[q] = pc[q] /\ dirty'[q] = dirty[q]
                             /\ mem'[q] = mem[q] /\ (q \in up' <=> q \in up)
  BY <1>1, <1>2 DEF TypeOK
<1>6. p \notin Saving BY <1>1 DEF Saving
<1> QED BY <1>1, <1>4, <1>5, <1>6, NotSaving

LEMMA DiskExit == ASSUME TypeOK, Disk, NEW p \in Procs, Exit(p) PROVE Disk'
<1>1. /\ pc[p] = "idle" /\ up' = up \ {p} /\ pc' = [pc EXCEPT ![p] = "idle"]
      /\ mem' = [mem EXCEPT ![p] = Nothing] /\ dirty' = [dirty EXCEPT ![p] = FALSE]
      /\ UNCHANGED <<txt, bin, crashes, saved, attempt, raced, current>>
  BY DEF Exit, Gone, Idle, shared, history, counters
<1>2. pc'[p] = "idle" /\ p \notin up' /\ p \notin Saving BY <1>1 DEF TypeOK, Saving
<1>3. \A q \in Procs \ {p} : /\ pc'[q] = pc[q] /\ dirty'[q] = dirty[q]
                             /\ mem'[q] = mem[q] /\ (q \in up' <=> q \in up)
  BY <1>1 DEF TypeOK
<1> QED BY <1>1, <1>2, <1>3, NotSaving

\* A first crash while the binary archive is open tears it, when the text
\* archive is whole.
LEMMA DiskCrash == ASSUME TypeOK, Disk, NEW p \in Procs, Crash(p) PROVE Disk'
<1>1. /\ up' = up \ {p} /\ pc' = [pc EXCEPT ![p] = "idle"]
      /\ mem' = [mem EXCEPT ![p] = Nothing] /\ dirty' = [dirty EXCEPT ![p] = FALSE]
      /\ crashes' = crashes + 1 /\ UNCHANGED <<txt, bin, saved, attempt, raced, current>>
  BY DEF Crash, Gone, shared, history
<1>2. pc'[p] = "idle" /\ p \notin up' BY <1>1 DEF TypeOK
<1>3. \A q \in Procs \ {p} : /\ pc'[q] = pc[q] /\ dirty'[q] = dirty[q]
                             /\ mem'[q] = mem[q] /\ (q \in up' <=> q \in up)
  BY <1>1 DEF TypeOK
<1>4. crashes \in Nat BY EtagereAssumption DEF TypeOK
<1>5. Busy' BY <1>2, <1>3 DEF Disk, Busy
<1>6. Empty' BY <1>1 DEF Disk, Empty
<1>7. Loadable' = Loadable BY <1>1 DEF Loadable
<1>8. \A q \in Procs : (q \in Saving' => q \in Saving /\ q # p)
  BY <1>2, <1>3 DEF Saving
<1>9. ASSUME "save" \notin raced' PROVE Apart'
  <2>1. "save" \notin raced /\ Apart BY <1>1, <1>9 DEF Disk
  <2>2. Writes' BY <1>1, <1>2, <1>3, <1>8, <2>1 DEF Apart, Writes
  <2>3. OneSaves'
    <3>1. Saving' \subseteq Saving BY <1>8 DEF Saving
    <3> QED BY <2>1, <3>1 DEF Apart, OneSaves
  <2>4. SavedOrAttempt' BY <1>1, <2>1 DEF Apart, SavedOrAttempt
  <2>5. TornByCrashes'
    <3>1. crashes' # 0 /\ (crashes' <= 1 => crashes = 0) BY <1>1, <1>4
    <3>2. crashes = 0 /\ bin.state = "torn" => txt = Whole(attempt) /\ bin = Torn(attempt)
      BY <2>1 DEF Apart, TornByCrashes, Writes
    <3> QED BY <1>1, <3>1, <3>2 DEF TornByCrashes
  <2>6. CurrentIsSaved'
    <3> SUFFICES ASSUME NEW q \in current, q \in up', pc'[q] = "idle", ~ dirty'[q]
                 PROVE  Loadable = {mem'[q]}
      BY <1>1, <1>7 DEF CurrentIsSaved
    <3>1. q \in Procs /\ q # p BY <1>2 DEF TypeOK
    <3> QED BY <1>3, <2>1, <3>1 DEF Apart, CurrentIsSaved
  <2> QED BY <2>2, <2>3, <2>4, <2>5, <2>6 DEF Apart
<1> QED BY <1>5, <1>6, <1>9 DEF Disk

\* The steps of a save.
LEMMA DiskSaveBegins == ASSUME TypeOK, Disk, NEW p \in Procs, SaveBegins(p) PROVE Disk'
<1>1. /\ pc[p] = "idle" /\ p \in up /\ dirty[p]
      /\ txt' = Torn(mem[p]) /\ attempt' = mem[p] /\ pc' = [pc EXCEPT ![p] = "text"]
      /\ current' = {p} /\ raced' = raced \cup (IF Saving = {} THEN {} ELSE {"save"})
      /\ UNCHANGED <<bin, up, mem, dirty, crashes, saved>>
  BY DEF SaveBegins, Idle, counters
<1>2. txt'.state = "torn" BY <1>1 DEF Torn
<1>3. pc'[p] = "text" /\ \A q \in Procs \ {p} : pc'[q] = pc[q] BY <1>1 DEF TypeOK
<1>4. Busy' BY <1>1, <1>3 DEF Disk, Busy
<1>5. Empty' BY <1>1 DEF Disk, Empty
<1>6. ASSUME "save" \notin raced' PROVE Apart'
  <2>1. "save" \notin raced /\ Apart /\ Saving = {} BY <1>1, <1>6 DEF Disk
  <2>2. Saving' = {p} BY <1>3, <2>1 DEF Saving
  <2>3. \A q \in Procs : pc[q] \notin {"text", "between", "binary"} BY <2>1 DEF Saving
  <2>4. Writes' BY <1>1, <1>3, <2>2, <2>3 DEF Writes
  <2>5. OneSaves' BY <2>2 DEF OneSaves
  <2>6. SavedOrAttempt' BY <1>1, <1>2, <2>1 DEF Apart, SavedOrAttempt
  <2>7. TornByCrashes' BY <1>1, <1>3, <2>1, <2>2, <2>3 DEF Apart, TornByCrashes
  <2>8. CurrentIsSaved' BY <1>1, <1>3 DEF CurrentIsSaved
  <2> QED BY <2>4, <2>5, <2>6, <2>7, <2>8 DEF Apart
<1> QED BY <1>4, <1>5, <1>6 DEF Disk

LEMMA DiskTextWritten == ASSUME TypeOK, Disk, NEW p \in Procs, TextWritten(p) PROVE Disk'
<1>1. /\ pc[p] = "text" /\ p \in up
      /\ txt' \in Written(p, txt) /\ pc' = [pc EXCEPT ![p] = "between"]
      /\ UNCHANGED <<bin, up, mem, dirty, crashes, saved, attempt, raced, current>>
  BY DEF TextWritten, history, counters
<1>2. pc'[p] = "between" /\ \A q \in Procs \ {p} : pc'[q] = pc[q] BY <1>1 DEF TypeOK
<1>3. Busy' BY <1>1, <1>2 DEF Disk, Busy
<1>4. Empty' BY <1>1 DEF Disk, Empty
<1>5. ASSUME "save" \notin raced' PROVE Apart'
  <2>1. "save" \notin raced /\ Apart BY <1>1, <1>5 DEF Disk
  <2>2. p \in Saving BY <1>1 DEF Saving
  <2>3. mem[p] = attempt /\ current = {p} BY <2>1, <2>2 DEF Apart, Writes
  <2>4. txt' = Whole(attempt) /\ txt'.state = "whole" /\ txt'.data = attempt
    BY <1>1, <2>1, <2>3 DEF Written, Whole
  <2>5. \A q \in Procs \ {p} : pc[q] \notin {"text", "between", "binary"}
    BY <2>1, <2>2 DEF Apart, OneSaves, Saving
  <2>6. Saving' = {p} BY <1>2, <2>5 DEF Saving
  <2>7. Writes' BY <1>1, <1>2, <2>3, <2>4, <2>5, <2>6 DEF Writes
  <2>8. OneSaves' BY <2>6 DEF OneSaves
  <2>9. SavedOrAttempt' BY <1>1, <2>1, <2>4 DEF Apart, SavedOrAttempt
  <2>10. TornByCrashes' BY <1>1, <2>1, <2>4, <2>5, <2>6 DEF Apart, TornByCrashes
  <2>11. CurrentIsSaved' BY <1>1, <1>2, <2>3 DEF CurrentIsSaved
  <2> QED BY <2>7, <2>8, <2>9, <2>10, <2>11 DEF Apart
<1> QED BY <1>3, <1>4, <1>5 DEF Disk

LEMMA DiskBinaryOpened == ASSUME TypeOK, Disk, NEW p \in Procs, BinaryOpened(p) PROVE Disk'
<1>1. /\ pc[p] = "between" /\ p \in up
      /\ bin' = Torn(mem[p]) /\ pc' = [pc EXCEPT ![p] = "binary"]
      /\ UNCHANGED <<txt, up, mem, dirty, crashes, saved, attempt, raced, current>>
  BY DEF BinaryOpened, history, counters
<1>2. pc'[p] = "binary" /\ \A q \in Procs \ {p} : pc'[q] = pc[q] BY <1>1 DEF TypeOK
<1>3. Busy' BY <1>1, <1>2 DEF Disk, Busy
<1>4. bin'.state = "torn" BY <1>1 DEF Torn
<1>5. Empty' BY <1>4 DEF Empty
<1>6. ASSUME "save" \notin raced' PROVE Apart'
  <2>1. "save" \notin raced /\ Apart BY <1>1, <1>6 DEF Disk
  <2>2. p \in Saving BY <1>1 DEF Saving
  <2>3. mem[p] = attempt /\ current = {p} /\ txt = Whole(attempt)
    BY <1>1, <2>1, <2>2 DEF Apart, Writes
  <2>4. txt.state = "whole" BY <2>3 DEF Whole
  <2>5. \A q \in Procs \ {p} : pc[q] \notin {"text", "between", "binary"}
    BY <2>1, <2>2 DEF Apart, OneSaves, Saving
  <2>6. Saving' = {p} BY <1>2, <2>5 DEF Saving
  <2>7. Writes' BY <1>1, <1>2, <2>3, <2>5, <2>6 DEF Writes
  <2>8. OneSaves' BY <2>6 DEF OneSaves
  <2>9. SavedOrAttempt' BY <1>1, <1>4, <2>1, <2>4 DEF Apart, SavedOrAttempt
  <2>10. TornByCrashes' BY <1>1, <1>2, <2>4, <2>6 DEF TornByCrashes
  <2>11. CurrentIsSaved' BY <1>1, <1>2, <2>3 DEF CurrentIsSaved
  <2> QED BY <2>7, <2>8, <2>9, <2>10, <2>11 DEF Apart
<1> QED BY <1>3, <1>5, <1>6 DEF Disk

LEMMA DiskSaveEnds == ASSUME TypeOK, Disk, NEW p \in Procs, SaveEnds(p) PROVE Disk'
<1>1. /\ pc[p] = "binary" /\ p \in up
      /\ bin' \in Written(p, bin) /\ saved' = mem[p] /\ pc' = [pc EXCEPT ![p] = "idle"]
      /\ dirty' = [dirty EXCEPT ![p] = FALSE]
      /\ UNCHANGED <<txt, up, mem, crashes, attempt, raced, current>>
  BY DEF SaveEnds, counters
<1>2. /\ pc'[p] = "idle" /\ ~ dirty'[p]
      /\ \A q \in Procs \ {p} : pc'[q] = pc[q] /\ dirty'[q] = dirty[q]
  BY <1>1 DEF TypeOK
<1>3. Busy' BY <1>1, <1>2 DEF Disk, Busy
<1>4. bin'.state # "missing" BY <1>1 DEF Written, Whole
<1>5. Empty' BY <1>4 DEF Empty
<1>6. ASSUME "save" \notin raced' PROVE Apart'
  <2>1. "save" \notin raced /\ Apart BY <1>1, <1>6 DEF Disk
  <2>2. p \in Saving BY <1>1 DEF Saving
  <2>3. mem[p] = attempt /\ current = {p} /\ txt = Whole(attempt)
    BY <1>1, <2>1, <2>2 DEF Apart, Writes
  <2>4. txt.state = "whole" /\ txt.data = attempt BY <2>3 DEF Whole
  <2>5. bin'.state = "whole" /\ bin'.data = mem[p] BY <1>1, <2>1 DEF Written, Whole
  <2>6. \A q \in Procs \ {p} : pc[q] \notin {"text", "between", "binary"}
    BY <2>1, <2>2 DEF Apart, OneSaves, Saving
  <2>7. Saving' = {} BY <1>2, <2>6 DEF Saving
  <2>8. Writes' BY <1>1, <1>2, <2>6, <2>7 DEF Writes
  <2>9. OneSaves' BY <2>7 DEF OneSaves
  <2>10. SavedOrAttempt' BY <1>1, <2>4, <2>5 DEF SavedOrAttempt
  <2>11. TornByCrashes' BY <1>1, <2>4, <2>5 DEF TornByCrashes
  <2>12. CurrentIsSaved'
    <3>1. Loadable' = {mem[p]} BY <2>5 DEF Loadable
    <3> QED BY <1>1, <2>3, <3>1 DEF CurrentIsSaved
  <2> QED BY <2>8, <2>9, <2>10, <2>11, <2>12 DEF Apart
<1> QED BY <1>3, <1>5, <1>6 DEF Disk

LEMMA DiskStep == ASSUME TypeOK, Disk, [Next]_vars PROVE Disk'
<1>1. CASE Next
  <2>1. PICK p \in Procs :
          \/ Start(p) \/ ReadNextId(p) \/ (\E n \in Names : Create(p, n))
          \/ (\E i \in Ids : Erase(p, i)) \/ (\E i \in Ids, n \in Names : Rename(p, i, n))
          \/ SaveBegins(p) \/ TextWritten(p) \/ BinaryOpened(p) \/ SaveEnds(p)
          \/ OnNewEmblems(p) \/ Exit(p) \/ Crash(p)
    BY <1>1 DEF Next
  <2> QED BY <2>1, DiskStart, DiskReadNextId, DiskCreate, DiskErase, DiskRename, DiskSaveBegins,
             DiskTextWritten, DiskBinaryOpened, DiskSaveEnds, DiskOnNewEmblems, DiskExit, DiskCrash
<1>2. CASE UNCHANGED vars
  <2>1. UNCHANGED <<txt, bin, up, pc, mem, dirty, crashes, saved, attempt, raced, current>>
    BY <1>2 DEF vars, shared, private, counters, history
  <2> QED BY <2>1 DEF Disk, Busy, Empty, Apart, Writes, OneSaves, SavedOrAttempt, TornByCrashes,
                      CurrentIsSaved, Saving, Loadable
<1> QED BY <1>1, <1>2

\* While no two saves have overlapped the archives are the last save and the
\* one in progress.
THEOREM DiskInvariance == Spec => []Disk
<1>1. Init => Disk BY DiskInit
<1>2. TypeOK /\ Disk /\ [Next]_vars => Disk' BY DiskStep
<1> QED BY <1>1, <1>2, TypeCorrect, PTL DEF Spec

\* Reading a text archive after what is missing, or the first emblems of the
\* same.
LEMMA ReadTwice ==
    ASSUME NEW a \in Contents, NEW b, NEW k, b = a \/ b = Nothing
    PROVE  InsertAll(Prefix(b, k), a) = a
<1>1. a = [i \in Ids |-> a[i]] BY DEF Contents
<1>2. \A i \in Ids : Prefix(b, k)[i] \in {a[i], NoName} BY DEF Prefix, Nothing
<1>3. InsertAll(Prefix(b, k), a) = [i \in Ids |-> a[i]] BY <1>2 DEF InsertAll
<1> QED BY <1>1, <1>3

\* loadAllEmblems() after saveAllEmblems() and at most one crash: one save as
\* a whole, and one to load unless the crash was in the text archive of the
\* first save.
THEOREM OneSaveIsLoaded == Spec => []LoadIsOneSave
<1>1. ASSUME TypeOK, Disk PROVE LoadIsOneSave
  <2> SUFFICES ASSUME up = {}, crashes <= 1, "save" \notin raced
               PROVE  /\ Loadable \subseteq {saved, attempt}
                      /\ Loadable = {} => crashes = 1 /\ bin.state = "missing"
    BY DEF LoadIsOneSave
  <2>1. (\A p \in Procs : pc[p] = "idle") /\ Saving = {} BY <1>1 DEF Disk, Busy, Saving
  <2>2. Apart BY <1>1 DEF Disk
  <2>3. crashes \in Nat BY <1>1, EtagereAssumption DEF TypeOK
  <2>4. 0 \in 0 .. MaxId BY EtagereAssumption
  <2>5. txt.state \in {"missing", "torn", "whole"} /\ bin.state \in {"missing", "torn", "whole"}
        /\ txt.data \in Contents
    BY <1>1 DEF TypeOK, Files
  <2>6. CASE txt.state = "missing" /\ bin.state = "missing"
    <3>1. Loadable = {Nothing} BY <2>6 DEF Loadable
    <3> QED BY <2>2, <2>6, <3>1 DEF Apart, SavedOrAttempt
  <2>7. CASE bin.state = "whole"
    <3>1. Loadable = {bin.data} BY <2>7 DEF Loadable
    <3> QED BY <2>2, <2>7, <3>1 DEF Apart, SavedOrAttempt
  <2>8. CASE bin.state # "whole" /\ txt.state = "whole"
    <3>1. bin.data = txt.data \/ bin.data = Nothing
      <4>1. CASE bin.state = "missing" BY <1>1, <4>1 DEF Disk, Empty
      <4>2. CASE bin.state = "torn"
        BY <2>1, <2>2, <4>2 DEF Apart, TornByCrashes, Torn, Whole
      <4> QED BY <2>5, <2>8, <4>1, <4>2
    <3>2. Loadable = {InsertAll(Prefix(bin.data, k), txt.data) : k \in 0 .. MaxId}
      BY <2>8 DEF Loadable
    <3>3. \A k \in 0 .. MaxId : InsertAll(Prefix(bin.data, k), txt.data) = txt.data
      BY <2>5, <3>1, ReadTwice
    <3>4. Loadable = {txt.data} BY <2>4, <3>2, <3>3
    <3> QED BY <2>2, <2>8, <3>4 DEF Apart, SavedOrAttempt
  <2>9. CASE bin.state # "whole" /\ txt.state = "torn"
    <3>1. Loadable = {} BY <2>9 DEF Loadable
    <3>2. crashes # 0 BY <2>1, <2>2, <2>9 DEF Apart, TornByCrashes
    <3>3. bin.state # "torn" BY <2>1, <2>2, <2>9 DEF Apart, TornByCrashes, Whole
    <3> QED BY <2>3, <2>5, <2>9, <3>1, <3>2, <3>3
  <2>10. txt.state = "missing" => bin.state = "missing" BY <2>2 DEF Apart, SavedOrAttempt
  <2> QED BY <2>5, <2>6, <2>7, <2>8, <2>9, <2>10
<1> QED BY <1>1, TypeCorrect, DiskInvariance, PTL

\* sync() writes nothing when m_isDirty is clear, and then nothing is lost
\* that the process has changed.
THEOREM CleanIsWritten == Spec => []CleanIsOnDisk
<1>1. Disk => CleanIsOnDisk BY DEF Disk, Apart, CurrentIsSaved, CleanIsOnDisk, Idle
<1> QED BY <1>1, DiskInvariance, PTL

\* OnOutOfProcNewEmblemNotification(), from an archive that is whole or is
\* being written: what is learnt is what is loaded.
THEOREM SavedIsLearnt == Spec => LearnsSaved
<1> DEFINE A == \A p \in Procs :
    OnNewEmblems(p) /\ "save" \notin raced /\ crashes = 0 =>
        \A i \in In(mem'[p]) \ In(mem[p]), c \in Loadable : mem'[p][i] = c[i]
<1>1. ASSUME TypeOK, Disk, NEW p \in Procs, OnNewEmblems(p), "save" \notin raced, crashes = 0,
             NEW i \in In(mem'[p]) \ In(mem[p]), NEW e \in Loadable
      PROVE  mem'[p][i] = e[i]
  <2>1. PICK c \in Readable, new \in SUBSET In(bin.data), d \in Contents :
             /\ dirty[p] => new = {}
             /\ new \subseteq In(c)
             /\ d = [j \in Ids |-> IF j \in new THEN c[j] ELSE NoName]
             /\ mem' = [mem EXCEPT ![p] = InsertAll(mem[p], d)]
             /\ byName' = [byName EXCEPT ![p] = @ \cup Pairs(d)]
    BY <1>1, TakenIn
  <2>2. mem'[p] = InsertAll(mem[p], d) BY <1>1, <2>1 DEF TypeOK
  <2>3. i \in Ids /\ mem[p][i] = NoName /\ mem'[p][i] # NoName BY <1>1 DEF In
  <2>4. mem'[p][i] = d[i] BY <2>2, <2>3 DEF InsertAll
  <2>5. i \in In(c) /\ i \in In(bin.data) /\ mem'[p][i] = c[i] BY <2>1, <2>3, <2>4
  <2>6. c[i] = bin.data[i]
    <3>1. c = bin.data \/ \E k : c = Prefix(bin.data, k) BY DEF Readable
    <3> QED BY <2>3, <2>5, <3>1 DEF Prefix, In
  <2>7. bin.data[i] # NoName BY <2>5 DEF In
  <2>8. bin.state # "missing" BY <1>1, <2>3, <2>7 DEF Disk, Empty, Nothing
  <2>9. CASE bin.state = "whole"
    <3>1. e = bin.data BY <2>9 DEF Loadable
    <3> QED BY <2>5, <2>6, <3>1
  <2>10. CASE bin.state = "torn"
    <3>1. PICK q \in Procs : pc[q] = "binary"
      BY <1>1, <2>10 DEF Disk, Apart, TornByCrashes
    <3>2. txt = Whole(attempt) /\ bin = Torn(attempt)
      BY <1>1, <3>1 DEF Disk, Apart, Writes
    <3>3. attempt \in Contents BY <1>1 DEF TypeOK
    <3>4. bin.data = attempt /\ txt.data = attempt /\ txt.state = "whole"
      BY <3>2 DEF Whole, Torn
    <3>5. PICK k \in 0 .. MaxId : e = InsertAll(Prefix(bin.data, k), txt.data)
      BY <2>10, <3>4 DEF Loadable
    <3>6. e = attempt BY <3>3, <3>4, <3>5, ReadTwice
    <3> QED BY <2>5, <2>6, <3>4, <3>6
  <2> QED BY <1>1, <2>8, <2>9, <2>10 DEF TypeOK, Files
<1>2. TypeOK /\ Disk => A BY <1>1
<1>3. TypeOK /\ Disk /\ [Next]_vars => [A]_vars BY <1>2
<1> QED BY <1>3, TypeCorrect, DiskInvariance, PTL DEF Spec, LearnsSaved
=============================================================================
