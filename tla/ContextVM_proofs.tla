-------------------------- MODULE ContextVM_proofs --------------------------
(***************************************************************************)
(* Theorems of ContextVM for every set of contexts, every tree and every   *)
(* setting, auto clean up and deleted files included.                      *)
(*                                                                         *)
(* The free list is sound because of what can be in progress while a       *)
(* cleanUp() is: nothing but the releases it causes.  StackShape says so,  *)
(* and it is what makes the other parts of ListInv inductive.              *)
(***************************************************************************)
EXTENDS ContextVM, SequenceTheorems, FiniteSetTheorems, TLAPS

-----------------------------------------------------------------------------
(***************************************************************************)
(* Sequences used as stacks.                                               *)
(***************************************************************************)

\* Putting a frame on a stack, and what is then where.
LEMMA Push ==
    ASSUME NEW S, NEW f \in S, NEW t \in Seq(S)
    PROVE  /\ <<f>> \o t \in Seq(S)
           /\ Len(<<f>> \o t) = Len(t) + 1
           /\ (<<f>> \o t)[1] = f
           /\ \A i \in 2..Len(t) + 1 : (<<f>> \o t)[i] = t[i - 1]
  OBVIOUS

\* Several frames at once are put on one after the other.
LEMMA Push2 ==
    ASSUME NEW S, NEW f \in S, NEW g \in S, NEW t \in Seq(S)
    PROVE  <<f, g>> \o t = <<f>> \o (<<g>> \o t)
<1>1. <<f>> \in Seq(S) /\ <<g>> \in Seq(S)
  OBVIOUS
<1>2. <<f, g>> = <<f>> \o <<g>>
  <2>1. <<f, g>> \in Seq(S) /\ <<f>> \o <<g>> \in Seq(S)
    BY <1>1
  <2>2. Len(<<f, g>>) = 2 /\ Len(<<f>> \o <<g>>) = 2
    BY <1>1
  <2>3. \A i \in 1..2 : <<f, g>>[i] = (<<f>> \o <<g>>)[i]
    BY <1>1
  <2> QED
    BY <2>1, <2>2, <2>3, SeqEqual
<1> QED
  BY <1>1, <1>2, ConcatAssociative

\* Taking the top frame off.
LEMMA Pop ==
    ASSUME NEW S, NEW t \in Seq(S), t # <<>>
    PROVE  /\ Len(t) > 0
           /\ Head(t) \in S
           /\ Head(t) = t[1]
           /\ Tail(t) \in Seq(S)
           /\ Len(Tail(t)) = Len(t) - 1
           /\ \A i \in 1..Len(t) - 1 : Tail(t)[i] = t[i + 1]
  OBVIOUS

-----------------------------------------------------------------------------
(***************************************************************************)
(* Type correctness.                                                       *)
(***************************************************************************)

\* A call on a context has one; a directory is read for its own subcontexts.
GoodFrame == {s \in Frame :
                /\ s.op \notin {"Clean", "Resolve"} => s.ctx \in Ctx
                /\ s.left \subseteq Kids(s.ctx)}

TypeInv == TypeOK /\ stack \in Seq(GoodFrame)

LEMMA GoodCall ==
    ASSUME NEW op \in Op, NEW c \in Ctx
    PROVE  Call(op, c) \in GoodFrame
  BY DEF GoodFrame, Frame, Call, Kids

LEMMA GoodCleanCall ==
    ASSUME NEW op \in {"Clean", "Resolve"}
    PROVE  Call(op, NoCtx) \in GoodFrame
  BY DEF GoodFrame, Frame, Call, Kids, Op

\* Frames put on a stack of good frames.
LEMMA GoodStack ==
    ASSUME NEW t \in Seq(GoodFrame), NEW f \in GoodFrame, NEW g \in GoodFrame,
           NEW h \in GoodFrame
    PROVE  /\ <<f>> \o t \in Seq(GoodFrame)
           /\ <<f, g>> \o t \in Seq(GoodFrame)
           /\ <<f, g, h>> \o t \in Seq(GoodFrame)
  BY Push, Push2

\* What the frame that runs is.
LEMMA GoodTop ==
    ASSUME TypeInv, stack # <<>>
    PROVE  /\ Top \in GoodFrame
           /\ Top.op \in Op
           /\ Top.op \notin {"Clean", "Resolve"} => Top.ctx \in Ctx
           /\ Top.left \subseteq Kids(Top.ctx)
           /\ Tail(stack) \in Seq(GoodFrame)
<1>1. Top \in GoodFrame /\ Tail(stack) \in Seq(GoodFrame)
  BY Pop DEF TypeInv, Top
<1> QED
  BY <1>1 DEF GoodFrame, Frame

\* A context that is not a root has its parent in the tree.
LEMMA ParentInTree ==
    ASSUME NEW c \in Ctx
    PROVE  c \notin Roots <=> Up[c] \in Ctx
  BY UpAssumption DEF Roots

LEMMA TypeInit == Init => TypeInv
<1> SUFFICES ASSUME Init PROVE TypeInv
  OBVIOUS
<1>1. stack \in Seq(GoodFrame) /\ stack \in Seq(Frame)
  BY DEF Init
<1>2. refCount \in [Ctx -> {n \in Int : n <= MaxRefCount}]
  BY SettingAssumption DEF Init
<1>3. /\ freeList \subseteq Ctx
      /\ weAreInFreeList \subseteq Ctx
      /\ live \subseteq Ctx
  BY DEF Init, Roots
<1>4. /\ items \in [Ctx -> SUBSET Ctx]
      /\ numSub \in [Ctx -> Int]
      /\ handles \in [Ctx -> Nat]
  BY DEF Init
<1>5. /\ parentBound = {} /\ holdingParent = {} /\ haveReadDir = {} /\ paged = {} /\ failed = {}
      /\ insideResolve \in Int /\ todo = {} /\ rejects = {} /\ freed \in Nat
  BY DEF Init
<1>6. cleaning \in BOOLEAN
  BY DEF Init
<1> QED
  BY <1>1, <1>2, <1>3, <1>4, <1>5, <1>6 DEF TypeInv, TypeOK

\* A stack of good frames is a stack of frames.
LEMMA GoodIsFrame == ASSUME NEW t \in Seq(GoodFrame) PROVE t \in Seq(Frame)
<1>1. GoodFrame \subseteq Frame
  BY DEF GoodFrame
<1> QED
  BY <1>1, SeqMonotonic

USE DEF treeVars, countVars, listVars, cleanVars

LEMMA TypeAddRef == ASSUME TypeInv, AddRef PROVE TypeInv'
<1> DEFINE c == Top.ctx
<1>0. stack # <<>> /\ Top.op = "AddRef" /\ c \in live /\ c \in Ctx
  BY DEF AddRef, Running, TypeInv, TypeOK
<1>1. stack' \in Seq(GoodFrame)
  <2>1. CASE stack' = Tail(stack)
    BY <1>0, <2>1, GoodTop
  <2>2. CASE TakesParent(c) /\ stack' = <<Call("AddRef", Up[c])>> \o Tail(stack)
    <3>1. Up[c] \in Ctx
      BY <2>2, ParentInTree DEF TakesParent, TypeInv, TypeOK
    <3>2. Call("AddRef", Up[c]) \in GoodFrame
      BY <3>1, GoodCall DEF Op
    <3> QED
      BY <1>0, <2>2, <3>2, GoodTop, GoodStack
  <2> QED
    BY <1>0, <2>1, <2>2 DEF AddRef, Continue, Return
<1>2. refCount' \in [Ctx -> {n \in Int : n <= MaxRefCount}]
  <2>1. refCount[c] \in Int
    BY <1>0 DEF TypeInv, TypeOK
  <2>2. CASE Sticky(c)
    BY <2>2 DEF AddRef, TypeInv, TypeOK
  <2>3. CASE ~Sticky(c)
    <3>1. refCount[c] + 1 \in {n \in Int : n <= MaxRefCount}
      BY <2>1, <2>3, SettingAssumption DEF Sticky
    <3>2. refCount' = [refCount EXCEPT ![c] = refCount[c] + 1]
      BY <2>3 DEF AddRef
    <3> QED
      BY <3>1, <3>2 DEF TypeInv, TypeOK
  <2> QED
    BY <2>2, <2>3
<1>3. holdingParent' \subseteq Ctx \ Roots
  BY <1>0 DEF AddRef, TakesParent, TypeInv, TypeOK
<1>4. weAreInFreeList' \subseteq Ctx /\ freeList' \subseteq Ctx
  BY <1>0 DEF AddRef, RemoveOurselfFromFreeList, TypeInv, TypeOK
<1> QED
  BY <1>1, <1>2, <1>3, <1>4, GoodIsFrame DEF AddRef, TypeInv, TypeOK

LEMMA TypeRelease == ASSUME TypeInv, Release PROVE TypeInv'
<1> DEFINE c == Top.ctx
<1>0. stack # <<>> /\ Top.op = "Release" /\ c \in live /\ c \in Ctx
  BY DEF Release, Running, TypeInv, TypeOK
<1>1. stack' \in Seq(GoodFrame)
  <2>1. Call("TryAdd", c) \in GoodFrame /\ Call("Chain", c) \in GoodFrame
    BY <1>0, GoodCall DEF Op
  <2>2. Tail(stack) \in Seq(GoodFrame)
    BY <1>0, GoodTop
  <2>3. <<Call("TryAdd", c), Call("Chain", c)>> \o Tail(stack) \in Seq(GoodFrame)
    BY <2>1, <2>2, GoodStack
  <2> QED
    BY <2>2, <2>3 DEF Release, Continue, Return
<1>2. refCount' \in [Ctx -> {n \in Int : n <= MaxRefCount}]
  <2>1. refCount[c] \in Int /\ refCount[c] <= MaxRefCount
    BY <1>0 DEF TypeInv, TypeOK
  <2>2. refCount[c] - 1 \in {n \in Int : n <= MaxRefCount}
    BY <2>1, SettingAssumption
  <2>3. refCount' = refCount \/ refCount' = [refCount EXCEPT ![c] = refCount[c] - 1]
    BY DEF Release
  <2> QED
    BY <1>0, <2>2, <2>3, SMTT(30) DEF TypeInv, TypeOK
<1> QED
  BY <1>1, <1>2, GoodIsFrame DEF Release, TypeInv, TypeOK

\* What a cleanUp() that starts with the list fl leaves in its variables.
LEMMA TypeStartCleanUp ==
    ASSUME NEW fl \in SUBSET Ctx, StartCleanUp(fl)
    PROVE  /\ cleaning' \in BOOLEAN
           /\ todo' \subseteq Ctx
           /\ freeList' \subseteq Ctx
           /\ rejects' \subseteq Ctx
           /\ freed' \in Nat
  BY DEF StartCleanUp

LEMMA TypeTryToAdd ==
    ASSUME TypeInv, TryToAddOurselfToFreeList PROVE TypeInv'
<1> DEFINE c == Top.ctx
           fl == freeList \cup {c}
<1>0. stack # <<>> /\ Top.op = "TryAdd" /\ c \in live /\ c \in Ctx
  BY DEF TryToAddOurselfToFreeList, Running, TypeInv, TypeOK
<1>1. stack' \in Seq(GoodFrame)
  <2>1. Call("Clean", NoCtx) \in GoodFrame
    BY GoodCleanCall
  <2> QED
    BY <1>0, <2>1, GoodTop, GoodStack
    DEF TryToAddOurselfToFreeList, Continue, Return
<1>2. fl \in SUBSET Ctx
  BY <1>0 DEF TypeInv, TypeOK
<1>3. /\ weAreInFreeList' \subseteq Ctx
      /\ freeList' \subseteq Ctx
      /\ cleaning' \in BOOLEAN
      /\ todo' \subseteq Ctx
      /\ rejects' \subseteq Ctx
      /\ freed' \in Nat
  <2>1. CASE StartCleanUp(fl)
    BY <1>0, <1>2, <2>1, TypeStartCleanUp
    DEF TryToAddOurselfToFreeList, TypeInv, TypeOK
  <2>2. CASE ~StartCleanUp(fl)
    BY <1>0, <1>2, <2>2 DEF TryToAddOurselfToFreeList, TypeInv, TypeOK
  <2> QED
    BY <2>1, <2>2
<1> QED
  BY <1>1, <1>3, GoodIsFrame DEF TryToAddOurselfToFreeList, TypeInv, TypeOK

LEMMA TypeReleaseParent == ASSUME TypeInv, ReleaseParent PROVE TypeInv'
<1> DEFINE c == Top.ctx
<1>0. stack # <<>> /\ Top.op = "Chain" /\ c \in live /\ c \in Ctx
  BY DEF ReleaseParent, Running, TypeInv, TypeOK
<1>1. stack' \in Seq(GoodFrame)
  <2>1. CASE stack' = Tail(stack)
    BY <1>0, <2>1, GoodTop
  <2>2. CASE /\ c \in parentBound
             /\ stack' = <<Call("Release", Up[c]), Call("Chained", c)>> \o Tail(stack)
    <3>1. Up[c] \in Ctx
      BY <2>2, ParentInTree DEF TypeInv, TypeOK
    <3>2. Call("Release", Up[c]) \in GoodFrame /\ Call("Chained", c) \in GoodFrame
      BY <1>0, <3>1, GoodCall DEF Op
    <3> QED
      BY <1>0, <2>2, <3>2, GoodTop, GoodStack
  <2> QED
    BY <1>0, <2>1, <2>2 DEF ReleaseParent, Continue, Return
<1> QED
  BY <1>1, GoodIsFrame DEF ReleaseParent, TypeInv, TypeOK

LEMMA TypeParentReleased ==
    ASSUME TypeInv, ParentReleased \/ ReturnToFreed PROVE TypeInv'
<1>0. stack # <<>> /\ stack' = Tail(stack)
  BY DEF ParentReleased, ReturnToFreed, Running, Return
<1>1. stack' \in Seq(GoodFrame)
  BY <1>0, GoodTop
<1> QED
  BY <1>1, GoodIsFrame DEF ParentReleased, ReturnToFreed, TypeInv, TypeOK

\* The client's own steps.
LEMMA TypeHandles ==
    ASSUME TypeInv, NEW k \in Ctx, Acquire(k) \/ Drop(k) PROVE TypeInv'
<1>1. Call("AddRef", k) \in GoodFrame /\ Call("Release", k) \in GoodFrame
  BY GoodCall DEF Op
<1>2. stack' \in Seq(GoodFrame)
  BY <1>1, GoodStack DEF Acquire, Drop, TypeInv
<1>3. handles[k] \in Nat
  BY DEF TypeInv, TypeOK
<1>4. handles' \in [Ctx -> Nat]
  <2>1. CASE Acquire(k)
    BY <1>3, <2>1 DEF Acquire, TypeInv, TypeOK
  <2>2. CASE Drop(k)
    <3>1. handles[k] - 1 \in Nat
      BY <1>3, <2>2 DEF Drop
    <3>2. handles' = [handles EXCEPT ![k] = handles[k] - 1]
      BY <2>2 DEF Drop
    <3> QED
      BY <3>1, <3>2 DEF TypeInv, TypeOK
  <2> QED
    BY <2>1, <2>2
<1> QED
  BY <1>2, <1>4, GoodIsFrame DEF Acquire, Drop, TypeInv, TypeOK

LEMMA TypeResolve == ASSUME TypeInv, BeginResolve \/ EndResolve PROVE TypeInv'
<1>1. stack' \in Seq(GoodFrame)
  <2>1. CASE BeginResolve
    <3>1. Call("Resolve", NoCtx) \in GoodFrame
      BY GoodCleanCall
    <3> QED
      BY <2>1, <3>1, GoodStack DEF BeginResolve, TypeInv
  <2>2. CASE EndResolve
    BY <2>2, GoodTop DEF EndResolve, Running, Return
  <2> QED
    BY <2>1, <2>2
<1>2. insideResolve' \in Int
  BY DEF BeginResolve, EndResolve, TypeInv, TypeOK
<1> QED
  BY <1>1, <1>2, GoodIsFrame DEF BeginResolve, EndResolve, TypeInv, TypeOK

\* A context comes into being; its frames are put before those of after.
LEMMA TypeCreate ==
    ASSUME TypeInv, NEW k \in Ctx \ Roots, NEW after \in Seq(GoodFrame), Create(k, after)
    PROVE  /\ stack' \in Seq(GoodFrame)
           /\ live' \subseteq Ctx
           /\ parentBound' \subseteq Ctx \ Roots
           /\ refCount' \in [Ctx -> {n \in Int : n <= MaxRefCount}]
           /\ weAreInFreeList' \subseteq Ctx
           /\ freeList' \subseteq Ctx
           /\ paged' \subseteq Ctx
<1>1. Up[k] \in Ctx
  BY ParentInTree
<1>2. /\ Call("AddRef", Up[k]) \in GoodFrame
      /\ Call("AddRef", k) \in GoodFrame
      /\ Call("Link", k) \in GoodFrame
  BY <1>1, GoodCall DEF Op
<1>3. stack' \in Seq(GoodFrame)
  BY <1>2, GoodStack DEF Create
<1>4. 1 \in {n \in Int : n <= MaxRefCount}
  BY SettingAssumption
<1>5. refCount' \in [Ctx -> {n \in Int : n <= MaxRefCount}]
  BY <1>4 DEF Create, TypeInv, TypeOK
<1> QED
  BY <1>3, <1>5 DEF Create, TypeInv, TypeOK

LEMMA TypeDiscover == ASSUME TypeInv, NEW k \in Ctx, Discover(k) PROVE TypeInv'
<1>1. k \in Ctx \ Roots /\ stack \in Seq(GoodFrame) /\ Create(k, stack)
  BY DEF Discover, TypeInv
<1>2. handles' \in [Ctx -> Nat]
  BY DEF Discover, TypeInv, TypeOK
<1>3. UNCHANGED <<items, numSub, haveReadDir, failed, holdingParent, cleanVars, insideResolve>>
  BY DEF Discover, Create
<1> QED
  BY <1>1, <1>2, <1>3, TypeCreate, GoodIsFrame DEF TypeInv, TypeOK

LEMMA TypeLink == ASSUME TypeInv, Link PROVE TypeInv'
<1> DEFINE c == Top.ctx
<1>0. stack # <<>> /\ Top.op = "Link"
  BY DEF Link, Running
<1>1. c \in Ctx /\ stack' \in Seq(GoodFrame)
  BY <1>0, GoodTop DEF Link, Return
<1>2. Up[c] \in Ctx
  BY DEF Link, TypeInv, TypeOK
<1>3. items' \in [Ctx -> SUBSET Ctx]
  <2>1. items' = [items EXCEPT ![Up[c]] = items[Up[c]] \cup {c}]
    BY DEF Link
  <2>2. items \in [Ctx -> SUBSET Ctx]
    BY DEF TypeInv, TypeOK
  <2> QED
    BY <1>1, <1>2, <2>1, <2>2
<1>4. numSub' \in [Ctx -> Int]
  <2>1. numSub' = [numSub EXCEPT ![Up[c]] = numSub[Up[c]] + 1]
    BY DEF Link
  <2>2. numSub \in [Ctx -> Int]
    BY DEF TypeInv, TypeOK
  <2> QED
    BY <1>1, <1>2, <2>1, <2>2
<1> QED
  BY <1>1, <1>3, <1>4, GoodIsFrame DEF Link, TypeInv, TypeOK

LEMMA TypeRemove == ASSUME TypeInv, NEW k \in Ctx, Remove(k) PROVE TypeInv'
<1>1. PICK d \in Namesakes(Up[k], k) :
        /\ items' = [items EXCEPT ![Up[k]] = @ \ {d}]
        /\ stack' = <<Call("Release", d), Call("Unlist", k)>> \o stack
  BY DEF Remove
<1>2. Up[k] \in Ctx
  BY ParentInTree DEF Remove, TypeInv, TypeOK
<1>3. d \in Ctx
  BY <1>2 DEF Namesakes, TypeInv, TypeOK
<1>4. Call("Release", d) \in GoodFrame /\ Call("Unlist", k) \in GoodFrame
  BY <1>3, GoodCall DEF Op
<1>5. stack' \in Seq(GoodFrame)
  BY <1>1, <1>4, GoodStack DEF TypeInv
<1>6. items' \in [Ctx -> SUBSET Ctx]
  BY <1>1, <1>2 DEF TypeInv, TypeOK
<1> QED
  BY <1>5, <1>6, GoodIsFrame DEF Remove, TypeInv, TypeOK

LEMMA TypeUnlist == ASSUME TypeInv, Unlist PROVE TypeInv'
<1> DEFINE c == Top.ctx
<1>0. stack # <<>> /\ stack' \in Seq(GoodFrame)
  BY GoodTop DEF Unlist, Running, Return
<1>1. numSub' \in [Ctx -> Int]
  <2>1. numSub' = [numSub EXCEPT ![Up[c]] = numSub[Up[c]] - 1]
    BY DEF Unlist
  <2>2. CASE Up[c] \in Ctx
    BY <2>1, <2>2 DEF TypeInv, TypeOK
  <2>3. CASE Up[c] \notin Ctx
    BY <2>1, <2>3 DEF TypeInv, TypeOK
  <2> QED
    BY <2>2, <2>3
<1>2. weAreInFreeList' \subseteq Ctx /\ freeList' \subseteq Ctx
  BY DEF Unlist, TypeInv, TypeOK
<1> QED
  BY <1>0, <1>1, <1>2, GoodIsFrame DEF Unlist, TypeInv, TypeOK

LEMMA TypeStartRead == ASSUME TypeInv, NEW p \in Ctx, StartRead(p) PROVE TypeInv'
<1>1. PICK S \in Listings(p) :
        LET read == [op |-> "Read", ctx |-> p, left |-> S] IN
        \/ /\ StartCleanUp(freeList)
           /\ stack' = <<Call("Clean", NoCtx), read>> \o stack
        \/ stack' = <<read>> \o stack /\ UNCHANGED <<freeList, cleanVars>>
  BY DEF StartRead
<1> DEFINE read == [op |-> "Read", ctx |-> p, left |-> S]
<1>2. read \in GoodFrame /\ Call("Clean", NoCtx) \in GoodFrame
  <2>1. S \subseteq Kids(p) /\ S \subseteq Ctx
    BY DEF Listings, Kids
  <2> QED
    BY <2>1, GoodCleanCall DEF GoodFrame, Frame, Op
<1>3. stack' \in Seq(GoodFrame)
  BY <1>1, <1>2, GoodStack DEF TypeInv
<1>4. /\ cleaning' \in BOOLEAN
      /\ todo' \subseteq Ctx
      /\ freeList' \subseteq Ctx
      /\ rejects' \subseteq Ctx
      /\ freed' \in Nat
  <2>1. CASE StartCleanUp(freeList)
    BY <2>1, TypeStartCleanUp DEF TypeInv, TypeOK
  <2>2. CASE UNCHANGED <<freeList, cleanVars>>
    BY <2>2 DEF TypeInv, TypeOK
  <2> QED
    BY <1>1, <2>1, <2>2
<1>5. numSub' \in [Ctx -> Int] /\ haveReadDir' \subseteq Ctx /\ failed' \subseteq Ctx
  BY DEF StartRead, TypeInv, TypeOK
<1>6. UNCHANGED <<live, items, parentBound, paged, countVars, weAreInFreeList,
                  handles, insideResolve>>
  BY DEF StartRead
<1> QED
  BY <1>3, <1>4, <1>5, <1>6, GoodIsFrame DEF TypeInv, TypeOK

LEMMA TypeReadEntry == ASSUME TypeInv, NEW k \in Ctx, ReadEntry(k) PROVE TypeInv'
<1> DEFINE p    == Top.ctx
           shorter == [Top EXCEPT !.left = @ \ {k}]
           rest == <<shorter>> \o Tail(stack)
<1>0. stack # <<>> /\ Top.op = "Read" /\ k \in Top.left
  BY DEF ReadEntry, Running
<1>1. p \in Ctx /\ Up[k] = p /\ k \in Ctx \ Roots
  <2>1. p \in Ctx /\ Top.left \subseteq Kids(p)
    BY <1>0, GoodTop
  <2> QED
    BY <1>0, <2>1, ParentInTree DEF Kids
<1>2. rest \in Seq(GoodFrame)
  <2>1. shorter \in GoodFrame
    BY <1>0, GoodTop DEF GoodFrame, Frame
  <2> QED
    BY <1>0, <2>1, GoodTop, GoodStack
<1>3. CASE \E d \in Namesakes(p, k) :
             /\ stack' = <<Call("AddRef", d), Call("Release", d)>> \o rest
             /\ UNCHANGED <<treeVars, countVars, listVars>>
  <2>1. PICK d \in Namesakes(p, k) :
             /\ stack' = <<Call("AddRef", d), Call("Release", d)>> \o rest
             /\ UNCHANGED <<treeVars, countVars, listVars>>
    BY <1>3
  <2>2. d \in Ctx
    BY <1>1 DEF Namesakes, TypeInv, TypeOK
  <2>3. Call("AddRef", d) \in GoodFrame /\ Call("Release", d) \in GoodFrame
    BY <2>2, GoodCall DEF Op
  <2>4. stack' \in Seq(GoodFrame)
    BY <1>2, <2>1, <2>3, GoodStack
  <2> QED
    BY <2>1, <2>4, GoodIsFrame DEF ReadEntry, TypeInv, TypeOK
<1>4. CASE Create(k, <<Call("Release", k)>> \o rest)
  <2>1. Call("Release", k) \in GoodFrame
    BY GoodCall DEF Op
  <2>2. <<Call("Release", k)>> \o rest \in Seq(GoodFrame)
    BY <1>2, <2>1, GoodStack
  <2>3. UNCHANGED <<items, numSub, haveReadDir, failed, holdingParent, cleanVars,
                    handles, insideResolve>>
    BY <1>4 DEF ReadEntry, Create
  <2> QED
    BY <1>1, <1>4, <2>2, <2>3, TypeCreate, GoodIsFrame DEF TypeInv, TypeOK
<1>5. CASE stack' = rest /\ UNCHANGED <<treeVars, countVars, listVars>>
  BY <1>2, <1>5, GoodIsFrame DEF ReadEntry, TypeInv, TypeOK
<1> QED
  BY <1>3, <1>4, <1>5 DEF ReadEntry

LEMMA TypeReadDone == ASSUME TypeInv, ReadDone PROVE TypeInv'
<1>1. stack # <<>> /\ stack' \in Seq(GoodFrame) /\ Top.ctx \in Ctx
  BY GoodTop DEF ReadDone, Running, Return
<1>2. Cardinality(items[Top.ctx]) \in Nat
  <2>1. items[Top.ctx] \subseteq Ctx
    BY <1>1 DEF TypeInv, TypeOK
  <2> QED
    BY <2>1, UpAssumption, FS_Subset, FS_CardinalityType
<1>3. numSub' \in [Ctx -> Int]
  BY <1>1, <1>2 DEF ReadDone, TypeInv, TypeOK
<1> QED
  BY <1>1, <1>3, GoodIsFrame DEF ReadDone, TypeInv, TypeOK

LEMMA TypeReadFails == ASSUME TypeInv, ReadFails PROVE TypeInv'
<1>1. stack # <<>> /\ stack' \in Seq(GoodFrame) /\ Top.ctx \in Ctx
  BY GoodTop DEF ReadFails, Running, Return
<1>2. failed' \subseteq Ctx
  BY <1>1 DEF ReadFails, TypeInv, TypeOK
<1> QED
  BY <1>1, <1>2, GoodIsFrame DEF ReadFails, TypeInv, TypeOK

LEMMA TypeCleanUp == ASSUME TypeInv, CleanUp PROVE TypeInv'
<1>1. Call("Clean", NoCtx) \in GoodFrame /\ <<>> \in Seq(GoodFrame)
  BY GoodCleanCall
<1>2. stack' \in Seq(GoodFrame)
  BY <1>1 DEF CleanUp
<1>3. /\ cleaning' \in BOOLEAN
      /\ todo' \subseteq Ctx
      /\ freeList' \subseteq Ctx
      /\ rejects' \subseteq Ctx
      /\ freed' \in Nat
  BY TypeStartCleanUp DEF CleanUp, TypeInv, TypeOK
<1>4. UNCHANGED <<treeVars, countVars, weAreInFreeList, handles, insideResolve>>
  BY DEF CleanUp
<1> QED
  BY <1>2, <1>3, <1>4, GoodIsFrame DEF TypeInv, TypeOK

LEMMA TypeCleanUpSkip ==
    ASSUME TypeInv, NEW k \in Ctx, CleanUpSkip(k) PROVE TypeInv'
<1>1. /\ todo' \subseteq Ctx
      /\ weAreInFreeList' \subseteq Ctx
      /\ rejects' \subseteq Ctx
  BY DEF CleanUpSkip, TakeNext, TypeInv, TypeOK
<1>2. UNCHANGED <<treeVars, countVars, freeList, cleaning, freed, handles,
                  insideResolve, stack>>
  BY DEF CleanUpSkip
<1> QED
  BY <1>1, <1>2 DEF TypeInv, TypeOK

\* The frames of a reclaim: the namesakes that lose their handle in Items, the
\* parent's handle, the delete.
LEMMA TypeReclaim == ASSUME TypeInv, NEW k \in Ctx, Reclaim(k) PROVE TypeInv'
<1> DEFINE p    == Up[k]
           rest == <<Call("Release", p), Call("Delete", k)>> \o stack
<1>1. p \in Ctx
  BY DEF Reclaim, TypeInv, TypeOK
<1>2. /\ Call("Release", p) \in GoodFrame
      /\ Call("Delete", k) \in GoodFrame
  BY <1>1, GoodCall DEF Op
<1>3. rest \in Seq(GoodFrame)
  BY <1>2, GoodStack DEF TypeInv
<1>4. stack' \in Seq(GoodFrame)
  <2>1. CASE stack' = rest
    BY <1>3, <2>1
  <2>2. CASE \E d \in Namesakes(p, k) \ {k} : stack' = <<Call("Release", d)>> \o rest
    <3>1. PICK d \in Namesakes(p, k) \ {k} : stack' = <<Call("Release", d)>> \o rest
      BY <2>2
    <3>2. d \in Ctx
      BY <1>1 DEF Namesakes, TypeInv, TypeOK
    <3>3. Call("Release", d) \in GoodFrame
      BY <3>2, GoodCall DEF Op
    <3> QED
      BY <1>3, <3>1, <3>3, GoodStack
  <2> QED
    BY <2>1, <2>2 DEF Reclaim
<1>5. items' \in [Ctx -> SUBSET Ctx]
  <2>1. items' = [items EXCEPT ![p] = items[p] \ Namesakes(p, k)]
    BY DEF Reclaim
  <2> QED
    BY <1>1, <2>1 DEF TypeInv, TypeOK
<1>6. /\ parentBound' \subseteq Ctx \ Roots
      /\ weAreInFreeList' \subseteq Ctx
      /\ freeList' \subseteq Ctx
      /\ todo' \subseteq Ctx
      /\ paged' \subseteq Ctx
  BY DEF Reclaim, TakeNext, TypeInv, TypeOK
<1>7. freed' \in Nat
  BY DEF Reclaim, TypeInv, TypeOK
<1>8. UNCHANGED <<live, numSub, haveReadDir, countVars, cleaning, rejects,
                  failed, handles, insideResolve>>
  BY DEF Reclaim
<1> QED
  BY <1>4, <1>5, <1>6, <1>7, <1>8, GoodIsFrame DEF TypeInv, TypeOK

LEMMA TypeDelete == ASSUME TypeInv, Delete PROVE TypeInv'
<1> DEFINE c == Top.ctx
<1>1. stack # <<>> /\ stack' \in Seq(GoodFrame) /\ c \in Ctx
  BY GoodTop DEF Delete, Running, Return
<1>2. 0 \in {n \in Int : n <= MaxRefCount} /\ 0 \in Int
  BY SettingAssumption
<1>3. refCount' = [refCount EXCEPT ![c] = 0] /\ numSub' = [numSub EXCEPT ![c] = 0]
  BY DEF Delete
<1>4. /\ refCount' \in [Ctx -> {n \in Int : n <= MaxRefCount}]
      /\ numSub' \in [Ctx -> Int]
  BY <1>1, <1>2, <1>3 DEF TypeInv, TypeOK
<1>5. /\ live' \subseteq Ctx
      /\ holdingParent' \subseteq Ctx \ Roots
      /\ weAreInFreeList' \subseteq Ctx
      /\ freeList' \subseteq Ctx
      /\ haveReadDir' \subseteq Ctx
      /\ failed' \subseteq Ctx
  BY DEF Delete, TypeInv, TypeOK
<1>6. UNCHANGED <<items, parentBound, paged, cleanVars, handles, insideResolve>>
  BY DEF Delete
<1> QED
  BY <1>1, <1>4, <1>5, <1>6, GoodIsFrame DEF TypeInv, TypeOK

LEMMA TypeCleanUpDone == ASSUME TypeInv, CleanUpDone PROVE TypeInv'
<1>1. stack # <<>> /\ stack' \in Seq(GoodFrame)
  BY GoodTop DEF CleanUpDone, Running, Return
<1>2. /\ freeList' \subseteq Ctx /\ todo' \subseteq Ctx /\ rejects' \subseteq Ctx
      /\ freed' \in Nat /\ cleaning' \in BOOLEAN
  BY DEF CleanUpDone, TypeInv, TypeOK
<1>3. UNCHANGED <<treeVars, countVars, weAreInFreeList, handles, insideResolve>>
  BY DEF CleanUpDone
<1> QED
  BY <1>1, <1>2, <1>3, GoodIsFrame DEF TypeInv, TypeOK

LEMMA TypeStep == TypeInv /\ [Next]_vars => TypeInv'
<1> SUFFICES ASSUME TypeInv, [Next]_vars PROVE TypeInv'
  OBVIOUS
<1>1. CASE LibraryStep
  BY <1>1, TypeAddRef, TypeRelease, TypeTryToAdd, TypeReleaseParent,
     TypeParentReleased, TypeLink, TypeUnlist, TypeReadEntry, TypeReadDone,
     TypeReadFails, TypeCleanUpSkip, TypeReclaim, TypeDelete, TypeCleanUpDone
  DEF LibraryStep
<1>2. CASE ClientStep
  BY <1>2, TypeHandles, TypeResolve, TypeDiscover, TypeRemove, TypeStartRead,
     TypeCleanUp
  DEF ClientStep
<1>3. CASE UNCHANGED vars
  BY <1>3 DEF vars, TypeInv, TypeOK
<1> QED
  BY <1>1, <1>2, <1>3 DEF Next

\* The variables keep the types of their C++ counterparts, and no reference
\* count passes MAX_REF_COUNT.
THEOREM TypeCorrect == Spec => []TypeOK
<1>1. Spec => []TypeInv
  BY TypeInit, TypeStep, PTL DEF Spec
<1>2. TypeInv => TypeOK
  BY DEF TypeInv
<1> QED
  BY <1>1, <1>2, PTL

-----------------------------------------------------------------------------
(***************************************************************************)
(* The free list.                                                          *)
(***************************************************************************)

\* The calls a cleanUp() makes.
Inner == {"Release", "TryAdd", "Chain", "Chained", "Delete"}

\* A cleanUp() in progress is one frame with the calls it makes on top; what
\* is below it started before, and deletes nothing.  No context of T, which
\* will be what the cleanUp() has in its hands, is about to be deleted.
StackShape(s, cl, T) ==
    /\ cl => \E k \in 1..Len(s) :
                /\ s[k].op = "Clean"
                /\ \A i \in 1..k - 1 : s[i].op \in Inner
                /\ \A i \in k + 1..Len(s) : s[i].op \notin {"Clean", "Delete"}
    /\ ~cl => \A i \in 1..Len(s) : s[i].op \notin {"Clean", "Delete"}
    /\ \A i \in 1..Len(s) : s[i].op = "Delete" => s[i].ctx \notin T

ListInv ==
    /\ weAreInFreeList = freeList \cup todo \cup rejects
    /\ freeList \cap todo = {}
    /\ freeList \cap rejects = {}
    /\ todo \cap rejects = {}
    /\ ~cleaning => todo = {} /\ rejects = {}
    /\ FreeListIsLive
    /\ StackShape(stack, cleaning, todo \cup rejects)

\* What the top frame says of the cleanUp().
LEMMA ShapeTop ==
    ASSUME NEW t \in Seq(GoodFrame), NEW cl \in BOOLEAN, NEW T, StackShape(t, cl, T)
    PROVE  /\ cl => t # <<>> /\ Head(t).op \in Inner \cup {"Clean"}
           /\ t # <<>> /\ Head(t).op = "Clean" => cl
           /\ t # <<>> /\ Head(t).op = "Delete" => cl /\ Head(t).ctx \notin T
<1>1. CASE cl
  <2>1. PICK k \in 1..Len(t) : /\ t[k].op = "Clean"
                               /\ \A i \in 1..k - 1 : t[i].op \in Inner
    BY <1>1 DEF StackShape
  <2>2. t # <<>> /\ Head(t) = t[1] /\ 1 \in 1..Len(t) /\ (k = 1 \/ 1 \in 1..k - 1)
    BY <2>1, Pop
  <2>3. Head(t).op \in Inner \cup {"Clean"}
    BY <2>1, <2>2
  <2>4. Head(t).op = "Delete" => Head(t).ctx \notin T
    BY <2>2 DEF StackShape
  <2> QED
    BY <1>1, <2>2, <2>3, <2>4
<1>2. CASE ~cl
  <2>1. t # <<>> => Head(t) = t[1] /\ 1 \in 1..Len(t)
    BY Pop
  <2> QED
    BY <1>2, <2>1 DEF StackShape
<1> QED
  BY <1>1, <1>2

\* A call other than cleanUp() is started, a delete only by a cleanUp().
LEMMA ShapePush ==
    ASSUME NEW t \in Seq(GoodFrame), NEW cl \in BOOLEAN, NEW T, StackShape(t, cl, T),
           NEW f \in GoodFrame, f.op # "Clean", cl => f.op \in Inner,
           f.op = "Delete" => cl /\ f.ctx \notin T
    PROVE  StackShape(<<f>> \o t, cl, T)
<1> DEFINE u == <<f>> \o t
<1>0. /\ Len(u) = Len(t) + 1 /\ u[1] = f
      /\ \A i \in 2..Len(t) + 1 : u[i] = t[i - 1]
      /\ Len(t) \in Nat
  BY Push
<1> HIDE DEF u
<1>1. ASSUME cl
      PROVE  \E k \in 1..Len(u) :
                /\ u[k].op = "Clean"
                /\ \A i \in 1..k - 1 : u[i].op \in Inner
                /\ \A i \in k + 1..Len(u) : u[i].op \notin {"Clean", "Delete"}
  <2>1. PICK k \in 1..Len(t) :
                /\ t[k].op = "Clean"
                /\ \A i \in 1..k - 1 : t[i].op \in Inner
                /\ \A i \in k + 1..Len(t) : t[i].op \notin {"Clean", "Delete"}
    BY <1>1 DEF StackShape
  <2>2. k + 1 \in 1..Len(u) /\ u[k + 1].op = "Clean"
    BY <1>0, <2>1
  <2>3. \A i \in 1..(k + 1) - 1 : u[i].op \in Inner
    <3> TAKE i \in 1..(k + 1) - 1
    <3>1. CASE i = 1
      BY <1>0, <1>1, <3>1
    <3>2. CASE i # 1
      BY <1>0, <2>1, <3>2
    <3> QED
      BY <3>1, <3>2
  <2>4. \A i \in (k + 1) + 1..Len(u) : u[i].op \notin {"Clean", "Delete"}
    BY <1>0, <2>1
  <2> QED
    BY <2>2, <2>3, <2>4
<1>2. ASSUME ~cl, NEW i \in 1..Len(u) PROVE u[i].op \notin {"Clean", "Delete"}
  <2>1. i = 1 \/ (i \in 2..Len(t) + 1 /\ i - 1 \in 1..Len(t))
    BY <1>0
  <2> QED
    BY <1>0, <1>2, <2>1 DEF StackShape
<1>3. ASSUME NEW i \in 1..Len(u), u[i].op = "Delete" PROVE u[i].ctx \notin T
  <2>1. i = 1 \/ (i \in 2..Len(t) + 1 /\ i - 1 \in 1..Len(t))
    BY <1>0
  <2> QED
    BY <1>0, <1>3, <2>1 DEF StackShape
<1> QED
  BY <1>1, <1>2, <1>3 DEF StackShape, u

\* A cleanUp() starts.
LEMMA ShapePushClean ==
    ASSUME NEW t \in Seq(GoodFrame), NEW T0, NEW T, StackShape(t, FALSE, T0),
           NEW f \in GoodFrame, f.op = "Clean"
    PROVE  StackShape(<<f>> \o t, TRUE, T)
<1> DEFINE u == <<f>> \o t
<1>0. /\ Len(u) = Len(t) + 1 /\ u[1] = f
      /\ \A i \in 2..Len(t) + 1 : u[i] = t[i - 1]
      /\ Len(t) \in Nat
  BY Push
<1> HIDE DEF u
<1>1. \A i \in 1 + 1..Len(u) : u[i].op \notin {"Clean", "Delete"}
  <2> TAKE i \in 1 + 1..Len(u)
  <2>1. i \in 2..Len(t) + 1 /\ i - 1 \in 1..Len(t)
    BY <1>0
  <2> QED
    BY <1>0, <2>1 DEF StackShape
<1>2. 1 \in 1..Len(u) /\ u[1].op = "Clean" /\ \A i \in 1..1 - 1 : u[i].op \in Inner
  BY <1>0
<1>3. \A i \in 1..Len(u) : u[i].op # "Delete"
  BY <1>0, <1>1
<1> QED
  BY <1>1, <1>2, <1>3 DEF StackShape, u

\* A call returns.
LEMMA ShapePop ==
    ASSUME NEW t \in Seq(GoodFrame), NEW cl \in BOOLEAN, NEW T, StackShape(t, cl, T),
           t # <<>>, Head(t).op # "Clean"
    PROVE  StackShape(Tail(t), cl, T)
<1> DEFINE u == Tail(t)
<1>0. /\ Len(t) \in Nat /\ Len(t) > 0 /\ Len(u) = Len(t) - 1 /\ Head(t) = t[1]
      /\ \A i \in 1..Len(t) - 1 : u[i] = t[i + 1]
  BY Pop
<1> HIDE DEF u
<1>1. ASSUME cl
      PROVE  \E k \in 1..Len(u) :
                /\ u[k].op = "Clean"
                /\ \A i \in 1..k - 1 : u[i].op \in Inner
                /\ \A i \in k + 1..Len(u) : u[i].op \notin {"Clean", "Delete"}
  <2>1. PICK k \in 1..Len(t) :
                /\ t[k].op = "Clean"
                /\ \A i \in 1..k - 1 : t[i].op \in Inner
                /\ \A i \in k + 1..Len(t) : t[i].op \notin {"Clean", "Delete"}
    BY <1>1 DEF StackShape
  <2>2. k # 1
    BY <1>0, <2>1
  <2>3. k - 1 \in 1..Len(u) /\ u[k - 1].op = "Clean"
    BY <1>0, <2>1, <2>2
  <2>4. \A i \in 1..(k - 1) - 1 : u[i].op \in Inner
    BY <1>0, <2>1, <2>2
  <2>5. \A i \in (k - 1) + 1..Len(u) : u[i].op \notin {"Clean", "Delete"}
    BY <1>0, <2>1, <2>2
  <2> QED
    BY <2>3, <2>4, <2>5
<1>2. \A i \in 1..Len(u) : u[i] = t[i + 1] /\ i + 1 \in 1..Len(t)
  BY <1>0
<1>3. ~cl => \A i \in 1..Len(u) : u[i].op \notin {"Clean", "Delete"}
  BY <1>2 DEF StackShape
<1>4. \A i \in 1..Len(u) : u[i].op = "Delete" => u[i].ctx \notin T
  BY <1>2 DEF StackShape
<1> QED
  BY <1>1, <1>3, <1>4 DEF StackShape, u

\* The cleanUp() returns: nothing of it is left.
LEMMA ShapePopClean ==
    ASSUME NEW t \in Seq(GoodFrame), NEW T0, NEW T, StackShape(t, TRUE, T0),
           t # <<>>, Head(t).op = "Clean"
    PROVE  StackShape(Tail(t), FALSE, T)
<1> DEFINE u == Tail(t)
<1>0. /\ Len(t) \in Nat /\ Len(t) > 0 /\ Len(u) = Len(t) - 1 /\ Head(t) = t[1]
      /\ \A i \in 1..Len(t) - 1 : u[i] = t[i + 1]
  BY Pop
<1> HIDE DEF u
<1>1. PICK k \in 1..Len(t) :
                /\ \A i \in 1..k - 1 : t[i].op \in Inner
                /\ \A i \in k + 1..Len(t) : t[i].op \notin {"Clean", "Delete"}
  BY DEF StackShape
<1>2. k = 1
  <2>1. k # 1 => 1 \in 1..k - 1
    OBVIOUS
  <2> QED
    BY <1>0, <1>1, <2>1 DEF Inner
<1>3. \A i \in 1..Len(u) : u[i].op \notin {"Clean", "Delete"}
  BY <1>0, <1>1, <1>2
<1> QED
  BY <1>3 DEF StackShape, u

\* What the cleanUp() has in its hands shrinks.
LEMMA ShapeShrink ==
    ASSUME NEW t, NEW cl, NEW T0, NEW T \in SUBSET T0, StackShape(t, cl, T0)
    PROVE  StackShape(t, cl, T)
  BY DEF StackShape

\* Two and three calls at once.
LEMMA ShapePush2 ==
    ASSUME NEW t \in Seq(GoodFrame), NEW cl \in BOOLEAN, NEW T, StackShape(t, cl, T),
           NEW f \in GoodFrame, f.op \notin {"Clean", "Delete"}, cl => f.op \in Inner,
           NEW g \in GoodFrame, g.op # "Clean", cl => g.op \in Inner,
           g.op = "Delete" => cl /\ g.ctx \notin T
    PROVE  StackShape(<<f, g>> \o t, cl, T)
<1>1. StackShape(<<g>> \o t, cl, T) /\ <<g>> \o t \in Seq(GoodFrame)
  BY ShapePush, Push
<1>2. StackShape(<<f>> \o (<<g>> \o t), cl, T)
  BY <1>1, ShapePush
<1>3. <<f, g>> \o t = <<f>> \o (<<g>> \o t)
  BY Push2, SMTT(30)
<1> QED
  BY <1>2, <1>3

LEMMA ShapePush3 ==
    ASSUME NEW t \in Seq(GoodFrame), NEW T, StackShape(t, FALSE, T),
           NEW f \in GoodFrame, f.op \notin {"Clean", "Delete"},
           NEW g \in GoodFrame, g.op \notin {"Clean", "Delete"},
           NEW h \in GoodFrame, h.op \notin {"Clean", "Delete"}
    PROVE  StackShape(<<f, g, h>> \o t, FALSE, T)
<1>1. StackShape(<<g, h>> \o t, FALSE, T) /\ <<g, h>> \o t \in Seq(GoodFrame)
  BY ShapePush2, GoodStack
<1>2. StackShape(<<f>> \o (<<g, h>> \o t), FALSE, T)
  BY <1>1, ShapePush
<1>3. <<f>> \in Seq(GoodFrame) /\ <<g, h>> \in Seq(GoodFrame)
  OBVIOUS
<1>4. (<<f>> \o <<g, h>>) \o t = <<f>> \o (<<g, h>> \o t)
  BY <1>3, ConcatAssociative
<1>5. <<f, g, h>> = <<f>> \o <<g, h>>
  OBVIOUS
<1> QED
  BY <1>2, <1>4, <1>5

LEMMA CallFields ==
    ASSUME NEW op, NEW c
    PROVE  Call(op, c).op = op /\ Call(op, c).ctx = c
  BY DEF Call

\* The stack of a state, and what its top says.
LEMMA ListTop ==
    ASSUME TypeInv, ListInv
    PROVE  /\ stack \in Seq(GoodFrame)
           /\ cleaning \in BOOLEAN
           /\ StackShape(stack, cleaning, todo \cup rejects)
           /\ cleaning => stack # <<>> /\ Top.op \in Inner \cup {"Clean"}
           /\ stack # <<>> /\ Top.op = "Clean" => cleaning
           /\ stack # <<>> /\ Top.op = "Delete" =>
                cleaning /\ Top.ctx \notin todo \cup rejects
<1>1. /\ stack \in Seq(GoodFrame)
      /\ cleaning \in BOOLEAN
      /\ StackShape(stack, cleaning, todo \cup rejects)
  BY DEF TypeInv, TypeOK, ListInv
<1> QED
  BY <1>1, ShapeTop DEF Top

\* While the client has its turn no cleanUp() is in progress.
LEMMA ClientIsIdle ==
    ASSUME TypeInv, ListInv, ClientTurn PROVE cleaning = FALSE
  BY ListTop DEF ClientTurn, Inner

\* After a call returns.
LEMMA ListPop ==
    ASSUME TypeInv, ListInv, stack # <<>>, Top.op # "Clean"
    PROVE  StackShape(Tail(stack), cleaning, todo \cup rejects)
  BY ListTop, ShapePop DEF Top

\* A step that leaves the lists, and the contexts in memory, as they are.
LEMMA ListNeutral ==
    ASSUME ListInv, UNCHANGED <<weAreInFreeList, freeList, todo, rejects, cleaning, live>>,
           StackShape(stack', cleaning, todo \cup rejects)
    PROVE  ListInv'
  BY DEF ListInv, FreeListIsLive

\* The steps of a Release() that do not touch the free list.
LEMMA ListRelease ==
    ASSUME TypeInv, ListInv, Release PROVE ListInv'
<1> DEFINE c == Top.ctx
           f == Call("TryAdd", c)
           g == Call("Chain", c)
<1>0. stack # <<>> /\ Top.op = "Release" /\ c \in Ctx
  BY DEF Release, Running, TypeInv, TypeOK
<1>1. f \in GoodFrame /\ g \in GoodFrame
  BY <1>0, GoodCall DEF Op
<1>2. StackShape(stack', cleaning, todo \cup rejects)
  <2>1. CASE stack' = Tail(stack)
    BY <1>0, <2>1, ListPop
  <2>2. CASE stack' = <<f, g>> \o Tail(stack)
    <3>1. f.op \in Inner /\ f.op \notin {"Clean", "Delete"}
      BY CallFields DEF Inner
    <3>2. g.op \in Inner /\ g.op \notin {"Clean", "Delete"}
      BY CallFields DEF Inner
    <3> QED
      BY <1>0, <1>1, <2>2, <3>1, <3>2, ListPop, ListTop, GoodTop, ShapePush2
  <2> QED
    BY <2>1, <2>2 DEF Release, Continue, Return
<1> QED
  BY <1>2, ListNeutral DEF Release

LEMMA ListReleaseParent ==
    ASSUME TypeInv, ListInv, ReleaseParent PROVE ListInv'
<1> DEFINE c == Top.ctx
           f == Call("Release", Up[c])
           g == Call("Chained", c)
<1>0. stack # <<>> /\ Top.op = "Chain" /\ c \in Ctx
  BY DEF ReleaseParent, Running, TypeInv, TypeOK
<1>2. StackShape(stack', cleaning, todo \cup rejects)
  <2>1. CASE stack' = Tail(stack)
    BY <1>0, <2>1, ListPop
  <2>2. CASE c \in parentBound /\ stack' = <<f, g>> \o Tail(stack)
    <3>0. Up[c] \in Ctx
      BY <2>2, ParentInTree DEF TypeInv, TypeOK
    <3>1. f \in GoodFrame /\ g \in GoodFrame
      BY <1>0, <3>0, GoodCall DEF Op
    <3>2. f.op \in Inner /\ f.op \notin {"Clean", "Delete"}
      BY CallFields DEF Inner
    <3>3. g.op \in Inner /\ g.op \notin {"Clean", "Delete"}
      BY CallFields DEF Inner
    <3> QED
      BY <1>0, <2>2, <3>1, <3>2, <3>3, ListPop, ListTop, GoodTop, ShapePush2
  <2> QED
    BY <2>1, <2>2 DEF ReleaseParent, Continue, Return
<1> QED
  BY <1>2, ListNeutral DEF ReleaseParent

\* The steps that return and touch neither the lists nor the contexts.
LEMMA ListReturn ==
    ASSUME TypeInv, ListInv,
           ParentReleased \/ ReturnToFreed \/ Link \/ ReadDone \/ ReadFails \/ EndResolve
    PROVE  ListInv'
<1>1. stack # <<>> /\ Top.op # "Clean" /\ stack' = Tail(stack)
  BY DEF ParentReleased, ReturnToFreed, Link, ReadDone, ReadFails, EndResolve, Running,
         Return
<1>2. StackShape(stack', cleaning, todo \cup rejects)
  BY <1>1, ListPop
<1> QED
  BY <1>2, ListNeutral
  DEF ParentReleased, ReturnToFreed, Link, ReadDone, ReadFails, EndResolve

\* A step outside a cleanUp() that changes the lists by the flag.
LEMMA ListIdle ==
    ASSUME TypeInv, ListInv, cleaning = FALSE, UNCHANGED cleanVars,
           weAreInFreeList' = freeList', freeList' \subseteq live',
           StackShape(stack', FALSE, todo \cup rejects)
    PROVE  ListInv'
  BY DEF ListInv, FreeListIsLive

\* Outside a cleanUp() the list and the flags agree.
LEMMA ListAgree ==
    ASSUME ListInv, cleaning = FALSE
    PROVE  weAreInFreeList = freeList /\ freeList \subseteq live
  BY DEF ListInv, FreeListIsLive

LEMMA ListAddRef == ASSUME TypeInv, ListInv, AddRef PROVE ListInv'
<1> DEFINE c == Top.ctx
           f == Call("AddRef", Up[c])
<1>0. stack # <<>> /\ Top.op = "AddRef" /\ c \in Ctx
  BY DEF AddRef, Running, TypeInv, TypeOK
<1>1. cleaning = FALSE
  BY <1>0, ListTop DEF Inner
<1>2. StackShape(stack', FALSE, todo \cup rejects)
  <2>0. StackShape(Tail(stack), FALSE, todo \cup rejects)
    BY <1>0, <1>1, ListPop
  <2>1. CASE stack' = Tail(stack)
    BY <2>0, <2>1
  <2>2. CASE TakesParent(c) /\ stack' = <<f>> \o Tail(stack)
    <3>1. Up[c] \in Ctx
      BY <2>2, ParentInTree DEF TakesParent, TypeInv, TypeOK
    <3>2. f \in GoodFrame
      BY <3>1, GoodCall DEF Op
    <3>3. f.op \notin {"Clean", "Delete"}
      BY CallFields
    <3> QED
      BY <1>0, <2>0, <2>2, <3>2, <3>3, GoodTop, ShapePush
  <2> QED
    BY <2>1, <2>2 DEF AddRef, Continue, Return
<1>3. weAreInFreeList' = freeList' /\ freeList' \subseteq freeList
  BY <1>1, ListAgree DEF AddRef, RemoveOurselfFromFreeList
<1>4. UNCHANGED <<cleanVars, live>>
  BY DEF AddRef
<1> QED
  BY <1>1, <1>2, <1>3, <1>4, ListAgree, ListIdle

\* A cleanUp() that starts with the list fl has it in its hands.
LEMMA ListStart ==
    ASSUME TypeInv, ListInv, cleaning = FALSE, NEW fl, StartCleanUp(fl),
           weAreInFreeList' = fl, fl \subseteq live, UNCHANGED live,
           StackShape(stack', TRUE, fl)
    PROVE  ListInv'
<1>1. /\ cleaning' = TRUE /\ todo' = fl /\ freeList' = {} /\ rejects' = {}
  BY DEF StartCleanUp
<1>2. todo' \cup rejects' = fl
  BY <1>1
<1> QED
  BY <1>1, <1>2 DEF ListInv, FreeListIsLive

LEMMA ListTryToAdd ==
    ASSUME TypeInv, ListInv, TryToAddOurselfToFreeList PROVE ListInv'
<1> DEFINE c  == Top.ctx
           fl == freeList \cup {c}
           f  == Call("Clean", NoCtx)
<1>0. stack # <<>> /\ Top.op = "TryAdd" /\ c \in live /\ UNCHANGED live
  BY DEF TryToAddOurselfToFreeList, Running
<1>1. StackShape(Tail(stack), cleaning, todo \cup rejects)
  BY <1>0, ListPop
<1>2. CASE c \in weAreInFreeList \/ c \notin parentBound
  BY <1>1, <1>2, ListNeutral DEF TryToAddOurselfToFreeList, Return
<1>3. CASE ~(c \in weAreInFreeList \/ c \notin parentBound) /\ stack' = Tail(stack)
           /\ UNCHANGED cleanVars /\ freeList' = fl
  <2>1. weAreInFreeList' = weAreInFreeList \cup {c} /\ c \notin weAreInFreeList
    BY <1>3 DEF TryToAddOurselfToFreeList
  <2> QED
    BY <1>0, <1>1, <1>3, <2>1 DEF ListInv, FreeListIsLive
<1>4. CASE /\ ~(c \in weAreInFreeList \/ c \notin parentBound)
           /\ CleanUpRuns(FALSE, fl) /\ StartCleanUp(fl)
           /\ stack' = <<f>> \o Tail(stack)
  <2>1. cleaning = FALSE
    BY <1>4, ListTop DEF CleanUpRuns
  <2>2. weAreInFreeList' = weAreInFreeList \cup {c}
    BY <1>4 DEF TryToAddOurselfToFreeList
  <2>3. weAreInFreeList' = fl /\ fl \subseteq live
    BY <1>0, <2>1, <2>2, ListAgree
  <2>4. f \in GoodFrame /\ f.op = "Clean"
    BY GoodCleanCall, CallFields
  <2>5. StackShape(stack', TRUE, fl)
    BY <1>0, <1>1, <1>4, <2>1, <2>4, GoodTop, ShapePushClean
  <2> QED
    BY <1>0, <1>4, <2>1, <2>3, <2>5, ListStart
<1> QED
  BY <1>2, <1>3, <1>4 DEF TryToAddOurselfToFreeList, Continue, Return

LEMMA ListHandles ==
    ASSUME TypeInv, ListInv, NEW k \in Ctx, Acquire(k) \/ Drop(k) PROVE ListInv'
<1> DEFINE f == Call("AddRef", k)
           g == Call("Release", k)
<1>1. cleaning = FALSE
  BY ClientIsIdle DEF Acquire, Drop
<1>2. f \in GoodFrame /\ f.op \notin {"Clean", "Delete"}
  BY GoodCall, CallFields DEF Op
<1>3. g \in GoodFrame /\ g.op \notin {"Clean", "Delete"}
  BY GoodCall, CallFields DEF Op
<1>4. stack' = <<f>> \o stack \/ stack' = <<g>> \o stack
  BY DEF Acquire, Drop
<1>5. StackShape(stack', cleaning, todo \cup rejects)
  BY <1>1, <1>2, <1>3, <1>4, ListTop, ShapePush
<1> QED
  BY <1>5, ListNeutral DEF Acquire, Drop

LEMMA ListBeginResolve ==
    ASSUME TypeInv, ListInv, BeginResolve PROVE ListInv'
<1> DEFINE f == Call("Resolve", NoCtx)
<1>1. cleaning = FALSE
  BY ClientIsIdle DEF BeginResolve
<1>2. f \in GoodFrame /\ f.op \notin {"Clean", "Delete"}
  BY GoodCleanCall, CallFields
<1>3. StackShape(stack', cleaning, todo \cup rejects)
  BY <1>1, <1>2, ListTop, ShapePush DEF BeginResolve
<1> QED
  BY <1>3, ListNeutral DEF BeginResolve

LEMMA ListRemove ==
    ASSUME TypeInv, ListInv, NEW k \in Ctx, Remove(k) PROVE ListInv'
<1>1. cleaning = FALSE
  BY ClientIsIdle DEF Remove
<1>2. PICK d \in Namesakes(Up[k], k) :
        stack' = <<Call("Release", d), Call("Unlist", k)>> \o stack
  BY DEF Remove
<1> DEFINE f == Call("Release", d)
           g == Call("Unlist", k)
<1>3. d \in Ctx
  <2>1. Up[k] \in Ctx
    BY ParentInTree DEF Remove, TypeInv, TypeOK
  <2> QED
    BY <2>1 DEF Namesakes, TypeInv, TypeOK
<1>4. f \in GoodFrame /\ f.op \notin {"Clean", "Delete"}
  BY <1>3, GoodCall, CallFields DEF Op
<1>5. g \in GoodFrame /\ g.op \notin {"Clean", "Delete"}
  BY GoodCall, CallFields DEF Op
<1>6. StackShape(stack', cleaning, todo \cup rejects)
  BY <1>1, <1>2, <1>4, <1>5, ListTop, ShapePush2
<1> QED
  BY <1>6, ListNeutral DEF Remove

LEMMA ListUnlist == ASSUME TypeInv, ListInv, Unlist PROVE ListInv'
<1>0. stack # <<>> /\ Top.op = "Unlist" /\ stack' = Tail(stack)
  BY DEF Unlist, Running, Return
<1>1. cleaning = FALSE
  BY <1>0, ListTop DEF Inner
<1>2. StackShape(stack', FALSE, todo \cup rejects)
  BY <1>0, <1>1, ListPop
<1>3. weAreInFreeList' = freeList' /\ freeList' \subseteq freeList
  BY <1>1, ListAgree DEF Unlist
<1>4. UNCHANGED <<cleanVars, live>>
  BY DEF Unlist
<1> QED
  BY <1>1, <1>2, <1>3, <1>4, ListAgree, ListIdle

\* A new context starts on the free list, with the flag.
LEMMA ListCreate ==
    ASSUME TypeInv, ListInv, cleaning = FALSE, NEW k \in Ctx \ Roots,
           NEW after \in Seq(GoodFrame), StackShape(after, FALSE, todo \cup rejects),
           Create(k, after), UNCHANGED cleanVars
    PROVE  ListInv'
<1> DEFINE f == Call("AddRef", Up[k])
           g == Call("AddRef", k)
           h == Call("Link", k)
<1>1. f \in GoodFrame /\ f.op \notin {"Clean", "Delete"}
  BY ParentInTree, GoodCall, CallFields DEF Op
<1>2. g \in GoodFrame /\ g.op \notin {"Clean", "Delete"}
  BY GoodCall, CallFields DEF Op
<1>3. h \in GoodFrame /\ h.op \notin {"Clean", "Delete"}
  BY GoodCall, CallFields DEF Op
<1>4. stack' = <<f, g, h>> \o after
  BY DEF Create
<1>5. StackShape(stack', FALSE, todo \cup rejects)
  BY <1>1, <1>2, <1>3, <1>4, ShapePush3
<1>6. weAreInFreeList' = freeList' /\ freeList' \subseteq live'
  BY ListAgree DEF Create
<1> QED
  BY <1>5, <1>6, ListIdle

LEMMA ListDiscover ==
    ASSUME TypeInv, ListInv, NEW k \in Ctx, Discover(k) PROVE ListInv'
<1>1. cleaning = FALSE
  BY ClientIsIdle DEF Discover
<1>2. StackShape(stack, FALSE, todo \cup rejects) /\ stack \in Seq(GoodFrame)
  BY <1>1, ListTop
<1>3. k \notin Roots /\ Create(k, stack) /\ UNCHANGED cleanVars
  BY DEF Discover
<1> QED
  BY <1>1, <1>2, <1>3, ListCreate

LEMMA ListReadEntry ==
    ASSUME TypeInv, ListInv, NEW k \in Ctx, ReadEntry(k) PROVE ListInv'
<1> DEFINE p       == Top.ctx
           shorter == [Top EXCEPT !.left = @ \ {k}]
           rest    == <<shorter>> \o Tail(stack)
<1>0. stack # <<>> /\ Top.op = "Read" /\ k \in Top.left /\ UNCHANGED cleanVars
  BY DEF ReadEntry, Running
<1>1. cleaning = FALSE
  BY <1>0, ListTop DEF Inner
<1>2. p \in Ctx /\ k \in Ctx \ Roots
  <2>1. p \in Ctx /\ Top.left \subseteq Kids(p)
    BY <1>0, GoodTop
  <2> QED
    BY <1>0, <2>1, ParentInTree DEF Kids
<1>3. rest \in Seq(GoodFrame) /\ StackShape(rest, FALSE, todo \cup rejects)
  <2>1. shorter \in GoodFrame /\ shorter.op = "Read"
    BY <1>0, GoodTop DEF GoodFrame, Frame
  <2>2. StackShape(Tail(stack), FALSE, todo \cup rejects)
    BY <1>0, <1>1, ListPop
  <2>3. Tail(stack) \in Seq(GoodFrame)
    BY <1>0, GoodTop
  <2>4. rest \in Seq(GoodFrame)
    BY <2>1, <2>3, GoodStack
  <2> QED
    BY <2>1, <2>2, <2>3, <2>4, ShapePush
<1> HIDE DEF rest
<1>4. CASE \E d \in Namesakes(p, k) :
             /\ stack' = <<Call("AddRef", d), Call("Release", d)>> \o rest
             /\ UNCHANGED <<treeVars, countVars, listVars>>
  <2>1. PICK d \in Namesakes(p, k) :
             stack' = <<Call("AddRef", d), Call("Release", d)>> \o rest
    BY <1>4
  <2> DEFINE f == Call("AddRef", d)
             g == Call("Release", d)
  <2>2. d \in Ctx
    BY <1>2 DEF Namesakes, TypeInv, TypeOK
  <2>3. f \in GoodFrame /\ f.op \notin {"Clean", "Delete"}
    BY <2>2, GoodCall, CallFields DEF Op
  <2>4. g \in GoodFrame /\ g.op \notin {"Clean", "Delete"}
    BY <2>2, GoodCall, CallFields DEF Op
  <2>5. StackShape(stack', cleaning, todo \cup rejects)
    BY <1>1, <1>3, <2>1, <2>3, <2>4, ShapePush2
  <2> QED
    BY <1>0, <1>4, <2>5, ListNeutral
<1>5. CASE Create(k, <<Call("Release", k)>> \o rest)
  <2> DEFINE f == Call("Release", k)
  <2>1. f \in GoodFrame /\ f.op \notin {"Clean", "Delete"}
    BY GoodCall, CallFields DEF Op
  <2>2. <<f>> \o rest \in Seq(GoodFrame)
    BY <1>3, <2>1, GoodStack
  <2>3. StackShape(<<f>> \o rest, FALSE, todo \cup rejects)
    BY <1>3, <2>1, ShapePush
  <2> QED
    BY <1>0, <1>1, <1>2, <1>5, <2>2, <2>3, ListCreate
<1>6. CASE stack' = rest /\ UNCHANGED <<treeVars, countVars, listVars>>
  BY <1>0, <1>1, <1>3, <1>6, ListNeutral
<1> QED
  BY <1>4, <1>5, <1>6 DEF ReadEntry, rest

LEMMA ListStartRead ==
    ASSUME TypeInv, ListInv, NEW p \in Ctx, StartRead(p) PROVE ListInv'
<1>0. UNCHANGED <<live, weAreInFreeList>>
  BY DEF StartRead
<1>1. cleaning = FALSE
  BY ClientIsIdle DEF StartRead
<1>2. PICK S \in Listings(p) :
        LET read == [op |-> "Read", ctx |-> p, left |-> S] IN
        \/ /\ StartCleanUp(freeList)
           /\ stack' = <<Call("Clean", NoCtx), read>> \o stack
        \/ stack' = <<read>> \o stack /\ UNCHANGED <<freeList, cleanVars>>
  BY DEF StartRead
<1> DEFINE f == [op |-> "Read", ctx |-> p, left |-> S]
           g == Call("Clean", NoCtx)
<1>3. f \in GoodFrame /\ f.op = "Read"
  <2>1. S \subseteq Kids(p) /\ S \subseteq Ctx
    BY DEF Listings, Kids
  <2> QED
    BY <2>1 DEF GoodFrame, Frame, Op
<1>4. g \in GoodFrame /\ g.op = "Clean"
  BY GoodCleanCall, CallFields
<1>5. StackShape(<<f>> \o stack, FALSE, todo \cup rejects) /\ <<f>> \o stack \in Seq(GoodFrame)
  BY <1>1, <1>3, ListTop, ShapePush, GoodStack
<1>6. \/ StartCleanUp(freeList) /\ stack' = <<g, f>> \o stack
      \/ stack' = <<f>> \o stack /\ UNCHANGED <<freeList, cleanVars>>
  BY <1>2
<1> HIDE DEF f, g
<1>7. CASE StartCleanUp(freeList) /\ stack' = <<g, f>> \o stack
  <2>0. stack \in Seq(GoodFrame) /\ f \in GoodFrame /\ g \in GoodFrame
    BY <1>3, <1>4 DEF TypeInv
  <2>1. <<g, f>> \o stack = <<g>> \o (<<f>> \o stack)
    BY <2>0, Push2, SMTT(30)
  <2>2. StackShape(stack', TRUE, freeList)
    BY <1>4, <1>5, <1>7, <2>1, ShapePushClean
  <2>3. weAreInFreeList' = freeList /\ freeList \subseteq live
    BY <1>0, <1>1, ListAgree
  <2> QED
    BY <1>0, <1>1, <1>7, <2>2, <2>3, ListStart
<1>8. CASE stack' = <<f>> \o stack /\ UNCHANGED <<freeList, cleanVars>>
  BY <1>0, <1>1, <1>5, <1>8, ListNeutral
<1> QED
  BY <1>6, <1>7, <1>8

LEMMA ListCleanUp == ASSUME TypeInv, ListInv, CleanUp PROVE ListInv'
<1> DEFINE f == Call("Clean", NoCtx)
<1>1. cleaning = FALSE /\ stack = <<>> /\ StartCleanUp(freeList)
  BY ListTop DEF CleanUp, CleanUpRuns
<1>2. f \in GoodFrame /\ f.op = "Clean"
  BY GoodCleanCall, CallFields
<1>3. stack' = <<f>> \o stack
  BY <1>1 DEF CleanUp
<1>4. StackShape(stack', TRUE, freeList)
  BY <1>1, <1>2, <1>3, ListTop, ShapePushClean
<1>5. UNCHANGED <<live, weAreInFreeList>>
  BY DEF CleanUp
<1> QED
  BY <1>1, <1>4, <1>5, ListAgree, ListStart

LEMMA ListCleanUpSkip ==
    ASSUME TypeInv, ListInv, NEW k \in Ctx, CleanUpSkip(k) PROVE ListInv'
<1>1. k \in todo /\ todo' = todo \ {k}
  BY DEF CleanUpSkip, TakeNext
<1>2. UNCHANGED <<live, freeList, cleaning, stack>>
  BY DEF CleanUpSkip
<1>3. \/ weAreInFreeList' = weAreInFreeList \ {k} /\ rejects' = rejects
      \/ weAreInFreeList' = weAreInFreeList \cup {k} /\ rejects' = rejects \cup {k}
  BY DEF CleanUpSkip
<1>4. cleaning
  <2>1. stack # <<>> /\ Top.op = "Clean"
    BY DEF CleanUpSkip, Running
  <2> QED
    BY <2>1, ListTop
<1>5. todo' \cup rejects' \subseteq todo \cup rejects
  BY <1>1, <1>3
<1>6. StackShape(stack, cleaning, todo' \cup rejects')
  BY <1>5, ShapeShrink, ListTop
<1>7. weAreInFreeList' = freeList' \cup todo' \cup rejects'
  BY <1>1, <1>2, <1>3 DEF ListInv
<1>8. /\ freeList' \cap todo' = {}
      /\ freeList' \cap rejects' = {}
      /\ todo' \cap rejects' = {}
  BY <1>1, <1>2, <1>3 DEF ListInv
<1>9. freeList' \cup todo' \cup rejects' \subseteq live'
  BY <1>1, <1>2, <1>3 DEF ListInv, FreeListIsLive
<1> QED
  BY <1>2, <1>4, <1>6, <1>7, <1>8, <1>9 DEF ListInv, FreeListIsLive

\* What a cleanUp() is about to delete is no longer in its hands, nor on the
\* free list.
LEMMA ListReclaim ==
    ASSUME TypeInv, ListInv, NEW k \in Ctx, Reclaim(k) PROVE ListInv'
<1> DEFINE p    == Up[k]
           T    == (todo \ {k}) \cup rejects
           f    == Call("Release", p)
           g    == Call("Delete", k)
           rest == <<f, g>> \o stack
<1>1. k \in todo /\ todo' = todo \ {k} /\ UNCHANGED <<live, rejects, cleaning>>
  BY DEF Reclaim, TakeNext
<1>2. weAreInFreeList' = weAreInFreeList \ {k} /\ freeList' = freeList \ {k}
  BY DEF Reclaim
<1>3. cleaning = TRUE /\ stack \in Seq(GoodFrame)
  <2>1. stack # <<>> /\ Top.op = "Clean"
    BY DEF Reclaim, Running
  <2> QED
    BY <2>1, ListTop
<1>4. k \notin rejects /\ k \notin freeList
  BY <1>1 DEF ListInv
<1>5. p \in Ctx
  BY DEF Reclaim, TypeInv, TypeOK
<1>6. StackShape(rest, TRUE, T) /\ rest \in Seq(GoodFrame)
  <2>1. T \subseteq todo \cup rejects
    OBVIOUS
  <2>2. StackShape(stack, TRUE, T)
    BY <1>3, <2>1, ShapeShrink, ListTop
  <2>3. f \in GoodFrame /\ f.op \in Inner /\ f.op \notin {"Clean", "Delete"}
    BY <1>5, GoodCall, CallFields DEF Op, Inner
  <2>4. g \in GoodFrame /\ g.op \in Inner /\ g.op # "Clean" /\ g.ctx = k
    BY GoodCall, CallFields DEF Op, Inner
  <2>5. g.ctx \notin T
    BY <1>4, <2>4
  <2> HIDE DEF f, g, T
  <2>6. StackShape(rest, TRUE, T)
    BY <1>3, <2>2, <2>3, <2>4, <2>5, ShapePush2
  <2> QED
    BY <1>3, <2>3, <2>4, <2>6, GoodStack
<1>7. StackShape(stack', TRUE, T)
  <2>1. CASE stack' = rest
    BY <1>6, <2>1
  <2>2. CASE \E d \in Namesakes(p, k) \ {k} : stack' = <<Call("Release", d)>> \o rest
    <3>1. PICK d \in Namesakes(p, k) : stack' = <<Call("Release", d)>> \o rest
      BY <2>2
    <3>2. d \in Ctx
      BY <1>5 DEF Namesakes, TypeInv, TypeOK
    <3> DEFINE h == Call("Release", d)
    <3>3. h \in GoodFrame /\ h.op \in Inner /\ h.op \notin {"Clean", "Delete"}
      BY <3>2, GoodCall, CallFields DEF Op, Inner
    <3> HIDE DEF rest, T
    <3> QED
      BY <1>6, <3>1, <3>3, ShapePush
  <2> QED
    BY <2>1, <2>2 DEF Reclaim
<1>8. StackShape(stack', cleaning', todo' \cup rejects')
  BY <1>1, <1>3, <1>7
<1>9. /\ weAreInFreeList' = freeList' \cup todo' \cup rejects'
      /\ freeList' \cap todo' = {}
      /\ freeList' \cap rejects' = {}
      /\ todo' \cap rejects' = {}
  BY <1>1, <1>2, <1>4 DEF ListInv
<1>10. freeList' \cup todo' \cup rejects' \subseteq live'
  BY <1>1, <1>2 DEF ListInv, FreeListIsLive
<1> QED
  BY <1>1, <1>3, <1>8, <1>9, <1>10 DEF ListInv, FreeListIsLive

LEMMA ListDelete == ASSUME TypeInv, ListInv, Delete PROVE ListInv'
<1> DEFINE c == Top.ctx
<1>0. stack # <<>> /\ Top.op = "Delete" /\ stack' = Tail(stack)
  BY DEF Delete, Running, Return
<1>1. cleaning = TRUE /\ c \notin todo \cup rejects
  BY <1>0, ListTop
<1>2. StackShape(stack', cleaning, todo \cup rejects)
  BY <1>0, ListPop
<1>3. /\ live' = live \ {c}
      /\ weAreInFreeList' = weAreInFreeList \ {c}
      /\ freeList' = freeList \ {c}
      /\ UNCHANGED <<cleaning, todo, rejects>>
  BY DEF Delete
<1> QED
  BY <1>1, <1>2, <1>3 DEF ListInv, FreeListIsLive

LEMMA ListCleanUpDone == ASSUME TypeInv, ListInv, CleanUpDone PROVE ListInv'
<1>0. stack # <<>> /\ Top.op = "Clean" /\ stack' = Tail(stack)
  BY DEF CleanUpDone, Running, Return
<1>1. cleaning = TRUE
  BY <1>0, ListTop
<1>2. StackShape(stack', FALSE, todo' \cup rejects')
  BY <1>0, <1>1, ListTop, ShapePopClean DEF Top
<1>3. /\ freeList' = freeList \cup rejects \cup todo
      /\ todo' = {} /\ rejects' = {} /\ cleaning' = FALSE
      /\ UNCHANGED <<weAreInFreeList, live>>
  BY DEF CleanUpDone
<1> QED
  BY <1>2, <1>3 DEF ListInv, FreeListIsLive

LEMMA ListInit == Init => ListInv
<1> SUFFICES ASSUME Init PROVE ListInv
  OBVIOUS
<1>1. weAreInFreeList = freeList /\ freeList \subseteq live
  BY DEF Init
<1>2. cleaning = FALSE /\ todo = {} /\ rejects = {}
  BY DEF Init
<1>3. StackShape(stack, FALSE, {})
  BY DEF Init, StackShape
<1> QED
  BY <1>1, <1>2, <1>3 DEF ListInv, FreeListIsLive

LEMMA ListStep == TypeInv /\ ListInv /\ [Next]_vars => ListInv'
<1> SUFFICES ASSUME TypeInv, ListInv, [Next]_vars PROVE ListInv'
  OBVIOUS
<1>1. CASE LibraryStep
  BY <1>1, ListAddRef, ListRelease, ListTryToAdd, ListReleaseParent, ListReturn,
     ListUnlist, ListReadEntry, ListCleanUpSkip, ListReclaim, ListDelete,
     ListCleanUpDone
  DEF LibraryStep
<1>2. CASE ClientStep
  BY <1>2, ListHandles, ListBeginResolve, ListReturn, ListDiscover, ListRemove,
     ListStartRead, ListCleanUp
  DEF ClientStep
<1>3. CASE UNCHANGED vars
  BY <1>3 DEF vars, ListInv, FreeListIsLive
<1> QED
  BY <1>1, <1>2, <1>3 DEF Next

LEMMA ListAlways == Spec => []ListInv
<1>1. Init => TypeInv /\ ListInv
  BY TypeInit, ListInit
<1>2. TypeInv /\ ListInv /\ [Next]_vars => (TypeInv /\ ListInv)'
  BY TypeStep, ListStep
<1> QED
  BY <1>1, <1>2, PTL DEF Spec

\* The flag WeAreInFreeList, by which AddRef() and Release() decide, agrees
\* with the free list: always with the list and what a cleanUp() has in its
\* hands, and with the list alone when no cleanUp() is in progress.  This
\* holds with automatic clean up in the middle of a Release() and with deleted
\* files.
THEOREM FlagIsRight == Spec => []FlagMatchesFreeList
<1>1. ListInv => FlagMatchesFreeList
  BY DEF ListInv, FlagMatchesFreeList
<1> QED
  BY <1>1, ListAlways, PTL

\* A cleanUp() never meets a context that was deleted: what is on the free
\* list, and what cleanUp() took from it, is in memory, whatever the deletes
\* it makes do to the list it walks over.
THEOREM CleanUpWalksLiveContexts == Spec => []FreeListIsLive
<1>1. ListInv => FreeListIsLive
  BY DEF ListInv
<1> QED
  BY <1>1, ListAlways, PTL
-----------------------------------------------------------------------------
(***************************************************************************)
(* Path resolution.                                                        *)
(***************************************************************************)

\* No cleanUp() is in progress inside a Resolve(): none starts there, and
\* nothing that a cleanUp() calls resolves a path.
NoCleanUpInside == cleaning => insideResolve = 0

LEMMA InsideStep ==
    ASSUME TypeInv, ListInv, NoCleanUpInside, [Next]_vars PROVE NoCleanUpInside'
<1>1. BeginResolve \/ EndResolve => cleaning = FALSE
  <2>1. BeginResolve \/ EndResolve => ClientTurn
    BY DEF BeginResolve, EndResolve, Running, ClientTurn
  <2> QED
    BY <2>1, ClientIsIdle
<1>2. CASE BeginResolve \/ EndResolve
  BY <1>1, <1>2 DEF BeginResolve, EndResolve, NoCleanUpInside
<1>3. ASSUME NEW k \in Ctx,
             \/ Acquire(k) \/ Drop(k) \/ Discover(k) \/ Remove(k) \/ StartRead(k)
             \/ ReadEntry(k) \/ CleanUpSkip(k) \/ Reclaim(k)
      PROVE  NoCleanUpInside'
  BY <1>3 DEF Acquire, Drop, Discover, Remove, StartRead, ReadEntry, CleanUpSkip,
              Reclaim, CleanUpRuns, NoCleanUpInside
<1>4. CASE \/ AddRef \/ Release \/ TryToAddOurselfToFreeList \/ ReleaseParent
           \/ ParentReleased \/ ReturnToFreed \/ Link \/ Unlist \/ ReadDone
           \/ ReadFails
           \/ Delete \/ CleanUpDone \/ CleanUp \/ UNCHANGED vars
  BY <1>4 DEF AddRef, Release, TryToAddOurselfToFreeList, ReleaseParent,
              ParentReleased, ReturnToFreed, Link, Unlist, ReadDone, ReadFails, Delete,
              CleanUpDone, CleanUp, CleanUpRuns, NoCleanUpInside, vars
<1> QED
  BY <1>2, <1>3, <1>4 DEF Next, LibraryStep, ClientStep

\* The only step that takes a context out of memory.
LEMMA DeleteTakes == ASSUME [Next]_vars, ~(live \subseteq live') PROVE Delete
<1>1. ASSUME NEW k \in Ctx,
             \/ Acquire(k) \/ Drop(k) \/ Discover(k) \/ Remove(k) \/ StartRead(k)
             \/ ReadEntry(k) \/ CleanUpSkip(k) \/ Reclaim(k)
      PROVE  FALSE
  BY <1>1 DEF Acquire, Drop, Discover, Create, Remove, StartRead, ReadEntry,
              CleanUpSkip, Reclaim
<1>2. CASE \/ AddRef \/ Release \/ TryToAddOurselfToFreeList \/ ReleaseParent
           \/ ParentReleased \/ ReturnToFreed \/ Link \/ Unlist \/ ReadDone
           \/ ReadFails
           \/ CleanUpDone \/ CleanUp \/ BeginResolve \/ EndResolve \/ UNCHANGED vars
  BY <1>2 DEF AddRef, Release, TryToAddOurselfToFreeList, ReleaseParent,
              ParentReleased, ReturnToFreed, Link, Unlist, ReadDone, ReadFails,
              CleanUpDone, CleanUp, BeginResolve, EndResolve, vars
<1> QED
  BY <1>1, <1>2 DEF Next, LibraryStep, ClientStep

\* While a path is being resolved no context goes away.
THEOREM ResolveIsSafe == Spec => ResolveKeepsAll
<1>1. Init => TypeInv /\ ListInv /\ NoCleanUpInside
  BY TypeInit, ListInit DEF Init, NoCleanUpInside
<1>2. TypeInv /\ ListInv /\ NoCleanUpInside /\ [Next]_vars =>
        (TypeInv /\ ListInv /\ NoCleanUpInside)'
  BY TypeStep, ListStep, InsideStep
<1>3. TypeInv /\ ListInv /\ NoCleanUpInside /\ [Next]_vars =>
        [insideResolve > 0 => live \subseteq live']_vars
  <2> SUFFICES ASSUME TypeInv, ListInv, NoCleanUpInside, [Next]_vars,
                      insideResolve > 0, ~(live \subseteq live')
               PROVE  FALSE
    OBVIOUS
  <2>1. Delete
    BY DeleteTakes
  <2>2. cleaning
    BY <2>1, ListTop DEF Delete, Running
  <2> QED
    BY <2>2 DEF NoCleanUpInside
<1> QED
  BY <1>1, <1>2, <1>3, PTL DEF Spec, ResolveKeepsAll

-----------------------------------------------------------------------------
(***************************************************************************)
(* Theorems of ContextVM about who keeps a context in memory: the counts   *)
(* are the owners, use of a context reaches every context above it, the    *)
(* free list is what nobody uses, and so the cache keeps the promise of    *)
(* PagedTree; the counts of subcontexts at a root are right at rest, and   *)
(* what was paged out is found again by a read.                            *)
(*                                                                         *)
(* They are for every tree, every limit and every bound of the             *)
(* counts, in the default setting: no automatic clean up, and no file is   *)
(* deleted under the library (Quiet).  Without either part of Quiet the    *)
(* counts of references do go wrong, see README.md.  The counts of         *)
(* subcontexts, in the last section, need less than that.                  *)
(***************************************************************************)

Quiet == AutoCleanUpCall = FALSE /\ Removable = {}

-----------------------------------------------------------------------------
(***************************************************************************)
(* What is on the stack.                                                   *)
(***************************************************************************)

Frames(s) == {s[i] : i \in 1..Len(s)}
Positions(s, op, c) == {i \in 1..Len(s) : s[i].op = op /\ s[i].ctx = c}
Count(s, op, c) == Cardinality(Positions(s, op, c))

\* What the calls in progress will still add to the count of c, negated.
Pending(s, c) == Count(s, "Release", c) - Count(s, "AddRef", c)

\* The contexts above c, itself included.
Above(c) == {a \in Ctx : \A S \in SUBSET Ctx :
               c \in S /\ (\A x \in S : Up[x] \in Ctx => Up[x] \in S) => a \in S}

\* Which call may run while which other one waits for it.  A Release() goes up
\* the tree, so that no context is met twice.
Climbing == {"Release", "TryAdd", "Chain", "Chained"}
MayInterrupt(x, y) ==
    \/ y.op \in {"Read", "Resolve"}
         /\ x.op \in {"Read", "Resolve", "AddRef", "Link"} \cup Climbing
    \/ y.op = "Release" /\ x.op \in {"AddRef", "Link"}
    \/ y.op \in {"AddRef", "Link"} /\ x.op = "AddRef"
    \/ y.op = "Chain" /\ x.op = "TryAdd"
    \/ y.op = "Chained" /\ x.op \in Climbing /\ x.ctx \in Above(Up[y.ctx])
    \/ y.op = "Delete" /\ x.op \in Climbing
    \/ y.op = "Clean" /\ x.op \in Climbing \cup {"Delete"}
Nested(s) == \A i, j \in 1..Len(s) : i < j => MayInterrupt(s[i], s[j])

\* The frames of a stack with one more on top.
LEMMA FramesPush ==
    ASSUME NEW f \in GoodFrame, NEW t \in Seq(GoodFrame)
    PROVE  Frames(<<f>> \o t) = {f} \cup Frames(t)
<1> DEFINE u == <<f>> \o t
<1>0. /\ Len(u) = Len(t) + 1 /\ u[1] = f /\ Len(t) \in Nat
      /\ \A i \in 2..Len(t) + 1 : u[i] = t[i - 1]
  BY Push
<1> HIDE DEF u
<1>1. ASSUME NEW i \in 1..Len(u) PROVE u[i] \in {f} \cup {t[j] : j \in 1..Len(t)}
  <2>1. CASE i = 1
    BY <1>0, <2>1
  <2>2. CASE i # 1
    <3>1. i - 1 \in 1..Len(t) /\ u[i] = t[i - 1]
      BY <1>0, <2>2
    <3> QED
      BY <3>1
  <2> QED
    BY <2>1, <2>2
<1>2. ASSUME NEW j \in 1..Len(t) PROVE t[j] \in {u[i] : i \in 1..Len(u)}
  <2>1. j + 1 \in 1..Len(u) /\ u[j + 1] = t[j]
    BY <1>0
  <2> QED
    BY <2>1
<1>3. f \in {u[i] : i \in 1..Len(u)}
  BY <1>0
<1>4. {u[i] : i \in 1..Len(u)} = {f} \cup {t[j] : j \in 1..Len(t)}
  BY <1>1, <1>2, <1>3
<1> QED
  BY <1>4 DEF Frames, u

\* Nesting when a call is put on top.
LEMMA NestedPush ==
    ASSUME NEW f \in GoodFrame, NEW t \in Seq(GoodFrame)
    PROVE  Nested(<<f>> \o t) <=>
             Nested(t) /\ \A g \in Frames(t) : MayInterrupt(f, g)
<1> DEFINE u == <<f>> \o t
<1>0. /\ Len(u) = Len(t) + 1 /\ u[1] = f /\ Len(t) \in Nat
      /\ \A i \in 2..Len(t) + 1 : u[i] = t[i - 1]
  BY Push
<1> HIDE DEF u
<1>1. ASSUME Nested(u), NEW i \in 1..Len(t), NEW j \in 1..Len(t), i < j
      PROVE  MayInterrupt(t[i], t[j])
  <2>1. /\ i + 1 \in 1..Len(u) /\ j + 1 \in 1..Len(u) /\ i + 1 < j + 1
        /\ (i + 1) - 1 = i /\ (j + 1) - 1 = j
    BY <1>0, <1>1
  <2>2. u[i + 1] = t[i] /\ u[j + 1] = t[j]
    BY <1>0, <2>1
  <2> QED
    BY <1>1, <2>1, <2>2 DEF Nested
<1>2. ASSUME Nested(u), NEW j \in 1..Len(t) PROVE MayInterrupt(f, t[j])
  <2>1. /\ 1 \in 1..Len(u) /\ j + 1 \in 1..Len(u) /\ 1 < j + 1
        /\ u[1] = f /\ u[j + 1] = t[j]
    BY <1>0
  <2> QED
    BY <1>2, <2>1 DEF Nested
<1>3. ASSUME Nested(t), \A j \in 1..Len(t) : MayInterrupt(f, t[j]),
             NEW i \in 1..Len(u), NEW j \in 1..Len(u), i < j
      PROVE  MayInterrupt(u[i], u[j])
  <2>1. j - 1 \in 1..Len(t) /\ u[j] = t[j - 1]
    BY <1>0, <1>3
  <2>2. CASE i = 1
    BY <1>0, <1>3, <2>1, <2>2
  <2>3. CASE i # 1
    <3>1. i - 1 \in 1..Len(t) /\ u[i] = t[i - 1] /\ i - 1 < j - 1
      BY <1>0, <1>3, <2>3
    <3> QED
      BY <1>3, <2>1, <3>1 DEF Nested
  <2> QED
    BY <2>2, <2>3
<1>4. (\A g \in Frames(t) : MayInterrupt(f, g)) <=>
        \A j \in 1..Len(t) : MayInterrupt(f, t[j])
  BY DEF Frames
<1>5. Nested(u) => Nested(t) /\ \A j \in 1..Len(t) : MayInterrupt(f, t[j])
  BY <1>1, <1>2 DEF Nested
<1>6. Nested(t) /\ (\A j \in 1..Len(t) : MayInterrupt(f, t[j])) => Nested(u)
  BY <1>3 DEF Nested
<1> QED
  BY <1>4, <1>5, <1>6 DEF u

\* Counting the calls on a context when one is put on top.
LEMMA CountPush ==
    ASSUME NEW f \in GoodFrame, NEW t \in Seq(GoodFrame), NEW op, NEW c
    PROVE  /\ Count(t, op, c) \in Nat
           /\ Count(<<f>> \o t, op, c) =
                Count(t, op, c) + (IF f.op = op /\ f.ctx = c THEN 1 ELSE 0)
<1> DEFINE u == <<f>> \o t
           A == Positions(t, op, c)
           B == Positions(u, op, c)
           shift == [i \in A |-> i + 1]
<1>0. /\ Len(u) = Len(t) + 1 /\ u[1] = f /\ Len(t) \in Nat
      /\ \A i \in 2..Len(t) + 1 : u[i] = t[i - 1]
  BY Push
<1> HIDE DEF u
<1>1. IsFiniteSet(A) /\ Cardinality(A) \in Nat
  <2>1. IsFiniteSet(1..Len(t)) /\ A \in SUBSET (1..Len(t))
    BY <1>0, FS_Interval DEF Positions
  <2> QED
    BY <2>1, FS_Subset, FS_CardinalityType
<1>2. IsFiniteSet(B) /\ Cardinality(B) \in Nat
  <2>1. IsFiniteSet(1..Len(u)) /\ B \in SUBSET (1..Len(u))
    BY <1>0, FS_Interval DEF Positions
  <2> QED
    BY <2>1, FS_Subset, FS_CardinalityType
<1>3. shift \in Bijection(A, B \ {1})
  <2>1. ASSUME NEW i \in A PROVE i + 1 \in B \ {1}
    <3>1. i \in 1..Len(t) /\ t[i].op = op /\ t[i].ctx = c
      BY DEF Positions
    <3>2. i + 1 \in 1..Len(u) /\ u[i + 1] = t[i] /\ i + 1 # 1
      BY <1>0, <3>1
    <3> QED
      BY <3>1, <3>2 DEF Positions
  <2>2. ASSUME NEW j \in B \ {1} PROVE j - 1 \in A /\ (j - 1) + 1 = j
    <3>1. j \in 1..Len(u) /\ j # 1 /\ u[j].op = op /\ u[j].ctx = c
      BY DEF Positions
    <3>2. j - 1 \in 1..Len(t) /\ u[j] = t[j - 1] /\ (j - 1) + 1 = j
      BY <1>0, <3>1
    <3> QED
      BY <3>1, <3>2 DEF Positions
  <2>3. \A i \in A : i \in Nat
    BY <1>0 DEF Positions
  <2>4. shift \in [A -> B \ {1}]
    BY <2>1
  <2>5. \A i, j \in A : shift[i] = shift[j] => i = j
    BY <2>3
  <2>6. \A j \in B \ {1} : \E i \in A : shift[i] = j
    BY <2>2
  <2> HIDE DEF shift
  <2> QED
    BY <2>4, <2>5, <2>6 DEF Bijection, Injection, Surjection, IsInjective
<1>4. Cardinality(B \ {1}) = Cardinality(A)
  BY <1>1, <1>3, FS_Bijection DEF ExistsBijection
<1>5. 1 \in B <=> f.op = op /\ f.ctx = c
  BY <1>0 DEF Positions
<1>6. Cardinality(B \ {1}) = IF 1 \in B THEN Cardinality(B) - 1 ELSE Cardinality(B)
  BY <1>2, FS_RemoveElement
<1>7. Cardinality(B) = Cardinality(A) + (IF f.op = op /\ f.ctx = c THEN 1 ELSE 0)
  BY <1>1, <1>2, <1>4, <1>5, <1>6
<1> QED
  BY <1>1, <1>7 DEF Count, u


On(s, op, c) == \E x \in Frames(s) : x.op = op /\ x.ctx = c
Worth(f, c) == IF f.ctx # c THEN 0
               ELSE IF f.op = "Release" THEN 1 ELSE IF f.op = "AddRef" THEN -1 ELSE 0

LEMMA PendingPush ==
    ASSUME NEW f \in GoodFrame, NEW t \in Seq(GoodFrame), NEW c
    PROVE  /\ Pending(t, c) \in Int
           /\ Pending(<<f>> \o t, c) = Pending(t, c) + Worth(f, c)
<1>1. /\ Count(t, "Release", c) \in Nat
      /\ Count(<<f>> \o t, "Release", c) =
           Count(t, "Release", c) + (IF f.op = "Release" /\ f.ctx = c THEN 1 ELSE 0)
  BY CountPush
<1>2. /\ Count(t, "AddRef", c) \in Nat
      /\ Count(<<f>> \o t, "AddRef", c) =
           Count(t, "AddRef", c) + (IF f.op = "AddRef" /\ f.ctx = c THEN 1 ELSE 0)
  BY CountPush
<1> QED
  BY <1>1, <1>2 DEF Pending, Worth

LEMMA CountType ==
    ASSUME NEW t \in Seq(GoodFrame), NEW op, NEW c
    PROVE  Count(t, op, c) \in Nat /\ (~On(t, op, c) => Count(t, op, c) = 0)
<1>1. Positions(t, op, c) \in SUBSET (1..Len(t)) /\ Len(t) \in Nat
  BY DEF Positions
<1>2. Count(t, op, c) \in Nat
  <2>1. IsFiniteSet(1..Len(t))
    BY <1>1, FS_Interval
  <2> QED
    BY <1>1, <2>1, FS_Subset, FS_CardinalityType DEF Count
<1>3. ~On(t, op, c) => Positions(t, op, c) = {}
  BY DEF Positions, On, Frames
<1>4. Cardinality({}) = 0
  BY FS_EmptySet
<1> QED
  BY <1>2, <1>3, <1>4 DEF Count

\* Without calls of AddRef() waiting a count can only go down.
LEMMA PendingSign ==
    ASSUME NEW t \in Seq(GoodFrame), NEW c
    PROVE  /\ Pending(t, c) \in Int
           /\ ~On(t, "AddRef", c) => Pending(t, c) >= 0
           /\ ~On(t, "AddRef", c) /\ ~On(t, "Release", c) => Pending(t, c) = 0
  BY CountType DEF Pending

\* u is the stack t with the call f put on top.
PushedOn(u, f, t) ==
    /\ u \in Seq(GoodFrame)
    /\ Frames(u) = {f} \cup Frames(t)
    /\ Nested(u) <=> Nested(t) /\ \A g \in Frames(t) : MayInterrupt(f, g)
    /\ \A op, c : On(u, op, c) <=> (f.op = op /\ f.ctx = c) \/ On(t, op, c)
    /\ \A c : Pending(t, c) \in Int
    /\ \A c : Pending(u, c) = Pending(t, c) + Worth(f, c)

LEMMA PushView ==
    ASSUME NEW f \in GoodFrame, NEW t \in Seq(GoodFrame)
    PROVE  PushedOn(<<f>> \o t, f, t)
<1> DEFINE u == <<f>> \o t
<1>1. u \in Seq(GoodFrame)
  BY Push
<1>2. Frames(u) = {f} \cup Frames(t)
  BY FramesPush
<1>3. Nested(u) <=> Nested(t) /\ \A g \in Frames(t) : MayInterrupt(f, g)
  BY NestedPush
<1>4. \A c : Pending(t, c) \in Int /\ Pending(u, c) = Pending(t, c) + Worth(f, c)
  BY PendingPush
<1> HIDE DEF u
<1>5. \A op, c : On(u, op, c) <=> (f.op = op /\ f.ctx = c) \/ On(t, op, c)
  BY <1>2 DEF On
<1>6. PushedOn(u, f, t)
  BY <1>1, <1>2, <1>3, <1>4, <1>5 DEF PushedOn
<1> QED
  BY <1>6 DEF u

\* The top of the stack and the rest.
LEMMA TopView ==
    ASSUME TypeInv, stack # <<>>
    PROVE  /\ Tail(stack) \in Seq(GoodFrame)
           /\ Top \in GoodFrame
           /\ stack = <<Top>> \o Tail(stack)
<1>1. stack \in Seq(GoodFrame)
  BY DEF TypeInv
<1>2. stack = <<Head(stack)>> \o Tail(stack)
  BY <1>1
<1> QED
  BY <1>1, <1>2, GoodTop DEF Top

LEMMA FramesType ==
    ASSUME NEW t \in Seq(GoodFrame)
    PROVE  /\ \A x \in Frames(t) : x \in GoodFrame
           /\ Frames(t) = {} <=> t = <<>>
<1>1. Len(t) = 0 <=> t = <<>>
  OBVIOUS
<1>2. t # <<>> => t[1] \in Frames(t)
  BY DEF Frames
<1> QED
  BY <1>1, <1>2 DEF Frames

-----------------------------------------------------------------------------
(***************************************************************************)
(* The tree.                                                               *)
(***************************************************************************)

LEMMA AboveSelf == ASSUME NEW c \in Ctx PROVE c \in Above(c)
  BY DEF Above

LEMMA AboveUp ==
    ASSUME NEW c \in Ctx, NEW a \in Above(c), Up[a] \in Ctx
    PROVE  Up[a] \in Above(c)
  BY DEF Above

\* What is above c but not c is above its parent.
LEMMA AboveParent ==
    ASSUME NEW c \in Ctx, NEW a \in Above(c), a # c
    PROVE  Up[c] \in Ctx /\ a \in Above(Up[c])
<1>1. Up[c] \in Ctx
  <2>1. CASE Up[c] \notin Ctx
    <3>1. {c} \in SUBSET Ctx /\ \A x \in {c} : Up[x] \in Ctx => Up[x] \in {c}
      BY <2>1
    <3>2. a \in {c}
      BY <3>1 DEF Above
    <3> QED
      BY <3>2
  <2> QED
    BY <2>1
<1>2. DEFINE S == {c} \cup Above(Up[c])
<1>3. S \in SUBSET Ctx /\ c \in S
  BY DEF Above
<1>4. \A x \in S : Up[x] \in Ctx => Up[x] \in S
  BY <1>1, AboveSelf, AboveUp
<1>5. a \in S
  BY <1>3, <1>4 DEF Above
<1> QED
  BY <1>1, <1>5

\* No set of contexts in memory goes round in a circle, since each was made
\* below one that was there.
Grounded == \A S \in SUBSET live : S # {} => \E c \in S : Up[c] \notin S
UpIsLive == \A c \in live \ Roots : Up[c] \in live

LEMMA NoCircle ==
    ASSUME TypeInv, Grounded, UpIsLive, NEW k \in live \ Roots
    PROVE  k \notin Above(Up[k])
<1>0. k \in Ctx /\ Up[k] \in Ctx /\ live \in SUBSET Ctx
  BY ParentInTree DEF TypeInv, TypeOK
<1>1. SUFFICES ASSUME k \in Above(Up[k]) PROVE FALSE
  OBVIOUS
<1>2. DEFINE S == {x \in Above(k) : k \in Above(x)}
<1>3. Above(k) \subseteq live
  <2>1. \A x \in live : Up[x] \in Ctx => Up[x] \in live
    BY <1>0, ParentInTree DEF UpIsLive
  <2> QED
    BY <1>0, <2>1 DEF Above
<1>4. k \in S
  BY <1>0, AboveSelf
<1>5. ASSUME NEW x \in S PROVE Up[x] \in S
  <2>1. x \in Ctx
    BY <1>0, <1>3
  <2>2. Up[x] \in Ctx /\ k \in Above(Up[x])
    <3>1. CASE x = k
      BY <1>0, <1>1, <3>1
    <3>2. CASE x # k
      BY <2>1, <3>2, AboveParent
    <3> QED
      BY <3>1, <3>2
  <2>3. Up[x] \in Above(k)
    BY <1>0, <2>2, AboveUp
  <2> QED
    BY <2>2, <2>3
<1>6. S \in SUBSET live
  BY <1>3
<1> HIDE DEF S
<1> QED
  BY <1>4, <1>5, <1>6 DEF Grounded

-----------------------------------------------------------------------------
(***************************************************************************)
(* The invariant.                                                          *)
(***************************************************************************)

\* Only the parent and the children refer to c, and its count has not stuck.
AtMinimum(c) == c \in parentBound /\ refCount[c] = Min(c) /\ refCount[c] < MaxRefCount

\* What a call in progress may rely on until it runs.
Good(x) ==
    /\ x.op # "Unlist"
    /\ x.op \in {"AddRef", "Release"} => x.ctx \in Roots \cup parentBound
    /\ x.op \in {"TryAdd", "Chain", "Chained"} => AtMinimum(x.ctx)
    /\ x.op = "Chained" => x.ctx \in holdingParent
    /\ x.op = "Link" => /\ x.ctx \in parentBound \ items[Up[x.ctx]]
                        /\ Namesakes(Up[x.ctx], x.ctx) = {}
                        /\ handles[Up[x.ctx]] > 0
    /\ x.op = "Read" => handles[x.ctx] > 0
    /\ x.op = "Delete" => /\ x.ctx \in live \ (Roots \cup parentBound)
                          /\ handles[x.ctx] = 0
                          /\ Kids(x.ctx) \cap live = {}
StackInv == Nested(stack) /\ \A x \in Frames(stack) : Good(x)

\* A context in memory is below its parent and in its Items, unless it is just
\* being inserted or deleted; a handle keeps it there.
TreeInv ==
    /\ Roots \subseteq live
    /\ parentBound \subseteq live
    /\ UpIsLive
    /\ Grounded
    /\ \A p \in Ctx : items[p] \subseteq Kids(p) \cap parentBound
    /\ \A p \in Ctx : \A c, d \in items[p] : Name[c] = Name[d] => c = d
    /\ \A c \in parentBound : c \in items[Up[c]] \/ On(stack, "Link", c)
    /\ \A c \in live \ Roots : c \in parentBound \/ On(stack, "Delete", c)
    /\ \A c \in Ctx : handles[c] > 0 => c \in Roots \cup parentBound
    /\ holdingParent \subseteq parentBound

\* The children whose reference on c has not been given back, and all owners.
Users(c) == {k \in Kids(c) \cap holdingParent : ~On(stack, "Chained", k)}
Owners(c) == 1 + Cardinality(Kids(c) \cap parentBound) + Cardinality(Users(c))
               + handles[c]

\* The count is the number of owners, but for the calls that are still to run.
CountInv ==
    /\ \A c \in Roots : refCount[c] = MaxRefCount
    /\ \A c \in parentBound : refCount[c] < MaxRefCount =>
         refCount[c] = Owners(c) + Pending(stack, c)

\* A child of c is being deleted, which has not given back its handle yet.
Reclaimed(c) == cleaning /\ On(stack, "Release", c)

UseInv ==
    \A c \in parentBound : refCount[c] < MaxRefCount =>
        /\ refCount[c] >= Min(c)
        /\ refCount[c] > Min(c) =>
             c \in holdingParent \/ (Reclaimed(c) /\ refCount[c] = Min(c) + 1)
        /\ refCount[c] = Min(c) /\ c \in holdingParent =>
             On(stack, "Chain", c) \/ On(stack, "Chained", c)

ListedInv ==
    /\ \A c \in weAreInFreeList \ Roots :
         /\ c \in parentBound
         /\ refCount[c] < MaxRefCount
         /\ refCount[c] <= Min(c) \/ (Reclaimed(c) /\ refCount[c] = Min(c) + 1)
    /\ \A c \in Reclaims : AtMinimum(c) =>
         c \in weAreInFreeList \/ On(stack, "TryAdd", c)

AllInv == TypeInv /\ ListInv /\ StackInv /\ TreeInv /\ CountInv /\ UseInv /\ ListedInv

-----------------------------------------------------------------------------
(***************************************************************************)
(* What follows from it in one state.                                      *)
(***************************************************************************)

LEMMA SubsetCard ==
    ASSUME NEW A \in SUBSET Ctx
    PROVE  IsFiniteSet(A) /\ Cardinality(A) \in Nat
  BY UpAssumption, FS_Subset, FS_CardinalityType

\* A context with one more or one fewer element in a set about it.
LEMMA CardPlus ==
    ASSUME NEW A \in SUBSET Ctx, NEW x \in Ctx, x \notin A
    PROVE  Cardinality(A \cup {x}) = Cardinality(A) + 1 /\ Cardinality(A) \in Nat
  BY SubsetCard, FS_AddElement

LEMMA CardMinus ==
    ASSUME NEW A \in SUBSET Ctx, NEW x \in A
    PROVE  Cardinality(A \ {x}) = Cardinality(A) - 1 /\ Cardinality(A) \in Nat
  BY SubsetCard, FS_RemoveElement

LEMMA KidsAndUsers ==
    ASSUME NEW c
    PROVE  /\ Kids(c) \cap parentBound \in SUBSET Ctx
           /\ Users(c) \in SUBSET Ctx
           /\ Cardinality(Kids(c) \cap parentBound) \in Nat
           /\ Cardinality(Users(c)) \in Nat
  BY SubsetCard DEF Kids, Users

\* The types that the steps need.
LEMMA Types ==
    ASSUME TypeInv
    PROVE  /\ live \subseteq Ctx
           /\ items \in [Ctx -> SUBSET Ctx]
           /\ parentBound \subseteq Ctx /\ parentBound \cap Roots = {}
           /\ refCount \in [Ctx -> Int] /\ MaxRefCount \in Int /\ MaxRefCount > 1
           /\ \A c \in Ctx : Min(c) \in Int
           /\ holdingParent \subseteq Ctx
           /\ handles \in [Ctx -> Nat]
           /\ weAreInFreeList \subseteq Ctx
           /\ stack \in Seq(GoodFrame)
<1>1. \A c \in Ctx : items[c] \in SUBSET Ctx
  BY DEF TypeInv, TypeOK
<1>2. \A c \in Ctx : Min(c) \in Int
  BY <1>1, SubsetCard DEF Min
<1>3. refCount \in [Ctx -> Int]
  BY DEF TypeInv, TypeOK
<1>4. MaxRefCount \in Int /\ MaxRefCount > 1
  BY SettingAssumption
<1> QED
  BY <1>2, <1>3, <1>4 DEF TypeInv, TypeOK

\* The parent of a context that is bound is not going away.
LEMMA ParentStays ==
    ASSUME TypeInv, StackInv, TreeInv, NEW c \in parentBound
    PROVE  /\ c \in Ctx \ Roots /\ c \in live
           /\ Up[c] \in Roots \cup parentBound
           /\ Up[c] \in Ctx /\ Up[c] \in live
           /\ c \notin Above(Up[c]) /\ Up[c] # c
<1>1. c \in Ctx \ Roots /\ c \in live
  BY Types DEF TreeInv
<1>2. Up[c] \in Ctx /\ Up[c] \in live
  BY <1>1, ParentInTree DEF TreeInv, UpIsLive
<1>3. c \in Kids(Up[c]) \cap live
  BY <1>1 DEF Kids
<1>4. ~On(stack, "Delete", Up[c])
  BY <1>3 DEF On, StackInv, Good
<1>5. Up[c] \in Roots \cup parentBound
  BY <1>2, <1>4 DEF TreeInv
<1>6. c \notin Above(Up[c])
  BY <1>1, NoCircle DEF TreeInv
<1> QED
  BY <1>1, <1>2, <1>5, <1>6, AboveSelf

\* A count is as far above the minimum as there are users and handles, and one
\* more while a child is being inserted.
LEMMA CountBound ==
    ASSUME TypeInv, StackInv, TreeInv, CountInv,
           NEW c \in parentBound, refCount[c] < MaxRefCount
    PROVE  /\ refCount[c] >= Min(c) + handles[c] + Pending(stack, c)
           /\ \A k \in Kids(c) : On(stack, "Link", k) =>
                refCount[c] >= Min(c) + 1 + handles[c] + Pending(stack, c)
<1> DEFINE B == Kids(c) \cap parentBound
<1>0. c \in Ctx /\ handles[c] \in Nat /\ Pending(stack, c) \in Int
  BY Types, PendingSign
<1>1. refCount[c] = 1 + Cardinality(B) + Cardinality(Users(c)) + handles[c]
                      + Pending(stack, c)
  BY DEF CountInv, Owners
<1>2. items[c] \in SUBSET B /\ IsFiniteSet(B) /\ Cardinality(B) \in Nat
  BY <1>0, SubsetCard DEF TreeInv, Kids
<1>3. Cardinality(items[c]) \in Nat /\ Cardinality(items[c]) <= Cardinality(B)
  BY <1>2, FS_Subset, FS_CardinalityType
<1>4. Cardinality(Users(c)) \in Nat
  BY KidsAndUsers
<1>5. ASSUME NEW k \in Kids(c), On(stack, "Link", k)
      PROVE  Cardinality(items[c]) + 1 <= Cardinality(B)
  <2>1. k \in B /\ k \notin items[c]
    BY <1>5 DEF On, StackInv, Good, Kids
  <2>2. items[c] # B
    BY <2>1
  <2>3. Cardinality(items[c]) # Cardinality(B)
    BY <1>2, <2>2, FS_Subset
  <2> QED
    BY <1>2, <1>3, <2>3
<1> QED
  BY <1>0, <1>1, <1>2, <1>3, <1>4, <1>5 DEF Min

\* While the client has its turn nothing else is in progress.
LEMMA ClientFrames ==
    ASSUME TypeInv, StackInv, ClientTurn
    PROVE  /\ \A x \in Frames(stack) : x.op \in {"Read", "Resolve"}
           /\ \A op, c : op \notin {"Read", "Resolve"} => ~On(stack, op, c)
           /\ \A c : Pending(stack, c) = 0
<1>3. \A x \in Frames(stack) : x.op \in {"Read", "Resolve"}
  <2>1. CASE stack = <<>>
    BY <2>1 DEF Frames
  <2>2. CASE stack # <<>>
    <3>0. PushedOn(stack, Top, Tail(stack))
      BY <2>2, TopView, PushView
    <3>1. /\ Frames(stack) = {Top} \cup Frames(Tail(stack))
          /\ \A g \in Frames(Tail(stack)) : MayInterrupt(Top, g)
      BY <3>0 DEF StackInv, PushedOn
    <3>2. Top.op \in {"Read", "Resolve"}
      BY <2>2 DEF ClientTurn
    <3>3. ASSUME NEW g \in Frames(Tail(stack)) PROVE g.op \in {"Read", "Resolve"}
      <4>1. MayInterrupt(Top, g)
        BY <3>1
      <4> QED
        BY <3>2, <4>1 DEF MayInterrupt, Climbing
    <3> QED
      BY <3>1, <3>2, <3>3
  <2> QED
    BY <2>1, <2>2
<1>4. \A op, c : op \notin {"Read", "Resolve"} => ~On(stack, op, c)
  BY <1>3 DEF On
<1>5. \A c : Pending(stack, c) = 0
  BY <1>4, PendingSign, Types
<1> QED
  BY <1>3, <1>4, <1>5

-----------------------------------------------------------------------------
(***************************************************************************)
(* Steps that start, end or exchange calls and change no count.            *)
(***************************************************************************)

USE DEF treeVars, countVars, listVars, cleanVars

CountsNow == <<live, items, parentBound, refCount, holdingParent>>

AccInv == StackInv /\ TreeInv /\ CountInv /\ UseInv /\ ListedInv

\* What such a step leaves as it is.
SameOwners ==
    /\ handles' \in [Ctx -> Nat]
    /\ \A c \in Ctx : handles'[c] > 0 => c \in Roots \cup parentBound
    /\ \A c \in parentBound : refCount[c] < MaxRefCount =>
         handles'[c] + Pending(stack', c) = handles[c] + Pending(stack, c)
SameCalls ==
    /\ \A op, c : op \in {"Link", "Delete", "Chain", "Chained", "TryAdd"} =>
         (On(stack', op, c) <=> On(stack, op, c))
    /\ \A c \in parentBound : refCount[c] < MaxRefCount /\ Reclaimed(c) =>
         Reclaimed(c)'
    /\ stack' \in Seq(GoodFrame)

\* The calls that insert or delete a context, or give back a reference.
SameInserts ==
    /\ \A op, c : op \in {"Link", "Delete", "Chained"} =>
         (On(stack', op, c) <=> On(stack, op, c))
    /\ stack' \in Seq(GoodFrame)

LEMMA OwnersKeep ==
    ASSUME AllInv, UNCHANGED CountsNow, SameOwners, SameInserts
    PROVE  TreeInv' /\ CountInv'
<1>1. TreeInv'
  BY DEF AllInv, TreeInv, CountsNow, UpIsLive, Grounded, SameOwners, SameInserts
<1>2. CountInv'
  <2>1. \A c : Users(c)' = Users(c)
    BY DEF Users, CountsNow, SameInserts
  <2>2. ASSUME NEW c \in parentBound, refCount[c] < MaxRefCount
        PROVE  refCount[c] = Owners(c)' + Pending(stack', c)
    <3> DEFINE A == Cardinality(Kids(c) \cap parentBound)
               B == Cardinality(Users(c))
               P == Pending(stack, c)
               Q == Pending(stack', c)
    <3>1. refCount[c] = 1 + A + B + handles[c] + P
      BY <2>2 DEF AllInv, CountInv, Owners
    <3>2. Owners(c)' = 1 + A + B + handles'[c]
      BY <2>1 DEF Owners, CountsNow, Kids
    <3>3. /\ handles[c] \in Nat /\ handles'[c] \in Nat
          /\ A \in Nat /\ B \in Nat /\ P \in Int /\ Q \in Int
      BY Types, PendingSign, KidsAndUsers DEF AllInv, SameOwners, SameInserts
    <3>4. handles'[c] + Q = handles[c] + P
      BY <2>2 DEF SameOwners
    <3> HIDE DEF A, B, P, Q
    <3>5. refCount[c] = Owners(c)' + Q
      BY <3>1, <3>2, <3>3, <3>4
    <3> QED
      BY <3>5 DEF Q
  <2> QED
    BY <2>2 DEF AllInv, CountInv, CountsNow
<1> QED
  BY <1>1, <1>2

LEMMA CallsKeep ==
    ASSUME AllInv, UNCHANGED CountsNow, UNCHANGED weAreInFreeList, StackInv',
           SameOwners, SameCalls
    PROVE  AccInv'
<1>1. TreeInv' /\ CountInv'
  <2>1. SameInserts
    BY DEF SameCalls, SameInserts
  <2> QED
    BY <2>1, OwnersKeep
<1>3. UseInv'
  BY DEF AllInv, UseInv, CountsNow, Min, SameCalls
<1>4. ListedInv'
  <2>1. \A c \in Ctx : Min(c)' = Min(c) /\ AtMinimum(c)' = AtMinimum(c)
    BY DEF AtMinimum, Min, CountsNow
  <2>2. weAreInFreeList \subseteq Ctx
    BY Types DEF AllInv
  <2>3. parentBound' = parentBound /\ refCount' = refCount
    BY DEF CountsNow
  <2>4. \A c : AtMinimum(c)' => c \in Ctx
    BY <2>3, Types DEF AtMinimum, AllInv
  <2> QED
    BY <2>1, <2>2, <2>3, <2>4 DEF AllInv, ListedInv, SameCalls
<1> QED
  BY <1>1, <1>3, <1>4 DEF AccInv

\* The types after a step.
LEMMA TypesAfter ==
    ASSUME AllInv, [Next]_vars
    PROVE  /\ TypeInv' /\ ListInv'
           /\ handles' \in [Ctx -> Nat] /\ stack' \in Seq(GoodFrame)
           /\ parentBound' \subseteq Ctx
           /\ weAreInFreeList' \subseteq Ctx
<1>1. TypeInv' /\ ListInv'
  BY TypeStep, ListStep DEF AllInv
<1> QED
  BY <1>1 DEF TypeInv, TypeOK

LEMMA GoodSame ==
    ASSUME UNCHANGED CountsNow, UNCHANGED handles, NEW x, Good(x) PROVE Good(x)'
  BY DEF Good, CountsNow, AtMinimum, Min, Namesakes

\* The running call, and what waits below it.
LEMMA Below ==
    ASSUME AllInv, stack # <<>>, NEW t, t = Tail(stack)
    PROVE  /\ t \in Seq(GoodFrame) /\ Nested(t)
           /\ Top \in GoodFrame /\ Good(Top)
           /\ \A x \in Frames(t) : x \in GoodFrame /\ MayInterrupt(Top, x) /\ Good(x)
           /\ \A op, c : On(stack, op, c) <=> (Top.op = op /\ Top.ctx = c) \/ On(t, op, c)
           /\ \A c : /\ Pending(t, c) \in Int
                     /\ Pending(stack, c) = Pending(t, c) + Worth(Top, c)
<1>1. t \in Seq(GoodFrame) /\ Top \in GoodFrame /\ stack = <<Top>> \o t
  BY TopView DEF AllInv
<1>2. PushedOn(stack, Top, t)
  BY <1>1, PushView
<1>3. \A x \in Frames(t) : x \in GoodFrame
  BY <1>1, FramesType
<1> QED
  BY <1>1, <1>2, <1>3 DEF AllInv, StackInv, PushedOn

\* One call exchanged for another, or for nothing.
LEMMA ReturnStack ==
    ASSUME NEW t \in Seq(GoodFrame), Nested(t), stack' = t,
           \A x \in Frames(t) : Good(x)'
    PROVE  StackInv'
  BY DEF StackInv

LEMMA CallStack ==
    ASSUME NEW t \in Seq(GoodFrame), Nested(t), NEW f \in GoodFrame,
           stack' = <<f>> \o t, \A x \in Frames(t) : MayInterrupt(f, x) /\ Good(x)',
           Good(f)'
    PROVE  /\ StackInv'
           /\ \A op, c : On(stack', op, c) <=> (f.op = op /\ f.ctx = c) \/ On(t, op, c)
           /\ \A c : Pending(stack', c) = Pending(t, c) + Worth(f, c)
<1>1. PushedOn(stack', f, t)
  BY PushView
<1> QED
  BY <1>1 DEF StackInv, PushedOn

LEMMA TwoCallsStack ==
    ASSUME NEW t \in Seq(GoodFrame), Nested(t), NEW f \in GoodFrame, NEW g \in GoodFrame,
           stack' = <<f, g>> \o t, MayInterrupt(f, g),
           \A x \in Frames(t) : MayInterrupt(f, x) /\ MayInterrupt(g, x) /\ Good(x)',
           Good(f)', Good(g)'
    PROVE  /\ StackInv'
           /\ \A op, c : On(stack', op, c) <=>
                \/ f.op = op /\ f.ctx = c
                \/ g.op = op /\ g.ctx = c
                \/ On(t, op, c)
           /\ \A c : Pending(stack', c) = Pending(t, c) + Worth(g, c) + Worth(f, c)
<1> DEFINE u == <<g>> \o t
<1>1. PushedOn(u, g, t)
  BY PushView
<1>2. stack' = <<f>> \o u
  BY Push2
<1>3. u \in Seq(GoodFrame)
  BY <1>1 DEF PushedOn
<1>4. PushedOn(stack', f, u)
  BY <1>2, <1>3, PushView
<1> HIDE DEF u
<1> QED
  BY <1>1, <1>4 DEF StackInv, PushedOn

\* The frames a Top may be exchanged for.
LEMMA CallIs ==
    ASSUME NEW op, NEW c
    PROVE  Call(op, c).op = op /\ Call(op, c).ctx = c
  BY CallFields

\* A read or a resolution ends.
LEMMA EndsKeep ==
    ASSUME AllInv, TypeInv', ReadDone \/ ReadFails \/ EndResolve PROVE AccInv'
<1> DEFINE t == Tail(stack)
<1>0. /\ stack # <<>> /\ Top.op \in {"Read", "Resolve"} /\ stack' = t
      /\ UNCHANGED CountsNow /\ UNCHANGED handles /\ UNCHANGED weAreInFreeList
      /\ UNCHANGED cleaning
  BY DEF ReadDone, ReadFails, EndResolve, Running, Return, CountsNow
<1>1. /\ t \in Seq(GoodFrame) /\ Nested(t)
      /\ \A x \in Frames(t) : Good(x)
      /\ \A op, c : On(stack, op, c) <=> (Top.op = op /\ Top.ctx = c) \/ On(t, op, c)
      /\ \A c : Pending(t, c) \in Int /\ Pending(stack, c) = Pending(t, c) + Worth(Top, c)
  BY <1>0, Below
<1> HIDE DEF t
<1>2. StackInv'
  BY <1>0, <1>1, GoodSame, ReturnStack
<1>3. \A c : Worth(Top, c) = 0
  BY <1>0 DEF Worth
<1>4. SameOwners
  BY <1>0, <1>1, <1>3, Types DEF SameOwners, AllInv, TreeInv
<1>5. SameCalls
  BY <1>0, <1>1 DEF SameCalls, Reclaimed
<1> QED
  BY <1>0, <1>2, <1>4, <1>5, CallsKeep

\* The client makes a call.
LEMMA ClientCall ==
    ASSUME AllInv, ClientTurn, NEW f \in GoodFrame,
           f.op \in {"Read", "Resolve", "AddRef", "Release"}, stack' = <<f>> \o stack,
           UNCHANGED CountsNow, UNCHANGED weAreInFreeList, UNCHANGED cleaning,
           \A x \in Frames(stack) : Good(x)', Good(f)', SameOwners
    PROVE  AccInv'
<1>1. /\ stack \in Seq(GoodFrame) /\ Nested(stack)
      /\ \A x \in Frames(stack) : x.op \in {"Read", "Resolve"}
      /\ \A op, c : op \notin {"Read", "Resolve"} => ~On(stack, op, c)
  BY Types, ClientFrames DEF AllInv, StackInv
<1>2. \A x \in Frames(stack) : MayInterrupt(f, x)
  BY <1>1 DEF MayInterrupt, Climbing
<1>3. /\ StackInv'
      /\ \A op, c : On(stack', op, c) <=> (f.op = op /\ f.ctx = c) \/ On(stack, op, c)
  BY <1>1, <1>2, CallStack
<1>4. stack' \in Seq(GoodFrame)
  BY <1>1, PushView DEF PushedOn
<1>5. SameCalls
  BY <1>1, <1>3, <1>4 DEF SameCalls, Reclaimed
<1> QED
  BY <1>3, <1>5, CallsKeep

LEMMA BeginResolveKeeps == ASSUME AllInv, BeginResolve PROVE AccInv'
<1> DEFINE f == Call("Resolve", NoCtx)
<1>1. f \in GoodFrame /\ f.op = "Resolve"
  BY GoodCleanCall, CallIs
<1>2. /\ ClientTurn /\ stack' = <<f>> \o stack
      /\ UNCHANGED CountsNow /\ UNCHANGED handles /\ UNCHANGED weAreInFreeList
      /\ UNCHANGED cleaning
  BY DEF BeginResolve, CountsNow
<1> HIDE DEF f
<1>3. \A x \in Frames(stack) : Good(x)'
  BY <1>2, GoodSame DEF AllInv, StackInv
<1>4. Good(f)'
  BY <1>1 DEF Good
<1>5. \A c : Pending(stack', c) = Pending(stack, c)
  <2>1. PushedOn(stack', f, stack)
    BY <1>1, <1>2, PushView, Types DEF AllInv
  <2> QED
    BY <1>1, <2>1 DEF PushedOn, Worth
<1>6. SameOwners
  BY <1>2, <1>5, Types DEF SameOwners, AllInv, TreeInv
<1> QED
  BY <1>1, <1>2, <1>3, <1>4, <1>6, ClientCall

LEMMA StartReadKeeps ==
    ASSUME Quiet, AllInv, NEW p \in Ctx, StartRead(p) PROVE AccInv'
<1>1. /\ ClientTurn /\ handles[p] > 0
      /\ UNCHANGED CountsNow /\ UNCHANGED handles /\ UNCHANGED weAreInFreeList
      /\ UNCHANGED cleaning
  BY DEF StartRead, CountsNow, Quiet
<1>2. PICK S \in Listings(p) : stack' = <<[op |-> "Read", ctx |-> p, left |-> S]>> \o stack
  BY DEF StartRead, Quiet
<1> DEFINE f == [op |-> "Read", ctx |-> p, left |-> S]
<1>3. f \in GoodFrame /\ f.op = "Read" /\ f.ctx = p
  <2>1. S \subseteq Kids(p)
    BY DEF Listings
  <2> QED
    BY <2>1 DEF GoodFrame, Frame, Op, Kids
<1>4. stack' = <<f>> \o stack
  BY <1>2
<1> HIDE DEF f
<1>5. \A x \in Frames(stack) : Good(x)'
  BY <1>1, GoodSame DEF AllInv, StackInv
<1>6. Good(f)'
  BY <1>1, <1>3 DEF Good
<1>7. \A c : Pending(stack', c) = Pending(stack, c)
  <2>1. PushedOn(stack', f, stack)
    BY <1>3, <1>4, PushView, Types DEF AllInv
  <2> QED
    BY <1>3, <2>1 DEF PushedOn, Worth
<1>8. SameOwners
  BY <1>1, <1>7, Types DEF SameOwners, AllInv, TreeInv
<1> QED
  BY <1>1, <1>3, <1>4, <1>5, <1>6, <1>8, ClientCall

\* A handle more, and the AddRef() for it.
LEMMA AcquireKeeps ==
    ASSUME AllInv, TypeInv', NEW k \in Ctx, Acquire(k) PROVE AccInv'
<1> DEFINE f == Call("AddRef", k)
<1>1. f \in GoodFrame /\ f.op = "AddRef" /\ f.ctx = k
  BY GoodCall, CallIs DEF Op
<1>2. /\ ClientTurn /\ k \in live /\ stack' = <<f>> \o stack
      /\ handles' = [handles EXCEPT ![k] = @ + 1]
      /\ UNCHANGED CountsNow /\ UNCHANGED weAreInFreeList /\ UNCHANGED cleaning
  BY DEF Acquire, CountsNow
<1> HIDE DEF f
<1>3. /\ \A c \in Ctx : handles[c] \in Nat /\ handles'[c] >= handles[c]
      /\ \A c \in Ctx : handles'[c] = handles[c] + (IF c = k THEN 1 ELSE 0)
  BY <1>2, Types DEF AllInv
<1>4. k \in Roots \cup parentBound
  BY <1>2, ClientFrames DEF AllInv, TreeInv
<1>5. \A x \in Frames(stack) : Good(x)'
  <2> TAKE x \in Frames(stack)
  <2>1. x.op \in {"Read", "Resolve"} /\ Good(x) /\ x \in GoodFrame
    BY <1>2, ClientFrames, FramesType, Types DEF AllInv, StackInv
  <2>2. x.op = "Read" => x.ctx \in Ctx
    BY <2>1 DEF GoodFrame
  <2>3. x.op = "Read" => handles'[x.ctx] > 0
    BY <1>3, <2>1, <2>2, Types DEF Good, AllInv
  <2> QED
    BY <2>1, <2>3 DEF Good
<1>6. Good(f)'
  BY <1>1, <1>2, <1>4 DEF Good, CountsNow
<1>7. \A c \in Ctx : handles'[c] + Pending(stack', c) = handles[c] + Pending(stack, c)
  <2>1. PushedOn(stack', f, stack)
    BY <1>1, <1>2, PushView, Types DEF AllInv
  <2>2. \A c : Pending(stack', c) = Pending(stack, c) + (IF c = k THEN -1 ELSE 0)
               /\ Pending(stack, c) \in Int
    BY <1>1, <2>1 DEF PushedOn, Worth
  <2> QED
    BY <1>3, <2>2
<1>8. SameOwners
  <2>1. \A c \in Ctx : handles'[c] > 0 => c \in Roots \cup parentBound
    BY <1>3, <1>4, Types DEF AllInv, TreeInv
  <2> QED
    BY <1>7, <2>1, Types DEF SameOwners, AllInv, TypeInv, TypeOK
<1> QED
  BY <1>1, <1>2, <1>5, <1>6, <1>8, ClientCall

\* A handle less, and the Release() for it.
LEMMA DropKeeps ==
    ASSUME AllInv, TypeInv', NEW k \in Ctx, Drop(k) PROVE AccInv'
<1> DEFINE f == Call("Release", k)
<1>1. f \in GoodFrame /\ f.op = "Release" /\ f.ctx = k
  BY GoodCall, CallIs DEF Op
<1>2. /\ ClientTurn /\ handles[k] > (IF ReadingDir(k) THEN 1 ELSE 0)
      /\ stack' = <<f>> \o stack
      /\ handles' = [handles EXCEPT ![k] = @ - 1]
      /\ UNCHANGED CountsNow /\ UNCHANGED weAreInFreeList /\ UNCHANGED cleaning
  BY DEF Drop, CountsNow
<1> HIDE DEF f
<1>3. /\ \A c \in Ctx : handles[c] \in Nat /\ handles'[c] <= handles[c]
      /\ \A c \in Ctx : handles'[c] = handles[c] - (IF c = k THEN 1 ELSE 0)
      /\ handles[k] > 0
  BY <1>2, Types DEF AllInv
<1>4. k \in Roots \cup parentBound
  BY <1>3 DEF AllInv, TreeInv
<1>5. \A x \in Frames(stack) : Good(x)'
  <2> TAKE x \in Frames(stack)
  <2>1. x.op \in {"Read", "Resolve"} /\ Good(x) /\ x \in GoodFrame
    BY <1>2, ClientFrames, FramesType, Types DEF AllInv, StackInv
  <2>2. x.op = "Read" => x.ctx \in Ctx
    BY <2>1 DEF GoodFrame
  <2>3. x.op = "Read" /\ x.ctx = k => ReadingDir(k)
    BY DEF Frames, ReadingDir
  <2>4. x.op = "Read" => handles'[x.ctx] > 0
    BY <1>2, <1>3, <2>1, <2>2, <2>3, Types DEF Good, AllInv
  <2> QED
    BY <2>1, <2>4 DEF Good
<1>6. Good(f)'
  BY <1>1, <1>2, <1>4 DEF Good, CountsNow
<1>7. \A c \in Ctx : handles'[c] + Pending(stack', c) = handles[c] + Pending(stack, c)
  <2>1. PushedOn(stack', f, stack)
    BY <1>1, <1>2, PushView, Types DEF AllInv
  <2>2. \A c : Pending(stack', c) = Pending(stack, c) + (IF c = k THEN 1 ELSE 0)
               /\ Pending(stack, c) \in Int
    BY <1>1, <2>1 DEF PushedOn, Worth
  <2> QED
    BY <1>3, <2>2
<1>8. SameOwners
  <2>1. \A c \in Ctx : handles'[c] > 0 => c \in Roots \cup parentBound
    <3>1. \A c \in Ctx : handles[c] > 0 => c \in Roots \cup parentBound
      BY DEF AllInv, TreeInv
    <3>2. \A c \in Ctx : handles'[c] > 0 => handles[c] > 0
      BY <1>3
    <3> QED
      BY <3>1, <3>2
  <2> QED
    BY <1>7, <2>1, Types DEF SameOwners, AllInv, TypeInv, TypeOK
<1> QED
  BY <1>1, <1>2, <1>5, <1>6, <1>8, ClientCall

\* Below a cleanUp() nothing waits.
LEMMA CleanBottom ==
    ASSUME AllInv, Running("Clean")
    PROVE  /\ \A x \in Frames(Tail(stack)) : FALSE
           /\ \A op, c : op # "Clean" => ~On(stack, op, c)
           /\ \A c : Pending(stack, c) = 0
<1> DEFINE t == Tail(stack)
<1>1. /\ stack # <<>> /\ Top.op = "Clean"
      /\ \A x \in Frames(t) : MayInterrupt(Top, x)
      /\ \A op, c : On(stack, op, c) <=> (Top.op = op /\ Top.ctx = c) \/ On(t, op, c)
  BY Below DEF Running
<1> HIDE DEF t
<1>2. \A x \in Frames(t) : FALSE
  BY <1>1 DEF MayInterrupt, Climbing
<1>3. \A op, c : op # "Clean" => ~On(stack, op, c)
  BY <1>1, <1>2 DEF On
<1>4. \A c : Pending(stack, c) = 0
  BY <1>3, PendingSign, Types DEF AllInv
<1> QED
  BY <1>2, <1>3, <1>4 DEF t

LEMMA CleanUpKeeps == ASSUME AllInv, CleanUp PROVE AccInv'
<1> DEFINE f == Call("Clean", NoCtx)
<1>1. f \in GoodFrame /\ f.op = "Clean"
  BY GoodCleanCall, CallIs
<1>2. /\ stack = <<>> /\ stack' = <<f>>
      /\ UNCHANGED CountsNow /\ UNCHANGED handles /\ UNCHANGED weAreInFreeList
  BY DEF CleanUp, CountsNow
<1> HIDE DEF f
<1>3. /\ stack \in Seq(GoodFrame) /\ stack' = <<f>> \o stack
      /\ \A x \in Frames(stack) : FALSE
  BY <1>1, <1>2 DEF Frames
<1>4. Good(f)'
  BY <1>1 DEF Good
<1>5. Nested(stack)
  BY DEF AllInv, StackInv
<1>6. /\ StackInv'
      /\ \A op, c : On(stack', op, c) <=> (f.op = op /\ f.ctx = c) \/ On(stack, op, c)
      /\ \A c : Pending(stack', c) = Pending(stack, c) + Worth(f, c)
  BY <1>1, <1>3, <1>4, <1>5, CallStack
<1>7. \A c : Pending(stack', c) = Pending(stack, c)
  BY <1>1, <1>3, <1>6, PendingSign DEF Worth
<1>8. SameOwners
  BY <1>2, <1>7, Types DEF SameOwners, AllInv, TreeInv
<1>9. stack' \in Seq(GoodFrame)
  BY <1>1, <1>3, PushView DEF PushedOn
<1>10. \A op, c : ~On(stack, op, c)
  BY <1>3 DEF On
<1>11. SameCalls
  BY <1>1, <1>6, <1>9, <1>10 DEF SameCalls, Reclaimed
<1> QED
  BY <1>2, <1>6, <1>8, <1>11, CallsKeep

LEMMA CleanUpDoneKeeps == ASSUME AllInv, CleanUpDone PROVE AccInv'
<1> DEFINE t == Tail(stack)
<1>1. /\ Running("Clean") /\ stack # <<>> /\ stack' = t
      /\ UNCHANGED CountsNow /\ UNCHANGED handles /\ UNCHANGED weAreInFreeList
  BY DEF CleanUpDone, CountsNow, Running, Return
<1>2. t \in Seq(GoodFrame) /\ Nested(t)
  BY <1>1, Below
<1>3. /\ \A x \in Frames(t) : FALSE
      /\ \A op, c : op # "Clean" => ~On(stack, op, c)
      /\ \A c : Pending(stack, c) = 0
  BY <1>1, CleanBottom
<1> HIDE DEF t
<1>4. StackInv'
  BY <1>1, <1>2, <1>3, ReturnStack
<1>5. \A op, c : ~On(stack', op, c)
  BY <1>1, <1>3 DEF On
<1>6. \A c : Pending(stack', c) = 0
  BY <1>1, <1>2, <1>5, PendingSign
<1>7. SameOwners
  BY <1>1, <1>3, <1>6, Types DEF SameOwners, AllInv, TreeInv
<1>8. SameCalls
  BY <1>1, <1>2, <1>3, <1>5 DEF SameCalls, Reclaimed
<1> QED
  BY <1>1, <1>4, <1>7, <1>8, CallsKeep

\* The frame of a read() that has met the entry k.
After(k) == <<[Top EXCEPT !.left = @ \ {k}]>> \o Tail(stack)

LEMMA ReadFrame ==
    ASSUME AllInv, Running("Read"), NEW k
    PROVE  /\ stack # <<>> /\ ClientTurn
           /\ Top.ctx \in Ctx /\ handles[Top.ctx] > 0
           /\ After(k) \in Seq(GoodFrame) /\ Nested(After(k))
           /\ \A x \in Frames(After(k)) :
                /\ x \in GoodFrame /\ Good(x)
                /\ x.op \in {"Read", "Resolve"}
           /\ \A op, c : op \notin {"Read", "Resolve"} => ~On(After(k), op, c)
           /\ \A c : Pending(After(k), c) = 0
<1> DEFINE t == Tail(stack)
           r == [Top EXCEPT !.left = @ \ {k}]
           u == After(k)
<1>0. stack # <<>> /\ Top.op = "Read" /\ ClientTurn
  BY DEF Running, ClientTurn
<1>1. /\ t \in Seq(GoodFrame) /\ Nested(t)
      /\ Top \in GoodFrame /\ Good(Top)
      /\ \A x \in Frames(t) : x \in GoodFrame /\ MayInterrupt(Top, x) /\ Good(x)
  BY <1>0, Below
<1>2. Top.ctx \in Ctx /\ handles[Top.ctx] > 0
  BY <1>0, <1>1 DEF GoodFrame, Good
<1>3. r \in GoodFrame /\ r.op = "Read" /\ r.ctx = Top.ctx
  <2>1. /\ Top \in [op : Op, ctx : Ctx \cup {NoCtx}, left : SUBSET Ctx]
        /\ Top.left \subseteq Kids(Top.ctx)
    BY <1>1 DEF GoodFrame, Frame
  <2>2. r \in [op : Op, ctx : Ctx \cup {NoCtx}, left : SUBSET Ctx]
    BY <2>1
  <2>3. r.op = Top.op /\ r.ctx = Top.ctx /\ r.left = Top.left \ {k}
    BY <2>1
  <2> QED
    BY <1>0, <1>2, <2>1, <2>2, <2>3 DEF GoodFrame, Frame
<1>4. \A x \in Frames(t) : x.op \in {"Read", "Resolve"} /\ MayInterrupt(r, x)
  <2> TAKE x \in Frames(t)
  <2>1. MayInterrupt(Top, x)
    BY <1>1
  <2>2. x.op \in {"Read", "Resolve"}
    BY <1>0, <2>1 DEF MayInterrupt, Climbing
  <2> QED
    BY <1>3, <2>2 DEF MayInterrupt
<1>5. Good(r)
  BY <1>2, <1>3 DEF Good
<1> HIDE DEF r
<1>6. PushedOn(u, r, t)
  BY <1>1, <1>3, PushView DEF After, r
<1>7. /\ u \in Seq(GoodFrame) /\ Nested(u)
      /\ \A x \in Frames(u) : x \in GoodFrame /\ Good(x) /\ x.op \in {"Read", "Resolve"}
  BY <1>1, <1>3, <1>4, <1>5, <1>6 DEF PushedOn
<1> HIDE DEF u
<1>8. \A op, c : op \notin {"Read", "Resolve"} => ~On(u, op, c)
  BY <1>7 DEF On
<1>9. \A c : Pending(u, c) = 0
  BY <1>7, <1>8, PendingSign
<1> QED
  BY <1>0, <1>2, <1>7, <1>8, <1>9 DEF u

\* An entry that is there already, or that has gone.
LEMMA MeetsKeeps ==
    ASSUME AllInv, NEW k, Running("Read"),
           UNCHANGED CountsNow, UNCHANGED <<handles, weAreInFreeList, cleaning>>,
           \/ stack' = After(k)
           \/ \E d \in Namesakes(Top.ctx, k) :
                stack' = <<Call("AddRef", d), Call("Release", d)>> \o After(k)
    PROVE  AccInv'
<1> DEFINE u == After(k)
<1>1. /\ u \in Seq(GoodFrame) /\ Nested(u)
      /\ \A x \in Frames(u) : Good(x) /\ x.op \in {"Read", "Resolve"}
      /\ \A op, c : op \notin {"Read", "Resolve"} => ~On(u, op, c)
      /\ \A c : Pending(u, c) = 0
      /\ ClientTurn /\ Top.ctx \in Ctx
  BY ReadFrame
<1>2. /\ \A op, c : op \notin {"Read", "Resolve"} => ~On(stack, op, c)
      /\ \A c : Pending(stack, c) = 0
  BY <1>1, ClientFrames DEF AllInv
<1>3. \A x \in Frames(u) : Good(x)'
  BY <1>1, GoodSame
<1>4. CASE stack' = u
  <2> HIDE DEF u
  <2>1. StackInv'
    BY <1>1, <1>3, <1>4, ReturnStack
  <2>2. SameOwners
    BY <1>1, <1>2, <1>4, Types DEF SameOwners, AllInv, TreeInv
  <2>3. SameCalls
    BY <1>1, <1>2, <1>4 DEF SameCalls, Reclaimed
  <2> QED
    BY <2>1, <2>2, <2>3, CallsKeep
<1>5. ASSUME NEW d \in Namesakes(Top.ctx, k),
             stack' = <<Call("AddRef", d), Call("Release", d)>> \o u
      PROVE  AccInv'
  <2> DEFINE f == Call("AddRef", d)
             g == Call("Release", d)
  <2>1. d \in parentBound /\ d \in Ctx
    BY <1>1, Types DEF Namesakes, AllInv, TreeInv
  <2>2. /\ f \in GoodFrame /\ f.op = "AddRef" /\ f.ctx = d
        /\ g \in GoodFrame /\ g.op = "Release" /\ g.ctx = d
    BY <2>1, GoodCall, CallIs DEF Op
  <2>3. stack' = <<f, g>> \o u
    BY <1>5
  <2> HIDE DEF f, g, u
  <2>4. Good(f)' /\ Good(g)'
    BY <2>1, <2>2 DEF Good, CountsNow
  <2>5. \A x \in Frames(u) : MayInterrupt(f, x) /\ MayInterrupt(g, x)
    BY <1>1, <2>2 DEF MayInterrupt, Climbing
  <2>6. MayInterrupt(f, g)
    BY <2>2 DEF MayInterrupt
  <2>7. /\ StackInv'
        /\ \A op, c : On(stack', op, c) <=>
                \/ f.op = op /\ f.ctx = c
                \/ g.op = op /\ g.ctx = c
                \/ On(u, op, c)
        /\ \A c : Pending(stack', c) = Pending(u, c) + Worth(g, c) + Worth(f, c)
    BY <1>1, <1>3, <2>2, <2>3, <2>4, <2>5, <2>6, TwoCallsStack
  <2>8. \A c : Pending(stack', c) = 0
    BY <1>1, <2>2, <2>7 DEF Worth
  <2>9. SameOwners
    BY <1>2, <2>8, Types DEF SameOwners, AllInv, TreeInv
  <2>10. stack' \in Seq(GoodFrame)
    BY <1>1, <2>2, <2>3, GoodStack
  <2>11. SameCalls
    BY <1>1, <1>2, <2>2, <2>7, <2>10 DEF SameCalls, Reclaimed
  <2> QED
    BY <2>7, <2>9, <2>11, CallsKeep
<1> QED
  BY <1>4, <1>5

-----------------------------------------------------------------------------
(***************************************************************************)
(* The calls of a Release(), and AddRef().                                 *)
(***************************************************************************)

\* The frames that may wait for a call on c that climbs the tree.
LEMMA UnderClimber ==
    ASSUME AllInv, stack # <<>>, Top.op \in Climbing, Top.op # "TryAdd"
    PROVE  \A x \in Frames(Tail(stack)) :
             /\ x.op \in {"Read", "Resolve", "Chained", "Delete", "Clean"}
             /\ x.op = "Chained" =>
                  /\ Top.ctx \in Above(Up[x.ctx]) /\ x.ctx # Top.ctx
                  /\ x.ctx \in parentBound
<1> TAKE x \in Frames(Tail(stack))
<1>1. MayInterrupt(Top, x) /\ Good(x)
  BY Below
<1>2. x.op \in {"Read", "Resolve", "Chained", "Delete", "Clean"}
  BY <1>1 DEF MayInterrupt, Climbing
<1>3. ASSUME x.op = "Chained"
      PROVE  Top.ctx \in Above(Up[x.ctx]) /\ x.ctx # Top.ctx /\ x.ctx \in parentBound
  <2>1. Top.ctx \in Above(Up[x.ctx])
    BY <1>1, <1>3 DEF MayInterrupt, Climbing
  <2>2. x.ctx \in parentBound
    BY <1>1, <1>3 DEF Good, AtMinimum
  <2>3. x.ctx \notin Above(Up[x.ctx])
    BY <2>2, ParentStays DEF AllInv
  <2> QED
    BY <2>1, <2>2, <2>3
<1> QED
  BY <1>2, <1>3

LEMMA TryAddKeeps ==
    ASSUME Quiet, AllInv, TryToAddOurselfToFreeList PROVE AccInv'
<1> DEFINE t == Tail(stack)
           c == Top.ctx
<1>1. /\ stack # <<>> /\ Top.op = "TryAdd" /\ stack' = t
      /\ UNCHANGED CountsNow /\ UNCHANGED handles /\ UNCHANGED cleaning
  BY DEF TryToAddOurselfToFreeList, Running, Return, CountsNow, Quiet
<1>2. /\ t \in Seq(GoodFrame) /\ Nested(t) /\ Good(Top)
      /\ \A x \in Frames(t) : Good(x)
      /\ \A op, k : On(stack, op, k) <=> (Top.op = op /\ Top.ctx = k) \/ On(t, op, k)
      /\ \A k : Pending(t, k) \in Int /\ Pending(stack, k) = Pending(t, k) + Worth(Top, k)
  BY <1>1, Below
<1>3. AtMinimum(c)
  BY <1>1, <1>2 DEF Good
<1>4. weAreInFreeList' = weAreInFreeList \cup {c}
  BY <1>3 DEF TryToAddOurselfToFreeList, AtMinimum
<1> HIDE DEF t
<1>5. StackInv'
  BY <1>1, <1>2, GoodSame, ReturnStack
<1>6. \A k : Worth(Top, k) = 0
  BY <1>1 DEF Worth
<1>7. SameOwners
  BY <1>1, <1>2, <1>6, Types DEF SameOwners, AllInv, TreeInv
<1>8. SameInserts
  BY <1>1, <1>2 DEF SameInserts
<1>9. TreeInv' /\ CountInv'
  BY <1>1, <1>7, <1>8, OwnersKeep
<1>10. \A op, k : op # "TryAdd" => (On(stack', op, k) <=> On(stack, op, k))
  BY <1>1, <1>2
<1>11. UseInv'
  BY <1>1, <1>10 DEF AllInv, UseInv, CountsNow, Min, Reclaimed
<1>12. ListedInv'
  <2>1. \A k : Min(k)' = Min(k) /\ AtMinimum(k)' = AtMinimum(k)
    BY <1>1 DEF AtMinimum, Min, CountsNow
  <2>2. \A k : Reclaimed(k)' = Reclaimed(k)
    BY <1>1, <1>10 DEF Reclaimed
  <2>3. c \in parentBound /\ refCount[c] = Min(c) /\ refCount[c] < MaxRefCount
        /\ Min(c) \in Int
    BY <1>3, Types DEF AtMinimum, AllInv
  <2>4. ASSUME NEW k \in weAreInFreeList' \ Roots
        PROVE  /\ k \in parentBound /\ refCount[k] < MaxRefCount
               /\ refCount[k] <= Min(k) \/ (Reclaimed(k) /\ refCount[k] = Min(k) + 1)
    <3>1. CASE k = c
      BY <2>3, <3>1
    <3>2. CASE k # c
      BY <1>4, <2>4, <3>2 DEF AllInv, ListedInv
    <3> QED
      BY <3>1, <3>2
  <2>5. \A k \in Reclaims : AtMinimum(k) =>
          k \in weAreInFreeList' \/ On(stack', "TryAdd", k)
    BY <1>1, <1>2, <1>4 DEF AllInv, ListedInv
  <2> QED
    BY <1>1, <2>1, <2>2, <2>4, <2>5 DEF ListedInv, CountsNow
<1> QED
  BY <1>5, <1>9, <1>11, <1>12 DEF AccInv

\* The flag is cleared after the parent has been released.
LEMMA ParentReleasedKeeps ==
    ASSUME AllInv, ParentReleased PROVE AccInv'
<1> DEFINE t == Tail(stack)
           c == Top.ctx
<1>1. /\ stack # <<>> /\ Top.op = "Chained" /\ stack' = t
      /\ holdingParent' = holdingParent \ {c}
      /\ UNCHANGED <<live, items, parentBound, refCount>>
      /\ UNCHANGED <<handles, weAreInFreeList, cleaning>>
  BY DEF ParentReleased, Running, Return
<1>2. /\ t \in Seq(GoodFrame) /\ Nested(t) /\ Good(Top)
      /\ \A x \in Frames(t) : Good(x) /\ x \in GoodFrame
      /\ \A op, k : On(stack, op, k) <=> (Top.op = op /\ Top.ctx = k) \/ On(t, op, k)
      /\ \A k : Pending(t, k) \in Int /\ Pending(stack, k) = Pending(t, k) + Worth(Top, k)
  BY <1>1, Below
<1>3. \A x \in Frames(t) : x.op = "Chained" => x.ctx # c
  BY <1>1, UnderClimber DEF Climbing
<1>4. AtMinimum(c) /\ c \in holdingParent
  BY <1>1, <1>2 DEF Good
<1> HIDE DEF t, c
<1>5. \A k : Min(k)' = Min(k) /\ AtMinimum(k)' = AtMinimum(k)
  BY <1>1 DEF AtMinimum, Min
<1>6. \A x \in Frames(t) : Good(x)'
  <2> TAKE x \in Frames(t)
  <2>1. x.op = "Chained" => x.ctx \in holdingParent'
    BY <1>1, <1>2, <1>3 DEF Good
  <2> QED
    BY <1>1, <1>2, <1>5, <2>1 DEF Good, Namesakes
<1>7. StackInv'
  BY <1>1, <1>2, <1>6, ReturnStack
<1>8. \A k : Pending(stack', k) = Pending(stack, k)
  <2>1. \A k : Worth(Top, k) = 0
    BY <1>1 DEF Worth
  <2> QED
    BY <1>1, <1>2, <2>1
<1>9. \A op, k : op # "Chained" \/ k # c => (On(stack', op, k) <=> On(stack, op, k))
  BY <1>1, <1>2 DEF c
<1>10. On(stack, "Chained", c) /\ ~On(stack', "Chained", c)
  BY <1>1, <1>2, <1>3 DEF On, c
<1>11. \A k : Users(k)' = Users(k)
  BY <1>1, <1>9, <1>10 DEF Users
<1>12. TreeInv'
  BY <1>1, <1>9 DEF AllInv, TreeInv, UpIsLive, Grounded
<1>13. CountInv'
  BY <1>1, <1>8, <1>11 DEF AllInv, CountInv, Owners
<1>14. UseInv'
  <2>1. \A k : Reclaimed(k)' = Reclaimed(k)
    BY <1>1, <1>9 DEF Reclaimed
  <2>2. Min(c) \in Int /\ refCount[c] = Min(c)
    BY <1>4, Types DEF AtMinimum, AllInv
  <2>3. ASSUME NEW k \in parentBound, refCount[k] < MaxRefCount
        PROVE  /\ refCount[k] >= Min(k)
               /\ refCount[k] > Min(k) =>
                    k \in holdingParent' \/ (Reclaimed(k) /\ refCount[k] = Min(k) + 1)
               /\ refCount[k] = Min(k) /\ k \in holdingParent' =>
                    On(stack', "Chain", k) \/ On(stack', "Chained", k)
    <3>1. CASE k = c
      BY <1>1, <2>2, <3>1
    <3>2. CASE k # c
      BY <1>1, <1>9, <2>3, <3>2 DEF AllInv, UseInv
    <3> QED
      BY <3>1, <3>2
  <2> QED
    BY <1>1, <1>5, <2>1, <2>3 DEF UseInv
<1>15. ListedInv'
  BY <1>1, <1>5, <1>9 DEF AllInv, ListedInv, Reclaimed
<1> QED
  BY <1>7, <1>12, <1>13, <1>14, <1>15 DEF AccInv

\* A Release() that has reached the minimum releases the parent, unless it had
\* no reference on it.
LEMMA ReleaseParentKeeps ==
    ASSUME AllInv, ReleaseParent PROVE AccInv'
<1>0. PICK c : c = Top.ctx
  OBVIOUS
<1> DEFINE t == Tail(stack)
           p == Up[c]
<1>1. /\ stack # <<>> /\ Top.op = "Chain"
      /\ UNCHANGED CountsNow /\ UNCHANGED <<handles, weAreInFreeList, cleaning>>
  BY DEF ReleaseParent, Running, CountsNow
<1>2. /\ t \in Seq(GoodFrame) /\ Nested(t) /\ Good(Top)
      /\ \A x \in Frames(t) : Good(x) /\ x \in GoodFrame
      /\ \A op, k : On(stack, op, k) <=> (Top.op = op /\ Top.ctx = k) \/ On(t, op, k)
      /\ \A k : Pending(t, k) \in Int /\ Pending(stack, k) = Pending(t, k) + Worth(Top, k)
  BY <1>0, <1>1, Below
<1>3. \A x \in Frames(t) :
        /\ x.op \in {"Read", "Resolve", "Chained", "Delete", "Clean"}
        /\ x.op = "Chained" => c \in Above(Up[x.ctx]) /\ x.ctx # c /\ x.ctx \in parentBound
  BY <1>0, <1>1, UnderClimber DEF Climbing
<1>4. AtMinimum(c) /\ c \in parentBound /\ c \in Ctx
  BY <1>0, <1>1, <1>2, Types DEF Good, AtMinimum, AllInv
<1>5. \A x \in Frames(t) : Good(x)'
  BY <1>1, <1>2, GoodSame
<1>6. \A k : Pending(stack, k) = Pending(t, k)
  <2>1. \A k : Worth(Top, k) = 0
    BY <1>1 DEF Worth
  <2> QED
    BY <1>2, <2>1
<1>7. \A k : Min(k)' = Min(k) /\ AtMinimum(k)' = AtMinimum(k)
  BY <1>1 DEF AtMinimum, Min, CountsNow
<1>8. ~On(stack, "Chained", c)
  <2>1. ~On(t, "Chained", c)
    BY <1>3 DEF On
  <2> QED
    BY <1>1, <1>2, <2>1
<1>9. ASSUME c \notin holdingParent PROVE AccInv'
  <2>0. stack' = t
    BY <1>0, <1>9 DEF ReleaseParent, Return
  <2> HIDE DEF t
  <2>1. StackInv'
    BY <1>2, <1>5, <2>0, ReturnStack
  <2>2. SameOwners
    BY <1>1, <1>6, <2>0, Types DEF SameOwners, AllInv, TreeInv
  <2>3. SameInserts
    BY <1>1, <1>2, <2>0 DEF SameInserts
  <2>4. TreeInv' /\ CountInv'
    BY <1>1, <2>2, <2>3, OwnersKeep
  <2>5. \A op, k : op # "Chain" \/ k # c => (On(stack', op, k) <=> On(stack, op, k))
    BY <1>0, <1>1, <1>2, <2>0
  <2>6. \A k : Reclaimed(k)' = Reclaimed(k)
    BY <1>1, <2>5 DEF Reclaimed
  <2>7. \A k \in parentBound : refCount[k] < MaxRefCount /\ refCount[k] = Min(k)
          /\ k \in holdingParent => On(stack', "Chain", k) \/ On(stack', "Chained", k)
    BY <1>9, <2>5 DEF AllInv, UseInv
  <2>8. UseInv'
    BY <1>1, <1>7, <2>6, <2>7 DEF AllInv, UseInv, CountsNow
  <2>9. ListedInv'
    BY <1>1, <1>7, <2>5, <2>6 DEF AllInv, ListedInv, CountsNow
  <2> QED
    BY <2>1, <2>4, <2>8, <2>9 DEF AccInv
<1>10. ASSUME c \in holdingParent PROVE AccInv'
  <2> DEFINE f == Call("Release", p)
             g == Call("Chained", c)
  <2>0. /\ c \in Ctx \ Roots /\ p \in Ctx /\ p \in Roots \cup parentBound
        /\ c \notin Above(p) /\ p # c
    BY <1>4, ParentStays DEF AllInv
  <2>1. stack' = <<f, g>> \o t
    BY <1>0, <1>4, <1>10 DEF ReleaseParent, Continue
  <2>2. /\ f \in GoodFrame /\ f.op = "Release" /\ f.ctx = p
        /\ g \in GoodFrame /\ g.op = "Chained" /\ g.ctx = c
    BY <1>4, <2>0, GoodCall, CallIs DEF Op
  <2>3. /\ p \in Above(Up[c])
        /\ \A x \in Frames(t) : x.op = "Chained" => p \in Above(Up[x.ctx])
    <3>1. p \in Above(Up[c])
      BY <2>0, AboveSelf
    <3>2. ASSUME NEW x \in Frames(t), x.op = "Chained" PROVE p \in Above(Up[x.ctx])
      <4>1. c \in Above(Up[x.ctx]) /\ x.ctx \in parentBound
        BY <1>3, <3>2
      <4>2. Up[x.ctx] \in Ctx
        BY <4>1, ParentStays DEF AllInv
      <4> QED
        BY <2>0, <4>1, <4>2, AboveUp
    <3> QED
      BY <3>1, <3>2
  <2> HIDE DEF t, p, f, g
  <2>4. MayInterrupt(f, g)
    <3>1. f.op \in Climbing /\ f.ctx \in Above(Up[g.ctx])
      BY <2>2, <2>3 DEF Climbing
    <3> QED
      BY <2>2, <3>1 DEF MayInterrupt
  <2>5. \A x \in Frames(t) : MayInterrupt(f, x) /\ MayInterrupt(g, x)
    BY <1>3, <2>2, <2>3 DEF MayInterrupt, Climbing
  <2>6. Good(f)' /\ Good(g)'
    <3>1. AtMinimum(c)' /\ c \in holdingParent' /\ p \in Roots \cup parentBound'
      BY <1>1, <1>4, <1>7, <1>10, <2>0 DEF CountsNow
    <3>2. Good(f)'
      BY <2>2, <3>1 DEF Good
    <3>3. Good(g)'
      BY <2>2, <3>1 DEF Good
    <3> QED
      BY <3>2, <3>3
  <2>7. /\ StackInv'
        /\ \A op, k : On(stack', op, k) <=>
                \/ f.op = op /\ f.ctx = k
                \/ g.op = op /\ g.ctx = k
                \/ On(t, op, k)
        /\ \A k : Pending(stack', k) = Pending(t, k) + Worth(g, k) + Worth(f, k)
    <3>1. t \in Seq(GoodFrame) /\ Nested(t)
      BY <1>2
    <3>2. \A x \in Frames(t) : MayInterrupt(f, x) /\ MayInterrupt(g, x) /\ Good(x)'
      BY <1>5, <2>5
    <3>3. f \in GoodFrame /\ g \in GoodFrame
      BY <2>2
    <3> QED
      BY <2>1, <2>4, <2>6, <3>1, <3>2, <3>3, TwoCallsStack
  <2>8. /\ \A op, k : op \notin {"Chain", "Release", "Chained"} =>
             (On(stack', op, k) <=> On(stack, op, k))
        /\ \A k : On(stack, "Release", k) => On(stack', "Release", k)
        /\ \A k : On(stack', "Chained", k) <=> On(stack, "Chained", k) \/ k = c
        /\ \A k : k # c => (On(stack', "Chain", k) <=> On(stack, "Chain", k))
    BY <1>0, <1>1, <1>2, <2>2, <2>7
  <2>9. \A k : Pending(stack', k) = Pending(stack, k) + (IF k = p THEN 1 ELSE 0)
    <3>1. \A k : Worth(g, k) = 0 /\ Worth(f, k) = (IF k = p THEN 1 ELSE 0)
      BY <2>2 DEF Worth
    <3> QED
      BY <1>2, <1>6, <2>7, <3>1
  <2>10. TreeInv'
    BY <1>1, <2>8 DEF AllInv, TreeInv, UpIsLive, Grounded, CountsNow
  <2>11. /\ Users(p)' = Users(p) \ {c} /\ c \in Users(p)
         /\ \A k : k # p => Users(k)' = Users(k)
    <3>1. \A k : c \in Kids(k) <=> k = p
      BY <1>4 DEF Kids, p
    <3>2. holdingParent' = holdingParent
      BY <1>1 DEF CountsNow
    <3>3. \A k : On(stack', "Chained", k) <=> On(stack, "Chained", k) \/ k = c
      BY <2>8
    <3> QED
      BY <1>8, <1>10, <3>1, <3>2, <3>3 DEF Users
  <2>12. CountInv'
    <3>1. ASSUME NEW k \in parentBound, refCount[k] < MaxRefCount
          PROVE  refCount[k] = Owners(k)' + Pending(stack', k)
      <4> DEFINE A == Cardinality(Kids(k) \cap parentBound)
                 B == Cardinality(Users(k))
                 B1 == Cardinality(Users(k)')
                 P == Pending(stack, k)
                 Q == Pending(stack', k)
      <4>1. refCount[k] = 1 + A + B + handles[k] + P
        BY <3>1 DEF AllInv, CountInv, Owners
      <4>2. Owners(k)' = 1 + A + B1 + handles[k]
        BY <1>1 DEF Owners, CountsNow, Kids
      <4>3. /\ handles[k] \in Nat /\ A \in Nat /\ B \in Nat /\ P \in Int
        BY Types, PendingSign, KidsAndUsers DEF AllInv
      <4>4. B1 = B - (IF k = p THEN 1 ELSE 0)
        <5>1. CASE k = p
          <6>1. Users(p) \in SUBSET Ctx /\ c \in Users(p)
            BY <2>11, KidsAndUsers
          <6>2. Cardinality(Users(p) \ {c}) = Cardinality(Users(p)) - 1
            BY <6>1, CardMinus
          <6> QED
            BY <2>11, <5>1, <6>2
        <5>2. CASE k # p
          BY <2>11, <4>3, <5>2
        <5> QED
          BY <5>1, <5>2
      <4>5. Q = P + (IF k = p THEN 1 ELSE 0)
        BY <2>9
      <4> HIDE DEF A, B, B1, P, Q
      <4>6. refCount[k] = Owners(k)' + Q
        BY <4>1, <4>2, <4>3, <4>4, <4>5
      <4> QED
        BY <4>6 DEF Q
    <3> QED
      BY <1>1, <3>1 DEF AllInv, CountInv, CountsNow
  <2>13. \A k : Reclaimed(k) => Reclaimed(k)'
    BY <1>1, <2>8 DEF Reclaimed
  <2>14. \A k : On(stack, "Chain", k) \/ On(stack, "Chained", k) =>
           On(stack', "Chain", k) \/ On(stack', "Chained", k)
    BY <2>8
  <2>15. UseInv'
    BY <1>1, <1>7, <2>13, <2>14 DEF AllInv, UseInv, CountsNow
  <2>16. ListedInv'
    BY <1>1, <1>7, <2>8, <2>13 DEF AllInv, ListedInv, CountsNow
  <2> QED
    BY <2>7, <2>10, <2>12, <2>15, <2>16 DEF AccInv
<1> QED
  BY <1>9, <1>10

\* A count that has stuck: the call changes nothing.
LEMMA StuckKeeps ==
    ASSUME AllInv, stack # <<>>, Top.op \in {"AddRef", "Release"}, Sticky(Top.ctx),
           stack' = Tail(stack), UNCHANGED CountsNow,
           UNCHANGED <<handles, weAreInFreeList, cleaning>>
    PROVE  AccInv'
<1> DEFINE t == Tail(stack)
<1>1. /\ t \in Seq(GoodFrame) /\ Nested(t)
      /\ \A x \in Frames(t) : Good(x)
      /\ \A op, k : On(stack, op, k) <=> (Top.op = op /\ Top.ctx = k) \/ On(t, op, k)
      /\ \A k : Pending(t, k) \in Int /\ Pending(stack, k) = Pending(t, k) + Worth(Top, k)
  BY Below
<1>2. \A k \in parentBound : refCount[k] < MaxRefCount => Top.ctx # k
  BY Types DEF Sticky, AllInv
<1>3. \A k \in parentBound : refCount[k] < MaxRefCount => Pending(t, k) = Pending(stack, k)
  BY <1>1, <1>2 DEF Worth
<1> HIDE DEF t
<1>4. StackInv'
  BY <1>1, GoodSame, ReturnStack DEF t
<1>5. SameOwners
  BY <1>3, Types DEF SameOwners, AllInv, TreeInv, t
<1>6. SameCalls
  BY <1>1, <1>2 DEF SameCalls, Reclaimed, t
<1> QED
  BY <1>4, <1>5, <1>6, CallsKeep

\* Nothing that waits for a Release() will change a count.
LEMMA ReleaseWaits ==
    ASSUME AllInv, stack # <<>>, Top.op = "Release"
    PROVE  /\ \A op, k : op \in {"AddRef", "Release", "Link", "Chain", "TryAdd"} =>
                ~On(Tail(stack), op, k)
           /\ ~On(Tail(stack), "Chained", Top.ctx)
           /\ \A k : Pending(Tail(stack), k) = 0
           /\ \A k : Pending(stack, k) = IF k = Top.ctx THEN 1 ELSE 0
<1> DEFINE t == Tail(stack)
<1>1. /\ t \in Seq(GoodFrame)
      /\ \A k : Pending(t, k) \in Int /\ Pending(stack, k) = Pending(t, k) + Worth(Top, k)
  BY Below
<1>2. \A x \in Frames(t) :
        /\ x.op \in {"Read", "Resolve", "Chained", "Delete", "Clean"}
        /\ x.op = "Chained" => x.ctx # Top.ctx
  BY UnderClimber DEF Climbing
<1> HIDE DEF t
<1>3. /\ \A op, k : op \in {"AddRef", "Release", "Link", "Chain", "TryAdd"} => ~On(t, op, k)
      /\ ~On(t, "Chained", Top.ctx)
  BY <1>2 DEF On
<1>4. \A k : Pending(t, k) = 0
  BY <1>1, <1>3, PendingSign
<1>5. \A k : Pending(stack, k) = IF k = Top.ctx THEN 1 ELSE 0
  <2>1. \A k : Worth(Top, k) = IF k = Top.ctx THEN 1 ELSE 0
    BY DEF Worth
  <2> QED
    BY <1>1, <1>4, <2>1
<1> QED
  BY <1>3, <1>4, <1>5 DEF t

\* A reference less.
LEMMA ReleaseKeeps ==
    ASSUME AllInv, Release PROVE AccInv'
<1>0. PICK c : c = Top.ctx
  OBVIOUS
<1> DEFINE t == Tail(stack)
<1>1. /\ stack # <<>> /\ Top.op = "Release"
      /\ UNCHANGED <<live, items, parentBound, holdingParent>>
      /\ UNCHANGED <<handles, weAreInFreeList, cleaning>>
  BY DEF Release, Running
<1>2. /\ t \in Seq(GoodFrame) /\ Nested(t) /\ Good(Top)
      /\ \A x \in Frames(t) : Good(x) /\ x \in GoodFrame
      /\ \A op, k : On(stack, op, k) <=> (Top.op = op /\ Top.ctx = k) \/ On(t, op, k)
  BY <1>1, Below
<1>3. \A x \in Frames(t) :
        /\ x.op \in {"Read", "Resolve", "Chained", "Delete", "Clean"}
        /\ x.op = "Chained" => c \in Above(Up[x.ctx]) /\ x.ctx # c /\ x.ctx \in parentBound
  BY <1>0, <1>1, UnderClimber DEF Climbing
<1>4. /\ \A op, k : op \in {"AddRef", "Release", "Link", "Chain", "TryAdd"} => ~On(t, op, k)
      /\ ~On(t, "Chained", c)
      /\ \A k : Pending(t, k) = 0
      /\ \A k : Pending(stack, k) = IF k = c THEN 1 ELSE 0
  BY <1>0, <1>1, ReleaseWaits
<1>5. CASE Sticky(c)
  <2>1. stack' = Tail(stack) /\ UNCHANGED CountsNow
    BY <1>0, <1>1, <1>5 DEF Release, Return, CountsNow
  <2> QED
    BY <1>0, <1>1, <1>5, <2>1, StuckKeeps
<1>6. ASSUME ~Sticky(c) PROVE AccInv'
  <2>1. c \in Ctx /\ c \in parentBound
    <3>1. c \in Roots \cup parentBound
      BY <1>0, <1>1, <1>2 DEF Good
    <3>2. \A k \in Roots : refCount[k] = MaxRefCount
      BY DEF AllInv, CountInv
    <3>3. c \notin Roots
      BY <1>6, <3>2, SettingAssumption DEF Sticky
    <3> QED
      BY <3>1, <3>3, Types DEF AllInv
  <2>2. /\ refCount[c] \in Int /\ Min(c) \in Int /\ MaxRefCount \in Int
        /\ refCount[c] < MaxRefCount /\ handles[c] \in Nat
    BY <1>6, <2>1, Types DEF Sticky, AllInv
  <2>3. refCount[c] >= Min(c) + 1
    <3>1. refCount[c] >= Min(c) + handles[c] + Pending(stack, c)
      BY <2>1, <2>2, CountBound DEF AllInv
    <3> QED
      BY <1>4, <2>2, <3>1
  <2>4. refCount' = [refCount EXCEPT ![c] = @ - 1]
    BY <1>0, <1>6 DEF Release
  <2>5. /\ refCount'[c] = refCount[c] - 1
        /\ \A k \in Ctx : k # c => refCount'[k] = refCount[k]
    BY <2>1, <2>4, Types DEF AllInv
  <2>6. /\ \A k : Min(k)' = Min(k)
        /\ \A k \in Ctx : k # c => AtMinimum(k)' = AtMinimum(k)
    BY <1>1, <2>5 DEF AtMinimum, Min
  <2>7. \A x \in Frames(t) : Good(x)'
    <3> TAKE x \in Frames(t)
    <3>1. Good(x) /\ x \in GoodFrame
      BY <1>2
    <3>2. x.op \in {"Read", "Resolve", "Chained", "Delete", "Clean"}
      BY <1>3
    <3>3. x.op = "Chained" => AtMinimum(x.ctx)' /\ x.ctx \in holdingParent'
      BY <1>1, <1>3, <2>6, <3>1, Types DEF Good, AllInv
    <3> QED
      BY <1>1, <3>1, <3>2, <3>3 DEF Good
  <2>8. \A op, k : On(stack, op, k) <=> (op = "Release" /\ k = c) \/ On(t, op, k)
    BY <1>0, <1>1, <1>2
  <2>9. /\ StackInv' /\ SameInserts
        /\ \A k : Pending(stack', k) = 0
        /\ refCount'[c] = Min(c) =>
             On(stack', "TryAdd", c) /\ On(stack', "Chain", c)
    <3>1. CASE refCount[c] - 1 # Min(c)
      <4>1. stack' = t
        BY <1>0, <1>6, <3>1 DEF Release, Return
      <4> HIDE DEF t
      <4>2. StackInv'
        BY <1>2, <2>7, <4>1, ReturnStack
      <4>3. SameInserts
        BY <1>2, <2>8, <4>1 DEF SameInserts
      <4> QED
        BY <1>4, <2>5, <3>1, <4>1, <4>2, <4>3
    <3>2. ASSUME refCount[c] - 1 = Min(c)
          PROVE  /\ StackInv' /\ SameInserts
                 /\ \A k : Pending(stack', k) = 0
                 /\ On(stack', "TryAdd", c) /\ On(stack', "Chain", c)
      <4> DEFINE f == Call("TryAdd", c)
                 g == Call("Chain", c)
      <4>1. stack' = <<f, g>> \o t
        BY <1>0, <1>6, <3>2 DEF Release, Continue
      <4>2. /\ f \in GoodFrame /\ f.op = "TryAdd" /\ f.ctx = c
            /\ g \in GoodFrame /\ g.op = "Chain" /\ g.ctx = c
        BY <2>1, GoodCall, CallIs DEF Op
      <4> HIDE DEF t, f, g
      <4>3. MayInterrupt(f, g)
        BY <4>2 DEF MayInterrupt
      <4>4. \A x \in Frames(t) : MayInterrupt(f, x) /\ MayInterrupt(g, x)
        BY <1>3, <4>2 DEF MayInterrupt, Climbing
      <4>5. Good(f)' /\ Good(g)'
        <5>1. AtMinimum(c)'
          BY <1>1, <2>1, <2>2, <2>5, <2>6, <3>2 DEF AtMinimum
        <5>2. Good(f)'
          BY <4>2, <5>1 DEF Good
        <5>3. Good(g)'
          BY <4>2, <5>1 DEF Good
        <5> QED
          BY <5>2, <5>3
      <4>6. /\ StackInv'
            /\ \A op, k : On(stack', op, k) <=>
                 \/ f.op = op /\ f.ctx = k
                 \/ g.op = op /\ g.ctx = k
                 \/ On(t, op, k)
            /\ \A k : Pending(stack', k) = Pending(t, k) + Worth(g, k) + Worth(f, k)
        <5>1. t \in Seq(GoodFrame) /\ Nested(t)
          BY <1>2
        <5>2. \A x \in Frames(t) : MayInterrupt(f, x) /\ MayInterrupt(g, x) /\ Good(x)'
          BY <2>7, <4>4
        <5>3. f \in GoodFrame /\ g \in GoodFrame
          BY <4>2
        <5> QED
          BY <4>1, <4>3, <4>5, <5>1, <5>2, <5>3, TwoCallsStack
      <4>7. stack' \in Seq(GoodFrame)
        BY <1>2, <4>1, <4>2, GoodStack
      <4>8. SameInserts
        BY <2>8, <4>2, <4>6, <4>7 DEF SameInserts
      <4>9. \A k : Pending(stack', k) = 0
        <5>1. \A k : Worth(f, k) = 0 /\ Worth(g, k) = 0
          BY <4>2 DEF Worth
        <5> QED
          BY <1>4, <4>6, <5>1
      <4> QED
        BY <4>2, <4>6, <4>8, <4>9
    <3> QED
      BY <3>1, <3>2
  <2> HIDE DEF t
  <2>10. TreeInv'
    BY <1>1, <2>9 DEF AllInv, TreeInv, UpIsLive, Grounded, SameInserts
  <2>11. \A k : Users(k)' = Users(k)
    BY <1>1, <2>9 DEF Users, SameInserts
  <2>12. CountInv'
    <3>1. ASSUME NEW k \in parentBound, refCount[k] < MaxRefCount
          PROVE  refCount'[k] = Owners(k)' + Pending(stack', k)
      <4> DEFINE A == Cardinality(Kids(k) \cap parentBound)
                 B == Cardinality(Users(k))
                 P == Pending(stack, k)
      <4>0. k \in Ctx
        BY <3>1, Types DEF AllInv
      <4>1. refCount[k] = 1 + A + B + handles[k] + P
        BY <3>1 DEF AllInv, CountInv, Owners
      <4>2. Owners(k)' = 1 + A + B + handles[k]
        BY <1>1, <2>11 DEF Owners, Kids
      <4>3. handles[k] \in Nat /\ A \in Nat /\ B \in Nat
        BY <4>0, Types, KidsAndUsers DEF AllInv
      <4>4. P = IF k = c THEN 1 ELSE 0
        BY <1>4
      <4>5. refCount'[k] = refCount[k] - (IF k = c THEN 1 ELSE 0)
        BY <2>2, <2>5, <4>0, Types DEF AllInv
      <4> HIDE DEF A, B, P
      <4>6. refCount'[k] = Owners(k)'
        BY <4>1, <4>2, <4>3, <4>4, <4>5
      <4> QED
        BY <2>9, <4>2, <4>3, <4>6
    <3>2. ASSUME NEW k \in parentBound', refCount'[k] < MaxRefCount
          PROVE  refCount'[k] = Owners(k)' + Pending(stack', k)
      <4>1. k \in parentBound /\ refCount[k] < MaxRefCount
        BY <1>1, <2>2, <2>5, <3>2, Types DEF AllInv
      <4> QED
        BY <3>1, <4>1
    <3>3. \A k \in Roots : refCount'[k] = MaxRefCount
      <4>1. c \notin Roots
        BY <2>1, Types DEF AllInv
      <4> QED
        BY <2>5, <4>1 DEF AllInv, CountInv, Roots
    <3> QED
      BY <3>2, <3>3 DEF CountInv
  <2>13. /\ \A k : k # c => ~Reclaimed(k)
         /\ \A k : ~On(stack, "Chain", k) /\ ~On(stack, "TryAdd", k)
         /\ \A k : On(stack', "Chained", k) <=> On(stack, "Chained", k)
    BY <1>4, <2>8, <2>9 DEF Reclaimed, SameInserts
  <2>14. ASSUME NEW k \in parentBound, refCount'[k] < MaxRefCount
         PROVE  /\ refCount'[k] >= Min(k)
                /\ refCount'[k] > Min(k) => k \in holdingParent
                /\ refCount'[k] = Min(k) /\ k \in holdingParent =>
                     On(stack', "Chain", k) \/ On(stack', "Chained", k)
    <3>0. k \in Ctx
      BY Types DEF AllInv
    <3>1. CASE k = c
      <4>1. refCount'[c] > Min(c) => c \in holdingParent
        BY <2>1, <2>2, <2>5 DEF AllInv, UseInv
      <4> QED
        BY <2>2, <2>3, <2>5, <2>9, <3>1, <4>1
    <3>2. CASE k # c
      <4>1. refCount'[k] = refCount[k] /\ refCount[k] < MaxRefCount
        BY <2>5, <2>14, <3>0, <3>2
      <4> QED
        BY <2>13, <3>2, <4>1 DEF AllInv, UseInv
    <3> QED
      BY <3>1, <3>2
  <2>15. UseInv'
    BY <1>1, <2>6, <2>14 DEF UseInv
  <2>16. ASSUME NEW k \in weAreInFreeList \ Roots
         PROVE  k \in parentBound /\ refCount'[k] < MaxRefCount /\ refCount'[k] <= Min(k)
    <3>0. /\ k \in parentBound /\ k \in Ctx /\ refCount[k] < MaxRefCount
          /\ refCount[k] <= Min(k) \/ (Reclaimed(k) /\ refCount[k] = Min(k) + 1)
      BY <2>16, Types DEF AllInv, ListedInv
    <3>1. CASE k = c
      BY <2>2, <2>5, <3>0, <3>1
    <3>2. CASE k # c
      BY <2>5, <2>13, <3>0, <3>2
    <3> QED
      BY <3>0, <3>1, <3>2
  <2>17. ASSUME NEW k \in Reclaims, AtMinimum(k)'
         PROVE  k \in weAreInFreeList' \/ On(stack', "TryAdd", k)
    <3>0. k \in Ctx
      BY <1>1, <2>17, Types DEF AtMinimum, AllInv
    <3>1. CASE k = c
      BY <2>6, <2>9, <2>17, <3>1 DEF AtMinimum
    <3>2. CASE k # c
      BY <1>1, <2>6, <2>13, <2>17, <3>0, <3>2 DEF AllInv, ListedInv
    <3> QED
      BY <3>1, <3>2
  <2>18. ListedInv'
    BY <1>1, <2>6, <2>16, <2>17 DEF ListedInv
  <2> QED
    BY <2>9, <2>10, <2>12, <2>15, <2>18 DEF AccInv
<1> QED
  BY <1>5, <1>6

\* Where references are added nothing is being given back.
LEMMA AddsAlone ==
    ASSUME AllInv, stack # <<>>, Top.op \in {"AddRef", "Link"}
    PROVE  /\ cleaning = FALSE
           /\ \A x \in Frames(Tail(stack)) :
                x.op \in {"Read", "Resolve", "Release", "AddRef", "Link"}
           /\ \A op, k : op \in {"Chain", "Chained", "TryAdd", "Delete"} =>
                ~On(Tail(stack), op, k) /\ ~On(stack, op, k)
           /\ \A k : ~Reclaimed(k)
<1> DEFINE t == Tail(stack)
<1>1. /\ \A x \in Frames(t) : MayInterrupt(Top, x)
      /\ \A op, k : On(stack, op, k) <=> (Top.op = op /\ Top.ctx = k) \/ On(t, op, k)
  BY Below
<1>2. \A x \in Frames(t) : x.op \in {"Read", "Resolve", "Release", "AddRef", "Link"}
  BY <1>1 DEF MayInterrupt, Climbing
<1>3. cleaning = FALSE
  BY ListTop DEF AllInv, Inner
<1> HIDE DEF t
<1>4. \A op, k : op \in {"Chain", "Chained", "TryAdd", "Delete"} => ~On(t, op, k)
  BY <1>2 DEF On
<1>5. \A op, k : op \in {"Chain", "Chained", "TryAdd", "Delete"} => ~On(stack, op, k)
  BY <1>1, <1>4
<1> QED
  BY <1>2, <1>3, <1>4, <1>5 DEF t, Reclaimed

\* Then a context has a reference on its parent exactly when it is in use.
LEMMA HoldsInUse ==
    ASSUME AllInv, \A k : ~Reclaimed(k),
           \A k : ~On(stack, "Chain", k) /\ ~On(stack, "Chained", k),
           NEW c \in parentBound, refCount[c] < MaxRefCount
    PROVE  /\ refCount[c] >= Min(c)
           /\ c \in holdingParent <=> refCount[c] # Min(c)
           /\ c \in weAreInFreeList => refCount[c] = Min(c)
<1>1. refCount[c] \in Int /\ Min(c) \in Int /\ c \notin Roots
  BY Types DEF AllInv
<1>2. /\ refCount[c] >= Min(c)
      /\ refCount[c] > Min(c) => c \in holdingParent
      /\ refCount[c] = Min(c) => c \notin holdingParent
  BY DEF AllInv, UseInv
<1>3. c \in weAreInFreeList => refCount[c] <= Min(c)
  BY <1>1 DEF AllInv, ListedInv
<1> QED
  BY <1>1, <1>2, <1>3

\* A reference more.
LEMMA AddRefKeeps ==
    ASSUME AllInv, AddRef PROVE AccInv'
<1>0. PICK c : c = Top.ctx
  OBVIOUS
<1> DEFINE t == Tail(stack)
           p == Up[c]
<1>1. /\ stack # <<>> /\ Top.op = "AddRef"
      /\ UNCHANGED <<live, items, parentBound>>
      /\ UNCHANGED <<handles, cleaning>>
  BY DEF AddRef, Running
<1>2. /\ t \in Seq(GoodFrame) /\ Nested(t) /\ Good(Top)
      /\ \A x \in Frames(t) : Good(x) /\ x \in GoodFrame
      /\ \A op, k : On(stack, op, k) <=> (Top.op = op /\ Top.ctx = k) \/ On(t, op, k)
      /\ \A k : Pending(t, k) \in Int /\ Pending(stack, k) = Pending(t, k) + Worth(Top, k)
  BY <1>1, Below
<1>3. /\ cleaning = FALSE
      /\ \A x \in Frames(t) : x.op \in {"Read", "Resolve", "Release", "AddRef", "Link"}
      /\ \A op, k : op \in {"Chain", "Chained", "TryAdd", "Delete"} =>
           ~On(t, op, k) /\ ~On(stack, op, k)
      /\ \A k : ~Reclaimed(k)
  BY <1>1, AddsAlone
<1>4. CASE Sticky(c)
  <2>1. /\ stack' = Tail(stack) /\ UNCHANGED CountsNow
        /\ UNCHANGED weAreInFreeList
    BY <1>0, <1>1, <1>4 DEF AddRef, Return, CountsNow
  <2> QED
    BY <1>0, <1>1, <1>4, <2>1, StuckKeeps
<1>5. ASSUME ~Sticky(c) PROVE AccInv'
  <2>1. c \in Ctx /\ c \in parentBound /\ c \notin Roots
    <3>1. c \in Roots \cup parentBound
      BY <1>0, <1>1, <1>2 DEF Good
    <3>2. \A k \in Roots : refCount[k] = MaxRefCount
      BY DEF AllInv, CountInv
    <3>3. c \notin Roots
      BY <1>5, <3>2, SettingAssumption DEF Sticky
    <3> QED
      BY <3>1, <3>3, Types DEF AllInv
  <2>2. /\ refCount[c] \in Int /\ Min(c) \in Int /\ MaxRefCount \in Int
        /\ refCount[c] < MaxRefCount
    BY <1>5, <2>1, Types DEF Sticky, AllInv
  <2>3. /\ refCount[c] >= Min(c)
        /\ c \in holdingParent <=> refCount[c] # Min(c)
        /\ c \in weAreInFreeList => refCount[c] = Min(c)
    <3>1. \A k : ~On(stack, "Chain", k) /\ ~On(stack, "Chained", k)
      BY <1>3
    <3>2. \A k : ~Reclaimed(k)
      BY <1>3
    <3> QED
      BY <2>1, <2>2, <3>1, <3>2, HoldsInUse
  <2>4. refCount' = [refCount EXCEPT ![c] = @ + 1]
    BY <1>0, <1>5 DEF AddRef
  <2>5. /\ refCount'[c] = refCount[c] + 1
        /\ \A k \in Ctx : k # c => refCount'[k] = refCount[k]
    BY <2>1, <2>4, Types DEF AllInv
  <2>6. /\ \A k : Min(k)' = Min(k)
        /\ \A k \in Ctx : k # c => AtMinimum(k)' = AtMinimum(k)
        /\ ~AtMinimum(c)'
    BY <1>1, <2>2, <2>3, <2>5 DEF AtMinimum, Min
  <2>7. \A x \in Frames(t) : Good(x)'
    <3> TAKE x \in Frames(t)
    <3>1. Good(x) /\ x \in GoodFrame
      BY <1>2
    <3>2. x.op \in {"Read", "Resolve", "Release", "AddRef", "Link"}
      BY <1>3
    <3> QED
      BY <1>1, <3>1, <3>2 DEF Good, Namesakes
  <2>8. /\ p \in Ctx /\ p \in Roots \cup parentBound /\ p # c
    BY <2>1, ParentStays DEF AllInv
  <2>9. /\ holdingParent' = holdingParent \cup {c}
        /\ c \notin weAreInFreeList'
        /\ \A k : k # c => (k \in weAreInFreeList' <=> k \in weAreInFreeList)
    BY <1>0, <1>5, <2>1, <2>3
    DEF AddRef, RemoveOurselfFromFreeList, TakesParent
  <2>10. /\ StackInv' /\ SameInserts
         /\ \A k : Pending(stack', k) =
              Pending(t, k) - (IF c \notin holdingParent /\ k = p THEN 1 ELSE 0)
    <3>1. ASSUME c \in holdingParent
          PROVE  StackInv' /\ SameInserts /\ stack' = t
      <4>1. stack' = t
        BY <1>0, <1>5, <2>3, <3>1 DEF AddRef, Return
      <4> HIDE DEF t
      <4>2. StackInv'
        BY <1>2, <2>7, <4>1, ReturnStack
      <4>3. SameInserts
        BY <1>1, <1>2, <4>1 DEF SameInserts
      <4> QED
        BY <4>1, <4>2, <4>3
    <3>2. ASSUME c \notin holdingParent
          PROVE  /\ StackInv' /\ SameInserts
                 /\ \A k : Pending(stack', k) = Pending(t, k) - (IF k = p THEN 1 ELSE 0)
      <4> DEFINE f == Call("AddRef", p)
      <4>1. stack' = <<f>> \o t
        BY <1>0, <1>5, <2>1, <2>3, <3>2 DEF AddRef, Continue, TakesParent
      <4>2. f \in GoodFrame /\ f.op = "AddRef" /\ f.ctx = p
        BY <2>8, GoodCall, CallIs DEF Op
      <4> HIDE DEF t, f
      <4>3. \A x \in Frames(t) : MayInterrupt(f, x) /\ Good(x)'
        BY <1>3, <2>7, <4>2 DEF MayInterrupt, Climbing
      <4>4. Good(f)'
        BY <1>1, <2>8, <4>2 DEF Good
      <4>5. /\ StackInv'
            /\ \A op, k : On(stack', op, k) <=> (f.op = op /\ f.ctx = k) \/ On(t, op, k)
            /\ \A k : Pending(stack', k) = Pending(t, k) + Worth(f, k)
        <5>1. t \in Seq(GoodFrame) /\ Nested(t)
          BY <1>2
        <5> QED
          BY <4>1, <4>2, <4>3, <4>4, <5>1, CallStack
      <4>6. stack' \in Seq(GoodFrame)
        BY <1>2, <4>1, <4>2, GoodStack
      <4>7. SameInserts
        BY <1>1, <1>2, <4>2, <4>5, <4>6 DEF SameInserts
      <4>8. \A k : Pending(stack', k) = Pending(t, k) - (IF k = p THEN 1 ELSE 0)
        <5>1. \A k : Worth(f, k) = IF k = p THEN -1 ELSE 0
          BY <4>2 DEF Worth
        <5> QED
          BY <1>2, <4>5, <5>1
      <4> QED
        BY <4>5, <4>7, <4>8
    <3>3. \A k : Pending(t, k) \in Int
      BY <1>2
    <3>4. CASE c \in holdingParent
      <4>1. ASSUME NEW k PROVE Pending(stack', k) = Pending(t, k) - 0
        <5>1. Pending(t, k) \in Int
          BY <3>3
        <5>2. stack' = t
          BY <3>1, <3>4
        <5> HIDE DEF t
        <5>3. Pending(t, k) = Pending(t, k) - 0
          BY <5>1
        <5> QED
          BY <5>2, <5>3
      <4> QED
        BY <3>1, <3>4, <4>1
    <3>5. CASE c \notin holdingParent
      BY <3>2, <3>5
    <3> QED
      BY <3>4, <3>5
  <2> HIDE DEF t
  <2>11. TreeInv'
    BY <1>1, <2>1, <2>9, <2>10 DEF AllInv, TreeInv, UpIsLive, Grounded, SameInserts
  <2>12. /\ c \notin holdingParent => Users(p)' = Users(p) \cup {c} /\ c \notin Users(p)
         /\ \A k : c \in holdingParent \/ k # p => Users(k)' = Users(k)
    <3>1. \A k : c \in Kids(k) <=> k = p
      BY <2>1 DEF Kids
    <3>2. \A k : ~On(stack', "Chained", k) /\ ~On(stack, "Chained", k)
      BY <1>3, <2>10 DEF SameInserts
    <3> QED
      BY <2>9, <3>1, <3>2 DEF Users
  <2>13. CountInv'
    <3>1. ASSUME NEW k \in parentBound, refCount[k] < MaxRefCount
          PROVE  refCount'[k] = Owners(k)' + Pending(stack', k)
      <4> DEFINE A == Cardinality(Kids(k) \cap parentBound)
                 B == Cardinality(Users(k))
                 B1 == Cardinality(Users(k)')
                 P == Pending(stack, k)
                 T == Pending(t, k)
                 Q == Pending(stack', k)
                 d == IF c \notin holdingParent /\ k = p THEN 1 ELSE 0
      <4>0. k \in Ctx
        BY <3>1, Types DEF AllInv
      <4>1. refCount[k] = 1 + A + B + handles[k] + P
        BY <3>1 DEF AllInv, CountInv, Owners
      <4>2. Owners(k)' = 1 + A + B1 + handles[k]
        BY <1>1 DEF Owners, Kids
      <4>3. handles[k] \in Nat /\ A \in Nat /\ B \in Nat /\ T \in Int
        BY <1>2, <4>0, Types, KidsAndUsers DEF AllInv
      <4>4. P = T - (IF k = c THEN 1 ELSE 0)
        <5>1. Worth(Top, k) = IF k = c THEN -1 ELSE 0
          BY <1>0, <1>1 DEF Worth
        <5> QED
          BY <1>2, <5>1
      <4>5. refCount'[k] = refCount[k] + (IF k = c THEN 1 ELSE 0)
        BY <2>2, <2>5, <4>0, Types DEF AllInv
      <4>6. B1 = B + d
        <5>1. CASE c \notin holdingParent /\ k = p
          <6>1. Users(p) \in SUBSET Ctx /\ c \notin Users(p)
            BY <2>12, <5>1, KidsAndUsers
          <6>2. Cardinality(Users(p) \cup {c}) = Cardinality(Users(p)) + 1
            BY <2>1, <6>1, CardPlus
          <6> QED
            BY <2>12, <5>1, <6>2
        <5>2. CASE ~(c \notin holdingParent /\ k = p)
          BY <2>12, <4>3, <5>2
        <5> QED
          BY <5>1, <5>2
      <4>7. Q = T - d
        BY <2>10
      <4>8. d \in Int
        OBVIOUS
      <4> HIDE DEF A, B, B1, P, Q, T, d
      <4>9. refCount'[k] = Owners(k)' + Q
        BY <4>1, <4>2, <4>3, <4>4, <4>5, <4>6, <4>7, <4>8
      <4> QED
        BY <4>9 DEF Q
    <3>2. ASSUME NEW k \in parentBound', refCount'[k] < MaxRefCount
          PROVE  refCount'[k] = Owners(k)' + Pending(stack', k)
      <4>1. k \in parentBound /\ refCount[k] < MaxRefCount
        BY <1>1, <2>2, <2>5, <3>2, Types DEF AllInv
      <4> QED
        BY <3>1, <4>1
    <3>3. \A k \in Roots : refCount'[k] = MaxRefCount
      BY <2>1, <2>5 DEF AllInv, CountInv, Roots
    <3> QED
      BY <3>2, <3>3 DEF CountInv
  <2>14. \A k : ~On(stack, "Chain", k) /\ ~On(stack, "Chained", k) /\ ~On(stack, "TryAdd", k)
    BY <1>3
  <2>15. \A k : ~Reclaimed(k)
    BY <1>3
  <2>16. ASSUME NEW k \in parentBound, refCount'[k] < MaxRefCount
         PROVE  /\ refCount'[k] >= Min(k)
                /\ refCount'[k] > Min(k) => k \in holdingParent'
                /\ refCount'[k] = Min(k) => k \notin holdingParent'
    <3>0. k \in Ctx
      BY Types DEF AllInv
    <3>1. CASE k = c
      BY <2>2, <2>3, <2>5, <2>9, <3>1
    <3>2. CASE k # c
      <4>1. refCount'[k] = refCount[k] /\ refCount[k] < MaxRefCount
        BY <2>5, <2>16, <3>0, <3>2
      <4> QED
        BY <2>9, <2>14, <2>15, <3>2, <4>1 DEF AllInv, UseInv
    <3> QED
      BY <3>1, <3>2
  <2>17. UseInv'
    BY <1>1, <2>6, <2>16 DEF UseInv
  <2>18. ASSUME NEW k \in weAreInFreeList' \ Roots
         PROVE  k \in parentBound /\ refCount'[k] < MaxRefCount /\ refCount'[k] <= Min(k)
    <3>1. k # c /\ k \in weAreInFreeList \ Roots
      BY <2>9, <2>18
    <3>2. /\ k \in parentBound /\ k \in Ctx /\ refCount[k] < MaxRefCount
          /\ refCount[k] <= Min(k)
      BY <2>15, <3>1, Types DEF AllInv, ListedInv
    <3> QED
      BY <2>5, <3>1, <3>2
  <2>19. ASSUME NEW k \in Reclaims, AtMinimum(k)'
         PROVE  k \in weAreInFreeList'
    <3>0. k \in Ctx /\ k # c
      BY <1>1, <2>6, <2>19, Types DEF AtMinimum, AllInv
    <3> QED
      BY <1>1, <2>6, <2>9, <2>14, <2>19, <3>0 DEF AllInv, ListedInv
  <2>20. ListedInv'
    BY <1>1, <2>6, <2>18, <2>19 DEF ListedInv
  <2> QED
    BY <2>10, <2>11, <2>13, <2>17, <2>20 DEF AccInv
<1> QED
  BY <1>4, <1>5

-----------------------------------------------------------------------------
(***************************************************************************)
(* Contexts come and go.                                                   *)
(***************************************************************************)

\* The handle that Insert() copies is in Items.  Its parent is in use by the
\* new context, which has taken its reference already, and by who asked.
LEMMA LinkKeeps ==
    ASSUME AllInv, Link PROVE AccInv'
<1>0. PICK c : c = Top.ctx
  OBVIOUS
<1> DEFINE t == Tail(stack)
           p == Up[c]
<1>1. /\ stack # <<>> /\ Top.op = "Link" /\ stack' = t /\ p \in live
      /\ items' = [items EXCEPT ![p] = @ \cup {c}]
      /\ UNCHANGED <<live, parentBound, refCount, holdingParent>>
      /\ UNCHANGED <<handles, weAreInFreeList, cleaning>>
  BY <1>0 DEF Link, Running, Return
<1>2. /\ t \in Seq(GoodFrame) /\ Nested(t) /\ Good(Top)
      /\ \A x \in Frames(t) : Good(x) /\ x \in GoodFrame
      /\ \A op, k : On(stack, op, k) <=> (Top.op = op /\ Top.ctx = k) \/ On(t, op, k)
      /\ \A k : Pending(t, k) \in Int /\ Pending(stack, k) = Pending(t, k) + Worth(Top, k)
  BY <1>1, Below
<1>3. /\ cleaning = FALSE
      /\ \A op, k : op \in {"Chain", "Chained", "TryAdd", "Delete"} =>
           ~On(t, op, k) /\ ~On(stack, op, k)
      /\ \A k : ~Reclaimed(k)
  BY <1>1, AddsAlone
<1>4. \A x \in Frames(t) : x.op \in {"Read", "Resolve", "Release"}
  <2> TAKE x \in Frames(t)
  <2>1. MayInterrupt(Top, x)
    BY <1>1, Below
  <2> QED
    BY <1>1, <2>1 DEF MayInterrupt, Climbing
<1>5. /\ c \in parentBound \ items[p] /\ c \in Ctx \ Roots /\ p \in Ctx
      /\ Namesakes(p, c) = {} /\ handles[p] > 0
  <2>1. c \in parentBound \ items[p] /\ Namesakes(p, c) = {} /\ handles[p] > 0
    BY <1>0, <1>1, <1>2 DEF Good
  <2> QED
    BY <2>1, ParentStays DEF AllInv
<1>6. /\ items'[p] = items[p] \cup {c}
      /\ \A k \in Ctx : k # p => items'[k] = items[k]
      /\ items[p] \in SUBSET Ctx
  BY <1>1, <1>5, Types DEF AllInv
<1>7. \A k : Pending(stack', k) = Pending(stack, k)
  <2>1. \A k : Worth(Top, k) = 0
    BY <1>1 DEF Worth
  <2> QED
    BY <1>1, <1>2, <2>1
<1>8. On(stack, "Link", c)
  BY <1>0, <1>1, <1>2
<1>9. \A k : ~On(stack, "AddRef", k)
  <2>1. \A k : ~On(t, "AddRef", k)
    BY <1>4 DEF On
  <2> QED
    BY <1>1, <1>2, <2>1
<1>10. \A k : On(stack', "Link", k) <=> On(stack, "Link", k) /\ k # c
  <2>1. \A k : ~On(t, "Link", k)
    BY <1>4 DEF On
  <2> QED
    BY <1>0, <1>1, <1>2, <2>1
<1>11. \A op, k : op # "Link" => (On(stack', op, k) <=> On(stack, op, k))
  BY <1>1, <1>2
<1>12. /\ Min(p)' = Min(p) + 1 /\ Min(p) \in Int
       /\ \A k \in Ctx : k # p => Min(k)' = Min(k)
  <2>1. Cardinality(items[p] \cup {c}) = Cardinality(items[p]) + 1
    BY <1>5, <1>6, CardPlus
  <2>2. Cardinality(items[p]) \in Nat
    BY <1>6, SubsetCard
  <2> QED
    BY <1>6, <2>1, <2>2 DEF Min
<1>13. ASSUME p \in parentBound, refCount[p] < MaxRefCount
       PROVE  /\ refCount[p] \in Int /\ refCount[p] >= Min(p) + 2
              /\ p \in holdingParent
  <2>1. /\ refCount[p] \in Int /\ handles[p] \in Nat /\ Pending(stack, p) \in Int
        /\ stack \in Seq(GoodFrame)
    BY <1>5, Types, PendingSign DEF AllInv
  <2>2. Pending(stack, p) >= 0
    BY <1>9, <2>1, PendingSign
  <2>3. c \in Kids(p)
    BY <1>5 DEF Kids
  <2>4. refCount[p] >= Min(p) + 1 + handles[p] + Pending(stack, p)
    BY <1>8, <1>13, <2>3, CountBound DEF AllInv
  <2>5. refCount[p] >= Min(p) + 2
    BY <1>5, <1>12, <2>1, <2>2, <2>4
  <2>6. p \in holdingParent
    BY <1>3, <1>12, <1>13, <2>1, <2>5 DEF AllInv, UseInv
  <2> QED
    BY <2>1, <2>5, <2>6
<1> HIDE DEF t, p
<1>14. StackInv'
  <2>1. ASSUME NEW x \in Frames(t) PROVE Good(x)'
    <3>1. Good(x) /\ x.op \in {"Read", "Resolve", "Release"}
      BY <1>2, <1>4
    <3> QED
      BY <1>1, <3>1 DEF Good
  <2> QED
    BY <1>1, <1>2, <2>1, ReturnStack
<1>15. TreeInv'
  <2>1. ASSUME NEW q \in Ctx
        PROVE  /\ items'[q] \subseteq Kids(q) \cap parentBound'
               /\ \A k, d \in items'[q] : Name[k] = Name[d] => k = d
    <3>0. /\ items[q] \subseteq Kids(q) \cap parentBound
          /\ \A k, d \in items[q] : Name[k] = Name[d] => k = d
      BY DEF AllInv, TreeInv
    <3>1. CASE q = p
      <4>1. c \in Kids(q)
        BY <1>5, <3>1 DEF Kids, p
      <4>2. \A d \in items[q] : Name[d] # Name[c]
        BY <1>5, <3>1 DEF Namesakes
      <4> QED
        BY <1>1, <1>5, <1>6, <3>0, <3>1, <4>1, <4>2
    <3>2. CASE q # p
      BY <1>1, <1>6, <3>0, <3>2
    <3> QED
      BY <3>1, <3>2
  <2>2. \A k \in parentBound' : k \in items'[Up[k]] \/ On(stack', "Link", k)
    <3> SUFFICES ASSUME NEW k \in parentBound
                 PROVE  k \in items'[Up[k]] \/ On(stack', "Link", k)
      BY <1>1
    <3>1. k \in items[Up[k]] \/ On(stack, "Link", k)
      BY DEF AllInv, TreeInv
    <3>2. Up[k] \in Ctx
      BY ParentStays DEF AllInv
    <3>3. k \in items[Up[k]] => k \in items'[Up[k]]
      BY <1>6, <3>2
    <3>4. c \in items'[Up[c]]
      BY <1>6 DEF p
    <3> QED
      BY <1>10, <3>1, <3>3, <3>4
  <2> QED
    BY <1>1, <1>11, <2>1, <2>2 DEF AllInv, TreeInv, UpIsLive, Grounded
<1>16. \A k : Users(k)' = Users(k)
  BY <1>1, <1>11 DEF Users
<1>17. CountInv'
  BY <1>1, <1>7, <1>16 DEF AllInv, CountInv, Owners
<1>18. \A k : ~Reclaimed(k)'
  BY <1>1, <1>3 DEF Reclaimed
<1>19. UseInv'
  <2>1. ASSUME NEW k \in parentBound, refCount[k] < MaxRefCount
        PROVE  /\ refCount[k] >= Min(k)'
               /\ refCount[k] > Min(k)' => k \in holdingParent
               /\ refCount[k] = Min(k)' /\ k \in holdingParent =>
                     On(stack', "Chain", k) \/ On(stack', "Chained", k)
    <3>0. k \in Ctx
      BY Types DEF AllInv
    <3>1. CASE k = p
      BY <1>12, <1>13, <2>1, <3>1
    <3>2. CASE k # p
      BY <1>3, <1>11, <1>12, <2>1, <3>0, <3>2 DEF AllInv, UseInv
    <3> QED
      BY <3>1, <3>2
  <2> QED
    BY <1>1, <2>1 DEF UseInv
<1>20. ListedInv'
  <2>1. ASSUME NEW k \in weAreInFreeList \ Roots
        PROVE  k \in parentBound /\ refCount[k] < MaxRefCount /\ refCount[k] <= Min(k)'
    <3>0. /\ k \in parentBound /\ k \in Ctx /\ refCount[k] < MaxRefCount
          /\ refCount[k] <= Min(k)
      BY <1>3, Types DEF AllInv, ListedInv
    <3>1. k # p
      BY <1>12, <1>13, <3>0
    <3> QED
      BY <1>12, <3>0, <3>1
  <2>2. ASSUME NEW k \in Reclaims, AtMinimum(k)'
        PROVE  k \in weAreInFreeList'
    <3>0. k \in Ctx /\ k \in parentBound /\ refCount[k] = Min(k)' /\ refCount[k] < MaxRefCount
      BY <1>1, <2>2, Types DEF AtMinimum, AllInv
    <3>1. k # p
      BY <1>12, <1>13, <3>0
    <3>2. AtMinimum(k)
      BY <1>12, <3>0, <3>1 DEF AtMinimum
    <3> QED
      BY <1>1, <1>3, <3>2 DEF AllInv, ListedInv
  <2> QED
    BY <1>1, <2>1, <2>2 DEF ListedInv
<1> QED
  BY <1>14, <1>15, <1>17, <1>19, <1>20 DEF AccInv

\* Three calls at once.
ThreeMore(u, f, g, h, t) ==
    /\ u \in Seq(GoodFrame) /\ Nested(u)
    /\ Frames(u) = {f, g, h} \cup Frames(t)
    /\ \A k : Pending(u, k) = Pending(t, k) + Worth(h, k) + Worth(g, k) + Worth(f, k)

LEMMA ThreeCallsStack ==
    ASSUME NEW t \in Seq(GoodFrame), NEW f \in GoodFrame, NEW g \in GoodFrame,
           NEW h \in GoodFrame, Nested(t),
           \A x \in Frames(t) :
             MayInterrupt(f, x) /\ MayInterrupt(g, x) /\ MayInterrupt(h, x),
           MayInterrupt(f, g), MayInterrupt(f, h), MayInterrupt(g, h)
    PROVE  ThreeMore(<<f, g, h>> \o t, f, g, h, t)
<1> DEFINE t1 == <<h>> \o t
           t2 == <<g>> \o t1
           u == <<f, g, h>> \o t
<1>1. PushedOn(t1, h, t)
  BY PushView
<1>2. t1 \in Seq(GoodFrame)
  BY <1>1 DEF PushedOn
<1>3. PushedOn(t2, g, t1)
  BY <1>2, PushView
<1>4. t2 \in Seq(GoodFrame)
  BY <1>3 DEF PushedOn
<1>5. u = <<f>> \o t2
  <2>1. <<f>> \in Seq(GoodFrame) /\ <<g, h>> \in Seq(GoodFrame)
    OBVIOUS
  <2>2. (<<f>> \o <<g, h>>) \o t = <<f>> \o (<<g, h>> \o t)
    BY <2>1, ConcatAssociative
  <2>3. <<f, g, h>> = <<f>> \o <<g, h>>
    OBVIOUS
  <2>4. <<g, h>> \o t = t2
    BY Push2
  <2> QED
    BY <2>2, <2>3, <2>4
<1>6. PushedOn(u, f, t2)
  BY <1>4, <1>5, PushView
<1> HIDE DEF t1, t2
<1>7. /\ u \in Seq(GoodFrame)
      /\ Frames(u) = {f, g, h} \cup Frames(t)
      /\ \A k : Pending(u, k) = Pending(t, k) + Worth(h, k) + Worth(g, k) + Worth(f, k)
  BY <1>1, <1>3, <1>6 DEF PushedOn
<1>8. Frames(t1) = {h} \cup Frames(t) /\ Frames(t2) = {g, h} \cup Frames(t)
  BY <1>1, <1>3 DEF PushedOn
<1>9. Nested(u)
  BY <1>1, <1>3, <1>6, <1>8 DEF PushedOn
<1>10. ThreeMore(u, f, g, h, t)
  BY <1>7, <1>9 DEF ThreeMore
<1> QED
  BY <1>10 DEF u

\* What waits for the creation of k: what waited before and, when a read()
\* finds k, the drop of the handle it gets.
Waits(k, u) ==
    /\ u \in Seq(GoodFrame) /\ Nested(u)
    /\ \A x \in Frames(u) : \/ x.op \in {"Read", "Resolve"} /\ Good(x)
                            \/ x.op = "Release" /\ x.ctx = k
    /\ \A c : c # k => Pending(u, c) = 0
    /\ handles' \in [Ctx -> Nat]
    /\ \A c \in Ctx : c # k => handles'[c] = handles[c]
    /\ handles'[k] \in {0, 1} /\ Pending(u, k) = 1 - handles'[k]

LEMMA CreateKeeps ==
    ASSUME AllInv, ClientTurn, NEW k \in Ctx \ Roots, handles[Up[k]] > 0,
           NEW u, Waits(k, u), Create(k, u), UNCHANGED cleaning
    PROVE  AccInv'
<1> DEFINE p == Up[k]
           f == Call("AddRef", p)
           g == Call("AddRef", k)
           h == Call("Link", k)
<1>1. /\ k \notin live /\ Namesakes(p, k) = {}
      /\ live' = live \cup {k} /\ parentBound' = parentBound \cup {k}
      /\ refCount' = [refCount EXCEPT ![k] = 1]
      /\ weAreInFreeList' = weAreInFreeList \cup {k}
      /\ stack' = <<f, g, h>> \o u
      /\ UNCHANGED <<items, holdingParent>>
  BY DEF Create
<1>2. /\ p \in Ctx /\ p \in Roots \cup parentBound /\ p \in live /\ p # k
      /\ k \notin parentBound /\ k \notin holdingParent
  <2>1. p \in Ctx
    BY ParentInTree
  <2> QED
    BY <1>1, <2>1 DEF AllInv, TreeInv
<1>3. /\ f \in GoodFrame /\ f.op = "AddRef" /\ f.ctx = p
      /\ g \in GoodFrame /\ g.op = "AddRef" /\ g.ctx = k
      /\ h \in GoodFrame /\ h.op = "Link" /\ h.ctx = k
  BY <1>2, GoodCall, CallIs DEF Op
<1> HIDE DEF f, g, h
<1>4. /\ cleaning = FALSE /\ cleaning' = FALSE
      /\ \A op, c : op \notin {"Read", "Resolve"} => ~On(stack, op, c)
      /\ \A c : Pending(stack, c) = 0
  BY ClientIsIdle, ClientFrames DEF AllInv
<1>5. /\ \A c \in Ctx : c # k => handles'[c] = handles[c]
      /\ handles'[k] \in {0, 1} /\ handles' \in [Ctx -> Nat]
  BY DEF Waits
<1>6. /\ refCount'[k] = 1
      /\ \A c \in Ctx : c # k => refCount'[c] = refCount[c]
      /\ \A c : Min(c)' = Min(c)
      /\ 1 < MaxRefCount
  BY <1>1, Types DEF Min, AllInv
<1>7. /\ stack' \in Seq(GoodFrame) /\ Nested(stack')
      /\ Frames(stack') = {f, g, h} \cup Frames(u)
      /\ \A c : Pending(stack', c) =
           Pending(u, c) + Worth(h, c) + Worth(g, c) + Worth(f, c)
  <2>1. u \in Seq(GoodFrame) /\ Nested(u)
    BY DEF Waits
  <2>2. \A x \in Frames(u) : x.op \in {"Read", "Resolve", "Release"}
    BY DEF Waits
  <2>3. \A x \in Frames(u) :
          MayInterrupt(f, x) /\ MayInterrupt(g, x) /\ MayInterrupt(h, x)
    BY <1>3, <2>2 DEF MayInterrupt
  <2>4. MayInterrupt(f, g) /\ MayInterrupt(f, h) /\ MayInterrupt(g, h)
    BY <1>3 DEF MayInterrupt
  <2>5. stack' = <<f, g, h>> \o u
    BY <1>1
  <2>6. f \in GoodFrame /\ g \in GoodFrame /\ h \in GoodFrame
    BY <1>3
  <2>7. ThreeMore(<<f, g, h>> \o u, f, g, h, u)
    BY <2>1, <2>3, <2>4, <2>6, ThreeCallsStack
  <2> QED
    BY <2>5, <2>7 DEF ThreeMore
<1>8. \A c : Pending(stack', c) =
        Pending(u, c) - (IF c = k THEN 1 ELSE 0) - (IF c = p THEN 1 ELSE 0)
  <2>1. u \in Seq(GoodFrame)
    BY DEF Waits
  <2> TAKE c
  <2>2. Pending(u, c) \in Int
    BY <2>1, PendingSign
  <2>3. /\ Worth(h, c) = 0
        /\ Worth(g, c) = IF c = k THEN -1 ELSE 0
        /\ Worth(f, c) = IF c = p THEN -1 ELSE 0
    BY <1>3 DEF Worth
  <2>4. Pending(stack', c) = Pending(u, c) + Worth(h, c) + Worth(g, c) + Worth(f, c)
    BY <1>7
  <2> QED
    BY <2>2, <2>3, <2>4
<1>9. /\ \A op, c : op \in {"Chain", "Chained", "TryAdd", "Delete"} =>
           ~On(stack', op, c)
      /\ On(stack', "Link", k)
  BY <1>3, <1>7 DEF On, Waits
<1>10. Kids(k) \cap parentBound' = {} /\ items[k] = {}
  <2>1. \A c \in parentBound : Up[c] # k
    BY <1>1, ParentStays DEF AllInv
  <2>2. items[k] \subseteq Kids(k) \cap parentBound
    BY DEF AllInv, TreeInv
  <2> QED
    BY <1>1, <1>2, <2>1, <2>2 DEF Kids
<1>11. StackInv'
  <2>1. Good(f)'
    BY <1>1, <1>2, <1>3 DEF Good
  <2>2. Good(g)'
    BY <1>1, <1>3 DEF Good
  <2>3. Good(h)'
    <3>1. k \notin items[p]
      BY <1>2 DEF AllInv, TreeInv
    <3>2. handles'[p] > 0
      BY <1>2, <1>5
    <3> QED
      BY <1>1, <1>3, <3>1, <3>2 DEF Good, Namesakes, p
  <2>4. ASSUME NEW x \in Frames(u) PROVE Good(x)'
    <3>1. CASE x.op \in {"Read", "Resolve"} /\ Good(x)
      <4>1. x.op = "Read" => handles[x.ctx] > 0 /\ x.ctx \in Ctx
        <5>1. u \in Seq(GoodFrame)
          BY DEF Waits
        <5>2. x \in GoodFrame
          BY <5>1, FramesType
        <5> QED
          BY <3>1, <5>2 DEF Good, GoodFrame
      <4>2. \A c \in Ctx : handles[c] > 0 => c \in live
        BY DEF AllInv, TreeInv
      <4>3. x.op = "Read" => handles'[x.ctx] > 0
        BY <1>1, <1>5, <4>1, <4>2
      <4> QED
        BY <3>1, <4>3 DEF Good
    <3>2. CASE x.op = "Release" /\ x.ctx = k
      BY <1>1, <3>2 DEF Good
    <3> QED
      BY <3>1, <3>2 DEF Waits
  <2> QED
    BY <1>7, <2>1, <2>2, <2>3, <2>4 DEF StackInv
<1>12. TreeInv'
  <2>1. Grounded'
    <3> SUFFICES ASSUME NEW S \in SUBSET live', S # {}
                 PROVE  \E c \in S : Up[c] \notin S
      BY DEF Grounded
    <3>1. CASE S \subseteq {k}
      BY <1>2, <3>1
    <3>2. CASE ~(S \subseteq {k})
      <4>1. S \ {k} \in SUBSET live /\ S \ {k} # {}
        BY <1>1, <3>2
      <4>2. PICK c \in S \ {k} : Up[c] \notin S \ {k}
        BY <4>1 DEF AllInv, TreeInv, Grounded
      <4>3. Up[c] # k
        <5>1. c \in live
          BY <4>1
        <5>2. CASE c \in Roots
          BY <5>2, UpAssumption DEF Roots
        <5>3. CASE c \notin Roots
          BY <1>1, <5>1, <5>3 DEF AllInv, TreeInv, UpIsLive
        <5> QED
          BY <5>2, <5>3
      <4> QED
        BY <4>2, <4>3
    <3> QED
      BY <3>1, <3>2
  <2>2. UpIsLive'
    BY <1>1, <1>2 DEF AllInv, TreeInv, UpIsLive
  <2>3. \A c \in Ctx : handles'[c] > 0 => c \in Roots \cup parentBound'
    BY <1>1, <1>5 DEF AllInv, TreeInv
  <2>4. \A c \in parentBound' : c \in items[Up[c]] \/ On(stack', "Link", c)
    BY <1>1, <1>4, <1>9 DEF AllInv, TreeInv
  <2>5. \A c \in live' \ Roots : c \in parentBound'
    BY <1>1, <1>4 DEF AllInv, TreeInv
  <2> QED
    BY <1>1, <2>1, <2>2, <2>3, <2>4, <2>5 DEF AllInv, TreeInv
<1>13. \A c : Users(c)' = Users(c)
  <2>1. \A c : ~On(stack', "Chained", c) /\ ~On(stack, "Chained", c)
    BY <1>4, <1>9
  <2>2. holdingParent' = holdingParent
    BY <1>1
  <2> QED
    BY <2>1, <2>2 DEF Users
<1>14. Users(k) = {}
  BY <1>1, <1>10 DEF Users, AllInv, TreeInv
<1>15. CountInv'
  <2>1. refCount'[k] = Owners(k)' + Pending(stack', k)
    <3>1. Cardinality((Kids(k) \cap parentBound)') = 0 /\ Cardinality(Users(k)') = 0
      BY <1>10, <1>13, <1>14, FS_EmptySet DEF Kids
    <3>2. Owners(k)' = 1 + handles'[k]
      BY <1>5, <3>1 DEF Owners
    <3>3. Pending(stack', k) = Pending(u, k) - 1
      <4>1. u \in Seq(GoodFrame)
        BY DEF Waits
      <4>2. Pending(u, k) \in Int
        BY <4>1, PendingSign
      <4> QED
        BY <1>2, <1>8, <4>2
    <3>4. handles'[k] \in Int /\ Pending(u, k) = 1 - handles'[k]
      BY <1>5 DEF Waits
    <3> QED
      BY <1>6, <3>2, <3>3, <3>4
  <2>2. ASSUME NEW c \in parentBound, refCount[c] < MaxRefCount
        PROVE  refCount'[c] = Owners(c)' + Pending(stack', c)
    <3> DEFINE A == Cardinality(Kids(c) \cap parentBound)
               A1 == Cardinality((Kids(c) \cap parentBound)')
               B == Cardinality(Users(c))
               Q == Pending(stack', c)
               d == IF c = p THEN 1 ELSE 0
    <3>0. c \in Ctx /\ c # k
      BY <1>2, Types DEF AllInv
    <3>1. refCount[c] = 1 + A + B + handles[c]
      <4>1. refCount[c] = Owners(c) + Pending(stack, c)
        BY <2>2 DEF AllInv, CountInv
      <4>2. handles[c] \in Nat /\ A \in Nat /\ B \in Nat
        BY <3>0, Types, KidsAndUsers DEF AllInv
      <4> HIDE DEF A, B
      <4>3. Owners(c) = 1 + A + B + handles[c]
        BY DEF Owners, A, B
      <4> QED
        BY <1>4, <4>1, <4>2, <4>3
    <3>2. Owners(c)' = 1 + A1 + B + handles[c]
      BY <1>5, <1>13, <3>0 DEF Owners
    <3>3. handles[c] \in Nat /\ A \in Nat /\ B \in Nat
      BY <3>0, Types, KidsAndUsers DEF AllInv
    <3>4. A1 = A + d
      <4>1. CASE c = p
        <5>1. (Kids(c) \cap parentBound)' = (Kids(c) \cap parentBound) \cup {k}
          BY <1>1, <4>1 DEF Kids, p
        <5>2. k \notin Kids(c) \cap parentBound /\ Kids(c) \cap parentBound \in SUBSET Ctx
          BY <1>2, KidsAndUsers
        <5> QED
          BY <4>1, <5>1, <5>2, CardPlus
      <4>2. CASE c # p
        <5>1. (Kids(c) \cap parentBound)' = Kids(c) \cap parentBound
          BY <1>1, <4>2 DEF Kids, p
        <5> QED
          BY <3>3, <4>2, <5>1
      <4> QED
        BY <4>1, <4>2
    <3>5. Q = 0 - d
      <4>1. Pending(u, c) = 0
        BY <3>0 DEF Waits
      <4> QED
        BY <1>8, <3>0, <4>1
    <3>6. refCount'[c] = refCount[c] /\ d \in Int
      BY <1>6, <3>0
    <3> HIDE DEF A, A1, B, Q, d
    <3>7. refCount'[c] = Owners(c)' + Q
      BY <3>1, <3>2, <3>3, <3>4, <3>5, <3>6
    <3> QED
      BY <3>7 DEF Q
  <2>3. \A c \in parentBound' : refCount'[c] < MaxRefCount =>
          refCount'[c] = Owners(c)' + Pending(stack', c)
    BY <1>1, <1>2, <1>6, <2>1, <2>2, Types DEF AllInv
  <2>4. \A c \in Roots : refCount'[c] = MaxRefCount
    BY <1>6 DEF AllInv, CountInv, Roots
  <2> QED
    BY <2>3, <2>4 DEF CountInv
<1>16. Min(k) = 1
  BY <1>10, FS_EmptySet DEF Min
<1>17. \A c : ~Reclaimed(c) /\ ~Reclaimed(c)'
  BY <1>4 DEF Reclaimed
<1>18. UseInv'
  <2>1. ASSUME NEW c \in parentBound', refCount'[c] < MaxRefCount
        PROVE  /\ refCount'[c] >= Min(c)
               /\ refCount'[c] > Min(c) => c \in holdingParent
               /\ refCount'[c] = Min(c) => c \notin holdingParent
    <3>1. CASE c = k
      BY <1>2, <1>6, <1>16, <3>1
    <3>2. CASE c # k
      <4>1. c \in parentBound /\ c \in Ctx
        BY <1>1, <3>2, Types DEF AllInv
      <4>2. refCount'[c] = refCount[c] /\ refCount[c] < MaxRefCount
        BY <1>6, <2>1, <3>2, <4>1
      <4> QED
        BY <1>4, <1>17, <4>1, <4>2 DEF AllInv, UseInv
    <3> QED
      BY <3>1, <3>2
  <2> QED
    BY <1>1, <1>6, <2>1 DEF UseInv
<1>19. ListedInv'
  <2>1. ASSUME NEW c \in weAreInFreeList' \ Roots
        PROVE  c \in parentBound' /\ refCount'[c] < MaxRefCount /\ refCount'[c] <= Min(c)
    <3>1. CASE c = k
      BY <1>1, <1>6, <1>16, <3>1
    <3>2. CASE c # k
      <4>1. c \in weAreInFreeList \ Roots
        BY <1>1, <2>1, <3>2
      <4>2. c \in parentBound /\ c \in Ctx /\ refCount[c] < MaxRefCount
            /\ refCount[c] <= Min(c)
        BY <1>17, <4>1, Types DEF AllInv, ListedInv
      <4> QED
        BY <1>1, <1>6, <3>2, <4>2
    <3> QED
      BY <3>1, <3>2
  <2>2. ASSUME NEW c \in Reclaims, AtMinimum(c)'
        PROVE  c \in weAreInFreeList'
    <3>1. CASE c = k
      BY <1>1, <3>1
    <3>2. CASE c # k
      <4>1. c \in parentBound /\ c \in Ctx
        BY <1>1, <2>2, <3>2, Types DEF AtMinimum, AllInv
      <4>2. AtMinimum(c)
        BY <1>6, <2>2, <3>2, <4>1 DEF AtMinimum
      <4> QED
        BY <1>1, <1>4, <4>2 DEF AllInv, ListedInv
    <3> QED
      BY <3>1, <3>2
  <2> QED
    BY <1>6, <2>1, <2>2 DEF ListedInv
<1> QED
  BY <1>11, <1>12, <1>15, <1>18, <1>19 DEF AccInv

LEMMA DiscoverKeeps ==
    ASSUME AllInv, TypeInv', NEW k \in Ctx, Discover(k) PROVE AccInv'
<1>1. /\ ClientTurn /\ k \in Ctx \ Roots /\ handles[Up[k]] > 0
      /\ handles' = [handles EXCEPT ![k] = 1]
      /\ Create(k, stack) /\ UNCHANGED cleaning
  BY DEF Discover
<1>2. Waits(k, stack)
  <2>1. /\ stack \in Seq(GoodFrame) /\ Nested(stack)
        /\ \A x \in Frames(stack) : x.op \in {"Read", "Resolve"} /\ Good(x)
        /\ \A c : Pending(stack, c) = 0
    BY <1>1, Types, ClientFrames DEF AllInv, StackInv
  <2>2. /\ handles' \in [Ctx -> Nat] /\ handles'[k] = 1
        /\ \A c \in Ctx : c # k => handles'[c] = handles[c]
    BY <1>1, Types DEF AllInv
  <2> QED
    BY <2>1, <2>2 DEF Waits
<1> QED
  BY <1>1, <1>2, CreateKeeps

LEMMA ReadEntryKeeps ==
    ASSUME AllInv, TypeInv', NEW k \in Ctx, ReadEntry(k) PROVE AccInv'
<1> DEFINE p == Top.ctx
           v == After(k)
<1>1. /\ Running("Read") /\ k \in Top.left
      /\ UNCHANGED <<handles, cleaning>>
  BY DEF ReadEntry
<1>2. /\ stack # <<>> /\ ClientTurn
      /\ p \in Ctx /\ handles[p] > 0
      /\ v \in Seq(GoodFrame) /\ Nested(v)
      /\ \A x \in Frames(v) :
           /\ x \in GoodFrame /\ Good(x)
           /\ x.op \in {"Read", "Resolve"}
      /\ \A op, c : op \notin {"Read", "Resolve"} => ~On(v, op, c)
      /\ \A c : Pending(v, c) = 0
  BY <1>1, ReadFrame
<1>3. CASE UNCHANGED <<treeVars, countVars, listVars>>
  <2>1. UNCHANGED CountsNow /\ UNCHANGED <<handles, weAreInFreeList, cleaning>>
    BY <1>1, <1>3 DEF CountsNow
  <2>2. k \notin live => ~Create(k, <<Call("Release", k)>> \o v)
    BY <1>3 DEF Create
  <2>3. \/ stack' = After(k)
        \/ \E d \in Namesakes(Top.ctx, k) :
             stack' = <<Call("AddRef", d), Call("Release", d)>> \o After(k)
    BY <2>2 DEF ReadEntry, After, Create
  <2> QED
    BY <1>1, <2>1, <2>3, MeetsKeeps
<1>4. ASSUME Create(k, <<Call("Release", k)>> \o v)
      PROVE  AccInv'
  <2> DEFINE f == Call("Release", k)
             u == <<f>> \o v
  <2>1. /\ Up[k] = p /\ k \in Ctx \ Roots /\ handles[Up[k]] > 0
    <3>1. k \in Kids(p)
      BY <1>1, <1>2, GoodTop DEF AllInv
    <3>2. Up[k] = p
      BY <3>1 DEF Kids
    <3> QED
      BY <1>2, <3>2, ParentInTree
  <2>2. f \in GoodFrame /\ f.op = "Release" /\ f.ctx = k
    BY GoodCall, CallIs DEF Op
  <2> HIDE DEF f
  <2>3. PushedOn(u, f, v)
    BY <1>2, <2>2, PushView
  <2>4. handles[k] = 0
    <3>1. k \notin live
      BY <1>4 DEF Create
    <3>2. k \notin Roots \cup parentBound
      BY <3>1 DEF AllInv, TreeInv
    <3> QED
      BY <3>2, Types DEF AllInv, TreeInv
  <2> HIDE DEF v
  <2>5. Waits(k, u)
    <3> HIDE DEF u
    <3>1. \A x \in Frames(v) : MayInterrupt(f, x)
      BY <1>2, <2>2 DEF MayInterrupt, Climbing
    <3>2. u \in Seq(GoodFrame) /\ Nested(u)
      BY <1>2, <2>3, <3>1 DEF PushedOn
    <3>3. \A x \in Frames(u) : \/ x.op \in {"Read", "Resolve"} /\ Good(x)
                               \/ x.op = "Release" /\ x.ctx = k
      BY <1>2, <2>2, <2>3 DEF PushedOn
    <3>4. \A c : Pending(u, c) = IF c = k THEN 1 ELSE 0
      <4>1. \A c : Worth(f, c) = IF c = k THEN 1 ELSE 0
        BY <2>2 DEF Worth
      <4>2. \A c : Pending(u, c) = 0 + Worth(f, c)
        BY <1>2, <2>3 DEF PushedOn
      <4> QED
        BY <4>1, <4>2
    <3>5. handles' = handles /\ handles \in [Ctx -> Nat]
      BY <1>1, Types DEF AllInv
    <3> QED
      BY <2>4, <3>2, <3>3, <3>4, <3>5 DEF Waits
  <2>6. Create(k, u)
    BY <1>4 DEF f
  <2> HIDE DEF u
  <2> QED
    BY <1>1, <1>2, <2>1, <2>5, <2>6, CreateKeeps
<1> QED
  BY <1>3, <1>4 DEF ReadEntry, After

\* One turn of the loop of cleanUp(): a flag goes only with a context that its
\* module could not bring back.
LEMMA CleanUpSkipKeeps ==
    ASSUME AllInv, NEW k \in Ctx, CleanUpSkip(k) PROVE AccInv'
<1>1. /\ UNCHANGED CountsNow /\ UNCHANGED <<handles, cleaning, stack>>
      /\ \/ CleanUpDrops(k) /\ weAreInFreeList' = weAreInFreeList \ {k}
         \/ weAreInFreeList' = weAreInFreeList \cup {k}
      /\ k \in todo
  BY DEF CleanUpSkip, CountsNow
<1>2. k \in weAreInFreeList
  BY <1>1 DEF AllInv, ListInv
<1>3. /\ weAreInFreeList' \subseteq weAreInFreeList
      /\ \A c \in parentBound \cap Reclaims : c \in weAreInFreeList => c \in weAreInFreeList'
  BY <1>1, <1>2 DEF CleanUpDrops
<1>4. StackInv'
  <2>1. \A x \in Frames(stack) : Good(x)'
    BY <1>1, GoodSame DEF AllInv, StackInv
  <2> QED
    BY <1>1, <2>1 DEF AllInv, StackInv
<1>5. SameOwners
  BY <1>1, Types DEF SameOwners, AllInv, TreeInv
<1>6. SameInserts
  BY <1>1, Types DEF SameInserts, AllInv
<1>7. TreeInv' /\ CountInv'
  BY <1>1, <1>5, <1>6, OwnersKeep
<1>8. UseInv'
  BY <1>1 DEF AllInv, UseInv, CountsNow, Min, Reclaimed
<1>9. ListedInv'
  <2>1. \A c : Min(c)' = Min(c) /\ AtMinimum(c)' = AtMinimum(c)
    BY <1>1 DEF AtMinimum, Min, CountsNow
  <2>2. \A c : Reclaimed(c)' = Reclaimed(c)
    BY <1>1 DEF Reclaimed
  <2>3. \A c \in Reclaims : AtMinimum(c) => c \in weAreInFreeList' \/ On(stack, "TryAdd", c)
    BY <1>3 DEF AllInv, ListedInv, AtMinimum
  <2> QED
    BY <1>1, <1>3, <2>1, <2>2, <2>3 DEF AllInv, ListedInv, CountsNow
<1> QED
  BY <1>4, <1>7, <1>8, <1>9 DEF AccInv

\* What cleanUp() deletes is a context that only its parent refers to.
LEMMA ReclaimsUnused ==
    ASSUME AllInv, NEW k \in Ctx, Reclaim(k)
    PROVE  /\ k \in parentBound /\ k \in live /\ k \notin Roots
           /\ refCount[k] = Min(k) /\ refCount[k] < MaxRefCount
           /\ items[k] = {} /\ handles[k] = 0
           /\ Kids(k) \cap live = {}
           /\ k \notin holdingParent
           /\ Namesakes(Up[k], k) = {k}
<1>1. /\ Running("Clean") /\ k \in todo /\ k \in parentBound
      /\ items[k] = {} /\ ~(refCount[k] > Min(k))
  BY DEF Reclaim, CleanUpDrops, CleanUpRejects
<1>2. /\ \A op, c : op # "Clean" => ~On(stack, op, c)
      /\ \A c : Pending(stack, c) = 0
  BY <1>1, CleanBottom
<1>3. k \in weAreInFreeList /\ k \in live /\ k \notin Roots
  BY <1>1, ParentStays DEF AllInv, ListInv
<1>4. refCount[k] < MaxRefCount
  BY <1>3 DEF AllInv, ListedInv
<1>5. Min(k) = 1
  BY <1>1, FS_EmptySet DEF Min
<1> DEFINE A == Cardinality(Kids(k) \cap parentBound)
           B == Cardinality(Users(k))
<1>6. refCount[k] = 1 + A + B + handles[k]
  <2>1. refCount[k] = Owners(k) + 0
    BY <1>1, <1>2, <1>4 DEF AllInv, CountInv
  <2>2. handles[k] \in Nat /\ A \in Nat /\ B \in Nat
    BY Types, KidsAndUsers DEF AllInv
  <2> HIDE DEF A, B
  <2>3. Owners(k) = 1 + A + B + handles[k]
    BY DEF Owners, A, B
  <2> QED
    BY <2>1, <2>2, <2>3
<1>7. A = 0 /\ handles[k] = 0 /\ refCount[k] = Min(k)
  <2>1. /\ handles[k] \in Nat /\ A \in Nat /\ B \in Nat
        /\ refCount[k] \in Int
    BY Types, KidsAndUsers DEF AllInv
  <2> HIDE DEF A, B
  <2> QED
    BY <1>1, <1>5, <1>6, <2>1
<1>8. Kids(k) \cap parentBound = {}
  <2>1. IsFiniteSet(Kids(k) \cap parentBound)
    BY KidsAndUsers, SubsetCard
  <2> QED
    BY <1>7, <2>1, FS_EmptySet
<1>9. Kids(k) \cap live = {}
  <2>1. \A c \in Kids(k) : c \notin Roots
    BY UpAssumption DEF Kids, Roots
  <2>2. \A c \in live \ Roots : c \in parentBound
    BY <1>2 DEF AllInv, TreeInv
  <2> QED
    BY <1>8, <2>1, <2>2
<1>10. k \notin holdingParent
  BY <1>1, <1>2, <1>4, <1>7 DEF AllInv, UseInv
<1>11. Namesakes(Up[k], k) = {k}
  <2>1. k \in items[Up[k]] /\ Up[k] \in Ctx
    BY <1>1, <1>2, ParentStays DEF AllInv, TreeInv
  <2>2. \A d \in items[Up[k]] : Name[d] = Name[k] => d = k
    BY <2>1 DEF AllInv, TreeInv
  <2> QED
    BY <2>1, <2>2 DEF Namesakes
<1> QED
  BY <1>1, <1>3, <1>4, <1>7, <1>9, <1>10, <1>11

LEMMA ReclaimKeeps ==
    ASSUME AllInv, NEW k \in Ctx, Reclaim(k) PROVE AccInv'
<1> DEFINE p == Up[k]
           f == Call("Release", p)
           g == Call("Delete", k)
<1>1. /\ k \in parentBound /\ k \in live /\ k \notin Roots
      /\ refCount[k] = Min(k) /\ refCount[k] < MaxRefCount
      /\ items[k] = {} /\ handles[k] = 0
      /\ Kids(k) \cap live = {}
      /\ k \notin holdingParent
      /\ Namesakes(p, k) = {k}
  BY ReclaimsUnused
<1>2. /\ Running("Clean")
      /\ items' = [items EXCEPT ![p] = @ \ {k}]
      /\ parentBound' = parentBound \ {k}
      /\ weAreInFreeList' = weAreInFreeList \ {k}
      /\ stack' = <<f, g>> \o stack
      /\ UNCHANGED <<live, refCount, holdingParent, handles, cleaning>>
  BY <1>1 DEF Reclaim
<1>3. /\ \A op, c : op # "Clean" => ~On(stack, op, c)
      /\ \A c : Pending(stack, c) = 0
      /\ \A x \in Frames(stack) : x.op = "Clean"
  <2>1. /\ \A op, c : op # "Clean" => ~On(stack, op, c)
        /\ \A c : Pending(stack, c) = 0
    BY <1>2, CleanBottom
  <2> QED
    BY <2>1 DEF On
<1>4. /\ p \in Ctx /\ p \in Roots \cup parentBound /\ p \in live /\ p # k
      /\ k \in items[p]
  BY <1>1, ParentStays DEF AllInv, Namesakes
<1>5. cleaning = TRUE
  BY <1>2, ListTop DEF AllInv, Running
<1>6. /\ f \in GoodFrame /\ f.op = "Release" /\ f.ctx = p
      /\ g \in GoodFrame /\ g.op = "Delete" /\ g.ctx = k
  BY <1>4, GoodCall, CallIs DEF Op
<1>7. /\ items'[p] = items[p] \ {k}
      /\ \A c \in Ctx : c # p => items'[c] = items[c]
      /\ items[p] \in SUBSET Ctx
  BY <1>2, <1>4, Types DEF AllInv
<1>8. /\ Min(p)' = Min(p) - 1 /\ Min(p) \in Int
      /\ \A c \in Ctx : c # p => Min(c)' = Min(c)
  <2>1. /\ Cardinality(items[p] \ {k}) = Cardinality(items[p]) - 1
        /\ Cardinality(items[p]) \in Nat
    BY <1>4, <1>7, CardMinus
  <2> QED
    BY <1>7, <2>1 DEF Min
<1> HIDE DEF f, g
<1>9. /\ StackInv'
      /\ \A op, c : On(stack', op, c) <=>
           \/ f.op = op /\ f.ctx = c
           \/ g.op = op /\ g.ctx = c
           \/ On(stack, op, c)
      /\ \A c : Pending(stack', c) = Pending(stack, c) + Worth(g, c) + Worth(f, c)
  <2>1. stack \in Seq(GoodFrame) /\ Nested(stack)
    BY Types DEF AllInv, StackInv
  <2>2. MayInterrupt(f, g)
    BY <1>6 DEF MayInterrupt, Climbing
  <2>3. Good(f)'
    BY <1>2, <1>4, <1>6 DEF Good
  <2>4. Good(g)'
    BY <1>1, <1>2, <1>6 DEF Good
  <2>5. \A x \in Frames(stack) : MayInterrupt(f, x) /\ MayInterrupt(g, x) /\ Good(x)'
    BY <1>3, <1>6 DEF MayInterrupt, Climbing, Good
  <2>6. f \in GoodFrame /\ g \in GoodFrame /\ stack' = <<f, g>> \o stack
    BY <1>2, <1>6
  <2> QED
    BY <2>1, <2>2, <2>3, <2>4, <2>5, <2>6, TwoCallsStack
<1>10. /\ \A c : On(stack', "Delete", c) <=> c = k
       /\ \A c : On(stack', "Release", c) <=> c = p
       /\ \A op, c : op \in {"Link", "Chain", "Chained", "TryAdd"} => ~On(stack', op, c)
  BY <1>3, <1>6, <1>9
<1>11. \A c : Pending(stack', c) = IF c = p THEN 1 ELSE 0
  <2>1. \A c : Worth(g, c) = 0 /\ Worth(f, c) = IF c = p THEN 1 ELSE 0
    BY <1>6 DEF Worth
  <2>2. \A c : Pending(stack', c) = 0 + 0 + Worth(f, c)
    BY <1>3, <1>9, <2>1
  <2> QED
    BY <2>1, <2>2
<1>12. TreeInv'
  <2>1. ASSUME NEW q \in Ctx
        PROVE  /\ items'[q] \subseteq Kids(q) \cap parentBound'
               /\ \A c, d \in items'[q] : Name[c] = Name[d] => c = d
    <3>0. /\ items[q] \subseteq Kids(q) \cap parentBound
          /\ \A c, d \in items[q] : Name[c] = Name[d] => c = d
      BY DEF AllInv, TreeInv
    <3>1. items'[q] \subseteq items[q] /\ k \notin items'[q]
      <4>1. CASE q = p
        BY <1>7, <4>1
      <4>2. CASE q # p
        BY <1>7, <3>0, <4>2 DEF Kids
      <4> QED
        BY <4>1, <4>2
    <3> QED
      BY <1>2, <3>0, <3>1
  <2>2. \A c \in parentBound' : c \in items'[Up[c]]
    <3> SUFFICES ASSUME NEW c \in parentBound, c # k PROVE c \in items'[Up[c]]
      BY <1>2
    <3>1. c \in items[Up[c]] /\ Up[c] \in Ctx
      BY <1>3, ParentStays DEF AllInv, TreeInv
    <3> QED
      BY <1>7, <3>1
  <2>3. \A c \in live \ Roots : c \in parentBound' \/ On(stack', "Delete", c)
    BY <1>2, <1>3, <1>10 DEF AllInv, TreeInv
  <2>4. /\ \A c \in Ctx : handles[c] > 0 => c \in Roots \cup parentBound'
        /\ holdingParent \subseteq parentBound'
    <3>1. ~(handles[k] > 0)
      BY <1>1
    <3> QED
      BY <1>1, <1>2, <3>1 DEF AllInv, TreeInv
  <2> QED
    BY <1>2, <2>1, <2>2, <2>3, <2>4 DEF AllInv, TreeInv, UpIsLive, Grounded
<1>13. \A c : Users(c)' = Users(c)
  <2>1. \A c : ~On(stack', "Chained", c) /\ ~On(stack, "Chained", c)
    BY <1>3, <1>10
  <2>2. holdingParent' = holdingParent
    BY <1>2
  <2> QED
    BY <2>1, <2>2 DEF Users
<1>14. CountInv'
  <2>1. ASSUME NEW c \in parentBound, c # k, refCount[c] < MaxRefCount
        PROVE  refCount[c] = Owners(c)' + Pending(stack', c)
    <3> DEFINE A == Cardinality(Kids(c) \cap parentBound)
               A1 == Cardinality((Kids(c) \cap parentBound)')
               B == Cardinality(Users(c))
               Q == Pending(stack', c)
               d == IF c = p THEN 1 ELSE 0
    <3>0. c \in Ctx
      BY Types DEF AllInv
    <3>1. handles[c] \in Nat /\ A \in Nat /\ B \in Nat
      BY <3>0, Types, KidsAndUsers DEF AllInv
    <3>2. refCount[c] = 1 + A + B + handles[c]
      <4>1. refCount[c] = Owners(c) + Pending(stack, c)
        BY <2>1 DEF AllInv, CountInv
      <4> HIDE DEF A, B
      <4>2. Owners(c) = 1 + A + B + handles[c]
        BY DEF Owners, A, B
      <4> QED
        BY <1>3, <3>1, <4>1, <4>2
    <3>3. Owners(c)' = 1 + A1 + B + handles[c]
      BY <1>2, <1>13 DEF Owners
    <3>4. A1 = A - d
      <4>1. CASE c = p
        <5>1. (Kids(c) \cap parentBound)' = (Kids(c) \cap parentBound) \ {k}
          BY <1>2 DEF Kids
        <5>2. k \in Kids(c) \cap parentBound /\ Kids(c) \cap parentBound \in SUBSET Ctx
          BY <1>1, <4>1, KidsAndUsers DEF Kids
        <5> QED
          BY <4>1, <5>1, <5>2, CardMinus
      <4>2. CASE c # p
        <5>1. (Kids(c) \cap parentBound)' = Kids(c) \cap parentBound
          BY <1>2, <4>2 DEF Kids
        <5> QED
          BY <3>1, <4>2, <5>1
      <4> QED
        BY <4>1, <4>2
    <3>5. Q = d /\ d \in Int
      BY <1>11
    <3> HIDE DEF A, A1, B, Q, d
    <3>6. refCount[c] = Owners(c)' + Q
      BY <3>1, <3>2, <3>3, <3>4, <3>5
    <3> QED
      BY <3>6 DEF Q
  <2> QED
    BY <1>2, <2>1 DEF AllInv, CountInv
<1>15. Reclaimed(p)' /\ \A c : ~Reclaimed(c)
  BY <1>2, <1>3, <1>5, <1>10 DEF Reclaimed
<1>16. ASSUME NEW c \in parentBound, refCount[c] < MaxRefCount
       PROVE  /\ refCount[c] >= Min(c)
              /\ c \in holdingParent <=> refCount[c] # Min(c)
              /\ c \in weAreInFreeList => refCount[c] = Min(c)
              /\ refCount[c] \in Int
  <2>1. \A c1 : ~On(stack, "Chain", c1) /\ ~On(stack, "Chained", c1)
    BY <1>3
  <2>2. \A c1 : ~Reclaimed(c1)
    BY <1>15
  <2>3. refCount[c] \in Int
    BY Types DEF AllInv
  <2> QED
    BY <1>16, <2>1, <2>2, <2>3, HoldsInUse
<1>17. UseInv'
  <2>1. ASSUME NEW c \in parentBound, c # k, refCount[c] < MaxRefCount
        PROVE  /\ refCount[c] >= Min(c)'
               /\ refCount[c] > Min(c)' =>
                    c \in holdingParent \/ (Reclaimed(c)' /\ refCount[c] = Min(c)' + 1)
               /\ ~(refCount[c] = Min(c)' /\ c \in holdingParent)
    <3>0. c \in Ctx
      BY Types DEF AllInv
    <3>1. CASE c = p
      BY <1>8, <1>15, <1>16, <2>1, <3>1
    <3>2. CASE c # p
      BY <1>8, <1>16, <2>1, <3>0, <3>2
    <3> QED
      BY <3>1, <3>2
  <2> QED
    BY <1>2, <2>1 DEF UseInv
<1>18. ListedInv'
  <2>1. ASSUME NEW c \in weAreInFreeList \ Roots, c # k
        PROVE  /\ c \in parentBound' /\ refCount[c] < MaxRefCount
               /\ refCount[c] <= Min(c)' \/ (Reclaimed(c)' /\ refCount[c] = Min(c)' + 1)
    <3>1. /\ c \in parentBound /\ c \in Ctx /\ refCount[c] < MaxRefCount
          /\ refCount[c] = Min(c) /\ refCount[c] \in Int
      BY <1>16, Types DEF AllInv, ListedInv
    <3>2. CASE c = p
      BY <1>2, <1>8, <1>15, <2>1, <3>1, <3>2
    <3>3. CASE c # p
      BY <1>2, <1>8, <2>1, <3>1, <3>3
    <3> QED
      BY <3>2, <3>3
  <2>2. ASSUME NEW c \in Reclaims, AtMinimum(c)'
        PROVE  c \in weAreInFreeList'
    <3>1. /\ c \in parentBound /\ c # k /\ c \in Ctx
          /\ refCount[c] = Min(c)' /\ refCount[c] < MaxRefCount
      BY <1>2, <2>2, Types DEF AtMinimum, AllInv
    <3>2. c # p
      BY <1>8, <1>16, <3>1
    <3>3. AtMinimum(c)
      BY <1>8, <3>1, <3>2 DEF AtMinimum
    <3> QED
      BY <1>2, <1>3, <3>1, <3>3 DEF AllInv, ListedInv
  <2> QED
    BY <1>2, <2>1, <2>2 DEF ListedInv
<1> QED
  BY <1>9, <1>12, <1>14, <1>17, <1>18 DEF AccInv

\* The context that cleanUp() deletes has been cut out of the tree before.
LEMMA DeletesUnused ==
    ASSUME AllInv, Running("Delete")
    PROVE  /\ Top.ctx \in live \ (Roots \cup parentBound) /\ Top.ctx \in Ctx
           /\ handles[Top.ctx] = 0 /\ Kids(Top.ctx) \cap live = {}
           /\ \A x \in Frames(Tail(stack)) : x.op = "Clean"
<1>1. /\ stack # <<>> /\ Top.op = "Delete" /\ Good(Top)
      /\ \A x \in Frames(Tail(stack)) : MayInterrupt(Top, x)
  BY Below DEF Running
<1>2. \A x \in Frames(Tail(stack)) : x.op = "Clean"
  BY <1>1 DEF MayInterrupt, Climbing
<1> QED
  BY <1>1, <1>2, Types DEF Good, AllInv

LEMMA DeleteKeeps ==
    ASSUME AllInv, Delete PROVE AccInv'
<1>0. PICK k : k = Top.ctx
  OBVIOUS
<1> DEFINE t == Tail(stack)
<1>1. /\ stack # <<>> /\ Running("Delete") /\ Top.op = "Delete" /\ stack' = t
      /\ live' = live \ {k}
      /\ refCount' = [refCount EXCEPT ![k] = 0]
      /\ holdingParent' = holdingParent \ {k}
      /\ weAreInFreeList' = weAreInFreeList \ {k}
      /\ UNCHANGED <<items, parentBound, handles, cleaning>>
  BY <1>0 DEF Delete, Running, Return
<1>2. /\ k \in live \ (Roots \cup parentBound) /\ k \in Ctx
      /\ handles[k] = 0 /\ Kids(k) \cap live = {}
      /\ \A x \in Frames(t) : x.op = "Clean"
  BY <1>0, <1>1, DeletesUnused
<1>3. /\ t \in Seq(GoodFrame) /\ Nested(t)
      /\ \A op, c : On(stack, op, c) <=> (Top.op = op /\ Top.ctx = c) \/ On(t, op, c)
      /\ \A c : Pending(t, c) \in Int /\ Pending(stack, c) = Pending(t, c) + Worth(Top, c)
  BY <1>1, Below
<1>4. holdingParent' = holdingParent /\ weAreInFreeList' = weAreInFreeList
  BY <1>1, <1>2 DEF AllInv, TreeInv, ListedInv
<1>5. \A c \in Ctx : c # k => refCount'[c] = refCount[c]
  BY <1>1, Types DEF AllInv
<1>6. \A op, c : op # "Delete" => (On(stack', op, c) <=> On(stack, op, c))
  BY <1>1, <1>3
<1>7. \A op, c : op # "Clean" => ~On(stack', op, c)
  BY <1>1, <1>2 DEF On
<1>8. \A c : Pending(stack', c) = Pending(stack, c)
  <2>1. \A c : Worth(Top, c) = 0
    BY <1>1 DEF Worth
  <2> QED
    BY <1>1, <1>3, <2>1
<1> HIDE DEF t
<1>9. StackInv'
  <2>1. \A x \in Frames(t) : Good(x)'
    BY <1>2 DEF Good
  <2> QED
    BY <1>1, <1>3, <2>1, ReturnStack
<1>10. TreeInv'
  <2>1. UpIsLive'
    <3> SUFFICES ASSUME NEW c \in live \ Roots, c # k PROVE Up[c] \in live \ {k}
      BY <1>1 DEF UpIsLive
    <3>1. Up[c] \in live /\ c \in Ctx
      BY Types DEF AllInv, TreeInv, UpIsLive
    <3>2. c \notin Kids(k)
      BY <1>2
    <3> QED
      BY <3>1, <3>2 DEF Kids
  <2>2. Grounded'
    BY <1>1 DEF AllInv, TreeInv, Grounded
  <2>3. \A c \in live' \ Roots : c \in parentBound
    <3>1. \A c : On(stack, "Delete", c) => c = k
      BY <1>0, <1>1, <1>3, <1>7
    <3> QED
      BY <1>1, <3>1 DEF AllInv, TreeInv
  <2>4. \A c \in parentBound : c \in items[Up[c]] \/ On(stack', "Link", c)
    BY <1>6 DEF AllInv, TreeInv
  <2>5. Roots \subseteq live' /\ parentBound \subseteq live'
    BY <1>1, <1>2 DEF AllInv, TreeInv
  <2> QED
    BY <1>1, <1>4, <2>1, <2>2, <2>3, <2>4, <2>5 DEF AllInv, TreeInv
<1>11. \A c : Users(c)' = Users(c)
  BY <1>4, <1>6 DEF Users
<1>12. \A c \in parentBound : c \in Ctx /\ c # k
  BY <1>2, Types DEF AllInv
<1>13. CountInv'
  <2>1. \A c \in Roots : refCount'[c] = MaxRefCount
    BY <1>2, <1>5 DEF AllInv, CountInv, Roots
  <2>2. \A c \in parentBound : Owners(c)' = Owners(c)
    BY <1>1, <1>11 DEF Owners
  <2>3. \A c \in parentBound : refCount[c] < MaxRefCount =>
          refCount[c] = Owners(c) + Pending(stack, c)
    BY DEF AllInv, CountInv
  <2>4. \A c \in parentBound : refCount'[c] = refCount[c]
    BY <1>5, <1>12
  <2>5. \A c \in parentBound : refCount'[c] < MaxRefCount =>
          refCount'[c] = Owners(c)' + Pending(stack', c)
    BY <1>8, <2>2, <2>3, <2>4
  <2> QED
    BY <1>1, <2>1, <2>5 DEF CountInv
<1>14. /\ \A c : Min(c)' = Min(c)
       /\ \A c : Reclaimed(c)' = Reclaimed(c)
       /\ \A c \in parentBound : refCount'[c] = refCount[c]
  BY <1>1, <1>5, <1>6, <1>12 DEF Min, Reclaimed
<1>15. UseInv'
  BY <1>1, <1>4, <1>6, <1>14 DEF AllInv, UseInv
<1>16. ListedInv'
  <2>1. \A c : AtMinimum(c)' = AtMinimum(c)
    BY <1>1, <1>14 DEF AtMinimum
  <2> QED
    BY <1>1, <1>4, <1>6, <1>14, <2>1 DEF AllInv, ListedInv
<1> QED
  BY <1>9, <1>10, <1>13, <1>15, <1>16 DEF AccInv

-----------------------------------------------------------------------------
(***************************************************************************)
(* The invariant holds, and what it says to the client.                    *)
(***************************************************************************)

LEMMA AccInit == Init => AccInv
<1> SUFFICES ASSUME Init PROVE AccInv
  OBVIOUS
<1>1. \A x \in Frames(stack) : FALSE
  BY DEF Init, Frames
<1>2. Nested(stack)
  BY DEF Init, Nested
<1>3. Grounded
  <2> SUFFICES ASSUME NEW S \in SUBSET live, S # {} PROVE \E c \in S : Up[c] \notin S
    BY DEF Grounded
  <2>1. PICK c \in S : TRUE
    OBVIOUS
  <2>2. Up[c] = NoCtx /\ NoCtx \notin S
    BY <2>1, UpAssumption DEF Init, Roots
  <2> QED
    BY <2>1, <2>2
<1>4. TreeInv
  BY <1>3 DEF Init, TreeInv, UpIsLive
<1>5. CountInv /\ UseInv
  BY DEF Init, CountInv, UseInv, Roots
<1>6. ListedInv
  BY DEF Init, ListedInv, AtMinimum
<1> QED
  BY <1>1, <1>2, <1>4, <1>5, <1>6 DEF AccInv, StackInv

\* Nobody removes a file, so the rest of Remove() never runs, and every
\* context that a call goes back to is still there.
LEMMA NotTaken ==
    ASSUME Quiet, AllInv
    PROVE  ~ReturnToFreed /\ ~Unlist /\ \A k \in Ctx : ~Remove(k)
<1>1. stack # <<>> => Good(Top)
  BY Below
<1>2. ~Unlist
  BY <1>1 DEF Unlist, Running, Good
<1>3. ~ReturnToFreed
  <2>1. stack # <<>> /\ Top.op \in {"Chain", "Chained"} => Top.ctx \in live
    BY <1>1 DEF Good, AtMinimum, AllInv, TreeInv
  <2> QED
    BY <2>1 DEF ReturnToFreed
<1> QED
  BY <1>2, <1>3 DEF Remove, Quiet

LEMMA AccStep ==
    ASSUME Quiet, AllInv, [Next]_vars PROVE AllInv'
<1>1. TypeInv' /\ ListInv'
  BY TypesAfter
<1>2. CASE LibraryStep
  <2>1. AccInv'
    BY <1>1, <1>2, AddRefKeeps, ReleaseKeeps, TryAddKeeps, ReleaseParentKeeps,
       ParentReleasedKeeps, NotTaken, LinkKeeps, ReadEntryKeeps, EndsKeep,
       CleanUpSkipKeeps, ReclaimKeeps, DeleteKeeps, CleanUpDoneKeeps
    DEF LibraryStep
  <2> QED
    BY <1>1, <2>1 DEF AllInv, AccInv
<1>3. CASE ClientStep
  <2>1. AccInv'
    BY <1>1, <1>3, AcquireKeeps, DropKeeps, BeginResolveKeeps, EndsKeep,
       DiscoverKeeps, NotTaken, StartReadKeeps, CleanUpKeeps
    DEF ClientStep
  <2> QED
    BY <1>1, <2>1 DEF AllInv, AccInv
<1>4. CASE UNCHANGED vars
  <2>1. /\ UNCHANGED CountsNow
        /\ UNCHANGED <<handles, weAreInFreeList, cleaning, stack>>
    BY <1>4 DEF vars, CountsNow
  <2>2. StackInv'
    <3>1. \A x \in Frames(stack) : Good(x)'
      BY <2>1, GoodSame DEF AllInv, StackInv
    <3> QED
      BY <2>1, <3>1 DEF AllInv, StackInv
  <2>3. SameOwners /\ SameCalls
    BY <2>1, Types DEF SameOwners, SameCalls, AllInv, TreeInv, Reclaimed
  <2>4. AccInv'
    BY <2>1, <2>2, <2>3, CallsKeep
  <2> QED
    BY <1>1, <2>4 DEF AllInv, AccInv
<1> QED
  BY <1>2, <1>3, <1>4 DEF Next

LEMMA AccAlways ==
    ASSUME Quiet PROVE Spec => []AllInv
<1>1. Init => AllInv
  BY TypeInit, ListInit, AccInit DEF AllInv, AccInv
<1>2. AllInv /\ [Next]_vars => AllInv'
  BY AccStep
<1> QED
  BY <1>1, <1>2, PTL DEF Spec

\* Between calls the count is the number of owners.
LEMMA OwnersInTurn ==
    ASSUME AllInv, ClientTurn, NEW c \in live, refCount[c] < MaxRefCount
    PROVE  /\ c \in parentBound /\ InItems(c)
           /\ Users(c) = Kids(c) \cap holdingParent
           /\ refCount[c] = 1 + Cardinality(Kids(c) \cap parentBound)
                              + Cardinality(Kids(c) \cap holdingParent) + handles[c]
           /\ refCount[c] >= Min(c)
           /\ c \in holdingParent <=> refCount[c] # Min(c)
           /\ c \in weAreInFreeList => refCount[c] = Min(c)
           /\ items[c] = Kids(c) \cap parentBound
<1>1. /\ cleaning = FALSE
      /\ \A op, k : op \notin {"Read", "Resolve"} => ~On(stack, op, k)
      /\ \A k : Pending(stack, k) = 0
  BY ClientIsIdle, ClientFrames DEF AllInv
<1>2. c \in parentBound /\ c \notin Roots /\ c \in Ctx
  <2>1. c \notin Roots
    <3>1. \A k \in Roots : refCount[k] = MaxRefCount
      BY DEF AllInv, CountInv
    <3> QED
      BY <3>1, SettingAssumption
  <2> QED
    BY <1>1, <2>1, Types DEF AllInv, TreeInv
<1>3. InItems(c)
  BY <1>1, <1>2 DEF AllInv, TreeInv, InItems
<1>4. Users(c) = Kids(c) \cap holdingParent
  BY <1>1 DEF Users
<1>5. refCount[c] = 1 + Cardinality(Kids(c) \cap parentBound)
                      + Cardinality(Users(c)) + handles[c]
  <2> DEFINE A == Cardinality(Kids(c) \cap parentBound)
             B == Cardinality(Users(c))
  <2>1. refCount[c] = Owners(c) + 0
    BY <1>1, <1>2 DEF AllInv, CountInv
  <2>2. handles[c] \in Nat /\ A \in Nat /\ B \in Nat
    BY <1>2, Types, KidsAndUsers DEF AllInv
  <2> HIDE DEF A, B
  <2>3. Owners(c) = 1 + A + B + handles[c]
    BY DEF Owners, A, B
  <2>4. refCount[c] = 1 + A + B + handles[c]
    BY <2>1, <2>2, <2>3
  <2> QED
    BY <2>4 DEF A, B
<1>6. /\ refCount[c] >= Min(c)
      /\ c \in holdingParent <=> refCount[c] # Min(c)
      /\ c \in weAreInFreeList => refCount[c] = Min(c)
  <2>1. \A k : ~Reclaimed(k)
    BY <1>1 DEF Reclaimed
  <2>2. \A k : ~On(stack, "Chain", k) /\ ~On(stack, "Chained", k)
    BY <1>1
  <2> QED
    BY <1>2, <2>1, <2>2, HoldsInUse
<1>7. items[c] = Kids(c) \cap parentBound
  <2>1. items[c] \subseteq Kids(c) \cap parentBound
    BY <1>2 DEF AllInv, TreeInv
  <2>2. \A k \in parentBound : k \in items[Up[k]]
    BY <1>1 DEF AllInv, TreeInv
  <2> QED
    BY <2>1, <2>2 DEF Kids
<1> QED
  BY <1>2, <1>3, <1>4, <1>5, <1>6, <1>7

\* Then the use of a context is the number of its users and handles.
LEMMA UseInTurn ==
    ASSUME AllInv, ClientTurn, NEW c \in live, refCount[c] < MaxRefCount
    PROVE  /\ refCount[c] - Min(c) = Cardinality(Kids(c) \cap holdingParent) + handles[c]
           /\ Cardinality(Kids(c) \cap holdingParent) \in Nat /\ handles[c] \in Nat
           /\ refCount[c] \in Int /\ Min(c) \in Int
<1> DEFINE A == Cardinality(Kids(c) \cap parentBound)
           B == Cardinality(Kids(c) \cap holdingParent)
<1>1. /\ refCount[c] = 1 + A + B + handles[c]
      /\ items[c] = Kids(c) \cap parentBound /\ c \in parentBound
      /\ Users(c) = Kids(c) \cap holdingParent
  BY OwnersInTurn
<1>2. /\ A \in Nat /\ B \in Nat /\ handles[c] \in Nat
      /\ refCount[c] \in Int /\ Min(c) \in Int
  BY <1>1, Types, KidsAndUsers DEF AllInv
<1>3. Min(c) = 1 + A
  BY <1>1 DEF Min
<1> HIDE DEF A
<1>4. refCount[c] - Min(c) = B + handles[c]
  <2> HIDE DEF B
  <2> QED
    BY <1>1, <1>2, <1>3
<1> QED
  BY <1>2, <1>4

\* The reference count is the number of owners: Items, the children, the
\* children in use and the client.
THEOREM CountsTheOwners == ASSUME Quiet PROVE Spec => []CountsOwners
<1>1. ASSUME AllInv PROVE CountsOwners
  <2> SUFFICES ASSUME ClientTurn, NEW c \in live, refCount[c] < MaxRefCount
               PROVE  refCount[c] = (IF InItems(c) THEN 1 ELSE 0)
                                      + Cardinality(Kids(c) \cap parentBound)
                                      + Cardinality(Kids(c) \cap holdingParent)
                                      + handles[c]
    BY DEF CountsOwners
  <2> QED
    BY <1>1, OwnersInTurn
<1> QED
  BY <1>1, AccAlways, PTL

\* Use of a context is use of every context above it.
THEOREM UseIsPassedUp == ASSUME Quiet PROVE Spec => []UseReachesTheRoot
<1>1. ASSUME AllInv PROVE UseReachesTheRoot
  <2> SUFFICES ASSUME ClientTurn, NEW c \in live \ Roots, refCount[c] < MaxRefCount
               PROVE  c \in holdingParent <=> InUse(c)
    BY DEF UseReachesTheRoot
  <2>1. /\ refCount[c] >= Min(c)
        /\ c \in holdingParent <=> refCount[c] # Min(c)
    BY <1>1, OwnersInTurn
  <2>2. refCount[c] \in Int /\ Min(c) \in Int
    BY <1>1, UseInTurn
  <2> QED
    BY <2>1, <2>2 DEF InUse
<1> QED
  BY <1>1, AccAlways, PTL

\* Nothing on the free list is in use, directly or through a context below it,
\* and nothing that could be freed is missing from it.
THEOREM FreeListIsExact == ASSUME Quiet PROVE Spec => []FreeListIsRight
<1>1. ASSUME AllInv PROVE FreeListIsUnused
  <2> SUFFICES ASSUME ClientTurn, NEW c \in freeList \ Roots
               PROVE  handles[c] = 0 /\ Kids(c) \cap holdingParent = {}
    BY DEF FreeListIsUnused
  <2>1. c \in weAreInFreeList \ Roots /\ c \in live
    BY <1>1 DEF AllInv, ListInv, FreeListIsLive
  <2>2. refCount[c] < MaxRefCount
    BY <1>1, <2>1 DEF AllInv, ListedInv
  <2>3. refCount[c] = Min(c)
    BY <1>1, <2>1, <2>2, OwnersInTurn
  <2> DEFINE B == Cardinality(Kids(c) \cap holdingParent)
  <2>4. /\ refCount[c] - Min(c) = B + handles[c]
        /\ B \in Nat /\ handles[c] \in Nat
        /\ refCount[c] \in Int /\ Min(c) \in Int
    BY <1>1, <2>1, <2>2, UseInTurn
  <2>5. B = 0 /\ handles[c] = 0
    <3> HIDE DEF B
    <3> QED
      BY <2>3, <2>4
  <2>6. IsFiniteSet(Kids(c) \cap holdingParent)
    <3>1. Kids(c) \cap holdingParent \in SUBSET Ctx
      BY DEF Kids
    <3> QED
      BY <3>1, SubsetCard
  <2> QED
    BY <2>5, <2>6, FS_EmptySet
<1>2. ASSUME AllInv PROVE ClaimableIsListed
  <2> SUFFICES ASSUME stack = <<>>, NEW c \in live \cap Reclaims, AtMinimum(c)
               PROVE  c \in freeList
    BY DEF ClaimableIsListed, AtMinimum
  <2>1. ClientTurn
    BY DEF ClientTurn
  <2>2. ~On(stack, "TryAdd", c) /\ cleaning = FALSE
    BY <1>2, <2>1, ClientFrames, ClientIsIdle DEF AllInv
  <2>3. c \in weAreInFreeList
    BY <1>2, <2>2 DEF AllInv, ListedInv
  <2> QED
    BY <1>2, <2>2, <2>3, ListAgree DEF AllInv
<1> QED
  BY <1>1, <1>2, AccAlways, PTL DEF FreeListIsRight

\* A finite set of contexts each of which is the parent of another one of the
\* set contains the parent of each.
LEMMA ParentsStay ==
    ASSUME NEW S \in SUBSET Ctx, \A c \in S : \E k \in S : Up[k] = c
    PROVE  \A c \in S : Up[c] \in S
<1> DEFINE T == {k \in S : Up[k] \in S}
           below == [c \in S |-> CHOOSE k \in S : Up[k] = c]
<1>1. \A c \in S : below[c] \in S /\ Up[below[c]] = c
  OBVIOUS
<1>2. below \in [S -> T]
  BY <1>1
<1>3. \A c, d \in S : below[c] = below[d] => c = d
  BY <1>1
<1>4. IsFiniteSet(S) /\ T \in SUBSET S
  BY SubsetCard
<1>5. IsFiniteSet(T) /\ Cardinality(T) <= Cardinality(S)
      /\ Cardinality(S) \in Nat /\ Cardinality(T) \in Nat
  BY <1>4, FS_Subset, FS_CardinalityType
<1> HIDE DEF T, below
<1>6. below \in Injection(S, T)
  BY <1>2, <1>3 DEF Injection, IsInjective
<1>7. Cardinality(S) <= Cardinality(T)
  BY <1>5, <1>6, FS_Injection
<1>8. S = T
  BY <1>4, <1>5, <1>7, FS_Subset
<1> QED
  BY <1>8 DEF T

\* Without client handles every context is in a claimable state: use that no
\* client started could only go round in a circle.
THEOREM UnheldCanBeClaimed == ASSUME Quiet PROVE Spec => []UnheldIsClaimable
<1>1. ASSUME AllInv PROVE UnheldIsClaimable
  <2> SUFFICES ASSUME stack = <<>>, \A c \in Ctx : handles[c] = 0,
                      \A c \in live \ Roots : refCount[c] < MaxRefCount
               PROVE  \A c \in live \ Roots : ~InUse(c)
    BY DEF UnheldIsClaimable
  <2> DEFINE S == {c \in live \ Roots : InUse(c)}
  <2>1. ClientTurn
    BY DEF ClientTurn
  <2>2. live \in SUBSET Ctx /\ holdingParent \subseteq parentBound
        /\ parentBound \subseteq live /\ parentBound \cap Roots = {}
    BY <1>1, Types DEF AllInv, TreeInv
  <2>3. ASSUME NEW c \in S PROVE \E k \in S : Up[k] = c
    <3> DEFINE B == Cardinality(Kids(c) \cap holdingParent)
    <3>1. c \in live /\ refCount[c] < MaxRefCount /\ refCount[c] > Min(c) /\ handles[c] = 0
      BY <2>2 DEF InUse
    <3>2. /\ refCount[c] - Min(c) = B + handles[c]
          /\ B \in Nat /\ refCount[c] \in Int /\ Min(c) \in Int
      BY <1>1, <2>1, <3>1, UseInTurn
    <3>3. B # 0
      <4> DEFINE r == refCount[c]
                 l == Min(c)
      <4>1. handles[c] = 0 /\ r > l /\ r - l = B + handles[c] /\ B \in Nat /\ r \in Int /\ l \in Int
        BY <3>1, <3>2
      <4> HIDE DEF B, r, l
      <4> QED
        BY <4>1
    <3>4. Kids(c) \cap holdingParent # {}
      BY <3>3, FS_EmptySet
    <3>5. PICK k \in Kids(c) : k \in holdingParent
      BY <3>4
    <3>6. k \in live \ Roots
      BY <2>2, <3>5
    <3>7. /\ refCount[k] >= Min(k) /\ refCount[k] # Min(k)
          /\ refCount[k] \in Int /\ Min(k) \in Int
      BY <1>1, <2>1, <3>5, <3>6, OwnersInTurn, UseInTurn
    <3>8. InUse(k)
      BY <3>7 DEF InUse
    <3> QED
      BY <3>5, <3>6, <3>8 DEF Kids
  <2>4. S \in SUBSET Ctx /\ S \in SUBSET live
    BY <2>2
  <2> HIDE DEF S
  <2>5. \A c \in S : Up[c] \in S
    BY <2>3, <2>4, ParentsStay
  <2>6. S = {}
    BY <1>1, <2>4, <2>5 DEF AllInv, TreeInv, Grounded
  <2> QED
    BY <2>6 DEF S
<1> QED
  BY <1>1, AccAlways, PTL

-----------------------------------------------------------------------------
(***************************************************************************)
(* What a step does to the contexts in memory and the handles.             *)
(***************************************************************************)

\* Contexts come into memory by Create(), leave by Delete, and no other step
\* of the library touches them or the handles.
LEMMA LibraryTouches ==
    ASSUME Quiet, AllInv, LibraryStep
    PROVE  \/ UNCHANGED <<live, handles>>
           \/ Delete
           \/ \E k \in Ctx : k \in Top.left /\ Running("Read") /\ UNCHANGED handles
                  /\ Create(k, <<Call("Release", k)>> \o After(k))
<1>1. ASSUME NEW k \in Ctx, ReadEntry(k)
      PROVE  \/ UNCHANGED <<live, handles>>
             \/ k \in Top.left /\ Running("Read") /\ UNCHANGED handles
                  /\ Create(k, <<Call("Release", k)>> \o After(k))
  BY <1>1 DEF ReadEntry, After
<1>2. ASSUME NEW k \in Ctx, CleanUpSkip(k) \/ Reclaim(k)
      PROVE  UNCHANGED <<live, handles>>
  BY <1>2 DEF CleanUpSkip, Reclaim
<1>3. ASSUME \/ AddRef \/ Release \/ TryToAddOurselfToFreeList \/ ReleaseParent
             \/ ParentReleased \/ ReturnToFreed \/ Link \/ Unlist \/ ReadDone
           \/ ReadFails
             \/ CleanUpDone
      PROVE  UNCHANGED <<live, handles>>
  BY <1>3
  DEF AddRef, Release, TryToAddOurselfToFreeList, ReleaseParent, ParentReleased,
      ReturnToFreed, Link, Unlist, ReadDone, ReadFails, CleanUpDone
<1> QED
  BY <1>1, <1>2, <1>3 DEF LibraryStep

LEMMA ClientTouches ==
    ASSUME Quiet, AllInv, ClientStep
    PROVE  \/ UNCHANGED <<live, handles>>
           \/ \E k \in Ctx : Acquire(k) \/ Drop(k) \/ Discover(k)
<1>1. ASSUME NEW k \in Ctx, StartRead(k) PROVE UNCHANGED <<live, handles>>
  BY <1>1 DEF StartRead
<1>2. ASSUME BeginResolve \/ EndResolve \/ CleanUp PROVE UNCHANGED <<live, handles>>
  BY <1>2 DEF BeginResolve, EndResolve, CleanUp
<1> QED
  BY <1>1, <1>2, NotTaken DEF ClientStep

\* A context is deleted only when no handle and no child refers to it.
THEOREM FreesTheUnused == ASSUME Quiet PROVE Spec => FreesOnlyUnused
<1>1. ASSUME AllInv, [Next]_vars, NEW c \in live \ live'
      PROVE  handles[c] = 0 /\ items[c] = {} /\ Kids(c) \cap parentBound = {}
  <2>1. Delete
    BY <1>1, DeleteTakes
  <2>2. c = Top.ctx /\ Running("Delete")
    BY <1>1, <2>1 DEF Delete
  <2>3. handles[c] = 0 /\ Kids(c) \cap live = {} /\ c \in Ctx
    BY <1>1, <2>2, DeletesUnused
  <2>4. items[c] \subseteq Kids(c) \cap parentBound /\ parentBound \subseteq live
    BY <1>1, <2>3 DEF AllInv, TreeInv
  <2> QED
    BY <2>3, <2>4
<1>2. AllInv /\ [Next]_vars =>
        [\A c \in live \ live' :
           /\ handles[c] = 0
           /\ items[c] = {}
           /\ Kids(c) \cap parentBound = {}]_vars
  BY <1>1
<1> QED
  BY <1>2, AccAlways, PTL DEF Spec, FreesOnlyUnused

\* A step of the cache is a step of the promised tree, or none.
LEMMA PageInStep ==
    ASSUME AllInv, NEW k \in Ctx \ Roots, NEW u, Create(k, u), handles[Up[k]] > 0,
           NEW n \in {0, 1}, handles' = [handles EXCEPT ![k] = n]
    PROVE  Promise!PageIn(k)
<1>1. k \notin live /\ live' = live \cup {k}
  BY DEF Create
<1>2. Up[k] \in live
  <2>1. Up[k] \in Ctx
    BY ParentInTree
  <2> QED
    BY <2>1 DEF AllInv, TreeInv
<1> QED
  BY <1>1, <1>2 DEF Promise!PageIn

LEMMA PromiseStep ==
    ASSUME Quiet, AllInv, [Next]_vars PROVE [Promise!Next]_(Promise!vars)
<1>0. UNCHANGED <<live, handles>> => UNCHANGED Promise!vars
  BY DEF Promise!vars
<1>1. CASE LibraryStep
  <2>1. ASSUME Delete PROVE \E c \in Ctx : Promise!PageOut(c)
    <3>0. PICK c : c = Top.ctx
      OBVIOUS
    <3>1. c \in live \ (Roots \cup parentBound) /\ c \in Ctx
          /\ handles[c] = 0 /\ Kids(c) \cap live = {}
      BY <2>1, <3>0, DeletesUnused DEF Delete
    <3>2. live' = live \ {c} /\ UNCHANGED handles
      BY <2>1, <3>0 DEF Delete
    <3>3. \A k \in live : Up[k] # c
      BY <3>1, Types DEF Kids, AllInv
    <3>4. c \notin Promise!Roots
      BY <3>1 DEF Roots, Promise!Roots
    <3>5. Promise!PageOut(c)
      BY <3>1, <3>2, <3>3, <3>4 DEF Promise!PageOut
    <3> QED
      BY <3>1, <3>5
  <2>2. ASSUME NEW k \in Ctx, k \in Top.left, Running("Read"), UNCHANGED handles,
               Create(k, <<Call("Release", k)>> \o After(k))
        PROVE  Promise!PageIn(k)
    <3>1. Top.ctx \in Ctx /\ handles[Top.ctx] > 0 /\ stack # <<>>
      BY <2>2, ReadFrame
    <3>2. k \in Kids(Top.ctx)
      BY <2>2, <3>1, GoodTop DEF AllInv
    <3>3. Up[k] = Top.ctx /\ k \in Ctx \ Roots
      BY <3>1, <3>2, ParentInTree DEF Kids
    <3>4. handles' = [handles EXCEPT ![k] = 0]
      <4>1. k \notin Roots \cup parentBound
        BY <2>2 DEF Create, AllInv, TreeInv
      <4>2. handles[k] = 0
        BY <4>1, Types DEF AllInv, TreeInv
      <4> QED
        BY <2>2, <4>2, Types DEF AllInv
    <3> QED
      BY <2>2, <3>1, <3>3, <3>4, PageInStep
  <2> QED
    BY <1>0, <1>1, <2>1, <2>2, LibraryTouches DEF Promise!Next
<1>2. CASE ClientStep
  <2>1. ASSUME NEW k \in Ctx, Acquire(k) PROVE Promise!Take(k)
    BY <2>1 DEF Acquire, Promise!Take
  <2>2. ASSUME NEW k \in Ctx, Drop(k) PROVE Promise!Give(k)
    <3>1. handles[k] > 0
      BY <2>2, Types DEF Drop, AllInv
    <3> QED
      BY <2>2, <3>1 DEF Drop, Promise!Give
  <2>3. ASSUME NEW k \in Ctx, Discover(k) PROVE Promise!PageIn(k)
    <3>1. /\ k \in Ctx \ Roots /\ handles[Up[k]] > 0
          /\ Create(k, stack) /\ handles' = [handles EXCEPT ![k] = 1]
      BY <2>3 DEF Discover
    <3> QED
      BY <3>1, PageInStep
  <2> QED
    BY <1>0, <1>2, <2>1, <2>2, <2>3, ClientTouches DEF Promise!Next
<1>3. CASE UNCHANGED vars
  BY <1>0, <1>3 DEF vars
<1> QED
  BY <1>1, <1>2, <1>3 DEF Next

\* The cache implements the tree of contexts its client is promised.
THEOREM KeepsThePromise == ASSUME Quiet PROVE Spec => ImplementsPromise
<1>1. Init => Promise!Init
  BY DEF Init, Roots, Promise!Init, Promise!Roots
<1>2. AllInv /\ [Next]_vars => [Promise!Next]_(Promise!vars)
  BY PromiseStep
<1> QED
  BY <1>1, <1>2, AccAlways, PTL DEF Spec, ImplementsPromise, Promise!Spec

-----------------------------------------------------------------------------
(***************************************************************************)
(* The number of subcontexts.                                              *)
(*                                                                         *)
(* This part does not rest on who owns what: it holds with automatic clean *)
(* up too, if no file is deleted, and with deleted files, if there is no   *)
(* automatic clean up.  With both, the Release() that Remove() makes may   *)
(* start a cleanUp() before Remove() counts, and the counts of references, *)
(* which do go wrong then, let it delete the parent it counts for.  TLC    *)
(* finds this in a tree that is one chain.                                 *)
(***************************************************************************)

OneAtATime == AutoCleanUpCall = FALSE \/ Removable = {}

\* Different files of a directory have different names.
DistinctNames == \A c, d \in Ctx : Up[c] = Up[d] /\ Name[c] = Name[d] => c = d

\* What is paged out stays so until it is read: no cleanUp() comes in the
\* middle of a read, and a read meets no other file in its place.
Exact == AutoCleanUpCall = FALSE /\ DistinctNames

\* Which call may start while another one waits: before a subcontext is linked
\* only references are taken, before one is unlisted or deleted only given
\* back.  Only automatic clean up starts within a call.
Waiting == {"Link", "Unlist", "Delete"}
MayStart(f, y) ==
    /\ y.op = "Link" => f.op = "AddRef"
    /\ y.op \in {"Unlist", "Delete"} => f.op \in Climbing
    /\ f.op = "Clean" => AutoCleanUpCall
Orderly(s) == \A i, j \in 1..Len(s) : i < j => MayStart(s[i], s[j])

\* The calls that will change the tree, the directory reads among them.
Marks(s) == {x \in Frames(s) : x.op \in Waiting \cup {"Read"}}
Reads(s) == {x \in Marks(s) : x.op = "Read"}

\* What such a call finds when it runs.  A read still has before it whatever
\* was paged out.
Ready(x) ==
    /\ x.op = "Link" => x.ctx \in parentBound \ items[Up[x.ctx]]
    /\ x.op = "Unlist" => x.ctx \in Removable /\ Up[x.ctx] \in live
    /\ x.op = "Delete" => x.ctx \notin parentBound /\ items[x.ctx] = {}
    /\ x.op = "Read" /\ Exact => paged \cap Kids(x.ctx) \subseteq x.left

\* The subcontexts of p that a read has seen and that were paged out since.
Missing(p) == IF Exact /\ p \in haveReadDir
              THEN Cardinality(paged \cap Kids(p)) ELSE 0

\* One more while a Remove() has erased a subcontext and not yet counted.
Owed(p) == IF \E x \in Marks(stack) : x.op = "Unlist" /\ Up[x.ctx] = p
           THEN 1 ELSE 0

\* The number of subcontexts is not less than what is in memory, what is
\* missing and what is about to be subtracted, of a directory that is not being
\* read and whose last read did not throw.
Enough(p) == numSub[p] >= Cardinality(items[p]) + Missing(p) + Owed(p)

\* Nothing is left of a context that is not in memory.
Blank(c) == items[c] = {} /\ numSub[c] = 0 /\ c \notin haveReadDir /\ c \notin parentBound

Tidy ==
    /\ \A p \in Ctx : items[p] \subseteq Kids(p) \cap parentBound
    /\ \A c \in Ctx \ live : Blank(c)
    /\ paged \cap parentBound = {}
Attached == \A c \in live \ Roots :
              c \in parentBound \/ \E x \in Marks(stack) : x.op = "Delete" /\ x.ctx = c
Counted == \A p \in live \ failed : (\A x \in Reads(stack) : x.ctx # p) => Enough(p)

DirInv ==
    /\ Orderly(stack)
    /\ \A x \in Marks(stack) : Ready(x)
    /\ Tidy
    /\ Attached
    /\ Counted

\* A call that is put on top.
LEMMA OrderlyPush ==
    ASSUME NEW f \in GoodFrame, NEW t \in Seq(GoodFrame)
    PROVE  Orderly(<<f>> \o t) <=> Orderly(t) /\ \A y \in Frames(t) : MayStart(f, y)
<1> DEFINE u == <<f>> \o t
<1>0. /\ Len(u) = Len(t) + 1 /\ u[1] = f /\ Len(t) \in Nat
      /\ \A i \in 2..Len(t) + 1 : u[i] = t[i - 1]
  BY Push
<1> HIDE DEF u
<1>1. ASSUME Orderly(u), NEW i \in 1..Len(t), NEW j \in 1..Len(t), i < j
      PROVE  MayStart(t[i], t[j])
  <2>1. /\ i + 1 \in 1..Len(u) /\ j + 1 \in 1..Len(u) /\ i + 1 < j + 1
        /\ (i + 1) - 1 = i /\ (j + 1) - 1 = j
    BY <1>0, <1>1
  <2>2. u[i + 1] = t[i] /\ u[j + 1] = t[j]
    BY <1>0, <2>1
  <2> QED
    BY <1>1, <2>1, <2>2 DEF Orderly
<1>2. ASSUME Orderly(u), NEW j \in 1..Len(t) PROVE MayStart(f, t[j])
  <2>1. /\ 1 \in 1..Len(u) /\ j + 1 \in 1..Len(u) /\ 1 < j + 1
        /\ u[1] = f /\ u[j + 1] = t[j]
    BY <1>0
  <2> QED
    BY <1>2, <2>1 DEF Orderly
<1>3. ASSUME Orderly(t), \A j \in 1..Len(t) : MayStart(f, t[j]),
             NEW i \in 1..Len(u), NEW j \in 1..Len(u), i < j
      PROVE  MayStart(u[i], u[j])
  <2>1. j - 1 \in 1..Len(t) /\ u[j] = t[j - 1]
    BY <1>0, <1>3
  <2>2. CASE i = 1
    BY <1>0, <1>3, <2>1, <2>2
  <2>3. CASE i # 1
    <3>1. i - 1 \in 1..Len(t) /\ u[i] = t[i - 1] /\ i - 1 < j - 1
      BY <1>0, <1>3, <2>3
    <3> QED
      BY <1>3, <2>1, <3>1 DEF Orderly
  <2> QED
    BY <2>2, <2>3
<1>4. (\A y \in Frames(t) : MayStart(f, y)) <=> \A j \in 1..Len(t) : MayStart(f, t[j])
  BY DEF Frames
<1>5. Orderly(u) => Orderly(t) /\ \A j \in 1..Len(t) : MayStart(f, t[j])
  BY <1>1, <1>2 DEF Orderly
<1>6. Orderly(t) /\ (\A j \in 1..Len(t) : MayStart(f, t[j])) => Orderly(u)
  BY <1>3 DEF Orderly
<1> QED
  BY <1>4, <1>5, <1>6 DEF u

\* u is an orderly stack with the frames F.
Stacked(u, F) == u \in Seq(GoodFrame) /\ Orderly(u) /\ Frames(u) = F

LEMMA StackOne ==
    ASSUME NEW t \in Seq(GoodFrame), NEW f \in GoodFrame, Orderly(t),
           \A y \in Frames(t) : MayStart(f, y)
    PROVE  Stacked(<<f>> \o t, {f} \cup Frames(t))
<1>1. <<f>> \o t \in Seq(GoodFrame)
  BY Push
<1>2. Frames(<<f>> \o t) = {f} \cup Frames(t)
  BY FramesPush
<1>3. Orderly(<<f>> \o t)
  BY OrderlyPush
<1> QED
  BY <1>1, <1>2, <1>3 DEF Stacked

LEMMA StackTwo ==
    ASSUME NEW t \in Seq(GoodFrame), NEW f \in GoodFrame, NEW g \in GoodFrame,
           Orderly(t), MayStart(f, g),
           \A y \in Frames(t) : MayStart(f, y) /\ MayStart(g, y)
    PROVE  Stacked(<<f, g>> \o t, {f, g} \cup Frames(t))
<1> DEFINE u == <<g>> \o t
<1>1. Stacked(u, {g} \cup Frames(t))
  BY StackOne
<1>2. <<f, g>> \o t = <<f>> \o u
  BY Push2
<1> HIDE DEF u
<1>3. u \in Seq(GoodFrame) /\ Orderly(u) /\ Frames(u) = {g} \cup Frames(t)
  BY <1>1 DEF Stacked
<1>4. \A y \in Frames(u) : MayStart(f, y)
  BY <1>3
<1>5. Stacked(<<f>> \o u, {f} \cup Frames(u))
  BY <1>3, <1>4, StackOne
<1>6. {f} \cup Frames(u) = {f, g} \cup Frames(t)
  BY <1>3
<1> QED
  BY <1>2, <1>5, <1>6

LEMMA StackThree ==
    ASSUME NEW t \in Seq(GoodFrame), NEW f \in GoodFrame, NEW g \in GoodFrame,
           NEW h \in GoodFrame, Orderly(t),
           MayStart(f, g), MayStart(f, h), MayStart(g, h),
           \A y \in Frames(t) : MayStart(f, y) /\ MayStart(g, y) /\ MayStart(h, y)
    PROVE  Stacked(<<f, g, h>> \o t, {f, g, h} \cup Frames(t))
<1> DEFINE u == <<g, h>> \o t
<1>1. Stacked(u, {g, h} \cup Frames(t))
  BY StackTwo
<1>2. <<f, g, h>> \o t = <<f>> \o u
  <2>1. <<f>> \in Seq(GoodFrame) /\ <<g, h>> \in Seq(GoodFrame)
    OBVIOUS
  <2>2. (<<f>> \o <<g, h>>) \o t = <<f>> \o u
    BY <2>1, ConcatAssociative
  <2>3. <<f, g, h>> = <<f>> \o <<g, h>>
    OBVIOUS
  <2> QED
    BY <2>2, <2>3
<1> HIDE DEF u
<1>3. u \in Seq(GoodFrame) /\ Orderly(u) /\ Frames(u) = {g, h} \cup Frames(t)
  BY <1>1 DEF Stacked
<1>4. \A y \in Frames(u) : MayStart(f, y)
  BY <1>3
<1>5. Stacked(<<f>> \o u, {f} \cup Frames(u))
  BY <1>3, <1>4, StackOne
<1>6. {f} \cup Frames(u) = {f, g, h} \cup Frames(t)
  BY <1>3
<1> QED
  BY <1>2, <1>5, <1>6

\* The running call, and what waits below it.
LEMMA Under ==
    ASSUME TypeInv, Orderly(stack), stack # <<>>
    PROVE  /\ Top \in GoodFrame
           /\ Stacked(Tail(stack), Frames(Tail(stack)))
           /\ \A y \in Frames(Tail(stack)) : MayStart(Top, y)
           /\ Frames(stack) = {Top} \cup Frames(Tail(stack))
<1> DEFINE t == Tail(stack)
<1>1. t \in Seq(GoodFrame) /\ Top \in GoodFrame /\ stack = <<Top>> \o t
  BY TopView
<1> HIDE DEF t
<1>2. Orderly(t) /\ \A y \in Frames(t) : MayStart(Top, y)
  BY <1>1, OrderlyPush
<1>3. Frames(stack) = {Top} \cup Frames(t)
  BY <1>1, FramesPush
<1> QED
  BY <1>1, <1>2, <1>3 DEF t, Stacked

\* In the client's turn no call waits to change the tree.
LEMMA NoneWaits ==
    ASSUME TypeInv, Orderly(stack), ClientTurn
    PROVE  /\ \A x \in Frames(stack) : x.op \notin Waiting
           /\ Marks(stack) = Reads(stack)
           /\ \A q : Owed(q) = 0
<1>1. \A x \in Frames(stack) : x.op \notin Waiting
  <2>1. CASE stack = <<>>
    BY <2>1, FramesType DEF TypeInv
  <2>2. CASE stack # <<>>
    <3>1. Top.op \in {"Read", "Resolve"}
      BY <2>2 DEF ClientTurn
    <3>2. \A y \in Frames(Tail(stack)) : y.op \notin Waiting
      BY <2>2, <3>1, Under DEF MayStart, Climbing, Waiting
    <3> QED
      BY <2>2, <3>1, <3>2, Under DEF Waiting
  <2> QED
    BY <2>1, <2>2
<1>2. Marks(stack) = Reads(stack)
  BY <1>1 DEF Marks, Reads
<1>3. \A q : Owed(q) = 0
  BY <1>2 DEF Owed, Reads
<1> QED
  BY <1>1, <1>2, <1>3

\* The numbers that Enough compares.
LEMMA Numbers ==
    ASSUME TypeInv, NEW p \in Ctx
    PROVE  /\ numSub[p] \in Int /\ Cardinality(items[p]) \in Nat
           /\ Missing(p) \in Nat /\ Owed(p) \in {0, 1}
<1>1. numSub[p] \in Int /\ items[p] \in SUBSET Ctx
  BY DEF TypeInv, TypeOK
<1>2. paged \cap Kids(p) \in SUBSET Ctx
  BY DEF Kids
<1> QED
  BY <1>1, <1>2, SubsetCard DEF Missing, Owed

\* What decides is the tree and the calls that will change it.
LEMMA DirSame ==
    ASSUME DirInv, UNCHANGED treeVars, Orderly(stack'), Marks(stack') = Marks(stack)
    PROVE  DirInv'
<1>1. \A x \in Marks(stack) : Ready(x)'
  BY DEF DirInv, Ready
<1>2. Tidy'
  BY DEF DirInv, Tidy, Blank
<1>3. Attached'
  BY DEF DirInv, Attached
<1>4. Reads(stack') = Reads(stack)
  BY DEF Reads
<1>5. \A p : Enough(p)' <=> Enough(p)
  BY DEF Enough, Missing, Owed
<1>6. Counted'
  BY <1>4, <1>5 DEF DirInv, Counted
<1> QED
  BY <1>1, <1>2, <1>3, <1>6 DEF DirInv

\* The steps that change neither the tree nor who will.
LEMMA DirCalls ==
    ASSUME OneAtATime, TypeInv, ListInv, DirInv,
           \/ AddRef \/ Release \/ TryToAddOurselfToFreeList \/ ReleaseParent
           \/ ParentReleased \/ ReturnToFreed \/ CleanUpDone \/ EndResolve
    PROVE  DirInv'
<1> DEFINE t == Tail(stack)
           c == Top.ctx
<1>1. /\ stack # <<>>
      /\ Top.op \in {"AddRef", "Release", "TryAdd", "Chain", "Chained", "Clean", "Resolve"}
      /\ UNCHANGED treeVars
  BY DEF AddRef, Release, TryToAddOurselfToFreeList, ReleaseParent, ParentReleased,
         ReturnToFreed, CleanUpDone, EndResolve, Running
<1>2. /\ Top \in GoodFrame /\ t \in Seq(GoodFrame) /\ Orderly(t)
      /\ \A y \in Frames(t) : MayStart(Top, y)
      /\ Frames(stack) = {Top} \cup Frames(t)
  BY <1>1, Under DEF DirInv, Stacked
<1>3. Marks(stack) = {x \in Frames(t) : x.op \in Waiting \cup {"Read"}}
  BY <1>1, <1>2 DEF Marks, Waiting
<1>4. /\ Top.op \notin {"Clean", "Resolve"} => c \in Ctx
      /\ c \in parentBound => Up[c] \in Ctx
  <2>1. c \in parentBound => c \in Ctx \ Roots
    BY DEF TypeInv, TypeOK
  <2> QED
    BY <1>1, <2>1, GoodTop, ParentInTree
<1>5. \/ stack' = t
      \/ Top.op = "AddRef" /\ Up[c] \in Ctx /\ stack' = <<Call("AddRef", Up[c])>> \o t
      \/ Top.op = "Release" /\ stack' = <<Call("TryAdd", c), Call("Chain", c)>> \o t
      \/ Top.op = "Chain" /\ Up[c] \in Ctx
           /\ stack' = <<Call("Release", Up[c]), Call("Chained", c)>> \o t
      \/ Top.op = "TryAdd" /\ AutoCleanUpCall /\ ~cleaning
           /\ stack' = <<Call("Clean", NoCtx)>> \o t
  BY <1>1, <1>4
  DEF AddRef, Release, TryToAddOurselfToFreeList, ReleaseParent, ParentReleased,
      ReturnToFreed, CleanUpDone, EndResolve, Running, Return, Continue, TakesParent,
      CleanUpRuns
<1>6. \A d \in Ctx : \A op \in {"AddRef", "Release", "TryAdd", "Chain", "Chained"} :
        Call(op, d) \in GoodFrame /\ Call(op, d).op = op
  BY GoodCall, CallIs DEF Op
<1> HIDE DEF t, c
<1>7. Orderly(stack') /\ Marks(stack') = Marks(stack)
  <2>1. CASE stack' = t
    BY <1>2, <1>3, <2>1 DEF Marks
  <2>2. CASE Top.op = "AddRef" /\ Up[c] \in Ctx /\ stack' = <<Call("AddRef", Up[c])>> \o t
    <3> DEFINE f == Call("AddRef", Up[c])
    <3>1. f \in GoodFrame /\ f.op = "AddRef"
      BY <1>6, <2>2
    <3> HIDE DEF f
    <3>2. \A y \in Frames(t) : MayStart(f, y)
      BY <1>2, <2>2, <3>1 DEF MayStart
    <3>3. Stacked(<<f>> \o t, {f} \cup Frames(t))
      BY <1>2, <3>1, <3>2, StackOne
    <3>4. \A x \in {f} : x.op \notin Waiting \cup {"Read"}
      BY <3>1 DEF Waiting
    <3> QED
      BY <1>3, <2>2, <3>3, <3>4 DEF Stacked, Marks, f
  <2>3. CASE Top.op = "Release" /\ stack' = <<Call("TryAdd", c), Call("Chain", c)>> \o t
    <3> DEFINE f == Call("TryAdd", c)
               g == Call("Chain", c)
    <3>1. f \in GoodFrame /\ f.op = "TryAdd" /\ g \in GoodFrame /\ g.op = "Chain"
      BY <1>4, <1>6, <2>3
    <3> HIDE DEF f, g
    <3>2. \A y \in Frames(t) : MayStart(f, y) /\ MayStart(g, y)
      BY <1>2, <2>3, <3>1 DEF MayStart, Climbing
    <3>3. MayStart(f, g)
      BY <3>1 DEF MayStart
    <3>4. Stacked(<<f, g>> \o t, {f, g} \cup Frames(t))
      BY <1>2, <3>1, <3>2, <3>3, StackTwo
    <3>5. \A x \in {f, g} : x.op \notin Waiting \cup {"Read"}
      BY <3>1 DEF Waiting
    <3> QED
      BY <1>3, <2>3, <3>4, <3>5 DEF Stacked, Marks, f, g
  <2>4. CASE Top.op = "Chain" /\ Up[c] \in Ctx
             /\ stack' = <<Call("Release", Up[c]), Call("Chained", c)>> \o t
    <3> DEFINE f == Call("Release", Up[c])
               g == Call("Chained", c)
    <3>1. f \in GoodFrame /\ f.op = "Release" /\ g \in GoodFrame /\ g.op = "Chained"
      BY <1>4, <1>6, <2>4
    <3> HIDE DEF f, g
    <3>2. \A y \in Frames(t) : MayStart(f, y) /\ MayStart(g, y)
      BY <1>2, <2>4, <3>1 DEF MayStart, Climbing
    <3>3. MayStart(f, g)
      BY <3>1 DEF MayStart
    <3>4. Stacked(<<f, g>> \o t, {f, g} \cup Frames(t))
      BY <1>2, <3>1, <3>2, <3>3, StackTwo
    <3>5. \A x \in {f, g} : x.op \notin Waiting \cup {"Read"}
      BY <3>1 DEF Waiting
    <3> QED
      BY <1>3, <2>4, <3>4, <3>5 DEF Stacked, Marks, f, g
  <2>5. CASE Top.op = "TryAdd" /\ AutoCleanUpCall /\ ~cleaning
             /\ stack' = <<Call("Clean", NoCtx)>> \o t
    <3> DEFINE f == Call("Clean", NoCtx)
    <3>1. f \in GoodFrame /\ f.op = "Clean"
      BY GoodCleanCall, CallIs
    <3> HIDE DEF f
    <3>2. \A y \in Frames(stack) : y.op # "Delete"
      BY <2>5 DEF ListInv, StackShape, Frames
    <3>3. \A y \in Frames(t) : y.op # "Unlist"
      <4>1. \A y \in Frames(t) : y.op = "Unlist" => y \in Marks(stack)
        BY <1>3 DEF Waiting
      <4>2. \A y \in Marks(stack) : y.op # "Unlist"
        BY <2>5 DEF DirInv, Ready, OneAtATime
      <4> QED
        BY <4>1, <4>2
    <3>4. \A y \in Frames(t) : y.op # "Link"
      BY <1>2, <2>5 DEF MayStart
    <3>5. \A y \in Frames(t) : MayStart(f, y)
      BY <1>2, <2>5, <3>2, <3>3, <3>4 DEF MayStart
    <3>6. Stacked(<<f>> \o t, {f} \cup Frames(t))
      BY <1>2, <3>1, <3>5, StackOne
    <3>7. \A x \in {f} : x.op \notin Waiting \cup {"Read"}
      BY <3>1 DEF Waiting
    <3> QED
      BY <1>3, <2>5, <3>6, <3>7 DEF Stacked, Marks, f
  <2> QED
    BY <1>5, <2>1, <2>2, <2>3, <2>4, <2>5
<1> QED
  BY <1>1, <1>7, DirSame

\* The calls of a client that has no directory read.
LEMMA DirClient ==
    ASSUME TypeInv, DirInv,
           \/ \E k \in Ctx : Acquire(k) \/ Drop(k) \/ CleanUpSkip(k)
           \/ BeginResolve \/ CleanUp
    PROVE  DirInv'
<1>0. stack \in Seq(GoodFrame) /\ Orderly(stack)
  BY Types DEF DirInv
<1>1. CASE \E k \in Ctx : CleanUpSkip(k)
  <2>1. UNCHANGED treeVars /\ stack' = stack
    BY <1>1 DEF CleanUpSkip
  <2> QED
    BY <1>0, <2>1, DirSame
<1>2. ASSUME NEW f \in GoodFrame, f.op \in {"AddRef", "Release", "Clean", "Resolve"},
             f.op = "Clean" => stack = <<>>, ClientTurn,
             stack' = <<f>> \o stack, UNCHANGED treeVars
      PROVE  DirInv'
  <2>1. \A y \in Frames(stack) : MayStart(f, y)
    <3>1. \A y \in Frames(stack) : y.op \notin Waiting
      BY <1>0, <1>2, NoneWaits
    <3>2. f.op = "Clean" => Frames(stack) = {}
      BY <1>0, <1>2, FramesType
    <3> QED
      BY <1>2, <3>1, <3>2 DEF MayStart, Waiting
  <2>2. Stacked(stack', {f} \cup Frames(stack))
    BY <1>0, <1>2, <2>1, StackOne
  <2>3. Marks(stack') = Marks(stack)
    BY <1>2, <2>2 DEF Stacked, Marks, Waiting
  <2> QED
    BY <1>2, <2>2, <2>3, DirSame DEF Stacked
<1>3. ASSUME NEW k \in Ctx, Acquire(k) \/ Drop(k) PROVE DirInv'
  <2>1. /\ Call("AddRef", k) \in GoodFrame /\ Call("AddRef", k).op = "AddRef"
        /\ Call("Release", k) \in GoodFrame /\ Call("Release", k).op = "Release"
    BY GoodCall, CallIs DEF Op
  <2>2. /\ ClientTurn /\ UNCHANGED treeVars
        /\ \/ stack' = <<Call("AddRef", k)>> \o stack
           \/ stack' = <<Call("Release", k)>> \o stack
    BY <1>3 DEF Acquire, Drop
  <2> QED
    BY <1>2, <2>1, <2>2
<1>4. CASE BeginResolve \/ CleanUp
  <2>1. /\ Call("Resolve", NoCtx) \in GoodFrame /\ Call("Resolve", NoCtx).op = "Resolve"
        /\ Call("Clean", NoCtx) \in GoodFrame /\ Call("Clean", NoCtx).op = "Clean"
    BY GoodCleanCall, CallIs
  <2>2. CASE BeginResolve
    <3>1. /\ ClientTurn /\ UNCHANGED treeVars
          /\ stack' = <<Call("Resolve", NoCtx)>> \o stack
      BY <2>2 DEF BeginResolve
    <3> QED
      BY <1>2, <2>1, <3>1
  <2>3. CASE CleanUp
    <3>1. /\ ClientTurn /\ UNCHANGED treeVars /\ stack = <<>>
          /\ stack' = <<Call("Clean", NoCtx)>> \o stack
      BY <2>3 DEF CleanUp, ClientTurn
    <3> QED
      BY <1>2, <2>1, <3>1
  <2> QED
    BY <1>4, <2>2, <2>3
<1> QED
  BY <1>1, <1>3, <1>4

\* What waits for the creation of k: no call that changes the tree, and reads
\* for which what is paged out, k apart, is still to come.
Awaits(k, u) ==
    /\ u \in Seq(GoodFrame) /\ Orderly(u)
    /\ \A x \in Frames(u) : x.op \notin Waiting
    /\ Exact => \A x \in Reads(u) : (paged \ {k}) \cap Kids(x.ctx) \subseteq x.left
    /\ \A p \in live \ failed : (\A x \in Reads(u) : x.ctx # p) => Enough(p)

\* A context that is made is not paged out, and its directory not read.
LEMMA DirCreate ==
    ASSUME TypeInv, DirInv, ClientTurn, NEW k \in Ctx \ Roots, NEW u,
           Awaits(k, u), Create(k, u)
    PROVE  DirInv'
<1> DEFINE f == Call("AddRef", Up[k])
           g == Call("AddRef", k)
           h == Call("Link", k)
<1>1. /\ k \notin live /\ live' = live \cup {k}
      /\ parentBound' = parentBound \cup {k} /\ paged' = paged \ {k}
      /\ stack' = <<f, g, h>> \o u
      /\ UNCHANGED <<items, numSub, haveReadDir, failed>>
  BY DEF Create
<1>2. /\ u \in Seq(GoodFrame) /\ Orderly(u) /\ \A x \in Frames(u) : x.op \notin Waiting
  BY DEF Awaits
<1>3. /\ f \in GoodFrame /\ f.op = "AddRef"
      /\ g \in GoodFrame /\ g.op = "AddRef"
      /\ h \in GoodFrame /\ h.op = "Link" /\ h.ctx = k
  BY ParentInTree, GoodCall, CallIs DEF Op
<1> HIDE DEF f, g, h
<1>4. Stacked(stack', {f, g, h} \cup Frames(u))
  <2>1. MayStart(f, g) /\ MayStart(f, h) /\ MayStart(g, h)
    BY <1>3 DEF MayStart
  <2>2. \A y \in Frames(u) : MayStart(f, y) /\ MayStart(g, y) /\ MayStart(h, y)
    BY <1>2, <1>3 DEF MayStart, Waiting
  <2> QED
    BY <1>1, <1>2, <1>3, <2>1, <2>2, StackThree
<1>5. Marks(stack') = {h} \cup Reads(u) /\ Reads(stack') = Reads(u)
  BY <1>2, <1>3, <1>4 DEF Stacked, Marks, Reads, Waiting
<1>6. k \notin parentBound /\ items[k] = {} /\ numSub[k] = 0 /\ k \notin haveReadDir
  BY <1>1 DEF DirInv, Tidy, Blank
<1>7. Tidy'
  BY <1>1 DEF DirInv, Tidy, Blank
<1>8. \A x \in Marks(stack') : Ready(x)'
  <2>1. Ready(h)'
    <3>1. Up[k] \in Ctx
      BY ParentInTree
    <3>2. k \notin items[Up[k]]
      BY <1>6, <3>1 DEF DirInv, Tidy
    <3> QED
      BY <1>1, <1>3, <3>2 DEF Ready
  <2>2. ASSUME NEW x \in Reads(u) PROVE Ready(x)'
    BY <1>1, <2>2 DEF Ready, Reads, Awaits
  <2> QED
    BY <1>5, <2>1, <2>2
<1>9. Attached'
  <2>1. \A c \in live \ Roots : c \in parentBound
    BY NoneWaits DEF DirInv, Attached, Reads
  <2> QED
    BY <1>1, <2>1 DEF Attached
<1>10. ASSUME NEW p \in live' \ failed', \A x \in Reads(stack') : x.ctx # p PROVE Enough(p)'
  <2>1. Owed(p)' = 0
    BY <1>3, <1>5 DEF Owed, Reads
  <2>2. CASE p = k
    <3>1. Missing(p)' = 0 /\ Cardinality(items'[p]) = 0 /\ numSub'[p] = 0
      BY <1>1, <1>6, <2>2, FS_EmptySet DEF Missing
    <3> QED
      BY <2>1, <3>1 DEF Enough
  <2>3. CASE p # k
    <3>1. p \in live \ failed /\ p \in Ctx
      BY <1>1, <2>3, Types
    <3>2. Enough(p)
      BY <1>5, <1>10, <3>1 DEF Awaits
    <3> DEFINE A == paged \cap Kids(p)
               B == (paged \ {k}) \cap Kids(p)
               M == Missing(p)
               N == Missing(p)'
               I == Cardinality(items[p])
    <3>3. IsFiniteSet(A) /\ Cardinality(A) \in Nat /\ B \in SUBSET A
      BY SubsetCard DEF Kids
    <3>4. Cardinality(B) \in Nat /\ Cardinality(B) <= Cardinality(A)
      BY <3>3, FS_Subset, FS_CardinalityType
    <3>5. /\ M = IF Exact /\ p \in haveReadDir THEN Cardinality(A) ELSE 0
          /\ N = IF Exact /\ p \in haveReadDir THEN Cardinality(B) ELSE 0
      BY <1>1 DEF Missing
    <3>6. Enough(p)' <=> numSub[p] >= I + N + Owed(p)'
      BY <1>1 DEF Enough
    <3>7. numSub[p] >= I + M + Owed(p) /\ numSub[p] \in Int /\ I \in Nat /\ Owed(p) \in {0, 1}
      BY <3>1, <3>2, Numbers DEF Enough
    <3> HIDE DEF A, B, M, N, I
    <3>8. N <= M /\ N \in Nat /\ M \in Nat
      BY <3>3, <3>4, <3>5
    <3>9. numSub[p] >= I + N + 0
      BY <3>7, <3>8
    <3> QED
      BY <2>1, <3>6, <3>9
  <2> QED
    BY <2>2, <2>3
<1> QED
  BY <1>4, <1>7, <1>8, <1>9, <1>10 DEF DirInv, Counted, Stacked

LEMMA DirDiscover ==
    ASSUME TypeInv, DirInv, NEW k \in Ctx, Discover(k) PROVE DirInv'
<1>1. ClientTurn /\ k \in Ctx \ Roots /\ Create(k, stack)
  BY DEF Discover
<1>2. Awaits(k, stack)
  BY <1>1, NoneWaits DEF Awaits, DirInv, Counted, Ready, TypeInv, Reads
<1> QED
  BY <1>1, <1>2, DirCreate

\* The frame of a read that has met the entry k, and the stack with it.
LEMMA ReadGoesOn ==
    ASSUME TypeInv, DirInv, Running("Read"), NEW k, k \in Top.left
    PROVE  /\ ClientTurn /\ stack # <<>> /\ Top.op = "Read"
           /\ Top.ctx \in Ctx /\ k \in Kids(Top.ctx)
           /\ \E r \in GoodFrame :
                /\ r.op = "Read" /\ r.ctx = Top.ctx /\ r.left = Top.left \ {k}
                /\ Stacked(After(k), {r} \cup Frames(Tail(stack)))
<1> DEFINE t == Tail(stack)
           r == [Top EXCEPT !.left = @ \ {k}]
<1>1. stack # <<>> /\ Top.op = "Read" /\ ClientTurn
  BY DEF Running, ClientTurn
<1>2. /\ Top \in GoodFrame /\ Stacked(t, Frames(t))
      /\ \A y \in Frames(t) : MayStart(Top, y)
  BY <1>1, Under DEF DirInv
<1>3. Top.ctx \in Ctx /\ k \in Kids(Top.ctx)
  BY <1>1, GoodTop
<1>4. /\ Top \in [op : Op, ctx : Ctx \cup {NoCtx}, left : SUBSET Ctx]
      /\ Top.left \subseteq Kids(Top.ctx)
  BY <1>2 DEF GoodFrame, Frame
<1>5. /\ r \in [op : Op, ctx : Ctx \cup {NoCtx}, left : SUBSET Ctx]
      /\ r.op = Top.op /\ r.ctx = Top.ctx /\ r.left = Top.left \ {k}
  BY <1>4
<1>6. r \in GoodFrame
  BY <1>1, <1>3, <1>4, <1>5 DEF GoodFrame, Frame
<1>7. After(k) = <<r>> \o t
  BY DEF After
<1> HIDE DEF r, t
<1>8. \A y \in Frames(t) : MayStart(r, y)
  BY <1>2, <1>5 DEF MayStart
<1>9. Stacked(After(k), {r} \cup Frames(t))
  BY <1>2, <1>6, <1>7, <1>8, StackOne DEF Stacked
<1> QED
  BY <1>1, <1>3, <1>5, <1>6, <1>9 DEF t

\* An entry of a directory that is in memory, or for which there is a
\* subcontext of the same name, has not been paged out.
LEMMA MetIsThere ==
    ASSUME TypeInv, DirInv, DistinctNames, ClientTurn, NEW p \in Ctx, NEW k \in Kids(p),
           Namesakes(p, k) # {} \/ k \in live
    PROVE  k \notin paged
<1>1. CASE Namesakes(p, k) # {}
  <2>1. PICK d \in items[p] : Name[d] = Name[k]
    BY <1>1 DEF Namesakes
  <2>2. d \in Kids(p) \cap parentBound
    BY <2>1 DEF DirInv, Tidy
  <2>3. d = k
    BY <2>1, <2>2 DEF DistinctNames, Kids
  <2> QED
    BY <2>2, <2>3 DEF DirInv, Tidy
<1>2. CASE k \in live
  <2>1. k \notin Roots
    BY ParentInTree DEF Kids
  <2>2. k \in parentBound
    BY <1>2, <2>1, NoneWaits DEF DirInv, Attached, Reads
  <2> QED
    BY <2>2 DEF DirInv, Tidy
<1> QED
  BY <1>1, <1>2

LEMMA DirReadEntry ==
    ASSUME TypeInv, DirInv, NEW k \in Ctx, ReadEntry(k) PROVE DirInv'
<1> DEFINE p == Top.ctx
           t == Tail(stack)
           v == After(k)
           f == Call("Release", k)
<1>1. Running("Read") /\ k \in Top.left
  BY DEF ReadEntry
<1>2. /\ ClientTurn /\ stack # <<>> /\ Top.op = "Read" /\ p \in Ctx /\ k \in Kids(p)
  BY <1>1, ReadGoesOn
<1>3. PICK r \in GoodFrame :
        /\ r.op = "Read" /\ r.ctx = p /\ r.left = Top.left \ {k}
        /\ Stacked(v, {r} \cup Frames(t))
  BY <1>1, ReadGoesOn
<1>4. Frames(stack) = {Top} \cup Frames(t)
  BY <1>2, Under DEF DirInv
<1>5. \A x \in Frames(stack) : x.op \notin Waiting
  BY <1>2, NoneWaits DEF DirInv
<1>6. k \in Ctx \ Roots
  BY <1>2, ParentInTree DEF Kids
<1>7. \/ Create(k, <<f>> \o v)
      \/ UNCHANGED treeVars /\ (Namesakes(p, k) # {} \/ k \in live)
           /\ \/ stack' = v
              \/ \E d \in Namesakes(p, k) : stack' = <<Call("AddRef", d), Call("Release", d)>> \o v
  BY DEF ReadEntry, After
<1> HIDE DEF v, f, t, p
<1>8. /\ v \in Seq(GoodFrame) /\ Orderly(v) /\ Frames(v) = {r} \cup Frames(t)
      /\ \A x \in Frames(v) : x.op \notin Waiting
  BY <1>3, <1>4, <1>5 DEF Stacked, Waiting
<1>9. /\ Marks(stack) = {Top} \cup Reads(t) /\ Reads(stack) = {Top} \cup Reads(t)
      /\ Marks(v) = {r} \cup Reads(t) /\ Reads(v) = {r} \cup Reads(t)
  BY <1>2, <1>3, <1>4, <1>5, <1>8 DEF Marks, Reads
<1>10. \A q : (\A x \in Reads(v) : x.ctx # q) => \A x \in Reads(stack) : x.ctx # q
  BY <1>3, <1>9 DEF p
<1>11. \A x \in Reads(stack) : Exact => paged \cap Kids(x.ctx) \subseteq x.left
  BY DEF DirInv, Ready, Reads
<1>12. CASE Create(k, <<f>> \o v)
  <2>1. f \in GoodFrame /\ f.op = "Release"
    BY GoodCall, CallIs DEF Op, f
  <2>2. \A y \in Frames(v) : MayStart(f, y)
    BY <1>8, <2>1 DEF MayStart, Waiting
  <2>3. Stacked(<<f>> \o v, {f} \cup Frames(v))
    BY <1>8, <2>1, <2>2, StackOne
  <2>4. Reads(<<f>> \o v) = Reads(v)
    BY <2>1, <2>3 DEF Stacked, Reads, Marks
  <2>5. \A x \in Frames(<<f>> \o v) : x.op \notin Waiting
    BY <1>8, <2>1, <2>3 DEF Stacked, Waiting
  <2>6. Exact => \A x \in Reads(v) : (paged \ {k}) \cap Kids(x.ctx) \subseteq x.left
    BY <1>3, <1>9, <1>11 DEF p
  <2>7. \A q \in live \ failed : (\A x \in Reads(v) : x.ctx # q) => Enough(q)
    BY <1>10 DEF DirInv, Counted
  <2>8. Awaits(k, <<f>> \o v)
    BY <2>3, <2>4, <2>5, <2>6, <2>7 DEF Awaits, Stacked
  <2> QED
    BY <1>2, <1>6, <1>12, <2>8, DirCreate
<1>13. CASE UNCHANGED treeVars /\ (Namesakes(p, k) # {} \/ k \in live)
            /\ \/ stack' = v
               \/ \E d \in Namesakes(p, k) :
                    stack' = <<Call("AddRef", d), Call("Release", d)>> \o v
  <2>1. Orderly(stack') /\ Marks(stack') = Marks(v)
    <3>1. CASE stack' = v
      BY <1>8, <3>1
    <3>2. ASSUME NEW d \in Namesakes(p, k),
                 stack' = <<Call("AddRef", d), Call("Release", d)>> \o v
          PROVE  Orderly(stack') /\ Marks(stack') = Marks(v)
      <4> DEFINE a == Call("AddRef", d)
                 b == Call("Release", d)
      <4>1. d \in Ctx
        BY <1>2, Types DEF Namesakes
      <4>2. a \in GoodFrame /\ a.op = "AddRef" /\ b \in GoodFrame /\ b.op = "Release"
        BY <4>1, GoodCall, CallIs DEF Op
      <4> HIDE DEF a, b
      <4>3. MayStart(a, b) /\ \A y \in Frames(v) : MayStart(a, y) /\ MayStart(b, y)
        BY <1>8, <4>2 DEF MayStart, Waiting
      <4>4. Stacked(<<a, b>> \o v, {a, b} \cup Frames(v))
        BY <1>8, <4>2, <4>3, StackTwo
      <4> QED
        BY <3>2, <4>2, <4>4 DEF Stacked, Marks, Waiting, a, b
    <3> QED
      BY <1>13, <3>1, <3>2
  <2>2. Marks(stack') = {r} \cup Reads(t) /\ Reads(stack') = Reads(v)
    BY <1>9, <2>1 DEF Reads
  <2>3. Exact => k \notin paged
    BY <1>2, <1>13, MetIsThere DEF Exact
  <2>4. Ready(r)'
    BY <1>3, <1>9, <1>11, <1>13, <2>3 DEF Ready, p
  <2>5. \A x \in Reads(t) : Ready(x)'
    BY <1>9, <1>11, <1>13 DEF Ready, Reads
  <2>6. Tidy'
    BY <1>13 DEF DirInv, Tidy, Blank
  <2>7. Attached'
    BY <1>2, <1>13, NoneWaits DEF DirInv, Attached, Reads
  <2>8. Counted'
    <3>1. \A q : Owed(q) = 0 /\ Owed(q)' = 0
      BY <1>2, <1>3, <2>2, NoneWaits DEF Owed, DirInv, Reads
    <3>2. \A q : Enough(q) => Enough(q)'
      BY <1>13, <3>1 DEF Enough, Missing
    <3> QED
      BY <1>10, <1>13, <2>2, <3>2 DEF DirInv, Counted
  <2> QED
    BY <2>1, <2>2, <2>4, <2>5, <2>6, <2>7, <2>8 DEF DirInv
<1> QED
  BY <1>7, <1>12, <1>13

LEMMA DirReadDone ==
    ASSUME TypeInv, DirInv, ReadDone PROVE DirInv'
<1>0. PICK p : p = Top.ctx
  OBVIOUS
<1> DEFINE t == Tail(stack)
<1>1. /\ stack # <<>> /\ Top.op = "Read" /\ Top.left = {} /\ ClientTurn
      /\ numSub' = [numSub EXCEPT ![p] = Cardinality(items[p])]
      /\ stack' = t
      /\ UNCHANGED <<live, items, parentBound, haveReadDir, paged, failed>>
  BY <1>0 DEF ReadDone, Running, Return, ClientTurn
<1>2. p \in Ctx
  BY <1>0, <1>1, GoodTop
<1>3. t \in Seq(GoodFrame) /\ Orderly(t) /\ Frames(stack) = {Top} \cup Frames(t)
  BY <1>1, Under DEF DirInv, Stacked
<1>4. \A x \in Frames(stack) : x.op \notin Waiting
  BY <1>1, NoneWaits DEF DirInv
<1> HIDE DEF t
<1>5. /\ Marks(stack) = {Top} \cup Reads(t) /\ Reads(stack) = {Top} \cup Reads(t)
      /\ Marks(t) = Reads(t)
  BY <1>1, <1>3, <1>4 DEF Marks, Reads
<1>6. numSub \in [Ctx -> Int] /\ \A c \in Ctx : Cardinality(items[c]) \in Nat
  BY Numbers DEF TypeInv, TypeOK
<1>7. \A x \in Reads(t) : Ready(x)'
  BY <1>1, <1>5 DEF DirInv, Ready, Reads
<1>8. Tidy'
  <2>1. \A c \in Ctx \ live : numSub'[c] = 0
    <3> TAKE c \in Ctx \ live
    <3>1. CASE c = p
      <4>1. items[p] = {}
        BY <3>1 DEF DirInv, Tidy, Blank
      <4>2. numSub'[p] = Cardinality(items[p])
        BY <1>1, <1>2, <1>6
      <4> QED
        BY <3>1, <4>1, <4>2, FS_EmptySet
    <3>2. CASE c # p
      <4>1. numSub'[c] = numSub[c]
        BY <1>1, <1>6, <3>2
      <4> QED
        BY <4>1 DEF DirInv, Tidy, Blank
    <3> QED
      BY <3>1, <3>2
  <2> QED
    BY <1>1, <2>1 DEF DirInv, Tidy, Blank
<1>9. Attached'
  BY <1>1, NoneWaits DEF DirInv, Attached, Reads
<1>10. ASSUME NEW q \in live \ failed, \A x \in Reads(t) : x.ctx # q PROVE Enough(q)'
  <2>0. q \in Ctx
    BY Types
  <2>1. Owed(q)' = 0 /\ Owed(q) = 0
    BY <1>1, <1>5, NoneWaits DEF Owed, DirInv, Reads
  <2>2. Missing(q)' = Missing(q)
    BY <1>1 DEF Missing
  <2>3. CASE q = p
    <3>1. Exact => paged \cap Kids(p) = {}
      BY <1>0, <1>1, <1>5 DEF DirInv, Ready
    <3>2. Missing(p) = 0
      BY <3>1, FS_EmptySet DEF Missing
    <3>3. numSub'[p] = Cardinality(items[p])
      BY <1>1, <1>2, <1>6
    <3>4. Cardinality(items'[p]) = Cardinality(items[p])
      BY <1>1
    <3>5. numSub'[p] >= Cardinality(items'[p]) + 0 + 0
      BY <1>2, <1>6, <3>3, <3>4
    <3> QED
      BY <2>1, <2>2, <2>3, <3>2, <3>5 DEF Enough
  <2>4. CASE q # p
    <3>1. numSub'[q] = numSub[q]
      BY <1>1, <1>6, <2>0, <2>4
    <3>2. \A x \in Reads(stack) : x.ctx # q
      BY <1>0, <1>5, <1>10, <2>4
    <3>3. Enough(q)
      BY <3>2 DEF DirInv, Counted
    <3> QED
      BY <1>1, <2>1, <2>2, <3>1, <3>3 DEF Enough
  <2> QED
    BY <2>3, <2>4
<1> QED
  BY <1>1, <1>3, <1>5, <1>7, <1>8, <1>9, <1>10 DEF DirInv, Counted

\* A read that throws leaves its directory uncounted.
LEMMA DirReadFails ==
    ASSUME TypeInv, DirInv, ReadFails PROVE DirInv'
<1>0. PICK p : p = Top.ctx
  OBVIOUS
<1> DEFINE t == Tail(stack)
<1>1. /\ stack # <<>> /\ Top.op = "Read" /\ ClientTurn
      /\ failed' = failed \cup {p}
      /\ stack' = t
      /\ UNCHANGED <<live, items, parentBound, numSub, haveReadDir, paged>>
  BY <1>0 DEF ReadFails, Running, Return, ClientTurn
<1>2. t \in Seq(GoodFrame) /\ Orderly(t) /\ Frames(stack) = {Top} \cup Frames(t)
  BY <1>1, Under DEF DirInv, Stacked
<1>3. \A x \in Frames(stack) : x.op \notin Waiting
  BY <1>1, NoneWaits DEF DirInv
<1> HIDE DEF t
<1>4. /\ Marks(stack) = {Top} \cup Reads(t) /\ Reads(stack) = {Top} \cup Reads(t)
      /\ Marks(t) = Reads(t)
  BY <1>1, <1>2, <1>3 DEF Marks, Reads
<1>5. \A x \in Reads(t) : Ready(x)'
  BY <1>1, <1>4 DEF DirInv, Ready, Reads
<1>6. Tidy'
  BY <1>1 DEF DirInv, Tidy, Blank
<1>7. Attached'
  BY <1>1, NoneWaits DEF DirInv, Attached, Reads
<1>8. ASSUME NEW q \in live \ failed', \A x \in Reads(t) : x.ctx # q PROVE Enough(q)'
  <2>1. q \in live \ failed /\ \A x \in Reads(stack) : x.ctx # q
    BY <1>0, <1>1, <1>4, <1>8
  <2>2. Enough(q)
    BY <2>1 DEF DirInv, Counted
  <2>3. Owed(q)' = 0 /\ Owed(q) = 0
    BY <1>1, <1>4, NoneWaits DEF Owed, DirInv, Reads
  <2>4. Missing(q)' = Missing(q)
    BY <1>1 DEF Missing
  <2> QED
    BY <1>1, <2>2, <2>3, <2>4 DEF Enough
<1> QED
  BY <1>1, <1>2, <1>4, <1>5, <1>6, <1>7, <1>8 DEF DirInv, Counted

\* A read that begins has everything before it that was paged out.
LEMMA DirStartRead ==
    ASSUME TypeInv, DirInv, NEW p \in Ctx, StartRead(p) PROVE DirInv'
<1>1. PICK S \in Listings(p) :
        LET read == [op |-> "Read", ctx |-> p, left |-> S] IN
        \/ AutoCleanUpCall /\ stack' = <<Call("Clean", NoCtx), read>> \o stack
        \/ stack' = <<read>> \o stack
  BY DEF StartRead
<1> DEFINE f == [op |-> "Read", ctx |-> p, left |-> S]
           g == Call("Clean", NoCtx)
<1>2. /\ f \in GoodFrame /\ f.op = "Read" /\ f.ctx = p
      /\ paged \cap Kids(p) \subseteq f.left
  <2>1. S \subseteq Kids(p) /\ paged \cap Kids(p) \subseteq S
    BY DEF Listings
  <2> QED
    BY <2>1 DEF GoodFrame, Frame, Op, Kids
<1>3. g \in GoodFrame /\ g.op = "Clean"
  BY GoodCleanCall, CallIs
<1>4. (AutoCleanUpCall /\ stack' = <<g, f>> \o stack) \/ stack' = <<f>> \o stack
  BY <1>1
<1>5. /\ ClientTurn /\ p \in live
      /\ numSub' = [numSub EXCEPT ![p] = 0]
      /\ haveReadDir' = haveReadDir \cup {p}
      /\ failed' = failed \ {p}
      /\ UNCHANGED <<live, items, parentBound, paged>>
  BY DEF StartRead
<1>6. stack \in Seq(GoodFrame) /\ Orderly(stack) /\ \A x \in Frames(stack) : x.op \notin Waiting
  BY <1>5, Types, NoneWaits DEF DirInv
<1>7. numSub \in [Ctx -> Int]
  BY DEF TypeInv, TypeOK
<1> HIDE DEF f, g
<1>8. Orderly(stack') /\ Marks(stack') = {f} \cup Marks(stack)
  <2>1. \A y \in Frames(stack) : MayStart(f, y)
    BY <1>2, <1>6 DEF MayStart, Waiting
  <2>2. CASE stack' = <<f>> \o stack
    <3>1. Stacked(stack', {f} \cup Frames(stack))
      BY <1>2, <1>6, <2>1, <2>2, StackOne
    <3> QED
      BY <1>2, <3>1 DEF Stacked, Marks
  <2>3. CASE AutoCleanUpCall /\ stack' = <<g, f>> \o stack
    <3>1. MayStart(g, f) /\ \A y \in Frames(stack) : MayStart(g, y)
      BY <1>2, <1>3, <1>6, <2>3 DEF MayStart, Waiting
    <3>2. Stacked(stack', {g, f} \cup Frames(stack))
      BY <1>2, <1>3, <1>6, <2>1, <2>3, <3>1, StackTwo
    <3> QED
      BY <1>2, <1>3, <3>2 DEF Stacked, Marks, Waiting
  <2> QED
    BY <1>4, <2>2, <2>3
<1>9. Marks(stack) = Reads(stack) /\ Reads(stack') = {f} \cup Reads(stack)
  BY <1>2, <1>5, <1>8, NoneWaits DEF DirInv, Reads
<1>10. \A x \in Marks(stack') : Ready(x)'
  <2>1. Ready(f)'
    BY <1>2, <1>5 DEF Ready
  <2>2. \A x \in Reads(stack) : Ready(x)'
    BY <1>5 DEF DirInv, Ready, Reads
  <2> QED
    BY <1>8, <1>9, <2>1, <2>2
<1>11. Tidy'
  BY <1>5, <1>7 DEF DirInv, Tidy, Blank
<1>12. Attached'
  BY <1>5, NoneWaits DEF DirInv, Attached, Reads
<1>13. ASSUME NEW q \in live \ failed', \A x \in Reads(stack') : x.ctx # q PROVE Enough(q)'
  <2>1. q # p /\ q \in Ctx
    BY <1>2, <1>9, <1>13, Types
  <2>2. numSub'[q] = numSub[q] /\ Missing(q)' = Missing(q) /\ items'[q] = items[q]
    BY <1>5, <1>7, <2>1 DEF Missing
  <2>3. Owed(q)' = 0 /\ Owed(q) = 0
    BY <1>2, <1>5, <1>8, <1>9, NoneWaits DEF Owed, DirInv, Reads
  <2>4. Enough(q)
    BY <1>5, <1>9, <1>13, <2>1 DEF DirInv, Counted
  <2> QED
    BY <2>2, <2>3, <2>4 DEF Enough
<1> QED
  BY <1>5, <1>8, <1>10, <1>11, <1>12, <1>13 DEF DirInv, Counted

\* Below a call that waits to change the tree no other one waits.
LEMMA WaitsAlone ==
    ASSUME TypeInv, DirInv, stack # <<>>, Top.op \in Waiting
    PROVE  /\ Tail(stack) \in Seq(GoodFrame) /\ Orderly(Tail(stack))
           /\ Marks(stack) = {Top} \cup Reads(stack)
           /\ Marks(Tail(stack)) = Reads(stack) /\ Reads(Tail(stack)) = Reads(stack)
           /\ \A x \in Reads(stack) : x.op = "Read" /\ Ready(x)
<1> DEFINE t == Tail(stack)
<1>1. /\ t \in Seq(GoodFrame) /\ Orderly(t) /\ Frames(stack) = {Top} \cup Frames(t)
      /\ \A y \in Frames(t) : MayStart(Top, y)
  BY Under DEF DirInv, Stacked
<1> HIDE DEF t
<1>2. \A y \in Frames(t) : y.op \notin Waiting
  BY <1>1 DEF MayStart, Waiting, Climbing
<1>3. /\ Marks(stack) = {Top} \cup Reads(stack)
      /\ Marks(t) = Reads(stack) /\ Reads(t) = Reads(stack)
  BY <1>1, <1>2 DEF Marks, Reads, Waiting
<1>4. \A x \in Reads(stack) : x.op = "Read" /\ Ready(x)
  BY DEF DirInv, Reads
<1> QED
  BY <1>1, <1>3, <1>4 DEF t

\* A new subcontext is counted when it is in Items.
LEMMA DirLink ==
    ASSUME TypeInv, DirInv, Link PROVE DirInv'
<1>0. PICK k : k = Top.ctx
  OBVIOUS
<1> DEFINE p == Up[k]
           t == Tail(stack)
<1>1. /\ stack # <<>> /\ Top.op = "Link" /\ p \in live
      /\ items' = [items EXCEPT ![p] = @ \cup {k}]
      /\ numSub' = [numSub EXCEPT ![p] = @ + 1]
      /\ stack' = t
      /\ UNCHANGED <<live, parentBound, haveReadDir, paged, failed>>
  BY <1>0 DEF Link, Running, Return
<1>2. /\ t \in Seq(GoodFrame) /\ Orderly(t)
      /\ Marks(stack) = {Top} \cup Reads(stack)
      /\ Marks(t) = Reads(stack) /\ Reads(t) = Reads(stack)
      /\ \A x \in Reads(stack) : x.op = "Read" /\ Ready(x)
  BY <1>1, WaitsAlone DEF Waiting
<1>3. k \in parentBound \ items[p]
  BY <1>0, <1>1, <1>2 DEF DirInv, Ready
<1>4. k \in Ctx /\ p \in Ctx /\ k \in Kids(p)
  BY <1>1, <1>3, Types DEF Kids
<1>5. numSub \in [Ctx -> Int] /\ items \in [Ctx -> SUBSET Ctx]
  BY DEF TypeInv, TypeOK
<1> HIDE DEF p, t
<1>6. items'[p] = items[p] \cup {k} /\ numSub'[p] = numSub[p] + 1
      /\ \A q \in Ctx \ {p} : items'[q] = items[q] /\ numSub'[q] = numSub[q]
  BY <1>1, <1>4, <1>5
<1>7. \A x \in Reads(stack) : Ready(x)'
  BY <1>1, <1>2 DEF Ready
<1>8. Tidy'
  <2>1. \A q \in Ctx : items'[q] \subseteq Kids(q) \cap parentBound
    BY <1>3, <1>4, <1>6 DEF DirInv, Tidy
  <2>2. \A c \in Ctx \ live : Blank(c)'
    BY <1>1, <1>6 DEF DirInv, Tidy, Blank
  <2> QED
    BY <1>1, <2>1, <2>2 DEF DirInv, Tidy
<1>9. Attached'
  BY <1>1, <1>2 DEF DirInv, Attached
<1>10. ASSUME NEW q \in live \ failed, \A x \in Reads(stack) : x.ctx # q PROVE Enough(q)'
  <2>1. Enough(q) /\ q \in Ctx
    BY <1>10, Types DEF DirInv, Counted
  <2>2. Missing(q)' = Missing(q) /\ Owed(q)' = 0 /\ Owed(q) = 0
    <3>1. Missing(q)' = Missing(q)
      BY <1>1 DEF Missing
    <3>2. Owed(q)' = 0 /\ Owed(q) = 0
      BY <1>1, <1>2 DEF Owed
    <3> QED
      BY <3>1, <3>2
  <2>3. CASE q # p
    BY <1>6, <2>1, <2>2, <2>3 DEF Enough
  <2>4. CASE q = p
    <3> DEFINE M == Missing(q)
               I == Cardinality(items[q])
               J == Cardinality(items[q] \cup {k})
    <3>1. J = I + 1 /\ I \in Nat
      BY <1>3, <1>4, <1>5, <2>1, <2>4, CardPlus
    <3>2. numSub[q] \in Int /\ M \in Nat
      BY <2>1, Numbers
    <3>3. numSub[q] >= I + M + 0
      BY <2>1, <2>2 DEF Enough
    <3>4. Enough(q)' <=> numSub[q] + 1 >= J + M + 0
      BY <1>6, <2>2, <2>4 DEF Enough
    <3> HIDE DEF M, I, J
    <3> QED
      BY <3>1, <3>2, <3>3, <3>4
  <2> QED
    BY <2>3, <2>4
<1> QED
  BY <1>1, <1>2, <1>7, <1>8, <1>9, <1>10 DEF DirInv, Counted

\* Remove() erases a subcontext first and counts it later.
LEMMA DirRemove ==
    ASSUME TypeInv, DirInv, NEW k \in Ctx, Remove(k) PROVE DirInv'
<1> DEFINE p == Up[k]
<1>1. PICK d \in Namesakes(p, k) :
        /\ items' = [items EXCEPT ![p] = @ \ {d}]
        /\ stack' = <<Call("Release", d), Call("Unlist", k)>> \o stack
  BY DEF Remove
<1>2. /\ ClientTurn /\ k \in Removable \cap parentBound
      /\ UNCHANGED <<live, parentBound, numSub, haveReadDir, paged, failed>>
  BY DEF Remove
<1>3. p \in Ctx
  BY <1>2, ParentInTree DEF TypeInv, TypeOK
<1>4. d \in items[p] /\ d \in Ctx /\ p \in live /\ items \in [Ctx -> SUBSET Ctx]
  BY <1>3, Types DEF Namesakes, DirInv, Tidy, Blank
<1> DEFINE f == Call("Release", d)
           g == Call("Unlist", k)
<1>5. /\ f \in GoodFrame /\ f.op = "Release"
      /\ g \in GoodFrame /\ g.op = "Unlist" /\ g.ctx = k
  BY <1>4, GoodCall, CallIs DEF Op
<1>6. stack' = <<f, g>> \o stack
  BY <1>1
<1>7. /\ stack \in Seq(GoodFrame) /\ Orderly(stack)
      /\ \A x \in Frames(stack) : x.op \notin Waiting
      /\ Marks(stack) = Reads(stack)
  BY <1>2, Types, NoneWaits DEF DirInv
<1> HIDE DEF f, g
<1>8. Stacked(stack', {f, g} \cup Frames(stack))
  <2>1. MayStart(f, g) /\ \A y \in Frames(stack) : MayStart(f, y) /\ MayStart(g, y)
    BY <1>5, <1>7 DEF MayStart, Waiting, Climbing
  <2> QED
    BY <1>5, <1>6, <1>7, <2>1, StackTwo
<1>9. Marks(stack') = {g} \cup Reads(stack) /\ Reads(stack') = Reads(stack)
  BY <1>5, <1>7, <1>8 DEF Stacked, Marks, Reads, Waiting
<1>10. /\ items'[p] = items[p] \ {d}
       /\ \A q \in Ctx \ {p} : items'[q] = items[q]
  BY <1>1, <1>3, <1>4
<1>11. \A x \in Marks(stack') : Ready(x)'
  <2>1. Ready(g)'
    BY <1>2, <1>4, <1>5 DEF Ready
  <2>2. \A x \in Reads(stack) : Ready(x)'
    BY <1>2 DEF DirInv, Ready, Reads
  <2> QED
    BY <1>9, <2>1, <2>2
<1>12. Tidy'
  <2>1. \A q \in Ctx : items'[q] \subseteq items[q]
    BY <1>10
  <2> QED
    BY <1>2, <2>1 DEF DirInv, Tidy, Blank
<1>13. Attached'
  BY <1>2, <1>7 DEF DirInv, Attached, Reads
<1>14. ASSUME NEW q \in live \ failed, \A x \in Reads(stack) : x.ctx # q PROVE Enough(q)'
  <2>1. Enough(q) /\ q \in Ctx /\ Owed(q) = 0
    BY <1>2, <1>14, Types, NoneWaits DEF DirInv, Counted
  <2>2. Missing(q)' = Missing(q) /\ numSub'[q] = numSub[q]
    BY <1>2 DEF Missing
  <2>3. CASE q # p
    <3>1. Owed(q)' = 0
      BY <1>5, <1>9, <2>3 DEF Owed, Reads
    <3>2. items'[q] = items[q]
      BY <1>10, <2>1, <2>3
    <3> QED
      BY <2>1, <2>2, <3>1, <3>2 DEF Enough
  <2>4. CASE q = p
    <3> DEFINE M == Missing(q)
               I == Cardinality(items[q])
               J == Cardinality(items'[q])
    <3>1. J = I - 1 /\ I \in Nat
      BY <1>4, <1>10, <2>1, <2>4, CardMinus
    <3>2. numSub[q] \in Int /\ M \in Nat
      BY <2>1, Numbers
    <3>3. numSub[q] >= I + M + 0
      BY <2>1 DEF Enough
    <3>4. Owed(q)' = 0 \/ Owed(q)' = 1
      BY DEF Owed
    <3>5. Enough(q)' <=> numSub[q] >= J + M + Owed(q)'
      BY <2>2 DEF Enough
    <3> HIDE DEF M, I, J
    <3>6. numSub[q] >= J + M + 0 /\ numSub[q] >= J + M + 1
      BY <3>1, <3>2, <3>3
    <3> QED
      BY <3>4, <3>5, <3>6
  <2> QED
    BY <2>3, <2>4
<1> QED
  BY <1>2, <1>8, <1>9, <1>11, <1>12, <1>13, <1>14 DEF DirInv, Counted, Stacked

LEMMA DirUnlist ==
    ASSUME TypeInv, DirInv, Unlist PROVE DirInv'
<1>0. PICK k : k = Top.ctx
  OBVIOUS
<1> DEFINE p == Up[k]
           t == Tail(stack)
<1>1. /\ stack # <<>> /\ Top.op = "Unlist"
      /\ numSub' = [numSub EXCEPT ![p] = @ - 1]
      /\ stack' = t
      /\ UNCHANGED <<live, items, parentBound, haveReadDir, paged, failed>>
  BY <1>0 DEF Unlist, Running, Return
<1>2. /\ t \in Seq(GoodFrame) /\ Orderly(t)
      /\ Marks(stack) = {Top} \cup Reads(stack)
      /\ Marks(t) = Reads(stack) /\ Reads(t) = Reads(stack)
      /\ \A x \in Reads(stack) : x.op = "Read" /\ Ready(x)
  BY <1>1, WaitsAlone DEF Waiting
<1>3. p \in live /\ p \in Ctx
  BY <1>0, <1>1, <1>2, Types DEF DirInv, Ready
<1>4. numSub \in [Ctx -> Int]
  BY DEF TypeInv, TypeOK
<1>5. Owed(p) = 1
  BY <1>0, <1>1, <1>2 DEF Owed
<1> HIDE DEF p, t
<1>6. numSub'[p] = numSub[p] - 1 /\ \A q \in Ctx \ {p} : numSub'[q] = numSub[q]
  BY <1>1, <1>3, <1>4
<1>7. \A x \in Reads(stack) : Ready(x)'
  BY <1>1, <1>2 DEF Ready
<1>8. Tidy'
  <2>1. \A c \in Ctx \ live : Blank(c)'
    BY <1>1, <1>3, <1>6 DEF DirInv, Tidy, Blank
  <2> QED
    BY <1>1, <2>1 DEF DirInv, Tidy
<1>9. Attached'
  BY <1>1, <1>2 DEF DirInv, Attached
<1>10. ASSUME NEW q \in live \ failed, \A x \in Reads(stack) : x.ctx # q PROVE Enough(q)'
  <2>1. Enough(q) /\ q \in Ctx
    BY <1>10, Types DEF DirInv, Counted
  <2>2. Missing(q)' = Missing(q) /\ items'[q] = items[q]
    BY <1>1 DEF Missing
  <2>3. Owed(q)' = 0
    BY <1>1, <1>2 DEF Owed
  <2> DEFINE M == Missing(q)
             I == Cardinality(items[q])
             O == Owed(q)
  <2>4. numSub[q] \in Int /\ M \in Nat /\ I \in Nat /\ O \in {0, 1}
    BY <2>1, Numbers
  <2>5. numSub[q] >= I + M + O
    BY <2>1 DEF Enough
  <2>6. q = p => O = 1
    BY <1>5
  <2>7. Enough(q)' <=> numSub'[q] >= I + M + 0
    BY <2>2, <2>3 DEF Enough
  <2>8. numSub'[q] = IF q = p THEN numSub[q] - 1 ELSE numSub[q]
    BY <1>6, <2>1
  <2> HIDE DEF M, I, O
  <2> QED
    BY <2>4, <2>5, <2>6, <2>7, <2>8
<1> QED
  BY <1>1, <1>2, <1>7, <1>8, <1>9, <1>10 DEF DirInv, Counted

\* What cleanUp() takes out of Items is missed from then on.
LEMMA DirReclaim ==
    ASSUME TypeInv, DirInv, NEW k \in Ctx, Reclaim(k) PROVE DirInv'
<1> DEFINE p == Up[k]
           g == Call("Release", p)
           h == Call("Delete", k)
<1>1. /\ stack # <<>> /\ Top.op = "Clean" /\ k \in parentBound /\ items[k] = {}
      /\ p \in live
      /\ items' = [items EXCEPT ![p] = @ \ Namesakes(p, k)]
      /\ \/ \E d \in Namesakes(p, k) \ {k} :
              stack' = <<Call("Release", d)>> \o (<<g, h>> \o stack)
         \/ stack' = <<g, h>> \o stack
      /\ parentBound' = parentBound \ {k}
      /\ paged' = paged \cup ({k} \cap items[p])
      /\ UNCHANGED <<live, numSub, haveReadDir, failed>>
  BY DEF Reclaim, Running, CleanUpDrops, CleanUpRejects
<1>2. p \in Ctx /\ items \in [Ctx -> SUBSET Ctx] /\ k \in Kids(p)
  BY <1>1, Types DEF Kids
<1>3. /\ g \in GoodFrame /\ g.op = "Release"
      /\ h \in GoodFrame /\ h.op = "Delete" /\ h.ctx = k
  BY <1>2, GoodCall, CallIs DEF Op
<1>4. /\ stack \in Seq(GoodFrame) /\ Orderly(stack)
      /\ Frames(stack) = {Top} \cup Frames(Tail(stack))
      /\ \A y \in Frames(Tail(stack)) : MayStart(Top, y)
  BY <1>1, Types, Under DEF DirInv
<1>5. \A y \in Frames(stack) : y.op \notin Waiting
  BY <1>1, <1>4 DEF MayStart, Waiting, Climbing
<1>6. Exact => Reads(stack) = {}
  <2>1. Exact => Frames(Tail(stack)) = {}
    BY <1>1, <1>4 DEF MayStart, Exact
  <2> QED
    BY <1>1, <1>4, <2>1 DEF Reads, Marks
<1> HIDE DEF p, g, h
<1>7. Stacked(<<g, h>> \o stack, {g, h} \cup Frames(stack))
  <2>1. MayStart(g, h) /\ \A y \in Frames(stack) : MayStart(g, y) /\ MayStart(h, y)
    BY <1>3, <1>5 DEF MayStart, Waiting, Climbing
  <2> QED
    BY <1>3, <1>4, <2>1, StackTwo
<1>8. Orderly(stack') /\ Marks(stack') = {h} \cup Reads(stack)
  <2>1. CASE stack' = <<g, h>> \o stack
    BY <1>3, <1>5, <1>7, <2>1 DEF Stacked, Marks, Reads, Waiting
  <2>2. ASSUME NEW d \in Namesakes(p, k), stack' = <<Call("Release", d)>> \o (<<g, h>> \o stack)
        PROVE  Orderly(stack') /\ Marks(stack') = {h} \cup Reads(stack)
    <3> DEFINE f == Call("Release", d)
               u == <<g, h>> \o stack
    <3>1. d \in Ctx
      BY <1>2 DEF Namesakes
    <3>2. f \in GoodFrame /\ f.op = "Release"
      BY <3>1, GoodCall, CallIs DEF Op
    <3>3. u \in Seq(GoodFrame) /\ Orderly(u) /\ Frames(u) = {g, h} \cup Frames(stack)
      BY <1>7 DEF Stacked
    <3> HIDE DEF f, u
    <3>4. \A y \in Frames(u) : MayStart(f, y)
      BY <1>3, <1>5, <3>2, <3>3 DEF MayStart, Waiting, Climbing
    <3>5. Stacked(<<f>> \o u, {f} \cup Frames(u))
      BY <3>2, <3>3, <3>4, StackOne
    <3> QED
      BY <1>3, <1>5, <2>2, <3>2, <3>3, <3>5 DEF Stacked, Marks, Reads, Waiting, f, u
  <2> QED
    BY <1>1, <2>1, <2>2
<1>9. Reads(stack') = Reads(stack) /\ \A q : Owed(q)' = 0
  BY <1>3, <1>8 DEF Reads, Owed
<1>10. /\ items'[p] = items[p] \ Namesakes(p, k)
       /\ \A q \in Ctx \ {p} : items'[q] = items[q]
       /\ k \in items[p] => k \in Namesakes(p, k)
  BY <1>1, <1>2 DEF Namesakes
<1>11. /\ \A q \in Ctx : items'[q] \subseteq items[q]
       /\ \A q \in Ctx : k \notin items'[q]
  <2>1. \A q \in Ctx : items'[q] \subseteq items[q]
    BY <1>10
  <2>2. ASSUME NEW q \in Ctx PROVE k \notin items'[q]
    <3>1. CASE q = p
      BY <1>10, <3>1
    <3>2. CASE q # p
      BY <1>2, <1>10, <3>2 DEF DirInv, Tidy, Kids
    <3> QED
      BY <3>1, <3>2
  <2> QED
    BY <2>1, <2>2
<1>12. \A x \in Marks(stack') : Ready(x)'
  <2>1. Ready(h)'
    BY <1>1, <1>3, <1>11 DEF Ready
  <2>2. \A x \in Reads(stack) : Ready(x)'
    BY <1>6 DEF Ready, Reads
  <2> QED
    BY <1>8, <2>1, <2>2
<1>13. Tidy'
  <2>1. \A q \in Ctx : items'[q] \subseteq Kids(q) \cap parentBound'
    BY <1>1, <1>11 DEF DirInv, Tidy
  <2>2. \A c \in Ctx \ live : Blank(c)'
    BY <1>1, <1>11 DEF DirInv, Tidy, Blank
  <2>3. paged' \cap parentBound' = {}
    BY <1>1 DEF DirInv, Tidy
  <2> QED
    BY <1>1, <2>1, <2>2, <2>3 DEF Tidy
<1>14. Attached'
  <2>1. \A x \in Marks(stack) : x.op # "Delete"
    BY <1>5 DEF Marks, Waiting
  <2>2. \A c \in live \ Roots : c \in parentBound
    BY <2>1 DEF DirInv, Attached
  <2>3. h \in Marks(stack')
    BY <1>8
  <2> QED
    BY <1>1, <1>3, <2>2, <2>3 DEF Attached
<1>15. ASSUME NEW q \in live \ failed, \A x \in Reads(stack) : x.ctx # q PROVE Enough(q)'
  <2>1. Enough(q) /\ q \in Ctx
    BY <1>15, Types DEF DirInv, Counted
  <2> DEFINE A == paged \cap Kids(q)
             B == (paged \cup {k}) \cap Kids(q)
             I == Cardinality(items[q])
             J == Cardinality(items'[q])
             M == Missing(q)
             N == Missing(q)'
  <2>2. items[q] \in SUBSET Ctx /\ items'[q] \in SUBSET Ctx
    BY <1>2, <1>11, <2>1
  <2>3. I \in Nat /\ J \in Nat /\ M \in Nat /\ N \in Nat /\ numSub[q] \in Int /\ Owed(q) \in {0, 1}
    <3>1. (paged \cap Kids(q))' \in SUBSET Ctx
      BY DEF Kids
    <3> QED
      BY <2>1, <2>2, <3>1, Numbers, SubsetCard DEF Missing
  <2>4. J <= I
    BY <1>11, <2>1, <2>2, SubsetCard, FS_Subset
  <2>5. CASE q = p /\ k \in items[p]
    <3>1. J <= I - 1
      <4>1. items'[q] \in SUBSET (items[q] \ {k}) /\ k \in items[q]
        BY <1>11, <2>1, <2>5
      <4>2. /\ Cardinality(items[q] \ {k}) = I - 1
            /\ IsFiniteSet(items[q] \ {k})
        BY <2>2, <4>1, CardMinus, SubsetCard
      <4> QED
        BY <4>1, <4>2, FS_Subset
    <3>2. A \in SUBSET Ctx /\ k \notin A /\ (paged \cap Kids(q))' = A \cup {k}
      BY <1>1, <1>2, <2>5 DEF DirInv, Tidy, Kids
    <3>3. Cardinality(A \cup {k}) = Cardinality(A) + 1 /\ Cardinality(A) \in Nat
      <4> HIDE DEF A
      <4> QED
        BY <3>2, CardPlus
    <3>4. /\ M = IF Exact /\ q \in haveReadDir THEN Cardinality(A) ELSE 0
          /\ N = IF Exact /\ q \in haveReadDir THEN Cardinality(A \cup {k}) ELSE 0
      BY <1>1, <3>2 DEF Missing
    <3>5. numSub[q] >= I + M + Owed(q)
      BY <2>1 DEF Enough
    <3>6. Enough(q)' <=> numSub[q] >= J + N + 0
      BY <1>1, <1>9 DEF Enough
    <3> HIDE DEF A, I, J, M, N
    <3>7. N <= M + 1
      BY <2>3, <3>3, <3>4
    <3> QED
      BY <2>3, <3>1, <3>5, <3>6, <3>7
  <2>6. CASE ~(q = p /\ k \in items[p])
    <3>1. (paged \cap Kids(q))' = paged \cap Kids(q)
      BY <1>1, <1>2, <2>6 DEF Kids
    <3>2. N = M
      BY <1>1, <3>1 DEF Missing
    <3>3. numSub[q] >= I + M + Owed(q)
      BY <2>1 DEF Enough
    <3>4. Enough(q)' <=> numSub[q] >= J + N + 0
      BY <1>1, <1>9 DEF Enough
    <3> HIDE DEF I, J, M, N
    <3> QED
      BY <2>3, <2>4, <3>2, <3>3, <3>4
  <2> QED
    BY <2>5, <2>6
<1> QED
  BY <1>1, <1>8, <1>9, <1>12, <1>13, <1>14, <1>15 DEF DirInv, Counted

LEMMA DirDelete ==
    ASSUME TypeInv, DirInv, Delete PROVE DirInv'
<1>0. PICK k : k = Top.ctx
  OBVIOUS
<1> DEFINE t == Tail(stack)
<1>1. /\ stack # <<>> /\ Top.op = "Delete"
      /\ live' = live \ {k}
      /\ numSub' = [numSub EXCEPT ![k] = 0]
      /\ haveReadDir' = haveReadDir \ {k}
      /\ failed' = failed \ {k}
      /\ stack' = t
      /\ UNCHANGED <<items, parentBound, paged>>
  BY <1>0 DEF Delete, Running, Return
<1>2. /\ t \in Seq(GoodFrame) /\ Orderly(t)
      /\ Marks(stack) = {Top} \cup Reads(stack)
      /\ Marks(t) = Reads(stack) /\ Reads(t) = Reads(stack)
      /\ \A x \in Reads(stack) : x.op = "Read" /\ Ready(x)
  BY <1>1, WaitsAlone DEF Waiting
<1>3. k \notin parentBound /\ items[k] = {}
  BY <1>0, <1>1, <1>2 DEF DirInv, Ready
<1>4. numSub \in [Ctx -> Int]
  BY DEF TypeInv, TypeOK
<1> HIDE DEF t
<1>5. \A x \in Reads(stack) : Ready(x)'
  BY <1>1, <1>2 DEF Ready
<1>6. Tidy'
  <2>1. \A c \in Ctx \ live' : Blank(c)'
    <3> TAKE c \in Ctx \ live'
    <3>1. CASE c = k
      BY <1>1, <1>3, <1>4, <3>1 DEF Blank
    <3>2. CASE c # k
      <4>1. c \in Ctx \ live /\ numSub'[c] = numSub[c]
        BY <1>1, <1>4, <3>2
      <4> QED
        BY <1>1, <4>1 DEF DirInv, Tidy, Blank
    <3> QED
      BY <3>1, <3>2
  <2> QED
    BY <1>1, <2>1 DEF DirInv, Tidy
<1>7. Attached'
  <2>1. \A c \in live' \ Roots : c \in parentBound
    BY <1>0, <1>1, <1>2 DEF DirInv, Attached
  <2> QED
    BY <1>1, <2>1 DEF Attached
<1>8. ASSUME NEW q \in live' \ failed', \A x \in Reads(stack) : x.ctx # q PROVE Enough(q)'
  <2>1. q \in live \ failed /\ q # k /\ q \in Ctx
    BY <1>1, <1>8, Types
  <2>2. Enough(q)
    BY <1>8, <2>1 DEF DirInv, Counted
  <2>3. numSub'[q] = numSub[q] /\ items'[q] = items[q]
    BY <1>1, <1>4, <2>1
  <2>4. Missing(q)' = Missing(q)
    BY <1>1, <2>1 DEF Missing
  <2>5. Owed(q)' = 0 /\ Owed(q) = 0
    BY <1>1, <1>2 DEF Owed
  <2> QED
    BY <2>2, <2>3, <2>4, <2>5 DEF Enough
<1> QED
  BY <1>1, <1>2, <1>5, <1>6, <1>7, <1>8 DEF DirInv, Counted

LEMMA DirInit == Init => DirInv
<1> SUFFICES ASSUME Init PROVE DirInv
  OBVIOUS
<1>1. /\ items = [c \in Ctx |-> {}] /\ numSub = [c \in Ctx |-> 0]
      /\ haveReadDir = {} /\ paged = {} /\ failed = {} /\ live = Roots /\ stack = <<>>
      /\ parentBound = {}
  BY DEF Init
<1>2. Marks(stack) = {} /\ Orderly(stack)
  BY <1>1 DEF Marks, Frames, Orderly
<1>3. Tidy
  BY <1>1 DEF Tidy, Blank
<1>4. \A p \in live : Enough(p)
  <2> TAKE p \in live
  <2>1. p \in Ctx
    BY <1>1 DEF Roots
  <2>2. numSub[p] = 0 /\ Cardinality(items[p]) = 0 /\ Missing(p) = 0 /\ Owed(p) = 0
    BY <1>1, <1>2, <2>1, FS_EmptySet DEF Missing, Owed
  <2> QED
    BY <2>2 DEF Enough
<1> QED
  BY <1>1, <1>2, <1>3, <1>4 DEF DirInv, Attached, Counted

LEMMA DirStep ==
    ASSUME OneAtATime, TypeInv, ListInv, DirInv, [Next]_vars PROVE DirInv'
<1>1. CASE LibraryStep
  <2>1. CASE \/ AddRef \/ Release \/ TryToAddOurselfToFreeList \/ ReleaseParent
             \/ ParentReleased \/ ReturnToFreed \/ CleanUpDone
    BY <2>1, DirCalls
  <2>2. ASSUME NEW k \in Ctx, CleanUpSkip(k) PROVE DirInv'
    BY <2>2, DirClient
  <2> QED
    BY <1>1, <2>1, <2>2, DirLink, DirUnlist, DirReadEntry, DirReadDone, DirReadFails,
       DirReclaim, DirDelete
    DEF LibraryStep
<1>2. CASE ClientStep
  <2>1. ASSUME NEW k \in Ctx, Acquire(k) \/ Drop(k) PROVE DirInv'
    BY <2>1, DirClient
  <2>2. CASE BeginResolve \/ CleanUp
    BY <2>2, DirClient
  <2>3. CASE EndResolve
    BY <2>3, DirCalls
  <2> QED
    BY <1>2, <2>1, <2>2, <2>3, DirDiscover, DirRemove, DirStartRead DEF ClientStep
<1>3. CASE UNCHANGED vars
  <2>1. UNCHANGED treeVars /\ stack' = stack
    BY <1>3 DEF vars
  <2> QED
    BY <2>1, DirSame DEF DirInv
<1> QED
  BY <1>1, <1>2, <1>3 DEF Next

LEMMA DirAlways == ASSUME OneAtATime PROVE Spec => [](TypeInv /\ DirInv)
<1>1. Init => TypeInv /\ ListInv /\ DirInv
  BY TypeInit, ListInit, DirInit
<1>2. TypeInv /\ ListInv /\ DirInv /\ [Next]_vars => (TypeInv /\ ListInv /\ DirInv)'
  BY TypeStep, ListStep, DirStep
<1> QED
  BY <1>1, <1>2, PTL DEF Spec

\* A context that is not being read and whose last read did not throw.
LEMMA NotRead ==
    ASSUME TypeInv, DirInv, NEW p \in live \ failed, ~ReadingDir(p) PROVE Enough(p)
<1>1. DOMAIN stack = 1..Len(stack)
  BY DEF TypeInv
<1>2. \A x \in Reads(stack) : x.ctx # p
  BY <1>1 DEF Reads, Marks, Frames, ReadingDir
<1> QED
  BY <1>2 DEF DirInv, Counted

\* After a read that did not throw the number of subcontexts is never less than
\* what is in memory, whatever is read, inserted, removed and reclaimed.
THEOREM CountsAreSettled == ASSUME OneAtATime PROVE Spec => []CountsSettle
<1>1. TypeInv /\ DirInv => CountsSettle
  <2> SUFFICES ASSUME TypeInv, DirInv, NEW p \in live \ failed, ~ReadingDir(p)
               PROVE  numSub[p] >= Cardinality(items[p])
    BY DEF CountsSettle
  <2>1. p \in Ctx /\ Enough(p)
    BY Types, NotRead
  <2> DEFINE I == Cardinality(items[p])
             M == Missing(p)
             O == Owed(p)
  <2>2. numSub[p] \in Int /\ I \in Nat /\ M \in Nat /\ O \in {0, 1}
    BY <2>1, Numbers
  <2>3. numSub[p] >= I + M + O
    BY <2>1 DEF Enough
  <2> HIDE DEF I, M, O
  <2>4. numSub[p] >= I
    BY <2>2, <2>3
  <2> QED
    BY <2>4 DEF I
<1> QED
  BY <1>1, DirAlways, PTL

\* No listing of a directory leaves out a subcontext that was paged out, if
\* different files of a directory have different names and cleanUp() runs only
\* when the application asks for it.  Files may be deleted.  Nothing is said of
\* a directory whose last read threw.
THEOREM PagedOutIsRead ==
    ASSUME AutoCleanUpCall = FALSE, DistinctNames PROVE Spec => []PagedOutIsMissed
<1>1. OneAtATime /\ Exact
  BY DEF OneAtATime, Exact
<1>2. TypeInv /\ DirInv => PagedOutIsMissed
  <2> SUFFICES ASSUME TypeInv, DirInv, NEW p \in (live \cap haveReadDir) \ failed,
                      ~ReadingDir(p), paged \cap Kids(p) # {}
               PROVE  numSub[p] # Cardinality(items[p])
    BY DEF PagedOutIsMissed
  <2> DEFINE A == paged \cap Kids(p)
             I == Cardinality(items[p])
             O == Owed(p)
  <2>1. p \in Ctx /\ Enough(p)
    BY Types, NotRead
  <2>2. numSub[p] \in Int /\ I \in Nat /\ O \in {0, 1}
    BY <2>1, Numbers
  <2>3. numSub[p] >= I + Cardinality(A) + O
    BY <1>1, <2>1 DEF Enough, Missing
  <2>4. PICK k : k \in A
    OBVIOUS
  <2>5. A \in SUBSET Ctx
    BY DEF Kids
  <2> HIDE DEF A
  <2>6. Cardinality(A) \in Nat /\ Cardinality(A) # 0
    <3>1. Cardinality(A \ {k}) = Cardinality(A) - 1 /\ Cardinality(A) \in Nat
          /\ Cardinality(A \ {k}) \in Nat
      BY <2>4, <2>5, CardMinus, SubsetCard
    <3> QED
      BY <3>1
  <2> HIDE DEF I, O
  <2>7. numSub[p] # I
    BY <2>2, <2>3, <2>6
  <2> QED
    BY <2>7 DEF I
<1> QED
  BY <1>1, <1>2, DirAlways, PTL
=============================================================================
