------------------------------ MODULE ContextVM ------------------------------
(***************************************************************************)
(* The context cache of libferris: which Context objects are in memory,    *)
(* who keeps them there, and how the cache manager lets them go.           *)
(*                                                                         *)
(* Every file system object the library has visited is a reference counted *)
(* Context.  A context is kept by the Items collection of its parent, by   *)
(* the ParentContext handle of each child, by one extra reference from     *)
(* each child that is itself in use (m_holdingReferenceToParentContext),   *)
(* and by the handles of the client.  When only Items and children are     *)
(* left it goes on the free list, from which cleanUp() deletes leaves.     *)
(*                                                                         *)
(* The library is single threaded; what is hard is reentrancy.  The calls  *)
(* in progress are an explicit stack of frames, the head being the one     *)
(* that runs, so that a cleanUp() started in the middle of a Release() is  *)
(* visible as what it is.  The client has its turn when the stack is empty *)
(* and, through the events a directory read emits, inside a read; a path   *)
(* resolution is a client that runs inside a Resolve().                    *)
(*                                                                         *)
(* Contexts here neither cover another context nor are covered by one.     *)
(***************************************************************************)
EXTENDS Integers, Sequences, FiniteSets

CONSTANTS
    Ctx,              \* the Context objects that can come into being
    NoCtx,            \* the parent of a file system root
    Up,               \* Up[c]: the context that c is a subcontext of
    Name,             \* Name[c]: the rdn of c, unique among its siblings in Items
    Reclaims,         \* the contexts whose module supportsReClaim()
    AutoCleanUpCall,  \* the setting vm-auto-cleanup
    MaxInFreeList,    \* the setting vm-auto-cleanup-maxnumberinfreelist
    MaxFreeAtOnce,    \* the setting vm-auto-cleanup-maxfreeatonce
    MaxRefCount,      \* ImplementationDetail::MAX_REF_COUNT
    Removable,        \* the contexts whose file somebody may delete
    Unreadable,       \* the contexts whose priv_read() may throw
    MaxHandles,       \* bound: client handles per context
    MaxResolve,       \* bound: nested Resolve() calls
    MaxSub            \* bound: NumberOfSubContexts up to which the client adds more

ASSUME UpAssumption      == /\ IsFiniteSet(Ctx)
                            /\ NoCtx \notin Ctx
                            /\ Up \in [Ctx -> Ctx \cup {NoCtx}]
ASSUME SettingAssumption == /\ AutoCleanUpCall \in BOOLEAN
                            /\ MaxInFreeList \in Int
                            /\ MaxFreeAtOnce \in Int
                            /\ MaxRefCount \in Nat \ {0, 1}
ASSUME BoundAssumption   == /\ MaxHandles \in Nat
                            /\ MaxResolve \in Nat
                            /\ MaxSub \in Nat

VARIABLES
    live,           \* the contexts in memory
    items,          \* items[c]: the Items collection of c
    parentBound,    \* the contexts whose ParentContext handle is bound
    refCount,       \* ref_count
    holdingParent,  \* m_holdingReferenceToParentContext
    weAreInFreeList,\* the flag WeAreInFreeList
    freeList,       \* CacheManager::m_freelist
    numSub,         \* NumberOfSubContexts
    haveReadDir,    \* HaveReadDir
    handles,        \* handles[c]: smart pointers to c held by the client
    paged,          \* history: contexts reclaimed and not brought back since
    failed,         \* history: directories whose last read() threw
    insideResolve,  \* CacheManager::m_insideResolveCall
    cleaning,       \* a cleanUp() is past its guards
    todo,           \* cleanUp(): ctxlist
    rejects,        \* cleanUp(): rejects
    freed,          \* cleanUp(): ret
    stack           \* the calls in progress, innermost first

treeVars  == <<live, items, parentBound, numSub, haveReadDir, paged, failed>>
countVars == <<refCount, holdingParent>>
listVars  == <<weAreInFreeList, freeList>>
cleanVars == <<cleaning, todo, rejects, freed>>
vars == <<treeVars, countVars, listVars, cleanVars, handles, insideResolve, stack>>

Roots == {c \in Ctx : Up[c] = NoCtx}
Kids(p) == {c \in Ctx : Up[c] = p}

(***************************************************************************)
(* Frames: a call, or the rest of a call that waits for an inner one.      *)
(***************************************************************************)
Op == {"AddRef", "Release", "TryAdd", "Chain", "Chained", "Link", "Unlist",
       "Delete", "Clean", "Read", "Resolve"}
Frame == [op : Op, ctx : Ctx \cup {NoCtx}, left : SUBSET Ctx]
Call(op, c) == [op |-> op, ctx |-> c, left |-> {}]

Top == Head(stack)
Running(op) == stack # <<>> /\ Top.op = op
\* Replace the running frame by the frames fs.
Continue(fs) == stack' = fs \o Tail(stack)
Return == stack' = Tail(stack)

\* Mutants: the count of subcontexts, which includes those paged out; one
\* reference from all the children together.
Min_Mutant(c) == 1 + numSub[c]
Min_Mutant2(c) == IF items[c] = {} THEN 1 ELSE 2

\* getMinimumReferenceCount(): one from Items of the parent, one per child.
Min(c) == 1 + Cardinality(items[c])
Namesakes(p, c) == {d \in items[p] : Name[d] = Name[c]}

\* The client runs between calls and in the callbacks of a read(); the path
\* walk of a Resolve() is a client of the cache too.
ClientTurn == stack # <<>> => Top.op \in {"Read", "Resolve"}
ReadingDir(p) == \E i \in DOMAIN stack : stack[i].op = "Read" /\ stack[i].ctx = p

-----------------------------------------------------------------------------
(***************************************************************************)
(* Reference counting.                                                     *)
(***************************************************************************)

\* Mutant: the flag stays.
RemoveOurselfFromFreeList_Mutant(c) ==
    freeList' = freeList \ {c} /\ UNCHANGED weAreInFreeList

\* RemoveOurselfFromFreeList(): by the flag, not by looking in the list.
RemoveOurselfFromFreeList(c) ==
    IF c \in weAreInFreeList
    THEN /\ weAreInFreeList' = weAreInFreeList \ {c}
         /\ freeList' = freeList \ {c}
    ELSE UNCHANGED listVars

TakesParent(c) == c \in parentBound \ holdingParent

\* Mutant: off by one.
Sticky_Mutant(c) == refCount[c] > MaxRefCount

\* At MAX_REF_COUNT a count is not changed any more.
Sticky(c) == refCount[c] >= MaxRefCount

\* Context::AddRef().  The first client reference also takes one on the
\* parent; nothing runs between that call and the rest of this one, so the
\* call on the parent is made last.
AddRef ==
    /\ Running("AddRef")
    /\ Top.ctx \in live
    /\ LET c == Top.ctx IN
       IF Sticky(c)
       THEN Return /\ UNCHANGED <<countVars, listVars>>
       ELSE /\ refCount' = [refCount EXCEPT ![c] = @ + 1]
            /\ IF refCount[c] = Min(c)
               THEN /\ RemoveOurselfFromFreeList(c)
                    /\ IF TakesParent(c)
                       THEN /\ holdingParent' = holdingParent \cup {c}
                            /\ Continue(<<Call("AddRef", Up[c])>>)
                       ELSE Return /\ UNCHANGED holdingParent
               ELSE Return /\ UNCHANGED <<holdingParent, listVars>>
    /\ UNCHANGED <<treeVars, cleanVars, handles, insideResolve>>

\* Context::Release(): down to the minimum, try for the free list and then
\* give back the reference on the parent.  The smart pointer never deletes.
Release ==
    /\ Running("Release")
    /\ Top.ctx \in live
    /\ LET c == Top.ctx IN
       IF Sticky(c)
       THEN Return /\ UNCHANGED refCount
       ELSE /\ refCount' = [refCount EXCEPT ![c] = @ - 1]
            /\ IF refCount[c] - 1 = Min(c)
               THEN Continue(<<Call("TryAdd", c), Call("Chain", c)>>)
               ELSE Return
    /\ UNCHANGED <<treeVars, holdingParent, listVars, cleanVars, handles,
                   insideResolve>>

\* Mutant: runs inside a Resolve().
CleanUpRuns_Mutant(force, fl) ==
    ~cleaning /\ (force \/ MaxInFreeList <= 0 \/ Cardinality(fl) > MaxInFreeList)

\* cleanUp() past its early returns: not inside a Resolve(), not inside
\* another cleanUp(), and, unless forced, with a free list over the limit.
CleanUpRuns(force, fl) ==
    /\ insideResolve = 0
    /\ ~cleaning
    /\ force \/ MaxInFreeList <= 0 \/ Cardinality(fl) > MaxInFreeList

StartCleanUp(fl) ==
    /\ cleaning' = TRUE
    /\ todo' = fl
    /\ freeList' = {}
    /\ rejects' = {}
    /\ freed' = 0

\* TryToAddOurselfToFreeList(), with the AutoClean() at its end.
TryToAddOurselfToFreeList ==
    /\ Running("TryAdd")
    /\ Top.ctx \in live
    /\ LET c  == Top.ctx
           fl == freeList \cup {c}
       IN IF c \in weAreInFreeList \/ c \notin parentBound
          THEN Return /\ UNCHANGED <<listVars, cleanVars>>
          ELSE /\ weAreInFreeList' = weAreInFreeList \cup {c}
               /\ IF numSub[c] # 0 /\ AutoCleanUpCall /\ CleanUpRuns(FALSE, fl)
                  THEN StartCleanUp(fl) /\ Continue(<<Call("Clean", NoCtx)>>)
                  ELSE freeList' = fl /\ Return /\ UNCHANGED cleanVars
    /\ UNCHANGED <<treeVars, countVars, handles, insideResolve>>

\* The rest of Release(): p->Release() on the parent ...
ReleaseParent ==
    /\ Running("Chain")
    /\ Top.ctx \in live
    /\ LET c == Top.ctx IN
       IF c \in parentBound /\ c \in holdingParent
       THEN Continue(<<Call("Release", Up[c]), Call("Chained", c)>>)
       ELSE Return
    /\ UNCHANGED <<treeVars, countVars, listVars, cleanVars, handles,
                   insideResolve>>

\* Mutant: the flag stays.
ParentReleased_Mutant ==
    /\ Running("Chained")
    /\ Top.ctx \in live
    /\ Return
    /\ UNCHANGED <<treeVars, countVars, listVars, cleanVars, handles,
                   insideResolve>>

\* ... and, when that is done, the flag.
ParentReleased ==
    /\ Running("Chained")
    /\ Top.ctx \in live
    /\ holdingParent' = holdingParent \ {Top.ctx}
    /\ Return
    /\ UNCHANGED <<treeVars, refCount, listVars, cleanVars, handles,
                   insideResolve>>

\* A Release() whose context was deleted by a cleanUp() it started itself.
\* What it then does is undefined; the outcome in which the freed memory is
\* not reused is a return, since ParentContext was cleared before the delete.
\* In the others the program stops.
ReturnToFreed ==
    /\ stack # <<>> /\ Top.op \in {"Chain", "Chained"}
    /\ Top.ctx \notin live
    /\ Return
    /\ UNCHANGED <<treeVars, countVars, listVars, cleanVars, handles,
                   insideResolve>>

-----------------------------------------------------------------------------
(***************************************************************************)
(* Handles of the client.                                                  *)
(***************************************************************************)

\* Where a client can get a handle to c from: a copy of its own handle, the
\* root factory, getSubContext() of a context it holds, getParent() of one.
CanReach(c) ==
    \/ handles[c] > 0
    \/ c \in Roots
    \/ c \in parentBound /\ handles[Up[c]] > 0 /\ c \in items[Up[c]]
    \/ \E k \in Kids(c) \cap parentBound : handles[k] > 0

Acquire(c) ==
    /\ ClientTurn
    /\ c \in live
    /\ CanReach(c)
    /\ handles[c] < MaxHandles
    /\ handles' = [handles EXCEPT ![c] = @ + 1]
    /\ stack' = <<Call("AddRef", c)>> \o stack
    /\ UNCHANGED <<treeVars, countVars, listVars, cleanVars, insideResolve>>

\* A handle goes out of scope.  Whoever called read() keeps its own.
Drop(c) ==
    /\ ClientTurn
    /\ handles[c] > (IF ReadingDir(c) THEN 1 ELSE 0)
    /\ handles' = [handles EXCEPT ![c] = @ - 1]
    /\ stack' = <<Call("Release", c)>> \o stack
    /\ UNCHANGED <<treeVars, countVars, listVars, cleanVars, insideResolve>>

\* Resolve() holds a guard that counts the calls in progress.
BeginResolve ==
    /\ ClientTurn
    /\ insideResolve < MaxResolve
    /\ insideResolve' = insideResolve + 1
    /\ stack' = <<Call("Resolve", NoCtx)>> \o stack
    /\ UNCHANGED <<treeVars, countVars, listVars, cleanVars, handles>>

EndResolve ==
    /\ Running("Resolve")
    /\ insideResolve' = insideResolve - 1
    /\ Return
    /\ UNCHANGED <<treeVars, countVars, listVars, cleanVars, handles>>

-----------------------------------------------------------------------------
(***************************************************************************)
(* Subcontexts come and go.                                                *)
(***************************************************************************)

\* priv_readSubContext() when the rdn is not bound: the constructor puts the
\* new context on the free list and setContext() references the parent; the
\* local handle makes its count 1; then Insert() copies a handle into Items.
Create(c, after) ==
    /\ c \notin live
    /\ Namesakes(Up[c], c) = {}
    /\ live' = live \cup {c}
    /\ parentBound' = parentBound \cup {c}
    /\ refCount' = [refCount EXCEPT ![c] = 1]
    /\ weAreInFreeList' = weAreInFreeList \cup {c}
    /\ freeList' = freeList \cup {c}
    /\ paged' = paged \ {c}
    /\ stack' = <<Call("AddRef", Up[c]), Call("AddRef", c), Call("Link", c)>>
                \o after
    /\ UNCHANGED <<items, numSub, haveReadDir, failed, holdingParent>>

\* The client makes p find or create the subcontext c and keeps the handle.
Discover(c) ==
    /\ ClientTurn
    /\ c \notin Roots
    /\ handles[Up[c]] > 0
    /\ handles[c] = 0
    /\ MaxHandles > 0
    /\ numSub[Up[c]] < MaxSub
    /\ handles' = [handles EXCEPT ![c] = 1]
    /\ Create(c, stack)
    /\ UNCHANGED <<cleanVars, insideResolve>>

\* Mutant: the subcontext is not counted.
Link_Mutant ==
    /\ Running("Link")
    /\ LET p == Up[Top.ctx] IN
       p \in live /\ items' = [items EXCEPT ![p] = @ \cup {Top.ctx}]
    /\ Return
    /\ UNCHANGED <<live, parentBound, numSub, haveReadDir, paged, failed,
                   countVars, listVars, cleanVars, handles, insideResolve>>

\* Insert(): the handle is in Items.
Link ==
    /\ Running("Link")
    /\ LET c == Top.ctx
           p == Up[c]
       IN /\ p \in live
          /\ items' = [items EXCEPT ![p] = @ \cup {c}]
          /\ numSub' = [numSub EXCEPT ![p] = @ + 1]
    /\ Return
    /\ UNCHANGED <<live, parentBound, haveReadDir, paged, failed, countVars,
                   listVars, cleanVars, handles, insideResolve>>

\* Remove( c ): the file is gone.  Items is searched by name, and the
\* caller holds c, as getSubContext() has just given it to him.
Remove(c) ==
    /\ ClientTurn
    /\ c \in Removable \cap parentBound
    /\ handles[c] > 0
    /\ handles[Up[c]] > 0
    /\ \E d \in Namesakes(Up[c], c) :
         /\ items' = [items EXCEPT ![Up[c]] = @ \ {d}]
         /\ stack' = <<Call("Release", d), Call("Unlist", c)>> \o stack
    /\ UNCHANGED <<live, parentBound, numSub, haveReadDir, paged, failed,
                   countVars, listVars, cleanVars, handles, insideResolve>>

\* The rest of Remove(): off the free list, one subcontext fewer.
Unlist ==
    /\ Running("Unlist")
    /\ Top.ctx \in live
    /\ LET c == Top.ctx IN
       /\ weAreInFreeList' = weAreInFreeList \ {c}
       /\ freeList' = freeList \ {c}
       /\ numSub' = [numSub EXCEPT ![Up[c]] = @ - 1]
    /\ Return
    /\ UNCHANGED <<live, items, parentBound, haveReadDir, paged, failed,
                   countVars, cleanVars, handles, insideResolve>>

-----------------------------------------------------------------------------
(***************************************************************************)
(* Reading a directory.                                                    *)
(***************************************************************************)

\* The entries on disk: what is in memory, what was paged out, perhaps more;
\* a directory has one entry of a name.
Listings(p) ==
    {S \in SUBSET (Kids(p) \ (live \ items[p])) :
        /\ items[p] \cup (paged \cap Kids(p)) \subseteq S
        /\ \A c, d \in S : Name[c] = Name[d] => c = d}

\* read() of a context that has to be read: forget the count, AutoClean(),
\* then priv_read() goes through the entries.
StartRead(p) ==
    /\ ClientTurn
    /\ p \in live
    /\ handles[p] > 0
    /\ ~ReadingDir(p)
    /\ numSub' = [numSub EXCEPT ![p] = 0]
    /\ haveReadDir' = haveReadDir \cup {p}
    /\ \E S \in Listings(p) :
         LET read == [op |-> "Read", ctx |-> p, left |-> S] IN
         IF AutoCleanUpCall /\ CleanUpRuns(FALSE, freeList)
         THEN /\ StartCleanUp(freeList)
              /\ stack' = <<Call("Clean", NoCtx), read>> \o stack
         ELSE /\ stack' = <<read>> \o stack
              /\ UNCHANGED <<freeList, cleanVars>>
    /\ failed' = failed \ {p}
    /\ UNCHANGED <<live, items, parentBound, paged, countVars, weAreInFreeList,
                   handles, insideResolve>>

\* priv_readSubContext() of the next entry; the handle it returns is dropped.
ReadEntry(c) ==
    /\ Running("Read")
    /\ c \in Top.left
    /\ LET p    == Top.ctx
           rest == <<[Top EXCEPT !.left = @ \ {c}]>> \o Tail(stack)
       IN \/ \E d \in Namesakes(p, c) :
               /\ stack' = <<Call("AddRef", d), Call("Release", d)>> \o rest
               /\ UNCHANGED <<treeVars, countVars, listVars>>
          \/ Create(c, <<Call("Release", c)>> \o rest)
          \/ /\ Namesakes(p, c) = {} /\ c \in live   \* removed since
             /\ stack' = rest
             /\ UNCHANGED <<treeVars, countVars, listVars>>
    /\ UNCHANGED <<cleanVars, handles, insideResolve>>

\* Mutant: only what was found is added to the count.
ReadDone_Mutant ==
    /\ Running("Read")
    /\ Top.left = {}
    /\ numSub' = [numSub EXCEPT ![Top.ctx] = Cardinality(items[Top.ctx]) + @]
    /\ Return
    /\ UNCHANGED <<live, items, parentBound, haveReadDir, paged, failed,
                   countVars, listVars, cleanVars, handles, insideResolve>>

\* The end of read(): NumberOfSubContexts = getItems().size().
ReadDone ==
    /\ Running("Read")
    /\ Top.left = {}
    /\ numSub' = [numSub EXCEPT ![Top.ctx] = Cardinality(items[Top.ctx])]
    /\ Return
    /\ UNCHANGED <<live, items, parentBound, haveReadDir, paged, failed,
                   countVars, listVars, cleanVars, handles, insideResolve>>

\* priv_read() throws: read() passes it on to its caller and only notes that it
\* reads no longer.  The count stays what it was in the middle of the read.
ReadFails ==
    /\ Running("Read")
    /\ Top.ctx \in Unreadable
    /\ failed' = failed \cup {Top.ctx}
    /\ Return
    /\ UNCHANGED <<live, items, parentBound, numSub, haveReadDir, paged,
                   countVars, listVars, cleanVars, handles, insideResolve>>

-----------------------------------------------------------------------------
(***************************************************************************)
(* The cache manager.                                                      *)
(***************************************************************************)

\* The client calls cleanUp( true ): from its main program, the programs of
\* the repository never do it in an event handler.
CleanUp ==
    /\ stack = <<>>
    /\ CleanUpRuns(TRUE, freeList)
    /\ StartCleanUp(freeList)
    /\ stack' = <<Call("Clean", NoCtx)>>
    /\ UNCHANGED <<treeVars, countVars, weAreInFreeList, handles, insideResolve>>

FreedEnough == MaxFreeAtOnce > 0 /\ freed >= MaxFreeAtOnce

\* Mutant: the work list is left as it was.
TakeNext_Mutant(c) == UNCHANGED todo

\* The iterator moves on and what it leaves is erased from the work list.
TakeNext(c) == todo' = todo \ {c}

\* A root, or a context whose module can not bring it back, leaves the list.
CleanUpDrops(c) == c \notin parentBound \/ c \notin Reclaims

\* Mutant: a context with subcontexts can go.
CleanUpRejects_Mutant(c) == refCount[c] > Min(c)

\* With subcontexts in memory, or in use, it has to wait.
CleanUpRejects(c) == items[c] # {} \/ refCount[c] > Min(c)

\* One turn of the loop for a context that is not deleted.
CleanUpSkip(c) ==
    /\ Running("Clean")
    /\ ~FreedEnough
    /\ c \in todo
    /\ TakeNext(c)
    /\ \/ /\ CleanUpDrops(c)
          /\ weAreInFreeList' = weAreInFreeList \ {c}
          /\ UNCHANGED rejects
       \/ /\ ~CleanUpDrops(c)
          /\ CleanUpRejects(c)
          /\ weAreInFreeList' = weAreInFreeList \cup {c}
          /\ rejects' = rejects \cup {c}
    /\ UNCHANGED <<treeVars, countVars, freeList, cleaning, freed, handles,
                   insideResolve, stack>>

\* One turn of the loop that deletes c: reclaimContextObject() on the parent
\* erases c from Items by name and drops its ParentContext handle.  The count
\* of subcontexts is as before: the file still exists.  While this goes on c
\* is kept by 1000 artificial references.
Reclaim(c) ==
    /\ Running("Clean")
    /\ ~FreedEnough
    /\ c \in todo
    /\ ~CleanUpDrops(c)
    /\ ~CleanUpRejects(c)
    /\ LET p == Up[c] IN
       /\ p \in live
       /\ items' = [items EXCEPT ![p] = @ \ Namesakes(p, c)]
       /\ LET rest == <<Call("Release", p), Call("Delete", c)>> \o stack IN
          \/ \E d \in Namesakes(p, c) \ {c} : stack' = <<Call("Release", d)>> \o rest
          \/ Namesakes(p, c) \subseteq {c} /\ stack' = rest
    /\ parentBound' = parentBound \ {c}
    /\ weAreInFreeList' = weAreInFreeList \ {c}
    /\ freeList' = freeList \ {c}
    /\ TakeNext(c)
    /\ freed' = freed + 1
    /\ paged' = paged \cup ({c} \cap items[Up[c]])
    /\ UNCHANGED <<live, numSub, haveReadDir, failed, countVars, cleaning,
                   rejects, handles, insideResolve>>

\* delete child, then removeFromFreeList( child ) once more.
Delete ==
    /\ Running("Delete")
    /\ LET c == Top.ctx IN
       /\ live' = live \ {c}
       /\ refCount' = [refCount EXCEPT ![c] = 0]
       /\ holdingParent' = holdingParent \ {c}
       /\ weAreInFreeList' = weAreInFreeList \ {c}
       /\ freeList' = freeList \ {c}
       /\ numSub' = [numSub EXCEPT ![c] = 0]
       /\ haveReadDir' = haveReadDir \ {c}
       /\ failed' = failed \ {c}
    /\ Return
    /\ UNCHANGED <<items, parentBound, paged, cleanVars, handles, insideResolve>>

\* Mutant: what was not looked at is forgotten.
CleanUpDone_Mutant ==
    /\ Running("Clean")
    /\ todo = {} \/ FreedEnough
    /\ freeList' = freeList \cup rejects
    /\ todo' = {}
    /\ rejects' = {}
    /\ freed' = 0
    /\ cleaning' = FALSE
    /\ Return
    /\ UNCHANGED <<treeVars, countVars, weAreInFreeList, handles, insideResolve>>

\* The loop ends or has freed enough: the rejects, and whatever was not
\* looked at, are on the free list again.
CleanUpDone ==
    /\ Running("Clean")
    /\ todo = {} \/ FreedEnough
    /\ freeList' = freeList \cup rejects \cup todo
    /\ todo' = {}
    /\ rejects' = {}
    /\ freed' = 0
    /\ cleaning' = FALSE
    /\ Return
    /\ UNCHANGED <<treeVars, countVars, weAreInFreeList, handles, insideResolve>>

-----------------------------------------------------------------------------
\* The root contexts exist.  The root factory makes their count sticky, so
\* that they stay; whether they are then still on the free list depends on the
\* copies of the handle it has made before.
Init ==
    /\ live = Roots
    /\ items = [c \in Ctx |-> {}]
    /\ parentBound = {}
    /\ refCount = [c \in Ctx |-> IF c \in Roots THEN MaxRefCount ELSE 0]
    /\ holdingParent = {}
    /\ freeList \in SUBSET Roots
    /\ weAreInFreeList = freeList
    /\ numSub = [c \in Ctx |-> 0]
    /\ haveReadDir = {}
    /\ handles = [c \in Ctx |-> 0]
    /\ paged = {}
    /\ failed = {}
    /\ insideResolve = 0
    /\ cleaning = FALSE
    /\ todo = {}
    /\ rejects = {}
    /\ freed = 0
    /\ stack = <<>>

\* What the library does once it has been called.
LibraryStep ==
    \/ AddRef
    \/ Release
    \/ TryToAddOurselfToFreeList
    \/ ReleaseParent
    \/ ParentReleased
    \/ ReturnToFreed
    \/ Link
    \/ Unlist
    \/ \E c \in Ctx : ReadEntry(c)
    \/ ReadDone
    \/ ReadFails
    \/ \E c \in Ctx : CleanUpSkip(c)
    \/ \E c \in Ctx : Reclaim(c)
    \/ Delete
    \/ CleanUpDone

\* What the client asks for.
ClientStep ==
    \/ \E c \in Ctx : Acquire(c)
    \/ \E c \in Ctx : Drop(c)
    \/ BeginResolve
    \/ EndResolve
    \/ \E c \in Ctx : Discover(c)
    \/ \E c \in Ctx : Remove(c)
    \/ \E c \in Ctx : StartRead(c)
    \/ CleanUp

Next == LibraryStep \/ ClientStep

Spec == Init /\ [][Next]_vars

\* A call runs to its end, a Resolve() too whatever it does on the way, and
\* the application calls cleanUp() again and again.
Fairness == WF_vars(LibraryStep) /\ SF_vars(EndResolve) /\ SF_vars(CleanUp)
FairSpec == Spec /\ Fairness

-----------------------------------------------------------------------------
(***************************************************************************)
(* Properties.                                                             *)
(***************************************************************************)

\* Every variable has the type its C++ counterpart gives it, and no count
\* goes beyond MAX_REF_COUNT.
TypeOK ==
    /\ live \subseteq Ctx
    /\ items \in [Ctx -> SUBSET Ctx]
    /\ parentBound \subseteq Ctx \ Roots
    /\ refCount \in [Ctx -> {n \in Int : n <= MaxRefCount}]
    /\ holdingParent \subseteq Ctx \ Roots
    /\ weAreInFreeList \subseteq Ctx
    /\ freeList \subseteq Ctx
    /\ numSub \in [Ctx -> Int]
    /\ haveReadDir \subseteq Ctx
    /\ handles \in [Ctx -> Nat]
    /\ paged \subseteq Ctx
    /\ failed \subseteq Ctx
    /\ insideResolve \in Int
    /\ cleaning \in BOOLEAN
    /\ todo \subseteq Ctx
    /\ rejects \subseteq Ctx
    /\ freed \in Nat
    /\ stack \in Seq(Frame)

\* WeAreInFreeList decides whether AddRef() takes a context off the free list
\* and whether Release() puts it on: a context that has the flag is on the
\* list or in the hands of cleanUp(), and between clean ups the two agree.
FlagMatchesFreeList ==
    /\ weAreInFreeList \subseteq freeList \cup todo \cup rejects
    /\ ~cleaning => freeList \subseteq weAreInFreeList

\* What cleanUp() walks over are contexts in memory.
FreeListIsLive == freeList \cup todo \cup rejects \subseteq live

\* Somebody other than the parent and the children refers to c.
InUse(c) == refCount[c] > Min(c)

\* The reference count is the number of owners: Items of the parent, the
\* ParentContext handle of each child, one more for each child that is in use,
\* and the handles of the client.
InItems(c) == c \notin Roots /\ c \in items[Up[c]]
CountsOwners ==
    ClientTurn =>
        \A c \in live : refCount[c] < MaxRefCount =>
            refCount[c] = (IF InItems(c) THEN 1 ELSE 0)
                            + Cardinality(Kids(c) \cap parentBound)
                            + Cardinality(Kids(c) \cap holdingParent)
                            + handles[c]

\* A context holds the extra reference on its parent exactly when it is itself
\* in use, so use of a context is use of every context above it.
UseReachesTheRoot ==
    ClientTurn =>
        \A c \in live \ Roots : refCount[c] < MaxRefCount =>
            (c \in holdingParent <=> InUse(c))

\* Nothing on the free list is in use by the client, directly or through a
\* context below it.
FreeListIsUnused ==
    ClientTurn =>
        \A c \in freeList \ Roots :
            /\ handles[c] = 0
            /\ Kids(c) \cap holdingParent = {}

\* No claimable context is forgotten: if nothing but its parent and children
\* refers to it and its module can bring it back, it is on the free list,
\* unless its count has stuck.
ClaimableIsListed ==
    stack = <<>> =>
        \A c \in live \cap Reclaims :
            c \in parentBound /\ refCount[c] = Min(c) /\ refCount[c] < MaxRefCount
                => c \in freeList

\* The free list is what can be freed.
FreeListIsRight == FreeListIsUnused /\ ClaimableIsListed

\* What the documentation of isReClaimable() says: without client handles a
\* context is in a claimable state.  A count that has stuck stays in use.
UnheldIsClaimable ==
    /\ stack = <<>>
    /\ \A c \in Ctx : handles[c] = 0
    /\ \A c \in live \ Roots : refCount[c] < MaxRefCount
    => \A c \in live \ Roots : ~InUse(c)

\* UnPageSubContextsIfNeeded() reads again when the number of subcontexts is
\* not the size of Items.  After a reclaim it does, so that no listing of a
\* directory leaves out a subcontext that was paged out.  A directory whose
\* last read() threw was counted from nothing and does not know what it lacks.
PagedOutIsMissed ==
    ClientTurn =>
        \A p \in (live \cap haveReadDir) \ failed :
            ~ReadingDir(p) /\ paged \cap Kids(p) # {}
                => numSub[p] # Cardinality(items[p])

\* NumberOfSubContexts counts what is on disk: it is set to 0 when a read
\* begins and set again when it ends, and files are removed and reclaimed in
\* between.  Once the read is over, and did not throw, it is never less than
\* what is in memory.
CountsSettle ==
    ClientTurn =>
        \A p \in live \ failed :
            ~ReadingDir(p) => numSub[p] >= Cardinality(items[p])

\* A context is deleted only when the client has no handle to it and no other
\* context refers to it as its parent.
FreesOnlyUnused ==
    [][\A c \in live \ live' :
          /\ handles[c] = 0
          /\ items[c] = {}
          /\ Kids(c) \cap parentBound = {}]_vars

\* While a path is being resolved no context goes away.
ResolveKeepsAll == [][insideResolve > 0 => live \subseteq live']_vars

\* An application that has let go of all handles and keeps calling cleanUp()
\* is left with the root contexts, what the clean up tests assert, and with
\* what only those contexts keep that their module cannot bring back.
UnusedIsReclaimed ==
    (<>[](\A c \in Ctx : handles[c] = 0)) =>
        <>[](\A c \in live \ Roots : c \notin Reclaims \/ Kids(c) \cap live # {})

\* The cache implements the tree of contexts its client is promised.
Promise == INSTANCE PagedTree WITH resident <- live, held <- handles
ImplementsPromise == Promise!Spec
=============================================================================
