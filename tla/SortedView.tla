----------------------------- MODULE SortedView -----------------------------
(***************************************************************************)
(* A SortedContext (Context.cpp): a view of another context, its Delegate, *)
(* that has the children of the delegate in an order a client has asked    *)
(* for.                                                                    *)
(*                                                                         *)
(* The view keeps its children twice: Items is in the order of the names,  *)
(* as in every context, and ItemsSorted is a std::set in the order of the  *)
(* sort string.  It learns of the delegate's children by the events the    *)
(* delegate emits.  The comparison of ItemsSorted reads the attributes of  *)
(* the children, and so the files, whenever it is called; when they have   *)
(* changed since a child was inserted the set is no longer in the order of *)
(* its own comparison, and a search in it depends on the shape of its      *)
(* tree.                                                                   *)
(*                                                                         *)
(* A name is a number, its place in the order of the names.  A sort string *)
(* is a key, the value of an attribute, with or without the 'L' that puts  *)
(* the children that were created after those that were found.             *)
(***************************************************************************)
EXTENDS Integers, Sequences, FiniteSets, SequencesExt

CONSTANTS
    Names,          \* the names a file may have
    Keys,           \* the values of the attribute that is sorted by
    Lazies,         \* whether the sort string has an 'L': the cases to check
    Watches,        \* whether the delegate is an active view: the cases to check
    MaxStale,       \* bound: the entries in ItemsSorted of children that are gone
    MaxChanges      \* bound: the changes of attributes and those without an event

VARIABLES
    lazy,           \* the sort string has an 'L'
    active,         \* the delegate's isActiveView(): the directory is watched
    files,          \* the files in the directory
    key,            \* the attribute of the file of each name
    base,           \* the names in the delegate's Items
    baseMarked,     \* those of them with HasBeenDeleted set
    baseRead,       \* the delegate's HaveReadDir
    items,          \* the names in the view's Items
    marked,         \* those of them with HasBeenDeleted set
    itemsSorted,    \* ItemsSorted, in the order of its tree
    reader,         \* who reads the directory: "none", "view" or "base"
    toFind,         \* the files that the reading has not met yet
    sound,          \* history: nothing has put ItemsSorted out of its own order
    renamed,        \* history: a file has been renamed
    changes         \* counts them, for the bound

delegate == << base, baseMarked, baseRead >>
view     == << items, marked, itemsSorted >>
reads    == << reader, toFind >>
vars == << lazy, active, files, key, delegate, view, reads, sound, renamed, changes >>

ASSUME ViewAssumption ==
    /\ Names \subseteq Int /\ IsFiniteSet(Names)
    /\ Keys \subseteq Int
    /\ Lazies \subseteq BOOLEAN /\ Watches \subseteq BOOLEAN
    /\ MaxStale \in Nat /\ MaxChanges \in Nat

\* An entry of ItemsSorted: the child of that name, whether its
\* ContextWasCreatedNotDiscovered is set, and whether it still is in Items.
Entry == [ name : Names, created : BOOLEAN, current : BOOLEAN ]

----------------------------------------------------------------------------
(* The comparison and the tree of a std::set.                              *)

\* Mutant: a sort string without the name at its end.
Less_Mutant(at, x, y) ==
    IF lazy /\ x.created # y.created THEN y.created
    ELSE at[x.name] < at[y.name]

\* ContextSetCompare: the parts of the sort string one after the other, and
\* the name at the end.  The attributes are the files' when it is called.
Less(at, x, y) ==
    IF lazy /\ x.created # y.created THEN y.created
    ELSE IF at[x.name] # at[y.name] THEN at[x.name] < at[y.name]
    ELSE x.name < y.name

Ordered(at, s) == \A i, j \in DOMAIN s : i < j => Less(at, s[i], s[j])

\* A search tree of n entries is given by the order in which its entries are
\* met from above: on the way to the place before entry p a search passes the
\* entries from which no entry nearer to p is above them.
Orders(n) == { d \in [1..n -> 1..n] : \A i, j \in 1..n : d[i] = d[j] => i = j }
Passed(d, n, p) ==
    { m \in 1..n : \A k \in 1..n : (m < k /\ k < p) \/ (p <= k /\ k < m) => d[m] < d[k] }
Ways(d, n) == [ p \in 1..(n + 1) |-> Passed(d, n, p) ]

\* Its entries can be black and red: as many black ones on each way, and no
\* red one right below another.
RedBlack(d, n) == \E black \in SUBSET (1..n) : \A p \in 1..(n + 1) :
    LET way == Ways(d, n)[p]
    IN  /\ Cardinality(way \cap black) = Cardinality(Ways(d, n)[1] \cap black)
        /\ \A i, j \in way \ black : d[i] < d[j] =>
               \E k \in way \cap black : d[i] < d[k] /\ d[k] < d[j]

MaxEntries == Cardinality(Names) + MaxStale
Trees == [ n \in 0..MaxEntries |-> { Ways(d, n) : d \in { o \in Orders(n) : RedBlack(o, n) } } ]

\* Where a search that goes right of the entries in goRight ends.
Ends(tree, n, goRight) == { p \in 1..(n + 1) : \A m \in tree[p] : m < p <=> m \in goRight }

Smaller(at, s, x) == { i \in DOMAIN s : Less(at, s[i], x) }
NotGreater(at, s, x) == { i \in DOMAIN s : ~Less(at, x, s[i]) }

\* equal_range(): the entries from first to before last.  Two searches, which
\* go the same way down to the first entry that compares as equal.
EqualRanges(at, s, x) ==
    UNION { Ends(tree, Len(s), Smaller(at, s, x)) \X Ends(tree, Len(s), NotGreater(at, s, x))
            : tree \in Trees[Len(s)] }

\* items.erase( c ): every entry that compares as equal.
Erasures(at, s, x) ==
    { SubSeq(s, 1, r[1] - 1) \o SubSeq(s, r[2], Len(s)) : r \in EqualRanges(at, s, x) }

\* insert(): nothing when the entry before the place compares as equal.
Insertions(at, s, x) ==
    { IF p = 1 \/ Less(at, s[p - 1], x) THEN InsertAt(s, p, x) ELSE s
        : p \in UNION { Ends(tree, Len(s), NotGreater(at, s, x)) : tree \in Trees[Len(s)] } }

----------------------------------------------------------------------------
(* The handlers of the view.                                               *)

Child(n) == [ name |-> n, created |-> FALSE, current |-> TRUE ]

\* The places in a set of the child of that name.
Places(s, n) == { i \in DOMAIN s : s[i].name = n /\ s[i].current }

\* addToSorted(): the child is inserted in ItemsSorted, by the attribute its
\* file has by then, before Insert() sets ContextWasCreatedNotDiscovered.
AddToSorted(n, created) ==
    /\ items' = items \cup {n}
    /\ \E s \in Insertions(key', itemsSorted, Child(n)) :
         itemsSorted' = [ i \in DOMAIN s |->
             IF i \in Places(s, n) THEN [ s[i] EXCEPT !.created = created ] ELSE s[i] ]
    /\ UNCHANGED marked

\* Mutant: a child that the view has keeps its mark.
Discover_Mutant(n, created) ==
    IF n \in items THEN UNCHANGED view ELSE AddToSorted(n, created)

\* OnCreated() and OnExists(): priv_discoveredSubContext() takes the mark from
\* a child that the view has.
Discover(n, created) ==
    IF n \in items
    THEN marked' = marked \ {n} /\ UNCHANGED << items, itemsSorted >>
    ELSE AddToSorted(n, created)

\* Mutant: only Items loses the child.
OnDeleted_Mutant(n) ==
    /\ items' = items \ {n}
    /\ marked' = marked \ {n}
    /\ UNCHANGED itemsSorted

\* Mutant: the mark stays with the name.
OnDeleted_Mutant2(n) ==
    /\ items' = items \ {n}
    /\ UNCHANGED << marked, itemsSorted >>

\* OnDeleted(): Remove() erases the child from Items and from ItemsSorted,
\* OnDeleted() from ItemsSorted once more.
OnDeleted(n) ==
    LET child == IF Places(itemsSorted, n) = {} THEN Child(n)
                 ELSE itemsSorted[CHOOSE i \in Places(itemsSorted, n) : TRUE]
    IN  IF n \in items
        THEN /\ items' = items \ {n}
             /\ marked' = marked \ {n}
             /\ \E once \in Erasures(key, itemsSorted, child) :
                  \E twice \in IF once = itemsSorted THEN {once}
                               ELSE Erasures(key, once, child) :
                     itemsSorted' = [ i \in DOMAIN twice |->
                         IF i \in Places(twice, n) THEN [ twice[i] EXCEPT !.current = FALSE ]
                         ELSE twice[i] ]
        ELSE UNCHANGED view

\* The history: the attributes as they are now leave the set in the order it
\* was in, and so does, with an 'L', the mark of a child that was created.
Watch ==
    sound' = /\ sound
             /\ Ordered(key', itemsSorted)
             /\ lazy /\ (\E i \in DOMAIN itemsSorted' : itemsSorted'[i].created)
                    => Ordered(key', itemsSorted')

----------------------------------------------------------------------------
(* The delegate.  A directory that is watched has its events handled by    *)
(* the main loop, which runs while a watched directory is read.            *)

Listens == reader = "none" \/ active

\* A file is made: the delegate inserts a child and emits Created, or it has
\* one of that name and emits Exists.
Create(n, k) ==
    /\ Listens
    /\ n \notin files
    /\ files' = files \cup {n}
    /\ key' = [ key EXCEPT ![n] = k ]
    /\ base' = base \cup {n}
    /\ baseMarked' = baseMarked \ {n}
    /\ Discover(n, n \notin base)
    /\ UNCHANGED << lazy, active, baseRead, reads, renamed, changes >>
    /\ Watch

\* A file is removed: the delegate emits Deleted and erases the child.
Delete(n) ==
    /\ Listens
    /\ n \in files \cap base
    /\ Cardinality({ i \in DOMAIN itemsSorted : ~itemsSorted[i].current }) < MaxStale
    /\ files' = files \ {n}
    /\ base' = base \ {n}
    /\ baseMarked' = baseMarked \ {n}
    /\ toFind' = toFind \ {n}
    /\ OnDeleted(n)
    /\ UNCHANGED << lazy, active, key, baseRead, reader, renamed, changes >>
    /\ Watch

Counted == changes < MaxChanges /\ changes' = changes + 1

\* The attribute of a file changes; OnChanged() emits Changed and no more.
Change(n, k) ==
    /\ Counted
    /\ Listens
    /\ n \in files
    /\ k # key[n]
    /\ key' = [ key EXCEPT ![n] = k ]
    /\ UNCHANGED << lazy, active, files, delegate, view, reads, renamed >>
    /\ Watch

\* A directory that is not watched changes without an event.
Silent(n) ==
    /\ Counted
    /\ ~active
    /\ files' = (files \ {n}) \cup ({n} \ files)
    /\ toFind' = toFind \ {n}
    /\ UNCHANGED << lazy, active, key, delegate, view, reader,
                    sound, renamed >>

\* contextHasBeenRenamed(), which a directory that is not watched uses: the
\* new name is found, the old one leaves Items and no Deleted is emitted.
Rename(n, m) ==
    /\ Counted
    /\ ~active
    /\ reader = "none"
    /\ n \in files \cap base
    /\ m \in Names \ (files \cup base)
    /\ files' = (files \ {n}) \cup {m}
    /\ key' = [ key EXCEPT ![m] = key[n] ]
    /\ base' = (base \ {n}) \cup {m}
    /\ baseMarked' = baseMarked \ {n}
    /\ Discover(m, FALSE)
    /\ renamed' = TRUE
    /\ UNCHANGED << lazy, active, baseRead, reads >>
    /\ Watch

----------------------------------------------------------------------------
(* Reading.                                                                *)

\* The delegate's read(): clearContext() marks its children.
ReadBase(who) ==
    /\ reader' = who
    /\ toFind' = files
    /\ baseMarked' = base
    /\ baseRead' = TRUE
    /\ UNCHANGED << lazy, active, files, key, base, itemsSorted, items,
                    sound, renamed, changes >>

\* The delegate is read by another client.
BaseReads ==
    /\ reader = "none"
    /\ ReadBase("base")
    /\ UNCHANGED marked

\* The Exists events of the view at the end of a read.
Announced == [ i \in DOMAIN itemsSorted |-> itemsSorted[i].name ]

\* SortedContext::read(): without force, and when the delegate is watched and
\* has been read, the view only emits Exists for what it has.
QuickRead ==
    /\ reader = "none"
    /\ baseRead /\ active /\ items # {}
    /\ UNCHANGED << lazy, active, files, key, delegate, view, reads,
                    sound, renamed, changes >>

\* Otherwise clearContext() marks the children and the delegate is read.
ReadView(force) ==
    /\ reader = "none"
    /\ force \/ ~(baseRead /\ active /\ items # {})
    /\ marked' = items
    /\ ReadBase("view")

\* The reading meets a file: the delegate emits Exists.
Meet(n) ==
    /\ n \in toFind
    /\ toFind' = toFind \ {n}
    /\ base' = base \cup {n}
    /\ baseMarked' = baseMarked \ {n}
    /\ UNCHANGED << lazy, active, files, key, baseRead, reader, renamed, changes >>
    /\ Discover(n, FALSE)
    /\ Watch

\* The reading ends and the view emits Exists for each child, in order.
ReadEnds ==
    /\ reader # "none"
    /\ toFind = {}
    /\ reader' = "none"
    /\ UNCHANGED << lazy, active, files, key, delegate, view, toFind,
                    sound, renamed, changes >>

Init ==
    /\ lazy \in Lazies
    /\ active \in Watches
    /\ files \in SUBSET Names
    /\ key \in [Names -> Keys]
    /\ base = {} /\ baseMarked = {} /\ baseRead = FALSE
    /\ items = {} /\ marked = {} /\ itemsSorted = << >>
    /\ reader = "none" /\ toFind = {}
    /\ sound = TRUE /\ renamed = FALSE /\ changes = 0

Next ==
    \/ \E n \in Names, k \in Keys : Create(n, k) \/ Change(n, k)
    \/ \E n \in Names : Delete(n) \/ Silent(n) \/ Meet(n)
    \/ \E n, m \in Names : Rename(n, m)
    \/ BaseReads
    \/ QuickRead
    \/ \E force \in BOOLEAN : ReadView(force)
    \/ ReadEnds

Spec == Init /\ [][Next]_vars

----------------------------------------------------------------------------
(* Properties.                                                             *)

TypeOK ==
    /\ lazy \in BOOLEAN /\ active \in BOOLEAN
    /\ files \subseteq Names /\ key \in [Names -> Keys]
    /\ baseMarked \subseteq base /\ base \subseteq Names /\ baseRead \in BOOLEAN
    /\ marked \subseteq items /\ items \subseteq Names
    /\ itemsSorted \in Seq(Entry)
    /\ reader \in {"none", "view", "base"} /\ toFind \subseteq files
    /\ sound \in BOOLEAN /\ renamed \in BOOLEAN /\ changes \in 0..MaxChanges

\* ItemsSorted has every child of Items once and no other.
SameChildrenAlways ==
    /\ ToSet(Announced) = items
    /\ Len(itemsSorted) = Cardinality(items)

\* getSortedItems() and getItems() have the same children, as Ferris.cpp
\* states above Context::getSortedItems(), as long as no attribute and no
\* mark of a created child has put ItemsSorted out of its own order.
SameChildren == sound => SameChildrenAlways

\* Between reads the view shows every child its delegate shows, whatever
\* events the reads, the watch and the changes have interleaved, and when the
\* directory is watched no other.  A rename, of which the view is not told, is
\* left out, and so is a file that another client's read has not met again in
\* a directory that is not watched: the view shows it until its own read.
ShowsTheDelegate ==
    reader = "none" /\ ~renamed =>
        /\ base \ baseMarked \subseteq items \ marked
        /\ active => items \ marked = base \ baseMarked

\* A read of the view emits Exists for each child the delegate has, once and
\* in the order of the sort string (SortedContext::read()).
Precedes(x, y) ==
    \/ lazy /\ y.created /\ ~x.created
    \/ /\ lazy => x.created = y.created
       /\ \/ key[x.name] < key[y.name]
          \/ key[x.name] = key[y.name] /\ x.name < y.name

ListingIsSorted ==
    LET there == base \ baseMarked
        listed == { i \in DOMAIN itemsSorted : itemsSorted[i].name \in there }
    IN  /\ there = { itemsSorted[i].name : i \in listed }
        /\ \A i, j \in listed : i < j =>
              /\ itemsSorted[i].name # itemsSorted[j].name
              /\ Precedes(itemsSorted[i], itemsSorted[j])

ReadIsSorted ==
    [][(QuickRead \/ (ReadEnds /\ reader = "view")) /\ sound /\ ~renamed
          => ListingIsSorted]_vars
=============================================================================
