------------------------------ MODULE Etagere ------------------------------
(***************************************************************************)
(* The etagere (src/Ferris/Medallion.cpp): the emblems of a user, kept in  *)
(* memory by every process that uses them, in a text and a binary boost    *)
(* archive that every process writes as a whole, and in a db4 file with    *)
(* the next free identifier.  A process that saves announces its new       *)
(* identifiers to the others, which read them out of the archive.          *)
(*                                                                         *)
(* A process runs one thread; its steps are cut where it touches what it   *)
(* shares: the get and the set of the identifier, the text archive, the    *)
(* binary archive.  Nothing is locked.  At first there are no archives;    *)
(* opening one to write creates or truncates it, so a crash leaves a torn  *)
(* one.                                                                    *)
(***************************************************************************)
EXTENDS Integers, FiniteSets, Sequences

CONSTANTS
    Procs,      \* processes that use the etagere
    Names,      \* names of emblems
    NoName,     \* the value of an identifier that is not in m_cemblems
    MaxId,      \* bound: identifiers that are handed out
    MaxChanges, \* bound: emblems that are made, renamed and erased
    MaxMail,    \* bound: announcements waiting for a process
    MaxCrashes  \* bound: processes that are killed

ASSUME EtagereAssumption ==
    /\ MaxId \in Nat \ {0} /\ MaxChanges \in Nat
    /\ MaxMail \in Nat /\ MaxCrashes \in Nat
    /\ NoName \notin Names

VARIABLES
    nextid,   \* the EM_NEXTID_KEY of etagere.db
    txt,      \* emblems-and-etagere.boost.txt
    bin,      \* emblems-and-etagere.boost
    up,       \* processes that hold an etagere
    pc,       \* where a process is
    got,      \* the identifier that getNextID() has read and not yet raised
    mem,      \* m_cemblems: identifier -> name
    byName,   \* m_cemblemsByName, as pairs of identifier and name
    fresh,    \* m_newEmblemIDs
    dirty,    \* m_isDirty
    mail,     \* COMMAND_ETAGERE_NEW_EMBLEM messages on their way to a process
    changes,  \* changes of emblems so far
    crashes,  \* processes killed so far
    handed,   \* history: how often an identifier was handed out
    saved,    \* history: the contents of the last archive pair completed
    attempt,  \* history: the contents of the last save begun
    raced,    \* history: what two processes have been doing at the same time,
              \* taking an identifier ("id"), saving ("save")
    current   \* history: processes that had what the archives give when they
              \* last loaded or saved, and no other has begun a save since

shared == <<nextid, txt, bin>>
private == <<up, pc, got, mem, byName, fresh, dirty>>
counters == <<changes, crashes>>
history == <<handed, saved, attempt, raced, current>>
vars == <<shared, private, mail, counters, history>>

Ids == 1 .. MaxId
Contents == [Ids -> Names \cup {NoName}]
Nothing == [i \in Ids |-> NoName]
In(c) == {i \in Ids : c[i] # NoName}
Files == [state : {"missing", "torn", "whole"}, data : Contents]
Missing  == [state |-> "missing", data |-> Nothing]
Torn(c)  == [state |-> "torn", data |-> c]
Whole(c) == [state |-> "whole", data |-> c]

\* The emblems of an archive are in the order of their identifiers: these are
\* the ones before a tear.
Prefix(c, k) == [i \in Ids |-> IF i <= k THEN c[i] ELSE NoName]
Mixtures(a, b) == {c \in Contents : \A i \in Ids : c[i] \in {a[i], b[i]}}

\* std::map::insert() of every pair of new into old keeps what old has.
InsertAll(old, new) == [i \in Ids |-> IF old[i] # NoName THEN old[i] ELSE new[i]]
Pairs(c) == {<<i, c[i]>> : i \in In(c)}

\* What a process may find in the archives: nothing when there are none, else
\* the binary one is read.  When that is torn the emblems before the tear are
\* in the maps already, and the text archive is read after it; when that is
\* missing or torn too, the constructor throws.
Loadable ==
    IF txt.state = "missing" /\ bin.state = "missing" THEN {Nothing}
    ELSE IF bin.state = "whole" THEN {bin.data}
    ELSE IF txt.state = "whole"
         THEN {InsertAll(Prefix(bin.data, k), txt.data) : k \in 0 .. MaxId}
         ELSE {}

TypeOK ==
    /\ nextid \in 1 .. MaxId + 1
    /\ txt \in Files /\ bin \in Files
    /\ up \subseteq Procs
    /\ pc \in [Procs -> {"idle", "allocating", "text", "between", "binary"}]
    /\ got \in [Procs -> 0 .. MaxId]
    /\ mem \in [Procs -> Contents]
    /\ byName \in [Procs -> SUBSET (Ids \X Names)]
    /\ fresh \in [Procs -> SUBSET Ids]
    /\ dirty \in [Procs -> BOOLEAN]
    /\ mail \in [Procs -> Seq(SUBSET Ids)]
    /\ \A p \in Procs : Len(mail[p]) <= MaxMail
    /\ changes \in 0 .. MaxChanges /\ crashes \in 0 .. MaxCrashes
    /\ handed \in [Ids -> Nat]
    /\ saved \in Contents /\ attempt \in Contents
    /\ raced \subseteq {"id", "save"} /\ current \subseteq Procs

Init ==
    /\ nextid = 1
    /\ txt = Missing /\ bin = Missing
    /\ up = {}
    /\ pc = [p \in Procs |-> "idle"]
    /\ got = [p \in Procs |-> 0]
    /\ mem = [p \in Procs |-> Nothing]
    /\ byName = [p \in Procs |-> {}]
    /\ fresh = [p \in Procs |-> {}]
    /\ dirty = [p \in Procs |-> FALSE]
    /\ mail = [p \in Procs |-> <<>>]
    /\ changes = 0 /\ crashes = 0
    /\ handed = [i \in Ids |-> 0]
    /\ saved = Nothing /\ attempt = Nothing
    /\ raced = {} /\ current = {}

Idle(p) == p \in up /\ pc[p] = "idle"
Allocating == {p \in Procs : pc[p] = "allocating"}
Saving == {p \in Procs : pc[p] \in {"text", "between", "binary"}}

\* Etagere::Etagere() and loadAllEmblems().
LargestId(c) == CHOOSE i \in 0 .. MaxId :
    /\ i = 0 \/ i \in In(c)
    /\ \A j \in In(c) : j <= i
AdjustNextId(c) ==
    nextid' = IF LargestId(c) > nextid THEN LargestId(c) + 1 ELSE nextid

Start(p) ==
    /\ p \notin up
    /\ \E c \in Loadable :
         /\ mem' = [mem EXCEPT ![p] = c]
         /\ byName' = [byName EXCEPT ![p] = Pairs(c)]
         /\ AdjustNextId(c)
         /\ current' = IF Saving = {} /\ Loadable = {c}
                       THEN current \cup {p} ELSE current \ {p}
    /\ up' = up \cup {p}
    /\ fresh' = [fresh EXCEPT ![p] = {}]
    /\ dirty' = [dirty EXCEPT ![p] = FALSE]
    /\ UNCHANGED <<txt, bin, pc, got, mail, counters, handed, saved, attempt, raced>>

Change ==
    /\ changes < MaxChanges
    /\ changes' = changes + 1

\* createColdEmblem(): setDirty(), and getNextID() reads the next identifier.
ReadNextId(p) ==
    /\ Idle(p)
    /\ nextid <= MaxId
    /\ Change
    /\ got' = [got EXCEPT ![p] = nextid]
    /\ dirty' = [dirty EXCEPT ![p] = TRUE]
    /\ pc' = [pc EXCEPT ![p] = "allocating"]
    /\ raced' = raced \cup (IF Allocating = {} THEN {} ELSE {"id"})
    /\ UNCHANGED <<shared, up, mem, byName, fresh, mail,
                   crashes, handed, saved, attempt, current>>

\* The rest of getNextID() and of createColdEmblem_common().
RaisedId_Mutant(i) == i       \* mutant: the next identifier is not raised
RaisedId_Mutant2(i) == i - 1  \* mutant: it is lowered
RaisedId(i) == i + 1
Create(p, n) ==
    /\ p \in up /\ pc[p] = "allocating"
    /\ nextid' = RaisedId(got[p])
    /\ mem' = [mem EXCEPT ![p] = InsertAll(@, [Nothing EXCEPT ![got[p]] = n])]
    /\ byName' = [byName EXCEPT ![p] = @ \cup {<<got[p], n>>}]
    /\ fresh' = [fresh EXCEPT ![p] = @ \cup {got[p]}]
    /\ handed' = [handed EXCEPT ![got[p]] = @ + 1]
    /\ got' = [got EXCEPT ![p] = 0]
    /\ pc' = [pc EXCEPT ![p] = "idle"]
    /\ UNCHANGED <<txt, bin, up, dirty, mail, counters, saved, attempt, raced, current>>

\* Etagere::erase(): the emblem leaves m_cemblems, and one that is found
\* under its name leaves m_cemblemsByName.
Erase(p, i) ==
    /\ Idle(p)
    /\ i \in In(mem[p])
    /\ Change
    /\ dirty' = [dirty EXCEPT ![p] = TRUE]
    /\ fresh' = [fresh EXCEPT ![p] = @ \ {i}]
    /\ LET alike == {e \in byName[p] : e[2] = mem[p][i]}
       IN IF alike = {} THEN UNCHANGED byName
          ELSE \E e \in alike : byName' = [byName EXCEPT ![p] = @ \ {e}]
    /\ mem' = [mem EXCEPT ![p][i] = NoName]
    /\ UNCHANGED <<shared, up, pc, got, mail, crashes, history>>

\* Emblem::setName() and priv_emblemBeingRenamed(), which erases the whole
\* range of the old name.
DropOldName(s, i, old) == {e \in s : e[2] # old}
\* mutant: a new name is no change that has to be saved
Rename_Mutant(p, i, n) ==
    /\ Idle(p)
    /\ i \in In(mem[p]) /\ mem[p][i] # n
    /\ Change
    /\ byName' = [byName EXCEPT ![p] = DropOldName(@, i, mem[p][i]) \cup {<<i, n>>}]
    /\ mem' = [mem EXCEPT ![p][i] = n]
    /\ UNCHANGED <<shared, up, pc, got, dirty, fresh, mail, crashes, history>>
Rename(p, i, n) ==
    /\ Idle(p)
    /\ i \in In(mem[p]) /\ mem[p][i] # n
    /\ Change
    /\ dirty' = [dirty EXCEPT ![p] = TRUE]
    /\ byName' = [byName EXCEPT ![p] = DropOldName(@, i, mem[p][i]) \cup {<<i, n>>}]
    /\ mem' = [mem EXCEPT ![p][i] = n]
    /\ UNCHANGED <<shared, up, pc, got, fresh, mail, crashes, history>>

\* saveAllEmblems(): the text archive is opened, and with that truncated ...
\* mutant: the binary archive is opened first
SaveBegins_Mutant(p) ==
    /\ Idle(p)
    /\ dirty[p]
    /\ bin' = Torn(mem[p])
    /\ attempt' = mem[p]
    /\ current' = {p}
    /\ raced' = raced \cup (IF Saving = {} THEN {} ELSE {"save"})
    /\ pc' = [pc EXCEPT ![p] = "text"]
    /\ UNCHANGED <<nextid, txt, up, got, mem, byName, fresh, dirty, mail,
                   counters, handed, saved>>
SaveBegins(p) ==
    /\ Idle(p)
    /\ dirty[p]
    /\ txt' = Torn(mem[p])
    /\ attempt' = mem[p]
    /\ current' = {p}
    /\ raced' = raced \cup (IF Saving = {} THEN {} ELSE {"save"})
    /\ pc' = [pc EXCEPT ![p] = "text"]
    /\ UNCHANGED <<nextid, bin, up, got, mem, byName, fresh, dirty, mail,
                   counters, handed, saved>>

\* What an archive is when p has written and closed it.  Two processes that
\* save at the same time write over each other; from then on the model lets
\* every archive be a mixture of what was in it and what is written.
Written(p, f) ==
    IF "save" \notin raced THEN {Whole(mem[p])}
    ELSE [state : {"torn", "whole"}, data : Mixtures(mem[p], f.data)]

\* ... it is closed ...
TextWritten(p) ==
    /\ p \in up /\ pc[p] = "text"
    /\ txt' \in Written(p, txt)
    /\ pc' = [pc EXCEPT ![p] = "between"]
    /\ UNCHANGED <<nextid, bin, up, got, mem, byName, fresh, dirty, mail, counters, history>>

\* ... the binary one is opened ...
\* mutant: the text archive is still open, its end not yet written
BinaryOpened_Mutant(p) ==
    /\ p \in up /\ pc[p] = "between"
    /\ txt' = Torn(mem[p])
    /\ bin' = Torn(mem[p])
    /\ pc' = [pc EXCEPT ![p] = "binary"]
    /\ UNCHANGED <<nextid, up, got, mem, byName, fresh, dirty, mail, counters, history>>
BinaryOpened(p) ==
    /\ p \in up /\ pc[p] = "between"
    /\ bin' = Torn(mem[p])
    /\ pc' = [pc EXCEPT ![p] = "binary"]
    /\ UNCHANGED <<nextid, txt, up, got, mem, byName, fresh, dirty, mail, counters, history>>

\* ... and that is closed too, m_isDirty cleared and the announcement sent.
\* The daemon writes it to the processes that have connected to it, never
\* to its sender (see Notifier).
SaveEnds(p) ==
    /\ p \in up /\ pc[p] = "binary"
    /\ bin' \in Written(p, bin)
    /\ saved' = mem[p]
    /\ dirty' = [dirty EXCEPT ![p] = FALSE]
    /\ pc' = [pc EXCEPT ![p] = "idle"]
    /\ \E to \in SUBSET (up \ {p}) :
         /\ \A q \in to : Len(mail[q]) < MaxMail
         /\ mail' = [q \in Procs |-> IF q \in to THEN Append(mail[q], fresh[p])
                                     ELSE mail[q]]
    /\ UNCHANGED <<nextid, txt, up, got, mem, byName, fresh,
                   counters, handed, attempt, raced, current>>

\* OnOutOfProcNewEmblemNotification(): a dirty process ignores it.  The binary
\* archive is read emblem by emblem up to the first that was announced, which
\* is inserted, and the function returns; an archive that is missing, or torn
\* before that emblem, throws, which the handler of the stream catches.
Readable == IF bin.state = "whole" THEN {bin.data}
            ELSE {Prefix(bin.data, k) : k \in 0 .. MaxId}
Announced(c, m) == m \cap In(c)
Learnt(c, m) == {i \in Announced(c, m) : \A j \in Announced(c, m) : i <= j}
OnNewEmblems(p) ==
    /\ Idle(p)
    /\ mail[p] # <<>>
    /\ mail' = [mail EXCEPT ![p] = Tail(@)]
    /\ \E c \in Readable :
         LET new == IF dirty[p] THEN {} ELSE Learnt(c, Head(mail[p]))
             d   == [i \in Ids |-> IF i \in new THEN c[i] ELSE NoName]
         IN /\ mem' = [mem EXCEPT ![p] = InsertAll(@, d)]
            /\ byName' = [byName EXCEPT ![p] = @ \cup Pairs(d)]
    /\ UNCHANGED <<shared, up, pc, got, fresh, dirty, counters, history>>

\* The memory and the fifo of a process end with it.
Gone(p) ==
    /\ up' = up \ {p}
    /\ pc' = [pc EXCEPT ![p] = "idle"]
    /\ got' = [got EXCEPT ![p] = 0]
    /\ mem' = [mem EXCEPT ![p] = Nothing]
    /\ byName' = [byName EXCEPT ![p] = {}]
    /\ fresh' = [fresh EXCEPT ![p] = {}]
    /\ dirty' = [dirty EXCEPT ![p] = FALSE]
    /\ mail' = [mail EXCEPT ![p] = <<>>]

\* ~Etagere(): sync() has nothing to save any more.
Exit(p) ==
    /\ Idle(p)
    /\ ~ dirty[p]
    /\ Gone(p)
    /\ UNCHANGED <<shared, counters, history>>

Crash(p) ==
    /\ p \in up
    /\ crashes < MaxCrashes
    /\ crashes' = crashes + 1
    /\ Gone(p)
    /\ UNCHANGED <<shared, changes, history>>

Next == \E p \in Procs :
    \/ Start(p)
    \/ ReadNextId(p)
    \/ \E n \in Names : Create(p, n)
    \/ \E i \in Ids : Erase(p, i)
    \/ \E i \in Ids, n \in Names : Rename(p, i, n)
    \/ SaveBegins(p)
    \/ TextWritten(p)
    \/ BinaryOpened(p)
    \/ SaveEnds(p)
    \/ OnNewEmblems(p)
    \/ Exit(p)
    \/ Crash(p)

Spec == Init /\ [][Next]_vars
-----------------------------------------------------------------------------
\* "Cold emblems store a unique integer as their primary identifier":
\* getNextID() hands out no identifier twice, whoever makes emblems, saves,
\* loads torn archives or is killed, unless two processes have been between
\* its get and its set at the same time.
UniqueIds == "id" \notin raced => \A i \in Ids : handed[i] <= 1

\* One crash does no harm.  While no two saves have overlapped, what a process
\* loads when no other is left is one save as a whole, the last one completed
\* or the one that the crash cut short, never a mix; and there is something to
\* load, unless the crash was in the text archive of the first save ever.
LoadIsOneSave ==
    up = {} /\ crashes <= 1 /\ "save" \notin raced =>
        /\ Loadable \subseteq {saved, attempt}
        /\ Loadable = {} => crashes = 1 /\ bin.state = "missing"

\* sync() skips nothing that has changed: a process that is not dirty has its
\* emblems with their present names in the archives, until another process
\* saves its own, and whatever is announced or killed meanwhile.
CleanIsOnDisk ==
    "save" \notin raced =>
        \A p \in current : Idle(p) /\ ~ dirty[p] => Loadable = {mem[p]}

\* An announcement may be handled when the archive has been saved again or is
\* just being written.  While no two saves have overlapped and no process was
\* killed, an emblem is learnt with the name that a process which started now
\* would load, from the half of the binary archive that is there as well.
LearnsSaved == [][\A p \in Procs :
    OnNewEmblems(p) /\ "save" \notin raced /\ crashes = 0 =>
        \A i \in In(mem'[p]) \ In(mem[p]), c \in Loadable : mem'[p][i] = c[i]]_vars
=============================================================================
