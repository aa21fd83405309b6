--------------------------- MODULE FileClipboard ---------------------------
(***************************************************************************)
(* The file clipboard (src/Ferris/ClipAPI.cpp, src/Ferris/CursorAPI.cpp):  *)
(* urls that are copied, cut or linked, a paste that runs a command and    *)
(* records another that undoes it in a ring of entries, and undo and redo, *)
(* which run what the entry under the cursor holds.  A paste also notes    *)
(* its place in the history of the mime type (MimeHistory); the files here *)
(* are of one type.                                                        *)
(*                                                                         *)
(* exe_sync() starts a program and does not wait for it: the commands run  *)
(* beside each other and beside the user, file by file.                    *)
(***************************************************************************)
EXTENDS MimeHistory

CONSTANTS
    Dirs,        \* directories
    UrlOf,       \* directory -> its url, as characters
    Names,       \* names of files
    Files,       \* the files there are at first: pairs of directory and name
    None,        \* no file
    ListSize,    \* cursor-list-size
    Patient,     \* does the user wait for what runs?
    MaxSelections, \* bound: urls selected
    MaxPastes,   \* bound: pastes
    MaxCommands  \* bound: commands started

Urls == Dirs \X Names
Linked == <<"link">>
Contents == Files \cup {Linked, None}

\* What the urls are made of.
Characters == UNION {ToSet(UrlOf[d]) : d \in Dirs}
Texts == Seq(Characters \cup {NewLine})

ASSUME ClipboardAssumption ==
    /\ NewLine \notin Characters
    /\ UrlOf \in [Dirs -> Seq(Characters) \ {<<>>}]
    /\ Files \subseteq Urls /\ None \notin Files \cup {Linked}
    /\ ListSize \in Nat /\ Patient \in BOOLEAN
    /\ MaxSelections \in Nat /\ MaxPastes \in Nat /\ MaxCommands \in Nat

VARIABLES
    action,    \* "action" of the clipboard
    contexts,  \* "contexts"
    pasted,    \* "pasted"
    cursor,    \* "cursor-rdn"
    mimeText,  \* action -> the attribute with its mime history
    entries,   \* the files of the ring: "redo" and "undo"
    fs,        \* the files
    running,   \* commands that run
    commands,  \* commands started
    selections, \* urls selected
    pastes,    \* pastes made
    ideal,     \* history: the files as a paste or an undo should leave them
    done,      \* history: pastes not undone, the last one at the end
    added,     \* history: action -> the places pasted to, the latest first
    plain      \* history: were targets free, pastes in the ring, and nothing redone?

clipVars == <<action, contexts, pasted>>
mimeVars == <<mimeText, added>>
ringVars == <<cursor, entries>>
runVars == <<fs, running, commands>>
history == <<selections, pastes, ideal, done, plain>>
vars == <<clipVars, mimeVars, ringVars, runVars, history>>

Actions == {"copy", "cut", "link"}
Slots == 0 .. ListSize
\* gfcp, gfmv, gfcp -s or gfrm of some files; "to" plays no part in gfrm.
Commands == [op : {"cp", "mv", "ln", "rm"}, urls : Seq(Urls), to : Dirs]
NoEntry == [paste |-> 0, redo |-> <<>>, undo |-> <<>>]

TypeOK ==
    /\ action \in Actions \cup {"none"}
    /\ contexts \in Seq(Urls)
    /\ pasted \in BOOLEAN
    /\ cursor \in Slots \cup {-1}
    /\ \A s \in Slots :
         /\ entries[s].paste \in 0 .. MaxPastes
         /\ entries[s].redo \in Seq(Commands) /\ entries[s].undo \in Seq(Commands)
    /\ fs \in [Urls -> Contents]
    /\ \A r \in running : r.id \in 1 .. commands /\ r.command \in Commands
    /\ commands \in 0 .. MaxCommands
    /\ selections \in 0 .. MaxSelections /\ pastes \in 0 .. MaxPastes
    /\ ideal \in [Urls -> Contents]
    /\ mimeText \in [Actions -> Texts] /\ added \in [Actions -> Seq(Dirs)]
    /\ plain \in BOOLEAN

Init ==
    /\ action = "none" /\ contexts = <<>> /\ pasted = TRUE
    /\ cursor = -1 /\ entries = [s \in Slots |-> NoEntry]
    /\ fs = [u \in Urls |-> IF u \in Files THEN u ELSE None]
    /\ running = {} /\ commands = 0 /\ selections = 0 /\ pastes = 0
    /\ ideal = fs /\ done = <<>>
    /\ mimeText = [a \in Actions |-> <<>>] /\ added = mimeText
    /\ plain = TRUE

UserMoves == Patient => running = {}

-----------------------------------------------------------------------------
\* The files: what one command does to one of its files.
Target(u, d) == <<d, u[2]>>
Effect(f, c, u) ==
    IF f[u] = None \/ (c.op # "rm" /\ Target(u, c.to) = u) THEN f
    ELSE CASE c.op = "cp" -> [f EXCEPT ![Target(u, c.to)] = f[u]]
           [] c.op = "mv" -> [f EXCEPT ![Target(u, c.to)] = f[u], ![u] = None]
           [] c.op = "ln" -> [f EXCEPT ![Target(u, c.to)] = Linked]
           [] c.op = "rm" -> [f EXCEPT ![u] = None]
\* The command of a paste, when nothing else runs: of the files of one name
\* the last that is there to copy or to move stays.
Comers(f, c, u) == {i \in DOMAIN c.urls :
    /\ c.urls[i][1] # c.to /\ c.urls[i][2] = u[2] /\ f[c.urls[i]] # None
    /\ c.op = "mv" => \A j \in 1 .. i - 1 : c.urls[j] # c.urls[i]}
EffectOf(f, c) == [u \in Urls |->
    IF u[1] = c.to /\ Comers(f, c, u) # {}
    THEN IF c.op = "ln" THEN Linked ELSE f[c.urls[Max(Comers(f, c, u))]]
    ELSE IF c.op = "mv" /\ u[1] # c.to /\ u \in ToSet(c.urls) THEN None ELSE f[u]]

\* exe_sync().
ExeSync(cs) ==
    /\ commands + Len(cs) <= MaxCommands
    /\ commands' = commands + Len(cs)
    /\ running' = running \cup {[id |-> commands + i, command |-> cs[i]] : i \in DOMAIN cs}
    /\ UNCHANGED fs

\* A command that runs handles its next file.
RunStep == \E r \in running :
    /\ fs' = Effect(fs, r.command, Head(r.command.urls))
    /\ running' = (running \ {r}) \cup
         IF Len(r.command.urls) = 1 THEN {}
         ELSE {[r EXCEPT !.command.urls = Tail(@)]}
    /\ UNCHANGED <<clipVars, mimeVars, ringVars, commands, history>>

-----------------------------------------------------------------------------
\* clearClip() and setAction().
Kept == IF pasted THEN <<>> ELSE contexts

\* Clear().
Clear ==
    /\ UserMoves
    /\ action' = "none" /\ contexts' = <<>> /\ pasted' = FALSE
    /\ UNCHANGED <<mimeVars, ringVars, runVars, selections, pastes, ideal, done, plain>>

\* Copy(), Cut() and Link(): setAction() and appendContext().
Select(a, u) ==
    /\ UserMoves
    /\ fs[u] # None
    /\ selections < MaxSelections /\ selections' = selections + 1
    /\ action' = a
    /\ contexts' = Append(Kept, u)
    /\ pasted' = FALSE
    /\ UNCHANGED <<mimeVars, ringVars, runVars, pastes, ideal, done, plain>>

\* adjustCursor() goes round modulo cursor-list-size + 1.
Modulas == ListSize + 1
At(i) == i % Modulas

\* The commands of a paste.
\* mutant: the name of the action is taken for the command
Redo_Mutant(a, urls, d) == <<[op |-> a, urls |-> urls, to |-> d]>>
Redo(a, urls, d) ==
    LET op == CASE a = "copy" -> "cp" [] a = "cut" -> "mv" [] a = "link" -> "ln"
    IN <<[op |-> op, urls |-> urls, to |-> d]>>
\* mutant: a cut is undone into the directory it was pasted in
Undo_Mutant(a, urls, d) ==
    IF a = "cut"
    THEN [i \in DOMAIN urls |-> [op |-> "mv", urls |-> <<Target(urls[i], d)>>, to |-> d]]
    ELSE <<[op |-> "rm", urls |-> [i \in DOMAIN urls |-> Target(urls[i], d)], to |-> d]>>
\* mutant: a cut is undone like a copy
Undo_Mutant2(a, urls, d) ==
    <<[op |-> "rm", urls |-> [i \in DOMAIN urls |-> Target(urls[i], d)], to |-> d]>>
Undo(a, urls, d) ==
    IF a = "cut"
    THEN [i \in DOMAIN urls |->
            [op |-> "mv", urls |-> <<Target(urls[i], d)>>, to |-> urls[i][1]]]
    ELSE <<[op |-> "rm", urls |-> [i \in DOMAIN urls |-> Target(urls[i], d)], to |-> d]>>

\* addToClipMimeHistory() for each url; one that does not resolve is caught.
Resolved == {i \in DOMAIN contexts : fs[contexts[i]] # None}
Noted(t, p, n) ==
    LET after[i \in 0 .. n] == IF i = 0 THEN t ELSE AddToClipMimeHistory(after[i - 1], p)
    IN after[n]
NotePlaces(d) ==
    LET places == [i \in 1 .. Cardinality(Resolved) |-> d]
    IN /\ mimeText' = [mimeText EXCEPT ![action] = Noted(@, UrlOf[d], Len(places))]
       /\ added' = [added EXCEPT ![action] = places \o @]

\* Paste(): copy and link resolve their sources, after the places were noted,
\* and throw when one is gone.
CanPaste(d) ==
    /\ UserMoves
    /\ pastes < MaxPastes
    /\ action # "none" /\ contexts # <<>>
    /\ pastes' = pastes + 1
    /\ NotePlaces(d)
SourceGone == action # "cut" /\ Resolved # DOMAIN contexts
PasteFails(d) ==
    /\ CanPaste(d)
    /\ SourceGone
    /\ UNCHANGED <<clipVars, ringVars, runVars, selections, ideal, done, plain>>

PastesOnce == contexts' = IF action = "cut" THEN <<>> ELSE contexts
Paste(d) ==
    /\ CanPaste(d)
    /\ ~ SourceGone
    /\ LET new == At(At(cursor) + 1)
       IN /\ cursor' = new
          /\ entries' = [entries EXCEPT ![new] =
               [paste |-> pastes + 1, redo |-> Redo(action, contexts, d),
                undo |-> Undo(action, contexts, d)]]
          /\ done' = Append(done, [paste |-> pastes + 1, before |-> ideal])
    /\ PastesOnce
    /\ pasted' = (action # "cut")
    /\ ExeSync(Redo(action, contexts, d))
    /\ UNCHANGED <<action, selections>>
    /\ ideal' = EffectOf(ideal, Redo(action, contexts, d)[1])
    /\ plain' = /\ plain
                /\ \A i \in DOMAIN contexts :
                     /\ ideal[contexts[i]] # None
                     /\ ideal[Target(contexts[i], d)] = None
                     /\ \A j \in DOMAIN contexts : contexts[j][2] = contexts[i][2] => i = j

\* fclipundo: Undo() and cursorPrev(); an entry without a command throws.
Undoes == entries[At(cursor)].undo
ClipUndo ==
    /\ UserMoves
    /\ Undoes # <<>>
    /\ ExeSync(Undoes)
    /\ cursor' = At(At(cursor) - 1)
    /\ done' = IF done = <<>> THEN <<>> ELSE Front(done)
    /\ ideal' = IF done = <<>> THEN ideal ELSE Last(done).before
    /\ plain' = /\ plain /\ done # <<>>
                /\ \E s \in Slots : entries[s].paste = Last(done).paste
    /\ UNCHANGED <<clipVars, mimeVars, entries, selections, pastes>>

\* fclipredo: Redo() and cursorNext().
Redoes == entries[At(cursor)].redo
ClipRedo ==
    /\ UserMoves
    /\ Redoes # <<>>
    /\ ExeSync(Redoes)
    /\ cursor' = At(At(cursor) + 1)
    /\ plain' = FALSE
    /\ UNCHANGED <<clipVars, mimeVars, entries, selections, pastes, ideal, done>>

Next ==
    \/ RunStep
    \/ Clear
    \/ \E a \in Actions, u \in Urls : Select(a, u)
    \/ \E d \in Dirs : Paste(d) \/ PasteFails(d)
    \/ ClipUndo
    \/ ClipRedo

Spec == Init /\ [][Next]_vars
-----------------------------------------------------------------------------
\* When no command runs, pastes that were undone have left no trace and the
\* others are in effect: for a user who waits for the commands, pastes where
\* no file of the name is, undoes no more than the ring holds, and does not
\* redo.
UndoRestores == plain /\ Patient /\ running = {} => fs = ideal

\* While nothing is pasted over a file, no command loses the last copy of
\* one, not even between the moves that undo a cut.
NothingLost == plain /\ Patient => \A x \in Files : \E u \in Urls : fs[u] = x

\* For each action the list has the places of the last pastes, the latest
\* first and none twice: before a place come only places of later pastes.  So
\* it is whatever the lengths of the urls, also when the list is full and the
\* new text is shorter than the old, and when a paste has failed after its
\* place was noted.
LatestFirst == \A a \in Actions :
    LET list == GetMimeHistory(mimeText[a])
        latest == SubSeq(added[a], 1, Smaller(MimeHistorySize, Len(added[a])))
    IN /\ \A i, j \in DOMAIN list : list[i] = list[j] => i = j
       /\ \A k \in DOMAIN latest : \E i \in DOMAIN list :
            /\ list[i] = UrlOf[latest[k]]
            /\ \A h \in 1 .. i - 1 : \E l \in 1 .. k - 1 : list[h] = UrlOf[latest[l]]
=============================================================================
