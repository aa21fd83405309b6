------------------------------ MODULE Notifier ------------------------------
(***************************************************************************)
(* Out of process notification: processes that show the same store (the    *)
(* contexts of a db4 file) tell each other what they create and delete.    *)
(* A message goes down the named pipe "incoming" to the daemon             *)
(* (src/apps/ferris-out-of-proc-notification-deamon.cpp), which writes it  *)
(* to the pipe of every client but the one it came from.  A client         *)
(* (src/Ferris/PluginOutOfProcNotificationEngine.cpp) makes its pipe once, *)
(* pings the daemon and starts one when there is none; a daemon takes up   *)
(* the pipes it finds in "outgoing" and unlinks them.                      *)
(***************************************************************************)
EXTENDS Integers, FiniteSets, Sequences

CONSTANTS
    Clients,      \* processes; one that has ended does not come back
    Pids,         \* process identifiers
    PidsReused,   \* may a process get the identifier of one that has ended?
    Daemons,      \* daemon processes that may be started
    Names,        \* names of contexts
    FirstDaemons, \* the sets of daemons that may run at first
    None,         \* no daemon, no client
    MaxEdits,     \* bound: creations and deletions
    MaxKills      \* bound: daemons killed

ASSUME NotifierAssumption ==
    /\ FirstDaemons \subseteq SUBSET Daemons
    /\ IsFiniteSet(Daemons)
    /\ None \notin Clients \cup Daemons \cup Pids
    /\ PidsReused \in BOOLEAN
    /\ MaxEdits \in Nat /\ MaxKills \in Nat

VARIABLES
    phase,     \* of a client
    pid,       \* its process identifier
    known,     \* the static pid of ensureServerRunning()
    view,      \* the names a client shows
    inbox,     \* what is in its pipe
    last,      \* history: the last edit it was told of
    running,   \* daemons that run
    pidfile,   \* the file "pid" of the daemon
    outgoing,  \* daemon -> process identifier -> the client whose pipe it has
    fifo,      \* the directory "outgoing": process identifier -> client
    incoming,  \* what is in the pipe to the daemon
    store,     \* the names in the db4 file
    edits,     \* edits made
    author,    \* history: edit -> client
    crossed,   \* history: names edited by a client that had not yet heard all of them
    kills,     \* daemons killed
    steady     \* history: has one daemon run from the first?

clientVars == <<phase, pid, known, view, inbox, last>>
daemonVars == <<running, pidfile, outgoing, fifo>>
editVars == <<store, edits, author, crossed>>
faultVars == <<kills, steady>>
vars == <<clientVars, daemonVars, incoming, editVars, faultVars>>

Kinds == {"created", "deleted"}
Messages == [edit : 1 .. MaxEdits, kind : Kinds, name : Names, from : Pids]
Up(c) == phase[c] # "off"

\* What is on its way to a client: the daemon does not write to the sender.
Contents(s) == {s[i] : i \in DOMAIN s}
Mail(c) == Contents(inbox[c]) \cup {m \in Contents(incoming) : m.from # pid[c]}

TypeOK ==
    /\ phase \in [Clients -> {"off", "started", "spawning", "connected", "watching"}]
    /\ pid \in [Clients -> Pids \cup {None}]
    /\ known \in [Clients -> Daemons \cup {None}]
    /\ view \in [Clients -> SUBSET Names]
    /\ inbox \in [Clients -> Seq(Messages)]
    /\ last \in [Clients -> 0 .. MaxEdits]
    /\ running \subseteq Daemons
    /\ pidfile \in Daemons \cup {None}
    /\ outgoing \in [Daemons -> [Pids -> Clients \cup {None}]]
    /\ fifo \in [Pids -> Clients \cup {None}]
    /\ incoming \in Seq(Messages)
    /\ store \subseteq Names
    /\ edits \in 0 .. MaxEdits
    /\ author \in [1 .. MaxEdits -> Clients \cup {None}]
    /\ crossed \subseteq Names
    /\ kills \in 0 .. MaxKills /\ steady \in BOOLEAN

Init ==
    /\ phase = [c \in Clients |-> "off"]
    /\ pid = [c \in Clients |-> None]
    /\ known = [c \in Clients |-> None]
    /\ view = [c \in Clients |-> {}]
    /\ inbox = [c \in Clients |-> <<>>]
    /\ last = [c \in Clients |-> 0]
    /\ running \in FirstDaemons
    /\ pidfile \in running \cup (IF running = {} THEN {None} ELSE {})
    /\ outgoing = [d \in Daemons |-> [i \in Pids |-> None]]
    /\ fifo = [i \in Pids |-> None]
    /\ incoming = <<>>
    /\ store = {}
    /\ edits = 0
    /\ author = [i \in 1 .. MaxEdits |-> None]
    /\ crossed = {}
    /\ kills = 0
    /\ steady = (Cardinality(running) = 1)

-----------------------------------------------------------------------------
\* The clients.

\* The operating system starts a process under an identifier not in use.
Start(c) ==
    /\ pid[c] = None
    /\ \E i \in Pids :
         /\ \A o \in Clients : Up(o) \/ ~ PidsReused => pid[o] # i
         /\ pid' = [pid EXCEPT ![c] = i]
    /\ phase' = [phase EXCEPT ![c] = "started"]
    /\ UNCHANGED <<known, view, inbox, last, daemonVars, incoming, editVars, faultVars>>

\* ensureServerRunning(), as watchTree() calls it: ping the daemon, and put
\* a pipe of our own into "outgoing".
ServerPid(c) == IF known[c] = None THEN pidfile ELSE known[c]
EnsureServerRunning(c) ==
    /\ phase[c] = "started"
    /\ LET alive == ServerPid(c) \in running
       IN /\ known' = [known EXCEPT ![c] = IF alive THEN ServerPid(c) ELSE None]
          /\ phase' = [phase EXCEPT ![c] = IF alive THEN "connected" ELSE "spawning"]
    /\ fifo' = [fifo EXCEPT ![pid[c]] = c]
    /\ UNCHANGED <<pid, view, inbox, last, running, pidfile, outgoing, incoming,
                   editVars, faultVars>>

\* The rest of it: start a daemon.  Its lock is on a file that the parent
\* has open, SwitchToDaemonMode() ends that parent, and a record lock is not
\* inherited by the child: no daemon keeps another from starting.
Spawn(c) ==
    /\ phase[c] = "spawning"
    /\ \E d \in Daemons \ running :
         /\ running' = running \cup {d}
         /\ pidfile' = d
         /\ outgoing' = [outgoing EXCEPT ![d] = [i \in Pids |-> None]]
    /\ phase' = [phase EXCEPT ![c] = "connected"]
    /\ steady' = FALSE
    /\ UNCHANGED <<pid, known, view, inbox, last, fifo, incoming, editVars, kills>>

\* priv_read() lists the store after watchTree().
Read(c) ==
    /\ phase[c] = "connected"
    /\ view' = [view EXCEPT ![c] = @ \cup store]
    /\ phase' = [phase EXCEPT ![c] = "watching"]
    /\ UNCHANGED <<pid, known, inbox, last, daemonVars, incoming, editVars, faultVars>>

\* The process ends; ~OutOfProcNotificationEngine() unlinks its pipe.
Gone(c) ==
    /\ phase' = [phase EXCEPT ![c] = "off"]
    /\ fifo' = [fifo EXCEPT ![pid[c]] = None]
    /\ inbox' = [inbox EXCEPT ![c] = <<>>]
Exit(c) ==
    /\ phase[c] = "watching"
    /\ Gone(c)
    /\ UNCHANGED <<pid, known, view, last, running, pidfile, outgoing, incoming,
                   editVars, faultVars>>

\* A write to a pipe that nobody reads is lost, and SIGPIPE ends a process
\* that does not ignore it.
Send(c, m) ==
    \/ /\ running # {}
       /\ incoming' = Append(incoming, m)
       /\ UNCHANGED <<phase, fifo, inbox>>
    \/ /\ running = {}
       /\ UNCHANGED incoming
       /\ Gone(c) \/ UNCHANGED <<phase, fifo, inbox>>

\* mutant: a message is signed with the identifier of the daemon
Message_Mutant(c, k, n) == [edit |-> edits + 1, kind |-> k, name |-> n, from |-> known[c]]
Message(c, k, n) == [edit |-> edits + 1, kind |-> k, name |-> n, from |-> pid[c]]
Edit(c, k, n) ==
    /\ phase[c] = "watching"
    /\ edits < MaxEdits
    /\ edits' = edits + 1
    /\ author' = [author EXCEPT ![edits + 1] = c]
    /\ crossed' = crossed \cup ({n} \cap {m.name : m \in Mail(c)})
    /\ Send(c, Message(c, k, n))
    /\ UNCHANGED <<pid, known, last, running, pidfile, outgoing, faultVars>>

\* SubCreate_file() and OnCreated().
Create(c, n) ==
    /\ n \notin store
    /\ store' = store \cup {n}
    /\ view' = [view EXCEPT ![c] = @ \cup {n}]
    /\ Edit(c, "created", n)

\* priv_remove(), Remove() and OnDeleted().
Delete(c, n) ==
    /\ n \in store \cap view[c]
    /\ store' = store \ {n}
    /\ view' = [view EXCEPT ![c] = @ \ {n}]
    /\ Edit(c, "deleted", n)

\* xml_msg_arrived(): while the notification is handled m_ignoreCreatedSignals
\* or m_ignoreDeletedSignals keep OnCreated() and OnDeleted() from sending.
\* mutant: a notification that is handled is sent on like a creation of ours
Forwards_Mutant(c, m) == IF m.name \in view[c] THEN <<>> ELSE <<[m EXCEPT !.from = pid[c]]>>
Forwards(c, m) == <<>>
Receive(c) ==
    /\ phase[c] = "watching"
    /\ inbox[c] # <<>>
    /\ LET m == Head(inbox[c])
       IN /\ view' = [view EXCEPT ![c] = IF m.kind = "created" THEN @ \cup {m.name}
                                         ELSE @ \ {m.name}]
          /\ last' = [last EXCEPT ![c] = m.edit]
          /\ incoming' = incoming \o Forwards(c, m)
    /\ inbox' = [inbox EXCEPT ![c] = Tail(@)]
    /\ UNCHANGED <<phase, pid, known, daemonVars, editVars, faultVars>>

-----------------------------------------------------------------------------
\* The daemon.

\* xml_msg_arrived() of the daemon: a pipe in "outgoing" is opened and
\* unlinked unless the daemon has one of that name.
New(d) == {i \in Pids : fifo[i] # None /\ outgoing[d][i] = None}
Taken(d) == [i \in Pids |-> IF i \in New(d) THEN fifo[i] ELSE outgoing[d][i]]
\* The clients it then writes to: all but the sender.
\* mutant: new pipes are opened after the message has been written
Receivers_Mutant(d, m) == {outgoing[d][i] : i \in Pids \ {m.from}} \ {None}
\* mutant: the sender is written to as well
Receivers_Mutant2(d, m) == {Taken(d)[i] : i \in Pids} \ {None}
Receivers(d, m) == {Taken(d)[i] : i \in Pids \ {m.from}} \ {None}
Forward(d) ==
    /\ d \in running
    /\ incoming # <<>>
    /\ outgoing' = [outgoing EXCEPT ![d] = Taken(d)]
    /\ fifo' = [i \in Pids |-> IF i \in New(d) THEN None ELSE fifo[i]]
    /\ inbox' = [c \in Clients |->
         IF c \in Receivers(d, Head(incoming)) /\ Up(c)
         THEN Append(inbox[c], Head(incoming)) ELSE inbox[c]]
    /\ incoming' = Tail(incoming)
    /\ UNCHANGED <<phase, pid, known, view, last, running, pidfile, editVars, faultVars>>

\* A daemon is killed; SIGTERM lets it write 0 into "pid" first.
Kill(d) ==
    /\ d \in running
    /\ kills < MaxKills
    /\ kills' = kills + 1
    /\ running' = running \ {d}
    /\ steady' = FALSE
    /\ pidfile' \in {pidfile, None}
    /\ UNCHANGED <<clientVars, outgoing, fifo, incoming, editVars>>

Next ==
    \/ \E c \in Clients :
         \/ Start(c)
         \/ EnsureServerRunning(c)
         \/ Spawn(c)
         \/ Read(c)
         \/ Exit(c)
         \/ \E n \in Names : Create(c, n) \/ Delete(c, n)
         \/ Receive(c)
    \/ \E d \in Daemons : Forward(d) \/ Kill(d)

Spec == Init /\ [][Next]_vars

\* The main loops of the daemon and of the clients turn.
LiveSpec ==
    /\ Spec
    /\ \A d \in Daemons : WF_vars(Forward(d))
    /\ \A c \in Clients : WF_vars(Receive(c))
-----------------------------------------------------------------------------
\* "Avoid the senario: ProcA creates, ProcA notifies daemon which notifies
\* ProcB, ProcB creates, ProcB notifies daemon": no client is told of what it
\* did itself, by whatever way round.
NotMine == \A c \in Clients : \A i \in DOMAIN inbox[c] : author[inbox[c][i].edit] # c

\* Of one daemon a client is told of every edit at most once, and in the
\* order in which they were made.
InOrder == steady => \A c \in Clients : \A i \in DOMAIN inbox[c] :
    /\ inbox[c][i].edit > last[c]
    /\ \A j \in DOMAIN inbox[c] : i < j => inbox[c][i].edit < inbox[c][j].edit

\* Whoever writes, while one daemon runs from the first and no message is on
\* its way, what a watching client shows is what the store holds: a client
\* that lists the store after it has made its pipe misses nothing that is
\* written meanwhile.  Only a name that a client edited while news of it was
\* on its way to that client may be shown differently, and for good.
Converges ==
    steady /\ incoming = <<>> /\ (\A c \in Clients : inbox[c] = <<>>)
        => \A c \in Clients : phase[c] = "watching" => view[c] \ crossed = store \ crossed

\* "Using this a GUI client can just watch a path within a db4 file and see
\* the changes that a command line tool makes": in the end every client that
\* watches shows the store, unless a daemon was killed or started meanwhile
\* or edits of a name crossed.
SeesTheChanges ==
    <>[](steady => \A c \in Clients :
            phase[c] = "watching" => view[c] \ crossed = store \ crossed)
=============================================================================
