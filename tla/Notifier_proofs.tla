-------------------------- MODULE Notifier_proofs --------------------------
(***************************************************************************)
(* No client is told of what it did itself, and of one daemon every client *)
(* hears of the edits in their order: for every number of clients,         *)
(* daemons, edits and daemons killed, and also when process identifiers    *)
(* are used again.                                                         *)
(*                                                                         *)
(* A pipe is named after the process that reads it, and a message after    *)
(* the process that wrote it, so that a daemon never writes a message into *)
(* the pipe of its author.                                                 *)
(*                                                                         *)
(* Where process identifiers are not used again and the edits of a name do *)
(* not cross, the views agree with the store once everything written has   *)
(* been read: the last edit of a name that is not yet in a view is still   *)
(* on its way to it (Settled).                                             *)
(***************************************************************************)
EXTENDS Notifier, FiniteSetTheorems, TLAPS

\* Every pipe is filed under the identifier of its reader.
Pipes ==
    /\ \A i \in Pids : fifo[i] # None => pid[fifo[i]] = i
    /\ \A d \in Daemons, i \in Pids : outgoing[d][i] # None => pid[outgoing[d][i]] = i
Named == \A c \in Clients : Up(c) => pid[c] \in Pids

\* Every message on its way is of an edit that was made, by the client whose
\* identifier it bears.
Sent == \A i \in DOMAIN incoming :
    /\ incoming[i].edit <= edits
    /\ author[incoming[i].edit] \in Clients
    /\ pid[author[incoming[i].edit]] = incoming[i].from
Received == \A c \in Clients : \A i \in DOMAIN inbox[c] :
    inbox[c][i].edit <= edits /\ author[inbox[c][i].edit] # c

Increasing(s) == \A i, j \in DOMAIN s : i < j => s[i].edit < s[j].edit
Before(s, t) == \A i \in DOMAIN s, j \in DOMAIN t : s[i].edit < t[j].edit
After(e, s) == \A i \in DOMAIN s : e < s[i].edit
Ordered ==
    /\ Increasing(incoming)
    /\ \A c \in Clients : /\ Increasing(inbox[c]) /\ Before(inbox[c], incoming)
                          /\ After(last[c], inbox[c]) /\ After(last[c], incoming)
                          /\ last[c] <= edits

Inv == TypeOK /\ Pipes /\ Named /\ Sent /\ Received /\ Ordered
-----------------------------------------------------------------------------
(***************************************************************************)
(* Queues.                                                                 *)
(***************************************************************************)
LEMMA Appended ==
    ASSUME NEW s \in Seq(Messages), NEW m \in Messages
    PROVE  /\ Append(s, m) \in Seq(Messages)
           /\ \A i \in DOMAIN Append(s, m) :
                \/ i \in DOMAIN s /\ Append(s, m)[i] = s[i]
                \/ i = Len(s) + 1 /\ Append(s, m)[i] = m
OBVIOUS

LEMMA Popped ==
    ASSUME NEW s \in Seq(Messages), s # <<>>
    PROVE  /\ Head(s) \in Messages /\ 1 \in DOMAIN s /\ Head(s) = s[1]
           /\ Tail(s) \in Seq(Messages)
           /\ \A i \in DOMAIN Tail(s) :
                i \in Int /\ i + 1 \in DOMAIN s /\ 1 < i + 1 /\ Tail(s)[i] = s[i + 1]
OBVIOUS

LEMMA Queued ==
    ASSUME NEW s \in Seq(Messages), NEW i \in DOMAIN s
    PROVE  s[i] \in Messages /\ s[i].edit \in 1 .. MaxEdits /\ s[i].from \in Pids
<1>1. s[i] \in Messages OBVIOUS
<1> QED BY <1>1 DEF Messages

LEMMA NoMail == <<>> \in Seq(Messages) /\ DOMAIN <<>> = {}
OBVIOUS

LEMMA IncreasingTail ==
    ASSUME NEW s \in Seq(Messages), s # <<>>, Increasing(s)
    PROVE  Increasing(Tail(s)) /\ After(Head(s).edit, Tail(s))
<1>1. ASSUME NEW i \in DOMAIN Tail(s), NEW j \in DOMAIN Tail(s), i < j
      PROVE  Tail(s)[i].edit < Tail(s)[j].edit
  <2>1. i + 1 < j + 1 /\ i + 1 \in DOMAIN s /\ j + 1 \in DOMAIN s BY <1>1, Popped
  <2> QED BY <2>1, Popped DEF Increasing
<1>2. ASSUME NEW i \in DOMAIN Tail(s) PROVE Head(s).edit < Tail(s)[i].edit
  BY Popped DEF Increasing
<1> QED BY <1>1, <1>2 DEF Increasing, After

\* A message younger than all of a queue goes to its end.
LEMMA IncreasingAppend ==
    ASSUME NEW s \in Seq(Messages), NEW m \in Messages, Increasing(s),
           \A i \in DOMAIN s : s[i].edit < m.edit
    PROVE  Increasing(Append(s, m))
<1> SUFFICES ASSUME NEW i \in DOMAIN Append(s, m), NEW j \in DOMAIN Append(s, m), i < j
             PROVE  Append(s, m)[i].edit < Append(s, m)[j].edit
  BY DEF Increasing
<1>1. i \in DOMAIN s /\ Append(s, m)[i] = s[i]
  <2>1. DOMAIN s = 1 .. Len(s) /\ Len(s) \in Nat OBVIOUS
  <2>2. j \in Int /\ j <= Len(s) + 1 BY <2>1, Appended
  <2> QED BY <2>1, <2>2, Appended
<1> QED BY <1>1, Appended DEF Increasing
-----------------------------------------------------------------------------
(***************************************************************************)
(* The invariant.                                                          *)
(***************************************************************************)
LEMMA InvInit == ASSUME Init PROVE Inv
<1>1. TypeOK BY NotifierAssumption, NoMail DEF Init, TypeOK
<1>2. Pipes /\ Named BY DEF Init, Pipes, Named, Up
<1>3. Sent /\ Received BY NoMail DEF Init, Sent, Received
<1>4. Ordered BY NoMail DEF Init, Ordered, Increasing, Before, After
<1> QED BY <1>1, <1>2, <1>3, <1>4 DEF Inv

\* A step that sends and forwards nothing.
LEMMA MailKeeps ==
    ASSUME Inv, TypeOK', UNCHANGED <<incoming, edits, author, last>>,
           \A c \in Clients : inbox'[c] = inbox[c] \/ inbox'[c] = <<>>,
           \A c \in Clients : pid[c] # None => pid'[c] = pid[c]
    PROVE  Sent' /\ Received' /\ Ordered'
<1>1. Sent'
  <2>1. incoming \in Seq(Messages) BY DEF Inv, TypeOK
  <2>2. \A i \in DOMAIN incoming : incoming[i].from # None
    BY <2>1, Queued, NotifierAssumption
  <2> QED BY <2>2 DEF Inv, Sent
<1>2. Received' BY NoMail DEF Inv, Received
<1>3. Ordered' BY NoMail DEF Inv, Ordered, Increasing, Before, After
<1> QED BY <1>1, <1>2, <1>3

LEMMA StartKeeps == ASSUME Inv, NEW c \in Clients, Start(c) PROVE Inv'
<1>1. /\ TypeOK /\ pid[c] = None /\ phase' = [phase EXCEPT ![c] = "started"]
      /\ UNCHANGED <<known, view, inbox, last, running, pidfile, outgoing, fifo, incoming,
                     store, edits, author, crossed, kills, steady>>
  BY DEF Inv, Start, daemonVars, editVars, faultVars
<1>2. PICK i \in Pids : pid' = [pid EXCEPT ![c] = i] BY DEF Start
<1>3. /\ phase' \in [Clients -> {"off", "started", "spawning", "connected", "watching"}]
      /\ pid' \in [Clients -> Pids \cup {None}]
  BY <1>1, <1>2 DEF TypeOK
<1>4. TypeOK' BY <1>1, <1>3 DEF TypeOK
<1>5. \A o \in Clients : pid[o] # None => pid'[o] = pid[o] BY <1>1, <1>2 DEF TypeOK
<1>6. Pipes'
  <2>1. \A j \in Pids : fifo[j] \in Clients \cup {None} BY <1>1 DEF TypeOK
  <2>2. \A d \in Daemons, j \in Pids : outgoing[d][j] \in Clients \cup {None} BY <1>1 DEF TypeOK
  <2> QED BY <1>1, <1>5, <2>1, <2>2, NotifierAssumption DEF Inv, Pipes
<1>7. Named' BY <1>1, <1>2 DEF Inv, Named, Up, TypeOK
<1> QED BY <1>1, <1>4, <1>5, <1>6, <1>7, MailKeeps DEF Inv

LEMMA EnsureServerRunningKeeps ==
    ASSUME Inv, NEW c \in Clients, EnsureServerRunning(c) PROVE Inv'
<1>1. /\ TypeOK /\ phase[c] = "started" /\ fifo' = [fifo EXCEPT ![pid[c]] = c]
      /\ UNCHANGED <<pid, view, inbox, last, running, pidfile, outgoing, incoming,
                     store, edits, author, crossed, kills, steady>>
  BY DEF Inv, EnsureServerRunning, editVars, faultVars
<1>2. ServerPid(c) \in Daemons \cup {None} BY <1>1 DEF ServerPid, TypeOK
<1>3. /\ known' \in [Clients -> Daemons \cup {None}]
      /\ phase' \in [Clients -> {"off", "started", "spawning", "connected", "watching"}]
  BY <1>1, <1>2 DEF EnsureServerRunning, TypeOK
<1>4. pid[c] \in Pids BY <1>1 DEF Inv, Named, Up
<1>5. fifo' \in [Pids -> Clients \cup {None}] BY <1>1, <1>4 DEF TypeOK
<1>6. TypeOK' BY <1>1, <1>3, <1>5 DEF TypeOK
<1>7. Pipes' BY <1>1, <1>4 DEF Inv, Pipes, TypeOK
<1>8. Named'
  <2>1. \A o \in Clients : o # c => phase'[o] = phase[o]
    BY <1>1 DEF EnsureServerRunning, TypeOK
  <2> QED BY <1>1, <1>4, <2>1 DEF Inv, Named, Up
<1> QED BY <1>1, <1>6, <1>7, <1>8, MailKeeps DEF Inv

LEMMA SpawnKeeps == ASSUME Inv, NEW c \in Clients, Spawn(c) PROVE Inv'
<1>1. /\ TypeOK /\ phase[c] = "spawning" /\ phase' = [phase EXCEPT ![c] = "connected"]
      /\ steady' = FALSE
      /\ UNCHANGED <<pid, known, view, inbox, last, fifo, incoming, store, edits, author, crossed, kills>>
  BY DEF Inv, Spawn, editVars
<1>2. PICK d \in Daemons \ running :
        /\ running' = running \cup {d} /\ pidfile' = d
        /\ outgoing' = [outgoing EXCEPT ![d] = [i \in Pids |-> None]]
  BY DEF Spawn
<1>3. /\ phase' \in [Clients -> {"off", "started", "spawning", "connected", "watching"}]
      /\ running' \subseteq Daemons /\ pidfile' \in Daemons \cup {None}
      /\ outgoing' \in [Daemons -> [Pids -> Clients \cup {None}]]
  BY <1>1, <1>2 DEF TypeOK
<1>4. TypeOK' BY <1>1, <1>3 DEF TypeOK
<1>5. Pipes' BY <1>1, <1>2 DEF Inv, Pipes, TypeOK
<1>6. Named' BY <1>1 DEF Inv, Named, Up, TypeOK
<1> QED BY <1>1, <1>4, <1>5, <1>6, MailKeeps DEF Inv

LEMMA ReadKeeps == ASSUME Inv, NEW c \in Clients, Read(c) PROVE Inv'
<1>1. /\ TypeOK /\ phase[c] = "connected" /\ phase' = [phase EXCEPT ![c] = "watching"]
      /\ view' = [view EXCEPT ![c] = @ \cup store]
      /\ UNCHANGED <<pid, known, inbox, last, running, pidfile, outgoing, fifo, incoming,
                     store, edits, author, crossed, kills, steady>>
  BY DEF Inv, Read, daemonVars, editVars, faultVars
<1>2. /\ phase' \in [Clients -> {"off", "started", "spawning", "connected", "watching"}]
      /\ view' \in [Clients -> SUBSET Names]
  BY <1>1 DEF TypeOK
<1>3. TypeOK' BY <1>1, <1>2 DEF TypeOK
<1>4. Pipes' /\ Named' BY <1>1 DEF Inv, Pipes, Named, Up, TypeOK
<1> QED BY <1>1, <1>3, <1>4, MailKeeps DEF Inv

\* The end of a process, which takes its pipe and what is in it with it.
LEMMA GoneKeeps ==
    ASSUME Inv, NEW c \in Clients, Up(c), Gone(c)
    PROVE  /\ phase' \in [Clients -> {"off", "started", "spawning", "connected", "watching"}]
           /\ fifo' \in [Pids -> Clients \cup {None}]
           /\ inbox' \in [Clients -> Seq(Messages)]
           /\ \A o \in Clients : inbox'[o] = inbox[o] \/ inbox'[o] = <<>>
           /\ \A o \in Clients : phase'[o] # "off" => phase[o] # "off"
           /\ \A i \in Pids : fifo'[i] = fifo[i] \/ fifo'[i] = None
<1>1. TypeOK /\ pid[c] \in Pids BY DEF Inv, Named
<1> QED BY <1>1, NoMail DEF Gone, TypeOK

LEMMA ExitKeeps == ASSUME Inv, NEW c \in Clients, Exit(c) PROVE Inv'
<1>1. /\ TypeOK /\ Up(c) /\ Gone(c)
      /\ UNCHANGED <<pid, known, view, last, running, pidfile, outgoing, incoming,
                     store, edits, author, crossed, kills, steady>>
  BY DEF Inv, Exit, Up, editVars, faultVars
<1>2. TypeOK' BY <1>1, GoneKeeps DEF TypeOK
<1>3. Pipes' /\ Named' BY <1>1, GoneKeeps DEF Inv, Pipes, Named, Up
<1> QED BY <1>1, <1>2, <1>3, GoneKeeps, MailKeeps DEF Inv

\* A creation or a deletion, with what it makes of the store and the view.
LEMMA EditKeeps ==
    ASSUME Inv, NEW c \in Clients, NEW n \in Names, NEW k \in Kinds, Edit(c, k, n),
           store' \subseteq Names, view' \in [Clients -> SUBSET Names]
    PROVE  Inv'
<1> DEFINE m == Message(c, k, n)
<1>1. /\ TypeOK /\ phase[c] = "watching" /\ edits < MaxEdits /\ edits' = edits + 1
      /\ author' = [author EXCEPT ![edits + 1] = c] /\ Send(c, m)
      /\ crossed' \subseteq Names
      /\ UNCHANGED <<pid, known, last, running, pidfile, outgoing, kills, steady>>
  BY DEF Inv, Edit, TypeOK, faultVars
<1>2. edits \in Nat /\ edits + 1 \in 1 .. MaxEdits /\ pid[c] \in Pids
  <2>1. edits \in 0 .. MaxEdits BY <1>1 DEF TypeOK
  <2> QED BY <1>1, <2>1, NotifierAssumption DEF Inv, Named, Up
<1>3. m \in Messages /\ m.edit = edits + 1 /\ m.from = pid[c]
  BY <1>2 DEF Message, Messages
<1> HIDE DEF m
<1>4. incoming' = Append(incoming, m) \/ incoming' = incoming BY <1>1 DEF Send
<1>5. UNCHANGED <<phase, fifo, inbox>> \/ Gone(c) BY <1>1 DEF Send
<1>6. /\ phase' \in [Clients -> {"off", "started", "spawning", "connected", "watching"}]
      /\ fifo' \in [Pids -> Clients \cup {None}]
      /\ inbox' \in [Clients -> Seq(Messages)]
      /\ \A o \in Clients : inbox'[o] = inbox[o] \/ inbox'[o] = <<>>
      /\ \A o \in Clients : phase'[o] # "off" => phase[o] # "off"
      /\ \A i \in Pids : fifo'[i] = fifo[i] \/ fifo'[i] = None
  <2>1. CASE UNCHANGED <<phase, fifo, inbox>> BY <1>1, <2>1 DEF TypeOK
  <2>2. CASE Gone(c) BY <1>1, <2>2, GoneKeeps DEF Up
  <2> QED BY <1>5, <2>1, <2>2
<1>7. incoming \in Seq(Messages) /\ incoming' \in Seq(Messages)
  BY <1>1, <1>3, <1>4, Appended DEF TypeOK
<1>8. TypeOK'
  <2>1. edits' \in 0 .. MaxEdits BY <1>1, <1>2, NotifierAssumption
  <2>2. author' \in [1 .. MaxEdits -> Clients \cup {None}] BY <1>1 DEF TypeOK
  <2> QED BY <1>1, <1>6, <1>7, <2>1, <2>2 DEF TypeOK
<1>9. Pipes' /\ Named' BY <1>1, <1>6 DEF Inv, Pipes, Named, Up
\* What is older than this edit keeps its author.
<1>10. \A e \in 1 .. MaxEdits : e <= edits => author'[e] = author[e]
  BY <1>1, <1>2 DEF TypeOK
<1>11. ASSUME NEW s \in Seq(Messages), NEW i \in DOMAIN s PROVE s[i].edit \in 1 .. MaxEdits
  BY Queued
<1>12. Sent'
  <2> SUFFICES ASSUME NEW i \in DOMAIN incoming'
               PROVE  /\ incoming'[i].edit <= edits + 1
                      /\ author'[incoming'[i].edit] \in Clients
                      /\ pid[author'[incoming'[i].edit]] = incoming'[i].from
    BY <1>1 DEF Sent
  <2>1. (i \in DOMAIN incoming /\ incoming'[i] = incoming[i]) \/ incoming'[i] = m
    BY <1>3, <1>4, <1>7, Appended
  <2>2. CASE i \in DOMAIN incoming /\ incoming'[i] = incoming[i]
    <3>1. incoming[i].edit \in 1 .. MaxEdits BY <1>7, <1>11, <2>2
    <3>2. incoming[i].edit <= edits BY <2>2 DEF Inv, Sent
    <3> QED BY <1>2, <1>10, <2>2, <3>1, <3>2, NotifierAssumption DEF Inv, Sent
  <2>3. CASE incoming'[i] = m
    <3>1. author'[edits + 1] = c BY <1>1, <1>2 DEF TypeOK
    <3> QED BY <1>2, <1>3, <2>3, <3>1
  <2> QED BY <2>1, <2>2, <2>3
<1>13. Received'
  <2> SUFFICES ASSUME NEW o \in Clients, NEW i \in DOMAIN inbox'[o]
               PROVE  inbox'[o][i].edit <= edits + 1 /\ author'[inbox'[o][i].edit] # o
    BY <1>1 DEF Received
  <2>1. inbox'[o] = inbox[o] /\ i \in DOMAIN inbox[o] BY <1>6, NoMail
  <2>2. inbox[o] \in Seq(Messages) BY <1>1 DEF TypeOK
  <2>3. inbox[o][i].edit \in 1 .. MaxEdits BY <1>11, <2>1, <2>2
  <2>4. inbox[o][i].edit <= edits /\ author[inbox[o][i].edit] # o BY <2>1 DEF Inv, Received
  <2> QED BY <1>2, <1>10, <2>1, <2>3, <2>4, NotifierAssumption
<1>14. Ordered'
  <2>1. ASSUME NEW i \in DOMAIN incoming' PROVE (i \in DOMAIN incoming /\ incoming'[i] = incoming[i]) \/ incoming'[i].edit = edits + 1
    BY <1>3, <1>4, <1>7, Appended
  <2>2. Increasing(incoming)'
    <3>1. \A i \in DOMAIN incoming : incoming[i].edit < m.edit
      <4> SUFFICES ASSUME NEW i \in DOMAIN incoming PROVE incoming[i].edit < m.edit OBVIOUS
      <4>1. incoming[i].edit \in 1 .. MaxEdits BY <1>7, <1>11
      <4>2. incoming[i].edit <= edits BY DEF Inv, Sent
      <4> QED BY <1>2, <1>3, <4>1, <4>2, NotifierAssumption
    <3>2. Increasing(incoming) BY DEF Inv, Ordered
    <3>3. CASE incoming' = incoming BY <3>2, <3>3 DEF Increasing
    <3>4. CASE incoming' = Append(incoming, m)
      <4>1. Increasing(Append(incoming, m)) BY <1>3, <1>7, <3>1, <3>2, IncreasingAppend
      <4> QED BY <3>4, <4>1 DEF Increasing
    <3> QED BY <1>4, <3>3, <3>4
  <2>3. ASSUME NEW o \in Clients
        PROVE  /\ Increasing(inbox'[o]) /\ Before(inbox'[o], incoming')
               /\ After(last'[o], inbox'[o]) /\ After(last'[o], incoming')
               /\ last'[o] <= edits'
    <3>1. /\ Increasing(inbox[o]) /\ Before(inbox[o], incoming)
          /\ After(last[o], inbox[o]) /\ After(last[o], incoming)
          /\ last[o] <= edits /\ last[o] \in Nat
      BY <1>1, NotifierAssumption DEF Inv, Ordered, TypeOK
    <3>2. last'[o] = last[o] BY <1>1
    <3>3. inbox'[o] = inbox[o] \/ inbox'[o] = <<>> BY <1>6
    <3>4. Increasing(inbox'[o]) /\ After(last'[o], inbox'[o])
      BY <3>1, <3>2, <3>3, NoMail DEF Increasing, After
    <3>5. After(last'[o], incoming')
      <4> SUFFICES ASSUME NEW i \in DOMAIN incoming' PROVE last[o] < incoming'[i].edit
        BY <3>2 DEF After
      <4> QED BY <1>2, <2>1, <3>1 DEF After
    <3>6. Before(inbox'[o], incoming')
      <4> SUFFICES ASSUME NEW i \in DOMAIN inbox'[o], NEW j \in DOMAIN incoming'
                   PROVE  inbox'[o][i].edit < incoming'[j].edit
        BY DEF Before
      <4>1. inbox'[o] = inbox[o] /\ i \in DOMAIN inbox[o] BY <3>3, NoMail
      <4>2. inbox[o] \in Seq(Messages) BY <1>1 DEF TypeOK
      <4>3. inbox[o][i].edit \in 1 .. MaxEdits /\ inbox[o][i].edit <= edits
        BY <1>11, <4>1, <4>2 DEF Inv, Received
      <4>4. CASE incoming'[j].edit = edits + 1 BY <1>2, <4>1, <4>3, <4>4, NotifierAssumption
      <4>5. CASE j \in DOMAIN incoming /\ incoming'[j] = incoming[j]
        BY <3>1, <4>1, <4>5 DEF Before
      <4> QED BY <2>1, <4>4, <4>5
    <3>7. last'[o] <= edits' BY <1>1, <1>2, <3>1, <3>2
    <3> QED BY <3>4, <3>5, <3>6, <3>7
  <2> QED BY <2>2, <2>3 DEF Ordered, Increasing
<1> QED BY <1>8, <1>9, <1>12, <1>13, <1>14 DEF Inv

LEMMA CreateKeeps == ASSUME Inv, NEW c \in Clients, NEW n \in Names, Create(c, n) PROVE Inv'
<1>1. TypeOK BY DEF Inv
<1>2. store' \subseteq Names /\ view' \in [Clients -> SUBSET Names]
  BY <1>1 DEF Create, TypeOK
<1>3. "created" \in Kinds /\ Edit(c, "created", n) BY DEF Kinds, Create
<1> QED BY <1>2, <1>3, EditKeeps

LEMMA DeleteKeeps == ASSUME Inv, NEW c \in Clients, NEW n \in Names, Delete(c, n) PROVE Inv'
<1>1. TypeOK BY DEF Inv
<1>2. store' \subseteq Names /\ view' \in [Clients -> SUBSET Names]
  BY <1>1 DEF Delete, TypeOK
<1>3. "deleted" \in Kinds /\ Edit(c, "deleted", n) BY DEF Kinds, Delete
<1> QED BY <1>2, <1>3, EditKeeps

LEMMA ReceiveKeeps == ASSUME Inv, NEW c \in Clients, Receive(c) PROVE Inv'
<1> DEFINE m == Head(inbox[c])
<1>1. /\ TypeOK /\ inbox[c] # <<>> /\ last' = [last EXCEPT ![c] = m.edit]
      /\ view' = [view EXCEPT ![c] = IF m.kind = "created" THEN @ \cup {m.name} ELSE @ \ {m.name}]
      /\ incoming' = incoming \o <<>> /\ inbox' = [inbox EXCEPT ![c] = Tail(@)]
      /\ UNCHANGED <<phase, pid, known, running, pidfile, outgoing, fifo,
                     store, edits, author, crossed, kills, steady>>
  BY DEF Inv, Receive, Forwards, daemonVars, editVars, faultVars
<1>2. incoming' = incoming
  <2>1. incoming \in Seq(Messages) BY <1>1 DEF TypeOK
  <2> QED BY <1>1, <2>1
<1>3. inbox[c] \in Seq(Messages) BY <1>1 DEF TypeOK
<1>4. /\ m \in Messages /\ 1 \in DOMAIN inbox[c] /\ m = inbox[c][1]
      /\ Tail(inbox[c]) \in Seq(Messages)
      /\ \A i \in DOMAIN Tail(inbox[c]) :
           i \in Int /\ i + 1 \in DOMAIN inbox[c] /\ 1 < i + 1 /\ Tail(inbox[c])[i] = inbox[c][i + 1]
  BY <1>1, <1>3, Popped
<1>5. Increasing(inbox[c]) BY DEF Inv, Ordered
<1>6. Increasing(Tail(inbox[c])) /\ After(m.edit, Tail(inbox[c]))
  BY <1>1, <1>3, <1>5, IncreasingTail
<1> HIDE DEF m
<1>7. m.edit \in 1 .. MaxEdits /\ m.name \in Names /\ m.edit <= edits
  BY <1>4 DEF Messages, Inv, Received
<1>8. TypeOK'
  <2>1. m.edit \in 0 .. MaxEdits BY <1>7, NotifierAssumption
  <2>2. last' \in [Clients -> 0 .. MaxEdits] BY <1>1, <2>1 DEF TypeOK
  <2>3. view' \in [Clients -> SUBSET Names] BY <1>1, <1>7 DEF TypeOK
  <2>4. inbox' \in [Clients -> Seq(Messages)] BY <1>1, <1>4 DEF TypeOK
  <2> QED BY <1>1, <1>2, <2>2, <2>3, <2>4 DEF TypeOK
<1>9. Pipes' /\ Named' /\ Sent' BY <1>1, <1>2 DEF Inv, Pipes, Named, Up, Sent
<1>10. \A o \in Clients : o # c => inbox'[o] = inbox[o] /\ last'[o] = last[o]
  BY <1>1 DEF TypeOK
<1>11. inbox'[c] = Tail(inbox[c]) /\ last'[c] = m.edit BY <1>1 DEF TypeOK
<1>12. Received'
  <2> SUFFICES ASSUME NEW o \in Clients, NEW i \in DOMAIN inbox'[o]
               PROVE  inbox'[o][i].edit <= edits /\ author[inbox'[o][i].edit] # o
    BY <1>1 DEF Received
  <2>1. CASE o = c
    <3>1. i + 1 \in DOMAIN inbox[c] /\ inbox'[c][i] = inbox[c][i + 1] BY <1>4, <1>11, <2>1
    <3> QED BY <2>1, <3>1 DEF Inv, Received
  <2>2. CASE o # c BY <1>10, <2>2 DEF Inv, Received
  <2> QED BY <2>1, <2>2
<1>13. Ordered'
  <2>1. Increasing(incoming)' BY <1>2 DEF Inv, Ordered, Increasing
  <2>2. ASSUME NEW o \in Clients
        PROVE  /\ Increasing(inbox'[o]) /\ Before(inbox'[o], incoming')
               /\ After(last'[o], inbox'[o]) /\ After(last'[o], incoming')
               /\ last'[o] <= edits'
    <3>1. CASE o # c BY <1>1, <1>2, <1>10, <3>1 DEF Inv, Ordered
    <3>2. CASE o = c
      <4>1. Before(inbox[c], incoming) BY DEF Inv, Ordered
      <4>2. Before(Tail(inbox[c]), incoming) BY <1>4, <4>1 DEF Before
      <4>3. After(m.edit, incoming) BY <1>4, <4>1 DEF Before, After
      <4> QED BY <1>1, <1>2, <1>6, <1>7, <1>11, <3>2, <4>2, <4>3
    <3> QED BY <3>1, <3>2
  <2> QED BY <2>1, <2>2 DEF Ordered
<1> QED BY <1>8, <1>9, <1>12, <1>13 DEF Inv

LEMMA ForwardKeeps == ASSUME Inv, NEW d \in Daemons, Forward(d) PROVE Inv'
<1> DEFINE m == Head(incoming)
<1>1. /\ TypeOK /\ incoming # <<>> /\ incoming' = Tail(incoming)
      /\ outgoing' = [outgoing EXCEPT ![d] = Taken(d)]
      /\ fifo' = [i \in Pids |-> IF i \in New(d) THEN None ELSE fifo[i]]
      /\ inbox' = [c \in Clients |-> IF c \in Receivers(d, m) /\ Up(c)
                                     THEN Append(inbox[c], m) ELSE inbox[c]]
      /\ UNCHANGED <<phase, pid, known, view, last, running, pidfile,
                     store, edits, author, crossed, kills, steady>>
  BY DEF Inv, Forward, editVars, faultVars
<1>2. incoming \in Seq(Messages) BY <1>1 DEF TypeOK
<1>3. /\ m \in Messages /\ 1 \in DOMAIN incoming /\ m = incoming[1]
      /\ Tail(incoming) \in Seq(Messages)
      /\ \A i \in DOMAIN Tail(incoming) :
           i \in Int /\ i + 1 \in DOMAIN incoming /\ 1 < i + 1 /\ Tail(incoming)[i] = incoming[i + 1]
  BY <1>1, <1>2, Popped
<1>4. Increasing(Tail(incoming)) /\ After(m.edit, Tail(incoming))
  <2>1. Increasing(incoming) BY DEF Inv, Ordered
  <2> QED BY <1>1, <1>2, <2>1, IncreasingTail
<1> HIDE DEF m
<1>5. \A i \in Pids : /\ Taken(d)[i] \in Clients \cup {None}
                      /\ Taken(d)[i] # None => pid[Taken(d)[i]] = i
  BY <1>1 DEF Taken, New, TypeOK, Inv, Pipes
<1>6. Taken(d) \in [Pids -> Clients \cup {None}] BY <1>5 DEF Taken
<1>7. m.edit \in 1 .. MaxEdits /\ m.edit <= edits /\ pid[author[m.edit]] = m.from
  BY <1>3 DEF Messages, Inv, Sent
\* The one thing that needs a reason: a receiver is not the author.
<1>8. \A c \in Receivers(d, m) : author[m.edit] # c
  <2> SUFFICES ASSUME NEW c \in Receivers(d, m) PROVE author[m.edit] # c OBVIOUS
  <2>1. PICK i \in Pids \ {m.from} : c = Taken(d)[i] BY DEF Receivers
  <2>2. c # None BY DEF Receivers
  <2> QED BY <1>5, <1>7, <2>1, <2>2
<1>9. \A c \in Clients : \/ inbox'[c] = inbox[c]
                         \/ c \in Receivers(d, m) /\ inbox'[c] = Append(inbox[c], m)
  BY <1>1
<1>10. \A c \in Clients : inbox[c] \in Seq(Messages) BY <1>1 DEF TypeOK
<1>11. \A c \in Clients : \A i \in DOMAIN inbox'[c] :
         \/ i \in DOMAIN inbox[c] /\ inbox'[c][i] = inbox[c][i]
         \/ c \in Receivers(d, m) /\ inbox'[c][i] = m
  <2> SUFFICES ASSUME NEW c \in Clients, NEW i \in DOMAIN inbox'[c]
               PROVE  \/ i \in DOMAIN inbox[c] /\ inbox'[c][i] = inbox[c][i]
                      \/ c \in Receivers(d, m) /\ inbox'[c][i] = m
    OBVIOUS
  <2>1. CASE inbox'[c] = inbox[c] BY <2>1
  <2>2. CASE c \in Receivers(d, m) /\ inbox'[c] = Append(inbox[c], m)
    <3>1. i \in DOMAIN Append(inbox[c], m) BY <2>2
    <3> QED BY <1>3, <1>10, <2>2, <3>1, Appended
  <2> QED BY <1>9, <2>1, <2>2
<1>12. TypeOK'
  <2>1. outgoing' \in [Daemons -> [Pids -> Clients \cup {None}]] BY <1>1, <1>6 DEF TypeOK
  <2>2. fifo' \in [Pids -> Clients \cup {None}]
    <3>1. \A i \in Pids : fifo[i] \in Clients \cup {None} BY <1>1 DEF TypeOK
    <3> QED BY <1>1, <3>1
  <2>3. ASSUME NEW c \in Clients PROVE inbox'[c] \in Seq(Messages)
    <3>1. Append(inbox[c], m) \in Seq(Messages) BY <1>3, <1>10, Appended
    <3> QED BY <1>9, <1>10, <3>1
  <2>4. inbox' \in [Clients -> Seq(Messages)]
    <3>1. inbox' = [c \in Clients |-> inbox'[c]] BY <1>1
    <3> QED BY <2>3, <3>1
  <2> QED BY <1>1, <1>3, <2>1, <2>2, <2>4 DEF TypeOK
<1>13. Pipes'
  <2>1. \A i \in Pids : fifo'[i] # None => pid[fifo'[i]] = i BY <1>1 DEF Inv, Pipes
  <2>2. \A e \in Daemons, i \in Pids : outgoing'[e][i] # None => pid[outgoing'[e][i]] = i
    <3> SUFFICES ASSUME NEW e \in Daemons, NEW i \in Pids, outgoing'[e][i] # None
                 PROVE  pid[outgoing'[e][i]] = i OBVIOUS
    <3>1. CASE e = d
      <4>1. outgoing'[e] = Taken(d) BY <1>1, <3>1 DEF TypeOK
      <4> QED BY <1>5, <4>1
    <3>2. CASE e # d
      <4>1. outgoing'[e] = outgoing[e] BY <1>1, <3>2 DEF TypeOK
      <4> QED BY <4>1 DEF Inv, Pipes
    <3> QED BY <3>1, <3>2
  <2> QED BY <1>1, <2>1, <2>2 DEF Pipes
<1>14. Named' BY <1>1 DEF Inv, Named, Up
<1>15. Sent' BY <1>1, <1>3 DEF Inv, Sent
<1>16. Received'
  <2> SUFFICES ASSUME NEW c \in Clients, NEW i \in DOMAIN inbox'[c]
               PROVE  inbox'[c][i].edit <= edits /\ author[inbox'[c][i].edit] # c
    BY <1>1 DEF Received
  <2>1. CASE i \in DOMAIN inbox[c] /\ inbox'[c][i] = inbox[c][i] BY <2>1 DEF Inv, Received
  <2>2. CASE c \in Receivers(d, m) /\ inbox'[c][i] = m BY <1>7, <1>8, <2>2
  <2> QED BY <1>11, <2>1, <2>2
<1>17. Ordered'
  <2>1. ASSUME NEW c \in Clients
        PROVE  /\ Increasing(inbox'[c]) /\ Before(inbox'[c], incoming')
               /\ After(last[c], inbox'[c]) /\ After(last[c], incoming')
    <3>1. /\ Increasing(inbox[c]) /\ Before(inbox[c], incoming)
          /\ After(last[c], inbox[c]) /\ After(last[c], incoming)
      BY DEF Inv, Ordered
    <3>2. \A i \in DOMAIN inbox[c] : inbox[c][i].edit < m.edit BY <1>3, <3>1 DEF Before
    <3>3. After(last[c], incoming') /\ last[c] < m.edit BY <1>1, <1>3, <3>1 DEF After
    <3>4. \A i \in DOMAIN inbox'[c] :
            (i \in DOMAIN inbox[c] /\ inbox'[c][i] = inbox[c][i]) \/ inbox'[c][i] = m
      BY <1>11
    <3>5. Increasing(inbox'[c])
      <4>1. CASE inbox'[c] = inbox[c] BY <3>1, <4>1
      <4>2. CASE inbox'[c] = Append(inbox[c], m)
        BY <1>3, <1>10, <3>1, <3>2, <4>2, IncreasingAppend
      <4> QED BY <1>9, <4>1, <4>2
    <3>6. After(last[c], inbox'[c]) BY <3>1, <3>3, <3>4 DEF After
    <3>7. Before(inbox'[c], incoming')
      <4> SUFFICES ASSUME NEW i \in DOMAIN inbox'[c], NEW j \in DOMAIN incoming'
                   PROVE  inbox'[c][i].edit < incoming'[j].edit
        BY DEF Before
      <4>1. m.edit < incoming'[j].edit BY <1>1, <1>4 DEF After
      <4>2. CASE i \in DOMAIN inbox[c] /\ inbox'[c][i] = inbox[c][i]
        <5>1. j + 1 \in DOMAIN incoming /\ incoming'[j] = incoming[j + 1] BY <1>1, <1>3
        <5> QED BY <3>1, <4>2, <5>1 DEF Before
      <4>3. CASE inbox'[c][i] = m BY <4>1, <4>3
      <4> QED BY <3>4, <4>2, <4>3
    <3> QED BY <3>3, <3>5, <3>6, <3>7
  <2>2. Increasing(incoming') BY <1>1, <1>4
  <2>3. \A c \in Clients : last[c] <= edits BY DEF Inv, Ordered
  <2> QED BY <1>1, <2>1, <2>2, <2>3 DEF Ordered
<1> QED BY <1>12, <1>13, <1>14, <1>15, <1>16, <1>17 DEF Inv

LEMMA KillKeeps == ASSUME Inv, NEW d \in Daemons, Kill(d) PROVE Inv'
<1>1. /\ TypeOK /\ kills < MaxKills /\ kills' = kills + 1 /\ running' = running \ {d}
      /\ steady' = FALSE /\ pidfile' \in {pidfile, None}
      /\ UNCHANGED <<phase, pid, known, view, inbox, last, outgoing, fifo, incoming,
                     store, edits, author, crossed>>
  BY DEF Inv, Kill, clientVars, editVars
<1>2. TypeOK'
  <2>1. kills' \in 0 .. MaxKills BY <1>1, NotifierAssumption DEF TypeOK
  <2> QED BY <1>1, <2>1 DEF TypeOK
<1>3. Pipes' /\ Named' BY <1>1 DEF Inv, Pipes, Named, Up
<1> QED BY <1>1, <1>2, <1>3, MailKeeps DEF Inv

LEMMA InvStep == ASSUME Inv, [Next]_vars PROVE Inv'
<1>1. CASE Next
  BY <1>1, StartKeeps, EnsureServerRunningKeeps, SpawnKeeps, ReadKeeps, ExitKeeps, CreateKeeps,
     DeleteKeeps, ReceiveKeeps, ForwardKeeps, KillKeeps DEF Next
<1>2. CASE UNCHANGED vars
  <2>1. UNCHANGED <<phase, pid, known, view, inbox, last, running, pidfile, outgoing, fifo,
                    incoming, store, edits, author, crossed, kills, steady>>
    BY <1>2 DEF vars, clientVars, daemonVars, editVars, faultVars
  <2>2. TypeOK' BY <2>1 DEF Inv, TypeOK
  <2>3. Pipes' /\ Named' BY <2>1 DEF Inv, Pipes, Named, Up
  <2> QED BY <2>1, <2>2, <2>3, MailKeeps DEF Inv
<1> QED BY <1>1, <1>2
-----------------------------------------------------------------------------
\* Pipes and messages bear the identifiers of those who read and wrote them,
\* and the messages on their way are younger than those that have arrived.
THEOREM Invariance == Spec => []Inv
<1>1. Init => Inv BY InvInit
<1>2. Inv /\ [Next]_vars => Inv' BY InvStep
<1> QED BY <1>1, <1>2, PTL DEF Spec

\* The maps of the daemons, the pipes and the messages are of processes,
\* edits and names that exist.
THEOREM TypeCorrect == Spec => []TypeOK
<1>1. Inv => TypeOK BY DEF Inv
<1> QED BY <1>1, Invariance, PTL

\* The daemon writes no message to the client that it came from.
THEOREM NobodyHearsHimself == Spec => []NotMine
<1>1. Inv => NotMine BY DEF Inv, Received, NotMine
<1> QED BY <1>1, Invariance, PTL

\* No client is told of an edit twice, nor of a later one before an earlier.
THEOREM EditsComeInOrder == Spec => []InOrder
<1>1. Inv => InOrder BY DEF Inv, Ordered, Increasing, After, InOrder
<1> QED BY <1>1, Invariance, PTL
-----------------------------------------------------------------------------
(***************************************************************************)
(* The views converge.  With no identifier used again, the newest of the   *)
(* messages on their way to a client about a name says what the store      *)
(* holds, and a name that none is about is shown as it is there: of the    *)
(* names whose edits never crossed.                                        *)
(***************************************************************************)

\* Identifiers are of one client.
Distinct == \A c, o \in Clients : c # o /\ pid[c] # None => pid[c] # pid[o]

\* A client without a pipe is sent nothing; one that has not listed the store
\* shows nothing.
Unheard == \A c \in Clients : phase[c] = "started" \/ pid[c] = None =>
    /\ inbox[c] = <<>>
    /\ \A i \in Pids : fifo[i] # c
    /\ \A d \in Daemons, i \in Pids : outgoing[d][i] # c
Unread == \A c \in Clients :
    pid[c] = None \/ phase[c] \in {"started", "spawning", "connected"} => view[c] = {}

\* One daemon runs, which everybody who has made a pipe has reached.
Reached(d) ==
    /\ running = {d} /\ pidfile = d
    /\ \A c \in Clients :
         /\ known[c] \in {None, d}
         /\ phase[c] # "spawning"
         /\ phase[c] \in {"connected", "watching"} =>
              fifo[pid[c]] = c \/ outgoing[d][pid[c]] = c

\* The newest message about a name says whether the store holds it.
Tells(S, st, X) == \A m \in S :
    m.name \notin X /\ (\A o \in S : o.name = m.name => o.edit <= m.edit)
        => (m.kind = "created" <=> m.name \in st)
Shows(c) == \A n \in Names \ crossed :
    (\A m \in Mail(c) : m.name # n) => (n \in view[c] <=> n \in store)
Ended(c) == pid[c] # None /\ ~ Up(c)
Agrees == \A c \in Clients : ~ Ended(c) =>
    Tells(Mail(c), store, crossed) /\ (phase[c] = "watching" => Shows(c))

Settled == /\ Distinct /\ Unheard /\ Unread
           /\ steady => Agrees /\ \E d \in Daemons : Reached(d)

Conv == Inv /\ Settled

LEMMA ContentsAppend ==
    ASSUME NEW s \in Seq(Messages), NEW m \in Messages
    PROVE  Contents(Append(s, m)) = Contents(s) \cup {m}
<1> DEFINE u == Append(s, m)
<1>1. /\ Len(s) \in Nat /\ DOMAIN s = 1 .. Len(s) /\ DOMAIN u = 1 .. Len(s) + 1
      /\ u[Len(s) + 1] = m /\ \A i \in 1 .. Len(s) : u[i] = s[i]
  OBVIOUS
<1> HIDE DEF u
<1>2. Len(s) + 1 \in DOMAIN u /\ \A i \in DOMAIN s : i \in DOMAIN u /\ u[i] = s[i] BY <1>1
<1>3. \A i \in DOMAIN u : i = Len(s) + 1 \/ i \in DOMAIN s BY <1>1
<1>4. Contents(u) = Contents(s) \cup {m} BY <1>1, <1>2, <1>3 DEF Contents
<1> QED BY <1>4 DEF u

LEMMA ContentsTail ==
    ASSUME NEW s \in Seq(Messages), s # <<>>, Increasing(s)
    PROVE  /\ Contents(s) = {Head(s)} \cup Contents(Tail(s))
           /\ Head(s) \in Messages
           /\ \A m \in Contents(Tail(s)) : m \in Messages /\ Head(s).edit < m.edit
<1> DEFINE t == Tail(s)
<1>1. /\ Len(s) \in Nat /\ Len(s) >= 1 /\ DOMAIN s = 1 .. Len(s) /\ DOMAIN t = 1 .. Len(s) - 1
      /\ Head(s) = s[1] /\ \A i \in 1 .. Len(s) - 1 : t[i] = s[i + 1]
  OBVIOUS
<1>2. t \in Seq(Messages) /\ After(Head(s).edit, t) /\ Head(s) \in Messages
  BY Popped, IncreasingTail
<1> HIDE DEF t
<1>3. \A i \in DOMAIN t : i + 1 \in DOMAIN s /\ t[i] = s[i + 1] BY <1>1
<1>4. \A i \in DOMAIN s : i = 1 \/ (i - 1 \in DOMAIN t /\ t[i - 1] = s[i]) BY <1>1
<1>5. 1 \in DOMAIN s BY <1>1
<1>6. Contents(s) = {Head(s)} \cup Contents(t)
  <2>1. \A i \in DOMAIN s : s[i] \in {Head(s)} \cup Contents(t)
    BY <1>1, <1>4 DEF Contents
  <2>2. Head(s) \in Contents(s) BY <1>1, <1>5 DEF Contents
  <2>3. \A i \in DOMAIN t : t[i] \in Contents(s) BY <1>3 DEF Contents
  <2> QED BY <2>1, <2>2, <2>3 DEF Contents
<1>7. \A m \in Contents(t) : m \in Messages /\ Head(s).edit < m.edit
  BY <1>2 DEF Contents, After
<1> QED BY <1>2, <1>6, <1>7 DEF t

LEMMA ContentsNone == Contents(<<>>) = {}
BY NoMail DEF Contents

\* The oldest message can be left out, as it is the newest only if alone.
LEMMA TellsPop ==
    ASSUME NEW S, NEW st, NEW X, NEW m, Tells({m} \cup S, st, X),
           m.edit \in Int, \A o \in S : o.edit \in Int /\ m.edit < o.edit
    PROVE  Tells(S, st, X)
<1> SUFFICES ASSUME NEW p \in S, p.name \notin X, \A o \in S : o.name = p.name => o.edit <= p.edit
             PROVE  p.kind = "created" <=> p.name \in st
  BY DEF Tells
<1>1. m.edit <= p.edit OBVIOUS
<1> QED BY <1>1 DEF Tells

\* An edit, whose message becomes the newest.
LEMMA TellsPush ==
    ASSUME NEW S, NEW st, NEW new, NEW X, NEW Y, NEW m, Tells(S, st, X), X \subseteq Y,
           m.edit \in Int, \A o \in S : o.edit \in Int /\ o.edit < m.edit,
           m.kind = "created" <=> m.name \in new,
           \A n : n # m.name => (n \in new <=> n \in st)
    PROVE  Tells(S \cup {m}, new, Y)
<1> SUFFICES ASSUME NEW p \in S \cup {m}, p.name \notin Y,
                    \A o \in S \cup {m} : o.name = p.name => o.edit <= p.edit
             PROVE  p.kind = "created" <=> p.name \in new
  BY DEF Tells
<1>1. CASE p = m BY <1>1
<1>2. CASE p # m
  <2>1. p \in S /\ p.name # m.name BY <1>2
  <2>2. p.name \notin X /\ \A o \in S : o.name = p.name => o.edit <= p.edit OBVIOUS
  <2>3. p.kind = "created" <=> p.name \in st BY <2>1, <2>2 DEF Tells
  <2> QED BY <2>1, <2>3
<1> QED BY <1>1, <1>2

\* What a step that no message and no view takes part in leaves as it is.
LEMMA AgreesSame ==
    ASSUME Agrees, UNCHANGED <<store, crossed>>,
           \A c \in Clients : ~ Ended(c)' =>
             /\ ~ Ended(c) /\ Mail(c)' = Mail(c)
             /\ phase'[c] = "watching" => phase[c] = "watching" /\ view'[c] = view[c]
    PROVE  Agrees'
<1>1. ASSUME NEW c \in Clients, ~ Ended(c)', phase'[c] = "watching" PROVE Shows(c)'
  <2>1. Shows(c) BY <1>1 DEF Agrees
  <2> QED BY <1>1, <2>1 DEF Shows
<1> QED BY <1>1 DEF Agrees

\* Messages on their way are not younger than the last edit, and bear the
\* identifier of a client.
LEMMA OnTheWay ==
    ASSUME Inv
    PROVE  /\ edits \in Int
           /\ \A m \in Contents(incoming) : /\ m \in Messages /\ m.edit \in Int /\ m.edit <= edits
                                            /\ m.from \in Pids /\ \E o \in Clients : pid[o] = m.from
           /\ \A c \in Clients : \A m \in Mail(c) :
                m \in Messages /\ m.edit \in Int /\ m.edit <= edits
<1>1. edits \in Int BY NotifierAssumption DEF Inv, TypeOK
<1>2. \A m \in Contents(incoming) : /\ m \in Messages /\ m.edit \in Int /\ m.edit <= edits
                                    /\ m.from \in Pids /\ \E o \in Clients : pid[o] = m.from
  <2> SUFFICES ASSUME NEW i \in DOMAIN incoming
               PROVE  /\ incoming[i] \in Messages /\ incoming[i].edit \in Int
                      /\ incoming[i].edit <= edits /\ incoming[i].from \in Pids
                      /\ \E o \in Clients : pid[o] = incoming[i].from
    BY DEF Contents
  <2>1. incoming \in Seq(Messages) BY DEF Inv, TypeOK
  <2>2. /\ incoming[i] \in Messages /\ incoming[i].edit \in 1 .. MaxEdits
        /\ incoming[i].from \in Pids
    BY <2>1, Queued
  <2>3. incoming[i].edit <= edits /\ \E o \in Clients : pid[o] = incoming[i].from
    BY DEF Inv, Sent
  <2> QED BY <2>2, <2>3, NotifierAssumption
<1>3. ASSUME NEW c \in Clients, NEW m \in Contents(inbox[c])
      PROVE  m \in Messages /\ m.edit \in Int /\ m.edit <= edits
  <2>1. PICK i \in DOMAIN inbox[c] : m = inbox[c][i] BY DEF Contents
  <2>2. inbox[c] \in Seq(Messages) BY DEF Inv, TypeOK
  <2>3. m \in Messages /\ m.edit \in 1 .. MaxEdits BY <2>1, <2>2, Queued
  <2> QED BY <2>1, <2>3, NotifierAssumption DEF Inv, Received
<1> QED BY <1>1, <1>2, <1>3 DEF Mail

LEMMA StartSettles ==
    ASSUME ~ PidsReused, Conv, NEW c \in Clients, Start(c) PROVE Settled'
<1>1. /\ TypeOK /\ pid[c] = None /\ phase' = [phase EXCEPT ![c] = "started"]
      /\ UNCHANGED <<known, view, inbox, last, running, pidfile, outgoing, fifo, incoming,
                     store, edits, author, crossed, kills, steady>>
  BY DEF Conv, Inv, Start, daemonVars, editVars, faultVars
<1>2. PICK i \in Pids : pid' = [pid EXCEPT ![c] = i] /\ \A o \in Clients : pid[o] # i
  BY DEF Start
<1>3. /\ pid'[c] = i /\ phase'[c] = "started" /\ i # None
      /\ \A o \in Clients : o # c => pid'[o] = pid[o] /\ phase'[o] = phase[o]
  BY <1>1, <1>2, NotifierAssumption DEF TypeOK
<1>4. Distinct' BY <1>1, <1>2, <1>3 DEF Conv, Settled, Distinct
<1>5. Unheard' BY <1>1, <1>3 DEF Conv, Settled, Unheard
<1>6. Unread' BY <1>1, <1>3 DEF Conv, Settled, Unread
<1>7. \A o \in Clients : Mail(o)' = Mail(o)
  <2>1. \A m \in Contents(incoming) : m.from # i /\ m.from # None
    BY <1>2, OnTheWay, NotifierAssumption DEF Conv
  <2>2. Mail(c)' = Mail(c) BY <1>1, <1>3, <2>1 DEF Mail
  <2>3. \A o \in Clients : o # c => Mail(o)' = Mail(o) BY <1>1, <1>3 DEF Mail
  <2> QED BY <2>2, <2>3
<1>8. steady => Agrees'
  <2>1. \A o \in Clients : ~ Ended(o)' => ~ Ended(o) BY <1>1, <1>3 DEF Ended, Up
  <2> QED BY <1>1, <1>3, <1>7, <2>1, AgreesSame DEF Conv, Settled
<1>9. ASSUME NEW d \in Daemons, Reached(d) PROVE Reached(d)' BY <1>1, <1>3, <1>9 DEF Reached
<1> QED BY <1>1, <1>4, <1>5, <1>6, <1>8, <1>9 DEF Conv, Settled

LEMMA EnsureServerRunningSettles ==
    ASSUME Conv, NEW c \in Clients, EnsureServerRunning(c) PROVE Settled'
<1>1. /\ TypeOK /\ phase[c] = "started" /\ fifo' = [fifo EXCEPT ![pid[c]] = c]
      /\ known' = [known EXCEPT ![c] = IF ServerPid(c) \in running THEN ServerPid(c) ELSE None]
      /\ phase' = [phase EXCEPT ![c] = IF ServerPid(c) \in running THEN "connected" ELSE "spawning"]
      /\ UNCHANGED <<pid, view, inbox, last, running, pidfile, outgoing, incoming,
                     store, edits, author, crossed, kills, steady>>
  BY DEF Conv, Inv, EnsureServerRunning, editVars, faultVars
<1>2. pid[c] \in Pids /\ pid[c] # None
  BY <1>1, NotifierAssumption DEF Conv, Inv, Named, Up
<1>3. /\ phase'[c] \in {"connected", "spawning"}
      /\ \A o \in Clients : o # c => phase'[o] = phase[o] /\ known'[o] = known[o]
      /\ fifo'[pid[c]] = c /\ \A i \in Pids : i # pid[c] => fifo'[i] = fifo[i]
  BY <1>1, <1>2 DEF TypeOK
<1>4. Distinct' BY <1>1 DEF Conv, Settled, Distinct
<1>5. Unheard' BY <1>1, <1>2, <1>3 DEF Conv, Settled, Unheard
<1>6. Unread' BY <1>1, <1>2, <1>3 DEF Conv, Settled, Unread
<1>7. steady => Agrees'
  <2>1. \A o \in Clients : Mail(o)' = Mail(o) BY <1>1 DEF Mail
  <2>2. \A o \in Clients : ~ Ended(o)' => ~ Ended(o) BY <1>1, <1>3 DEF Ended, Up
  <2> QED BY <1>1, <1>3, <2>1, <2>2, AgreesSame DEF Conv, Settled
<1>8. ASSUME NEW d \in Daemons, Reached(d) PROVE Reached(d)'
  <2>1. ServerPid(c) = d /\ d \in running BY <1>8 DEF Reached, ServerPid
  <2>2. phase'[c] = "connected" /\ known'[c] = d BY <1>1, <2>1 DEF TypeOK
  <2>3. ASSUME NEW o \in Clients, phase'[o] \in {"connected", "watching"}, o # c
        PROVE  fifo'[pid[o]] = fifo[pid[o]]
    <3>1. pid[o] \in Pids /\ pid[o] # pid[c]
      BY <1>2, <1>3, <2>3 DEF Conv, Inv, Settled, Named, Up, Distinct
    <3> QED BY <1>3, <3>1
  <2> QED BY <1>1, <1>3, <1>8, <2>2, <2>3 DEF Reached
<1> QED BY <1>1, <1>4, <1>5, <1>6, <1>7, <1>8 DEF Conv, Settled

LEMMA SpawnSettles == ASSUME Conv, NEW c \in Clients, Spawn(c) PROVE Settled'
<1>1. /\ TypeOK /\ phase[c] = "spawning" /\ phase' = [phase EXCEPT ![c] = "connected"]
      /\ steady' = FALSE
      /\ UNCHANGED <<pid, known, view, inbox, last, fifo, incoming, store, edits, author, crossed, kills>>
  BY DEF Conv, Inv, Spawn, editVars
<1>2. PICK d \in Daemons \ running : outgoing' = [outgoing EXCEPT ![d] = [i \in Pids |-> None]]
  BY DEF Spawn
<1>3. phase'[c] = "connected" /\ \A o \in Clients : o # c => phase'[o] = phase[o]
  BY <1>1 DEF TypeOK
<1>4. \A e \in Daemons, i \in Pids : outgoing'[e][i] \in {None, outgoing[e][i]}
  BY <1>1, <1>2 DEF TypeOK
<1>5. Distinct' BY <1>1 DEF Conv, Settled, Distinct
<1>6. Unheard' BY <1>1, <1>3, <1>4, NotifierAssumption DEF Conv, Settled, Unheard
<1>7. Unread' BY <1>1, <1>3 DEF Conv, Settled, Unread
<1> QED BY <1>1, <1>5, <1>6, <1>7 DEF Settled

\* A client that lists the store shows it; what is on its way to it since it
\* made its pipe changes nothing.
LEMMA ReadSettles == ASSUME Conv, NEW c \in Clients, Read(c) PROVE Settled'
<1>1. /\ TypeOK /\ phase[c] = "connected" /\ phase' = [phase EXCEPT ![c] = "watching"]
      /\ view' = [view EXCEPT ![c] = @ \cup store]
      /\ UNCHANGED <<pid, known, inbox, last, running, pidfile, outgoing, fifo, incoming,
                     store, edits, author, crossed, kills, steady>>
  BY DEF Conv, Inv, Read, daemonVars, editVars, faultVars
<1>2. /\ phase'[c] = "watching" /\ view'[c] = store
      /\ \A o \in Clients : o # c => phase'[o] = phase[o] /\ view'[o] = view[o]
  BY <1>1 DEF TypeOK, Conv, Settled, Unread
<1>3. pid[c] # None BY <1>1, NotifierAssumption DEF Conv, Inv, Named, Up
<1>4. Distinct' BY <1>1 DEF Conv, Settled, Distinct
<1>5. Unheard' BY <1>1, <1>2, <1>3 DEF Conv, Settled, Unheard
<1>6. Unread' BY <1>1, <1>2, <1>3 DEF Conv, Settled, Unread
<1>7. steady => Agrees'
  <2> SUFFICES ASSUME Agrees PROVE Agrees' BY DEF Conv, Settled
  <2>1. \A o \in Clients : Mail(o)' = Mail(o) BY <1>1 DEF Mail
  <2>2. Shows(c)' BY <1>1, <1>2 DEF Shows
  <2>3. \A o \in Clients : o # c => (Shows(o)' <=> Shows(o)) BY <1>1, <1>2, <2>1 DEF Shows
  <2>4. \A o \in Clients : ~ Ended(o)' => ~ Ended(o) BY <1>1, <1>2 DEF Ended, Up
  <2> QED BY <1>1, <1>2, <2>1, <2>2, <2>3, <2>4 DEF Agrees
<1>8. ASSUME NEW d \in Daemons, Reached(d) PROVE Reached(d)' BY <1>1, <1>2, <1>8 DEF Reached
<1> QED BY <1>1, <1>4, <1>5, <1>6, <1>7, <1>8 DEF Conv, Settled

LEMMA ExitSettles == ASSUME Conv, NEW c \in Clients, Exit(c) PROVE Settled'
<1>1. /\ TypeOK /\ phase[c] = "watching" /\ phase' = [phase EXCEPT ![c] = "off"]
      /\ fifo' = [fifo EXCEPT ![pid[c]] = None] /\ inbox' = [inbox EXCEPT ![c] = <<>>]
      /\ UNCHANGED <<pid, known, view, last, running, pidfile, outgoing, incoming,
                     store, edits, author, crossed, kills, steady>>
  BY DEF Conv, Inv, Exit, Gone, editVars, faultVars
<1>2. pid[c] \in Pids /\ pid[c] # None
  BY <1>1, NotifierAssumption DEF Conv, Inv, Named, Up
<1>3. /\ phase'[c] = "off" /\ inbox'[c] = <<>>
      /\ \A o \in Clients : o # c => phase'[o] = phase[o] /\ inbox'[o] = inbox[o]
      /\ fifo'[pid[c]] = None /\ \A i \in Pids : i # pid[c] => fifo'[i] = fifo[i]
  BY <1>1, <1>2 DEF TypeOK
<1>4. Distinct' BY <1>1 DEF Conv, Settled, Distinct
<1>5. Unheard' BY <1>1, <1>2, <1>3, NotifierAssumption DEF Conv, Settled, Unheard
<1>6. Unread' BY <1>1, <1>2, <1>3 DEF Conv, Settled, Unread
<1>7. steady => Agrees'
  <2>1. Ended(c)' BY <1>1, <1>2, <1>3 DEF Ended, Up
  <2>2. \A o \in Clients : o # c => Mail(o)' = Mail(o) /\ (Ended(o)' <=> Ended(o))
    BY <1>1, <1>3 DEF Mail, Ended, Up
  <2> QED BY <1>1, <1>3, <2>1, <2>2, AgreesSame DEF Conv, Settled
<1>8. ASSUME NEW d \in Daemons, Reached(d) PROVE Reached(d)'
  <2>1. ASSUME NEW o \in Clients, phase'[o] \in {"connected", "watching"}
        PROVE  o # c /\ fifo'[pid[o]] = fifo[pid[o]]
    <3>1. o # c /\ pid[o] \in Pids BY <1>3, <2>1 DEF Conv, Inv, Named, Up
    <3>2. pid[o] # pid[c] BY <1>2, <3>1 DEF Conv, Settled, Distinct
    <3> QED BY <1>3, <3>1, <3>2
  <2> QED BY <1>1, <1>3, <1>8, <2>1 DEF Reached
<1> QED BY <1>1, <1>4, <1>5, <1>6, <1>7, <1>8 DEF Conv, Settled

LEMMA KillSettles == ASSUME Conv, NEW d \in Daemons, Kill(d) PROVE Settled'
<1>1. /\ steady' = FALSE
      /\ UNCHANGED <<phase, pid, known, view, inbox, last, outgoing, fifo, incoming,
                     store, edits, author, crossed>>
  BY DEF Kill, clientVars, editVars
<1>2. Distinct' BY <1>1 DEF Conv, Settled, Distinct
<1>3. Unheard' BY <1>1 DEF Conv, Settled, Unheard
<1>4. Unread' BY <1>1 DEF Conv, Settled, Unread
<1> QED BY <1>1, <1>2, <1>3, <1>4 DEF Settled

\* What an edit makes of the store and of the view of its author.
Changes(c, k, n) ==
    \/ k = "created" /\ store' = store \cup {n} /\ view' = [view EXCEPT ![c] = @ \cup {n}]
    \/ k = "deleted" /\ store' = store \ {n} /\ view' = [view EXCEPT ![c] = @ \ {n}]

\* Everybody but the author is sent the edit; news of the name that is still
\* on its way to the author makes the edits of the name cross.
LEMMA EditSettles ==
    ASSUME Conv, NEW c \in Clients, NEW n \in Names, NEW k \in Kinds,
           Edit(c, k, n), Changes(c, k, n)
    PROVE  Settled'
<1> DEFINE m == Message(c, k, n)
<1>1. /\ TypeOK /\ phase[c] = "watching" /\ edits < MaxEdits /\ edits' = edits + 1
      /\ author' = [author EXCEPT ![edits + 1] = c] /\ Send(c, m)
      /\ crossed' = crossed \cup ({n} \cap {p.name : p \in Mail(c)})
      /\ UNCHANGED <<pid, known, last, running, pidfile, outgoing, kills, steady>>
  BY DEF Conv, Inv, Edit, faultVars
<1>2. /\ pid[c] \in Pids /\ pid[c] # None /\ edits \in Nat /\ edits + 1 \in 1 .. MaxEdits
  <2>1. edits \in 0 .. MaxEdits BY <1>1 DEF TypeOK
  <2> QED BY <1>1, <2>1, NotifierAssumption DEF Conv, Inv, Named, Up
<1>3. m \in Messages /\ m.edit = edits + 1 /\ m.kind = k /\ m.name = n /\ m.from = pid[c]
  BY <1>2 DEF Message, Messages
<1> HIDE DEF m
<1>4. /\ \A o \in Clients : o # c => view'[o] = view[o]
      /\ \A x : x # n => (x \in store' <=> x \in store) /\ (x \in view'[c] <=> x \in view[c])
      /\ k = "created" <=> n \in store'
      /\ n \in view'[c] <=> n \in store'
  BY <1>1 DEF Changes, TypeOK
<1>5. UNCHANGED <<phase, fifo, inbox>> \/ Gone(c) BY <1>1 DEF Send
<1>6. /\ \A o \in Clients : inbox'[o] = inbox[o] \/ inbox'[o] = <<>>
      /\ \A o \in Clients : o # c => phase'[o] = phase[o]
      /\ phase'[c] \in {"off", "watching"}
      /\ \A i \in Pids : fifo'[i] = fifo[i] \/ fifo'[i] = None
  <2>1. CASE UNCHANGED <<phase, fifo, inbox>> BY <1>1, <2>1
  <2>2. CASE Gone(c) BY <1>1, <1>2, <2>2 DEF Gone, TypeOK
  <2> QED BY <1>5, <2>1, <2>2
<1>7. Distinct' BY <1>1 DEF Conv, Settled, Distinct
<1>8. Unheard' BY <1>1, <1>2, <1>6, NotifierAssumption DEF Conv, Settled, Unheard
<1>9. Unread' BY <1>1, <1>2, <1>4, <1>6 DEF Conv, Settled, Unread
<1>10. ASSUME NEW d \in Daemons, Reached(d), Agrees PROVE Reached(d)' /\ Agrees'
  <2>1. incoming' = Append(incoming, m) /\ UNCHANGED <<phase, fifo, inbox>>
    BY <1>1, <1>10 DEF Send, Reached
  <2>2. incoming \in Seq(Messages) BY <1>1 DEF TypeOK
  <2>3. Contents(incoming') = Contents(incoming) \cup {m} BY <1>3, <2>1, <2>2, ContentsAppend
  <2>4. \A o \in Clients : (~ Ended(o)' <=> ~ Ended(o)) BY <1>1, <2>1 DEF Ended, Up
  <2>5. \A o \in Clients : \A p \in Mail(o) : p.edit \in Int /\ p.edit < m.edit
    BY <1>2, <1>3, OnTheWay DEF Conv
  <2>6. m.edit \in Int BY <1>2, <1>3
  <2>7. ASSUME NEW o \in Clients, o # c, ~ Ended(o)
        PROVE  /\ Tells(Mail(o), store, crossed)'
               /\ phase[o] = "watching" => Shows(o)'
    <3>1. Tells(Mail(o), store, crossed) /\ (phase[o] = "watching" => Shows(o))
      BY <1>10, <2>7 DEF Agrees
    <3>2. Mail(o)' = Mail(o) \cup {m}
      <4>1. pid[o] # pid[c] BY <1>2, <2>7 DEF Conv, Settled, Distinct
      <4> QED BY <1>1, <1>3, <2>1, <2>3, <4>1 DEF Mail
    <3>3. Tells(Mail(o) \cup {m}, store', crossed')
      <4>1. crossed \subseteq crossed' BY <1>1
      <4> QED BY <1>3, <1>4, <2>5, <2>6, <3>1, <4>1, TellsPush
    <3>4. Tells(Mail(o), store, crossed)' BY <3>2, <3>3 DEF Tells
    <3>5. ASSUME Shows(o) PROVE Shows(o)'
      <4> SUFFICES ASSUME NEW x \in Names \ crossed', \A p \in Mail(o) \cup {m} : p.name # x
                   PROVE  x \in view'[o] <=> x \in store'
        BY <3>2 DEF Shows
      <4>1. x # n /\ x \in Names \ crossed BY <1>1, <1>3
      <4>2. x \in view[o] <=> x \in store BY <3>5, <4>1 DEF Shows
      <4> QED BY <1>4, <2>7, <4>1, <4>2
    <3> QED BY <3>1, <3>4, <3>5
  <2>8. Tells(Mail(c), store, crossed)' /\ Shows(c)'
    <3>1. Tells(Mail(c), store, crossed) /\ Shows(c)
      BY <1>1, <1>10 DEF Agrees, Ended, Up
    <3>2. Mail(c)' = Mail(c) BY <1>1, <1>3, <2>1, <2>3 DEF Mail
    <3>3. \A p \in Mail(c) : p.name \notin crossed' => p.name # n /\ p.name \notin crossed
      BY <1>1
    <3>4. Tells(Mail(c), store', crossed') BY <1>4, <3>1, <3>3 DEF Tells
    <3>5. Tells(Mail(c), store, crossed)' BY <3>2, <3>4 DEF Tells
    <3>6. Shows(c)'
      <4> SUFFICES ASSUME NEW x \in Names \ crossed', \A p \in Mail(c) : p.name # x
                   PROVE  x \in view'[c] <=> x \in store'
        BY <3>2 DEF Shows
      <4>1. x \in Names \ crossed BY <1>1
      <4>2. x \in view[c] <=> x \in store BY <3>1, <4>1 DEF Shows
      <4> QED BY <1>4, <4>2
    <3> QED BY <3>5, <3>6
  <2>9. Agrees' BY <2>1, <2>4, <2>7, <2>8 DEF Agrees
  <2>10. Reached(d)' BY <1>1, <1>10, <2>1 DEF Reached
  <2> QED BY <2>9, <2>10
<1> QED BY <1>1, <1>7, <1>8, <1>9, <1>10 DEF Conv, Settled

\* A message that arrives makes the view what the store is, or a later one does.
LEMMA ReceiveSettles ==
    ASSUME Conv, NEW c \in Clients, Receive(c) PROVE Settled'
<1> DEFINE m == Head(inbox[c])
           I == {p \in Contents(incoming) : p.from # pid[c]}
           S == Contents(Tail(inbox[c])) \cup I
<1>1. /\ TypeOK /\ phase[c] = "watching" /\ inbox[c] # <<>>
      /\ view' = [view EXCEPT ![c] = IF m.kind = "created" THEN @ \cup {m.name} ELSE @ \ {m.name}]
      /\ incoming' = incoming \o <<>> /\ inbox' = [inbox EXCEPT ![c] = Tail(@)]
      /\ UNCHANGED <<phase, pid, known, running, pidfile, outgoing, fifo,
                     store, edits, author, crossed, kills, steady>>
  BY DEF Conv, Inv, Receive, Forwards, daemonVars, editVars, faultVars
<1>2. incoming' = incoming
  <2>1. incoming \in Seq(Messages) BY <1>1 DEF TypeOK
  <2> QED BY <1>1, <2>1
<1>3. pid[c] # None BY <1>1, NotifierAssumption DEF Conv, Inv, Named, Up
<1>4. inbox[c] \in Seq(Messages) /\ Increasing(inbox[c]) BY <1>1 DEF Conv, Inv, Ordered, TypeOK
<1>5. /\ Contents(inbox[c]) = {m} \cup Contents(Tail(inbox[c]))
      /\ m \in Messages
      /\ \A p \in Contents(Tail(inbox[c])) : p \in Messages /\ m.edit < p.edit
  BY <1>1, <1>4, ContentsTail
<1>6. Mail(c) = {m} \cup S BY <1>5 DEF Mail
<1>7. \A p \in I : m.edit < p.edit
  <2>1. Before(inbox[c], incoming) BY DEF Conv, Inv, Ordered
  <2>2. 1 \in DOMAIN inbox[c] /\ m = inbox[c][1] BY <1>1, <1>4, Popped
  <2> HIDE DEF m
  <2> QED BY <2>1, <2>2 DEF Before, Contents
<1>8. m.edit \in Int /\ \A p \in S : p.edit \in Int /\ m.edit < p.edit
  <2>1. \A p \in Mail(c) : p.edit \in Int BY OnTheWay DEF Conv
  <2> HIDE DEF m
  <2> QED BY <1>5, <1>6, <1>7, <2>1
<1>9. /\ inbox'[c] = Tail(inbox[c])
      /\ view'[c] = IF m.kind = "created" THEN view[c] \cup {m.name} ELSE view[c] \ {m.name}
      /\ \A o \in Clients : o # c => inbox'[o] = inbox[o] /\ view'[o] = view[o]
  BY <1>1 DEF TypeOK
<1>10. Mail(c)' = S BY <1>1, <1>2, <1>9 DEF Mail
<1> HIDE DEF m, I, S
<1>11. Distinct' BY <1>1 DEF Conv, Settled, Distinct
<1>12. Unheard' BY <1>1, <1>3, <1>9 DEF Conv, Settled, Unheard
<1>13. Unread' BY <1>1, <1>3, <1>9 DEF Conv, Settled, Unread
<1>14. ASSUME Agrees PROVE Agrees'
  <2>1. Tells({m} \cup S, store, crossed) /\ Shows(c) BY <1>1, <1>6, <1>14 DEF Agrees, Ended, Up
  <2>2. Tells(S, store, crossed) BY <1>8, <2>1, TellsPop
  <2>3. Tells(Mail(c), store, crossed)' BY <1>1, <1>10, <2>2 DEF Tells
  <2>4. Shows(c)'
    <3> SUFFICES ASSUME NEW x \in Names \ crossed, \A p \in S : p.name # x
                 PROVE  x \in view'[c] <=> x \in store
      BY <1>1, <1>10 DEF Shows
    <3>1. CASE x = m.name
      <4>1. \A o \in {m} \cup S : o.name = m.name => o.edit <= m.edit BY <1>8, <3>1
      <4>2. m.kind = "created" <=> m.name \in store BY <2>1, <3>1, <4>1 DEF Tells
      <4> QED BY <1>9, <3>1, <4>2
    <3>2. CASE x # m.name
      <4>1. x \in view[c] <=> x \in store BY <1>6, <2>1, <3>2 DEF Shows
      <4> QED BY <1>9, <3>2, <4>1
    <3> QED BY <3>1, <3>2
  <2>5. ASSUME NEW o \in Clients, o # c PROVE Mail(o)' = Mail(o) /\ (Shows(o)' <=> Shows(o))
    <3>1. Mail(o)' = Mail(o) BY <1>1, <1>2, <1>9, <2>5 DEF Mail
    <3> QED BY <1>1, <1>9, <2>5, <3>1 DEF Shows
  <2>6. \A o \in Clients : (Ended(o)' <=> Ended(o)) BY <1>1 DEF Ended, Up
  <2> QED BY <1>1, <1>14, <2>3, <2>4, <2>5, <2>6 DEF Agrees
<1>15. ASSUME NEW d \in Daemons, Reached(d) PROVE Reached(d)' BY <1>1, <1>15 DEF Reached
<1> QED BY <1>1, <1>11, <1>12, <1>13, <1>14, <1>15 DEF Conv, Settled

\* The daemon hands the oldest message to everybody but its author, so that
\* what is on its way to a client stays the same.
LEMMA ForwardSettles ==
    ASSUME Conv, NEW e \in Daemons, Forward(e) PROVE Settled'
<1> DEFINE m == Head(incoming)
<1>1. /\ TypeOK /\ incoming # <<>> /\ incoming' = Tail(incoming) /\ e \in running
      /\ outgoing' = [outgoing EXCEPT ![e] = Taken(e)]
      /\ fifo' = [i \in Pids |-> IF i \in New(e) THEN None ELSE fifo[i]]
      /\ inbox' = [c \in Clients |-> IF c \in Receivers(e, m) /\ Up(c)
                                     THEN Append(inbox[c], m) ELSE inbox[c]]
      /\ UNCHANGED <<phase, pid, known, view, last, running, pidfile,
                     store, edits, author, crossed, kills, steady>>
  BY DEF Conv, Inv, Forward, editVars, faultVars
<1>2. incoming \in Seq(Messages) /\ Increasing(incoming)
  BY <1>1 DEF Conv, Inv, Ordered, TypeOK
<1>3. /\ Contents(incoming) = {m} \cup Contents(incoming')
      /\ m \in Messages
      /\ \A p \in Contents(incoming') : p.edit \in Int /\ m.edit < p.edit
      /\ m.edit \in Int
  <2>1. /\ Contents(incoming) = {m} \cup Contents(incoming')
        /\ m \in Messages
        /\ \A p \in Contents(incoming') : p \in Messages /\ m.edit < p.edit
    BY <1>1, <1>2, ContentsTail
  <2>2. \A p \in Contents(incoming) : p.edit \in Int BY OnTheWay DEF Conv
  <2> HIDE DEF m
  <2> QED BY <2>1, <2>2
<1> HIDE DEF m
<1>4. \A c \in Clients : \/ inbox'[c] = inbox[c]
                         \/ c \in Receivers(e, m) /\ inbox'[c] = Append(inbox[c], m)
  BY <1>1 DEF m
<1>5. \A i \in Pids : Taken(e)[i] \in {fifo[i], outgoing[e][i]} /\ fifo'[i] \in {None, fifo[i]}
  BY <1>1 DEF Taken
\* Nobody is written to under the identifier of the author.
<1>6. \A c \in Receivers(e, m) : pid[c] # m.from
  <2> SUFFICES ASSUME NEW c \in Receivers(e, m) PROVE pid[c] # m.from OBVIOUS
  <2>1. PICK i \in Pids \ {m.from} : c = Taken(e)[i] /\ c # None BY DEF Receivers
  <2>2. pid[c] = i BY <1>5, <2>1 DEF Conv, Inv, Pipes
  <2> QED BY <2>1, <2>2
<1>7. Distinct' /\ Unread' BY <1>1 DEF Conv, Settled, Distinct, Unread
<1>8. ASSUME NEW c \in Clients, phase[c] = "started" \/ pid[c] = None
      PROVE  /\ inbox'[c] = <<>> /\ inbox[c] = <<>>
             /\ \A i \in Pids : fifo'[i] # c
             /\ \A d \in Daemons, i \in Pids : outgoing'[d][i] # c
  <2>1. /\ inbox[c] = <<>> /\ \A i \in Pids : fifo[i] # c
        /\ \A d \in Daemons, i \in Pids : outgoing[d][i] # c
    BY <1>8 DEF Conv, Settled, Unheard
  <2>2. \A i \in Pids : Taken(e)[i] # c BY <1>5, <2>1
  <2>3. c \notin Receivers(e, m) BY <2>2 DEF Receivers
  <2>4. \A i \in Pids : fifo'[i] # c BY <1>5, <2>1, NotifierAssumption
  <2>5. \A d \in Daemons, i \in Pids : outgoing'[d][i] # c BY <1>1, <2>1, <2>2 DEF TypeOK
  <2> QED BY <1>4, <2>1, <2>3, <2>4, <2>5
<1>9. Unheard' BY <1>1, <1>8 DEF Unheard
<1>10. ASSUME NEW d \in Daemons, Reached(d), Agrees PROVE Reached(d)' /\ Agrees'
  <2>1. d = e BY <1>1, <1>10 DEF Reached
  <2>2. ASSUME NEW c \in Clients, phase[c] \in {"connected", "watching"}
        PROVE  Taken(d)[pid[c]] = c /\ pid[c] \in Pids /\ pid[c] # None
    <3>1. pid[c] \in Pids /\ pid[c] # None
      BY <2>2, NotifierAssumption DEF Conv, Inv, Named, Up
    <3>2. fifo[pid[c]] = c \/ outgoing[d][pid[c]] = c BY <1>10, <2>2 DEF Reached
    <3>3. outgoing[d][pid[c]] # None => outgoing[d][pid[c]] = c
      <4> SUFFICES ASSUME outgoing[d][pid[c]] # None PROVE outgoing[d][pid[c]] = c OBVIOUS
      <4>1. pid[outgoing[d][pid[c]]] = pid[c] BY <3>1 DEF Conv, Inv, Pipes
      <4>2. outgoing[d][pid[c]] \in Clients BY <1>1, <3>1 DEF TypeOK
      <4> QED BY <3>1, <4>1, <4>2 DEF Conv, Settled, Distinct
    <3> QED BY <3>1, <3>2, <3>3, NotifierAssumption DEF Taken, New
  <2>3. ASSUME NEW c \in Clients, phase[c] \in {"connected", "watching"}
        PROVE  Mail(c)' = Mail(c)
    <3>1. inbox[c] \in Seq(Messages) BY <1>1 DEF TypeOK
    <3>2. CASE pid[c] = m.from
      <4>1. inbox'[c] = inbox[c] BY <1>4, <1>6, <3>2
      <4> QED BY <1>1, <1>3, <3>2, <4>1 DEF Mail
    <3>3. CASE pid[c] # m.from
      <4>1. c \in Receivers(d, m) BY <2>2, <2>3, <3>3, NotifierAssumption DEF Receivers
      <4>2. inbox'[c] = Append(inbox[c], m) BY <1>1, <2>1, <2>3, <4>1 DEF Up, m
      <4>3. Contents(inbox'[c]) = Contents(inbox[c]) \cup {m}
        BY <1>3, <3>1, <4>2, ContentsAppend
      <4> QED BY <1>1, <1>3, <3>3, <4>3 DEF Mail
    <3> QED BY <3>2, <3>3
  <2>4. ASSUME NEW c \in Clients, ~ Ended(c) PROVE Tells(Mail(c), store, crossed)'
    <3>1. Tells(Mail(c), store, crossed) BY <1>10, <2>4 DEF Agrees
    <3>2. CASE phase[c] \in {"connected", "watching"}
      <4>1. Mail(c)' = Mail(c) BY <2>3, <3>2
      <4> QED BY <1>1, <3>1, <4>1 DEF Tells
    <3>3. CASE phase[c] \notin {"connected", "watching"}
      <4>1. phase[c] = "started" \/ pid[c] = None
        BY <1>1, <1>10, <2>4, <3>3 DEF Ended, Up, TypeOK, Reached
      <4>2. inbox[c] = <<>> /\ inbox'[c] = <<>> BY <1>8, <4>1
      <4>3. Mail(c) = Mail(c)' \/ Mail(c) = {m} \cup Mail(c)'
        BY <1>1, <1>3, <4>2, ContentsNone DEF Mail
      <4>4. \A o \in Mail(c)' : o.edit \in Int /\ m.edit < o.edit
        BY <1>3, <4>2, ContentsNone DEF Mail
      <4> DEFINE S == Mail(c)'
      <4>5. Tells(S, store, crossed)
        <5> HIDE DEF S
        <5>1. CASE Mail(c) = S BY <3>1, <5>1
        <5>2. CASE Mail(c) = {m} \cup S
          <6>1. Tells({m} \cup S, store, crossed) BY <3>1, <5>2
          <6>2. \A o \in S : o.edit \in Int /\ m.edit < o.edit BY <4>4 DEF S
          <6> QED BY <1>3, <6>1, <6>2, TellsPop
        <5>3. Mail(c) = S \/ Mail(c) = {m} \cup S BY <4>3 DEF S
        <5> QED BY <5>1, <5>2, <5>3
      <4> QED BY <1>1, <4>5 DEF Tells
    <3> QED BY <3>2, <3>3
  <2>5. \A c \in Clients : phase[c] = "watching" => (Shows(c)' <=> Shows(c))
    BY <1>1, <2>3 DEF Shows
  <2>6. Agrees' BY <1>1, <1>10, <2>4, <2>5 DEF Agrees, Ended, Up
  <2>7. Reached(d)'
    <3>1. outgoing'[d] = Taken(d) BY <1>1, <2>1 DEF TypeOK
    <3> QED BY <1>1, <1>10, <2>2, <3>1 DEF Reached
  <2> QED BY <2>6, <2>7
<1> QED BY <1>1, <1>7, <1>9, <1>10 DEF Conv, Settled

LEMMA SettledInit == ASSUME Init PROVE Settled
<1>1. /\ phase = [c \in Clients |-> "off"] /\ pid = [c \in Clients |-> None]
      /\ view = [c \in Clients |-> {}] /\ inbox = [c \in Clients |-> <<>>]
      /\ known = [c \in Clients |-> None]
      /\ incoming = <<>> /\ fifo = [i \in Pids |-> None]
      /\ outgoing = [d \in Daemons |-> [i \in Pids |-> None]]
  BY DEF Init
<1>2. Distinct /\ Unread BY <1>1 DEF Distinct, Unread
<1>3. Unheard BY <1>1, NotifierAssumption DEF Unheard
<1>4. Agrees
  <2>1. \A c \in Clients : Mail(c) = {} BY <1>1, ContentsNone DEF Mail
  <2> QED BY <1>1, <2>1 DEF Agrees, Tells
<1>5. steady => \E d \in Daemons : Reached(d)
  <2> SUFFICES ASSUME steady PROVE \E d \in Daemons : Reached(d) OBVIOUS
  <2>1. Cardinality(running) = 1 /\ running \in FirstDaemons BY DEF Init
  <2>2. running \subseteq Daemons /\ IsFiniteSet(running)
    BY <2>1, NotifierAssumption, FS_Subset
  <2>3. PICK d : running = {d} BY <2>1, <2>2, FS_Singleton
  <2>4. d \in Daemons /\ pidfile = d BY <2>2, <2>3 DEF Init
  <2> QED BY <1>1, <2>3, <2>4 DEF Reached
<1> QED BY <1>2, <1>3, <1>4, <1>5 DEF Settled

LEMMA SettledStep ==
    ASSUME ~ PidsReused, Conv, [Next]_vars PROVE Conv'
<1>1. Inv' BY InvStep DEF Conv
<1>2. ASSUME NEW c \in Clients, NEW n \in Names, Create(c, n) \/ Delete(c, n) PROVE Settled'
  <2>1. CASE Create(c, n)
    <3>1. Edit(c, "created", n) /\ Changes(c, "created", n) BY <2>1 DEF Create, Changes
    <3> QED BY <3>1, EditSettles DEF Kinds
  <2>2. CASE Delete(c, n)
    <3>1. Edit(c, "deleted", n) /\ Changes(c, "deleted", n) BY <2>2 DEF Delete, Changes
    <3> QED BY <3>1, EditSettles DEF Kinds
  <2> QED BY <1>2, <2>1, <2>2
<1>3. CASE Next
  <2>1. Settled'
    BY <1>2, <1>3, StartSettles, EnsureServerRunningSettles, SpawnSettles, ReadSettles,
       ExitSettles, ReceiveSettles, ForwardSettles, KillSettles DEF Next
  <2> QED BY <1>1, <2>1 DEF Conv
<1>4. CASE UNCHANGED vars
  <2>1. UNCHANGED <<phase, pid, known, view, inbox, running, pidfile, outgoing, fifo,
                    incoming, store, author, crossed, steady>>
    BY <1>4 DEF vars, clientVars, daemonVars, editVars, faultVars
  <2>2. Distinct' /\ Unheard' /\ Unread'
    BY <2>1 DEF Conv, Settled, Distinct, Unheard, Unread
  <2>3. steady => Agrees'
    <3>1. \A c \in Clients : Mail(c)' = Mail(c) /\ (Ended(c)' <=> Ended(c))
      BY <2>1 DEF Mail, Ended, Up
    <3> QED BY <2>1, <3>1, AgreesSame DEF Conv, Settled
  <2>4. \A d : Reached(d) => Reached(d)' BY <2>1 DEF Reached
  <2> QED BY <1>1, <2>1, <2>2, <2>3, <2>4 DEF Conv, Settled
<1> QED BY <1>3, <1>4

\* With no process identifier used again, and whoever writes: when nothing is
\* on its way any more, everybody who watches shows what the store holds, of
\* the names whose edits never crossed.
THEOREM ViewsConverge ==
    ASSUME ~ PidsReused PROVE Spec => []Converges
<1>1. Init => Conv BY InvInit, SettledInit DEF Conv
<1>2. Conv /\ [Next]_vars => Conv' BY SettledStep
<1>3. Conv => Converges
  <2> SUFFICES ASSUME Conv, steady, incoming = <<>>, \A c \in Clients : inbox[c] = <<>>,
                      NEW c \in Clients, phase[c] = "watching"
               PROVE  view[c] \ crossed = store \ crossed
    BY DEF Converges
  <2>1. Shows(c) BY DEF Conv, Settled, Agrees, Ended, Up
  <2>2. Mail(c) = {} BY ContentsNone DEF Mail
  <2>3. \A n \in Names \ crossed : n \in view[c] <=> n \in store BY <2>1, <2>2 DEF Shows
  <2>4. view[c] \subseteq Names /\ store \subseteq Names BY DEF Conv, Inv, TypeOK
  <2> QED BY <2>3, <2>4
<1> QED BY <1>1, <1>2, <1>3, PTL DEF Spec
=============================================================================
