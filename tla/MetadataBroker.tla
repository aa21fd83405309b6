--------------------------- MODULE MetadataBroker ---------------------------
(***************************************************************************)
(* The metadata server: a process asks the broker for an attribute of a    *)
(* file (syncMetadataServerGet() in src/Ferris/MetadataServer.cpp), the    *)
(* broker (src/apps/metadataserver/ferris-internal-metadata-broker.cpp)    *)
(* pings the worker of the plugin that has it, sends the request on and    *)
(* broadcasts what the worker answers, and the process waits for a         *)
(* broadcast.  The worker may fail, end, or answer after the broker has    *)
(* given it up; the broker ends when it is idle, or is killed, and D-Bus   *)
(* starts a new one for the next request.                                  *)
(*                                                                         *)
(* A broadcast reaches every process that waits, and a process does not    *)
(* look at the number of the request that a broadcast is about: it takes   *)
(* the last that has come when it looks.                                   *)
(***************************************************************************)
EXTENDS Integers, Sequences

CONSTANTS
    Clients,    \* the processes that ask, each for one attribute at a time
    MaxAsks,    \* bound: requests
    MaxKills    \* bound: brokers killed

ASSUME BrokerAssumption == MaxAsks \in Nat /\ MaxKills \in Nat

VARIABLES
    asked,      \* the requests made, numbered from 1
    phase,      \* of a process
    mine,       \* the last request of a process
    inbox,      \* the broadcasts it has not looked at
    value,      \* the broadcast whose value it has
    alive,      \* is there a broker?
    calls,      \* calls of asyncGet() that the broker has not taken
    pinging,    \* the request whose worker it pings, or 0
    pending,    \* the requests whose answer it waits for
    slow,       \* the request taken last, if its ping took a time, or 0
    working,    \* the requests that are with a worker
    replies,    \* the answers of workers on their way
    kills,      \* brokers killed
    crowded,    \* history: requests beside which there was another
    forsaken    \* history: requests that a broker has ended with

clientVars == <<phase, mine, inbox, value>>
brokerVars == <<alive, calls, pinging, pending, slow>>
workerVars == <<working, replies>>
history == <<crowded, forsaken>>
vars == <<asked, clientVars, brokerVars, workerVars, kills, history>>

Requests == 1 .. MaxAsks
Answers == [of : Requests, ok : BOOLEAN]
NoAnswer == [of |-> 0, ok |-> FALSE]

\* The requests the broker has and has not answered.
Queued(s) == {s[i] : i \in DOMAIN s}
Outstanding == Queued(calls) \cup ({pinging} \ {0}) \cup pending
Waits(c) == phase[c] \in {"calling", "running"}

TypeOK ==
    /\ asked \in 0 .. MaxAsks
    /\ phase \in [Clients -> {"idle", "calling", "running", "done"}]
    /\ mine \in [Clients -> 0 .. MaxAsks]
    /\ inbox \in [Clients -> Seq(Answers)]
    /\ value \in [Clients -> Answers \cup {NoAnswer}]
    /\ alive \in BOOLEAN
    /\ calls \in Seq(Requests)
    /\ pinging \in 0 .. MaxAsks
    /\ pending \subseteq Requests /\ slow \in 0 .. MaxAsks
    /\ ~ alive => Outstanding = {}
    /\ working \subseteq Requests /\ replies \subseteq Answers
    /\ kills \in 0 .. MaxKills
    /\ crowded \subseteq Requests /\ forsaken \subseteq Requests

Init ==
    /\ asked = 0
    /\ phase = [c \in Clients |-> "idle"]
    /\ mine = [c \in Clients |-> 0]
    /\ inbox = [c \in Clients |-> <<>>]
    /\ value = [c \in Clients |-> NoAnswer]
    /\ alive = FALSE /\ calls = <<>> /\ pinging = 0 /\ pending = {} /\ slow = 0
    /\ working = {} /\ replies = {}
    /\ kills = 0
    /\ crowded = {} /\ forsaken = {}

-----------------------------------------------------------------------------
\* A process that asks, syncMetadataServerGet().

\* mutant: D-Bus knows no service of the broker's name
Activate_Mutant == UNCHANGED alive
\* D-Bus starts a broker when there is none.
Activate == alive' = TRUE

\* It connects to the broadcasts and calls asyncGet().
Ask(c) ==
    /\ phase[c] = "idle"
    /\ asked < MaxAsks
    /\ asked' = asked + 1
    /\ phase' = [phase EXCEPT ![c] = "calling"]
    /\ mine' = [mine EXCEPT ![c] = asked + 1]
    /\ Activate
    /\ calls' = Append(calls, asked + 1)
    /\ crowded' = crowded \cup {mine[d] : d \in {e \in Clients : phase[e] # "idle"}}
                          \cup (IF Outstanding = {} THEN {} ELSE {asked + 1})
    /\ UNCHANGED <<inbox, value, pinging, pending, slow, workerVars, kills, forsaken>>

\* The call ends without a result: the broker has ended, or has taken more
\* than 25 seconds.  The process does not look at what the call returns.
CallEnds(c) ==
    /\ phase[c] = "calling"
    /\ phase' = [phase EXCEPT ![c] = "running"]
    /\ UNCHANGED <<asked, mine, inbox, value, brokerVars, workerVars, kills, history>>

\* run() handles a broadcast; processEvents() may handle several before
\* run() looks at "running".
Look(c) ==
    /\ phase[c] \in {"running", "done"}
    /\ inbox[c] # <<>>
    /\ value' = [value EXCEPT ![c] = Head(inbox[c])]
    /\ inbox' = [inbox EXCEPT ![c] = Tail(@)]
    /\ phase' = [phase EXCEPT ![c] = "done"]
    /\ UNCHANGED <<asked, mine, brokerVars, workerVars, kills, history>>

\* It returns the value or throws the error, and disconnects.
Leave(c) ==
    /\ phase[c] = "done"
    /\ phase' = [phase EXCEPT ![c] = "idle"]
    /\ inbox' = [inbox EXCEPT ![c] = <<>>]
    /\ UNCHANGED <<asked, mine, value, brokerVars, workerVars, kills, history>>

-----------------------------------------------------------------------------
\* The broker.

\* A signal reaches every process that is connected.
Broadcast(m) ==
    inbox' = [c \in Clients |-> IF phase[c] # "idle" THEN Append(inbox[c], m) ELSE inbox[c]]

\* asyncGet() begins: the idle timer starts anew, and the ping blocks the
\* broker.
TakeCall ==
    /\ pinging = 0 /\ calls # <<>>
    /\ pinging' = Head(calls)
    /\ calls' = Tail(calls)
    /\ UNCHANGED <<asked, clientVars, alive, pending, slow, workerVars, kills, history>>

\* mutant: a ping that fails ends asyncGet() as the code of pingWorker() says
SendGet_Mutant(r, late) == IF late THEN pending ELSE pending \cup {r}
SendGet(r, late) == pending \cup {r}
\* The ping has an answer, or none within 25 seconds, of which asyncGet()
\* takes no notice; the request is sent on and asyncGet() returns.  It is
\* slow when the idle timer, which was started before the ping, may end
\* before the 25 seconds of the request.
PingEnds(late) ==
    /\ pinging # 0
    /\ pinging' = 0
    /\ pending' = SendGet(pinging, late)
    /\ working' = working \cup {pinging}
    /\ slow' = IF late THEN pinging ELSE 0
    /\ phase' = [c \in Clients |->
         IF phase[c] = "calling" /\ mine[c] = pinging THEN "running" ELSE phase[c]]
    /\ UNCHANGED <<asked, mine, inbox, value, alive, calls, replies, kills, history>>

\* mutant: an answer that comes late is broadcast as well
Awaited_Mutant(m) == TRUE
\* D-Bus drops an answer to a call that has been given up.
Awaited(m) == m.of \in pending
\* asyncGetFireReplySlot() with the answer of a worker.
Reply(m) ==
    /\ alive /\ pinging = 0 /\ m \in replies
    /\ replies' = replies \ {m}
    /\ pending' = pending \ {m.of}
    /\ IF Awaited(m) THEN Broadcast(m) ELSE UNCHANGED inbox
    /\ UNCHANGED <<asked, phase, mine, value, alive, calls, pinging, slow, working,
                   kills, history>>

\* mutant: a request that is given up is forgotten
GiveUp_Mutant(r) == UNCHANGED inbox
GiveUp(r) == Broadcast([of |-> r, ok |-> FALSE])
\* The 25 seconds of a request are over: its error is broadcast.
TimesOut(r) ==
    /\ pinging = 0 /\ r \in pending
    /\ pending' = pending \ {r}
    /\ GiveUp(r)
    /\ UNCHANGED <<asked, phase, mine, value, alive, calls, pinging, slow, workerVars,
                   kills, history>>

\* What a broker has when it ends is gone, and so is what is on its way to it.
BrokerEnds ==
    /\ alive
    /\ alive' = FALSE
    /\ calls' = <<>> /\ pinging' = 0 /\ pending' = {} /\ slow' = 0
    /\ working' = {} /\ replies' = {}
    /\ forsaken' = forsaken \cup Outstanding
    /\ UNCHANGED <<asked, clientVars, crowded>>

\* ExitOnIdle: 30 seconds after the last asyncGet() began.  The requests
\* before it were given up by then, that one too unless its ping was slow.
Idles ==
    /\ pinging = 0 /\ pending \subseteq {slow}
    /\ BrokerEnds
    /\ UNCHANGED kills

Killed ==
    /\ kills < MaxKills
    /\ kills' = kills + 1
    /\ BrokerEnds

-----------------------------------------------------------------------------
\* A worker answers with a value or an error, or it ends and D-Bus answers
\* for it.
Answer(r, ok) ==
    /\ r \in working
    /\ working' = working \ {r}
    /\ replies' = replies \cup {[of |-> r, ok |-> ok]}
    /\ UNCHANGED <<asked, clientVars, brokerVars, kills, history>>

Next ==
    \/ \E c \in Clients : Ask(c) \/ CallEnds(c) \/ Look(c) \/ Leave(c)
    \/ TakeCall
    \/ \E late \in BOOLEAN : PingEnds(late)
    \/ \E m \in replies : Reply(m)
    \/ \E r \in Requests : TimesOut(r) \/ \E ok \in BOOLEAN : Answer(r, ok)
    \/ Idles
    \/ Killed

Spec == Init /\ [][Next]_vars

\* The main loops turn, a call and a ping end after 25 seconds at the latest,
\* and so does a request.  Nothing is assumed of the workers.
LiveSpec ==
    /\ Spec
    /\ \A c \in Clients : WF_vars(CallEnds(c)) /\ WF_vars(Look(c))
    /\ WF_vars(TakeCall) /\ WF_vars(\E late \in BOOLEAN : PingEnds(late))
    /\ \A r \in Requests : WF_vars(TimesOut(r))
-----------------------------------------------------------------------------
\* A process whose request was the only one gets what came of that request,
\* however late answers, timeouts and brokers that end fall between: nothing
\* is left of an earlier request that could be taken for it.
RightAnswer ==
    \A c \in Clients : phase[c] = "done" => value[c].of = mine[c] \/ mine[c] \in crowded

\* A process that waits has something to wait for: its own request is with
\* the broker, or there is a broadcast for it to look at, or the broker has
\* ended with its request.
StillComing ==
    \A c \in Clients : Waits(c) /\ mine[c] \notin forsaken =>
        mine[c] \in Outstanding \/ inbox[c] # <<>>

\* syncMetadataServerGet() returns or throws, whatever the worker does, unless
\* the broker has ended with the request.
GetReturns ==
    \A c \in Clients : Waits(c) ~> (~ Waits(c) \/ mine[c] \in forsaken)
=============================================================================
