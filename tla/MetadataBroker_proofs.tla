------------------------ MODULE MetadataBroker_proofs ------------------------
(***************************************************************************)
(* A process that asks alone gets what came of its own request, and a      *)
(* process that waits has something to wait for: for every number of       *)
(* processes, requests and brokers killed, and whatever the workers do.    *)
(***************************************************************************)
EXTENDS MetadataBroker, TLAPS

\* A process that is not connected has no broadcasts, one that is has asked.
\* Of one whose request is alone: all that the broker has, and all that it
\* has broadcast since, is that request.
Connected == \A c \in Clients :
    IF phase[c] = "idle" THEN inbox[c] = <<>> ELSE mine[c] # 0
Alone(c) == phase[c] # "idle" /\ mine[c] \notin crowded
Lonely == \A c \in Clients : Alone(c) =>
    /\ Outstanding \subseteq {mine[c]}
    /\ \A m \in Queued(inbox[c]) : m.of = mine[c]
    /\ phase[c] = "done" => value[c].of = mine[c]

Inv == TypeOK /\ Connected /\ Lonely /\ StillComing
-----------------------------------------------------------------------------
(***************************************************************************)
(* Queues, and what a broadcast does.                                      *)
(***************************************************************************)
LEMMA Appended ==
    ASSUME NEW S, NEW s \in Seq(S), NEW e \in S
    PROVE  /\ Append(s, e) \in Seq(S) /\ Append(s, e) # <<>>
           /\ Queued(Append(s, e)) = Queued(s) \cup {e}
<1>1. Append(s, e) \in Seq(S) /\ DOMAIN Append(s, e) = 1 .. Len(s) + 1 /\ DOMAIN s = 1 .. Len(s)
      /\ Len(s) \in Nat
  OBVIOUS
<1>2. \A i \in 1 .. Len(s) : Append(s, e)[i] = s[i] OBVIOUS
<1>3. Append(s, e)[Len(s) + 1] = e OBVIOUS
<1>4. \A i \in 1 .. Len(s) + 1 : i \in 1 .. Len(s) \/ i = Len(s) + 1 BY <1>1
<1>5. Len(s) + 1 \in 1 .. Len(s) + 1 /\ \A i \in 1 .. Len(s) : i \in 1 .. Len(s) + 1 BY <1>1
<1>6. Append(s, e) # <<>> BY <1>1
<1>7. ASSUME NEW x PROVE x \in Queued(Append(s, e)) <=> x \in Queued(s) \cup {e}
  BY <1>1, <1>2, <1>3, <1>4, <1>5 DEF Queued
<1> QED BY <1>1, <1>6, <1>7

LEMMA Popped ==
    ASSUME NEW S, NEW s \in Seq(S), s # <<>>
    PROVE  /\ Head(s) \in S /\ Tail(s) \in Seq(S)
           /\ Queued(s) = {Head(s)} \cup Queued(Tail(s))
<1>1. /\ Tail(s) \in Seq(S) /\ Head(s) \in S /\ Head(s) = s[1] /\ Len(s) \in Nat /\ Len(s) > 0
      /\ DOMAIN s = 1 .. Len(s) /\ DOMAIN Tail(s) = 1 .. Len(s) - 1
  OBVIOUS
<1>2. \A i \in 1 .. Len(s) - 1 : Tail(s)[i] = s[i + 1] OBVIOUS
<1>3. \A i \in 1 .. Len(s) : i = 1 \/ (i - 1 \in 1 .. Len(s) - 1 /\ s[i] = Tail(s)[i - 1])
  BY <1>1, <1>2
<1>4. \A i \in 1 .. Len(s) - 1 : i + 1 \in 1 .. Len(s) BY <1>1
<1>5. 1 \in 1 .. Len(s) BY <1>1
<1>6. ASSUME NEW x PROVE x \in Queued(s) <=> x \in {Head(s)} \cup Queued(Tail(s))
  <2>1. ASSUME x \in Queued(s) PROVE x \in {Head(s)} \cup Queued(Tail(s))
    <3>1. PICK i \in 1 .. Len(s) : x = s[i] BY <1>1, <2>1 DEF Queued
    <3>2. CASE i = 1 BY <1>1, <3>1, <3>2
    <3>3. CASE i - 1 \in 1 .. Len(s) - 1 /\ s[i] = Tail(s)[i - 1]
      <4>1. Tail(s)[i - 1] \in Queued(Tail(s)) BY <1>1, <3>3 DEF Queued
      <4> QED BY <3>1, <3>3, <4>1
    <3> QED BY <1>3, <3>1, <3>2, <3>3
  <2>2. ASSUME x \in Queued(Tail(s)) PROVE x \in Queued(s)
    <3>1. PICK i \in 1 .. Len(s) - 1 : x = Tail(s)[i] BY <1>1, <2>2 DEF Queued
    <3>2. x = s[i + 1] /\ i + 1 \in 1 .. Len(s) BY <1>2, <1>4, <3>1
    <3> QED BY <1>1, <3>2 DEF Queued
  <2>3. Head(s) \in Queued(s) BY <1>1, <1>5 DEF Queued
  <2> QED BY <2>1, <2>2, <2>3
<1> QED BY <1>1, <1>6

LEMMA Nothing == ASSUME NEW S PROVE <<>> \in Seq(S) /\ Queued(<<>>) = {}
BY DEF Queued

\* A broadcast is seen by all that wait and changes nobody's silence.
LEMMA Broadcasts ==
    ASSUME Inv, NEW m \in Answers, Broadcast(m)
    PROVE  /\ inbox' \in [Clients -> Seq(Answers)]
           /\ \A c \in Clients :
                /\ phase[c] = "idle" => inbox'[c] = <<>>
                /\ phase[c] # "idle" =>
                     inbox'[c] # <<>> /\ Queued(inbox'[c]) = Queued(inbox[c]) \cup {m}
<1>1. ASSUME NEW c \in Clients
      PROVE  /\ inbox[c] \in Seq(Answers) /\ Append(inbox[c], m) \in Seq(Answers)
             /\ Append(inbox[c], m) # <<>>
             /\ Queued(Append(inbox[c], m)) = Queued(inbox[c]) \cup {m}
  <2>1. inbox[c] \in Seq(Answers) BY DEF Inv, TypeOK
  <2> QED BY <2>1, Appended
<1>2. ASSUME NEW c \in Clients
      PROVE  inbox'[c] = IF phase[c] # "idle" THEN Append(inbox[c], m) ELSE inbox[c]
  BY DEF Broadcast
<1>3. inbox' \in [Clients -> Seq(Answers)] BY <1>1 DEF Broadcast
<1> QED BY <1>1, <1>2, <1>3 DEF Inv, Connected
-----------------------------------------------------------------------------
LEMMA InitInv == Init => Inv
<1> SUFFICES ASSUME Init PROVE Inv OBVIOUS
<1>1. TypeOK
  <2>1. Outstanding = {} BY Nothing DEF Init, Outstanding
  <2>2. <<>> \in Seq(Answers) /\ <<>> \in Seq(Requests) BY Nothing
  <2>3. 0 \in 0 .. MaxAsks /\ 0 \in 0 .. MaxKills BY BrokerAssumption
  <2> QED BY <2>1, <2>2, <2>3 DEF Init, TypeOK
<1>2. Connected BY DEF Init, Connected
<1>3. Lonely BY DEF Init, Lonely, Alone
<1>4. StillComing BY DEF Init, StillComing, Waits
<1> QED BY <1>1, <1>2, <1>3, <1>4 DEF Inv
-----------------------------------------------------------------------------
(***************************************************************************)
(* The processes that ask.                                                 *)
(***************************************************************************)
LEMMA AskInv == ASSUME Inv, NEW c \in Clients, Ask(c) PROVE Inv'
<1> DEFINE n == asked + 1
<1> USE DEF Activate
<1>1. n \in Requests /\ asked \in Nat BY BrokerAssumption DEF Inv, TypeOK, Ask, Requests
<1>2. calls \in Seq(Requests) BY DEF Inv, TypeOK
<1>3. calls' = Append(calls, n) /\ pinging' = pinging /\ pending' = pending BY DEF Ask
<1>4. calls' \in Seq(Requests) /\ Queued(calls') = Queued(calls) \cup {n}
  BY <1>1, <1>2, <1>3, Appended
<1>5. Outstanding' = Outstanding \cup {n} BY <1>3, <1>4 DEF Outstanding
<1>6. mine' = [mine EXCEPT ![c] = n] /\ phase' = [phase EXCEPT ![c] = "calling"]
      /\ inbox' = inbox /\ value' = value /\ forsaken' = forsaken /\ alive' = TRUE
      /\ asked' = n /\ phase[c] = "idle" /\ asked < MaxAsks
  BY DEF Ask
<1>7. mine \in [Clients -> 0 .. MaxAsks] /\ phase \in [Clients -> {"idle", "calling", "running", "done"}]
  BY DEF Inv, TypeOK
<1>8. crowded' = crowded \cup {mine[d] : d \in {e \in Clients : phase[e] # "idle"}}
                   \cup (IF Outstanding = {} THEN {} ELSE {n})
  BY DEF Ask
<1>9. crowded' \subseteq Requests
  <2>1. \A d \in Clients : phase[d] # "idle" => mine[d] \in Requests
    BY <1>7, BrokerAssumption DEF Inv, Connected, Requests
  <2> QED BY <1>1, <1>8, <2>1 DEF Inv, TypeOK
<1> HIDE DEF n
<1>10. TypeOK'
  <2>1. n \in 0 .. MaxAsks BY <1>1, BrokerAssumption DEF Requests
  <2> QED BY <1>1, <1>3, <1>4, <1>6, <1>7, <1>9, <2>1
        DEF Inv, TypeOK, Ask, workerVars
<1>11. Connected'
  BY <1>1, <1>6, <1>7 DEF Inv, Connected, Requests
<1>12. Lonely'
  <2> SUFFICES ASSUME NEW d \in Clients, Alone(d)'
               PROVE  /\ Outstanding' \subseteq {mine'[d]}
                      /\ \A m \in Queued(inbox'[d]) : m.of = mine'[d]
                      /\ phase'[d] = "done" => value'[d].of = mine'[d]
    BY DEF Lonely
  <2>1. d = c
    <3> SUFFICES ASSUME d # c PROVE FALSE OBVIOUS
    <3>1. phase[d] # "idle" /\ mine'[d] = mine[d] /\ mine'[d] \notin crowded'
      BY <1>6, <1>7 DEF Alone
    <3> QED BY <1>8, <3>1
  <2>2. mine'[d] = n /\ phase'[d] = "calling" BY <1>6, <1>7, <2>1
  <2>3. Outstanding = {} BY <1>8, <2>2 DEF Alone
  <2>4. inbox'[d] = <<>> BY <1>6, <2>1 DEF Inv, Connected
  <2> QED BY <1>5, <2>2, <2>3, <2>4, Nothing
<1>13. StillComing'
  <2> SUFFICES ASSUME NEW d \in Clients, Waits(d)', mine'[d] \notin forsaken'
               PROVE  mine'[d] \in Outstanding' \/ inbox'[d] # <<>>
    BY DEF StillComing
  <2>1. CASE d = c BY <1>5, <1>6, <1>7, <2>1
  <2>2. CASE d # c
    <3>1. Waits(d) /\ mine'[d] = mine[d] BY <1>6, <1>7, <2>2 DEF Waits
    <3> QED BY <1>5, <1>6, <3>1 DEF Inv, StillComing
  <2> QED BY <2>1, <2>2
<1> QED BY <1>10, <1>11, <1>12, <1>13 DEF Inv

LEMMA CallEndsInv == ASSUME Inv, NEW c \in Clients, CallEnds(c) PROVE Inv'
<1>1. phase' = [phase EXCEPT ![c] = "running"] /\ phase[c] = "calling"
      /\ mine' = mine /\ inbox' = inbox /\ value' = value
      /\ crowded' = crowded /\ forsaken' = forsaken
  BY DEF CallEnds, history
<1>2. phase \in [Clients -> {"idle", "calling", "running", "done"}] BY DEF Inv, TypeOK
<1>3. UNCHANGED <<asked, brokerVars, workerVars, kills>> BY DEF CallEnds
<1>4. Outstanding' = Outstanding BY <1>3 DEF Outstanding, brokerVars
<1>5. TypeOK' BY <1>1, <1>2, <1>3, <1>4 DEF Inv, TypeOK, brokerVars, workerVars
<1>6. \A d \in Clients : /\ phase'[d] = "idle" <=> phase[d] = "idle"
                         /\ phase'[d] = "done" <=> phase[d] = "done"
                         /\ phase'[d] \in {"calling", "running"} => phase[d] \in {"calling", "running"}
  BY <1>1, <1>2
<1>7. Connected' BY <1>1, <1>6 DEF Inv, Connected
<1>8. Lonely' BY <1>1, <1>4, <1>6 DEF Inv, Lonely, Alone
<1>9. StillComing' BY <1>1, <1>4, <1>6 DEF Inv, StillComing, Waits
<1> QED BY <1>5, <1>7, <1>8, <1>9 DEF Inv

LEMMA LookInv == ASSUME Inv, NEW c \in Clients, Look(c) PROVE Inv'
<1> DEFINE s == inbox[c]
<1>1. s \in Seq(Answers) /\ s # <<>> BY DEF Inv, TypeOK, Look
<1>2. phase' = [phase EXCEPT ![c] = "done"] /\ phase[c] \in {"running", "done"}
      /\ mine' = mine /\ crowded' = crowded /\ forsaken' = forsaken
      /\ inbox' = [inbox EXCEPT ![c] = Tail(s)] /\ value' = [value EXCEPT ![c] = Head(s)]
  BY DEF Look, history
<1>3. /\ phase \in [Clients -> {"idle", "calling", "running", "done"}]
      /\ inbox \in [Clients -> Seq(Answers)] /\ value \in [Clients -> Answers \cup {NoAnswer}]
  BY DEF Inv, TypeOK
<1>4. UNCHANGED <<asked, brokerVars, workerVars, kills>> BY DEF Look
<1>5. Outstanding' = Outstanding BY <1>4 DEF Outstanding, brokerVars
<1>6. Head(s) \in Answers /\ Tail(s) \in Seq(Answers)
      /\ Queued(s) = {Head(s)} \cup Queued(Tail(s))
  <2> HIDE DEF s
  <2> QED BY <1>1, Popped
<1>7. Queued(inbox[c]) = {Head(s)} \cup Queued(Tail(s)) BY <1>6
<1> HIDE DEF s
<1>8. TypeOK' BY <1>2, <1>3, <1>4, <1>5, <1>6 DEF Inv, TypeOK, brokerVars, workerVars
<1>9. ASSUME NEW d \in Clients, d # c
      PROVE  phase'[d] = phase[d] /\ inbox'[d] = inbox[d] /\ value'[d] = value[d]
  BY <1>2, <1>3, <1>9
<1>10. phase'[c] = "done" /\ inbox'[c] = Tail(s) /\ value'[c] = Head(s) BY <1>2, <1>3
<1>11. Connected' BY <1>2, <1>9, <1>10 DEF Inv, Connected
<1>12. Lonely'
  <2> SUFFICES ASSUME NEW d \in Clients, Alone(d)'
               PROVE  /\ Outstanding' \subseteq {mine'[d]}
                      /\ \A m \in Queued(inbox'[d]) : m.of = mine'[d]
                      /\ phase'[d] = "done" => value'[d].of = mine'[d]
    BY DEF Lonely
  <2>1. Alone(d) BY <1>2, <1>9 DEF Alone
  <2>2. /\ Outstanding \subseteq {mine[d]}
        /\ \A m \in Queued(inbox[d]) : m.of = mine[d]
        /\ phase[d] = "done" => value[d].of = mine[d]
    BY <2>1 DEF Inv, Lonely
  <2>3. CASE d = c BY <1>2, <1>5, <1>7, <1>10, <2>2, <2>3
  <2>4. CASE d # c BY <1>2, <1>5, <1>9, <2>2, <2>4
  <2> QED BY <2>3, <2>4
<1>13. StillComing' BY <1>2, <1>5, <1>9, <1>10 DEF Inv, StillComing, Waits
<1> QED BY <1>8, <1>11, <1>12, <1>13 DEF Inv

LEMMA LeaveInv == ASSUME Inv, NEW c \in Clients, Leave(c) PROVE Inv'
<1>1. phase' = [phase EXCEPT ![c] = "idle"] /\ inbox' = [inbox EXCEPT ![c] = <<>>]
      /\ mine' = mine /\ value' = value /\ crowded' = crowded /\ forsaken' = forsaken
  BY DEF Leave, history
<1>2. /\ phase \in [Clients -> {"idle", "calling", "running", "done"}]
      /\ inbox \in [Clients -> Seq(Answers)]
  BY DEF Inv, TypeOK
<1>3. UNCHANGED <<asked, brokerVars, workerVars, kills>> BY DEF Leave
<1>4. Outstanding' = Outstanding BY <1>3 DEF Outstanding, brokerVars
<1>5. <<>> \in Seq(Answers) BY Nothing
<1>6. TypeOK' BY <1>1, <1>2, <1>3, <1>4, <1>5 DEF Inv, TypeOK, brokerVars, workerVars
<1>7. ASSUME NEW d \in Clients, d # c PROVE phase'[d] = phase[d] /\ inbox'[d] = inbox[d]
  BY <1>1, <1>2, <1>7
<1>8. phase'[c] = "idle" /\ inbox'[c] = <<>> BY <1>1, <1>2
<1>9. Connected' BY <1>1, <1>7, <1>8 DEF Inv, Connected
<1>10. Lonely' BY <1>1, <1>4, <1>7, <1>8 DEF Inv, Lonely, Alone
<1>11. StillComing' BY <1>1, <1>4, <1>7, <1>8 DEF Inv, StillComing, Waits
<1> QED BY <1>6, <1>9, <1>10, <1>11 DEF Inv
-----------------------------------------------------------------------------
(***************************************************************************)
(* The broker.                                                             *)
(***************************************************************************)
LEMMA TakeCallInv == ASSUME Inv, TakeCall PROVE Inv'
<1>1. calls \in Seq(Requests) /\ calls # <<>> BY DEF Inv, TypeOK, TakeCall
<1>2. Head(calls) \in Requests /\ Tail(calls) \in Seq(Requests)
      /\ Queued(calls) = {Head(calls)} \cup Queued(Tail(calls))
  BY <1>1, Popped
<1>3. pinging = 0 /\ pinging' = Head(calls) /\ calls' = Tail(calls) /\ pending' = pending
      /\ alive' = alive /\ slow' = slow
      /\ UNCHANGED <<asked, clientVars, workerVars, kills, history>>
  BY DEF TakeCall
<1>4. Head(calls) # 0 /\ Head(calls) \in 0 .. MaxAsks BY <1>2, BrokerAssumption DEF Requests
<1>5. Outstanding' = Outstanding BY <1>2, <1>3, <1>4 DEF Outstanding
<1>6. TypeOK' BY <1>2, <1>3, <1>4, <1>5 DEF Inv, TypeOK, clientVars, workerVars, history
<1>7. Connected' BY <1>3 DEF Inv, Connected, clientVars
<1>8. Lonely' BY <1>3, <1>5 DEF Inv, Lonely, Alone, clientVars, history
<1>9. StillComing' BY <1>3, <1>5 DEF Inv, StillComing, Waits, clientVars, history
<1> QED BY <1>6, <1>7, <1>8, <1>9 DEF Inv

LEMMA PingEndsInv == ASSUME Inv, NEW late \in BOOLEAN, PingEnds(late) PROVE Inv'
<1>1. pinging # 0 /\ pinging' = 0 /\ pending' = pending \cup {pinging} /\ calls' = calls
      /\ working' = working \cup {pinging} /\ slow' = (IF late THEN pinging ELSE 0)
      /\ UNCHANGED <<asked, mine, inbox, value, alive, replies, kills, history>>
  BY DEF PingEnds, SendGet
<1>2. pinging \in Requests /\ pinging \in 0 .. MaxAsks /\ 0 \in 0 .. MaxAsks
  BY <1>1, BrokerAssumption DEF Inv, TypeOK, Requests
<1>3. Outstanding' = Outstanding BY <1>1 DEF Outstanding
<1>4. phase' = [c \in Clients |->
         IF phase[c] = "calling" /\ mine[c] = pinging THEN "running" ELSE phase[c]]
  BY DEF PingEnds
<1>5. phase \in [Clients -> {"idle", "calling", "running", "done"}] BY DEF Inv, TypeOK
<1>6. \A d \in Clients : /\ phase'[d] = "idle" <=> phase[d] = "idle"
                         /\ phase'[d] = "done" <=> phase[d] = "done"
                         /\ phase'[d] \in {"calling", "running"} => phase[d] \in {"calling", "running"}
  BY <1>4, <1>5
<1>7. TypeOK'
  <2>1. phase' \in [Clients -> {"idle", "calling", "running", "done"}] BY <1>4, <1>5
  <2> QED BY <1>1, <1>2, <1>3, <2>1 DEF Inv, TypeOK, history
<1>8. Connected' BY <1>1, <1>6 DEF Inv, Connected
<1>9. Lonely' BY <1>1, <1>3, <1>6 DEF Inv, Lonely, Alone, history
<1>10. StillComing' BY <1>1, <1>3, <1>6 DEF Inv, StillComing, Waits, history
<1> QED BY <1>7, <1>8, <1>9, <1>10 DEF Inv

\* A request that the broker has answered with a broadcast.
LEMMA AnsweredInv ==
    ASSUME Inv, NEW m \in Answers, m.of \in pending, Broadcast(m),
           pending' = pending \ {m.of}, UNCHANGED <<phase, mine, value, alive, calls, pinging, history>>,
           TypeOK'
    PROVE  Inv'
<1>1. Outstanding \subseteq Outstanding' \cup {m.of} /\ Outstanding' \subseteq Outstanding
      /\ m.of \in Outstanding
  BY DEF Outstanding
<1>2. \A c \in Clients :
        /\ phase[c] = "idle" => inbox'[c] = <<>>
        /\ phase[c] # "idle" =>
             inbox'[c] # <<>> /\ Queued(inbox'[c]) = Queued(inbox[c]) \cup {m}
  BY Broadcasts
<1>3. Connected' BY <1>2 DEF Inv, Connected
<1>4. Lonely'
  <2> SUFFICES ASSUME NEW d \in Clients, Alone(d)
               PROVE  /\ Outstanding' \subseteq {mine[d]}
                      /\ \A a \in Queued(inbox'[d]) : a.of = mine[d]
                      /\ phase[d] = "done" => value[d].of = mine[d]
    BY DEF Lonely, Alone, history
  <2>1. /\ Outstanding \subseteq {mine[d]}
        /\ \A a \in Queued(inbox[d]) : a.of = mine[d]
        /\ phase[d] = "done" => value[d].of = mine[d]
    BY DEF Inv, Lonely
  <2>2. m.of = mine[d] BY <1>1, <2>1
  <2>3. Queued(inbox'[d]) = Queued(inbox[d]) \cup {m} BY <1>2 DEF Alone
  <2> QED BY <1>1, <2>1, <2>2, <2>3
<1>5. StillComing' BY <1>2 DEF StillComing, Waits
<1> QED BY <1>3, <1>4, <1>5 DEF Inv

LEMMA ReplyInv == ASSUME Inv, NEW m \in replies, Reply(m) PROVE Inv'
<1>1. m \in Answers /\ m.of \in Requests BY DEF Inv, TypeOK, Answers
<1>2. replies' = replies \ {m} /\ pending' = pending \ {m.of} /\ alive
      /\ UNCHANGED <<asked, phase, mine, value, alive, calls, pinging, slow, working, kills, history>>
  BY DEF Reply
<1>3. CASE m.of \in pending
  <2>1. Broadcast(m) BY <1>3 DEF Reply, Awaited
  <2>2. inbox' \in [Clients -> Seq(Answers)] BY <1>1, <2>1, Broadcasts
  <2>3. TypeOK' BY <1>2, <2>2 DEF Inv, TypeOK, history
  <2> QED BY <1>1, <1>2, <1>3, <2>1, <2>3, AnsweredInv
<1>4. CASE m.of \notin pending
  <2>1. inbox' = inbox BY <1>4 DEF Reply, Awaited
  <2>2. pending' = pending BY <1>2, <1>4
  <2>3. Outstanding' = Outstanding BY <1>2, <2>2 DEF Outstanding
  <2>4. TypeOK' BY <1>2, <2>1, <2>2, <2>3 DEF Inv, TypeOK, history
  <2>5. Connected' BY <1>2, <2>1 DEF Inv, Connected
  <2>6. Lonely' BY <1>2, <2>1, <2>3 DEF Inv, Lonely, Alone, history
  <2>7. StillComing' BY <1>2, <2>1, <2>3 DEF Inv, StillComing, Waits, history
  <2> QED BY <2>4, <2>5, <2>6, <2>7 DEF Inv
<1> QED BY <1>3, <1>4

LEMMA TimesOutInv == ASSUME Inv, NEW r \in Requests, TimesOut(r) PROVE Inv'
<1> DEFINE m == [of |-> r, ok |-> FALSE]
<1>1. m \in Answers /\ m.of = r BY DEF Answers
<1>2. r \in pending /\ pending' = pending \ {r} /\ Broadcast(m)
      /\ UNCHANGED <<asked, phase, mine, value, alive, calls, pinging, slow, workerVars, kills, history>>
  BY DEF TimesOut, GiveUp
<1> HIDE DEF m
<1>3. inbox' \in [Clients -> Seq(Answers)] BY <1>1, <1>2, Broadcasts
<1>4. alive
  <2>1. r \in Outstanding BY <1>2 DEF Outstanding
  <2> QED BY <2>1 DEF Inv, TypeOK
<1>5. TypeOK' BY <1>2, <1>3, <1>4 DEF Inv, TypeOK, workerVars, history
<1> QED BY <1>1, <1>2, <1>5, AnsweredInv

LEMMA BrokerEndsInv == ASSUME Inv, BrokerEnds, kills' \in 0 .. MaxKills PROVE Inv'
<1>1. alive' = FALSE /\ calls' = <<>> /\ pinging' = 0 /\ pending' = {} /\ slow' = 0
      /\ working' = {} /\ replies' = {} /\ forsaken' = forsaken \cup Outstanding
      /\ UNCHANGED <<asked, clientVars, crowded>>
  BY DEF BrokerEnds
<1>2. Outstanding' = {} BY <1>1, Nothing DEF Outstanding
<1>3. Outstanding \subseteq Requests
  <2>1. Queued(calls) \subseteq Requests
    <3>1. calls \in Seq(Requests) BY DEF Inv, TypeOK
    <3>2. \A i \in DOMAIN calls : calls[i] \in Requests BY <3>1
    <3> QED BY <3>2 DEF Queued
  <2>2. {pinging} \ {0} \subseteq Requests BY BrokerAssumption DEF Inv, TypeOK, Requests
  <2> QED BY <2>1, <2>2 DEF Outstanding, Inv, TypeOK
<1>4. TypeOK'
  <2>1. 0 \in 0 .. MaxAsks /\ <<>> \in Seq(Requests) BY BrokerAssumption, Nothing
  <2> QED BY <1>1, <1>2, <1>3, <2>1 DEF Inv, TypeOK, clientVars
<1>5. Connected' BY <1>1 DEF Inv, Connected, clientVars
<1>6. Lonely' BY <1>1, <1>2 DEF Inv, Lonely, Alone, clientVars
<1>7. StillComing' BY <1>1 DEF Inv, StillComing, Waits, clientVars
<1> QED BY <1>4, <1>5, <1>6, <1>7 DEF Inv

LEMMA AnswerInv == ASSUME Inv, NEW r \in Requests, NEW ok \in BOOLEAN, Answer(r, ok) PROVE Inv'
<1>1. working' = working \ {r} /\ replies' = replies \cup {[of |-> r, ok |-> ok]}
      /\ UNCHANGED <<asked, clientVars, brokerVars, kills, history>>
  BY DEF Answer
<1>2. Outstanding' = Outstanding BY <1>1 DEF Outstanding, brokerVars
<1>3. TypeOK'
  <2>1. [of |-> r, ok |-> ok] \in Answers BY DEF Answers
  <2> QED BY <1>1, <1>2, <2>1 DEF Inv, TypeOK, clientVars, brokerVars, history
<1>4. Connected' BY <1>1 DEF Inv, Connected, clientVars
<1>5. Lonely' BY <1>1, <1>2 DEF Inv, Lonely, Alone, clientVars, history
<1>6. StillComing' BY <1>1, <1>2 DEF Inv, StillComing, Waits, clientVars, history
<1> QED BY <1>3, <1>4, <1>5, <1>6 DEF Inv
-----------------------------------------------------------------------------
LEMMA StutterInv == ASSUME Inv, UNCHANGED vars PROVE Inv'
<1>1. UNCHANGED <<asked, clientVars, brokerVars, workerVars, kills, history>> BY DEF vars
<1>2. Outstanding' = Outstanding BY <1>1 DEF Outstanding, brokerVars
<1>3. TypeOK' BY <1>1, <1>2 DEF Inv, TypeOK, clientVars, brokerVars, workerVars, history
<1>4. Connected' BY <1>1 DEF Inv, Connected, clientVars
<1>5. Lonely' BY <1>1, <1>2 DEF Inv, Lonely, Alone, clientVars, history
<1>6. StillComing' BY <1>1, <1>2 DEF Inv, StillComing, Waits, clientVars, history
<1> QED BY <1>3, <1>4, <1>5, <1>6 DEF Inv

\* Every step of the processes, the broker and the workers keeps the invariant.
THEOREM Invariance == Spec => []Inv
<1>1. Inv /\ [Next]_vars => Inv'
  <2> SUFFICES ASSUME Inv, [Next]_vars PROVE Inv' OBVIOUS
  <2>1. ASSUME NEW c \in Clients, Ask(c) PROVE Inv' BY <2>1, AskInv
  <2>2. ASSUME NEW c \in Clients, CallEnds(c) PROVE Inv' BY <2>2, CallEndsInv
  <2>3. ASSUME NEW c \in Clients, Look(c) PROVE Inv' BY <2>3, LookInv
  <2>4. ASSUME NEW c \in Clients, Leave(c) PROVE Inv' BY <2>4, LeaveInv
  <2>5. ASSUME TakeCall PROVE Inv' BY <2>5, TakeCallInv
  <2>6. ASSUME NEW late \in BOOLEAN, PingEnds(late) PROVE Inv' BY <2>6, PingEndsInv
  <2>7. ASSUME NEW m \in replies, Reply(m) PROVE Inv' BY <2>7, ReplyInv
  <2>8. ASSUME NEW r \in Requests, TimesOut(r) PROVE Inv' BY <2>8, TimesOutInv
  <2>9. ASSUME NEW r \in Requests, NEW ok \in BOOLEAN, Answer(r, ok) PROVE Inv'
    BY <2>9, AnswerInv
  <2>10. ASSUME Idles PROVE Inv'
    <3>1. kills' \in 0 .. MaxKills BY <2>10 DEF Idles, Inv, TypeOK
    <3> QED BY <2>10, <3>1, BrokerEndsInv DEF Idles
  <2>11. ASSUME Killed PROVE Inv'
    <3>1. kills' \in 0 .. MaxKills BY <2>11, BrokerAssumption DEF Killed, Inv, TypeOK
    <3> QED BY <2>11, <3>1, BrokerEndsInv DEF Killed
  <2>12. CASE UNCHANGED vars BY <2>12, StutterInv
  <2> QED BY <2>1, <2>2, <2>3, <2>4, <2>5, <2>6, <2>7, <2>8, <2>9, <2>10, <2>11, <2>12 DEF Next
<1> QED BY <1>1, InitInv, PTL DEF Spec

\* What a process, the broker and the workers hold are requests and answers,
\* and no request is with a broker that has ended.
THEOREM TypeCorrect == Spec => []TypeOK
<1>1. Inv => TypeOK BY DEF Inv
<1> QED BY <1>1, Invariance, PTL

\* A process whose request was the only one gets what came of that request.
THEOREM TheAnswerIsRight == Spec => []RightAnswer
<1>1. Inv => RightAnswer BY DEF Inv, Lonely, Alone, RightAnswer
<1> QED BY <1>1, Invariance, PTL

\* No process waits for nothing while its broker lives.
THEOREM TheAnswerIsComing == Spec => []StillComing
<1>1. Inv => StillComing BY DEF Inv
<1> QED BY <1>1, Invariance, PTL
=============================================================================
