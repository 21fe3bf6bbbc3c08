--------------------------- MODULE ConnectionsProofs ---------------------------
(***************************************************************************)
(* Proofs about Connections, for any clients, streams and table size.      *)
(***************************************************************************)
EXTENDS ConnectionsProps, TLAPS

-----------------------------------------------------------------------------
(***************************************************************************)
(* Steps of one connection.                                                *)
(***************************************************************************)

\* Everything a connection's own task, its request tasks and its library do.
Own(c) ==
  \/ Break(c) \/ Handshake(c) \/ Setup(c) \/ OpeningFails(c)
  \/ ParseFails(c) \/ LoopEnds(c) \/ Stick(c) \/ BadStream(c)
  \/ \E s \in Streams : Request(c, s) \/ Fetch(c, s) \/ Answer(c, s)

\* Types of the values the steps store.
LEMMA FreshTypes == NoConn \in ConnType /\ NoStreams \in [Streams -> {"none", "run", "fetch"}]
BY DEF NoConn, ConnType, NoStreams, Doors

\* Such a step changes this connection only, with values of the right types.
LEMMA OwnSteps ==
  ASSUME TypeOK, NEW c \in Clients, Own(c)
  PROVE  /\ UNCHANGED <<door, queue, here>>
         /\ conn' \in [Clients -> ConnType]
         /\ strm' \in [Clients -> [Streams -> {"none", "run", "fetch"}]]
         /\ \A e \in Clients \ {c} : conn'[e] = conn[e] /\ strm'[e] = strm[e]
<1>0. /\ conn \in [Clients -> ConnType] /\ conn[c] \in ConnType
      /\ strm \in [Clients -> [Streams -> {"none", "run", "fetch"}]]
      /\ strm[c] \in [Streams -> {"none", "run", "fetch"}]
  BY DEF TypeOK
<1>1. CASE Break(c)
  BY <1>0, <1>1 DEF Break, ConnType
<1>2. CASE Handshake(c)
  BY <1>0, <1>2 DEF Handshake, ConnType
<1>3. CASE Setup(c)
  BY <1>0, <1>3 DEF Setup, ConnType
<1>4. CASE OpeningFails(c) \/ ParseFails(c) \/ LoopEnds(c) \/ BadStream(c)
  BY <1>0, <1>4, FreshTypes DEF OpeningFails, ParseFails, LoopEnds, BadStream, End
<1>5. ASSUME NEW s \in Streams, Request(c, s) \/ Fetch(c, s) \/ Answer(c, s)
      PROVE  /\ UNCHANGED <<door, queue, here>>
             /\ conn' \in [Clients -> ConnType]
             /\ strm' \in [Clients -> [Streams -> {"none", "run", "fetch"}]]
             /\ \A e \in Clients \ {c} : conn'[e] = conn[e] /\ strm'[e] = strm[e]
  <2>1. CASE Request(c, s)
    BY <1>0, <2>1 DEF Request, ConnType
  <2>2. CASE Fetch(c, s)
    BY <1>0, <2>2 DEF Fetch
  <2>3. CASE Answer(c, s)
    BY <1>0, <2>3, FreshTypes DEF Answer, StreamDone
  <2> QED BY <1>5, <2>1, <2>2, <2>3
<1>6. CASE Stick(c)
  BY <1>0, <1>6 DEF Stick, ConnType
<1> QED BY <1>1, <1>2, <1>3, <1>4, <1>5, <1>6 DEF Own

\* The steps, sorted by what they touch.
LEMMA StepKinds ==
  ASSUME [Next]_vars
  PROVE  \/ UNCHANGED <<queue, conn, strm>> /\ UNCHANGED <<door, here>>
         \/ \E d \in Doors : Listen(d) \/ ListenFails(d)
         \/ \E d \in Doors : Accept(d)
         \/ \E c \in Clients, d \in Doors : Connect(c, d)
         \/ \E c \in Clients : Leave(c)
         \/ \E c \in Clients : Own(c)
BY DEF Next, Own, AcceptFails, LoopSpins, vars

-----------------------------------------------------------------------------
(***************************************************************************)
(* Type correctness.                                                       *)
(***************************************************************************)

\* Listeners, connections and request tasks are always where their code can be.
THEOREM TypeCorrect == Spec => []TypeOK
<1>1. Init => TypeOK
  BY FreshTypes DEF Init, TypeOK, Doors
<1>2. TypeOK /\ [Next]_vars => TypeOK'
  <2> SUFFICES ASSUME TypeOK, [Next]_vars PROVE TypeOK'
    OBVIOUS
  <2>1. CASE UNCHANGED <<queue, conn, strm>> /\ UNCHANGED <<door, here>>
    BY <2>1 DEF TypeOK
  <2>2. ASSUME NEW d \in Doors, Listen(d) \/ ListenFails(d) PROVE TypeOK'
    BY <2>2 DEF Listen, ListenFails, TypeOK
  <2>3. ASSUME NEW d \in Doors, Accept(d) PROVE TypeOK'
    <3>1. queue[d] \in Seq(Clients) /\ queue[d] # <<>>
      BY <2>3 DEF Accept, TypeOK
    <3>2. Head(queue[d]) \in Clients /\ Tail(queue[d]) \in Seq(Clients)
      BY <3>1
    <3>3. queue' \in [Doors -> Seq(Clients)]
      BY <2>3, <3>2 DEF Accept, TypeOK
    <3>4. conn[Head(queue[d])] \in ConnType
      BY <3>2 DEF TypeOK
    <3>5. conn' \in [Clients -> ConnType]
      BY <2>3, <3>2, <3>4 DEF Accept, TypeOK, ConnType
    <3> QED BY <2>3, <3>3, <3>5 DEF Accept, TypeOK
  <2>4. ASSUME NEW c \in Clients, NEW d \in Doors, Connect(c, d) PROVE TypeOK'
    <3>1. [NoConn EXCEPT !.at = "queued", !.via = d] \in ConnType
      BY DEF NoConn, ConnType, Doors
    <3>2. Append(queue[d], c) \in Seq(Clients)
      BY DEF TypeOK
    <3> QED BY <2>4, <3>1, <3>2 DEF Connect, TypeOK
  <2>5. ASSUME NEW c \in Clients, Leave(c) PROVE TypeOK'
    BY <2>5 DEF Leave, TypeOK
  <2>6. ASSUME NEW c \in Clients, Own(c) PROVE TypeOK'
    BY <2>6, OwnSteps DEF TypeOK
  <2> QED BY <2>1, <2>2, <2>3, <2>4, <2>5, <2>6, StepKinds
<1> QED BY <1>1, <1>2, PTL DEF Spec

-----------------------------------------------------------------------------
(***************************************************************************)
(* Queues and those who wait.                                              *)
(***************************************************************************)

\* The same of the next state.
StillWaits(c, d) == conn'[c].at = "queued" /\ conn'[c].via = d

\* Queues and waiting connections stay in step.
LEMMA QueueStep == TypeOK /\ QueueSound /\ [Next]_vars => QueueSound'
<1> SUFFICES ASSUME TypeOK, QueueSound, [Next]_vars PROVE QueueSound'
  OBVIOUS
<1>0. /\ queue \in [Doors -> Seq(Clients)] /\ conn \in [Clients -> ConnType]
      /\ \A d \in Doors : \A i \in 1 .. Len(queue[d]) : queue[d][i] \in Clients
  BY DEF TypeOK
<1>1. ASSUME queue' = queue,
             \A d \in Doors : \A i \in 1 .. Len(queue[d]) :
               conn'[queue[d][i]] = conn[queue[d][i]]
      PROVE  QueueSound'
  BY <1>1 DEF QueueSound, Waits
<1>2. CASE UNCHANGED <<queue, conn, strm>>
  BY <1>1, <1>2
<1>3. ASSUME NEW d \in Doors, Listen(d) \/ ListenFails(d) PROVE QueueSound'
  BY <1>1, <1>3 DEF Listen, ListenFails
<1>4. ASSUME NEW c \in Clients, Leave(c) PROVE QueueSound'
  BY <1>1, <1>4 DEF Leave
<1>5. ASSUME NEW c \in Clients, Own(c) PROVE QueueSound'
  <2>1. conn[c].at # "queued" \/ conn'[c] = conn[c]
    BY <1>5 DEF Own, Break, Handshake, Setup, OpeningFails, ParseFails, LoopEnds,
                Stick, BadStream, Request, Fetch, Answer, StreamDone
  <2>2. ASSUME NEW d \in Doors, NEW i \in 1 .. Len(queue[d])
        PROVE  conn'[queue[d][i]] = conn[queue[d][i]]
    <3>1. queue[d][i] \in Clients /\ conn[queue[d][i]].at = "queued"
      BY <1>0, <2>2 DEF QueueSound, Waits
    <3> QED BY <1>5, <2>1, <3>1, OwnSteps
  <2> QED BY <1>1, <1>5, <2>2, OwnSteps
<1>6. ASSUME NEW c \in Clients, NEW d \in Doors, Connect(c, d) PROVE QueueSound'
  <2>1. /\ queue' = [queue EXCEPT ![d] = Append(queue[d], c)]
        /\ conn' = [conn EXCEPT ![c] = [NoConn EXCEPT !.at = "queued", !.via = d]]
        /\ conn[c].at = "none"
    BY <1>6 DEF Connect
  <2>2. StillWaits(c, d)
    BY <1>0, <2>1 DEF StillWaits, NoConn
  <2>3. ASSUME NEW e \in Doors, NEW i \in 1 .. Len(queue[e])
        PROVE  queue[e][i] # c /\ StillWaits(queue[e][i], e)
    <3>1. Waits(queue[e][i], e) /\ queue[e][i] \in Clients
      BY <1>0, <2>3 DEF QueueSound
    <3>2. queue[e][i] # c
      BY <2>1, <3>1 DEF Waits
    <3> QED BY <1>0, <2>1, <3>1, <3>2 DEF Waits, StillWaits
  <2>4. ASSUME NEW e \in Doors
        PROVE  /\ \A i \in 1 .. Len(queue'[e]) : StillWaits(queue'[e][i], e)
               /\ \A i, j \in 1 .. Len(queue'[e]) : queue'[e][i] = queue'[e][j] => i = j
    <3>1. CASE e # d
      <4>1. queue'[e] = queue[e]
        BY <1>0, <2>1, <3>1
      <4> QED BY <2>3, <4>1 DEF QueueSound
    <3>2. CASE e = d
      <4>1. queue[d] \in Seq(Clients) /\ queue'[d] = Append(queue[d], c)
        BY <1>0, <2>1
      <4>2. /\ Len(queue'[d]) = Len(queue[d]) + 1 /\ Len(queue[d]) \in Nat
            /\ \A i \in 1 .. Len(queue[d]) : queue'[d][i] = queue[d][i]
            /\ queue'[d][Len(queue[d]) + 1] = c
        BY <4>1
      <4>3. ASSUME NEW i \in 1 .. Len(queue'[d]) PROVE StillWaits(queue'[d][i], d)
        BY <2>2, <2>3, <4>2
      <4>4. ASSUME NEW i \in 1 .. Len(queue'[d]), NEW j \in 1 .. Len(queue'[d]),
                   queue'[d][i] = queue'[d][j]
            PROVE  i = j
        <5>1. \A k \in 1 .. Len(queue[d]) : queue'[d][k] # c
          BY <2>3, <4>2
        <5>2. CASE i = Len(queue[d]) + 1 \/ j = Len(queue[d]) + 1
          BY <4>2, <4>4, <5>1, <5>2
        <5>3. CASE i \in 1 .. Len(queue[d]) /\ j \in 1 .. Len(queue[d])
          BY <4>2, <4>4, <5>3 DEF QueueSound
        <5> QED BY <4>2, <5>2, <5>3
      <4> QED BY <3>2, <4>3, <4>4
    <3> QED BY <3>1, <3>2
  <2> QED BY <2>4 DEF QueueSound, Waits, StillWaits
<1>7. ASSUME NEW d \in Doors, Accept(d) PROVE QueueSound'
  <2> DEFINE c == Head(queue[d])
  <2>1. /\ queue' = [queue EXCEPT ![d] = Tail(queue[d])]
        /\ queue[d] \in Seq(Clients) /\ queue[d] # <<>>
        /\ \A e \in Clients \ {c} : conn'[e] = conn[e]
    BY <1>0, <1>7 DEF Accept
  <2>2. /\ Len(queue[d]) \in Nat /\ Len(queue[d]) >= 1 /\ c = queue[d][1]
        /\ Len(Tail(queue[d])) = Len(queue[d]) - 1
        /\ \A i \in 1 .. Len(queue[d]) - 1 : Tail(queue[d])[i] = queue[d][i + 1]
    BY <2>1
  <2>3. Waits(c, d)
    BY <2>2 DEF QueueSound
  <2>4. ASSUME NEW e \in Doors, NEW i \in 1 .. Len(queue[e]), e # d \/ i # 1
        PROVE  StillWaits(queue[e][i], e)
    <3>1. Waits(queue[e][i], e) /\ queue[e][i] \in Clients
      BY <1>0, <2>4 DEF QueueSound
    <3>2. queue[e][i] # c
      BY <2>2, <2>3, <2>4, <3>1 DEF QueueSound, Waits
    <3> QED BY <2>1, <3>1, <3>2 DEF Waits, StillWaits
  <2> HIDE DEF c
  <2>5. ASSUME NEW e \in Doors
        PROVE  /\ \A i \in 1 .. Len(queue'[e]) : StillWaits(queue'[e][i], e)
               /\ \A i, j \in 1 .. Len(queue'[e]) : queue'[e][i] = queue'[e][j] => i = j
    <3>1. CASE e # d
      <4>1. queue'[e] = queue[e]
        BY <1>0, <2>1, <3>1
      <4> QED BY <2>4, <3>1, <4>1 DEF QueueSound
    <3>2. CASE e = d
      <4>1. queue'[d] = Tail(queue[d])
        BY <1>0, <2>1
      <4>2. ASSUME NEW i \in 1 .. Len(queue'[d]) PROVE StillWaits(queue'[d][i], d)
        <5>1. i + 1 \in 1 .. Len(queue[d]) /\ i + 1 # 1 /\ queue'[d][i] = queue[d][i + 1]
          BY <2>2, <4>1, <4>2
        <5> QED BY <2>4, <5>1
      <4>3. ASSUME NEW i \in 1 .. Len(queue'[d]), NEW j \in 1 .. Len(queue'[d]),
                   queue'[d][i] = queue'[d][j]
            PROVE  i = j
        BY <2>2, <4>1, <4>3 DEF QueueSound
      <4> QED BY <3>2, <4>2, <4>3
    <3> QED BY <3>1, <3>2
  <2> QED BY <2>5 DEF QueueSound, Waits, StillWaits
<1> QED BY <1>2, <1>3, <1>4, <1>5, <1>6, <1>7, StepKinds

\* A step that touches neither the queues nor who waits in them, and closes no
\* listener, forgets nobody.
LEMMA SameBacklog ==
  ASSUME NobodyForgotten, queue' = queue,
         \A d \in Doors : door[d] = "open" => door'[d] = "open",
         \A c \in Clients, d \in Doors : StillWaits(c, d) => Waits(c, d)
  PROVE  NobodyForgotten'
<1> SUFFICES ASSUME NEW c \in Clients, NEW d \in Doors, StillWaits(c, d)
             PROVE  door'[d] = "open" /\ \E i \in 1 .. Len(queue'[d]) : queue'[d][i] = c
  BY DEF NobodyForgotten, Waits, StillWaits
<1> QED BY DEF NobodyForgotten

\* Whoever begins to wait does so at the end of a queue, and whoever leaves a queue
\* waits no more.
LEMMA BacklogStep == TypeOK /\ QueueSound /\ NobodyForgotten /\ [Next]_vars => NobodyForgotten'
<1> SUFFICES ASSUME TypeOK, QueueSound, NobodyForgotten, [Next]_vars PROVE NobodyForgotten'
  OBVIOUS
<1>0. /\ queue \in [Doors -> Seq(Clients)] /\ conn \in [Clients -> ConnType]
      /\ door \in [Doors -> {"off", "down", "open", "failed"}]
  BY DEF TypeOK
<1>1. CASE UNCHANGED <<queue, conn, strm>> /\ UNCHANGED <<door, here>>
  BY <1>1, SameBacklog DEF Waits, StillWaits
<1>2. ASSUME NEW d \in Doors, Listen(d) \/ ListenFails(d) PROVE NobodyForgotten'
  <2>1. /\ queue' = queue /\ conn' = conn
        /\ \A e \in Doors : door[e] = "open" => door'[e] = "open"
    BY <1>0, <1>2 DEF Listen, ListenFails
  <2> QED BY <2>1, SameBacklog DEF Waits, StillWaits
<1>3. ASSUME NEW c \in Clients, Leave(c) PROVE NobodyForgotten'
  BY <1>3, SameBacklog DEF Leave, Waits, StillWaits
<1>4. ASSUME NEW c \in Clients, Own(c) PROVE NobodyForgotten'
  <2>1. conn'[c].at # "queued" \/ conn'[c] = conn[c]
    <3>0. conn[c] \in ConnType
      BY <1>0
    <3>1. CASE Break(c)
      BY <1>0, <3>0, <3>1 DEF Break, ConnType
    <3>2. CASE Handshake(c)
      BY <1>0, <3>0, <3>2 DEF Handshake, ConnType
    <3>3. CASE Setup(c)
      BY <1>0, <3>0, <3>3 DEF Setup, ConnType
    <3>4. CASE OpeningFails(c) \/ ParseFails(c) \/ LoopEnds(c) \/ BadStream(c)
      BY <1>0, <3>4 DEF OpeningFails, ParseFails, LoopEnds, BadStream, End, NoConn
    <3>5. ASSUME NEW s \in Streams, Request(c, s) \/ Fetch(c, s) \/ Answer(c, s)
          PROVE  conn'[c].at # "queued" \/ conn'[c] = conn[c]
      <4>1. CASE Request(c, s)
        BY <1>0, <3>0, <4>1 DEF Request, ConnType
      <4>2. CASE Fetch(c, s)
        BY <4>2 DEF Fetch
      <4>3. CASE Answer(c, s)
        BY <1>0, <4>3 DEF Answer, StreamDone, NoConn
      <4> QED BY <3>5, <4>1, <4>2, <4>3
    <3>6. CASE Stick(c)
      BY <1>0, <3>0, <3>6 DEF Stick, ConnType
    <3> QED BY <1>4, <3>1, <3>2, <3>3, <3>4, <3>5, <3>6 DEF Own
  <2>2. ASSUME NEW e \in Clients, NEW d \in Doors, StillWaits(e, d) PROVE Waits(e, d)
    <3>1. CASE e = c
      BY <2>1, <2>2, <3>1 DEF Waits, StillWaits
    <3>2. CASE e # c
      BY <1>4, <2>2, <3>2, OwnSteps DEF Waits, StillWaits
    <3> QED BY <3>1, <3>2
  <2> QED BY <1>4, <2>2, OwnSteps, SameBacklog
<1>5. ASSUME NEW c \in Clients, NEW d \in Doors, Connect(c, d) PROVE NobodyForgotten'
  <2>1. /\ queue' = [queue EXCEPT ![d] = Append(queue[d], c)]
        /\ conn' = [conn EXCEPT ![c] = [NoConn EXCEPT !.at = "queued", !.via = d]]
        /\ door' = door /\ door[d] = "open"
    BY <1>5 DEF Connect
  <2>2. /\ queue'[d] = Append(queue[d], c) /\ queue[d] \in Seq(Clients)
        /\ \A e \in Doors : e # d => queue'[e] = queue[e]
    BY <1>0, <2>1
  <2>3. /\ Len(queue'[d]) = Len(queue[d]) + 1 /\ Len(queue[d]) \in Nat
        /\ \A i \in 1 .. Len(queue[d]) : queue'[d][i] = queue[d][i]
        /\ queue'[d][Len(queue[d]) + 1] = c
    BY <2>2
  <2>4. ASSUME NEW x \in Clients, NEW e \in Doors, StillWaits(x, e)
        PROVE  door'[e] = "open" /\ \E i \in 1 .. Len(queue'[e]) : queue'[e][i] = x
    <3>1. CASE x = c
      <4>1. e = d
        BY <1>0, <2>1, <2>4, <3>1 DEF StillWaits, NoConn
      <4>2. Len(queue[d]) + 1 \in 1 .. Len(queue'[d])
        BY <2>3
      <4> QED BY <2>1, <2>3, <3>1, <4>1, <4>2
    <3>2. CASE x # c
      <4>1. Waits(x, e)
        BY <1>0, <2>1, <2>4, <3>2 DEF Waits, StillWaits
      <4>2. PICK i \in 1 .. Len(queue[e]) : queue[e][i] = x
        BY <4>1 DEF NobodyForgotten
      <4>3. i \in 1 .. Len(queue'[e]) /\ queue'[e][i] = x
        BY <2>2, <2>3, <4>2
      <4> QED BY <2>1, <4>1, <4>3 DEF NobodyForgotten
    <3> QED BY <3>1, <3>2
  <2> QED BY <2>4 DEF NobodyForgotten, Waits, StillWaits
<1>6. ASSUME NEW d \in Doors, Accept(d) PROVE NobodyForgotten'
  <2> DEFINE c == Head(queue[d])
  <2>1. /\ queue' = [queue EXCEPT ![d] = Tail(queue[d])]
        /\ queue[d] \in Seq(Clients) /\ queue[d] # <<>>
        /\ conn' = [conn EXCEPT ![c].at = IF d = "plain" THEN "open" ELSE "handshake"]
        /\ door' = door
    BY <1>0, <1>6 DEF Accept
  <2>2. /\ Len(queue[d]) \in Nat /\ Len(queue[d]) >= 1 /\ c = queue[d][1] /\ c \in Clients
        /\ Len(Tail(queue[d])) = Len(queue[d]) - 1
        /\ \A i \in 1 .. Len(queue[d]) - 1 : Tail(queue[d])[i] = queue[d][i + 1]
    BY <2>1
  <2> HIDE DEF c
  <2>3. ASSUME NEW x \in Clients, NEW e \in Doors, StillWaits(x, e)
        PROVE  door'[e] = "open" /\ \E i \in 1 .. Len(queue'[e]) : queue'[e][i] = x
    <3>1. x # c
      BY <1>0, <2>1, <2>2, <2>3 DEF StillWaits, ConnType
    <3>2. Waits(x, e)
      BY <1>0, <2>1, <2>3, <3>1 DEF Waits, StillWaits
    <3>3. PICK i \in 1 .. Len(queue[e]) : queue[e][i] = x
      BY <3>2 DEF NobodyForgotten
    <3>4. CASE e # d
      <4>1. queue'[e] = queue[e]
        BY <1>0, <2>1, <3>4
      <4> QED BY <2>1, <3>2, <3>3, <4>1 DEF NobodyForgotten
    <3>5. CASE e = d
      <4>1. queue'[d] = Tail(queue[d])
        BY <1>0, <2>1
      <4>2. i # 1
        BY <2>2, <3>1, <3>3, <3>5
      <4>3. i - 1 \in 1 .. Len(queue'[d]) /\ queue'[d][i - 1] = x
        BY <2>2, <3>3, <3>5, <4>1, <4>2
      <4> QED BY <2>1, <3>2, <3>5, <4>3 DEF NobodyForgotten
    <3> QED BY <3>4, <3>5
  <2> QED BY <2>3 DEF NobodyForgotten, Waits, StillWaits
<1> QED BY <1>1, <1>2, <1>3, <1>4, <1>5, <1>6, StepKinds

\* Errors of accept cost nobody a place in the queue, and no listener its loop
\* (listener.rs:116-118).
THEOREM BacklogIsKept == Spec => []BacklogKept
<1>1. Init => BacklogKept
  BY DEF Init, BacklogKept, QueueSound, NobodyForgotten, Waits, NoConn
<1>2. TypeOK /\ BacklogKept /\ [Next]_vars => BacklogKept'
  BY QueueStep, BacklogStep DEF BacklogKept
<1> QED BY <1>1, <1>2, TypeCorrect, PTL DEF Spec

-----------------------------------------------------------------------------
(***************************************************************************)
(* Requests and their connections.  A connection that is not open yet has  *)
(* no requests, and an HTTP/1.1 connection has at most one, ever.          *)
(***************************************************************************)

ConnSound(c) ==
  /\ conn[c].at \in {"queued", "handshake", "setup"} => strm[c] = NoStreams /\ ~ conn[c].asked
  /\ conn[c].at = "queued" => conn[c].proto = "h1"
  /\ conn[c].at = "setup" => conn[c].proto # "h1"
  /\ conn[c].at = "open" /\ conn[c].proto = "h1" =>
       /\ ~ conn[c].asked => strm[c] = NoStreams
       /\ \A s, t \in Streams : strm[c][s] # "none" /\ strm[c][t] # "none" => s = t

AllSound == \A c \in Clients : ConnSound(c)

\* No step of a connection's own breaks this, and what ends the connection
\* finds its requests done or the connection lost.
LEMMA OwnSound ==
  ASSUME TypeOK, NEW c \in Clients, ConnSound(c), Own(c)
  PROVE  /\ ConnSound(c)'
         /\ conn[c].at = "open" /\ conn[c].proto # "h3" /\ conn'[c].at # "open"
              => Lost(c) \/ strm'[c] = NoStreams
<1>0. /\ conn \in [Clients -> ConnType] /\ conn[c] \in ConnType
      /\ strm \in [Clients -> [Streams -> {"none", "run", "fetch"}]]
      /\ strm[c] \in [Streams -> {"none", "run", "fetch"}]
  BY DEF TypeOK
<1>1. CASE Break(c)
  <2>1. conn'[c] = [conn[c] EXCEPT !.broken = TRUE] /\ strm' = strm
    BY <1>0, <1>1 DEF Break
  <2> QED BY <1>0, <1>1, <2>1 DEF ConnSound, ConnType, Break
<1>2. CASE Handshake(c)
  <2>0. PICK p \in {"h1", "h2", "h3"} :
          conn' = [conn EXCEPT ![c].proto = p,
                               ![c].at = IF p = "h1" THEN "open" ELSE "setup"]
    BY <1>2 DEF Handshake
  <2>1. conn'[c] = [conn[c] EXCEPT !.proto = p, !.at = IF p = "h1" THEN "open" ELSE "setup"]
    BY <1>0, <2>0
  <2>2. strm' = strm /\ conn[c].at = "handshake"
    BY <1>2 DEF Handshake
  <2> QED BY <1>0, <2>1, <2>2 DEF ConnSound, ConnType, NoStreams
<1>3. CASE Setup(c)
  <2>1. conn'[c] = [conn[c] EXCEPT !.at = "open"] /\ strm' = strm /\ conn[c].at = "setup"
    BY <1>0, <1>3 DEF Setup
  <2> QED BY <1>0, <2>1 DEF ConnSound, ConnType
<1>4. ASSUME End(c), conn[c].at # "open" \/ conn[c].proto = "h3" \/ Lost(c) \/ strm[c] = NoStreams
      PROVE  /\ ConnSound(c)'
             /\ conn[c].at = "open" /\ conn[c].proto # "h3" => Lost(c) \/ strm'[c] = NoStreams
  <2>1. conn'[c] = NoConn /\ strm' = strm
    BY <1>0, <1>4 DEF End
  <2> QED BY <1>4, <2>1 DEF ConnSound, NoConn
<1>5. CASE OpeningFails(c)
  BY <1>4, <1>5 DEF OpeningFails
<1>6. CASE ParseFails(c)
  BY <1>4, <1>6 DEF ParseFails, ConnSound
<1>7. CASE LoopEnds(c) \/ BadStream(c)
  BY <1>4, <1>7 DEF LoopEnds, BadStream
<1>8. ASSUME NEW s \in Streams, Request(c, s)
      PROVE  ConnSound(c)' /\ conn'[c].at = conn[c].at
  <2>1. /\ conn'[c] = [conn[c] EXCEPT !.asked = (conn[c].proto = "h1")]
        /\ strm'[c] = [strm[c] EXCEPT ![s] = "run"]
        /\ conn[c].at = "open" /\ (conn[c].proto = "h1" => ~ conn[c].asked)
    BY <1>0, <1>8 DEF Request
  <2>2. conn'[c].at = "open" /\ conn'[c].proto = conn[c].proto
        /\ (conn[c].proto = "h1" => conn'[c].asked)
    BY <1>0, <2>1 DEF ConnType
  <2>3. conn[c].proto = "h1" =>
          \A u, t \in Streams : strm'[c][u] # "none" /\ strm'[c][t] # "none" => u = t
    BY <1>0, <2>1 DEF ConnSound, NoStreams
  <2> QED BY <2>1, <2>2, <2>3 DEF ConnSound
<1>9. ASSUME NEW s \in Streams, Fetch(c, s)
      PROVE  ConnSound(c)' /\ conn'[c].at = conn[c].at
  <2>1. conn' = conn /\ strm[c][s] = "run" /\ strm'[c] = [strm[c] EXCEPT ![s] = "fetch"]
    BY <1>0, <1>9 DEF Fetch
  <2>2. strm[c] # NoStreams
    BY <2>1 DEF NoStreams
  <2> QED BY <1>0, <2>1, <2>2 DEF ConnSound
<1>10. ASSUME NEW s \in Streams, Answer(c, s)
       PROVE  ConnSound(c)' /\ (conn'[c].at = conn[c].at \/ strm'[c] = NoStreams)
  <2>1. /\ strm[c][s] # "none" /\ strm'[c] = [strm[c] EXCEPT ![s] = "none"]
        /\ conn'[c] = IF conn[c].at = "open" /\ conn[c].proto = "h1" THEN NoConn ELSE conn[c]
    BY <1>0, <1>10 DEF Answer, StreamDone
  <2>2. CASE conn[c].at = "open" /\ conn[c].proto = "h1"
    <3>1. \A t \in Streams : strm'[c][t] = "none"
      BY <1>0, <2>1, <2>2 DEF ConnSound
    <3>2. strm'[c] = NoStreams
      BY <1>0, <2>1, <3>1 DEF NoStreams
    <3> QED BY <2>1, <2>2, <3>2 DEF ConnSound, NoConn
  <2>3. CASE ~ (conn[c].at = "open" /\ conn[c].proto = "h1")
    <3>1. strm[c] # NoStreams
      BY <2>1 DEF NoStreams
    <3> QED BY <2>1, <2>3, <3>1 DEF ConnSound
  <2> QED BY <2>2, <2>3
<1>11. CASE Stick(c)
  <2>1. conn'[c] = [conn[c] EXCEPT !.stuck = TRUE] /\ strm' = strm
    BY <1>0, <1>11 DEF Stick
  <2> QED BY <1>0, <1>11, <2>1 DEF ConnSound, ConnType, Stick
<1> QED BY <1>1, <1>2, <1>3, <1>5, <1>6, <1>7, <1>8, <1>9, <1>10, <1>11
        DEF Own, Break, Handshake, Setup

\* Nor does a step of anybody else.
LEMMA SoundStep ==
  TypeOK /\ QueueSound /\ AllSound /\ [Next]_vars =>
    /\ AllSound'
    /\ \A c \in Clients :
         conn[c].at = "open" /\ conn[c].proto # "h3" /\ conn'[c].at # "open"
           => Lost(c) \/ strm'[c] = NoStreams
<1> DEFINE Kept(c) == conn[c].at = "open" /\ conn[c].proto # "h3" /\ conn'[c].at # "open"
                        => Lost(c) \/ strm'[c] = NoStreams
<1> SUFFICES ASSUME TypeOK, QueueSound, AllSound, [Next]_vars, NEW c \in Clients
             PROVE  ConnSound(c)' /\ Kept(c)
  BY DEF AllSound
<1>0. ConnSound(c) /\ conn[c] \in ConnType /\ conn \in [Clients -> ConnType]
  BY DEF AllSound, TypeOK
<1>1. ASSUME conn'[c] = conn[c], strm'[c] = strm[c] PROVE ConnSound(c)' /\ Kept(c)
  BY <1>0, <1>1 DEF ConnSound
<1>2. CASE UNCHANGED <<queue, conn, strm>>
  BY <1>1, <1>2
<1>3. ASSUME NEW d \in Doors, Listen(d) \/ ListenFails(d) PROVE ConnSound(c)' /\ Kept(c)
  BY <1>1, <1>3 DEF Listen, ListenFails
<1>4. ASSUME NEW e \in Clients, Leave(e) PROVE ConnSound(c)' /\ Kept(c)
  BY <1>1, <1>4 DEF Leave
<1>5. ASSUME NEW e \in Clients, Own(e) PROVE ConnSound(c)' /\ Kept(c)
  <2>1. CASE e = c
    BY <1>0, <1>5, <2>1, OwnSound
  <2>2. CASE e # c
    BY <1>1, <1>5, <2>2, OwnSteps
  <2> QED BY <2>1, <2>2
<1>6. ASSUME NEW e \in Clients, NEW d \in Doors, Connect(e, d) PROVE ConnSound(c)' /\ Kept(c)
  <2>1. CASE e = c
    <3>1. /\ conn'[c] = [NoConn EXCEPT !.at = "queued", !.via = d]
          /\ conn[c].at = "none" /\ strm[c] = NoStreams /\ strm' = strm
      BY <1>0, <1>6, <2>1 DEF Connect
    <3> QED BY <3>1 DEF ConnSound, NoConn
  <2>2. CASE e # c
    BY <1>0, <1>1, <1>6, <2>2 DEF Connect
  <2> QED BY <2>1, <2>2
<1>7. ASSUME NEW d \in Doors, Accept(d) PROVE ConnSound(c)' /\ Kept(c)
  <2>1. queue[d] \in Seq(Clients) /\ queue[d] # <<>> /\ strm' = strm
    BY <1>7 DEF Accept, TypeOK
  <2>2. CASE c = Head(queue[d])
    <3>1. c = queue[d][1] /\ 1 \in 1 .. Len(queue[d])
      BY <2>1, <2>2
    <3>2. conn[c].at = "queued"
      BY <3>1 DEF QueueSound, Waits
    <3>3. conn'[c] = [conn[c] EXCEPT !.at = IF d = "plain" THEN "open" ELSE "handshake"]
      BY <1>0, <1>7, <2>2 DEF Accept
    <3>4. strm[c] = NoStreams /\ ~ conn[c].asked /\ conn[c].proto = "h1"
      BY <1>0, <3>2 DEF ConnSound
    <3> QED BY <1>0, <2>1, <3>2, <3>3, <3>4 DEF ConnSound, ConnType, NoStreams
  <2>3. CASE c # Head(queue[d])
    <3>1. conn'[c] = conn[c]
      BY <1>0, <1>7, <2>3 DEF Accept
    <3> QED BY <1>1, <2>1, <3>1
  <2> QED BY <2>2, <2>3
<1> QED BY <1>2, <1>3, <1>4, <1>5, <1>6, <1>7, StepKinds

\* As long as its client is there and the connection works, an HTTP/1.1 or
\* HTTP/2 connection is not ended under a request.
THEOREM RequestsKeepConnection == Spec => ConnectionOutlivesRequests
<1>1. Init => QueueSound /\ AllSound
  BY DEF Init, QueueSound, AllSound, ConnSound, NoConn
<1>2. TypeOK /\ QueueSound /\ AllSound /\ [Next]_vars =>
        [\A c \in Clients :
           conn[c].at = "open" /\ conn[c].proto # "h3" /\ conn'[c].at # "open"
             => Lost(c) \/ strm'[c] = NoStreams]_vars
  BY SoundStep
<1>3. TypeOK /\ QueueSound /\ AllSound /\ [Next]_vars => AllSound'
  BY SoundStep
<1> QED BY <1>1, <1>2, <1>3, QueueStep, TypeCorrect, PTL
        DEF Spec, ConnectionOutlivesRequests

=============================================================================
