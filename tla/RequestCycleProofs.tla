-------------------------- MODULE RequestCycleProofs --------------------------
(***************************************************************************)
(* Proofs of the safety properties of RequestCycle.                        *)
(***************************************************************************)
EXTENDS RequestCycleProps, TLAPS

-----------------------------------------------------------------------------
(***************************************************************************)
(* Type correctness.                                                       *)
(***************************************************************************)

\* What holds of a request besides the types of its fields: one that reports has
\* something left to report, and one that relays has something to relay.
Tasks ==
  {q \in RequestType : /\ q.at = "reply" => q.todo # <<>>
                       /\ q.at = "relay" => q.reply # NoReply}

AllTasks ==
  /\ req  \in [Requests -> Tasks]
  /\ open \in [Requests -> BOOLEAN]

\* Three-digit numbers have 16 bits.
LEMMA SmallNumbers ==
  ASSUME NEW s \in 0 .. 999
  PROVE  s \in U16
<1>1. MaxU16 \in Int /\ 999 <= MaxU16
  BY DEF MaxU16
<1> QED BY <1>1 DEF U16

\* "No reply" is not one of the statuses.
LEMMA NoReplyTold == NoReply \in Int /\ NoReply \notin U16
BY DEF NoReply, U16

\* The marks are no statuses.
LEMMA MarksTold ==
  /\ NoReply # Empty /\ Cut # NoStatus /\ NoStatus # Empty
  /\ \A s \in U16 : s \notin {NoStatus, Empty, Cut}
<1>1. U16 \subseteq Int
  BY DEF U16
<1>2. \A s \in Int : s \notin {NoStatus, Empty, Cut}
  BY MarkAssumption
<1> QED BY <1>1, <1>2, NoReplyTold, MarkAssumption

\* A task that serves nothing is a request task.
LEMMA IdleType == Idle \in Tasks
<1>1. 0 \in U16 /\ <<>> \in Seq(Heard) /\ <<>> \in Seq(U16)
  BY SmallNumbers
<1>2. Idle \in RequestType
  BY <1>1 DEF Idle, RequestType, Protocols
<1> QED BY <1>2 DEF Idle, Tasks

Orders == {<<"send">>, <<"log">>, SendThenLog, LogThenSend}

\* A request that is about to report a status in one of the handlers' orders.
LEMMA ReplyType ==
  ASSUME NEW q \in Tasks, NEW s \in U16, NEW todo \in Orders
  PROVE  Reply(q, s, todo) \in Tasks
<1>0. todo \in {<<"send">>, <<"log">>, <<"send", "log">>, <<"log", "send">>}
  BY Zenon DEF Orders, SendThenLog, LogThenSend
<1>1. /\ todo # <<>>
      /\ todo \in {<<>>, <<"send">>, <<"log">>, <<"send", "log">>, <<"log", "send">>}
  BY <1>0
<1> DEFINE p == [q EXCEPT !.at = "reply", !.status = s, !.todo = todo]
<1>2. p \in RequestType /\ p.at = "reply" /\ p.todo = todo
  BY <1>1 DEF Tasks, RequestType
<1> QED BY <1>1, <1>2 DEF Reply, Tasks

\* Error pages have an order too, and their statuses are 16-bit numbers.
LEMMA ErrorType ==
  /\ \A proto : ErrorOrder(proto) \in Orders
  /\ {500, 502, 503} \subseteq U16
<1>1. \A proto : ErrorOrder(proto) \in Orders
  BY DEF ErrorOrder, Orders
<1>2. 500 \in U16 /\ 502 \in U16 /\ 503 \in U16
  BY SmallNumbers
<1> QED BY <1>1, <1>2

\* So are the statuses of the static router.
LEMMA FileStatusType ==
  ASSUME NEW s \in FileStatuses
  PROVE  s \in U16
BY FileAssumption, SmallNumbers

\* extract_status yields a 16-bit number whatever the upstream sent.
LEMMA StatusType ==
  ASSUME NEW a \in Answers
  PROVE  StatusOf(a) \in U16
<1>1. 502 \in U16
  BY ErrorType
<1>2. a \in {NoStatus, Empty} \/ a \in U16
  BY DEF Answers
<1> QED BY <1>1, <1>2 DEF StatusOf

\* A request moves on to another of the awaits before its reply.
LEMMA MoveType ==
  ASSUME NEW q \in Tasks,
         NEW at \in {"dispatch", "connect", "write", "read", "relay", "lost"},
         at = "relay" => q.reply # NoReply
  PROVE  [q EXCEPT !.at = at] \in Tasks
BY DEF Tasks, RequestType

\* What else a request is told changes nothing of what a request is.
LEMMA MarkType ==
  ASSUME NEW q \in Tasks
  PROVE  /\ [q EXCEPT !.parsed = TRUE] \in Tasks
         /\ [q EXCEPT !.tried = TRUE] \in Tasks
<1>1. [q EXCEPT !.parsed = TRUE] \in Tasks
  BY DEF Tasks, RequestType
<1>2. [q EXCEPT !.tried = TRUE] \in Tasks
  BY DEF Tasks, RequestType
<1> QED BY <1>1, <1>2

\* An answer of the upstream is noted, and perhaps relayed.
LEMMA ReadType ==
  ASSUME NEW q \in Tasks, NEW a \in Answers, a # NoReply
  PROVE  /\ [q EXCEPT !.reply = a] \in Tasks
         /\ [[q EXCEPT !.reply = a] EXCEPT !.at = "relay"] \in Tasks
<1> DEFINE w == [q EXCEPT !.reply = a]
<1>1. w \in RequestType /\ w.reply = a /\ w.at = q.at /\ w.todo = q.todo
  BY DEF Tasks, RequestType
<1>2. q.at = "reply" => q.todo # <<>>
  BY DEF Tasks
<1> HIDE DEF w
<1>3. w \in Tasks
  BY <1>1, <1>2 DEF Tasks
<1>4. [w EXCEPT !.at = "relay"] \in Tasks
  BY <1>1, <1>3, MoveType
<1> QED BY <1>3, <1>4 DEF w

\* A request is given to one of the three handlers, before or after the status
\* it will report is known.
LEMMA WayType ==
  ASSUME NEW q \in Tasks, NEW way \in {"proxy", "wasm", "static"}
  PROVE  [q EXCEPT !.way = way] \in Tasks
BY DEF Tasks, RequestType

\* Which of the two comes first makes no difference.
LEMMA WayReply ==
  ASSUME NEW q \in Tasks, NEW way, NEW s, NEW todo
  PROVE  [Reply(q, s, todo) EXCEPT !.way = way] = Reply([q EXCEPT !.way = way], s, todo)
BY DEF Reply, Tasks, RequestType

\* After a step of the list comes its next one, or the end.
LEMMA AdvanceType ==
  ASSUME NEW q \in Tasks, q.at = "reply"
  PROVE  Advance(q) \in Tasks
<1>1. q.todo \in {<<"send">>, <<"log">>, <<"send", "log">>, <<"log", "send">>}
  BY DEF Tasks, RequestType
<1>2. /\ Tail(<<"send">>) = <<>> /\ Tail(<<"log">>) = <<>>
      /\ Tail(<<"send", "log">>) = <<"log">> /\ Tail(<<"log", "send">>) = <<"send">>
  OBVIOUS
<1>3. Tail(q.todo) \in {<<>>, <<"send">>, <<"log">>}
  BY <1>1, <1>2, Zenon
<1> QED BY <1>3 DEF Advance, Tasks, RequestType

\* A client receives answers.
LEMMA DeliverType ==
  ASSUME AllTasks, NEW r \in Requests, NEW a \in Answers
  PROVE  Deliver(r, a) \in Seq(Heard)
<1>1. req[r].got \in Seq(Heard)
  BY DEF AllTasks, Tasks, RequestType
<1>2. a # Empty => a \in Heard
  BY DEF Answers, Heard
<1> QED BY <1>1, <1>2 DEF Deliver

\* Every step but Leave and Abort is one request's own, and leaves a request.
LEMMA BecomeType ==
  ASSUME AllTasks, NEW r \in Requests, NEW q \in Tasks, Become(r, q),
         open' \in [Requests -> BOOLEAN]
  PROVE  AllTasks'
BY DEF AllTasks, Become

\* Every step leaves every request what a request is.
LEMMA TasksCorrect == Spec => []AllTasks
<1>1. Init => AllTasks
  BY IdleType DEF Init, AllTasks
<1>2. AllTasks /\ [Next]_vars => AllTasks'
  <2> SUFFICES ASSUME AllTasks, [Next]_vars PROVE AllTasks'
    OBVIOUS
  <2>0. ASSUME NEW r \in Requests
        PROVE  req[r] \in Tasks /\ open \in [Requests -> BOOLEAN]
    BY DEF AllTasks
  <2>1. ASSUME NEW r \in Requests, NEW p \in Protocols, Arrive(r, p) PROVE AllTasks'
    <3>1. [Idle EXCEPT !.at = IF p = "h1" THEN "parse" ELSE "dispatch",
                       !.proto = p, !.parsed = p # "h1"] \in Tasks
      BY IdleType DEF Tasks, RequestType
    <3> QED BY <2>0, <2>1, <3>1, BecomeType DEF Arrive
  <2>2. ASSUME NEW r \in Requests, Leave(r) PROVE AllTasks'
    BY <2>2 DEF Leave, AllTasks
  <2>20. ASSUME NEW r \in Requests, LeaveMidway(r) PROVE AllTasks'
    <3> DEFINE q == [req[r] EXCEPT !.got = Append(@, Cut)]
    <3>1. Append(req[r].got, Cut) \in Seq(Heard)
      BY <2>0 DEF Tasks, RequestType, Heard
    <3>2. q \in Tasks
      BY <2>0, <3>1 DEF Tasks, RequestType
    <3>3. Become(r, q) /\ open' \in [Requests -> BOOLEAN]
      BY <2>0, <2>20 DEF LeaveMidway
    <3> HIDE DEF q
    <3> QED BY <3>2, <3>3, BecomeType
  <2>3. ASSUME NEW r \in Requests, Parsed(r) PROVE AllTasks'
    <3> DEFINE q == [req[r] EXCEPT !.parsed = TRUE]
    <3>2. q \in Tasks
      BY <2>0, MarkType
    <3>3. [q EXCEPT !.at = "dispatch"] \in Tasks
      <4> HIDE DEF q
      <4> QED BY <3>2, MoveType
    <3>1. [req[r] EXCEPT !.at = "dispatch", !.parsed = TRUE] \in Tasks
      BY <3>3
    <3> QED BY <2>0, <2>3, <3>1, BecomeType DEF Parsed
  <2>4. ASSUME NEW r \in Requests, ParseFails(r) PROVE AllTasks'
    <3>1. Reply(req[r], 500, <<"send">>) \in Tasks
      BY <2>0, ReplyType, ErrorType DEF Orders
    <3> QED BY <2>0, <2>4, <3>1, BecomeType DEF ParseFails
  <2>5. ASSUME NEW r \in Requests, PickNone(r) PROVE AllTasks'
    <3>1. Reply(req[r], 503, ErrorOrder(req[r].proto)) \in Tasks
      BY <2>0, ReplyType, ErrorType
    <3>2. [Reply(req[r], 503, ErrorOrder(req[r].proto)) EXCEPT !.way = "proxy"]
            \in Tasks
      BY <3>1, WayType
    <3> QED BY <2>0, <2>5, <3>2, BecomeType DEF PickNone
  <2>6. ASSUME NEW r \in Requests, PickSome(r) PROVE AllTasks'
    <3> DEFINE q == [req[r] EXCEPT !.way = "proxy"]
    <3>2. q \in Tasks
      BY <2>0, WayType
    <3> DEFINE w == [q EXCEPT !.tried = TRUE]
    <3>3. w \in Tasks
      <4> HIDE DEF q
      <4> QED BY <3>2, MarkType
    <3>4. [w EXCEPT !.at = "connect"] \in Tasks
      <4> HIDE DEF w
      <4> QED BY <3>3, MoveType
    <3>1. [req[r] EXCEPT !.at = "connect", !.way = "proxy", !.tried = TRUE]
            \in Tasks
      BY <3>4
    <3> QED BY <2>0, <2>6, <3>1, BecomeType DEF PickSome
  <2>7. ASSUME NEW r \in Requests, NEW s \in WasmStatuses, WasmAnswers(r, s) PROVE AllTasks'
    <3>1. Reply(req[r], s, LogThenSend) \in Tasks
      BY <2>0, WasmAssumption, ReplyType DEF Orders
    <3>2. [Reply(req[r], s, LogThenSend) EXCEPT !.way = "wasm"] \in Tasks
      BY <3>1, WayType
    <3> QED BY <2>0, <2>7, <3>2, BecomeType DEF WasmAnswers
  <2>8. ASSUME NEW r \in Requests, WasmFails(r) PROVE AllTasks'
    <3>1. Reply(req[r], 500, ErrorOrder(req[r].proto)) \in Tasks
      BY <2>0, ReplyType, ErrorType
    <3>2. [Reply(req[r], 500, ErrorOrder(req[r].proto)) EXCEPT !.way = "wasm"]
            \in Tasks
      BY <3>1, WayType
    <3> QED BY <2>0, <2>8, <3>2, BecomeType DEF WasmFails
  <2>9. ASSUME NEW r \in Requests, NEW s \in FileStatuses, StaticAnswers(r, s) PROVE AllTasks'
    <3>1. s \in U16
      BY FileStatusType
    <3>2. Reply(req[r], s, LogThenSend) \in Tasks
      BY <2>0, <3>1, ReplyType DEF Orders
    <3> QED BY <2>0, <2>9, <3>2, BecomeType DEF StaticAnswers
  <2>10. ASSUME NEW r \in Requests, Connected(r) PROVE AllTasks'
    <3>1. [req[r] EXCEPT !.at = "write"] \in Tasks
      BY <2>0, MoveType
    <3> QED BY <2>0, <2>10, <3>1, BecomeType DEF Connected
  <2>11. ASSUME NEW r \in Requests, Written(r) PROVE AllTasks'
    <3>1. [req[r] EXCEPT !.at = "read"] \in Tasks
      BY <2>0, MoveType
    <3> QED BY <2>0, <2>11, <3>1, BecomeType DEF Written
  <2>12. ASSUME NEW r \in Requests, FetchFails(r) \/ ReadTimeout(r) \/ RelayFails(r)
         PROVE  AllTasks'
    <3>1. BadGateway(req[r]) \in Tasks
      BY <2>0, ReplyType, ErrorType DEF BadGateway
    <3> QED BY <2>0, <2>12, <3>1, BecomeType DEF FetchFails, ReadTimeout, RelayFails
  <2>13. ASSUME NEW r \in Requests, NEW a \in Replies \cup {NoStatus, Empty}, ReadAll(r, a)
         PROVE  AllTasks'
    <3>1. a \in Answers
      BY RepliesAssumption DEF Answers
    <3>0. a # NoReply
      <4>1. NoReply \in Int /\ NoReply \notin U16
        BY NoReplyTold
      <4> QED BY <4>1, RepliesAssumption, MarkAssumption
    <3> DEFINE q == [req[r] EXCEPT !.reply = a]
    <3>2. q \in Tasks /\ [q EXCEPT !.at = "relay"] \in Tasks
      <4>1. req[r] \in Tasks
        BY <2>0
      <4>2. a \in Answers /\ a # NoReply
        BY <3>0, <3>1
      <4> QED BY <4>1, <4>2, ReadType
    <3>3. Reply(q, StatusOf(a), LogThenSend) \in Tasks
      BY <3>1, <3>2, StatusType, ReplyType DEF Orders
    <3> QED BY <2>0, <2>13, <3>2, <3>3, BecomeType DEF ReadAll
  <2>14. ASSUME NEW r \in Requests, RelayWorks(r) PROVE AllTasks'
    <3>1. req[r].reply \in Answers
      BY <2>0, <2>14 DEF RelayWorks, Tasks, RequestType
    <3>2. Reply(req[r], StatusOf(req[r].reply), <<"log">>) \in Tasks
      BY <2>0, <3>1, StatusType, ReplyType DEF Orders
    <3>3. Deliver(r, req[r].reply) \in Seq(Heard)
      BY <3>1, DeliverType
    <3>4. [Reply(req[r], StatusOf(req[r].reply), <<"log">>)
             EXCEPT !.got = Deliver(r, req[r].reply)] \in Tasks
      BY <3>2, <3>3 DEF Tasks, RequestType
    <3> QED BY <2>0, <2>14, <3>4, BecomeType DEF RelayWorks
  <2>15. ASSUME NEW r \in Requests, Log(r) PROVE AllTasks'
    <3>1. Advance(req[r]) \in Tasks
      BY <2>0, <2>15, AdvanceType DEF Log
    <3>2. Append(Advance(req[r]).log, req[r].status) \in Seq(U16)
      BY <2>0, <3>1 DEF Tasks, RequestType
    <3>3. [Advance(req[r]) EXCEPT !.log = Append(@, req[r].status)] \in Tasks
      BY <3>1, <3>2 DEF Tasks, RequestType
    <3> QED BY <2>0, <2>15, <3>3, BecomeType DEF Log
  <2>16. ASSUME NEW r \in Requests, Send(r) PROVE AllTasks'
    <3>1. Advance(req[r]) \in Tasks
      BY <2>0, <2>16, AdvanceType DEF Send
    <3>2. Deliver(r, req[r].status) \in Seq(Heard)
      BY <2>0, DeliverType DEF Tasks, RequestType, Answers
    <3>3. [Advance(req[r]) EXCEPT !.got = Deliver(r, req[r].status)] \in Tasks
      BY <3>1, <3>2 DEF Tasks, RequestType
    <3> QED BY <2>0, <2>16, <3>3, BecomeType DEF Send
  <2>17. ASSUME NEW r \in Requests, Abort(r) PROVE AllTasks'
    <3>1. ASSUME NEW q \in Requests
          PROVE  req[q] \in Tasks /\ [req[q] EXCEPT !.at = "lost"] \in Tasks
      BY <2>0, MoveType
    <3> QED BY <2>17, <3>1 DEF Abort, AllTasks
  <2>18. ASSUME NEW r \in Requests, Finish(r) PROVE AllTasks'
    BY <2>0, <2>18, IdleType, BecomeType DEF Finish
  <2>19. CASE UNCHANGED vars
    BY <2>19 DEF AllTasks, vars
  <2> QED BY <2>1, <2>2, <2>3, <2>4, <2>5, <2>6, <2>7, <2>8, <2>9, <2>10, <2>11, <2>12,
             <2>13, <2>14, <2>15, <2>16, <2>17, <2>18, <2>19, <2>20 DEF Next, Dispatch
<1> QED BY <1>1, <1>2, PTL DEF Spec

\* Requests stay at the awaits of their handlers, with one of the handlers'
\* orders of answering and logging left to do and 16-bit statuses.
THEOREM TypeCorrect == Spec => []TypeOK
<1>1. AllTasks => TypeOK
  BY DEF AllTasks, Tasks, TypeOK
<1> QED BY <1>1, TasksCorrect, PTL

-----------------------------------------------------------------------------
(***************************************************************************)
(* Answers and log.  What a task has left to do tells what it has done:    *)
(* `todo' without "log" means that the line has been written, without      *)
(* "send" that the client, if it is still there, has its answer.           *)
(***************************************************************************)

ToLog(todo)  == todo \in {<<"log">>, <<"send", "log">>, <<"log", "send">>}
ToSend(todo) == todo \in {<<"send">>, <<"send", "log">>, <<"log", "send">>}

Unanswered == {"idle", "parse", "dispatch", "connect", "write", "read", "relay"}
Fetching   == {"connect", "write", "read", "relay"}
Answering  == {"reply", "done"}

\* What the client of a request has got before it is answered: nothing, or a
\* relayed part with which it left.
Begun(q, here) == q.got = <<>> \/ (q.got = <<Cut>> /\ q.proto = "h1" /\ ~ here)

\* And once there is nothing left to send.
Answered(q, here) ==
  \/ q.got = <<>> /\ (~ here \/ Silent(q))
  \/ q.got = <<q.status>> /\ q.status \in U16
  \/ q.got = <<NoStatus>> /\ q.proto = "h1" /\ q.status = 502
  \/ q.got = <<Cut>> /\ q.proto = "h1" /\ ~ here /\ q.status \in {StatusOf(q.reply), 502}

Logged(q) == q.log = IF q.parsed THEN <<q.status>> ELSE <<>>

\* Answers and log of a request whose client is (not) here.
Ledger(q, here) ==
  /\ q.at \in Unanswered =>
       /\ Begun(q, here) /\ q.log = <<>>
       /\ q.at # "relay" => q.got = <<>>
  /\ q.at = "parse" => ~ q.parsed
  /\ q.at \in {"dispatch"} \cup Fetching => q.parsed
  /\ q.at = "done" => q.todo = <<>>
  /\ q.at \in Answering =>
       /\ ToLog(q.todo) => q.parsed /\ q.log = <<>>
       /\ ~ ToLog(q.todo) => Logged(q)
       /\ ToSend(q.todo) => Begun(q, here) /\ (q.got # <<>> => q.status = 502)
       /\ ~ ToSend(q.todo) => Answered(q, here)
  /\ Len(q.got) <= 1
  /\ Silent(q) => q.got = <<>>

\* The status of a request tells what became of its upstream.
Cause(q, here) ==
  /\ q.at \in {"parse", "dispatch"} => q.way = "static" /\ ~ q.tried
  /\ q.at \in Unanswered \ {"relay"} => q.reply = NoReply
  /\ q.at \in Fetching => q.way = "proxy" /\ q.tried
  /\ q.at = "relay" => q.proto = "h1"
  /\ q.at \in Answering /\ q.way = "proxy" =>
       /\ q.parsed
       /\ ~ q.tried => q.status = 503
       /\ q.tried /\ q.reply = NoReply => q.status = 502
       /\ q.tried /\ q.reply # NoReply =>
            \/ q.status = StatusOf(q.reply)
            \/ /\ q.status = 502 /\ q.proto = "h1" /\ ~ here
               /\ q.got \in {<<>>, <<Cut>>}
  /\ q.at \in Answering /\ ToSend(q.todo) /\ q.proto = "h1" /\ q.reply # NoReply
       => ~ here

Booked(q, here) == Ledger(q, here) /\ Cause(q, here)

AllBooked == \A r \in Requests : Booked(req[r], open[r])

\* One request's own step disturbs nobody else's books.
LEMMA BecomeBooked ==
  ASSUME AllTasks, AllBooked, NEW r \in Requests, NEW q, Become(r, q),
         open' = open, Booked(q, open[r])
  PROVE  AllBooked'
<1> SUFFICES ASSUME NEW s \in Requests PROVE Booked(req'[s], open'[s])
  BY DEF AllBooked
<1>1. CASE s = r
  <2>1. req'[s] = q
    BY <1>1 DEF Become, AllTasks
  <2> QED BY <1>1, <2>1
<1>2. CASE s # r
  <2>1. req'[s] = req[s]
    BY <1>2 DEF Become, AllTasks
  <2> QED BY <2>1 DEF AllBooked
<1> QED BY <1>1, <1>2

\* The orders, told by what is in them.
LEMMA OrdersTold ==
  /\ ToLog(<<"log">>) /\ ~ ToSend(<<"log">>)
  /\ ToSend(<<"send">>) /\ ~ ToLog(<<"send">>)
  /\ ToLog(SendThenLog) /\ ToSend(SendThenLog)
  /\ ToLog(LogThenSend) /\ ToSend(LogThenSend)
  /\ ~ ToLog(<<>>) /\ ~ ToSend(<<>>)
  /\ \A proto : ToLog(ErrorOrder(proto)) /\ ToSend(ErrorOrder(proto))
BY DEF ToLog, ToSend, SendThenLog, LogThenSend, ErrorOrder

\* Doing the first thing of the list takes that thing off it and no other.
LEMMA AdvanceTold ==
  ASSUME NEW q \in Tasks, q.at = "reply"
  PROVE  /\ Head(q.todo) = "log" =>
              /\ ToLog(q.todo) /\ ~ ToLog(Tail(q.todo))
              /\ ToSend(Tail(q.todo)) <=> ToSend(q.todo)
         /\ Head(q.todo) = "send" =>
              /\ ToSend(q.todo) /\ ~ ToSend(Tail(q.todo))
              /\ ToLog(Tail(q.todo)) <=> ToLog(q.todo)
<1>1. q.todo \in {<<"send">>, <<"log">>, <<"send", "log">>, <<"log", "send">>}
  BY DEF Tasks, RequestType
<1>2. CASE q.todo = <<"send">>
  <2>1. Head(q.todo) = "send" /\ Tail(q.todo) = <<>>
    BY <1>2
  <2> QED BY <1>2, <2>1, OrdersTold
<1>3. CASE q.todo = <<"log">>
  <2>1. Head(q.todo) = "log" /\ Tail(q.todo) = <<>>
    BY <1>3
  <2> QED BY <1>3, <2>1, OrdersTold
<1>4. CASE q.todo = <<"send", "log">>
  <2>1. Head(q.todo) = "send" /\ Tail(q.todo) = <<"log">>
    BY <1>4
  <2> QED BY <1>4, <2>1, OrdersTold DEF SendThenLog
<1>5. CASE q.todo = <<"log", "send">>
  <2>1. Head(q.todo) = "log" /\ Tail(q.todo) = <<"send">>
    BY <1>5
  <2> QED BY <1>5, <2>1, OrdersTold DEF LogThenSend
<1> QED BY <1>1, <1>2, <1>3, <1>4, <1>5

\* A request that has neither been answered nor logged takes an order; one whose
\* client left in the middle of a relayed answer reports 502.
LEMMA ReplyBooked ==
  ASSUME NEW q \in Tasks, NEW here \in BOOLEAN, NEW s, NEW todo,
         Begun(q, here), q.got # <<>> => s = 502,
         Len(q.got) <= 1, Silent(q) => q.got = <<>>,
         q.log = <<>>, ToSend(todo),
         ToLog(todo) => q.parsed, ~ ToLog(todo) => ~ q.parsed,
         Cause(Reply(q, s, todo), here)
  PROVE  Booked(Reply(q, s, todo), here)
<1> DEFINE b == Reply(q, s, todo)
<1>1. /\ b.at = "reply" /\ b.todo = todo /\ b.status = s
      /\ b.proto = q.proto /\ b.reply = q.reply
      /\ b.got = q.got /\ b.log = <<>> /\ b.parsed = q.parsed
  BY DEF Reply, Tasks, RequestType
<1>2. Cause(b, here)
  OBVIOUS
<1> HIDE DEF b
<1>3. ~ ToLog(todo) => Logged(b)
  BY <1>1 DEF Logged
<1>4. Len(b.got) <= 1 /\ Begun(b, here) /\ (Silent(b) => b.got = <<>>)
  BY <1>1 DEF Begun, Silent
<1>5. Ledger(b, here)
  BY <1>1, <1>3, <1>4 DEF Ledger, Unanswered, Fetching, Answering
<1> QED BY <1>2, <1>5 DEF Booked, b

\* The same for a parsed request and an order with both things in it.
LEMMA OrderBooked ==
  ASSUME NEW q \in Tasks, NEW here \in BOOLEAN, NEW s, NEW todo,
         q.got = <<>>, q.log = <<>>, q.parsed, ToSend(todo), ToLog(todo),
         Cause(Reply(q, s, todo), here)
  PROVE  Booked(Reply(q, s, todo), here)
<1>1. Begun(q, here) /\ Len(q.got) <= 1
  BY DEF Begun
<1> QED BY <1>1, ReplyBooked

\* Every step of a request keeps its books.
LEMMA BookedStep == AllTasks /\ AllBooked /\ [Next]_vars => AllBooked'
<1> SUFFICES ASSUME AllTasks, AllBooked, [Next]_vars PROVE AllBooked'
  OBVIOUS
<1> USE DEF Unanswered, Fetching, Answering
<1>0. ASSUME NEW r \in Requests
      PROVE  /\ req[r] \in Tasks /\ open[r] \in BOOLEAN
             /\ Ledger(req[r], open[r]) /\ Cause(req[r], open[r])
  BY DEF AllTasks, AllBooked, Booked
<1>1. ASSUME NEW r \in Requests, NEW p \in Protocols, Arrive(r, p) PROVE AllBooked'
  <2> SUFFICES ASSUME NEW s \in Requests PROVE Booked(req'[s], open'[s])
    BY DEF AllBooked
  <2>1. CASE s = r
    <3> DEFINE q == [Idle EXCEPT !.at = IF p = "h1" THEN "parse" ELSE "dispatch",
                                 !.proto = p, !.parsed = p # "h1"]
    <3>1. req'[s] = q
      BY <1>1, <2>1 DEF Arrive, Become, AllTasks
    <3>2. Ledger(q, open'[s])
      <4>1. /\ q.at \in {"parse", "dispatch"} /\ q.got = <<>> /\ q.log = <<>>
            /\ q.at = "parse" <=> p = "h1"
        BY DEF Idle
      <4>2. q.parsed <=> p # "h1"
        BY DEF Idle
      <4>3. q.got = <<>> /\ Len(<<>>) <= 1
        BY <4>1
      <4> HIDE DEF q
      <4> QED BY <4>1, <4>2, <4>3 DEF Ledger, Begun
    <3>3. Cause(q, open'[s])
      BY DEF Cause, Idle
    <3> QED BY <3>1, <3>2, <3>3 DEF Booked
  <2>2. CASE s # r
    <3>1. req'[s] = req[s] /\ open'[s] = open[s]
      BY <1>1, <2>2 DEF Arrive, Become, AllTasks
    <3> QED BY <3>1 DEF AllBooked
  <2> QED BY <2>1, <2>2
<1>2. ASSUME NEW r \in Requests, Leave(r) PROVE AllBooked'
  <2> SUFFICES ASSUME NEW s \in Requests PROVE Booked(req'[s], open'[s])
    BY DEF AllBooked
  <2>1. req'[s] = req[s] /\ open'[s] \in {open[s], FALSE}
    BY <1>2 DEF Leave, AllTasks
  <2>2. CASE open'[s] = open[s]
    BY <2>1, <2>2 DEF AllBooked
  <2>3. CASE open'[s] = FALSE
    <3>1. Ledger(req[s], FALSE)
      BY <1>0 DEF Ledger, Answered, Begun, Silent
    <3>2. Cause(req[s], FALSE)
      BY <1>0 DEF Cause
    <3> QED BY <2>1, <2>3, <3>1, <3>2 DEF Booked
  <2> QED BY <2>1, <2>2, <2>3
<1>20. ASSUME NEW r \in Requests, LeaveMidway(r) PROVE AllBooked'
  <2> SUFFICES ASSUME NEW s \in Requests PROVE Booked(req'[s], open'[s])
    BY DEF AllBooked
  <2>1. CASE s = r
    <3> DEFINE q == [req[r] EXCEPT !.got = Append(@, Cut)]
    <3>1. req'[s] = q /\ open'[s] = FALSE /\ req[r].at = "relay" /\ open[r]
      BY <1>20, <2>1 DEF LeaveMidway, Become, AllTasks
    <3>2. /\ req[r].got = <<>> /\ req[r].log = <<>> /\ req[r].parsed
          /\ req[r].proto = "h1" /\ req[r].way = "proxy" /\ req[r].tried
      BY <1>0, <3>1 DEF Ledger, Begun, Cause
    <3>3. /\ q.at = "relay" /\ q.log = <<>> /\ q.parsed /\ q.proto = "h1"
          /\ q.way = "proxy" /\ q.tried /\ q.got = Append(req[r].got, Cut)
          /\ ~ Silent(q)
      BY <1>0, <1>20, <3>1, <3>2 DEF LeaveMidway, Silent, Tasks, RequestType
    <3>4. q.got = <<Cut>> /\ Len(<<Cut>>) <= 1
      BY <3>2, <3>3
    <3> HIDE DEF q
    <3>5. Ledger(q, FALSE)
      BY <3>3, <3>4 DEF Ledger, Begun
    <3>6. Cause(q, FALSE)
      BY <3>3 DEF Cause
    <3> QED BY <3>1, <3>5, <3>6 DEF Booked
  <2>2. CASE s # r
    <3>1. req'[s] = req[s] /\ open'[s] = open[s]
      BY <1>20, <2>2 DEF LeaveMidway, Become, AllTasks
    <3> QED BY <3>1 DEF AllBooked
  <2> QED BY <2>1, <2>2
<1>3. ASSUME NEW r \in Requests, Parsed(r) PROVE AllBooked'
  <2> DEFINE q == [req[r] EXCEPT !.at = "dispatch", !.parsed = TRUE]
  <2>1. Ledger(q, open[r])
    BY <1>0, <1>3 DEF Parsed, Ledger, Begun, Silent, Tasks, RequestType
  <2>2. Cause(q, open[r])
    BY <1>0, <1>3 DEF Parsed, Cause, Tasks, RequestType
  <2> QED BY <1>3, <2>1, <2>2, BecomeBooked DEF Parsed, Booked
<1>4. ASSUME NEW r \in Requests, ParseFails(r) PROVE AllBooked'
  <2> DEFINE q == Reply(req[r], 500, <<"send">>)
  <2>1. Cause(q, open[r])
    BY <1>0, <1>4 DEF ParseFails, Cause, Reply, Tasks, RequestType
  <2>2. req[r].got = <<>> /\ req[r].log = <<>> /\ ~ req[r].parsed
    BY <1>0, <1>4 DEF ParseFails, Ledger
  <2>3. Booked(q, open[r])
    <3>1. ToSend(<<"send">>) /\ ~ ToLog(<<"send">>)
      BY OrdersTold
    <3>2. Begun(req[r], open[r]) /\ Len(req[r].got) <= 1
      BY <2>2 DEF Begun
    <3> QED BY <1>0, <2>1, <2>2, <3>1, <3>2, ReplyBooked
  <2> QED BY <1>4, <2>3, BecomeBooked DEF ParseFails
<1>5. ASSUME NEW r \in Requests, PickNone(r) PROVE AllBooked'
  <2> DEFINE w == [req[r] EXCEPT !.way = "proxy"]
  <2> DEFINE q == Reply(w, 503, ErrorOrder(req[r].proto))
  <2>1. w \in Tasks
    BY <1>0, WayType
  <2>2. w.got = <<>> /\ w.log = <<>> /\ w.parsed
    BY <1>0, <1>5 DEF PickNone, Ledger, Tasks, RequestType
  <2>3. Cause(q, open[r])
    BY <1>0, <1>5 DEF PickNone, Cause, Ledger, Reply, Tasks, RequestType
  <2>4. Booked(q, open[r])
    <3>1. ToSend(ErrorOrder(req[r].proto)) /\ ToLog(ErrorOrder(req[r].proto))
      BY OrdersTold
    <3> HIDE DEF w
    <3> QED BY <1>0, <2>1, <2>2, <2>3, <3>1, OrderBooked
  <2>5. [Reply(req[r], 503, ErrorOrder(req[r].proto)) EXCEPT !.way = "proxy"] = q
    BY <1>0, WayReply
  <2> QED BY <1>5, <2>4, <2>5, BecomeBooked DEF PickNone
<1>6. ASSUME NEW r \in Requests, PickSome(r) PROVE AllBooked'
  <2> DEFINE q == [req[r] EXCEPT !.at = "connect", !.way = "proxy", !.tried = TRUE]
  <2>1. Ledger(q, open[r])
    BY <1>0, <1>6 DEF PickSome, Ledger, Begun, Silent, Tasks, RequestType
  <2>2. Cause(q, open[r])
    BY <1>0, <1>6 DEF PickSome, Cause, Tasks, RequestType
  <2> QED BY <1>6, <2>1, <2>2, BecomeBooked DEF PickSome, Booked
<1>7. ASSUME NEW r \in Requests, NEW s \in WasmStatuses, WasmAnswers(r, s) PROVE AllBooked'
  <2> DEFINE w == [req[r] EXCEPT !.way = "wasm"]
  <2> DEFINE q == Reply(w, s, LogThenSend)
  <2>1. w \in Tasks
    BY <1>0, WayType
  <2>2. w.got = <<>> /\ w.log = <<>> /\ w.parsed
    BY <1>0, <1>7 DEF WasmAnswers, Ledger, Tasks, RequestType
  <2>3. Cause(q, open[r])
    BY <1>0, <1>7 DEF WasmAnswers, Cause, Ledger, Reply, Tasks, RequestType
  <2>4. Booked(q, open[r])
    <3>1. ToSend(LogThenSend) /\ ToLog(LogThenSend)
      BY OrdersTold
    <3> HIDE DEF w
    <3> QED BY <1>0, <2>1, <2>2, <2>3, <3>1, OrderBooked
  <2>5. [Reply(req[r], s, LogThenSend) EXCEPT !.way = "wasm"] = q
    BY <1>0, WayReply
  <2> QED BY <1>7, <2>4, <2>5, BecomeBooked DEF WasmAnswers
<1>8. ASSUME NEW r \in Requests, WasmFails(r) PROVE AllBooked'
  <2> DEFINE w == [req[r] EXCEPT !.way = "wasm"]
  <2> DEFINE q == Reply(w, 500, ErrorOrder(req[r].proto))
  <2>1. w \in Tasks
    BY <1>0, WayType
  <2>2. w.got = <<>> /\ w.log = <<>> /\ w.parsed
    BY <1>0, <1>8 DEF WasmFails, Ledger, Tasks, RequestType
  <2>3. Cause(q, open[r])
    BY <1>0, <1>8 DEF WasmFails, Cause, Ledger, Reply, Tasks, RequestType
  <2>4. Booked(q, open[r])
    <3>1. ToSend(ErrorOrder(req[r].proto)) /\ ToLog(ErrorOrder(req[r].proto))
      BY OrdersTold
    <3> HIDE DEF w
    <3> QED BY <1>0, <2>1, <2>2, <2>3, <3>1, OrderBooked
  <2>5. [Reply(req[r], 500, ErrorOrder(req[r].proto)) EXCEPT !.way = "wasm"] = q
    BY <1>0, WayReply
  <2> QED BY <1>8, <2>4, <2>5, BecomeBooked DEF WasmFails
<1>9. ASSUME NEW r \in Requests, NEW s \in FileStatuses, StaticAnswers(r, s) PROVE AllBooked'
  <2> DEFINE q == Reply(req[r], s, LogThenSend)
  <2>1. req[r].got = <<>> /\ req[r].log = <<>> /\ req[r].parsed
    BY <1>0, <1>9 DEF StaticAnswers, Ledger
  <2>2. Cause(q, open[r])
    BY <1>0, <1>9 DEF StaticAnswers, Cause, Reply, Tasks, RequestType
  <2>3. Booked(q, open[r])
    <3>1. ToSend(LogThenSend) /\ ToLog(LogThenSend)
      BY OrdersTold
    <3> QED BY <1>0, <2>1, <2>2, <3>1, OrderBooked
  <2> QED BY <1>9, <2>3, BecomeBooked DEF StaticAnswers
<1>10. ASSUME NEW r \in Requests, Connected(r) PROVE AllBooked'
  <2> DEFINE q == [req[r] EXCEPT !.at = "write"]
  <2>1. Ledger(q, open[r])
    BY <1>0, <1>10 DEF Connected, Ledger, Begun, Silent, Tasks, RequestType
  <2>2. Cause(q, open[r])
    BY <1>0, <1>10 DEF Connected, Cause, Tasks, RequestType
  <2> QED BY <1>10, <2>1, <2>2, BecomeBooked DEF Connected, Booked
<1>11. ASSUME NEW r \in Requests, Written(r) PROVE AllBooked'
  <2> DEFINE q == [req[r] EXCEPT !.at = "read"]
  <2>1. Ledger(q, open[r])
    BY <1>0, <1>11 DEF Written, Ledger, Begun, Silent, Tasks, RequestType
  <2>2. Cause(q, open[r])
    BY <1>0, <1>11 DEF Written, Cause, Tasks, RequestType
  <2> QED BY <1>11, <2>1, <2>2, BecomeBooked DEF Written, Booked
<1>12. ASSUME NEW r \in Requests, FetchFails(r) \/ ReadTimeout(r) \/ RelayFails(r)
       PROVE  AllBooked'
  <2> DEFINE q == BadGateway(req[r])
  <2>1. /\ req[r].at \in Fetching
        /\ req[r].at = "relay" => ~ open[r]
        /\ Become(r, q) /\ UNCHANGED open
    BY <1>12 DEF FetchFails, ReadTimeout, RelayFails
  <2>2. /\ Begun(req[r], open[r]) /\ Len(req[r].got) <= 1
        /\ req[r].log = <<>> /\ req[r].parsed
        /\ Silent(req[r]) => req[r].got = <<>>
    BY <1>0, <2>1 DEF Ledger
  <2>3. Cause(q, open[r])
    <3>1. /\ q.at = "reply" /\ q.status = 502 /\ q.way = "proxy" /\ q.parsed /\ q.tried
          /\ q.proto = req[r].proto /\ q.reply = req[r].reply /\ q.got = req[r].got
      BY <1>0, <2>1, <2>2 DEF Cause, BadGateway, Reply, Tasks, RequestType
    <3>2. req[r].at # "relay" => req[r].reply = NoReply
      BY <1>0, <2>1 DEF Cause
    <3>3. req[r].at = "relay" => req[r].proto = "h1"
      BY <1>0 DEF Cause
    <3>4. req[r].got \in {<<>>, <<Cut>>}
      BY <2>2 DEF Begun
    <3> HIDE DEF q
    <3> QED BY <2>1, <3>1, <3>2, <3>3, <3>4 DEF Cause
  <2>4. Booked(q, open[r])
    <3>1. ToSend(ErrorOrder(req[r].proto)) /\ ToLog(ErrorOrder(req[r].proto))
      BY OrdersTold
    <3>2. q = Reply(req[r], 502, ErrorOrder(req[r].proto))
      BY DEF BadGateway
    <3> HIDE DEF q
    <3> QED BY <1>0, <2>2, <2>3, <3>1, <3>2, ReplyBooked
  <2> QED BY <2>1, <2>4, BecomeBooked
<1>13. ASSUME NEW r \in Requests, NEW a \in Replies \cup {NoStatus, Empty}, ReadAll(r, a)
       PROVE  AllBooked'
  <2> DEFINE w == [req[r] EXCEPT !.reply = a]
  <2>1. /\ req[r].got = <<>> /\ req[r].log = <<>> /\ req[r].parsed
        /\ req[r].at = "read" /\ req[r].way = "proxy" /\ req[r].tried
    BY <1>0, <1>13 DEF ReadAll, Ledger, Cause
  <2>2. /\ w.got = <<>> /\ w.log = <<>> /\ w.parsed
        /\ w.at = "read" /\ w.way = "proxy" /\ w.tried /\ w.reply = a
    BY <1>0, <2>1 DEF Tasks, RequestType
  <2>3. w \in Tasks /\ a # NoReply
    <3>1. NoReply \in Int /\ NoReply \notin U16
      BY NoReplyTold
    <3>2. a \in Answers /\ a # NoReply
      BY <3>1, RepliesAssumption, MarkAssumption DEF Answers
    <3> QED BY <1>0, <2>1, <3>2 DEF Tasks, RequestType
  <2>4. CASE w.proto = "h1"
    <3> DEFINE q == [w EXCEPT !.at = "relay"]
    <3>1. Ledger(q, open[r])
      BY <2>2, <2>3 DEF Ledger, Begun, Tasks, RequestType
    <3>2. Cause(q, open[r])
      BY <2>2, <2>3, <2>4 DEF Cause, Tasks, RequestType
    <3> QED BY <1>13, <2>4, <3>1, <3>2, BecomeBooked DEF ReadAll, Booked
  <2>5. CASE w.proto # "h1"
    <3> DEFINE q == Reply(w, StatusOf(a), LogThenSend)
    <3>1. Cause(q, open[r])
      BY <2>2, <2>3, <2>5 DEF Cause, Reply, Tasks, RequestType
    <3>2. Booked(q, open[r])
      <4>1. ToSend(LogThenSend) /\ ToLog(LogThenSend)
        BY OrdersTold
      <4> HIDE DEF w
      <4> QED BY <1>0, <2>2, <2>3, <3>1, <4>1, OrderBooked
    <3> QED BY <1>13, <2>5, <3>2, BecomeBooked DEF ReadAll
  <2> QED BY <2>4, <2>5
<1>14. ASSUME NEW r \in Requests, RelayWorks(r) PROVE AllBooked'
  <2> DEFINE a == req[r].reply
  <2> DEFINE q == [Reply(req[r], StatusOf(a), <<"log">>) EXCEPT !.got = Deliver(r, a)]
  <2>1. /\ Begun(req[r], open[r]) /\ Len(req[r].got) <= 1
        /\ req[r].log = <<>> /\ req[r].parsed
        /\ req[r].way = "proxy" /\ req[r].tried /\ req[r].proto = "h1"
        /\ a \in Answers /\ a # NoReply
        /\ Silent(req[r]) => req[r].got = <<>>
    BY <1>0, <1>14 DEF RelayWorks, Ledger, Cause, Tasks, RequestType
  <2>2. /\ q.at = "reply" /\ q.status = StatusOf(a) /\ q.todo = <<"log">>
        /\ q.got = Deliver(r, a) /\ q.log = <<>> /\ q.parsed
        /\ q.way = "proxy" /\ q.tried /\ q.proto = "h1" /\ q.reply = a
    BY <1>0, <2>1 DEF Reply, Tasks, RequestType
  <2>3. ASSUME open[r], a # Empty PROVE Answered(q, open[r]) /\ Len(q.got) <= 1
    <3>1. q.got = <<a>>
      <4>1. req[r].got = <<>>
        BY <2>1, <2>3 DEF Begun
      <4>2. q.got = Append(req[r].got, a)
        BY <2>2, <2>3 DEF Deliver
      <4> HIDE DEF q
      <4> QED BY <4>1, <4>2
    <3>2. (StatusOf(a) = a /\ a \in U16) \/ (StatusOf(a) = 502 /\ a = NoStatus)
      BY <2>1, <2>3 DEF StatusOf, Answers
    <3>3. Len(<<a>>) <= 1
      OBVIOUS
    <3> HIDE DEF q
    <3> QED BY <2>2, <3>1, <3>2, <3>3 DEF Answered
  <2>4. ASSUME ~ (open[r] /\ a # Empty) PROVE Answered(q, open[r]) /\ Len(q.got) <= 1
    <3>1. q.got = req[r].got
      BY <2>2, <2>4 DEF Deliver
    <3> HIDE DEF q
    <3> QED BY <2>1, <2>2, <2>4, <3>1 DEF Answered, Begun, Silent
  <2>5. Ledger(q, open[r])
    <3>1. Answered(q, open[r]) /\ Len(q.got) <= 1
      BY <2>3, <2>4
    <3>2. Silent(q) => q.got = <<>>
      BY <2>1, <2>2 DEF Silent, Deliver
    <3> HIDE DEF q
    <3> QED BY <2>2, <3>1, <3>2, OrdersTold DEF Ledger
  <2>6. Cause(q, open[r])
    <3> HIDE DEF q
    <3> QED BY <2>1, <2>2, OrdersTold DEF Cause
  <2> QED BY <1>14, <2>5, <2>6, BecomeBooked DEF RelayWorks, Booked
<1>15. ASSUME NEW r \in Requests, Log(r) PROVE AllBooked'
  <2> DEFINE q == [Advance(req[r]) EXCEPT !.log = Append(@, req[r].status)]
  <2>1. req[r].at = "reply" /\ Head(req[r].todo) = "log"
    BY <1>15 DEF Log
  <2>2. req[r].log = <<>> /\ req[r].parsed
    BY <1>0, <2>1, AdvanceTold DEF Ledger
  <2>3. /\ q.todo = Tail(req[r].todo) /\ q.at \in Answering
        /\ q.at = "done" => q.todo = <<>>
        /\ q.log = <<req[r].status>>
    <3>1. /\ q.todo = Tail(req[r].todo) /\ q.at \in Answering
          /\ q.at = "done" => q.todo = <<>>
      BY <1>0, <2>1 DEF Advance, Tasks, RequestType
    <3>2. q.log = Append(req[r].log, req[r].status)
      BY <1>0 DEF Advance, Tasks, RequestType
    <3>3. q.log = <<req[r].status>>
      BY <2>2, <3>2
    <3> QED BY <3>1, <3>3
  <2>4. /\ q.status = req[r].status /\ q.got = req[r].got /\ q.proto = req[r].proto
        /\ q.parsed = req[r].parsed /\ q.way = req[r].way
        /\ q.tried = req[r].tried /\ q.reply = req[r].reply
    BY <1>0 DEF Advance, Tasks, RequestType
  <2>5. Ledger(q, open[r])
    <3>1. ~ ToLog(q.todo) /\ Logged(q)
      BY <1>0, <2>1, <2>2, <2>3, <2>4, AdvanceTold DEF Logged
    <3>2. /\ ToSend(q.todo) => Begun(q, open[r]) /\ (q.got # <<>> => q.status = 502)
          /\ ~ ToSend(q.todo) => Answered(q, open[r])
          /\ Len(q.got) <= 1 /\ (Silent(q) => q.got = <<>>)
      BY <1>0, <2>1, <2>3, <2>4, AdvanceTold DEF Ledger, Answered, Begun, Silent
    <3> HIDE DEF q
    <3> QED BY <2>3, <3>1, <3>2 DEF Ledger
  <2>6. Cause(q, open[r])
    <3>1. ToSend(q.todo) <=> ToSend(req[r].todo)
      BY <1>0, <2>1, <2>3, AdvanceTold
    <3> HIDE DEF q
    <3> QED BY <1>0, <2>1, <2>3, <2>4, <3>1 DEF Cause
  <2> QED BY <1>15, <2>5, <2>6, BecomeBooked DEF Log, Booked
<1>16. ASSUME NEW r \in Requests, Send(r) PROVE AllBooked'
  <2> DEFINE q == [Advance(req[r]) EXCEPT !.got = Deliver(r, req[r].status)]
  <2>1. req[r].at = "reply" /\ Head(req[r].todo) = "send"
    BY <1>16 DEF Send
  <2>2. /\ Begun(req[r], open[r]) /\ Len(req[r].got) <= 1
        /\ req[r].got # <<>> => req[r].status = 502
        /\ req[r].status \in U16
        /\ Silent(req[r]) => req[r].got = <<>> /\ ~ open[r]
    <3>1. ToSend(req[r].todo)
      BY <1>0, <2>1, AdvanceTold
    <3>2. Silent(req[r]) => req[r].proto = "h1" /\ req[r].reply # NoReply
      BY MarkAssumption, NoReplyTold DEF Silent
    <3>3. Silent(req[r]) => ~ open[r]
      BY <1>0, <2>1, <3>1, <3>2 DEF Cause
    <3> QED BY <1>0, <2>1, <3>1, <3>3 DEF Ledger, Tasks, RequestType
  <2>3. /\ q.todo = Tail(req[r].todo) /\ q.at \in Answering
        /\ q.at = "done" => q.todo = <<>>
        /\ q.got = Deliver(r, req[r].status)
    BY <1>0, <2>1 DEF Advance, Tasks, RequestType
  <2>4. /\ q.status = req[r].status /\ q.log = req[r].log /\ q.proto = req[r].proto
        /\ q.parsed = req[r].parsed /\ q.way = req[r].way
        /\ q.tried = req[r].tried /\ q.reply = req[r].reply
    BY <1>0 DEF Advance, Tasks, RequestType
  <2>5. open[r] => q.got = <<req[r].status>>
    <3> SUFFICES ASSUME open[r] PROVE q.got = <<req[r].status>>
      OBVIOUS
    <3>1. req[r].status # Empty
      BY <2>2, MarksTold
    <3>2. req[r].got = <<>>
      BY <2>2 DEF Begun
    <3>3. q.got = Append(req[r].got, req[r].status)
      BY <2>3, <3>1 DEF Deliver
    <3> HIDE DEF q
    <3> QED BY <3>2, <3>3
  <2>6. ~ open[r] => q.got = req[r].got
    BY <2>3 DEF Deliver
  <2> HIDE DEF q
  <2>7. Len(q.got) <= 1
    <3>1. Len(<<req[r].status>>) <= 1
      OBVIOUS
    <3> QED BY <2>2, <2>5, <2>6, <3>1
  <2>8. Answered(q, open[r])
    BY <1>0, <2>2, <2>4, <2>5, <2>6 DEF Answered, Begun
  <2>9. Ledger(q, open[r])
    <3>1. Silent(q) => q.got = <<>>
      BY <2>2, <2>4, <2>6 DEF Silent
    <3> QED BY <1>0, <2>1, <2>3, <2>4, <2>7, <2>8, <3>1, AdvanceTold DEF Ledger, Logged
  <2>10. Cause(q, open[r])
    <3>1. ~ ToSend(q.todo)
      BY <1>0, <2>1, <2>3, AdvanceTold
    <3>2. Cause(req[r], open[r]) /\ req[r].at = "reply"
      BY <1>0, <2>1
    <3> QED BY <2>3, <2>4, <2>6, <3>1, <3>2 DEF Cause
  <2> QED BY <1>16, <2>9, <2>10, BecomeBooked DEF Send, Booked, q
<1>17. ASSUME NEW r \in Requests, Abort(r) PROVE AllBooked'
  <2> SUFFICES ASSUME NEW s \in Requests PROVE Booked(req'[s], open'[s])
    BY DEF AllBooked
  <2>1. open'[s] = FALSE /\ req'[s] \in {req[s], [req[s] EXCEPT !.at = "lost"]}
    BY <1>17 DEF Abort
  <2>2. Ledger(req[s], FALSE)
    BY <1>0 DEF Ledger, Answered, Begun, Silent
  <2>3. Cause(req[s], FALSE)
    BY <1>0 DEF Cause
  <2>4. Ledger([req[s] EXCEPT !.at = "lost"], FALSE)
    BY <1>0 DEF Ledger, Silent, Tasks, RequestType
  <2>5. Cause([req[s] EXCEPT !.at = "lost"], FALSE)
    BY <1>0 DEF Cause, Tasks, RequestType
  <2> QED BY <2>1, <2>2, <2>3, <2>4, <2>5 DEF Booked
<1>18. ASSUME NEW r \in Requests, Finish(r) PROVE AllBooked'
  <2> SUFFICES ASSUME NEW s \in Requests PROVE Booked(req'[s], open'[s])
    BY DEF AllBooked
  <2>1. CASE s = r
    <3>1. req'[s] = Idle
      BY <1>18, <2>1 DEF Finish, Become, AllTasks
    <3>2. Ledger(Idle, open'[s]) /\ Cause(Idle, open'[s])
      BY MarksTold DEF Ledger, Begun, Silent, Cause, Idle
    <3> QED BY <3>1, <3>2 DEF Booked
  <2>2. CASE s # r
    <3>1. req'[s] = req[s] /\ open'[s] = open[s]
      BY <1>18, <2>2 DEF Finish, Become, AllTasks
    <3> QED BY <3>1 DEF AllBooked
  <2> QED BY <2>1, <2>2
<1>19. CASE UNCHANGED vars
  BY <1>19 DEF AllBooked, vars
<1> QED BY <1>1, <1>2, <1>3, <1>4, <1>5, <1>6, <1>7, <1>8, <1>9, <1>10, <1>11, <1>12,
           <1>13, <1>14, <1>15, <1>16, <1>17, <1>18, <1>19, <1>20 DEF Next, Dispatch

\* The books of every request are in order throughout.
LEMMA BooksInOrder == Spec => []AllBooked
<1>1. Init => AllBooked
  <2>1. Ledger(Idle, FALSE) /\ Cause(Idle, FALSE)
    BY MarksTold DEF Ledger, Begun, Silent, Cause, Idle, Unanswered, Fetching, Answering
  <2> QED BY <2>1 DEF Init, AllBooked, Booked
<1> QED BY <1>1, BookedStep, TasksCorrect, PTL DEF Spec

\* A request whose task has ended: what the next theorems use of its books.
LEMMA EndedBooks ==
  ASSUME AllTasks, AllBooked, NEW r \in Requests, Ended(req[r])
  PROVE  Logged(req[r]) /\ Answered(req[r], open[r]) /\ Cause(req[r], open[r])
BY OrdersTold DEF AllBooked, Booked, Ledger, Ended, Answering

\* Every parsed request leaves exactly one line in the access log, one that could
\* not be parsed leaves none.
THEOREM LogComplete == Spec => []LoggedOnce
<1>1. AllTasks /\ AllBooked => LoggedOnce
  <2> SUFFICES ASSUME AllTasks, AllBooked, NEW r \in Requests, Ended(req[r])
               PROVE  Len(req[r].log) = IF req[r].parsed THEN 1 ELSE 0
    BY DEF LoggedOnce
  <2>1. req[r].log = IF req[r].parsed THEN <<req[r].status>> ELSE <<>>
    BY EndedBooks DEF Logged
  <2>2. Len(<<req[r].status>>) = 1 /\ Len(<<>>) = 0
    OBVIOUS
  <2>3. CASE req[r].parsed
    BY <2>1, <2>2, <2>3
  <2>4. CASE ~ req[r].parsed
    BY <2>1, <2>2, <2>4
  <2> QED BY <2>3, <2>4
<1> QED BY <1>1, TasksCorrect, BooksInOrder, PTL

\* No client gets two responses, and none that stays gets a part of one or, unless
\* its upstream had none to relay, is left without.
THEOREM AnswerUnique == Spec => []OneAnswer
<1>1. AllTasks /\ AllBooked => OneAnswer
  <2> SUFFICES ASSUME AllTasks, AllBooked, NEW r \in Requests
               PROVE  /\ Len(req[r].got) <= 1
                      /\ Ended(req[r]) /\ open[r] =>
                           IF Silent(req[r]) THEN req[r].got = <<>>
                           ELSE req[r].got # <<>> /\ req[r].got # <<Cut>>
    BY DEF OneAnswer
  <2>1. Len(req[r].got) <= 1
    BY DEF AllBooked, Booked, Ledger
  <2>2. ASSUME Ended(req[r]), open[r], ~ Silent(req[r])
        PROVE  req[r].got # <<>> /\ req[r].got # <<Cut>>
    <3>1. req[r].got = <<NoStatus>> \/ (req[r].got = <<req[r].status>> /\ req[r].status \in U16)
      BY <2>2, EndedBooks DEF Answered
    <3>2. Cut # NoStatus /\ Cut \notin U16
      BY MarksTold
    <3>3. \A a : req[r].got = <<a>> /\ a # Cut => req[r].got # <<>> /\ req[r].got # <<Cut>>
      OBVIOUS
    <3> QED BY <3>1, <3>2, <3>3
  <2>3. ASSUME Ended(req[r]), open[r], Silent(req[r])
        PROVE  req[r].got = <<>>
    BY <2>3 DEF AllBooked, Booked, Ledger
  <2> QED BY <2>1, <2>2, <2>3
<1> QED BY <1>1, TasksCorrect, BooksInOrder, PTL

\* The access log says what the client got, but for the two kinds of relay.
THEOREM LogTruthful == Spec => []LogTellsAnswer
<1>1. AllTasks /\ AllBooked => LogTellsAnswer
  <2> SUFFICES ASSUME AllTasks, AllBooked, NEW r \in Requests, Ended(req[r]),
                      NEW i \in DOMAIN req[r].got, NEW j \in DOMAIN req[r].log
               PROVE  LET heard  == req[r].got[i]
                          logged == req[r].log[j]
                      IN  \/ heard = logged
                          \/ /\ req[r].proto = "h1"
                             /\ \/ heard = NoStatus /\ logged = 502
                                \/ /\ heard = Cut /\ ~ open[r]
                                   /\ logged \in {StatusOf(req[r].reply), 502}
    BY DEF LogTellsAnswer
  <2>1. req[r].log[j] = req[r].status
    <3>1. req[r].log \in {<<>>, <<req[r].status>>}
      BY EndedBooks DEF Logged
    <3> QED BY <3>1
  <2>2. \A a : req[r].got = <<a>> => req[r].got[i] = a
    OBVIOUS
  <2>3. req[r].got # <<>>
    OBVIOUS
  <2> QED BY EndedBooks, <2>1, <2>2, <2>3 DEF Answered
<1> QED BY <1>1, TasksCorrect, BooksInOrder, PTL

\* The logged status of a proxied request tells what became of its upstream.
THEOREM CauseTold == Spec => []StatusTellsCause
<1>1. AllTasks /\ AllBooked => StatusTellsCause
  <2> SUFFICES ASSUME AllTasks, AllBooked, NEW r \in Requests, Ended(req[r]),
                      req[r].way = "proxy"
               PROVE  LET q == req[r]
                      IN  /\ ~ q.tried => q.log = <<503>>
                          /\ q.tried /\ q.reply = NoReply => q.log = <<502>>
                          /\ q.tried /\ q.reply # NoReply =>
                               \/ q.log = <<StatusOf(q.reply)>>
                               \/ /\ q.log = <<502>> /\ q.proto = "h1"
                                  /\ ~ open[r] /\ q.got \in {<<>>, <<Cut>>}
    BY DEF StatusTellsCause
  <2>1. req[r].at \in Answering
    BY DEF Ended, Answering
  <2>2. Cause(req[r], open[r]) /\ Logged(req[r])
    BY EndedBooks
  <2>3. req[r].parsed
    BY <2>1, <2>2 DEF Cause
  <2>4. req[r].log = <<req[r].status>>
    BY <2>2, <2>3 DEF Logged
  <2> QED BY <2>1, <2>2, <2>4 DEF Cause
<1> QED BY <1>1, TasksCorrect, BooksInOrder, PTL

-----------------------------------------------------------------------------
(***************************************************************************)
(* Where statuses come from.                                               *)
(***************************************************************************)

\* What a request reports, or may come to relay.
Sourced(q) ==
  /\ q.at = "reply" => q.status \in Reported
  /\ q.reply \in Replies \cup {NoStatus, Empty, NoReply}

AllSourced == \A r \in Requests : Sourced(req[r])

\* The statuses that the handlers make up themselves are reported.
LEMMA OwnStatuses == {500, 502, 503} \subseteq Reported
<1>1. ASSUME NEW s \in {500, 502, 503} PROVE s \in Reported
  BY <1>1 DEF Reported
<1> QED BY <1>1

\* A request that is about to report such a status.
LEMMA ReplySourced ==
  ASSUME NEW q \in Tasks, Sourced(q), NEW s \in Reported, NEW todo
  PROVE  Sourced(Reply(q, s, todo))
BY DEF Reply, Sourced, Tasks, RequestType

\* What else is said of a request makes no difference.
LEMMA MarkSourced ==
  ASSUME NEW q \in Tasks, Sourced(q), NEW way, NEW got
  PROVE  /\ Sourced([q EXCEPT !.way = way])
         /\ Sourced([q EXCEPT !.got = got])
BY DEF Sourced, Tasks, RequestType

\* Nor does the way that led to a report.
LEMMA MarkedSourced ==
  ASSUME NEW q \in Tasks, Sourced(q), NEW s \in Reported, s \in U16, NEW todo \in Orders,
         NEW way
  PROVE  Sourced([Reply(q, s, todo) EXCEPT !.way = way])
<1>1. Reply(q, s, todo) \in Tasks /\ Sourced(Reply(q, s, todo))
  BY ReplyType, ReplySourced
<1> QED BY <1>1, MarkSourced

\* Nor does another await before the reply.
LEMMA MoveSourced ==
  ASSUME NEW q \in Tasks, Sourced(q),
         NEW at \in {"dispatch", "connect", "write", "read", "relay", "done", "lost"}
  PROVE  Sourced([q EXCEPT !.at = at])
BY DEF Sourced, Tasks, RequestType

\* One request's own step changes no other's.
LEMMA BecomeSourced ==
  ASSUME AllTasks, AllSourced, NEW r \in Requests, NEW q, Become(r, q), Sourced(q)
  PROVE  AllSourced'
<1> SUFFICES ASSUME NEW s \in Requests PROVE Sourced(req'[s])
  BY DEF AllSourced, Sourced
<1> QED BY DEF Become, AllTasks, AllSourced

\* Every step leaves every request with such a status.
LEMMA SourcedStep == AllTasks /\ AllSourced /\ [Next]_vars => AllSourced'
<1> SUFFICES ASSUME AllTasks, AllSourced, [Next]_vars PROVE AllSourced'
  OBVIOUS
<1>0. ASSUME NEW r \in Requests PROVE req[r] \in Tasks /\ Sourced(req[r])
  BY DEF AllTasks, AllSourced
<1>1. ASSUME NEW r \in Requests, NEW p \in Protocols, Arrive(r, p) PROVE AllSourced'
  <2>1. Sourced([Idle EXCEPT !.at = IF p = "h1" THEN "parse" ELSE "dispatch",
                               !.proto = p, !.parsed = p # "h1"])
    BY DEF Idle, Sourced
  <2> QED BY <1>1, <2>1, BecomeSourced DEF Arrive
<1>2. ASSUME NEW r \in Requests, Leave(r) PROVE AllSourced'
  BY <1>2 DEF Leave, AllSourced, Sourced
<1>19. ASSUME NEW r \in Requests, LeaveMidway(r) PROVE AllSourced'
  <2> DEFINE q == [req[r] EXCEPT !.got = Append(@, Cut)]
  <2>1. Sourced(q) /\ Become(r, q)
    BY <1>0, <1>19, MarkSourced DEF LeaveMidway
  <2> HIDE DEF q
  <2> QED BY <2>1, BecomeSourced
<1>3. ASSUME NEW r \in Requests, Parsed(r) PROVE AllSourced'
  <2>1. Sourced([req[r] EXCEPT !.at = "dispatch", !.parsed = TRUE])
    BY <1>0 DEF Sourced, Tasks, RequestType
  <2> QED BY <1>3, <2>1, BecomeSourced DEF Parsed
<1>4. ASSUME NEW r \in Requests, ParseFails(r) PROVE AllSourced'
  <2>1. Sourced(Reply(req[r], 500, <<"send">>))
    BY <1>0, OwnStatuses, ReplySourced
  <2> QED BY <1>4, <2>1, BecomeSourced DEF ParseFails
<1>5. ASSUME NEW r \in Requests, PickNone(r) \/ WasmFails(r) PROVE AllSourced'
  <2> DEFINE todo == ErrorOrder(req[r].proto)
             none == [Reply(req[r], 503, todo) EXCEPT !.way = "proxy"]
             fails == [Reply(req[r], 500, todo) EXCEPT !.way = "wasm"]
  <2>1. Sourced(none) /\ Sourced(fails)
    <3>1. 500 \in Reported /\ 503 \in Reported /\ 500 \in U16 /\ 503 \in U16
      BY OwnStatuses, ErrorType
    <3>2. todo \in Orders
      BY ErrorType
    <3> HIDE DEF todo
    <3>3. Sourced(none)
      BY <1>0, <3>1, <3>2, MarkedSourced
    <3>4. Sourced(fails)
      BY <1>0, <3>1, <3>2, MarkedSourced
    <3> QED BY <3>3, <3>4
  <2>2. Become(r, none) \/ Become(r, fails)
    BY <1>5 DEF PickNone, WasmFails
  <2> HIDE DEF none, fails
  <2> QED BY <2>1, <2>2, BecomeSourced
<1>6. ASSUME NEW r \in Requests, PickSome(r) PROVE AllSourced'
  <2>1. Sourced([req[r] EXCEPT !.at = "connect", !.way = "proxy", !.tried = TRUE])
    BY <1>0 DEF Sourced, Tasks, RequestType
  <2> QED BY <1>6, <2>1, BecomeSourced DEF PickSome
<1>7. ASSUME NEW r \in Requests, NEW s \in WasmStatuses, WasmAnswers(r, s) PROVE AllSourced'
  <2> DEFINE q == [Reply(req[r], s, LogThenSend) EXCEPT !.way = "wasm"]
  <2>1. s \in Reported /\ s \in U16 /\ LogThenSend \in Orders
    BY WasmAssumption DEF Orders, Reported
  <2>2. Sourced(q)
    BY <1>0, <2>1, MarkedSourced
  <2>3. Become(r, q)
    BY <1>7 DEF WasmAnswers
  <2> HIDE DEF q
  <2> QED BY <2>2, <2>3, BecomeSourced
<1>8. ASSUME NEW r \in Requests, NEW s \in FileStatuses, StaticAnswers(r, s) PROVE AllSourced'
  <2>1. s \in Reported
    BY DEF Reported
  <2>2. Sourced(Reply(req[r], s, LogThenSend))
    BY <1>0, <2>1, ReplySourced
  <2> QED BY <1>8, <2>2, BecomeSourced DEF StaticAnswers
<1>9. ASSUME NEW r \in Requests, Connected(r) \/ Written(r) PROVE AllSourced'
  <2>1. \A at \in {"write", "read"} : Sourced([req[r] EXCEPT !.at = at])
    BY <1>0, MoveSourced
  <2> QED BY <1>9, <2>1, BecomeSourced DEF Connected, Written
<1>10. ASSUME NEW r \in Requests, FetchFails(r) \/ ReadTimeout(r) \/ RelayFails(r)
       PROVE  AllSourced'
  <2>1. Sourced(BadGateway(req[r]))
    BY <1>0, OwnStatuses, ReplySourced DEF BadGateway
  <2> QED BY <1>10, <2>1, BecomeSourced DEF FetchFails, ReadTimeout, RelayFails
<1>11. ASSUME NEW a \in Replies \cup {NoStatus, Empty} PROVE StatusOf(a) \in Reported
  BY OwnStatuses DEF StatusOf, Reported
<1>12. ASSUME NEW r \in Requests, NEW a \in Replies \cup {NoStatus, Empty}, ReadAll(r, a)
       PROVE  AllSourced'
  <2> DEFINE w == [req[r] EXCEPT !.reply = a]
  <2>1. a \in Answers /\ a # NoReply
    BY RepliesAssumption, MarkAssumption, NoReplyTold DEF Answers
  <2>2. w \in Tasks /\ Sourced(w)
    <3>1. w \in Tasks
      BY <1>0, <2>1, ReadType
    <3>2. Sourced(w)
      BY <1>0 DEF Sourced, Tasks, RequestType
    <3> QED BY <3>1, <3>2
  <2> HIDE DEF w
  <2>3. Sourced([w EXCEPT !.at = "relay"])
    BY <2>2, MoveSourced
  <2>4. Sourced(Reply(w, StatusOf(a), LogThenSend))
    BY <1>11, <2>2, ReplySourced
  <2> QED BY <1>12, <2>3, <2>4, BecomeSourced DEF ReadAll, w
<1>13. ASSUME NEW r \in Requests, RelayWorks(r) PROVE AllSourced'
  <2> DEFINE a == req[r].reply
             q == Reply(req[r], StatusOf(a), <<"log">>)
  <2>1. a \in Replies \cup {NoStatus, Empty} /\ a \in Answers
    <3>1. a # NoReply
      BY <1>0, <1>13 DEF RelayWorks, Tasks
    <3>2. a \in Replies \cup {NoStatus, Empty}
      BY <1>0, <3>1 DEF Sourced
    <3> QED BY <3>2, RepliesAssumption DEF Answers
  <2>2. StatusOf(a) \in Reported /\ StatusOf(a) \in U16 /\ <<"log">> \in Orders
    BY <1>11, <2>1, StatusType DEF Orders
  <2>3. q \in Tasks /\ Sourced(q)
    BY <1>0, <2>2, ReplyType, ReplySourced
  <2> HIDE DEF q
  <2>4. Sourced([q EXCEPT !.got = Deliver(r, a)])
    BY <2>3, MarkSourced
  <2> QED BY <1>13, <2>4, BecomeSourced DEF RelayWorks, q
<1>14. ASSUME NEW r \in Requests, Log(r) PROVE AllSourced'
  <2>1. Sourced([Advance(req[r]) EXCEPT !.log = Append(@, req[r].status)])
    BY <1>0, <1>14 DEF Log, Advance, Sourced, Tasks, RequestType
  <2> QED BY <1>14, <2>1, BecomeSourced DEF Log
<1>15. ASSUME NEW r \in Requests, Send(r) PROVE AllSourced'
  <2>1. Sourced([Advance(req[r]) EXCEPT !.got = Deliver(r, req[r].status)])
    BY <1>0, <1>15 DEF Send, Advance, Sourced, Tasks, RequestType
  <2> QED BY <1>15, <2>1, BecomeSourced DEF Send
<1>16. ASSUME NEW r \in Requests, Abort(r) PROVE AllSourced'
  <2> SUFFICES ASSUME NEW s \in Requests PROVE Sourced(req'[s])
    BY DEF AllSourced, Sourced
  <2>1. Sourced([req[s] EXCEPT !.at = "lost"])
    BY <1>0, MoveSourced
  <2>2. req'[s] \in {req[s], [req[s] EXCEPT !.at = "lost"]}
    BY <1>16 DEF Abort
  <2> QED BY <1>0, <2>1, <2>2
<1>17. ASSUME NEW r \in Requests, Finish(r) PROVE AllSourced'
  <2>1. Sourced(Idle)
    BY DEF Idle, Sourced
  <2> QED BY <1>17, <2>1, BecomeSourced DEF Finish
<1>18. CASE UNCHANGED vars
  BY <1>18 DEF AllSourced, Sourced, vars
<1> QED BY <1>1, <1>2, <1>3, <1>4, <1>5, <1>6, <1>7, <1>8, <1>9, <1>10, <1>12, <1>13,
           <1>14, <1>15, <1>16, <1>17, <1>18, <1>19 DEF Next, Dispatch

\* Every status reported is one of the handlers' own, of a module, an upstream or
\* a file.
LEMMA SourcesKnown == Spec => []AllSourced
<1>1. Init => AllSourced
  <2>1. Sourced(Idle)
    BY DEF Idle, Sourced
  <2>2. ASSUME Init, NEW r \in Requests PROVE Sourced(req[r])
    <3>1. req[r] = Idle
      BY <2>2 DEF Init
    <3> QED BY <2>1, <3>1
  <2> QED BY <2>2 DEF AllSourced
<1> QED BY <1>1, SourcedStep, TasksCorrect, PTL DEF Spec

-----------------------------------------------------------------------------
(***************************************************************************)
(* The bound of ResponseWellFormed: with three-digit statuses from outside *)
(* every response can be built.                                            *)
(***************************************************************************)

\* No request is lost in an abort of the process.
NoneLost == \A r \in Requests : req[r].at # "lost"

\* One request's own step loses no other.
LEMMA BecomeKept ==
  ASSUME AllTasks, NoneLost, NEW r \in Requests, NEW q, Become(r, q), q.at # "lost"
  PROVE  NoneLost'
BY DEF Become, AllTasks, NoneLost

\* A request that is about to report is not lost, whatever else is said of it.
LEMMA ReplyKept ==
  ASSUME NEW q \in Tasks, NEW s, NEW todo, NEW way, NEW got
  PROVE  /\ Reply(q, s, todo).at # "lost"
         /\ [Reply(q, s, todo) EXCEPT !.way = way].at # "lost"
         /\ [Reply(q, s, todo) EXCEPT !.got = got].at # "lost"
BY DEF Reply, Tasks, RequestType

\* Only an abort loses requests.
LEMMA LostByAbort ==
  ASSUME AllTasks, NoneLost, [Next]_vars, \A r \in Requests : ~ Abort(r)
  PROVE  NoneLost'
<1>0. ASSUME NEW r \in Requests PROVE req[r] \in Tasks /\ req[r].at # "lost"
  BY DEF AllTasks, NoneLost
<1>1. ASSUME NEW r \in Requests, NEW p \in Protocols, Arrive(r, p) PROVE NoneLost'
  <2>1. [Idle EXCEPT !.at = IF p = "h1" THEN "parse" ELSE "dispatch",
                     !.proto = p, !.parsed = p # "h1"].at # "lost"
    BY DEF Idle
  <2> QED BY <1>1, <2>1, BecomeKept DEF Arrive
<1>2. ASSUME NEW r \in Requests, Leave(r) PROVE NoneLost'
  BY <1>2 DEF Leave, NoneLost
<1>13. ASSUME NEW r \in Requests, LeaveMidway(r) PROVE NoneLost'
  <2> DEFINE q == [req[r] EXCEPT !.got = Append(@, Cut)]
  <2>1. q.at # "lost" /\ Become(r, q)
    BY <1>0, <1>13 DEF LeaveMidway, Tasks, RequestType
  <2> HIDE DEF q
  <2> QED BY <2>1, BecomeKept
<1>3. ASSUME NEW r \in Requests, Parsed(r) \/ PickSome(r) PROVE NoneLost'
  <2>1. /\ [req[r] EXCEPT !.at = "dispatch", !.parsed = TRUE].at # "lost"
        /\ [req[r] EXCEPT !.at = "connect", !.way = "proxy", !.tried = TRUE].at # "lost"
    BY <1>0 DEF Tasks, RequestType
  <2> QED BY <1>3, <2>1, BecomeKept DEF Parsed, PickSome
<1>4. ASSUME NEW r \in Requests, ParseFails(r) \/ PickNone(r) \/ WasmFails(r)
      PROVE  NoneLost'
  <2>1. /\ Reply(req[r], 500, <<"send">>).at # "lost"
        /\ [Reply(req[r], 503, ErrorOrder(req[r].proto)) EXCEPT !.way = "proxy"].at # "lost"
        /\ [Reply(req[r], 500, ErrorOrder(req[r].proto)) EXCEPT !.way = "wasm"].at # "lost"
    BY <1>0, ReplyKept
  <2> QED BY <1>4, <2>1, BecomeKept DEF ParseFails, PickNone, WasmFails
<1>5. ASSUME NEW r \in Requests, NEW s, WasmAnswers(r, s) \/ StaticAnswers(r, s)
      PROVE  NoneLost'
  <2>1. /\ Reply(req[r], s, LogThenSend).at # "lost"
        /\ [Reply(req[r], s, LogThenSend) EXCEPT !.way = "wasm"].at # "lost"
    BY <1>0, ReplyKept
  <2> QED BY <1>5, <2>1, BecomeKept DEF WasmAnswers, StaticAnswers
<1>6. ASSUME NEW r \in Requests, Connected(r) \/ Written(r) PROVE NoneLost'
  <2>1. \A at \in {"write", "read"} : [req[r] EXCEPT !.at = at].at # "lost"
    BY <1>0 DEF Tasks, RequestType
  <2> QED BY <1>6, <2>1, BecomeKept DEF Connected, Written
<1>7. ASSUME NEW r \in Requests, FetchFails(r) \/ ReadTimeout(r) \/ RelayFails(r)
      PROVE  NoneLost'
  <2>1. BadGateway(req[r]).at # "lost"
    BY <1>0, ReplyKept DEF BadGateway
  <2> QED BY <1>7, <2>1, BecomeKept DEF FetchFails, ReadTimeout, RelayFails
<1>8. ASSUME NEW r \in Requests, NEW a, ReadAll(r, a) PROVE NoneLost'
  <2>1. /\ [[req[r] EXCEPT !.reply = a] EXCEPT !.at = "relay"].at # "lost"
        /\ Reply([req[r] EXCEPT !.reply = a], StatusOf(a), LogThenSend).at # "lost"
    BY <1>0 DEF Reply, Tasks, RequestType
  <2> QED BY <1>8, <2>1, BecomeKept DEF ReadAll
<1>9. ASSUME NEW r \in Requests, RelayWorks(r) PROVE NoneLost'
  <2> DEFINE q == [Reply(req[r], StatusOf(req[r].reply), <<"log">>)
                     EXCEPT !.got = Deliver(r, req[r].reply)]
  <2>1. q.at # "lost"
    BY <1>0, ReplyKept
  <2>2. Become(r, q)
    BY <1>9 DEF RelayWorks
  <2> HIDE DEF q
  <2> QED BY <2>1, <2>2, BecomeKept
<1>10. ASSUME NEW r \in Requests, Log(r) \/ Send(r) PROVE NoneLost'
  <2>1. /\ [Advance(req[r]) EXCEPT !.log = Append(@, req[r].status)].at # "lost"
        /\ [Advance(req[r]) EXCEPT !.got = Deliver(r, req[r].status)].at # "lost"
    BY <1>0 DEF Advance, Tasks, RequestType
  <2> QED BY <1>10, <2>1, BecomeKept DEF Log, Send
<1>11. ASSUME NEW r \in Requests, Finish(r) PROVE NoneLost'
  <2>1. Idle.at # "lost"
    BY DEF Idle
  <2> QED BY <1>11, <2>1, BecomeKept DEF Finish
<1>12. CASE UNCHANGED vars
  BY <1>12 DEF NoneLost, vars
<1> QED BY <1>1, <1>2, <1>3, <1>4, <1>5, <1>6, <1>7, <1>8, <1>9, <1>10, <1>11, <1>12, <1>13
        DEF Next, Dispatch

\* What the .expect of http2/mod.rs:163 and http3/mod.rs:209 takes for granted
\* holds, and the process never aborts, if modules and upstreams answer with
\* three-digit statuses and the server's name is a legal header value: nothing
\* that the server adds makes up another status.
THEOREM ThreeDigitsSuffice ==
  ASSUME WasmStatuses \subseteq 100 .. 999, Replies \subseteq 100 .. 999, NameFits
  PROVE  Spec => []ResponseWellFormed /\ []NoneLost
<1>1. Reported \subseteq 100 .. 999
  BY FileAssumption DEF Reported
<1>2. AllSourced => ResponseWellFormed /\ \A r \in Requests : ~ Abort(r)
  BY <1>1 DEF AllSourced, Sourced, ResponseWellFormed, Abort, Buildable
<1>3. Init => NoneLost
  <2>1. Idle.at # "lost"
    BY DEF Idle
  <2>2. ASSUME Init, NEW r \in Requests PROVE req[r] = Idle
    BY <2>2 DEF Init
  <2> QED BY <2>1, <2>2 DEF NoneLost
<1>4. AllTasks /\ AllSourced /\ NoneLost /\ [Next]_vars => NoneLost'
  BY <1>2, LostByAbort
<1> QED BY <1>2, <1>3, <1>4, SourcesKnown, TasksCorrect, PTL DEF Spec

-----------------------------------------------------------------------------
(***************************************************************************)
(* Requests as exchanges.                                                  *)
(***************************************************************************)

\* What a request's own step does to its exchange.
LEMMA Mapped ==
  ASSUME AllTasks, NEW r \in Requests, NEW q, Become(r, q)
  PROVE  /\ Told' = [Told EXCEPT ![r] = q.got]
         /\ Noted' = [Noted EXCEPT ![r] = q.log]
         /\ InService' = IF Served(q) THEN InService \cup {r} ELSE InService \ {r}
         /\ Understood' = IF q.parsed THEN Understood \cup {r} ELSE Understood \ {r}
         /\ Muted' = IF Silent(q) THEN Muted \cup {r} ELSE Muted \ {r}
<1>1. \A s \in Requests : req'[s] = IF s = r THEN q ELSE req[s]
  BY DEF Become, AllTasks
<1>2. Told' = [Told EXCEPT ![r] = q.got]
  BY <1>1 DEF Told
<1>3. Noted' = [Noted EXCEPT ![r] = q.log]
  BY <1>1 DEF Noted
<1>4. InService' = IF Served(q) THEN InService \cup {r} ELSE InService \ {r}
  BY <1>1 DEF InService, Served
<1>5. Understood' = IF q.parsed THEN Understood \cup {r} ELSE Understood \ {r}
  BY <1>1 DEF Understood
<1>6. Muted' = IF Silent(q) THEN Muted \cup {r} ELSE Muted \ {r}
  BY <1>1 DEF Muted, Silent
<1> QED BY <1>2, <1>3, <1>4, <1>5, <1>6

\* What a step leaves alone of a request it leaves alone of its exchange.
LEMMA MappedSame ==
  ASSUME NEW r \in Requests
  PROVE  /\ Told[r] = req[r].got /\ [Told EXCEPT ![r] = req[r].got] = Told
         /\ Noted[r] = req[r].log /\ [Noted EXCEPT ![r] = req[r].log] = Noted
         /\ r \in InService <=> Served(req[r])
         /\ r \in Understood <=> req[r].parsed
         /\ r \in Present <=> open[r]
         /\ r \in Muted <=> Silent(req[r])
BY DEF Told, Noted, InService, Understood, Present, Muted

LEMMA MappedKept ==
  ASSUME AllTasks, NEW r \in Requests, NEW q, Become(r, q)
  PROVE  /\ q.got = req[r].got => Told' = Told
         /\ q.log = req[r].log => Noted' = Noted
         /\ q.parsed = req[r].parsed => Understood' = Understood
         /\ Served(q) /\ Served(req[r]) => InService' = InService
         /\ open' = open => Present' = Present
         /\ Silent(q) = Silent(req[r]) => Muted' = Muted
<1>1. \A s \in Requests : req'[s] = IF s = r THEN q ELSE req[s]
  BY DEF Become, AllTasks
<1>2. q.got = req[r].got => Told' = Told
  BY <1>1 DEF Told
<1>3. q.log = req[r].log => Noted' = Noted
  BY <1>1 DEF Noted
<1>4. q.parsed = req[r].parsed => Understood' = Understood
  BY <1>1 DEF Understood
<1>5. Served(q) /\ Served(req[r]) => InService' = InService
  BY <1>1 DEF InService
<1>6. open' = open => Present' = Present
  BY DEF Present
<1>7. Silent(q) = Silent(req[r]) => Muted' = Muted
  BY <1>1 DEF Muted, Silent
<1> QED BY <1>2, <1>3, <1>4, <1>5, <1>6, <1>7

\* Steps that neither answer nor log.
LEMMA Quiet ==
  ASSUME AllTasks, NEW r \in Requests, NEW q, Become(r, q), open' = open,
         Served(req[r]), Served(q), q.got = req[r].got, q.log = req[r].log,
         q.parsed = req[r].parsed, Silent(q) = Silent(req[r])
  PROVE  UNCHANGED Service!vars
BY MappedKept DEF Service!vars

\* Nothing is owed when a task is done.
LEMMA DoneSettled ==
  ASSUME NEW q, NEW here \in BOOLEAN, Booked(q, here), q.at = "done"
  PROVE  (here /\ ~ Silent(q) => q.got # <<>>) /\ (q.parsed => q.log # <<>>)
<1>1. q.todo = <<>> /\ Logged(q) /\ Answered(q, here)
  BY OrdersTold DEF Booked, Ledger, Answering
<1> QED BY <1>1 DEF Logged, Answered

\* A line in the access log is a note that agrees with what the client was told.
LEMMA LogNotes ==
  ASSUME AllTasks, AllBooked, AllSourced, AllBooked', NEW r \in Requests, Log(r)
  PROVE  Service!Note(r)
<1> DEFINE s == req[r].status
           q == [Advance(req[r]) EXCEPT !.log = Append(@, s)]
<1>1. /\ req[r] \in Tasks /\ open[r] \in BOOLEAN
      /\ Ledger(req[r], open[r]) /\ Sourced(req[r])
  BY DEF AllTasks, AllBooked, AllSourced, Booked
<1>2. req[r].at = "reply" /\ Head(req[r].todo) = "log" /\ Become(r, q) /\ open' = open
  BY DEF Log
<1>3. req[r].log = <<>> /\ req[r].parsed
  BY <1>1, <1>2, AdvanceTold DEF Ledger, Answering
<1>4. /\ q.at \in {"reply", "done"} /\ q.got = req[r].got /\ q.parsed = req[r].parsed
      /\ q.log = Append(req[r].log, s) /\ Silent(q) = Silent(req[r])
  BY <1>1, <1>2 DEF Advance, Silent, Tasks, RequestType
<1>5. q.log = <<s>>
  BY <1>3, <1>4
<1>6. Booked(q, open[r])
  <2>1. req'[r] = q
    BY <1>2 DEF Become, AllTasks
  <2> QED BY <1>2, <2>1 DEF AllBooked
<1>7. \A i \in DOMAIN req[r].got : Service!Agree(req[r].got[i], s)
  <2>1. req[r].got \in {<<>>, <<Cut>>} \/ Answered(req[r], open[r])
    BY <1>1, <1>2 DEF Ledger, Begun, Answering
  <2> QED BY <2>1 DEF Answered, Service!Agree
<1> HIDE DEF q, s
<1>8. s \in Reported
  BY <1>1, <1>2 DEF Sourced, s
<1>9. Service!GoOn(r, Told[r], <<s>>)
  <2>1. CASE q.at = "reply"
    <3>1. InService' = InService
      BY <1>2, <2>1, MappedKept DEF Served
    <3> QED BY <3>1 DEF Service!GoOn
  <2>2. CASE q.at = "done"
    <3>1. InService' = InService \ {r}
      BY <1>2, <2>2, Mapped DEF Served
    <3>2. open[r] /\ ~ Silent(req[r]) => req[r].got # <<>>
      BY <1>1, <1>4, <1>6, <2>2, DoneSettled
    <3>3. Service!Settled(r, Told[r], <<s>>)
      BY <3>2, MappedSame DEF Service!Settled
    <3> QED BY <3>1, <3>3 DEF Service!GoOn
  <2> QED BY <1>4, <2>1, <2>2
<1>10. Noted' = [Noted EXCEPT ![r] = <<s>>]
  BY <1>2, <1>5, Mapped
<1>11. UNCHANGED <<Told, Understood, Present, Muted>>
  BY <1>2, <1>4, MappedKept
<1>12. r \in InService /\ r \in Understood /\ Noted[r] = <<>>
  BY <1>2, <1>3, MappedSame DEF Served
<1> QED BY <1>7, <1>8, <1>9, <1>10, <1>11, <1>12, MappedSame DEF Service!Note

\* A response, or what is relayed, tells a client that is still there something
\* that agrees with the log.
LEMMA DeliveryTells ==
  ASSUME AllTasks, AllBooked', NEW r \in Requests, NEW q, Become(r, q), open' = open,
         NEW a \in Service!Answers, Served(req[r]), q.at \in {"reply", "done"},
         open[r] => req[r].got = <<>> /\ q.got = <<a>> /\ ~ Silent(req[r]),
         ~ open[r] => q.got = req[r].got,
         q.log = req[r].log, q.parsed = req[r].parsed, Silent(q) = Silent(req[r]),
         \A i \in DOMAIN q.log : Service!Agree(a, q.log[i])
  PROVE  Service!Next \/ UNCHANGED Service!vars
<1>1. Booked(q, open[r]) /\ open[r] \in BOOLEAN
  <2>1. req'[r] = q
    BY DEF Become, AllTasks
  <2> QED BY <2>1 DEF AllBooked, AllTasks
<1>2. /\ Noted' = Noted /\ Understood' = Understood /\ Present' = Present /\ Muted' = Muted
      /\ r \in InService /\ Told[r] = req[r].got /\ Noted[r] = q.log
  BY MappedKept, MappedSame
<1>3. Service!GoOn(r, q.got, Noted[r])
  <2>1. CASE q.at = "reply"
    <3>1. InService' = InService
      BY <2>1, MappedKept DEF Served
    <3> QED BY <3>1 DEF Service!GoOn
  <2>2. CASE q.at = "done"
    <3>1. InService' = InService \ {r}
      BY <2>2, Mapped DEF Served
    <3>2. (open[r] /\ ~ Silent(q) => q.got # <<>>) /\ (q.parsed => q.log # <<>>)
      BY <1>1, <2>2, DoneSettled
    <3>3. Service!Settled(r, q.got, Noted[r])
      BY <1>2, <3>2, MappedSame DEF Service!Settled
    <3> QED BY <3>1, <3>3 DEF Service!GoOn
  <2> QED BY <2>1, <2>2
<1>4. CASE open[r]
  <2>1. q.got = <<a>> /\ Told' = [Told EXCEPT ![r] = <<a>>]
    <3>1. q.got = <<a>>
      BY <1>4
    <3>2. Told' = [Told EXCEPT ![r] = q.got]
      BY Mapped
    <3> QED BY <3>1, <3>2
  <2>2. Service!Tell(r)
    BY <1>2, <1>3, <1>4, <2>1, MappedSame DEF Service!Tell
  <2> QED BY <2>2 DEF Service!Next
<1>5. CASE ~ open[r]
  <2>1. q.got = Told[r] /\ Told' = Told
    BY <1>2, <1>5, MappedKept
  <2>2. CASE InService' = InService
    BY <1>2, <2>1, <2>2 DEF Service!vars
  <2>3. CASE Service!Settled(r, Told[r], Noted[r]) /\ InService' = InService \ {r}
    <3>1. Service!End(r)
      BY <1>2, <2>1, <2>3 DEF Service!End
    <3> QED BY <3>1 DEF Service!Next
  <2> QED BY <1>3, <2>1, <2>2, <2>3 DEF Service!GoOn
<1> QED BY <1>4, <1>5

\* What does not touch answers and log, and stays in service.
SameBooks(q, w) ==
  /\ q.got = w.got /\ q.log = w.log /\ q.parsed = w.parsed
  /\ Silent(q) = Silent(w) /\ Served(q)

LEMMA ReplySame ==
  ASSUME NEW w \in Tasks, NEW s, NEW todo, NEW way
  PROVE  /\ SameBooks(Reply(w, s, todo), w)
         /\ SameBooks([Reply(w, s, todo) EXCEPT !.way = way], w)
BY DEF SameBooks, Silent, Served, Reply, Tasks, RequestType

LEMMA MoveSame ==
  ASSUME NEW w \in Tasks, NEW at \in {"connect", "write", "read", "relay"}
  PROVE  /\ SameBooks([w EXCEPT !.at = at], w)
         /\ SameBooks([w EXCEPT !.at = at, !.way = "proxy", !.tried = TRUE], w)
BY DEF SameBooks, Silent, Served, Tasks, RequestType

\* The steps up to the answer.
LEMMA ServiceQuiet ==
  ASSUME AllTasks, NEW r \in Requests,
         \/ ParseFails(r) \/ Dispatch(r) \/ Connected(r) \/ Written(r) \/ FetchFails(r)
         \/ ReadTimeout(r) \/ RelayFails(r)
  PROVE  UNCHANGED Service!vars
<1>1. req[r] \in Tasks
  BY DEF AllTasks
<1>2. ASSUME NEW q, Become(r, q), SameBooks(q, req[r]), Served(req[r]), open' = open
      PROVE  UNCHANGED Service!vars
  BY <1>2, Quiet DEF SameBooks
<1>3. CASE ParseFails(r)
  <2>1. SameBooks(Reply(req[r], 500, <<"send">>), req[r])
    BY <1>1, ReplySame
  <2> QED BY <1>2, <1>3, <2>1 DEF ParseFails, Served
<1>4. CASE PickNone(r)
  <2> DEFINE q == [Reply(req[r], 503, ErrorOrder(req[r].proto)) EXCEPT !.way = "proxy"]
  <2>1. SameBooks(q, req[r])
    BY <1>1, ReplySame
  <2>2. Become(r, q) /\ Served(req[r]) /\ open' = open
    BY <1>4 DEF PickNone, Served
  <2> HIDE DEF q
  <2> QED BY <1>2, <2>1, <2>2
<1>5. CASE WasmFails(r)
  <2> DEFINE q == [Reply(req[r], 500, ErrorOrder(req[r].proto)) EXCEPT !.way = "wasm"]
  <2>1. SameBooks(q, req[r])
    BY <1>1, ReplySame
  <2>2. Become(r, q) /\ Served(req[r]) /\ open' = open
    BY <1>5 DEF WasmFails, Served
  <2> HIDE DEF q
  <2> QED BY <1>2, <2>1, <2>2
<1>6. ASSUME NEW s, WasmAnswers(r, s) PROVE UNCHANGED Service!vars
  <2> DEFINE q == [Reply(req[r], s, LogThenSend) EXCEPT !.way = "wasm"]
  <2>1. SameBooks(q, req[r])
    BY <1>1, ReplySame
  <2>2. Become(r, q) /\ Served(req[r]) /\ open' = open
    BY <1>6 DEF WasmAnswers, Served
  <2> HIDE DEF q
  <2> QED BY <1>2, <2>1, <2>2
<1>7. ASSUME NEW s, StaticAnswers(r, s) PROVE UNCHANGED Service!vars
  <2>1. SameBooks(Reply(req[r], s, LogThenSend), req[r])
    BY <1>1, ReplySame
  <2> QED BY <1>2, <1>7, <2>1 DEF StaticAnswers, Served
<1>8. CASE PickSome(r)
  <2>1. SameBooks([req[r] EXCEPT !.at = "connect", !.way = "proxy", !.tried = TRUE], req[r])
    BY <1>1, MoveSame
  <2> QED BY <1>2, <1>8, <2>1 DEF PickSome, Served
<1>9. CASE Connected(r) \/ Written(r)
  <2>1. /\ SameBooks([req[r] EXCEPT !.at = "write"], req[r])
        /\ SameBooks([req[r] EXCEPT !.at = "read"], req[r])
    BY <1>1, MoveSame
  <2> QED BY <1>2, <1>9, <2>1 DEF Connected, Written, Served
<1>10. CASE FetchFails(r) \/ ReadTimeout(r) \/ RelayFails(r)
  <2>1. SameBooks(BadGateway(req[r]), req[r])
    BY <1>1, ReplySame DEF BadGateway
  <2> QED BY <1>2, <1>10, <2>1 DEF FetchFails, ReadTimeout, RelayFails, Served
<1> QED BY <1>3, <1>4, <1>5, <1>6, <1>7, <1>8, <1>9, <1>10 DEF Dispatch

\* An upstream that closed without a byte leaves nothing to tell a client of
\* HTTP/1.1; any other answer tells nothing yet.
LEMMA ReadHushes ==
  ASSUME AllTasks, AllBooked, NEW r \in Requests, NEW a, ReadAll(r, a)
  PROVE  Service!Next \/ UNCHANGED Service!vars
<1> DEFINE w == [req[r] EXCEPT !.reply = a]
           q == IF w.proto = "h1" THEN [w EXCEPT !.at = "relay"]
                ELSE Reply(w, StatusOf(a), LogThenSend)
<1>1. req[r] \in Tasks /\ Ledger(req[r], open[r]) /\ Cause(req[r], open[r])
  BY DEF AllTasks, AllBooked, Booked
<1>2. Become(r, q) /\ req[r].at = "read" /\ open' = open
  BY DEF ReadAll
<1>3. q.got = req[r].got /\ q.log = req[r].log /\ q.parsed = req[r].parsed /\ Served(q)
  BY <1>1 DEF Served, Reply, Tasks, RequestType
<1>4. req[r].got = <<>> /\ Served(req[r]) /\ ~ Silent(req[r])
  BY <1>1, <1>2, MarksTold DEF Ledger, Cause, Unanswered, Served, Silent
<1> HIDE DEF q
<1>5. CASE Silent(q)
  <2>1. UNCHANGED <<InService, Present, Understood, Told, Noted>>
    BY <1>2, <1>3, <1>4, MappedKept
  <2>2. Muted' = Muted \cup {r} /\ r \in InService /\ Told[r] = <<>>
    BY <1>2, <1>4, <1>5, Mapped, MappedSame
  <2>3. Service!Hush(r)
    BY <2>1, <2>2 DEF Service!Hush
  <2> QED BY <2>3 DEF Service!Next
<1>6. CASE ~ Silent(q)
  <2>1. Silent(q) = Silent(req[r])
    BY <1>4, <1>6 DEF Silent
  <2> QED BY <1>2, <1>3, <1>4, <2>1, Quiet
<1> QED BY <1>5, <1>6

\* A request's coming and going, and the end of the process.
LEMMA ServiceFrame ==
  ASSUME AllTasks, AllBooked, NEW r \in Requests,
         \/ (\E p \in Protocols : Arrive(r, p)) \/ Leave(r) \/ LeaveMidway(r)
         \/ Parsed(r) \/ Abort(r) \/ Finish(r)
  PROVE  Service!Next
<1>1. /\ req[r] \in Tasks /\ open \in [Requests -> BOOLEAN]
      /\ Ledger(req[r], open[r]) /\ Cause(req[r], open[r])
  BY DEF AllTasks, AllBooked, Booked
<1>2. ASSUME NEW p \in Protocols, Arrive(r, p) PROVE Service!Begin(r)
  <2> DEFINE q == [Idle EXCEPT !.at = IF p = "h1" THEN "parse" ELSE "dispatch",
                               !.proto = p, !.parsed = p # "h1"]
  <2>1. Served(q) /\ q.got = <<>> /\ q.log = <<>> /\ ~ Silent(q)
    BY MarksTold DEF Idle, Served, Silent
  <2>2. Become(r, q) /\ open' = [open EXCEPT ![r] = TRUE] /\ req[r].at = "idle"
    BY <1>2 DEF Arrive
  <2> HIDE DEF q
  <2>3. req[r].got = <<>> /\ req[r].log = <<>> /\ ~ Silent(req[r])
    BY <1>1, <2>2, MarksTold DEF Ledger, Cause, Silent, Unanswered
  <2>4. Told' = Told /\ Noted' = Noted /\ Muted' = Muted
    <3>1. Silent(q) = Silent(req[r])
      BY <2>1, <2>3 DEF Silent
    <3> QED BY <2>1, <2>2, <2>3, <3>1, MappedKept
  <2>5. InService' = InService \cup {r} /\ Understood' \in {Understood \ {r}, Understood \cup {r}}
    BY <2>1, <2>2, Mapped
  <2>6. Present' = Present \cup {r}
    BY <1>1, <2>2 DEF Present
  <2>7. r \notin InService /\ Told[r] = <<>> /\ Noted[r] = <<>>
    BY <2>2, <2>3, MappedSame DEF Served
  <2> QED BY <2>4, <2>5, <2>6, <2>7 DEF Service!Begin
<1>3. CASE Leave(r)
  <2>1. Present' = Present \ {r}
    BY <1>1, <1>3 DEF Leave, Present
  <2>2. UNCHANGED <<InService, Muted, Understood, Told, Noted>>
    BY <1>3 DEF Leave, InService, Muted, Understood, Told, Noted
  <2>3. Service!Go(r)
    BY <2>1, <2>2 DEF Service!Go
  <2> QED BY <2>3 DEF Service!Next
<1>7. CASE LeaveMidway(r)
  <2> DEFINE q == [req[r] EXCEPT !.got = Append(@, Cut)]
  <2>1. /\ Become(r, q) /\ Served(req[r]) /\ req[r].at = "relay" /\ open[r]
        /\ open' = [open EXCEPT ![r] = FALSE]
    BY <1>7 DEF LeaveMidway, Served
  <2>2. req[r].got = <<>> /\ ~ Silent(req[r])
    BY <1>1, <1>7, <2>1 DEF Ledger, Begun, Unanswered, LeaveMidway, Silent
  <2>3. /\ q.got = Append(req[r].got, Cut) /\ q.log = req[r].log /\ q.parsed = req[r].parsed
        /\ Served(q) /\ Silent(q) = Silent(req[r])
    BY <1>1, <2>1 DEF Served, Silent, Tasks, RequestType
  <2>4. q.got = <<Cut>>
    BY <2>2, <2>3
  <2> HIDE DEF q
  <2>5. Told' = [Told EXCEPT ![r] = <<Cut>>] /\ UNCHANGED <<InService, Muted, Understood, Noted>>
    BY <2>1, <2>3, <2>4, Mapped, MappedKept
  <2>6. Present' = Present \ {r}
    BY <1>1, <2>1 DEF Present
  <2>7. r \in (InService \cap Present) \ Muted /\ Told[r] = <<>>
    BY <2>1, <2>2, MappedSame
  <2>8. Service!Go(r)
    BY <2>5, <2>6, <2>7 DEF Service!Go
  <2> QED BY <2>8 DEF Service!Next
<1>4. CASE Parsed(r)
  <2> DEFINE q == [req[r] EXCEPT !.at = "dispatch", !.parsed = TRUE]
  <2>1. Become(r, q) /\ open' = open /\ Served(req[r])
    BY <1>4 DEF Parsed, Served
  <2>2. /\ q.got = req[r].got /\ q.log = req[r].log /\ q.parsed /\ Served(q)
        /\ Silent(q) = Silent(req[r])
    BY <1>1 DEF Served, Silent, Tasks, RequestType
  <2> HIDE DEF q
  <2>3. UNCHANGED <<InService, Present, Muted, Told, Noted>>
    BY <2>1, <2>2, MappedKept
  <2>4. Understood' = Understood \cup {r} /\ r \in InService
    BY <2>1, <2>2, Mapped, MappedSame
  <2>5. Service!Read(r)
    BY <2>3, <2>4 DEF Service!Read
  <2> QED BY <2>5 DEF Service!Next
<1>5. CASE Abort(r)
  <2>1. \A s \in Requests :
          /\ ~ Served(req'[s]) /\ req'[s].got = req[s].got /\ req'[s].log = req[s].log
          /\ req'[s].parsed = req[s].parsed /\ Silent(req'[s]) = Silent(req[s])
    <3> SUFFICES ASSUME NEW s \in Requests
                 PROVE /\ ~ Served(req'[s]) /\ req'[s].got = req[s].got
                       /\ req'[s].log = req[s].log /\ req'[s].parsed = req[s].parsed
                       /\ Silent(req'[s]) = Silent(req[s])
      OBVIOUS
    <3>1. req[s] \in Tasks
      BY DEF AllTasks
    <3>2. req'[s] = IF req[s].at \in {"idle", "done"} THEN req[s]
                    ELSE [req[s] EXCEPT !.at = "lost"]
      BY <1>5 DEF Abort
    <3> QED BY <3>1, <3>2 DEF Served, Silent, Tasks, RequestType
  <2>2. InService' = {} /\ UNCHANGED <<Muted, Understood, Told, Noted>>
    BY <2>1 DEF InService, Muted, Understood, Told, Noted
  <2>3. Present' = {}
    BY <1>5 DEF Abort, Present
  <2>4. Service!Lose
    BY <2>2, <2>3 DEF Service!Lose
  <2> QED BY <2>4 DEF Service!Next
<1>6. CASE Finish(r)
  <2>1. Become(r, Idle) /\ open' = [open EXCEPT ![r] = FALSE] /\ ~ Served(req[r])
    BY <1>6 DEF Finish, Served
  <2>2. Idle.got = <<>> /\ Idle.log = <<>> /\ ~ Idle.parsed /\ ~ Served(Idle) /\ ~ Silent(Idle)
    BY MarksTold DEF Idle, Served, Silent
  <2>3. /\ Told' = [Told EXCEPT ![r] = <<>>] /\ Noted' = [Noted EXCEPT ![r] = <<>>]
        /\ InService' = InService \ {r} /\ Understood' = Understood \ {r}
        /\ Muted' = Muted \ {r}
    BY <2>1, <2>2, Mapped
  <2>4. Present' = Present \ {r} /\ r \notin InService
    BY <1>1, <2>1, MappedSame DEF Present
  <2>5. Service!Clear(r)
    BY <2>3, <2>4 DEF Service!Clear
  <2> QED BY <2>5 DEF Service!Next
<1> QED BY <1>2, <1>3, <1>4, <1>5, <1>6, <1>7 DEF Service!Next

\* Every step of a request is one of its exchange, or none.
LEMMA ServiceStep ==
  ASSUME AllTasks, AllBooked, AllSourced, AllBooked', [Next]_vars
  PROVE  Service!Next \/ UNCHANGED Service!vars
<1>0. ASSUME NEW r \in Requests
      PROVE  /\ req[r] \in Tasks /\ open[r] \in BOOLEAN
             /\ Ledger(req[r], open[r]) /\ Sourced(req[r]) /\ Cause(req[r], open[r])
  BY DEF AllTasks, AllBooked, AllSourced, Booked
<1>1. ASSUME NEW r \in Requests, Log(r) PROVE Service!Next
  BY <1>1, LogNotes DEF Service!Next
<1>2. ASSUME NEW r \in Requests, Send(r) PROVE Service!Next \/ UNCHANGED Service!vars
  <2> DEFINE s == req[r].status
             q == [Advance(req[r]) EXCEPT !.got = Deliver(r, s)]
  <2>1. req[r].at = "reply" /\ Head(req[r].todo) = "send" /\ Become(r, q) /\ open' = open
    BY <1>2 DEF Send
  <2>2. open[r] => req[r].got = <<>> /\ ~ Silent(req[r])
    <3>1. ToSend(req[r].todo)
      BY <1>0, <2>1, AdvanceTold
    <3>2. Silent(req[r]) => req[r].proto = "h1" /\ req[r].reply # NoReply
      BY MarksTold DEF Silent
    <3> QED BY <1>0, <2>1, <3>1, <3>2 DEF Ledger, Begun, Cause, Answering
  <2>3. /\ q.at \in {"reply", "done"} /\ q.got = Deliver(r, s)
        /\ q.log = req[r].log /\ q.parsed = req[r].parsed /\ Silent(q) = Silent(req[r])
    BY <1>0, <2>1 DEF Advance, Silent, Tasks, RequestType
  <2>4. (open[r] => q.got = <<s>>) /\ (~ open[r] => q.got = req[r].got)
    <3>1. s # Empty
      BY <1>0, MarksTold DEF Tasks, RequestType
    <3> HIDE DEF q, s
    <3>2. Deliver(r, s) = IF open[r] THEN Append(req[r].got, s) ELSE req[r].got
      BY <3>1 DEF Deliver
    <3>3. Append(<<>>, s) = <<s>>
      OBVIOUS
    <3> QED BY <2>2, <2>3, <3>2, <3>3
  <2>5. \A i \in DOMAIN req[r].log : Service!Agree(s, req[r].log[i])
    <3>1. req[r].log = <<>> \/ Logged(req[r])
      BY <1>0, <2>1 DEF Ledger, Answering
    <3> QED BY <3>1 DEF Logged, Service!Agree
  <2>6. s \in Service!Answers
    BY <1>0, <2>1 DEF Sourced, Service!Answers
  <2>7. Served(req[r])
    BY <2>1 DEF Served
  <2> HIDE DEF q, s
  <2> QED BY <2>1, <2>2, <2>3, <2>4, <2>5, <2>6, <2>7, DeliveryTells
<1>3. ASSUME NEW r \in Requests, RelayWorks(r) PROVE Service!Next \/ UNCHANGED Service!vars
  <2> DEFINE a == req[r].reply
             q == [Reply(req[r], StatusOf(a), <<"log">>) EXCEPT !.got = Deliver(r, a)]
  <2>1. req[r].at = "relay" /\ Become(r, q) /\ open' = open
    BY <1>3 DEF RelayWorks
  <2>2. /\ open[r] => req[r].got = <<>>
        /\ req[r].log = <<>>
    BY <1>0, <2>1 DEF Ledger, Begun, Unanswered
  <2>3. /\ q.at = "reply" /\ q.got = Deliver(r, a)
        /\ q.log = req[r].log /\ q.parsed = req[r].parsed /\ Silent(q) = Silent(req[r])
    BY <1>0 DEF Reply, Silent, Tasks, RequestType
  <2>4. /\ open[r] /\ a # Empty => q.got = <<a>>
        /\ ~ (open[r] /\ a # Empty) => q.got = req[r].got
    <3> HIDE DEF q, a
    <3>1. Deliver(r, a) = IF open[r] /\ a # Empty THEN Append(req[r].got, a) ELSE req[r].got
      BY DEF Deliver
    <3>2. Append(<<>>, a) = <<a>>
      OBVIOUS
    <3> QED BY <2>2, <2>3, <3>1, <3>2
  <2>5. a # Empty => a \in Service!Answers
    <3>1. a # NoReply
      BY <1>0, <2>1 DEF Tasks
    <3>2. a \in Replies \cup {NoStatus, Empty}
      BY <1>0, <3>1 DEF Sourced
    <3> QED BY <3>2 DEF Service!Answers, Reported
  <2>6. Served(req[r]) /\ Served(q)
    BY <2>1, <2>3 DEF Served
  <2>7. \A i \in DOMAIN q.log : Service!Agree(a, q.log[i])
    BY <2>2, <2>3
  <2>8. a # Empty => ~ Silent(req[r])
    BY DEF Silent
  <2> HIDE DEF q, a
  <2>9. CASE a = Empty
    BY <2>1, <2>3, <2>4, <2>6, <2>9, Quiet
  <2>10. CASE a # Empty
    BY <2>1, <2>2, <2>3, <2>4, <2>5, <2>6, <2>7, <2>8, <2>10, DeliveryTells
  <2> QED BY <2>9, <2>10
<1>4. CASE UNCHANGED vars
  BY <1>4 DEF vars, Service!vars, InService, Present, Muted, Understood, Told, Noted
<1> QED BY <1>1, <1>2, <1>3, <1>4, ServiceQuiet, ReadHushes, ServiceFrame DEF Next

\* Each request is one exchange of its own, in whatever order the steps of all of
\* them, of their clients and of the upstreams come.
THEOREM ServesExchanges == Spec => IsExchange
<1>1. Init => Service!Init
  <2>1. /\ ~ Served(Idle) /\ Idle.got = <<>> /\ Idle.log = <<>> /\ ~ Idle.parsed
        /\ ~ Silent(Idle)
    BY MarksTold DEF Idle, Served, Silent
  <2>2. ASSUME Init PROVE \A r \in Requests : req[r] = Idle /\ ~ open[r]
    BY <2>2 DEF Init
  <2> QED BY <2>1, <2>2 DEF Service!Init, InService, Present, Muted, Understood, Told, Noted
<1>2. AllTasks /\ AllBooked /\ AllSourced /\ AllBooked' /\ [Next]_vars
        => [Service!Next]_(Service!vars)
  BY ServiceStep
<1> QED BY <1>1, <1>2, TasksCorrect, BooksInOrder, SourcesKnown, PTL
        DEF Spec, IsExchange, Service!Spec

=============================================================================
