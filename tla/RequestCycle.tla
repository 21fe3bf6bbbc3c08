----------------------------- MODULE RequestCycle -----------------------------
(***************************************************************************)
(* The life of a request: handle_generic (src/server/connection.rs) for    *)
(* HTTP/1.1, plain or over TLS, and handle_stream (src/http2/mod.rs and    *)
(* src/http3/mod.rs) for the streams of HTTP/2 and HTTP/3 connections,     *)
(* with the upstream fetch of src/proxy/mod.rs.                            *)
(*                                                                         *)
(* Every request is a task of its own.  What it does is awaited step by    *)
(* step while its client and its upstream come and go.  The tasks share    *)
(* the process: release builds abort on a panic.                           *)
(***************************************************************************)
EXTENDS Integers, Sequences

CONSTANTS
  Requests,      \* request tasks
  Replies,       \* statuses an upstream may answer with
  NoStatus,      \* an upstream's answer without a parsable status line
  Empty,         \* an upstream that closes without a byte
  Cut,           \* the beginning of an answer that is broken off
  WasmStatuses,  \* statuses a WASM handler may answer with
  FileStatuses,  \* statuses router::route answers with
  NameFits       \* is the configured server_name a legal header value?

\* The first line of an upstream's answer and the first two bytes of a WASM
\* handler's are read as a u16.
MaxU16 == 65535
U16 == 0 .. MaxU16
ASSUME RepliesAssumption == Replies \subseteq U16
ASSUME WasmAssumption    == WasmStatuses \subseteq U16
ASSUME FileAssumption    == FileStatuses \subseteq 100 .. 999
ASSUME MarkAssumption    ==
  /\ {NoStatus, Empty, Cut} \cap Int = {}
  /\ NoStatus # Empty /\ Cut \notin {NoStatus, Empty}
ASSUME NameAssumption    == NameFits \in BOOLEAN

VARIABLES
  req,    \* each request task
  open    \* external: is the request's client still there?

vars == <<req, open>>

Protocols == {"h1", "h2", "h3"}
Answers   == U16 \cup {NoStatus, Empty}
Heard     == U16 \cup {NoStatus, Cut}

(***************************************************************************)
(* at      the await the task is suspended at                              *)
(* status  the status it is going to report                                *)
(* todo    what is left to do with it: "send" the response, "log" it       *)
(* got     what the client has received                                    *)
(* log     the request's lines of the access log                           *)
(* parsed, way, tried, reply: history - the request was parsed; which      *)
(*         handler it was given to; whether an upstream was contacted, and *)
(*         what it answered                                                *)
(***************************************************************************)
NoReply == -1

Idle == [at |-> "idle", proto |-> "h1", status |-> 0, todo |-> <<>>, got |-> <<>>,
         log |-> <<>>, parsed |-> FALSE, way |-> "static", tried |-> FALSE,
         reply |-> NoReply]

RequestType ==
  [at     : {"idle", "parse", "dispatch", "connect", "write", "read", "relay", "reply",
             "done", "lost"},
   proto  : Protocols,
   status : U16,
   todo   : {<<>>, <<"send">>, <<"log">>, <<"send", "log">>, <<"log", "send">>},
   got    : Seq(Heard),
   log    : Seq(U16),
   parsed : BOOLEAN,
   way    : {"proxy", "wasm", "static"},
   tried  : BOOLEAN,
   reply  : Answers \cup {NoReply}]

\* A request is at an await of its handler, and what it still has to do is one of
\* the orders of answering and logging that the handlers have.
TypeOK ==
  /\ req  \in [Requests -> RequestType]
  /\ open \in [Requests -> BOOLEAN]

Init ==
  /\ req = [r \in Requests |-> Idle]
  /\ open = [r \in Requests |-> FALSE]

-----------------------------------------------------------------------------
(***************************************************************************)
(* Orders of answering and logging, and the transitions they all share.    *)
(***************************************************************************)

SendThenLog == <<"send", "log">>
LogThenSend == <<"log", "send">>

\* handle_generic answers its error pages before it logs them; handle_stream
\* logs first.
ErrorOrder(proto) == IF proto = "h1" THEN SendThenLog ELSE LogThenSend

Become(r, q) == req' = [req EXCEPT ![r] = q]

Reply(q, s, todo) == [q EXCEPT !.at = "reply", !.status = s, !.todo = todo]

\* Err(e) from the fetch other than NotConnected: 502 Bad Gateway.
BadGateway(q) == Reply(q, 502, ErrorOrder(q.proto))

StatusOf_NoFallback(answer) == answer

\* extract_status: unwrap_or(502).
StatusOf(answer) == IF answer \in {NoStatus, Empty} THEN 502 ELSE answer

-----------------------------------------------------------------------------
(***************************************************************************)
(* Clients.                                                                *)
(***************************************************************************)

\* A connection (h1) or a stream (h2, h3: its headers already parsed by the
\* library) arrives.
Arrive(r, p) ==
  /\ req[r].at = "idle"
  /\ Become(r, [Idle EXCEPT !.at = IF p = "h1" THEN "parse" ELSE "dispatch",
                            !.proto = p, !.parsed = p # "h1"])
  /\ open' = [open EXCEPT ![r] = TRUE]

\* The client closes its connection or resets its stream; the task goes on.
Leave(r) ==
  /\ open[r]
  /\ open' = [open EXCEPT ![r] = FALSE]
  /\ UNCHANGED req

-----------------------------------------------------------------------------
(***************************************************************************)
(* Parsing and routing.                                                    *)
(***************************************************************************)

\* Request::parse returns a request, even for a connection closed early.
Parsed(r) ==
  /\ req[r].at = "parse"
  /\ Become(r, [req[r] EXCEPT !.at = "dispatch", !.parsed = TRUE])
  /\ UNCHANGED open

\* A read failed: 500, and no line in the access log.
ParseFails(r) ==
  /\ req[r].at = "parse"
  /\ Become(r, Reply(req[r], 500, <<"send">>))
  /\ UNCHANGED open

PickNone_Gateway(r) ==
  /\ req[r].at = "dispatch"
  /\ Become(r, [BadGateway(req[r]) EXCEPT !.way = "proxy"])
  /\ UNCHANGED open

\* A proxy route matches and pick_upstream returns None: NotConnected, 503.
PickNone(r) ==
  /\ req[r].at = "dispatch"
  /\ Become(r, [Reply(req[r], 503, ErrorOrder(req[r].proto)) EXCEPT !.way = "proxy"])
  /\ UNCHANGED open

\* A proxy route matches and an upstream is picked: TcpStream::connect.
PickSome(r) ==
  /\ req[r].at = "dispatch"
  /\ Become(r, [req[r] EXCEPT !.at = "connect", !.way = "proxy", !.tried = TRUE])
  /\ UNCHANGED open

\* A WASM route matches; wasm::invoke runs without an await.
WasmAnswers(r, s) ==
  /\ req[r].at = "dispatch"
  /\ Become(r, [Reply(req[r], s, LogThenSend) EXCEPT !.way = "wasm"])
  /\ UNCHANGED open

WasmFails(r) ==
  /\ req[r].at = "dispatch"
  /\ Become(r, [Reply(req[r], 500, ErrorOrder(req[r].proto)) EXCEPT !.way = "wasm"])
  /\ UNCHANGED open

\* No route matches: router::route.
StaticAnswers(r, s) ==
  /\ req[r].at = "dispatch"
  /\ Become(r, Reply(req[r], s, LogThenSend))
  /\ UNCHANGED open

-----------------------------------------------------------------------------
(***************************************************************************)
(* fetch_from_upstream, and relay for HTTP/1.1 clients.                    *)
(***************************************************************************)

Connected(r) ==
  /\ req[r].at = "connect"
  /\ Become(r, [req[r] EXCEPT !.at = "write"])
  /\ UNCHANGED open

Written(r) ==
  /\ req[r].at = "write"
  /\ Become(r, [req[r] EXCEPT !.at = "read"])
  /\ UNCHANGED open

\* connect, write_all or read_to_end returns an error.
FetchFails(r) ==
  /\ req[r].at \in {"connect", "write", "read"}
  /\ Become(r, BadGateway(req[r]))
  /\ UNCHANGED open

ReadTimeout_Never(r) == FALSE /\ UNCHANGED vars

\* The upstream has not closed within ten seconds.
ReadTimeout(r) ==
  /\ req[r].at = "read"
  /\ Become(r, BadGateway(req[r]))
  /\ UNCHANGED open

\* The upstream has answered and closed.  relay_raw's callers log and send the
\* status they extract; relay passes the bytes on.
ReadAll(r, answer) ==
  /\ req[r].at = "read"
  /\ LET q == [req[r] EXCEPT !.reply = answer]
     IN  Become(r, IF q.proto = "h1" THEN [q EXCEPT !.at = "relay"]
                   ELSE Reply(q, StatusOf(answer), LogThenSend))
  /\ UNCHANGED open

\* What a client that is still there receives: nothing if there are no bytes.  A
\* write to one that has just left may succeed all the same.
Deliver(r, answer) ==
  IF open[r] /\ answer # Empty THEN Append(req[r].got, answer) ELSE req[r].got

\* write_all goes out piece by piece, and the client leaves with the first of
\* them.  (It may leave so on one of the server's own pages too; the page and its
\* log line carry the same status whether it came whole or not.)
LeaveMidway(r) ==
  /\ req[r].at = "relay" /\ req[r].reply # Empty
  /\ open[r]
  /\ Become(r, [req[r] EXCEPT !.got = Append(@, Cut)])
  /\ open' = [open EXCEPT ![r] = FALSE]

RelayWorks_SendsAgain(r) ==
  /\ req[r].at = "relay"
  /\ Become(r, [Reply(req[r], StatusOf(req[r].reply), SendThenLog)
                  EXCEPT !.got = Deliver(r, req[r].reply)])
  /\ UNCHANGED open

RelayWorks_LogsOk(r) ==
  /\ req[r].at = "relay"
  /\ Become(r, [Reply(req[r], 200, <<"log">>) EXCEPT !.got = Deliver(r, req[r].reply)])
  /\ UNCHANGED open

\* client.write_all(&response_bytes) and flush succeed.
RelayWorks(r) ==
  /\ req[r].at = "relay"
  /\ Become(r, [Reply(req[r], StatusOf(req[r].reply), <<"log">>)
                  EXCEPT !.got = Deliver(r, req[r].reply)])
  /\ UNCHANGED open

\* The client is gone, with or without a part of the response: relay returns an
\* error, which handle_generic takes for the upstream's.
RelayFails(r) ==
  /\ req[r].at = "relay"
  /\ ~ open[r]
  /\ Become(r, BadGateway(req[r]))
  /\ UNCHANGED open

-----------------------------------------------------------------------------
(***************************************************************************)
(* Answering and logging.                                                  *)
(***************************************************************************)

\* The task has done one thing of its list; after the last it ends.
Advance(q) == [q EXCEPT !.todo = Tail(@), !.at = IF Tail(q.todo) = <<>> THEN "done" ELSE @]

Log_NoReturn(r) ==
  /\ req[r].at = "reply" /\ Head(req[r].todo) = "log"
  /\ LET q == [Advance(req[r]) EXCEPT !.log = Append(@, req[r].status)]
     IN  Become(r, IF q.way = "proxy" /\ q.at = "done"
                   THEN Reply([q EXCEPT !.way = "static"], 404, LogThenSend) ELSE q)
  /\ UNCHANGED open

\* logger.access(..)
Log(r) ==
  /\ req[r].at = "reply" /\ Head(req[r].todo) = "log"
  /\ Become(r, [Advance(req[r]) EXCEPT !.log = Append(@, req[r].status)])
  /\ UNCHANGED open

\* http::Response::builder() accepts three-digit statuses only, and the server
\* name only if it is a legal header value; HTTP/1.1 responses are formatted
\* without it.
Buildable(q) == q.proto = "h1" \/ (q.status \in 100 .. 999 /\ NameFits)

\* Response::send, send_h2_response or send_h3_response; a client that is gone
\* is not told anything, and the error goes nowhere but the error log.
Send(r) ==
  /\ req[r].at = "reply" /\ Head(req[r].todo) = "send"
  /\ Buildable(req[r])
  /\ Become(r, [Advance(req[r]) EXCEPT !.got = Deliver(r, req[r].status)])
  /\ UNCHANGED open

\* .expect(..) panics, and the release profile aborts: every request in flight
\* is lost, on whatever connection it is.
Abort(r) ==
  /\ req[r].at = "reply" /\ Head(req[r].todo) = "send"
  /\ ~ Buildable(req[r])
  /\ req' = [q \in Requests |->
               IF req[q].at \in {"idle", "done"} THEN req[q] ELSE [req[q] EXCEPT !.at = "lost"]]
  /\ open' = [q \in Requests |-> FALSE]

\* The task is gone, or the process has been restarted; it will stand for
\* another request.
Finish(r) ==
  /\ req[r].at \in {"done", "lost"}
  /\ Become(r, Idle)
  /\ open' = [open EXCEPT ![r] = FALSE]

-----------------------------------------------------------------------------
Dispatch(r) ==
  \/ PickNone(r) \/ PickSome(r) \/ WasmFails(r)
  \/ \E s \in WasmStatuses : WasmAnswers(r, s)
  \/ \E s \in FileStatuses : StaticAnswers(r, s)

Next ==
  \E r \in Requests :
    \/ \E p \in Protocols : Arrive(r, p)
    \/ Leave(r) \/ LeaveMidway(r)
    \/ Parsed(r) \/ ParseFails(r)
    \/ Dispatch(r)
    \/ Connected(r) \/ Written(r) \/ FetchFails(r) \/ ReadTimeout(r)
    \/ \E a \in Replies \cup {NoStatus, Empty} : ReadAll(r, a)
    \/ RelayWorks(r) \/ RelayFails(r)
    \/ Log(r) \/ Send(r) \/ Abort(r) \/ Finish(r)

Spec == Init /\ [][Next]_vars

(***************************************************************************)
(* The kernel gives up a TCP connect sooner or later and takes a request's *)
(* few bytes into the socket's buffer, and the ten-second timer fires.     *)
(* The upstream need not answer, and neither need a client send its        *)
(* request or read its response.                                           *)
(***************************************************************************)
FairSpec ==
  /\ Spec
  /\ \A r \in Requests :
       /\ WF_vars(Connected(r) \/ (req[r].at = "connect" /\ FetchFails(r)))
       /\ WF_vars(Written(r) \/ (req[r].at = "write" /\ FetchFails(r)))
       /\ WF_vars(ReadTimeout(r))

=============================================================================
