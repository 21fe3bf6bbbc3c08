-------------------------- MODULE RequestCycleProps --------------------------
(***************************************************************************)
(* What the request cycle owes its client, and what the access log says.   *)
(***************************************************************************)
EXTENDS RequestCycle

Ended(q) == q.at = "done"

\* Nothing is relayed of an upstream that closed without a byte.
Silent(q) == q.proto = "h1" /\ q.reply = Empty

\* Every parsed request has exactly one line in the access log when its task
\* ends, whichever way through the handlers it took and whether or not its
\* client stayed; one that was not parsed has none (connection.rs:47-123
\* and the two handle_stream functions).  Tasks that an abort of the process
\* ends are not meant: they may have none.
LoggedOnce ==
  \A r \in Requests : Ended(req[r]) =>
    Len(req[r].log) = IF req[r].parsed THEN 1 ELSE 0

\* A client gets at most one response, and one that stayed gets exactly one, and
\* all of it: in particular the 502 page that follows a failed relay never lands
\* behind a relayed response or a part of one (proxy/mod.rs:183-184,
\* connection.rs:80-88).  The one client that stays and gets none at all is that
\* of an HTTP/1.1 relay whose upstream closed without a byte.
OneAnswer ==
  \A r \in Requests :
    /\ Len(req[r].got) <= 1
    /\ Ended(req[r]) /\ open[r] =>
         IF Silent(req[r]) THEN req[r].got = <<>>
         ELSE req[r].got # <<>> /\ req[r].got # <<Cut>>

\* The access log tells what the client got.  The exceptions are clients of
\* HTTP/1.1 relays: one whose upstream sent no status line gets its bytes as they
\* are, and the log says 502 (proxy/mod.rs:181, 218-225); and of one that left in
\* the middle of a relayed answer the log says 502, whatever status it has read,
\* unless the rest still went out.
LogTellsAnswer ==
  \A r \in Requests : Ended(req[r]) =>
    \A i \in DOMAIN req[r].got, j \in DOMAIN req[r].log :
      LET heard  == req[r].got[i]
          logged == req[r].log[j]
      IN  \/ heard = logged
          \/ /\ req[r].proto = "h1"
             /\ \/ heard = NoStatus /\ logged = 502
                \/ heard = Cut /\ ~ open[r] /\ logged \in {StatusOf(req[r].reply), 502}

\* Of a proxied request the log says 503 if no upstream was picked (and then none
\* was contacted), 502 if the one picked gave no answer, and otherwise what its
\* answer says - a 503 of its own among others - unless the client of an HTTP/1.1
\* relay left before it had all of it: then the log may say 502, as if the
\* upstream had failed (connection.rs:66-91).
StatusTellsCause ==
  \A r \in Requests : Ended(req[r]) /\ req[r].way = "proxy" =>
    LET q == req[r]
    IN  /\ ~ q.tried => q.log = <<503>>
        /\ q.tried /\ q.reply = NoReply => q.log = <<502>>
        /\ q.tried /\ q.reply # NoReply =>
             \/ q.log = <<StatusOf(q.reply)>>
             \/ /\ q.log = <<502>> /\ q.proto = "h1"
                /\ ~ open[r] /\ q.got \in {<<>>, <<Cut>>}

\* A silent upstream does not hold a request: once an upstream is picked, the
\* request moves on to its answer (proxy/mod.rs:163).
UpstreamBounded ==
  \A r \in Requests :
    req[r].at \in {"connect", "write", "read"} ~>
      req[r].at \notin {"connect", "write", "read"}

\* http2/mod.rs:163 and http3/mod.rs:209 take it that the header set they build
\* is well formed, whatever status and server name they are given.
ResponseWellFormed ==
  \A r \in Requests :
    req[r].at = "reply" /\ Head(req[r].todo) = "send" => Buildable(req[r])

\* A request is in service until its task is done or lost, and the statuses that are
\* reported are the handlers' own and those of modules, files and upstreams.
Served(q)  == q.at \notin {"idle", "done", "lost"}
InService  == {r \in Requests : Served(req[r])}
Present    == {r \in Requests : open[r]}
Muted      == {r \in Requests : Silent(req[r])}
Understood == {r \in Requests : req[r].parsed}
Told       == [r \in Requests |-> req[r].got]
Noted      == [r \in Requests |-> req[r].log]
Reported   == {500, 502, 503} \cup WasmStatuses \cup FileStatuses \cup Replies

Service == INSTANCE Exchange WITH
  Statuses <- Reported,  Garbled <- {NoStatus},
  busy     <- InService, here    <- Present,  mute <- Muted,  known <- Understood,
  told     <- Told,      noted   <- Noted

\* However requests interleave, fail, time out and lose their clients in the three
\* handlers, each is one exchange: one answer (none only if an upstream had none to
\* relay), one line, never revised, agreeing, and no other request's business unless
\* the process aborts (connection.rs:47-123, the handle_stream functions,
\* proxy/mod.rs:141-187).
IsExchange == Service!Spec

=============================================================================
