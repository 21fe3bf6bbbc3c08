--------------------------- MODULE ConnectionsProps ---------------------------
(***************************************************************************)
(* What listeners and connection tasks promise to clients and to the       *)
(* process.                                                                *)
(***************************************************************************)
EXTENDS Connections

\* The request loop of an HTTP/2 connection goes round on one error for ever
\* (http2/mod.rs:39-45).
Spins(c) == conn[c].at = "open" /\ conn[c].proto = "h2" /\ conn[c].stuck

\* Whatever a client leaves behind is given back: once it has closed its end,
\* neither a task nor a descriptor of it remains, wherever the connection was
\* (every `return', `break' and `continue' of tls/mod.rs:110-130,
\* http2/mod.rs:31-57, http3/mod.rs:68-107).  The one exception is an HTTP/2
\* connection of which the library never says None, and then its requests at
\* least are done with.  Clients in the queue are left to BacklogDrains.
NothingLeftBehind ==
  \A c \in Clients :
    (~ here[c] /\ ~ conn[c].at = "queued")
      ~> (here[c] \/ ((conn[c].at = "none" \/ Spins(c)) /\ strm[c] = NoStreams))

\* A request that ends, in whatever way, takes no other request's connection
\* with it, and none is begun on a connection that is about to end
\* (http2/mod.rs:16-20: streams are handled concurrently within a connection;
\* handle_generic serves one).  http3/mod.rs:102 ends the loop at errors of
\* single requests, so HTTP/3 is left out.
ConnectionOutlivesRequests ==
  [][\A c \in Clients :
       conn[c].at = "open" /\ conn[c].proto # "h3" /\ conn'[c].at # "open"
         => Lost(c) \/ strm'[c] = NoStreams]_vars

Waits(c, d) == conn[c].at = "queued" /\ conn[c].via = d

\* A queue holds connections that wait there, each once, so accept never hands out
\* one that somebody already serves.
QueueSound ==
  \A d \in Doors :
    /\ \A i \in 1 .. Len(queue[d]) : Waits(queue[d][i], d)
    /\ \A i, j \in 1 .. Len(queue[d]) : queue[d][i] = queue[d][j] => i = j

\* And whoever waits stands in the queue, of a listener that still accepts.
NobodyForgotten ==
  \A c \in Clients, d \in Doors :
    Waits(c, d) => /\ door[d] = "open"
                   /\ \E i \in 1 .. Len(queue[d]) : queue[d][i] = c

\* Errors of accept cost nobody a place: whatever listeners that fail, full
\* descriptor tables and other connections do, those that wait are those in the
\* queues of running accept loops (listener.rs:105-120, tls/mod.rs:95-137,
\* http3/mod.rs:60-66).
BacklogKept == QueueSound /\ NobodyForgotten

\* A connection in the queue is accepted in the end, although the descriptor
\* table may be full again and again (listener.rs:116-118), if no client stays
\* for ever and no HTTP/2 loop spins, each of which keeps its descriptor: whoever
\* holds one never waits for another one.
BacklogDrains ==
  (\A c \in Clients : []<>(~ here[c]) /\ [](~ Spins(c)))
    => \A c \in Clients : (conn[c].at = "queued") ~> (conn[c].at # "queued")

=============================================================================
