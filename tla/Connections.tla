------------------------------ MODULE Connections ------------------------------
(***************************************************************************)
(* Listeners and connections: the accept loops of src/server/listener.rs   *)
(* (plain HTTP), src/tls/mod.rs (HTTPS) and src/http3/mod.rs (QUIC), and   *)
(* what a connection's task does until the connection ends, with the       *)
(* request loops of src/http2/mod.rs and src/http3/mod.rs.                 *)
(*                                                                         *)
(* All of them share one table of file descriptors.  A listener, an        *)
(* accepted TCP connection and a connection to an upstream hold one each;  *)
(* QUIC connections share their endpoint's.  Nothing in the code waits for *)
(* a descriptor: accept fails and is tried again, a fetch fails with 502.  *)
(***************************************************************************)
EXTENDS Integers, Sequences, FiniteSets

CONSTANTS
  Clients,  \* clients, with one connection at a time each
  Streams,  \* requests at the same time on one connection
  MaxFds    \* size of the process's descriptor table

Doors    == {"plain", "tls", "quic"}
TcpDoors == {"plain", "tls"}

\* The listeners and one connection fit, and there is at least one stream.
ASSUME ClientsAssumption == IsFiniteSet(Clients)
ASSUME StreamsAssumption == Streams # {} /\ IsFiniteSet(Streams)
ASSUME FdsAssumption     == MaxFds \in Nat /\ MaxFds > Cardinality(Doors)

VARIABLES
  door,   \* each listener
  queue,  \* external: connections nobody has accepted yet, oldest first
  conn,   \* each client's connection
  here,   \* external: does the client keep its end open?
  strm    \* the request tasks of each connection

vars == <<door, queue, conn, here, strm>>

(***************************************************************************)
(* at      no connection, queued, in the TLS or QUIC handshake, in the     *)
(*         setup of HTTP/2 or HTTP/3, or open: its task awaits requests    *)
(* via     the listener it came through                                    *)
(* proto   what it speaks                                                  *)
(* asked   HTTP/1.1: its one request has been parsed                       *)
(* broken  external, in h2 and h3: the connection has failed               *)
(* stuck   external, in h2: it gives its error again at every poll         *)
(***************************************************************************)
NoConn == [at |-> "none", via |-> "plain", proto |-> "h1", asked |-> FALSE,
           broken |-> FALSE, stuck |-> FALSE]

ConnType ==
  [at : {"none", "queued", "handshake", "setup", "open"}, via : Doors,
   proto : {"h1", "h2", "h3"}, asked : BOOLEAN, broken : BOOLEAN,
   stuck : BOOLEAN]

NoStreams == [s \in Streams |-> "none"]

\* Listeners, connections and request tasks are where their code can be.
TypeOK ==
  /\ door  \in [Doors -> {"off", "down", "open", "failed"}]
  /\ queue \in [Doors -> Seq(Clients)]
  /\ conn  \in [Clients -> ConnType]
  /\ here  \in [Clients -> BOOLEAN]
  /\ strm  \in [Clients -> [Streams -> {"none", "run", "fetch"}]]

\* TcpListener::bind has succeeded.  If TLS is enabled, the tasks of the other
\* two listeners have been spawned.
Init ==
  /\ door \in { [d \in Doors |-> IF d = "plain" THEN "open" ELSE x] : x \in {"off", "down"} }
  /\ queue = [d \in Doors |-> <<>>]
  /\ conn = [c \in Clients |-> NoConn]
  /\ here = [c \in Clients |-> FALSE]
  /\ strm = [c \in Clients |-> NoStreams]

-----------------------------------------------------------------------------
(***************************************************************************)
(* Descriptors.                                                            *)
(***************************************************************************)

Accepted(c) == conn[c].at \in {"handshake", "setup", "open"}

HasSocket(c) == Accepted(c) /\ conn[c].via \in TcpDoors

Fetches == {f \in Clients \X Streams : strm[f[1]][f[2]] = "fetch"}

Used ==
  Cardinality({d \in Doors : door[d] = "open"})
    + Cardinality({c \in Clients : HasSocket(c)}) + Cardinality(Fetches)

DescriptorFree == Used < MaxFds

-----------------------------------------------------------------------------
(***************************************************************************)
(* Clients.                                                                *)
(***************************************************************************)

\* The kernel, or quinn's endpoint, queues the connection.
Connect(c, d) ==
  /\ door[d] = "open"
  /\ conn[c].at = "none" /\ strm[c] = NoStreams
  /\ conn' = [conn EXCEPT ![c] = [NoConn EXCEPT !.at = "queued", !.via = d]]
  /\ queue' = [queue EXCEPT ![d] = Append(@, c)]
  /\ here' = [here EXCEPT ![c] = TRUE]
  /\ UNCHANGED <<door, strm>>

Leave(c) ==
  /\ here[c]
  /\ here' = [here EXCEPT ![c] = FALSE]
  /\ UNCHANGED <<door, queue, conn, strm>>

\* A multiplexed connection fails while the client keeps it open (a protocol
\* error, found by the library).
Break(c) ==
  /\ conn[c].at = "open" /\ conn[c].proto \in {"h2", "h3"}
  /\ ~ conn[c].broken
  /\ conn' = [conn EXCEPT ![c].broken = TRUE]
  /\ UNCHANGED <<door, queue, here, strm>>

-----------------------------------------------------------------------------
(***************************************************************************)
(* Listeners.                                                              *)
(***************************************************************************)

\* tls::run and http3::run: the certificate and the key are loaded and the
\* port is bound.
Listen(d) ==
  /\ door[d] = "down" /\ DescriptorFree
  /\ door' = [door EXCEPT ![d] = "open"]
  /\ UNCHANGED <<queue, conn, here, strm>>

\* One of that fails: the error is logged and only this listener's task ends.
ListenFails(d) ==
  /\ door[d] = "down"
  /\ door' = [door EXCEPT ![d] = "failed"]
  /\ UNCHANGED <<queue, conn, here, strm>>

\* Ok from accept: a task is spawned for the connection.
Accept(d) ==
  /\ door[d] = "open" /\ queue[d] # <<>>
  /\ d \in TcpDoors => DescriptorFree
  /\ LET c == Head(queue[d]) IN
       conn' = [conn EXCEPT ![c].at = IF d = "plain" THEN "open" ELSE "handshake"]
  /\ queue' = [queue EXCEPT ![d] = Tail(@)]
  /\ UNCHANGED <<door, here, strm>>

AcceptFails_Breaks(d) ==
  /\ d \in TcpDoors /\ door[d] = "open" /\ queue[d] # <<>>
  /\ ~ DescriptorFree
  /\ door' = [door EXCEPT ![d] = "failed"]
  /\ UNCHANGED <<queue, conn, here, strm>>

\* Err: without a free descriptor, accept fails at once; the error is logged and
\* accept is called again.
AcceptFails(d) ==
  /\ d \in TcpDoors /\ door[d] = "open" /\ queue[d] # <<>>
  /\ ~ DescriptorFree
  /\ UNCHANGED vars

-----------------------------------------------------------------------------
(***************************************************************************)
(* Connections.                                                            *)
(***************************************************************************)

Handshake_AnyAlpn(c) ==
  /\ conn[c].at = "handshake" /\ here[c]
  /\ \E p \in IF conn[c].via = "tls" THEN {"http/1.0", "h1", "h2"} ELSE {"h3"} :
       conn' = [conn EXCEPT ![c].proto = p,
                            ![c].at = IF p = "h1" THEN "open" ELSE "setup"]
  /\ UNCHANGED <<door, queue, here, strm>>

\* The TLS handshake succeeds with a protocol the client chose among those
\* offered (ALPN), or the QUIC handshake, which knows h3 only.  An HTTP/1.1
\* connection is ready for its request, the others have a setup of their own.
Handshake(c) ==
  /\ conn[c].at = "handshake" /\ here[c]
  /\ \E p \in IF conn[c].via = "tls" THEN {"h1", "h2"} ELSE {"h3"} :
       conn' = [conn EXCEPT ![c].proto = p,
                            ![c].at = IF p = "h1" THEN "open" ELSE "setup"]
  /\ UNCHANGED <<door, queue, here, strm>>

\* h2::server::handshake, h3::server::Connection::new
Setup(c) ==
  /\ conn[c].at = "setup" /\ here[c]
  /\ conn' = [conn EXCEPT ![c].at = "open"]
  /\ UNCHANGED <<door, queue, here, strm>>

\* The connection is dropped.  Its request tasks, if there are any, go on.
End(c) ==
  /\ conn' = [conn EXCEPT ![c] = NoConn]
  /\ UNCHANGED <<door, queue, here, strm>>

\* Err from either: logged, and the connection's task returns.  A client that
\* does neither its part nor leave is waited for without a timeout.
OpeningFails(c) == conn[c].at \in {"handshake", "setup"} /\ End(c)

\* HTTP/1.1: Request::parse fails; the answer is the last thing on the connection.
ParseFails(c) ==
  /\ conn[c].at = "open" /\ conn[c].proto = "h1" /\ ~ conn[c].asked
  /\ End(c)

\* A request is parsed, or accepted by the loop and given a task.
Request(c, s) ==
  /\ conn[c].at = "open" /\ here[c] /\ ~ conn[c].broken
  /\ strm[c][s] = "none"
  /\ conn[c].proto = "h1" => ~ conn[c].asked
  /\ strm' = [strm EXCEPT ![c][s] = "run"]
  /\ conn' = [conn EXCEPT ![c].asked = (conn[c].proto = "h1")]
  /\ UNCHANGED <<door, queue, here>>

Lost(c) == conn[c].broken \/ ~ here[c]

LoopEnds_H3GoesOn(c) ==
  /\ conn[c].at = "open" /\ conn[c].proto \in {"h2", "h3"}
  /\ Lost(c) /\ ~ conn[c].stuck
  /\ IF conn[c].proto = "h3" /\ conn[c].broken THEN UNCHANGED vars ELSE End(c)

\* The request loop ends.  h3 repeats the error of a connection that has failed;
\* the loop of http3::run ends at None and at an error.  http2::serve goes on after
\* an error, and ends when h2 says None, perhaps after some errors.
LoopEnds(c) ==
  /\ conn[c].at = "open" /\ conn[c].proto \in {"h2", "h3"}
  /\ Lost(c) /\ ~ conn[c].stuck
  /\ End(c)

\* Or h2 never says None: it reports the error with which it has closed the
\* connection, or that of the stream below it, whenever it is asked.  The library
\* has not promised to do otherwise.
Stick(c) ==
  /\ conn[c].at = "open" /\ conn[c].proto = "h2"
  /\ Lost(c) /\ ~ conn[c].stuck
  /\ conn' = [conn EXCEPT ![c].stuck = TRUE]
  /\ UNCHANGED <<door, queue, here, strm>>

\* Then `continue' takes the loop round for ever, with its task and its socket.
LoopSpins(c) ==
  /\ conn[c].stuck
  /\ UNCHANGED vars

\* h3's accept reports a single request that is malformed as an error, too: the
\* loop ends, and the connection with it.
BadStream(c) ==
  /\ conn[c].at = "open" /\ conn[c].proto = "h3" /\ here[c]
  /\ End(c)

-----------------------------------------------------------------------------
(***************************************************************************)
(* Requests, as far as descriptors go (RequestCycle has the rest).         *)
(***************************************************************************)

StreamDone_EndsConnection(c, s) ==
  /\ strm' = [strm EXCEPT ![c][s] = "none"]
  /\ conn' = IF conn[c].at = "open" THEN [conn EXCEPT ![c] = NoConn] ELSE conn
  /\ UNCHANGED <<door, queue, here>>

\* The task ends, and with it an HTTP/1.1 connection.
StreamDone(c, s) ==
  /\ strm' = [strm EXCEPT ![c][s] = "none"]
  /\ conn' = IF conn[c].at = "open" /\ conn[c].proto = "h1"
             THEN [conn EXCEPT ![c] = NoConn] ELSE conn
  /\ UNCHANGED <<door, queue, here>>

\* TcpStream::connect to an upstream has succeeded.
Fetch(c, s) ==
  /\ strm[c][s] = "run" /\ DescriptorFree
  /\ strm' = [strm EXCEPT ![c][s] = "fetch"]
  /\ UNCHANGED <<door, queue, conn, here>>

Answer_Waits(c, s) ==
  /\ strm[c][s] # "none"
  /\ IF strm[c][s] = "run" /\ ~ DescriptorFree
     THEN UNCHANGED vars ELSE StreamDone(c, s)

\* The request is answered, from an upstream or otherwise (an error page when
\* the connect fails), or its client turns out to be gone.
Answer(c, s) ==
  /\ strm[c][s] # "none"
  /\ StreamDone(c, s)

-----------------------------------------------------------------------------
Next ==
  \/ \E d \in Doors : Listen(d) \/ ListenFails(d) \/ Accept(d) \/ AcceptFails(d)
  \/ \E c \in Clients :
       \/ \E d \in Doors : Connect(c, d)
       \/ Leave(c) \/ Break(c)
       \/ Handshake(c) \/ Setup(c) \/ OpeningFails(c)
       \/ ParseFails(c) \/ LoopEnds(c) \/ Stick(c) \/ LoopSpins(c) \/ BadStream(c)
       \/ \E s \in Streams : Request(c, s) \/ Fetch(c, s) \/ Answer(c, s)

Spec == Init /\ [][Next]_vars

(***************************************************************************)
(* A task that can go on does: the accept loops, a connection's task once  *)
(* its client has left or has made the connection fail, and request tasks  *)
(* (an upstream that is silent is given up, see RequestCycle).  An accept  *)
(* loop tries again and again, without a pause, so it does not miss for    *)
(* ever that a descriptor is free.  Clients need not do anything, and the  *)
(* h2 library need not let go of a connection that is lost.                *)
(***************************************************************************)
Ended(c) ==
  \/ ~ here[c] /\ (OpeningFails(c) \/ ParseFails(c))
  \/ LoopEnds(c)

FairSpec ==
  /\ Spec
  /\ \A d \in Doors : SF_vars(Accept(d))
  /\ \A c \in Clients : WF_vars(Ended(c))
  /\ \A c \in Clients, s \in Streams : WF_vars(Answer(c, s))

=============================================================================
