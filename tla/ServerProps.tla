---------------------------- MODULE ServerProps -----------------------------
(***************************************************************************)
(* What the parts promise together.                                        *)
(***************************************************************************)
EXTENDS Server

\* An error page has a cause that the answering table has seen.  After a 503 one
\* of the route's upstreams could not be reached at some moment since that table
\* was built, and after a 502 the picked one could not, or was failing requests:
\* no table inherits a flag from the one before, or from before a crash, and none
\* is set by what a request meets (proxy/mod.rs:57-76, 110-111, 147, 161-163,
\* connection.rs:66-91).
ErrorsHaveCause ==
  \A r \in Requests :
    LET g == req[r].seen IN
    req[r].at = "answered" /\ req[r].answer = "proxy" =>
      /\ relay[r].status = 503 => Upstreams[req[r].path] \cap fell[g] # {}
      /\ relay[r].status = 502 => relay[r].host \in fell[g] \cup sick[g]

\* Once the file, the upstreams and the process are left alone, the table in
\* force knows which upstreams accept connections, though each reload begins with
\* all of them assumed healthy and old checkers go on (listener.rs:160-172);
\* unless the process stays short of descriptors, for then a probe may fail of
\* itself (proxy/mod.rs:119-124).
FlagsSettle ==
  <>[](main = "serving" /\ ~ short =>
         dead[proxyCur] = {x \in TargetsOf(tables[proxyCur]) : x[2] \notin up})

\* From then on a route whose upstreams accept and answer gives their answers,
\* one whose upstreams are all down a 503 and never a 502, and no route sends a
\* request to an upstream that is down, whatever table the request has loaded
\* (docs/ARCHITECTURE.md:181-190).  An upstream that accepts connections and
\* fails requests gives 502s for as long as it does: the check looks no further
\* than the connection (proxy/mod.rs:98-100).
AnswersSettle ==
  <>[]\A r \in Requests :
        LET hosts == Upstreams[req[r].path] IN
        req[r].at = "answered" /\ req[r].answer = "proxy" /\ ~ short =>
          /\ relay[r].status = 502 => relay[r].host \in unwell
          /\ hosts \subseteq up \ unwell => relay[r].status = 200
          /\ hosts \cap up = {} => relay[r].status = 503

=============================================================================
