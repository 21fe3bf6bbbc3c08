-------------------------- MODULE StaticRouterProps --------------------------
(***************************************************************************)
(* What the static router promises while files change under it.            *)
(***************************************************************************)
EXTENDS StaticRouter

\* Four looks at the file system are as good as one as long as they are answered
\* and only regular files below the root come and go: the answer is then one that
\* the files gave at a single moment of the request, and no file outside of the
\* root is served (router.rs:27-47, "resolved path must still live under
\* document_root").  Of other changes it is not true: where the target could not be
\* resolved the check is one of names (router.rs:57-58), and what is read is
\* whatever has come there since.
RegularEditsAtomic ==
  \A t \in Tasks :
    req[t].at = "done" /\ req[t].regular /\ ~ req[t].failed
      => req[t].answer \in req[t].could

\* A file that was there throughout, whatever else changed and however often
\* document_root was switched, is "not found" only if the file system failed to
\* answer (router.rs:47), and what is served is one of its versions.  It may be
\* forbidden: the root and the target are resolved one after the other
\* (router.rs:52-55).
NeverLost ==
  \A t \in Tasks :
    LET r == req[t] IN
    r.at = "done" /\ (\A a \in r.could : a.status = 200 /\ a.place = Rel[r.path])
      => r.answer \in r.could \cup {Forbidden} \cup (IF r.failed THEN {NotFound} ELSE {})

\* docs/ARCHITECTURE.md:25-28: HTTP/1.1, HTTP/2 and HTTP/3 run through the same
\* static-file logic; so the same target, asked for while nothing changes and
\* nothing fails, has the same answer over each.
ProtocolsAgree ==
  changes = 0 =>
    \A t, u \in Tasks :
      /\ req[t].at = "done" /\ req[u].at = "done"
      /\ ~ req[t].failed /\ ~ req[u].failed
      /\ req[t].target = req[u].target
      /\ NotAllowed \notin {req[t].answer, req[u].answer}
      => req[t].answer = req[u].answer

=============================================================================
