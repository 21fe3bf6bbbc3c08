------------------------------ MODULE Exchange ------------------------------
(***************************************************************************)
(* What serving a request means to its client and to the reader of the     *)
(* access log: the client is told one answer, the log gets one line, in    *)
(* either order, neither is taken back, and they agree.  A client may be   *)
(* told nothing if there turns out to be nothing to tell it, and may leave *)
(* in the middle of what it is told.  There are no protocols, handlers,    *)
(* upstreams or error pages here.                                          *)
(***************************************************************************)
EXTENDS Sequences

CONSTANTS
  Requests,
  Statuses,  \* what may be reported
  Garbled,   \* answers that have no status of their own
  Cut        \* the beginning of an answer
Answers == Statuses \cup Garbled

VARIABLES
  busy,    \* requests being served
  here,    \* requests whose client is still there
  mute,    \* requests that there is nothing to tell about
  known,   \* requests that could be read
  told,    \* what each request's client has been told
  noted    \* what the log says of each request

vars == <<busy, here, mute, known, told, noted>>

Init ==
  /\ busy = {} /\ here = {} /\ mute = {} /\ known = {}
  /\ told = [r \in Requests |-> <<>>]
  /\ noted = [r \in Requests |-> <<>>]

\* A garbled answer is put down as 502; of a broken one the status may not have
\* been read, and may not be put down.
Agree(answer, status) ==
  answer \in {status, Cut} \/ (answer \in Garbled /\ status = 502)

\* Nothing is owed: the client has its answer, or there is none, or it is gone,
\* and the log has its line if there was a request to write one about.
Settled(r, t, n) == (r \in here \ mute => t # <<>>) /\ (r \in known => n # <<>>)

\* The service goes on, or ends if nothing is owed any more.
GoOn(r, t, n) == busy' = busy \/ (Settled(r, t, n) /\ busy' = busy \ {r})

Begin(r) ==
  /\ r \notin busy /\ told[r] = <<>> /\ noted[r] = <<>>
  /\ busy' = busy \cup {r}
  /\ here' = here \cup {r}
  /\ known' \in {known \ {r}, known \cup {r}}
  /\ UNCHANGED <<mute, told, noted>>

Read(r) ==
  /\ r \in busy
  /\ known' = known \cup {r}
  /\ UNCHANGED <<busy, here, mute, told, noted>>

\* The client leaves, perhaps in the middle of its answer.
Go(r) ==
  /\ here' = here \ {r}
  /\ \/ UNCHANGED told
     \/ /\ r \in (busy \cap here) \ mute /\ told[r] = <<>>
        /\ told' = [told EXCEPT ![r] = <<Cut>>]
  /\ UNCHANGED <<busy, mute, known, noted>>

\* There is no answer to pass on.
Hush(r) ==
  /\ r \in busy /\ told[r] = <<>>
  /\ mute' = mute \cup {r}
  /\ UNCHANGED <<busy, here, known, told, noted>>

Tell(r) ==
  /\ r \in (busy \cap here) \ mute /\ told[r] = <<>>
  /\ \E a \in Answers :
       /\ \A i \in DOMAIN noted[r] : Agree(a, noted[r][i])
       /\ told' = [told EXCEPT ![r] = <<a>>]
       /\ GoOn(r, <<a>>, noted[r])
  /\ UNCHANGED <<here, mute, known, noted>>

Note(r) ==
  /\ r \in busy \cap known /\ noted[r] = <<>>
  /\ \E s \in Statuses :
       /\ \A i \in DOMAIN told[r] : Agree(told[r][i], s)
       /\ noted' = [noted EXCEPT ![r] = <<s>>]
       /\ GoOn(r, told[r], <<s>>)
  /\ UNCHANGED <<here, mute, known, told>>

\* The client left before it could be told everything.
End(r) ==
  /\ r \in busy
  /\ Settled(r, told[r], noted[r])
  /\ busy' = busy \ {r}
  /\ UNCHANGED <<here, mute, known, told, noted>>

Clear(r) ==
  /\ r \notin busy
  /\ here' = here \ {r} /\ mute' = mute \ {r} /\ known' = known \ {r}
  /\ told' = [told EXCEPT ![r] = <<>>]
  /\ noted' = [noted EXCEPT ![r] = <<>>]
  /\ UNCHANGED busy

\* The process ends under all of them.
Lose ==
  /\ busy' = {} /\ here' = {}
  /\ UNCHANGED <<mute, known, told, noted>>

Next ==
  \/ \E r \in Requests :
       \/ Begin(r) \/ Read(r) \/ Go(r) \/ Hush(r)
       \/ Tell(r) \/ Note(r) \/ End(r) \/ Clear(r)
  \/ Lose

Spec == Init /\ [][Next]_vars

=============================================================================
