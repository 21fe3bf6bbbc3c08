----------------------------- MODULE AtomicPick -----------------------------
(***************************************************************************)
(* What picking an upstream means to the request that asks for one: at one *)
(* moment between its call and its return it gets a target that is marked  *)
(* healthy then, or none because not all are.  There are no counter and no *)
(* loop here, and marks may change at any time.                            *)
(***************************************************************************)

CONSTANTS Targets, Requests

VARIABLES
  marked,   \* the targets marked healthy
  at,       \* each request's place: "away", "asking" or "answered"
  got       \* the target it got, if any, as a set

Init ==
  /\ marked \in SUBSET Targets
  /\ at = [r \in Requests |-> "away"]
  /\ got = [r \in Requests |-> {}]

Ask(r) ==
  /\ at[r] = "away"
  /\ at' = [at EXCEPT ![r] = "asking"]
  /\ UNCHANGED <<marked, got>>

Answer(r) ==
  /\ at[r] = "asking"
  /\ at' = [at EXCEPT ![r] = "answered"]
  /\ \/ \E t \in marked : got' = [got EXCEPT ![r] = {t}]
     \/ marked # Targets /\ got' = got
  /\ UNCHANGED marked

Leave(r) ==
  /\ at[r] = "answered"
  /\ at' = [at EXCEPT ![r] = "away"]
  /\ got' = [got EXCEPT ![r] = {}]
  /\ UNCHANGED marked

Mark ==
  /\ marked' \in SUBSET Targets
  /\ UNCHANGED <<at, got>>

Next ==
  \/ \E r \in Requests : Ask(r) \/ Answer(r) \/ Leave(r)
  \/ Mark

Spec == Init /\ [][Next]_<<marked, at, got>>

=============================================================================
