-------------------------- MODULE ProxyRouteProofs --------------------------
(***************************************************************************)
(* Proofs about ProxyRoute, for every number of targets, every counter     *)
(* width and every set of request tasks.                                   *)
(***************************************************************************)
EXTENDS ProxyRouteProps, TLAPS

-----------------------------------------------------------------------------
(***************************************************************************)
(* Arithmetic of the round-robin counter.                                  *)
(***************************************************************************)

\* The division that `% n' rests on.
LEMMA DivMod ==
  ASSUME NEW a \in Nat
  PROVE  /\ a \div N \in Nat
         /\ a % N \in 0 .. N-1
         /\ a = N * (a \div N) + (a % N)
BY NAssumption

\* A remainder is the only one.
LEMMA ModUnique ==
  ASSUME NEW q \in Nat, NEW s \in 0 .. N-1
  PROVE  /\ (N * q + s) % N = s
         /\ (N * q + s) \div N = q
BY NAssumption

\* One more fetch moves the slot by one, and starts a new lap after slot N-1.
LEMMA NextSlot ==
  ASSUME NEW a \in Nat
  PROVE  IF a % N = N - 1
         THEN (a + 1) % N = 0 /\ (a + 1) \div N = (a \div N) + 1
         ELSE (a + 1) % N = (a % N) + 1 /\ (a + 1) \div N = a \div N
<1> DEFINE q == a \div N
           s == a % N
<1>1. q \in Nat /\ s \in 0 .. N-1 /\ a = N * q + s
  BY DivMod
<1>2. CASE s = N - 1
  <2>1. a + 1 = N * (q + 1) + 0
    BY <1>1, <1>2, NAssumption
  <2>2. 0 \in 0 .. N-1 /\ q + 1 \in Nat
    BY <1>1, NAssumption
  <2>3. (N * (q + 1) + 0) % N = 0 /\ (N * (q + 1) + 0) \div N = q + 1
    BY <2>2, ModUnique
  <2> QED BY <1>2, <2>1, <2>3
<1>3. CASE s # N - 1
  <2>1. a + 1 = N * q + (s + 1)
    BY <1>1, NAssumption
  <2>2. s + 1 \in 0 .. N-1
    BY <1>1, <1>3, NAssumption
  <2>3. (N * q + (s + 1)) % N = s + 1 /\ (N * q + (s + 1)) \div N = q
    BY <1>1, <2>2, ModUnique
  <2> QED BY <1>3, <2>1, <2>3
<1> QED BY <1>2, <1>3

\* What a fetch takes from a pick are slots of targets.
LEMMA TakenTargets ==
  ASSUME NEW r, NEW q, Slot(counter) \in Targets
  PROVE  TakenBy(r, q) \subseteq Targets
BY NAssumption DEF TakenBy, Targets

-----------------------------------------------------------------------------
(***************************************************************************)
(* Type correctness.                                                       *)
(***************************************************************************)

\* Every variable keeps its type: in particular the index a request uses is
\* always within the target list (no panic at proxy/mod.rs:39), and the checker
\* stays within it too.
THEOREM TypeCorrect == Spec => []TypeOK
<1>1. Init => TypeOK
  BY NAssumption, WrapAssumption DEF Init, TypeOK, Targets
<1>2. TypeOK /\ [Next]_vars => TypeOK'
  <2> SUFFICES ASSUME TypeOK, [Next]_vars PROVE TypeOK'
    OBVIOUS
  <2> USE DEF TypeOK
  <2>1. ASSUME NEW r \in Requests, Begin(r) PROVE TypeOK'
    BY <2>1 DEF Begin, routeVars, checkerVars
  <2>2. ASSUME NEW r \in Requests, FetchAdd(r) PROVE TypeOK'
    <3>1. Slot(counter) \in Targets
      BY NAssumption DEF Slot, Targets
    <3>2. Bump(counter) \in 0 .. Wrap-1
      BY WrapAssumption DEF Bump
    <3>3. landed' \in [Targets -> Nat]
      BY <2>2, <3>1 DEF FetchAdd
    <3>4. taken' \in [Requests -> SUBSET Targets]
      BY <2>2, <3>1, TakenTargets DEF FetchAdd
    <3> QED BY <2>2, <3>1, <3>2, <3>3, <3>4 DEF FetchAdd, checkerVars
  <2>3. ASSUME NEW r \in Requests, LoadHealthy(r) PROVE TypeOK'
    BY <2>3, NAssumption DEF LoadHealthy, Forget, routeVars, checkerVars
  <2>4. ASSUME NEW r \in Requests, LoadUnhealthy(r) PROVE TypeOK'
    <3>1. 0 \in Targets
      BY NAssumption DEF Targets
    <3>2. 0 \in 0 .. N-1 /\ (tries[r] + 1 # N => tries[r] + 1 \in 0 .. N-1)
      BY NAssumption
    <3> QED BY <2>4, <3>1, <3>2
            DEF LoadUnhealthy, routeVars, checkerVars, historyVars
  <2>5. ASSUME NEW r \in Requests, Finish(r) PROVE TypeOK'
    <3>1. 0 \in Targets
      BY NAssumption DEF Targets
    <3> QED BY <2>5, <3>1 DEF Finish, Forget, routeVars, checkerVars
  <2>6. CASE ProbeConnect
    BY <2>6 DEF ProbeConnect, routeVars, localVars, historyVars
  <2>7. CASE ProbeStore
    <3>1. NextProbe \in
            [at : {"connect", "store", "sleep"}, target : Targets, ok : BOOLEAN]
      BY NAssumption DEF NextProbe, Targets
    <3> QED BY <2>7, <3>1 DEF ProbeStore, routeVars, localVars
  <2>8. CASE Wake
    BY <2>8 DEF Wake, routeVars, localVars, historyVars
  <2>9. ASSUME NEW t \in Targets, Flip(t) PROVE TypeOK'
    BY <2>9 DEF Flip, routeVars, checkerVars, localVars, historyVars
  <2>10. CASE UNCHANGED vars
    BY <2>10 DEF vars
  <2> QED BY <2>1, <2>2, <2>3, <2>4, <2>5, <2>6, <2>7, <2>8, <2>9, <2>10
          DEF Next, Pick, Checker
<1> QED BY <1>1, <1>2, PTL DEF Spec

-----------------------------------------------------------------------------
(***************************************************************************)
(* Round robin.  Since the counter was last 0, a slot has been visited     *)
(* once per complete lap, and once more if the current lap has passed it.  *)
(***************************************************************************)

LandedExactly ==
  \A t \in Targets :
    landed[t] = (counter \div N) + (IF t < counter % N THEN 1 ELSE 0)

\* However concurrent requests interleave their fetch_adds, no slot is ever
\* two visits ahead of another.
THEOREM RoundRobin == Spec => []EvenSpread
<1>1. Init => LandedExactly
  <2> SUFFICES ASSUME Init, NEW t \in Targets
               PROVE landed[t] = (counter \div N) + (IF t < counter % N THEN 1 ELSE 0)
    BY DEF LandedExactly
  <2>1. 0 = N * 0 + 0 /\ 0 \in 0 .. N-1
    BY NAssumption
  <2>2. 0 \div N = 0 /\ 0 % N = 0
    BY <2>1, ModUnique
  <2>3. landed[t] = 0 /\ counter = 0 /\ ~ (t < 0)
    BY DEF Init, Targets
  <2> QED BY <2>2, <2>3
<1>2. TypeOK /\ LandedExactly /\ [Next]_vars => LandedExactly'
  <2> SUFFICES ASSUME TypeOK, LandedExactly, [Next]_vars PROVE LandedExactly'
    OBVIOUS
  <2>1. ASSUME NEW r \in Requests, FetchAdd(r) PROVE LandedExactly'
    <3>1. counter \in Nat /\ counter < Wrap /\ landed \in [Targets -> Nat]
      BY WrapAssumption DEF TypeOK
    <3> SUFFICES ASSUME NEW t \in Targets
                 PROVE landed'[t] = (counter' \div N)
                                      + (IF t < counter' % N THEN 1 ELSE 0)
      BY DEF LandedExactly
    <3>2. CASE counter' = 0
      <4>1. 0 = N * 0 + 0 /\ 0 \in 0 .. N-1
        BY NAssumption
      <4>2. 0 \div N = 0 /\ 0 % N = 0
        BY <4>1, ModUnique
      <4>3. landed'[t] = 0 /\ ~ (t < 0)
        BY <2>1, <3>2 DEF FetchAdd, Targets
      <4> QED BY <3>2, <4>2, <4>3
    <3>3. CASE counter' # 0
      <4>1. counter' = counter + 1
        BY <2>1, <3>1, <3>3, WrapAssumption DEF FetchAdd, Bump
      <4>2. landed' = [landed EXCEPT ![counter % N] = @ + 1]
        BY <2>1, <3>3 DEF FetchAdd, Slot
      <4>3. /\ counter \div N \in Nat /\ counter % N \in 0 .. N-1
            /\ IF counter % N = N - 1
               THEN counter' % N = 0 /\ counter' \div N = (counter \div N) + 1
               ELSE counter' % N = (counter % N) + 1
                    /\ counter' \div N = counter \div N
        BY <3>1, <4>1, DivMod, NextSlot
      <4>4. landed[t] = (counter \div N) + (IF t < counter % N THEN 1 ELSE 0)
        BY DEF LandedExactly
      <4>5. landed'[t] = IF t = counter % N THEN landed[t] + 1 ELSE landed[t]
        BY <3>1, <4>2
      <4>6. t \in 0 .. N-1 /\ landed[t] \in Nat
        BY <3>1 DEF Targets
      <4> QED BY <4>3, <4>4, <4>5, <4>6, NAssumption
    <3> QED BY <3>2, <3>3
  <2>2. CASE UNCHANGED routeVars
    BY <2>2 DEF routeVars, LandedExactly
  <2>3. CASE \E r \in Requests : Begin(r) \/ LoadHealthy(r) \/ LoadUnhealthy(r) \/ Finish(r)
    BY <2>2, <2>3 DEF Begin, LoadHealthy, LoadUnhealthy, Finish
  <2>4. CASE Checker \/ \E t \in Targets : Flip(t)
    BY <2>2, <2>4 DEF Checker, ProbeConnect, ProbeStore, Wake, Flip
  <2>5. CASE UNCHANGED vars
    BY <2>2, <2>5 DEF vars, routeVars
  <2> QED BY <2>1, <2>3, <2>4, <2>5 DEF Next, Pick
<1>3. TypeOK /\ LandedExactly => EvenSpread
  <2> SUFFICES ASSUME TypeOK, LandedExactly, NEW s \in Targets, NEW t \in Targets
               PROVE landed[s] - landed[t] \in {-1, 0, 1}
    BY DEF EvenSpread
  <2>1. counter \in Nat
    BY WrapAssumption DEF TypeOK
  <2>2. counter \div N \in Nat
    BY <2>1, DivMod
  <2>3. landed[s] \in {counter \div N, (counter \div N) + 1}
    BY <2>2 DEF LandedExactly
  <2>4. landed[t] \in {counter \div N, (counter \div N) + 1}
    BY <2>2 DEF LandedExactly
  <2> QED BY <2>2, <2>3, <2>4
<1> QED BY <1>1, <1>2, <1>3, TypeCorrect, PTL DEF Spec

-----------------------------------------------------------------------------
(***************************************************************************)
(* The lap.  Each fetch, whoever makes it, moves the next slot one place   *)
(* on, or to 0 when the counter wraps; so the slots that have gone by      *)
(* since a pick began are the ones just before the next slot, and they are *)
(* no fewer than the turns the pick has completed.                         *)
(***************************************************************************)

\* The m places before place s on the ring of slots.
Behind(s, m) == {t \in Targets : t \in s - m .. s - 1 \/ t >= N + s - m}

\* N places are all there are.
LEMMA FullRing ==
  ASSUME NEW s \in Targets
  PROVE  Behind(s, N) = Targets
BY NAssumption DEF Behind, Targets

\* No place lies between a slot and itself.
LEMMA NothingBehind ==
  ASSUME NEW s \in Targets
  PROVE  Behind(s, 0) = {}
BY NAssumption DEF Behind, Targets

\* When the next slot moves on by one, those that have gone by become one more.
LEMMA MovedOn ==
  ASSUME NEW s \in Targets, s # N - 1, NEW m \in 0 .. N
  PROVE  \E k \in 0 .. N :
           /\ k > m \/ k = N
           /\ Behind(s + 1, k) \subseteq Behind(s, m) \cup {s}
<1> USE NAssumption DEF Targets, Behind
<1>1. CASE m = N
  <2>1. Behind(s + 1, N) \subseteq Behind(s, m) \cup {s}
    BY <1>1
  <2> QED BY <2>1
<1>2. CASE m # N
  <2>1. m + 1 \in 0 .. N /\ m + 1 > m
    BY <1>2
  <2>2. Behind(s + 1, m + 1) \subseteq Behind(s, m) \cup {s}
    BY <1>2
  <2> QED BY <2>1, <2>2
<1> QED BY <1>1, <1>2

\* When it starts again at 0, the slots it passes over have gone by as well.
LEMMA StartedAgain ==
  ASSUME NEW s \in Targets, NEW m \in 0 .. N
  PROVE  \E k \in 0 .. N :
           /\ k > m \/ k = N
           /\ Behind(0, k) \subseteq Behind(s, m) \cup (s .. N-1)
<1> USE NAssumption DEF Targets, Behind
<1>1. CASE m >= s
  <2>1. Behind(0, N) \subseteq Behind(s, m) \cup (s .. N-1)
    BY <1>1
  <2> QED BY <2>1
<1>2. CASE m < s
  <2>1. m + (N - s) \in 0 .. N /\ m + (N - s) > m
    BY <1>2
  <2>2. Behind(0, m + (N - s)) \subseteq Behind(s, m) \cup (s .. N-1)
    BY <1>2
  <2> QED BY <2>1, <2>2
<1> QED BY <1>1, <1>2

\* The slots that a fetch by r takes from a pick of q, and the one it takes for q
\* itself, are all that the next slot moves over.
LEMMA FetchMoves ==
  ASSUME TypeOK, NEW r \in Requests, FetchAdd(r), NEW q \in Requests, NEW m \in 0 .. N
  PROVE  \E k \in 0 .. N :
           /\ k > m \/ k = N
           /\ Behind(Slot(counter'), k) \subseteq
                Behind(Slot(counter), m) \cup TakenBy(r, q)
                  \cup (IF q = r THEN {Slot(counter)} ELSE {})
<1> DEFINE s  == Slot(counter)
           s2 == Slot(counter')
<1>1. counter \in Nat /\ counter < Wrap
  BY WrapAssumption DEF TypeOK
<1>2. counter' = Bump(counter) /\ counter' \in Nat
  BY <1>1, WrapAssumption DEF FetchAdd, Bump
<1>3. s \in Targets /\ s2 \in Targets
  BY <1>1, <1>2, DivMod DEF Slot, Targets
<1>4. CASE counter' = 0 \/ s = N - 1
  <2>1. s2 = 0
    <3>1. CASE counter' = 0
      BY <3>1, NAssumption DEF Slot
    <3>2. CASE counter' # 0
      <4>1. counter' = counter + 1
        BY <1>1, <1>2, <3>2, WrapAssumption DEF Bump
      <4> QED BY <1>1, <1>4, <3>2, <4>1, NextSlot DEF Slot
    <3> QED BY <3>1, <3>2
  <2>2. s .. N-1 \subseteq TakenBy(r, q) \cup (IF q = r THEN {s} ELSE {})
    BY <1>2, <1>3, <1>4, NAssumption DEF TakenBy, Targets
  <2> HIDE DEF s, s2
  <2>3. PICK k \in 0 .. N : /\ k > m \/ k = N
                            /\ Behind(0, k) \subseteq Behind(s, m) \cup (s .. N-1)
    BY <1>3, StartedAgain
  <2> QED BY <2>1, <2>2, <2>3 DEF s, s2
<1>5. CASE counter' # 0 /\ s # N - 1
  <2>1. counter' = counter + 1
    BY <1>1, <1>2, <1>5, WrapAssumption DEF Bump
  <2>2. s2 = s + 1
    BY <1>1, <1>5, <2>1, NextSlot DEF Slot
  <2>3. s \in TakenBy(r, q) \cup (IF q = r THEN {s} ELSE {})
    BY DEF TakenBy
  <2> HIDE DEF s, s2
  <2>4. PICK k \in 0 .. N : /\ k > m \/ k = N
                            /\ Behind(s + 1, k) \subseteq Behind(s, m) \cup {s}
    BY <1>3, <1>5, MovedOn
  <2> QED BY <2>2, <2>3, <2>4 DEF s, s2
<1> QED BY <1>4, <1>5

\* A target steady for a pick under way is marked healthy now.
SteadyIsHealthy ==
  \A r \in Requests : InLap(r) => \A t \in steady[r] : healthy[t]

\* Outside the loop a task has no completed turns.
TriesReset ==
  \A r \in Requests : ~ InLap(r) => tries[r] = 0

\* How many slots a pick has fetched.
Fetched(r) == IF pc[r] = "load" THEN tries[r] + 1 ELSE tries[r]

\* The slots that a pick need not answer for: others took them, their targets
\* were not healthy throughout, or it is about to look at them.
Excused(r) ==
  taken[r] \cup (Targets \ steady[r]) \cup (IF pc[r] = "load" THEN {idx[r]} ELSE {})

LapOf(r) ==
  /\ InLap(r) =>
       \E m \in 0 .. N : m >= Fetched(r) /\ Behind(Slot(counter), m) \subseteq Excused(r)
  /\ pc[r] = "none" => steady[r] \subseteq taken[r]

LapInv == SteadyIsHealthy /\ TriesReset /\ \A r \in Requests : LapOf(r)

\* Before any pick there is nothing to say of laps.
LEMMA LapInvInit == Init => LapInv
BY DEF Init, LapInv, SteadyIsHealthy, LapOf, TriesReset, InLap

\* A target leaves the steady sets with the store that clears its flag.
LEMMA SteadyStep == TypeOK /\ LapInv /\ [Next]_vars => SteadyIsHealthy'
<1> SUFFICES ASSUME TypeOK, LapInv, [Next]_vars, NEW q \in Requests, InLap(q)',
                    NEW t \in steady'[q]
             PROVE  healthy'[t]
  BY DEF SteadyIsHealthy
<1>1. /\ pc \in [Requests -> {"idle", "fetch", "load", "picked", "none"}]
      /\ steady \in [Requests -> SUBSET Targets]
      /\ healthy \in [Targets -> BOOLEAN]
  BY DEF TypeOK
<1>2. InLap(q) => \A u \in steady[q] : healthy[u]
  BY DEF LapInv, SteadyIsHealthy
<1> USE <1>1, <1>2 DEF InLap
<1>3. ASSUME NEW r \in Requests, Begin(r) PROVE healthy'[t]
  BY <1>3 DEF Begin, checkerVars
<1>4. ASSUME NEW r \in Requests, FetchAdd(r) PROVE healthy'[t]
  BY <1>4 DEF FetchAdd, checkerVars
<1>5. ASSUME NEW r \in Requests, LoadHealthy(r) PROVE healthy'[t]
  BY <1>5 DEF LoadHealthy, Forget, checkerVars
<1>6. ASSUME NEW r \in Requests, LoadUnhealthy(r) PROVE healthy'[t]
  BY <1>6 DEF LoadUnhealthy, checkerVars, historyVars
<1>7. ASSUME NEW r \in Requests, Finish(r) PROVE healthy'[t]
  BY <1>7 DEF Finish, Forget, checkerVars
<1>8. CASE ProbeConnect
  BY <1>8 DEF ProbeConnect, localVars, historyVars
<1>9. CASE ProbeStore
  <2>1. InLap(q) /\ t \in steady[q] /\ healthy[t] /\ t \in Targets
    BY <1>9 DEF ProbeStore, localVars
  <2>2. CASE t = probe.target
    BY <1>9, <2>1, <2>2 DEF ProbeStore
  <2>3. CASE t # probe.target
    BY <1>9, <2>1, <2>3 DEF ProbeStore
  <2> QED BY <2>2, <2>3
<1>10. CASE Wake
  BY <1>10 DEF Wake, localVars, historyVars
<1>11. ASSUME NEW u \in Targets, Flip(u) PROVE healthy'[t]
  BY <1>11 DEF Flip, checkerVars, localVars, historyVars
<1>12. CASE UNCHANGED vars
  BY <1>12 DEF vars
<1> QED BY <1>3, <1>4, <1>5, <1>6, <1>7, <1>8, <1>9, <1>10, <1>11, <1>12
        DEF Next, Pick, Checker

\* Both ways out of the loop leave no completed turns behind.
LEMMA TriesStep == TypeOK /\ LapInv /\ [Next]_vars => TriesReset'
<1> SUFFICES ASSUME TypeOK, LapInv, [Next]_vars, NEW q \in Requests, ~ InLap(q)'
             PROVE  tries'[q] = 0
  BY DEF TriesReset
<1>1. /\ pc \in [Requests -> {"idle", "fetch", "load", "picked", "none"}]
      /\ tries \in [Requests -> 0 .. N-1]
      /\ ~ InLap(q) => tries[q] = 0
  BY DEF TypeOK, LapInv, TriesReset
<1> USE <1>1 DEF InLap
<1>2. ASSUME NEW r \in Requests, Begin(r) PROVE tries'[q] = 0
  BY <1>2 DEF Begin
<1>3. ASSUME NEW r \in Requests, FetchAdd(r) PROVE tries'[q] = 0
  BY <1>3 DEF FetchAdd
<1>4. ASSUME NEW r \in Requests, LoadHealthy(r) PROVE tries'[q] = 0
  BY <1>4 DEF LoadHealthy
<1>5. ASSUME NEW r \in Requests, LoadUnhealthy(r) PROVE tries'[q] = 0
  BY <1>5 DEF LoadUnhealthy
<1>6. ASSUME NEW r \in Requests, Finish(r) PROVE tries'[q] = 0
  BY <1>6 DEF Finish, Returned
<1>7. CASE UNCHANGED localVars
  BY <1>7 DEF localVars
<1>8. CASE Checker \/ \E t \in Targets : Flip(t)
  BY <1>7, <1>8 DEF Checker, ProbeConnect, ProbeStore, Wake, Flip
<1>9. CASE UNCHANGED vars
  BY <1>7, <1>9 DEF vars, localVars
<1> QED BY <1>2, <1>3, <1>4, <1>5, <1>6, <1>8, <1>9 DEF Next, Pick

\* A store by the checker only takes targets out of the steady sets.
LEMMA SteadyShrinks ==
  ASSUME TypeOK, ProbeStore, NEW q \in Requests
  PROVE  steady'[q] \subseteq steady[q]
BY DEF TypeOK, ProbeStore

\* Steps that move nothing of a pick but, perhaps, shrink its steady set.
LEMMA Undisturbed ==
  ASSUME NEW q \in Requests, LapOf(q), UNCHANGED counter,
         pc'[q] = pc[q], idx'[q] = idx[q], tries'[q] = tries[q],
         taken'[q] = taken[q], steady'[q] \subseteq steady[q]
  PROVE  LapOf(q)'
BY DEF LapOf, InLap, Fetched, Excused, Behind, Slot

\* Every fetch adds to what has gone by in the picks under way, each its own way;
\* a load of a cleared flag excuses its slot because the target is not steady.
LEMMA LapStep == TypeOK /\ LapInv /\ [Next]_vars => \A q \in Requests : LapOf(q)'
<1> SUFFICES ASSUME TypeOK, LapInv, [Next]_vars, NEW q \in Requests
             PROVE  LapOf(q)'
  OBVIOUS
<1>1. /\ counter \in Nat
      /\ healthy \in [Targets -> BOOLEAN]
      /\ pc \in [Requests -> {"idle", "fetch", "load", "picked", "none"}]
      /\ idx \in [Requests -> Targets]
      /\ tries \in [Requests -> 0 .. N-1]
      /\ steady \in [Requests -> SUBSET Targets]
      /\ taken \in [Requests -> SUBSET Targets]
  BY WrapAssumption DEF TypeOK
<1>2. LapOf(q)
  BY DEF LapInv
<1>3. Slot(counter) \in Targets
  BY <1>1, DivMod DEF Slot, Targets
<1>4. ASSUME NEW r \in Requests, Begin(r) PROVE LapOf(q)'
  <2>1. CASE r = q
    <3>1. pc[q] = "idle" /\ tries[q] = 0
      BY <1>4, <2>1 DEF Begin, LapInv, TriesReset, InLap
    <3>2. pc'[q] = "fetch" /\ tries'[q] = 0 /\ counter' = counter
      BY <1>1, <1>4, <2>1, <3>1 DEF Begin, routeVars
    <3>3. Behind(Slot(counter'), 0) = {} /\ 0 >= Fetched(q)' /\ 0 \in 0 .. N
      BY <1>3, <3>2, NothingBehind, NAssumption DEF Fetched
    <3> QED BY <3>2, <3>3 DEF LapOf
  <2>2. CASE r # q
    BY <1>1, <1>2, <1>4, <2>2, Undisturbed DEF Begin, routeVars
  <2> QED BY <2>1, <2>2
<1>5. ASSUME NEW r \in Requests, FetchAdd(r) PROVE LapOf(q)'
  <2>1. CASE InLap(q)
    <3>1. PICK m \in 0 .. N :
            m >= Fetched(q) /\ Behind(Slot(counter), m) \subseteq Excused(q)
      BY <1>2, <2>1 DEF LapOf
    <3>2. PICK k \in 0 .. N :
            /\ k > m \/ k = N
            /\ Behind(Slot(counter'), k) \subseteq
                 Behind(Slot(counter), m) \cup TakenBy(r, q)
                   \cup (IF q = r THEN {Slot(counter)} ELSE {})
      BY <1>5, FetchMoves
    <3>3. taken'[q] = taken[q] \cup TakenBy(r, q) /\ steady'[q] = steady[q]
          /\ tries'[q] = tries[q]
      BY <1>5, <2>1 DEF FetchAdd
    <3>4. CASE r = q
      <4>1. pc[q] = "fetch" /\ pc'[q] = "load" /\ idx'[q] = Slot(counter)
        BY <1>1, <1>5, <3>4 DEF FetchAdd
      <4>2. k >= Fetched(q)'
        BY <1>1, <3>1, <3>2, <3>3, <4>1, NAssumption DEF Fetched
      <4>3. Behind(Slot(counter'), k) \subseteq Excused(q)'
        BY <3>1, <3>2, <3>3, <3>4, <4>1 DEF Excused
      <4> QED BY <4>1, <4>2, <4>3 DEF LapOf
    <3>5. CASE r # q
      <4>1. pc'[q] = pc[q] /\ idx'[q] = idx[q]
        BY <1>1, <1>5, <3>5 DEF FetchAdd
      <4>2. k >= Fetched(q)'
        <5>1. Fetched(q) \in 0 .. N
          BY <1>1, NAssumption DEF Fetched
        <5>2. Fetched(q)' = Fetched(q)
          BY <3>3, <4>1 DEF Fetched
        <5> QED BY <3>1, <3>2, <5>1, <5>2, NAssumption
      <4>3. Behind(Slot(counter'), k) \subseteq Excused(q)'
        BY <3>1, <3>2, <3>3, <3>5, <4>1 DEF Excused
      <4>4. pc'[q] # "none"
        BY <2>1, <4>1 DEF InLap
      <4> QED BY <4>2, <4>3, <4>4 DEF LapOf
    <3> QED BY <3>4, <3>5
  <2>2. CASE ~ InLap(q)
    <3>1. pc'[q] = pc[q] /\ steady'[q] = steady[q] /\ taken'[q] = taken[q]
      BY <1>1, <1>5, <2>2 DEF FetchAdd, InLap
    <3> QED BY <1>2, <2>2, <3>1 DEF LapOf, InLap
  <2> QED BY <2>1, <2>2
<1>6. ASSUME NEW r \in Requests, LoadHealthy(r) PROVE LapOf(q)'
  <2>1. CASE r = q
    <3>1. pc'[q] = "picked"
      BY <1>1, <1>6, <2>1 DEF LoadHealthy
    <3> QED BY <3>1 DEF LapOf, InLap
  <2>2. CASE r # q
    BY <1>1, <1>2, <1>6, <2>2, Undisturbed DEF LoadHealthy, Forget, routeVars
  <2> QED BY <2>1, <2>2
<1>7. ASSUME NEW r \in Requests, LoadUnhealthy(r) PROVE LapOf(q)'
  <2>1. CASE r = q
    <3>1. /\ pc[q] = "load" /\ ~ healthy[idx[q]] /\ UNCHANGED <<counter, steady, taken>>
      BY <1>7, <2>1 DEF LoadUnhealthy, routeVars, historyVars
    <3>2. PICK m \in 0 .. N :
            m >= tries[q] + 1 /\ Behind(Slot(counter), m) \subseteq Excused(q)
      BY <1>2, <3>1 DEF LapOf, InLap, Fetched
    <3>3. idx[q] \in Targets \ steady[q]
      BY <1>1, <3>1 DEF LapInv, SteadyIsHealthy, InLap
    <3>4. Excused(q) = taken[q] \cup (Targets \ steady[q])
      BY <3>1, <3>3 DEF Excused
    <3>5. CASE tries[q] + 1 = N
      <4>1. Behind(Slot(counter), N) \subseteq taken[q] \cup (Targets \ steady[q])
        BY <3>2, <3>4, <3>5, NAssumption
      <4>2. steady[q] \subseteq taken[q]
        BY <1>1, <1>3, <4>1, FullRing
      <4>3. pc'[q] = "none"
        BY <1>1, <1>7, <2>1, <3>5 DEF LoadUnhealthy
      <4> QED BY <3>1, <4>2, <4>3 DEF LapOf, InLap
    <3>6. CASE tries[q] + 1 # N
      <4>1. pc'[q] = "fetch" /\ tries'[q] = tries[q] + 1
        BY <1>1, <1>7, <2>1, <3>6 DEF LoadUnhealthy
      <4>2. Excused(q)' = Excused(q)
        BY <3>1, <3>4, <4>1 DEF Excused
      <4>3. m >= Fetched(q)' /\ Behind(Slot(counter'), m) \subseteq Excused(q)'
        BY <3>1, <3>2, <4>1, <4>2 DEF Fetched
      <4> QED BY <4>1, <4>3 DEF LapOf
    <3> QED BY <3>5, <3>6
  <2>2. CASE r # q
    BY <1>1, <1>2, <1>7, <2>2, Undisturbed
       DEF LoadUnhealthy, routeVars, historyVars
  <2> QED BY <2>1, <2>2
<1>8. ASSUME NEW r \in Requests, Finish(r) PROVE LapOf(q)'
  <2>1. CASE r = q
    <3>1. pc'[q] = "idle"
      BY <1>1, <1>8, <2>1 DEF Finish
    <3> QED BY <3>1 DEF LapOf, InLap
  <2>2. CASE r # q
    BY <1>1, <1>2, <1>8, <2>2, Undisturbed DEF Finish, Forget, routeVars
  <2> QED BY <2>1, <2>2
<1>9. CASE ProbeConnect
  BY <1>2, <1>9, Undisturbed DEF ProbeConnect, routeVars, localVars, historyVars
<1>10. CASE ProbeStore
  BY <1>2, <1>10, SteadyShrinks, Undisturbed DEF ProbeStore, routeVars, localVars
<1>11. CASE Wake
  BY <1>2, <1>11, Undisturbed DEF Wake, routeVars, localVars, historyVars
<1>12. ASSUME NEW u \in Targets, Flip(u) PROVE LapOf(q)'
  BY <1>2, <1>12, Undisturbed DEF Flip, routeVars, localVars, historyVars
<1>13. CASE UNCHANGED vars
  BY <1>2, <1>13, Undisturbed DEF vars
<1> QED BY <1>4, <1>5, <1>6, <1>7, <1>8, <1>9, <1>10, <1>11, <1>12, <1>13
        DEF Next, Pick, Checker

\* The lap that a pick promises is complete but for what concurrent requests, or
\* the wrap of the counter, took from it.
THEOREM LapComplete == Spec => []MissedTargetsWereTaken
<1>1. TypeOK /\ LapInv /\ [Next]_vars => LapInv'
  BY SteadyStep, LapStep, TriesStep DEF LapInv
<1>2. LapInv => MissedTargetsWereTaken
  BY DEF LapInv, LapOf, MissedTargetsWereTaken
<1> QED BY LapInvInit, <1>1, <1>2, TypeCorrect, PTL DEF Spec

\* The comment on pick_upstream holds for a route that serves one request at a time
\* and whose targets divide the range of its counter: nothing is taken from a pick.
THEOREM LapAlone ==
  ASSUME \A r, q \in Requests : r = q,
         Wrap % N = 0
  PROVE  Spec => []NoneOnlyIfAllUnhealthy
<1> DEFINE NothingTaken == \A r \in Requests : taken[r] = {}
<1>1. Init => NothingTaken
  BY DEF Init
<1>2. TypeOK /\ NothingTaken /\ [Next]_vars => NothingTaken'
  <2> SUFFICES ASSUME TypeOK, NothingTaken, [Next]_vars, NEW q \in Requests
               PROVE  taken'[q] = {}
    OBVIOUS
  <2>1. taken \in [Requests -> SUBSET Targets] /\ taken[q] = {}
    BY DEF TypeOK
  <2>2. ASSUME NEW r \in Requests, FetchAdd(r) PROVE taken'[q] = {}
    <3>1. r = q /\ taken'[q] \subseteq TakenBy(r, q)
      BY <2>1, <2>2 DEF FetchAdd
    <3>2. counter \in Nat /\ counter < Wrap
      BY WrapAssumption DEF TypeOK
    <3>3. CASE Bump(counter) = 0
      <4>1. Wrap = counter + 1
        BY <3>2, <3>3, WrapAssumption DEF Bump
      <4>2. counter % N \in 0 .. N-1 /\ (counter + 1) % N = 0
        BY <3>2, <4>1, DivMod
      <4>3. counter % N = N - 1
        BY <3>2, <4>2, NextSlot, NAssumption
      <4> QED BY <3>1, <4>3, NAssumption DEF Slot, TakenBy
    <3>4. CASE Bump(counter) # 0
      BY <3>1, <3>4 DEF TakenBy
    <3> QED BY <3>3, <3>4
  <2>3. ASSUME NEW r \in Requests, Begin(r) \/ LoadHealthy(r) \/ Finish(r)
        PROVE  taken'[q] = {}
    BY <2>1, <2>3 DEF Begin, LoadHealthy, Finish, Forget
  <2>4. ASSUME NEW r \in Requests, LoadUnhealthy(r) PROVE taken'[q] = {}
    BY <2>1, <2>4 DEF LoadUnhealthy, historyVars
  <2>5. CASE Checker \/ \E t \in Targets : Flip(t)
    BY <2>1, <2>5 DEF Checker, ProbeConnect, ProbeStore, Wake, Flip, historyVars
  <2>6. CASE UNCHANGED vars
    BY <2>1, <2>6 DEF vars
  <2> QED BY <2>2, <2>3, <2>4, <2>5, <2>6 DEF Next, Pick
<1>3. NothingTaken /\ MissedTargetsWereTaken => NoneOnlyIfAllUnhealthy
  BY DEF MissedTargetsWereTaken, NoneOnlyIfAllUnhealthy
<1> QED BY <1>1, <1>2, <1>3, TypeCorrect, LapComplete, PTL DEF Spec

-----------------------------------------------------------------------------
(***************************************************************************)
(* A pick implements AtomicPick: the load that finds a flag set answers    *)
(* with its target, the last one that finds a flag cleared answers with    *)
(* none, and the steps before change nothing that the request can tell.    *)
(***************************************************************************)

\* A step that only changes r's place in pick_upstream, and its slot, changes only
\* r in the abstract picture.
LEMMA OnlyMine ==
  ASSUME TypeOK, NEW r \in Requests, NEW slot \in Targets,
         NEW place \in {"idle", "fetch", "load", "picked", "none"},
         pc' = [pc EXCEPT ![r] = place], idx' = [idx EXCEPT ![r] = slot],
         healthy' = healthy
  PROVE  /\ MarkedNow' = MarkedNow
         /\ AtNow' = [AtNow EXCEPT ![r] = PlaceOf(place)]
         /\ GotNow' = [GotNow EXCEPT ![r] = IF place = "picked" THEN {slot} ELSE {}]
<1> DEFINE result == IF place = "picked" THEN {slot} ELSE {}
<1>1. /\ pc \in [Requests -> {"idle", "fetch", "load", "picked", "none"}]
      /\ idx \in [Requests -> Targets]
  BY DEF TypeOK
<1>2. \A q \in Requests : /\ q # r => pc'[q] = pc[q] /\ idx'[q] = idx[q]
                          /\ q = r => pc'[q] = place /\ idx'[q] = slot
  BY <1>1
<1>3. MarkedNow' = MarkedNow
  BY DEF MarkedNow
<1>4. \A q \in Requests : AtNow'[q] = IF q = r THEN PlaceOf(place) ELSE AtNow[q]
  BY <1>2 DEF AtNow
<1>5. \A q \in Requests : GotNow'[q] = IF q = r THEN result ELSE GotNow[q]
  BY <1>2 DEF GotNow
<1>6. /\ AtNow = [q \in Requests |-> AtNow[q]] /\ AtNow' = [q \in Requests |-> AtNow'[q]]
      /\ GotNow = [q \in Requests |-> GotNow[q]] /\ GotNow' = [q \in Requests |-> GotNow'[q]]
  BY DEF AtNow, GotNow
<1> HIDE DEF result
<1>7. AtNow' = [AtNow EXCEPT ![r] = PlaceOf(place)]
  BY <1>4, <1>6
<1>8. GotNow' = [GotNow EXCEPT ![r] = result]
  BY <1>5, <1>6
<1> QED BY <1>3, <1>7, <1>8 DEF result

\* Where a request is before a step of its own; putting it there again changes
\* nothing.
LEMMA MineBefore ==
  ASSUME NEW r \in Requests
  PROVE  /\ AtNow[r] = PlaceOf(pc[r]) /\ [AtNow EXCEPT ![r] = PlaceOf(pc[r])] = AtNow
         /\ pc[r] # "picked" => GotNow[r] = {} /\ [GotNow EXCEPT ![r] = {}] = GotNow
BY DEF AtNow, GotNow

\* The places one by one.
LEMMA Places ==
  /\ PlaceOf("idle") = "away"
  /\ PlaceOf("fetch") = "asking" /\ PlaceOf("load") = "asking"
  /\ PlaceOf("picked") = "answered" /\ PlaceOf("none") = "answered"
BY DEF PlaceOf

\* Each step of a request is one of its steps there, or none.
LEMMA RequestSteps ==
  ASSUME TypeOK, NEW r \in Requests, Begin(r) \/ Pick(r)
  PROVE  Picks!Next \/ UNCHANGED <<MarkedNow, AtNow, GotNow>>
<1> DEFINE Stutter == UNCHANGED <<MarkedNow, AtNow, GotNow>>
<1>1. /\ counter \in Nat
      /\ pc \in [Requests -> {"idle", "fetch", "load", "picked", "none"}]
      /\ idx \in [Requests -> Targets]
  BY WrapAssumption DEF TypeOK
<1>2. idx[r] \in Targets /\ idx = [idx EXCEPT ![r] = idx[r]]
  BY <1>1
<1>3. PICK home \in Targets : home = 0
  BY NAssumption DEF Targets
<1>4. CASE Begin(r)
  <2>1. /\ pc[r] = "idle" /\ pc' = [pc EXCEPT ![r] = "fetch"]
        /\ idx' = [idx EXCEPT ![r] = idx[r]] /\ healthy' = healthy
    BY <1>2, <1>4 DEF Begin, checkerVars
  <2>2. /\ MarkedNow' = MarkedNow
        /\ AtNow' = [AtNow EXCEPT ![r] = "asking"]
        /\ GotNow' = [GotNow EXCEPT ![r] = {}]
    BY <1>2, <2>1, OnlyMine, Places
  <2>3. AtNow[r] = "away" /\ [GotNow EXCEPT ![r] = {}] = GotNow
    BY <2>1, MineBefore, Places
  <2>4. Picks!Ask(r)
    BY <2>2, <2>3 DEF Picks!Ask
  <2> QED BY <2>4 DEF Picks!Next
<1>5. CASE FetchAdd(r)
  <2>1. /\ pc[r] = "fetch" /\ pc' = [pc EXCEPT ![r] = "load"]
        /\ idx' = [idx EXCEPT ![r] = Slot(counter)] /\ healthy' = healthy
    BY <1>5 DEF FetchAdd, checkerVars
  <2>2. Slot(counter) \in Targets
    BY <1>1, DivMod DEF Slot, Targets
  <2>3. /\ MarkedNow' = MarkedNow
        /\ AtNow' = [AtNow EXCEPT ![r] = "asking"]
        /\ GotNow' = [GotNow EXCEPT ![r] = {}]
    BY <2>1, <2>2, OnlyMine, Places
  <2>4. [AtNow EXCEPT ![r] = "asking"] = AtNow /\ [GotNow EXCEPT ![r] = {}] = GotNow
    BY <2>1, MineBefore, Places
  <2> QED BY <2>3, <2>4
<1>6. CASE LoadHealthy(r)
  <2>1. /\ pc[r] = "load" /\ pc' = [pc EXCEPT ![r] = "picked"]
        /\ idx' = [idx EXCEPT ![r] = idx[r]] /\ healthy' = healthy
    BY <1>2, <1>6 DEF LoadHealthy, checkerVars
  <2>2. /\ MarkedNow' = MarkedNow
        /\ AtNow' = [AtNow EXCEPT ![r] = "answered"]
        /\ GotNow' = [GotNow EXCEPT ![r] = {idx[r]}]
    BY <1>2, <2>1, OnlyMine, Places
  <2>3. AtNow[r] = "asking"
    BY <2>1, MineBefore, Places
  <2>4. idx[r] \in MarkedNow
    BY <1>2, <1>6 DEF LoadHealthy, MarkedNow
  <2>5. Picks!Answer(r)
    BY <2>2, <2>3, <2>4 DEF Picks!Answer
  <2> QED BY <2>5 DEF Picks!Next
<1>7. CASE LoadUnhealthy(r)
  <2>1. /\ pc[r] = "load" /\ idx' = [idx EXCEPT ![r] = home] /\ healthy' = healthy
        /\ \/ pc' = [pc EXCEPT ![r] = "none"]
           \/ pc' = [pc EXCEPT ![r] = "fetch"]
    BY <1>3, <1>7 DEF LoadUnhealthy, checkerVars
  <2>2. /\ AtNow[r] = "asking"
        /\ [AtNow EXCEPT ![r] = "asking"] = AtNow /\ [GotNow EXCEPT ![r] = {}] = GotNow
    BY <2>1, MineBefore, Places
  <2>3. CASE pc' = [pc EXCEPT ![r] = "none"]
    <3>1. /\ MarkedNow' = MarkedNow
          /\ AtNow' = [AtNow EXCEPT ![r] = "answered"]
          /\ GotNow' = [GotNow EXCEPT ![r] = {}]
      BY <1>3, <2>1, <2>3, OnlyMine, Places
    <3>2. MarkedNow # Targets
      BY <1>2, <1>7 DEF LoadUnhealthy, MarkedNow
    <3>3. Picks!Answer(r)
      BY <2>2, <3>1, <3>2 DEF Picks!Answer
    <3> QED BY <3>3 DEF Picks!Next
  <2>4. CASE pc' = [pc EXCEPT ![r] = "fetch"]
    <3>1. /\ MarkedNow' = MarkedNow
          /\ AtNow' = [AtNow EXCEPT ![r] = "asking"]
          /\ GotNow' = [GotNow EXCEPT ![r] = {}]
      BY <1>3, <2>1, <2>4, OnlyMine, Places
    <3> QED BY <2>2, <3>1
  <2> QED BY <2>1, <2>3, <2>4
<1>8. CASE Finish(r)
  <2>1. /\ pc[r] \in {"picked", "none"} /\ pc' = [pc EXCEPT ![r] = "idle"]
        /\ idx' = [idx EXCEPT ![r] = home] /\ healthy' = healthy
    BY <1>3, <1>8 DEF Finish, Returned, checkerVars
  <2>2. /\ MarkedNow' = MarkedNow
        /\ AtNow' = [AtNow EXCEPT ![r] = "away"]
        /\ GotNow' = [GotNow EXCEPT ![r] = {}]
    BY <1>3, <2>1, OnlyMine, Places
  <2>3. AtNow[r] = "answered"
    BY <2>1, MineBefore, Places
  <2>4. Picks!Leave(r)
    BY <2>2, <2>3 DEF Picks!Leave
  <2> QED BY <2>4 DEF Picks!Next
<1> QED BY <1>4, <1>5, <1>6, <1>7, <1>8 DEF Pick

\* The checker moves marks, upstreams nothing.
LEMMA OtherSteps ==
  ASSUME Checker \/ (\E t \in Targets : Flip(t)) \/ UNCHANGED vars
  PROVE  Picks!Next \/ UNCHANGED <<MarkedNow, AtNow, GotNow>>
<1>1. UNCHANGED <<pc, idx>>
  BY DEF Checker, ProbeConnect, ProbeStore, Wake, Flip, localVars, vars
<1>2. UNCHANGED <<AtNow, GotNow>>
  BY <1>1 DEF AtNow, GotNow
<1>3. MarkedNow' \in SUBSET Targets
  BY DEF MarkedNow
<1> QED BY <1>2, <1>3 DEF Picks!Next, Picks!Mark

\* For the request that waits for it, a pick looks at the flags at one moment,
\* however its loop interleaves with others.
THEOREM PickIsAtomic == Spec => PicksAtomic
<1>1. Init => Picks!Init
  BY Places DEF Init, Picks!Init, MarkedNow, AtNow, GotNow
<1>2. TypeOK /\ [Next]_vars => [Picks!Next]_<<MarkedNow, AtNow, GotNow>>
  BY RequestSteps, OtherSteps DEF Next
<1> QED BY <1>1, <1>2, TypeCorrect, PTL DEF Spec, PicksAtomic, Picks!Spec

-----------------------------------------------------------------------------
(***************************************************************************)
(* Bounded picks.                                                          *)
(***************************************************************************)

\* What is left of a pick, in its places.
LEMMA LeftOver ==
  ASSUME TypeOK, NEW r \in Requests
  PROVE  /\ Left(r) \in 0 .. 2 * N
         /\ pc[r] = "fetch" => Left(r) = 2 * (N - tries[r])
         /\ pc[r] = "load" => Left(r) = 2 * (N - tries[r]) - 1
         /\ ~ InLap(r) => Left(r) = 0
         /\ InLap(r) => Left(r) > 0
<1>1. tries[r] \in 0 .. N-1 /\ pc[r] \in {"idle", "fetch", "load", "picked", "none"}
  BY DEF TypeOK
<1>2. 2 * (N - tries[r]) \in 2 .. 2 * N
  BY <1>1, NAssumption
<1>3. /\ pc[r] = "fetch" => Left(r) = 2 * (N - tries[r])
      /\ pc[r] = "load" => Left(r) = 2 * (N - tries[r]) - 1
      /\ ~ InLap(r) => Left(r) = 0
  BY <1>1 DEF Left, InLap
<1>4. InLap(r) <=> pc[r] \in {"fetch", "load"}
  BY DEF InLap
<1> QED BY <1>2, <1>3, <1>4, NAssumption

\* An operation of its own brings a pick nearer to its end.
LEMMA OwnOperation ==
  ASSUME TypeOK, TypeOK', NEW r \in Requests, InLap(r), Pick(r)
  PROVE  Left(r)' < Left(r)
<1>1. /\ tries \in [Requests -> 0 .. N-1]
      /\ pc \in [Requests -> {"idle", "fetch", "load", "picked", "none"}]
  BY DEF TypeOK
<1>2. Left(r) > 0 /\ Left(r) \in Int
  BY LeftOver
<1>3. /\ pc'[r] = "fetch" => Left(r)' = 2 * (N - tries'[r])
      /\ pc'[r] = "load" => Left(r)' = 2 * (N - tries'[r]) - 1
      /\ pc'[r] \in {"picked", "none"} => Left(r)' = 0
  BY DEF Left
<1>4. CASE FetchAdd(r)
  <2>1. pc[r] = "fetch" /\ pc'[r] = "load" /\ tries'[r] = tries[r]
    BY <1>1, <1>4 DEF FetchAdd
  <2>2. Left(r) = 2 * (N - tries[r]) /\ Left(r)' = 2 * (N - tries[r]) - 1
    BY <1>3, <2>1, LeftOver
  <2> QED BY <1>1, <2>2, NAssumption
<1>5. CASE LoadHealthy(r)
  <2>1. pc'[r] = "picked"
    BY <1>1, <1>5 DEF LoadHealthy
  <2> QED BY <1>2, <1>3, <2>1
<1>6. CASE LoadUnhealthy(r)
  <2>1. CASE tries[r] + 1 = N
    <3>1. pc'[r] = "none"
      BY <1>1, <1>6, <2>1 DEF LoadUnhealthy
    <3> QED BY <1>2, <1>3, <3>1
  <2>2. CASE tries[r] + 1 # N
    <3>1. pc[r] = "load" /\ pc'[r] = "fetch" /\ tries'[r] = tries[r] + 1
      BY <1>1, <1>6, <2>2 DEF LoadUnhealthy
    <3>2. Left(r) = 2 * (N - tries[r]) - 1 /\ Left(r)' = 2 * (N - (tries[r] + 1))
      BY <1>3, <3>1, LeftOver
    <3>3. tries[r] \in Int /\ N \in Int
      BY <1>1, NAssumption
    <3> QED BY <3>2, <3>3
  <2> QED BY <2>1, <2>2
<1>7. CASE Finish(r)
  BY <1>7 DEF Finish, Returned, InLap
<1> QED BY <1>4, <1>5, <1>6, <1>7 DEF Pick

\* No other step touches a pick that is under way.
LEMMA OthersOperation ==
  ASSUME TypeOK, NEW r \in Requests, InLap(r), [Next]_vars
  PROVE  Pick(r) \/ UNCHANGED <<pc[r], idx[r], tries[r]>>
<1>1. CASE Checker \/ (\E t \in Targets : Flip(t)) \/ UNCHANGED vars
  BY <1>1 DEF Checker, ProbeConnect, ProbeStore, Wake, Flip, localVars, vars
<1>2. ASSUME NEW q \in Requests, q # r, Begin(q) \/ Pick(q)
      PROVE  UNCHANGED <<pc[r], idx[r], tries[r]>>
  BY <1>2 DEF TypeOK, Pick, Begin, FetchAdd, LoadHealthy, LoadUnhealthy, Finish
<1>3. ~ Begin(r)
  BY DEF Begin, InLap
<1> QED BY <1>1, <1>2, <1>3 DEF Next

\* A pick ends within 2n operations of its own, whatever the others do meanwhile.
THEOREM PickWaitFree == Spec => PickBounded
<1>1. TypeOK => \A r \in Requests : Left(r) \in 0 .. 2 * N
  BY LeftOver
<1>2. TypeOK /\ TypeOK' /\ [Next]_vars =>
        [\A r \in Requests : InLap(r) =>
           UNCHANGED <<pc[r], idx[r], tries[r]>> \/ Left(r)' < Left(r)]_vars
  BY OwnOperation, OthersOperation
<1> QED BY <1>1, <1>2, TypeCorrect, PTL DEF Spec, PickBounded

=============================================================================
