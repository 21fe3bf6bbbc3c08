--------------------------- MODULE WasmInvokeProofs ---------------------------
(***************************************************************************)
(* Theorems about WasmInvoke, for memories, texts and handlers of any      *)
(* size.                                                                   *)
(***************************************************************************)
EXTENDS WasmInvokeProps, SequenceTheorems, TLAPS

-----------------------------------------------------------------------------
(***************************************************************************)
(* Memory and texts.                                                       *)
(***************************************************************************)

\* The bytes of a text.
LEMMA TextBytes ==
  ASSUME NEW x \in Origins, NEW n \in Nat
  PROVE  /\ Text(x, n) \in Seq(Bytes)
         /\ Len(Text(x, n)) = n
         /\ \A k \in 1 .. n : Text(x, n)[k] = <<x, k>>
<1>1. \A k \in 1 .. n : <<x, k>> \in Bytes
  BY DEF Bytes
<1> QED BY <1>1 DEF Text

\* What a read of memory yields.
LEMMA GetBytes ==
  ASSUME NEW S, NEW mem \in [Cells -> S], NEW at \in Int, NEW n \in Nat, Fits(at, n)
  PROVE  /\ Get(mem, at, n) \in Seq(S)
         /\ Len(Get(mem, at, n)) = n
         /\ \A k \in 1 .. n : Get(mem, at, n)[k] = mem[at + k - 1]
<1>1. \A k \in 1 .. n : at + k - 1 \in Cells
  BY MemoryAssumption DEF Fits, Cells
<1> QED BY <1>1 DEF Get

\* What a write leaves in memory: the text where it was put, all else untouched.
LEMMA PutBytes ==
  ASSUME NEW S, NEW mem \in [Cells -> S], NEW at \in Int, NEW s \in Seq(S)
  PROVE  /\ Put(mem, at, s) \in [Cells -> S]
         /\ \A a \in Cells : a < at => Put(mem, at, s)[a] = mem[a]
         /\ Fits(at, Len(s)) =>
              \A k \in 1 .. Len(s) : /\ at + k - 1 \in Cells
                                     /\ Put(mem, at, s)[at + k - 1] = s[k]
<1>1. Len(s) \in Nat /\ \A k \in 1 .. Len(s) : s[k] \in S
  BY LenProperties, ElementOfSeq
<1>2. \A a \in Cells : a \in Int /\ (at <= a /\ a < at + Len(s) => a - at + 1 \in 1 .. Len(s))
  BY <1>1, MemoryAssumption DEF Cells
<1>3. Put(mem, at, s) \in [Cells -> S]
  BY <1>1, <1>2 DEF Put
<1>4. \A a \in Cells : a < at => Put(mem, at, s)[a] = mem[a]
  BY <1>1, <1>2 DEF Put
<1>5. ASSUME Fits(at, Len(s)), NEW k \in 1 .. Len(s)
      PROVE  at + k - 1 \in Cells /\ Put(mem, at, s)[at + k - 1] = s[k]
  <2>1. at + k - 1 \in Cells
    BY <1>1, <1>5, MemoryAssumption DEF Fits, Cells
  <2>2. (at + k - 1) - at + 1 = k /\ at <= at + k - 1 /\ at + k - 1 < at + Len(s)
    BY <1>1
  <2> QED BY <2>1, <2>2 DEF Put
<1> QED BY <1>3, <1>4, <1>5

\* What is put into memory is what is got from it.
LEMMA PutGet ==
  ASSUME NEW S, NEW mem \in [Cells -> S], NEW at \in Int, NEW s \in Seq(S),
         Fits(at, Len(s))
  PROVE  /\ Put(mem, at, s) \in [Cells -> S]
         /\ \A a \in Cells : a < at => Put(mem, at, s)[a] = mem[a]
         /\ Get(Put(mem, at, s), at, Len(s)) = s
<1> DEFINE new == Put(mem, at, s)
           n == Len(s)
<1>1. n \in Nat
  BY LenProperties
<1>2. /\ new \in [Cells -> S]
      /\ \A a \in Cells : a < at => new[a] = mem[a]
      /\ \A k \in 1 .. n : new[at + k - 1] = s[k]
  BY PutBytes
<1>3. Fits(at, n)
  OBVIOUS
<1> DEFINE g == Get(new, at, n)
<1> HIDE DEF new, n
<1>4. g \in Seq(S) /\ Len(g) = n /\ \A k \in 1 .. n : g[k] = new[at + k - 1]
  <2>1. new \in [Cells -> S]
    BY <1>2
  <2> QED BY <1>1, <1>3, <2>1, GetBytes
<1> HIDE DEF g
<1>5. \A k \in 1 .. n : g[k] = s[k]
  BY <1>2, <1>4
<1>6. g = s
  BY <1>4, <1>5, SeqEqual DEF n
<1> QED BY <1>2, <1>6 DEF g, new, n

-----------------------------------------------------------------------------
(***************************************************************************)
(* A call, step by step.                                                   *)
(***************************************************************************)

\* Bytes a request may see.
Own(c) == {b \in Bytes : b[1] \in {c.method, c.path, "greeting", "number"}}

\* Its memory and its answer hold no others.
Isolated(c) ==
  /\ c.store.mem \in [Cells -> Own(c)]
  /\ c.answer.body \in Seq(Own(c))

GreetingIntact(c) == \A a \in Cells : a < Greeting => c.store.mem[a] = <<"greeting", a + 1>>

\* The response of hello.wat.
Echo(c) ==
  <<Number(200), Number(0)>>
    \o (Text("greeting", Greeting) \o Text(c.path, Length[c.path]))

\* How far hello.wat has come.
HelloMethod(c) == c.store.heap = HeapBase /\ GreetingIntact(c)

HelloPath(c) ==
  /\ c.store.heap = HeapBase + Length[c.method]
  /\ GreetingIntact(c)

HelloCall(c) ==
  /\ c.store.heap = HeapBase + Length[c.method] + Length[c.path]
  /\ c.arg = HeapBase + Length[c.method]
  /\ Fits(c.arg, Length[c.path])
  /\ GreetingIntact(c)
  /\ Get(c.store.mem, c.arg, Length[c.path]) = Text(c.path, Length[c.path])

HelloRead(c) ==
  /\ HelloFits(c.method, c.path)
  /\ c.len >= 2 /\ Fits(c.ptr, c.len)
  /\ Get(c.store.mem, c.ptr, c.len) = Echo(c)

HelloDone(c) ==
  c.answer = IF HelloFits(c.method, c.path)
             THEN [ok |-> TRUE, status |-> 200,
                   body |-> Text("greeting", Greeting) \o Text(c.path, Length[c.path])]
             ELSE Err

HelloOK(c) ==
  /\ c.at = "method" => HelloMethod(c)
  /\ c.at = "path" => HelloPath(c)
  /\ c.at = "call" => HelloCall(c)
  /\ c.at = "read" => HelloRead(c)
  /\ c.at = "done" => HelloDone(c)

CallOK(c) ==
  /\ c \in CallType
  /\ c.at # "panic"
  /\ Isolated(c)
  /\ c.module = "hello" => HelloOK(c)

AllOK == call \in [Tasks -> CallType] /\ \A t \in Tasks : CallOK(call[t])

-----------------------------------------------------------------------------
\* Numbers are bytes, and nobody's own.
LEMMA NumberBytes ==
  ASSUME NEW n \in 0 .. 255
  PROVE  /\ Number(n) \in Bytes
         /\ \A c : Number(n) \in Own(c)
<1>1. Number(n) \in Numbers
  BY DEF Numbers
<1>2. Number(n)[1] = "number"
  BY DEF Number
<1> QED BY <1>1, <1>2 DEF Bytes, Own

\* A new store is the same for every request, and sound.
LEMMA FreshSound ==
  /\ Fresh \in [mem : [Cells -> Bytes], heap : Nat]
  /\ Fresh.heap = HeapBase
  /\ \A c : Fresh.mem \in [Cells -> Own(c)]
  /\ \A a \in Cells : a < Greeting => Fresh.mem[a] = <<"greeting", a + 1>>
<1>1. \A a \in Cells : a + 1 \in Nat
  BY MemoryAssumption DEF Cells
<1>2. Fresh.mem = [a \in Cells |-> IF a < Greeting THEN <<"greeting", a + 1>> ELSE Number(0)]
  BY DEF Fresh
<1>3. \A c : \A a \in Cells : <<"greeting", a + 1>> \in Own(c) /\ Number(0) \in Own(c)
  <2>1. \A c : Number(0) \in Own(c)
    BY NumberBytes
  <2> QED BY <1>1, <2>1 DEF Own, Bytes, Origins
<1>4. \A c : Own(c) \subseteq Bytes
  BY DEF Own
<1>5. \A c : Fresh.mem \in [Cells -> Own(c)]
  BY <1>2, <1>3
<1>6. Fresh.mem \in [Cells -> Bytes] /\ Fresh.heap = HeapBase /\ HeapBase \in Nat
  <2>1. \A a \in Cells : <<"greeting", a + 1>> \in Bytes /\ Number(0) \in Bytes
    BY <1>1, NumberBytes DEF Bytes, Origins
  <2> QED BY <1>2, <2>1, MemoryAssumption DEF Fresh
<1>7. Fresh = [mem |-> Fresh.mem, heap |-> Fresh.heap]
  BY DEF Fresh
<1> QED BY <1>2, <1>5, <1>6, <1>7

\* What a call that has not answered yet, or has failed, has in common.
LEMMA ErrSound == /\ Err \in [ok : BOOLEAN, status : U16, body : Seq(Bytes)]
                  /\ \A c : Err.body \in Seq(Own(c))
<1>1. 0 \in U16
  BY SMT DEF U16
<1> QED BY <1>1, EmptySeq DEF Err

\* A call begins soundly.
LEMMA BegunOK ==
  ASSUME NEW m \in Methods, NEW p \in Paths, NEW h \in {"hello", "foreign"}
  PROVE  CallOK(Begun(m, p, h))
<1> DEFINE c == Begun(m, p, h)
<1>1. /\ c.at = "method" /\ c.store = Fresh /\ c.answer = Err /\ c.module = h
  BY DEF Begun
<1>2. 0 \in 0 .. Size /\ 0 \in Nat
  BY MemoryAssumption
<1>3. c \in CallType
  BY <1>2, FreshSound, ErrSound DEF Begun, CallType
<1>4. Isolated(c)
  BY <1>1, FreshSound, ErrSound DEF Isolated
<1>5. HelloOK(c)
  BY <1>1, FreshSound DEF HelloOK, HelloMethod, GreetingIntact
<1> QED BY <1>1, <1>3, <1>4, <1>5 DEF CallOK

\* A failed call answers Err: right for a foreign handler at any step, and for
\* hello.wat if its texts do not fit.
LEMMA FailedOK ==
  ASSUME NEW c, CallOK(c), c.module = "hello" => ~ HelloFits(c.method, c.path)
  PROVE  CallOK(Failed(c))
<1> DEFINE d == Failed(c)
<1>1. /\ d.at = "done" /\ d.store = Fresh /\ d.answer = Err /\ d.module = c.module
      /\ d.method = c.method /\ d.path = c.path
  BY DEF CallOK, CallType, Failed
<1>2. d \in CallType
  BY FreshSound, ErrSound DEF CallOK, CallType, Failed
<1>3. Isolated(d)
  BY <1>1, FreshSound, ErrSound DEF Isolated
<1>4. d.module = "hello" => HelloOK(d)
  BY <1>1 DEF HelloOK, HelloDone
<1> QED BY <1>1, <1>2, <1>3, <1>4 DEF CallOK

\* Writing a request's text leaves only its own bytes and does not touch what
\* lies before it.
LEMMA WriteSound ==
  ASSUME NEW c, CallOK(c), NEW x \in {c.method, c.path}, NEW at \in Int,
         Fits(at, Length[x])
  PROVE  LET mem == Put(c.store.mem, at, Text(x, Length[x])) IN
         /\ mem \in [Cells -> Own(c)]
         /\ \A a \in Cells : a < at => mem[a] = c.store.mem[a]
         /\ Get(mem, at, Length[x]) = Text(x, Length[x])
<1> DEFINE n == Length[x]
           s == Text(x, n)
           mem == Put(c.store.mem, at, s)
<1>1. n \in Nat /\ x \in Origins /\ x \in Methods \cup Paths
  BY TextsAssumption DEF CallOK, CallType, Origins
<1>2. s \in Seq(Bytes) /\ Len(s) = n /\ \A k \in 1 .. n : s[k] = <<x, k>>
  BY <1>1, TextBytes
<1>3. \A k \in 1 .. n : s[k] \in Own(c)
  BY <1>1, <1>2 DEF Own, Bytes
<1>4. s \in Seq(Own(c))
  BY <1>2, <1>3
<1>5. c.store.mem \in [Cells -> Own(c)]
  BY DEF CallOK, Isolated
<1>fits. Fits(at, n) /\ Fits(at, Len(s))
  BY <1>2
<1> HIDE DEF s, n
<1>6. /\ mem \in [Cells -> Own(c)]
      /\ \A a \in Cells : a < at => mem[a] = c.store.mem[a]
      /\ Get(mem, at, Len(s)) = s
  BY <1>fits, <1>4, <1>5, PutGet
<1> QED BY <1>2, <1>6 DEF s, n

\* What alloc gives a call.
LEMMA AllocsSound ==
  ASSUME NEW c, CallOK(c), NEW n \in Nat, NEW a \in Allocs(c, n)
  PROVE  /\ a.ptr \in Int /\ a.heap \in Nat
         /\ c.module = "hello" => a.ptr = c.store.heap /\ a.heap = c.store.heap + n
BY ForeignAssumption DEF Allocs, CallOK, CallType

\* The method is written.
LEMMA MethodOK ==
  ASSUME NEW t \in Tasks, AllOK, WriteMethod(t)
  PROVE  \E d : CallOK(d) /\ call' = [call EXCEPT ![t] = d]
<1> DEFINE c == call[t]
           n == Length[c.method]
<1>1. CallOK(c) /\ c \in CallType /\ c.at = "method" /\ Isolated(c)
  BY DEF AllOK, CallOK, WriteMethod
<1>2. n \in Nat /\ Length[c.path] \in Nat
  BY <1>1, TextsAssumption DEF CallType
<1> DEFINE D(a) == IF Fits(a.ptr, n)
                   THEN [c EXCEPT !.at = "path", !.arg = a.ptr,
                           !.store = [mem |-> Put(c.store.mem, a.ptr, Text(c.method, n)),
                                      heap |-> a.heap]]
                   ELSE Failed(c)
<1>3. PICK a \in Allocs(c, n) : call' = [call EXCEPT ![t] = D(a)]
  BY DEF WriteMethod, WriteText
<1>4. /\ a.ptr \in Int /\ a.heap \in Nat
      /\ c.module = "hello" => a.ptr = HeapBase /\ a.heap = HeapBase + n
  BY <1>1, <1>2, AllocsSound DEF CallOK, HelloOK, HelloMethod
<1>5. CASE Fits(a.ptr, n)
  <2> DEFINE mem == Put(c.store.mem, a.ptr, Text(c.method, n))
             d == D(a)
  <2>1. /\ mem \in [Cells -> Own(c)]
        /\ \A x \in Cells : x < a.ptr => mem[x] = c.store.mem[x]
    BY <1>1, <1>4, <1>5, WriteSound
  <2> HIDE DEF mem
  <2>2. d = [c EXCEPT !.at = "path", !.arg = a.ptr, !.store = [mem |-> mem, heap |-> a.heap]]
    BY <1>5 DEF mem
  <2> HIDE DEF d, n
  <2>3. /\ d.at = "path" /\ d.store.mem = mem /\ d.store.heap = a.heap
        /\ d.module = c.module /\ d.method = c.method /\ d.path = c.path
        /\ d.answer = c.answer
    BY <1>1, <2>2 DEF CallType
  <2>4. Own(d) = Own(c) /\ Own(c) \subseteq Bytes
    BY <2>3 DEF Own
  <2>5. a.ptr \in 0 .. Size
    BY <1>2, <1>4, <1>5, MemoryAssumption DEF Fits
  <2>6. [mem |-> mem, heap |-> a.heap] \in [mem : [Cells -> Bytes], heap : Nat]
    BY <1>4, <2>1, <2>4
  <2>7. d \in CallType
    BY <1>1, <2>2, <2>5, <2>6 DEF CallType
  <2>8. Isolated(d)
    BY <1>1, <2>1, <2>3, <2>4 DEF Isolated
  <2>9. d.module = "hello" => HelloOK(d)
    <3> SUFFICES ASSUME c.module = "hello" PROVE HelloOK(d)
      BY <2>3
    <3>1. GreetingIntact(c)
      BY <1>1 DEF CallOK, HelloOK, HelloMethod
    <3>2. GreetingIntact(d)
      BY <1>4, <2>1, <2>3, <3>1, LayoutAssumption, MemoryAssumption
         DEF GreetingIntact, Cells
    <3> QED BY <1>4, <2>3, <3>2 DEF HelloOK, HelloPath, n
  <2>10. CallOK(d)
    BY <2>3, <2>7, <2>8, <2>9 DEF CallOK
  <2> QED BY <1>3, <2>10 DEF d
<1>6. CASE ~ Fits(a.ptr, n)
  <2>1. c.module = "hello" => ~ HelloFits(c.method, c.path)
    BY <1>2, <1>4, <1>6, MemoryAssumption DEF Fits, HelloFits
  <2> QED BY <1>1, <1>3, <1>6, <2>1, FailedOK
<1> QED BY <1>5, <1>6

\* The path is written after the method.
LEMMA PathOK ==
  ASSUME NEW t \in Tasks, AllOK, WritePath(t)
  PROVE  \E d : CallOK(d) /\ call' = [call EXCEPT ![t] = d]
<1> DEFINE c == call[t]
           n == Length[c.path]
<1>1. CallOK(c) /\ c \in CallType /\ c.at = "path" /\ Isolated(c)
  BY DEF AllOK, CallOK, WritePath
<1>2. n \in Nat /\ Length[c.method] \in Nat
  BY <1>1, TextsAssumption DEF CallType
<1> DEFINE D(a) == IF Fits(a.ptr, n)
                   THEN [c EXCEPT !.at = "call", !.arg = a.ptr,
                           !.store = [mem |-> Put(c.store.mem, a.ptr, Text(c.path, n)),
                                      heap |-> a.heap]]
                   ELSE Failed(c)
<1>3. PICK a \in Allocs(c, n) : call' = [call EXCEPT ![t] = D(a)]
  BY DEF WritePath, WriteText
<1>4. /\ a.ptr \in Int /\ a.heap \in Nat
      /\ c.module = "hello" => a.ptr = HeapBase + Length[c.method] /\ a.heap = a.ptr + n
  BY <1>1, <1>2, AllocsSound DEF CallOK, HelloOK, HelloPath
<1>5. CASE Fits(a.ptr, n)
  <2> DEFINE mem == Put(c.store.mem, a.ptr, Text(c.path, n))
             d == D(a)
  <2>1. /\ mem \in [Cells -> Own(c)]
        /\ \A x \in Cells : x < a.ptr => mem[x] = c.store.mem[x]
        /\ Get(mem, a.ptr, n) = Text(c.path, n)
    BY <1>1, <1>4, <1>5, WriteSound
  <2> HIDE DEF mem
  <2>2. d = [c EXCEPT !.at = "call", !.arg = a.ptr, !.store = [mem |-> mem, heap |-> a.heap]]
    BY <1>5 DEF mem
  <2> HIDE DEF d, n
  <2>3. /\ d.at = "call" /\ d.store.mem = mem /\ d.store.heap = a.heap
        /\ d.module = c.module /\ d.method = c.method /\ d.path = c.path
        /\ d.answer = c.answer /\ d.arg = a.ptr
    BY <1>1, <2>2 DEF CallType
  <2>4. Own(d) = Own(c) /\ Own(c) \subseteq Bytes
    BY <2>3 DEF Own
  <2>5. a.ptr \in 0 .. Size
    BY <1>2, <1>4, <1>5, MemoryAssumption DEF Fits
  <2>6. [mem |-> mem, heap |-> a.heap] \in [mem : [Cells -> Bytes], heap : Nat]
    BY <1>4, <2>1, <2>4
  <2>7. d \in CallType
    BY <1>1, <2>2, <2>5, <2>6 DEF CallType
  <2>8. Isolated(d)
    BY <1>1, <2>1, <2>3, <2>4 DEF Isolated
  <2>9. d.module = "hello" => HelloOK(d)
    <3> SUFFICES ASSUME c.module = "hello" PROVE HelloOK(d)
      BY <2>3
    <3>1. GreetingIntact(c)
      BY <1>1 DEF CallOK, HelloOK, HelloPath
    <3>2. GreetingIntact(d)
      <4>1. Greeting <= a.ptr
        BY <1>2, <1>4, LayoutAssumption, MemoryAssumption
      <4>2. \A x \in Cells : x < Greeting => x < a.ptr
        BY <1>4, <4>1, MemoryAssumption DEF Cells
      <4> HIDE DEF c
      <4> QED BY <2>1, <2>3, <3>1, <4>2 DEF GreetingIntact
    <3> QED BY <1>2, <1>4, <1>5, <2>1, <2>3, <3>2, MemoryAssumption DEF HelloOK, HelloCall, n
  <2>10. CallOK(d)
    BY <2>3, <2>7, <2>8, <2>9 DEF CallOK
  <2> QED BY <1>3, <2>10 DEF d
<1>6. CASE ~ Fits(a.ptr, n)
  <2>1. c.module = "hello" => ~ HelloFits(c.method, c.path)
    BY <1>2, <1>4, <1>6, MemoryAssumption DEF Fits, HelloFits
  <2> QED BY <1>1, <1>3, <1>6, <2>1, FailedOK
<1> QED BY <1>5, <1>6

\* The parts of hello.wat's response.
LEMMA EchoParts ==
  ASSUME NEW c, c.path \in Paths
  PROVE  /\ Echo(c) \in Seq(Own(c))
         /\ Len(Echo(c)) = 2 + Greeting + Length[c.path]
         /\ Echo(c)[1] = Number(200) /\ Echo(c)[2] = Number(0)
         /\ SubSeq(Echo(c), 3, Len(Echo(c)))
              = Text("greeting", Greeting) \o Text(c.path, Length[c.path])
<1> DEFINE S == Own(c)
           n == Length[c.path]
           head == <<Number(200), Number(0)>>
           hi == Text("greeting", Greeting)
           p == Text(c.path, n)
<1>1. n \in Nat /\ Greeting \in Nat /\ 0 \in Int
  BY TextsAssumption, MemoryAssumption
<1>2. "greeting" \in Origins /\ c.path \in Origins
  BY DEF Origins
<1>3. /\ hi \in Seq(Bytes) /\ Len(hi) = Greeting
      /\ \A k \in 1 .. Greeting : hi[k] = <<"greeting", k>>
  BY <1>1, <1>2, TextBytes
<1>4. /\ p \in Seq(Bytes) /\ Len(p) = n /\ \A k \in 1 .. n : p[k] = <<c.path, k>>
  BY <1>1, <1>2, TextBytes
<1>5. hi \in Seq(S)
  <2>1. \A k \in 1 .. Greeting : hi[k] \in S
    BY <1>1, <1>3 DEF Own, Bytes, Origins
  <2> QED BY <1>3, <2>1
<1>6. p \in Seq(S)
  <2>1. \A k \in 1 .. n : p[k] \in S
    BY <1>1, <1>2, <1>4 DEF Own, Bytes
  <2> QED BY <1>4, <2>1
<1>7. head \in Seq(S) /\ Len(head) = 2 /\ head[1] = Number(200) /\ head[2] = Number(0)
  <2>1. Number(200) \in S /\ Number(0) \in S
    BY NumberBytes
  <2> QED BY <2>1
<1> HIDE DEF S, n, head, hi, p
<1>10. /\ hi \o p \in Seq(S) /\ Len(hi \o p) = Greeting + n
  BY <1>1, <1>3, <1>4, <1>5, <1>6, ConcatProperties
<1> DEFINE b == hi \o p
           e == head \o b
<1>11. Echo(c) = e
  BY DEF Echo, head, hi, p, n
<1> HIDE DEF b
<1>12. b \in Seq(S) /\ Len(b) = Greeting + n
  BY <1>10 DEF b
<1>13. /\ e \in Seq(S) /\ Len(e) = 2 + (Greeting + n)
       /\ \A k \in 1 .. 2 + (Greeting + n) : e[k] = IF k <= 2 THEN head[k] ELSE b[k - 2]
  <2>1. head \in Seq(S) /\ b \in Seq(S)
    BY <1>7, <1>12
  <2>2. /\ e \in Seq(S) /\ Len(e) = Len(head) + Len(b)
        /\ \A k \in 1 .. Len(head) + Len(b) :
             e[k] = IF k <= Len(head) THEN head[k] ELSE b[k - Len(head)]
    BY <2>1, ConcatProperties
  <2> HIDE DEF e
  <2> QED BY <1>7, <1>12, <2>2
<1> HIDE DEF e
<1>14. SubSeq(e, 3, Len(e)) = b
  <2> DEFINE r == SubSeq(e, 3, Len(e))
  <2>1. \A k \in 3 .. Len(e) : e[k] \in S
    BY <1>1, <1>13, ElementOfSeq
  <2>2. /\ r \in Seq(S) /\ Len(r) = Greeting + n
        /\ \A k \in 1 .. Greeting + n : r[k] = e[3 + k - 1]
    <3>1. 3 \in Int /\ Len(e) \in Int /\ Len(e) - 3 + 1 = Greeting + n
      BY <1>1, <1>13
    <3>2. /\ r \in Seq(S) /\ Len(r) = IF 3 <= Len(e) THEN Len(e) - 3 + 1 ELSE 0
          /\ \A k \in 1 .. Len(e) - 3 + 1 : r[k] = e[3 + k - 1]
      BY <2>1, <3>1, SubSeqProperties
    <3> QED BY <1>1, <1>13, <3>1, <3>2
  <2> HIDE DEF r
  <2>3. \A k \in 1 .. Greeting + n : r[k] = b[k]
    BY <1>1, <1>13, <2>2
  <2>4. r = b
    BY <1>12, <2>2, <2>3, SeqEqual
  <2> QED BY <2>4 DEF r
<1>15. e[1] = Number(200) /\ e[2] = Number(0)
  BY <1>1, <1>7, <1>13
<1>16. 2 + (Greeting + n) = 2 + Greeting + n
  BY <1>1
<1> QED BY <1>11, <1>13, <1>14, <1>15, <1>16 DEF b, S, n, head, hi, p

\* What hello.wat's handle writes is its response.
LEMMA EchoBytes ==
  ASSUME NEW c, CallOK(c), HelloCall(c)
  PROVE  <<Number(200), Number(0)>> \o HelloBody(c) = Echo(c)
<1> DEFINE S == Own(c)
           hi == Text("greeting", Greeting)
<1>1. Greeting \in Nat /\ 0 \in Int
  BY MemoryAssumption
<1>3. /\ hi \in Seq(Bytes) /\ Len(hi) = Greeting
      /\ \A k \in 1 .. Greeting : hi[k] = <<"greeting", k>>
  <2>1. "greeting" \in Origins
    BY DEF Origins
  <2> QED BY <1>1, <2>1, TextBytes
<1>5. hi \in Seq(S)
  <2>1. \A k \in 1 .. Greeting : hi[k] \in S
    BY <1>1, <1>3 DEF Own, Bytes, Origins
  <2> QED BY <1>3, <2>1
<1>8. Get(c.store.mem, 0, Greeting) = hi
  <2> DEFINE g == Get(c.store.mem, 0, Greeting)
  <2>1. c.store.mem \in [Cells -> S]
    BY DEF CallOK, Isolated
  <2>2. Fits(0, Greeting)
    BY <1>1, LayoutAssumption, MemoryAssumption DEF Fits
  <2> HIDE DEF S
  <2>3. /\ g \in Seq(S) /\ Len(g) = Greeting
        /\ \A k \in 1 .. Greeting : g[k] = c.store.mem[0 + k - 1]
    <3>1. 0 \in Int /\ Greeting \in Nat
      BY <1>1
    <3> HIDE DEF hi
    <3> QED BY <2>1, <2>2, <3>1, GetBytes
  <2> HIDE DEF g, hi
  <2>4. \A k \in 1 .. Greeting : g[k] = hi[k]
    <3> SUFFICES ASSUME NEW k \in 1 .. Greeting PROVE g[k] = hi[k]
      OBVIOUS
    <3>1. k - 1 \in Cells /\ k - 1 < Greeting /\ 0 + k - 1 = k - 1 /\ (k - 1) + 1 = k
      BY <1>1, LayoutAssumption, MemoryAssumption DEF Cells
    <3>2. c.store.mem[k - 1] = <<"greeting", k>>
      BY <3>1 DEF HelloCall, GreetingIntact
    <3> QED BY <1>3, <2>3, <3>1, <3>2
  <2>5. g = hi
    BY <1>3, <1>5, <2>3, <2>4, SeqEqual
  <2> QED BY <2>5 DEF g
<1> QED BY <1>8 DEF HelloBody, HelloCall, Echo

\* hello.wat's handle answers if its buffer fits, and traps if not.
LEMMA HelloHandleOK ==
  ASSUME NEW t \in Tasks, AllOK, HandleHello(t)
  PROVE  \E d : CallOK(d) /\ call' = [call EXCEPT ![t] = d]
<1> DEFINE c == call[t]
           n == Length[c.path]
           at == c.store.heap
           s == <<Number(200), Number(0)>> \o HelloBody(c)
           mem == Put(c.store.mem, at, s)
           size == 2 + Greeting + n
           new == [c EXCEPT !.at = "read", !.ptr = at, !.len = size,
                            !.store = [mem |-> mem, heap |-> at + size]]
<1>1. /\ CallOK(c) /\ c \in CallType /\ c.at = "call" /\ Isolated(c)
      /\ c.module = "hello" /\ HelloCall(c)
  BY DEF AllOK, CallOK, HandleHello, HelloOK
<1>2. n \in Nat /\ Length[c.method] \in Nat /\ size \in Nat /\ size >= 2 /\ at \in Nat
  <2>1. c.path \in Paths /\ c.method \in Methods /\ at \in Nat
    BY <1>1 DEF CallType
  <2> HIDE DEF c, at
  <2>2. n \in Nat /\ Length[c.method] \in Nat
    BY <2>1, TextsAssumption
  <2> HIDE DEF n
  <2>3. size \in Nat /\ size >= 2
    BY <2>2, MemoryAssumption
  <2> QED BY <2>1, <2>2, <2>3
<1>3. s = Echo(c) /\ s \in Seq(Own(c)) /\ Len(s) = size
  <2>1. c.path \in Paths
    BY <1>1 DEF CallType
  <2> HIDE DEF c, s
  <2>2. Echo(c) \in Seq(Own(c)) /\ Len(Echo(c)) = size
    BY <2>1, EchoParts
  <2>3. s = Echo(c)
    BY <1>1, EchoBytes DEF s
  <2> QED BY <2>2, <2>3
<1>4. at = HeapBase + Length[c.method] + n
  BY <1>1 DEF HelloCall
<1>5. call' = [call EXCEPT ![t] = IF Fits(at, size) THEN new ELSE Failed(c)]
  BY DEF HandleHello
<1> HIDE DEF s, size
<1>6. CASE Fits(at, size)
  <2>1. c.store.mem \in [Cells -> Own(c)]
    BY <1>1 DEF Isolated
  <2>2. at \in Int
    BY <1>2
  <2>3. s \in Seq(Own(c)) /\ Fits(at, Len(s))
    BY <1>3, <1>6
  <2>4. mem \in [Cells -> Own(c)] /\ Get(mem, at, size) = s
    <3> HIDE DEF c, at
    <3>1. mem \in [Cells -> Own(c)] /\ Get(mem, at, Len(s)) = s
      BY <2>1, <2>2, <2>3, PutGet
    <3> QED BY <1>3, <3>1
  <2> HIDE DEF mem, at
  <2> DEFINE d == new
  <2>5. /\ d.at = "read" /\ d.store.mem = mem /\ d.ptr = at /\ d.len = size
        /\ d.module = c.module /\ d.method = c.method /\ d.path = c.path
        /\ d.answer = c.answer
    BY <1>1 DEF CallType
  <2>6. Own(d) = Own(c) /\ Own(c) \subseteq Bytes
    BY <2>5 DEF Own
  <2>7. [mem |-> mem, heap |-> at + size] \in [mem : [Cells -> Bytes], heap : Nat]
    BY <1>2, <2>4, <2>6 DEF at
  <2>8. d \in CallType
    <3>1. at \in Nat /\ size \in Nat
      BY <1>2 DEF at
    <3> QED BY <1>1, <2>7, <3>1 DEF CallType
  <2>9. Isolated(d)
    BY <1>1, <2>4, <2>5, <2>6 DEF Isolated
  <2>10. HelloFits(c.method, c.path)
    BY <1>2, <1>4, <1>6, MemoryAssumption DEF Fits, HelloFits, size, at
  <2> HIDE DEF d
  <2>11. HelloRead(d)
    <3>1. HelloFits(d.method, d.path)
      BY <2>5, <2>10
    <3>2. Get(d.store.mem, d.ptr, d.len) = Echo(d)
      BY <1>3, <2>4, <2>5 DEF Echo
    <3>3. d.len >= 2 /\ Fits(d.ptr, d.len)
      BY <1>2, <1>6, <2>5
    <3> QED BY <3>1, <3>2, <3>3 DEF HelloRead
  <2>12. CallOK(d)
    <3>1. HelloOK(d)
      BY <2>5, <2>11 DEF HelloOK
    <3> QED BY <2>5, <2>8, <2>9, <3>1 DEF CallOK
  <2>13. call' = [call EXCEPT ![t] = d]
    BY <1>5, <1>6 DEF d, at, mem
  <2> QED BY <2>12, <2>13
<1>7. CASE ~ Fits(at, size)
  <2>1. ~ HelloFits(c.method, c.path)
    BY <1>2, <1>4, <1>7, MemoryAssumption DEF Fits, HelloFits, size
  <2>2. CallOK(Failed(c))
    BY <1>1, <2>1, FailedOK
  <2> QED BY <1>5, <1>7, <2>2
<1> QED BY <1>6, <1>7

\* A low and a high byte make a u16.
LEMMA TwoBytes ==
  ASSUME NEW lo \in 0 .. 255, NEW hi \in 0 .. 255
  PROVE  lo + 256 * hi \in U16
BY SMT DEF U16

\* u16::from_le_bytes does.
LEMMA StatusType ==
  ASSUME NEW lo \in Bytes, NEW hi \in Bytes
  PROVE  FromLeBytes(lo, hi) \in U16
<1>1. ASSUME NEW b \in Bytes, b[1] = "number" PROVE b[2] \in 0 .. 255
  <2>1. b[1] \notin Origins
    BY <1>1, NumberAssumption DEF Origins
  <2>2. b \in Numbers
    BY <2>1 DEF Bytes
  <2> QED BY <2>2 DEF Numbers, Number
<1>2. CASE lo[1] = "number" /\ hi[1] = "number"
  <2>1. lo[2] \in 0 .. 255 /\ hi[2] \in 0 .. 255
    BY <1>1, <1>2
  <2>2. FromLeBytes(lo, hi) = lo[2] + 256 * hi[2]
    BY <1>2, SMT DEF FromLeBytes
  <2>3. lo[2] + 256 * hi[2] \in U16
    BY <2>1, TwoBytes
  <2> QED BY <2>2, <2>3
<1>3. CASE ~ (lo[1] = "number" /\ hi[1] = "number")
  <2>1. FromLeBytes(lo, hi) = 0
    BY <1>3, SMT DEF FromLeBytes
  <2> QED BY <2>1, SMT DEF U16
<1> QED BY <1>2, <1>3

\* The response is read and decoded.
LEMMA ReadOK ==
  ASSUME NEW t \in Tasks, AllOK, Read(t)
  PROVE  \E d : CallOK(d) /\ call' = [call EXCEPT ![t] = d]
<1> DEFINE c == call[t]
           buf == Get(c.store.mem, c.ptr, c.len)
<1>1. CallOK(c) /\ c \in CallType /\ c.at = "read" /\ Isolated(c)
  BY DEF AllOK, CallOK, Read
<1>2. c.module = "hello" => HelloRead(c)
  BY <1>1 DEF CallOK, HelloOK
<1>3. c.len \in Nat /\ c.ptr \in Int
  BY <1>1 DEF CallType
<1>4. CASE ~ (c.len >= 2 /\ Fits(c.ptr, c.len))
  <2>1. c.module = "foreign"
    BY <1>1, <1>2, <1>4 DEF HelloRead, CallType
  <2>2. CallOK(Failed(c))
    BY <1>1, <2>1, FailedOK
  <2> QED BY <1>4, <2>2 DEF Read
<1>5. CASE c.len >= 2 /\ Fits(c.ptr, c.len)
  <2>1. buf \in Seq(Own(c)) /\ Len(buf) = c.len
    <3>1. c.store.mem \in [Cells -> Own(c)]
      BY <1>1 DEF Isolated
    <3>2. c.ptr \in Int
      BY <1>3
    <3>3. c.len \in Nat
      BY <1>3
    <3>4. Fits(c.ptr, c.len)
      BY <1>5
    <3> DEFINE S == Own(c)
    <3>5. c.store.mem \in [Cells -> S]
      BY <3>1
    <3> HIDE DEF c, S
    <3>6. /\ Get(c.store.mem, c.ptr, c.len) \in Seq(S)
          /\ Len(Get(c.store.mem, c.ptr, c.len)) = c.len
      BY <3>2, <3>3, <3>4, <3>5, GetBytes
    <3> QED BY <3>6 DEF S
  <2> DEFINE status == FromLeBytes(buf[1], buf[2])
             body == SubSeq(buf, 3, Len(buf))
             d == [c EXCEPT !.at = "done", !.store = Fresh,
                     !.answer = [ok |-> TRUE, status |-> status, body |-> body]]
  <2>2. call' = [call EXCEPT ![t] = d]
    <3>1. call' = [call EXCEPT ![t] = Decode(c, buf)]
      BY <1>5 DEF Read
    <3> HIDE DEF buf, c
    <3>2. ~ (Len(buf) < 2)
      BY <1>3, <1>5, <2>1
    <3>3. Decode(c, buf) = d
      BY <3>2 DEF Decode
    <3> QED BY <3>1, <3>3
  <2>3. body \in Seq(Own(c))
    <3> HIDE DEF buf
    <3>1. \A k \in 3 .. Len(buf) : buf[k] \in Own(c)
      BY <1>3, <2>1, ElementOfSeq
    <3>2. 3 \in Int /\ Len(buf) \in Int
      BY <1>3, <2>1
    <3> QED BY <3>1, <3>2, SubSeqProperties
  <2>4. status \in U16
    <3> HIDE DEF buf
    <3>1. 1 \in 1 .. Len(buf) /\ 2 \in 1 .. Len(buf)
      BY <1>3, <1>5, <2>1
    <3>2. buf[1] \in Bytes /\ buf[2] \in Bytes
      BY <2>1, <3>1, ElementOfSeq DEF Own
    <3> QED BY <3>2, StatusType
  <2>5. Own(c) \subseteq Bytes
    BY DEF Own
  <2>6. body \in Seq(Bytes)
    BY <2>3, <2>5, SeqMonotonic
  <2>7. c.module = "hello" =>
          /\ status = 200
          /\ body = Text("greeting", Greeting) \o Text(c.path, Length[c.path])
          /\ HelloFits(c.method, c.path)
    <3> SUFFICES ASSUME HelloRead(c), c.module = "hello"
                 PROVE  /\ status = 200
                        /\ body = Text("greeting", Greeting) \o Text(c.path, Length[c.path])
                        /\ HelloFits(c.method, c.path)
      BY <1>2
    <3>1. buf = Echo(c)
      BY DEF HelloRead
    <3>2. /\ Echo(c)[1] = Number(200) /\ Echo(c)[2] = Number(0)
          /\ SubSeq(Echo(c), 3, Len(Echo(c)))
               = Text("greeting", Greeting) \o Text(c.path, Length[c.path])
      BY <1>1, EchoParts DEF CallType
    <3>3. status = 200
      BY <3>1, <3>2 DEF FromLeBytes, Number
    <3> QED BY <3>1, <3>2, <3>3 DEF HelloRead
  <2> HIDE DEF status, body
  <2>8. /\ d.at = "done" /\ d.store = Fresh /\ d.module = c.module
        /\ d.method = c.method /\ d.path = c.path
        /\ d.answer = [ok |-> TRUE, status |-> status, body |-> body]
    BY <1>1 DEF CallType
  <2>9. d \in CallType
    BY <1>1, <2>4, <2>6, FreshSound DEF CallType
  <2> HIDE DEF d
  <2>10. Isolated(d)
    BY <2>3, <2>8, FreshSound DEF Isolated, Own
  <2>11. d.module = "hello" => HelloOK(d)
    <3> SUFFICES ASSUME c.module = "hello" PROVE HelloOK(d)
      BY <2>8
    <3>1. HelloFits(d.method, d.path)
      BY <2>7, <2>8
    <3>2. d.answer = [ok |-> TRUE, status |-> 200,
                      body |-> Text("greeting", Greeting) \o Text(d.path, Length[d.path])]
      BY <2>7, <2>8
    <3> HIDE DEF c
    <3>3. HelloDone(d)
      BY <3>1, <3>2 DEF HelloDone
    <3> QED BY <2>8, <3>3 DEF HelloOK
  <2>12. CallOK(d)
    BY <2>8, <2>9, <2>10, <2>11 DEF CallOK
  <2> QED BY <2>2, <2>12 DEF d
<1> QED BY <1>4, <1>5

\* A foreign handler's code, whatever it returns.
LEMMA ForeignOK ==
  ASSUME NEW t \in Tasks, AllOK, HandleForeign(t)
  PROVE  \E d : CallOK(d) /\ call' = [call EXCEPT ![t] = d]
<1> DEFINE c == call[t]
<1>1. CallOK(c) /\ c \in CallType /\ Isolated(c) /\ c.module = "foreign"
  BY DEF AllOK, CallOK, HandleForeign
<1>2. PICK p \in Pointers \cap Nat, n \in Lengths :
        call' = [call EXCEPT ![t].at = "read", ![t].ptr = p, ![t].len = n]
  BY DEF HandleForeign
<1> DEFINE d == [c EXCEPT !.at = "read", !.ptr = p, !.len = n]
<1>3. call' = [call EXCEPT ![t] = d]
  BY <1>1, <1>2 DEF AllOK, CallType
<1>4. n \in Nat /\ p \in Nat
  BY ForeignAssumption
<1> HIDE DEF c
<1>5. d \in CallType /\ d.at = "read" /\ d.module = "foreign" /\ d.store = c.store
      /\ d.answer = c.answer /\ d.method = c.method /\ d.path = c.path
  BY <1>1, <1>4 DEF CallType
<1> HIDE DEF d
<1>6. CallOK(d)
  BY <1>1, <1>5 DEF CallOK, Isolated, Own
<1> QED BY <1>3, <1>6

\* What it does to its memory: it has nobody else's bytes to put there.
LEMMA ForeignCodeOK ==
  ASSUME NEW t \in Tasks, AllOK, ForeignCode(t)
  PROVE  \E d : CallOK(d) /\ call' = [call EXCEPT ![t] = d]
<1> DEFINE c == call[t]
<1>1. CallOK(c) /\ c \in CallType /\ Isolated(c) /\ c.module = "foreign"
  BY DEF AllOK, CallOK, ForeignCode
<1>2. PICK w \in Rewrites : call' = [call EXCEPT ![t].store.mem = Rewritten(@, w)]
  BY DEF ForeignCode
<1> DEFINE mem == Rewritten(c.store.mem, w)
           d == [c EXCEPT !.store.mem = mem]
<1>3. call' = [call EXCEPT ![t] = d]
  BY <1>1, <1>2 DEF AllOK, CallType
<1>4. mem \in [Cells -> Own(c)]
  <2>1. w \in [Cells -> ({"cell"} \X Cells) \cup Numbers]
    BY RewritesAssumption
  <2>2. c.store.mem \in [Cells -> Own(c)]
    BY <1>1 DEF Isolated
  <2>3. Numbers \subseteq Own(c)
    BY DEF Own, Bytes, Numbers, Number
  <2> HIDE DEF c
  <2>4. ASSUME NEW a \in Cells, w[a] \notin Numbers PROVE w[a][2] \in Cells
    BY <2>1, <2>4
  <2> QED BY <2>2, <2>3, <2>4 DEF Rewritten
<1>5. Own(c) \subseteq Bytes
  BY DEF Own
<1>6. c.store \in [mem : [Cells -> Bytes], heap : Nat]
  BY <1>1 DEF CallType
<1> HIDE DEF c, mem
<1>7. d.store = [c.store EXCEPT !.mem = mem] /\ d.store \in [mem : [Cells -> Bytes], heap : Nat]
  BY <1>1, <1>4, <1>5, <1>6 DEF CallType
<1>8. /\ d \in CallType /\ d.at = c.at /\ d.module = "foreign"
      /\ d.answer = c.answer /\ d.method = c.method /\ d.path = c.path
  BY <1>1, <1>7 DEF CallType
<1>9. d.store.mem = mem
  BY <1>6, <1>7
<1> HIDE DEF d
<1>10. CallOK(d)
  BY <1>1, <1>4, <1>8, <1>9 DEF CallOK, Isolated, Own
<1> QED BY <1>3, <1>10

\* Its trap.
LEMMA TrapsOK ==
  ASSUME NEW t \in Tasks, AllOK, Traps(t)
  PROVE  \E d : CallOK(d) /\ call' = [call EXCEPT ![t] = d]
<1>1. CallOK(call[t]) /\ call[t].module = "foreign"
  BY DEF AllOK, Traps
<1>2. CallOK(Failed(call[t]))
  BY <1>1, FailedOK
<1> QED BY <1>2 DEF Traps

\* No call.
LEMMA NoCallOK == CallOK(NoCall)
<1> DEFINE m == CHOOSE m \in Methods : TRUE
           p == CHOOSE p \in Paths : TRUE
           b == Begun(m, p, "hello")
<1>1. m \in Methods /\ p \in Paths
  BY TextsAssumption
<1> HIDE DEF m, p
<1>2. CallOK(b)
  BY <1>1, BegunOK
<1>3. b \in CallType /\ Isolated(b)
  BY <1>2 DEF CallOK
<1> HIDE DEF b
<1> DEFINE d == [b EXCEPT !.at = "idle"]
<1>4. d \in CallType /\ d.at = "idle" /\ d.store = b.store /\ d.answer = b.answer
      /\ d.method = b.method /\ d.path = b.path
  BY <1>3 DEF CallType
<1> HIDE DEF d
<1>5. CallOK(d)
  BY <1>3, <1>4 DEF CallOK, HelloOK, Isolated, Own
<1> QED BY <1>5 DEF d, b, m, p, NoCall

-----------------------------------------------------------------------------
(***************************************************************************)
(* Every call, in every state.                                             *)
(***************************************************************************)

\* A task with one sound call more.
LEMMA OneMore ==
  ASSUME AllOK, NEW t \in Tasks, NEW d, CallOK(d), call' = [call EXCEPT ![t] = d]
  PROVE  AllOK'
<1>1. d \in CallType
  BY DEF CallOK
<1>2. call' \in [Tasks -> CallType]
  BY <1>1 DEF AllOK
<1>3. ASSUME NEW u \in Tasks PROVE CallOK(call'[u])
  BY DEF AllOK
<1>4. (\A u \in Tasks : CallOK(call[u]))'
  BY <1>3 DEF CallOK, Isolated, Own, HelloOK, HelloMethod, HelloPath, HelloCall, HelloRead,
              HelloDone
<1> QED BY <1>2, <1>4 DEF AllOK

\* It holds at first.
LEMMA InitOK == Init => AllOK
<1>1. NoCall \in CallType
  BY NoCallOK DEF CallOK
<1> QED BY <1>1, NoCallOK DEF Init, AllOK

\* Every step keeps it.
LEMMA StepOK == AllOK /\ [Next]_call => AllOK'
<1> SUFFICES ASSUME AllOK, [Next]_call PROVE AllOK'
  OBVIOUS
<1>1. CASE UNCHANGED call
  <2>1. ASSUME NEW u \in Tasks PROVE CallOK(call'[u])
    BY <1>1 DEF AllOK
  <2>2. (\A u \in Tasks : CallOK(call[u]))'
    BY <2>1 DEF CallOK, Isolated, Own, HelloOK, HelloMethod, HelloPath, HelloCall, HelloRead,
                HelloDone
  <2> QED BY <1>1, <2>2 DEF AllOK
<1>2. CASE Next
  <2>1. PICK t \in Tasks :
          \/ \E m \in Methods, p \in Paths, h \in {"hello", "foreign"} : Invoke(t, m, p, h)
          \/ Step(t)
    BY <1>2 DEF Next
  <2>2. \E d : CallOK(d) /\ call' = [call EXCEPT ![t] = d]
    <3>1. CASE \E m \in Methods, p \in Paths, h \in {"hello", "foreign"} : Invoke(t, m, p, h)
      BY <3>1, BegunOK DEF Invoke
    <3>2. CASE WriteMethod(t)
      BY <3>2, MethodOK
    <3>3. CASE WritePath(t)
      BY <3>3, PathOK
    <3>4. CASE HandleHello(t)
      BY <3>4, HelloHandleOK
    <3>5. CASE HandleForeign(t)
      BY <3>5, ForeignOK
    <3>6. CASE Traps(t)
      BY <3>6, TrapsOK
    <3>7. CASE Read(t)
      BY <3>7, ReadOK
    <3>8. CASE Done(t)
      BY <3>8, NoCallOK DEF Done
    <3>9. CASE ForeignCode(t)
      BY <3>9, ForeignCodeOK
    <3> QED BY <2>1, <3>1, <3>2, <3>3, <3>4, <3>5, <3>6, <3>7, <3>8, <3>9 DEF Step
  <2> QED BY <2>2, OneMore
<1> QED BY <1>1, <1>2

\* It is an invariant.
LEMMA AlwaysOK == Spec => []AllOK
BY InitOK, StepOK, PTL DEF Spec

\* Every call is at one of invoke's steps, and its memory keeps its size
\* (wasm/mod.rs:92-148).
THEOREM TypeCorrect == Spec => []TypeOK
<1>1. AllOK => TypeOK
  BY DEF AllOK, TypeOK
<1> QED BY <1>1, AlwaysOK, PTL

\* hello.wat answers its greeting and the path whenever its memory can hold
\* them, for a memory and texts of any size (hello.wat:24-67).
THEOREM EchoesFaithful == Spec => []HelloEchoes
<1>1. AllOK => HelloEchoes
  <2>1. ASSUME AllOK, NEW t \in Tasks, call[t].at = "done", call[t].module = "hello"
        PROVE  HelloDone(call[t])
    BY <2>1 DEF AllOK, CallOK, HelloOK
  <2> QED BY <2>1 DEF HelloEchoes, HelloDone
<1> QED BY <1>1, AlwaysOK, PTL

\* No request's bytes get into another's answer (wasm/mod.rs:86-89).
THEOREM NothingLeaks == Spec => []NoLeak
<1>1. AllOK => NoLeak
  <2> SUFFICES ASSUME AllOK, NEW t \in Tasks, NEW k \in 1 .. Len(call[t].answer.body)
               PROVE  call[t].answer.body[k][1]
                        \in {call[t].method, call[t].path, "greeting", "number"}
    BY DEF NoLeak
  <2>1. call[t].answer.body \in Seq(Own(call[t]))
    BY DEF AllOK, CallOK, Isolated
  <2>2. call[t].answer.body[k] \in Own(call[t])
    BY <2>1, ElementOfSeq
  <2> QED BY <2>2 DEF Own
<1> QED BY <1>1, AlwaysOK, PTL

\* Whatever a handler returns, invoke does not panic (wasm/mod.rs:135-144).
THEOREM NeverPanics == Spec => []NoPanic
<1>1. AllOK => NoPanic
  <2>1. ASSUME AllOK, NEW t \in Tasks PROVE call[t].at # "panic"
    BY <2>1 DEF AllOK, CallOK
  <2> QED BY <2>1 DEF NoPanic
<1> QED BY <1>1, AlwaysOK, PTL

=============================================================================
