------------------------------ MODULE WasmInvoke ------------------------------
(***************************************************************************)
(* A request answered by a WASM handler: invoke of src/wasm/mod.rs on the  *)
(* host's side, wasm/hello.wat on the guest's, and foreign handlers, which *)
(* are not part of the repository and return whatever the ABI lets them.   *)
(*                                                                         *)
(* invoke has no await: a task runs it to its end on its worker thread,    *)
(* while other tasks run it on other threads.                              *)
(***************************************************************************)
EXTENDS Integers, Sequences

CONSTANTS
  Tasks,          \* request tasks
  Methods, Paths, \* what requests ask for
  Length,         \* how many bytes a method or a path has
  Size,           \* bytes of the guest's memory
  HeapBase,       \* where hello.wat begins to allocate
  Greeting,       \* length of hello.wat's greeting, at the start of its memory
  Pointers,       \* i32s that a foreign handler may return
  Lengths,        \* response lengths that it may return
  Rewrites        \* what it may make of its memory: for each cell, where its byte is from

ASSUME TextsAssumption   == Methods # {} /\ Paths # {} /\ Length \in [Methods \cup Paths -> Nat]
ASSUME MemoryAssumption  == Size \in Nat /\ HeapBase \in Nat /\ Greeting \in Nat
ASSUME LayoutAssumption  == Greeting <= HeapBase /\ HeapBase <= Size
ASSUME ForeignAssumption == Pointers \subseteq Int /\ Lengths \subseteq Nat

Cells == 0 .. Size - 1

\* A byte that is a number, and no text.
Number(n) == <<"number", n>>
Numbers   == {Number(n) : n \in 0 .. 255}

\* Foreign code copies bytes about and makes up numbers.
ASSUME RewritesAssumption == Rewrites \subseteq [Cells -> ({"cell"} \X Cells) \cup Numbers]
ASSUME NumberAssumption   == "number" \notin Methods \cup Paths

VARIABLE call   \* each task's call of invoke

-----------------------------------------------------------------------------
(***************************************************************************)
(* Memory.  A byte says where it comes from: the k-th byte of a text, or a *)
(* number.                                                                 *)
(***************************************************************************)

Origins == Methods \cup Paths \cup {"greeting"}
Bytes   == (Origins \X Nat) \cup Numbers

Text(x, n) == [k \in 1 .. n |-> <<x, k>>]

\* A new Store and instance: memory as the data segment has it, and heap_ptr.
Fresh ==
  [mem  |-> [a \in Cells |-> IF a < Greeting THEN <<"greeting", a + 1>> ELSE Number(0)],
   heap |-> HeapBase]

Fits_NoSign(at, n) == at + n <= Size

\* memory.write, memory.read and the guest's own accesses are checked.  The
\* host's cast of a negative i32 to usize is beyond any memory.
Fits(at, n) == 0 <= at /\ at + n <= Size

Put(mem, at, s) ==
  [a \in Cells |-> IF at <= a /\ a < at + Len(s) THEN s[a - at + 1] ELSE mem[a]]

Get(mem, at, n) == [k \in 1 .. n |-> mem[at + k - 1]]

-----------------------------------------------------------------------------
(***************************************************************************)
(* at      the next step of the call, or how it ended                      *)
(* module  the kind of handler                                             *)
(* arg     where the last text was written                                 *)
(* ptr, len  the two halves of what `handle' returned                      *)
(* answer  what invoke returned                                            *)
(***************************************************************************)
Err == [ok |-> FALSE, status |-> 0, body |-> <<>>]

U16 == 0 .. 65535

CallType ==
  [at : {"idle", "method", "path", "call", "read", "done", "panic"},
   module : {"hello", "foreign"}, method : Methods, path : Paths,
   store : [mem : [Cells -> Bytes], heap : Nat],
   arg : 0 .. Size, ptr : Nat, len : Nat,
   answer : [ok : BOOLEAN, status : U16, body : Seq(Bytes)]]

\* Every call is at one of invoke's steps, in a memory that keeps its size; what
\* was written was written there, and a status is a u16.
TypeOK == call \in [Tasks -> CallType]

Begun(m, p, h) ==
  [at |-> "method", module |-> h, method |-> m, path |-> p, store |-> Fresh,
   arg |-> 0, ptr |-> 0, len |-> 0, answer |-> Err]

NoCall == [Begun(CHOOSE m \in Methods : TRUE, CHOOSE p \in Paths : TRUE, "hello")
             EXCEPT !.at = "idle"]

Init == call = [t \in Tasks |-> NoCall]

\* An error from any step: the store is dropped, and the caller answers 500.
Failed(c) == [c EXCEPT !.at = "done", !.store = Fresh, !.answer = Err]

\* Foreign code may trap, fail to start or lack an export.
Traps(t) ==
  /\ call[t].module = "foreign"
  /\ call[t].at \in {"method", "path", "call"}
  /\ call' = [call EXCEPT ![t] = Failed(@)]

\* Its start function, alloc and handle may do to their memory what they like.
Rewritten(mem, w) == [a \in Cells |-> IF w[a] \in Numbers THEN w[a] ELSE mem[w[a][2]]]

ForeignCode(t) ==
  /\ call[t].module = "foreign"
  /\ call[t].at \in {"method", "path", "call"}
  /\ \E w \in Rewrites :
       call' = [call EXCEPT ![t].store.mem = Rewritten(@, w)]

-----------------------------------------------------------------------------
Invoke_Pooled(t, m, p, h) ==
  /\ call[t].at = "idle"
  /\ \E u \in Tasks :
       call' = [call EXCEPT ![t] = [Begun(m, p, h) EXCEPT !.store = call[u].store]]

\* A store of its own for every call, and the module instantiated in it.
Invoke(t, m, p, h) ==
  /\ call[t].at = "idle"
  /\ call' = [call EXCEPT ![t] = Begun(m, p, h)]

\* What alloc may return, and heap_ptr afterwards.  hello.wat bumps it without
\* a look at where its memory ends.
Allocs_BumpOne(c, n) ==
  IF c.module = "hello" THEN {[ptr |-> c.store.heap, heap |-> c.store.heap + 1]}
  ELSE {[ptr |-> x, heap |-> c.store.heap] : x \in Pointers}

Allocs(c, n) ==
  IF c.module = "hello" THEN {[ptr |-> c.store.heap, heap |-> c.store.heap + n]}
  ELSE {[ptr |-> x, heap |-> c.store.heap] : x \in Pointers}

\* alloc, and memory.write of text x to where it says.
WriteText(t, x, next) ==
  LET c == call[t]  n == Length[x] IN
  \E a \in Allocs(c, n) :
    call' = [call EXCEPT ![t] =
      IF Fits(a.ptr, n)
      THEN [c EXCEPT !.at = next, !.arg = a.ptr,
                     !.store = [mem |-> Put(c.store.mem, a.ptr, Text(x, n)), heap |-> a.heap]]
      ELSE Failed(c)]

WriteMethod(t) == call[t].at = "method" /\ WriteText(t, call[t].method, "path")
WritePath(t)   == call[t].at = "path" /\ WriteText(t, call[t].path, "call")

\* hello.wat's handle: a buffer after everything else, and in it the status 200
\* in little endian, the greeting and the path.  Its stores and copies trap if
\* the buffer does not fit in the memory.
HelloBody(c) == Get(c.store.mem, 0, Greeting) \o Get(c.store.mem, c.arg, Length[c.path])

HandleHello(t) ==
  LET c == call[t]  n == 2 + Greeting + Length[c.path] IN
  /\ c.at = "call" /\ c.module = "hello"
  /\ call' = [call EXCEPT ![t] =
       IF Fits(c.store.heap, n)
       THEN [c EXCEPT !.at = "read", !.ptr = c.store.heap, !.len = n,
               !.store = [mem |-> Put(c.store.mem, c.store.heap,
                                      <<Number(200), Number(0)>> \o HelloBody(c)),
                          heap |-> c.store.heap + n]]
       ELSE Failed(c)]

\* A foreign one returns whatever part of its memory it likes, or none of it.
HandleForeign(t) ==
  /\ call[t].at = "call" /\ call[t].module = "foreign"
  /\ \E p \in Pointers \cap Nat, n \in Lengths :
       call' = [call EXCEPT ![t].at = "read", ![t].ptr = p, ![t].len = n]

\* u16::from_le_bytes, of bytes that are numbers.
FromLeBytes(lo, hi) ==
  IF lo[1] = "number" /\ hi[1] = "number" THEN lo[2] + 256 * hi[2] ELSE 0

\* buf[0], buf[1] and buf[2..]: without two bytes the indexing panics.
Decode(c, buf) ==
  IF Len(buf) < 2 THEN [c EXCEPT !.at = "panic"]
  ELSE [c EXCEPT !.at = "done", !.store = Fresh,
                 !.answer = [ok |-> TRUE, status |-> FromLeBytes(buf[1], buf[2]),
                             body |-> SubSeq(buf, 3, Len(buf))]]

Read_Unchecked(t) ==
  LET c == call[t] IN
  /\ c.at = "read"
  /\ call' = [call EXCEPT ![t] =
       IF Fits(c.ptr, c.len) THEN Decode(c, Get(c.store.mem, c.ptr, c.len)) ELSE Failed(c)]

\* The response must have a status and lie within the memory.  (The buffer is
\* allocated before the second is known; that there is room for it is assumed.)
Read(t) ==
  LET c == call[t] IN
  /\ c.at = "read"
  /\ call' = [call EXCEPT ![t] =
       IF c.len >= 2 /\ Fits(c.ptr, c.len)
       THEN Decode(c, Get(c.store.mem, c.ptr, c.len)) ELSE Failed(c)]

\* The caller has used the answer; the task will serve another request.
Done(t) ==
  /\ call[t].at = "done"
  /\ call' = [call EXCEPT ![t] = NoCall]

-----------------------------------------------------------------------------
Step(t) ==
  \/ WriteMethod(t) \/ WritePath(t) \/ HandleHello(t) \/ HandleForeign(t)
  \/ ForeignCode(t) \/ Traps(t) \/ Read(t) \/ Done(t)

Next ==
  \E t \in Tasks :
    \/ \E m \in Methods, p \in Paths, h \in {"hello", "foreign"} : Invoke(t, m, p, h)
    \/ Step(t)

Spec == Init /\ [][Next]_call

=============================================================================
