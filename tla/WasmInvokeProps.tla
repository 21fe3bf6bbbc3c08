--------------------------- MODULE WasmInvokeProps ---------------------------
(***************************************************************************)
(* What the ABI promises (the comment at wasm/mod.rs:69-91, the one at the *)
(* head of wasm/hello.wat, docs/ARCHITECTURE.md:231-244).                  *)
(***************************************************************************)
EXTENDS WasmInvoke

\* hello.wat's part of the memory: method, path and response, one after the
\* other from HeapBase on.
HelloFits(m, p) ==
  HeapBase + Length[m] + Length[p] + (2 + Greeting + Length[p]) <= Size

\* hello.wat answers 200 with its greeting and the path, byte for byte, if its
\* two pages can hold them, and fails (500) if not, whatever was asked
\* before and whatever other tasks call meanwhile: no text overwrites another
\* and nothing is cut off (hello.wat:24-67, wasm/mod.rs:114-147).
HelloEchoes ==
  \A t \in Tasks :
    LET c == call[t] IN
    c.at = "done" /\ c.module = "hello" =>
      c.answer = IF HelloFits(c.method, c.path)
                 THEN [ok |-> TRUE, status |-> 200,
                       body |-> Text("greeting", Greeting) \o Text(c.path, Length[c.path])]
                 ELSE Err

\* One request's data never gets into another's answer, even if a handler
\* returns memory it has not written (wasm/mod.rs:86-89: a fresh Store per
\* request).
NoLeak ==
  \A t \in Tasks :
    LET c == call[t] IN
    \A k \in 1 .. Len(c.answer.body) :
      c.answer.body[k][1] \in {c.method, c.path, "greeting", "number"}

\* No handler, whatever it returns, makes invoke panic, which would end the
\* process (wasm/mod.rs:135-144: the length is checked before the status is
\* read).
NoPanic == \A t \in Tasks : call[t].at # "panic"

=============================================================================
