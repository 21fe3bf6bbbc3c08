----------------------------- MODULE MCWasmInvoke -----------------------------
(* Model-checking instances of WasmInvoke. *)
EXTENDS WasmInvokeProps, TLC

CONSTANTS get, short, middle, long

MCLength == (get :> 1) @@ (short :> 1) @@ (middle :> 3) @@ (long :> 9)

\* Before the memory, in it, at its end and just beyond.
MCPointers == {-1, 3, 10, 12}

\* A status in front of what was written, which overwrites some of it; a copy
\* of what lies from the heap on to the end of the memory.
MCRewrites ==
  { [a \in Cells |-> CASE a = 3 -> Number(44) [] a = 4 -> Number(1) [] OTHER -> <<"cell", a>>],
    [a \in Cells |-> <<"cell", IF a < 8 THEN a ELSE a - 5>>] }

TaskSymmetry == Permutations(Tasks)
=============================================================================
