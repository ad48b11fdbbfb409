------------------------------ MODULE MCMerge ------------------------------
(* Instance of Merge for TLC: two inputs, the first with a slot and given  *)
(* twice, and an unbuffered output.                                        *)
EXTENDS Merge, CallForms, TLC

CONSTANTS pump, consumer, p1, p2

Twice == <<1, 2, 1>>

PumpCalls ==
  {SelectCall(s) : s \in {Inputs} \cup UNION {[1..n -> {1, 2}] : n \in 1..Len(Inputs)}}
    \cup {Send(3, "block"), CloseOf(3)}

(* Two producers, and a consumer that may close the output.                *)
Closing == [p \in Procs |->
  CASE p = pump -> PumpCalls
    [] p = consumer -> {Recv(3, "block"), CloseOf(3)}
    [] p = p1 -> {Send(1, "block"), CloseOf(1)}
    [] p = p2 -> {Send(2, "block"), CloseOf(2)}]

Bounds == [p \in Procs |-> IF p = consumer THEN 3 ELSE IF p = p1 THEN 3 ELSE 2]
=============================================================================
