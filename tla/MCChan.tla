------------------------------- MODULE MCChan -------------------------------
(* Instance of Chan for TLC: three threads on a channel with one slot.     *)
EXTENDS Chan, CallForms, TLC

CONSTANTS p1, p2, p3

(* A sender, a receiver, and a thread that does either or closes.          *)
Roles == [p \in Procs |->
  CASE p = p1 -> {Send(1, "block"), Send(1, "timed")}
    [] p = p2 -> {Recv(1, "block"), Recv(1, "timed"), Recv(1, "try")}
    [] p = p3 -> {Send(1, "timed"), Send(1, "try"), Recv(1, "timed"), CloseOf(1)}]
=============================================================================
