------------------------------- MODULE MCAio -------------------------------
(* Instances of Aio for TLC: tasks beside a thread.                        *)
EXTENDS Aio, CallForms, TLC

CONSTANTS t1, t2, p1

(* A task that selects, a task that makes plain calls, a thread that does  *)
(* both.                                                                   *)
SelectingTasks == [p \in Procs |->
  CASE p = t1 -> {Two("send", 1, "recv", 2, "block"), Two("recv", 1, "recv", 2, "timed"),
                  Two("recv", 1, "send", 2, "default")}
    [] p = t2 -> {Recv(1, "block"), Send(2, "timed"), CloseOf(2)}
    [] p = p1 -> {Send(1, "timed"), Two("send", 2, "recv", 1, "block"), Recv(2, "try"),
                  CloseOf(1)}]

(* A task that receives with a timeout, a thread that sends.               *)
TimedRecv == [p \in Procs |-> IF p = t1 THEN {Recv(1, "timed")} ELSE {Send(1, "block")}]
=============================================================================
