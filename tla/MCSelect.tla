------------------------------ MODULE MCSelect ------------------------------
(* Instance of Select for TLC: two channels without buffer and one with a  *)
(* slot.                                                                   *)
EXTENDS Select, CallForms, TLC

CONSTANTS p1, p2, p3

(* Two threads whose selects face each other over the unbuffered channels, *)
(* or offer both directions of one of them, or meet a buffer; a thread     *)
(* that makes plain calls, selects, or closes a channel.                   *)
Facing == [p \in Procs |->
  CASE p = p1 -> {Two("send", 1, "recv", 2, "block"), Two("recv", 1, "recv", 2, "timed"),
                  Two("send", 1, "recv", 1, "default"), Two("send", 3, "recv", 1, "block")}
    [] p = p2 -> {Two("recv", 2, "send", 1, "timed"), Two("send", 2, "recv", 1, "block"),
                  Recv(3, "timed")}
    [] p = p3 -> {Send(2, "timed"), Recv(1, "try"), CloseOf(1),
                  Two("send", 1, "recv", 1, "block"), Send(3, "try")}]
=============================================================================
