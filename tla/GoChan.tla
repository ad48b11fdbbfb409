------------------------------- MODULE GoChan -------------------------------
(***************************************************************************)
(* What pyroutine promises of its channels, before any waiter, lock or     *)
(* queue: a channel is a FIFO buffer and a closed flag, and every send,    *)
(* recv, close or select takes effect at one instant between its call and  *)
(* its return.  A rendezvous is two operations that take effect at the     *)
(* same instant.  Chan and Select implement this module.                   *)
(***************************************************************************)
EXTENDS ChanCalls

Pending(p) == nops[p] > 0 /\ lin[Cur(p)].st = "pending"

Offers(p, i, dir, c) ==
  /\ Pending(p)
  /\ i \in DOMAIN call[p].cases
  /\ call[p].cases[i] = [dir |-> dir, ch |-> c]

Invoke(p) == ~Pending(p) /\ NewCall(p)

(* A value passes from s straight to r; no buffered value precedes it.     *)
Rendezvous(s, i, r, j, c) ==
  /\ s # r
  /\ Offers(s, i, "send", c)
  /\ Offers(r, j, "recv", c)
  /\ ~closed[c]
  /\ buf[c] = <<>>
  /\ lin' = [lin EXCEPT ![Cur(s)] = Outcome("ok", i, Unset),
                        ![Cur(r)] = Outcome("ok", j, Cur(s))]
  /\ UNCHANGED <<closed, buf, nops, call>>

Enqueue(s, i, c) ==
  /\ Offers(s, i, "send", c)
  /\ ~closed[c]
  /\ Len(buf[c]) < Cap[c]
  /\ buf' = [buf EXCEPT ![c] = Append(@, Cur(s))]
  /\ lin' = [lin EXCEPT ![Cur(s)] = Outcome("ok", i, Unset)]
  /\ UNCHANGED <<closed, nops, call>>

Dequeue(r, j, c) ==
  /\ Offers(r, j, "recv", c)
  /\ buf[c] # <<>>
  /\ buf' = [buf EXCEPT ![c] = Tail(@)]
  /\ lin' = [lin EXCEPT ![Cur(r)] = Outcome("ok", j, Head(buf[c]))]
  /\ UNCHANGED <<closed, nops, call>>

(* The slot a receiver frees is filled by a waiting sender at that instant. *)
DequeueRefill(s, i, r, j, c) ==
  /\ s # r
  /\ Offers(s, i, "send", c)
  /\ Offers(r, j, "recv", c)
  /\ ~closed[c]
  /\ buf[c] # <<>>
  /\ buf' = [buf EXCEPT ![c] = Append(Tail(@), Cur(s))]
  /\ lin' = [lin EXCEPT ![Cur(s)] = Outcome("ok", i, Unset),
                        ![Cur(r)] = Outcome("ok", j, Head(buf[c]))]
  /\ UNCHANGED <<closed, nops, call>>

(* ChanClosed: at once for a send, after the last value for a recv.        *)
Refuse(p, i, c) ==
  /\ closed[c]
  /\ \/ Offers(p, i, "send", c)
     \/ Offers(p, i, "recv", c) /\ buf[c] = <<>>
  /\ lin' = [lin EXCEPT ![Cur(p)] = Outcome("closed", i, Unset)]
  /\ UNCHANGED <<closed, buf, nops, call>>

Close(p, i, c) ==
  /\ Offers(p, i, "close", c)
  /\ closed' = [closed EXCEPT ![c] = TRUE]
  /\ lin' = [lin EXCEPT ![Cur(p)] = Outcome("done", i, Unset)]
  /\ UNCHANGED <<buf, nops, call>>

(* TimeoutError: only for a call with a timeout, and then nothing happened. *)
GiveUp(p) ==
  /\ Pending(p)
  /\ call[p].wait = "timed"
  /\ lin' = [lin EXCEPT ![Cur(p)] = Outcome("timeout", TimeoutIndex, Unset)]
  /\ UNCHANGED <<closed, buf, nops, call>>

Unready(cs) ==
  /\ ~closed[cs.ch]
  /\ IF cs.dir = "send" THEN Len(buf[cs.ch]) >= Cap[cs.ch] ELSE buf[cs.ch] = <<>>

(* try_send and try_recv fail only when the channel cannot serve them from *)
(* its buffer; a select with a default looks at its channels one by one,   *)
(* so no single instant constrains it.                                     *)
Decline(p) ==
  /\ Pending(p)
  /\ \/ call[p].wait = "try" /\ \A i \in DOMAIN call[p].cases : Unready(call[p].cases[i])
     \/ call[p].wait = "default"
  /\ lin' = [lin EXCEPT ![Cur(p)] = Outcome("wouldblock", NoIndex, Unset)]
  /\ UNCHANGED <<closed, buf, nops, call>>

Init == CallsInit

Next ==
  \E p \in Procs :
    \/ Invoke(p)
    \/ GiveUp(p)
    \/ Decline(p)
    \/ \E i \in DOMAIN call[p].cases : \E c \in Chans :
         \/ Enqueue(p, i, c)
         \/ Dequeue(p, i, c)
         \/ Refuse(p, i, c)
         \/ Close(p, i, c)
         \/ \E q \in Procs : \E j \in DOMAIN call[q].cases :
              \/ Rendezvous(p, i, q, j, c)
              \/ DequeueRefill(p, i, q, j, c)

Spec == Init /\ [][Next]_goVars
=============================================================================
