----------------------------- MODULE ChanCalls -----------------------------
(***************************************************************************)
(* The calls threads make on channels and what becomes of them: the        *)
(* vocabulary that the abstract channel (GoChan) and the implementations   *)
(* (Chan, Select) share.                                                   *)
(*                                                                         *)
(* The value an operation sends is the operation itself, so a value names  *)
(* its sender and a duplicated or invented value cannot hide.              *)
(***************************************************************************)
EXTENDS Integers, Sequences, FiniteSets

CONSTANTS
  Procs,    \* the threads of control that call the library
  Chans,    \* channels, named by the id() the library sorts them with
  Cap,      \* Cap[c] is the maxsize of channel c, 0 for a rendezvous
  MaxOps,   \* bound: calls per thread
  Calls,    \* Calls[p]: the calls thread p may make
  Unset     \* no value

(* The operations: the n-th call of thread p.                              *)
Op == Procs \X (1..MaxOps)

Case == [dir: {"send", "recv", "close"}, ch: Chans]

(* A plain operation is a call with the single case 0.  wait says what     *)
(* happens when no case is ready: "block" and "timed" park, "try" is       *)
(* try_send / try_recv, "default" is select(default=True).                 *)
IsCall(cl) ==
  /\ IsFiniteSet(DOMAIN cl.cases) /\ DOMAIN cl.cases \subseteq Nat /\ DOMAIN cl.cases # {}
  /\ cl.cases \in [DOMAIN cl.cases -> Case]
  /\ cl.wait \in {"block", "timed", "try", "default"}
  /\ cl = [cases |-> cl.cases, wait |-> cl.wait]

ASSUME ChanAssumption ==
  /\ Chans \subseteq Nat
  /\ Cap \in [Chans -> Nat]
  /\ MaxOps \in Nat
  /\ Unset \notin Op
  /\ \A p \in Procs : \A cl \in Calls[p] : IsCall(cl)

NoIndex == -1        \* _Waiter.index is None; the index select returns for default
TimeoutIndex == -2   \* _TIMEOUT_INDEX

NoCall == [cases |-> <<>>, wait |-> "block"]
Outcome(st, i, got) == [st |-> st, i |-> i, got |-> got]

VARIABLES
  closed,   \* closed[c]: close() took effect
  buf,      \* buf[c]: values accepted and not yet received, oldest first
  nops,     \* nops[p]: calls made by p so far
  call,     \* call[p]: the latest call of p
  lin       \* lin[op]: what the operation did, "pending" until it takes effect

goVars == <<closed, buf, nops, call, lin>>

Cur(p) == <<p, nops[p]>>
Dir(p, i) == call[p].cases[i].dir
Ch(p, i) == call[p].cases[i].ch

CallsInit ==
  /\ closed = [c \in Chans |-> FALSE]
  /\ buf = [c \in Chans |-> <<>>]
  /\ nops = [p \in Procs |-> 0]
  /\ call = [p \in Procs |-> NoCall]
  /\ lin = [w \in Op |-> Outcome("none", NoIndex, Unset)]

(* Thread p makes its next call.                                           *)
NewCall(p) ==
  /\ nops[p] < MaxOps
  /\ nops' = [nops EXCEPT ![p] = @ + 1]
  /\ \E cl \in Calls[p] : call' = [call EXCEPT ![p] = cl]
  /\ lin' = [lin EXCEPT ![<<p, nops[p] + 1>>] = Outcome("pending", NoIndex, Unset)]
  /\ UNCHANGED <<closed, buf>>

(* What became of an operation, or what its call returned; the last two    *)
(* are of tasks and of their event loop (Aio).                             *)
Outcomes(V) ==
  [st: {"none", "pending", "ok", "closed", "timeout", "wouldblock", "done", "cancelled", "raised"},
   i: Int, got: V]

CallsTypeOK ==
  /\ closed \in [Chans -> BOOLEAN]
  /\ buf \in [Chans -> Seq(Op)]
  /\ nops \in [Procs -> 0..MaxOps]
  /\ call \in [Procs -> {NoCall} \cup UNION {Calls[p] : p \in Procs}]
  /\ lin \in [Op -> Outcomes(Op \cup {Unset})]

-----------------------------------------------------------------------------
(* Where values are, given what operations did (l) and the buffers (b).    *)
Accepted(l, w) == l[w].st = "ok" /\ l[w].got = Unset
InBuf(b, w) == \E c \in Chans : \E k \in DOMAIN b[c] : b[c][k] = w
Received(l, w) == \E r \in Op : l[r].got = w

OnePlace(l, b) ==
  /\ \A w \in Op : Accepted(l, w) <=> InBuf(b, w) \/ Received(l, w)
  /\ \A w \in Op : ~(InBuf(b, w) /\ Received(l, w))
  /\ \A r1, r2 \in Op : l[r1].got = l[r2].got /\ l[r1].got # Unset => r1 = r2
  /\ \A c, d \in Chans : \A k \in DOMAIN b[c], m \in DOMAIN b[d] :
       b[c][k] = b[d][m] => c = d /\ k = m

(* README: "No value is ever delivered twice or lost."  A value whose send *)
(* was accepted is in one position of one buffer or was returned by one    *)
(* receiver, never both; a value that was not accepted (its send timed     *)
(* out, was refused or is still parked) is nowhere.                        *)
ExactlyOnce == OnePlace(lin, buf)
=============================================================================
