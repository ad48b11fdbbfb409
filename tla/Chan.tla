-------------------------------- MODULE Chan --------------------------------
(***************************************************************************)
(* The channel of _chan.py: a buffer and two queues of parked waiters      *)
(* under one lock, waiters completed by compare-and-set, timeouts that     *)
(* race their completer, and close(), which completes its snapshot of the  *)
(* queues after it let the lock go.                                        *)
(*                                                                         *)
(* Every operation owns at most one waiter, so the operation (Op) names    *)
(* its _Waiter.  Grain of atomicity: each access to state another thread   *)
(* can reach is a step, except that                                        *)
(*   - taking a lock is one step with the first access under it, and       *)
(*     giving it up one with the last (nothing else is read between);      *)
(*   - the entries whose commit() fails are dropped in the step of the     *)
(*     commit() that succeeds, or of the loop's end: a claimed waiter      *)
(*     stays claimed, so those failures could as well happen then.         *)
(* commit() and finish() are always two steps: a timeout, a close or       *)
(* another sender can run between them.                                    *)
(*                                                                         *)
(* Definitions named Bug... are mutated forms of the one they precede, no  *)
(* part of the specification: TLC finds a property violated when one of    *)
(* them takes its place.                                                   *)
(***************************************************************************)
EXTENDS ChanCalls

CONSTANTS
  Closed,   \* _CLOSED
  SendOk,   \* _SEND_OK
  NoProc    \* the holder of a free lock

ASSUME MarkerAssumption ==
  /\ NoProc \notin Procs
  /\ Closed # SendOk /\ Closed # Unset /\ SendOk # Unset
  /\ Closed \notin Op /\ SendOk \notin Op

VARIABLES
  recvQ, sendQ,  \* _recv_waiters, _send_waiters: entries [w, i]
  lock,          \* lock[c]: the thread holding c._lock
  index,         \* index[w]: _Waiter.index, set once by commit()
  value,         \* value[w]: _Waiter.value, set by finish()
  released,      \* released[w]: finish() released _Waiter._park
  pc,            \* pc[p]: where thread p is
  hand,          \* hand[p]: the finish() thread p owes, and its own outcome
  wake,          \* wake[p]: the entries close() still has to complete
  res            \* res[p]: what p's latest call returned or raised

waiters == <<index, value, released>>
vars == <<goVars, recvQ, sendQ, lock, waiters, pc, hand, wake, res>>

Entry == [w: Op, i: Nat]
NoOutcome == Outcome("none", NoIndex, Unset)
NoHand == [w |-> Unset, v |-> Unset, out |-> NoOutcome]

Init ==
  /\ CallsInit
  /\ recvQ = [c \in Chans |-> <<>>]
  /\ sendQ = [c \in Chans |-> <<>>]
  /\ lock = [c \in Chans |-> NoProc]
  /\ index = [w \in Op |-> NoIndex]
  /\ value = [w \in Op |-> Unset]
  /\ released = [w \in Op |-> FALSE]
  /\ pc = [p \in Procs |-> "idle"]
  /\ hand = [p \in Procs |-> NoHand]
  /\ wake = [p \in Procs |-> <<>>]
  /\ res = [p \in Procs |-> NoOutcome]

-----------------------------------------------------------------------------
(* Queues of waiters.                                                      *)

Unclaimed(w) == index[w] = NoIndex

(* The loops over a queue pop entries until a commit() succeeds: that of   *)
(* the first entry whose waiter nobody claimed, if there is one.           *)
BugFirstEntry(q, j) == j = 1 /\ q # <<>>
FirstLive(q, j) ==
  /\ j \in DOMAIN q
  /\ Unclaimed(q[j].w)
  /\ \A k \in 1..(j - 1) : ~Unclaimed(q[k].w)
AllStale(q) == \A j \in DOMAIN q : ~Unclaimed(q[j].w)
After(q, j) == [k \in 1..(Len(q) - j) |-> q[k + j]]

(* The registration of p's waiter for its case i.                          *)
BugUnnumbered(p, i) == [w |-> Cur(p), i |-> NoIndex]
NewEntry(p, i) == [w |-> Cur(p), i |-> i]

(* q without the entry of w; a plain operation registers one entry.        *)
Without(q, w) ==
  IF \E j \in DOMAIN q : q[j].w = w
  THEN LET j == CHOOSE j \in DOMAIN q : q[j].w = w
       IN  [k \in 1..(Len(q) - 1) |-> IF k < j THEN q[k] ELSE q[k + 1]]
  ELSE q

-----------------------------------------------------------------------------
(* Steps of a poll of case i by thread p, which holds the lock of the      *)
(* case's channel or takes it now.  _poll_recv_locked and                  *)
(* _poll_send_locked are shared by the plain operations and by select.     *)

CanLock(p, c) == lock[c] \in {NoProc, p}
Unlocked(p) == [c \in Chans |-> IF lock[c] = p THEN NoProc ELSE lock[c]]

(* p's call ends with outcome out, its locks released.                     *)
Return(p, out) ==
  /\ res' = [res EXCEPT ![p] = out]
  /\ pc' = [pc EXCEPT ![p] = "idle"]
  /\ lock' = Unlocked(p)

(* The call also takes effect in this step.                                *)
TakeEffect(p, out) ==
  /\ lin' = [lin EXCEPT ![Cur(p)] = out]
  /\ Return(p, out)

(* p won commit() on entry e: the operation of e is decided with outcome   *)
(* theirs, p's own with outcome out; p must finish(v) before it returns.   *)
Commit(p, e, theirs, v, out) ==
  /\ index' = [index EXCEPT ![e.w] = e.i]
  /\ lin' = [lin EXCEPT ![Cur(p)] = out, ![e.w] = theirs]
  /\ hand' = [hand EXCEPT ![p] = [w |-> e.w, v |-> v, out |-> out]]
  /\ pc' = [pc EXCEPT ![p] = "finish"]

Polls(p, i, dir, c) ==
  /\ Dir(p, i) = dir
  /\ Ch(p, i) = c
  /\ CanLock(p, c)

(* A parked receiver beats the buffer.                                     *)
SendHandoff(p, i, c) ==
  /\ Polls(p, i, "send", c)
  /\ ~closed[c]
  /\ \E j \in DOMAIN recvQ[c] :
       /\ FirstLive(recvQ[c], j)
       /\ LET e == recvQ[c][j]
          IN  Commit(p, e, Outcome("ok", e.i, Cur(p)), Cur(p), Outcome("ok", i, Unset))
       /\ recvQ' = [recvQ EXCEPT ![c] = After(recvQ[c], j)]
  /\ lock' = [lock EXCEPT ![c] = p]
  /\ UNCHANGED <<closed, buf, nops, call, sendQ, value, released, wake, res>>

SendBuffer(p, i, c) ==
  /\ Polls(p, i, "send", c)
  /\ ~closed[c]
  /\ AllStale(recvQ[c])
  /\ Len(buf[c]) < Cap[c]
  /\ buf' = [buf EXCEPT ![c] = Append(buf[c], Cur(p))]
  /\ recvQ' = [recvQ EXCEPT ![c] = <<>>]
  /\ TakeEffect(p, Outcome("ok", i, Unset))
  /\ UNCHANGED <<closed, nops, call, sendQ, waiters, hand, wake>>

SendClosed(p, i, c) ==
  /\ Polls(p, i, "send", c)
  /\ closed[c]
  /\ TakeEffect(p, Outcome("closed", i, Unset))
  /\ UNCHANGED <<closed, buf, nops, call, recvQ, sendQ, waiters, hand, wake>>

(* A buffered value and no live sender to promote into the slot it leaves. *)
BugTakeOnly(p, i, c) ==
  /\ Polls(p, i, "recv", c)
  /\ buf[c] # <<>>
  /\ buf' = [buf EXCEPT ![c] = Tail(buf[c])]
  /\ TakeEffect(p, Outcome("ok", i, Head(buf[c])))
  /\ UNCHANGED <<closed, nops, call, recvQ, sendQ, waiters, hand, wake>>
BugPeek(p, i, c) ==
  /\ Polls(p, i, "recv", c)
  /\ buf[c] # <<>>
  /\ TakeEffect(p, Outcome("ok", i, Head(buf[c])))
  /\ UNCHANGED <<closed, buf, nops, call, recvQ, sendQ, waiters, hand, wake>>
RecvTake(p, i, c) ==
  /\ Polls(p, i, "recv", c)
  /\ buf[c] # <<>>
  /\ AllStale(sendQ[c])
  /\ buf' = [buf EXCEPT ![c] = Tail(buf[c])]
  /\ sendQ' = [sendQ EXCEPT ![c] = <<>>]
  /\ TakeEffect(p, Outcome("ok", i, Head(buf[c])))
  /\ UNCHANGED <<closed, nops, call, recvQ, waiters, hand, wake>>

(* A buffered value; _promote_sender_locked moves a parked value in.       *)
RecvTakePromote(p, i, c) ==
  /\ Polls(p, i, "recv", c)
  /\ buf[c] # <<>>
  /\ \E j \in DOMAIN sendQ[c] :
       /\ FirstLive(sendQ[c], j)
       /\ LET e == sendQ[c][j]
          IN  /\ Commit(p, e, Outcome("ok", e.i, Unset), SendOk,
                        Outcome("ok", i, Head(buf[c])))
              /\ buf' = [buf EXCEPT ![c] = Append(Tail(buf[c]), e.w)]
       /\ sendQ' = [sendQ EXCEPT ![c] = After(sendQ[c], j)]
  /\ lock' = [lock EXCEPT ![c] = p]
  /\ UNCHANGED <<closed, nops, call, recvQ, value, released, wake, res>>

RecvFromSender(p, i, c) ==
  /\ Polls(p, i, "recv", c)
  /\ buf[c] = <<>>
  /\ \E j \in DOMAIN sendQ[c] :
       /\ FirstLive(sendQ[c], j)
       /\ LET e == sendQ[c][j]
          IN  Commit(p, e, Outcome("ok", e.i, Unset), SendOk, Outcome("ok", i, e.w))
       /\ sendQ' = [sendQ EXCEPT ![c] = After(sendQ[c], j)]
  /\ lock' = [lock EXCEPT ![c] = p]
  /\ UNCHANGED <<closed, buf, nops, call, recvQ, value, released, wake, res>>

BugClosedFirst(p, i, c) ==
  /\ Polls(p, i, "recv", c)
  /\ closed[c]
  /\ TakeEffect(p, Outcome("closed", i, Unset))
  /\ UNCHANGED <<closed, buf, nops, call, recvQ, sendQ, waiters, hand, wake>>
RecvClosed(p, i, c) ==
  /\ Polls(p, i, "recv", c)
  /\ buf[c] = <<>>
  /\ AllStale(sendQ[c])
  /\ closed[c]
  /\ sendQ' = [sendQ EXCEPT ![c] = <<>>]
  /\ TakeEffect(p, Outcome("closed", i, Unset))
  /\ UNCHANGED <<closed, buf, nops, call, recvQ, waiters, hand, wake>>

(* The poll succeeds, with a value or with ChanClosed.                     *)
PollHit(p, i, c) ==
  \/ SendHandoff(p, i, c)
  \/ SendBuffer(p, i, c)
  \/ SendClosed(p, i, c)
  \/ RecvTake(p, i, c)
  \/ RecvTakePromote(p, i, c)
  \/ RecvFromSender(p, i, c)
  \/ RecvClosed(p, i, c)

(* The poll finds nothing: every entry it popped was stale.                *)
Missed(dir, c) ==
  /\ ~closed[c]
  /\ IF dir = "send"
     THEN AllStale(recvQ[c]) /\ Len(buf[c]) >= Cap[c]
     ELSE buf[c] = <<>> /\ AllStale(sendQ[c])

-----------------------------------------------------------------------------
(* The plain operations.                                                   *)

Plain(p) == DOMAIN call[p].cases = {0} /\ call[p].wait # "default"

Invoke(p) ==
  /\ pc[p] = "idle"
  /\ NewCall(p)
  /\ pc' = [pc EXCEPT ![p] = "start"]
  /\ UNCHANGED <<recvQ, sendQ, lock, waiters, hand, wake, res>>

Poll(p) ==
  /\ pc[p] = "start"
  /\ Plain(p)
  /\ \E c \in Chans : PollHit(p, 0, c)

(* try_send and try_recv give up.                                          *)
TryMiss(p) ==
  /\ pc[p] = "start"
  /\ Plain(p)
  /\ call[p].wait = "try"
  /\ \E c \in Chans, dir \in {"send", "recv"} :
       /\ Polls(p, 0, dir, c)
       /\ Missed(dir, c)
       /\ recvQ' = IF dir = "send" THEN [recvQ EXCEPT ![c] = <<>>] ELSE recvQ
       /\ sendQ' = IF dir = "recv" THEN [sendQ EXCEPT ![c] = <<>>] ELSE sendQ
  /\ TakeEffect(p, Outcome("wouldblock", NoIndex, Unset))
  /\ UNCHANGED <<closed, buf, nops, call, waiters, hand, wake>>

(* send and recv register a fresh waiter before they release the lock.     *)
Park(p) ==
  /\ pc[p] = "start"
  /\ Plain(p)
  /\ call[p].wait # "try"
  /\ \E c \in Chans, dir \in {"send", "recv"} :
       /\ Polls(p, 0, dir, c)
       /\ Missed(dir, c)
       /\ LET e == NewEntry(p, 0)
          IN  /\ recvQ' = [recvQ EXCEPT ![c] = IF dir = "send" THEN <<>> ELSE Append(@, e)]
              /\ sendQ' = [sendQ EXCEPT ![c] = IF dir = "recv" THEN <<>> ELSE Append(@, e)]
  /\ pc' = [pc EXCEPT ![p] = "parked"]
  /\ lock' = Unlocked(p)
  /\ UNCHANGED <<goVars, waiters, hand, wake, res>>

(* finish(): store the value, release the parked thread; then p lets its   *)
(* channel locks go and returns.                                           *)
Finish(p) ==
  /\ pc[p] = "finish"
  /\ value' = [value EXCEPT ![hand[p].w] = hand[p].v]
  /\ released' = [released EXCEPT ![hand[p].w] = TRUE]
  /\ hand' = [hand EXCEPT ![p] = NoHand]
  /\ Return(p, hand[p].out)
  /\ UNCHANGED <<goVars, recvQ, sendQ, index, wake>>

(* What a woken thread makes of its waiter.                                *)
Woken(p) ==
  LET w == Cur(p)
  IN  IF value[w] = Closed THEN Outcome("closed", index[w], Unset)
      ELSE Outcome("ok", index[w],
                   IF Dir(p, index[w]) = "recv" THEN value[w] ELSE Unset)

BugNoSecondWait(p) ==
  /\ pc[p] = "parked"
  /\ Plain(p)
  /\ released[Cur(p)]
  /\ Return(p, Woken(p))
  /\ UNCHANGED <<goVars, recvQ, sendQ, waiters, hand, wake>>
Wake(p) ==
  /\ pc[p] \in {"parked", "claimed"}
  /\ Plain(p)
  /\ released[Cur(p)]
  /\ Return(p, Woken(p))
  /\ UNCHANGED <<goVars, recvQ, sendQ, waiters, hand, wake>>

(* The timed wait() returned False.                                        *)
Expire(p) ==
  /\ pc[p] = "parked"
  /\ call[p].wait = "timed"
  /\ ~released[Cur(p)]
  /\ pc' = [pc EXCEPT ![p] = "expired"]
  /\ UNCHANGED <<goVars, recvQ, sendQ, lock, waiters, hand, wake, res>>

(* The thread commits its own waiter with _TIMEOUT_INDEX, ...              *)
ClaimTimeout(p) ==
  /\ pc[p] = "expired"
  /\ Unclaimed(Cur(p))
  /\ index' = [index EXCEPT ![Cur(p)] = TimeoutIndex]
  /\ lin' = [lin EXCEPT ![Cur(p)] = Outcome("timeout", TimeoutIndex, Unset)]
  /\ pc' = [pc EXCEPT ![p] = "withdraw"]
  /\ UNCHANGED <<closed, buf, nops, call, recvQ, sendQ, lock, value, released, hand, wake, res>>

(* ... or finds that somebody completed it at the last moment.             *)
BugTimeoutAnyway(p) ==
  /\ pc[p] = "expired"
  /\ ~Unclaimed(Cur(p))
  /\ pc' = [pc EXCEPT ![p] = "withdraw"]
  /\ UNCHANGED <<goVars, recvQ, sendQ, lock, waiters, hand, wake, res>>
LoseTimeout(p) ==
  /\ pc[p] = "expired"
  /\ ~Unclaimed(Cur(p))
  /\ pc' = [pc EXCEPT ![p] = "claimed"]
  /\ UNCHANGED <<goVars, recvQ, sendQ, lock, waiters, hand, wake, res>>

(* _unregister() on the one channel of a plain operation, then             *)
(* TimeoutError.                                                           *)
Withdraw(p) ==
  /\ pc[p] = "withdraw"
  /\ Plain(p)
  /\ \E c \in Chans :
       /\ Ch(p, 0) = c
       /\ CanLock(p, c)
       /\ recvQ' = [recvQ EXCEPT ![c] = Without(recvQ[c], Cur(p))]
       /\ sendQ' = [sendQ EXCEPT ![c] = Without(sendQ[c], Cur(p))]
  /\ Return(p, Outcome("timeout", TimeoutIndex, Unset))
  /\ UNCHANGED <<goVars, waiters, hand, wake>>

-----------------------------------------------------------------------------
(* close().                                                                *)

CloseAgain(p) ==
  /\ pc[p] = "start"
  /\ Plain(p)
  /\ \E c \in Chans : Polls(p, 0, "close", c) /\ closed[c]
  /\ TakeEffect(p, Outcome("done", 0, Unset))
  /\ UNCHANGED <<closed, buf, nops, call, recvQ, sendQ, waiters, hand, wake>>

(* Under the lock: mark, snapshot both queues, clear them.                 *)
CloseMark(p) ==
  /\ pc[p] = "start"
  /\ Plain(p)
  /\ \E c \in Chans :
       /\ Polls(p, 0, "close", c)
       /\ ~closed[c]
       /\ closed' = [closed EXCEPT ![c] = TRUE]
       /\ wake' = [wake EXCEPT ![p] = recvQ[c] \o sendQ[c]]
       /\ recvQ' = [recvQ EXCEPT ![c] = <<>>]
       /\ sendQ' = [sendQ EXCEPT ![c] = <<>>]
  /\ lin' = [lin EXCEPT ![Cur(p)] = Outcome("done", 0, Unset)]
  /\ pc' = [pc EXCEPT ![p] = "closing"]
  /\ UNCHANGED <<buf, nops, call, lock, waiters, hand, res>>

(* Outside it: complete the waiters of the snapshot nobody else claimed.   *)
CloseCommit(p) ==
  /\ pc[p] = "closing"
  /\ \E j \in DOMAIN wake[p] :
       /\ FirstLive(wake[p], j)
       /\ LET e == wake[p][j]
          IN  /\ index' = [index EXCEPT ![e.w] = e.i]
              /\ lin' = [lin EXCEPT ![e.w] = Outcome("closed", e.i, Unset)]
              /\ hand' = [hand EXCEPT ![p] = [w |-> e.w, v |-> Closed, out |-> NoOutcome]]
       /\ wake' = [wake EXCEPT ![p] = After(wake[p], j)]
  /\ pc' = [pc EXCEPT ![p] = "closefinish"]
  /\ UNCHANGED <<closed, buf, nops, call, recvQ, sendQ, lock, value, released, res>>

CloseFinish(p) ==
  /\ pc[p] = "closefinish"
  /\ value' = [value EXCEPT ![hand[p].w] = hand[p].v]
  /\ released' = [released EXCEPT ![hand[p].w] = TRUE]
  /\ hand' = [hand EXCEPT ![p] = NoHand]
  /\ pc' = [pc EXCEPT ![p] = "closing"]
  /\ UNCHANGED <<goVars, recvQ, sendQ, lock, index, wake, res>>

BugNobodyWoken(p) ==
  /\ pc[p] = "closing"
  /\ wake' = [wake EXCEPT ![p] = <<>>]
  /\ Return(p, Outcome("done", 0, Unset))
  /\ UNCHANGED <<goVars, recvQ, sendQ, waiters, hand>>
CloseDone(p) ==
  /\ pc[p] = "closing"
  /\ AllStale(wake[p])
  /\ wake' = [wake EXCEPT ![p] = <<>>]
  /\ Return(p, Outcome("done", 0, Unset))
  /\ UNCHANGED <<goVars, recvQ, sendQ, waiters, hand>>

-----------------------------------------------------------------------------
(* The steps of a call in progress.                                        *)
Step(p) ==
  \/ Poll(p)
  \/ TryMiss(p)
  \/ Park(p)
  \/ Finish(p)
  \/ Wake(p)
  \/ Expire(p)
  \/ ClaimTimeout(p)
  \/ LoseTimeout(p)
  \/ Withdraw(p)
  \/ CloseAgain(p)
  \/ CloseMark(p)
  \/ CloseCommit(p)
  \/ CloseFinish(p)
  \/ CloseDone(p)

Next == \E p \in Procs : Invoke(p) \/ Step(p)

Spec == Init /\ [][Next]_vars

(* Threads are scheduled: one inside the library that can go on does.      *)
FairSpec == Spec /\ \A p \in Procs : WF_vars(Step(p))

-----------------------------------------------------------------------------
(* Properties.                                                             *)

Values == Op \cup {Unset, Closed, SendOk}
PCs == {"idle", "start", "finish", "parked", "expired", "claimed", "withdraw",
        "closing", "closefinish"}

DataTypeOK ==
  /\ CallsTypeOK
  /\ recvQ \in [Chans -> Seq(Entry)]
  /\ sendQ \in [Chans -> Seq(Entry)]
  /\ lock \in [Chans -> Procs \cup {NoProc}]
  /\ index \in [Op -> Nat \cup {NoIndex, TimeoutIndex}]
  /\ value \in [Op -> Values]
  /\ released \in [Op -> BOOLEAN]
  /\ hand \in [Procs -> [w: Op \cup {Unset}, v: Values, out: Outcomes(Op \cup {Unset})]]
  /\ wake \in [Procs -> Seq(Entry)]
  /\ res \in [Procs -> Outcomes(Values)]
  /\ \A p \in Procs : pc[p] # "idle" => nops[p] > 0

(* Every variable has the type its comment gives; a thread inside a call   *)
(* has made one.                                                           *)
TypeOK == DataTypeOK /\ pc \in [Procs -> PCs]

(* What a call returns or raises to its caller is what happened: the value *)
(* handed over, the case that fired, ChanClosed, TimeoutError.  The caller *)
(* reads the waiter without a lock, after the committer wrote it.          *)
ReturnsAgree == \A p \in Procs : pc[p] = "idle" /\ nops[p] > 0 => res[p] = lin[Cur(p)]

(* Nobody sleeps on something that is ready: a parked receiver means an    *)
(* empty buffer and no sender parked by another operation, a parked sender *)
(* a full buffer, and a closed channel has nobody in its queues.           *)
NoMissedMatch ==
  \A c \in Chans :
    /\ closed[c] => recvQ[c] = <<>> /\ sendQ[c] = <<>>
    /\ \A j \in DOMAIN recvQ[c] : Unclaimed(recvQ[c][j].w) =>
         /\ buf[c] = <<>>
         /\ \A k \in DOMAIN sendQ[c] :
              Unclaimed(sendQ[c][k].w) => sendQ[c][k].w = recvQ[c][j].w
    /\ \A k \in DOMAIN sendQ[c] :
         Unclaimed(sendQ[c][k].w) => Len(buf[c]) >= Cap[c]

(* The call that registered entry e has not returned.                      *)
Registered(e) == e.w = Cur(e.w[1]) /\ pc[e.w[1]] \notin {"idle", "start"}

Go == INSTANCE GoChan

(* The channel does what GoChan promises: every step is one of GoChan's,   *)
(* or leaves its variables alone.                                          *)
Promise == Go!Spec

(* Once an operation is decided its caller returns: a wake up is never     *)
(* lost between commit() and finish(), whoever else runs there.            *)
DecidedReturns ==
  \A p \in Procs :
    (pc[p] # "idle" /\ lin[Cur(p)].st # "pending") ~> (pc[p] = "idle")

(* send and recv with a timeout come back, also when the other party       *)
(* decides them while they expire.                                         *)
TimedReturns ==
  \A p \in Procs : (pc[p] # "idle" /\ call[p].wait = "timed") ~> (pc[p] = "idle")

(* Everybody parked on a channel that closes comes back ("Wakes everything *)
(* currently parked on the channel", close).                               *)
CloseWakes ==
  \A p \in Procs :
    (pc[p] = "parked" /\ \E i \in DOMAIN call[p].cases : closed[Ch(p, i)]) ~> (pc[p] = "idle")
=============================================================================
