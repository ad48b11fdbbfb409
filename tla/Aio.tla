-------------------------------- MODULE Aio --------------------------------
(***************************************************************************)
(* The asyncio bridge of aio.py: tasks that use the channels of Chan and   *)
(* Select beside threads.                                                  *)
(*                                                                         *)
(* A task polls and registers like a thread, with the locked polls the     *)
(* threads use; it waits for a future instead of a lock.  The callbacks of *)
(* its event loop are _resolve, posted by finish(); on_timeout; and the    *)
(* cancellation of the task.  They and the tasks run on one thread: none   *)
(* starts before the other reached an await or ended.  The loop may close  *)
(* when its tasks have ended.                                              *)
(*                                                                         *)
(* _resolve is posted when the waiter was finished: released says so.      *)
(***************************************************************************)
EXTENDS Select

CONSTANT Tasks   \* the members of Procs that are tasks of the loop

ASSUME AioAssumption == Tasks \subseteq Procs

VARIABLES
  future,   \* future[w]: the future of w's _AsyncWaiter is done
  loopOpen  \* the event loop was not closed

aioVars == <<allVars, future, loopOpen>>
tasksOnly == <<future, loopOpen>>

AioInit ==
  /\ SelectInit
  /\ future = [w \in Op |-> FALSE]
  /\ loopOpen = TRUE

Threads == Procs \ Tasks

(* The loop runs one callback at a time.                                   *)
OnLoop(p) == \A q \in Tasks \ {p} : pc[q] \in {"idle", "parked"}

-----------------------------------------------------------------------------
(* Steps tasks share with threads.                                         *)

AioCall(p) ==
  /\ Call(p)
  /\ p \in Tasks => loopOpen /\ OnLoop(p)
  /\ UNCHANGED tasksOnly

PollAndPark(p) ==
  \/ Poll(p) /\ UNCHANGED selVars
  \/ Park(p) /\ UNCHANGED selVars
  \/ PassHit(p)
  \/ PassMiss(p)
  \/ TakeDefault(p)
  \/ StartLocking(p)
  \/ Acquire(p)
  \/ Register(p)

WaitAsThread(p) ==
  \/ /\ \/ TryMiss(p)
        \/ Wake(p)
        \/ Expire(p)
        \/ ClaimTimeout(p)
        \/ LoseTimeout(p)
        \/ Withdraw(p)
     /\ UNCHANGED selVars
  \/ SelectWake(p)
  \/ Unregister(p)

CloseSteps(p) == (CloseAgain(p) \/ CloseMark(p) \/ CloseCommit(p) \/ CloseDone(p)) /\ UNCHANGED selVars

(* finish() posts _resolve to the loop of the waiter, ...                  *)
LoopGone(w) == w[1] \in Tasks /\ ~loopOpen
AioFinish(p) ==
  /\ pc[p] \in {"finish", "closefinish"}
  /\ ~LoopGone(hand[p].w)
  /\ Finish(p) \/ CloseFinish(p)
  /\ UNCHANGED selVars

(* ... which raises RuntimeError when that loop is closed: out of the      *)
(* send, recv or close of whoever completed the waiter.                    *)
FinishRaises(p) ==
  /\ pc[p] \in {"finish", "closefinish"}
  /\ LoopGone(hand[p].w)
  /\ value' = [value EXCEPT ![hand[p].w] = hand[p].v]
  /\ released' = [released EXCEPT ![hand[p].w] = TRUE]
  /\ hand' = [hand EXCEPT ![p] = NoHand]
  /\ wake' = [wake EXCEPT ![p] = <<>>]
  /\ Return(p, Outcome("raised", NoIndex, Unset))
  /\ UNCHANGED <<goVars, recvQ, sendQ, index, selVars>>

-----------------------------------------------------------------------------
(* Callbacks of the loop, and what the task does when it goes on.          *)

BugAtCommit(p) ==
  /\ pc[p] = "parked"
  /\ ~Unclaimed(Cur(p))
  /\ ~future[Cur(p)]
  /\ future' = [future EXCEPT ![Cur(p)] = TRUE]
  /\ UNCHANGED <<allVars, loopOpen>>
Resolve(p) ==
  /\ pc[p] = "parked"
  /\ released[Cur(p)]
  /\ ~future[Cur(p)]
  /\ future' = [future EXCEPT ![Cur(p)] = TRUE]
  /\ UNCHANGED <<allVars, loopOpen>>

(* Commit p's own waiter; if that fails the other party decided it.        *)
CommitSelf(p, st, then) ==
  /\ Unclaimed(Cur(p))
  /\ index' = [index EXCEPT ![Cur(p)] = TimeoutIndex]
  /\ lin' = [lin EXCEPT ![Cur(p)] = Outcome(st, TimeoutIndex, Unset)]
  /\ left' = [left EXCEPT ![p] = SelChans(p)]
  /\ pc' = [pc EXCEPT ![p] = then]
  /\ UNCHANGED <<closed, buf, nops, call, recvQ, sendQ, lock, value, released, hand, wake,
                 res, order, at, tasksOnly>>

OnTimeout(p) ==
  /\ pc[p] = "parked"
  /\ call[p].wait = "timed"
  /\ CommitSelf(p, "timeout", "expired")

(* on_timeout resolves the future also when commit() was lost.             *)
OnTimeoutLate(p) ==
  /\ pc[p] = "parked"
  /\ call[p].wait = "timed"
  /\ index[Cur(p)] \notin {NoIndex, TimeoutIndex}
  /\ ~future[Cur(p)]
  /\ future' = [future EXCEPT ![Cur(p)] = TRUE]
  /\ UNCHANGED <<allVars, loopOpen>>

(* Drop the entries on one channel after the other, and then Last.         *)
DropFrom(p, Last) ==
  /\ LET c == Least(left[p])
     IN  /\ CanLock(p, c)
         /\ recvQ' = [recvQ EXCEPT ![c] = Dropped(@, Cur(p))]
         /\ sendQ' = [sendQ EXCEPT ![c] = Dropped(@, Cur(p))]
         /\ left' = [left EXCEPT ![p] = @ \ {c}]
  /\ IF left'[p] = {} THEN Last ELSE UNCHANGED <<pc, res, lock, future>>
  /\ UNCHANGED <<goVars, waiters, hand, wake, order, at, loopOpen>>

BugForgetFuture(p) ==
  pc[p] = "expired" /\ DropFrom(p, pc' = [pc EXCEPT ![p] = "parked"] /\ UNCHANGED <<res, lock, future>>)
EndTimeout(p) ==
  pc[p] = "expired" /\ DropFrom(p, /\ pc' = [pc EXCEPT ![p] = "parked"]
                                   /\ future' = [future EXCEPT ![Cur(p)] = TRUE]
                                   /\ UNCHANGED <<res, lock>>)

(* task.cancel(): the await raises CancelledError, which the operation     *)
(* passes on.                                                              *)
BugOnlyRaise(p) ==
  /\ pc[p] = "parked"
  /\ Return(p, Outcome("cancelled", NoIndex, Unset))
  /\ UNCHANGED <<goVars, recvQ, sendQ, waiters, hand, wake, selVars, tasksOnly>>
Cancel(p) ==
  /\ pc[p] = "parked"
  /\ \/ CommitSelf(p, "cancelled", "cancelling")
     \/ /\ ~Unclaimed(Cur(p))
        /\ Return(p, Outcome("cancelled", NoIndex, Unset))
        /\ UNCHANGED <<goVars, recvQ, sendQ, waiters, hand, wake, selVars, tasksOnly>>

EndCancel(p) ==
  pc[p] = "cancelling"
    /\ DropFrom(p, Return(p, Outcome("cancelled", NoIndex, Unset)) /\ UNCHANGED future)

(* What the task makes of its waiter: aio.send asserts _SEND_OK.           *)
TaskResult(p) ==
  LET w == Cur(p)
  IN  IF index[w] = TimeoutIndex THEN Outcome("timeout", TimeoutIndex, Unset)
      ELSE IF Plain(p) /\ Dir(p, 0) = "send" /\ value[w] = Unset
      THEN Outcome("raised", NoIndex, Unset)
      ELSE Woken(p)

Resume(p) ==
  /\ pc[p] = "parked"
  /\ future[Cur(p)]
  /\ IF Plain(p)
     THEN Return(p, TaskResult(p)) /\ UNCHANGED left
     ELSE /\ pc' = [pc EXCEPT ![p] = "cleanup"]
          /\ left' = [left EXCEPT ![p] = SelChans(p)]
          /\ UNCHANGED <<res, lock>>
  /\ UNCHANGED <<goVars, recvQ, sendQ, waiters, hand, wake, order, at, tasksOnly>>

CleanUp(p) ==
  pc[p] = "cleanup" /\ DropFrom(p, Return(p, TaskResult(p)) /\ UNCHANGED future)

CloseLoop ==
  /\ Tasks # {} /\ \A p \in Tasks : pc[p] = "idle"
  /\ loopOpen
  /\ loopOpen' = FALSE
  /\ UNCHANGED <<allVars, future>>

-----------------------------------------------------------------------------
TaskStep(p) ==
  \/ Resolve(p)
  \/ OnTimeout(p)
  \/ OnTimeoutLate(p)
  \/ EndTimeout(p)
  \/ Resume(p)
  \/ CleanUp(p)
  \/ EndCancel(p)

CommonStep(p) ==
  /\ PollAndPark(p) \/ CloseSteps(p) \/ AioFinish(p) \/ FinishRaises(p)
  /\ UNCHANGED tasksOnly

AioStep(p) ==
  \/ p \in Threads /\ (CommonStep(p) \/ (WaitAsThread(p) /\ UNCHANGED tasksOnly))
  \/ p \in Tasks /\ OnLoop(p) /\ (CommonStep(p) \/ TaskStep(p))

AioNext ==
  \/ \E p \in Procs : AioCall(p) \/ AioStep(p)
  \/ \E p \in Tasks : OnLoop(p) /\ Cancel(p)
  \/ CloseLoop

AioSpec == AioInit /\ [][AioNext]_aioVars

(* Threads run, the loop runs its callbacks, timers among them.  Nothing   *)
(* obliges anybody to cancel a task or to close the loop.                  *)
FairAioSpec == AioSpec /\ \A p \in Procs : WF_aioVars(AioStep(p))

-----------------------------------------------------------------------------
(* Types; a future is done only if its waiter was claimed, and the tasks   *)
(* of a closed loop are over.                                              *)
AioTypeOK ==
  /\ lin \in [Op -> Outcomes(Op \cup {Unset})]
  /\ res \in [Procs -> Outcomes(Values)]
  /\ index \in [Op -> Nat \cup {NoIndex, TimeoutIndex}]
  /\ pc \in [Procs -> PCs \cup {"locking", "recheck", "cleanup", "cancelling"}]
  /\ \A w \in Op : future[w] => w[1] \in Tasks /\ ~Unclaimed(w)
  /\ \A p \in Tasks : pc[p] # "idle" => loopOpen

(* What task.cancel() may do to an operation: nothing of it happens.       *)
Abandon ==
  \E p \in Tasks :
    /\ Go!Pending(p)
    /\ lin' = [lin EXCEPT ![Cur(p)] = Outcome("cancelled", TimeoutIndex, Unset)]
    /\ UNCHANGED <<closed, buf, nops, call>>

(* The channels keep the promise of GoChan to tasks as well; a cancelled   *)
(* operation has no effect ("race for completion on equal terms", class    *)
(* _AsyncWaiter), unless somebody completed it before.                     *)
AioPromise == Go!Init /\ [][Go!Next \/ Abandon]_goVars

(* A queue keeps no entry that could still take a value for a call that   *)
(* returned: a cancelled or timed out task leaves nothing alive behind.    *)
NoLiveGhosts ==
  \A c \in Chans :
    /\ \A j \in DOMAIN recvQ[c] : Unclaimed(recvQ[c][j].w) => Registered(recvQ[c][j])
    /\ \A j \in DOMAIN sendQ[c] : Unclaimed(sendQ[c][j].w) => Registered(sendQ[c][j])

(* A task whose call has no timeout learns, like a thread, what happened   *)
(* to its operation: the event loop resumes it after finish(), not after   *)
(* commit().  A cancelled one may have happened.                           *)
TasksAgree ==
  \A p \in Tasks :
    pc[p] = "idle" /\ nops[p] > 0 /\ call[p].wait # "timed" =>
      res[p] = lin[Cur(p)] \/ res[p].st = "cancelled"

(* A value is dropped only if the task that was to receive it was          *)
(* cancelled ("for recv the delivered value is dropped", aio.py).          *)
ValueArrives ==
  \A p \in Tasks :
    pc[p] = "idle" /\ nops[p] > 0 /\ lin[Cur(p)].got # Unset =>
      res[p].got = lin[Cur(p)].got \/ res[p].st = "cancelled"
=============================================================================
