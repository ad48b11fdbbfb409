------------------------------- MODULE Select -------------------------------
(***************************************************************************)
(* select() of _select.py over the channels of Chan: one pass over the     *)
(* cases that locks one channel at a time, then all channel locks in id    *)
(* order, a second pass, one waiter registered with every case, and the    *)
(* clean-up of the cases that lost.  select() of one case without default  *)
(* is the plain operation, as in the code.  Threads that select and        *)
(* threads that make plain calls share the channels.                       *)
(***************************************************************************)
EXTENDS Chan, FiniteSets

VARIABLES
  order,   \* order[p]: the shuffled case indices, used by both passes
  at,      \* at[p]: the position in order[p] the current pass is at
  left     \* left[p]: channels still to lock, or to unregister from

selVars == <<order, at, left>>
allVars == <<vars, selVars>>

SelectInit ==
  /\ Init
  /\ order = [p \in Procs |-> <<>>]
  /\ at = [p \in Procs |-> 1]
  /\ left = [p \in Procs |-> {}]

SelChans(p) == {Ch(p, i) : i \in DOMAIN call[p].cases}
Least(S) == CHOOSE c \in S : \A d \in S : c <= d

Orders(cases) ==
  {o \in [1..Cardinality(DOMAIN cases) -> DOMAIN cases] :
     \A i \in DOMAIN cases : \E k \in DOMAIN o : o[k] = i}

(* A call starts; a select shuffles its cases.                             *)
Call(p) ==
  /\ Invoke(p)
  /\ \E o \in Orders(call'[p].cases) : order' = [order EXCEPT ![p] = o]
  /\ at' = [at EXCEPT ![p] = 1]
  /\ UNCHANGED left

Selecting(p, at_pc) == pc[p] = at_pc /\ ~Plain(p)
MoreCases(p) == at[p] \in DOMAIN order[p]

(* The case under the cursor can proceed: the poll of the plain operation. *)
PassHit(p) ==
  /\ Selecting(p, "start") \/ Selecting(p, "recheck")
  /\ MoreCases(p)
  /\ \E c \in Chans : PollHit(p, order[p][at[p]], c)
  /\ UNCHANGED selVars

(* It cannot.                                                              *)
PassMiss(p) ==
  /\ Selecting(p, "start") \/ Selecting(p, "recheck")
  /\ MoreCases(p)
  /\ \E c \in Chans, dir \in {"send", "recv"} :
       /\ Polls(p, order[p][at[p]], dir, c)
       /\ Missed(dir, c)
       /\ recvQ' = IF dir = "send" THEN [recvQ EXCEPT ![c] = <<>>] ELSE recvQ
       /\ sendQ' = IF dir = "recv" THEN [sendQ EXCEPT ![c] = <<>>] ELSE sendQ
  /\ at' = [at EXCEPT ![p] = @ + 1]
  /\ UNCHANGED <<goVars, lock, waiters, pc, hand, wake, res, order, left>>

(* Nothing was ready, one case after the other.                            *)
TakeDefault(p) ==
  /\ Selecting(p, "start")
  /\ ~MoreCases(p)
  /\ call[p].wait = "default"
  /\ TakeEffect(p, Outcome("wouldblock", NoIndex, Unset))
  /\ UNCHANGED <<closed, buf, nops, call, recvQ, sendQ, waiters, hand, wake, selVars>>

StartLocking(p) ==
  /\ Selecting(p, "start")
  /\ ~MoreCases(p)
  /\ call[p].wait # "default"
  /\ left' = [left EXCEPT ![p] = SelChans(p)]
  /\ pc' = [pc EXCEPT ![p] = "locking"]
  /\ UNCHANGED <<goVars, recvQ, sendQ, lock, waiters, hand, wake, res, order, at>>

(* Every channel lock, in the canonical order; then the second pass.       *)
BugUnordered(p) ==
  /\ Selecting(p, "locking")
  /\ \E c \in left[p] :
       /\ lock[c] = NoProc
       /\ lock' = [lock EXCEPT ![c] = p]
       /\ left' = [left EXCEPT ![p] = @ \ {c}]
  /\ pc' = IF left'[p] = {} THEN [pc EXCEPT ![p] = "recheck"] ELSE pc
  /\ at' = [at EXCEPT ![p] = 1]
  /\ UNCHANGED <<goVars, recvQ, sendQ, waiters, hand, wake, res, order>>
BugNoRecheck(p) ==
  /\ Selecting(p, "locking")
  /\ LET c == Least(left[p])
     IN  /\ lock[c] = NoProc
         /\ lock' = [lock EXCEPT ![c] = p]
         /\ left' = [left EXCEPT ![p] = @ \ {c}]
  /\ pc' = IF left'[p] = {} THEN [pc EXCEPT ![p] = "recheck"] ELSE pc
  /\ UNCHANGED <<goVars, recvQ, sendQ, waiters, hand, wake, res, order, at>>
Acquire(p) ==
  /\ Selecting(p, "locking")
  /\ LET c == Least(left[p])
     IN  /\ lock[c] = NoProc
         /\ lock' = [lock EXCEPT ![c] = p]
         /\ left' = [left EXCEPT ![p] = @ \ {c}]
  /\ pc' = IF left'[p] = {} THEN [pc EXCEPT ![p] = "recheck"] ELSE pc
  /\ at' = [at EXCEPT ![p] = 1]
  /\ UNCHANGED <<goVars, recvQ, sendQ, waiters, hand, wake, res, order>>

(* The k-th number of S, a finite set.                                     *)
Nth(S, k) == CHOOSE j \in S : Cardinality({i \in S : i < j}) = k - 1

(* The entries of p's waiter for the cases of one direction on c.          *)
Entries(p, dir, c) ==
  LET mine == {i \in DOMAIN call[p].cases : Dir(p, i) = dir /\ Ch(p, i) = c}
  IN  [k \in 1..Cardinality(mine) |-> NewEntry(p, Nth(mine, k))]

(* Still nothing with every lock held: park one waiter everywhere and let  *)
(* the locks go.                                                           *)
Register(p) ==
  /\ Selecting(p, "recheck")
  /\ ~MoreCases(p)
  /\ recvQ' = [c \in Chans |-> recvQ[c] \o Entries(p, "recv", c)]
  /\ sendQ' = [c \in Chans |-> sendQ[c] \o Entries(p, "send", c)]
  /\ lock' = Unlocked(p)
  /\ left' = [left EXCEPT ![p] = SelChans(p)]
  /\ pc' = [pc EXCEPT ![p] = "parked"]
  /\ UNCHANGED <<goVars, waiters, hand, wake, res, order, at>>

SelectWake(p) ==
  /\ Selecting(p, "parked") \/ Selecting(p, "claimed")
  /\ released[Cur(p)]
  /\ pc' = [pc EXCEPT ![p] = "cleanup"]
  /\ UNCHANGED <<goVars, recvQ, sendQ, lock, waiters, hand, wake, res, selVars>>

(* _unregister() from one channel after the other, then return or raise.   *)
Dropped(q, w) ==
  LET kept == {j \in DOMAIN q : q[j].w # w}
  IN  [k \in 1..Cardinality(kept) |-> q[Nth(kept, k)]]

Unregister(p) ==
  /\ Selecting(p, "cleanup") \/ Selecting(p, "withdraw")
  /\ LET c == Least(left[p])
     IN  /\ CanLock(p, c)
         /\ recvQ' = [recvQ EXCEPT ![c] = Dropped(@, Cur(p))]
         /\ sendQ' = [sendQ EXCEPT ![c] = Dropped(@, Cur(p))]
         /\ left' = [left EXCEPT ![p] = @ \ {c}]
  /\ IF left'[p] # {} THEN UNCHANGED <<pc, res, lock>>
     ELSE Return(p, IF pc[p] = "withdraw"
                    THEN Outcome("timeout", TimeoutIndex, Unset) ELSE Woken(p))
  /\ UNCHANGED <<goVars, waiters, hand, wake, order, at>>

SelectStep(p) ==
  \/ Step(p) /\ UNCHANGED selVars
  \/ PassHit(p)
  \/ PassMiss(p)
  \/ TakeDefault(p)
  \/ StartLocking(p)
  \/ Acquire(p)
  \/ Register(p)
  \/ SelectWake(p)
  \/ Unregister(p)

SelectNext == \E p \in Procs : Call(p) \/ SelectStep(p)

SelectSpec == SelectInit /\ [][SelectNext]_allVars

(* Threads are scheduled: one inside the library that can go on does.      *)
FairSelectSpec == SelectSpec /\ \A p \in Procs : WF_allVars(SelectStep(p))

-----------------------------------------------------------------------------
(* Properties; those of Chan are about both.                               *)

(* Types; a select has a cursor in its shuffled cases, and only channels   *)
(* of its cases to lock or to unregister from.                             *)
SelectTypeOK ==
  /\ DataTypeOK
  /\ pc \in [Procs -> PCs \cup {"locking", "recheck", "cleanup"}]
  /\ \A p \in Procs :
       /\ order[p] \in Seq(DOMAIN call[p].cases)
       /\ at[p] \in 1..(Len(order[p]) + 1)
       /\ left[p] \subseteq SelChans(p)

Holds(p) == \E c \in Chans : lock[c] = p

(* The locks cannot form a cycle: of the threads that hold channel locks,  *)
(* one is not waiting for a lock another one holds.                        *)
HolderCanGoOn ==
  (\E p \in Procs : Holds(p)) =>
    \E p \in Procs : Holds(p) /\ (pc[p] = "locking" => lock[Least(left[p])] = NoProc)
=============================================================================
