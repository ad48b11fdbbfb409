----------------------------- MODULE SyncProofs -----------------------------
(***************************************************************************)
(* RWMutex is correct for every finite number of readers and writers.      *)
(* TypeOK, Exclusion and NoLostWakeup are inductive together: that the     *)
(* counters are exact makes the tests of rlock and lock tests of who is    *)
(* in, and who waits.                                                      *)
(*                                                                         *)
(* Once runs its function once and gives everybody the first outcome, for  *)
(* any set of threads and of outcomes.  The invariant ties the unlocked    *)
(* flag to the executions: while it is down, an execution has ended only   *)
(* if its thread still holds the lock.                                     *)
(***************************************************************************)
EXTENDS RWMutex, Once, FiniteSetTheorems, TLAPS

IInv == TypeOK /\ Exclusion /\ NoLostWakeup

(* A group of threads is finite, and empty when its number is 0.           *)
LEMMA Groups ==
  ASSUME NEW S, S = Readers \/ S = Writers
  PROVE  /\ IsFiniteSet(In(S)) /\ IsFiniteSet(Waiting(S))
         /\ Cardinality(In(S)) \in Nat /\ Cardinality(Waiting(S)) \in Nat
         /\ Cardinality(In(S)) = 0 <=> In(S) = {}
         /\ Cardinality(Waiting(S)) = 0 <=> Waiting(S) = {}
<1>1. IsFiniteSet(S)
  BY RWAssumption
<1>2. In(S) \subseteq S /\ Waiting(S) \subseteq S
  BY DEF In, Waiting
<1>3. IsFiniteSet(In(S)) /\ IsFiniteSet(Waiting(S))
  BY <1>1, <1>2, FS_Subset
<1> QED
  BY <1>3, FS_CardinalityType, FS_EmptySet

(* What the two tests say, when the counters are exact.                    *)
LEMMA Tests ==
  ASSUME TypeOK
  PROVE  /\ BlocksReaders <=> In(Writers) \cup Waiting(Writers) # {}
         /\ BlocksWriters <=> In(Threads) # {}
         /\ readers \in Nat /\ writersWaiting \in Nat
<1>1. In(Threads) = In(Readers) \cup In(Writers)
  BY DEF In, Threads
<1> QED
  BY <1>1, Groups DEF TypeOK, BlocksReaders, BlocksWriters

(* One thread comes to or leaves a finite group of threads.                *)
LEMMA Moves ==
  ASSUME NEW S, IsFiniteSet(S), NEW p
  PROVE  /\ p \notin S => Cardinality(S \cup {p}) = Cardinality(S) + 1
         /\ p \in S => Cardinality(S \ {p}) = Cardinality(S) - 1
BY FS_AddElement, FS_RemoveElement

LEMMA InitInv == Init => IInv
<1> SUFFICES ASSUME Init PROVE IInv
  OBVIOUS
<1>1. /\ \A S \in SUBSET Threads : In(S) = {} /\ Waiting(S) = {}
      /\ Readers \in SUBSET Threads /\ Writers \in SUBSET Threads /\ Threads \in SUBSET Threads
  BY DEF Init, In, Waiting, Threads
<1>2. Cardinality(In(Readers)) = 0 /\ Cardinality(In(Writers)) = 0 /\ Cardinality(Waiting(Writers)) = 0
  BY <1>1, FS_EmptySet
<1>3. TypeOK
  BY <1>1, <1>2 DEF Init, TypeOK
<1> QED
  BY <1>1, <1>3 DEF Init, IInv, Exclusion, NoLostWakeup

(* How the groups change when thread p goes from one place to another.     *)
LEMMA Regroup ==
  ASSUME TypeOK, NEW p \in Threads, NEW to \in {"out", "waiting", "in"}, Go(p, to)
  PROVE  /\ pc' \in [Threads -> {"out", "waiting", "in"}]
         /\ pc'[p] = to
         /\ \A S \in SUBSET Threads :
              /\ In(S)' = IF to = "in" /\ p \in S THEN In(S) \cup {p} ELSE In(S) \ {p}
              /\ Waiting(S)' = IF to = "waiting" /\ p \in S THEN Waiting(S) \cup {p}
                               ELSE Waiting(S) \ {p}
BY DEF TypeOK, Go, In, Waiting

LEMMA RLockInv == ASSUME IInv, NEW p \in Readers, RLock(p) PROVE IInv'
<1> USE DEF IInv
<1>1. /\ p \in Threads /\ p \notin Writers
      /\ Readers \in SUBSET Threads /\ Writers \in SUBSET Threads /\ Threads \in SUBSET Threads
  BY RWAssumption DEF Threads
<1>2. pc[p] \in {"out", "waiting"} /\ p \notin asleep /\ p \notin In(Threads) /\ p \notin In(Readers)
  BY DEF RLock, In
<1>3. In(Threads) = In(Readers) \cup In(Writers)
  BY DEF In, Threads
<1>4. CASE BlocksReaders
  <2>1. Sleep(p) /\ UNCHANGED <<readers, writer, writersWaiting>>
    BY <1>4 DEF RLock
  <2>2. /\ In(Readers)' = In(Readers) /\ In(Writers)' = In(Writers) /\ In(Threads)' = In(Threads)
        /\ Waiting(Writers)' = Waiting(Writers) /\ Waiting(Threads)' = Waiting(Threads) \cup {p}
        /\ pc' \in [Threads -> {"out", "waiting", "in"}]
    <3> DEFINE to == "waiting"
    <3>1. Go(p, to)
      BY <2>1 DEF Sleep
    <3>2. /\ pc' \in [Threads -> {"out", "waiting", "in"}]
          /\ \A S \in SUBSET Threads :
               /\ In(S)' = In(S) \ {p}
               /\ Waiting(S)' = IF p \in S THEN Waiting(S) \cup {p} ELSE Waiting(S) \ {p}
      BY <1>1, <3>1, Regroup
    <3> QED
      BY <1>1, <1>2, <1>3, <3>2 DEF Waiting, In
  <2>3. TypeOK'
    BY <2>1, <2>2 DEF TypeOK, Sleep
  <2>4. In(Writers) \cup Waiting(Writers) # {}
    BY <1>4, Tests
  <2> QED
    BY <1>1, <2>1, <2>2, <2>3, <2>4 DEF Exclusion, NoLostWakeup, Sleep
<1>5. CASE ~BlocksReaders
  <2>1. readers' = readers + 1 /\ Go(p, "in") /\ UNCHANGED <<asleep, writer, writersWaiting>>
    BY <1>5 DEF RLock
  <2>2. /\ In(Readers)' = In(Readers) \cup {p} /\ In(Writers)' = In(Writers)
        /\ In(Threads)' = In(Threads) \cup {p}
        /\ Waiting(Writers)' = Waiting(Writers) /\ Waiting(Threads)' = Waiting(Threads) \ {p}
        /\ pc' \in [Threads -> {"out", "waiting", "in"}]
    <3>1. /\ pc' \in [Threads -> {"out", "waiting", "in"}]
          /\ \A S \in SUBSET Threads :
               /\ In(S)' = IF p \in S THEN In(S) \cup {p} ELSE In(S) \ {p}
               /\ Waiting(S)' = Waiting(S) \ {p}
      BY <1>1, <2>1, Regroup
    <3> QED
      BY <1>1, <3>1 DEF Waiting, In
  <2>3. Cardinality(In(Readers)') = readers + 1
    BY <1>2, <2>2, Groups, Moves DEF TypeOK
  <2>4. In(Writers) = {}
    BY <1>5, Tests
  <2>5. TypeOK'
    BY <1>2, <2>1, <2>2, <2>3 DEF TypeOK
  <2> QED
    BY <2>1, <2>2, <2>4, <2>5 DEF Exclusion, NoLostWakeup
<1> QED
  BY <1>4, <1>5

LEMMA RUnlockInv == ASSUME IInv, NEW p \in Readers, RUnlock(p) PROVE IInv'
<1> USE DEF IInv
<1>1. /\ p \in Threads /\ p \notin Writers
      /\ Readers \in SUBSET Threads /\ Writers \in SUBSET Threads /\ Threads \in SUBSET Threads
  BY RWAssumption DEF Threads
<1>2. /\ p \in In(Readers) /\ p \notin Waiting(Threads)
      /\ readers' = readers - 1 /\ Go(p, "out") /\ UNCHANGED <<writer, writersWaiting>>
      /\ asleep' = IF readers' = 0 THEN {} ELSE asleep
  BY DEF RUnlock, In, Waiting
<1>3. In(Threads)' = In(Readers)' \cup In(Writers)'
  BY DEF In, Threads
<1>4. /\ In(Readers)' = In(Readers) \ {p} /\ In(Writers)' = In(Writers)
      /\ Waiting(Writers)' = Waiting(Writers) /\ Waiting(Threads)' = Waiting(Threads)
      /\ pc' \in [Threads -> {"out", "waiting", "in"}]
  <2>1. /\ pc' \in [Threads -> {"out", "waiting", "in"}]
        /\ \A S \in SUBSET Threads : In(S)' = In(S) \ {p} /\ Waiting(S)' = Waiting(S) \ {p}
    BY <1>1, <1>2, Regroup
  <2> QED
    BY <1>1, <1>2, <2>1 DEF Waiting, In
<1>5. Cardinality(In(Readers)') = readers - 1
  BY <1>2, <1>4, Groups, Moves DEF TypeOK
<1>6. TypeOK'
  BY <1>2, <1>4, <1>5 DEF TypeOK
<1>7. readers' # 0 => In(Readers)' # {}
  BY <1>2, <1>4, <1>5, FS_EmptySet
<1> QED
  BY <1>2, <1>3, <1>4, <1>6, <1>7 DEF Exclusion, NoLostWakeup

LEMMA LockInv == ASSUME IInv, NEW p \in Writers, Lock(p) PROVE IInv'
<1> USE DEF IInv
<1>1. /\ p \in Threads /\ p \notin Readers
      /\ Readers \in SUBSET Threads /\ Writers \in SUBSET Threads /\ Threads \in SUBSET Threads
  BY RWAssumption DEF Threads
<1>2. /\ pc[p] \in {"out", "waiting"} /\ p \notin asleep
      /\ p \notin In(Threads) /\ p \notin In(Writers)
      /\ pc[p] = "out" <=> p \notin Waiting(Writers)
  BY DEF Lock, In, Waiting
<1>3. In(Threads) = In(Readers) \cup In(Writers) /\ In(Threads)' = In(Readers)' \cup In(Writers)'
  BY DEF In, Threads
<1>4. Counted(p) = Cardinality(Waiting(Writers) \cup {p})
  <2>1. CASE p \in Waiting(Writers)
    BY <1>2, <2>1 DEF Counted, TypeOK
  <2>2. CASE p \notin Waiting(Writers)
    BY <1>2, <2>2, Groups, Moves DEF Counted, TypeOK
  <2> QED
    BY <2>1, <2>2
<1>5. CASE BlocksWriters
  <2>1. Sleep(p) /\ writersWaiting' = Counted(p) /\ UNCHANGED <<readers, writer>>
    BY <1>5 DEF Lock
  <2>2. /\ In(Readers)' = In(Readers) /\ In(Writers)' = In(Writers) /\ In(Threads)' = In(Threads)
        /\ Waiting(Writers)' = Waiting(Writers) \cup {p}
        /\ Waiting(Threads)' = Waiting(Threads) \cup {p}
        /\ pc' \in [Threads -> {"out", "waiting", "in"}]
    <3> DEFINE to == "waiting"
    <3>1. Go(p, to)
      BY <2>1 DEF Sleep
    <3>2. /\ pc' \in [Threads -> {"out", "waiting", "in"}]
          /\ \A S \in SUBSET Threads :
               /\ In(S)' = In(S) \ {p}
               /\ Waiting(S)' = IF p \in S THEN Waiting(S) \cup {p} ELSE Waiting(S) \ {p}
      BY <1>1, <3>1, Regroup
    <3> QED
      BY <1>1, <1>2, <1>3, <3>2 DEF In
  <2>3. TypeOK'
    BY <1>4, <2>1, <2>2 DEF TypeOK, Sleep
  <2>4. In(Threads) # {}
    BY <1>5, Tests
  <2> QED
    BY <2>1, <2>2, <2>3, <2>4 DEF Exclusion, NoLostWakeup, Sleep
<1>6. CASE ~BlocksWriters
  <2>1. /\ writersWaiting' = Counted(p) - 1 /\ writer' = TRUE /\ Go(p, "in")
        /\ UNCHANGED <<asleep, readers>>
    BY <1>6 DEF Lock
  <2>2. /\ In(Readers)' = In(Readers) /\ In(Writers)' = In(Writers) \cup {p}
        /\ Waiting(Writers)' = (Waiting(Writers) \cup {p}) \ {p}
        /\ Waiting(Threads)' = Waiting(Threads) \ {p}
        /\ pc' \in [Threads -> {"out", "waiting", "in"}]
    <3>1. /\ pc' \in [Threads -> {"out", "waiting", "in"}]
          /\ \A S \in SUBSET Threads :
               /\ In(S)' = IF p \in S THEN In(S) \cup {p} ELSE In(S) \ {p}
               /\ Waiting(S)' = Waiting(S) \ {p}
      BY <1>1, <2>1, Regroup
    <3> QED
      BY <1>1, <3>1 DEF In
  <2>3. Cardinality(Waiting(Writers)') = Counted(p) - 1
    <3>1. IsFiniteSet(Waiting(Writers) \cup {p})
      BY Groups, FS_AddElement
    <3> QED
      BY <1>4, <2>2, <3>1, Moves
  <2>4. In(Readers) = {} /\ In(Writers) = {}
    BY <1>3, <1>6, Tests
  <2>5. TypeOK'
    BY <1>2, <2>1, <2>2, <2>3 DEF TypeOK
  <2> QED
    BY <1>3, <2>1, <2>2, <2>4, <2>5 DEF Exclusion, NoLostWakeup
<1> QED
  BY <1>5, <1>6

LEMMA UnlockInv == ASSUME IInv, NEW p \in Writers, Unlock(p) PROVE IInv'
<1> USE DEF IInv
<1>1. /\ p \in Threads /\ p \notin Readers
      /\ Readers \in SUBSET Threads /\ Writers \in SUBSET Threads /\ Threads \in SUBSET Threads
  BY RWAssumption DEF Threads
<1>2. /\ p \in In(Writers) /\ p \notin Waiting(Threads) /\ In(Writers) = {p}
      /\ writer' = FALSE /\ asleep' = {} /\ Go(p, "out") /\ UNCHANGED <<readers, writersWaiting>>
  BY DEF Unlock, In, Waiting, Exclusion
<1>3. /\ In(Readers)' = In(Readers) /\ In(Writers)' = {}
      /\ Waiting(Writers)' = Waiting(Writers) /\ Waiting(Threads)' = Waiting(Threads)
      /\ pc' \in [Threads -> {"out", "waiting", "in"}]
  <2>1. /\ pc' \in [Threads -> {"out", "waiting", "in"}]
        /\ \A S \in SUBSET Threads : In(S)' = In(S) \ {p} /\ Waiting(S)' = Waiting(S) \ {p}
    BY <1>1, <1>2, Regroup
  <2> QED
    BY <1>1, <1>2, <2>1 DEF Waiting, In
<1>4. TypeOK'
  BY <1>2, <1>3 DEF TypeOK
<1> QED
  BY <1>2, <1>3, <1>4 DEF Exclusion, NoLostWakeup

LEMMA NextInv == IInv /\ [Next]_vars => IInv'
<1> SUFFICES ASSUME IInv, [Next]_vars PROVE IInv'
  OBVIOUS
<1>1. ASSUME NEW p \in Readers, RLock(p) \/ RUnlock(p) PROVE IInv'
  BY <1>1, RLockInv, RUnlockInv
<1>2. ASSUME NEW p \in Writers, Lock(p) \/ Unlock(p) PROVE IInv'
  BY <1>2, LockInv, UnlockInv
<1>3. ASSUME UNCHANGED vars PROVE IInv'
  BY <1>3 DEF vars, IInv, TypeOK, Exclusion, NoLostWakeup, In, Waiting
<1> QED
  BY <1>1, <1>2, <1>3 DEF Next

LEMMA Invariant == Spec => []IInv
BY InitInv, NextInv, PTL DEF Spec

(* The three counters of RWMutex count what their names say.               *)
THEOREM TypeCorrect == Spec => []TypeOK
BY Invariant, PTL DEF IInv

(* "any number of readers or exactly one writer" (class RWMutex).          *)
THEOREM MutualExclusion == Spec => []Exclusion
BY Invariant, PTL DEF IInv

(* No reader and no writer sleeps on a mutex that nobody holds: every      *)
(* unlock that has to notify does.                                         *)
THEOREM NobodyForgotten == Spec => []NoLostWakeup
BY Invariant, PTL DEF IInv

(* A reader that asks while a writer waits does not get in before it.      *)
THEOREM WritersFirst == Spec => WriterFirst
<1> DEFINE First == \A r \in Readers : pc[r] # "in" /\ pc'[r] = "in" => Waiting(Writers) = {}
<1>1. IInv /\ [Next]_vars => [First]_vars
  <2> SUFFICES ASSUME IInv, Next, NEW r \in Readers, pc[r] # "in", pc'[r] = "in"
               PROVE  Waiting(Writers) = {}
    OBVIOUS
  <2>1. r \in Threads /\ r \notin Writers /\ pc \in [Threads -> {"out", "waiting", "in"}]
    BY RWAssumption DEF Threads, IInv, TypeOK
  <2>2. RLock(r)
    <3>1. ASSUME NEW p \in Threads, NEW to \in {"out", "waiting", "in"}, Go(p, to) PROVE p = r
      BY <2>1, <3>1 DEF Go
    <3> QED
      BY <2>1, <3>1 DEF Next, RLock, RUnlock, Lock, Unlock, Sleep, Threads, Go
  <2>3. ~BlocksReaders
    BY <2>1, <2>2 DEF RLock, Sleep, Go
  <2> QED
    BY <2>3, Tests DEF IInv
<1> QED
  BY <1>1, Invariant, PTL DEF Spec, WriterFirst

-----------------------------------------------------------------------------
(* What the names of no thread and no result promise.                      *)
Names == NoProc \notin Callers /\ Nothing \notin Results

Phases ==
  /\ ended \in {0, 1}
  /\ done => ended = 1
  /\ ended = 1 => done \/ \E p \in Callers : at[p] = "ran"
  /\ ended = 1 => result = made
  /\ \A p \in Callers :
       /\ at[p] = "running" => ended = 0
       /\ at[p] = "ran" => ended = 1 /\ ~done
       /\ at[p] \in {"leaving", "reading", "returned"} => done

OnceInv == OnceTypeOK /\ Phases /\ FirstResult

LEMMA OnceInitInv == ASSUME Names, OnceInit PROVE OnceInv
<1>1. \A p \in Callers : at[p] = "out" /\ lock # p
  BY DEF Names, OnceInit
<1>2. OnceTypeOK
  BY <1>1 DEF OnceInit, OnceTypeOK
<1>3. Phases /\ FirstResult
  BY <1>1 DEF OnceInit, Phases, FirstResult
<1> QED
  BY <1>2, <1>3 DEF OnceInv

LEMMA CallInv ==
  ASSUME Names, OnceInv, NEW p \in Callers, Call(p)
  PROVE  OnceInv'
<1>1. OnceTypeOK'
  BY DEF Call, Goes, OnceInv, OnceTypeOK, Phases
<1>2. Phases' /\ FirstResult'
  BY DEF Call, Goes, OnceInv, OnceTypeOK, Phases, FirstResult
<1> QED
  BY <1>1, <1>2 DEF OnceInv

(* The second test of the flag, under the lock: nobody is between the end  *)
(* of fn and the flag, so a flag that is down means that fn did not run.   *)
LEMMA EnterInv ==
  ASSUME Names, OnceInv, NEW p \in Callers, Enter(p)
  PROVE  OnceInv'
<1>1. \A q \in Callers : at[q] \notin {"running", "ran", "leaving"}
  BY DEF Enter, Names, OnceInv, OnceTypeOK
<1>2. ~done => ended = 0
  BY <1>1 DEF OnceInv, Phases
<1>3. OnceTypeOK'
  BY <1>1 DEF Enter, Goes, Names, OnceInv, OnceTypeOK
<1>4. Phases' /\ FirstResult'
  BY <1>1, <1>2 DEF Enter, Goes, OnceInv, OnceTypeOK, Phases, FirstResult
<1> QED
  BY <1>3, <1>4 DEF OnceInv

(* fn ends: the lock lets only one thread be here, and no caller has       *)
(* returned yet.                                                           *)
LEMMA RunInv ==
  ASSUME Names, OnceInv, NEW p \in Callers, Run(p)
  PROVE  OnceInv'
<1>1. lock = p /\ ended = 0 /\ ~done
  BY DEF Run, OnceInv, OnceTypeOK, Phases
<1>2. \A q \in Callers \ {p} : at[q] \in {"out", "locking"}
  BY <1>1 DEF OnceInv, OnceTypeOK, Phases
<1>3. OnceTypeOK'
  BY <1>1 DEF Run, Goes, OnceInv, OnceTypeOK
<1>4. Phases'
  BY <1>1, <1>2 DEF Run, Goes, OnceInv, OnceTypeOK, Phases
<1>5. FirstResult'
  BY <1>1, <1>2 DEF Run, Goes, OnceInv, OnceTypeOK, FirstResult
<1> QED
  BY <1>3, <1>4, <1>5 DEF OnceInv

LEMMA FinishInv ==
  ASSUME Names, OnceInv, NEW p \in Callers, Finish(p)
  PROVE  OnceInv'
<1>1. \A q \in Callers \ {p} : at[q] \notin {"running", "ran", "leaving"}
  BY DEF Finish, OnceInv, OnceTypeOK
<1>2. OnceTypeOK'
  BY DEF Finish, Goes, OnceInv, OnceTypeOK
<1>3. Phases' /\ FirstResult'
  BY <1>1 DEF Finish, Goes, OnceInv, OnceTypeOK, Phases, FirstResult
<1> QED
  BY <1>2, <1>3 DEF OnceInv

LEMMA LeaveInv ==
  ASSUME Names, OnceInv, NEW p \in Callers, Leave(p)
  PROVE  OnceInv'
<1>1. lock = p
  BY DEF Leave, OnceInv, OnceTypeOK
<1>2. OnceTypeOK'
  BY <1>1 DEF Leave, Goes, Names, OnceInv, OnceTypeOK
<1>3. Phases' /\ FirstResult'
  BY DEF Leave, Goes, OnceInv, OnceTypeOK, Phases, FirstResult
<1> QED
  BY <1>2, <1>3 DEF OnceInv

LEMMA ReadInv ==
  ASSUME Names, OnceInv, NEW p \in Callers, Read(p)
  PROVE  OnceInv'
<1>1. OnceTypeOK'
  BY DEF Read, Goes, OnceInv, OnceTypeOK
<1>2. Phases' /\ FirstResult'
  BY DEF Read, Goes, OnceInv, OnceTypeOK, Phases, FirstResult
<1> QED
  BY <1>1, <1>2 DEF OnceInv

LEMMA OnceNextInv == ASSUME Names, OnceInv, [OnceNext]_onceVars PROVE OnceInv'
<1>1. CASE UNCHANGED onceVars
  BY <1>1 DEF onceVars, OnceInv, OnceTypeOK, Phases, FirstResult
<1>2. ASSUME NEW p \in Callers, Call(p) \/ Step(p) PROVE OnceInv'
  BY <1>2, CallInv, EnterInv, RunInv, FinishInv, LeaveInv, ReadInv DEF Step
<1> QED
  BY <1>1, <1>2 DEF OnceNext

(* However many threads call, before, while and after fn runs, and whether *)
(* it returns or raises: one execution, and its outcome for every caller   *)
(* (class Once and once() of _sync.py).                                    *)
THEOREM OneRun == ASSUME Names PROVE OnceSpec => []FirstResult
<1>1. OnceInit => OnceInv
  BY OnceInitInv
<1>2. OnceInv /\ [OnceNext]_onceVars => OnceInv'
  BY OnceNextInv
<1>3. OnceInv => FirstResult
  BY DEF OnceInv
<1> QED
  BY <1>1, <1>2, <1>3, PTL DEF OnceSpec
=============================================================================
