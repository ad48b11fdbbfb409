---------------------------- MODULE TimersProofs ----------------------------
(***************************************************************************)
(* The deadlock detector's count of timers is exact, and stop() returns    *)
(* True at most once, for a channel that never carried a value.            *)
(*                                                                         *)
(* Both rest on who won the race for _fired: the timer's thread, one call  *)
(* of stop(), or nobody yet (TimerOK).  The count then changes with the    *)
(* set of the timers counted, by one element at a time.                    *)
(*                                                                         *)
(* The second half is about the detector itself, which sees only counts    *)
(* and entries: they are exact, whatever its threads and timers do.        *)
(***************************************************************************)
EXTENDS Timers, Detector, FiniteSetTheorems, TLAPS

(* Who set _fired: t's thread, or the call of stop() that p is in.         *)
ThreadWon(t) == tpc[t] \in {"uncount", "send", "close"} \/ carried[t]
StopWon(p, t) == spc[p] \in {[at |-> "uncount", t |-> t], [at |-> "close", t |-> t]}

(* A ticker has no stop(); a Timer is stopped by one call at most, and     *)
(* only before its thread tries to send.                                   *)
TimerOK(t) ==
  IF t \in Tickers
  THEN tpc[t] \notin {"fire", "close"} /\ ~cancelled[t] /\ stopped[t] = 0
  ELSE /\ tpc[t] # "recount"
       /\ tpc[t] \in {"new", "counted", "failed"} =>
            ~fired[t] /\ \A p \in Procs : spc[p].t # t
       /\ ~fired[t] => stopped[t] = 0 /\ ~ThreadWon(t) /\ \A p \in Procs : ~StopWon(p, t)
       /\ ThreadWon(t) => stopped[t] = 0 /\ \A p \in Procs : ~StopWon(p, t)
       /\ \A p \in Procs : StopWon(p, t) =>
            stopped[t] = 0 /\ \A q \in Procs : StopWon(q, t) => q = p
       /\ stopped[t] # 0 => stopped[t] = 1 /\ closed[t]

Flags ==
  /\ cancelled \in [Timer -> BOOLEAN]
  /\ fired \in [Timer -> BOOLEAN]
  /\ closed \in [Timer -> BOOLEAN]
  /\ carried \in [Timer -> BOOLEAN]
  /\ stopped \in [Timer -> Nat]

TInv == TimersTypeOK /\ Flags /\ \A t \in Timer : TimerOK(t)

-----------------------------------------------------------------------------
(* What a step that deals with timer t only has to show.                   *)

Shape ==
  /\ tpc \in [Timer -> {"new", "counted", "armed", "fire", "uncount", "send", "close", "recount", "over", "failed"}]
  /\ buf \in [Timer -> 0..1]
  /\ spc \in [Procs -> {Out} \cup [at: {"test", "uncount", "close"}, t: OneShots]]

Untouched(u) ==
  /\ tpc'[u] = tpc[u] /\ cancelled'[u] = cancelled[u] /\ fired'[u] = fired[u]
  /\ carried'[u] = carried[u] /\ stopped'[u] = stopped[u] /\ closed'[u] = closed[u]
  /\ \A p \in Procs : spc'[p] = spc[p] \/ (spc[p].t # u /\ spc'[p].t # u)

LEMMA UntouchedOK ==
  ASSUME NEW u \in Timer, TimerOK(u), Untouched(u)
  PROVE  TimerOK(u)' /\ (Counted(u)' <=> Counted(u))
<1>1. \A p \in Procs : (StopWon(p, u)' <=> StopWon(p, u)) /\ (spc'[p].t = u <=> spc[p].t = u)
  BY DEF Untouched, StopWon
<1>2. ThreadWon(u)' <=> ThreadWon(u)
  BY DEF Untouched, ThreadWon
<1>3. TimerOK(u)'
  BY <1>1, <1>2 DEF Untouched, TimerOK
<1>4. \A p \in Procs : spc'[p] = [at |-> "uncount", t |-> u] <=> spc[p] = [at |-> "uncount", t |-> u]
  BY DEF Untouched
<1> QED
  BY <1>3, <1>4 DEF Untouched, Counted

(* pending is exact after the step if it was before.                       *)
LEMMA CountStep ==
  ASSUME pending = Cardinality({u \in Timer : Counted(u)}), NEW t \in Timer,
         \A u \in Timer : u # t => (Counted(u)' <=> Counted(u)),
         \/ Counted(t)' /\ Counted(t) /\ pending' = pending
         \/ ~Counted(t)' /\ ~Counted(t) /\ pending' = pending
         \/ Counted(t)' /\ ~Counted(t) /\ pending' = pending + 1
         \/ ~Counted(t)' /\ Counted(t) /\ pending' = pending - 1
  PROVE  pending' = Cardinality({u \in Timer : Counted(u)'})
<1> DEFINE S == {u \in Timer : Counted(u)}
           T == {u \in Timer : Counted(u)'}
<1>1. IsFiniteSet(S) /\ Cardinality(S) \in Nat
  BY TimersAssumption, FS_Subset, FS_CardinalityType
<1>2. \A u \in Timer : u # t => (u \in T <=> u \in S)
  OBVIOUS
<1>3. T \subseteq Timer /\ S \subseteq Timer
  OBVIOUS
<1>4. (t \in T <=> Counted(t)') /\ (t \in S <=> Counted(t))
  OBVIOUS
<1>5. pending = Cardinality(S)
  OBVIOUS
<1> HIDE DEF S, T
<1>6. CASE (Counted(t)' <=> Counted(t)) /\ pending' = pending
  <2>1. T = S
    BY <1>2, <1>3, <1>4, <1>6
  <2> QED
    BY <2>1, <1>5, <1>6 DEF T
<1>7. CASE Counted(t)' /\ ~Counted(t) /\ pending' = pending + 1
  <2>1. T = S \cup {t} /\ t \notin S
    BY <1>2, <1>3, <1>4, <1>7
  <2>2. Cardinality(T) = Cardinality(S) + 1
    BY <2>1, <1>1, FS_AddElement
  <2> QED
    BY <2>2, <1>5, <1>7 DEF T
<1>8. CASE ~Counted(t)' /\ Counted(t) /\ pending' = pending - 1
  <2>1. T = S \ {t} /\ t \in S
    BY <1>2, <1>3, <1>4, <1>8
  <2>2. Cardinality(T) = Cardinality(S) - 1
    BY <2>1, <1>1, FS_RemoveElement
  <2> QED
    BY <2>2, <1>5, <1>8 DEF T
<1> QED
  BY <1>6, <1>7, <1>8

LEMMA TimerStepInv ==
  ASSUME TInv, NEW t \in Timer, Shape', Flags',
         \A u \in Timer : u # t => Untouched(u),
         TimerOK(t)',
         \/ Counted(t)' /\ Counted(t) /\ pending' = pending
         \/ ~Counted(t)' /\ ~Counted(t) /\ pending' = pending
         \/ Counted(t)' /\ ~Counted(t) /\ pending' = pending + 1
         \/ ~Counted(t)' /\ Counted(t) /\ pending' = pending - 1
  PROVE  TInv'
<1>1. \A u \in Timer : u # t => TimerOK(u)' /\ (Counted(u)' <=> Counted(u))
  BY UntouchedOK DEF TInv
<1>2. pending' = Cardinality({u \in Timer : Counted(u)'})
  BY <1>1, CountStep DEF TInv, TimersTypeOK
<1>3. TimersTypeOK'
  BY <1>2 DEF TimersTypeOK, Shape
<1> QED
  BY <1>1, <1>3 DEF TInv

-----------------------------------------------------------------------------
(* One lemma per action.                                                   *)

LEMMA TInvFacts ==
  ASSUME TInv
  PROVE  Shape /\ Flags /\ \A t \in Timer : TimerOK(t)
BY DEF TInv, TimersTypeOK, Shape

LEMMA CreateInv == ASSUME TInv, NEW t \in Timer, Create(t) PROVE TInv'
<1>1. Shape /\ Flags /\ TimerOK(t) /\ (t \in OneShots <=> t \notin Tickers)
  BY TInvFacts, TimersAssumption DEF Timer
<1>2. Shape' /\ Flags'
  BY <1>1 DEF Create, At, channel, Shape, Flags, Out
<1>3. \A u \in Timer : u # t => Untouched(u)
  BY <1>1 DEF Create, At, channel, Shape, Flags, Untouched, Out
<1>4. TimerOK(t)'
  BY <1>1 DEF Create, At, channel, Shape, Flags, TimerOK, ThreadWon, StopWon, Out
<1>5. \/ Counted(t)' /\ Counted(t) /\ pending' = pending
      \/ ~Counted(t)' /\ ~Counted(t) /\ pending' = pending
      \/ Counted(t)' /\ ~Counted(t) /\ pending' = pending + 1
      \/ ~Counted(t)' /\ Counted(t) /\ pending' = pending - 1
  BY <1>1 DEF Create, At, channel, Shape, Flags, TimerOK, ThreadWon, StopWon, Counted, Out
<1> QED
  BY <1>2, <1>3, <1>4, <1>5, TimerStepInv

LEMMA StartInv == ASSUME TInv, NEW t \in Timer, Start(t) PROVE TInv'
<1>1. Shape /\ Flags /\ TimerOK(t) /\ (t \in OneShots <=> t \notin Tickers)
  BY TInvFacts, TimersAssumption DEF Timer
<1>2. Shape' /\ Flags'
  BY <1>1 DEF Start, At, channel, Shape, Flags, Out
<1>3. \A u \in Timer : u # t => Untouched(u)
  BY <1>1 DEF Start, At, channel, Shape, Flags, Untouched, Out
<1>4. TimerOK(t)'
  BY <1>1 DEF Start, At, channel, Shape, Flags, TimerOK, ThreadWon, StopWon, Out
<1>5. \/ Counted(t)' /\ Counted(t) /\ pending' = pending
      \/ ~Counted(t)' /\ ~Counted(t) /\ pending' = pending
      \/ Counted(t)' /\ ~Counted(t) /\ pending' = pending + 1
      \/ ~Counted(t)' /\ Counted(t) /\ pending' = pending - 1
  BY <1>1 DEF Start, At, channel, Shape, Flags, TimerOK, ThreadWon, StopWon, Counted, Out
<1> QED
  BY <1>2, <1>3, <1>4, <1>5, TimerStepInv

LEMMA StartFailsInv == ASSUME TInv, NEW t \in Timer, StartFails(t) PROVE TInv'
<1>1. Shape /\ Flags /\ TimerOK(t) /\ (t \in OneShots <=> t \notin Tickers)
  BY TInvFacts, TimersAssumption DEF Timer
<1>2. Shape' /\ Flags'
  BY <1>1 DEF StartFails, At, channel, Shape, Flags, Out
<1>3. \A u \in Timer : u # t => Untouched(u)
  BY <1>1 DEF StartFails, At, channel, Shape, Flags, Untouched, Out
<1>4. TimerOK(t)'
  BY <1>1 DEF StartFails, At, channel, Shape, Flags, TimerOK, ThreadWon, StopWon, Out
<1>5. \/ Counted(t)' /\ Counted(t) /\ pending' = pending
      \/ ~Counted(t)' /\ ~Counted(t) /\ pending' = pending
      \/ Counted(t)' /\ ~Counted(t) /\ pending' = pending + 1
      \/ ~Counted(t)' /\ Counted(t) /\ pending' = pending - 1
  BY <1>1 DEF StartFails, At, channel, Shape, Flags, TimerOK, ThreadWon, StopWon, Counted, Out
<1> QED
  BY <1>2, <1>3, <1>4, <1>5, TimerStepInv

LEMMA ElapseInv == ASSUME TInv, NEW t \in Timer, Elapse(t) PROVE TInv'
<1>1. Shape /\ Flags /\ TimerOK(t) /\ (t \in OneShots <=> t \notin Tickers)
  BY TInvFacts, TimersAssumption DEF Timer
<1>2. Shape' /\ Flags'
  BY <1>1 DEF Elapse, At, channel, Shape, Flags, Out
<1>3. \A u \in Timer : u # t => Untouched(u)
  BY <1>1 DEF Elapse, At, channel, Shape, Flags, Untouched, Out
<1>4. TimerOK(t)'
  BY <1>1 DEF Elapse, At, channel, Shape, Flags, TimerOK, ThreadWon, StopWon, Out
<1>5. \/ Counted(t)' /\ Counted(t) /\ pending' = pending
      \/ ~Counted(t)' /\ ~Counted(t) /\ pending' = pending
      \/ Counted(t)' /\ ~Counted(t) /\ pending' = pending + 1
      \/ ~Counted(t)' /\ Counted(t) /\ pending' = pending - 1
  BY <1>1 DEF Elapse, At, channel, Shape, Flags, TimerOK, ThreadWon, StopWon, Counted, Out
<1> QED
  BY <1>2, <1>3, <1>4, <1>5, TimerStepInv

LEMMA FireInv == ASSUME TInv, NEW t \in Timer, Fire(t) PROVE TInv'
<1>1. Shape /\ Flags /\ TimerOK(t) /\ (t \in OneShots <=> t \notin Tickers)
  BY TInvFacts, TimersAssumption DEF Timer
<1>2. Shape' /\ Flags'
  BY <1>1 DEF Fire, At, channel, Shape, Flags, Out
<1>3. \A u \in Timer : u # t => Untouched(u)
  BY <1>1 DEF Fire, At, channel, Shape, Flags, Untouched, Out
<1>4. TimerOK(t)'
  BY <1>1 DEF Fire, At, channel, Shape, Flags, TimerOK, ThreadWon, StopWon, Out
<1>5. \/ Counted(t)' /\ Counted(t) /\ pending' = pending
      \/ ~Counted(t)' /\ ~Counted(t) /\ pending' = pending
      \/ Counted(t)' /\ ~Counted(t) /\ pending' = pending + 1
      \/ ~Counted(t)' /\ Counted(t) /\ pending' = pending - 1
  BY <1>1 DEF Fire, At, channel, Shape, Flags, TimerOK, ThreadWon, StopWon, Counted, Out
<1> QED
  BY <1>2, <1>3, <1>4, <1>5, TimerStepInv

LEMMA UncountInv == ASSUME TInv, NEW t \in Timer, Uncount(t) PROVE TInv'
<1>1. Shape /\ Flags /\ TimerOK(t) /\ (t \in OneShots <=> t \notin Tickers)
  BY TInvFacts, TimersAssumption DEF Timer
<1>2. Shape' /\ Flags'
  BY <1>1 DEF Uncount, At, channel, Shape, Flags, Out
<1>3. \A u \in Timer : u # t => Untouched(u)
  BY <1>1 DEF Uncount, At, channel, Shape, Flags, Untouched, Out
<1>4. TimerOK(t)'
  BY <1>1 DEF Uncount, At, channel, Shape, Flags, TimerOK, ThreadWon, StopWon, Out
<1>5. \/ Counted(t)' /\ Counted(t) /\ pending' = pending
      \/ ~Counted(t)' /\ ~Counted(t) /\ pending' = pending
      \/ Counted(t)' /\ ~Counted(t) /\ pending' = pending + 1
      \/ ~Counted(t)' /\ Counted(t) /\ pending' = pending - 1
  BY <1>1 DEF Uncount, At, channel, Shape, Flags, TimerOK, ThreadWon, StopWon, Counted, Out
<1> QED
  BY <1>2, <1>3, <1>4, <1>5, TimerStepInv

LEMMA SendInv == ASSUME TInv, NEW t \in Timer, Send(t) PROVE TInv'
<1>1. Shape /\ Flags /\ TimerOK(t) /\ (t \in OneShots <=> t \notin Tickers)
  BY TInvFacts, TimersAssumption DEF Timer
<1>2. Shape' /\ Flags'
  BY <1>1 DEF Send, At, Put, channel, Shape, Flags, Out
<1>3. \A u \in Timer : u # t => Untouched(u)
  BY <1>1 DEF Send, At, Put, channel, Shape, Flags, Untouched, Out
<1>4. TimerOK(t)'
  BY <1>1 DEF Send, At, Put, channel, Shape, Flags, TimerOK, ThreadWon, StopWon, Out
<1>5. \/ Counted(t)' /\ Counted(t) /\ pending' = pending
      \/ ~Counted(t)' /\ ~Counted(t) /\ pending' = pending
      \/ Counted(t)' /\ ~Counted(t) /\ pending' = pending + 1
      \/ ~Counted(t)' /\ Counted(t) /\ pending' = pending - 1
  BY <1>1 DEF Send, At, Put, channel, Shape, Flags, TimerOK, ThreadWon, StopWon, Counted, Out
<1> QED
  BY <1>2, <1>3, <1>4, <1>5, TimerStepInv

LEMMA CloseFiredInv == ASSUME TInv, NEW t \in Timer, CloseFired(t) PROVE TInv'
<1>1. Shape /\ Flags /\ TimerOK(t) /\ (t \in OneShots <=> t \notin Tickers)
  BY TInvFacts, TimersAssumption DEF Timer
<1>2. Shape' /\ Flags'
  BY <1>1 DEF CloseFired, At, channel, Shape, Flags, Out
<1>3. \A u \in Timer : u # t => Untouched(u)
  BY <1>1 DEF CloseFired, At, channel, Shape, Flags, Untouched, Out
<1>4. TimerOK(t)'
  BY <1>1 DEF CloseFired, At, channel, Shape, Flags, TimerOK, ThreadWon, StopWon, Out
<1>5. \/ Counted(t)' /\ Counted(t) /\ pending' = pending
      \/ ~Counted(t)' /\ ~Counted(t) /\ pending' = pending
      \/ Counted(t)' /\ ~Counted(t) /\ pending' = pending + 1
      \/ ~Counted(t)' /\ Counted(t) /\ pending' = pending - 1
  BY <1>1 DEF CloseFired, At, channel, Shape, Flags, TimerOK, ThreadWon, StopWon, Counted, Out
<1> QED
  BY <1>2, <1>3, <1>4, <1>5, TimerStepInv

LEMMA RecountInv == ASSUME TInv, NEW t \in Timer, Recount(t) PROVE TInv'
<1>1. Shape /\ Flags /\ TimerOK(t) /\ (t \in OneShots <=> t \notin Tickers)
  BY TInvFacts, TimersAssumption DEF Timer
<1>2. Shape' /\ Flags'
  BY <1>1 DEF Recount, At, channel, Shape, Flags, Out
<1>3. \A u \in Timer : u # t => Untouched(u)
  BY <1>1 DEF Recount, At, channel, Shape, Flags, Untouched, Out
<1>4. TimerOK(t)'
  BY <1>1 DEF Recount, At, channel, Shape, Flags, TimerOK, ThreadWon, StopWon, Out
<1>5. \/ Counted(t)' /\ Counted(t) /\ pending' = pending
      \/ ~Counted(t)' /\ ~Counted(t) /\ pending' = pending
      \/ Counted(t)' /\ ~Counted(t) /\ pending' = pending + 1
      \/ ~Counted(t)' /\ Counted(t) /\ pending' = pending - 1
  BY <1>1 DEF Recount, At, channel, Shape, Flags, TimerOK, ThreadWon, StopWon, Counted, Out
<1> QED
  BY <1>2, <1>3, <1>4, <1>5, TimerStepInv

LEMMA ReceiveInv == ASSUME TInv, NEW t \in Timer, Receive(t) PROVE TInv'
<1>1. Shape /\ Flags /\ TimerOK(t) /\ (t \in OneShots <=> t \notin Tickers)
  BY TInvFacts, TimersAssumption DEF Timer
<1>2. Shape' /\ Flags'
  BY <1>1 DEF Receive, Shared, channel, Shape, Flags, Out
<1>3. \A u \in Timer : u # t => Untouched(u)
  BY <1>1 DEF Receive, Shared, channel, Shape, Flags, Untouched, Out
<1>4. TimerOK(t)'
  BY <1>1 DEF Receive, Shared, channel, Shape, Flags, TimerOK, ThreadWon, StopWon, Out
<1>5. \/ Counted(t)' /\ Counted(t) /\ pending' = pending
      \/ ~Counted(t)' /\ ~Counted(t) /\ pending' = pending
      \/ Counted(t)' /\ ~Counted(t) /\ pending' = pending + 1
      \/ ~Counted(t)' /\ Counted(t) /\ pending' = pending - 1
  BY <1>1 DEF Receive, Shared, channel, Shape, Flags, TimerOK, ThreadWon, StopWon, Counted, Out
<1> QED
  BY <1>2, <1>3, <1>4, <1>5, TimerStepInv

LEMMA CloseInv == ASSUME TInv, NEW t \in Timer, Close(t) PROVE TInv'
<1>1. Shape /\ Flags /\ TimerOK(t) /\ (t \in OneShots <=> t \notin Tickers)
  BY TInvFacts, TimersAssumption DEF Timer
<1>2. Shape' /\ Flags'
  BY <1>1 DEF Close, Shared, channel, Shape, Flags, Out
<1>3. \A u \in Timer : u # t => Untouched(u)
  BY <1>1 DEF Close, Shared, channel, Shape, Flags, Untouched, Out
<1>4. TimerOK(t)'
  BY <1>1 DEF Close, Shared, channel, Shape, Flags, TimerOK, ThreadWon, StopWon, Out
<1>5. \/ Counted(t)' /\ Counted(t) /\ pending' = pending
      \/ ~Counted(t)' /\ ~Counted(t) /\ pending' = pending
      \/ Counted(t)' /\ ~Counted(t) /\ pending' = pending + 1
      \/ ~Counted(t)' /\ Counted(t) /\ pending' = pending - 1
  BY <1>1 DEF Close, Shared, channel, Shape, Flags, TimerOK, ThreadWon, StopWon, Counted, Out
<1> QED
  BY <1>2, <1>3, <1>4, <1>5, TimerStepInv

LEMMA CancelTimerInv == ASSUME TInv, NEW p \in Procs, NEW t \in OneShots, CancelTimer(p, t) PROVE TInv'
<1>0. t \in Timer
  BY DEF Timer
<1>1. Shape /\ Flags /\ TimerOK(t) /\ (t \in OneShots <=> t \notin Tickers)
  BY <1>0, TInvFacts, TimersAssumption DEF Timer
<1>2. Shape' /\ Flags'
  BY <1>0, <1>1 DEF CancelTimer, Shared, channel, Shape, Flags, Out
<1>3. \A u \in Timer : u # t => Untouched(u)
  BY <1>0, <1>1, TimersAssumption DEF CancelTimer, Shared, channel, Shape, Flags, Untouched, Out
<1>4. TimerOK(t)'
  BY <1>0, <1>1 DEF CancelTimer, Shared, channel, Shape, Flags, TimerOK, ThreadWon, StopWon, Out
<1>5. \/ Counted(t)' /\ Counted(t) /\ pending' = pending
      \/ ~Counted(t)' /\ ~Counted(t) /\ pending' = pending
      \/ Counted(t)' /\ ~Counted(t) /\ pending' = pending + 1
      \/ ~Counted(t)' /\ Counted(t) /\ pending' = pending - 1
  BY <1>0, <1>1 DEF CancelTimer, Shared, channel, Shape, Flags, TimerOK, ThreadWon, StopWon, Counted, Out
<1> QED
  BY <1>0, <1>2, <1>3, <1>4, <1>5, TimerStepInv

LEMMA TestFiredInv == ASSUME TInv, NEW p \in Procs, NEW t \in OneShots, TestFired(p, t) PROVE TInv'
<1>0. t \in Timer
  BY DEF Timer
<1>1. Shape /\ Flags /\ TimerOK(t) /\ (t \in OneShots <=> t \notin Tickers)
  BY <1>0, TInvFacts, TimersAssumption DEF Timer
<1>2. Shape' /\ Flags'
  BY <1>0, <1>1 DEF TestFired, StopAt, channel, Shape, Flags, Out
<1>3. \A u \in Timer : u # t => Untouched(u)
  BY <1>0, <1>1, TimersAssumption DEF TestFired, StopAt, channel, Shape, Flags, Untouched, Out
<1>4. TimerOK(t)'
  BY <1>0, <1>1 DEF TestFired, StopAt, channel, Shape, Flags, TimerOK, ThreadWon, StopWon, Out
<1>5. \/ Counted(t)' /\ Counted(t) /\ pending' = pending
      \/ ~Counted(t)' /\ ~Counted(t) /\ pending' = pending
      \/ Counted(t)' /\ ~Counted(t) /\ pending' = pending + 1
      \/ ~Counted(t)' /\ Counted(t) /\ pending' = pending - 1
  BY <1>0, <1>1 DEF TestFired, StopAt, channel, Shape, Flags, TimerOK, ThreadWon, StopWon, Counted, Out
<1> QED
  BY <1>0, <1>2, <1>3, <1>4, <1>5, TimerStepInv

LEMMA UncountStoppedInv == ASSUME TInv, NEW p \in Procs, NEW t \in OneShots, UncountStopped(p, t) PROVE TInv'
<1>0. t \in Timer
  BY DEF Timer
<1>1. Shape /\ Flags /\ TimerOK(t) /\ (t \in OneShots <=> t \notin Tickers)
  BY <1>0, TInvFacts, TimersAssumption DEF Timer
<1>2. Shape' /\ Flags'
  BY <1>0, <1>1 DEF UncountStopped, StopAt, channel, Shape, Flags, Out
<1>3. \A u \in Timer : u # t => Untouched(u)
  BY <1>0, <1>1, TimersAssumption DEF UncountStopped, StopAt, channel, Shape, Flags, Untouched, Out
<1>4. TimerOK(t)'
  BY <1>0, <1>1 DEF UncountStopped, StopAt, channel, Shape, Flags, TimerOK, ThreadWon, StopWon, Out
<1>5. \/ Counted(t)' /\ Counted(t) /\ pending' = pending
      \/ ~Counted(t)' /\ ~Counted(t) /\ pending' = pending
      \/ Counted(t)' /\ ~Counted(t) /\ pending' = pending + 1
      \/ ~Counted(t)' /\ Counted(t) /\ pending' = pending - 1
  BY <1>0, <1>1 DEF UncountStopped, StopAt, channel, Shape, Flags, TimerOK, ThreadWon, StopWon, Counted, Out
<1> QED
  BY <1>0, <1>2, <1>3, <1>4, <1>5, TimerStepInv

LEMMA CloseStoppedInv == ASSUME TInv, NEW p \in Procs, NEW t \in OneShots, CloseStopped(p, t) PROVE TInv'
<1>0. t \in Timer
  BY DEF Timer
<1>1. Shape /\ Flags /\ TimerOK(t) /\ (t \in OneShots <=> t \notin Tickers)
  BY <1>0, TInvFacts, TimersAssumption DEF Timer
<1>2. Shape' /\ Flags'
  BY <1>0, <1>1 DEF CloseStopped, StopAt, channel, Shape, Flags, Out
<1>3. \A u \in Timer : u # t => Untouched(u)
  BY <1>0, <1>1, TimersAssumption DEF CloseStopped, StopAt, channel, Shape, Flags, Untouched, Out
<1>4. TimerOK(t)'
  BY <1>0, <1>1 DEF CloseStopped, StopAt, channel, Shape, Flags, TimerOK, ThreadWon, StopWon, Out
<1>5. \/ Counted(t)' /\ Counted(t) /\ pending' = pending
      \/ ~Counted(t)' /\ ~Counted(t) /\ pending' = pending
      \/ Counted(t)' /\ ~Counted(t) /\ pending' = pending + 1
      \/ ~Counted(t)' /\ Counted(t) /\ pending' = pending - 1
  BY <1>0, <1>1 DEF CloseStopped, StopAt, channel, Shape, Flags, TimerOK, ThreadWon, StopWon, Counted, Out
<1> QED
  BY <1>0, <1>2, <1>3, <1>4, <1>5, TimerStepInv

LEMMA TInvInit == ASSUME Init PROVE TInv
<1>1. {t \in Timer : Counted(t)} = {}
  BY DEF Init, Counted, Timer
<1>2. TimersTypeOK
  BY <1>1, FS_EmptySet DEF Init, TimersTypeOK
<1>3. Flags
  BY DEF Init, Flags
<1>4. \A t \in Timer : TimerOK(t)
  BY TimersAssumption DEF Init, TimerOK, ThreadWon, StopWon, Out, Timer
<1> QED
  BY <1>2, <1>3, <1>4 DEF TInv

LEMMA TInvNext == ASSUME TInv, [Next]_vars PROVE TInv'
<1>1. CASE UNCHANGED vars
  <2>1. \A t \in Timer : Untouched(t)
    BY <1>1 DEF vars, channel, Untouched
  <2>2. \A t \in Timer : TimerOK(t)' /\ (Counted(t)' <=> Counted(t))
    BY <2>1, UntouchedOK DEF TInv
  <2>3. {t \in Timer : Counted(t)'} = {t \in Timer : Counted(t)}
    BY <2>2
  <2> QED
    BY <1>1, <2>2, <2>3 DEF TInv, TimersTypeOK, Flags, vars, channel
<1>2. ASSUME NEW t \in Timer, Create(t) \/ TimerStep(t) \/ Receive(t) \/ Close(t) PROVE TInv'
  BY <1>2, CreateInv, StartInv, StartFailsInv, ElapseInv, FireInv, UncountInv, SendInv,
     CloseFiredInv, RecountInv, ReceiveInv, CloseInv DEF TimerStep
<1>3. ASSUME NEW p \in Procs, NEW t \in OneShots,
             CancelTimer(p, t) \/ TestFired(p, t) \/ UncountStopped(p, t) \/ CloseStopped(p, t)
      PROVE  TInv'
  BY <1>3, CancelTimerInv, TestFiredInv, UncountStoppedInv, CloseStoppedInv
<1> QED
  BY <1>1, <1>2, <1>3 DEF Next, StopStep

(* The count of the deadlock detector is exact, for any number of timers   *)
(* and of calls of stop() that race with them: each timer is counted once  *)
(* and taken off once.                                                     *)
THEOREM CountExact == Spec => []TimersTypeOK
<1>1. Init => TInv
  BY TInvInit
<1>2. TInv /\ [Next]_vars => TInv'
  BY TInvNext
<1>3. TInv => TimersTypeOK
  BY DEF TInv
<1> QED
  BY <1>1, <1>2, <1>3, PTL DEF Spec

(* Timer.stop: at most one call returns True, and then the channel closed  *)
(* without ever carrying a value.                                          *)
THEOREM StopSilences == Spec => []StoppedIsSilent
<1>1. Init => TInv
  BY TInvInit
<1>2. TInv /\ [Next]_vars => TInv'
  BY TInvNext
<1>3. TInv => StoppedIsSilent
  BY TimersAssumption DEF TInv, Flags, TimerOK, ThreadWon, StoppedIsSilent, Timer
<1> QED
  BY <1>1, <1>2, <1>3, PTL DEF Spec

-----------------------------------------------------------------------------
(* The counts of the detector.  Its own threads and the timers change them *)
(* one at a time; turning it on and off changes neither, and drops every   *)
(* entry.                                                                  *)

IsActive(t) == pc[t] = "run" \/ Waits(t)
ActiveRoutines == {t \in Routines : IsActive(t)}
ArmedTimers == {x \in Timers : timer[x] = "armed"}

(* The main thread is not a routine: it is not spawned and does not end.   *)
DInv ==
  /\ DetectorTypeOK
  /\ timer \in [Timers -> {"none", "armed", "sending", "over"}]
  /\ pc[Main] \notin {"new", "queued", "ended"}

LEMMA FiniteCounts ==
  /\ IsFiniteSet(ActiveRoutines) /\ Cardinality(ActiveRoutines) \in Nat
  /\ IsFiniteSet(ArmedTimers) /\ Cardinality(ArmedTimers) \in Nat
<1>1. ActiveRoutines \subseteq Routines /\ ArmedTimers \subseteq Timers
  BY DEF ActiveRoutines, ArmedTimers
<1> QED
  BY <1>1, DetectorAssumption, FS_Subset, FS_CardinalityType

LEMMA DInvInit == ASSUME DetectorInit PROVE DInv
<1>1. ActiveRoutines = {} /\ ArmedTimers = {}
  BY DetectorAssumption DEF DetectorInit, ActiveRoutines, IsActive, Waits, ArmedTimers, Threads
<1>2. active = Cardinality(ActiveRoutines) /\ pendingTimers = Cardinality(ArmedTimers)
  BY <1>1, FS_EmptySet DEF DetectorInit
<1>3. active = Cardinality({t \in Routines : pc[t] = "run" \/ Waits(t)})
      /\ pendingTimers = Cardinality({x \in Timers : timer[x] = "armed"})
  BY <1>2 DEF ActiveRoutines, IsActive, ArmedTimers
<1>4. enabled = \E d \in Watchers : wpc[d] \in {"failed", "sleep", "look"}
  BY DEF DetectorInit
<1>5. pc \in [Threads -> {"new", "queued", "run", "waiting", "begin", "parked", "asleep", "ended"}]
      /\ wpc \in [Watchers -> {"none", "failed", "sleep", "look", "over"}]
      /\ timer \in [Timers -> {"none", "armed", "sending", "over"}]
      /\ pc[Main] \notin {"new", "queued", "ended"}
      /\ woken = {} /\ parked = {}
  BY DEF DetectorInit, Threads
<1> QED
  BY <1>3, <1>4, <1>5 DEF DInv, DetectorTypeOK

(* Thread t moves, and no watcher and no timer does: what is left to show  *)
(* of the counts is whether t was active, and is.                          *)
LEMMA ThreadMoves ==
  ASSUME DInv, NEW t \in Threads, NEW from, NEW to, Moves(t, from, to),
         to \in {"queued", "run", "waiting", "begin", "parked", "asleep", "ended"},
         UNCHANGED <<timer, pendingTimers, enabled, wpc>>,
         woken' = woken \/ woken' = woken \ {t},
         parked' = parked \/ parked' = parked \ {t} \/ parked' = parked \cup {t},
         t \in woken' => Waits(t)', t \in parked' => to = "parked",
         \/ active' = active /\ (IsActive(t) <=> IsActive(t)')
         \/ active' = active + 1 /\ t \in Routines /\ ~IsActive(t) /\ IsActive(t)'
         \/ active' = active - 1 /\ t \in Routines /\ IsActive(t) /\ ~IsActive(t)',
         t = Main => to \notin {"queued", "ended"}
  PROVE  DInv'
<1>1. pc' = [pc EXCEPT ![t] = to] /\ pc'[t] = to /\ pc[t] = from
  BY DEF Moves, DInv, DetectorTypeOK
<1>2. \A u \in Threads \ {t} : pc'[u] = pc[u] /\ (Waits(u)' <=> Waits(u)) /\ (IsActive(u)' <=> IsActive(u))
  BY <1>1 DEF Waits, IsActive, DInv, DetectorTypeOK
<1>3. active' = Cardinality(ActiveRoutines')
  <2>1. active = Cardinality(ActiveRoutines)
    BY DEF DInv, DetectorTypeOK, ActiveRoutines, IsActive
  <2>2. CASE active' = active /\ (IsActive(t) <=> IsActive(t)')
    <3>1. ActiveRoutines' = ActiveRoutines
      BY <1>2, <2>2 DEF ActiveRoutines, Threads
    <3> QED
      BY <2>1, <2>2, <3>1
  <2>3. CASE active' = active + 1 /\ t \in Routines /\ ~IsActive(t) /\ IsActive(t)'
    <3>1. ActiveRoutines' = ActiveRoutines \cup {t} /\ t \notin ActiveRoutines
      BY <1>2, <2>3 DEF ActiveRoutines, Threads
    <3> QED
      BY <2>1, <2>3, <3>1, FiniteCounts, FS_AddElement
  <2>4. CASE active' = active - 1 /\ t \in Routines /\ IsActive(t) /\ ~IsActive(t)'
    <3>1. ActiveRoutines' = ActiveRoutines \ {t} /\ t \in ActiveRoutines
      BY <1>2, <2>4 DEF ActiveRoutines, Threads
    <3> QED
      BY <2>1, <2>4, <3>1, FiniteCounts, FS_RemoveElement
  <2> QED
    BY <2>2, <2>3, <2>4
<1>4. active' = Cardinality({u \in Routines : pc'[u] = "run" \/ Waits(u)'})
  BY <1>3 DEF ActiveRoutines, IsActive
<1>5. woken' \subseteq {u \in Threads : Waits(u)'} /\ parked' \subseteq {u \in Threads : pc'[u] = "parked"}
  BY <1>1, <1>2 DEF DInv, DetectorTypeOK
<1>6. pc' \in [Threads -> {"new", "queued", "run", "waiting", "begin", "parked", "asleep", "ended"}]
      /\ pc'[Main] \notin {"new", "queued", "ended"}
  BY <1>1, <1>2 DEF DInv, DetectorTypeOK, Threads
<1> QED
  BY <1>4, <1>5, <1>6 DEF DInv, DetectorTypeOK

LEMMA ThreadStepInv ==
  ASSUME DInv, NEW t \in Threads,
         \/ Spawn(t) \/ Activate(t) \/ End(t) \/ Block(t) \/ ReadEnabled(t)
         \/ ParkBegin(t) \/ ParkEnd(t) \/ GoOn(t)
  PROVE  DInv'
<1>1. /\ t \in woken => Waits(t)
      /\ t \in parked => pc[t] = "parked"
      /\ t \in Routines \/ t = Main
      /\ pc[t] \in {"new", "queued"} => t # Main
      /\ pc \in [Threads -> {"new", "queued", "run", "waiting", "begin", "parked", "asleep", "ended"}]
  BY DEF DInv, DetectorTypeOK, Threads
<1>2. Main \notin Routines
  BY DetectorAssumption
<1>3. CASE Spawn(t)
  BY <1>1, <1>3, ThreadMoves DEF Spawn, Moves, watch, Waits, IsActive
<1>4. CASE Activate(t)
  BY <1>1, <1>4, ThreadMoves DEF Activate, Moves, watch, Waits, IsActive
<1>5. CASE End(t)
  BY <1>1, <1>2, <1>5, ThreadMoves DEF End, Moves, watch, Waits, IsActive
<1>6. CASE Block(t)
  BY <1>1, <1>6, ThreadMoves DEF Block, Moves, watch, Waits, IsActive
<1>7. CASE ReadEnabled(t)
  BY <1>1, <1>7, ThreadMoves DEF ReadEnabled, Moves, watch, Waits, IsActive
<1>8. CASE ParkBegin(t)
  BY <1>1, <1>8, ThreadMoves DEF ParkBegin, Moves, watch, Waits, IsActive
<1>9. CASE ParkEnd(t)
  BY <1>1, <1>9, ThreadMoves DEF ParkEnd, Moves, watch, Waits, IsActive
<1>10. CASE GoOn(t)
  BY <1>1, <1>10, ThreadMoves DEF GoOn, Moves, watch, Waits, IsActive
<1> QED
  BY <1>3, <1>4, <1>5, <1>6, <1>7, <1>8, <1>9, <1>10

(* A wake-up, and a timer.                                                 *)
LEMMA WakeInv ==
  ASSUME DInv, NEW t \in Threads, NEW u \in Threads, Wake(u, t)
  PROVE  DInv'
BY DEF Wake, watch, DInv, DetectorTypeOK, Waits

LEMMA TimerMovesInv ==
  ASSUME DInv, NEW x \in Timers, StartTimer(x) \/ FireTimer(x) \/ TimerSends(x)
  PROVE  DInv'
<1>1. pendingTimers = Cardinality(ArmedTimers)
  BY DEF DInv, DetectorTypeOK, ArmedTimers
<1>2. pendingTimers' = Cardinality(ArmedTimers')
  <2>1. CASE StartTimer(x)
    <3>1. ArmedTimers' = ArmedTimers \cup {x} /\ x \notin ArmedTimers
      BY <2>1 DEF StartTimer, ArmedTimers, DInv
    <3> QED
      BY <1>1, <2>1, <3>1, FiniteCounts, FS_AddElement DEF StartTimer
  <2>2. CASE FireTimer(x)
    <3>1. ArmedTimers' = ArmedTimers \ {x} /\ x \in ArmedTimers
      BY <2>2 DEF FireTimer, ArmedTimers, DInv
    <3> QED
      BY <1>1, <2>2, <3>1, FiniteCounts, FS_RemoveElement DEF FireTimer
  <2>3. CASE TimerSends(x)
    <3>1. ArmedTimers' = ArmedTimers
      BY <2>3 DEF TimerSends, ArmedTimers, DInv
    <3> QED
      BY <1>1, <2>3, <3>1 DEF TimerSends
  <2> QED
    BY <2>1, <2>2, <2>3
<1>3. pendingTimers' = Cardinality({y \in Timers : timer'[y] = "armed"})
  BY <1>2 DEF ArmedTimers
<1>4. timer' \in [Timers -> {"none", "armed", "sending", "over"}]
  BY DEF StartTimer, FireTimer, TimerSends, DInv
<1>5. UNCHANGED <<pc, active, enabled, parked, wpc>>
  BY DEF StartTimer, FireTimer, TimerSends, watch
<1>6. woken' \subseteq {t \in Threads : Waits(t)}
  <2>1. woken \subseteq {t \in Threads : Waits(t)}
    BY DEF DInv, DetectorTypeOK
  <2>2. ASSUME NEW S \in {{}} \cup {{t} : t \in {u \in Threads : Waits(u)}}
        PROVE  S \subseteq {t \in Threads : Waits(t)}
    OBVIOUS
  <2> QED
    BY <2>1, <2>2 DEF StartTimer, FireTimer, TimerSends
<1> QED
  BY <1>3, <1>4, <1>5, <1>6 DEF DInv, DetectorTypeOK, Waits

(* The detector and its watchers.                                          *)
LEMMA WatchersInv ==
  ASSUME DInv, Disable \/ \E d \in Watchers : Enable(d) \/ WatcherStep(d)
  PROVE  DInv'
<1>1. UNCHANGED <<pc, woken, active, timer, pendingTimers>>
  BY DEF Disable, Enable, WatcherStep, ReadActive, Look
<1>2. parked' = parked \/ parked' = {}
  BY DEF Disable, Enable, WatcherStep, ReadActive, Look
<1>3. wpc' \in [Watchers -> {"none", "failed", "sleep", "look", "over"}]
      /\ enabled' = \E d \in Watchers : wpc'[d] \in {"failed", "sleep", "look"}
  <2>1. CASE Disable
    <3>1. wpc' \in [Watchers -> {"none", "over"}] /\ enabled' = FALSE
      BY <2>1 DEF Disable, DInv, DetectorTypeOK
    <3> QED
      BY <3>1
  <2>2. ASSUME NEW d \in Watchers, Enable(d)
        PROVE  wpc'[d] \in {"failed", "sleep"} /\ enabled' = TRUE
               /\ wpc' \in [Watchers -> {"none", "failed", "sleep", "look", "over"}]
    BY <2>2 DEF Enable, DInv, DetectorTypeOK
  <2>3. ASSUME NEW d \in Watchers, WatcherStep(d)
        PROVE  /\ wpc[d] \in {"sleep", "look"} /\ wpc'[d] \in {"sleep", "look"}
               /\ wpc' \in [Watchers -> {"none", "failed", "sleep", "look", "over"}]
               /\ enabled' = enabled /\ enabled = TRUE
    BY <2>3 DEF WatcherStep, ReadActive, Look, DInv, DetectorTypeOK
  <2> QED
    BY <2>1, <2>2, <2>3
<1> QED
  BY <1>1, <1>2, <1>3 DEF DInv, DetectorTypeOK, Waits

LEMMA DInvNext == ASSUME DInv, [DetectorNext]_detectorVars PROVE DInv'
<1>1. CASE UNCHANGED detectorVars
  BY <1>1 DEF detectorVars, DInv, DetectorTypeOK, Waits
<1>2. CASE DetectorNext
  BY <1>2, ThreadStepInv, WakeInv, TimerMovesInv, WatchersInv DEF DetectorNext, ThreadStep
<1> QED
  BY <1>1, <1>2

(* The counts the watcher decides by are exact, and an entry belongs to a  *)
(* thread that is inside its wait, for any number of routines, timers and  *)
(* watchers, whenever the detector is turned on or off (_debug.py).        *)
THEOREM DetectorCountsExact == DetectorSpec => []DetectorTypeOK
<1>1. DetectorInit => DInv
  BY DInvInit
<1>2. DInv /\ [DetectorNext]_detectorVars => DInv'
  BY DInvNext
<1>3. DInv => DetectorTypeOK
  BY DEF DInv
<1> QED
  BY <1>1, <1>2, <1>3, PTL DEF DetectorSpec

=============================================================================
