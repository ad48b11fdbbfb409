------------------------------- MODULE Timers -------------------------------
(***************************************************************************)
(* Timer, after() and tick() of _select.py.  A timer is a thread that      *)
(* fires once and a channel of one slot; stop() may be called by anybody,  *)
(* at any time, more than once.  A ticker fires, and arms a new timer, as  *)
(* long as its channel is open.  The deadlock detector counts the timers   *)
(* that are pending.                                                       *)
(*                                                                         *)
(* The channels are those of GoChan: each operation one step.  Each access *)
(* to _fired (under the timer's lock), to the count or to the channel is a *)
(* step.                                                                   *)
(***************************************************************************)
EXTENDS Integers, FiniteSets

CONSTANTS
  OneShots, Tickers,  \* the timers and tickers the program makes
  Unstartable,        \* those whose Thread.start may raise ("can't start new thread")
  Procs,              \* threads that call stop()
  NoTimer             \* the timer a thread outside stop() deals with

Timer == OneShots \cup Tickers

ASSUME TimersAssumption ==
  /\ OneShots \cap Tickers = {} /\ NoTimer \notin Timer
  /\ IsFiniteSet(Timer) /\ Unstartable \subseteq Timer

VARIABLES
  pending,    \* _pending_timers of the deadlock detector
  tpc,        \* tpc[t]: where t's thread is, or "new", "counted", "armed", "over", "failed"
  cancelled,  \* cancelled[t]: cancel() was called on its threading.Timer
  fired,      \* _fired
  buf,        \* buf[t]: values in the channel
  closed,     \* closed[t]: the channel is closed
  carried,    \* carried[t]: the channel took a value at some time
  spc,        \* spc[p]: [at, t], where p is in stop() of t
  stopped     \* stopped[t]: how many stop() calls returned True

vars == <<pending, tpc, cancelled, fired, buf, closed, carried, spc, stopped>>
channel == <<buf, closed, carried>>

Out == [at |-> "out", t |-> NoTimer]

Init ==
  /\ pending = 0
  /\ tpc = [t \in Timer |-> "new"]
  /\ cancelled = [t \in Timer |-> FALSE]
  /\ fired = [t \in Timer |-> FALSE]
  /\ buf = [t \in Timer |-> 0]
  /\ closed = [t \in Timer |-> FALSE]
  /\ carried = [t \in Timer |-> FALSE]
  /\ spc = [p \in Procs |-> Out]
  /\ stopped = [t \in Timer |-> 0]

At(t, from, to) == tpc[t] = from /\ tpc' = [tpc EXCEPT ![t] = to]
StopAt(p, t, from, to) ==
  /\ spc[p] = [at |-> from, t |-> t]
  /\ spc' = [spc EXCEPT ![p] = IF to = "out" THEN Out ELSE [at |-> to, t |-> t]]

-----------------------------------------------------------------------------
(* Timer(seconds), tick(seconds): timer_started(), then start.             *)
Create(t) ==
  /\ At(t, "new", "counted")
  /\ pending' = pending + 1
  /\ UNCHANGED <<cancelled, fired, channel, spc, stopped>>

Start(t) ==
  /\ At(t, "counted", "armed")
  /\ UNCHANGED <<pending, cancelled, fired, channel, spc, stopped>>

(* The exception leaves the constructor, tick(), or the ticker's thread:   *)
(* the timer stays counted, and a ticker whose channel is open goes quiet. *)
StartFails(t) ==
  /\ t \in Unstartable
  /\ At(t, "counted", "failed")
  /\ UNCHANGED <<pending, cancelled, fired, channel, spc, stopped>>

(* threading.Timer: the delay is over, cancel() was not called before.     *)
Elapse(t) ==
  /\ At(t, "armed", IF cancelled[t] THEN "over" ELSE IF t \in OneShots THEN "fire" ELSE "uncount")
  /\ UNCHANGED <<pending, cancelled, fired, channel, spc, stopped>>

(* _fire: the first of fire and stop() wins.                               *)
BugNoRace(t) ==
  /\ At(t, "fire", "uncount")
  /\ fired' = [fired EXCEPT ![t] = TRUE]
  /\ UNCHANGED <<pending, cancelled, channel, spc, stopped>>
Fire(t) ==
  /\ At(t, "fire", IF fired[t] THEN "over" ELSE "uncount")
  /\ fired' = [fired EXCEPT ![t] = TRUE]
  /\ UNCHANGED <<pending, cancelled, channel, spc, stopped>>

Uncount(t) ==
  /\ At(t, "uncount", "send")
  /\ pending' = pending - 1
  /\ UNCHANGED <<cancelled, fired, channel, spc, stopped>>

Put(t) ==
  /\ buf' = [buf EXCEPT ![t] = IF closed[t] THEN @ ELSE 1]
  /\ carried' = [carried EXCEPT ![t] = @ \/ ~closed[t]]

(* try_send: a tick that finds the slot taken is missed.                   *)
BugEndsWhenFull(t) ==
  /\ At(t, "send", IF t \in OneShots THEN "close" ELSE IF closed[t] \/ buf[t] = 1 THEN "over" ELSE "recount")
  /\ Put(t)
  /\ UNCHANGED <<pending, cancelled, fired, closed, spc, stopped>>
Send(t) ==
  /\ At(t, "send", IF t \in OneShots THEN "close" ELSE IF closed[t] THEN "over" ELSE "recount")
  /\ Put(t)
  /\ UNCHANGED <<pending, cancelled, fired, closed, spc, stopped>>

CloseFired(t) ==
  /\ At(t, "close", "over")
  /\ closed' = [closed EXCEPT ![t] = TRUE]
  /\ UNCHANGED <<pending, cancelled, fired, buf, carried, spc, stopped>>

(* A ticker arms its next timer.                                           *)
Recount(t) ==
  /\ At(t, "recount", "counted")
  /\ pending' = pending + 1
  /\ UNCHANGED <<cancelled, fired, channel, spc, stopped>>

(* The program has the channel once the constructor or tick() returned.    *)
Shared(t) == tpc[t] \notin {"new", "counted", "failed"} \/ carried[t]

-----------------------------------------------------------------------------
(* stop().                                                                 *)

CancelTimer(p, t) ==
  /\ spc[p] = Out
  /\ t \in OneShots /\ Shared(t)
  /\ spc' = [spc EXCEPT ![p] = [at |-> "test", t |-> t]]
  /\ cancelled' = [cancelled EXCEPT ![t] = TRUE]
  /\ UNCHANGED <<pending, tpc, fired, channel, stopped>>

BugAlwaysStops(p, t) ==
  /\ StopAt(p, t, "test", "uncount")
  /\ fired' = [fired EXCEPT ![t] = TRUE]
  /\ UNCHANGED <<pending, tpc, cancelled, channel, stopped>>
TestFired(p, t) ==
  /\ StopAt(p, t, "test", IF fired[t] THEN "out" ELSE "uncount")
  /\ fired' = [fired EXCEPT ![t] = TRUE]
  /\ UNCHANGED <<pending, tpc, cancelled, channel, stopped>>

UncountStopped(p, t) ==
  /\ StopAt(p, t, "uncount", "close")
  /\ pending' = pending - 1
  /\ UNCHANGED <<tpc, cancelled, fired, channel, stopped>>

CloseStopped(p, t) ==
  /\ StopAt(p, t, "close", "out")
  /\ closed' = [closed EXCEPT ![t] = TRUE]
  /\ stopped' = [stopped EXCEPT ![t] = @ + 1]
  /\ UNCHANGED <<pending, tpc, cancelled, fired, buf, carried>>

-----------------------------------------------------------------------------
Receive(t) ==
  /\ Shared(t)
  /\ buf[t] > 0
  /\ buf' = [buf EXCEPT ![t] = 0]
  /\ UNCHANGED <<pending, tpc, cancelled, fired, closed, carried, spc, stopped>>

Close(t) ==
  /\ Shared(t)
  /\ closed' = [closed EXCEPT ![t] = TRUE]
  /\ UNCHANGED <<pending, tpc, cancelled, fired, buf, carried, spc, stopped>>

TimerStep(t) ==
  \/ Start(t)
  \/ StartFails(t)
  \/ Elapse(t)
  \/ Fire(t)
  \/ Uncount(t)
  \/ Send(t)
  \/ CloseFired(t)
  \/ Recount(t)

StopStep(p) == \E t \in OneShots : TestFired(p, t) \/ UncountStopped(p, t) \/ CloseStopped(p, t)

Next ==
  \/ \E t \in Timer : Create(t) \/ TimerStep(t) \/ Receive(t) \/ Close(t)
  \/ \E p \in Procs : StopStep(p) \/ \E t \in OneShots : CancelTimer(p, t)

Spec == Init /\ [][Next]_vars

(* Delays end, threads run.                                                *)
FairSpec ==
  /\ Spec
  /\ \A t \in Timer : WF_vars(TimerStep(t))
  /\ \A p \in Procs : WF_vars(StopStep(p))

-----------------------------------------------------------------------------
(* t has been counted and nobody has taken it back.                        *)
Counted(t) ==
  IF t \in OneShots
  THEN /\ tpc[t] # "new"
       /\ \/ ~fired[t]
          \/ tpc[t] = "uncount"
          \/ \E p \in Procs : spc[p] = [at |-> "uncount", t |-> t]
  ELSE tpc[t] \in {"counted", "failed", "armed", "uncount"}

(* Types; the detector's count is that of the timers that will still fire  *)
(* or be taken off it, and of those that could not be started: fire and    *)
(* any number of stop() calls that race change it once.                    *)
TimersTypeOK ==
  /\ pending = Cardinality({t \in Timer : Counted(t)})
  /\ tpc \in [Timer -> {"new", "counted", "armed", "fire", "uncount", "send", "close", "recount", "over", "failed"}]
  /\ buf \in [Timer -> 0..1]
  /\ spc \in [Procs -> {Out} \cup [at: {"test", "uncount", "close"}, t: OneShots]]

(* "True if it was stopped before firing, in which case the channel closes *)
(* without ever carrying a value" (Timer.stop); one stop() can say so.     *)
StoppedIsSilent ==
  \A t \in Timer : stopped[t] > 0 => stopped[t] = 1 /\ closed[t] /\ ~carried[t]

(* "Close the returned channel to stop the ticker" (tick): until then      *)
(* ticks go on, whatever a slow receiver missed; after that it ends and is *)
(* no longer counted.  Only a thread that does not start ends it before.   *)
TicksUntilClosed ==
  \A t \in Tickers :
    /\ (tpc[t] # "new" /\ buf[t] = 0) ~> (buf[t] = 1 \/ closed[t] \/ tpc[t] = "failed")
    /\ (closed[t] /\ Shared(t)) ~> (tpc[t] = "failed" \/ (tpc[t] = "over" /\ ~Counted(t)))
=============================================================================
