------------------------------ MODULE Detector ------------------------------
(***************************************************************************)
(* The deadlock detector of _debug.py, with the threads it watches.        *)
(*                                                                         *)
(* A thread runs, or waits without a timeout: its operation is visible to  *)
(* others, then it calls park_begin if the detector is on, sleeps, is      *)
(* woken, calls park_end.  Who wakes whom is left open: any running thread *)
(* wakes any waiting one.  (A wait with a timeout wakes itself: here the   *)
(* thread runs.)  The watcher reads _active first, the rest under its own  *)
(* lock; how long its interval is compared with the threads' steps is open *)
(* as well.                                                                *)
(*                                                                         *)
(* Its names differ from those of Timers: TimersProofs extends both.       *)
(***************************************************************************)
EXTENDS Integers, FiniteSets

CONSTANTS
  Routines,   \* the routines that may be spawned
  Main,       \* the main thread
  Timers,     \* pyroutine timers
  Watchers,   \* bound: the watcher threads enable_deadlock_detection() can make
  Threadless, \* those for which Thread.start raises ("can't start new thread")
  NoPicture   \* last or warned_for is None

ASSUME DetectorAssumption ==
  /\ IsFiniteSet(Routines) /\ IsFiniteSet(Timers)
  /\ Main \notin Routines

Threads == Routines \cup {Main}

VARIABLES
  pc,        \* pc[t]: where thread t is
  woken,     \* waiting threads whose operation somebody completed
  active,    \* _active of the scheduler
  timer,     \* timer[x]: "none", "armed", "sending", "over"
  pendingTimers, \* _pending_timers
  enabled,   \* enabled
  parked,    \* _parked
  wpc,       \* wpc[d]: "none", "failed", "sleep", "look" or "over"
  sampled,   \* sampled[d]: the value of _active it read, until it looks
  last,      \* last
  warnedFor  \* warned_for

detectorVars == <<pc, woken, active, timer, pendingTimers, enabled, parked, wpc, sampled, last, warnedFor>>
watch == <<wpc, sampled, last, warnedFor>>

DetectorInit ==
  /\ pc = [t \in Threads |-> IF t = Main THEN "run" ELSE "new"]
  /\ woken = {}
  /\ active = 0
  /\ timer = [x \in Timers |-> "none"]
  /\ pendingTimers = 0
  /\ enabled = FALSE
  /\ parked = {}
  /\ wpc = [d \in Watchers |-> "none"]
  /\ sampled = [d \in Watchers |-> 0]
  /\ last = [d \in Watchers |-> NoPicture]
  /\ warnedFor = [d \in Watchers |-> NoPicture]

Moves(t, from, to) == pc[t] = from /\ pc' = [pc EXCEPT ![t] = to]
Waits(t) == pc[t] \in {"waiting", "begin", "parked", "asleep"}
SomebodyRuns == \E t \in Threads : pc[t] = "run"

-----------------------------------------------------------------------------
(* Threads.                                                                *)

Spawn(t) ==
  /\ SomebodyRuns
  /\ Moves(t, "new", "queued")
  /\ UNCHANGED <<woken, active, timer, pendingTimers, enabled, parked, watch>>

(* The worker loop counts the routine when it begins and ends.             *)
Activate(t) ==
  /\ Moves(t, "queued", "run")
  /\ active' = active + 1
  /\ UNCHANGED <<woken, timer, pendingTimers, enabled, parked, watch>>

End(t) ==
  /\ t \in Routines
  /\ Moves(t, "run", "ended")
  /\ active' = active - 1
  /\ UNCHANGED <<woken, timer, pendingTimers, enabled, parked, watch>>

(* An operation that finds nothing ready registers, ...                    *)
Block(t) ==
  /\ Moves(t, "run", "waiting")
  /\ UNCHANGED <<woken, active, timer, pendingTimers, enabled, parked, watch>>

ReadEnabled(t) ==
  /\ Moves(t, "waiting", IF enabled THEN "begin" ELSE "asleep")
  /\ UNCHANGED <<woken, active, timer, pendingTimers, enabled, parked, watch>>

ParkBegin(t) ==
  /\ Moves(t, "begin", "parked")
  /\ parked' = parked \cup {t}
  /\ UNCHANGED <<woken, active, timer, pendingTimers, enabled, watch>>

(* ... somebody completes it, ...                                          *)
Wake(u, t) ==
  /\ pc[u] = "run"
  /\ Waits(t)
  /\ woken' = woken \cup {t}
  /\ UNCHANGED <<pc, active, timer, pendingTimers, enabled, parked, watch>>

(* ... and it goes on.                                                     *)
BugPopIfEnabled(t) ==
  /\ t \in woken
  /\ Moves(t, "parked", "run")
  /\ parked' = IF enabled THEN parked \ {t} ELSE parked
  /\ woken' = woken \ {t}
  /\ UNCHANGED <<active, timer, pendingTimers, enabled, watch>>
ParkEnd(t) ==
  /\ t \in woken
  /\ Moves(t, "parked", "run")
  /\ parked' = parked \ {t}
  /\ woken' = woken \ {t}
  /\ UNCHANGED <<active, timer, pendingTimers, enabled, watch>>

GoOn(t) ==
  /\ t \in woken
  /\ Moves(t, "asleep", "run")
  /\ woken' = woken \ {t}
  /\ UNCHANGED <<active, timer, pendingTimers, enabled, parked, watch>>

-----------------------------------------------------------------------------
(* Timers: timer_started(); timer_finished() and then the value.           *)

StartTimer(x) ==
  /\ SomebodyRuns
  /\ timer[x] = "none"
  /\ timer' = [timer EXCEPT ![x] = "armed"]
  /\ pendingTimers' = pendingTimers + 1
  /\ UNCHANGED <<pc, woken, active, enabled, parked, watch>>

BugKeepCount(x) ==
  /\ timer[x] = "armed"
  /\ timer' = [timer EXCEPT ![x] = "sending"]
  /\ UNCHANGED <<pc, woken, active, pendingTimers, enabled, parked, watch>>
FireTimer(x) ==
  /\ timer[x] = "armed"
  /\ timer' = [timer EXCEPT ![x] = "sending"]
  /\ pendingTimers' = pendingTimers - 1
  /\ UNCHANGED <<pc, woken, active, enabled, parked, watch>>

TimerSends(x) ==
  /\ timer[x] = "sending"
  /\ timer' = [timer EXCEPT ![x] = "over"]
  /\ \E S \in {{}} \cup {{t} : t \in {u \in Threads : Waits(u)}} : woken' = woken \cup S
  /\ UNCHANGED <<pc, active, pendingTimers, enabled, parked, watch>>

-----------------------------------------------------------------------------
(* enable_deadlock_detection() raises when its thread does not start, and  *)
(* leaves the detector on.                                                 *)
Enable(d) ==
  /\ SomebodyRuns
  /\ ~enabled
  /\ wpc[d] = "none"
  /\ enabled' = TRUE
  /\ \E to \in {"sleep"} \cup (IF d \in Threadless THEN {"failed"} ELSE {}) :
       wpc' = [wpc EXCEPT ![d] = to]
  /\ UNCHANGED <<pc, woken, active, timer, pendingTimers, parked, sampled, last, warnedFor>>

(* disable_deadlock_detection() drops the event of the watcher that is on. *)
(* It may look on until the event is set; what it says then is left out.   *)
Disable ==
  /\ SomebodyRuns
  /\ enabled
  /\ enabled' = FALSE
  /\ parked' = {}
  /\ wpc' = [d \in Watchers |-> IF wpc[d] = "none" THEN "none" ELSE "over"]
  /\ sampled' = [d \in Watchers |-> 0]
  /\ last' = [d \in Watchers |-> NoPicture]
  /\ warnedFor' = [d \in Watchers |-> NoPicture]
  /\ UNCHANGED <<pc, woken, active, timer, pendingTimers>>

(* _watch.                                                                 *)
ReadActive(d) ==
  /\ wpc[d] = "sleep"
  /\ wpc' = [wpc EXCEPT ![d] = "look"]
  /\ sampled' = [sampled EXCEPT ![d] = active]
  /\ UNCHANGED <<pc, woken, active, timer, pendingTimers, enabled, parked, last, warnedFor>>

Picture(d) == [active |-> sampled[d], timers |-> pendingTimers, parked |-> parked]
LooksStuck(d) == sampled[d] > 0 /\ pendingTimers = 0 /\ Cardinality(parked \cap Routines) >= sampled[d]

Warns(d) == LooksStuck(d) /\ Picture(d) = last[d] /\ Picture(d) # warnedFor[d]

Look(d) ==
  /\ wpc[d] = "look"
  /\ wpc' = [wpc EXCEPT ![d] = "sleep"]
  /\ last' = [last EXCEPT ![d] = Picture(d)]
  /\ warnedFor' = [warnedFor EXCEPT ![d] =
       IF Warns(d) THEN Picture(d) ELSE IF Picture(d) # last[d] THEN NoPicture ELSE @]
  /\ sampled' = [sampled EXCEPT ![d] = 0]
  /\ UNCHANGED <<pc, woken, active, timer, pendingTimers, enabled, parked>>

ThreadStep ==
  \/ \E t \in Threads :
       \/ Spawn(t)
       \/ Activate(t)
       \/ End(t)
       \/ Block(t)
       \/ ReadEnabled(t)
       \/ ParkBegin(t)
       \/ ParkEnd(t)
       \/ GoOn(t)
       \/ \E u \in Threads : Wake(u, t)
  \/ \E x \in Timers : StartTimer(x) \/ FireTimer(x) \/ TimerSends(x)
  \/ \E d \in Watchers : Enable(d)
  \/ Disable

WatcherStep(d) == ReadActive(d) \/ Look(d)

DetectorNext == ThreadStep \/ \E d \in Watchers : WatcherStep(d)
DetectorSpec == DetectorInit /\ [][DetectorNext]_detectorVars

(* The watcher's interval ends.                                            *)
FairDetectorSpec == DetectorSpec /\ \A d \in Watchers : WF_detectorVars(WatcherStep(d))

-----------------------------------------------------------------------------
(* Types; the counters count what their names say, and only a thread that  *)
(* is inside its wait has an entry, whenever the detector is turned on or  *)
(* off.                                                                    *)
DetectorTypeOK ==
  /\ pc \in [Threads -> {"new", "queued", "run", "waiting", "begin", "parked", "asleep", "ended"}]
  /\ woken \subseteq {t \in Threads : Waits(t)}
  /\ active = Cardinality({t \in Routines : pc[t] = "run" \/ Waits(t)})
  /\ pendingTimers = Cardinality({x \in Timers : timer[x] = "armed"})
  /\ parked \subseteq {t \in Threads : pc[t] = "parked"}
  /\ wpc \in [Watchers -> {"none", "failed", "sleep", "look", "over"}]
  /\ enabled = \E d \in Watchers : wpc[d] \in {"failed", "sleep", "look"}

(* Every thread is parked for ever, and no timer will send.                *)
Deadlock ==
  /\ enabled /\ active > 0
  /\ \A t \in Threads : pc[t] \in {"new", "ended"} \/ (t \in parked \ woken)
  /\ \A x \in Timers : timer[x] \in {"none", "over"}

(* "a real deadlock is reported within two intervals" (_debug.py): when    *)
(* every thread is parked for ever the watcher that is on warns of it,     *)
(* unless it is the one whose thread did not start.                        *)
DeadlockReported ==
  Deadlock ~> \E d \in Watchers :
    wpc[d] = "failed" \/ warnedFor[d] = [active |-> active, timers |-> 0, parked |-> parked]
=============================================================================
