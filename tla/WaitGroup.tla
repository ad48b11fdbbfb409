----------------------------- MODULE WaitGroup -----------------------------
(***************************************************************************)
(* WaitGroup of _sync.py: a counter under a Condition.  go() counts a      *)
(* routine, then spawns it; the routine counts itself out when it ends.    *)
(* Or the program does all that itself: add(n), n spawns, and a done() in  *)
(* each routine.                                                           *)
(*                                                                         *)
(* Any thread and any running routine may call add() and go(), and a group *)
(* is used again after its counter was zero.  A routine does not wait for  *)
(* its own group: it would wait for itself.  What runs under the           *)
(* condition's lock is one step.  A program that calls done() too often    *)
(* gets a ValueError and a counter that stays negative; this one does not. *)
(***************************************************************************)
EXTENDS Integers, FiniteSets

CONSTANTS
  Procs,     \* threads of the program
  Routines,  \* the routines it may spawn into the group, each once
  Nobody     \* no routine

ASSUME GroupAssumption ==
  /\ IsFiniteSet(Routines)
  /\ Procs \cap Routines = {}
  /\ Nobody \notin Routines

Callers == Procs \cup Routines

VARIABLES
  count,    \* _count
  asleep,   \* the threads in _cond.wait() nobody notified
  routine,  \* routine[r]: "new", "pledged", "counted", "spawned", "over", "finished"
  pc,       \* pc[a]: "out", "going", "waiting" or "returned" with True
  going,    \* going[a]: the routine caller a is spawning
  covers    \* covers[a]: the routines that were counted when a called wait

vars == <<count, asleep, routine, pc, going, covers>>

Init ==
  /\ count = 0
  /\ asleep = {}
  /\ routine = [r \in Routines |-> "new"]
  /\ pc = [a \in Callers |-> "out"]
  /\ going = [a \in Callers |-> Nobody]
  /\ covers = [a \in Callers |-> {}]

(* A routine makes calls while it runs.                                    *)
Runs(a) == a \in Routines => routine[a] = "spawned"
Free(a) == Runs(a) /\ pc[a] \in {"out", "returned"}

Go(a, to) == pc' = [pc EXCEPT ![a] = to]

(* add(n): a zero notifies everybody.                                      *)
BugNoNotify(n) == count' = count + n /\ UNCHANGED asleep
Add(n) ==
  /\ count' = count + n
  /\ asleep' = IF count' = 0 THEN {} ELSE asleep

Uncounted(a, r) == Free(a) /\ routine[r] = "new"

(* go(fn): add(1), ...                                                     *)
Count(a, r) ==
  /\ Uncounted(a, r)
  /\ Add(1)
  /\ routine' = [routine EXCEPT ![r] = "counted"]
  /\ going' = [going EXCEPT ![a] = r]
  /\ Go(a, "going")
  /\ UNCHANGED covers

(* ... then Handle(wrapped, ...), which starts it.                         *)
Spawn(a) ==
  /\ pc[a] = "going"
  /\ routine' = [routine EXCEPT ![going[a]] = "spawned"]
  /\ going' = [going EXCEPT ![a] = Nobody]
  /\ Go(a, "out")
  /\ UNCHANGED <<count, asleep, covers>>

(* The program counts the routines of S before it spawns them.             *)
Pledge(a, S) ==
  /\ \A r \in S : Uncounted(a, r)
  /\ Add(Cardinality(S))
  /\ routine' = [r \in Routines |-> IF r \in S THEN "pledged" ELSE routine[r]]
  /\ UNCHANGED <<pc, going, covers>>

Fulfil(a, r) ==
  /\ Free(a)
  /\ routine[r] = "pledged"
  /\ routine' = [routine EXCEPT ![r] = "spawned"]
  /\ UNCHANGED <<count, asleep, pc, going, covers>>

(* fn returns or raises; the finally clause of wrapped calls done().       *)
BodyEnds(r) ==
  /\ routine[r] = "spawned"
  /\ pc[r] = "out"
  /\ routine' = [routine EXCEPT ![r] = "over"]
  /\ UNCHANGED <<count, asleep, pc, going, covers>>

Done(r) ==
  /\ routine[r] = "over"
  /\ Add(-1)
  /\ routine' = [routine EXCEPT ![r] = "finished"]
  /\ UNCHANGED <<pc, going, covers>>

(* wait(): the predicate is tested when the call begins, ...               *)
BeginWait(a, S) ==
  /\ covers' = [covers EXCEPT ![a] = S]
  /\ IF count = 0
     THEN Go(a, "returned") /\ UNCHANGED asleep
     ELSE Go(a, "waiting") /\ asleep' = asleep \cup {a}

Wait(a) ==
  /\ Free(a)
  /\ BeginWait(a, {r \in Routines : routine[r] # "new"})
  /\ UNCHANGED <<count, routine, going>>

(* ... and again after every notification.                                 *)
Retest(a) ==
  /\ pc[a] = "waiting" /\ a \notin asleep
  /\ IF count = 0
     THEN Go(a, "returned") /\ UNCHANGED asleep
     ELSE asleep' = asleep \cup {a} /\ UNCHANGED pc

Woken(a) == Retest(a) /\ UNCHANGED <<count, routine, going, covers>>

(* A timed wait() that expires tests the predicate a last time.            *)
Expire(a) ==
  /\ pc[a] = "waiting"
  /\ Go(a, IF count = 0 THEN "returned" ELSE "out")
  /\ asleep' = asleep \ {a}
  /\ UNCHANGED <<count, routine, going, covers>>

Next ==
  \E a \in Callers :
    \/ \E r \in Routines : Count(a, r) \/ Fulfil(a, r)
    \/ \E S \in SUBSET Routines : Pledge(a, S)
    \/ Spawn(a)
    \/ a \in Procs /\ (Wait(a) \/ Woken(a) \/ Expire(a))
    \/ a \in Routines /\ (BodyEnds(a) \/ Done(a))

Spec == Init /\ [][Next]_vars

-----------------------------------------------------------------------------
In(S) == {r \in Routines : routine[r] \in S}

(* Types; the counter is the number of routines counted in and not out.    *)
TypeOK ==
  /\ count = Cardinality(In({"pledged", "counted", "spawned", "over"}))
  /\ routine \in [Routines -> {"new", "pledged", "counted", "spawned", "over", "finished"}]
  /\ pc \in [Callers -> {"out", "going", "waiting", "returned"}]
  /\ asleep \subseteq {a \in Callers : pc[a] = "waiting"}
  /\ going \in [Callers -> Routines \cup {Nobody}]
  /\ \A a \in Callers : pc[a] = "going" => going[a] # Nobody /\ routine[going[a]] = "counted"
  /\ \A a, b \in Callers : going[a] = going[b] /\ going[a] # Nobody => a = b
  /\ covers \in [Callers -> SUBSET Routines]

(* A wait() that returned True has outlasted the body of every routine     *)
(* that was in the group when it was called, also of one that another      *)
(* thread was just spawning ("no matter how it exits", WaitGroup.go).  A   *)
(* routine of an ErrGroup is "leaving" when done() came and its slot is    *)
(* still to be released.                                                   *)
WaitCovers ==
  \A a \in Callers :
    pc[a] = "returned" => \A r \in covers[a] : routine[r] \in {"leaving", "finished"}

(* Nobody sleeps on a counter that is zero.                                *)
NoLostWakeup == asleep # {} => count # 0
=============================================================================
