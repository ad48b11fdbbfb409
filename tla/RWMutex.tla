------------------------------ MODULE RWMutex ------------------------------
(***************************************************************************)
(* RWMutex of _sync.py: readers and writers that wait on one Condition.    *)
(*                                                                         *)
(* Every method runs under the condition's lock from its first line to its *)
(* last, except while it sleeps in wait(): each stretch between two sleeps *)
(* is one step.  notify_all() empties the set of sleepers; a thread that   *)
(* was woken tests its loop condition again when it gets the lock back.    *)
(* Threads use the mutex as read() and write() do: they unlock what they   *)
(* hold, once, and do not nest.  Python never wakes a Condition by itself. *)
(***************************************************************************)
EXTENDS Integers, FiniteSets

CONSTANTS
  Readers, Writers   \* the threads that call rlock, and those that call lock

ASSUME RWAssumption ==
  /\ IsFiniteSet(Readers)
  /\ IsFiniteSet(Writers)
  /\ Readers \cap Writers = {}

VARIABLES
  readers,         \* _readers
  writer,          \* _writer
  writersWaiting,  \* _writers_waiting
  asleep,          \* the threads in _cond.wait() nobody notified
  pc               \* pc[p]: "out", "waiting" inside rlock or lock, or "in"

vars == <<readers, writer, writersWaiting, asleep, pc>>

Threads == Readers \cup Writers

Init ==
  /\ readers = 0
  /\ writer = FALSE
  /\ writersWaiting = 0
  /\ asleep = {}
  /\ pc = [p \in Threads |-> "out"]

Go(p, to) == pc' = [pc EXCEPT ![p] = to]
Sleep(p) == asleep' = asleep \cup {p} /\ Go(p, "waiting")

(* rlock: the first test, or another one after a notification.             *)
BugNoPreference == writer
BlocksReaders == writer \/ writersWaiting > 0

RLock(p) ==
  /\ pc[p] \in {"out", "waiting"} /\ p \notin asleep
  /\ IF BlocksReaders
     THEN Sleep(p) /\ UNCHANGED readers
     ELSE readers' = readers + 1 /\ Go(p, "in") /\ UNCHANGED asleep
  /\ UNCHANGED <<writer, writersWaiting>>

BugNoNotify(p) ==
  /\ pc[p] = "in"
  /\ readers' = readers - 1
  /\ Go(p, "out")
  /\ UNCHANGED <<writer, writersWaiting, asleep>>
RUnlock(p) ==
  /\ pc[p] = "in"
  /\ readers' = readers - 1
  /\ asleep' = IF readers' = 0 THEN {} ELSE asleep
  /\ Go(p, "out")
  /\ UNCHANGED <<writer, writersWaiting>>

(* lock counts its thread among the waiting writers until the loop ends.   *)
BugWritersOnly == writer
BlocksWriters == writer \/ readers > 0
Counted(p) == IF pc[p] = "out" THEN writersWaiting + 1 ELSE writersWaiting

Lock(p) ==
  /\ pc[p] \in {"out", "waiting"} /\ p \notin asleep
  /\ IF BlocksWriters
     THEN Sleep(p) /\ writersWaiting' = Counted(p) /\ UNCHANGED writer
     ELSE /\ writersWaiting' = Counted(p) - 1
          /\ writer' = TRUE
          /\ Go(p, "in")
          /\ UNCHANGED asleep
  /\ UNCHANGED readers

Unlock(p) ==
  /\ pc[p] = "in"
  /\ writer' = FALSE
  /\ asleep' = {}
  /\ Go(p, "out")
  /\ UNCHANGED <<readers, writersWaiting>>

Next ==
  \/ \E p \in Readers : RLock(p) \/ RUnlock(p)
  \/ \E p \in Writers : Lock(p) \/ Unlock(p)

Spec == Init /\ [][Next]_vars

(* A thread that was woken runs, and one that holds the mutex gives it up. *)
(* Nobody is obliged to ask for it.                                        *)
FairSpec ==
  /\ Spec
  /\ \A p \in Readers : WF_vars(pc[p] = "waiting" /\ RLock(p)) /\ WF_vars(RUnlock(p))
  /\ \A p \in Writers : WF_vars(pc[p] = "waiting" /\ Lock(p)) /\ WF_vars(Unlock(p))

-----------------------------------------------------------------------------
In(S) == {p \in S : pc[p] = "in"}
Waiting(S) == {p \in S : pc[p] = "waiting"}

(* The variables have their types, and the three counters say how many     *)
(* threads read, write and wait to write.                                  *)
TypeOK ==
  /\ pc \in [Threads -> {"out", "waiting", "in"}]
  /\ asleep \subseteq Waiting(Threads)
  /\ writer \in BOOLEAN
  /\ readers = Cardinality(In(Readers))
  /\ writer <=> In(Writers) # {}
  /\ writersWaiting = Cardinality(Waiting(Writers))

(* "any number of readers or exactly one writer" (class RWMutex).          *)
Exclusion ==
  /\ \A v, w \in In(Writers) : v = w
  /\ In(Writers) = {} \/ In(Readers) = {}

(* Nobody sleeps that nobody will wake: a writer that sleeps waits for a   *)
(* holder, whose unlock notifies; a reader sleeps while a writer holds the *)
(* mutex or waits for it.                                                  *)
NoLostWakeup ==
  /\ asleep \cap Writers # {} => In(Threads) # {}
  /\ asleep \cap Readers # {} => In(Writers) \cup Waiting(Writers) # {}

(* A reader that asks while a writer waits does not get in before it.      *)
WriterFirst ==
  [][\A r \in Readers : pc[r] # "in" /\ pc'[r] = "in" => Waiting(Writers) = {}]_vars

(* "a steady stream of readers cannot starve writers" (class RWMutex): one *)
(* of the writers that wait gets in; another may overtake it.              *)
WriterGetsIn == (Waiting(Writers) # {}) ~> (In(Writers) # {})

=============================================================================
