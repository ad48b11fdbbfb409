------------------------------ MODULE TaskPool ------------------------------
(***************************************************************************)
(* What go() promises (_routines.py): a routine that was accepted is       *)
(* started, once, however many others are blocked, and ends when those it  *)
(* joins have ended.  There are no workers here, and no queue.             *)
(***************************************************************************)
EXTENDS Integers

CONSTANTS
  Tasks,   \* the routines spawned, each once
  Needs    \* Needs[t]: the tasks t joins

VARIABLES
  taken,     \* the tasks that were submitted
  refused,   \* those for which go() raised
  runs,      \* runs[t]: how often t was started
  done       \* the tasks that ended

vars == <<taken, refused, runs, done>>

Init ==
  /\ taken = {} /\ refused = {} /\ done = {}
  /\ runs = [t \in Tasks |-> 0]

Submit(t) ==
  /\ t \notin taken \cup refused
  /\ taken' = taken \cup {t}
  /\ UNCHANGED <<refused, runs, done>>

Refuse(t) ==
  /\ t \in taken /\ runs[t] = 0
  /\ taken' = taken \ {t}
  /\ refused' = refused \cup {t}
  /\ UNCHANGED <<runs, done>>

Start(t) ==
  /\ t \in taken /\ runs[t] = 0
  /\ runs' = [runs EXCEPT ![t] = 1]
  /\ UNCHANGED <<taken, refused, done>>

End(t) ==
  /\ runs[t] = 1 /\ t \notin done
  /\ Needs[t] \subseteq done \cup refused
  /\ done' = done \cup {t}
  /\ UNCHANGED <<taken, refused, runs>>

Next == \E t \in Tasks : Submit(t) \/ Refuse(t) \/ Start(t) \/ End(t)

Spec == Init /\ [][Next]_vars

(* "the pool grows without bound so a burst of blocked routines can never  *)
(* starve a runnable one".                                                 *)
FairSpec ==
  /\ Spec
  /\ \A t \in Tasks : WF_vars(Start(t)) /\ WF_vars(End(t))
=============================================================================
