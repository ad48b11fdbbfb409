-------------------------------- MODULE Once --------------------------------
(***************************************************************************)
(* Once.do and the once() decorator of _sync.py: one function, called by   *)
(* any thread at any time, that must run once.  _done is read without the  *)
(* lock first, and again under it.  once() also hands the first call's     *)
(* value or exception to every caller; do() hands them to its first caller *)
(* only.                                                                   *)
(*                                                                         *)
(* Its names differ from those of RWMutex: SyncProofs extends both.        *)
(***************************************************************************)
EXTENDS Integers

CONSTANTS
  Callers,   \* the threads that call
  NoProc,    \* the holder of the free lock, no thread
  Results,   \* what one execution of fn may produce, a value or an exception
  Nothing    \* no result, not a member of Results

VARIABLES
  done,     \* _done; done of once()
  lock,     \* the thread holding the lock
  result,   \* value and exc of once()
  ended,    \* how many executions of fn have ended
  made,     \* what the first of them produced
  at,       \* at[p]: "out", or where it is inside the call, or "returned"
  got       \* got[p]: what the latest call of p returned or raised

onceVars == <<done, lock, result, ended, made, at, got>>

OnceInit ==
  /\ done = FALSE
  /\ lock = NoProc
  /\ result = Nothing
  /\ ended = 0
  /\ made = Nothing
  /\ at = [p \in Callers |-> "out"]
  /\ got = [p \in Callers |-> Nothing]

Goes(p, to) == at' = [at EXCEPT ![p] = to]

Call(p) ==
  /\ at[p] \in {"out", "returned"}
  /\ Goes(p, IF done THEN "reading" ELSE "locking")
  /\ UNCHANGED <<done, lock, result, ended, made, got>>

Enter(p) ==
  /\ at[p] = "locking"
  /\ lock = NoProc
  /\ lock' = p
  /\ Goes(p, IF done THEN "leaving" ELSE "running")
  /\ UNCHANGED <<done, result, ended, made, got>>

(* fn ends; once() stores what it produced, ...                            *)
Run(p) ==
  /\ at[p] = "running"
  /\ ended' = ended + 1
  /\ \E v \in Results :
       /\ result' = v
       /\ made' = IF ended = 0 THEN v ELSE made
  /\ Goes(p, "ran")
  /\ UNCHANGED <<done, lock, got>>

(* ... and the finally clause declares it done.                            *)
Finish(p) ==
  /\ at[p] = "ran"
  /\ done' = TRUE
  /\ Goes(p, "leaving")
  /\ UNCHANGED <<lock, result, ended, made, got>>

Leave(p) ==
  /\ at[p] = "leaving"
  /\ lock' = NoProc
  /\ Goes(p, "reading")
  /\ UNCHANGED <<done, result, ended, made, got>>

Read(p) ==
  /\ at[p] = "reading"
  /\ got' = [got EXCEPT ![p] = result]
  /\ Goes(p, "returned")
  /\ UNCHANGED <<done, lock, result, ended, made>>

Step(p) == Enter(p) \/ Run(p) \/ Finish(p) \/ Leave(p) \/ Read(p)
OnceNext == \E p \in Callers : Call(p) \/ Step(p)
OnceSpec == OnceInit /\ [][OnceNext]_onceVars

-----------------------------------------------------------------------------
(* Types; the lock is held by the thread between its two ends.             *)
OnceTypeOK ==
  /\ done \in BOOLEAN
  /\ result \in Results \cup {Nothing}
  /\ made \in Results \cup {Nothing}
  /\ ended \in Nat
  /\ at \in [Callers -> {"out", "locking", "running", "ran", "leaving", "reading", "returned"}]
  /\ lock \in Callers \cup {NoProc}
  /\ \A p \in Callers : at[p] \in {"running", "ran", "leaving"} <=> lock = p
  /\ got \in [Callers -> Results \cup {Nothing}]

(* "Every call returns the first call's result; if the first call raised,  *)
(* every call re-raises that same exception" (once), and fn runs once: a   *)
(* caller that came second does not return before fn ended.                *)
FirstResult ==
  /\ ended <= 1
  /\ \A p \in Callers : at[p] = "returned" => ended = 1 /\ got[p] = made
=============================================================================
