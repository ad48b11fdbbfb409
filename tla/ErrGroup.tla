------------------------------ MODULE ErrGroup ------------------------------
(***************************************************************************)
(* ErrGroup of _sync.py: a WaitGroup whose routines can fail.  The first   *)
(* error is kept and cancels the group's context; a semaphore limits how   *)
(* many routines run.  wait() is WaitGroup's, then a cancel, then the      *)
(* error.  An exception is named by the routine that raised it.            *)
(***************************************************************************)
EXTENDS WaitGroup

CONSTANTS
  Limit,        \* set_limit(n)
  Nesting,      \* the routines that call go() of their own group
  Watching,     \* those that end when they see the group's context cancelled
  Unstartable   \* those for which Thread.start may raise ("can't start new thread")

ASSUME LimitAssumption ==
  /\ Limit \in Nat \ {0}
  /\ Nesting \cup Watching \cup Unstartable \subseteq Routines

VARIABLES
  sem,        \* _sem: free slots
  exc,        \* _exc
  cancelled,  \* the group's context
  failed,     \* routines whose fn raised
  got         \* got[a]: what the latest wait() of a raised, Nobody if nothing

errVars == <<sem, exc, cancelled, failed, got>>
groupVars == <<vars, errVars>>

GroupInit ==
  /\ Init
  /\ sem = Limit
  /\ exc = Nobody
  /\ cancelled = FALSE
  /\ failed = {}
  /\ got = [a \in Callers |-> Nobody]

Moves(r, to) == routine' = [routine EXCEPT ![r] = to]

(* go(): take a slot, waiting for one; count; start the routine.           *)
EnterGo(a, r) ==
  /\ pc[a] = "out"
  /\ a \in Routines => a \in Nesting /\ routine[a] = "spawned"
  /\ routine[r] = "new"
  /\ Moves(r, "asked")
  /\ going' = [going EXCEPT ![a] = r]
  /\ Go(a, "acquiring")
  /\ UNCHANGED <<count, asleep, covers, errVars>>

AcquireSlot(a) ==
  /\ pc[a] = "acquiring"
  /\ sem > 0
  /\ sem' = sem - 1
  /\ Go(a, "counting")
  /\ UNCHANGED <<count, asleep, routine, going, covers, exc, cancelled, failed, got>>

BugUncounted(a) ==
  /\ pc[a] = "counting"
  /\ Moves(going[a], "counted")
  /\ Go(a, "going")
  /\ UNCHANGED <<count, asleep, going, covers, errVars>>
CountIn(a) ==
  /\ pc[a] = "counting"
  /\ Add(1)
  /\ Moves(going[a], "counted")
  /\ Go(a, "going")
  /\ UNCHANGED <<going, covers, errVars>>

SpawnInGroup(a) == Spawn(a) /\ UNCHANGED errVars

(* Handle() raises out of go(): nothing gives slot and count back.         *)
StartFails(a) ==
  /\ pc[a] = "going"
  /\ going[a] \in Unstartable
  /\ Moves(going[a], "lost")
  /\ going' = [going EXCEPT ![a] = Nobody]
  /\ Go(a, "out")
  /\ UNCHANGED <<count, asleep, covers, errVars>>

(* ErrGroup(parent): the group's context is a child of the program's.      *)
ParentCancels ==
  /\ cancelled' = TRUE
  /\ UNCHANGED <<vars, sem, exc, failed, got>>

(* The wrapped function.  fn returns, or raises, ...                       *)
Returns(r) ==
  /\ r \in Watching => cancelled
  /\ BodyEnds(r)
  /\ UNCHANGED errVars

Raises(r) ==
  /\ r \in Watching => cancelled
  /\ routine[r] = "spawned"
  /\ pc[r] = "out"
  /\ Moves(r, "raised")
  /\ failed' = failed \cup {r}
  /\ UNCHANGED <<count, asleep, pc, going, covers, sem, exc, cancelled, got>>

(* ... then the first error is kept, the context cancelled, ...            *)
FirstError(r) == IF exc = Nobody THEN r ELSE exc
Keep(r) ==
  /\ routine[r] = "raised"
  /\ exc' = FirstError(r)
  /\ Moves(r, "kept")
  /\ UNCHANGED <<count, asleep, pc, going, covers, sem, cancelled, failed, got>>

BugKeepContext(r) ==
  /\ routine[r] = "kept"
  /\ Moves(r, "over")
  /\ UNCHANGED <<count, asleep, pc, going, covers, errVars>>
CancelGroup(r) ==
  /\ routine[r] = "kept"
  /\ cancelled' = TRUE
  /\ Moves(r, "over")
  /\ UNCHANGED <<count, asleep, pc, going, covers, sem, exc, failed, got>>

(* ... and in any case done() comes before the slot.                       *)
BugDoneFirst(r) ==
  /\ routine[r] \in {"raised", "over"}
  /\ Add(-1)
  /\ Moves(r, "leaving")
  /\ UNCHANGED <<pc, going, covers, errVars>>
CountOut(r) ==
  /\ routine[r] = "over"
  /\ Add(-1)
  /\ Moves(r, "leaving")
  /\ UNCHANGED <<pc, going, covers, errVars>>

BugKeepSlot(r) ==
  /\ routine[r] = "leaving"
  /\ sem' = IF r \in failed THEN sem ELSE sem + 1
  /\ Moves(r, "finished")
  /\ UNCHANGED <<count, asleep, pc, going, covers, exc, cancelled, failed, got>>
ReleaseSlot(r) ==
  /\ routine[r] = "leaving"
  /\ sem' = sem + 1
  /\ Moves(r, "finished")
  /\ UNCHANGED <<count, asleep, pc, going, covers, exc, cancelled, failed, got>>

(* wait(): TimeoutError leaves the context alone (Expire goes to "out").   *)
WaitGroupWait(p) ==
  /\ pc[p] = "out"
  /\ BeginWait(p, {r \in Routines : routine[r] \notin {"new", "asked"}})
  /\ UNCHANGED <<count, routine, going, errVars>>

CancelOnReturn(p) ==
  /\ pc[p] = "returned"
  /\ cancelled' = TRUE
  /\ Go(p, "reporting")
  /\ UNCHANGED <<count, asleep, routine, going, covers, sem, exc, failed, got>>

Report(p) ==
  /\ pc[p] = "reporting"
  /\ got' = [got EXCEPT ![p] = exc]
  /\ Go(p, "reported")
  /\ UNCHANGED <<count, asleep, routine, going, covers, sem, exc, cancelled, failed>>

(* The program goes on to its next call.                                   *)
GoOn(p) ==
  /\ pc[p] = "reported"
  /\ Go(p, "out")
  /\ UNCHANGED <<count, asleep, routine, going, covers, errVars>>

InWait(p) ==
  \/ Woken(p) /\ UNCHANGED errVars
  \/ CancelOnReturn(p)
  \/ Report(p)

Waits(p) ==
  \/ WaitGroupWait(p)
  \/ InWait(p)
  \/ Expire(p) /\ UNCHANGED errVars
  \/ GoOn(p)

Starts(a) ==
  \/ AcquireSlot(a)
  \/ CountIn(a)
  \/ SpawnInGroup(a)
  \/ StartFails(a)

Ends(r) ==
  \/ Returns(r)
  \/ Raises(r)
  \/ Keep(r)
  \/ CancelGroup(r)
  \/ CountOut(r)
  \/ ReleaseSlot(r)

GroupNext ==
  \/ \E a \in Callers : Starts(a) \/ \E r \in Routines : EnterGo(a, r)
  \/ ParentCancels
  \/ \E p \in Procs : Waits(p)
  \/ \E r \in Routines : Ends(r)

GroupSpec == GroupInit /\ [][GroupNext]_groupVars

(* Threads inside the library run; a routine that can end does.            *)
FairGroupSpec ==
  /\ GroupSpec
  /\ \A a \in Callers : WF_groupVars(Starts(a))
  /\ \A p \in Procs : WF_groupVars(InWait(p))
  /\ \A r \in Routines : WF_groupVars(Ends(r))

-----------------------------------------------------------------------------
Running == In({"spawned", "raised", "kept"})
Lost == In({"lost"})
InGo(S) == {a \in Callers : pc[a] \in S}

(* Types; the counter and the semaphore say who is in the group.           *)
GroupTypeOK ==
  /\ routine \in [Routines -> {"new", "asked", "counted", "spawned", "raised", "kept",
                               "over", "leaving", "finished", "lost"}]
  /\ pc \in [Callers -> {"out", "acquiring", "counting", "going", "waiting", "returned",
                         "reporting", "reported"}]
  /\ asleep \subseteq {a \in Callers : pc[a] = "waiting"}
  /\ \A a \in Callers : pc[a] \in {"acquiring", "counting", "going"} <=> going[a] # Nobody
  /\ exc \in failed \cup {Nobody}
  /\ sem \in 0..Limit
  /\ count \in 0..Cardinality(Routines)

(* "Cap the number of concurrently running routines" (set_limit), and no   *)
(* slot and no count outlives its routine: when nobody is in go() and no   *)
(* routine is left, every slot is free and wait() returns at once. Only a  *)
(* routine whose thread could not be started keeps them for ever.          *)
SlotsReturn ==
  /\ Cardinality(Running) <= Limit
  /\ InGo({"counting", "going"}) = {} /\ In({"counted", "spawned", "raised", "kept", "over", "leaving"}) = {}
       => sem + Cardinality(Lost) = Limit /\ count = Cardinality(Lost)

(* wait() reports an error of the group if one of the routines it waited   *)
(* for failed, whoever recorded it.                                        *)
ErrorReported ==
  \A p \in Procs : pc[p] = "reported" /\ covers[p] \cap failed # {} => got[p] \in failed

Back == {"out", "reported"}

(* Every slot is held by a routine that waits for one, in go().            *)
HoldAndWait == sem = 0 /\ \A r \in In({"counted", "spawned", "raised", "kept", "over", "leaving"}) : pc[r] = "acquiring"

(* Somebody waits for a cancellation that nobody has asked for.            *)
StillWatching == ~cancelled /\ failed = {} /\ \E r \in Watching : routine[r] = "spawned"

(* A go() that waits for a slot gets one and a wait() comes back: "sibling *)
(* routines watch eg.ctx to stop early" when one of them fails.  But for   *)
(* two cases: a thread could not be started, and routines that add to      *)
(* their own limited group hold all of its slots meanwhile ("While n       *)
(* routines are active, go() blocks the caller until one finishes").       *)
GroupLive ==
  \A a \in Procs \cup Nesting :
    (pc[a] \notin Back) ~> (pc[a] \in Back \/ StillWatching \/ HoldAndWait \/ Lost # {})
=============================================================================
