------------------------------ MODULE GroupProofs ------------------------------
(***************************************************************************)
(* WaitGroup and ErrGroup keep their promises for any set of threads and   *)
(* any finite set of routines, ErrGroup with any limit.  The counter is    *)
(* the number of routines inside: that is what lets a zero stand for       *)
(* "everybody I found here has finished".                                  *)
(***************************************************************************)
EXTENDS ErrGroup, FiniteSetTheorems, TLAPS

-----------------------------------------------------------------------------
(* WaitGroup, used through go() or through add() and done().               *)

Pending == In({"pledged", "counted", "spawned", "over"})

(* A caller names a routine exactly while it is spawning it, and wait()    *)
(* covers no routine that is still new.                                    *)
Bookkeeping ==
  /\ \A a \in Callers : pc[a] = "going" <=> going[a] # Nobody
  /\ \A a \in Callers : \A r \in covers[a] : routine[r] # "new"

WGInv == TypeOK /\ Bookkeeping /\ WaitCovers /\ NoLostWakeup

(* The counter counts.                                                     *)
LEMMA Counter ==
  ASSUME TypeOK
  PROVE  /\ count \in Nat /\ IsFiniteSet(Pending) /\ count = Cardinality(Pending)
         /\ count = 0 => \A r \in Routines : routine[r] \in {"new", "finished"}
<1>1. IsFiniteSet(Pending)
  BY GroupAssumption, FS_Subset DEF Pending, In
<1>2. count = Cardinality(Pending) /\ count \in Nat
  BY <1>1, FS_CardinalityType DEF TypeOK, Pending
<1>3. count = 0 => Pending = {}
  BY <1>1, <1>2, FS_EmptySet
<1> QED
  BY <1>1, <1>2, <1>3 DEF TypeOK, Pending, In

(* One routine changes its state: it comes inside, leaves, or neither.     *)
LEMMA RoutineMoves ==
  ASSUME TypeOK, NEW r \in Routines,
         NEW to \in {"counted", "spawned", "over", "finished"},
         routine' = [routine EXCEPT ![r] = to]
  PROVE  Cardinality(Pending') =
           count + (IF to # "finished" /\ r \notin Pending THEN 1
                    ELSE IF to = "finished" /\ r \in Pending THEN -1 ELSE 0)
<1>1. CASE to # "finished"
  <2>1. Pending' = Pending \cup {r}
    BY <1>1 DEF TypeOK, Pending, In
  <2> QED
    BY <1>1, <2>1, Counter, FS_AddElement
<1>2. CASE to = "finished"
  <2>1. Pending' = Pending \ {r}
    BY <1>2 DEF TypeOK, Pending, In
  <2> QED
    BY <1>2, <2>1, Counter, FS_RemoveElement
<1> QED
  BY <1>1, <1>2

LEMMA WGInitInv == ASSUME Init PROVE WGInv
<1>1. Pending = {}
  BY DEF Init, Pending, In
<1>2. TypeOK
  BY <1>1, FS_EmptySet DEF Init, TypeOK, Pending
<1> QED
  BY <1>2 DEF Init, WGInv, Bookkeeping, WaitCovers, NoLostWakeup

LEMMA CountInv ==
  ASSUME WGInv, NEW a \in Callers, NEW r \in Routines, Count(a, r)
  PROVE  WGInv'
<1> USE DEF Count, Uncounted, Add, Go
<1>1. count' = Cardinality(Pending')
  BY RoutineMoves DEF WGInv, Pending, In
<1>2. count' # 0
  BY Counter DEF WGInv
<1>3. \A b \in Callers : going[b] # r
  BY GroupAssumption DEF WGInv, TypeOK, Bookkeeping
<1>4. TypeOK'
  BY <1>1, <1>2, <1>3, GroupAssumption DEF WGInv, TypeOK, Pending, Free
<1>5. Bookkeeping' /\ WaitCovers' /\ NoLostWakeup'
  BY <1>2, GroupAssumption DEF WGInv, TypeOK, Bookkeeping, WaitCovers, NoLostWakeup
<1> QED
  BY <1>4, <1>5 DEF WGInv

(* add(n) brings n routines inside that were new.                          *)
LEMMA PledgeInv ==
  ASSUME WGInv, NEW a \in Callers, NEW S \in SUBSET Routines, Pledge(a, S)
  PROVE  WGInv'
<1> USE DEF Pledge, Uncounted, Add
<1>1. Pending' = Pending \cup S /\ Pending \cap S = {}
  BY DEF WGInv, TypeOK, Pending, In
<1>2. IsFiniteSet(S) /\ Cardinality(S) \in Nat
  BY GroupAssumption, FS_Subset, FS_CardinalityType
<1>3. count' = Cardinality(Pending')
  <2>1. Cardinality(Pending \cap S) = 0
    BY <1>1, FS_EmptySet
  <2>2. count \in Nat /\ IsFiniteSet(Pending) /\ count = Cardinality(Pending)
    BY Counter DEF WGInv
  <2>3. Cardinality(Pending') = Cardinality(Pending) + Cardinality(S) - Cardinality(Pending \cap S)
    BY <1>1, <1>2, <2>2, FS_Union
  <2> QED
    BY <1>2, <2>1, <2>2, <2>3
<1>4. \A b \in Callers : pc[b] = "going" => going[b] \notin S
  BY DEF WGInv, TypeOK
<1>5. TypeOK'
  BY <1>3, <1>4 DEF WGInv, TypeOK, Pending
<1>6. Bookkeeping' /\ WaitCovers' /\ NoLostWakeup'
  BY DEF WGInv, TypeOK, Bookkeeping, WaitCovers, NoLostWakeup
<1> QED
  BY <1>5, <1>6 DEF WGInv

LEMMA FulfilInv ==
  ASSUME WGInv, NEW a \in Callers, NEW r \in Routines, Fulfil(a, r)
  PROVE  WGInv'
<1> USE DEF Fulfil
<1>1. count' = Cardinality(Pending')
  BY RoutineMoves, Counter DEF WGInv, Pending, In
<1>2. TypeOK'
  BY <1>1 DEF WGInv, TypeOK, Pending
<1>3. Bookkeeping' /\ WaitCovers' /\ NoLostWakeup'
  BY DEF WGInv, TypeOK, Bookkeeping, WaitCovers, NoLostWakeup
<1> QED
  BY <1>2, <1>3 DEF WGInv

LEMMA SpawnInv == ASSUME WGInv, NEW a \in Callers, Spawn(a) PROVE WGInv'
<1> USE DEF Spawn, Go
<1>1. going[a] \in Routines /\ routine[going[a]] = "counted"
  BY DEF WGInv, TypeOK
<1>2. count' = Cardinality(Pending')
  BY <1>1, RoutineMoves, Counter DEF WGInv, Pending, In
<1>3. \A b \in Callers \ {a} : going[b] # going[a]
  BY <1>1, GroupAssumption DEF WGInv, TypeOK
<1>4. TypeOK'
  BY <1>1, <1>2, <1>3, GroupAssumption DEF WGInv, TypeOK, Pending
<1>5. Bookkeeping' /\ WaitCovers' /\ NoLostWakeup'
  BY <1>1, GroupAssumption DEF WGInv, TypeOK, Bookkeeping, WaitCovers, NoLostWakeup
<1> QED
  BY <1>4, <1>5 DEF WGInv

LEMMA BodyEndsInv == ASSUME WGInv, NEW r \in Routines, BodyEnds(r) PROVE WGInv'
<1> USE DEF BodyEnds
<1>1. count' = Cardinality(Pending')
  BY RoutineMoves, Counter DEF WGInv, Pending, In
<1>2. TypeOK'
  BY <1>1 DEF WGInv, TypeOK, Pending
<1>3. Bookkeeping' /\ WaitCovers' /\ NoLostWakeup'
  BY DEF WGInv, TypeOK, Bookkeeping, WaitCovers, NoLostWakeup
<1> QED
  BY <1>2, <1>3 DEF WGInv

(* done(): the zero it may leave wakes everybody.                          *)
LEMMA DoneInv == ASSUME WGInv, NEW r \in Routines, Done(r) PROVE WGInv'
<1> USE DEF Done, Add
<1>1. count' = Cardinality(Pending')
  BY RoutineMoves, Counter DEF WGInv, Pending, In
<1>2. TypeOK'
  BY <1>1 DEF WGInv, TypeOK, Pending
<1>3. Bookkeeping' /\ WaitCovers' /\ NoLostWakeup'
  BY DEF WGInv, TypeOK, Bookkeeping, WaitCovers, NoLostWakeup
<1> QED
  BY <1>2, <1>3 DEF WGInv

(* The three steps of wait(); when they find a zero, the routines the call *)
(* covers are not new, so they have finished.                              *)
LEMMA WGWaitInv == ASSUME WGInv, NEW a \in Procs, Wait(a) PROVE WGInv'
<1> USE DEF Wait, BeginWait, Go
<1>1. TypeOK'
  BY DEF WGInv, TypeOK, Free, In, Callers
<1>2. Bookkeeping' /\ NoLostWakeup'
  BY DEF WGInv, TypeOK, Bookkeeping, Free, NoLostWakeup, Callers
<1>3. WaitCovers'
  BY Counter DEF WGInv, TypeOK, WaitCovers, Callers
<1> QED
  BY <1>1, <1>2, <1>3 DEF WGInv

LEMMA WGWokenInv == ASSUME WGInv, NEW a \in Procs, Woken(a) PROVE WGInv'
<1> USE DEF Woken, Retest, Go
<1>1. TypeOK'
  BY DEF WGInv, TypeOK, In, Callers
<1>2. Bookkeeping' /\ NoLostWakeup'
  BY DEF WGInv, TypeOK, Bookkeeping, NoLostWakeup, Callers
<1>3. WaitCovers'
  BY Counter DEF WGInv, TypeOK, Bookkeeping, WaitCovers, Callers
<1> QED
  BY <1>1, <1>2, <1>3 DEF WGInv

LEMMA WGExpireInv == ASSUME WGInv, NEW a \in Procs, Expire(a) PROVE WGInv'
<1> USE DEF Expire, Go
<1>1. TypeOK'
  BY DEF WGInv, TypeOK, In, Callers
<1>2. Bookkeeping' /\ NoLostWakeup'
  BY DEF WGInv, TypeOK, Bookkeeping, NoLostWakeup, Callers
<1>3. WaitCovers'
  BY Counter DEF WGInv, TypeOK, Bookkeeping, WaitCovers, Callers
<1> QED
  BY <1>1, <1>2, <1>3 DEF WGInv

LEMMA WGNextInv == ASSUME WGInv, [Next]_vars PROVE WGInv'
<1>1. CASE UNCHANGED vars
  BY <1>1 DEF vars, WGInv, TypeOK, Bookkeeping, WaitCovers, NoLostWakeup, In
<1>2. CASE Next
  BY <1>2, CountInv, PledgeInv, FulfilInv, SpawnInv, BodyEndsInv, DoneInv, WGWaitInv, WGWokenInv, WGExpireInv DEF Next
<1> QED
  BY <1>1, <1>2

LEMMA WGInvariant == Spec => []WGInv
<1>1. Init => WGInv
  BY WGInitInv
<1>2. WGInv /\ [Next]_vars => WGInv'
  BY WGNextInv
<1> QED
  BY <1>1, <1>2, PTL DEF Spec

(* wait() of _sync.py returns True only when every routine that was in the *)
(* group at the call has finished, however the group is used again.        *)
THEOREM WaitersCovered == Spec => []WaitCovers
<1>1. WGInv => WaitCovers
  BY DEF WGInv
<1> QED
  BY <1>1, WGInvariant, PTL

(* add() and done() leave nobody asleep on a zero.                         *)
THEOREM NobodyAsleepOnZero == Spec => []NoLostWakeup
<1>1. WGInv => NoLostWakeup
  BY DEF WGInv
<1> QED
  BY <1>1, WGInvariant, PTL

-----------------------------------------------------------------------------
(* ErrGroup.  The counter and the semaphore say exactly who is inside, so  *)
(* a zero and a full semaphore mean what wait() and go() take them to      *)
(* mean, and an error is on record before its routine counts itself out.   *)

States == {"new", "asked", "counted", "spawned", "raised", "kept", "over", "leaving", "finished", "lost"}
Places == {"out", "acquiring", "counting", "going", "waiting", "returned", "reporting", "reported"}

Types ==
  /\ routine \in [Routines -> States]
  /\ pc \in [Callers -> Places]
  /\ going \in [Callers -> Routines \cup {Nobody}]
  /\ covers \in [Callers -> SUBSET Routines]
  /\ got \in [Callers -> Routines \cup {Nobody}]
  /\ asleep \subseteq {a \in Callers : pc[a] = "waiting"}
  /\ failed \subseteq Routines
  /\ exc \in failed \cup {Nobody}
  /\ sem \in Nat

(* A caller inside go() names the routine it is bringing in, alone.        *)
InGoNames ==
  /\ \A a \in Callers : pc[a] \in {"acquiring", "counting", "going"} <=> going[a] # Nobody
  /\ \A a \in Callers : pc[a] \in {"acquiring", "counting"} => routine[going[a]] = "asked"
  /\ \A a \in Callers : pc[a] = "going" => routine[going[a]] = "counted"
  /\ \A a, b \in Callers : going[a] = going[b] /\ going[a] # Nobody => a = b

(* Whom the counter counts, and who has a slot: a routine, from the moment *)
(* that go() acquired one for it.                                          *)
Inside == In({"counted", "spawned", "raised", "kept", "over", "lost"})
HasSlot(r) ==
  \/ routine[r] \in {"counted", "spawned", "raised", "kept", "over", "leaving", "lost"}
  \/ routine[r] = "asked" /\ \E a \in Callers : pc[a] = "counting" /\ going[a] = r
Holders == {r \in Routines : HasSlot(r)}

Counted == count = Cardinality(Inside)
Slots == sem + Cardinality(Holders) = Limit

Waited ==
  /\ \A a \in Callers : \A r \in covers[a] : routine[r] \notin {"new", "asked"}
  /\ \A a \in Callers :
       pc[a] \in {"returned", "reporting", "reported"} =>
         \A r \in covers[a] : routine[r] \in {"leaving", "finished"}
  /\ NoLostWakeup

(* Who failed put its error on record before it went on.                   *)
Errors ==
  /\ \A r \in failed : routine[r] \in {"raised", "kept", "over", "leaving", "finished"}
  /\ \A r \in Routines : routine[r] \in {"raised", "kept"} => r \in failed
  /\ \A r \in failed : routine[r] # "raised" => exc # Nobody
  /\ ErrorReported

GInv == Types /\ InGoNames /\ Counted /\ Slots /\ Waited /\ Errors

-----------------------------------------------------------------------------
(* Counting.                                                               *)

LEMMA Finite ==
  /\ IsFiniteSet(Inside) /\ IsFiniteSet(Holders)
  /\ Cardinality(Inside) \in Nat /\ Cardinality(Holders) \in Nat
<1>1. Inside \subseteq Routines /\ Holders \subseteq Routines
  BY DEF Inside, In, Holders
<1>2. IsFiniteSet(Inside) /\ IsFiniteSet(Holders)
  BY <1>1, GroupAssumption, FS_Subset
<1> QED
  BY <1>2, FS_CardinalityType

(* A zero means that nobody is inside.                                     *)
LEMMA ZeroMeansEmpty ==
  ASSUME Types, Counted, count = 0
  PROVE  \A r \in Routines : routine[r] \in {"new", "asked", "leaving", "finished"}
<1>1. Inside = {}
  BY Finite, FS_EmptySet DEF Counted
<1> QED
  BY <1>1 DEF Types, States, Inside, In

LEMMA GInvParts ==
  ASSUME GInv
  PROVE  Types /\ InGoNames /\ Counted /\ Slots /\ Waited /\ Errors /\ count \in Nat
BY Finite DEF GInv, Counted

(* The step of one routine: what the rest sees of it.                      *)
LEMMA OneMoves ==
  ASSUME Types, NEW r \in Routines, NEW to \in States, Moves(r, to)
  PROVE  /\ routine'[r] = to /\ \A q \in Routines : q # r => routine'[q] = routine[q]
         /\ routine' \in [Routines -> States]
BY DEF Types, Moves

LEMMA OneGoes ==
  ASSUME Types, NEW a \in Callers, NEW to \in Places, Go(a, to)
  PROVE  /\ pc'[a] = to /\ \A b \in Callers : b # a => pc'[b] = pc[b]
         /\ pc' \in [Callers -> Places]
BY DEF Types, Go

(* Most steps bring nobody in and let nobody out.                          *)
LEMMA SameCounts ==
  ASSUME GInv, count' = count, sem' = sem,
         \A r \in Routines : (r \in Inside' <=> r \in Inside) /\ (HasSlot(r)' <=> HasSlot(r))
  PROVE  Counted' /\ Slots'
<1>1. Inside' = Inside
  BY DEF Inside, In
<1>2. Holders' = Holders
  BY DEF Holders
<1> QED
  BY <1>1, <1>2, GInvParts DEF Counted, Slots

LEMMA ReportedStays ==
  ASSUME GInv, failed' = failed, got' = got, covers' = covers,
         \A a \in Callers : pc'[a] = "reported" => pc[a] = "reported"
  PROVE  ErrorReported'
BY GInvParts DEF Errors, ErrorReported, Callers

(* A caller's step within wait(), or back to the program.                  *)
LEMMA CallerStep ==
  ASSUME GInv, NEW p \in Callers,
         UNCHANGED <<count, routine, going, sem, exc, failed>>,
         \A b \in Callers : b # p => pc'[b] = pc[b] /\ covers'[b] = covers[b] /\ got'[b] = got[b],
         pc[p] \notin {"acquiring", "counting", "going"}, pc'[p] \in Places,
         pc'[p] \notin {"acquiring", "counting", "going"},
         Types', Waited', ErrorReported'
  PROVE  GInv'
<1>1. /\ count' = count /\ routine' = routine /\ going' = going /\ sem' = sem /\ exc' = exc /\ failed' = failed
  OBVIOUS
<1>2. InGoNames'
  BY <1>1, GInvParts DEF InGoNames
<1>3. \A r \in Routines : (r \in Inside' <=> r \in Inside) /\ (HasSlot(r)' <=> HasSlot(r))
  <2>1. \A a \in Callers : pc'[a] = "counting" <=> pc[a] = "counting"
    OBVIOUS
  <2> QED
    BY <1>1, <2>1 DEF Inside, In, HasSlot
<1>4. Counted' /\ Slots'
  BY <1>1, <1>3, SameCounts
<1>5. Errors'
  BY <1>1, GInvParts DEF Errors
<1> QED
  BY <1>2, <1>4, <1>5 DEF GInv

-----------------------------------------------------------------------------
(* go().                                                                   *)

LEMMA EnterGoInv == ASSUME GInv, NEW a \in Callers, NEW r \in Routines, EnterGo(a, r) PROVE GInv'
<1>1. /\ pc[a] = "out" /\ routine[r] = "new"
      /\ going'[a] = r /\ \A b \in Callers : b # a => going'[b] = going[b]
      /\ going' \in [Callers -> Routines \cup {Nobody}]
      /\ count' = count /\ asleep' = asleep /\ covers' = covers
      /\ sem' = sem /\ exc' = exc /\ failed' = failed /\ got' = got
  BY GInvParts DEF EnterGo, errVars, Types
<1>2. /\ routine'[r] = "asked" /\ \A q \in Routines : q # r => routine'[q] = routine[q]
      /\ routine' \in [Routines -> States]
  BY GInvParts, OneMoves DEF EnterGo, States
<1>3. /\ pc'[a] = "acquiring" /\ \A b \in Callers : b # a => pc'[b] = pc[b]
      /\ pc' \in [Callers -> Places]
  BY GInvParts, OneGoes DEF EnterGo, Places
<1>4. r # Nobody /\ \A b \in Callers : going[b] # r
  BY <1>1, GInvParts, GroupAssumption DEF InGoNames
<1>5. Types'
  BY <1>1, <1>2, <1>3, GInvParts DEF Types
<1>6. InGoNames'
  BY <1>1, <1>2, <1>3, <1>4, GInvParts DEF InGoNames, Types
<1>7. Counted' /\ Slots'
  <2>1. \A q \in Routines : q \in Inside' <=> q \in Inside
    BY <1>1, <1>2 DEF Inside, In
  <2>2. ASSUME NEW q \in Routines PROVE HasSlot(q)' <=> HasSlot(q)
    <3>1. CASE q = r
      <4>1. \A b \in Callers : ~(pc'[b] = "counting" /\ going'[b] = r)
        BY <1>1, <1>3, <1>4
      <4> QED
        BY <1>1, <1>2, <3>1, <4>1 DEF HasSlot
    <3>2. CASE q # r
      <4>1. \A b \in Callers : pc'[b] = "counting" /\ going'[b] = q <=> pc[b] = "counting" /\ going[b] = q
        BY <1>1, <1>3, <3>2
      <4> QED
        BY <1>2, <3>2, <4>1 DEF HasSlot
    <3> QED
      BY <3>1, <3>2
  <2> QED
    BY <1>1, <2>1, <2>2, SameCounts
<1>8. Waited'
  BY <1>1, <1>2, <1>3, GInvParts DEF Waited, NoLostWakeup, Types
<1>9. Errors'
  <2>1. ErrorReported'
    BY <1>1, <1>2, <1>3, ReportedStays
  <2> QED
    BY <1>1, <1>2, <1>3, <2>1, GInvParts DEF Errors, Types
<1> QED
  BY <1>5, <1>6, <1>7, <1>8, <1>9 DEF GInv

LEMMA AcquireSlotInv == ASSUME GInv, NEW a \in Callers, AcquireSlot(a) PROVE GInv'
<1>a. PICK g : g = going[a]
  OBVIOUS
<1>1. /\ pc[a] = "acquiring" /\ sem > 0 /\ sem' = sem - 1
      /\ routine' = routine /\ going' = going
      /\ count' = count /\ asleep' = asleep /\ covers' = covers
      /\ exc' = exc /\ failed' = failed /\ got' = got
  BY DEF AcquireSlot
<1>2. /\ pc'[a] = "counting" /\ \A b \in Callers : b # a => pc'[b] = pc[b]
      /\ pc' \in [Callers -> Places]
  BY GInvParts, OneGoes DEF AcquireSlot, Places
<1>3. /\ g \in Routines /\ routine[g] = "asked"
      /\ \A b \in Callers : b # a => going[b] # g
  BY <1>a, <1>1, GInvParts, GroupAssumption DEF InGoNames, Types
<1>4. Types' /\ InGoNames'
  BY <1>1, <1>2, GInvParts DEF Types, InGoNames
<1>5. Counted'
  BY <1>1, GInvParts DEF Counted, Inside, In
<1>6. Slots'
  <2>1. ~HasSlot(g) /\ HasSlot(g)'
    BY <1>a, <1>1, <1>2, <1>3 DEF HasSlot
  <2>2. ASSUME NEW q \in Routines, q # g PROVE HasSlot(q)' <=> HasSlot(q)
    <3>1. \A b \in Callers : pc'[b] = "counting" /\ going'[b] = q <=> pc[b] = "counting" /\ going[b] = q
      BY <1>a, <1>1, <1>2, <2>2
    <3> QED
      BY <1>1, <3>1 DEF HasSlot
  <2>3. Holders' = Holders \cup {g} /\ g \notin Holders
    BY <1>3, <2>1, <2>2 DEF Holders
  <2>4. Cardinality(Holders') = Cardinality(Holders) + 1
    BY <2>3, Finite, FS_AddElement
  <2>5. sem \in Nat /\ Limit \in Nat
    BY GInvParts, LimitAssumption DEF Types
  <2> QED
    BY <1>1, <2>4, <2>5, Finite, GInvParts DEF Slots
<1>7. Waited' /\ Errors'
  <2>1. ErrorReported'
    BY <1>1, <1>2, ReportedStays
  <2> QED
    BY <1>1, <1>2, <2>1, GInvParts DEF Waited, NoLostWakeup, Errors
<1> QED
  BY <1>4, <1>5, <1>6, <1>7 DEF GInv

LEMMA CountInInv == ASSUME GInv, NEW a \in Callers, CountIn(a) PROVE GInv'
<1>a. PICK g : g = going[a]
  OBVIOUS
<1>1. /\ pc[a] = "counting" /\ count' = count + 1 /\ going' = going /\ covers' = covers
      /\ sem' = sem /\ exc' = exc /\ failed' = failed /\ got' = got
      /\ asleep' \subseteq asleep
  BY DEF CountIn, Add, errVars
<1>2. /\ g \in Routines /\ routine[g] = "asked"
      /\ \A b \in Callers : b # a => going[b] # g
  BY <1>a, <1>1, GInvParts, GroupAssumption DEF InGoNames, Types
<1>3. /\ routine'[g] = "counted" /\ \A q \in Routines : q # g => routine'[q] = routine[q]
      /\ routine' \in [Routines -> States]
  BY <1>a, <1>2, GInvParts, OneMoves DEF CountIn, States
<1>4. /\ pc'[a] = "going" /\ \A b \in Callers : b # a => pc'[b] = pc[b]
      /\ pc' \in [Callers -> Places]
  BY GInvParts, OneGoes DEF CountIn, Places
<1>5. count' # 0
  BY <1>1, GInvParts
<1>6. Types'
  BY <1>1, <1>3, <1>4, GInvParts DEF Types
<1>7. InGoNames'
  BY <1>a, <1>1, <1>2, <1>3, <1>4, GInvParts DEF InGoNames, Types
<1>8. Counted'
  <2>1. Inside' = Inside \cup {g} /\ g \notin Inside
    BY <1>2, <1>3 DEF Inside, In
  <2>2. Cardinality(Inside') = Cardinality(Inside) + 1
    BY <2>1, Finite, FS_AddElement
  <2> QED
    BY <1>1, <2>2, GInvParts DEF Counted
<1>9. Slots'
  <2>1. HasSlot(g) /\ HasSlot(g)'
    BY <1>a, <1>1, <1>2, <1>3 DEF HasSlot
  <2>2. ASSUME NEW q \in Routines, q # g PROVE HasSlot(q)' <=> HasSlot(q)
    <3>1. \A b \in Callers : pc'[b] = "counting" /\ going'[b] = q <=> pc[b] = "counting" /\ going[b] = q
      BY <1>a, <1>1, <1>4, <2>2
    <3> QED
      BY <1>3, <2>2, <3>1 DEF HasSlot
  <2>3. Holders' = Holders
    BY <2>1, <2>2 DEF Holders
  <2> QED
    BY <1>1, <2>3, GInvParts DEF Slots
<1>10. Waited'
  BY <1>1, <1>2, <1>3, <1>4, <1>5, GInvParts DEF Waited, NoLostWakeup, Types
<1>11. Errors'
  <2>1. ErrorReported'
    BY <1>1, <1>2, <1>3, <1>4, ReportedStays
  <2> QED
    BY <1>1, <1>2, <1>3, <1>4, <2>1, GInvParts DEF Errors, Types
<1> QED
  BY <1>6, <1>7, <1>8, <1>9, <1>10, <1>11 DEF GInv

(* The routine of a caller starts, or finds no thread.                     *)
LEMMA StartedInv ==
  ASSUME GInv, NEW a \in Callers, pc[a] = "going", NEW to \in {"spawned", "lost"},
         routine' = [routine EXCEPT ![going[a]] = to],
         going' = [going EXCEPT ![a] = Nobody],
         Go(a, "out"),
         UNCHANGED <<count, asleep, covers, errVars>>
  PROVE  GInv'
<1>a. PICK g : g = going[a]
  OBVIOUS
<1>1. /\ count' = count /\ asleep' = asleep /\ covers' = covers
      /\ sem' = sem /\ exc' = exc /\ failed' = failed /\ got' = got
  BY DEF errVars
<1>2. /\ g \in Routines /\ routine[g] = "counted"
      /\ \A b \in Callers : b # a => going[b] # g
  BY <1>a, GInvParts, GroupAssumption DEF InGoNames, Types
<1>3. /\ routine'[g] = to /\ \A q \in Routines : q # g => routine'[q] = routine[q]
      /\ routine' \in [Routines -> States]
      /\ going'[a] = Nobody /\ \A b \in Callers : b # a => going'[b] = going[b]
      /\ going' \in [Callers -> Routines \cup {Nobody}]
  BY <1>a, <1>2, GInvParts DEF Types, States
<1>4. /\ pc'[a] = "out" /\ \A b \in Callers : b # a => pc'[b] = pc[b]
      /\ pc' \in [Callers -> Places]
  BY GInvParts, OneGoes DEF Places
<1>5. Types'
  BY <1>1, <1>3, <1>4, GInvParts DEF Types
<1>6. InGoNames'
  BY <1>2, <1>3, <1>4, GInvParts DEF InGoNames, Types
<1>7. Counted' /\ Slots'
  <2>1. \A q \in Routines : q \in Inside' <=> q \in Inside
    BY <1>2, <1>3 DEF Inside, In
  <2>2. ASSUME NEW q \in Routines PROVE HasSlot(q)' <=> HasSlot(q)
    <3>1. \A b \in Callers : pc'[b] = "counting" /\ going'[b] = q <=> pc[b] = "counting" /\ going[b] = q
      BY <1>3, <1>4
    <3> QED
      BY <1>2, <1>3, <3>1 DEF HasSlot
  <2> QED
    BY <1>1, <2>1, <2>2, SameCounts
<1>8. Waited'
  BY <1>1, <1>2, <1>3, <1>4, GInvParts DEF Waited, NoLostWakeup, Types
<1>9. Errors'
  <2>1. ErrorReported'
    BY <1>1, <1>2, <1>3, <1>4, ReportedStays
  <2> QED
    BY <1>1, <1>2, <1>3, <1>4, <2>1, GInvParts DEF Errors, Types
<1> QED
  BY <1>5, <1>6, <1>7, <1>8, <1>9 DEF GInv


-----------------------------------------------------------------------------
(* The routines end.                                                       *)

(* A step of a spawned routine that neither counts it out nor gives its    *)
(* slot back.                                                              *)
LEMMA RoutineStep ==
  ASSUME GInv, NEW r \in Routines, NEW to \in {"raised", "kept", "over"}, Moves(r, to),
         routine[r] \in {"spawned", "raised", "kept"},
         UNCHANGED <<count, asleep, pc, going, covers, sem, got>>,
         failed' \subseteq Routines, exc' \in failed' \cup {Nobody},
         Errors'
  PROVE  GInv'
<1>1. /\ count' = count /\ asleep' = asleep /\ pc' = pc /\ going' = going /\ covers' = covers
      /\ sem' = sem /\ got' = got
  OBVIOUS
<1>2. /\ routine'[r] = to /\ \A q \in Routines : q # r => routine'[q] = routine[q]
      /\ routine' \in [Routines -> States]
  BY GInvParts, OneMoves DEF States
<1>3. Types'
  BY <1>1, <1>2, GInvParts DEF Types
<1>4. InGoNames'
  BY <1>1, <1>2, GInvParts DEF InGoNames, Types
<1>5. Counted' /\ Slots'
  <2>1. \A q \in Routines : q \in Inside' <=> q \in Inside
    BY <1>2 DEF Inside, In
  <2>2. \A q \in Routines : HasSlot(q)' <=> HasSlot(q)
    BY <1>1, <1>2 DEF HasSlot
  <2> QED
    BY <1>1, <2>1, <2>2, SameCounts
<1>6. Waited'
  BY <1>1, <1>2, GInvParts DEF Waited, NoLostWakeup, Types
<1> QED
  BY <1>3, <1>4, <1>5, <1>6 DEF GInv

LEMMA ReturnsInv == ASSUME GInv, NEW r \in Routines, Returns(r) PROVE GInv'
<1>1. /\ routine[r] = "spawned" /\ Moves(r, "over")
      /\ UNCHANGED <<count, asleep, pc, going, covers, sem, got>>
      /\ failed' = failed /\ exc' = exc
  BY DEF Returns, BodyEnds, errVars, Moves
<1>2. routine'[r] = "over" /\ \A q \in Routines : q # r => routine'[q] = routine[q]
  BY <1>1, GInvParts, OneMoves DEF States
<1>3. Errors'
  <2>1. ErrorReported'
    BY <1>1, ReportedStays
  <2>2. r \notin failed
    BY <1>1, GInvParts DEF Errors
  <2> QED
    BY <1>1, <1>2, <2>1, <2>2, GInvParts DEF Errors, Types
<1>4. failed' \subseteq Routines /\ exc' \in failed' \cup {Nobody}
  BY <1>1, GInvParts DEF Types
<1> QED
  BY <1>1, <1>3, <1>4, RoutineStep

LEMMA RaisesInv == ASSUME GInv, NEW r \in Routines, Raises(r) PROVE GInv'
<1>1. /\ routine[r] = "spawned" /\ Moves(r, "raised")
      /\ UNCHANGED <<count, asleep, pc, going, covers, sem, got>>
      /\ pc' = pc /\ covers' = covers /\ got' = got
      /\ failed' = failed \cup {r} /\ exc' = exc
  BY DEF Raises
<1>2. routine'[r] = "raised" /\ \A q \in Routines : q # r => routine'[q] = routine[q]
  BY <1>1, GInvParts, OneMoves DEF States
<1>3. ErrorReported'
  <2> SUFFICES ASSUME NEW p \in Procs, pc[p] = "reported", covers[p] \cap (failed \cup {r}) # {}
               PROVE  got[p] \in failed \cup {r}
    BY <1>1 DEF ErrorReported
  <2>1. p \in Callers /\ r \notin covers[p]
    BY <1>1, GInvParts DEF Waited, Callers
  <2>2. covers[p] \cap failed # {}
    BY <2>1
  <2> QED
    BY <2>2, GInvParts DEF Errors, ErrorReported
<1>4. Errors'
  BY <1>1, <1>2, <1>3, GInvParts DEF Errors, Types
<1>5. failed' \subseteq Routines /\ exc' \in failed' \cup {Nobody}
  BY <1>1, GInvParts DEF Types
<1> QED
  BY <1>1, <1>4, <1>5, RoutineStep

LEMMA KeepInv == ASSUME GInv, NEW r \in Routines, Keep(r) PROVE GInv'
<1>1. /\ routine[r] = "raised" /\ Moves(r, "kept")
      /\ UNCHANGED <<count, asleep, pc, going, covers, sem, got>>
      /\ failed' = failed /\ exc' = FirstError(r)
  BY DEF Keep
<1>2. routine'[r] = "kept" /\ \A q \in Routines : q # r => routine'[q] = routine[q]
  BY <1>1, GInvParts, OneMoves DEF States
<1>3. r \in failed /\ exc' \in failed /\ exc' # Nobody
  <2>1. r \in failed /\ exc \in failed \cup {Nobody} /\ Nobody \notin failed
    BY <1>1, GInvParts, GroupAssumption DEF Errors, Types
  <2> QED
    BY <1>1, <2>1 DEF FirstError
<1>4. Errors'
  <2>1. ErrorReported'
    BY <1>1, ReportedStays
  <2> QED
    BY <1>1, <1>2, <1>3, <2>1, GInvParts DEF Errors, Types
<1>5. failed' \subseteq Routines /\ exc' \in failed' \cup {Nobody}
  BY <1>1, <1>3, GInvParts DEF Types
<1> QED
  BY <1>1, <1>4, <1>5, RoutineStep

LEMMA CancelGroupInv == ASSUME GInv, NEW r \in Routines, CancelGroup(r) PROVE GInv'
<1>1. /\ routine[r] = "kept" /\ Moves(r, "over")
      /\ UNCHANGED <<count, asleep, pc, going, covers, sem, got>>
      /\ failed' = failed /\ exc' = exc
  BY DEF CancelGroup
<1>2. routine'[r] = "over" /\ \A q \in Routines : q # r => routine'[q] = routine[q]
  BY <1>1, GInvParts, OneMoves DEF States
<1>3. Errors'
  <2>1. ErrorReported'
    BY <1>1, ReportedStays
  <2>2. r \in failed /\ exc # Nobody
    BY <1>1, GInvParts DEF Errors
  <2> QED
    BY <1>1, <1>2, <2>1, <2>2, GInvParts DEF Errors, Types
<1>4. failed' \subseteq Routines /\ exc' \in failed' \cup {Nobody}
  BY <1>1, GInvParts DEF Types
<1> QED
  BY <1>1, <1>3, <1>4, RoutineStep

LEMMA CountOutInv == ASSUME GInv, NEW r \in Routines, CountOut(r) PROVE GInv'
<1>1. /\ routine[r] = "over" /\ Moves(r, "leaving")
      /\ count' = count - 1 /\ asleep' = IF count' = 0 THEN {} ELSE asleep
      /\ pc' = pc /\ going' = going /\ covers' = covers
      /\ sem' = sem /\ got' = got /\ failed' = failed /\ exc' = exc
  BY DEF CountOut, Add, errVars
<1>2. /\ routine'[r] = "leaving" /\ \A q \in Routines : q # r => routine'[q] = routine[q]
      /\ routine' \in [Routines -> States]
  BY <1>1, GInvParts, OneMoves DEF States
<1>3. Types'
  BY <1>1, <1>2, GInvParts DEF Types
<1>4. InGoNames'
  BY <1>1, <1>2, GInvParts DEF InGoNames, Types
<1>5. Counted'
  <2>1. Inside' = Inside \ {r} /\ r \in Inside
    BY <1>1, <1>2 DEF Inside, In
  <2>2. Cardinality(Inside') = Cardinality(Inside) - 1
    BY <2>1, Finite, FS_RemoveElement
  <2> QED
    BY <1>1, <2>2, GInvParts DEF Counted
<1>6. Slots'
  <2>1. \A q \in Routines : HasSlot(q)' <=> HasSlot(q)
    BY <1>1, <1>2 DEF HasSlot
  <2>2. Holders' = Holders
    BY <2>1 DEF Holders
  <2> QED
    BY <1>1, <2>2, GInvParts DEF Slots
<1>7. Waited'
  BY <1>1, <1>2, GInvParts DEF Waited, NoLostWakeup, Types
<1>8. Errors'
  <2>1. ErrorReported'
    BY <1>1, ReportedStays
  <2> QED
    BY <1>1, <1>2, <2>1, GInvParts DEF Errors, Types
<1> QED
  BY <1>3, <1>4, <1>5, <1>6, <1>7, <1>8 DEF GInv

LEMMA ReleaseSlotInv == ASSUME GInv, NEW r \in Routines, ReleaseSlot(r) PROVE GInv'
<1>1. /\ routine[r] = "leaving" /\ Moves(r, "finished")
      /\ sem' = sem + 1 /\ count' = count /\ asleep' = asleep
      /\ pc' = pc /\ going' = going /\ covers' = covers
      /\ got' = got /\ failed' = failed /\ exc' = exc
  BY DEF ReleaseSlot
<1>2. /\ routine'[r] = "finished" /\ \A q \in Routines : q # r => routine'[q] = routine[q]
      /\ routine' \in [Routines -> States]
  BY <1>1, GInvParts, OneMoves DEF States
<1>3. Types'
  BY <1>1, <1>2, GInvParts DEF Types
<1>4. InGoNames'
  BY <1>1, <1>2, GInvParts DEF InGoNames, Types
<1>5. Counted'
  <2>1. Inside' = Inside
    BY <1>1, <1>2 DEF Inside, In
  <2> QED
    BY <1>1, <2>1, GInvParts DEF Counted
<1>6. Slots'
  <2>1. HasSlot(r) /\ ~HasSlot(r)' /\ \A q \in Routines : q # r => (HasSlot(q)' <=> HasSlot(q))
    BY <1>1, <1>2 DEF HasSlot
  <2>2. Holders' = Holders \ {r} /\ r \in Holders
    BY <2>1 DEF Holders
  <2>3. Cardinality(Holders') = Cardinality(Holders) - 1
    BY <2>2, Finite, FS_RemoveElement
  <2>4. sem \in Nat /\ Limit \in Nat
    BY GInvParts, LimitAssumption DEF Types
  <2> QED
    BY <1>1, <2>3, <2>4, Finite, GInvParts DEF Slots
<1>7. Waited'
  BY <1>1, <1>2, GInvParts DEF Waited, NoLostWakeup, Types
<1>8. Errors'
  <2>1. ErrorReported'
    BY <1>1, ReportedStays
  <2> QED
    BY <1>1, <1>2, <2>1, GInvParts DEF Errors, Types
<1> QED
  BY <1>3, <1>4, <1>5, <1>6, <1>7, <1>8 DEF GInv


-----------------------------------------------------------------------------
(* wait().                                                                 *)

(* The predicate is tested: a zero means that those covered are finished.  *)
LEMMA TestedInv ==
  ASSUME GInv, NEW p \in Procs,
         UNCHANGED <<count, routine, going, errVars>>,
         pc[p] \in {"out", "waiting"},
         \A b \in Callers : b # p => pc'[b] = pc[b] /\ covers'[b] = covers[b],
         pc' \in [Callers -> Places], covers' \in [Callers -> SUBSET Routines],
         \A r \in covers'[p] : routine[r] \notin {"new", "asked"},
         \/ count = 0 /\ pc'[p] = "returned" /\ asleep' \subseteq asleep \ {p}
         \/ count # 0 /\ pc'[p] = "waiting" /\ asleep' = asleep \cup {p}
         \/ pc'[p] = "out" /\ asleep' = asleep \ {p}
  PROVE  GInv'
<1>1. /\ count' = count /\ routine' = routine /\ going' = going
      /\ sem' = sem /\ exc' = exc /\ failed' = failed /\ got' = got
  BY DEF errVars
<1>2. p \in Callers
  BY DEF Callers
<1>3. p \in asleep => pc[p] = "waiting"
  BY GInvParts DEF Types
<1>4. Types'
  BY <1>1, <1>2, GInvParts DEF Types
<1>5. count = 0 => \A r \in covers'[p] : routine[r] \in {"leaving", "finished"}
  BY <1>2, GInvParts, ZeroMeansEmpty
<1>6. Waited'
  BY <1>1, <1>2, <1>5, GInvParts DEF Waited, NoLostWakeup
<1>7. ErrorReported'
  <2> SUFFICES ASSUME NEW q \in Procs, pc'[q] = "reported", covers'[q] \cap failed # {}
               PROVE  got[q] \in failed
    BY <1>1 DEF ErrorReported
  <2>1. q \in Callers /\ q # p
    BY DEF Callers
  <2> QED
    BY <2>1, GInvParts DEF Errors, ErrorReported
<1>8. pc'[p] \in Places /\ pc'[p] \notin {"acquiring", "counting", "going"}
  BY DEF Places
<1> QED
  BY <1>1, <1>2, <1>4, <1>6, <1>7, <1>8, CallerStep

LEMMA WaitInv == ASSUME GInv, NEW p \in Procs, WaitGroupWait(p) PROVE GInv'
<1>1. p \in Callers
  BY DEF Callers
<1>2. PICK S : S = {r \in Routines : routine[r] \notin {"new", "asked"}}
  OBVIOUS
<1>3. covers' = [covers EXCEPT ![p] = S] /\ pc[p] = "out"
      /\ UNCHANGED <<count, routine, going, errVars>>
  BY <1>2 DEF WaitGroupWait, BeginWait
<1>4. /\ covers'[p] = S /\ \A b \in Callers : b # p => covers'[b] = covers[b]
      /\ covers' \in [Callers -> SUBSET Routines]
  BY <1>1, <1>2, <1>3, GInvParts DEF Types
<1>5. p \notin asleep
  BY <1>3, GInvParts DEF Types
<1>6. CASE count = 0
  <2>1. Go(p, "returned") /\ asleep' = asleep
    BY <1>6 DEF WaitGroupWait, BeginWait
  <2> QED
    BY <1>1, <1>2, <1>3, <1>4, <1>5, <1>6, <2>1, GInvParts, OneGoes, TestedInv DEF Places
<1>7. CASE count # 0
  <2>1. Go(p, "waiting") /\ asleep' = asleep \cup {p}
    BY <1>7 DEF WaitGroupWait, BeginWait
  <2> QED
    BY <1>1, <1>2, <1>3, <1>4, <1>7, <2>1, GInvParts, OneGoes, TestedInv DEF Places
<1> QED
  BY <1>6, <1>7

LEMMA RetestInv == ASSUME GInv, NEW p \in Procs, Woken(p), UNCHANGED errVars PROVE GInv'
<1>1. p \in Callers /\ pc[p] = "waiting" /\ p \notin asleep /\ covers' = covers
      /\ UNCHANGED <<count, routine, going, errVars>>
  BY DEF Callers, Woken, Retest
<1>2. /\ covers' \in [Callers -> SUBSET Routines]
      /\ \A r \in covers'[p] : routine[r] \notin {"new", "asked"}
  BY <1>1, GInvParts DEF Types, Waited
<1>3. CASE count = 0
  <2>1. Go(p, "returned") /\ asleep' = asleep
    BY <1>3 DEF Woken, Retest
  <2> QED
    BY <1>1, <1>2, <1>3, <2>1, GInvParts, OneGoes, TestedInv DEF Places
<1>4. CASE count # 0
  <2>1. pc' = pc /\ asleep' = asleep \cup {p}
    BY <1>4 DEF Woken, Retest
  <2>2. pc' \in [Callers -> Places]
    BY <2>1, GInvParts DEF Types
  <2> QED
    BY <1>1, <1>2, <1>4, <2>1, <2>2, TestedInv
<1> QED
  BY <1>3, <1>4

LEMMA ExpireInv == ASSUME GInv, NEW p \in Procs, Expire(p), UNCHANGED errVars PROVE GInv'
<1>1. p \in Callers /\ pc[p] = "waiting" /\ asleep' = asleep \ {p} /\ covers' = covers
      /\ UNCHANGED <<count, routine, going, errVars>>
  BY DEF Callers, Expire
<1>2. /\ covers' \in [Callers -> SUBSET Routines]
      /\ \A r \in covers'[p] : routine[r] \notin {"new", "asked"}
  BY <1>1, GInvParts DEF Types, Waited
<1>3. CASE count = 0
  <2>1. Go(p, "returned")
    BY <1>3 DEF Expire
  <2> QED
    BY <1>1, <1>2, <1>3, <2>1, GInvParts, OneGoes, TestedInv DEF Places
<1>4. CASE count # 0
  <2>1. Go(p, "out")
    BY <1>4 DEF Expire
  <2> QED
    BY <1>1, <1>2, <2>1, GInvParts, OneGoes, TestedInv DEF Places
<1> QED
  BY <1>3, <1>4

(* The rest of wait(): nobody's place but p's changes, and not what it     *)
(* covers.                                                                 *)
LEMMA AfterWaitInv ==
  ASSUME GInv, NEW p \in Procs, NEW to \in {"reporting", "reported", "out"}, Go(p, to),
         pc[p] \in {"returned", "reporting", "reported"},
         UNCHANGED <<count, asleep, routine, going, covers, sem, exc, failed>>,
         got' \in [Callers -> Routines \cup {Nobody}],
         \A b \in Callers : b # p => got'[b] = got[b],
         to = "reported" => (covers[p] \cap failed # {} => got'[p] \in failed)
  PROVE  GInv'
<1>1. p \in Callers
  BY DEF Callers
<1>2. /\ pc'[p] = to /\ \A b \in Callers : b # p => pc'[b] = pc[b]
      /\ pc' \in [Callers -> Places]
  BY <1>1, GInvParts, OneGoes DEF Places
<1>3. asleep' = asleep /\ covers' = covers /\ routine' = routine /\ count' = count /\ failed' = failed
      /\ sem' = sem /\ exc' = exc /\ going' = going
  OBVIOUS
<1>4. p \notin asleep
  BY GInvParts DEF Types
<1>5. Types'
  BY <1>2, <1>3, <1>4, GInvParts DEF Types
<1>6. Waited'
  BY <1>1, <1>2, <1>3, GInvParts DEF Waited, NoLostWakeup
<1>7. ErrorReported'
  <2> SUFFICES ASSUME NEW q \in Procs, pc'[q] = "reported", covers[q] \cap failed # {}
               PROVE  got'[q] \in failed
    BY <1>3 DEF ErrorReported
  <2>1. q \in Callers
    BY DEF Callers
  <2>2. CASE q = p
    BY <1>2, <2>2
  <2>3. CASE q # p
    BY <1>2, <2>1, <2>3, GInvParts DEF Errors, ErrorReported
  <2> QED
    BY <2>2, <2>3
<1>8. pc'[p] \in Places /\ pc'[p] \notin {"acquiring", "counting", "going"}
  BY <1>2 DEF Places
<1> QED
  BY <1>1, <1>2, <1>3, <1>5, <1>6, <1>7, <1>8, CallerStep

LEMMA ReportInv == ASSUME GInv, NEW p \in Procs, Report(p) PROVE GInv'
<1>1. /\ p \in Callers /\ pc[p] = "reporting" /\ Go(p, "reported")
      /\ got' = [got EXCEPT ![p] = exc]
      /\ UNCHANGED <<count, asleep, routine, going, covers, sem, exc, failed>>
  BY DEF Callers, Report
<1>2. exc \in Routines \cup {Nobody}
  BY GInvParts DEF Types
<1>3. /\ got'[p] = exc /\ \A b \in Callers : b # p => got'[b] = got[b]
      /\ got' \in [Callers -> Routines \cup {Nobody}]
  BY <1>1, <1>2, GInvParts DEF Types
<1>4. covers[p] \cap failed # {} => exc \in failed
  <2> SUFFICES ASSUME NEW r \in covers[p], r \in failed PROVE exc \in failed
    OBVIOUS
  <2>1. routine[r] \in {"leaving", "finished"}
    BY <1>1, GInvParts DEF Waited
  <2>2. exc # Nobody
    BY <2>1, GInvParts DEF Errors
  <2> QED
    BY <2>2, GInvParts DEF Types
<1> QED
  BY <1>1, <1>3, <1>4, AfterWaitInv

LEMMA WaitsInv == ASSUME GInv, NEW p \in Procs, Waits(p) PROVE GInv'
<1>1. CASE CancelOnReturn(p) \/ GoOn(p)
  <2>1. /\ UNCHANGED <<count, asleep, routine, going, covers, sem, exc, failed>> /\ got' = got
        /\ pc[p] \in {"returned", "reported"} /\ (Go(p, "reporting") \/ Go(p, "out"))
    BY <1>1 DEF CancelOnReturn, GoOn, errVars
  <2>2. got' \in [Callers -> Routines \cup {Nobody}]
    BY <2>1, GInvParts DEF Types
  <2> QED
    BY <2>1, <2>2, AfterWaitInv
<1> QED
  BY <1>1, WaitInv, RetestInv, ReportInv, ExpireInv DEF Waits, InWait

-----------------------------------------------------------------------------
(* The invariant of the specification.                                     *)

LEMMA InitInv == ASSUME GroupInit PROVE GInv
<1>1. /\ count = 0 /\ asleep = {} /\ sem = Limit /\ exc = Nobody /\ failed = {}
      /\ routine = [r \in Routines |-> "new"] /\ pc = [a \in Callers |-> "out"]
      /\ going = [a \in Callers |-> Nobody] /\ covers = [a \in Callers |-> {}]
      /\ got = [a \in Callers |-> Nobody]
  BY DEF GroupInit, Init
<1>2. Inside = {} /\ Holders = {}
  BY <1>1 DEF Inside, In, Holders, HasSlot
<1>3. Counted /\ Slots
  BY <1>1, <1>2, FS_EmptySet, LimitAssumption DEF Counted, Slots
<1>4. Types
  BY <1>1, LimitAssumption DEF Types, States, Places
<1>5. InGoNames /\ Waited
  BY <1>1 DEF InGoNames, Waited, NoLostWakeup
<1>6. Errors
  BY <1>1 DEF Errors, ErrorReported, Callers
<1> QED
  BY <1>3, <1>4, <1>5, <1>6 DEF GInv

LEMMA StutterInv ==
  ASSUME GInv, UNCHANGED <<vars, sem, exc, failed, got>>
  PROVE  GInv'
<1>1. /\ count' = count /\ asleep' = asleep /\ routine' = routine /\ pc' = pc /\ going' = going
      /\ covers' = covers /\ sem' = sem /\ exc' = exc /\ failed' = failed /\ got' = got
  BY DEF vars
<1>2. \A r \in Routines : (r \in Inside' <=> r \in Inside) /\ (HasSlot(r)' <=> HasSlot(r))
  BY <1>1 DEF Inside, In, HasSlot
<1>3. Counted' /\ Slots'
  BY <1>1, <1>2, SameCounts
<1> QED
  BY <1>1, <1>3, GInvParts DEF GInv, Types, InGoNames, Waited, NoLostWakeup, Errors, ErrorReported

LEMMA NextInv == ASSUME GInv, [GroupNext]_groupVars PROVE GInv'
<1>1. ASSUME NEW a \in Callers, Starts(a) PROVE GInv'
  <2>1. CASE SpawnInGroup(a)
    BY <2>1, StartedInv DEF SpawnInGroup, Spawn
  <2>2. CASE StartFails(a)
    BY <2>2, StartedInv DEF StartFails, Moves
  <2> QED
    BY <1>1, <2>1, <2>2, AcquireSlotInv, CountInInv DEF Starts
<1>2. ASSUME NEW r \in Routines, Ends(r) PROVE GInv'
  BY <1>2, ReturnsInv, RaisesInv, KeepInv, CancelGroupInv, CountOutInv, ReleaseSlotInv DEF Ends
<1>3. ASSUME ParentCancels \/ UNCHANGED groupVars PROVE GInv'
  BY <1>3, StutterInv DEF ParentCancels, groupVars, errVars
<1> QED
  BY <1>1, <1>2, <1>3, EnterGoInv, WaitsInv DEF GroupNext

(* GInv holds in every state a group reaches.                              *)
THEOREM Invariant == GroupSpec => []GInv
<1>1. GroupInit => GInv
  BY InitInv
<1>2. GInv /\ [GroupNext]_groupVars => GInv'
  BY NextInv
<1> QED
  BY <1>1, <1>2, PTL DEF GroupSpec

(* "Cap the number of concurrently running routines" (set_limit), and when *)
(* nobody is in go() and no routine is left every slot is free and the     *)
(* counter is zero, but for the routines whose thread could not be started.*)
THEOREM SlotsAndCountsReturn == GroupSpec => []SlotsReturn
<1>1. GInv => SlotsReturn
  <2> SUFFICES ASSUME GInv PROVE SlotsReturn
    OBVIOUS
  <2>1. Cardinality(Running) <= Limit
    <3>1. Running \subseteq Holders
      BY DEF Running, In, Holders, HasSlot
    <3>2. Cardinality(Running) \in Nat /\ Cardinality(Running) <= Cardinality(Holders)
      BY <3>1, Finite, FS_Subset, FS_CardinalityType
    <3>3. sem \in Nat /\ Limit \in Nat /\ sem + Cardinality(Holders) = Limit
      BY GInvParts, LimitAssumption DEF Types, Slots
    <3> QED
      BY <3>2, <3>3, Finite
  <2>2. ASSUME InGo({"counting", "going"}) = {},
               In({"counted", "spawned", "raised", "kept", "over", "leaving"}) = {}
        PROVE  sem + Cardinality(Lost) = Limit /\ count = Cardinality(Lost)
    <3>1. \A a \in Callers : pc[a] # "counting"
      BY <2>2 DEF InGo
    <3>2. \A r \in Routines : routine[r] \notin {"counted", "spawned", "raised", "kept", "over", "leaving"}
      BY <2>2 DEF In
    <3>3. Holders = Lost /\ Inside = Lost
      BY <3>1, <3>2 DEF Holders, HasSlot, Inside, Lost, In
    <3> QED
      BY <3>3, GInvParts DEF Slots, Counted
  <2> QED
    BY <2>1, <2>2 DEF SlotsReturn
<1> QED
  BY <1>1, Invariant, PTL

(* wait() reports an error of the group if a routine it waited for failed, *)
(* whoever recorded it: the error is kept before done() is called.         *)
THEOREM FailuresAreReported == GroupSpec => []ErrorReported
<1>1. GInv => ErrorReported
  BY GInvParts DEF Errors
<1> QED
  BY <1>1, Invariant, PTL

(* WaitGroup's promise is kept for routines that fail, and although go()   *)
(* counts a routine only when it has a slot.                               *)
THEOREM GroupWaitCovers == GroupSpec => []WaitCovers
<1>1. GInv => WaitCovers
  BY GInvParts DEF Waited, WaitCovers
<1> QED
  BY <1>1, Invariant, PTL

(* Nobody sleeps in wait() on a counter that is zero.                      *)
THEOREM GroupNoLostWakeup == GroupSpec => []NoLostWakeup
<1>1. GInv => NoLostWakeup
  BY GInvParts DEF Waited
<1> QED
  BY <1>1, Invariant, PTL

=============================================================================
