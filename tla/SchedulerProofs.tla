-------------------------- MODULE SchedulerProofs --------------------------
(***************************************************************************)
(* The reused workers implement TaskPool, keep their stack size to         *)
(* themselves and let no failure vanish, for any number of tasks, workers  *)
(* and threads.                                                            *)
(*                                                                         *)
(* The argument is the invariant SInv: it says where a task is between     *)
(* submit() and its end (with its owner, in one mailbox, with one worker), *)
(* who may change the stack size, and that a collected Handle is out of    *)
(* everybody's reach.  Each action has a lemma for the types and one for   *)
(* the rest; frame lemmas serve the actions that move no task.             *)
(***************************************************************************)
EXTENDS Scheduler, SequenceTheorems, TLAPS

-----------------------------------------------------------------------------
(* The inductive invariant.                                                *)

QueueTypes == idle \in Seq(Workers) /\ mailbox \in [Workers -> Seq(Tasks)]
WorkerTypes ==
  /\ wpc \in [Workers -> {"none", "made", "get", "retiring", "claimed", "retired", "running",
                          "stored", "ending", "parked"}]
  /\ task \in [Workers -> Tasks \cup {None}]
SubTypes ==
  /\ spc \in [Procs -> {"out", "put", "start", "resize", "start_in_window", "restore", "validate"}]
  /\ sub \in [Procs -> [t: Tasks \cup {None}, w: Workers \cup {None}, size: Nat, previous: Nat]]
  /\ holder \in Procs \cup {None}
  /\ tuned \in Nat /\ size \in Nat /\ platform \in Nat
HandleTypes ==
  /\ outcome \in [Tasks -> {"none", "value", "exception"}]
  /\ done \in [Tasks -> BOOLEAN]
  /\ raised \in [Tasks -> BOOLEAN]
  /\ reported \in [Tasks -> BOOLEAN]
  /\ handle \in [Tasks -> {"new", "held", "dropped", "collected", "refused"}]
  /\ runs \in [Tasks -> Nat]
Types == QueueTypes /\ WorkerTypes /\ SubTypes /\ HandleTypes

(* _stack_lock is held exactly while threading.stack_size is changed; it   *)
(* was the default before, so that is what the holder puts back.           *)
Window == {"start_in_window", "restore", "validate"}
Windows ==
  /\ \A p \in Procs : spc[p] \in Window <=> holder = p
  /\ holder = None => platform = 0
  /\ \A p \in Procs : spc[p] \in Window => sub[p].previous = 0
  /\ \A p \in Procs : spc[p] = "start_in_window" => platform = sub[p].size
  /\ \A p \in Procs : spc[p] = "validate" => tuned \in 1..Len(Sizes)

Taken == {"held", "dropped", "collected"}
Starting == {"start", "resize", "start_in_window"}
Active(p) == spc[p] \in Starting \cup {"put"}

(* Where a task is from Submit on: with its owner, in the mailbox of one   *)
(* worker, with the worker that runs it.                                   *)
SubmitOK(p) ==
  LET t == sub[p].t
      w == sub[p].w
  IN  IF Active(p)
      THEN /\ t \in Tasks /\ w \in Workers
           /\ Owner[t] = p /\ handle[t] = "held" /\ runs[t] = 0
           /\ spc[p] = "put" =>
                /\ wpc[w] \notin {"none", "made"}
                /\ \A v \in Workers : \A k \in DOMAIN mailbox[v] : mailbox[v][k] # t
           /\ spc[p] \in Starting => wpc[w] = "made" /\ mailbox[w] = <<t>>
      ELSE t = None

OneStarter ==
  \A p, q \in Procs : spc[p] \in Starting /\ spc[q] \in Starting /\ sub[p].w = sub[q].w => p = q

Mail ==
  /\ \A w \in Workers : \A k \in DOMAIN mailbox[w] :
       runs[mailbox[w][k]] = 0 /\ handle[mailbox[w][k]] \in Taken
  /\ \A w, v \in Workers : \A k \in DOMAIN mailbox[w], m \in DOMAIN mailbox[v] :
       mailbox[w][k] = mailbox[v][m] => w = v /\ k = m
  /\ \A w \in Workers : wpc[w] = "none" => mailbox[w] = <<>>

IdleOK == \A i \in DOMAIN idle : wpc[idle[i]] \notin {"none", "made"}

WorkOK(w) ==
  LET t == task[w]
  IN  /\ wpc[w] \in {"running", "stored"} =>
           t \in Tasks /\ runs[t] = 1 /\ ~done[t] /\ handle[t] \in Taken
      /\ wpc[w] = "stored" =>
           outcome[t] # "none" /\ \A u \in Needs[t] : done[u] \/ handle[u] = "refused"
      /\ wpc[w] \in {"ending", "parked"} => t \in Tasks /\ done[t]
      /\ wpc[w] \notin {"running", "stored", "ending", "parked"} => t = None

OneRunner ==
  \A v, w \in Workers :
    wpc[v] \in {"running", "stored"} /\ wpc[w] \in {"running", "stored"} /\ task[v] = task[w] => v = w

(* A task is not lost before it is done; nothing happened to one that was  *)
(* not accepted.                                                           *)
Accounted ==
  \A t \in Tasks :
    /\ handle[t] \in Taken /\ ~done[t] => InFlight(t)
    /\ handle[t] \in {"new", "refused"} => runs[t] = 0 /\ ~done[t]
    /\ done[t] => outcome[t] # "none" /\ runs[t] = 1

(* Nobody can retrieve the exception of a Handle that is gone.             *)
Garbage ==
  /\ retrieved = raised
  /\ \A t \in Tasks : handle[t] = "collected" => ~Referenced(t)
  /\ NothingVanishes

SInv ==
  /\ Types
  /\ Windows
  /\ \A p \in Procs : SubmitOK(p)
  /\ OneStarter
  /\ Mail
  /\ IdleOK
  /\ \A w \in Workers : WorkOK(w)
  /\ OneRunner
  /\ Accounted
  /\ Garbage

-----------------------------------------------------------------------------
(* Types.                                                                  *)

LEMMA RemoveAtType ==
  ASSUME NEW S, NEW q \in Seq(S), NEW i \in DOMAIN q
  PROVE  /\ RemoveAt(q, i) \in Seq(S)
         /\ \A k \in DOMAIN RemoveAt(q, i) : \E m \in DOMAIN q : RemoveAt(q, i)[k] = q[m]
<1>1. i \in 1..Len(q) /\ Len(q) \in Nat
  OBVIOUS
<1>2. SubSeq(q, 1, i - 1) \in Seq(S) /\ SubSeq(q, i + 1, Len(q)) \in Seq(S)
  BY <1>1, SubSeqProperties
<1> DEFINE a == SubSeq(q, 1, i - 1)
           b == SubSeq(q, i + 1, Len(q))
<1>3. /\ Len(a) = i - 1 /\ \A k \in 1..(i - 1) : a[k] = q[k]
      /\ Len(b) = Len(q) - i /\ \A k \in 1..(Len(q) - i) : b[k] = q[i + k]
  BY <1>1, SubSeqProperties
<1> HIDE DEF a, b
<1>4. /\ a \o b \in Seq(S) /\ Len(a \o b) = Len(q) - 1
      /\ \A k \in 1..(Len(q) - 1) : (a \o b)[k] = IF k <= i - 1 THEN q[k] ELSE q[k + 1]
  <2>1. a \o b \in Seq(S) /\ Len(a \o b) = Len(a) + Len(b)
    BY <1>2, ConcatProperties DEF a, b
  <2>2. \A k \in 1..(Len(a) + Len(b)) : (a \o b)[k] = IF k <= Len(a) THEN a[k] ELSE b[k - Len(a)]
    BY <1>2, ConcatProperties DEF a, b
  <2> QED
    <3>1. Len(a) + Len(b) = Len(q) - 1
      BY <1>1, <1>3
    <3>2. \A k \in 1..(Len(q) - 1) : k - Len(a) = k - (i - 1) /\ (k > i - 1 => k - Len(a) \in 1..(Len(q) - i))
      BY <1>1, <1>3
    <3>3. \A k \in 1..(Len(q) - 1) : k > i - 1 => b[k - Len(a)] = q[k + 1]
      <4> SUFFICES ASSUME NEW k \in 1..(Len(q) - 1), k > i - 1 PROVE b[k - Len(a)] = q[k + 1]
        OBVIOUS
      <4>1. b[k - Len(a)] = q[i + (k - Len(a))] /\ i + (k - Len(a)) = k + 1
        BY <1>1, <1>3, <3>2
      <4> QED
        BY <4>1
    <3>4. \A k \in 1..(Len(q) - 1) : (a \o b)[k] = IF k <= Len(a) THEN a[k] ELSE b[k - Len(a)]
      BY <2>2, <3>1
    <3>5. \A k \in 1..(Len(q) - 1) : k <= i - 1 => a[k] = q[k]
      BY <1>1, <1>3
    <3>6. Len(a) = i - 1
      BY <1>3
    <3>7. ASSUME NEW k \in 1..(Len(q) - 1) PROVE (a \o b)[k] = IF k <= i - 1 THEN q[k] ELSE q[k + 1]
      <4>1. CASE k <= i - 1
        BY <4>1, <3>4, <3>5, <3>6
      <4>2. CASE ~(k <= i - 1)
        <5>1. k > i - 1 /\ ~(k <= Len(a))
          BY <4>2, <1>1, <3>6
        <5>2. b[k - Len(a)] = q[k + 1]
          BY <5>1, <3>3
        <5>3. (a \o b)[k] = b[k - Len(a)]
          BY <5>1, <3>4
        <5> QED
          BY <4>2, <5>2, <5>3
      <4> QED
        BY <4>1, <4>2
    <3> QED
      BY <2>1, <3>1, <3>7
<1>5. RemoveAt(q, i) = a \o b
  BY DEF RemoveAt, a, b
<1>6. DOMAIN (a \o b) = 1..(Len(q) - 1)
  BY <1>4
<1>7. \A k \in 1..(Len(q) - 1) : k \in DOMAIN q /\ k + 1 \in DOMAIN q
  BY <1>1
<1> QED
  BY <1>4, <1>5, <1>6, <1>7

LEMMA FrontType ==
  ASSUME NEW S, NEW q \in Seq(S), q # <<>>
  PROVE  /\ Front(q) \in Seq(S) /\ Last(q) \in S
         /\ \E m \in DOMAIN q : Last(q) = q[m]
         /\ \A k \in DOMAIN Front(q) : \E m \in DOMAIN q : Front(q)[k] = q[m]
  BY SubSeqProperties, EmptySeq DEF Front, Last

LEMMA TailType ==
  ASSUME NEW S, NEW q \in Seq(S), q # <<>>
  PROVE  /\ Head(q) \in S /\ Head(q) = q[1] /\ 1 \in DOMAIN q
         /\ Tail(q) \in Seq(S)
         /\ \A k \in DOMAIN Tail(q) : k + 1 \in DOMAIN q /\ Tail(q)[k] = q[k + 1]
         /\ \A k \in DOMAIN q : k # 1 => k - 1 \in DOMAIN Tail(q) /\ Tail(q)[k - 1] = q[k]
  BY HeadTailProperties, EmptySeq

LEMMA AppendType ==
  ASSUME NEW S, NEW q \in Seq(S), NEW e \in S
  PROVE  /\ Append(q, e) \in Seq(S)
         /\ DOMAIN Append(q, e) = DOMAIN q \cup {Len(q) + 1} /\ Len(q) + 1 \notin DOMAIN q
         /\ Append(q, e)[Len(q) + 1] = e
         /\ \A k \in DOMAIN q : Append(q, e)[k] = q[k]
  BY AppendProperties

LEMMA ChosenRecord ==
  ASSUME NEW a, NEW b, NEW c
  PROVE  [Nothing EXCEPT !.t = a, !.w = b, !.size = c] = [t |-> a, w |-> b, size |-> c, previous |-> 0]
<1>1. [Nothing EXCEPT !.t = a, !.w = b] = [t |-> a, w |-> b, size |-> 0, previous |-> 0]
  <2>1. [Nothing EXCEPT !.t = a] = [t |-> a, w |-> None, size |-> 0, previous |-> 0]
    BY DEF Nothing
  <2>2. [Nothing EXCEPT !.t = a, !.w = b] = [[Nothing EXCEPT !.t = a] EXCEPT !.w = b]
    OBVIOUS
  <2>3. [[t |-> a, w |-> None, size |-> 0, previous |-> 0] EXCEPT !.w = b]
          = [t |-> a, w |-> b, size |-> 0, previous |-> 0]
    OBVIOUS
  <2> QED
    BY <2>1, <2>2, <2>3
<1>2. [Nothing EXCEPT !.t = a, !.w = b, !.size = c]
        = [[Nothing EXCEPT !.t = a, !.w = b] EXCEPT !.size = c]
  OBVIOUS
<1>3. [[t |-> a, w |-> b, size |-> 0, previous |-> 0] EXCEPT !.size = c]
        = [t |-> a, w |-> b, size |-> c, previous |-> 0]
  OBVIOUS
<1> QED
  BY <1>1, <1>2, <1>3

LEMMA SubmitTypes == ASSUME SInv, NEW p \in Procs, NEW t \in Tasks, Submit(p, t) PROVE Types'
<1>1. Types
  BY DEF SInv
<1>2. idle # <<>> => Front(idle) \in Seq(Workers) /\ Last(idle) \in Workers
  BY <1>1, FrontType DEF Types, QueueTypes
<1>3. /\ idle' \in Seq(Workers)
      /\ mailbox' = mailbox \/ \E w \in Workers : mailbox' = [mailbox EXCEPT ![w] = <<t>>]
  BY <1>1, <1>2 DEF Submit, Types, QueueTypes
<1>4. QueueTypes'
  <2>1. <<t>> \in Seq(Tasks)
    OBVIOUS
  <2> QED
    BY <1>1, <1>3, <2>1 DEF Types, QueueTypes
<1>5. WorkerTypes'
  BY <1>1 DEF Submit, Wpc, Types, WorkerTypes
<1>6. PICK w \in Workers \cup {None}, n \in Nat :
        sub' = [sub EXCEPT ![p] = [t |-> t, w |-> w, size |-> n, previous |-> 0]]
  <2>1. CASE idle # <<>>
    <3>1. sub' = [sub EXCEPT ![p] = [t |-> t, w |-> Last(idle), size |-> 0, previous |-> 0]]
      BY <2>1 DEF Submit, Nothing
    <3> QED
      BY <1>2, <2>1, <3>1
  <2>2. CASE idle = <<>>
    <3>1. \E w \in Workers : sub' = [sub EXCEPT ![p] = [t |-> t, w |-> w, size |-> size, previous |-> 0]]
      <4>1. PICK w \in Workers : sub' = [sub EXCEPT ![p] = [Nothing EXCEPT !.t = t, !.w = w, !.size = size]]
        BY <2>2 DEF Submit
      <4>2. [Nothing EXCEPT !.t = t, !.w = w, !.size = size]
              = [t |-> t, w |-> w, size |-> size, previous |-> 0]
        BY ChosenRecord
      <4> QED
        BY <4>1, <4>2
    <3> QED
      BY <1>1, <3>1 DEF Types, SubTypes
  <2> QED
    BY <2>1, <2>2
<1>7. spc' \in [Procs -> {"out", "put", "start", "resize", "start_in_window", "restore", "validate"}]
  BY <1>1 DEF Submit, Spc, Types, SubTypes
<1>8. sub' \in [Procs -> [t: Tasks \cup {None}, w: Workers \cup {None}, size: Nat, previous: Nat]]
  <2>1. [t |-> t, w |-> w, size |-> n, previous |-> 0]
          \in [t: Tasks \cup {None}, w: Workers \cup {None}, size: Nat, previous: Nat]
    OBVIOUS
  <2> QED
    BY <1>1, <1>6, <2>1 DEF Types, SubTypes
<1>9. SubTypes'
  BY <1>1, <1>7, <1>8 DEF Submit, stack, Types, SubTypes
<1>10. HandleTypes'
  BY <1>1 DEF Submit, Types, HandleTypes
<1> QED
  BY <1>4, <1>5, <1>9, <1>10 DEF Types

LEMMA PutTypes == ASSUME SInv, NEW p \in Procs, Put(p) PROVE Types'
<1>1. Types /\ None \notin Tasks \cup Workers \cup Procs /\ SubmitOK(p)
  BY SchedulerAssumption DEF SInv
<1>2. QueueTypes'
  <2>1. sub[p].t \in Tasks /\ sub[p].w \in Workers
    BY <1>1 DEF Put, Spc, SubmitOK, Active
  <2>2. Append(mailbox[sub[p].w], sub[p].t) \in Seq(Tasks)
    BY <1>1, <2>1, AppendType DEF Types, QueueTypes
  <2> QED
    BY <1>1, <2>1, <2>2 DEF Put, Types, QueueTypes
<1>3. WorkerTypes'
  BY <1>1 DEF Put, Types, WorkerTypes
<1>4. SubTypes'
  BY <1>1, SchedulerAssumption DEF Put, Spc, Nothing, stack, Types, SubTypes
<1>5. HandleTypes'
  BY <1>1 DEF Put, handles, Types, HandleTypes
<1> QED
  BY <1>2, <1>3, <1>4, <1>5 DEF Types

LEMMA OpenWindowTypes == ASSUME SInv, NEW p \in Procs, OpenWindow(p) PROVE Types'
<1>1. Types
  BY DEF SInv
<1>2. QueueTypes'
  BY <1>1 DEF OpenWindow, workers, Types, QueueTypes
<1>3. WorkerTypes'
  BY <1>1 DEF OpenWindow, workers, Types, WorkerTypes
<1>4. SubTypes'
  BY <1>1 DEF OpenWindow, Spc, Swap, Types, SubTypes
<1>5. HandleTypes'
  BY <1>1 DEF OpenWindow, handles, Types, HandleTypes
<1> QED
  BY <1>2, <1>3, <1>4, <1>5 DEF Types

LEMMA StartTypes == ASSUME SInv, NEW p \in Procs, Start(p) PROVE Types'
<1>1. Types
  BY DEF SInv
<1>2. QueueTypes'
  BY <1>1 DEF Start, Types, QueueTypes
<1>3. WorkerTypes'
  BY <1>1 DEF Start, Wpc, Types, WorkerTypes
<1>4. SubTypes'
  BY <1>1 DEF Start, Spc, Started, Forget, Nothing, stack, Types, SubTypes
<1>5. HandleTypes'
  BY <1>1 DEF Start, handles, Types, HandleTypes
<1> QED
  BY <1>2, <1>3, <1>4, <1>5 DEF Types

LEMMA StartFailsTypes == ASSUME SInv, NEW p \in Procs, StartFails(p) PROVE Types'
<1>1. Types
  BY DEF SInv
<1>2. QueueTypes'
  <2>1. idle' = idle /\ mailbox' = [mailbox EXCEPT ![sub[p].w] = <<>>] /\ <<>> \in Seq(Tasks)
    BY EmptySeq DEF StartFails
  <2> QED
    BY <1>1, <2>1 DEF Types, QueueTypes
<1>3. WorkerTypes'
  BY <1>1 DEF StartFails, Wpc, Types, WorkerTypes
<1>4. SubTypes'
  BY <1>1 DEF StartFails, Spc, Started, Forget, Nothing, stack, Types, SubTypes
<1>5. HandleTypes'
  BY <1>1 DEF StartFails, Types, HandleTypes
<1> QED
  BY <1>2, <1>3, <1>4, <1>5 DEF Types

LEMMA RestoreTypes == ASSUME SInv, NEW p \in Procs, Restore(p) PROVE Types'
<1>1. Types
  BY DEF SInv
<1>2. QueueTypes'
  BY <1>1 DEF Restore, workers, Types, QueueTypes
<1>3. WorkerTypes'
  BY <1>1 DEF Restore, workers, Types, WorkerTypes
<1>4. SubTypes'
  BY <1>1 DEF Restore, Spc, Nothing, Types, SubTypes
<1>5. HandleTypes'
  BY <1>1 DEF Restore, handles, Types, HandleTypes
<1> QED
  BY <1>2, <1>3, <1>4, <1>5 DEF Types

LEMMA TuneTypes == ASSUME SInv, Tune PROVE Types'
<1>1. Types
  BY DEF SInv
<1>2. QueueTypes'
  BY <1>1 DEF Tune, workers, Types, QueueTypes
<1>3. WorkerTypes'
  BY <1>1 DEF Tune, workers, Types, WorkerTypes
<1>4. SubTypes'
  <2>1. Sizes[tuned + 1] \in Nat /\ Tuner \in Procs /\ tuned + 1 \in Nat
    <3>1. tuned + 1 \in 1..Len(Sizes) /\ Len(Sizes) \in Nat
      <4>1. Len(Sizes) \in Nat
        BY SchedulerAssumption, LenProperties
      <4>2. tuned \in Nat /\ tuned < Len(Sizes)
        BY <1>1 DEF Tune, Types, SubTypes
      <4> QED
        BY <4>1, <4>2
    <3> QED
      BY <3>1, SchedulerAssumption, ElementOfSeq
  <2>2. CASE Sizes[tuned + 1] = 0
    BY <1>1, <2>1, <2>2 DEF Tune, Types, SubTypes
  <2>3. CASE Sizes[tuned + 1] # 0
    <3>1. sub' = [sub EXCEPT ![Tuner].previous = platform] /\ platform \in Nat
      BY <1>1, <2>3 DEF Tune, Swap, Types, SubTypes
    <3>2. sub' \in [Procs -> [t: Tasks \cup {None}, w: Workers \cup {None}, size: Nat, previous: Nat]]
      BY <1>1, <2>1, <3>1 DEF Types, SubTypes
    <3>3. spc' = [spc EXCEPT ![Tuner] = "validate"] /\ holder' = Tuner
          /\ platform' = Sizes[tuned + 1] /\ size' = size /\ tuned' = tuned + 1
      BY <2>3 DEF Tune, Spc, Swap
    <3> QED
      BY <1>1, <2>1, <3>2, <3>3 DEF Types, SubTypes
  <2> QED
    BY <2>2, <2>3
<1>5. HandleTypes'
  BY <1>1 DEF Tune, handles, Types, HandleTypes
<1> QED
  BY <1>2, <1>3, <1>4, <1>5 DEF Types

LEMMA KeepTypes == ASSUME SInv, Keep PROVE Types'
<1>1. Types
  BY DEF SInv
<1>2. QueueTypes'
  BY <1>1 DEF Keep, workers, Types, QueueTypes
<1>3. WorkerTypes'
  BY <1>1 DEF Keep, workers, Types, WorkerTypes
<1>4. SubTypes'
  <2>1. tuned \in 1..Len(Sizes) /\ Tuner \in Procs
    BY SchedulerAssumption DEF Keep, Spc, SInv, Windows
  <2>2. Sizes[tuned] \in Nat
    BY <2>1, SchedulerAssumption, ElementOfSeq
  <2> QED
    BY <1>1, <2>1, <2>2 DEF Keep, Spc, Nothing, Types, SubTypes
<1>5. HandleTypes'
  BY <1>1 DEF Keep, handles, Types, HandleTypes
<1> QED
  BY <1>2, <1>3, <1>4, <1>5 DEF Types

LEMMA GetTypes == ASSUME SInv, NEW w \in Workers, Get(w) PROVE Types'
<1>1. Types
  BY DEF SInv
<1>2. QueueTypes'
  BY <1>1, TailType DEF Get, Types, QueueTypes
<1>3. WorkerTypes'
  BY <1>1, TailType DEF Get, Wpc, Types, WorkerTypes, QueueTypes
<1>4. SubTypes'
  BY <1>1 DEF Get, stack, Types, SubTypes
<1>5. HandleTypes'
  <2>1. Head(mailbox[w]) \in Tasks
    BY <1>1, TailType DEF Get, Types, QueueTypes
  <2> QED
    BY <1>1, <2>1 DEF Get, Types, HandleTypes
<1> QED
  BY <1>2, <1>3, <1>4, <1>5 DEF Types

LEMMA GetTimesOutTypes == ASSUME SInv, NEW w \in Workers, GetTimesOut(w) PROVE Types'
<1>1. Types
  BY DEF SInv
<1>2. QueueTypes'
  BY <1>1 DEF GetTimesOut, Types, QueueTypes
<1>3. WorkerTypes'
  BY <1>1 DEF GetTimesOut, Wpc, Types, WorkerTypes
<1>4. SubTypes'
  BY <1>1 DEF GetTimesOut, stack, Types, SubTypes
<1>5. HandleTypes'
  BY <1>1 DEF GetTimesOut, handles, Types, HandleTypes
<1> QED
  BY <1>2, <1>3, <1>4, <1>5 DEF Types

LEMMA TryRetireTypes == ASSUME SInv, NEW w \in Workers, TryRetire(w) PROVE Types'
<1>1. Types
  BY DEF SInv
<1>2. QueueTypes'
  <2>1. idle' = idle \/ \E i \in DOMAIN idle : idle' = RemoveAt(idle, i)
    BY DEF TryRetire
  <2>2. idle' \in Seq(Workers)
    BY <1>1, <2>1, RemoveAtType DEF Types, QueueTypes
  <2> QED
    BY <1>1, <2>2 DEF TryRetire, Types, QueueTypes
<1>3. WorkerTypes'
  BY <1>1 DEF TryRetire, Wpc, Types, WorkerTypes
<1>4. SubTypes'
  BY <1>1 DEF TryRetire, stack, Types, SubTypes
<1>5. HandleTypes'
  BY <1>1 DEF TryRetire, handles, Types, HandleTypes
<1> QED
  BY <1>2, <1>3, <1>4, <1>5 DEF Types

LEMMA BodyEndsTypes == ASSUME SInv, NEW w \in Workers, BodyEnds(w) PROVE Types'
<1>1. Types
  BY DEF SInv
<1>2. QueueTypes'
  BY <1>1 DEF BodyEnds, Types, QueueTypes
<1>3. WorkerTypes'
  BY <1>1 DEF BodyEnds, Wpc, Types, WorkerTypes
<1>4. SubTypes'
  BY <1>1 DEF BodyEnds, stack, Types, SubTypes
<1>5. HandleTypes'
  <2>1. raised' \in [Tasks -> BOOLEAN]
    BY <1>1 DEF BodyEnds, Collect
  <2>2. outcome' \in [Tasks -> {"none", "value", "exception"}]
    BY <1>1 DEF BodyEnds, Types, HandleTypes
  <2> QED
    BY <1>1, <2>1, <2>2 DEF BodyEnds, Types, HandleTypes
<1> QED
  BY <1>2, <1>3, <1>4, <1>5 DEF Types

LEMMA SetDoneTypes == ASSUME SInv, NEW w \in Workers, SetDone(w) PROVE Types'
<1>1. Types
  BY DEF SInv
<1>2. QueueTypes'
  BY <1>1 DEF SetDone, Types, QueueTypes
<1>3. WorkerTypes'
  BY <1>1 DEF SetDone, Wpc, Types, WorkerTypes
<1>4. SubTypes'
  BY <1>1 DEF SetDone, stack, Types, SubTypes
<1>5. HandleTypes'
  BY <1>1 DEF SetDone, Types, HandleTypes
<1> QED
  BY <1>2, <1>3, <1>4, <1>5 DEF Types

LEMMA ParkTypes == ASSUME SInv, NEW w \in Workers, Park(w) PROVE Types'
<1>1. Types
  BY DEF SInv
<1>2. QueueTypes'
  BY <1>1, AppendType DEF Park, Types, QueueTypes
<1>3. WorkerTypes'
  BY <1>1 DEF Park, Wpc, Types, WorkerTypes
<1>4. SubTypes'
  BY <1>1 DEF Park, stack, Types, SubTypes
<1>5. HandleTypes'
  BY <1>1 DEF Park, handles, Types, HandleTypes
<1> QED
  BY <1>2, <1>3, <1>4, <1>5 DEF Types

LEMMA DropTaskTypes == ASSUME SInv, NEW w \in Workers, DropTask(w) PROVE Types'
<1>1. Types
  BY DEF SInv
<1>2. QueueTypes'
  BY <1>1 DEF DropTask, Types, QueueTypes
<1>3. WorkerTypes'
  BY <1>1 DEF DropTask, Wpc, Types, WorkerTypes
<1>4. SubTypes'
  BY <1>1 DEF DropTask, stack, Types, SubTypes
<1>5. HandleTypes'
  BY <1>1 DEF DropTask, handles, Types, HandleTypes
<1> QED
  BY <1>2, <1>3, <1>4, <1>5 DEF Types

LEMMA ResultTypes == ASSUME SInv, NEW p \in Procs, NEW t \in Tasks, Result(p, t) PROVE Types'
<1>1. Types
  BY DEF SInv
<1>2. QueueTypes'
  BY <1>1 DEF Result, workers, Types, QueueTypes
<1>3. WorkerTypes'
  BY <1>1 DEF Result, workers, Types, WorkerTypes
<1>4. SubTypes'
  BY <1>1 DEF Result, stack, Types, SubTypes
<1>5. HandleTypes'
  BY <1>1 DEF Result, Collect, Types, HandleTypes
<1> QED
  BY <1>2, <1>3, <1>4, <1>5 DEF Types

LEMMA DropTypes == ASSUME SInv, NEW p \in Procs, NEW t \in Tasks, Drop(p, t) PROVE Types'
<1>1. Types
  BY DEF SInv
<1>2. QueueTypes'
  BY <1>1 DEF Drop, workers, Types, QueueTypes
<1>3. WorkerTypes'
  BY <1>1 DEF Drop, workers, Types, WorkerTypes
<1>4. SubTypes'
  BY <1>1 DEF Drop, stack, Types, SubTypes
<1>5. HandleTypes'
  BY <1>1 DEF Drop, Types, HandleTypes
<1> QED
  BY <1>2, <1>3, <1>4, <1>5 DEF Types

LEMMA DeleteTypes == ASSUME SInv, NEW t \in Tasks, Delete(t) PROVE Types'
<1>1. Types
  BY DEF SInv
<1>2. QueueTypes'
  BY <1>1 DEF Delete, workers, Types, QueueTypes
<1>3. WorkerTypes'
  BY <1>1 DEF Delete, workers, Types, WorkerTypes
<1>4. SubTypes'
  BY <1>1 DEF Delete, stack, Types, SubTypes
<1>5. HandleTypes'
  BY <1>1 DEF Delete, Types, HandleTypes
<1> QED
  BY <1>2, <1>3, <1>4, <1>5 DEF Types

-----------------------------------------------------------------------------
(* What a step has to show of each part, if it moves no task between       *)
(* mailboxes (Light), and the parts that tasks on the move disturb.        *)

Light ==
  /\ mailbox' = mailbox /\ runs' = runs
  /\ \A p \in Procs :
       /\ spc'[p] = "put" <=> spc[p] = "put"
       /\ spc'[p] \in Starting <=> spc[p] \in Starting
       /\ sub'[p].t = sub[p].t /\ (Active(p) => sub'[p].w = sub[p].w)
  /\ \A w \in Workers : (wpc'[w] = "none" <=> wpc[w] = "none") /\ (wpc'[w] = "made" <=> wpc[w] = "made")
  /\ \A t \in Tasks :
       /\ handle'[t] = "new" <=> handle[t] = "new"
       /\ handle'[t] = "refused" <=> handle[t] = "refused"
       /\ handle[t] = "held" /\ (\E p \in Procs : sub[p].t = t) => handle'[t] = "held"

LEMMA LightSubmits == ASSUME Light, \A p \in Procs : SubmitOK(p) PROVE \A p \in Procs : SubmitOK(p)'
<1> SUFFICES ASSUME NEW p \in Procs PROVE SubmitOK(p)'
  OBVIOUS
<1>1. /\ SubmitOK(p) /\ (spc'[p] = "put" <=> spc[p] = "put")
      /\ (spc'[p] \in Starting <=> spc[p] \in Starting)
      /\ sub'[p].t = sub[p].t /\ (Active(p) => sub'[p].w = sub[p].w)
      /\ mailbox' = mailbox /\ runs' = runs
  BY DEF Light
<1>2. Active(p)' <=> Active(p)
  BY <1>1 DEF Active
<1>3. CASE Active(p)
  <2> DEFINE t == sub[p].t
             w == sub[p].w
  <2>1. t \in Tasks /\ w \in Workers /\ handle[t] = "held" /\ Owner[t] = p /\ runs[t] = 0
    BY <1>1, <1>3 DEF SubmitOK
  <2>2. handle'[t] = "held"
    BY <2>1 DEF Light
  <2>3. (wpc'[w] = "none" <=> wpc[w] = "none") /\ (wpc'[w] = "made" <=> wpc[w] = "made")
    BY <2>1 DEF Light
  <2> QED
    BY <1>1, <1>2, <1>3, <2>1, <2>2, <2>3 DEF SubmitOK
<1>4. CASE ~Active(p)
  BY <1>1, <1>2, <1>4 DEF SubmitOK
<1> QED
  BY <1>3, <1>4

LEMMA LightStarters == ASSUME Light, OneStarter PROVE OneStarter'
BY DEF Light, OneStarter, Active

LEMMA LightMail == ASSUME Light, Types, Types', Mail PROVE Mail'
<1>1. \A t \in Tasks : handle[t] \in Taken => handle'[t] \in Taken
  BY DEF Light, Types, HandleTypes, Taken
<1>2. \A w \in Workers : \A k \in DOMAIN mailbox[w] : mailbox[w][k] \in Tasks
  BY DEF Types, QueueTypes
<1>3. mailbox' = mailbox /\ runs' = runs /\ \A w \in Workers : wpc'[w] = "none" => wpc[w] = "none"
  BY DEF Light
<1> QED
  BY <1>1, <1>2, <1>3 DEF Mail

LEMMA InFlightSame ==
  ASSUME mailbox' = mailbox, task' = task, \A p \in Procs : sub'[p].t = sub[p].t
  PROVE  \A t : InFlight(t)' <=> InFlight(t)
BY DEF InFlight

LEMMA AccountedStep ==
  ASSUME Accounted, Types, Types',
         \A t \in Tasks : handle'[t] \in Taken => handle[t] \in Taken \/ InFlight(t)',
         \A t \in Tasks : InFlight(t) => InFlight(t)' \/ done'[t] \/ handle'[t] \notin Taken,
         \A t \in Tasks : done[t] => done'[t],
         \A t \in Tasks : handle'[t] \in {"new", "refused"} => runs'[t] = 0 /\ ~done'[t],
         \A t \in Tasks : done'[t] => outcome'[t] # "none" /\ runs'[t] = 1
  PROVE  Accounted'
<1> SUFFICES ASSUME NEW t \in Tasks, handle'[t] \in Taken, ~done'[t] PROVE InFlight(t)'
  BY DEF Accounted, Taken
<1>1. handle[t] \in Taken => InFlight(t)
  BY DEF Accounted
<1> QED
  BY <1>1

(* Once collected, a task is out of everybody's reach.                     *)
LEMMA GarbageStep ==
  ASSUME Garbage, retrieved' = raised',
         \A t \in Tasks : InFlight(t)' => InFlight(t) \/ handle[t] = "new",
         \A t \in Tasks : handle'[t] = "new" => handle[t] = "new",
         \A t \in Tasks : handle'[t] = "collected" => handle[t] = "collected",
         \A t \in Tasks : handle[t] = "collected" =>
           /\ done[t] => done'[t]
           /\ outcome'[t] = outcome[t] /\ raised'[t] = raised[t] /\ reported'[t] = reported[t]
  PROVE  Garbage'
<1>1. ASSUME NEW t \in Tasks, handle'[t] = "collected" PROVE ~Referenced(t)'
  <2>1. handle[t] = "collected" /\ ~InFlight(t)
        /\ \A u \in Tasks : t \in Needs[u] => handle[u] # "new" /\ ~InFlight(u)
    BY <1>1 DEF Garbage, Referenced
  <2>2. ~InFlight(t)'
    BY <2>1
  <2>3. \A u \in Tasks : t \in Needs[u] => handle'[u] # "new" /\ ~InFlight(u)'
    BY <2>1
  <2> QED
    BY <2>2, <2>3 DEF Referenced
<1>2. NothingVanishes'
  BY DEF Garbage, NothingVanishes
<1> QED
  BY <1>1, <1>2 DEF Garbage

(* A worker that does not move goes on with its task.                      *)
LEMMA WorkSame ==
  ASSUME NEW w \in Workers, WorkOK(w), Types, Types', wpc'[w] = wpc[w], task'[w] = task[w],
         \A t \in Tasks : done[t] => done'[t],
         \A t \in Tasks : handle[t] = "refused" => handle'[t] = "refused",
         \A t \in Tasks : handle[t] \in Taken => handle'[t] \in Taken,
         wpc[w] \in {"running", "stored"} =>
           /\ runs'[task[w]] = runs[task[w]] /\ done'[task[w]] = done[task[w]]
           /\ outcome'[task[w]] = outcome[task[w]],
         \A t \in Tasks : Needs[t] \subseteq Tasks
  PROVE  WorkOK(w)'
<1>1. CASE wpc[w] = "stored"
  <2>1. task[w] \in Tasks /\ \A u \in Needs[task[w]] : done'[u] \/ handle'[u] = "refused"
    BY <1>1 DEF WorkOK
  <2> QED
    BY <1>1, <2>1 DEF WorkOK
<1>2. CASE wpc[w] # "stored"
  BY <1>2 DEF WorkOK
<1> QED
  BY <1>1, <1>2

-----------------------------------------------------------------------------
(* The steps that move no task.                                            *)

LEMMA SInvParts ==
  ASSUME SInv
  PROVE  /\ Types /\ Windows /\ OneStarter /\ Mail /\ IdleOK /\ OneRunner /\ Accounted /\ Garbage
         /\ \A p \in Procs : SubmitOK(p)
         /\ \A w \in Workers : WorkOK(w)
BY DEF SInv

LEMMA QuietSubmit ==
  ASSUME SInv, Types', Light, UNCHANGED <<workers, handles>>, Windows'
  PROVE  SInv'
<1>1. /\ idle' = idle /\ wpc' = wpc /\ task' = task /\ mailbox' = mailbox
      /\ outcome' = outcome /\ done' = done /\ retrieved' = retrieved /\ raised' = raised
      /\ handle' = handle /\ runs' = runs /\ reported' = reported
  BY DEF workers, handles
<1>2. IdleOK' /\ OneRunner' /\ \A w \in Workers : WorkOK(w)'
  BY <1>1, SInvParts DEF IdleOK, OneRunner, WorkOK
<1>3. \A t : InFlight(t)' <=> InFlight(t)
  BY <1>1, InFlightSame DEF Light
<1>4. Accounted'
  BY <1>1, <1>3, SInvParts DEF Accounted
<1>5. Garbage'
  <2>1. \A t \in Tasks : InFlight(t)' => InFlight(t) \/ handle[t] = "new"
    BY <1>3
  <2> QED
    BY <1>1, <2>1, SInvParts, GarbageStep DEF Garbage
<1> QED
  BY <1>2, <1>4, <1>5, SInvParts, LightSubmits, LightStarters, LightMail DEF SInv

LEMMA OpenWindowInv == ASSUME SInv, Types', NEW p \in Procs, OpenWindow(p) PROVE SInv'
<1>1. /\ spc[p] = "resize" /\ spc'[p] = "start_in_window" /\ holder = None /\ holder' = p
      /\ platform' = sub[p].size /\ tuned' = tuned
      /\ \A q \in Procs : q # p => spc'[q] = spc[q] /\ sub'[q] = sub[q]
      /\ sub'[p].previous = platform /\ sub'[p].size = sub[p].size
      /\ sub'[p].t = sub[p].t /\ sub'[p].w = sub[p].w
  BY SInvParts DEF OpenWindow, Spc, Swap, Types, SubTypes
<1>2. None \notin Procs
  BY SchedulerAssumption
<1>3. Windows'
  BY <1>1, <1>2, SInvParts DEF Windows, Window
<1>4. Light
  BY <1>1 DEF Light, OpenWindow, workers, handles, Starting
<1> QED
  BY <1>3, <1>4, QuietSubmit DEF OpenWindow

LEMMA RestoreInv == ASSUME SInv, Types', NEW p \in Procs, Restore(p) PROVE SInv'
<1>1. /\ spc[p] = "restore" /\ spc'[p] = "out" /\ holder' = None
      /\ platform' = sub[p].previous /\ tuned' = tuned
      /\ \A q \in Procs : q # p => spc'[q] = spc[q] /\ sub'[q] = sub[q]
      /\ sub'[p].t = None
  BY SInvParts DEF Restore, Spc, Nothing, Types, SubTypes
<1>2. None \notin Procs
  BY SchedulerAssumption
<1>3. Windows'
  BY <1>1, <1>2, SInvParts DEF Windows, Window
<1>4. ~Active(p) /\ sub[p].t = None
  BY <1>1, SInvParts DEF Active, Starting, SubmitOK
<1>5. Light
  BY <1>1, <1>4 DEF Light, Restore, workers, handles, Starting
<1> QED
  BY <1>3, <1>5, QuietSubmit DEF Restore

LEMMA TuneInv == ASSUME SInv, Types', Tune PROVE SInv'
<1>0. Tuner \in Procs /\ None \notin Procs /\ Len(Sizes) \in Nat
  BY SchedulerAssumption, LenProperties
<1>1. CASE Sizes[tuned + 1] = 0
  <2>1. Windows'
    <3>1. spc[Tuner] = "out" /\ tuned' = tuned + 1
      BY DEF Tune
    <3>2. \A p \in Procs : spc[p] # "validate"
      BY <1>0, SInvParts, <3>1 DEF Windows, Window, Tune
    <3>3. spc' = spc /\ sub' = sub /\ platform' = platform /\ holder' = holder
      BY <1>1 DEF Tune
    <3> QED
      BY <3>2, <3>3, SInvParts DEF Windows
  <2>2. Light
    <3>1. UNCHANGED <<spc, sub, mailbox, task, runs, wpc, handle>>
      BY <1>1 DEF Tune, workers, handles
    <3> QED
      BY <3>1 DEF Light
  <2> QED
    BY <2>1, <2>2, QuietSubmit DEF Tune
<1>2. CASE Sizes[tuned + 1] # 0
  <2>1. /\ spc[Tuner] = "out" /\ spc'[Tuner] = "validate" /\ holder = None /\ holder' = Tuner
        /\ tuned' = tuned + 1 /\ tuned < Len(Sizes) /\ tuned \in Nat
        /\ \A q \in Procs : q # Tuner => spc'[q] = spc[q] /\ sub'[q] = sub[q]
        /\ sub'[Tuner].previous = platform /\ sub'[Tuner].t = sub[Tuner].t
    <3>1. /\ spc[Tuner] = "out" /\ spc' = [spc EXCEPT ![Tuner] = "validate"]
          /\ sub' = [sub EXCEPT ![Tuner].previous = platform]
          /\ holder = None /\ holder' = Tuner /\ tuned' = tuned + 1 /\ tuned < Len(Sizes)
      BY <1>2 DEF Tune, Spc, Swap
    <3>2. SubTypes
      BY SInvParts DEF Types
    <3> QED
      BY <1>0, <3>1, <3>2 DEF SubTypes
  <2>2. tuned' \in 1..Len(Sizes)
    BY <1>0, <2>1
  <2>3. Windows'
    BY <1>0, <2>1, <2>2, SInvParts DEF Windows, Window
  <2>4. Light
    BY <2>1 DEF Light, Tune, workers, handles, Starting, Active
  <2> QED
    BY <2>3, <2>4, QuietSubmit DEF Tune
<1> QED
  BY <1>1, <1>2

LEMMA KeepInv == ASSUME SInv, Types', Keep PROVE SInv'
<1>0. Tuner \in Procs /\ None \notin Procs
  BY SchedulerAssumption
<1>1. /\ spc[Tuner] = "validate" /\ spc'[Tuner] = "out" /\ holder' = None
      /\ platform' = sub[Tuner].previous /\ tuned' = tuned
      /\ \A q \in Procs : q # Tuner => spc'[q] = spc[q] /\ sub'[q] = sub[q]
      /\ sub'[Tuner].t = None
  BY <1>0, SInvParts DEF Keep, Spc, Nothing, Types, SubTypes
<1>3. Windows'
  BY <1>0, <1>1, SInvParts DEF Windows, Window
<1>4. ~Active(Tuner) /\ sub[Tuner].t = None
  BY <1>0, <1>1, SInvParts DEF Active, Starting, SubmitOK
<1>5. Light
  BY <1>0, <1>1, <1>4 DEF Light, Keep, workers, handles, Starting
<1> QED
  BY <1>3, <1>5, QuietSubmit DEF Keep

(* A worker goes from one place without a task to do to another.           *)
LEMMA QuietWorker ==
  ASSUME SInv, Types', NEW w \in Workers,
         UNCHANGED <<mailbox, task, spc, sub, stack, handles>>,
         \A v \in Workers : v # w => wpc'[v] = wpc[v],
         wpc[w] \notin {"none", "made", "running", "stored"},
         wpc'[w] \notin {"none", "made", "running", "stored"},
         WorkOK(w)', IdleOK'
  PROVE  SInv'
<1>1. /\ mailbox' = mailbox /\ task' = task /\ spc' = spc /\ sub' = sub
      /\ holder' = holder /\ platform' = platform /\ tuned' = tuned
      /\ outcome' = outcome /\ done' = done /\ retrieved' = retrieved /\ raised' = raised
      /\ handle' = handle /\ runs' = runs /\ reported' = reported
  BY DEF stack, handles
<1>2. Light
  BY <1>1 DEF Light
<1>3. Windows'
  BY <1>1, SInvParts DEF Windows
<1>4. OneRunner'
  BY <1>1, SInvParts DEF OneRunner
<1>5. \A v \in Workers : v # w => WorkOK(v)'
  BY <1>1, SInvParts DEF WorkOK
<1>6. \A t : InFlight(t)' <=> InFlight(t)
  BY <1>1, InFlightSame
<1>7. Accounted'
  BY <1>1, <1>6, SInvParts DEF Accounted
<1>8. Garbage'
  <2>1. \A t \in Tasks : InFlight(t)' => InFlight(t) \/ handle[t] = "new"
    BY <1>6
  <2> QED
    BY <1>1, <2>1, SInvParts, GarbageStep DEF Garbage
<1> QED
  BY <1>2, <1>3, <1>4, <1>5, <1>7, <1>8, SInvParts, LightSubmits, LightStarters, LightMail DEF SInv

LEMMA GetTimesOutInv == ASSUME SInv, Types', NEW w \in Workers, GetTimesOut(w) PROVE SInv'
<1>1. /\ wpc[w] = "get" /\ wpc'[w] = "retiring" /\ \A v \in Workers : v # w => wpc'[v] = wpc[v]
      /\ idle' = idle /\ task' = task
  BY SInvParts DEF GetTimesOut, Wpc, Types, WorkerTypes
<1>2. WorkOK(w)'
  BY <1>1, SInvParts DEF WorkOK
<1>3. IdleOK'
  <2>1. \A i \in DOMAIN idle : idle[i] \in Workers
    BY SInvParts DEF Types, QueueTypes
  <2> QED
    BY <1>1, <2>1, SInvParts DEF IdleOK
<1> QED
  BY <1>1, <1>2, <1>3, QuietWorker DEF GetTimesOut

LEMMA TryRetireInv == ASSUME SInv, Types', NEW w \in Workers, TryRetire(w) PROVE SInv'
<1>1. /\ wpc[w] = "retiring" /\ wpc'[w] \in {"retired", "claimed"}
      /\ \A v \in Workers : v # w => wpc'[v] = wpc[v]
      /\ task' = task
  BY SInvParts DEF TryRetire, Wpc, Types, WorkerTypes
<1>2. WorkOK(w)'
  BY <1>1, SInvParts DEF WorkOK
<1>3. IdleOK'
  <2>1. idle' = idle \/ \E i \in DOMAIN idle : idle' = RemoveAt(idle, i)
    BY DEF TryRetire
  <2>2. idle \in Seq(Workers)
    BY SInvParts DEF Types, QueueTypes
  <2>3. \A k \in DOMAIN idle' : \E m \in DOMAIN idle : idle'[k] = idle[m]
    BY <2>1, <2>2, RemoveAtType
  <2>4. \A m \in DOMAIN idle : idle[m] \in Workers /\ wpc[idle[m]] \notin {"none", "made"}
    BY <2>2, SInvParts DEF IdleOK
  <2> QED
    BY <1>1, <2>3, <2>4 DEF IdleOK
<1> QED
  BY <1>1, <1>2, <1>3, QuietWorker DEF TryRetire

LEMMA ParkInv == ASSUME SInv, Types', NEW w \in Workers, Park(w) PROVE SInv'
<1>1. /\ wpc[w] = "ending" /\ wpc'[w] = "parked" /\ \A v \in Workers : v # w => wpc'[v] = wpc[v]
      /\ idle' = Append(idle, w) /\ task' = task /\ done' = done
  BY SInvParts DEF Park, Wpc, Types, WorkerTypes, handles
<1>2. WorkOK(w)'
  BY <1>1, SInvParts DEF WorkOK
<1>3. IdleOK'
  <2>1. idle \in Seq(Workers)
    BY SInvParts DEF Types, QueueTypes
  <2>2. \A k \in DOMAIN idle' : idle'[k] = w \/ \E m \in DOMAIN idle : idle'[k] = idle[m]
    BY <1>1, <2>1, AppendType
  <2>3. \A m \in DOMAIN idle : idle[m] \in Workers /\ wpc[idle[m]] \notin {"none", "made"}
    BY <2>1, SInvParts DEF IdleOK
  <2> QED
    BY <1>1, <2>2, <2>3 DEF IdleOK
<1> QED
  BY <1>1, <1>2, <1>3, QuietWorker DEF Park


-----------------------------------------------------------------------------
(* The end of a task, and what becomes of its Handle.                      *)

LEMMA RunsAlone ==
  ASSUME SInv, NEW w \in Workers, wpc[w] \in {"running", "stored"}
  PROVE  /\ task[w] \in Tasks /\ InFlight(task[w]) /\ handle[task[w]] \in Taken
         /\ \A v \in Workers : v # w /\ wpc[v] \in {"running", "stored"} => task[v] # task[w]
         /\ handle[task[w]] # "collected"
         /\ \A t \in Needs[task[w]] : handle[t] # "collected"
<1>1. task[w] \in Tasks /\ handle[task[w]] \in Taken
  BY SInvParts DEF WorkOK
<1>2. InFlight(task[w])
  BY <1>1 DEF InFlight
<1>3. \A t \in Tasks : t = task[w] \/ t \in Needs[task[w]] => Referenced(t)
  BY <1>1, <1>2 DEF Referenced
<1>4. Needs[task[w]] \subseteq Tasks
  BY <1>1, SchedulerAssumption
<1>5. \A v \in Workers : v # w /\ wpc[v] \in {"running", "stored"} => task[v] # task[w]
  BY SInvParts DEF OneRunner
<1> QED
  BY <1>1, <1>2, <1>3, <1>4, <1>5, SInvParts DEF Garbage

LEMMA BodyEndsInv == ASSUME SInv, Types', NEW w \in Workers, BodyEnds(w) PROVE SInv'
<1>1. /\ wpc[w] = "running" /\ wpc'[w] = "stored" /\ \A v \in Workers : v # w => wpc'[v] = wpc[v]
      /\ idle' = idle /\ mailbox' = mailbox /\ task' = task /\ spc' = spc /\ sub' = sub
      /\ tuned' = tuned /\ platform' = platform /\ holder' = holder
      /\ done' = done /\ handle' = handle /\ runs' = runs /\ reported' = reported
      /\ \A t \in Needs[task[w]] : done[t] \/ handle[t] = "refused"
  BY SInvParts DEF BodyEnds, Wpc, Types, WorkerTypes, stack
<1>2. /\ task[w] \in Tasks /\ handle[task[w]] # "collected"
      /\ \A v \in Workers : v # w /\ wpc[v] \in {"running", "stored"} => task[v] # task[w]
      /\ \A t \in Needs[task[w]] : handle[t] # "collected"
  BY <1>1, RunsAlone
<1>3. /\ outcome'[task[w]] # "none"
      /\ \A t \in Tasks : t # task[w] => outcome'[t] = outcome[t]
  BY <1>2, SInvParts DEF BodyEnds, Types, HandleTypes
<1>4. /\ retrieved' = raised'
      /\ \A t \in Tasks : t \notin Needs[task[w]] => raised'[t] = raised[t]
  <2>1. retrieved = raised /\ \A t \in Tasks : raised[t] \in BOOLEAN
    BY SInvParts DEF Garbage, Types, HandleTypes
  <2>2. /\ retrieved' = [t \in Tasks |-> retrieved[t] \/ (t \in Needs[task[w]] /\ outcome[t] = "exception")]
        /\ raised' = [t \in Tasks |-> raised[t] \/ (t \in Needs[task[w]] /\ outcome[t] = "exception")]
    BY DEF BodyEnds, Collect
  <2> QED
    BY <2>1, <2>2
<1>5. Light
  BY <1>1 DEF Light
<1>6. Windows' /\ OneRunner'
  BY <1>1, SInvParts DEF Windows, OneRunner
<1>7. IdleOK'
  <2>1. \A i \in DOMAIN idle : idle[i] \in Workers
    BY SInvParts DEF Types, QueueTypes
  <2> QED
    BY <1>1, <2>1, SInvParts DEF IdleOK
<1>8. WorkOK(w)'
  BY <1>1, <1>2, <1>3, SInvParts DEF WorkOK
<1>9. \A v \in Workers : v # w => WorkOK(v)'
  <2> SUFFICES ASSUME NEW v \in Workers, v # w PROVE WorkOK(v)'
    OBVIOUS
  <2>1. WorkOK(v) /\ (wpc[v] \in {"running", "stored"} => task[v] \in Tasks /\ task[v] # task[w])
    BY <1>2, SInvParts DEF WorkOK
  <2> QED
    BY <1>1, <1>3, <2>1 DEF WorkOK
<1>10. \A t : InFlight(t)' <=> InFlight(t)
  BY <1>1, InFlightSame
<1>11. Accounted'
  BY <1>1, <1>3, <1>10, SInvParts DEF Accounted
<1>12. Garbage'
  <2>1. \A t \in Tasks : handle[t] = "collected" => outcome'[t] = outcome[t] /\ raised'[t] = raised[t]
    BY <1>2, <1>3, <1>4
  <2> QED
    BY <1>1, <1>4, <1>10, <2>1, SInvParts, GarbageStep
<1> QED
  BY <1>5, <1>6, <1>7, <1>8, <1>9, <1>11, <1>12, SInvParts, LightSubmits, LightStarters, LightMail DEF SInv

LEMMA SetDoneInv == ASSUME SInv, Types', NEW w \in Workers, SetDone(w) PROVE SInv'
<1>1. /\ wpc[w] = "stored" /\ wpc'[w] = "ending" /\ \A v \in Workers : v # w => wpc'[v] = wpc[v]
      /\ idle' = idle /\ mailbox' = mailbox /\ task' = task /\ spc' = spc /\ sub' = sub
      /\ tuned' = tuned /\ platform' = platform /\ holder' = holder
      /\ outcome' = outcome /\ handle' = handle /\ runs' = runs /\ reported' = reported
      /\ retrieved' = retrieved /\ raised' = raised
  BY SInvParts DEF SetDone, Wpc, Types, WorkerTypes, stack
<1>2. /\ task[w] \in Tasks /\ handle[task[w]] \in Taken
      /\ \A v \in Workers : v # w /\ wpc[v] \in {"running", "stored"} => task[v] # task[w]
  BY <1>1, RunsAlone
<1>3. outcome[task[w]] # "none" /\ runs[task[w]] = 1
  BY <1>1, SInvParts DEF WorkOK
<1>4. done'[task[w]] /\ \A t \in Tasks : t # task[w] => done'[t] = done[t]
  BY <1>2, SInvParts DEF SetDone, Types, HandleTypes
<1>5. Light
  BY <1>1 DEF Light
<1>6. Windows' /\ OneRunner'
  BY <1>1, SInvParts DEF Windows, OneRunner
<1>7. IdleOK'
  <2>1. \A i \in DOMAIN idle : idle[i] \in Workers
    BY SInvParts DEF Types, QueueTypes
  <2> QED
    BY <1>1, <2>1, SInvParts DEF IdleOK
<1>8. WorkOK(w)'
  BY <1>1, <1>2, <1>4 DEF WorkOK
<1>9. \A v \in Workers : v # w => WorkOK(v)'
  <2> SUFFICES ASSUME NEW v \in Workers, v # w PROVE WorkOK(v)'
    OBVIOUS
  <2>1. WorkOK(v) /\ (wpc[v] \in {"running", "stored"} => task[v] \in Tasks /\ task[v] # task[w])
    BY <1>2, SInvParts DEF WorkOK
  <2>2. \A t \in Tasks : done[t] => done'[t]
    BY <1>2, <1>4
  <2>3. \A t \in Tasks : Needs[t] \subseteq Tasks
    BY SchedulerAssumption
  <2> QED
    BY <1>1, <1>4, <2>1, <2>2, <2>3, SInvParts, WorkSame
<1>10. \A t : InFlight(t)' <=> InFlight(t)
  BY <1>1, InFlightSame
<1>11. Accounted'
  <2>1. handle[task[w]] \notin {"new", "refused"}
    BY <1>2 DEF Taken
  <2> QED
    BY <1>1, <1>3, <1>4, <1>10, <2>1, SInvParts DEF Accounted
<1>12. Garbage'
  <2>1. \A t \in Tasks : done[t] => done'[t]
    BY <1>2, <1>4
  <2>2. retrieved' = raised'
    BY <1>1, SInvParts DEF Garbage
  <2> QED
    BY <1>1, <1>10, <2>1, <2>2, SInvParts, GarbageStep
<1> QED
  BY <1>5, <1>6, <1>7, <1>8, <1>9, <1>11, <1>12, SInvParts, LightSubmits, LightStarters, LightMail DEF SInv


LEMMA DropTaskInv == ASSUME SInv, Types', NEW w \in Workers, DropTask(w) PROVE SInv'
<1>1. /\ wpc[w] = "parked" /\ wpc'[w] = "get" /\ \A v \in Workers : v # w => wpc'[v] = wpc[v]
      /\ task'[w] = None /\ \A v \in Workers : v # w => task'[v] = task[v]
      /\ idle' = idle /\ mailbox' = mailbox /\ spc' = spc /\ sub' = sub
      /\ tuned' = tuned /\ platform' = platform /\ holder' = holder
      /\ outcome' = outcome /\ done' = done /\ handle' = handle /\ runs' = runs
      /\ reported' = reported /\ retrieved' = retrieved /\ raised' = raised
  BY SInvParts DEF DropTask, Wpc, Types, WorkerTypes, stack, handles
<1>2. task[w] \in Tasks /\ done[task[w]] /\ None \notin Tasks
  BY <1>1, SInvParts, SchedulerAssumption DEF WorkOK
<1>3. Light
  BY <1>1 DEF Light
<1>4. Windows' /\ OneRunner'
  BY <1>1, SInvParts DEF Windows, OneRunner
<1>5. IdleOK'
  <2>1. \A i \in DOMAIN idle : idle[i] \in Workers
    BY SInvParts DEF Types, QueueTypes
  <2> QED
    BY <1>1, <2>1, SInvParts DEF IdleOK
<1>6. WorkOK(w)'
  BY <1>1 DEF WorkOK
<1>7. \A v \in Workers : v # w => WorkOK(v)'
  BY <1>1, SInvParts DEF WorkOK
<1>8. \A t \in Tasks : /\ InFlight(t)' => InFlight(t)
                       /\ InFlight(t) => InFlight(t)' \/ done[t]
  <2> SUFFICES ASSUME NEW t \in Tasks
               PROVE  (InFlight(t)' => InFlight(t)) /\ (InFlight(t) => InFlight(t)' \/ done[t])
    OBVIOUS
  <2>1. \A v \in Workers : /\ task'[v] = t => task[v] = t
                           /\ task[v] = t => task'[v] = t \/ done[t]
    BY <1>1, <1>2
  <2> QED
    BY <1>1, <2>1 DEF InFlight
<1>9. Accounted'
  BY <1>1, <1>8, SInvParts DEF Accounted
<1>10. Garbage'
  <2>1. retrieved' = raised'
    BY <1>1, SInvParts DEF Garbage
  <2> QED
    BY <1>1, <1>8, <2>1, SInvParts, GarbageStep
<1> QED
  BY <1>3, <1>4, <1>5, <1>6, <1>7, <1>9, <1>10, SInvParts, LightSubmits, LightStarters, LightMail DEF SInv

LEMMA ResultInv == ASSUME SInv, Types', NEW p \in Procs, NEW t \in Tasks, Result(p, t) PROVE SInv'
<1>1. /\ idle' = idle /\ wpc' = wpc /\ task' = task /\ mailbox' = mailbox /\ spc' = spc /\ sub' = sub
      /\ tuned' = tuned /\ platform' = platform /\ holder' = holder
      /\ outcome' = outcome /\ done' = done /\ handle' = handle /\ runs' = runs
      /\ reported' = reported
      /\ handle[t] = "held"
  BY DEF Result, Holds, workers, stack
<1>2. /\ retrieved' = raised'
      /\ \A u \in Tasks : u # t => raised'[u] = raised[u]
  <2>1. retrieved = raised /\ \A u \in Tasks : raised[u] \in BOOLEAN
    BY SInvParts DEF Garbage, Types, HandleTypes
  <2>2. /\ retrieved' = [u \in Tasks |-> retrieved[u] \/ (u \in {t} /\ outcome[u] = "exception")]
        /\ raised' = [u \in Tasks |-> raised[u] \/ (u \in {t} /\ outcome[u] = "exception")]
    BY DEF Result, Collect
  <2> QED
    BY <2>1, <2>2
<1>3. Light
  BY <1>1 DEF Light
<1>4. Windows' /\ OneRunner' /\ IdleOK' /\ \A w \in Workers : WorkOK(w)'
  BY <1>1, SInvParts DEF Windows, OneRunner, IdleOK, WorkOK
<1>5. \A u : InFlight(u)' <=> InFlight(u)
  BY <1>1, InFlightSame
<1>6. Accounted'
  BY <1>1, <1>5, SInvParts DEF Accounted
<1>7. Garbage'
  BY <1>1, <1>2, <1>5, SInvParts, GarbageStep
<1> QED
  BY <1>3, <1>4, <1>6, <1>7, SInvParts, LightSubmits, LightStarters, LightMail DEF SInv

(* What the owner of a Handle and the garbage collector leave alone.       *)
LEMMA QuietHandle ==
  ASSUME SInv, Types', NEW t \in Tasks,
         UNCHANGED <<workers, spc, sub, stack, outcome, done, retrieved, raised, runs>>,
         handle[t] \in Taken, handle'[t] \in Taken, \A u \in Tasks : u # t => handle'[u] = handle[u],
         handle[t] = "held" => \A p \in Procs : sub[p].t # t,
         Garbage'
  PROVE  SInv'
<1>1. /\ idle' = idle /\ wpc' = wpc /\ task' = task /\ mailbox' = mailbox /\ spc' = spc /\ sub' = sub
      /\ tuned' = tuned /\ platform' = platform /\ holder' = holder
      /\ outcome' = outcome /\ done' = done /\ runs' = runs
  BY DEF workers, stack
<1>2. /\ handle[t] \notin {"new", "refused"} /\ handle'[t] \notin {"new", "refused"}
      /\ \A u \in Tasks : handle[u] \in Taken => handle'[u] \in Taken
  BY DEF Taken
<1>3. Light
  BY <1>1, <1>2 DEF Light
<1>4. Windows' /\ OneRunner' /\ IdleOK'
  BY <1>1, SInvParts DEF Windows, OneRunner, IdleOK
<1>5. \A w \in Workers : WorkOK(w)'
  <2>1. \A u \in Tasks : Needs[u] \subseteq Tasks
    BY SchedulerAssumption
  <2>2. \A u \in Tasks : handle[u] = "refused" => handle'[u] = "refused"
    BY <1>2
  <2> QED
    BY <1>1, <1>2, <2>1, <2>2, SInvParts, WorkSame
<1>6. Accounted'
  <2>1. \A u : InFlight(u)' <=> InFlight(u)
    BY <1>1, InFlightSame
  <2> QED
    BY <1>1, <1>2, <2>1, SInvParts DEF Accounted
<1> QED
  BY <1>3, <1>4, <1>5, <1>6, SInvParts, LightSubmits, LightStarters, LightMail DEF SInv

LEMMA DropInv == ASSUME SInv, Types', NEW p \in Procs, NEW t \in Tasks, Drop(p, t) PROVE SInv'
<1>1. /\ handle[t] = "held" /\ handle'[t] = "dropped" /\ \A u \in Tasks : u # t => handle'[u] = handle[u]
      /\ spc[p] = "out" /\ Owner[t] = p
      /\ UNCHANGED <<workers, spc, sub, stack, outcome, done, retrieved, raised, runs>>
      /\ reported' = reported
  BY SInvParts DEF Drop, Holds, Types, HandleTypes
<1>2. \A q \in Procs : sub[q].t # t
  <2> SUFFICES ASSUME NEW q \in Procs PROVE sub[q].t # t
    OBVIOUS
  <2>1. SubmitOK(q) /\ None \notin Tasks
    BY SInvParts, SchedulerAssumption
  <2>2. CASE q = p
    BY <1>1, <2>1, <2>2 DEF SubmitOK, Active, Starting
  <2>3. CASE q # p
    BY <1>1, <2>1, <2>3 DEF SubmitOK
  <2> QED
    BY <2>2, <2>3
<1>3. Garbage'
  <2>1. \A u : InFlight(u)' <=> InFlight(u)
    BY <1>1, InFlightSame DEF workers
  <2>2. retrieved' = raised'
    BY <1>1, SInvParts DEF Garbage
  <2> QED
    BY <1>1, <2>1, <2>2, SInvParts, GarbageStep
<1> QED
  BY <1>1, <1>2, <1>3, QuietHandle DEF Taken

LEMMA DeleteInv == ASSUME SInv, Types', NEW t \in Tasks, Delete(t) PROVE SInv'
<1>1. /\ handle[t] = "dropped" /\ handle'[t] = "collected" /\ \A u \in Tasks : u # t => handle'[u] = handle[u]
      /\ UNCHANGED <<workers, spc, sub, stack, outcome, done, retrieved, raised, runs>>
      /\ reported'[t] = (outcome[t] = "exception" /\ ~retrieved[t])
      /\ \A u \in Tasks : u # t => reported'[u] = reported[u]
      /\ ~Referenced(t)
  BY SInvParts DEF Delete, Types, HandleTypes
<1>2. done[t]
  <2>1. ~InFlight(t)
    BY <1>1 DEF Referenced
  <2> QED
    BY <1>1, <2>1, SInvParts DEF Accounted, Taken
<1>3. Garbage'
  <2>1. outcome' = outcome /\ done' = done /\ raised' = raised /\ retrieved' = retrieved
    BY <1>1
  <2>2. retrieved = raised
    BY SInvParts DEF Garbage
  <2>3. NothingVanishes'
    BY <1>1, <1>2, <2>1, <2>2, SInvParts DEF Garbage, NothingVanishes
  <2>4. \A u : InFlight(u)' <=> InFlight(u)
    BY <1>1, InFlightSame DEF workers
  <2>5. \A u \in Tasks : handle'[u] = "collected" => ~Referenced(u)
    BY <1>1, SInvParts DEF Garbage
  <2>6. \A u \in Tasks : handle'[u] = "new" => handle[u] = "new"
    BY <1>1
  <2>7. ASSUME NEW u \in Tasks, handle'[u] = "collected" PROVE ~Referenced(u)'
    <3>1. ~InFlight(u) /\ \A v \in Tasks : u \in Needs[v] => handle[v] # "new" /\ ~InFlight(v)
      BY <2>5, <2>7 DEF Referenced
    <3> QED
      BY <2>4, <2>6, <3>1 DEF Referenced
  <2> QED
    BY <2>1, <2>2, <2>3, <2>7 DEF Garbage
<1> QED
  BY <1>1, <1>3, QuietHandle DEF Taken


LEMMA ForgotRecord ==
  ASSUME NEW n
  PROVE  [Nothing EXCEPT !.previous = n] = [t |-> None, w |-> None, size |-> 0, previous |-> n]
BY DEF Nothing

LEMMA Single ==
  /\ DOMAIN << >> = {}
  /\ \A x : DOMAIN <<x>> = {1} /\ <<x>>[1] = x /\ Range(<<x>>) = {x}
<1>1. \A x : DOMAIN <<x>> = {1} /\ <<x>>[1] = x
  OBVIOUS
<1> QED
  BY <1>1 DEF Range

-----------------------------------------------------------------------------
(* The steps that move a task.                                             *)

LEMMA StartInv == ASSUME SInv, Types', NEW p \in Procs, Start(p) PROVE SInv'
<1>a. PICK t, w : t = sub[p].t /\ w = sub[p].w
  OBVIOUS
<1>1. /\ t \in Tasks /\ w \in Workers /\ Owner[t] = p /\ handle[t] = "held" /\ runs[t] = 0
      /\ wpc[w] = "made" /\ spc[p] \in {"start", "start_in_window"}
      /\ DOMAIN mailbox[w] = {1} /\ mailbox[w][1] = t
  <2>1. SubmitOK(p) /\ spc[p] \in {"start", "start_in_window"}
    BY SInvParts DEF Start, Spc
  <2>2. mailbox[w] = <<t>>
    BY <1>a, <2>1 DEF SubmitOK, Active, Starting
  <2>3. DOMAIN mailbox[w] = {1} /\ mailbox[w][1] = t
    BY <2>2, Single
  <2> QED
    BY <1>a, <2>1, <2>3 DEF SubmitOK, Active, Starting
<1>2. /\ wpc'[w] = "get" /\ \A v \in Workers : v # w => wpc'[v] = wpc[v]
      /\ spc[p] = "start" => spc'[p] = "out"
      /\ spc[p] = "start_in_window" => spc'[p] = "restore"
      /\ sub'[p].t = None /\ sub'[p].previous = sub[p].previous
      /\ \A q \in Procs : q # p => spc'[q] = spc[q] /\ sub'[q] = sub[q]
  <2>0. sub' = [sub EXCEPT ![p] = [Nothing EXCEPT !.previous = sub[p].previous]]
    BY DEF Start, Forget
  <2>1. /\ sub' = [sub EXCEPT ![p] = [t |-> None, w |-> None, size |-> 0, previous |-> sub[p].previous]]
        /\ spc' = [spc EXCEPT ![p] = Started(p)] /\ wpc' = [wpc EXCEPT ![w] = "get"]
    BY <1>a, <2>0, ForgotRecord DEF Start, Spc, Wpc
  <2> QED
    BY <1>1, <2>1, SInvParts DEF Started, Types, SubTypes, WorkerTypes
<1>3. /\ idle' = idle /\ mailbox' = mailbox /\ task' = task
      /\ tuned' = tuned /\ platform' = platform /\ holder' = holder
      /\ outcome' = outcome /\ done' = done /\ retrieved' = retrieved /\ raised' = raised
      /\ handle' = handle /\ runs' = runs /\ reported' = reported
  BY DEF Start, stack, handles
<1>4. Windows'
  BY <1>1, <1>2, <1>3, SInvParts DEF Windows, Window
<1>5. \A q \in Procs : SubmitOK(q)'
  <2>1. SubmitOK(p)'
    BY <1>1, <1>2 DEF SubmitOK, Active, Starting
  <2>2. ASSUME NEW q \in Procs, q # p PROVE SubmitOK(q)'
    <3>1. SubmitOK(q) /\ (Active(q)' <=> Active(q)) /\ sub'[q] = sub[q] /\ spc'[q] = spc[q]
      BY <1>2, <2>2, SInvParts DEF Active
    <3>2. spc[q] \in Starting => sub[q].w # w
      BY <1>1, <2>2, <1>a, SInvParts DEF OneStarter, Starting
    <3>3. Active(q) => sub[q].w \in Workers
      BY <3>1 DEF SubmitOK
    <3> QED
      BY <1>2, <1>3, <3>1, <3>2, <3>3 DEF SubmitOK, Active
  <2> QED
    BY <2>1, <2>2
<1>6. OneStarter'
  BY <1>1, <1>2, SInvParts DEF OneStarter, Starting
<1>7. Mail'
  BY <1>1, <1>2, <1>3, SInvParts DEF Mail
<1>8. IdleOK'
  <2>1. \A i \in DOMAIN idle : idle[i] \in Workers
    BY SInvParts DEF Types, QueueTypes
  <2> QED
    BY <1>1, <1>2, <1>3, <2>1, SInvParts DEF IdleOK
<1>9. \A v \in Workers : WorkOK(v)'
  <2>1. WorkOK(w)'
    BY <1>1, <1>2, <1>3, SInvParts DEF WorkOK
  <2>2. \A v \in Workers : v # w => WorkOK(v)'
    BY <1>2, <1>3, SInvParts DEF WorkOK
  <2> QED
    BY <2>1, <2>2
<1>10. OneRunner'
  BY <1>1, <1>2, <1>3, SInvParts DEF OneRunner
<1>11. \A u \in Tasks : InFlight(u)' <=> InFlight(u)
  <2>1. None \notin Tasks
    BY SchedulerAssumption
  <2>2. t \in Range(mailbox[w])
    BY <1>1 DEF Range
  <2>3. ASSUME NEW u \in Tasks, InFlight(u)' PROVE InFlight(u)
    BY <1>2, <1>3, <2>1, <2>3 DEF InFlight
  <2>4. ASSUME NEW u \in Tasks, InFlight(u) PROVE InFlight(u)'
    <3>1. CASE u = t
      BY <1>1, <1>3, <2>2, <3>1 DEF InFlight
    <3>2. CASE u # t
      BY <1>a, <1>2, <1>3, <2>4, <3>2 DEF InFlight
    <3> QED
      BY <3>1, <3>2
  <2> QED
    BY <2>3, <2>4
<1>12. Accounted'
  BY <1>3, <1>11, SInvParts DEF Accounted
<1>13. Garbage'
  <2>1. retrieved' = raised'
    BY <1>3, SInvParts DEF Garbage
  <2> QED
    BY <1>3, <1>11, <2>1, SInvParts, GarbageStep
<1> QED
  BY <1>4, <1>5, <1>6, <1>7, <1>8, <1>9, <1>10, <1>12, <1>13 DEF SInv

LEMMA StartFailsInv == ASSUME SInv, Types', NEW p \in Procs, StartFails(p) PROVE SInv'
<1>a. PICK t, w : t = sub[p].t /\ w = sub[p].w
  OBVIOUS
<1>1. /\ t \in Tasks /\ w \in Workers /\ Owner[t] = p /\ handle[t] = "held" /\ runs[t] = 0
      /\ wpc[w] = "made" /\ spc[p] \in {"start", "start_in_window"}
      /\ DOMAIN mailbox[w] = {1} /\ mailbox[w][1] = t
  <2>1. SubmitOK(p) /\ spc[p] \in {"start", "start_in_window"}
    BY SInvParts DEF StartFails, Spc
  <2>2. mailbox[w] = <<t>>
    BY <1>a, <2>1 DEF SubmitOK, Active, Starting
  <2>3. DOMAIN mailbox[w] = {1} /\ mailbox[w][1] = t
    BY <2>2, Single
  <2> QED
    BY <1>a, <2>1, <2>3 DEF SubmitOK, Active, Starting
<1>2. /\ wpc'[w] = "none" /\ \A v \in Workers : v # w => wpc'[v] = wpc[v]
      /\ mailbox'[w] = <<>> /\ \A v \in Workers : v # w => mailbox'[v] = mailbox[v]
      /\ handle'[t] = "refused" /\ \A u \in Tasks : u # t => handle'[u] = handle[u]
      /\ spc[p] = "start" => spc'[p] = "out"
      /\ spc[p] = "start_in_window" => spc'[p] = "restore"
      /\ sub'[p].t = None /\ sub'[p].previous = sub[p].previous
      /\ \A q \in Procs : q # p => spc'[q] = spc[q] /\ sub'[q] = sub[q]
  <2>0. sub' = [sub EXCEPT ![p] = [Nothing EXCEPT !.previous = sub[p].previous]]
    BY DEF StartFails, Forget
  <2>1. /\ sub' = [sub EXCEPT ![p] = [t |-> None, w |-> None, size |-> 0, previous |-> sub[p].previous]]
        /\ spc' = [spc EXCEPT ![p] = Started(p)] /\ wpc' = [wpc EXCEPT ![w] = "none"]
        /\ mailbox' = [mailbox EXCEPT ![w] = <<>>] /\ handle' = [handle EXCEPT ![t] = "refused"]
    BY <1>a, <2>0, ForgotRecord DEF StartFails, Spc, Wpc
  <2> QED
    BY <1>1, <2>1, SInvParts DEF Started, Types, SubTypes, WorkerTypes, QueueTypes, HandleTypes
<1>3. /\ idle' = idle /\ task' = task
      /\ tuned' = tuned /\ platform' = platform /\ holder' = holder
      /\ outcome' = outcome /\ done' = done /\ retrieved' = retrieved /\ raised' = raised
      /\ runs' = runs /\ reported' = reported
  BY DEF StartFails, stack
<1>0. /\ \A v \in Workers : \A k \in DOMAIN mailbox'[v] :
           v # w /\ k \in DOMAIN mailbox[v] /\ mailbox'[v][k] = mailbox[v][k]
           /\ mailbox[v][k] \in Tasks /\ mailbox[v][k] # t
  <2> SUFFICES ASSUME NEW v \in Workers, NEW k \in DOMAIN mailbox'[v]
               PROVE  v # w /\ k \in DOMAIN mailbox[v] /\ mailbox'[v][k] = mailbox[v][k]
                      /\ mailbox[v][k] \in Tasks /\ mailbox[v][k] # t
    OBVIOUS
  <2>1. v # w
    BY <1>2, Single
  <2>2. k \in DOMAIN mailbox[v] /\ mailbox'[v][k] = mailbox[v][k]
    BY <1>2, <2>1
  <2>3. mailbox[v][k] \in Tasks
    BY <2>2, SInvParts DEF Types, QueueTypes
  <2>4. 1 \in DOMAIN mailbox[w] /\ mailbox[w][1] = t
    BY <1>1 DEF Range
  <2>5. mailbox[v][k] # t
    BY <1>1, <2>1, <2>2, <2>4, SInvParts DEF Mail
  <2> QED
    BY <2>1, <2>2, <2>3, <2>5
<1>4. Windows'
  BY <1>1, <1>2, <1>3, SInvParts DEF Windows, Window
<1>5. \A q \in Procs : SubmitOK(q)'
  <2>1. SubmitOK(p)'
    BY <1>1, <1>2 DEF SubmitOK, Active, Starting
  <2>2. ASSUME NEW q \in Procs, q # p PROVE SubmitOK(q)'
    <3>1. SubmitOK(q) /\ (Active(q)' <=> Active(q)) /\ sub'[q] = sub[q] /\ spc'[q] = spc[q]
      BY <1>2, <2>2, SInvParts DEF Active
    <3>2. spc[q] \in Starting => sub[q].w # w
      BY <1>1, <2>2, <1>a, SInvParts DEF OneStarter, Starting
    <3>3. CASE ~Active(q)
      BY <3>1, <3>3 DEF SubmitOK
    <3>4. CASE Active(q)
      <4>1. /\ sub[q].t \in Tasks /\ sub[q].w \in Workers /\ Owner[sub[q].t] = q
            /\ handle[sub[q].t] = "held" /\ runs[sub[q].t] = 0
        BY <3>1, <3>4 DEF SubmitOK
      <4>2. sub[q].t # t /\ handle'[sub[q].t] = "held"
        BY <1>1, <1>2, <2>2, <4>1
      <4>3. spc[q] = "put" => sub[q].w # w
        BY <1>1, <3>1, <3>4 DEF SubmitOK
      <4>4. sub[q].w # w
        BY <3>2, <3>4, <4>3 DEF Active
      <4>5. wpc'[sub[q].w] = wpc[sub[q].w] /\ mailbox'[sub[q].w] = mailbox[sub[q].w]
        BY <1>2, <4>1, <4>4
      <4>6. spc[q] = "put" => \A v \in Workers : \A k \in DOMAIN mailbox'[v] : mailbox'[v][k] # sub[q].t
        BY <1>0, <3>1, <3>4 DEF SubmitOK
      <4> QED
        BY <1>3, <3>1, <3>4, <4>1, <4>2, <4>5, <4>6 DEF SubmitOK
    <3> QED
      BY <3>3, <3>4
  <2> QED
    BY <2>1, <2>2
<1>6. OneStarter'
  BY <1>1, <1>2, SInvParts DEF OneStarter, Starting
<1>7. Mail'
  <2>1. \A v \in Workers : \A k \in DOMAIN mailbox'[v] :
          runs'[mailbox'[v][k]] = 0 /\ handle'[mailbox'[v][k]] \in Taken
    BY <1>0, <1>2, <1>3, SInvParts DEF Mail
  <2>2. \A u, v \in Workers : \A k \in DOMAIN mailbox'[u], m \in DOMAIN mailbox'[v] :
          mailbox'[u][k] = mailbox'[v][m] => u = v /\ k = m
    BY <1>0, SInvParts DEF Mail
  <2>3. \A v \in Workers : wpc'[v] = "none" => mailbox'[v] = <<>>
    BY <1>2, SInvParts DEF Mail
  <2> QED
    BY <2>1, <2>2, <2>3 DEF Mail
<1>8. IdleOK'
  <2>1. \A i \in DOMAIN idle : idle[i] \in Workers
    BY SInvParts DEF Types, QueueTypes
  <2> QED
    BY <1>1, <1>2, <1>3, <2>1, SInvParts DEF IdleOK
<1>9. \A v \in Workers : WorkOK(v)'
  <2>1. WorkOK(w)'
    BY <1>1, <1>2, <1>3, SInvParts DEF WorkOK
  <2>2. ASSUME NEW v \in Workers, v # w PROVE WorkOK(v)'
    <3>1. WorkOK(v) /\ wpc'[v] = wpc[v]
      BY <1>2, <2>2, SInvParts
    <3>2. wpc[v] \in {"running", "stored"} => task[v] \in Tasks /\ handle'[task[v]] = handle[task[v]]
      BY <1>1, <1>2, <3>1 DEF WorkOK
    <3>3. \A u \in Tasks : handle[u] = "refused" => handle'[u] = "refused"
      BY <1>2
    <3>4. wpc[v] = "stored" => \A u \in Needs[task[v]] : done'[u] \/ handle'[u] = "refused"
      BY <1>3, <3>1, <3>2, <3>3, SchedulerAssumption DEF WorkOK
    <3> QED
      BY <1>3, <3>1, <3>2, <3>4 DEF WorkOK
  <2> QED
    BY <2>1, <2>2
<1>10. OneRunner'
  BY <1>1, <1>2, <1>3, SInvParts DEF OneRunner
<1>11. \A u \in Tasks : /\ InFlight(u)' => InFlight(u)
                        /\ u # t /\ InFlight(u) => InFlight(u)'
  <2>1. None \notin Tasks
    BY SchedulerAssumption
  <2>2. ASSUME NEW u \in Tasks, InFlight(u)' PROVE InFlight(u)
    <3>1. \A v \in Workers : u \in Range(mailbox'[v]) => u \in Range(mailbox[v])
      BY <1>0 DEF Range
    <3>2. \A q \in Procs : sub'[q].t = u => sub[q].t = u
      BY <1>2, <2>1
    <3> QED
      BY <1>3, <2>2, <3>1, <3>2 DEF InFlight
  <2>3. ASSUME NEW u \in Tasks, u # t, InFlight(u) PROVE InFlight(u)'
    <3>1. \A v \in Workers : u \in Range(mailbox[v]) => u \in Range(mailbox'[v])
      <4>1. u \notin Range(mailbox[w])
        BY <1>1, <2>3 DEF Range
      <4> QED
        BY <1>2, <4>1
    <3>2. \A q \in Procs : sub[q].t = u => sub'[q].t = u
      BY <1>a, <1>2, <2>3
    <3> QED
      BY <1>3, <2>3, <3>1, <3>2 DEF InFlight
  <2> QED
    BY <2>2, <2>3
<1>12. Accounted'
  <2>1. ~done[t]
    <3>1. runs[t] # 1
      BY <1>1
    <3> QED
      BY <1>1, <3>1, SInvParts DEF Accounted
  <2>2. handle'[t] \notin Taken /\ \A u \in Tasks : u # t => handle'[u] = handle[u]
    BY <1>2 DEF Taken
  <2> QED
    BY <1>1, <1>3, <1>11, <2>1, <2>2, SInvParts DEF Accounted
<1>13. Garbage'
  <2>1. retrieved' = raised'
    BY <1>3, SInvParts DEF Garbage
  <2> QED
    BY <1>2, <1>3, <1>11, <2>1, SInvParts, GarbageStep
<1> QED
  BY <1>4, <1>5, <1>6, <1>7, <1>8, <1>9, <1>10, <1>12, <1>13 DEF SInv


LEMMA PutInv == ASSUME SInv, Types', NEW p \in Procs, Put(p) PROVE SInv'
<1>a. PICK t, w : t = sub[p].t /\ w = sub[p].w
  OBVIOUS
<1>1. /\ t \in Tasks /\ w \in Workers /\ Owner[t] = p /\ handle[t] = "held" /\ runs[t] = 0
      /\ spc[p] = "put" /\ wpc[w] \notin {"none", "made"}
      /\ \A v \in Workers : \A k \in DOMAIN mailbox[v] : mailbox[v][k] # t
  BY <1>a, SInvParts DEF Put, Spc, SubmitOK, Active, Starting
<1>2. /\ mailbox'[w] = Append(mailbox[w], t) /\ \A v \in Workers : v # w => mailbox'[v] = mailbox[v]
      /\ spc'[p] = "out" /\ sub'[p].t = None
      /\ \A q \in Procs : q # p => spc'[q] = spc[q] /\ sub'[q] = sub[q]
  BY <1>a, <1>1, SInvParts DEF Put, Spc, Nothing, Types, SubTypes, QueueTypes
<1>3. /\ idle' = idle /\ wpc' = wpc /\ task' = task
      /\ tuned' = tuned /\ platform' = platform /\ holder' = holder
      /\ outcome' = outcome /\ done' = done /\ retrieved' = retrieved /\ raised' = raised
      /\ handle' = handle /\ runs' = runs /\ reported' = reported
  BY DEF Put, stack, handles
<1>b. PICK n : n = Len(mailbox[w]) + 1
  OBVIOUS
<1>4. /\ DOMAIN mailbox'[w] = DOMAIN mailbox[w] \cup {n} /\ n \notin DOMAIN mailbox[w]
      /\ mailbox'[w][n] = t /\ \A k \in DOMAIN mailbox[w] : mailbox'[w][k] = mailbox[w][k]
  <2>1. mailbox[w] \in Seq(Tasks)
    BY <1>1, SInvParts DEF Types, QueueTypes
  <2> QED
    BY <1>b, <1>1, <1>2, <2>1, AppendType
<1>5. \A v \in Workers : \A k \in DOMAIN mailbox'[v] :
        \/ v = w /\ k = n /\ mailbox'[v][k] = t
        \/ k \in DOMAIN mailbox[v] /\ mailbox'[v][k] = mailbox[v][k] /\ mailbox[v][k] # t
  <2> SUFFICES ASSUME NEW v \in Workers, NEW k \in DOMAIN mailbox'[v]
               PROVE  \/ v = w /\ k = n /\ mailbox'[v][k] = t
                      \/ k \in DOMAIN mailbox[v] /\ mailbox'[v][k] = mailbox[v][k] /\ mailbox[v][k] # t
    OBVIOUS
  <2>1. CASE v = w
    BY <1>1, <1>4, <2>1
  <2>2. CASE v # w
    BY <1>1, <1>2, <2>2
  <2> QED
    BY <2>1, <2>2
<1>6. Windows'
  BY <1>1, <1>2, <1>3, SInvParts DEF Windows, Window
<1>7. \A q \in Procs : SubmitOK(q)'
  <2>1. SubmitOK(p)'
    BY <1>2 DEF SubmitOK, Active, Starting
  <2>2. ASSUME NEW q \in Procs, q # p PROVE SubmitOK(q)'
    <3>1. SubmitOK(q) /\ (Active(q)' <=> Active(q)) /\ sub'[q] = sub[q] /\ spc'[q] = spc[q]
      BY <1>2, <2>2, SInvParts DEF Active
    <3>2. CASE ~Active(q)
      BY <3>1, <3>2 DEF SubmitOK
    <3>3. CASE Active(q)
      <4>1. /\ sub[q].t \in Tasks /\ sub[q].w \in Workers /\ Owner[sub[q].t] = q
            /\ handle[sub[q].t] = "held" /\ runs[sub[q].t] = 0
        BY <3>1, <3>3 DEF SubmitOK
      <4>2. sub[q].t # t
        BY <1>1, <2>2, <4>1
      <4>3. spc[q] \in Starting => wpc[sub[q].w] = "made" /\ mailbox'[sub[q].w] = <<sub[q].t>>
        <5>1. spc[q] \in Starting => wpc[sub[q].w] = "made" /\ mailbox[sub[q].w] = <<sub[q].t>>
          BY <3>1, <3>3 DEF SubmitOK
        <5> QED
          BY <1>1, <1>2, <4>1, <5>1
      <4>4. spc[q] = "put" => /\ wpc[sub[q].w] \notin {"none", "made"}
                              /\ \A v \in Workers : \A k \in DOMAIN mailbox'[v] : mailbox'[v][k] # sub[q].t
        BY <1>5, <3>1, <3>3, <4>2 DEF SubmitOK
      <4> QED
        BY <1>3, <3>1, <3>3, <4>1, <4>3, <4>4 DEF SubmitOK
    <3> QED
      BY <3>2, <3>3
  <2> QED
    BY <2>1, <2>2
<1>8. OneStarter'
  BY <1>1, <1>2, SInvParts DEF OneStarter, Starting
<1>9. Mail'
  <2>1. \A v \in Workers : \A k \in DOMAIN mailbox'[v] :
          runs'[mailbox'[v][k]] = 0 /\ handle'[mailbox'[v][k]] \in Taken
    BY <1>1, <1>3, <1>5, SInvParts DEF Mail, Taken
  <2>2. \A u, v \in Workers : \A k \in DOMAIN mailbox'[u], m \in DOMAIN mailbox'[v] :
          mailbox'[u][k] = mailbox'[v][m] => u = v /\ k = m
    BY <1>5, SInvParts DEF Mail
  <2>3. \A v \in Workers : wpc'[v] = "none" => mailbox'[v] = <<>>
    BY <1>1, <1>2, <1>3, SInvParts DEF Mail
  <2> QED
    BY <2>1, <2>2, <2>3 DEF Mail
<1>10. IdleOK' /\ OneRunner' /\ \A v \in Workers : WorkOK(v)'
  BY <1>3, SInvParts DEF IdleOK, OneRunner, WorkOK
<1>11. \A u \in Tasks : InFlight(u)' <=> InFlight(u)
  <2>1. None \notin Tasks
    BY SchedulerAssumption
  <2>2. t \in Range(mailbox'[w]) /\ sub[p].t = t
    BY <1>a, <1>4 DEF Range
  <2>3. \A v \in Workers : \A u : u \in Range(mailbox[v]) => u \in Range(mailbox'[v])
    <3> SUFFICES ASSUME NEW v \in Workers, NEW k \in DOMAIN mailbox[v]
                 PROVE  mailbox[v][k] \in Range(mailbox'[v])
      BY DEF Range
    <3>1. k \in DOMAIN mailbox'[v] /\ mailbox'[v][k] = mailbox[v][k]
      BY <1>2, <1>4
    <3> QED
      BY <3>1 DEF Range
  <2>4. \A v \in Workers : \A u : u \in Range(mailbox'[v]) => u = t \/ u \in Range(mailbox[v])
    BY <1>5 DEF Range
  <2>5. ASSUME NEW u \in Tasks, InFlight(u)' PROVE InFlight(u)
    <3>1. CASE u = t
      BY <1>a, <3>1 DEF InFlight
    <3>2. CASE u # t
      <4>1. \A v \in Workers : u \in Range(mailbox'[v]) => u \in Range(mailbox[v])
        BY <2>4, <3>2
      <4>2. \A q \in Procs : sub'[q].t = u => sub[q].t = u
        BY <1>2, <2>1
      <4> QED
        BY <1>3, <2>5, <4>1, <4>2 DEF InFlight
    <3> QED
      BY <3>1, <3>2
  <2>6. ASSUME NEW u \in Tasks, InFlight(u) PROVE InFlight(u)'
    <3>1. CASE u = t
      BY <1>1, <2>2, <3>1 DEF InFlight
    <3>2. CASE u # t
      <4>1. \A q \in Procs : sub[q].t = u => sub'[q].t = u
        BY <1>2, <2>2, <3>2
      <4> QED
        BY <1>3, <2>3, <2>6, <4>1 DEF InFlight
    <3> QED
      BY <3>1, <3>2
  <2> QED
    BY <2>5, <2>6
<1>12. Accounted'
  BY <1>3, <1>11, SInvParts DEF Accounted
<1>13. Garbage'
  <2>1. retrieved' = raised'
    BY <1>3, SInvParts DEF Garbage
  <2> QED
    BY <1>3, <1>11, <2>1, SInvParts, GarbageStep
<1> QED
  BY <1>6, <1>7, <1>8, <1>9, <1>10, <1>12, <1>13 DEF SInv

LEMMA GetInv == ASSUME SInv, Types', NEW w \in Workers, Get(w) PROVE SInv'
<1>a. PICK h : h = Head(mailbox[w])
  OBVIOUS
<1>b. mailbox[w] \in Seq(Tasks) /\ mailbox[w] # <<>>
  BY SInvParts DEF Get, Types, QueueTypes
<1>0. /\ h \in Tasks /\ 1 \in DOMAIN mailbox[w] /\ mailbox[w][1] = h
      /\ \A k \in DOMAIN Tail(mailbox[w]) :
           k + 1 \in DOMAIN mailbox[w] /\ Tail(mailbox[w])[k] = mailbox[w][k + 1]
      /\ \A k \in DOMAIN mailbox[w] :
           k # 1 => k - 1 \in DOMAIN Tail(mailbox[w]) /\ Tail(mailbox[w])[k - 1] = mailbox[w][k]
      /\ \A k \in DOMAIN Tail(mailbox[w]) : k \in Nat \ {0}
      /\ \A k \in DOMAIN mailbox[w] : k \in Nat
  <2>1. Tail(mailbox[w]) \in Seq(Tasks)
    BY <1>b, TailType
  <2>2. \A k \in DOMAIN Tail(mailbox[w]) : k \in Nat \ {0}
    BY <2>1, LenProperties
  <2>3. \A k \in DOMAIN mailbox[w] : k \in Nat
    BY <1>b, LenProperties
  <2> QED
    BY <1>a, <1>b, <2>2, <2>3, TailType
<1>1. /\ wpc[w] \in {"get", "claimed"} /\ task[w] = None
      /\ runs[h] = 0 /\ handle[h] \in Taken /\ ~done[h]
  <2>1. wpc[w] \in {"get", "claimed"} /\ task[w] = None
    BY SInvParts DEF Get, Wpc, WorkOK
  <2>2. runs[h] = 0 /\ handle[h] \in Taken
    BY <1>0, SInvParts DEF Mail
  <2> QED
    BY <1>0, <2>1, <2>2, SInvParts DEF Accounted
<1>2. /\ wpc'[w] = "running" /\ task'[w] = h /\ mailbox'[w] = Tail(mailbox[w])
      /\ \A v \in Workers : v # w => wpc'[v] = wpc[v] /\ task'[v] = task[v] /\ mailbox'[v] = mailbox[v]
      /\ runs'[h] = 1 /\ \A u \in Tasks : u # h => runs'[u] = runs[u]
  <2>1. runs' = [runs EXCEPT ![h] = runs[h] + 1]
    BY <1>a DEF Get
  <2>2. runs'[h] = 1 /\ \A u \in Tasks : u # h => runs'[u] = runs[u]
    BY <1>0, <1>1, <2>1, SInvParts DEF Types, HandleTypes
  <2> QED
    BY <1>a, <2>2, SInvParts DEF Get, Wpc, Types, WorkerTypes, QueueTypes
<1>3. /\ idle' = idle /\ spc' = spc /\ sub' = sub
      /\ tuned' = tuned /\ platform' = platform /\ holder' = holder
      /\ outcome' = outcome /\ done' = done /\ retrieved' = retrieved /\ raised' = raised
      /\ handle' = handle /\ reported' = reported
  BY DEF Get, stack
<1>4. \A v \in Workers : \A k \in DOMAIN mailbox'[v] :
        /\ mailbox'[v][k] # h /\ mailbox'[v][k] \in Tasks
        /\ v = w => k + 1 \in DOMAIN mailbox[v] /\ mailbox'[v][k] = mailbox[v][k + 1] /\ k \in Nat
        /\ v # w => k \in DOMAIN mailbox[v] /\ mailbox'[v][k] = mailbox[v][k]
  <2> SUFFICES ASSUME NEW v \in Workers, NEW k \in DOMAIN mailbox'[v]
               PROVE  /\ mailbox'[v][k] # h /\ mailbox'[v][k] \in Tasks
                      /\ v = w => k + 1 \in DOMAIN mailbox[v] /\ mailbox'[v][k] = mailbox[v][k + 1] /\ k \in Nat
                      /\ v # w => k \in DOMAIN mailbox[v] /\ mailbox'[v][k] = mailbox[v][k]
    OBVIOUS
  <2>0. \A u \in Workers : \A m \in DOMAIN mailbox[u] : mailbox[u][m] \in Tasks
    BY SInvParts DEF Types, QueueTypes
  <2>1. CASE v = w
    <3>1. k + 1 \in DOMAIN mailbox[w] /\ mailbox'[w][k] = mailbox[w][k + 1] /\ k \in Nat \ {0}
      BY <1>0, <1>2, <2>1
    <3>2. mailbox[w][k + 1] # h
      <4>1. k + 1 # 1
        BY <3>1
      <4> QED
        BY <1>0, <3>1, <4>1, SInvParts DEF Mail
    <3> QED
      BY <2>0, <2>1, <3>1, <3>2
  <2>2. CASE v # w
    <3>1. k \in DOMAIN mailbox[v] /\ mailbox'[v][k] = mailbox[v][k]
      BY <1>2, <2>2
    <3>2. mailbox[v][k] # h
      BY <1>0, <2>2, <3>1, SInvParts DEF Mail
    <3> QED
      BY <2>0, <2>2, <3>1, <3>2
  <2> QED
    BY <2>1, <2>2
<1>5. Windows' /\ OneStarter'
  BY <1>3, SInvParts DEF Windows, OneStarter
<1>6. \A q \in Procs : SubmitOK(q)'
  <2> SUFFICES ASSUME NEW q \in Procs PROVE SubmitOK(q)'
    OBVIOUS
  <2>1. SubmitOK(q) /\ (Active(q)' <=> Active(q))
    BY <1>3, SInvParts DEF Active
  <2>2. CASE ~Active(q)
    BY <1>3, <2>1, <2>2 DEF SubmitOK
  <2>3. CASE Active(q)
    <3>1. /\ sub[q].t \in Tasks /\ sub[q].w \in Workers /\ Owner[sub[q].t] = q
          /\ handle[sub[q].t] = "held" /\ runs[sub[q].t] = 0
      BY <2>1, <2>3 DEF SubmitOK
    <3>2. CASE spc[q] = "put"
      <4>1. /\ wpc[sub[q].w] \notin {"none", "made"}
            /\ \A v \in Workers : \A k \in DOMAIN mailbox[v] : mailbox[v][k] # sub[q].t
        BY <2>1, <2>3, <3>2 DEF SubmitOK
      <4>2. sub[q].t # h
        BY <1>0, <4>1
      <4>3. \A v \in Workers : \A k \in DOMAIN mailbox'[v] : mailbox'[v][k] # sub[q].t
        BY <1>4, <4>1
      <4>4. wpc'[sub[q].w] \notin {"none", "made"}
        BY <1>2, <3>1, <4>1
      <4>5. spc[q] \notin Starting
        BY <3>2 DEF Starting
      <4> QED
        BY <1>2, <1>3, <2>1, <2>3, <3>1, <4>2, <4>3, <4>4, <4>5 DEF SubmitOK
    <3>3. CASE spc[q] # "put"
      <4>1. wpc[sub[q].w] = "made" /\ mailbox[sub[q].w] = <<sub[q].t>>
        BY <2>1, <2>3, <3>3 DEF SubmitOK, Active
      <4>2. sub[q].w # w
        BY <1>1, <4>1
      <4>3. 1 \in DOMAIN mailbox[sub[q].w] /\ mailbox[sub[q].w][1] = sub[q].t
        BY <4>1, Single
      <4>4. sub[q].t # h
        BY <1>0, <3>1, <4>2, <4>3, SInvParts DEF Mail
      <4>5. wpc'[sub[q].w] = "made" /\ mailbox'[sub[q].w] = <<sub[q].t>> /\ runs'[sub[q].t] = 0
        BY <1>2, <3>1, <4>1, <4>2, <4>4
      <4> QED
        BY <1>3, <2>1, <2>3, <3>1, <3>3, <4>5 DEF SubmitOK
    <3> QED
      BY <3>2, <3>3
  <2> QED
    BY <2>2, <2>3
<1>7. Mail'
  <2>1. \A v \in Workers : \A k \in DOMAIN mailbox'[v] :
          runs'[mailbox'[v][k]] = 0 /\ handle'[mailbox'[v][k]] \in Taken
    BY <1>2, <1>3, <1>4, SInvParts DEF Mail
  <2>2. ASSUME NEW u \in Workers, NEW v \in Workers, NEW k \in DOMAIN mailbox'[u], NEW m \in DOMAIN mailbox'[v],
               mailbox'[u][k] = mailbox'[v][m]
        PROVE  u = v /\ k = m
    <3>1. CASE u = w /\ v = w
      <4>1. k + 1 = m + 1 /\ k \in Nat /\ m \in Nat
        BY <1>4, <2>2, <3>1, SInvParts DEF Mail
      <4> QED
        BY <3>1, <4>1
    <3>2. CASE u # w /\ v # w
      BY <1>4, <2>2, <3>2, SInvParts DEF Mail
    <3>3. CASE u = w /\ v # w
      BY <1>4, <2>2, <3>3, SInvParts DEF Mail
    <3>4. CASE u # w /\ v = w
      BY <1>4, <2>2, <3>4, SInvParts DEF Mail
    <3> QED
      BY <3>1, <3>2, <3>3, <3>4
  <2>3. \A v \in Workers : wpc'[v] = "none" => mailbox'[v] = <<>>
    BY <1>1, <1>2, SInvParts DEF Mail
  <2> QED
    BY <2>1, <2>2, <2>3 DEF Mail
<1>8. IdleOK'
  <2>1. \A i \in DOMAIN idle : idle[i] \in Workers
    BY SInvParts DEF Types, QueueTypes
  <2> QED
    BY <1>1, <1>2, <1>3, <2>1, SInvParts DEF IdleOK
<1>9. \A v \in Workers : wpc[v] \in {"running", "stored"} => task[v] \in Tasks /\ task[v] # h /\ v # w
  BY <1>1, SInvParts DEF WorkOK
<1>10. \A v \in Workers : WorkOK(v)'
  <2>1. WorkOK(w)'
    BY <1>0, <1>1, <1>2, <1>3 DEF WorkOK
  <2>2. \A v \in Workers : v # w => WorkOK(v)'
    BY <1>2, <1>3, <1>9, SInvParts DEF WorkOK
  <2> QED
    BY <2>1, <2>2
<1>11. OneRunner'
  BY <1>2, <1>9, SInvParts DEF OneRunner
<1>12. \A u \in Tasks : InFlight(u)' <=> InFlight(u)
  <2>1. h \in Range(mailbox[w])
    BY <1>0 DEF Range
  <2>2. \A v \in Workers : \A u : u \in Range(mailbox'[v]) => u \in Range(mailbox[v])
    BY <1>4 DEF Range
  <2>3. \A v \in Workers : \A u : u # h /\ u \in Range(mailbox[v]) => u \in Range(mailbox'[v])
    <3> SUFFICES ASSUME NEW v \in Workers, NEW k \in DOMAIN mailbox[v], mailbox[v][k] # h
                 PROVE  mailbox[v][k] \in Range(mailbox'[v])
      BY DEF Range
    <3>1. CASE v # w
      BY <1>2, <3>1 DEF Range
    <3>2. CASE v = w
      <4>1. k - 1 \in DOMAIN Tail(mailbox[w]) /\ Tail(mailbox[w])[k - 1] = mailbox[w][k]
        BY <1>0, <3>2
      <4> QED
        BY <1>2, <3>2, <4>1 DEF Range
    <3> QED
      BY <3>1, <3>2
  <2>4. None \notin Tasks
    BY SchedulerAssumption
  <2>5. ASSUME NEW u \in Tasks, InFlight(u)' PROVE InFlight(u)
    <3>1. CASE u = h
      BY <2>1, <3>1 DEF InFlight
    <3>2. CASE u # h
      <4>1. \A v \in Workers : task'[v] = u => task[v] = u
        BY <1>2, <3>2
      <4> QED
        BY <1>3, <2>2, <2>5, <4>1 DEF InFlight
    <3> QED
      BY <3>1, <3>2
  <2>6. ASSUME NEW u \in Tasks, InFlight(u) PROVE InFlight(u)'
    <3>1. CASE u = h
      BY <1>2, <3>1 DEF InFlight
    <3>2. CASE u # h
      <4>1. \A v \in Workers : task[v] = u => task'[v] = u
        BY <1>1, <1>2, <2>4
      <4> QED
        BY <1>3, <2>3, <2>6, <3>2, <4>1 DEF InFlight
    <3> QED
      BY <3>1, <3>2
  <2> QED
    BY <2>5, <2>6
<1>13. Accounted'
  <2>1. handle[h] \notin {"new", "refused"}
    BY <1>1 DEF Taken
  <2> QED
    BY <1>1, <1>2, <1>3, <1>12, <2>1, SInvParts DEF Accounted
<1>14. Garbage'
  <2>1. retrieved' = raised'
    BY <1>3, SInvParts DEF Garbage
  <2> QED
    BY <1>3, <1>12, <2>1, SInvParts, GarbageStep
<1> QED
  BY <1>5, <1>6, <1>7, <1>8, <1>10, <1>11, <1>13, <1>14 DEF SInv


(* submit() takes t: the facts that do not depend on where a worker was    *)
(* found.                                                                  *)
LEMMA NewTask ==
  ASSUME SInv, Types', NEW p \in Procs, NEW t \in Tasks, Submit(p, t)
  PROVE  /\ spc[p] = "out" /\ Owner[t] = p /\ handle[t] = "new" /\ runs[t] = 0 /\ ~done[t]
         /\ sub[p].t = None
         /\ sub'[p].t = t
         /\ handle'[t] = "held" /\ \A u \in Tasks : u # t => handle'[u] = handle[u]
         /\ \A q \in Procs : q # p => spc'[q] = spc[q] /\ sub'[q] = sub[q]
         /\ \A v \in Workers : \A k \in DOMAIN mailbox[v] : mailbox[v][k] # t
         /\ task' = task
         /\ tuned' = tuned /\ platform' = platform /\ holder' = holder
         /\ outcome' = outcome /\ done' = done /\ retrieved' = retrieved /\ raised' = raised
         /\ runs' = runs /\ reported' = reported
         /\ Windows'
<1>1. /\ spc[p] = "out" /\ Owner[t] = p /\ handle[t] = "new"
      /\ task' = task
      /\ tuned' = tuned /\ platform' = platform /\ holder' = holder
      /\ outcome' = outcome /\ done' = done /\ retrieved' = retrieved /\ raised' = raised
      /\ runs' = runs /\ reported' = reported
  BY DEF Submit, Spc, stack
<1>2. handle'[t] = "held" /\ \A u \in Tasks : u # t => handle'[u] = handle[u]
  BY SInvParts DEF Submit, Types, HandleTypes
<1>3. PICK e : sub' = [sub EXCEPT ![p] = e] /\ e.t = t
  <2>1. CASE idle # <<>>
    <3>1. [Nothing EXCEPT !.t = t, !.w = Last(idle)].t = t
      BY DEF Nothing
    <3> QED
      BY <2>1, <3>1 DEF Submit
  <2>2. CASE idle = <<>>
    <3>1. \A w : [Nothing EXCEPT !.t = t, !.w = w, !.size = size].t = t
      BY ChosenRecord
    <3> QED
      BY <2>2, <3>1 DEF Submit
  <2> QED
    BY <2>1, <2>2
<1>4. sub'[p].t = t /\ \A q \in Procs : q # p => sub'[q] = sub[q]
  BY <1>3, SInvParts DEF Types, SubTypes
<1>5. PICK s \in {"put", "start", "resize"} : spc' = [spc EXCEPT ![p] = s]
  BY DEF Submit, Spc
<1>6. spc'[p] \in {"put", "start", "resize"} /\ \A q \in Procs : q # p => spc'[q] = spc[q]
  BY <1>5, SInvParts DEF Types, SubTypes
<1>7. runs[t] = 0 /\ ~done[t]
  BY <1>1, SInvParts DEF Accounted
<1>8. sub[p].t = None
  BY <1>1, SInvParts DEF SubmitOK, Active, Starting
<1>9. \A v \in Workers : \A k \in DOMAIN mailbox[v] : mailbox[v][k] # t
  BY <1>1, SInvParts DEF Mail, Taken
<1>10. Windows'
  BY <1>1, <1>4, <1>6, SInvParts DEF Windows, Window
<1> QED
  BY <1>1, <1>2, <1>4, <1>6, <1>7, <1>8, <1>9, <1>10

(* What a submission does to the tasks and the workers that others see.    *)
LEMMA NewTaskRest ==
  ASSUME SInv, Types', NEW p \in Procs, NEW t \in Tasks, Submit(p, t),
         \A v \in Workers : wpc'[v] = wpc[v] \/ (wpc[v] = "none" /\ wpc'[v] = "made"),
         \A v \in Workers : \A u : u # t => (u \in Range(mailbox'[v]) <=> u \in Range(mailbox[v]))
  PROVE  OneRunner' /\ (\A v \in Workers : WorkOK(v)') /\ Accounted' /\ Garbage'
<1>1. OneRunner'
  BY NewTask, SInvParts DEF OneRunner
<1>2. \A u \in Tasks : (handle[u] = "refused" => handle'[u] = "refused")
                       /\ (handle[u] \in Taken => handle'[u] \in Taken)
  BY NewTask DEF Taken
<1>3. ASSUME NEW v \in Workers PROVE WorkOK(v)'
  <2>1. WorkOK(v) /\ \A u \in Tasks : Needs[u] \subseteq Tasks
    BY SInvParts, SchedulerAssumption
  <2>2. CASE wpc'[v] = wpc[v]
    BY <1>2, <2>1, <2>2, NewTask, SInvParts, WorkSame
  <2>3. CASE wpc[v] = "none" /\ wpc'[v] = "made"
    BY <2>1, <2>3, NewTask DEF WorkOK
  <2> QED
    BY <2>2, <2>3
<1>4. InFlight(t)'
  BY NewTask DEF InFlight
<1>5. \A u \in Tasks : u # t => (InFlight(u)' <=> InFlight(u))
  <2> SUFFICES ASSUME NEW u \in Tasks, u # t PROVE InFlight(u)' <=> InFlight(u)
    OBVIOUS
  <2>1. \A q \in Procs : sub'[q].t = u <=> sub[q].t = u
    BY NewTask, SchedulerAssumption
  <2>2. \A v \in Workers : u \in Range(mailbox'[v]) <=> u \in Range(mailbox[v])
    OBVIOUS
  <2>3. task' = task
    BY NewTask
  <2> QED
    BY <2>1, <2>2, <2>3 DEF InFlight
<1>6. Accounted'
  <2>1. \A u \in Tasks : u # t => handle'[u] = handle[u]
    BY NewTask
  <2>2. handle'[t] = "held" /\ ~done[t] /\ done' = done /\ outcome' = outcome /\ runs' = runs
    BY NewTask
  <2> QED
    BY <1>4, <1>5, <2>1, <2>2, SInvParts DEF Accounted
<1>7. Garbage'
  <2>1. retrieved' = raised'
    BY NewTask, SInvParts DEF Garbage
  <2>2. \A u \in Tasks : InFlight(u)' => InFlight(u) \/ handle[u] = "new"
    BY <1>5, NewTask
  <2>3. \A u \in Tasks : /\ handle'[u] = "new" => handle[u] = "new"
                         /\ handle'[u] = "collected" => handle[u] = "collected"
    BY NewTask
  <2>4. done' = done /\ outcome' = outcome /\ raised' = raised /\ reported' = reported
    BY NewTask
  <2> QED
    BY <2>1, <2>2, <2>3, <2>4, SInvParts, GarbageStep
<1> QED
  BY <1>1, <1>3, <1>6, <1>7

LEMMA SubmitInv == ASSUME SInv, Types', NEW p \in Procs, NEW t \in Tasks, Submit(p, t) PROVE SInv'
<1>1. \A q \in Procs : q # p =>
        /\ SubmitOK(q) /\ (Active(q)' <=> Active(q)) /\ sub'[q] = sub[q] /\ spc'[q] = spc[q]
        /\ Active(q) => /\ sub[q].t \in Tasks /\ sub[q].w \in Workers /\ Owner[sub[q].t] = q
                        /\ handle[sub[q].t] = "held" /\ runs[sub[q].t] = 0
                        /\ sub[q].t # t /\ handle'[sub[q].t] = "held"
  <2> SUFFICES ASSUME NEW q \in Procs, q # p
               PROVE  /\ SubmitOK(q) /\ (Active(q)' <=> Active(q)) /\ sub'[q] = sub[q] /\ spc'[q] = spc[q]
                      /\ Active(q) => /\ sub[q].t \in Tasks /\ sub[q].w \in Workers /\ Owner[sub[q].t] = q
                                      /\ handle[sub[q].t] = "held" /\ runs[sub[q].t] = 0
                                      /\ sub[q].t # t /\ handle'[sub[q].t] = "held"
    OBVIOUS
  <2>1. SubmitOK(q) /\ (Active(q)' <=> Active(q)) /\ sub'[q] = sub[q] /\ spc'[q] = spc[q]
    BY NewTask, SInvParts DEF Active
  <2>2. Active(q) => /\ sub[q].t \in Tasks /\ sub[q].w \in Workers /\ Owner[sub[q].t] = q
                     /\ handle[sub[q].t] = "held" /\ runs[sub[q].t] = 0
    BY <2>1 DEF SubmitOK
  <2>3. handle[t] = "new" /\ \A u \in Tasks : u # t => handle'[u] = handle[u]
    BY NewTask
  <2> QED
    BY <2>1, <2>2, <2>3
<1>2. \A i \in DOMAIN idle : idle[i] \in Workers
  BY SInvParts DEF Types, QueueTypes
<1>3. CASE idle # <<>>
  <2>1. PICK w \in Workers : /\ w = Last(idle)
                             /\ \E m \in DOMAIN idle : w = idle[m]
    BY <1>3, SInvParts, FrontType DEF Types, QueueTypes
  <2>2. /\ spc'[p] = "put" /\ sub'[p].w = w
        /\ idle' = Front(idle) /\ mailbox' = mailbox /\ wpc' = wpc
    <3>1. /\ spc' = [spc EXCEPT ![p] = "put"]
          /\ sub' = [sub EXCEPT ![p] = [Nothing EXCEPT !.t = t, !.w = w]]
          /\ idle' = Front(idle) /\ mailbox' = mailbox /\ wpc' = wpc
      BY <1>3, <2>1 DEF Submit, Spc
    <3>2. [Nothing EXCEPT !.t = t, !.w = w].w = w
      BY DEF Nothing
    <3> QED
      BY <3>1, <3>2, SInvParts DEF Types, SubTypes
  <2>3. wpc[w] \notin {"none", "made"}
    BY <2>1, SInvParts DEF IdleOK
  <2>4. SubmitOK(p)'
    BY <2>2, <2>3, NewTask DEF SubmitOK, Active, Starting
  <2>5. ASSUME NEW q \in Procs, q # p PROVE SubmitOK(q)'
    <3>1. CASE ~Active(q)
      BY <1>1, <2>5, <3>1 DEF SubmitOK
    <3>2. CASE Active(q)
      <4>1. /\ SubmitOK(q) /\ Active(q)' /\ sub'[q] = sub[q] /\ spc'[q] = spc[q]
            /\ handle'[sub[q].t] = "held"
        BY <1>1, <2>5, <3>2
      <4>2. runs' = runs
        BY NewTask
      <4> QED
        BY <2>2, <3>2, <4>1, <4>2 DEF SubmitOK
    <3> QED
      BY <3>1, <3>2
  <2>6. OneStarter'
    BY <1>1, <2>2, SInvParts DEF OneStarter, Starting
  <2>7. Mail'
    <3>1. \A v \in Workers : \A k \in DOMAIN mailbox[v] : mailbox[v][k] \in Tasks
      BY SInvParts DEF Types, QueueTypes
    <3> QED
      BY <2>2, <3>1, NewTask, SInvParts DEF Mail
  <2>8. IdleOK'
    <3>1. \A k \in DOMAIN idle' : \E m \in DOMAIN idle : idle'[k] = idle[m]
      BY <1>3, <2>2, SInvParts, FrontType DEF Types, QueueTypes
    <3> QED
      BY <2>2, <3>1, SInvParts DEF IdleOK
  <2>9. OneRunner' /\ (\A v \in Workers : WorkOK(v)') /\ Accounted' /\ Garbage'
    BY <2>2, NewTaskRest
  <2> QED
    BY <2>4, <2>5, <2>6, <2>7, <2>8, <2>9, NewTask DEF SInv
<1>4. CASE idle = <<>>
  <2>1. PICK w \in Workers : /\ wpc[w] = "none" /\ wpc' = [wpc EXCEPT ![w] = "made"]
                             /\ sub' = [sub EXCEPT ![p] = [Nothing EXCEPT !.t = t, !.w = w, !.size = size]]
                             /\ mailbox' = [mailbox EXCEPT ![w] = <<t>>]
    BY <1>4 DEF Submit, Wpc
  <2>2. /\ wpc'[w] = "made" /\ \A v \in Workers : v # w => wpc'[v] = wpc[v]
        /\ \A v \in Workers : v # w => mailbox'[v] = mailbox[v]
        /\ idle' = <<>> /\ sub'[p].w = w
        /\ spc'[p] \in {"start", "resize"}
    <3>1. [Nothing EXCEPT !.t = t, !.w = w, !.size = size].w = w
      BY ChosenRecord
    <3>2. sub'[p].w = w
      BY <2>1, <3>1, SInvParts DEF Types, SubTypes
    <3>3. idle' = <<>>
      BY <1>4 DEF Submit
    <3>4. spc'[p] \in {"start", "resize"}
      BY <1>4, SInvParts DEF Submit, Spc, Types, SubTypes
    <3> QED
      BY <2>1, <3>2, <3>3, <3>4, SInvParts DEF Types, WorkerTypes, QueueTypes
  <2>3. mailbox'[w] = <<t>> /\ DOMAIN mailbox'[w] = {1} /\ mailbox'[w][1] = t
        /\ Range(mailbox'[w]) = {t}
    BY <2>1, SInvParts, Single DEF Types, QueueTypes
  <2>4. mailbox[w] = <<>> /\ DOMAIN mailbox[w] = {} /\ Range(mailbox[w]) = {}
    <3>1. mailbox[w] = <<>>
      BY <2>1, SInvParts DEF Mail
    <3> QED
      BY <3>1, Single DEF Range
  <2>5. SubmitOK(p)'
    <3>1. spc'[p] # "put" /\ wpc'[w] = "made"
      BY <2>2
    <3>2. (spc'[p] \in Starting) /\ Active(p)'
      BY <2>2 DEF Starting, Active
    <3> QED
      BY <2>2, <2>3, <3>1, <3>2, NewTask DEF SubmitOK
  <2>6. ASSUME NEW q \in Procs, q # p PROVE SubmitOK(q)'
    <3>1. CASE ~Active(q)
      BY <1>1, <2>6, <3>1 DEF SubmitOK
    <3>2. CASE Active(q)
      <4>1. /\ spc[q] = "put" =>
                 /\ wpc[sub[q].w] \notin {"none", "made"}
                 /\ \A v \in Workers : \A k \in DOMAIN mailbox[v] : mailbox[v][k] # sub[q].t
            /\ spc[q] \in Starting => wpc[sub[q].w] = "made" /\ mailbox[sub[q].w] = <<sub[q].t>>
        BY <1>1, <2>6, <3>2 DEF SubmitOK
      <4>2. sub[q].w # w
        BY <2>1, <3>2, <4>1 DEF Active
      <4>3. wpc'[sub[q].w] = wpc[sub[q].w] /\ mailbox'[sub[q].w] = mailbox[sub[q].w]
        BY <1>1, <2>2, <2>6, <3>2, <4>2
      <4>4. spc[q] = "put" => \A v \in Workers : \A k \in DOMAIN mailbox'[v] : mailbox'[v][k] # sub[q].t
        BY <1>1, <2>2, <2>3, <2>6, <3>2, <4>1
      <4> QED
        BY <1>1, <2>6, <3>2, <4>1, <4>3, <4>4, NewTask DEF SubmitOK
    <3> QED
      BY <3>1, <3>2
  <2>7. OneStarter'
    <3>1. \A q \in Procs : q # p /\ spc'[q] \in Starting =>
            spc[q] \in Starting /\ sub'[q].w = sub[q].w /\ sub[q].w # w
      <4> SUFFICES ASSUME NEW q \in Procs, q # p, spc'[q] \in Starting
                   PROVE  spc[q] \in Starting /\ sub'[q].w = sub[q].w /\ sub[q].w # w
        OBVIOUS
      <4>1. spc[q] \in Starting /\ sub'[q] = sub[q] /\ SubmitOK(q)
        BY <1>1
      <4>2. wpc[sub[q].w] = "made"
        BY <4>1 DEF SubmitOK, Active
      <4> QED
        BY <2>1, <4>1, <4>2
    <3> QED
      BY <2>2, <3>1, SInvParts DEF OneStarter
  <2>8. \A v \in Workers : \A k \in DOMAIN mailbox'[v] :
          \/ v = w /\ k = 1 /\ mailbox'[v][k] = t
          \/ k \in DOMAIN mailbox[v] /\ mailbox'[v][k] = mailbox[v][k] /\ mailbox[v][k] # t
             /\ mailbox[v][k] \in Tasks
    <3>1. \A v \in Workers : \A k \in DOMAIN mailbox[v] : mailbox[v][k] \in Tasks
      BY SInvParts DEF Types, QueueTypes
    <3>2. \A v \in Workers : \A k \in DOMAIN mailbox[v] : mailbox[v][k] # t
      BY NewTask
    <3> QED
      BY <2>2, <2>3, <3>1, <3>2
  <2>9. Mail'
    <3>1. \A v \in Workers : \A k \in DOMAIN mailbox'[v] :
            runs'[mailbox'[v][k]] = 0 /\ handle'[mailbox'[v][k]] \in Taken
      BY <2>8, NewTask, SInvParts DEF Mail, Taken
    <3>2. \A u, v \in Workers : \A k \in DOMAIN mailbox'[u], m \in DOMAIN mailbox'[v] :
            mailbox'[u][k] = mailbox'[v][m] => u = v /\ k = m
      BY <2>8, SInvParts DEF Mail
    <3>3. \A v \in Workers : wpc'[v] = "none" => mailbox'[v] = <<>>
      BY <2>2, SInvParts DEF Mail
    <3> QED
      BY <3>1, <3>2, <3>3 DEF Mail
  <2>10. IdleOK'
    BY <2>2, Single DEF IdleOK
  <2>11. OneRunner' /\ (\A v \in Workers : WorkOK(v)') /\ Accounted' /\ Garbage'
    <3>1. \A v \in Workers : wpc'[v] = wpc[v] \/ (wpc[v] = "none" /\ wpc'[v] = "made")
      BY <2>1, <2>2
    <3>2. \A v \in Workers : \A u : u # t => (u \in Range(mailbox'[v]) <=> u \in Range(mailbox[v]))
      BY <2>2, <2>3, <2>4
    <3> QED
      BY <3>1, <3>2, NewTaskRest
  <2> QED
    BY <2>5, <2>6, <2>7, <2>9, <2>10, <2>11, NewTask DEF SInv
<1> QED
  BY <1>3, <1>4


-----------------------------------------------------------------------------
(* The invariant of the specification.                                     *)

LEMMA InitInv == ASSUME Init PROVE SInv
<1>1. Types
  BY EmptySeq DEF Init, Nothing, Types, QueueTypes, WorkerTypes, SubTypes, HandleTypes
<1>2. /\ \A p \in Procs : spc[p] = "out" /\ sub[p].t = None
      /\ \A w \in Workers : wpc[w] = "none" /\ task[w] = None /\ mailbox[w] = <<>>
      /\ \A t \in Tasks : handle[t] = "new" /\ runs[t] = 0 /\ ~done[t] /\ outcome[t] = "none"
      /\ holder = None /\ platform = 0 /\ idle = <<>> /\ retrieved = raised
  BY DEF Init, Nothing
<1>3. None \notin Procs
  BY SchedulerAssumption
<1>4. Windows
  BY <1>2, <1>3 DEF Windows, Window
<1>5. (\A p \in Procs : SubmitOK(p)) /\ OneStarter
  BY <1>2 DEF SubmitOK, OneStarter, Active, Starting
<1>6. Mail /\ IdleOK
  BY <1>2, Single DEF Mail, IdleOK
<1>7. (\A w \in Workers : WorkOK(w)) /\ OneRunner
  BY <1>2 DEF WorkOK, OneRunner
<1>8. Accounted /\ Garbage
  BY <1>2 DEF Accounted, Taken, Garbage, NothingVanishes
<1> QED
  BY <1>1, <1>4, <1>5, <1>6, <1>7, <1>8 DEF SInv

LEMMA NextInv == ASSUME SInv, [Next]_vars PROVE SInv'
<1>1. ASSUME NEW p \in Procs, InSubmit(p) PROVE SInv'
  BY <1>1, PutTypes, PutInv, OpenWindowTypes, OpenWindowInv, StartTypes, StartInv,
     StartFailsTypes, StartFailsInv, RestoreTypes, RestoreInv DEF InSubmit
<1>2. ASSUME NEW p \in Procs, NEW t \in Tasks, Submit(p, t) \/ Result(p, t) \/ Drop(p, t) PROVE SInv'
  BY <1>2, SubmitTypes, SubmitInv, ResultTypes, ResultInv, DropTypes, DropInv
<1>3. ASSUME Tune PROVE SInv'
  BY <1>3, TuneTypes, TuneInv
<1>4. ASSUME Keep PROVE SInv'
  BY <1>4, KeepTypes, KeepInv
<1>5. ASSUME NEW w \in Workers, Work(w) \/ GetTimesOut(w) PROVE SInv'
  BY <1>5, GetTypes, GetInv, TryRetireTypes, TryRetireInv, BodyEndsTypes, BodyEndsInv, SetDoneTypes,
     SetDoneInv, ParkTypes, ParkInv, DropTaskTypes, DropTaskInv, GetTimesOutTypes, GetTimesOutInv DEF Work
<1>6. ASSUME NEW t \in Tasks, Delete(t) PROVE SInv'
  BY <1>6, DeleteTypes, DeleteInv
<1>7. ASSUME UNCHANGED vars PROVE SInv'
  <2>1. /\ idle' = idle /\ mailbox' = mailbox /\ wpc' = wpc /\ task' = task /\ spc' = spc /\ sub' = sub
        /\ tuned' = tuned /\ size' = size /\ platform' = platform /\ holder' = holder
        /\ outcome' = outcome /\ done' = done /\ retrieved' = retrieved /\ raised' = raised
        /\ handle' = handle /\ runs' = runs /\ reported' = reported
    BY <1>7 DEF vars, workers, stack, handles
  <2>2. Types' /\ Windows' /\ OneStarter' /\ Mail' /\ IdleOK' /\ OneRunner'
    BY <2>1, SInvParts DEF Types, QueueTypes, WorkerTypes, SubTypes, HandleTypes, Windows, OneStarter, Mail,
       IdleOK, OneRunner
  <2>3. (\A p \in Procs : SubmitOK(p)') /\ (\A w \in Workers : WorkOK(w)')
    BY <2>1, SInvParts DEF SubmitOK, Active, WorkOK
  <2>4. Accounted' /\ Garbage'
    BY <2>1, SInvParts DEF Accounted, Garbage, Referenced, InFlight, NothingVanishes
  <2> QED
    BY <2>2, <2>3, <2>4 DEF SInv
<1> QED
  BY <1>1, <1>2, <1>3, <1>4, <1>5, <1>6, <1>7 DEF Next

(* SInv holds in every state the scheduler reaches.                        *)
THEOREM Invariant == Spec => []SInv
<1>1. Init => SInv
  BY InitInv
<1>2. SInv /\ [Next]_vars => SInv'
  BY NextInv
<1> QED
  BY <1>1, <1>2, PTL DEF Spec

(* "stack_size is process global, keep the window serialized" (submit):    *)
(* whatever go() and set_worker_stack_size do at the same time, no other   *)
(* thread of the process is started with the size of a worker, and each    *)
(* worker gets the size its submit() read.                                 *)
THEOREM StackSizeIsPrivate == Spec => []WindowsClosed
<1>1. SInv => WindowsClosed
  <2> SUFFICES ASSUME SInv PROVE WindowsClosed
    OBVIOUS
  <2>1. (\A p \in Procs : spc[p] \notin {"start_in_window", "restore", "validate"}) => platform = 0
    <3> SUFFICES ASSUME \A p \in Procs : spc[p] \notin Window PROVE platform = 0
      BY DEF Window
    <3>1. \A p \in Procs : holder # p
      BY SInvParts DEF Windows
    <3>2. holder = None
      BY <3>1, SInvParts DEF Types, SubTypes
    <3> QED
      BY <3>2, SInvParts DEF Windows
  <2> QED
    BY <2>1, SInvParts DEF Windows, WindowsClosed
<1> QED
  BY <1>1, Invariant, PTL

(* "failures cannot vanish silently" (class Handle): when a Handle has     *)
(* been collected its task had ended, and the exception was raised to a    *)
(* caller of result() or reported by __del__, never both and never neither.*)
THEOREM FailuresDoNotVanish == Spec => []NothingVanishes
<1>1. SInv => NothingVanishes
  BY DEF SInv, Garbage
<1> QED
  BY <1>1, Invariant, PTL

(* The states the workers and Handles can be in, among them: a worker that *)
(* waits for work refers to no task, so that it keeps no Handle alive.     *)
THEOREM WaitingWorkersHoldNothing == Spec => []TypeOK
<1>1. SInv => TypeOK
  <2> SUFFICES ASSUME SInv PROVE TypeOK
    OBVIOUS
  <2>1. \A w \in At({"get", "retiring", "claimed"}) : task[w] = None
    BY SInvParts DEF At, WorkOK
  <2>2. \A t \in Tasks : done[t] => outcome[t] # "none"
    BY SInvParts DEF Accounted
  <2> QED
    BY <2>1, <2>2, SInvParts DEF TypeOK, Types, QueueTypes, WorkerTypes, SubTypes, HandleTypes
<1> QED
  BY <1>1, Invariant, PTL

-----------------------------------------------------------------------------
(* The workers implement the pool.                                         *)

LEMMA NoPoolStep ==
  ASSUME UNCHANGED <<runs, done>>,
         \A t \in Tasks : (handle'[t] \in Taken <=> handle[t] \in Taken)
                          /\ (handle'[t] = "refused" <=> handle[t] = "refused")
  PROVE  UNCHANGED Pool!vars
BY DEF Pool!vars, Is, Taken

LEMMA PoolInit == ASSUME Init PROVE Pool!Init
BY DEF Init, Pool!Init, Is

LEMMA PoolSubmit ==
  ASSUME SInv, Types', NEW p \in Procs, NEW t \in Tasks, Submit(p, t) PROVE Pool!Submit(t)
<1>1. /\ handle[t] = "new" /\ handle'[t] = "held" /\ \A u \in Tasks : u # t => handle'[u] = handle[u]
      /\ runs' = runs /\ done' = done
  BY NewTask
<1> QED
  BY <1>1 DEF Pool!Submit, Is

LEMMA PoolRefuse ==
  ASSUME SInv, NEW p \in Procs, StartFails(p) PROVE \E t \in Tasks : Pool!Refuse(t)
<1>a. PICK t : t = sub[p].t
  OBVIOUS
<1>1. /\ t \in Tasks /\ handle[t] = "held" /\ runs[t] = 0
      /\ handle' = [handle EXCEPT ![t] = "refused"] /\ runs' = runs /\ done' = done
  BY <1>a, SInvParts DEF StartFails, Spc, SubmitOK, Active, Starting
<1>2. handle'[t] = "refused" /\ \A u \in Tasks : u # t => handle'[u] = handle[u]
  BY <1>1, SInvParts DEF Types, HandleTypes
<1>3. Pool!Refuse(t)
  BY <1>1, <1>2 DEF Pool!Refuse, Is
<1> QED
  BY <1>1, <1>3

LEMMA PoolStart ==
  ASSUME SInv, NEW w \in Workers, Get(w) PROVE \E t \in Tasks : Pool!Start(t)
<1>a. PICK t : t = Head(mailbox[w])
  OBVIOUS
<1>1. t \in Tasks /\ 1 \in DOMAIN mailbox[w] /\ mailbox[w][1] = t
  BY <1>a, SInvParts, TailType DEF Get, Types, QueueTypes
<1>2. runs[t] = 0 /\ handle[t] \in Taken
  BY <1>1, SInvParts DEF Mail
<1>3. runs' = [runs EXCEPT ![t] = 1] /\ handle' = handle /\ done' = done
  BY <1>a, <1>2 DEF Get
<1>4. Pool!Start(t)
  BY <1>1, <1>2, <1>3 DEF Pool!Start, Is, Taken
<1> QED
  BY <1>1, <1>4

LEMMA PoolEnd ==
  ASSUME SInv, NEW w \in Workers, SetDone(w) PROVE \E t \in Tasks : Pool!End(t)
<1>a. PICK t : t = task[w]
  OBVIOUS
<1>1. /\ t \in Tasks /\ runs[t] = 1 /\ ~done[t]
      /\ \A u \in Needs[t] : done[u] \/ handle[u] = "refused"
      /\ done' = [done EXCEPT ![t] = TRUE] /\ handle' = handle /\ runs' = runs
  BY <1>a, SInvParts DEF SetDone, Wpc, WorkOK
<1>2. done'[t] /\ \A u \in Tasks : u # t => done'[u] = done[u]
  BY <1>1, SInvParts DEF Types, HandleTypes
<1>3. Needs[t] \subseteq Tasks
  BY <1>1, SchedulerAssumption
<1>4. Pool!End(t)
  BY <1>1, <1>2, <1>3 DEF Pool!End, Is
<1> QED
  BY <1>1, <1>4

LEMMA PoolStep == ASSUME SInv, [Next]_vars PROVE [Pool!Next]_(Pool!vars)
<1>1. ASSUME NEW p \in Procs, InSubmit(p) PROVE [Pool!Next]_(Pool!vars)
  <2>1. CASE StartFails(p)
    BY <2>1, PoolRefuse DEF Pool!Next
  <2>2. CASE Put(p) \/ OpenWindow(p) \/ Start(p) \/ Restore(p)
    <3>1. runs' = runs /\ done' = done /\ handle' = handle
      BY <2>2 DEF Put, OpenWindow, Start, Restore, handles
    <3> QED
      BY <3>1, NoPoolStep
  <2> QED
    BY <1>1, <2>1, <2>2 DEF InSubmit
<1>2. ASSUME NEW p \in Procs, NEW t \in Tasks, Submit(p, t) PROVE [Pool!Next]_(Pool!vars)
  BY <1>2, SubmitTypes, PoolSubmit DEF Pool!Next
<1>3. ASSUME NEW p \in Procs, NEW t \in Tasks, Result(p, t) PROVE [Pool!Next]_(Pool!vars)
  <2>1. runs' = runs /\ done' = done /\ handle' = handle
    BY <1>3 DEF Result
  <2> QED
    BY <2>1, NoPoolStep
<1>4. ASSUME NEW t \in Tasks, (\E p \in Procs : Drop(p, t)) \/ Delete(t) PROVE [Pool!Next]_(Pool!vars)
  <2>1. /\ runs' = runs /\ done' = done
        /\ handle[t] \in Taken
        /\ handle' = [handle EXCEPT ![t] = "dropped"] \/ handle' = [handle EXCEPT ![t] = "collected"]
    BY <1>4 DEF Drop, Holds, Delete, Taken
  <2>2. handle'[t] \in Taken /\ \A u \in Tasks : u # t => handle'[u] = handle[u]
    BY <2>1, SInvParts DEF Types, HandleTypes, Taken
  <2>3. \A u \in Tasks : (handle'[u] \in Taken <=> handle[u] \in Taken)
                         /\ (handle'[u] = "refused" <=> handle[u] = "refused")
    BY <2>1, <2>2 DEF Taken
  <2> QED
    BY <2>1, <2>3, NoPoolStep
<1>5. ASSUME Tune \/ Keep PROVE [Pool!Next]_(Pool!vars)
  <2>1. runs' = runs /\ done' = done /\ handle' = handle
    BY <1>5 DEF Tune, Keep, handles
  <2> QED
    BY <2>1, NoPoolStep
<1>6. ASSUME NEW w \in Workers, Work(w) \/ GetTimesOut(w) PROVE [Pool!Next]_(Pool!vars)
  <2>1. CASE Get(w)
    BY <2>1, PoolStart DEF Pool!Next
  <2>2. CASE SetDone(w)
    BY <2>2, PoolEnd DEF Pool!Next
  <2>3. CASE TryRetire(w) \/ BodyEnds(w) \/ Park(w) \/ DropTask(w) \/ GetTimesOut(w)
    <3>1. runs' = runs /\ done' = done /\ handle' = handle
      BY <2>3 DEF TryRetire, BodyEnds, Park, DropTask, GetTimesOut, handles
    <3> QED
      BY <3>1, NoPoolStep
  <2> QED
    BY <1>6, <2>1, <2>2, <2>3 DEF Work
<1>7. ASSUME UNCHANGED vars PROVE [Pool!Next]_(Pool!vars)
  <2>1. runs' = runs /\ done' = done /\ handle' = handle
    BY <1>7 DEF vars, handles
  <2> QED
    BY <2>1, NoPoolStep
<1> QED
  BY <1>1, <1>2, <1>3, <1>4, <1>5, <1>6, <1>7 DEF Next

(* The reused workers keep the safety part of what go() promises: a task   *)
(* is started at most once, never after go() raised for it, and is done    *)
(* only when those it joins are, although a worker may retire at the       *)
(* instant submit() chooses it.                                            *)
THEOREM WorkersImplementPool == Spec => Pool!Spec
<1>1. Init => Pool!Init
  BY PoolInit
<1>2. SInv /\ [Next]_vars => [Pool!Next]_(Pool!vars)
  BY PoolStep
<1> QED
  BY <1>1, <1>2, Invariant, PTL DEF Spec, Pool!Spec

=============================================================================
