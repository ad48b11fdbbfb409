----------------------------- MODULE Scheduler -----------------------------
(***************************************************************************)
(* Routines on reused worker threads: _Scheduler, _worker_loop, Handle and *)
(* set_worker_stack_size of _routines.py.                                  *)
(*                                                                         *)
(* A task names its Handle.  Threads of the program submit tasks; a task's *)
(* function may join others, so that it occupies its worker meanwhile.     *)
(* Each access to the idle stack (under its lock), to a mailbox (a         *)
(* SimpleQueue), to a Handle, or to the stack size of new threads is a     *)
(* step; _active is counted in Detector.  The Handle's last reference is   *)
(* dropped when nobody holds it: __del__ runs.  join(), and a result()     *)
(* that times out, only look.                                              *)
(***************************************************************************)
EXTENDS Integers, Sequences, SequencesExt

CONSTANTS
  Tasks,       \* the routines spawned, each once
  Workers,     \* bound: the worker threads that can be made; one per task is enough
  Procs,       \* threads that call go()
  Owner,       \* Owner[t]: the thread that spawns t and keeps its Handle
  Needs,       \* Needs[t]: the tasks t joins
  Unstartable, \* those for which Thread.start may raise ("can't start new thread")
  Tuner,       \* the thread that calls set_worker_stack_size,
  Sizes,       \* with these sizes, one after the other
  None         \* no task, no thread

ASSUME SchedulerAssumption ==
  /\ Owner \in [Tasks -> Procs] /\ Tuner \in Procs
  /\ Needs \in [Tasks -> SUBSET Tasks]
  /\ Unstartable \subseteq Tasks
  /\ Sizes \in Seq(Nat)
  /\ None \notin Tasks \cup Workers \cup Procs

VARIABLES
  idle,      \* _idle, the stack of parked workers
  mailbox,   \* mailbox[w]: the tasks put for worker w
  wpc,       \* wpc[w]: where the worker loop of w is
  task,      \* task[w]: the task w refers to
  spc,       \* spc[p]: where p is inside submit() or set_worker_stack_size()
  sub,       \* sub[p]: the task, the worker and the size it deals with
  tuned,     \* how many calls of set_worker_stack_size have begun
  size,      \* _worker_stack_size
  platform,  \* threading.stack_size(), global to the process
  holder,    \* the thread that holds _stack_lock
  outcome,   \* outcome[t]: "none", then _result or _exc of t's Handle
  done,      \* done[t]: t's Event is set
  retrieved, \* retrieved[t]: _exc_retrieved
  handle,    \* handle[t]: "new", "held", "dropped" by its owner, "collected", or "refused"
  raised,    \* raised[t]: result() raised _exc to somebody
  runs,      \* runs[t]: how often t's function was started
  reported   \* reported[t]: __del__ called the excepthook

workers == <<idle, mailbox, wpc, task>>
stack == <<tuned, size, platform, holder>>
handles == <<outcome, done, retrieved, raised, handle, runs, reported>>
vars == <<workers, spc, sub, stack, handles>>

Nothing == [t |-> None, w |-> None, size |-> 0, previous |-> 0]

Init ==
  /\ idle = <<>>
  /\ mailbox = [w \in Workers |-> <<>>]
  /\ wpc = [w \in Workers |-> "none"]
  /\ task = [w \in Workers |-> None]
  /\ spc = [p \in Procs |-> "out"]
  /\ sub = [p \in Procs |-> Nothing]
  /\ tuned = 0 /\ size = 0 /\ platform = 0 /\ holder = None
  /\ outcome = [t \in Tasks |-> "none"]
  /\ done = [t \in Tasks |-> FALSE]
  /\ retrieved = [t \in Tasks |-> FALSE]
  /\ raised = [t \in Tasks |-> FALSE]
  /\ handle = [t \in Tasks |-> "new"]
  /\ runs = [t \in Tasks |-> 0]
  /\ reported = [t \in Tasks |-> FALSE]

Spc(p, from, to) == spc[p] \in from /\ spc' = [spc EXCEPT ![p] = to]
Wpc(w, from, to) == wpc[w] \in from /\ wpc' = [wpc EXCEPT ![w] = to]

-----------------------------------------------------------------------------
(* submit(): pop the warmest idle worker, or make one.  The size of its    *)
(* stack is read without a lock.                                           *)

Submit(p, t) ==
  /\ Owner[t] = p
  /\ handle[t] = "new"
  /\ handle' = [handle EXCEPT ![t] = "held"]
  /\ IF idle # <<>>
     THEN /\ idle' = Front(idle)
          /\ sub' = [sub EXCEPT ![p] = [Nothing EXCEPT !.t = t, !.w = Last(idle)]]
          /\ Spc(p, {"out"}, "put")
          /\ UNCHANGED <<mailbox, wpc>>
     ELSE \E w \in Workers :
          /\ Wpc(w, {"none"}, "made")
          /\ sub' = [sub EXCEPT ![p] = [Nothing EXCEPT !.t = t, !.w = w, !.size = size]]
          /\ mailbox' = [mailbox EXCEPT ![w] = <<t>>]
          /\ Spc(p, {"out"}, IF size = 0 THEN "start" ELSE "resize")
          /\ UNCHANGED idle
  /\ UNCHANGED <<task, stack, outcome, done, retrieved, raised, runs, reported>>

Put(p) ==
  /\ Spc(p, {"put"}, "out")
  /\ mailbox' = [mailbox EXCEPT ![sub[p].w] = Append(@, sub[p].t)]
  /\ sub' = [sub EXCEPT ![p] = Nothing]
  /\ UNCHANGED <<idle, wpc, task, stack, handles>>

(* threading.stack_size(n) returns the size it replaces.                   *)
Swap(p, n) ==
  /\ platform' = n
  /\ sub' = [sub EXCEPT ![p].previous = platform]

BugNoLock(p) ==
  /\ Spc(p, {"resize"}, "start_in_window")
  /\ Swap(p, sub[p].size)
  /\ UNCHANGED <<workers, tuned, size, holder, handles>>
OpenWindow(p) ==
  /\ Spc(p, {"resize"}, "start_in_window")
  /\ holder = None
  /\ holder' = p
  /\ Swap(p, sub[p].size)
  /\ UNCHANGED <<workers, tuned, size, handles>>

Started(p) == IF spc[p] = "start" THEN "out" ELSE "restore"

Forget(p) == sub' = [sub EXCEPT ![p] = [Nothing EXCEPT !.previous = sub[p].previous]]

Start(p) ==
  /\ Spc(p, {"start", "start_in_window"}, Started(p))
  /\ Wpc(sub[p].w, {"made"}, "get")
  /\ Forget(p)
  /\ UNCHANGED <<idle, mailbox, task, stack, handles>>

(* The exception leaves go(): the worker and the Handle are given up.      *)
StartFails(p) ==
  /\ sub[p].t \in Unstartable
  /\ Spc(p, {"start", "start_in_window"}, Started(p))
  /\ Wpc(sub[p].w, {"made"}, "none")
  /\ mailbox' = [mailbox EXCEPT ![sub[p].w] = <<>>]
  /\ handle' = [handle EXCEPT ![sub[p].t] = "refused"]
  /\ Forget(p)
  /\ UNCHANGED <<idle, task, stack, outcome, done, retrieved, raised, runs, reported>>

Restore(p) ==
  /\ Spc(p, {"restore"}, "out")
  /\ platform' = sub[p].previous
  /\ sub' = [sub EXCEPT ![p] = Nothing]
  /\ holder' = None
  /\ UNCHANGED <<workers, tuned, size, handles>>

(* set_worker_stack_size(): a size is tried out before it is kept.  (One   *)
(* that the platform rejects changes nothing.)                             *)
Tune ==
  /\ tuned < Len(Sizes)
  /\ spc[Tuner] = "out" /\ holder = None
  /\ tuned' = tuned + 1
  /\ IF Sizes[tuned + 1] = 0
     THEN size' = 0 /\ UNCHANGED <<spc, sub, platform, holder>>
     ELSE /\ Spc(Tuner, {"out"}, "validate")
          /\ Swap(Tuner, Sizes[tuned + 1])
          /\ holder' = Tuner
          /\ UNCHANGED size
  /\ UNCHANGED <<workers, handles>>

Keep ==
  /\ Spc(Tuner, {"validate"}, "out")
  /\ platform' = sub[Tuner].previous
  /\ sub' = [sub EXCEPT ![Tuner] = Nothing]
  /\ size' = Sizes[tuned]
  /\ holder' = None
  /\ UNCHANGED <<workers, tuned, handles>>

-----------------------------------------------------------------------------
(* _worker_loop(): take a task and run its function.                       *)

Get(w) ==
  /\ mailbox[w] # <<>>
  /\ Wpc(w, {"get", "claimed"}, "running")
  /\ task' = [task EXCEPT ![w] = Head(mailbox[w])]
  /\ mailbox' = [mailbox EXCEPT ![w] = Tail(@)]
  /\ runs' = [runs EXCEPT ![Head(mailbox[w])] = @ + 1]
  /\ UNCHANGED <<idle, spc, sub, stack, outcome, done, retrieved, raised, handle, reported>>

(* get() timed out: retire, unless submit() took the worker off the stack. *)
GetTimesOut(w) ==
  /\ mailbox[w] = <<>>
  /\ Wpc(w, {"get"}, "retiring")
  /\ UNCHANGED <<idle, mailbox, task, spc, sub, stack, handles>>

BugRetireAnyway(w) ==
  /\ Wpc(w, {"retiring"}, "retired")
  /\ idle' = SelectSeq(idle, LAMBDA v : v # w)
  /\ UNCHANGED <<mailbox, task, spc, sub, stack, handles>>
TryRetire(w) ==
  /\ \/ /\ Wpc(w, {"retiring"}, "retired")
        /\ \E i \in DOMAIN idle :
             /\ idle[i] = w /\ \A j \in 1..(i - 1) : idle[j] # w
             /\ idle' = RemoveAt(idle, i)
     \/ /\ Wpc(w, {"retiring"}, "claimed")
        /\ w \notin Range(idle)
        /\ UNCHANGED idle
  /\ UNCHANGED <<mailbox, task, spc, sub, stack, handles>>

(* result(): an exception is marked as retrieved before it is raised.      *)
Collect(S) ==
  /\ retrieved' = [t \in Tasks |-> retrieved[t] \/ (t \in S /\ outcome[t] = "exception")]
  /\ raised' = [t \in Tasks |-> raised[t] \/ (t \in S /\ outcome[t] = "exception")]

(* _run(): fn returns or raises once everybody it joins is done, ...       *)
BodyEnds(w) ==
  /\ Wpc(w, {"running"}, "stored")
  /\ \A t \in Needs[task[w]] : done[t] \/ handle[t] = "refused"
  /\ Collect(Needs[task[w]])
  /\ \E o \in {"value", "exception"} : outcome' = [outcome EXCEPT ![task[w]] = o]
  /\ UNCHANGED <<idle, mailbox, task, spc, sub, stack, done, handle, runs, reported>>

(* ... and then releases the waiters.                                      *)
SetDone(w) ==
  /\ Wpc(w, {"stored"}, "ending")
  /\ done' = [done EXCEPT ![task[w]] = TRUE]
  /\ UNCHANGED <<idle, mailbox, task, spc, sub, stack, outcome, retrieved, raised, handle, runs, reported>>

Park(w) ==
  /\ Wpc(w, {"ending"}, "parked")
  /\ idle' = Append(idle, w)
  /\ UNCHANGED <<mailbox, task, spc, sub, stack, handles>>

BugKeepTask(w) == Wpc(w, {"parked"}, "get") /\ UNCHANGED <<idle, mailbox, task, spc, sub, stack, handles>>
DropTask(w) ==
  /\ Wpc(w, {"parked"}, "get")
  /\ task' = [task EXCEPT ![w] = None]
  /\ UNCHANGED <<idle, mailbox, spc, sub, stack, handles>>

-----------------------------------------------------------------------------
(* The owner of a Handle: result(), and losing the reference.              *)

Holds(p, t) == spc[p] = "out" /\ Owner[t] = p /\ handle[t] = "held"

BugMarkOnTimeout(p, t) ==
  /\ Holds(p, t)
  /\ retrieved' = [retrieved EXCEPT ![t] = TRUE]
  /\ raised' = [raised EXCEPT ![t] = done[t] /\ outcome[t] = "exception"]
  /\ UNCHANGED <<workers, spc, sub, stack, outcome, done, handle, runs, reported>>
Result(p, t) ==
  /\ Holds(p, t) /\ done[t]
  /\ Collect({t})
  /\ UNCHANGED <<workers, spc, sub, stack, outcome, done, handle, runs, reported>>

Drop(p, t) ==
  /\ Holds(p, t)
  /\ handle' = [handle EXCEPT ![t] = "dropped"]
  /\ UNCHANGED <<workers, spc, sub, stack, outcome, done, retrieved, raised, runs, reported>>

(* A task refers to the Handles its function joins until it is dropped.    *)
InFlight(t) ==
  \/ \E w \in Workers : task[w] = t \/ t \in Range(mailbox[w])
  \/ \E p \in Procs : sub[p].t = t
Referenced(t) ==
  InFlight(t) \/ \E u \in Tasks : t \in Needs[u] /\ (handle[u] = "new" \/ InFlight(u))

(* Handle.__del__.                                                         *)
Delete(t) ==
  /\ handle[t] = "dropped"
  /\ ~Referenced(t)
  /\ handle' = [handle EXCEPT ![t] = "collected"]
  /\ reported' = [reported EXCEPT ![t] = outcome[t] = "exception" /\ ~retrieved[t]]
  /\ UNCHANGED <<workers, spc, sub, stack, outcome, done, retrieved, raised, runs>>

InSubmit(p) == Put(p) \/ OpenWindow(p) \/ Start(p) \/ StartFails(p) \/ Restore(p)
Work(w) == Get(w) \/ TryRetire(w) \/ BodyEnds(w) \/ SetDone(w) \/ Park(w) \/ DropTask(w)

Next ==
  \/ \E p \in Procs :
       InSubmit(p) \/ \E t \in Tasks : Submit(p, t) \/ Result(p, t) \/ Drop(p, t)
  \/ Tune
  \/ Keep
  \/ \E w \in Workers : Work(w) \/ GetTimesOut(w)
  \/ \E t \in Tasks : Delete(t)

Spec == Init /\ [][Next]_vars

(* Threads run, functions end unless they wait, garbage is collected.  No  *)
(* property may count on a worker's idle timeout.                          *)
FairSpec ==
  /\ Spec
  /\ WF_vars(Keep)
  /\ \A p \in Procs : WF_vars(InSubmit(p))
  /\ \A w \in Workers : WF_vars(Work(w))
  /\ \A t \in Tasks : WF_vars(Delete(t))

-----------------------------------------------------------------------------
At(S) == {w \in Workers : wpc[w] \in S}

(* Types; a worker that waits for its next task refers to none.            *)
TypeOK ==
  /\ idle \in Seq(Workers)
  /\ mailbox \in [Workers -> Seq(Tasks)]
  /\ wpc \in [Workers -> {"none", "made", "get", "retiring", "claimed", "retired", "running",
                          "stored", "ending", "parked"}]
  /\ task \in [Workers -> Tasks \cup {None}]
  /\ \A w \in At({"get", "retiring", "claimed"}) : task[w] = None
  /\ spc \in [Procs -> {"out", "put", "start", "resize", "start_in_window", "restore", "validate"}]
  /\ sub \in [Procs -> [t: Tasks \cup {None}, w: Workers \cup {None}, size: Nat, previous: Nat]]
  /\ holder \in Procs \cup {None}
  /\ outcome \in [Tasks -> {"none", "value", "exception"}]
  /\ \A t \in Tasks : done[t] => outcome[t] # "none"
  /\ handle \in [Tasks -> {"new", "held", "dropped", "collected", "refused"}]

Is(S) == {t \in Tasks : handle[t] \in S}

(* The workers do what go() promises: a task is accepted, or go() raises;  *)
(* an accepted one is started by some worker, once, although a worker may  *)
(* retire at the instant submit() chooses it ("claimed at the last moment, *)
(* the task is on its way"), and ends when those it joins have ended.      *)
Pool == INSTANCE TaskPool WITH
  taken <- Is({"held", "dropped", "collected"}),
  refused <- Is({"refused"}),
  done <- {t \in Tasks : done[t]}
PoolPromise == Pool!FairSpec

(* "stack_size is process global, keep the window serialized" (submit):    *)
(* outside the windows new threads of the whole process get the default,   *)
(* and a worker started in a window gets the size its submit() read.       *)
WindowsClosed ==
  /\ (\A p \in Procs : spc[p] \notin {"start_in_window", "restore", "validate"}) => platform = 0
  /\ \A p \in Procs : spc[p] = "start_in_window" => platform = sub[p].size

(* "failures cannot vanish silently" (class Handle): when a Handle that    *)
(* go() returned is gone, its routine's exception was raised to somebody   *)
(* or reported, not both.                                                  *)
NothingVanishes ==
  \A t \in Tasks :
    handle[t] = "collected" =>
      /\ done[t]
      /\ outcome[t] = "exception" => (raised[t] <=> ~reported[t])

(* The report waits neither for the worker's next task nor for its end     *)
(* ("that would delay garbage collection", _worker_loop).                  *)
FailureReported ==
  \A t \in Tasks :
    (/\ \A u \in Tasks : handle[u] # "new"
     /\ handle[t] = "dropped" /\ outcome[t] = "exception") ~> (reported[t] \/ raised[t])
=============================================================================
