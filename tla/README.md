# pyroutine in TLA+

Formal models of `pyroutine`, a Python library of Go style routines, channels,
`select`, contexts and synchronisation primitives built on threads (and on
free-threaded CPython, on real parallelism). The modules model the library's
coordination logic; TLC checks them on small instances, TLAPS proves the
properties that hold for every number of threads, channels and calls.

## 1. The system

| component | source | state | operations | talks to |
|---|---|---|---|---|
| channels | `_chan.py` | per channel: buffer, closed flag, two queues of `(waiter, case)`, one lock; per parked operation: a waiter (case index claimed by compare-and-set, value, a park lock) | `send`, `recv`, `try_send`, `try_recv`, `close`, iteration, send/recv only views | everything else is built on it |
| select | `_select.py` | per call: shuffled case order, one waiter shared by its cases | `select`, `Select.wait`, with `default` and `timeout` | locks several channels, uses the channels' locked polls |
| timers | `_select.py` | `Timer`: fired/stopped flag, a thread that fires, a channel of one slot; `tick`: a chain of such threads | `Timer`, `stop`, `after`, `tick` | channels, the detector's pending timer count |
| context | `_context.py` | tree of contexts: children, done channel, reason, deadline timer | `with_cancel`, `with_timeout`, `with_deadline`, cancel | closes its done channel, timers, the detector's count |
| synchronisation | `_sync.py` | `WaitGroup` counter, `Once` flag, `Mutex`, `RWMutex` readers and writers, `ErrGroup` first error and slots | `add/done/wait/go`, `do`, `lock/unlock`, `rlock/runlock`, `go/wait/set_limit` | scheduler (`go`), context (`ErrGroup`) |
| scheduler and handles | `_routines.py` | stack of idle workers (last in, first out, unbounded), a mailbox per worker, per routine a handle (result, exception, done event), the stack size of new threads | `go`, `submit`, `set_worker_stack_size`, worker loop, retirement after an idle timeout, `Handle.result`, the hook for failures nobody collected | runs everybody's code |
| deadlock detector | `_debug.py` | parked threads, pending timers, on/off; the watcher's last picture | `park_begin/end`, timer counts, enable, disable, watcher thread | called from waits and timers, reads the scheduler's count of active routines |
| asyncio bridge | `aio.py` | a waiter per awaited operation with an asyncio future | `recv`, `send`, `select`, `iterate` | channels from an event loop thread |
| merge | `_helpers.py` | one pump routine, its list of open inputs, an output channel | `merge` | select, channels, scheduler |

### What is hard in it

* A waiter is completed by whoever wins `commit()` on it: a sender, a receiver,
  `close()`, its own timeout, or a case of another channel of the same select.
  `commit()` and `finish()` are two steps, and everybody else can run between
  them.
* Stale queue entries. A waiter that timed out or fired elsewhere stays in
  queues for a while; every loop over a queue has to skip it.
* `close()` snapshots the queues under the lock and completes them outside it.
* `select` takes several locks, and parks one waiter on several channels.
* Timeouts race the answer they wait for.
* Counters shared by threads without a common lock (the deadlock detector), and
  registration that is visible before it is complete (contexts).
* A thread that cannot be started, after what it was to do has been counted,
  registered or given a slot.
* State of the whole process that is changed for a moment (the stack size of new
  threads).

### What correctness means

| component | properties |
|---|---|
| channels, select | every operation takes effect at one instant between call and return; accepted values are delivered exactly once and in order; a closed channel drains before it reports; nobody sleeps beside something ready; returned operations leave no entries; results reported are results that happened; locks cannot deadlock; timed calls, and calls on a closing channel, return |
| timers | one of fire and `stop()` wins; a stopped timer never sends; its channel closes; the pending count is exact; tickers go on until their channel closes, and then end |
| context | one reason, never changed, that comes from above or from the context itself; cancelling a parent cancels every child, also one being made; cancelled children are released; timer counts balance |
| synchronisation | a `wait()` that returned outlasted every routine it found; writers exclude readers and writers and are not starved by readers; nobody sleeps on what is free; the first error stays, cancels the group and is reported; a group's limit holds and its slots come back; siblings that watch the context stop when one fails; a once function runs once and every caller gets its outcome |
| scheduler | every submitted task runs exactly once, also when the worker chosen for it is retiring; routines that wait for each other all run; a failure nobody collected is reported; the stack size of other threads does not change |
| detector | counts are exact whenever it is turned on; a real deadlock is reported, once; a warning is not repeated while nothing happens |
| asyncio bridge | the channels keep their promise to tasks; a cancelled task leaves no offer behind; a task is told what happened; its operations come back |
| merge | every input value reaches the output once and in its sender's order, until the output closes; it closes when all inputs are drained |

## 2. Modules

| module | models | extends |
|---|---|---|
| `ChanCalls` | vocabulary: operations, calls, outcomes; where a value is (`ExactlyOnce`) | |
| `GoChan` | the abstract channel: FIFO buffer, closed flag, atomic operations | `ChanCalls` |
| `Chan` | `_chan.py`: locks, queues of waiters, commit/finish, timeouts, close; implements `GoChan` (`Promise`) | `ChanCalls` |
| `Select` | `_select.py`: `select` and `Select.wait` on the channels of `Chan`; implements `GoChan` | `Chan` |
| `Aio` | `aio.py`: tasks of an event loop beside the threads of `Select`; implements `GoChan` with cancellation (`AioPromise`) | `Select` |
| `Merge` | `merge()` as a client of the channels of `GoChan` | `GoChan` |
| `Timers` | `Timer`, `after`, `tick` | |
| `Context` | `_context.py` | |
| `RWMutex` | `RWMutex` | |
| `WaitGroup` | `WaitGroup`, used through `go()` or through `add()` and `done()` | |
| `ErrGroup` | `ErrGroup` on the waits of `WaitGroup`, with the context its routines watch | `WaitGroup` |
| `Once` | `Once.do`, `once()` | |
| `TaskPool` | the abstract pool: what `go()` promises, without workers | |
| `Scheduler` | `_routines.py`: submit, stack size windows, worker loop, handles; implements `TaskPool` (`PoolPromise`) | |
| `Detector` | `_debug.py` beside the threads it watches | |
| `GoChanProofs` | theorems about the abstract channel | `GoChan` |
| `ChanProofs` | theorems about the concrete channel, about `select` and about the asyncio bridge | `Aio` |
| `GroupProofs` | theorems about `WaitGroup` and `ErrGroup` | `ErrGroup` |
| `SchedulerProofs`, `ContextProofs` | theorems | the module they are named after |
| `SyncProofs` | theorems about the read-write lock and about `Once` | `RWMutex`, `Once` |
| `TimersProofs` | theorems about timers and about the detector's counts | `Timers`, `Detector` |
| `MergeProofs` | theorems about `merge` | `Merge`, `GoChanProofs` |
| `MC*`, `CallForms` | instances for TLC; the calls their threads make | |

Modules meet at interfaces that are shown on both sides. `Chan`, `Select` and
`Aio` are shown to keep the promise of `GoChan`; `Merge` and `Timers` use
channels that keep it, one step per operation. `Scheduler` is shown to implement
`TaskPool`, its fairness included: the idle stack, the mailboxes and retirement
are hidden, what is left is that an accepted task starts, once, and ends when
those it joins have. `ErrGroup`, `Detector` and `Merge` spawn routines that
simply begin to run, as `TaskPool` promises. `Detector`, `Timers` and
`Context` model the same counter of pending timers, from the side of its reader
and of its two writers.

### How `Chan` corresponds to the code

An operation is a pair (thread, number of its call). It names its `_Waiter`, and
it is the value it sends, so a value always tells who sent it. `index`,
`value`, `released` are the waiter's fields and park lock; `recvQ` and `sendQ`
hold entries `[w, i]` (the value of a send entry is `w` itself); `lock[c]` is
the thread holding the channel's lock.

| code | actions |
|---|---|
| `_poll_send_locked` | `SendClosed`, `SendHandoff`, `SendBuffer`, and the guard `Missed` |
| `_poll_recv_locked`, `_promote_sender_locked` | `RecvTake`, `RecvTakePromote`, `RecvFromSender`, `RecvClosed`, `Missed` |
| `send`, `recv` | `Poll`, `Park`, then `Wake`, or `Expire`, `ClaimTimeout` / `LoseTimeout`, `Withdraw` |
| `try_send`, `try_recv` | `Poll`, `TryMiss` |
| `_Waiter.commit`, `finish` | `Commit` inside the polls and `CloseCommit`; `Finish`, `CloseFinish` |
| `close` | `CloseAgain`, `CloseMark`, `CloseCommit`, `CloseFinish`, `CloseDone` |

Two reductions keep the state space small. The first access under a lock is one
step with taking it, the last with releasing it. Entries whose `commit()` fails
are dropped in the step of the `commit()` that succeeds, or of the end of the
loop: once claimed a waiter stays claimed, so the failing commits could equally
have happened then. `commit()` and `finish()` are never merged.

`lin` is a history variable: what the operation did, written in the step in
which it takes effect and never read by a guard. `res` is what the code returns,
computed from the waiter's fields as the code does. `ReturnsAgree` says they
agree.

### How `Select` corresponds to the code

`Select` extends `Chan`: the same polls are used by the opportunistic pass (one
lock at a time) and by the second pass (every lock held), as the code shares
`_poll_*_locked`. `order` is the shuffled list of case indices, chosen once per
call and used by both passes, `at` the position of the pass, `left` the channels
still to be locked or unregistered from. A one case select without default is a
plain operation of `Chan` (the code's fast path). The locks of the second pass
are released together, with the last access under them.

### How `Aio` corresponds to the code

A task is a thread of `Select` whose operation polls and registers with the same
actions; `await` is `pc = "parked"` and `future` says whether the future is
done. `_resolve` (posted by `finish()`, so enabled when `released`) is
`Resolve`; `on_timeout` is `OnTimeout` when its `commit()` wins and
`OnTimeoutLate` when it loses; the `CancelledError` branch is `Cancel` and
`EndCancel`; the code after the `await` is `Resume` and `CleanUp`. `OnLoop`: the
loop runs one callback or task at a time, other threads run between any two
steps of it. `CloseLoop` and `FinishRaises`: the loop closes after its tasks
ended, and `call_soon_threadsafe` then raises in whoever completes a waiter that
is still in a queue.

### How the other modules correspond to the code

| module | state | steps |
|---|---|---|
| `Timers` | `fired` is `_fired`; `buf`, `closed` the channel; `pending` the detector's count; `tpc` where the timer's thread is ("failed" if it did not start), `spc` where a `stop()` is | each access to `_fired` (under its lock), to the count, to the channel |
| `Context` | the fields of `_CancelContext` as functions of its number (`parent` below child); a stack of frames per thread for the recursion of `_cancel`; timer threads are named by their context | each stretch under a context's lock, each call made outside it. The order of children is not kept |
| `RWMutex` | the three counters; `asleep`, the threads nobody notified; `pc` | from one sleep to the next, since all runs under the condition's lock |
| `WaitGroup`, `ErrGroup` | `count`, `asleep`, `sem`, `exc`, `cancelled`; `routine[r]` where a routine is between `go()` and its end | each stretch under a lock, each line of `wrapped` that changes state. `covers[a]` remembers whom a `wait()` found. A routine of `Watching` ends when `cancelled` is set; `ParentCancels` sets it from outside |
| `Once` | `done`, `value`/`exc` as `result`, the lock | each access to `done` or to the result, `fn` itself two steps |
| `Scheduler` | `idle`, mailboxes, the fields of each `Handle`; `sub` and `task`, the variables of `submit` and of the worker loop that refer to a task; `size` is `_worker_stack_size`, `platform` what `threading.stack_size()` would return, `holder` who has `_stack_lock` | each access to the idle stack, a mailbox, a handle or the stack size. A window is `OpenWindow`, `Start` or `StartFails`, `Restore` (in `set_worker_stack_size`, `Tune` and `Keep`). `Delete` is `__del__`: nothing refers to the handle |
| `Detector` | `_parked`, `_pending_timers`, `enabled`, the scheduler's `_active`, each watcher's `last` and `warned_for`; `pc` of the watched threads | each stretch under the detector's lock, the read of `enabled` before it, the read of `_active` before the watcher takes it. All waits are of one kind. Each `enable` makes a watcher; one that was turned off only ends |
| `Merge` | `remaining`; `ppc` where the pump is | each operation of the pump on a channel |

## 3. Checks

Bounds: `MaxOps` is the number of calls per thread, `Procs` the threads, `Calls`
the calls each may make, `Cap` the capacities.

| run | instance | shows |
|---|---|---|
| `Chan` | a sender, a receiver, a thread that does either or closes; 2 calls each, blocking, timed and `try_`; one slot | types, exactly once, results, nobody stranded, the promise of `GoChan`; decided calls return, a close wakes everybody |
| `Select` | selects that face each other on two unbuffered channels, that offer both directions of one, or meet a third channel with a slot; plain calls, `default`, a close | the promise, so at most one case of a select fires; matching cases never sleep past each other, the locks do not deadlock, decided calls return |
| `Aio` | a task that selects, a task with plain calls, a thread that does both; two channels, cancellation, a loop that closes | the promise, also to tasks; no live offer of a call that is over; a task without a timeout is told what happened; timed calls return |
| `AioTimeout` | a task that receives with a timeout, a thread that sends | finding |
| `RWMutex` | 3 readers and 2 writers, without bound on their calls | exclusion, no lost wake-up, preference; writers get in |
| `ErrGroup` | 1 thread, 4 routines, 2 slots; two routines add to their group, one ends only when the context is cancelled, one may fail to start; the parent may cancel | limit and report; waits cover their routines, nobody sleeps on zero; slots and counts come back; calls return, siblings stop early |
| `Scheduler` | 2 threads, 3 tasks, one joining another, one that may find no thread; 2 workers; a stack size is set and reset | `TaskPool`: each accepted task runs once, all of them end; no failure vanishes, a dropped one is reported; no window is left open or overlaps another |
| `Context` | 3 contexts, 2 threads, deadlines on children and inherited by grandchildren | one timer thread may not start; a reason comes once, from above or from outside; no timer that runs is uncounted; cancellation and deadlines arrive |
| `ContextTimerLeak` | the same with later deadlines | finding |
| `Timers` | a timer, a ticker, either of which may find no thread, two threads that stop and close | exact count, silence after stop; ticks go on until the channel closes, then the ticker ends |
| `Detector` | the main thread, 2 routines, a timer, 2 watchers, the second of which may find no thread | exact counts, also of threads parked while it is turned off and on; a deadlock is reported, by the second watcher too |
| `Merge` | two inputs, the first with a slot and given twice; unbuffered output the consumer may close | nothing taken is lost; closes when drained, and not before |

Every module states its types. Where they say more than the domains of the
variables (exact counts) a run checks them; those of `Chan`, `RWMutex`,
`Scheduler` and `Timers` are proved, the others are there to be read, and to
start proofs from.

One run per component checks safety and liveness on one state graph, so that
each liveness property is about exactly the behaviours whose safety is checked.

Three threads are enough for the races of one waiter: its owner with its
timeout, and two threads that complete it. Two calls each let a stale entry of
an earlier call meet a later one. Two channels are enough for a cycle of locks.
The unbuffered case is in `Select` and `Aio` (plain calls among them), the
buffered one in `Chan`. Four routines are the fewest that fill a limit of two
with two that ask for another slot while one waits for the failure of a fourth;
two watchers are the fewest of which one finds what the other left; two sizes,
one of them 0, make a window overlap a submit that needs none; three contexts
the fewest with a grandchild and with siblings; three tasks on two workers make
a worker be used again. Threads stop when their calls are used up or when they
wait for ever, as Go routines may, so deadlock is not checked as such; being
stranded is what `NoMissedMatch` and the liveness properties exclude. `RWMutex`
checks deadlock, since its threads call without bound.

Fairness is weak fairness of every thread's next step inside the library, no
more: the operating system runs every thread, a thread's call never waits for a
thread that is not inside the library except where it parks. Likewise the event
loop runs its callbacks, a timer whose delay is over fires, a woken thread gets
its condition's lock, a function run by a routine ends unless it waits, the
watcher's interval ends, and unreferenced handles are collected. What users do
(call, cancel, stop, close) is never assumed, but for three things the run
states: whoever holds an `RWMutex` gives it up, the routines of a group end, the
consumer of `merge` goes on reading. An idle worker's timeout is not assumed:
nothing may depend on it. Nothing obliges a
thread to make another call. With a bounded number of calls no lock is contended
for ever, so weak fairness suffices for the locks although Python's locks are
not fair.

### Findings

* `ContextTimerLeak`. A context with a deadline joins its parent's children
  before it has its timer. A parent cancelled in between leaves it with a timer
  that is counted afterwards and never given back: the deadlock detector, which
  keeps quiet while timers are pending, stays quiet for ever. `TimersBalance`
  fails; what does hold is `TimersCovered`: the detector never overlooks a
  timer.
* `AioTimeout`. The timeout callback of `aio` resolves the future although it
  lost the `commit()`. Between `commit()` and `finish()` of a sender the task
  then reads a value that is not there: `aio.recv` returns the sentinel
  `_UNSET`, and the sent value is lost. (`aio.send` fails its assertion there.)
  `TasksAgree` is therefore about calls without a timeout.

### Observations

Behaviour met while modelling that differs from what a reader may expect. The
models contain the steps, or the sentence says that they do not; no run is about
them.

* `ErrGroup.go` takes a slot and a count (`_sync.py:230-231`), then starts the
  routine (248). If the thread cannot be started neither is given back and
  `wait()` never returns. `StartFails` is in the model; `SlotsReturn` and
  `GroupLive` say what holds in spite of it. `WaitGroup.go` has the same order.
* Other threads that do not start leave as much behind. `Timer` and `tick` stay
  counted (`_select.py:305`, `379`), so the detector keeps quiet; a ticker stops
  ticking with its channel open (375). `with_deadline` raises, but its context
  stays among its parent's children (`_context.py:112`) and its timer is counted
  until the parent cancels it. `enable_deadlock_detection` raises and leaves the
  detector on, without a watcher (`_debug.py:85`); enabling it again does
  nothing. `go` itself gives the worker and its task up, and closes its window
  (`_routines.py:109`). All are in the models (`StartFails`, `Enable`).
* Routines that call `go()` of their own limited group can hold all its slots
  and wait for another one for ever (`HoldAndWait`); `GroupLive` excepts it.
* A worker for which the default size was read starts without `_stack_lock`
  (`_routines.py:112-114`). When another thread is inside its window at that
  instant (104-110, also 66-68) it gets that one's small stack, even if
  `set_worker_stack_size(0)` has returned before, which "restores the platform
  default" (55). So does any thread the program starts itself then.
  `WindowsClosed` is about the workers that open a window.
* `WaitGroup.add` raises when the counter gets negative, but keeps it
  (`_sync.py:31-33`): routines counted later are hidden by it, and `wait()`
  returns while they run. The models do not call `done()` too often.
* A waiter of a closed event loop that is still in a queue makes `finish()`
  raise (`aio.py:64`); `close()` passes it on from the middle of its snapshot
  (`_chan.py:255-260`) and whoever comes later in it stays parked. The model has
  the step (`FinishRaises`); `CloseWakes` is not claimed for `Aio`.
* `select(..., default=True)` polls its cases one at a time (`_select.py:208`)
  and never looks at all of them at once, so it can answer "nothing was ready"
  when at every instant something was. `GoChan!Decline` allows it.
* Closing the output of `merge` does not stop a pump that is parked on its
  inputs (`_helpers.py:41`): it takes one value sent later, and drops it.
  `CarriesEverything` allows that one.
* The handles `ErrGroup.go` returns are never reported by the hook for failures
  nobody collected: the group raises the first error from `wait()`
  (`_sync.py:252`). `NothingVanishes` is about the handles of `go()`, and
  `ErrorReported` about those of a group.
* `DeadlockReported` takes a warning given earlier for the same picture of
  parked threads for the report: as long as the picture stays the same the
  watcher does not repeat itself (`_debug.py:119`).
* The detector warns although a parked routine was already woken and has not
  yet run `park_end` (`_debug.py:117`), or although a timer has left the count
  and is about to send (`_select.py:314`): both samples see the same picture.
* A negative timeout, which the models do not have: `recv(timeout=-0.5)`
  registers its waiter and then raises `ValueError` from `Lock.acquire`
  (`_chan.py:105`). The waiter stays, the next sender completes it, and the
  value is gone.

Mutated forms (`Bug...`) stand before the definition they would replace; each
property of a run is violated when one of them takes its place.

## 4. Proofs

TLAPS proves every theorem for all values of the constants. Each rests on an
inductive invariant, which TLC checked, where the component has a run, on that
run's instance before it was proved (but for the bound on the locks held, which
ranges over all numbers). A theorem about a property of section 3 says of every
instance what the run says of one.

| module | theorem | proves |
|---|---|---|
| `GoChanProofs` | `PromiseExactlyOnce` | `ExactlyOnce` of the abstract channel |
| `ChanProofs` | `Implements` | `Promise`: `Chan` implements `GoChan` |
| | `DeliversExactlyOnce` | `ExactlyOnce` of `Chan` |
| | `NobodyStranded`, `CallersLearn`, `TypeCorrect` | `NoMissedMatch`, `ReturnsAgree`, `TypeOK` |
| | `SelectImplements`, `AioImplements` | `Promise` of `Select`, `AioPromise` of `Aio` |
| | `SelectDeliversExactlyOnce`, `TasksExactlyOnce` | `ExactlyOnce` of `Select` and of `Aio` |
| | `SelectStrandsNobody`, `TasksNotStranded` | `NoMissedMatch` of `Select` and of `Aio` |
| | `SelectTells`, `NoCycleOfLocks` | `ReturnsAgree`, `HolderCanGoOn` of `Select` |
| | `LeavesNothingAlive`, `TasksLearn` | `NoLiveGhosts`, `TasksAgree` of `Aio` |
| `SchedulerProofs` | `WorkersImplementPool` | `Scheduler` implements `TaskPool`, fairness apart |
| | `StackSizeIsPrivate`, `FailuresDoNotVanish`, `WaitingWorkersHoldNothing` | `WindowsClosed`, `NothingVanishes`, `TypeOK` |
| `ContextProofs` | `ReasonsFlowDown`, `DeadlinesAreCounted` | `FlowsDown`, `TimersCovered` |
| | `CancellationCascades` | `Cascaded`: nobody is missed |
| `GroupProofs` | `WaitersCovered`, `NobodyAsleepOnZero` | `WaitCovers`, `NoLostWakeup` of `WaitGroup` |
| | `GroupWaitCovers`, `GroupNoLostWakeup` | the same of `ErrGroup` |
| | `SlotsAndCountsReturn`, `FailuresAreReported` | `SlotsReturn`, `ErrorReported` |
| `TimersProofs` | `CountExact`, `StopSilences` | `TimersTypeOK`: the count of pending timers is exact; `StoppedIsSilent` |
| | `DetectorCountsExact` | `DetectorTypeOK`: the detector's counts are exact |
| `MergeProofs` | `ClosesOnlyDrained`, `NothingLeftBehind` | `ClosesWhenDrained`, `CarriesEverything` |
| | `NothingLostAtClose` | `CloseLosesNothing`: from the pump's close of the output on, the inputs are closed and empty and what the pump took was accepted |
| `SyncProofs` | `MutualExclusion`, `NobodyForgotten`, `WritersFirst`, `TypeCorrect` | `Exclusion`, `NoLostWakeup`, `WriterFirst`, `TypeOK` |
| | `OneRun` | `FirstResult` of `Once` |

### Channels

`GoChanProofs`. `ExactlyOnce` alone is not inductive: an operation about to
receive might already hold a value. The invariant `GoInv` adds `Fresh`: an
operation that is not decided holds no value, a call not made is not decided.
Three lemmas carry the argument: deciding an operation without a value, putting
a value in a buffer, taking the oldest value from one. A rendezvous and a
refill are two of these in a row, so the lemmas speak of any outcomes and
buffers, also of those between the two halves of a step.

`ChanProofs`. That `Chan` implements `GoChan` is not a matter of its steps
alone: a sender that hands its value to an entry of a queue makes a rendezvous
only if the call that registered the entry is still undecided and parked there.
The invariant `IInv` says so, in parts: the state of each call's waiter follows
from where its thread is (`ThreadsOK`); a `finish()` that is owed is owed by one
thread, for a waiter that was claimed and is not released (`Hands`); waiters of
calls not made are untouched (`Future`); an entry of a queue belongs to its
thread's present call and offers what that call offers, and the thread is parked
and undecided, or gave up and has yet to withdraw it (`Queues`); an unclaimed
entry of the snapshot of `close()` is parked on a channel that is closed and, if
it receives, drained (`Snapshots`); and `NoMissedMatch`, which is what makes an
empty queue mean that nobody waits. Frame lemmas say, for each part, what a step
that moves few threads has to show; there is one lemma per action, and
`NextImplements` reads the steps of `GoChan` off a step of `Chan` that keeps
`IInv`. `DeliversExactlyOnce` is then `PromiseExactlyOnce` applied to the
concrete channel.

The locks of `Select`, whose threads are those that take several. `Climbs`: a
thread that is taking locks wants only channels above those it holds. `LetsGo`:
nobody else holds a lock from one step to the next, but for a thread in its
second pass or one that still has to `finish()`, and those wait for no lock. So
the holder of the highest lock held finds the next one free, however many
threads select over however many channels.

`select` does not satisfy `IInv`: its waiter is in as many queues as it has
cases, the first partner to commit it leaves the other entries behind, and each
of them stays until its channel's turn to be unregistered; in the snapshot of a
`close()` it may outlive the call. So `SInv`, the invariant of `Select`, says
nothing of an entry that somebody claimed. An unclaimed one stands for a case of
the call its thread is parked in (`LiveEntries`), or, in a snapshot of
`close()`, for a case that can only be refused (`LiveSnapshots`). A waiter is
claimed before it is released, is decided from then on, and stays so
(`Waiters`); whoever is woken, or owed a `finish()`, will read what happened to
its operation (`Delivered`). `PlaceOK` relates a thread's place to its waiter;
`LockOK` says, of the second pass, that every lock of the call is held and that
the cases already polled are still not ready. That is the point of the code's
second pass: when the waiter is put into all the queues no case is ready and no
partner is waiting, so `NoMissedMatch` holds of every new entry at once. `SInv`
holds of plain calls too; where `Chan` and `Select` overlap it replaces `IInv`,
and the polls, the commits and `close()` are proved about once more, for waiters
with several entries. With what a thread has left to do before it returns
(`ToldOK`) it gives `SelectTells`.

`AInv` adds to it what `Aio` has of its own: a future is done only when the
waiter is claimed (`FuturesOK`), and that of a call without a timeout only when
it is released (`TaskOK`). A cancelled task first claims its own waiter, with
nothing delivered, so every entry of it is dead before the task returns: that is
`NoLiveGhosts`. `AioImplements` reads each step as one of `GoChan` or as
`Abandon`, the cancellation of an operation nobody has decided; `Abandon` keeps
the invariant of `GoChanProofs`, so values are delivered exactly once to tasks
as well (`TasksExactlyOnce`). That is about what operations did: a cancelled
task drops what it received, and the finding `AioTimeout` is about a task that
is not told.

### Scheduler

`SInv` says where a task is between `submit()` and its end: with its owner's
`submit`, in exactly one mailbox, or with one worker (`SubmitOK`, `Mail`,
`WorkOK`, `OneStarter`, `OneRunner`). A worker on the idle stack has been
started (`IdleOK`); whether it then retires or takes the task that was put in
its mailbox is decided by who removes it from the stack, and nothing else has to
be known of it. `Windows`: whoever holds `_stack_lock` is inside its window and
found the default size there, and while nobody holds it the size is the default.
`Accounted` and `Garbage` tie the history of a task to its handle; a collected
handle is out of everybody's reach, so nobody can retrieve its exception any
more. The steps that `TaskPool` shows are the owner's acceptance, the start and
the end of a task; all the others leave its variables alone.

### Context

A call of `_cancel` runs over several steps and calls itself. `Calls` says that
every frame on a thread's stack carries its justification: the program called
`cancel()`, the deadline has passed, or the parent has the reason already; from
it `FlowsDown` follows. `Reached`: a child of a cancelled context is cancelled,
or is still in somebody's hands (a constructor about to look at its parent, a
frame about to claim it, a frame that took it from the parent's children). When
nobody is inside the library no hands are left: that is `Cascaded`. `Slots` and
`Balance`: the count is the number of timers for which `timer_started()` was
called less those for which `timer_finished()` was, and the second are among
those that were given up; so it never falls below the timers that run. It can be
above it: that is the finding `ContextTimerLeak`.

### Synchronisation

`SyncProofs`, of `RWMutex`: exclusion, the absence of lost wake-ups, the
preference of writers and the meaning of the counters. `TypeOK`, `Exclusion` and
`NoLostWakeup` are inductive together: none is alone, because the code tests
counters and the properties speak of threads. The lemma `Tests` translates one
into the other; `Regroup` says what one thread's move does to every group of
threads.

`GroupProofs`, of `WaitGroup`: that the counter is the number of routines inside
lets a zero stand for "everybody I found here has finished"; `Bookkeeping` adds
that a `wait()` covers no routine that is still to come. Routines may be
counted by `go()` or by the program, several at a time, in groups used again.
Of `ErrGroup`: a routine has its slot from `sem.acquire` on, before it is
counted (`Slots`, `Counted` speak of two sets), and keeps both for ever if its
thread does not start. `Errors`: whoever failed put its error on record before
it let itself be counted out, so a wait that saw zero finds it.

`SyncProofs`, of `Once`: `Phases` ties the flag that is read without the lock to
the executions. While it is down, an execution has ended only if its thread
still holds the lock, so whoever enters and finds it down is the first. `Once`
has no run: the theorem says more.

### Timers

`TInv`: `_fired` was set by the timer's thread, by one call of `stop()`, or by
nobody yet (`TimerOK`), and what each still has to do follows from that. The
count is the size of the set of timers counted, which each step changes by one
element at most.

`DInv`, of `Detector`: `DetectorTypeOK` says that the scheduler's count is the
number of routines between spawn and end, and the detector's the number of armed
timers; who turns the detector on and off, and how often, changes neither. The
rest of `DInv` is that the main thread is no routine: it neither spawns nor
ends, so it is never counted. `ThreadMoves` reduces a thread's step to whether
the thread counted before and counts after.

### `merge`

The pump and the program around it are clients of the channels of `GoChan`, so
`GoInv` holds here too. It says nothing of the pump; `PumpInv` does, and relates
the pump's place in its loop to its latest two calls. `InputsKept`: an input
that left the select is closed and empty, which it stays, as nothing enters a
closed channel; so the output is closed only when no value can come any more.
`PumpFits` and `ValuesSentOn`: the call after one that took a value sends that
value, and if it was refused the pump is at its end. `AtOver`: a pump that has
closed the output took nothing with its last two calls and has no input left.

`NothingLostAtClose` combines them with exactly-once delivery. When the pump
closes the output, and ever after, an accepted value cannot be in an input, so it
was received or lies in another channel; and if the pump received it, the pump's
next call was accepted by the output. A pump that removes the wrong case of its
select, or that goes on after a refused send, breaks this; exactly-once delivery
alone holds for those pumps too.

### What the proofs assume

| module | assumption | says |
|---|---|---|
| channels | `ChanAssumption`, `MarkerAssumption` | channels are numbered (the code's `id()`), capacities natural, calls well formed (finitely many cases, at least one), markers distinct from values |
| `Aio` | `AioAssumption` | tasks are among the threads |
| `RWMutex` | `RWAssumption` | readers and writers are finite, disjoint sets |
| groups | `GroupAssumption`, `LimitAssumption` | the routines are finite and no threads of the program; the limit is positive |
| `Scheduler` | `SchedulerAssumption` | every task has an owner; stack sizes are natural numbers |
| `Context` | `ContextAssumption` | numbers of contexts and deadlines are natural, a context may be any of the first `MaxCtx` |
| `Timers` | `TimersAssumption` | timers and tickers are finite, disjoint sets |
| `Detector` | `DetectorAssumption` | routines and timers are finite, the main thread is no routine |
| `Merge` | `MergeAssumption` | the pump and the consumer are two threads; at least one input, none of them the output |
| `Once` | `Names` | the markers for "no thread" and "no result" are neither |

The bounds that make TLC's instances finite (`MaxOps`, `MaxCtx`, `MaxTime`) are
any natural numbers here; threads, tasks, workers and channels may be infinitely
many where the table does not say otherwise.

### What is only model-checked

Liveness under fairness, the fairness of `PoolPromise` included: it is out of
the prover's reach. Every safety property that a passing run checks is proved.
`ReturnsAgree` is not claimed of `Aio`, where a task with a timeout may not be
told (finding `AioTimeout`); `TasksAgree` is what holds.

## 5. Plan

Done: every module of section 2 with its runs, and the theorems of section 4.

Next: models of `ErrGroup` on the contexts of `Context`, of the detector on the
waits of `Chan`, and of `iterate` and the views if a property calls for them.

## 6. Not modelled

`Mutex` and `synchronized` (a lock with other method names), `join()`, which
only looks, `set_excepthook()`, which only replaces the reporter, negative
timeouts, the views and iterators of channels, which only forward, and programs
that unlock what they do not hold, call `done()` too often or `set_limit()` on a
group in use, for which the code raises. The length of the detector's interval
and of timeouts: any of them may end at any moment. Formatting, messages, type
annotations, the GIL warning at import, benchmarks and examples. Exceptions
raised asynchronously into a thread (KeyboardInterrupt) are outside the models:
they can hit between any two bytecodes and the code makes no claim about them.
