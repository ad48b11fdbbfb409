------------------------------ MODULE Context ------------------------------
(***************************************************************************)
(* The tree of contexts of _context.py: creation, which registers a child  *)
(* with its parent and may arm a deadline timer; cancel(), which cascades  *)
(* down the tree; deadlines, which cancel from a timer thread.             *)
(*                                                                         *)
(* A control stack per thread models the recursion of _cancel.  A stretch  *)
(* under a context's lock is one step, so is each of timer.cancel() with   *)
(* timer_finished(), close() of the done channel, _remove_child().         *)
(* Children are a set: registrations race, so their order says nothing.    *)
(***************************************************************************)
EXTENDS Integers, Sequences, FiniteSets

CONSTANTS
  Procs,          \* threads that create and cancel contexts
  MaxCtx,         \* bound: contexts created
  Unstartable,    \* those whose timer's thread may not start ("can't start new thread")
  MaxTime,        \* bound: moments of time.monotonic()
  RootDeadlines,  \* deadlines passed with parent background()
  ChildDeadlines, \* deadlines passed with another parent
  NoReason        \* _err is None

Background == 0
Ctx == 1..MaxCtx
Never == MaxTime + 1    \* no deadline
Reasons == {"canceled", "deadline"}

ASSUME ContextAssumption ==
  /\ MaxCtx \in Nat /\ MaxTime \in Nat
  /\ RootDeadlines \cup ChildDeadlines \subseteq 0..Never
  /\ Procs \cap Ctx = {} /\ Unstartable \subseteq Ctx
  /\ NoReason \notin Reasons

Threads == Procs \cup Ctx   \* the timer thread of context c is named c

VARIABLES
  made,      \* contexts created so far: 1..made
  parent,    \* _parent
  own,       \* own[c]: a deadline was passed for c
  deadline,  \* _deadline
  err,       \* _err
  done,      \* done[c]: the done channel is closed
  children,  \* _children
  slot,      \* slot[c]: _timer holds c's timer
  timer,     \* timer[c]: "none", "running", "stopped", "over", "failed"
  pending,   \* _pending_timers of the deadlock detector
  now,       \* time.monotonic()
  stack      \* stack[a]: frames [at, c, exc, kids], innermost last

vars == <<made, parent, own, deadline, err, done, children, slot, timer, pending, now, stack>>
tree == <<made, parent, own, deadline>>

Init ==
  /\ made = 0
  /\ parent = [c \in Ctx |-> Background]
  /\ own = [c \in Ctx |-> FALSE]
  /\ deadline = [c \in Ctx |-> Never]
  /\ err = [c \in Ctx |-> NoReason]
  /\ done = [c \in Ctx |-> FALSE]
  /\ children = [c \in Ctx |-> {}]
  /\ slot = [c \in Ctx |-> FALSE]
  /\ timer = [c \in Ctx |-> "none"]
  /\ pending = 0
  /\ now = 0
  /\ stack = [a \in Threads |-> <<>>]

-----------------------------------------------------------------------------
(* Control.                                                                *)

Frame(at, c, exc) == [at |-> at, c |-> c, exc |-> exc, kids |-> {}]
Depth(a) == Len(stack[a])
Top(a) == stack[a][Depth(a)]
Below(a) == SubSeq(stack[a], 1, Depth(a) - 1)

Do(a, frames) == stack' = [stack EXCEPT ![a] = frames]
Return(a) == Do(a, Below(a))
Jump(a, at) == Do(a, Append(Below(a), [Top(a) EXCEPT !.at = at]))
CallCancel(a, at, c, exc) ==
  Do(a, Below(a) \o <<[Top(a) EXCEPT !.at = at], Frame("claim", c, exc)>>)

InFrame(a, at) == stack[a] # <<>> /\ Top(a).at = at
Idle(a) == stack[a] = <<>>

(* The program has context c once its constructor returned.                *)
Constructing == {stack[p][1].c : p \in {q \in Procs :
  ~Idle(q) /\ stack[q][1].at \in {"register", "arm", "count", "start", "built"}}}
Known == {c \in (1..made) \ Constructing : timer[c] # "failed"}

-----------------------------------------------------------------------------
(* "if self._err is not None: return", and the same test of the parent.    *)
BugNotSettled(c) == FALSE
Settled(c) == err[c] # NoReason

(* with_cancel, with_deadline: _CancelContext.__init__.                    *)

Effective(d, q) ==
  IF q # Background /\ deadline[q] < d THEN deadline[q] ELSE d

New(p) ==
  /\ Idle(p)
  /\ made < MaxCtx
  /\ made' = made + 1
  /\ \E q \in Known \cup {Background} :
     \E d \in IF q = Background THEN RootDeadlines ELSE ChildDeadlines :
       /\ parent' = [parent EXCEPT ![made'] = q]
       /\ own' = [own EXCEPT ![made'] = d # Never]
       /\ deadline' = [deadline EXCEPT ![made'] = Effective(d, q)]
  /\ Do(p, <<Frame("register", made', NoReason)>>)
  /\ UNCHANGED <<err, done, children, slot, timer, pending, now>>

(* Join the parent's children, or inherit its reason.                      *)
Register(p) ==
  LET c == Top(p).c
      q == parent[c]
  IN  /\ InFrame(p, "register")
      /\ IF q # Background /\ Settled(q)
         THEN CallCancel(p, "built", c, err[q]) /\ UNCHANGED children
         ELSE /\ children' = IF q = Background THEN children
                             ELSE [children EXCEPT ![q] = @ \cup {c}]
              /\ Jump(p, "arm")
      /\ UNCHANGED <<tree, err, done, slot, timer, pending, now>>

(* A context given a deadline of its own arms a timer: _timer is set       *)
(* without the lock, timer_started(), t.start().                           *)
BugParentsTimer(c) == own[c] /\ parent[c] = Background
OwnsTimer(c) == own[c]
Arm(p) ==
  LET c == Top(p).c
  IN  /\ InFrame(p, "arm")
      /\ IF ~OwnsTimer(c) THEN Return(p) /\ UNCHANGED slot
         ELSE IF deadline[c] <= now THEN CallCancel(p, "built", c, "deadline") /\ UNCHANGED slot
         ELSE Jump(p, "count") /\ slot' = [slot EXCEPT ![c] = TRUE]
      /\ UNCHANGED <<tree, err, done, children, timer, pending, now>>

CountTimer(p) ==
  /\ InFrame(p, "count")
  /\ pending' = pending + 1
  /\ Jump(p, "start")
  /\ UNCHANGED <<tree, err, done, children, slot, timer, now>>

StartTimer(p) ==
  LET c == Top(p).c
  IN  /\ InFrame(p, "start")
      /\ timer' = [timer EXCEPT ![c] = IF @ = "stopped" THEN @ ELSE "running"]
      /\ Return(p)
      /\ UNCHANGED <<tree, err, done, children, slot, pending, now>>

(* The exception leaves the constructor: nobody has the context, but its   *)
(* parent keeps it, and its timer is counted.                              *)
StartFails(p) ==
  LET c == Top(p).c
  IN  /\ InFrame(p, "start")
      /\ c \in Unstartable
      /\ timer' = [timer EXCEPT ![c] = "failed"]
      /\ Return(p)
      /\ UNCHANGED <<tree, err, done, children, slot, pending, now>>

(* The constructor returns after a cancel it made itself.                  *)
Built(p) ==
  /\ InFrame(p, "built")
  /\ Return(p)
  /\ UNCHANGED <<tree, err, done, children, slot, timer, pending, now>>

-----------------------------------------------------------------------------
(* _cancel.                                                                *)

Cancel(p) ==
  /\ Idle(p)
  /\ \E c \in Known : Do(p, <<Frame("claim", c, "canceled")>>)
  /\ UNCHANGED <<tree, err, done, children, slot, timer, pending, now>>

(* _on_deadline, in the timer's thread.                                    *)
Fire(c) ==
  /\ timer[c] = "running"
  /\ now >= deadline[c]
  /\ timer' = [timer EXCEPT ![c] = "over"]
  /\ Do(c, <<Frame("claim", c, "deadline")>>)
  /\ UNCHANGED <<tree, err, done, children, slot, pending, now>>

(* Under the lock: the first reason wins and takes children and timer.     *)
BugAlwaysStop(a) ==
  LET c == Top(a).c
  IN  /\ InFrame(a, "claim")
      /\ ~Settled(c)
      /\ err' = [err EXCEPT ![c] = Top(a).exc]
      /\ children' = [children EXCEPT ![c] = {}]
      /\ slot' = [slot EXCEPT ![c] = FALSE]
      /\ Do(a, Append(Below(a), [Top(a) EXCEPT !.at = "stop", !.kids = children[c]]))
      /\ UNCHANGED <<tree, done, timer, pending, now>>
Claim(a) ==
  LET c == Top(a).c
  IN  /\ InFrame(a, "claim")
      /\ IF Settled(c)
         THEN Return(a) /\ UNCHANGED <<err, children, slot>>
         ELSE /\ err' = [err EXCEPT ![c] = Top(a).exc]
              /\ children' = [children EXCEPT ![c] = {}]
              /\ slot' = [slot EXCEPT ![c] = FALSE]
              /\ Do(a, Append(Below(a), [Top(a) EXCEPT !.at = IF slot[c] THEN "stop" ELSE "close",
                                                       !.kids = children[c]]))
      /\ UNCHANGED <<tree, done, timer, pending, now>>

StopTimer(a) ==
  LET c == Top(a).c
  IN  /\ InFrame(a, "stop")
      /\ timer' = [timer EXCEPT ![c] = IF @ \in {"over", "failed"} THEN @ ELSE "stopped"]
      /\ pending' = pending - 1
      /\ Jump(a, "close")
      /\ UNCHANGED <<tree, err, done, children, slot, now>>

BugSkipClose(a) ==
  /\ InFrame(a, "close")
  /\ Jump(a, "kids")
  /\ done' = IF Top(a).kids = {} THEN [done EXCEPT ![Top(a).c] = TRUE] ELSE done
  /\ UNCHANGED <<tree, err, children, slot, timer, pending, now>>
CloseDone(a) ==
  /\ InFrame(a, "close")
  /\ done' = [done EXCEPT ![Top(a).c] = TRUE]
  /\ Jump(a, "kids")
  /\ UNCHANGED <<tree, err, children, slot, timer, pending, now>>

CancelChild(a) ==
  /\ InFrame(a, "kids")
  /\ \E k \in Top(a).kids :
       Do(a, Below(a) \o <<[Top(a) EXCEPT !.kids = @ \ {k}], Frame("claim", k, Top(a).exc)>>)
  /\ UNCHANGED <<tree, err, done, children, slot, timer, pending, now>>

LeaveParent(a) ==
  LET c == Top(a).c
  IN  /\ InFrame(a, "kids")
      /\ Top(a).kids = {}
      /\ children' = IF parent[c] = Background THEN children
                     ELSE [children EXCEPT ![parent[c]] = @ \ {c}]
      /\ Return(a)
      /\ UNCHANGED <<tree, err, done, slot, timer, pending, now>>

-----------------------------------------------------------------------------
Tick == now < MaxTime /\ now' = now + 1 /\ UNCHANGED <<tree, err, done, children, slot, timer, pending, stack>>

Step(a) ==
  \/ Claim(a)
  \/ StopTimer(a)
  \/ CloseDone(a)
  \/ CancelChild(a)
  \/ LeaveParent(a)

Construct(p) == Register(p) \/ Arm(p) \/ CountTimer(p) \/ StartTimer(p) \/ StartFails(p) \/ Built(p)

Next ==
  \/ \E p \in Procs : New(p) \/ Cancel(p) \/ Construct(p)
  \/ \E a \in Threads : Step(a)
  \/ \E c \in Ctx : Fire(c)
  \/ Tick

Spec == Init /\ [][Next]_vars

(* Threads run, timers fire, time passes.                                  *)
FairSpec ==
  /\ Spec
  /\ \A p \in Procs : WF_vars(Construct(p))
  /\ \A a \in Threads : WF_vars(Step(a))
  /\ \A c \in Ctx : WF_vars(Fire(c))
  /\ WF_vars(Tick)

-----------------------------------------------------------------------------
Quiet == \A a \in Threads : Idle(a)
Cancelled(c) == err[c] # NoReason

(* Types; a context whose done channel is closed has a reason; one that    *)
(* has a reason keeps no children.                                         *)
TypeOK ==
  /\ made \in 0..MaxCtx
  /\ parent \in [Ctx -> 0..MaxCtx] /\ \A c \in Ctx : parent[c] < c
  /\ deadline \in [Ctx -> 0..Never]
  /\ err \in [Ctx -> Reasons \cup {NoReason}]
  /\ \A c \in Ctx : done[c] => Cancelled(c)
  /\ children \in [Ctx -> SUBSET Ctx]
  /\ \A c \in Ctx : Cancelled(c) => children[c] = {}
  /\ timer \in [Ctx -> {"none", "running", "stopped", "over", "failed"}]
  /\ pending \in -MaxCtx..MaxCtx
  /\ now \in 0..MaxTime

(* "Cancelling a child never affects its parent": a context gets its       *)
(* reason once, because cancel() was called on it, its deadline passed, or *)
(* its parent has that reason.                                             *)
FlowsDown ==
  [][\A c \in Ctx : err'[c] # err[c] =>
       /\ ~Cancelled(c)
       /\ \/ \E p \in Procs : stack[p] = <<Frame("claim", c, "canceled")>> /\ err'[c] = "canceled"
          \/ err'[c] = "deadline" /\ now >= deadline[c]
          \/ parent[c] # Background /\ err'[c] = err[parent[c]]]_vars

(* The detector's count of pending timers is the number of timers that     *)
(* will fire: "exactly one of them gets a non-None timer balances the      *)
(* pending count" (_cancel).                                               *)
TimersBalance ==
  Quiet => pending = Cardinality({c \in Ctx : timer[c] = "running" /\ ~Cancelled(c)})

(* The detector never takes a timer that will fire for none: when nobody   *)
(* is inside the library it counts every timer that runs.                  *)
TimersCovered == Quiet => pending >= Cardinality({c \in Ctx : timer[c] = "running"})

(* Whoever parks on done() of a cancelled context or of one below it is    *)
(* woken.                                                                  *)
CancelReaches ==
  \A c \in Ctx :
    (c <= made /\ (Cancelled(c) \/ (parent[c] # Background /\ Cancelled(parent[c])))) ~> done[c]

(* A deadline is kept, by the context's own timer or its parent's; unless  *)
(* the timer did not start, so that with_deadline() raised.                *)
DeadlineKept ==
  \A c \in Ctx : (c <= made /\ now >= deadline[c]) ~> (Cancelled(c) \/ timer[c] = "failed")
=============================================================================
