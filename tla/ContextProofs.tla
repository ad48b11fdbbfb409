--------------------------- MODULE ContextProofs ---------------------------
(***************************************************************************)
(* What cancel(), deadlines and their timers can rely on in the tree of    *)
(* contexts, for any threads, any number of contexts and any deadlines.    *)
(*                                                                         *)
(* Every call of _cancel carries its justification with it (Calls): the    *)
(* program called cancel(), the deadline passed, or the parent already has *)
(* the reason; and what a call took from its context it still has to deal  *)
(* with (Reached, Slots).                                                  *)
(***************************************************************************)
EXTENDS Context, FiniteSetTheorems, SequenceTheorems, TLAPS

Constructor == {"register", "arm", "count", "start"}
AfterClaim == {"stop", "close", "kids"}
Ats == {"register", "arm", "count", "start", "built", "claim", "stop", "close", "kids"}

Made == 1..made
Frames == [at : Ats, c : Ctx, exc : Reasons \cup {NoReason}, kids : SUBSET Ctx]

Types ==
  /\ made \in 0..MaxCtx
  /\ parent \in [Ctx -> 0..MaxCtx]
  /\ own \in [Ctx -> BOOLEAN]
  /\ deadline \in [Ctx -> 0..Never]
  /\ err \in [Ctx -> Reasons \cup {NoReason}]
  /\ done \in [Ctx -> BOOLEAN]
  /\ children \in [Ctx -> SUBSET Ctx]
  /\ slot \in [Ctx -> BOOLEAN]
  /\ timer \in [Ctx -> {"none", "running", "stopped", "over", "failed"}]
  /\ pending \in Int
  /\ now \in 0..MaxTime
  /\ stack \in [Threads -> Seq(Frames)]

(* The tree: a parent is older; children are registered with the right     *)
(* context; nothing is known of a context that is not made.                *)
Tree ==
  /\ \A c \in Ctx : parent[c] < c
  /\ \A q \in Ctx : \A c \in children[q] : c \in Made /\ parent[c] = q
  /\ \A c \in Ctx : Cancelled(c) => children[c] = {}
  /\ \A c \in Ctx : done[c] => Cancelled(c)
  /\ \A c \in Ctx \ Made : ~Cancelled(c) /\ ~slot[c] /\ timer[c] = "none"

(* Why _cancel may be called with a reason.                                *)
Justified(a, c, exc) ==
  \/ a \in Procs /\ stack[a] = <<Frame("claim", c, "canceled")>> /\ exc = "canceled"
  \/ exc = "deadline" /\ now >= deadline[c]
  \/ parent[c] # Background /\ exc \in Reasons /\ err[parent[c]] = exc

(* The frame a thread is in, and those beneath it.                         *)
OneFrame(a, i) ==
  LET f == stack[a][i]
  IN  /\ f.c \in Made
      /\ i < Depth(a) => f.at \in {"built", "kids"}
      /\ f.at \in Constructor => a \in Procs /\ i = 1
      /\ f.at = "claim" => Justified(a, f.c, f.exc)
      /\ f.at \in AfterClaim =>
           f.exc \in Reasons /\ err[f.c] = f.exc /\ \A k \in f.kids : k \in Made /\ parent[k] = f.c
Calls == \A a \in Threads : \A i \in 1..Depth(a) : OneFrame(a, i)

Working(a, at, c) == InFrame(a, at) /\ Top(a).c = c
In(at, c) == \E a \in Threads : Working(a, at, c)
Building(a, c) == \E at \in Constructor : Working(a, at, c)

(* A context has one constructor; one call of _cancel got its timer.       *)
Alone ==
  /\ \A a, b \in Threads : \A c \in Ctx : Building(a, c) /\ Building(b, c) => a = b
  /\ \A a, b \in Threads : \A c \in Ctx : Working(a, "stop", c) /\ Working(b, "stop", c) => a = b
  /\ \A c \in Ctx : stack[c] # <<>> => timer[c] = "over"

(* Where a timer is: not made before "arm" is over, then in _timer or with *)
(* the call that took it from there.                                       *)
Unarmed(c) == In("register", c) \/ In("arm", c)
Starting(c) == In("count", c) \/ In("start", c)
OneSlot(c) ==
  /\ Unarmed(c) => timer[c] = "none" /\ ~slot[c] /\ ~In("stop", c)
  /\ Starting(c) => timer[c] \in {"none", "stopped"}
  /\ timer[c] = "none" => (Starting(c) <=> slot[c] \/ In("stop", c))
  /\ timer[c] = "running" => slot[c] \/ In("stop", c)
  /\ In("stop", c) => ~slot[c]
Slots == \A c \in Ctx : OneSlot(c)

(* timer_started() was called for the timers of one set, timer_finished()  *)
(* for those of the other.                                                 *)
IsCounted(c) == In("start", c) \/ (timer[c] # "none" /\ ~In("count", c))
IsFinished(c) == timer[c] # "none" /\ ~slot[c] /\ ~In("stop", c)
Counted == {c \in Ctx : IsCounted(c)}
Finished == {c \in Ctx : IsFinished(c)}
Balance == pending = Cardinality(Counted) - Cardinality(Finished)

(* A cancelled context's done channel is closed or about to be; a child is *)
(* known to its parent or cancelled with it.                               *)
HasKid(a, q, k) ==
  \E i \in 1..Depth(a) :
    stack[a][i].at \in AfterClaim /\ stack[a][i].c = q /\ k \in stack[a][i].kids
Closing(c) == Cancelled(c) => done[c] \/ In("stop", c) \/ In("close", c)
InHand(c) ==
  \/ In("register", c)
  \/ In("claim", c)
  \/ ~Cancelled(parent[c]) /\ c \in children[parent[c]]
  \/ \E a \in Threads : HasKid(a, parent[c], c)
Reached ==
  /\ \A c \in Ctx : Closing(c)
  /\ \A c \in Made : parent[c] # Background => Cancelled(c) \/ InHand(c)

CInv == Types /\ Tree /\ Calls /\ Alone /\ Slots /\ Balance /\ Reached

-----------------------------------------------------------------------------
(* Control stacks.                                                         *)

LEMMA CInvParts ==
  ASSUME CInv
  PROVE  Types /\ Tree /\ Calls /\ Alone /\ Slots /\ Balance /\ Reached
BY DEF CInv

LEMMA Numbers ==
  /\ Ctx \subseteq Threads /\ Procs \subseteq Threads /\ Procs \cap Ctx = {}
  /\ \A c \in Ctx : c \in Nat /\ c # Background
  /\ IsFiniteSet(Ctx) /\ Never \in Nat /\ MaxCtx \in Nat
  /\ NoReason \notin Reasons /\ "canceled" \in Reasons /\ "deadline" \in Reasons
<1>1. IsFiniteSet(1..MaxCtx)
  BY ContextAssumption, FS_Interval
<1> QED
  BY <1>1, ContextAssumption DEF Ctx, Threads, Background, Never, Reasons

LEMMA Named ==
  ASSUME Types
  PROVE  Made \subseteq Ctx /\ \A c \in Ctx : parent[c] # Background => parent[c] \in Ctx
<1>1. \A c \in Ctx : parent[c] \in 0..MaxCtx
  BY DEF Types
<1>2. made \in 0..MaxCtx
  BY DEF Types
<1> QED
  BY <1>1, <1>2, Numbers DEF Made, Ctx, Background

(* The three ways to change a stack, element by element.                   *)
LEMMA Dropped ==
  ASSUME NEW S, NEW s \in Seq(S), s # <<>>
  PROVE  LET r == SubSeq(s, 1, Len(s) - 1)
         IN  /\ r \in Seq(S) /\ Len(r) = Len(s) - 1
             /\ Len(s) \in Nat \ {0} /\ \A i \in 1..Len(r) : r[i] = s[i]
<1>1. Len(s) \in Nat \ {0}
  OBVIOUS
<1> DEFINE n == Len(s) - 1
<1>2. n \in Nat /\ n \in Int /\ 1 \in Int /\ \A i \in 1..n : s[i] \in S
  BY <1>1
<1> HIDE DEF n
<1>3. /\ SubSeq(s, 1, n) \in Seq(S)
      /\ Len(SubSeq(s, 1, n)) = IF 1 <= n THEN n - 1 + 1 ELSE 0
      /\ \A i \in 1..(n - 1 + 1) : SubSeq(s, 1, n)[i] = s[1 + i - 1]
  BY <1>2, SubSeqProperties
<1>4. Len(SubSeq(s, 1, n)) = n
  BY <1>2, <1>3
<1>5. \A i \in 1..n : SubSeq(s, 1, n)[i] = s[i]
  BY <1>2, <1>3
<1> QED
  BY <1>1, <1>3, <1>4, <1>5 DEF n

LEMMA Replaced ==
  ASSUME NEW S, NEW s \in Seq(S), s # <<>>, NEW f \in S
  PROVE  LET r == Append(SubSeq(s, 1, Len(s) - 1), f)
         IN  /\ r \in Seq(S) /\ Len(r) = Len(s) /\ r # <<>> /\ Len(s) \in Nat \ {0}
             /\ r[Len(r)] = f /\ \A i \in 1..(Len(s) - 1) : r[i] = s[i]
<1> DEFINE b == SubSeq(s, 1, Len(s) - 1)
<1>1. b \in Seq(S) /\ Len(b) = Len(s) - 1 /\ Len(s) \in Nat \ {0} /\ \A i \in 1..Len(b) : b[i] = s[i]
  BY Dropped
<1> HIDE DEF b
<1>2. Append(b, f) \in Seq(S) /\ Len(Append(b, f)) = Len(s) /\ Append(b, f)[Len(s)] = f
  BY <1>1
<1>3. \A i \in 1..(Len(s) - 1) : Append(b, f)[i] = s[i]
  BY <1>1
<1> QED
  BY <1>1, <1>2, <1>3 DEF b

LEMMA Pushed ==
  ASSUME NEW S, NEW s \in Seq(S), s # <<>>, NEW f \in S, NEW g \in S
  PROVE  LET r == SubSeq(s, 1, Len(s) - 1) \o <<f, g>>
         IN  /\ r \in Seq(S) /\ Len(r) = Len(s) + 1 /\ r # <<>> /\ Len(s) \in Nat \ {0}
             /\ r[Len(r)] = g /\ r[Len(s)] = f /\ \A i \in 1..(Len(s) - 1) : r[i] = s[i]
<1> DEFINE b == SubSeq(s, 1, Len(s) - 1)
           r == b \o <<f, g>>
<1>1. b \in Seq(S) /\ Len(b) = Len(s) - 1 /\ Len(s) \in Nat \ {0} /\ \A i \in 1..Len(b) : b[i] = s[i]
  BY Dropped
<1> HIDE DEF b
<1>2. r \in Seq(S) /\ Len(r) = Len(s) + 1
  BY <1>1
<1>3. \A i \in 1..(Len(s) - 1) : r[i] = s[i]
  BY <1>1
<1>4. r[Len(s)] = f /\ r[Len(s) + 1] = g
  BY <1>1
<1> QED
  BY <1>1, <1>2, <1>3, <1>4 DEF b

(* What a thread's step says of the others.                                *)
Only(a) ==
  /\ stack' \in [Threads -> Seq(Frames)]
  /\ \A b \in Threads \ {a} :
       /\ stack'[b] = stack[b]
       /\ \A at \in Ats : \A c \in Ctx : Working(b, at, c)' <=> Working(b, at, c)
       /\ \A q, k \in Ctx : HasKid(b, q, k)' <=> HasKid(b, q, k)

LEMMA StackSet ==
  ASSUME Types, NEW a \in Threads, NEW t \in Seq(Frames), Do(a, t)
  PROVE  Only(a) /\ stack'[a] = t
<1>1. stack' \in [Threads -> Seq(Frames)] /\ stack'[a] = t /\ \A b \in Threads \ {a} : stack'[b] = stack[b]
  BY DEF Types, Do
<1>2. \A b \in Threads \ {a} : \A at \in Ats : \A c \in Ctx : Working(b, at, c)' <=> Working(b, at, c)
  BY <1>1 DEF Working, InFrame, Top, Depth
<1>3. \A b \in Threads \ {a} : \A q, k \in Ctx : HasKid(b, q, k)' <=> HasKid(b, q, k)
  BY <1>1 DEF HasKid, Depth
<1> QED
  BY <1>1, <1>2, <1>3 DEF Only

LEMMA TopWorks ==
  ASSUME Types, NEW a \in Threads, stack[a] # <<>>
  PROVE  /\ Depth(a) \in Nat \ {0} /\ stack[a] \in Seq(Frames) /\ Top(a) \in Frames
         /\ Top(a) = stack[a][Depth(a)] /\ Depth(a) \in 1..Depth(a)
         /\ \A at \in Ats : \A c \in Ctx : Working(a, at, c) <=> Top(a).at = at /\ Top(a).c = c
<1>1. stack[a] \in Seq(Frames)
  BY DEF Types
<1>2. Depth(a) \in Nat \ {0} /\ stack[a][Depth(a)] \in Frames
  BY <1>1 DEF Depth
<1> QED
  BY <1>1, <1>2 DEF Top, Working, InFrame

LEMMA NewTop ==
  ASSUME NEW a \in Threads, stack'[a] \in Seq(Frames), stack'[a] # <<>>,
         NEW g \in Frames, stack'[a][Len(stack'[a])] = g
  PROVE  \A at \in Ats : \A c \in Ctx : Working(a, at, c)' <=> g.at = at /\ g.c = c
BY DEF Working, InFrame, Top, Depth

(* return.                                                                 *)
LEMMA Returned ==
  ASSUME Types, Calls, NEW a \in Threads, stack[a] # <<>>, Return(a)
  PROVE  /\ Only(a)
         /\ Len(stack'[a]) = Depth(a) - 1
         /\ \A i \in 1..(Depth(a) - 1) : stack'[a][i] = stack[a][i]
         /\ \A at \in Ats \ {"built", "kids"} : \A c \in Ctx : ~Working(a, at, c)'
<1>1. Below(a) \in Seq(Frames) /\ Len(Below(a)) = Depth(a) - 1 /\ Depth(a) \in Nat \ {0}
      /\ \A i \in 1..(Depth(a) - 1) : Below(a)[i] = stack[a][i]
  BY Dropped, TopWorks DEF Below, Depth
<1>2. Only(a) /\ stack'[a] = Below(a)
  BY <1>1, StackSet DEF Return
<1>3. ASSUME NEW at \in Ats \ {"built", "kids"}, NEW c \in Ctx, Working(a, at, c)'
      PROVE  FALSE
  <2>1. stack'[a] # <<>> /\ stack'[a][Len(stack'[a])].at = at
    BY <1>3 DEF Working, InFrame, Top, Depth
  <2>2. Depth(a) - 1 \in 1..(Depth(a) - 1)
    BY <1>1, <1>2, <2>1
  <2>3. OneFrame(a, Depth(a) - 1)
    BY <1>1, <2>2 DEF Calls
  <2>4. stack[a][Depth(a) - 1].at \in {"built", "kids"}
    BY <1>1, <2>3 DEF OneFrame
  <2> QED
    BY <1>1, <1>2, <2>1, <2>2, <2>4
<1> QED
  BY <1>1, <1>2, <1>3

(* The innermost frame goes on at another place.                           *)
LEMMA Turned ==
  ASSUME Types, NEW a \in Threads, stack[a] # <<>>, NEW f \in Frames,
         Do(a, Append(Below(a), f))
  PROVE  /\ Only(a)
         /\ Len(stack'[a]) = Depth(a) /\ stack'[a][Depth(a)] = f
         /\ \A i \in 1..(Depth(a) - 1) : stack'[a][i] = stack[a][i]
         /\ \A at \in Ats : \A c \in Ctx : Working(a, at, c)' <=> f.at = at /\ f.c = c
<1>1. stack[a] \in Seq(Frames)
  BY TopWorks
<1>2. LET r == Append(Below(a), f)
      IN  /\ r \in Seq(Frames) /\ Len(r) = Depth(a) /\ r # <<>>
          /\ r[Len(r)] = f /\ \A i \in 1..(Depth(a) - 1) : r[i] = stack[a][i]
  BY <1>1, Replaced DEF Below, Depth
<1>3. Only(a) /\ stack'[a] = Append(Below(a), f)
  BY <1>2, StackSet
<1>4. \A at \in Ats : \A c \in Ctx : Working(a, at, c)' <=> f.at = at /\ f.c = c
  BY <1>2, <1>3, NewTop
<1> QED
  BY <1>2, <1>3, <1>4

(* ... and calls _cancel.                                                  *)
LEMMA Called ==
  ASSUME Types, NEW a \in Threads, stack[a] # <<>>, NEW f \in Frames, NEW g \in Frames,
         Do(a, Below(a) \o <<f, g>>)
  PROVE  /\ Only(a)
         /\ Len(stack'[a]) = Depth(a) + 1 /\ stack'[a][Depth(a) + 1] = g /\ stack'[a][Depth(a)] = f
         /\ \A i \in 1..(Depth(a) - 1) : stack'[a][i] = stack[a][i]
         /\ \A at \in Ats : \A c \in Ctx : Working(a, at, c)' <=> g.at = at /\ g.c = c
<1> DEFINE s == stack[a]
           r == SubSeq(s, 1, Len(s) - 1) \o <<f, g>>
<1>1. s \in Seq(Frames) /\ s # <<>>
  BY TopWorks
<1> HIDE DEF s
<1>2. /\ r \in Seq(Frames) /\ Len(r) = Len(s) + 1 /\ r # <<>> /\ Len(s) \in Nat \ {0}
      /\ r[Len(r)] = g /\ r[Len(s)] = f /\ \A i \in 1..(Len(s) - 1) : r[i] = s[i]
  BY <1>1, Pushed
<1> HIDE DEF r
<1>3. Only(a) /\ stack'[a] = r
  BY <1>2, StackSet DEF r, s, Below, Depth
<1>4. \A at \in Ats : \A c \in Ctx : Working(a, at, c)' <=> g.at = at /\ g.c = c
  BY <1>2, <1>3, NewTop
<1> QED
  BY <1>2, <1>3, <1>4 DEF s, Depth

(* A thread enters the library.                                            *)
LEMMA Begun ==
  ASSUME Types, NEW a \in Threads, stack[a] = <<>>, NEW g \in Frames, Do(a, <<g>>)
  PROVE  /\ Only(a)
         /\ stack'[a] = <<g>> /\ Len(stack'[a]) = 1 /\ stack'[a][1] = g
         /\ \A at \in Ats : \A c \in Ctx : Working(a, at, c)' <=> g.at = at /\ g.c = c
         /\ \A at \in Ats : \A c \in Ctx : ~Working(a, at, c)
<1>1. <<g>> \in Seq(Frames) /\ <<g>> # <<>> /\ Len(<<g>>) = 1 /\ <<g>>[1] = g
  OBVIOUS
<1>2. Only(a) /\ stack'[a] = <<g>>
  BY <1>1, StackSet
<1>3. \A at \in Ats : \A c \in Ctx : Working(a, at, c)' <=> g.at = at /\ g.c = c
  BY <1>1, <1>2, NewTop
<1>4. \A at \in Ats : \A c \in Ctx : ~Working(a, at, c)
  BY DEF Working, InFrame
<1> QED
  BY <1>1, <1>2, <1>3, <1>4


-----------------------------------------------------------------------------
(* What a step that concerns one context leaves as it was.                 *)

LEMMA InSame ==
  ASSUME NEW a \in Threads, Only(a), NEW at \in Ats, NEW c \in Ctx,
         Working(a, at, c)' <=> Working(a, at, c)
  PROVE  In(at, c)' <=> In(at, c)
<1>1. \A b \in Threads : Working(b, at, c)' <=> Working(b, at, c)
  BY DEF Only
<1> QED
  BY <1>1 DEF In

(* The tree grows, time passes, a reason stays.                            *)
Grows ==
  /\ \A c \in Made : c \in Made' /\ parent'[c] = parent[c] /\ deadline'[c] = deadline[c]
  /\ now' >= now
  /\ \A c \in Ctx : Cancelled(c) => err'[c] = err[c]

LEMMA SameGrows ==
  ASSUME Types, UNCHANGED <<tree, now, err>>
  PROVE  Grows
BY DEF Types, Grows, tree, Made

LEMMA FrameStands ==
  ASSUME Types, Types', Tree, Calls, Grows, NEW a \in Threads, NEW i \in 1..Depth(a),
         stack'[a] = stack[a] \/ (i < Depth(a) /\ stack'[a][i] = stack[a][i])
  PROVE  OneFrame(a, i)'
<1>1. PICK f \in Frames : f = stack[a][i]
  BY DEF Types, Depth
<1>2. OneFrame(a, i) /\ stack'[a][i] = f
  BY <1>1 DEF Calls
<1>3. f.c \in Made /\ f.c \in Ctx /\ Made \subseteq Ctx
  BY <1>1, <1>2, Named DEF OneFrame
<1>4. f.c \in Made' /\ parent'[f.c] = parent[f.c] /\ deadline'[f.c] = deadline[f.c]
  BY <1>3 DEF Grows
<1>5. i < Depth(a)' => f.at \in {"built", "kids"}
  BY <1>1, <1>2 DEF OneFrame, Depth
<1>6. f.at \in Constructor => a \in Procs /\ i = 1
  BY <1>1, <1>2 DEF OneFrame
<1>7. f.at = "claim" => Justified(a, f.c, f.exc)'
  <2>1. SUFFICES ASSUME f.at = "claim" PROVE Justified(a, f.c, f.exc)'
    OBVIOUS
  <2>2. Justified(a, f.c, f.exc) /\ stack'[a] = stack[a]
    BY <1>1, <1>2, <2>1 DEF OneFrame
  <2>3. deadline[f.c] \in Int /\ now \in Int /\ now' \in Int
    BY <1>3, Numbers DEF Types
  <2>4. parent[f.c] # Background => parent[f.c] \in Ctx
    BY <1>3, Named
  <2>5. parent[f.c] # Background /\ f.exc \in Reasons /\ err[parent[f.c]] = f.exc => err'[parent[f.c]] = f.exc
    BY <2>4, Numbers DEF Grows, Cancelled
  <2>6. f.exc = "deadline" /\ now >= deadline[f.c] => now' >= deadline'[f.c]
    BY <1>4, <2>3 DEF Grows
  <2> QED
    BY <1>4, <2>2, <2>5, <2>6 DEF Justified
<1>8. f.at \in AfterClaim =>
        f.exc \in Reasons /\ err'[f.c] = f.exc /\ \A k \in f.kids : k \in Made' /\ parent'[k] = f.c
  BY <1>1, <1>2, <1>3, Numbers DEF OneFrame, Grows, Cancelled
<1> QED
  BY <1>2, <1>4, <1>5, <1>6, <1>7, <1>8 DEF OneFrame

LEMMA CallsKept ==
  ASSUME Types, Types', Tree, Calls, Grows, NEW a \in Threads, Only(a),
         \A i \in 1..Len(stack'[a]) :
           OneFrame(a, i)' \/ (i \in 1..Depth(a) /\ i < Depth(a) /\ stack'[a][i] = stack[a][i])
  PROVE  Calls'
<1>1. \A i \in 1..Len(stack'[a]) : OneFrame(a, i)'
  BY FrameStands
<1>2. \A b \in Threads \ {a} : stack'[b] = stack[b] /\ \A i \in 1..Len(stack'[b]) : OneFrame(b, i)'
  BY FrameStands DEF Only, Depth
<1> QED
  BY <1>1, <1>2 DEF Calls, Depth

LEMMA AloneKept ==
  ASSUME Alone, NEW a \in Threads, Only(a),
         stack[a] # <<>> \/ a \in Procs,
         \A c \in Ctx : Building(a, c)' => Building(a, c),
         \A c \in Ctx : Working(a, "stop", c)' => Working(a, "stop", c),
         \A c \in Ctx : timer[c] = "over" => timer'[c] = "over"
  PROVE  Alone'
<1>1. \A b \in Threads : \A c \in Ctx : Working(b, "stop", c)' => Working(b, "stop", c)
  BY DEF Only, Ats, AfterClaim
<1>2. \A b \in Threads : \A c \in Ctx : Building(b, c)' => Building(b, c)
  BY DEF Only, Building, Ats, Constructor
<1>3. \A c \in Ctx : stack'[c] # <<>> => timer'[c] = "over"
  BY Numbers DEF Only, Alone
<1> QED
  BY <1>1, <1>2, <1>3 DEF Alone

LEMMA SlotKept ==
  ASSUME NEW c \in Ctx, OneSlot(c), timer'[c] = timer[c], slot'[c] = slot[c],
         In("count", c)' <=> In("count", c),
         In("start", c)' <=> In("start", c),
         In("stop", c)' <=> In("stop", c),
         Unarmed(c)' => Unarmed(c)
  PROVE  OneSlot(c)' /\ (IsCounted(c)' <=> IsCounted(c)) /\ (IsFinished(c)' <=> IsFinished(c))
BY DEF OneSlot, Starting, IsCounted, IsFinished

LEMMA SetsFinite ==
  /\ IsFiniteSet(Counted) /\ IsFiniteSet(Finished)
  /\ Cardinality(Counted) \in Nat /\ Cardinality(Finished) \in Nat
<1>1. Counted \subseteq Ctx /\ Finished \subseteq Ctx
  BY DEF Counted, Finished
<1> QED
  BY <1>1, Numbers, FS_Subset, FS_CardinalityType

LEMMA BalanceKept ==
  ASSUME Balance, pending' = pending,
         \A c \in Ctx : (IsCounted(c)' <=> IsCounted(c)) /\ (IsFinished(c)' <=> IsFinished(c))
  PROVE  Balance'
<1>1. Counted' = Counted /\ Finished' = Finished
  BY DEF Counted, Finished
<1> QED
  BY <1>1 DEF Balance

(* The timers do not notice the step of a thread that handles none.        *)
LEMMA TimersKept ==
  ASSUME Slots, Balance, UNCHANGED <<timer, slot, pending>>, NEW a \in Threads, Only(a),
         \A c \in Ctx : \A at \in {"count", "start", "stop"} : Working(a, at, c)' <=> Working(a, at, c),
         \A c \in Ctx : Working(a, "register", c)' \/ Working(a, "arm", c)' => Unarmed(c)
  PROVE  Slots' /\ Balance'
<1>1. ASSUME NEW c \in Ctx
      PROVE  OneSlot(c)' /\ (IsCounted(c)' <=> IsCounted(c)) /\ (IsFinished(c)' <=> IsFinished(c))
  <2>1. \A at \in {"count", "start", "stop"} : In(at, c)' <=> In(at, c)
    BY InSame DEF Ats, Constructor, AfterClaim
  <2>2. ASSUME NEW b \in Threads \ {a}, Working(b, "register", c)' \/ Working(b, "arm", c)'
        PROVE  Unarmed(c)
    BY <2>2 DEF Only, Unarmed, In, Ats, Constructor
  <2>3. Unarmed(c)' => Unarmed(c)
    BY <2>2 DEF Unarmed, In
  <2> QED
    BY <2>1, <2>3, SlotKept DEF Slots
<1> QED
  BY <1>1, BalanceKept DEF Slots

LEMMA KidsKept ==
  ASSUME Types, NEW a \in Threads, stack[a] # <<>>, stack'[a] \in Seq(Frames),
         NEW q \in Ctx, NEW k \in Ctx, HasKid(a, q, k),
         Len(stack'[a]) >= Depth(a) - 1,
         \A i \in 1..(Depth(a) - 1) : stack'[a][i] = stack[a][i],
         Top(a).at \in AfterClaim /\ Top(a).c = q /\ k \in Top(a).kids => HasKid(a, q, k)'
  PROVE  HasKid(a, q, k)'
<1>1. Depth(a) \in Nat \ {0} /\ Top(a) = stack[a][Depth(a)] /\ Len(stack'[a]) \in Nat
  BY TopWorks
<1>2. PICK i \in 1..Depth(a) :
        stack[a][i].at \in AfterClaim /\ stack[a][i].c = q /\ k \in stack[a][i].kids
  BY DEF HasKid
<1>3. CASE i = Depth(a)
  BY <1>1, <1>2, <1>3
<1>4. CASE i # Depth(a)
  <2>1. i \in 1..(Depth(a) - 1) /\ i \in 1..Len(stack'[a])
    BY <1>1, <1>4
  <2> QED
    BY <1>2, <2>1 DEF HasKid, Depth
<1> QED
  BY <1>3, <1>4

LEMMA HandKept ==
  ASSUME NEW a \in Threads, Only(a), NEW c \in Ctx, parent[c] \in Ctx, parent'[c] = parent[c],
         InHand(c),
         Working(a, "register", c) \/ Working(a, "claim", c) => InHand(c)',
         ~Cancelled(parent[c]) /\ c \in children[parent[c]] => InHand(c)',
         HasKid(a, parent[c], c) => InHand(c)'
  PROVE  InHand(c)'
<1>1. ASSUME NEW b \in Threads \ {a}, Working(b, "register", c) \/ Working(b, "claim", c)
      PROVE  InHand(c)'
  <2>1. Working(b, "register", c)' \/ Working(b, "claim", c)'
    BY <1>1 DEF Only, Ats, Constructor
  <2> QED
    BY <2>1 DEF InHand, In
<1>2. ASSUME NEW b \in Threads \ {a}, HasKid(b, parent[c], c)
      PROVE  InHand(c)'
  <2>1. PICK q \in Ctx : q = parent[c] /\ q = parent'[c]
    OBVIOUS
  <2>2. HasKid(b, q, c)'
    BY <1>2, <2>1 DEF Only
  <2> QED
    BY <2>1, <2>2 DEF InHand, HasKid
<1> QED
  BY <1>1, <1>2 DEF InHand, In

LEMMA ClosingKept ==
  ASSUME NEW a \in Threads, Only(a), NEW c \in Ctx, Closing(c), Cancelled(c)' => Cancelled(c),
         done[c] => done'[c],
         Working(a, "stop", c) \/ Working(a, "close", c) =>
           done'[c] \/ Working(a, "stop", c)' \/ Working(a, "close", c)'
  PROVE  Closing(c)'
<1>1. \A b \in Threads \ {a} : (Working(b, "stop", c) => Working(b, "stop", c)')
                            /\ (Working(b, "close", c) => Working(b, "close", c)')
  BY DEF Only, Ats, AfterClaim
<1> QED
  BY <1>1 DEF Closing, In


-----------------------------------------------------------------------------
(* The steps.                                                              *)

LEMMA Acting ==
  ASSUME CInv, NEW a \in Threads, NEW at \in Ats, InFrame(a, at)
  PROVE  /\ stack[a] # <<>> /\ Depth(a) \in Nat \ {0} /\ Depth(a) \in 1..Depth(a)
         /\ Top(a) = stack[a][Depth(a)] /\ Top(a) \in Frames /\ Top(a).at = at
         /\ Top(a).c \in Made /\ Top(a).c \in Ctx
         /\ \A x \in Ats : \A c \in Ctx : Working(a, x, c) <=> x = at /\ c = Top(a).c
         /\ at = "claim" => Justified(a, Top(a).c, Top(a).exc)
         /\ at \in Constructor => a \in Procs /\ Depth(a) = 1
         /\ at \in AfterClaim =>
              /\ Top(a).exc \in Reasons /\ err[Top(a).c] = Top(a).exc
              /\ Cancelled(Top(a).c)
              /\ \A k \in Top(a).kids : k \in Made /\ k \in Ctx /\ parent[k] = Top(a).c
<1>1. stack[a] # <<>> /\ Top(a).at = at
  BY DEF InFrame
<1>2. Depth(a) \in Nat \ {0} /\ Top(a) = stack[a][Depth(a)] /\ Top(a) \in Frames
      /\ Depth(a) \in 1..Depth(a)
      /\ \A x \in Ats : \A c \in Ctx : Working(a, x, c) <=> Top(a).at = x /\ Top(a).c = c
  BY <1>1, CInvParts, TopWorks
<1>3. OneFrame(a, Depth(a))
  BY <1>2, CInvParts DEF Calls
<1>4. Top(a).c \in Made /\ Made \subseteq Ctx
  BY <1>2, <1>3, CInvParts, Named DEF OneFrame
<1>5. at = "claim" => Justified(a, Top(a).c, Top(a).exc)
  BY <1>1, <1>2, <1>3 DEF OneFrame
<1>6. at \in Constructor => a \in Procs /\ Depth(a) = 1
  BY <1>1, <1>2, <1>3 DEF OneFrame
<1>7. at \in AfterClaim =>
        /\ Top(a).exc \in Reasons /\ err[Top(a).c] = Top(a).exc
        /\ \A k \in Top(a).kids : k \in Made /\ parent[k] = Top(a).c
  BY <1>1, <1>2, <1>3 DEF OneFrame
<1> QED
  BY <1>1, <1>2, <1>4, <1>5, <1>6, <1>7, Numbers DEF Cancelled

(* Nothing but a stack changed.                                            *)
LEMMA TypesKept ==
  ASSUME Types, NEW a \in Threads, Only(a),
         UNCHANGED <<tree, err, done, children, slot, timer, pending, now>>
  PROVE  Types'
BY DEF Types, Only, tree

LEMMA TreeKept ==
  ASSUME Tree, UNCHANGED <<tree, err, done, children, slot, timer>>
  PROVE  Tree'
BY DEF Tree, tree, Made, Cancelled

LEMMA ReachedKept ==
  ASSUME Types, Reached, NEW a \in Threads, Only(a), UNCHANGED <<tree, err, done>>,
         \A c \in Ctx : Cancelled(c) /\ (Working(a, "stop", c) \/ Working(a, "close", c)) =>
           Working(a, "stop", c)' \/ Working(a, "close", c)',
         \A c \in Made : parent[c] # Background /\ ~Cancelled(c) =>
           /\ Working(a, "register", c) \/ Working(a, "claim", c) => InHand(c)'
           /\ ~Cancelled(parent[c]) /\ c \in children[parent[c]] => InHand(c)'
           /\ HasKid(a, parent[c], c) => InHand(c)'
  PROVE  Reached'
<1>1. made' = made /\ parent' = parent /\ err' = err /\ done' = done
  BY DEF tree
<1>2. \A c \in Ctx : Closing(c)'
  <2>1. SUFFICES ASSUME NEW c \in Ctx, Cancelled(c) PROVE Closing(c)'
    BY <1>1 DEF Closing, Cancelled
  <2> QED
    BY <1>1, <2>1, ClosingKept DEF Reached, Cancelled
<1>3. ASSUME NEW c \in Made', parent'[c] # Background, ~Cancelled(c)'
      PROVE  InHand(c)'
  <2>1. c \in Made /\ c \in Ctx /\ parent[c] # Background /\ parent[c] \in Ctx /\ ~Cancelled(c)
    BY <1>1, <1>3, Named DEF Made, Cancelled
  <2>2. InHand(c)
    BY <2>1 DEF Reached
  <2> QED
    BY <1>1, <2>1, <2>2, HandKept
<1> QED
  BY <1>2, <1>3 DEF Reached

(* A frame of a constructor or of a finished call goes: nobody is waiting  *)
(* for it.                                                                 *)
LEMMA ReturnInv ==
  ASSUME CInv, NEW a \in Threads, NEW at \in Ats, InFrame(a, at), Return(a),
         UNCHANGED <<tree, err, done, children, slot, timer, pending, now>>,
         at \in {"built", "arm"} \/ (at = "claim" /\ Cancelled(Top(a).c))
  PROVE  CInv'
<1> PICK f \in Frames : f = Top(a)
  BY Acting
<1>1. /\ stack[a] # <<>> /\ Depth(a) \in Nat \ {0} /\ f.at = at /\ f.c \in Ctx
      /\ \A x \in Ats : \A c \in Ctx : Working(a, x, c) <=> x = at /\ c = f.c
  BY Acting
<1>2. /\ Only(a)
      /\ Len(stack'[a]) = Depth(a) - 1
      /\ \A i \in 1..(Depth(a) - 1) : stack'[a][i] = stack[a][i]
      /\ \A x \in Ats \ {"built", "kids"} : \A c \in Ctx : ~Working(a, x, c)'
  BY <1>1, CInvParts, Returned
<1>3. Types'
  BY <1>2, CInvParts, TypesKept
<1>4. Tree'
  BY CInvParts, TreeKept
<1>5. Calls'
  <2>1. Grows
    BY CInvParts, SameGrows
  <2>2. \A i \in 1..Len(stack'[a]) : i \in 1..Depth(a) /\ i < Depth(a) /\ stack'[a][i] = stack[a][i]
    BY <1>1, <1>2
  <2> QED
    BY <1>2, <1>3, <2>1, <2>2, CInvParts, CallsKept
<1>6. Alone'
  <2>1. \A c \in Ctx : ~Building(a, c)' /\ ~Working(a, "stop", c)'
    BY <1>2 DEF Building, Ats, Constructor, AfterClaim
  <2> QED
    BY <1>1, <1>2, <2>1, CInvParts, AloneKept
<1>7. Slots' /\ Balance'
  <2>1. \A c \in Ctx : \A x \in {"count", "start", "stop"} : ~Working(a, x, c)' /\ ~Working(a, x, c)
    BY <1>1, <1>2 DEF Ats, Constructor, AfterClaim
  <2>2. \A c \in Ctx : ~Working(a, "register", c)' /\ ~Working(a, "arm", c)'
    BY <1>2 DEF Ats, Constructor
  <2> QED
    BY <1>2, <2>1, <2>2, CInvParts, TimersKept
<1>8. Reached'
  <2>1. \A c \in Ctx : ~Working(a, "stop", c) /\ ~Working(a, "close", c)
    BY <1>1 DEF Ats, AfterClaim
  <2>2. ASSUME NEW c \in Made, parent[c] # Background, ~Cancelled(c)
        PROVE  /\ ~Working(a, "register", c) /\ ~Working(a, "claim", c)
               /\ ~Cancelled(parent[c]) /\ c \in children[parent[c]] => InHand(c)'
               /\ HasKid(a, parent[c], c) => InHand(c)'
    <3>1. c \in Ctx /\ parent[c] \in Ctx
      BY <2>2, CInvParts, Named
    <3>2. ~Working(a, "register", c) /\ ~Working(a, "claim", c)
      BY <1>1, <2>2, <3>1 DEF Ats, Constructor
    <3>3. ~Cancelled(parent[c]) /\ c \in children[parent[c]] => InHand(c)'
      BY DEF InHand, tree, Cancelled
    <3>4. PICK q \in Ctx : q = parent[c] /\ q = parent'[c]
      BY <3>1 DEF tree
    <3>5. HasKid(a, q, c) => HasKid(a, q, c)'
      BY <1>1, <1>2, <3>1, CInvParts, KidsKept DEF Only, AfterClaim
    <3> QED
      BY <3>2, <3>3, <3>4, <3>5 DEF InHand, HasKid
  <2> QED
    BY <1>2, <2>1, <2>2, CInvParts, ReachedKept
<1> QED
  BY <1>3, <1>4, <1>5, <1>6, <1>7, <1>8 DEF CInv


LEMMA NewFrame ==
  ASSUME NEW a \in Threads, NEW i \in 1..Len(stack'[a]), NEW g \in Frames, stack'[a][i] = g,
         g.c \in Made',
         i < Len(stack'[a]) => g.at \in {"built", "kids"},
         g.at \in Constructor => a \in Procs /\ i = 1,
         g.at = "claim" => Justified(a, g.c, g.exc)',
         g.at \in AfterClaim =>
           g.exc \in Reasons /\ err'[g.c] = g.exc /\ \A k \in g.kids : k \in Made' /\ parent'[k] = g.c
  PROVE  OneFrame(a, i)'
BY DEF OneFrame, Depth

LEMMA CallsTurned ==
  ASSUME CInv, Types', Grows, NEW a \in Threads, stack[a] # <<>>, Only(a), NEW f \in Frames,
         Len(stack'[a]) = Depth(a), stack'[a][Depth(a)] = f,
         \A i \in 1..(Depth(a) - 1) : stack'[a][i] = stack[a][i],
         f.c \in Made', f.at # "claim",
         f.at \in Constructor => a \in Procs /\ Depth(a) = 1,
         f.at \in AfterClaim =>
           f.exc \in Reasons /\ err'[f.c] = f.exc /\ \A k \in f.kids : k \in Made' /\ parent'[k] = f.c
  PROVE  Calls'
<1>1. Depth(a) \in Nat \ {0}
  BY CInvParts, TopWorks
<1>2. OneFrame(a, Depth(a))'
  <2>1. PICK d \in Nat \ {0} : d = Depth(a)
    BY <1>1
  <2>2. OneFrame(a, d)'
    BY <2>1, NewFrame
  <2>3. d = Len(stack'[a])
    BY <2>1
  <2> QED
    BY <2>2, <2>3 DEF OneFrame, Depth
<1> QED
  BY <1>1, <1>2, CInvParts, CallsKept DEF Depth

LEMMA CallsCalled ==
  ASSUME CInv, Types', Grows, NEW a \in Threads, stack[a] # <<>>, Only(a),
         NEW f \in Frames, NEW g \in Frames,
         Len(stack'[a]) = Depth(a) + 1, stack'[a][Depth(a) + 1] = g, stack'[a][Depth(a)] = f,
         \A i \in 1..(Depth(a) - 1) : stack'[a][i] = stack[a][i],
         f.c \in Made', f.at \in {"built", "kids"},
         f.at = "kids" =>
           f.exc \in Reasons /\ err'[f.c] = f.exc /\ \A k \in f.kids : k \in Made' /\ parent'[k] = f.c,
         g.c \in Made', g.at = "claim", Justified(a, g.c, g.exc)'
  PROVE  Calls'
<1>1. PICK d \in Nat \ {0} : d = Depth(a)
  BY CInvParts, TopWorks
<1>2. OneFrame(a, d)'
  <2>1. f.at # "claim" /\ f.at \notin Constructor /\ (f.at \in AfterClaim => f.at = "kids")
    BY DEF Constructor, AfterClaim
  <2>2. d \in 1..Len(stack'[a]) /\ stack'[a][d] = f
    BY <1>1
  <2> QED
    BY <2>1, <2>2, NewFrame
<1>3. OneFrame(a, d + 1)'
  BY <1>1, NewFrame DEF Constructor, AfterClaim
<1>4. \A i \in 1..Len(stack'[a]) :
        OneFrame(a, i)' \/ (i \in 1..Depth(a) /\ i < Depth(a) /\ stack'[a][i] = stack[a][i])
  BY <1>1, <1>2, <1>3
<1> QED
  BY <1>4, CInvParts, CallsKept

(* The program, a timer or a cascade calls _cancel.                        *)
LEMMA FrameType ==
  ASSUME NEW at \in Ats, NEW c \in Ctx, NEW exc \in Reasons \cup {NoReason}
  PROVE  /\ Frame(at, c, exc) \in Frames
         /\ Frame(at, c, exc).at = at /\ Frame(at, c, exc).c = c
         /\ Frame(at, c, exc).exc = exc /\ Frame(at, c, exc).kids = {}
BY DEF Frame, Frames

LEMMA CallsBegun ==
  ASSUME CInv, Types', Grows, NEW a \in Threads, Only(a), NEW g \in Frames,
         Len(stack'[a]) = 1, stack'[a][1] = g, g.c \in Made', g.at \notin AfterClaim,
         g.at \in Constructor => a \in Procs,
         g.at = "claim" => Justified(a, g.c, g.exc)'
  PROVE  Calls'
<1>1. OneFrame(a, 1)'
  BY NewFrame
<1>2. \A i \in 1..Len(stack'[a]) : OneFrame(a, i)'
  BY <1>1
<1> QED
  BY <1>2, CInvParts, CallsKept

LEMMA CancelInv == ASSUME CInv, NEW p \in Procs, Cancel(p) PROVE CInv'
<1>1. PICK c \in Known : Do(p, <<Frame("claim", c, "canceled")>>)
  BY DEF Cancel
<1> DEFINE g == Frame("claim", c, "canceled")
<1>2. p \in Threads /\ stack[p] = <<>> /\ c \in Made /\ c \in Ctx
      /\ UNCHANGED <<tree, err, done, children, slot, timer, pending, now>>
  BY <1>1, Numbers, CInvParts, Named DEF Cancel, Idle, Known, Made
<1>3. g \in Frames /\ g.at = "claim" /\ g.c = c /\ g.exc = "canceled"
  BY <1>2, FrameType, Numbers DEF Ats
<1>4. /\ Only(p) /\ stack'[p] = <<g>> /\ Len(stack'[p]) = 1 /\ stack'[p][1] = g
      /\ \A x \in Ats : \A d \in Ctx : Working(p, x, d)' <=> g.at = x /\ g.c = d
      /\ \A x \in Ats : \A d \in Ctx : ~Working(p, x, d)
  BY <1>1, <1>2, <1>3, CInvParts, Begun
<1>5. Types'
  BY <1>2, <1>4, CInvParts, TypesKept
<1>6. Tree'
  BY <1>2, CInvParts, TreeKept
<1>7. Calls'
  <2>1. Grows
    BY <1>2, CInvParts, SameGrows
  <2>2. Justified(p, c, "canceled")'
    BY <1>4 DEF Justified
  <2>3. c \in Made'
    BY <1>2 DEF tree, Made
  <2> HIDE DEF g
  <2> QED
    BY <1>2, <1>3, <1>4, <1>5, <2>1, <2>2, <2>3, CallsBegun DEF Constructor, AfterClaim
<1>8. Alone'
  <2>1. \A d \in Ctx : ~Building(p, d)' /\ ~Working(p, "stop", d)'
    BY <1>3, <1>4 DEF Building, Ats, Constructor, AfterClaim
  <2> QED
    BY <1>2, <1>4, <2>1, CInvParts, AloneKept
<1>9. Slots' /\ Balance'
  <2>1. \A d \in Ctx : \A x \in {"count", "start", "stop"} : ~Working(p, x, d)' /\ ~Working(p, x, d)
    BY <1>3, <1>4 DEF Ats, Constructor, AfterClaim
  <2>2. \A d \in Ctx : ~Working(p, "register", d)' /\ ~Working(p, "arm", d)'
    BY <1>3, <1>4 DEF Ats, Constructor
  <2> QED
    BY <1>2, <1>4, <2>1, <2>2, CInvParts, TimersKept
<1>10. Reached'
  <2>1. \A d \in Ctx : \A x \in {"stop", "close", "register", "claim"} : ~Working(p, x, d)
    BY <1>4 DEF Ats, AfterClaim, Constructor
  <2>2. \A q, k \in Ctx : ~HasKid(p, q, k)
    BY <1>2 DEF HasKid, Depth
  <2>3. ASSUME NEW d \in Made, parent[d] # Background, ~Cancelled(parent[d]), d \in children[parent[d]]
        PROVE  InHand(d)'
    BY <1>2, <2>3 DEF InHand, tree, Cancelled
  <2>4. \A d \in Made : d \in Ctx /\ (parent[d] # Background => parent[d] \in Ctx)
    BY CInvParts, Named
  <2> QED
    BY <1>2, <1>4, <2>1, <2>2, <2>3, <2>4, CInvParts, ReachedKept
<1> QED
  BY <1>5, <1>6, <1>7, <1>8, <1>9, <1>10 DEF CInv


(* The constructor found its context settled or late, and cancelled it.    *)
LEMMA BuiltInv == ASSUME CInv, NEW p \in Procs, Built(p) PROVE CInv'
<1>1. p \in Threads /\ "built" \in Ats
  BY Numbers DEF Ats
<1> QED
  BY <1>1, ReturnInv DEF Built

(* done.close().                                                           *)
LEMMA CloseDoneInv == ASSUME CInv, NEW a \in Threads, CloseDone(a) PROVE CInv'
<1>1. InFrame(a, "close") /\ Jump(a, "kids") /\ done' = [done EXCEPT ![Top(a).c] = TRUE]
      /\ UNCHANGED <<tree, err, children, slot, timer, pending, now>>
  BY DEF CloseDone
<1> PICK t \in Frames : t = Top(a)
  BY <1>1, Acting DEF Ats, AfterClaim
<1> DEFINE f == [t EXCEPT !.at = "kids"]
<1>2. /\ stack[a] # <<>> /\ Depth(a) \in Nat \ {0} /\ t.at = "close" /\ t.c \in Ctx /\ t.c \in Made
      /\ \A x \in Ats : \A d \in Ctx : Working(a, x, d) <=> x = "close" /\ d = t.c
      /\ t.exc \in Reasons /\ err[t.c] = t.exc /\ Cancelled(t.c)
      /\ \A k \in t.kids : k \in Made /\ parent[k] = t.c
  BY <1>1, Acting DEF Ats, AfterClaim
<1>3. f \in Frames /\ f.at = "kids" /\ f.c = t.c /\ f.exc = t.exc /\ f.kids = t.kids
  BY DEF Frames, Ats, AfterClaim
<1>4. /\ Only(a)
      /\ Len(stack'[a]) = Depth(a) /\ stack'[a][Depth(a)] = f
      /\ \A i \in 1..(Depth(a) - 1) : stack'[a][i] = stack[a][i]
      /\ \A x \in Ats : \A d \in Ctx : Working(a, x, d)' <=> f.at = x /\ f.c = d
  <2>1. Do(a, Append(Below(a), f))
    BY <1>1 DEF Jump
  <2> HIDE DEF f
  <2> QED
    BY <1>2, <1>3, <2>1, CInvParts, Turned
<1> HIDE DEF f
<1>5. Types'
  BY <1>1, <1>4, CInvParts DEF Types, Only, tree
<1>6. Tree'
  BY <1>1, <1>2, CInvParts DEF Types, Tree, tree, Made, Cancelled
<1>7. Calls'
  <2>1. Grows
    BY <1>1, CInvParts, SameGrows
  <2>2. Made' = Made /\ parent' = parent /\ err' = err
    BY <1>1 DEF tree, Made
  <2> QED
    BY <1>2, <1>3, <1>4, <1>5, <2>1, <2>2, CallsTurned DEF Constructor
<1>8. Alone'
  <2>1. \A d \in Ctx : ~Building(a, d)' /\ ~Working(a, "stop", d)'
    BY <1>3, <1>4 DEF Building, Ats, Constructor, AfterClaim
  <2> QED
    BY <1>1, <1>2, <1>4, <2>1, CInvParts, AloneKept
<1>9. Slots' /\ Balance'
  <2>1. \A d \in Ctx : \A x \in {"count", "start", "stop"} : ~Working(a, x, d)' /\ ~Working(a, x, d)
    BY <1>2, <1>3, <1>4 DEF Ats, Constructor, AfterClaim
  <2>2. \A d \in Ctx : ~Working(a, "register", d)' /\ ~Working(a, "arm", d)'
    BY <1>3, <1>4 DEF Ats, Constructor
  <2> QED
    BY <1>1, <1>4, <2>1, <2>2, CInvParts, TimersKept
<1>10. Reached'
  <2>1. \A d \in Ctx : Closing(d)'
    <3>1. SUFFICES ASSUME NEW d \in Ctx PROVE Closing(d)'
      OBVIOUS
    <3>2. done[d] => done'[d]
      BY <1>1, CInvParts DEF Types
    <3>3. ~Working(a, "stop", d) /\ (Working(a, "close", d) => done'[d])
      BY <1>1, <1>2, CInvParts DEF Types, Ats, AfterClaim
    <3> QED
      BY <1>1, <1>4, <3>2, <3>3, CInvParts, ClosingKept DEF Reached, Cancelled
  <2>2. ASSUME NEW d \in Made', parent'[d] # Background, ~Cancelled(d)'
        PROVE  InHand(d)'
    <3>1. /\ d \in Made /\ d \in Ctx /\ parent[d] # Background /\ parent[d] \in Ctx
          /\ parent' = parent /\ ~Cancelled(d)
      BY <1>1, <2>2, CInvParts, Named DEF tree, Made, Cancelled
    <3>2. InHand(d)
      BY <3>1, CInvParts DEF Reached
    <3>3. ~Working(a, "register", d) /\ ~Working(a, "claim", d)
      BY <1>2, <3>1 DEF Ats, Constructor
    <3>4. ~Cancelled(parent[d]) /\ d \in children[parent[d]] => InHand(d)'
      BY <1>1, <3>1 DEF InHand, Cancelled
    <3>5. HasKid(a, parent[d], d) => InHand(d)'
      <4>1. PICK q \in Ctx : q = parent[d]
        BY <3>1
      <4>2. Top(a).c = q /\ d \in Top(a).kids => HasKid(a, q, d)'
        BY <1>2, <1>3, <1>4 DEF HasKid, Depth, AfterClaim
      <4>3. HasKid(a, q, d) => HasKid(a, q, d)'
        BY <1>2, <1>4, <3>1, <4>2, CInvParts, KidsKept DEF Only
      <4> QED
        BY <3>1, <4>1, <4>3 DEF InHand, HasKid
    <3> QED
      BY <1>4, <3>1, <3>2, <3>3, <3>4, <3>5, HandKept
  <2> QED
    BY <2>1, <2>2 DEF Reached
<1> QED
  BY <1>5, <1>6, <1>7, <1>8, <1>9, <1>10 DEF CInv


(* child._cancel(exc), in the loop over the children.                      *)
LEMMA CancelChildInv == ASSUME CInv, NEW a \in Threads, CancelChild(a) PROVE CInv'
<1>1. InFrame(a, "kids")
      /\ UNCHANGED <<tree, err, done, children, slot, timer, pending, now>>
  BY DEF CancelChild
<1> PICK t \in Frames : t = Top(a)
  BY <1>1, Acting DEF Ats
<1>2. /\ stack[a] # <<>> /\ Depth(a) \in Nat \ {0} /\ t.at = "kids" /\ t.c \in Ctx /\ t.c \in Made
      /\ \A x \in Ats : \A d \in Ctx : Working(a, x, d) <=> x = "kids" /\ d = t.c
      /\ t.exc \in Reasons /\ err[t.c] = t.exc /\ Cancelled(t.c)
      /\ \A k \in t.kids : k \in Made /\ k \in Ctx /\ parent[k] = t.c
  BY <1>1, Acting DEF Ats, AfterClaim
<1> PICK k \in t.kids :
      Do(a, Below(a) \o <<[t EXCEPT !.kids = @ \ {k}], Frame("claim", k, t.exc)>>)
  BY DEF CancelChild
<1> DEFINE f == [t EXCEPT !.kids = @ \ {k}]
           g == Frame("claim", k, t.exc)
<1>3. f \in Frames /\ f.at = "kids" /\ f.c = t.c /\ f.exc = t.exc /\ f.kids = t.kids \ {k}
  BY <1>2 DEF Frames
<1>4. g \in Frames /\ g.at = "claim" /\ g.c = k /\ g.exc = t.exc
  BY <1>2, FrameType DEF Ats
<1> HIDE DEF f, g
<1>5. /\ Only(a)
      /\ Len(stack'[a]) = Depth(a) + 1 /\ stack'[a][Depth(a) + 1] = g /\ stack'[a][Depth(a)] = f
      /\ \A i \in 1..(Depth(a) - 1) : stack'[a][i] = stack[a][i]
      /\ \A x \in Ats : \A d \in Ctx : Working(a, x, d)' <=> g.at = x /\ g.c = d
  <2>1. Do(a, Below(a) \o <<f, g>>)
    BY DEF f, g
  <2> QED
    BY <1>2, <1>3, <1>4, <2>1, CInvParts, Called
<1>6. Types'
  BY <1>1, <1>5, CInvParts, TypesKept
<1>7. Tree'
  BY <1>1, CInvParts, TreeKept
<1>8. Calls'
  <2>1. Grows
    BY <1>1, CInvParts, SameGrows
  <2>2. Made' = Made /\ parent' = parent /\ err' = err
    BY <1>1 DEF tree, Made
  <2>3. Justified(a, g.c, g.exc)'
    BY <1>2, <1>4, <2>2, Numbers DEF Justified
  <2>4. f.c \in Made' /\ g.c \in Made' /\ f.at \in {"built", "kids"}
    BY <1>2, <1>3, <1>4, <2>2
  <2>5. f.exc \in Reasons /\ err'[f.c] = f.exc /\ \A j \in f.kids : j \in Made' /\ parent'[j] = f.c
    BY <1>2, <1>3, <2>2
  <2> QED
    BY <1>2, <1>3, <1>4, <1>5, <1>6, <2>1, <2>3, <2>4, <2>5, CallsCalled
<1>9. Alone'
  <2>1. \A d \in Ctx : ~Building(a, d)' /\ ~Working(a, "stop", d)'
    BY <1>4, <1>5 DEF Building, Ats, Constructor
  <2> QED
    BY <1>1, <1>2, <1>5, <2>1, CInvParts, AloneKept
<1>10. Slots' /\ Balance'
  <2>1. \A d \in Ctx : \A x \in {"count", "start", "stop"} : ~Working(a, x, d)' /\ ~Working(a, x, d)
    BY <1>2, <1>4, <1>5 DEF Ats
  <2>2. \A d \in Ctx : ~Working(a, "register", d)' /\ ~Working(a, "arm", d)'
    BY <1>4, <1>5 DEF Ats
  <2> QED
    BY <1>1, <1>5, <2>1, <2>2, CInvParts, TimersKept
<1>11. Reached'
  <2>1. \A d \in Ctx : ~Working(a, "stop", d) /\ ~Working(a, "close", d)
    BY <1>2 DEF Ats
  <2>2. ASSUME NEW d \in Made, parent[d] # Background, ~Cancelled(d)
        PROVE  /\ ~Working(a, "register", d) /\ ~Working(a, "claim", d)
               /\ ~Cancelled(parent[d]) /\ d \in children[parent[d]] => InHand(d)'
               /\ HasKid(a, parent[d], d) => InHand(d)'
    <3>1. d \in Ctx /\ parent[d] \in Ctx
      BY <2>2, CInvParts, Named
    <3>2. ~Working(a, "register", d) /\ ~Working(a, "claim", d)
      BY <1>2, <3>1 DEF Ats
    <3>3. ~Cancelled(parent[d]) /\ d \in children[parent[d]] => InHand(d)'
      BY <1>1 DEF InHand, tree, Cancelled
    <3>4. CASE d = k
      <4>1. Working(a, "claim", d)'
        BY <1>4, <1>5, <3>1, <3>4 DEF Ats
      <4> QED
        BY <3>2, <4>1 DEF InHand, In
    <3>5. CASE d # k
      <4>1. PICK q \in Ctx : q = parent[d] /\ q = parent'[d]
        BY <1>1, <3>1 DEF tree
      <4>2. Top(a).c = q /\ d \in Top(a).kids => HasKid(a, q, d)'
        BY <1>2, <1>3, <1>5, <3>5 DEF HasKid, Depth, AfterClaim
      <4>3. HasKid(a, q, d) => HasKid(a, q, d)'
        BY <1>2, <1>5, <3>1, <4>2, CInvParts, KidsKept DEF Only
      <4> QED
        BY <3>2, <3>3, <4>1, <4>3 DEF InHand, HasKid
    <3> QED
      BY <3>4, <3>5
  <2> QED
    BY <1>1, <1>5, <2>1, <2>2, CInvParts, ReachedKept
<1> QED
  BY <1>6, <1>7, <1>8, <1>9, <1>10, <1>11 DEF CInv

(* _remove_child(): the context that leaves is cancelled.                  *)
LEMMA LeaveParentInv == ASSUME CInv, NEW a \in Threads, LeaveParent(a) PROVE CInv'
<1>1. InFrame(a, "kids") /\ Top(a).kids = {} /\ Return(a)
      /\ children' = (IF parent[Top(a).c] = Background THEN children
                      ELSE [children EXCEPT ![parent[Top(a).c]] = @ \ {Top(a).c}])
      /\ UNCHANGED <<tree, err, done, slot, timer, pending, now>>
  BY DEF LeaveParent
<1> PICK t \in Frames : t = Top(a)
  BY <1>1, Acting DEF Ats
<1>2. /\ stack[a] # <<>> /\ Depth(a) \in Nat \ {0} /\ t.at = "kids" /\ t.c \in Ctx /\ t.c \in Made
      /\ \A x \in Ats : \A d \in Ctx : Working(a, x, d) <=> x = "kids" /\ d = t.c
      /\ Cancelled(t.c)
  BY <1>1, Acting DEF Ats, AfterClaim
<1>3. /\ Only(a)
      /\ Len(stack'[a]) = Depth(a) - 1
      /\ \A i \in 1..(Depth(a) - 1) : stack'[a][i] = stack[a][i]
      /\ \A x \in Ats \ {"built", "kids"} : \A d \in Ctx : ~Working(a, x, d)'
  BY <1>1, <1>2, CInvParts, Returned
<1>4. children' \in [Ctx -> SUBSET Ctx]
      /\ \A q \in Ctx : children'[q] \subseteq children[q] /\ children[q] \subseteq children'[q] \cup {t.c}
  BY <1>1, CInvParts DEF Types
<1>5. Types'
  BY <1>1, <1>3, <1>4, CInvParts DEF Types, Only, tree
<1>6. Tree'
  BY <1>1, <1>4, CInvParts DEF Tree, tree, Made, Cancelled
<1>7. Calls'
  <2>1. Grows
    BY <1>1, CInvParts, SameGrows
  <2>2. \A i \in 1..Len(stack'[a]) : i \in 1..Depth(a) /\ i < Depth(a) /\ stack'[a][i] = stack[a][i]
    BY <1>2, <1>3
  <2> QED
    BY <1>3, <1>5, <2>1, <2>2, CInvParts, CallsKept
<1>8. Alone'
  <2>1. \A d \in Ctx : ~Building(a, d)' /\ ~Working(a, "stop", d)'
    BY <1>3 DEF Building, Ats, Constructor
  <2> QED
    BY <1>1, <1>2, <1>3, <2>1, CInvParts, AloneKept
<1>9. Slots' /\ Balance'
  <2>1. \A d \in Ctx : \A x \in {"count", "start", "stop"} : ~Working(a, x, d)' /\ ~Working(a, x, d)
    BY <1>2, <1>3 DEF Ats
  <2>2. \A d \in Ctx : ~Working(a, "register", d)' /\ ~Working(a, "arm", d)'
    BY <1>3 DEF Ats
  <2> QED
    BY <1>1, <1>3, <2>1, <2>2, CInvParts, TimersKept
<1>10. Reached'
  <2>1. \A d \in Ctx : ~Working(a, "stop", d) /\ ~Working(a, "close", d)
    BY <1>2 DEF Ats
  <2>2. ASSUME NEW d \in Made, parent[d] # Background, ~Cancelled(d)
        PROVE  /\ ~Working(a, "register", d) /\ ~Working(a, "claim", d)
               /\ ~Cancelled(parent[d]) /\ d \in children[parent[d]] => InHand(d)'
               /\ HasKid(a, parent[d], d) => InHand(d)'
    <3>1. d \in Ctx /\ parent[d] \in Ctx /\ d # t.c
      BY <1>2, <2>2, CInvParts, Named
    <3>2. ~Working(a, "register", d) /\ ~Working(a, "claim", d)
      BY <1>2, <3>1 DEF Ats
    <3>3. ~Cancelled(parent[d]) /\ d \in children[parent[d]] => InHand(d)'
      BY <1>1, <1>4, <3>1 DEF InHand, tree, Cancelled
    <3>4. PICK q \in Ctx : q = parent[d] /\ q = parent'[d]
      BY <1>1, <3>1 DEF tree
    <3>5. HasKid(a, q, d) => HasKid(a, q, d)'
      BY <1>1, <1>2, <1>3, <3>1, CInvParts, KidsKept DEF Only
    <3> QED
      BY <3>2, <3>3, <3>4, <3>5 DEF InHand, HasKid
  <2> QED
    BY <1>1, <1>3, <2>1, <2>2, CInvParts, ReachedKept
<1> QED
  BY <1>5, <1>6, <1>7, <1>8, <1>9, <1>10 DEF CInv


(* A constructor that finds its parent cancelled, or its deadline past,    *)
(* cancels its own context.                                                *)
LEMMA SelfCancelInv ==
  ASSUME CInv, NEW p \in Procs, NEW at \in {"register", "arm"}, InFrame(p, at),
         NEW exc \in Reasons, CallCancel(p, "built", Top(p).c, exc),
         \/ exc = "deadline" /\ now >= deadline[Top(p).c]
         \/ parent[Top(p).c] # Background /\ err[parent[Top(p).c]] = exc,
         UNCHANGED <<tree, err, done, children, slot, timer, pending, now>>
  PROVE  CInv'
<1>1. p \in Threads /\ at \in Ats
  BY Numbers DEF Ats
<1> PICK t \in Frames : t = Top(p)
  BY <1>1, Acting
<1>2. /\ stack[p] # <<>> /\ Depth(p) \in Nat \ {0} /\ t.at = at /\ t.c \in Ctx /\ t.c \in Made
      /\ \A x \in Ats : \A d \in Ctx : Working(p, x, d) <=> x = at /\ d = t.c
  BY <1>1, Acting
<1> DEFINE f == [t EXCEPT !.at = "built"]
           g == Frame("claim", t.c, exc)
<1>3. f \in Frames /\ f.at = "built" /\ f.c = t.c
  BY <1>2 DEF Frames, Ats
<1>4. g \in Frames /\ g.at = "claim" /\ g.c = t.c /\ g.exc = exc
  BY <1>2, FrameType DEF Ats
<1> HIDE DEF f, g
<1>5. /\ Only(p)
      /\ Len(stack'[p]) = Depth(p) + 1 /\ stack'[p][Depth(p) + 1] = g /\ stack'[p][Depth(p)] = f
      /\ \A i \in 1..(Depth(p) - 1) : stack'[p][i] = stack[p][i]
      /\ \A x \in Ats : \A d \in Ctx : Working(p, x, d)' <=> g.at = x /\ g.c = d
  <2>1. Do(p, Below(p) \o <<f, g>>)
    BY DEF f, g, CallCancel
  <2> QED
    BY <1>1, <1>2, <1>3, <1>4, <2>1, CInvParts, Called
<1>6. Types'
  BY <1>1, <1>5, CInvParts, TypesKept
<1>7. Tree'
  BY CInvParts, TreeKept
<1>8. Calls'
  <2>1. Grows
    BY CInvParts, SameGrows
  <2>2. Made' = Made /\ parent' = parent /\ err' = err /\ deadline' = deadline /\ now' = now
    BY DEF tree, Made
  <2>3. Justified(p, g.c, g.exc)'
    BY <1>4, <2>2 DEF Justified
  <2>4. f.c \in Made' /\ g.c \in Made' /\ f.at \in {"built", "kids"} /\ f.at # "kids"
    BY <1>2, <1>3, <1>4, <2>2
  <2> QED
    BY <1>1, <1>2, <1>3, <1>4, <1>5, <1>6, <2>1, <2>3, <2>4, CallsCalled
<1>9. Alone'
  <2>1. \A d \in Ctx : ~Building(p, d)' /\ ~Working(p, "stop", d)'
    BY <1>4, <1>5 DEF Building, Ats, Constructor
  <2> QED
    BY <1>1, <1>2, <1>5, <2>1, CInvParts, AloneKept
<1>10. Slots' /\ Balance'
  <2>1. \A d \in Ctx : \A x \in {"count", "start", "stop"} : ~Working(p, x, d)' /\ ~Working(p, x, d)
    BY <1>2, <1>4, <1>5 DEF Ats
  <2>2. \A d \in Ctx : ~Working(p, "register", d)' /\ ~Working(p, "arm", d)'
    BY <1>4, <1>5 DEF Ats
  <2> QED
    BY <1>1, <1>5, <2>1, <2>2, CInvParts, TimersKept
<1>11. Reached'
  <2>1. \A d \in Ctx : ~Working(p, "stop", d) /\ ~Working(p, "close", d)
    BY <1>2 DEF Ats
  <2>2. ASSUME NEW d \in Made, parent[d] # Background, ~Cancelled(d)
        PROVE  /\ Working(p, "register", d) \/ Working(p, "claim", d) => InHand(d)'
               /\ ~Cancelled(parent[d]) /\ d \in children[parent[d]] => InHand(d)'
               /\ HasKid(p, parent[d], d) => InHand(d)'
    <3>1. d \in Ctx /\ parent[d] \in Ctx
      BY <2>2, CInvParts, Named
    <3>2. d = t.c => InHand(d)'
      BY <1>1, <1>4, <1>5, <3>1 DEF InHand, In, Ats
    <3>3. Working(p, "register", d) \/ Working(p, "claim", d) => InHand(d)'
      BY <1>2, <3>1, <3>2 DEF Ats
    <3>4. ~Cancelled(parent[d]) /\ d \in children[parent[d]] => InHand(d)'
      BY DEF InHand, tree, Cancelled
    <3>5. PICK q \in Ctx : q = parent[d] /\ q = parent'[d]
      BY <3>1 DEF tree
    <3>6. HasKid(p, q, d) => HasKid(p, q, d)'
      BY <1>1, <1>2, <1>5, <3>1, CInvParts, KidsKept DEF Only, AfterClaim
    <3> QED
      BY <1>1, <3>3, <3>4, <3>5, <3>6 DEF InHand, HasKid
  <2> QED
    BY <1>1, <1>5, <2>1, <2>2, CInvParts, ReachedKept
<1> QED
  BY <1>6, <1>7, <1>8, <1>9, <1>10, <1>11 DEF CInv

LEMMA RegisterInv == ASSUME CInv, NEW p \in Procs, Register(p) PROVE CInv'
<1>1. p \in Threads /\ "register" \in Ats /\ InFrame(p, "register")
  BY Numbers DEF Ats, Register
<1> PICK t \in Frames : t = Top(p)
  BY <1>1, Acting
<1>2. /\ stack[p] # <<>> /\ Depth(p) \in Nat \ {0} /\ t.at = "register" /\ t.c \in Ctx /\ t.c \in Made
      /\ \A x \in Ats : \A d \in Ctx : Working(p, x, d) <=> x = "register" /\ d = t.c
      /\ Depth(p) = 1
  BY <1>1, Acting DEF Constructor
<1>3. CASE parent[t.c] # Background /\ Settled(parent[t.c])
  <2>1. parent[t.c] \in Ctx
    BY <1>2, <1>3, CInvParts, Named
  <2>2. err[parent[t.c]] \in Reasons
    BY <1>3, <2>1, CInvParts DEF Settled, Types
  <2> QED
    BY <1>1, <1>3, <2>2, SelfCancelInv DEF Register
<1>4. CASE ~(parent[t.c] # Background /\ Settled(parent[t.c]))
  <2>1. /\ children' = (IF parent[t.c] = Background THEN children
                        ELSE [children EXCEPT ![parent[t.c]] = @ \cup {t.c}])
        /\ Jump(p, "arm")
        /\ UNCHANGED <<tree, err, done, slot, timer, pending, now>>
    BY <1>4 DEF Register
  <2> DEFINE f == [t EXCEPT !.at = "arm"]
  <2>2. f \in Frames /\ f.at = "arm" /\ f.c = t.c
    BY DEF Frames, Ats
  <2> HIDE DEF f
  <2>3. /\ Only(p)
        /\ Len(stack'[p]) = Depth(p) /\ stack'[p][Depth(p)] = f
        /\ \A i \in 1..(Depth(p) - 1) : stack'[p][i] = stack[p][i]
        /\ \A x \in Ats : \A d \in Ctx : Working(p, x, d)' <=> f.at = x /\ f.c = d
    <3>1. Do(p, Append(Below(p), f))
      BY <2>1 DEF Jump, f
    <3> QED
      BY <1>1, <1>2, <2>2, <3>1, CInvParts, Turned
  <2>4. /\ children' \in [Ctx -> SUBSET Ctx]
        /\ \A q \in Ctx : children'[q] = IF q = parent[t.c] THEN children[q] \cup {t.c} ELSE children[q]
    <3>1. parent[t.c] # Background => parent[t.c] \in Ctx
      BY <1>2, CInvParts, Named
    <3>2. children \in [Ctx -> SUBSET Ctx] /\ \A q \in Ctx : q # Background
      BY CInvParts, Numbers DEF Types
    <3> QED
      BY <1>2, <2>1, <3>1, <3>2
  <2>5. Types'
    BY <2>1, <2>3, <2>4, CInvParts DEF Types, Only, tree
  <2>6. Tree'
    BY <1>2, <1>4, <2>1, <2>4, CInvParts, Numbers DEF Tree, tree, Made, Cancelled, Settled
  <2>7. Calls'
    <3>1. Grows
      BY <2>1, CInvParts, SameGrows
    <3>2. Made' = Made
      BY <2>1 DEF tree, Made
    <3> QED
      BY <1>1, <1>2, <2>2, <2>3, <2>5, <3>1, <3>2, CallsTurned DEF AfterClaim
  <2>8. Alone'
    <3>1. \A d \in Ctx : ~Working(p, "stop", d)'
      BY <2>2, <2>3 DEF Ats
    <3>2. \A d \in Ctx : Building(p, d)' => Building(p, d)
      BY <1>2, <2>2, <2>3 DEF Building, Ats, Constructor
    <3> QED
      BY <1>1, <1>2, <2>1, <2>3, <3>1, <3>2, CInvParts, AloneKept
  <2>9. Slots' /\ Balance'
    <3>1. \A d \in Ctx : \A x \in {"count", "start", "stop"} : ~Working(p, x, d)' /\ ~Working(p, x, d)
      BY <1>2, <2>2, <2>3 DEF Ats
    <3>2. \A d \in Ctx : Working(p, "register", d)' \/ Working(p, "arm", d)' => Unarmed(d)
      BY <1>1, <1>2, <2>2, <2>3 DEF Ats, Unarmed, In
    <3> QED
      BY <1>1, <2>1, <2>3, <3>1, <3>2, CInvParts, TimersKept
  <2>10. Reached'
    <3>1. \A d \in Ctx : ~Working(p, "stop", d) /\ ~Working(p, "close", d)
      BY <1>2 DEF Ats
    <3>2. ASSUME NEW d \in Made, parent[d] # Background, ~Cancelled(d)
          PROVE  /\ Working(p, "register", d) \/ Working(p, "claim", d) => InHand(d)'
                 /\ ~Cancelled(parent[d]) /\ d \in children[parent[d]] => InHand(d)'
                 /\ HasKid(p, parent[d], d) => InHand(d)'
      <4>1. d \in Ctx /\ parent[d] \in Ctx
        BY <3>2, CInvParts, Named
      <4>2. Working(p, "register", d) \/ Working(p, "claim", d) => InHand(d)'
        BY <1>2, <1>4, <2>1, <2>4, <3>2, <4>1 DEF InHand, Settled, Cancelled, tree, Ats
      <4>3. ~Cancelled(parent[d]) /\ d \in children[parent[d]] => InHand(d)'
        BY <2>1, <2>4, <4>1 DEF InHand, tree, Cancelled
      <4>4. PICK q \in Ctx : q = parent[d] /\ q = parent'[d]
        BY <2>1, <4>1 DEF tree
      <4>5. HasKid(p, q, d) => HasKid(p, q, d)'
        <5>1. Top(p).at \notin AfterClaim /\ stack'[p] \in Seq(Frames) /\ Len(stack'[p]) >= Depth(p) - 1
          BY <1>1, <1>2, <2>3 DEF Only, AfterClaim
        <5> QED
          BY <1>1, <1>2, <2>3, <4>1, <5>1, CInvParts, KidsKept
      <4> QED
        BY <1>1, <4>2, <4>3, <4>4, <4>5 DEF InHand, HasKid
    <3> QED
      BY <1>1, <2>1, <2>3, <3>1, <3>2, CInvParts, ReachedKept
  <2> QED
    BY <2>5, <2>6, <2>7, <2>8, <2>9, <2>10 DEF CInv
<1> QED
  BY <1>3, <1>4


(* Nobody knows a context that is not made.                                *)
LEMMA Unmade ==
  ASSUME CInv, NEW c \in Ctx, c \notin Made
  PROVE  /\ ~Cancelled(c) /\ ~slot[c] /\ timer[c] = "none"
         /\ \A b \in Threads : \A x \in Ats : ~Working(b, x, c)
         /\ \A x \in Ats : ~In(x, c)
<1>1. ~Cancelled(c) /\ ~slot[c] /\ timer[c] = "none"
  BY CInvParts DEF Tree
<1>2. ASSUME NEW b \in Threads, NEW x \in Ats, Working(b, x, c) PROVE FALSE
  <2>1. InFrame(b, x) /\ Top(b).c = c
    BY <1>2 DEF Working
  <2> QED
    BY <2>1, Acting
<1> QED
  BY <1>1, <1>2 DEF In

(* A context of its own, with the parent's deadline if that is earlier.    *)
LEMMA NewInv == ASSUME CInv, NEW p \in Procs, New(p) PROVE CInv'
<1> PICK q \in Known \cup {Background} :
      \E d \in IF q = Background THEN RootDeadlines ELSE ChildDeadlines :
        /\ parent' = [parent EXCEPT ![made'] = q]
        /\ own' = [own EXCEPT ![made'] = d # Never]
        /\ deadline' = [deadline EXCEPT ![made'] = Effective(d, q)]
  BY DEF New
<1> PICK d \in IF q = Background THEN RootDeadlines ELSE ChildDeadlines :
        /\ parent' = [parent EXCEPT ![made'] = q]
        /\ own' = [own EXCEPT ![made'] = d # Never]
        /\ deadline' = [deadline EXCEPT ![made'] = Effective(d, q)]
  OBVIOUS
<1>1. /\ stack[p] = <<>> /\ made < MaxCtx /\ made' = made + 1 /\ p \in Threads
      /\ Do(p, <<Frame("register", made', NoReason)>>)
      /\ UNCHANGED <<err, done, children, slot, timer, pending, now>>
  BY Numbers DEF New, Idle
<1>2. PICK c \in Ctx : c = made' /\ c \notin Made /\ c # Background /\ \A k \in Made : k < c
  <2>1. made \in Nat /\ made + 1 \in 1..MaxCtx
    BY <1>1, CInvParts, Numbers DEF Types
  <2> QED
    BY <1>1, <2>1 DEF Made, Ctx, Background
<1>3. Made \subseteq Ctx /\ Made \subseteq Made' /\ c \in Made' /\ Made' = Made \cup {c}
  <2>1. made \in Nat
    BY CInvParts, Numbers DEF Types
  <2> QED
    BY <1>1, <1>2, <2>1, CInvParts, Named DEF Made
<1>4. q \in Made \cup {Background} /\ q \in 0..MaxCtx /\ q < c
  BY <1>2, <1>3, Numbers DEF Known, Made, Ctx, Background
<1>5. Effective(d, q) \in 0..Never
  <2>1. d \in 0..Never
    BY ContextAssumption
  <2>2. q # Background => deadline[q] \in 0..Never
    BY <1>3, <1>4, CInvParts DEF Types
  <2> QED
    BY <2>1, <2>2 DEF Effective
<1> DEFINE g == Frame("register", c, NoReason)
<1>6. g \in Frames /\ g.at = "register" /\ g.c = c
  BY FrameType DEF Ats
<1> HIDE DEF g
<1>7. /\ Only(p) /\ stack'[p] = <<g>> /\ Len(stack'[p]) = 1 /\ stack'[p][1] = g
      /\ \A x \in Ats : \A k \in Ctx : Working(p, x, k)' <=> g.at = x /\ g.c = k
      /\ \A x \in Ats : \A k \in Ctx : ~Working(p, x, k)
  <2>1. Do(p, <<g>>)
    BY <1>1, <1>2 DEF g
  <2> QED
    BY <1>1, <1>6, <2>1, CInvParts, Begun
<1>8. Types'
  <2>1. made' \in 0..MaxCtx /\ parent' \in [Ctx -> 0..MaxCtx] /\ own' \in [Ctx -> BOOLEAN]
        /\ deadline' \in [Ctx -> 0..Never]
    BY <1>1, <1>2, <1>4, <1>5, CInvParts, Numbers DEF Types
  <2> QED
    BY <1>1, <1>7, <2>1, CInvParts DEF Types, Only
<1>9. /\ parent'[c] = q /\ \A k \in Ctx : k # c => parent'[k] = parent[k] /\ deadline'[k] = deadline[k]
      /\ \A k \in Ctx : Cancelled(k)' <=> Cancelled(k)
  BY <1>1, <1>2, CInvParts DEF Types, Cancelled
<1>10. Tree'
  <2>1. /\ \A k \in Ctx : parent[k] < k
        /\ \A r \in Ctx : \A k \in children[r] : k \in Made /\ parent[k] = r
        /\ \A k \in Ctx : Cancelled(k) => children[k] = {}
        /\ \A k \in Ctx : done[k] => Cancelled(k)
        /\ \A k \in Ctx \ Made : ~Cancelled(k) /\ ~slot[k] /\ timer[k] = "none"
    BY CInvParts DEF Tree
  <2>2. \A k \in Ctx : parent'[k] < k
    BY <1>4, <1>9, <2>1
  <2>3. \A r \in Ctx : \A k \in children'[r] : k \in Made' /\ parent'[k] = r
    BY <1>1, <1>2, <1>3, <1>9, <2>1
  <2> QED
    BY <1>1, <1>3, <1>9, <2>1, <2>2, <2>3 DEF Tree
<1>11. Calls'
  <2>1. Grows
    BY <1>1, <1>2, <1>3, <1>9, CInvParts DEF Grows, Types
  <2> QED
    BY <1>1, <1>3, <1>6, <1>7, <1>8, <2>1, CallsBegun DEF AfterClaim
<1>12. Alone'
  <2>1. \A k \in Ctx : ~Working(p, "stop", k)' /\ (Building(p, k)' => k = c)
    BY <1>6, <1>7 DEF Building, Ats, Constructor
  <2>2. \A b \in Threads \ {p} : ~Building(b, c)'
    BY <1>2, <1>7, Unmade DEF Only, Building, Ats, Constructor
  <2>3. \A b \in Threads \ {p} : \A k \in Ctx :
          (Building(b, k)' => Building(b, k)) /\ (Working(b, "stop", k)' => Working(b, "stop", k))
    BY <1>7 DEF Only, Building, Ats, Constructor
  <2>4. \A k \in Ctx : stack'[k] # <<>> => timer'[k] = "over"
    BY <1>1, <1>7, CInvParts, Numbers DEF Only, Alone
  <2> QED
    BY <2>1, <2>2, <2>3, <2>4, CInvParts DEF Alone
<1>13. Slots' /\ Balance'
  <2>1. \A x \in {"count", "start", "stop"} : \A k \in Ctx : In(x, k)' <=> In(x, k)
    BY <1>1, <1>6, <1>7, InSame DEF Ats
  <2>2. \A k \in Ctx \ {c} : Unarmed(k)' => Unarmed(k)
    BY <1>1, <1>6, <1>7, InSame DEF Ats, Unarmed
  <2>3. \A k \in Ctx \ {c} :
          OneSlot(k)' /\ (IsCounted(k)' <=> IsCounted(k)) /\ (IsFinished(k)' <=> IsFinished(k))
    BY <1>1, <2>1, <2>2, CInvParts, SlotKept DEF Slots
  <2>4. ~slot'[c] /\ timer'[c] = "none" /\ ~In("count", c)' /\ ~In("start", c)' /\ ~In("stop", c)'
        /\ ~In("count", c) /\ ~In("start", c) /\ ~In("stop", c) /\ timer[c] = "none"
    BY <1>1, <1>2, <2>1, Unmade DEF Ats
  <2>5. OneSlot(c)' /\ (IsCounted(c)' <=> IsCounted(c)) /\ (IsFinished(c)' <=> IsFinished(c))
    BY <2>4 DEF OneSlot, Starting, IsCounted, IsFinished
  <2> QED
    BY <1>1, <2>3, <2>5, CInvParts, BalanceKept DEF Slots
<1>14. Reached'
  <2>1. \A k \in Ctx : Closing(k)'
    BY <1>1, <1>7, <1>9, CInvParts, ClosingKept DEF Reached, Ats
  <2>2. ASSUME NEW k \in Made', parent'[k] # Background, ~Cancelled(k)'
        PROVE  InHand(k)'
    <3>1. CASE k = c
      BY <1>1, <1>6, <1>7, <3>1 DEF InHand, In, Ats
    <3>2. CASE k # c
      <4>1. /\ k \in Made /\ k \in Ctx /\ parent'[k] = parent[k] /\ parent[k] # Background
            /\ parent[k] \in Ctx /\ ~Cancelled(k)
        BY <1>3, <1>9, <2>2, <3>2, CInvParts, Named
      <4>2. InHand(k)
        BY <4>1, CInvParts DEF Reached
      <4>3. ~Working(p, "register", k) /\ ~Working(p, "claim", k)
        BY <1>7, <4>1 DEF Ats
      <4>4. ~Cancelled(parent[k]) /\ k \in children[parent[k]] => InHand(k)'
        BY <1>1, <1>9, <4>1 DEF InHand, Cancelled
      <4>5. ~HasKid(p, parent[k], k)
        BY <1>1 DEF HasKid, Depth
      <4> QED
        BY <1>1, <1>7, <4>1, <4>2, <4>3, <4>4, <4>5, HandKept
    <3> QED
      BY <3>1, <3>2
  <2> QED
    BY <2>1, <2>2 DEF Reached
<1> QED
  BY <1>8, <1>10, <1>11, <1>12, <1>13, <1>14 DEF CInv


-----------------------------------------------------------------------------
(* The steps that handle a timer.                                          *)

(* Those of other contexts stay where they are.                            *)
LEMMA OtherSlots ==
  ASSUME CInv, NEW a \in Threads, Only(a), NEW c \in Ctx,
         \A d \in Ctx : d # c => timer'[d] = timer[d] /\ slot'[d] = slot[d],
         \A d \in Ctx : \A x \in Constructor \cup {"stop"} :
           d # c => ~Working(a, x, d) /\ ~Working(a, x, d)'
  PROVE  \A d \in Ctx : d # c =>
           OneSlot(d)' /\ (IsCounted(d)' <=> IsCounted(d)) /\ (IsFinished(d)' <=> IsFinished(d))
<1> SUFFICES ASSUME NEW d \in Ctx, d # c
             PROVE  OneSlot(d)' /\ (IsCounted(d)' <=> IsCounted(d)) /\ (IsFinished(d)' <=> IsFinished(d))
  OBVIOUS
<1>1. \A x \in Constructor \cup {"stop"} : In(x, d)' <=> In(x, d)
  BY InSame DEF Ats, Constructor
<1>2. Unarmed(d)' => Unarmed(d)
  BY <1>1 DEF Unarmed, Constructor
<1>3. OneSlot(d) /\ timer'[d] = timer[d] /\ slot'[d] = slot[d]
  BY CInvParts DEF Slots
<1> QED
  BY <1>1, <1>2, <1>3, SlotKept DEF Constructor

LEMMA SlotsBalanced ==
  ASSUME CInv, NEW c \in Ctx, OneSlot(c)', pending' = pending,
         IsCounted(c)' <=> IsCounted(c), IsFinished(c)' <=> IsFinished(c),
         \A d \in Ctx : d # c =>
           OneSlot(d)' /\ (IsCounted(d)' <=> IsCounted(d)) /\ (IsFinished(d)' <=> IsFinished(d))
  PROVE  Slots' /\ Balance'
<1>1. \A d \in Ctx : OneSlot(d)' /\ (IsCounted(d)' <=> IsCounted(d)) /\ (IsFinished(d)' <=> IsFinished(d))
  OBVIOUS
<1> QED
  BY <1>1, CInvParts, BalanceKept DEF Slots

(* A constructor is the only one of its context.                           *)
LEMMA OneConstructor ==
  ASSUME CInv, NEW p \in Threads, Only(p), NEW c \in Ctx, Building(p, c)
  PROVE  \A x \in Constructor : (In(x, c) <=> Working(p, x, c)) /\ (In(x, c)' <=> Working(p, x, c)')
<1>1. \A b \in Threads \ {p} : ~Building(b, c)
  BY CInvParts DEF Alone
<1>2. \A b \in Threads \ {p} : \A x \in Constructor : ~Working(b, x, c) /\ ~Working(b, x, c)'
  BY <1>1 DEF Building, Only, Ats, Constructor
<1> QED
  BY <1>2 DEF In

(* What the constructor's steps after "register" have in common: the stack *)
(* of p goes on in the constructor of c, or returns.                       *)
LEMMA ConstructorStep ==
  ASSUME CInv, NEW p \in Procs, NEW at \in {"arm", "count", "start"}, InFrame(p, at),
         NEW to \in {"count", "start", "out"}, NEW c \in Ctx, c = Top(p).c,
         to = "out" => Return(p),
         to # "out" => Jump(p, to),
         UNCHANGED <<tree, err, done, children, now>>,
         slot' \in [Ctx -> BOOLEAN], pending' \in Int,
         timer' \in [Ctx -> {"none", "running", "stopped", "over", "failed"}],
         \A d \in Ctx : d # c => timer'[d] = timer[d] /\ slot'[d] = slot[d],
         timer[c] # "over",
         OneSlot(c)'
  PROVE  Types' /\ Tree' /\ Calls' /\ Alone' /\ Slots' /\ Reached'
         /\ \A d \in Ctx : d # c => (IsCounted(d)' <=> IsCounted(d)) /\ (IsFinished(d)' <=> IsFinished(d))
<1>1. p \in Threads /\ at \in Ats /\ at \in Constructor
  BY Numbers DEF Ats, Constructor
<1> PICK t \in Frames : t = Top(p)
  BY <1>1, Acting
<1>2. /\ stack[p] # <<>> /\ Depth(p) \in Nat \ {0} /\ t.at = at /\ t.c = c /\ c \in Made
      /\ \A x \in Ats : \A d \in Ctx : Working(p, x, d) <=> x = at /\ d = c
      /\ Depth(p) = 1
  BY <1>1, Acting
<1>3. /\ Only(p)
      /\ Len(stack'[p]) \in {0, 1}
      /\ \A x \in Ats : \A d \in Ctx : Working(p, x, d)' => x = to /\ d = c
  <2>1. CASE to = "out"
    <3>1. Only(p) /\ Len(stack'[p]) = 0
      BY <1>1, <1>2, <2>1, CInvParts, Returned
    <3>2. stack'[p] = <<>>
      BY <1>1, <3>1 DEF Only
    <3> QED
      BY <3>1, <3>2 DEF Working, InFrame
  <2>2. CASE to # "out"
    <3> DEFINE f == [t EXCEPT !.at = to]
    <3>1. f \in Frames /\ f.at = to /\ f.c = c
      BY <1>2, <2>2 DEF Frames, Ats
    <3> HIDE DEF f
    <3>2. Do(p, Append(Below(p), f))
      BY <2>2 DEF Jump, f
    <3>3. /\ Only(p) /\ Len(stack'[p]) = Depth(p)
          /\ \A x \in Ats : \A d \in Ctx : Working(p, x, d)' <=> f.at = x /\ f.c = d
      BY <1>1, <1>2, <3>1, <3>2, CInvParts, Turned
    <3> QED
      BY <1>2, <3>1, <3>3
  <2> QED
    BY <2>1, <2>2
<1>4. Types'
  BY <1>3, CInvParts DEF Types, Only, tree
<1>5. Tree'
  BY <1>2, CInvParts DEF Tree, tree, Made, Cancelled
<1>6. Calls'
  <2>1. Grows
    BY CInvParts, SameGrows
  <2>2. ASSUME NEW i \in 1..Len(stack'[p]) PROVE OneFrame(p, i)'
    <3>1. to # "out" /\ i = 1 /\ Len(stack'[p]) = 1
      <4>1. to = "out" => Len(stack'[p]) = 0
        BY <1>1, <1>2, CInvParts, Returned
      <4>2. Len(stack'[p]) # 0
        BY <2>2
      <4>3. Len(stack'[p]) = 1
        BY <1>3, <4>2
      <4>4. i = 1
        BY <2>2, <4>3
      <4> QED
        BY <4>1, <4>3, <4>4
    <3> DEFINE f == [t EXCEPT !.at = to]
    <3>2. f \in Frames /\ f.at = to /\ f.c = c
      BY <1>2, <3>1 DEF Frames, Ats
    <3> HIDE DEF f
    <3>3. Do(p, Append(Below(p), f))
      BY <3>1 DEF Jump, f
    <3>4. stack'[p][1] = f
      BY <1>1, <1>2, <3>2, <3>3, CInvParts, Turned
    <3>5. f.at \in Constructor /\ f.at # "claim" /\ f.at \notin AfterClaim
      BY <3>1, <3>2 DEF Constructor, AfterClaim
    <3>6. c \in Made'
      BY <1>2 DEF tree, Made
    <3>7. 1 \in 1..Len(stack'[p]) /\ ~(1 < Len(stack'[p]))
      BY <3>1
    <3>8. OneFrame(p, 1)'
      BY <1>1, <3>2, <3>4, <3>5, <3>6, <3>7, NewFrame
    <3> QED
      BY <3>1, <3>8
  <2> QED
    BY <1>1, <1>3, <1>4, <2>1, <2>2, CInvParts, CallsKept
<1>7. Alone'
  <2>1. \A d \in Ctx : ~Working(p, "stop", d)'
    BY <1>3 DEF Ats
  <2>2. \A d \in Ctx : Building(p, d)' => Building(p, d)
    BY <1>1, <1>2, <1>3 DEF Building, Ats, Constructor
  <2>3. \A d \in Ctx : timer[d] = "over" => timer'[d] = "over"
    OBVIOUS
  <2> QED
    BY <1>1, <1>2, <1>3, <2>1, <2>2, <2>3, CInvParts, AloneKept
<1>8. \A d \in Ctx : d # c =>
        OneSlot(d)' /\ (IsCounted(d)' <=> IsCounted(d)) /\ (IsFinished(d)' <=> IsFinished(d))
  <2>1. \A d \in Ctx : \A x \in Constructor \cup {"stop"} :
          d # c => ~Working(p, x, d) /\ ~Working(p, x, d)'
    BY <1>2, <1>3 DEF Ats, Constructor
  <2> QED
    BY <1>1, <1>3, <2>1, OtherSlots
<1>9. Reached'
  <2>1. \A d \in Ctx : ~Working(p, "stop", d) /\ ~Working(p, "close", d)
    BY <1>2 DEF Ats
  <2>2. ASSUME NEW d \in Made, parent[d] # Background, ~Cancelled(d)
        PROVE  /\ ~Working(p, "register", d) /\ ~Working(p, "claim", d)
               /\ ~Cancelled(parent[d]) /\ d \in children[parent[d]] => InHand(d)'
               /\ HasKid(p, parent[d], d) => InHand(d)'
    <3>1. d \in Ctx /\ parent[d] \in Ctx
      BY <2>2, CInvParts, Named
    <3>2. ~Working(p, "register", d) /\ ~Working(p, "claim", d)
      BY <1>2, <3>1 DEF Ats
    <3>3. ~Cancelled(parent[d]) /\ d \in children[parent[d]] => InHand(d)'
      BY DEF InHand, tree, Cancelled
    <3>4. ~HasKid(p, parent[d], d)
      BY <1>1, <1>2, Acting DEF HasKid, AfterClaim
    <3> QED
      BY <3>2, <3>3, <3>4
  <2> QED
    BY <1>1, <1>3, <2>1, <2>2, CInvParts, ReachedKept
<1> QED
  BY <1>4, <1>5, <1>6, <1>7, <1>8, <1>9 DEF Slots


(* self._timer = t, unless there is nothing to wait for.                   *)
LEMMA ArmInv == ASSUME CInv, NEW p \in Procs, Arm(p) PROVE CInv'
<1>1. p \in Threads /\ "arm" \in Ats /\ InFrame(p, "arm")
  BY Numbers DEF Ats, Arm
<1> PICK c \in Ctx : c = Top(p).c /\ c \in Made
  BY <1>1, Acting
<1>2. \A x \in Ats : \A d \in Ctx : Working(p, x, d) <=> x = "arm" /\ d = c
  BY <1>1, Acting
<1>3. CASE ~OwnsTimer(c)
  <2>1. Return(p) /\ UNCHANGED <<tree, err, done, children, slot, timer, pending, now>>
    BY <1>3 DEF Arm
  <2> QED
    BY <1>1, <2>1, ReturnInv
<1>4. CASE OwnsTimer(c) /\ deadline[c] <= now
  <2>1. CallCancel(p, "built", Top(p).c, "deadline")
        /\ UNCHANGED <<tree, err, done, children, slot, timer, pending, now>>
    BY <1>4 DEF Arm
  <2>2. now >= deadline[Top(p).c]
    BY <1>4, CInvParts, Numbers DEF Types
  <2> QED
    BY <1>1, <2>1, <2>2, SelfCancelInv, Numbers
<1>5. CASE OwnsTimer(c) /\ ~(deadline[c] <= now)
  <2>1. Jump(p, "count") /\ slot' = [slot EXCEPT ![c] = TRUE]
        /\ UNCHANGED <<tree, err, done, children, timer, pending, now>>
    BY <1>5 DEF Arm
  <2>2. Only(p) /\ \A x \in Ats : \A d \in Ctx : Working(p, x, d)' <=> x = "count" /\ d = c
    <3> PICK t \in Frames : t = Top(p)
      BY <1>1, Acting
    <3> DEFINE f == [t EXCEPT !.at = "count"]
    <3>1. f \in Frames /\ f.at = "count" /\ f.c = c
      BY DEF Frames, Ats
    <3> HIDE DEF f
    <3>2. Do(p, Append(Below(p), f)) /\ stack[p] # <<>>
      BY <1>1, <2>1 DEF Jump, f, InFrame
    <3> QED
      BY <1>1, <3>1, <3>2, CInvParts, Turned
  <2>3. Building(p, c)
    BY <1>2 DEF Building, Ats, Constructor
  <2>4. /\ In("arm", c) /\ ~In("register", c) /\ ~In("count", c) /\ ~In("start", c)
        /\ In("count", c)' /\ ~In("arm", c)' /\ ~In("register", c)' /\ ~In("start", c)'
    BY <1>1, <1>2, <2>2, <2>3, OneConstructor DEF Ats, Constructor
  <2>5. In("stop", c)' <=> In("stop", c)
    BY <1>1, <1>2, <2>2, InSame DEF Ats
  <2>6. timer[c] = "none" /\ ~slot[c] /\ ~In("stop", c)
    BY <2>4, CInvParts DEF Slots, OneSlot, Unarmed
  <2>7. slot'[c] /\ slot' \in [Ctx -> BOOLEAN] /\ \A d \in Ctx : d # c => slot'[d] = slot[d]
    BY <2>1, CInvParts DEF Types
  <2>8. OneSlot(c)' /\ (IsCounted(c)' <=> IsCounted(c)) /\ (IsFinished(c)' <=> IsFinished(c))
    BY <2>1, <2>4, <2>5, <2>6, <2>7 DEF OneSlot, Unarmed, Starting, IsCounted, IsFinished
  <2>9. /\ Types' /\ Tree' /\ Calls' /\ Alone' /\ Slots' /\ Reached'
        /\ \A d \in Ctx : d # c => (IsCounted(d)' <=> IsCounted(d)) /\ (IsFinished(d)' <=> IsFinished(d))
    BY <1>1, <2>1, <2>6, <2>7, <2>8, CInvParts, ConstructorStep DEF Types
  <2>10. Balance'
    BY <2>1, <2>8, <2>9, CInvParts, BalanceKept
  <2> QED
    BY <2>9, <2>10 DEF CInv
<1> QED
  BY <1>3, <1>4, <1>5

(* timer_started().                                                        *)
LEMMA CountTimerInv == ASSUME CInv, NEW p \in Procs, CountTimer(p) PROVE CInv'
<1>1. /\ p \in Threads /\ InFrame(p, "count") /\ Jump(p, "start") /\ pending' = pending + 1
      /\ UNCHANGED <<tree, err, done, children, slot, timer, now>>
  BY Numbers DEF CountTimer
<1> PICK c \in Ctx : c = Top(p).c /\ c \in Made
  BY <1>1, Acting DEF Ats
<1>2. \A x \in Ats : \A d \in Ctx : Working(p, x, d) <=> x = "count" /\ d = c
  BY <1>1, Acting DEF Ats
<1>3. Only(p) /\ \A x \in Ats : \A d \in Ctx : Working(p, x, d)' <=> x = "start" /\ d = c
  <2> PICK t \in Frames : t = Top(p)
    BY <1>1, Acting DEF Ats
  <2> DEFINE f == [t EXCEPT !.at = "start"]
  <2>1. f \in Frames /\ f.at = "start" /\ f.c = c
    BY DEF Frames, Ats
  <2> HIDE DEF f
  <2>2. Do(p, Append(Below(p), f)) /\ stack[p] # <<>>
    BY <1>1 DEF Jump, f, InFrame
  <2> QED
    BY <1>1, <2>1, <2>2, CInvParts, Turned
<1>4. Building(p, c)
  BY <1>2 DEF Building, Ats, Constructor
<1>5. /\ In("count", c) /\ ~In("register", c) /\ ~In("arm", c) /\ ~In("start", c)
      /\ In("start", c)' /\ ~In("arm", c)' /\ ~In("register", c)' /\ ~In("count", c)'
  BY <1>1, <1>2, <1>3, <1>4, OneConstructor DEF Ats, Constructor
<1>6. In("stop", c)' <=> In("stop", c)
  BY <1>1, <1>2, <1>3, InSame DEF Ats
<1>7. OneSlot(c) /\ timer[c] \in {"none", "stopped"}
  BY <1>5, CInvParts DEF Slots, OneSlot, Starting
<1>8. OneSlot(c)' /\ ~IsCounted(c) /\ IsCounted(c)' /\ (IsFinished(c)' <=> IsFinished(c))
  BY <1>1, <1>5, <1>6, <1>7 DEF OneSlot, Unarmed, Starting, IsCounted, IsFinished
<1>9. /\ Types' /\ Tree' /\ Calls' /\ Alone' /\ Slots' /\ Reached'
      /\ \A d \in Ctx : d # c => (IsCounted(d)' <=> IsCounted(d)) /\ (IsFinished(d)' <=> IsFinished(d))
  <2>1. pending' \in Int
    BY <1>1, CInvParts DEF Types
  <2> QED
    BY <1>1, <1>7, <1>8, <2>1, CInvParts, ConstructorStep DEF Types
<1>10. Balance'
  <2>1. Counted' = Counted \cup {c} /\ c \notin Counted /\ Finished' = Finished
    BY <1>8, <1>9 DEF Counted, Finished
  <2>2. Cardinality(Counted') = Cardinality(Counted) + 1
    BY <2>1, SetsFinite, FS_AddElement
  <2> QED
    BY <1>1, <2>1, <2>2, SetsFinite, CInvParts DEF Balance
<1> QED
  BY <1>9, <1>10 DEF CInv

(* t.start() returns or raises.                                            *)
LEMMA StartInv ==
  ASSUME CInv, NEW p \in Procs, StartTimer(p) \/ StartFails(p)
  PROVE  CInv'
<1>1. /\ p \in Threads /\ InFrame(p, "start") /\ Return(p)
      /\ UNCHANGED <<tree, err, done, children, slot, pending, now>>
  BY Numbers DEF StartTimer, StartFails
<1> PICK c \in Ctx : c = Top(p).c /\ c \in Made
  BY <1>1, Acting DEF Ats
<1>2. PICK to \in {"running", "stopped", "failed"} :
        /\ timer' = [timer EXCEPT ![c] = to]
        /\ to = "running" => timer[c] # "stopped"
  BY DEF StartTimer, StartFails
<1>3. \A x \in Ats : \A d \in Ctx : Working(p, x, d) <=> x = "start" /\ d = c
  BY <1>1, Acting DEF Ats
<1>4. Only(p) /\ \A x \in Constructor \cup {"stop"} : \A d \in Ctx : ~Working(p, x, d)'
  <2>1. stack[p] # <<>>
    BY <1>1 DEF InFrame
  <2> QED
    BY <1>1, <2>1, CInvParts, Returned DEF Ats, Constructor
<1>5. Building(p, c)
  BY <1>3 DEF Building, Ats, Constructor
<1>6. /\ In("start", c) /\ ~In("register", c) /\ ~In("arm", c) /\ ~In("count", c)
      /\ ~In("start", c)' /\ ~In("arm", c)' /\ ~In("register", c)' /\ ~In("count", c)'
  BY <1>1, <1>3, <1>4, <1>5, OneConstructor DEF Ats, Constructor
<1>7. In("stop", c)' <=> In("stop", c)
  BY <1>1, <1>3, <1>4, InSame DEF Ats
<1>8. OneSlot(c) /\ timer[c] \in {"none", "stopped"}
  BY <1>6, CInvParts DEF Slots, OneSlot, Starting
<1>9. /\ timer'[c] = to /\ timer' \in [Ctx -> {"none", "running", "stopped", "over", "failed"}]
      /\ \A d \in Ctx : d # c => timer'[d] = timer[d]
  BY <1>2, CInvParts DEF Types
<1>10. OneSlot(c)' /\ IsCounted(c) /\ IsCounted(c)' /\ (IsFinished(c)' <=> IsFinished(c))
  BY <1>1, <1>2, <1>6, <1>7, <1>8, <1>9 DEF OneSlot, Unarmed, Starting, IsCounted, IsFinished
<1>11. /\ Types' /\ Tree' /\ Calls' /\ Alone' /\ Slots' /\ Reached'
       /\ \A d \in Ctx : d # c => (IsCounted(d)' <=> IsCounted(d)) /\ (IsFinished(d)' <=> IsFinished(d))
  BY <1>1, <1>8, <1>9, <1>10, CInvParts, ConstructorStep DEF Types
<1>12. Balance'
  BY <1>1, <1>10, <1>11, CInvParts, BalanceKept
<1> QED
  BY <1>11, <1>12 DEF CInv


(* The deadline passes: _on_deadline runs in the timer's own thread.       *)
LEMMA FireInv == ASSUME CInv, NEW c \in Ctx, Fire(c) PROVE CInv'
<1>1. /\ timer[c] = "running" /\ now >= deadline[c] /\ timer' = [timer EXCEPT ![c] = "over"]
      /\ Do(c, <<Frame("claim", c, "deadline")>>)
      /\ UNCHANGED <<tree, err, done, children, slot, pending, now>>
      /\ c \in Threads
  BY Numbers DEF Fire
<1>2. stack[c] = <<>> /\ c \in Made
  BY <1>1, CInvParts DEF Alone, Tree
<1> DEFINE g == Frame("claim", c, "deadline")
<1>3. g \in Frames /\ g.at = "claim" /\ g.c = c /\ g.exc = "deadline"
  BY FrameType, Numbers DEF Ats
<1> HIDE DEF g
<1>4. /\ Only(c) /\ stack'[c] = <<g>> /\ Len(stack'[c]) = 1 /\ stack'[c][1] = g
      /\ \A x \in Ats : \A d \in Ctx : Working(c, x, d)' <=> g.at = x /\ g.c = d
      /\ \A x \in Ats : \A d \in Ctx : ~Working(c, x, d)
  <2>1. Do(c, <<g>>)
    BY <1>1 DEF g
  <2> QED
    BY <1>1, <1>2, <1>3, <2>1, CInvParts, Begun
<1>5. /\ timer'[c] = "over" /\ timer' \in [Ctx -> {"none", "running", "stopped", "over", "failed"}]
      /\ \A d \in Ctx : d # c => timer'[d] = timer[d]
  BY <1>1, CInvParts DEF Types
<1>6. Types'
  BY <1>1, <1>4, <1>5, CInvParts DEF Types, Only, tree
<1>7. Tree'
  BY <1>1, <1>2, <1>5, CInvParts DEF Tree, tree, Made, Cancelled
<1>8. Calls'
  <2>1. Grows
    BY <1>1, CInvParts, SameGrows
  <2>2. Justified(c, c, "deadline")' /\ c \in Made'
    BY <1>1, <1>2 DEF Justified, tree, Made
  <2> QED
    BY <1>1, <1>3, <1>4, <1>6, <2>1, <2>2, CallsBegun DEF AfterClaim, Constructor
<1>9. \A d \in Ctx : \A x \in Constructor \cup {"stop"} : ~Working(c, x, d)' /\ ~Working(c, x, d)
  BY <1>3, <1>4 DEF Ats, Constructor
<1>10. Alone'
  <2>1. \A b \in Threads : \A d \in Ctx :
          (Building(b, d)' => Building(b, d)) /\ (Working(b, "stop", d)' => Working(b, "stop", d))
    BY <1>4, <1>9 DEF Only, Building, Ats, Constructor
  <2>2. \A d \in Ctx : stack'[d] # <<>> => timer'[d] = "over"
    BY <1>4, <1>5, CInvParts, Numbers DEF Only, Alone
  <2> QED
    BY <2>1, <2>2, CInvParts DEF Alone
<1>11. Slots' /\ Balance'
  <2>1. \A d \in Ctx : d # c =>
          OneSlot(d)' /\ (IsCounted(d)' <=> IsCounted(d)) /\ (IsFinished(d)' <=> IsFinished(d))
    BY <1>1, <1>4, <1>5, <1>9, OtherSlots
  <2>2. \A x \in Constructor \cup {"stop"} : In(x, c)' <=> In(x, c)
    BY <1>1, <1>4, <1>9, InSame DEF Ats, Constructor
  <2>3. OneSlot(c)
    BY CInvParts DEF Slots
  <2>4. OneSlot(c)' /\ (IsCounted(c)' <=> IsCounted(c)) /\ (IsFinished(c)' <=> IsFinished(c))
    BY <1>1, <1>5, <2>2, <2>3 DEF OneSlot, Unarmed, Starting, IsCounted, IsFinished, Constructor
  <2> QED
    BY <1>1, <2>1, <2>4, SlotsBalanced
<1>12. Reached'
  <2>1. \A x \in Ats : \A d \in Ctx : ~Working(c, x, d)
    BY <1>4
  <2>2. \A q, k \in Ctx : ~HasKid(c, q, k)
    BY <1>2 DEF HasKid, Depth
  <2>3. ASSUME NEW d \in Made, parent[d] # Background, ~Cancelled(parent[d]), d \in children[parent[d]]
        PROVE  InHand(d)'
    BY <1>1, <2>3 DEF InHand, tree, Cancelled
  <2>4. \A d \in Made : d \in Ctx /\ (parent[d] # Background => parent[d] \in Ctx)
    BY CInvParts, Named
  <2> QED
    BY <1>1, <1>4, <2>1, <2>2, <2>3, <2>4, CInvParts, ReachedKept DEF Ats
<1> QED
  BY <1>6, <1>7, <1>8, <1>10, <1>11, <1>12 DEF CInv

(* The first reason wins, and takes children and timer with it.            *)
LEMMA ClaimInv == ASSUME CInv, NEW a \in Threads, Claim(a) PROVE CInv'
<1>1. InFrame(a, "claim") /\ UNCHANGED <<tree, done, timer, pending, now>>
  BY DEF Claim
<1> PICK t \in Frames : t = Top(a)
  BY <1>1, Acting DEF Ats
<1> PICK c \in Ctx : c = t.c /\ c \in Made
  BY <1>1, Acting DEF Ats
<1>2. /\ stack[a] # <<>> /\ Depth(a) \in Nat \ {0} /\ t.at = "claim"
      /\ \A x \in Ats : \A d \in Ctx : Working(a, x, d) <=> x = "claim" /\ d = c
      /\ Justified(a, c, t.exc)
  BY <1>1, Acting DEF Ats
<1>3. CASE Settled(c)
  <2>1. Return(a) /\ UNCHANGED <<tree, err, done, children, slot, timer, pending, now>>
    BY <1>1, <1>3 DEF Claim
  <2> QED
    BY <1>1, <1>3, <2>1, ReturnInv DEF Ats, Settled, Cancelled
<1>4. CASE ~Settled(c)
  <2> DEFINE f == [t EXCEPT !.at = IF slot[c] THEN "stop" ELSE "close", !.kids = children[c]]
  <2>1. /\ err' = [err EXCEPT ![c] = t.exc]
        /\ children' = [children EXCEPT ![c] = {}]
        /\ slot' = [slot EXCEPT ![c] = FALSE]
        /\ Do(a, Append(Below(a), f))
    BY <1>4 DEF Claim
  <2>2. /\ f \in Frames /\ f.at = (IF slot[c] THEN "stop" ELSE "close") /\ f.c = c
        /\ f.exc = t.exc /\ f.kids = children[c]
    BY CInvParts DEF Frames, Ats, Types
  <2> HIDE DEF f
  <2>3. /\ Only(a)
        /\ Len(stack'[a]) = Depth(a) /\ stack'[a][Depth(a)] = f
        /\ \A i \in 1..(Depth(a) - 1) : stack'[a][i] = stack[a][i]
        /\ \A x \in Ats : \A d \in Ctx : Working(a, x, d)' <=> f.at = x /\ f.c = d
    BY <1>2, <2>1, <2>2, CInvParts, Turned
  <2>4. t.exc \in Reasons
    BY <1>2 DEF Justified, Reasons
  <2>5. /\ ~Cancelled(c) /\ ~done[c]
        /\ err' \in [Ctx -> Reasons \cup {NoReason}] /\ children' \in [Ctx -> SUBSET Ctx]
        /\ slot' \in [Ctx -> BOOLEAN]
        /\ err'[c] = t.exc /\ \A d \in Ctx : d # c => err'[d] = err[d]
        /\ children'[c] = {} /\ \A d \in Ctx : d # c => children'[d] = children[d]
        /\ ~slot'[c] /\ \A d \in Ctx : d # c => slot'[d] = slot[d]
    BY <1>4, <2>1, <2>4, CInvParts DEF Types, Tree, Settled, Cancelled
  <2>6. Types'
    BY <1>1, <2>3, <2>5, CInvParts DEF Types, Only, tree
  <2>7. Cancelled(c)' /\ \A d \in Ctx : d # c => (Cancelled(d)' <=> Cancelled(d))
    BY <2>4, <2>5, Numbers DEF Cancelled
  <2>8. Tree'
    BY <1>1, <2>5, <2>7, CInvParts DEF Tree, tree, Made
  <2>9. Calls'
    <3>1. Grows
      BY <1>1, <2>5, CInvParts DEF Grows, Types, tree, Made
    <3>2. Made' = Made /\ parent' = parent
      BY <1>1 DEF tree, Made
    <3>3. \A k \in f.kids : k \in Made /\ parent[k] = c
      BY <2>2, CInvParts DEF Tree
    <3>4. f.at \notin Constructor /\ f.at # "claim"
      BY <2>2 DEF Constructor
    <3> QED
      BY <1>2, <2>2, <2>3, <2>4, <2>5, <2>6, <3>1, <3>2, <3>3, <3>4, CallsTurned
  <2>10. \A x \in Constructor : \A d \in Ctx : ~Working(a, x, d) /\ ~Working(a, x, d)'
    BY <1>2, <2>2, <2>3 DEF Ats, Constructor
  <2>11. \A d \in Ctx : ~Working(a, "stop", d) /\ (Working(a, "stop", d)' <=> d = c /\ slot[c])
    BY <1>2, <2>2, <2>3 DEF Ats
  <2>12. Alone'
    <3>1. \A b \in Threads : \A d \in Ctx : Building(b, d)' => Building(b, d)
      BY <2>3, <2>10 DEF Only, Building, Ats, Constructor
    <3>2. \A b \in Threads \ {a} : \A d \in Ctx : Working(b, "stop", d)' <=> Working(b, "stop", d)
      BY <2>3 DEF Only, Ats
    <3>3. slot[c] => \A b \in Threads : ~Working(b, "stop", c)
      BY CInvParts DEF Slots, OneSlot, In
    <3>4. \A b, e \in Threads : \A d \in Ctx : Working(b, "stop", d)' /\ Working(e, "stop", d)' => b = e
      BY <2>11, <3>2, <3>3, CInvParts DEF Alone
    <3>5. \A d \in Ctx : stack'[d] # <<>> => timer'[d] = "over"
      BY <1>1, <1>2, <2>3, CInvParts, Numbers DEF Only, Alone
    <3> QED
      BY <3>1, <3>4, <3>5, CInvParts DEF Alone
  <2>13. Slots' /\ Balance'
    <3>1. \A d \in Ctx : d # c =>
            OneSlot(d)' /\ (IsCounted(d)' <=> IsCounted(d)) /\ (IsFinished(d)' <=> IsFinished(d))
      BY <1>1, <2>3, <2>5, <2>10, <2>11, OtherSlots
    <3>2. \A x \in Constructor : In(x, c)' <=> In(x, c)
      BY <2>3, <2>10, InSame DEF Ats, Constructor
    <3>3. In("stop", c)' <=> In("stop", c) \/ slot[c]
      <4>1. \A b \in Threads \ {a} : Working(b, "stop", c)' <=> Working(b, "stop", c)
        BY <2>3 DEF Only, Ats
      <4> QED
        BY <2>11, <4>1 DEF In
    <3>4. OneSlot(c) /\ slot[c] \in BOOLEAN
      BY CInvParts DEF Slots, Types
    <3>5. OneSlot(c)' /\ (IsCounted(c)' <=> IsCounted(c)) /\ (IsFinished(c)' <=> IsFinished(c))
      BY <1>1, <2>5, <3>2, <3>3, <3>4 DEF OneSlot, Unarmed, Starting, IsCounted, IsFinished, Constructor
    <3> QED
      BY <1>1, <3>1, <3>5, SlotsBalanced
  <2>14. Reached'
    <3>1. \A d \in Ctx : Closing(d)'
      <4>1. In("stop", c)' \/ In("close", c)'
        BY <2>2, <2>3 DEF In, Ats
      <4>2. ASSUME NEW d \in Ctx, d # c PROVE Closing(d)'
        <5>1. ~Working(a, "stop", d) /\ ~Working(a, "close", d)
          BY <1>2 DEF Ats
        <5> QED
          BY <1>1, <2>3, <2>7, <4>2, <5>1, CInvParts, ClosingKept DEF Reached
      <4> QED
        BY <4>1, <4>2 DEF Closing
    <3>2. ASSUME NEW d \in Made', parent'[d] # Background, ~Cancelled(d)'
          PROVE  InHand(d)'
      <4>1. /\ d \in Made /\ d \in Ctx /\ parent[d] # Background /\ parent[d] \in Ctx
            /\ parent' = parent /\ d # c /\ ~Cancelled(d)
        BY <1>1, <2>7, <3>2, CInvParts, Named DEF tree, Made
      <4>2. InHand(d)
        BY <4>1, CInvParts DEF Reached
      <4>3. ~Working(a, "register", d) /\ ~Working(a, "claim", d)
        BY <1>2, <4>1 DEF Ats
      <4>4. ~Cancelled(parent[d]) /\ d \in children[parent[d]] => InHand(d)'
        <5>1. CASE parent[d] = c
          <6>1. d \in children[c] => HasKid(a, c, d)'
            BY <1>2, <2>2, <2>3 DEF HasKid, Depth, AfterClaim
          <6> QED
            BY <4>1, <5>1, <6>1 DEF InHand, HasKid
        <5>2. CASE parent[d] # c
          BY <2>5, <2>7, <4>1, <5>2 DEF InHand, Cancelled
        <5> QED
          BY <5>1, <5>2
      <4>5. HasKid(a, parent[d], d) => InHand(d)'
        <5>1. PICK q \in Ctx : q = parent[d]
          BY <4>1
        <5>2. Top(a).at \notin AfterClaim /\ stack'[a] \in Seq(Frames) /\ Len(stack'[a]) >= Depth(a) - 1
          BY <1>2, <2>3 DEF Only, AfterClaim
        <5>3. HasKid(a, q, d) => HasKid(a, q, d)'
          BY <1>2, <2>3, <4>1, <5>2, CInvParts, KidsKept
        <5> QED
          BY <4>1, <5>1, <5>3 DEF InHand, HasKid
      <4> QED
        BY <2>3, <4>1, <4>2, <4>3, <4>4, <4>5, HandKept
    <3> QED
      BY <3>1, <3>2 DEF Reached
  <2> QED
    BY <2>6, <2>8, <2>9, <2>12, <2>13, <2>14 DEF CInv
<1> QED
  BY <1>3, <1>4


(* t.cancel() and timer_finished(), by the one call that took the timer.   *)
LEMMA StopTimerInv == ASSUME CInv, NEW a \in Threads, StopTimer(a) PROVE CInv'
<1>1. InFrame(a, "stop") /\ Jump(a, "close") /\ pending' = pending - 1
      /\ UNCHANGED <<tree, err, done, children, slot, now>>
  BY DEF StopTimer
<1> PICK t \in Frames : t = Top(a)
  BY <1>1, Acting DEF Ats
<1> PICK c \in Ctx : c = t.c /\ c \in Made
  BY <1>1, Acting DEF Ats
<1>2. /\ stack[a] # <<>> /\ Depth(a) \in Nat \ {0} /\ t.at = "stop"
      /\ \A x \in Ats : \A d \in Ctx : Working(a, x, d) <=> x = "stop" /\ d = c
      /\ t.exc \in Reasons /\ err[c] = t.exc /\ Cancelled(c)
      /\ \A k \in t.kids : k \in Made /\ k \in Ctx /\ parent[k] = c
  BY <1>1, Acting DEF Ats, AfterClaim
<1> DEFINE f == [t EXCEPT !.at = "close"]
<1>3. f \in Frames /\ f.at = "close" /\ f.c = c /\ f.exc = t.exc /\ f.kids = t.kids
  BY DEF Frames, Ats
<1> HIDE DEF f
<1>4. /\ Only(a)
      /\ Len(stack'[a]) = Depth(a) /\ stack'[a][Depth(a)] = f
      /\ \A i \in 1..(Depth(a) - 1) : stack'[a][i] = stack[a][i]
      /\ \A x \in Ats : \A d \in Ctx : Working(a, x, d)' <=> x = "close" /\ d = c
  <2>1. Do(a, Append(Below(a), f))
    BY <1>1 DEF Jump, f
  <2> QED
    BY <1>2, <1>3, <2>1, CInvParts, Turned
<1>5. /\ timer'[c] = (IF timer[c] \in {"over", "failed"} THEN timer[c] ELSE "stopped")
      /\ timer' \in [Ctx -> {"none", "running", "stopped", "over", "failed"}]
      /\ \A d \in Ctx : d # c => timer'[d] = timer[d]
  BY CInvParts DEF StopTimer, Types
<1>6. Types'
  <2>1. pending' \in Int
    BY <1>1, CInvParts DEF Types
  <2> QED
    BY <1>1, <1>4, <1>5, <2>1, CInvParts DEF Types, Only, tree
<1>7. Tree'
  BY <1>1, <1>5, CInvParts DEF Tree, tree, Made, Cancelled
<1>8. Calls'
  <2>1. Grows
    BY <1>1, CInvParts, SameGrows
  <2>2. Made' = Made /\ parent' = parent /\ err' = err
    BY <1>1 DEF tree, Made
  <2>3. f.at \notin Constructor /\ f.at # "claim"
    BY <1>3 DEF Constructor
  <2> QED
    BY <1>2, <1>3, <1>4, <1>6, <2>1, <2>2, <2>3, CallsTurned
<1>9. Alone'
  <2>1. \A d \in Ctx : ~Building(a, d)' /\ ~Working(a, "stop", d)'
    BY <1>4 DEF Building, Ats, Constructor
  <2> QED
    BY <1>1, <1>2, <1>4, <1>5, <2>1, CInvParts, AloneKept
<1>10. Slots' /\ Balance'
  <2>1. \A d \in Ctx : d # c =>
          OneSlot(d)' /\ (IsCounted(d)' <=> IsCounted(d)) /\ (IsFinished(d)' <=> IsFinished(d))
    <3>1. \A d \in Ctx : \A x \in Constructor \cup {"stop"} :
            d # c => ~Working(a, x, d) /\ ~Working(a, x, d)'
      BY <1>2, <1>4 DEF Ats, Constructor
    <3> QED
      BY <1>1, <1>4, <1>5, <3>1, OtherSlots
  <2>2. \A x \in Constructor : In(x, c)' <=> In(x, c)
    BY <1>2, <1>4, InSame DEF Ats, Constructor
  <2>3. In("stop", c) /\ ~In("stop", c)'
    <3>1. Working(a, "stop", c) /\ ~Working(a, "stop", c)'
      BY <1>2, <1>4 DEF Ats
    <3>2. \A b \in Threads \ {a} : ~Working(b, "stop", c)'
      BY <1>4, <3>1, CInvParts DEF Alone, Only, Ats
    <3> QED
      BY <3>1, <3>2 DEF In
  <2>4. OneSlot(c) /\ timer[c] \in {"none", "running", "stopped", "over", "failed"}
    BY CInvParts DEF Slots, Types
  <2>5. OneSlot(c)' /\ (IsCounted(c)' <=> IsCounted(c)) /\ ~IsFinished(c) /\ IsFinished(c)'
    BY <1>1, <1>5, <2>2, <2>3, <2>4 DEF OneSlot, Unarmed, Starting, IsCounted, IsFinished, Constructor
  <2>6. Counted' = Counted /\ Finished' = Finished \cup {c} /\ c \notin Finished
    BY <2>1, <2>5 DEF Counted, Finished
  <2>7. Cardinality(Finished') = Cardinality(Finished) + 1
    BY <2>6, SetsFinite, FS_AddElement
  <2>8. Balance'
    BY <1>1, <2>6, <2>7, SetsFinite, CInvParts DEF Balance
  <2> QED
    BY <2>1, <2>5, <2>8 DEF Slots
<1>11. Reached'
  <2>1. ASSUME NEW d \in Made, parent[d] # Background, ~Cancelled(d)
        PROVE  /\ ~Working(a, "register", d) /\ ~Working(a, "claim", d)
               /\ ~Cancelled(parent[d]) /\ d \in children[parent[d]] => InHand(d)'
               /\ HasKid(a, parent[d], d) => InHand(d)'
    <3>1. d \in Ctx /\ parent[d] \in Ctx
      BY <2>1, CInvParts, Named
    <3>2. ~Working(a, "register", d) /\ ~Working(a, "claim", d)
      BY <1>2, <3>1 DEF Ats
    <3>3. ~Cancelled(parent[d]) /\ d \in children[parent[d]] => InHand(d)'
      BY <1>1 DEF InHand, tree, Cancelled
    <3>4. PICK q \in Ctx : q = parent[d] /\ q = parent'[d]
      BY <1>1, <3>1 DEF tree
    <3>5. Top(a).c = q /\ d \in Top(a).kids => HasKid(a, q, d)'
      BY <1>2, <1>3, <1>4 DEF HasKid, Depth, AfterClaim
    <3>6. stack'[a] \in Seq(Frames) /\ Len(stack'[a]) >= Depth(a) - 1
      BY <1>2, <1>4 DEF Only
    <3>7. HasKid(a, q, d) => HasKid(a, q, d)'
      BY <1>2, <1>4, <3>1, <3>5, <3>6, CInvParts, KidsKept
    <3> QED
      BY <3>2, <3>3, <3>4, <3>7 DEF InHand, HasKid
  <2>2. \A d \in Ctx : Working(a, "stop", d) \/ Working(a, "close", d) => Working(a, "close", d)'
    BY <1>2, <1>4 DEF Ats
  <2> QED
    BY <1>1, <1>4, <2>1, <2>2, CInvParts, ReachedKept
<1> QED
  BY <1>6, <1>7, <1>8, <1>9, <1>10, <1>11 DEF CInv

(* Time passes, or nothing does.                                           *)
LEMMA TimeInv ==
  ASSUME CInv, UNCHANGED <<tree, err, done, children, slot, timer, pending, stack>>,
         now' \in 0..MaxTime, now' >= now
  PROVE  CInv'
<1>1. /\ made' = made /\ parent' = parent /\ own' = own /\ deadline' = deadline /\ err' = err
      /\ done' = done /\ children' = children /\ slot' = slot /\ timer' = timer
      /\ pending' = pending /\ stack' = stack
  BY DEF tree
<1>2. Types' /\ Tree'
  BY <1>1, CInvParts DEF Types, Tree, Made, Cancelled
<1>3. Calls'
  <2>1. Grows
    BY <1>1 DEF Grows, Made
  <2>2. \A a \in Threads : \A i \in 1..Depth(a) : OneFrame(a, i)'
    BY <1>1, <1>2, <2>1, CInvParts, FrameStands
  <2> QED
    BY <1>1, <2>2 DEF Calls, Depth
<1>4. \A a \in Threads : \A x, c : Working(a, x, c)' <=> Working(a, x, c)
  BY <1>1 DEF Working, InFrame, Top, Depth
<1>5. \A x, c : In(x, c)' <=> In(x, c)
  BY <1>4 DEF In
<1>6. \A a \in Threads : \A q, k : HasKid(a, q, k)' <=> HasKid(a, q, k)
  BY <1>1 DEF HasKid, Depth
<1>7. Alone'
  BY <1>1, <1>4, CInvParts DEF Alone, Building
<1>8. Slots'
  BY <1>1, <1>5, CInvParts DEF Slots, OneSlot, Unarmed, Starting
<1>9. Balance'
  BY <1>1, <1>5, CInvParts, BalanceKept DEF IsCounted, IsFinished
<1>10. Reached'
  <2>1. \A c \in Ctx : Closing(c)'
    BY <1>1, <1>5, CInvParts DEF Reached, Closing, Cancelled
  <2>2. \A c : InHand(c) => InHand(c)'
    BY <1>1, <1>5, <1>6 DEF InHand, HasKid, Cancelled, Depth
  <2> QED
    BY <1>1, <2>1, <2>2, CInvParts DEF Reached, Made, Cancelled
<1> QED
  BY <1>2, <1>3, <1>7, <1>8, <1>9, <1>10 DEF CInv


-----------------------------------------------------------------------------
(* The theorems.                                                           *)

LEMMA InitInv == ASSUME Init PROVE CInv
<1>1. Types
  <2>1. \A a \in Threads : stack[a] = <<>> /\ <<>> \in Seq(Frames)
    BY DEF Init
  <2>2. stack \in [Threads -> Seq(Frames)]
    BY <2>1 DEF Init
  <2>3. 0 \in 0..MaxCtx /\ 0 \in 0..MaxTime /\ Never \in 0..Never
    BY Numbers, ContextAssumption
  <2> QED
    BY <2>2, <2>3 DEF Init, Types, Background
<1>2. \A a \in Threads : stack[a] = <<>> /\ Depth(a) = 0
  BY DEF Init, Depth
<1>3. \A a \in Threads : \A x, c : ~Working(a, x, c)
  BY <1>2 DEF Working, InFrame
<1>4. \A x, c : ~In(x, c)
  BY <1>3 DEF In
<1>5. Made = {}
  BY DEF Init, Made
<1>6. Tree
  BY <1>5, Numbers DEF Init, Tree, Cancelled, Background, Ctx
<1>7. Calls
  BY <1>2 DEF Calls
<1>8. Alone
  BY <1>2, <1>3, Numbers DEF Alone, Building
<1>9. Slots
  BY <1>4 DEF Init, Slots, OneSlot, Unarmed, Starting
<1>10. Balance
  <2>1. Counted = {} /\ Finished = {}
    BY <1>4 DEF Init, Counted, Finished, IsCounted, IsFinished
  <2> QED
    BY <2>1, FS_EmptySet DEF Init, Balance
<1>11. Reached
  BY <1>5 DEF Init, Reached, Closing, Cancelled
<1> QED
  BY <1>1, <1>6, <1>7, <1>8, <1>9, <1>10, <1>11 DEF CInv

LEMMA NextInv == ASSUME CInv, [Next]_vars PROVE CInv'
<1>1. CASE UNCHANGED vars
  <2>1. now' \in 0..MaxTime /\ now' >= now
    BY <1>1, CInvParts DEF vars, Types
  <2> QED
    BY <1>1, <2>1, TimeInv DEF vars, tree
<1>2. ASSUME NEW p \in Procs, New(p) \/ Cancel(p) \/ Construct(p) PROVE CInv'
  BY <1>2, NewInv, CancelInv, RegisterInv, ArmInv, CountTimerInv, StartInv, BuiltInv DEF Construct
<1>3. ASSUME NEW a \in Threads, Step(a) PROVE CInv'
  BY <1>3, ClaimInv, StopTimerInv, CloseDoneInv, CancelChildInv, LeaveParentInv DEF Step
<1>4. ASSUME NEW c \in Ctx, Fire(c) PROVE CInv'
  BY <1>4, FireInv
<1>5. CASE Tick
  <2>1. now' \in 0..MaxTime /\ now' >= now
    BY <1>5, CInvParts, ContextAssumption DEF Tick, Types
  <2> QED
    BY <1>5, <2>1, TimeInv DEF Tick
<1> QED
  BY <1>1, <1>2, <1>3, <1>4, <1>5 DEF Next

(* In every reachable state of Context, every call of _cancel carries a    *)
(* reason it may hand on, and the pending count is what the calls made of  *)
(* it.                                                                     *)
THEOREM Invariant == Spec => []CInv
<1>1. Init => CInv
  BY InitInv
<1>2. CInv /\ [Next]_vars => CInv'
  BY NextInv
<1> QED
  BY <1>1, <1>2, PTL DEF Spec

(* "Cancelling a child never affects its parent": _cancel sets _err once,  *)
(* because cancel() was called on that context, its deadline passed, or    *)
(* its parent has that reason.                                             *)
THEOREM ReasonsFlowDown == Spec => FlowsDown
<1> DEFINE Down ==
      \A c \in Ctx : err'[c] # err[c] =>
        /\ ~Cancelled(c)
        /\ \/ \E p \in Procs : stack[p] = <<Frame("claim", c, "canceled")>> /\ err'[c] = "canceled"
           \/ err'[c] = "deadline" /\ now >= deadline[c]
           \/ parent[c] # Background /\ err'[c] = err[parent[c]]
<1>1. ASSUME CInv, NEW a \in Threads, Claim(a) PROVE Down
  <2>1. InFrame(a, "claim")
    BY <1>1 DEF Claim
  <2>2. Justified(a, Top(a).c, Top(a).exc) /\ Top(a).c \in Ctx
    BY <1>1, <2>1, Acting DEF Ats
  <2>3. SUFFICES ASSUME NEW c \in Ctx, err'[c] # err[c]
                 PROVE  /\ ~Cancelled(c)
                        /\ \/ \E p \in Procs : stack[p] = <<Frame("claim", c, "canceled")>> /\ err'[c] = "canceled"
                           \/ err'[c] = "deadline" /\ now >= deadline[c]
                           \/ parent[c] # Background /\ err'[c] = err[parent[c]]
    OBVIOUS
  <2>4. ~Settled(Top(a).c) /\ err' = [err EXCEPT ![Top(a).c] = Top(a).exc]
    BY <1>1, <2>3 DEF Claim
  <2>5. c = Top(a).c /\ err'[c] = Top(a).exc
    BY <1>1, <2>2, <2>3, <2>4, CInvParts DEF Types
  <2> QED
    BY <2>2, <2>4, <2>5 DEF Justified, Settled, Cancelled
<1>2. ASSUME CInv, [Next]_vars PROVE [Down]_vars
  <2>1. CASE \E a \in Threads : Claim(a)
    BY <1>1, <1>2, <2>1
  <2>2. CASE ~\E a \in Threads : Claim(a)
    <3>1. err' = err
      BY <1>2, <2>2 DEF Next, vars, Construct, Step, New, Cancel, Register, Arm, CountTimer, StartTimer,
            StartFails, Built, Fire, StopTimer, CloseDone, CancelChild, LeaveParent, Tick
    <3> QED
      BY <3>1
  <2> QED
    BY <2>1, <2>2
<1>3. CInv /\ [Next]_vars => [Down]_vars
  BY <1>2
<1> QED
  BY <1>3, Invariant, PTL DEF Spec, FlowsDown

LEMMA NobodyIn ==
  ASSUME Quiet
  PROVE  \A x, c : ~In(x, c)
BY DEF Quiet, Idle, In, Working, InFrame

(* The detector never takes a timer that will fire for none: when nobody   *)
(* is inside the library, _pending_timers counts every timer that runs.    *)
THEOREM DeadlinesAreCounted == Spec => []TimersCovered
<1> DEFINE Running == {c \in Ctx : timer[c] = "running"}
           Kept == Counted \ Finished
<1>1. ASSUME CInv, Quiet PROVE pending >= Cardinality(Running)
  <2>1. Finished \subseteq Counted /\ Running \subseteq Kept
    BY <1>1, NobodyIn, CInvParts DEF Counted, Finished, IsCounted, IsFinished, Slots, OneSlot
  <2>2. IsFiniteSet(Kept) /\ IsFiniteSet(Running)
    BY <2>1, SetsFinite, FS_Subset
  <2>3. Cardinality(Kept) \in Nat /\ Cardinality(Running) \in Nat
    BY <2>2, FS_CardinalityType
  <2>4. Counted = Kept \cup Finished /\ Kept \cap Finished = {}
    BY <2>1
  <2>5. Cardinality(Kept \cap Finished) = 0
    BY <2>4, FS_EmptySet
  <2>6. Cardinality(Kept \cup Finished) =
          Cardinality(Kept) + Cardinality(Finished) - Cardinality(Kept \cap Finished)
    BY <2>2, SetsFinite, FS_Union
  <2>7. Cardinality(Running) <= Cardinality(Kept)
    BY <2>1, <2>2, FS_Subset
  <2> HIDE DEF Kept, Running
  <2>8. Cardinality(Counted) = Cardinality(Kept) + Cardinality(Finished)
    BY <2>3, <2>4, <2>5, <2>6, SetsFinite
  <2> QED
    BY <1>1, <2>3, <2>7, <2>8, SetsFinite, CInvParts DEF Balance
<1>2. CInv => TimersCovered
  BY <1>1 DEF TimersCovered
<1> QED
  BY <1>2, Invariant, PTL

(* Cancellation is complete: when nobody is inside the library, a context  *)
(* that is cancelled has its done channel closed and its children are      *)
(* cancelled too.                                                          *)
Cascaded ==
  Quiet => \A c \in Made :
    /\ Cancelled(c) => done[c]
    /\ parent[c] # Background /\ Cancelled(parent[c]) => Cancelled(c)

(* No child of a cancelled context is missed, whether it registers while   *)
(* the cascade is on its way, after it, or is cancelled from elsewhere.    *)
THEOREM CancellationCascades == Spec => []Cascaded
<1>1. ASSUME CInv, Quiet, NEW c \in Made
      PROVE  /\ Cancelled(c) => done[c]
             /\ parent[c] # Background /\ Cancelled(parent[c]) => Cancelled(c)
  <2>1. c \in Ctx
    BY <1>1, CInvParts, Named
  <2>2. Cancelled(c) => done[c]
    BY <1>1, <2>1, NobodyIn, CInvParts DEF Reached, Closing
  <2>3. \A a \in Threads : \A q \in Ctx : ~HasKid(a, q, c)
    BY <1>1 DEF Quiet, Idle, HasKid, Depth
  <2>4. parent[c] # Background => parent[c] \in Ctx
    BY <2>1, CInvParts, <1>1, Named
  <2> QED
    BY <1>1, <2>2, <2>3, <2>4, NobodyIn, CInvParts DEF Reached, InHand
<1>2. CInv => Cascaded
  BY <1>1 DEF Cascaded
<1> QED
  BY <1>2, Invariant, PTL

=============================================================================
