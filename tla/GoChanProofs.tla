---------------------------- MODULE GoChanProofs ----------------------------
(***************************************************************************)
(* A channel that keeps GoChan's promise delivers every accepted value     *)
(* exactly once.  The argument: an operation that is not decided holds no  *)
(* value and is in no buffer; an action decides an operation without a     *)
(* value, moves a value into a buffer, or moves one from the head of a     *)
(* buffer to a receiver.  A rendezvous and a refill are two of these moves *)
(* in one step, so the lemmas speak of outcomes l and buffers b that need  *)
(* not be those of a state.                                                *)
(***************************************************************************)
EXTENDS GoChan, SequenceTheorems, TLAPS

Undecided(l, w) == l[w].st \in {"none", "pending"} /\ l[w].got = Unset
Typed(l, b) == l \in [Op -> Outcomes(Op \cup {Unset})] /\ b \in [Chans -> Seq(Op)]

(* An operation that is not decided received nothing; a call not yet made  *)
(* is not decided.                                                         *)
Fresh ==
  /\ \A w \in Op : lin[w].st \in {"none", "pending"} => lin[w].got = Unset
  /\ \A p \in Procs : \A n \in 1..MaxOps : n > nops[p] => lin[<<p, n>>].st = "none"

GoInv == CallsTypeOK /\ Fresh /\ ExactlyOnce

-----------------------------------------------------------------------------
(* An undecided operation starts, or ends, without a value.                *)
LEMMA DecideWithoutValue ==
  ASSUME NEW l, NEW b, Typed(l, b), OnePlace(l, b),
         NEW w \in Op, Undecided(l, w),
         NEW o, o.st # "ok", o.got = Unset
  PROVE  OnePlace([l EXCEPT ![w] = o], b)
<1> DEFINE l2 == [l EXCEPT ![w] = o]
<1>1. l2[w] = o /\ \A x \in Op : x # w => l2[x] = l[x]
  BY DEF Typed
<1> HIDE DEF l2
<1>2. \A x \in Op : Accepted(l2, x) <=> Accepted(l, x)
  BY <1>1 DEF Accepted, Undecided
<1>3. \A x \in Op : Received(l2, x) <=> Received(l, x)
  BY <1>1, ChanAssumption DEF Received, Undecided
<1>4. \A r1, r2 \in Op : l2[r1].got = l2[r2].got /\ l2[r1].got # Unset => r1 = r2
  BY <1>1 DEF OnePlace, Undecided
<1>5. OnePlace(l2, b)
  BY <1>2, <1>3, <1>4 DEF OnePlace
<1> QED
  BY <1>5 DEF l2

(* An undecided operation sends its value into a buffer.                   *)
LEMMA ValueBuffered ==
  ASSUME NEW l, NEW b, Typed(l, b), OnePlace(l, b),
         NEW w \in Op, Undecided(l, w), NEW i \in Int, NEW c \in Chans
  PROVE  /\ OnePlace([l EXCEPT ![w] = Outcome("ok", i, Unset)],
                     [b EXCEPT ![c] = Append(b[c], w)])
         /\ Typed([l EXCEPT ![w] = Outcome("ok", i, Unset)],
                  [b EXCEPT ![c] = Append(b[c], w)])
<1> DEFINE l2 == [l EXCEPT ![w] = Outcome("ok", i, Unset)]
           b2 == [b EXCEPT ![c] = Append(b[c], w)]
<1>0. Typed(l2, b2)
  BY DEF Typed, Outcomes, Outcome
<1>1. /\ l2[w].st = "ok" /\ l2[w].got = Unset
      /\ \A x \in Op : x # w => l2[x] = l[x]
  BY DEF Typed, Outcome
<1>2. /\ DOMAIN b2[c] = 1..(Len(b[c]) + 1)
      /\ b2[c][Len(b[c]) + 1] = w
      /\ \A k \in DOMAIN b[c] : b2[c][k] = b[c][k]
      /\ DOMAIN b[c] = 1..Len(b[c])
      /\ Len(b[c]) \in Nat
      /\ \A d \in Chans : d # c => b2[d] = b[d]
  BY DEF Typed
<1> HIDE DEF l2, b2
<1>3. ~Accepted(l, w) /\ ~InBuf(b, w) /\ ~Received(l, w)
  BY DEF OnePlace, Undecided, Accepted
<1>4. \A x \in Op : Accepted(l2, x) <=> Accepted(l, x) \/ x = w
  BY <1>1 DEF Accepted
<1>5. \A x \in Op : Received(l2, x) <=> Received(l, x)
  BY <1>1, ChanAssumption DEF Received, Undecided
<1>6. \A x \in Op : InBuf(b2, x) <=> InBuf(b, x) \/ x = w
  <2> SUFFICES ASSUME NEW x \in Op PROVE InBuf(b2, x) <=> InBuf(b, x) \/ x = w
    OBVIOUS
  <2>1. InBuf(b2, x) => InBuf(b, x) \/ x = w
    BY <1>2 DEF InBuf
  <2>2. InBuf(b, x) => InBuf(b2, x)
    BY <1>2 DEF InBuf
  <2>3. x = w => InBuf(b2, x)
    BY <1>2 DEF InBuf
  <2> QED
    BY <2>1, <2>2, <2>3
<1>7. \A r1, r2 \in Op : l2[r1].got = l2[r2].got /\ l2[r1].got # Unset => r1 = r2
  BY <1>1 DEF OnePlace, Undecided
<1>8. ASSUME NEW d \in Chans, NEW e \in Chans,
             NEW k \in DOMAIN b2[d], NEW m \in DOMAIN b2[e], b2[d][k] = b2[e][m]
      PROVE  d = e /\ k = m
  <2>1. ASSUME NEW f \in Chans, NEW n \in DOMAIN b2[f], b2[f][n] = w
        PROVE  f = c /\ n = Len(b[c]) + 1
    BY <1>2, <1>3, <2>1 DEF InBuf
  <2>2. CASE b2[d][k] = w
    BY <1>8, <2>1, <2>2
  <2>3. CASE b2[d][k] # w
    <3>1. /\ k \in DOMAIN b[d] /\ b2[d][k] = b[d][k]
          /\ m \in DOMAIN b[e] /\ b2[e][m] = b[e][m]
      BY <1>2, <1>8, <2>3
    <3>2. b[d][k] = b[e][m]
      BY <3>1, <1>8
    <3> QED
      BY ONLY <3>1, <3>2, OnePlace(l, b), d \in Chans, e \in Chans DEF OnePlace
  <2> QED
    BY <2>2, <2>3
<1>9. OnePlace(l2, b2)
  BY <1>3, <1>4, <1>5, <1>6, <1>7, <1>8 DEF OnePlace
<1> QED
  BY <1>0, <1>9 DEF l2, b2

(* An undecided operation receives the oldest value of a buffer.           *)
LEMMA ValueReceived ==
  ASSUME NEW l, NEW b, Typed(l, b), OnePlace(l, b),
         NEW r \in Op, Undecided(l, r), NEW i \in Int, NEW c \in Chans, b[c] # <<>>
  PROVE  /\ OnePlace([l EXCEPT ![r] = Outcome("ok", i, Head(b[c]))],
                     [b EXCEPT ![c] = Tail(b[c])])
         /\ Typed([l EXCEPT ![r] = Outcome("ok", i, Head(b[c]))],
                  [b EXCEPT ![c] = Tail(b[c])])
<1> DEFINE v == Head(b[c])
           l2 == [l EXCEPT ![r] = Outcome("ok", i, v)]
           b2 == [b EXCEPT ![c] = Tail(b[c])]
<1>0. Typed(l2, b2) /\ v \in Op
  BY DEF Typed, Outcomes, Outcome
<1>1. /\ l2[r].st = "ok" /\ l2[r].got = v
      /\ \A x \in Op : x # r => l2[x] = l[x]
  BY DEF Typed, Outcome
<1>2. /\ DOMAIN b2[c] = 1..(Len(b[c]) - 1)
      /\ \A k \in DOMAIN b2[c] : b2[c][k] = b[c][k + 1]
      /\ DOMAIN b[c] = 1..Len(b[c])
      /\ Len(b[c]) \in Nat \ {0}
      /\ b[c][1] = v
      /\ \A d \in Chans : d # c => b2[d] = b[d]
  BY DEF Typed
<1> HIDE DEF l2, b2, v
<1>3. InBuf(b, v) /\ ~Received(l, v) /\ Accepted(l, v) /\ v # Unset
  <2>1. InBuf(b, v)
    BY <1>2 DEF InBuf
  <2> QED
    BY <2>1, <1>0, ChanAssumption DEF OnePlace
<1>4. \A x \in Op : Accepted(l2, x) <=> Accepted(l, x)
  BY <1>1, <1>3 DEF Accepted, Undecided
<1>5. \A x \in Op : Received(l2, x) <=> Received(l, x) \/ x = v
  BY <1>1, ChanAssumption DEF Received, Undecided
<1>6. \A x \in Op : InBuf(b2, x) <=> InBuf(b, x) /\ x # v
  <2> SUFFICES ASSUME NEW x \in Op PROVE InBuf(b2, x) <=> InBuf(b, x) /\ x # v
    OBVIOUS
  <2>1. ASSUME NEW d \in Chans, NEW k \in DOMAIN b2[d], b2[d][k] = x
        PROVE  InBuf(b, x) /\ x # v
    <3>1. CASE d = c
      <4>1. k + 1 \in DOMAIN b[c] /\ b[c][k + 1] = x /\ k + 1 # 1 /\ 1 \in DOMAIN b[c]
        BY <1>2, <2>1, <3>1
      <4> QED
        BY <4>1, <1>2 DEF InBuf, OnePlace
    <3>2. CASE d # c
      <4>1. k \in DOMAIN b[d] /\ b[d][k] = x /\ 1 \in DOMAIN b[c]
        BY <1>2, <2>1, <3>2
      <4> QED
        BY <4>1, <1>2, <3>2 DEF InBuf, OnePlace
    <3> QED
      BY <3>1, <3>2
  <2>2. ASSUME NEW d \in Chans, NEW k \in DOMAIN b[d], b[d][k] = x, x # v
        PROVE  InBuf(b2, x)
    <3>1. CASE d = c
      <4>1. k - 1 \in DOMAIN b2[c] /\ b2[c][k - 1] = x
        BY <1>2, <2>2, <3>1
      <4> QED
        BY <4>1 DEF InBuf
    <3>2. CASE d # c
      BY <1>2, <2>2, <3>2 DEF InBuf
    <3> QED
      BY <3>1, <3>2
  <2> QED
    BY <2>1, <2>2 DEF InBuf
<1>7. \A r1, r2 \in Op : l2[r1].got = l2[r2].got /\ l2[r1].got # Unset => r1 = r2
  BY <1>1, <1>3 DEF OnePlace, Received
<1>8. ASSUME NEW d \in Chans, NEW e \in Chans,
             NEW k \in DOMAIN b2[d], NEW m \in DOMAIN b2[e], b2[d][k] = b2[e][m]
      PROVE  d = e /\ k = m
  <2> DEFINE Old(f, n) == IF f = c THEN n + 1 ELSE n
  <2>1. ASSUME NEW f \in Chans, NEW n \in DOMAIN b2[f]
        PROVE  Old(f, n) \in DOMAIN b[f] /\ b2[f][n] = b[f][Old(f, n)]
    <3>1. CASE f = c
      BY <1>2, <3>1
    <3>2. CASE f # c
      BY <1>2, <3>2
    <3> QED
      BY <3>1, <3>2
  <2>2. /\ Old(d, k) \in DOMAIN b[d] /\ b2[d][k] = b[d][Old(d, k)]
        /\ Old(e, m) \in DOMAIN b[e] /\ b2[e][m] = b[e][Old(e, m)]
    BY <2>1
  <2> HIDE DEF Old
  <2>3. b[d][Old(d, k)] = b[e][Old(e, m)]
    BY <2>2, <1>8
  <2>4. d = e /\ Old(d, k) = Old(e, m)
    BY ONLY <2>2, <2>3, OnePlace(l, b), d \in Chans, e \in Chans DEF OnePlace
  <2>5. d = c => k \in Nat /\ m \in Nat
    BY <1>2, <2>4
  <2> QED
    BY <2>4, <2>5 DEF Old
<1>9. OnePlace(l2, b2)
  BY <1>3, <1>4, <1>5, <1>6, <1>7, <1>8 DEF OnePlace
<1> QED
  BY <1>0, <1>9 DEF l2, b2, v
-----------------------------------------------------------------------------
(* GoChan preserves its invariant.                                         *)

LEMMA PendingUndecided ==
  ASSUME GoInv, NEW p \in Procs, Pending(p)
  PROVE  Cur(p) \in Op /\ Undecided(lin, Cur(p)) /\ lin[Cur(p)].st = "pending"
BY ChanAssumption DEF GoInv, CallsTypeOK, Fresh, Pending, Cur, Op, Undecided

(* What is left to show of a step that decides operations.                 *)
LEMMA DecidedStep ==
  ASSUME GoInv, NEW D \in SUBSET Op,
         \A w \in D : lin[w].st = "pending",
         lin' \in [Op -> Outcomes(Op \cup {Unset})],
         \A w \in Op \ D : lin'[w] = lin[w],
         \A w \in D : lin'[w].st \notin {"none", "pending"},
         nops' = nops
  PROVE  Fresh'
<1>1. \A w \in Op : lin'[w].st \in {"none", "pending"} => lin'[w].got = Unset
  BY DEF GoInv, Fresh
<1>2. ASSUME NEW p \in Procs, NEW n \in 1..MaxOps, n > nops'[p]
      PROVE  lin'[<<p, n>>].st = "none"
  <2>1. <<p, n>> \in Op /\ lin[<<p, n>>].st = "none"
    BY <1>2 DEF Op, GoInv, Fresh
  <2> QED
    BY <2>1
<1> QED
  BY <1>1, <1>2 DEF Fresh

LEMMA InvokeInv == ASSUME GoInv, NEW p \in Procs, Invoke(p) PROVE GoInv'
<1> DEFINE w == <<p, nops[p] + 1>>
<1>1. nops[p] \in 0..MaxOps /\ nops[p] < MaxOps
  BY DEF Invoke, NewCall, GoInv, CallsTypeOK
<1>2. w \in Op /\ nops[p] + 1 > nops[p]
  BY <1>1, ChanAssumption DEF Op
<1>3. lin[w].st = "none" /\ Undecided(lin, w)
  <2>1. nops[p] + 1 \in 1..MaxOps
    BY <1>1, ChanAssumption
  <2>2. lin[w].st = "none"
    BY <2>1, <1>2 DEF GoInv, Fresh
  <2> QED
    BY <2>2, <1>2 DEF GoInv, Fresh, Undecided
<1>4. CallsTypeOK'
  <2>1. PICK cl \in Calls[p] : call' = [call EXCEPT ![p] = cl]
    BY DEF Invoke, NewCall
  <2>2. call' \in [Procs -> {NoCall} \cup UNION {Calls[q] : q \in Procs}]
    BY <2>1 DEF GoInv, CallsTypeOK
  <2>3. Outcome("pending", NoIndex, Unset) \in Outcomes(Op \cup {Unset})
    BY DEF Outcomes, Outcome, NoIndex
  <2>4. lin' \in [Op -> Outcomes(Op \cup {Unset})]
    BY <2>3 DEF Invoke, NewCall, GoInv, CallsTypeOK
  <2>5. nops' \in [Procs -> 0..MaxOps]
    BY <1>1, ChanAssumption DEF Invoke, NewCall, GoInv, CallsTypeOK
  <2>6. closed' \in [Chans -> BOOLEAN] /\ buf' \in [Chans -> Seq(Op)]
    BY DEF Invoke, NewCall, GoInv, CallsTypeOK
  <2> QED
    BY <2>2, <2>4, <2>5, <2>6 DEF CallsTypeOK
<1>5. Fresh'
  <2>1. \A x \in Op : lin'[x] = IF x = w THEN Outcome("pending", NoIndex, Unset) ELSE lin[x]
    BY <1>2 DEF Invoke, NewCall, GoInv, CallsTypeOK
  <2>2. \A x \in Op : lin'[x].st \in {"none", "pending"} => lin'[x].got = Unset
    BY <2>1 DEF GoInv, Fresh, Outcome
  <2>3. ASSUME NEW q \in Procs, NEW n \in 1..MaxOps, n > nops'[q]
        PROVE  lin'[<<q, n>>].st = "none"
    <3>1. <<q, n>> \in Op /\ n > nops[q] /\ <<q, n>> # w
      BY <1>1, <2>3 DEF Invoke, NewCall, GoInv, CallsTypeOK, Op
    <3> QED
      BY <3>1, <2>1 DEF GoInv, Fresh
  <2> QED
    BY <2>2, <2>3 DEF Fresh
<1>6. ExactlyOnce'
  <2> DEFINE o == Outcome("pending", NoIndex, Unset)
  <2>1. o.st # "ok" /\ o.got = Unset
    BY DEF Outcome
  <2>2. lin' = [lin EXCEPT ![w] = o] /\ buf' = buf
    BY DEF Invoke, NewCall
  <2> HIDE DEF o, w
  <2> QED
    BY <1>2, <1>3, <2>1, <2>2, DecideWithoutValue DEF GoInv, CallsTypeOK, ExactlyOnce, Typed
<1> QED
  BY <1>4, <1>5, <1>6 DEF GoInv

(* Refuse, Close, GiveUp and Decline decide p's operation without a value, *)
(* and so does the cancellation of a task.                                 *)
LEMMA EndWithoutValueInv ==
  ASSUME GoInv, NEW p \in Procs, Pending(p),
         NEW st \in {"closed", "timeout", "wouldblock", "done", "cancelled"}, NEW i \in Int,
         lin' = [lin EXCEPT ![Cur(p)] = Outcome(st, i, Unset)],
         closed' \in [Chans -> BOOLEAN],
         buf' = buf, nops' = nops, call' = call
  PROVE  GoInv'
<1>1. Cur(p) \in Op /\ Undecided(lin, Cur(p)) /\ lin[Cur(p)].st = "pending"
  BY PendingUndecided
<1>2. CallsTypeOK'
  BY DEF GoInv, CallsTypeOK, Outcomes, Outcome
<1>3. Fresh'
  <2>1. /\ \A w \in Op \ {Cur(p)} : lin'[w] = lin[w]
        /\ lin'[Cur(p)].st = st
    BY <1>1 DEF GoInv, CallsTypeOK, Outcome
  <2>2. /\ {Cur(p)} \in SUBSET Op
        /\ \A w \in {Cur(p)} : lin[w].st = "pending" /\ lin'[w].st \notin {"none", "pending"}
    BY <2>1, <1>1
  <2> QED
    BY <2>1, <2>2, <1>2, DecidedStep DEF CallsTypeOK
<1>4. ExactlyOnce'
  BY <1>1, DecideWithoutValue DEF GoInv, CallsTypeOK, ExactlyOnce, Typed, Outcome
<1> QED
  BY <1>2, <1>3, <1>4 DEF GoInv

LEMMA EnqueueInv ==
  ASSUME GoInv, NEW s \in Procs, NEW i \in Int, NEW c \in Chans, Enqueue(s, i, c)
  PROVE  GoInv'
<1>1. Cur(s) \in Op /\ Undecided(lin, Cur(s)) /\ lin[Cur(s)].st = "pending"
  BY PendingUndecided DEF Enqueue, Offers
<1>2. ExactlyOnce' /\ Typed(lin', buf')
  BY <1>1, ValueBuffered DEF Enqueue, GoInv, CallsTypeOK, ExactlyOnce, Typed
<1>3. CallsTypeOK'
  BY <1>2 DEF Enqueue, GoInv, CallsTypeOK, Typed
<1>4. Fresh'
  <2>1. /\ \A w \in Op \ {Cur(s)} : lin'[w] = lin[w]
        /\ lin'[Cur(s)].st = "ok"
    BY <1>1 DEF Enqueue, GoInv, CallsTypeOK, Outcome
  <2>2. /\ {Cur(s)} \in SUBSET Op
        /\ \A w \in {Cur(s)} : lin[w].st = "pending" /\ lin'[w].st \notin {"none", "pending"}
    BY <2>1, <1>1
  <2> QED
    BY <2>1, <2>2, <1>3, DecidedStep DEF CallsTypeOK, Enqueue
<1> QED
  BY <1>2, <1>3, <1>4 DEF GoInv

LEMMA DequeueInv ==
  ASSUME GoInv, NEW r \in Procs, NEW j \in Int, NEW c \in Chans, Dequeue(r, j, c)
  PROVE  GoInv'
<1>1. Cur(r) \in Op /\ Undecided(lin, Cur(r)) /\ lin[Cur(r)].st = "pending"
  BY PendingUndecided DEF Dequeue, Offers
<1>2. ExactlyOnce' /\ Typed(lin', buf')
  BY <1>1, ValueReceived DEF Dequeue, GoInv, CallsTypeOK, ExactlyOnce, Typed
<1>3. CallsTypeOK'
  BY <1>2 DEF Dequeue, GoInv, CallsTypeOK, Typed
<1>4. Fresh'
  <2>1. /\ \A w \in Op \ {Cur(r)} : lin'[w] = lin[w]
        /\ lin'[Cur(r)].st = "ok"
    BY <1>1 DEF Dequeue, GoInv, CallsTypeOK, Outcome
  <2>2. /\ {Cur(r)} \in SUBSET Op
        /\ \A w \in {Cur(r)} : lin[w].st = "pending" /\ lin'[w].st \notin {"none", "pending"}
    BY <2>1, <1>1
  <2> QED
    BY <2>1, <2>2, <1>3, DecidedStep DEF CallsTypeOK, Dequeue
<1> QED
  BY <1>2, <1>3, <1>4 DEF GoInv
LEMMA RendezvousInv ==
  ASSUME GoInv, NEW s \in Procs, NEW r \in Procs, NEW i \in Int, NEW j \in Int,
         NEW c \in Chans, Rendezvous(s, i, r, j, c)
  PROVE  GoInv'
<1> DEFINE l2 == [lin EXCEPT ![Cur(s)] = Outcome("ok", i, Unset)]
           b2 == [buf EXCEPT ![c] = Append(buf[c], Cur(s))]
<1>1. /\ Cur(s) \in Op /\ Undecided(lin, Cur(s)) /\ lin[Cur(s)].st = "pending"
      /\ Cur(r) \in Op /\ Undecided(lin, Cur(r)) /\ lin[Cur(r)].st = "pending"
      /\ Cur(s) # Cur(r)
  BY PendingUndecided DEF Rendezvous, Offers, Cur
<1>2. OnePlace(l2, b2) /\ Typed(l2, b2)
  BY <1>1, ValueBuffered DEF GoInv, CallsTypeOK, ExactlyOnce, Typed
<1>3. /\ buf \in [Chans -> Seq(Op)]
      /\ buf[c] = <<>>
  BY DEF Rendezvous, GoInv, CallsTypeOK
<1>4. b2[c] = Append(<<>>, Cur(s)) /\ <<>> \in Seq(Op)
  BY <1>1, <1>3
<1>5. [b2 EXCEPT ![c] = Tail(b2[c])] = buf
  <2>1. Tail(b2[c]) = <<>>
    BY ONLY <1>4, <1>1, HeadTailAppend
  <2> QED
    BY <2>1, <1>3
<1>6. b2[c] # <<>> /\ Head(b2[c]) = Cur(s)
  BY ONLY <1>4, <1>1, HeadTailAppend, AppendProperties
<1>7. lin' = [l2 EXCEPT ![Cur(r)] = Outcome("ok", j, Cur(s))] /\ buf' = buf
  BY DEF Rendezvous
<1>8. Undecided(l2, Cur(r))
  BY <1>1 DEF Undecided, GoInv, CallsTypeOK
<1> HIDE DEF l2, b2
<1>9. OnePlace(lin', buf') /\ Typed(lin', buf')
  BY <1>1, <1>2, <1>5, <1>6, <1>7, <1>8, ValueReceived
<1>10. CallsTypeOK'
  BY <1>9 DEF Rendezvous, GoInv, CallsTypeOK, Typed
<1>11. Fresh'
  <2> DEFINE D == {Cur(s), Cur(r)}
  <2>1. /\ \A w \in Op \ D : lin'[w] = lin[w]
        /\ \A w \in D : lin[w].st = "pending" /\ lin'[w].st \notin {"none", "pending"}
        /\ D \in SUBSET Op
    BY <1>1 DEF Rendezvous, GoInv, CallsTypeOK, Outcome
  <2> HIDE DEF D
  <2> QED
    BY <2>1, <1>10, DecidedStep DEF CallsTypeOK, Rendezvous
<1> QED
  BY <1>9, <1>10, <1>11 DEF GoInv, ExactlyOnce

LEMMA DequeueRefillInv ==
  ASSUME GoInv, NEW s \in Procs, NEW r \in Procs, NEW i \in Int, NEW j \in Int,
         NEW c \in Chans, DequeueRefill(s, i, r, j, c)
  PROVE  GoInv'
<1> DEFINE l2 == [lin EXCEPT ![Cur(r)] = Outcome("ok", j, Head(buf[c]))]
           b2 == [buf EXCEPT ![c] = Tail(buf[c])]
<1>1. /\ Cur(s) \in Op /\ Undecided(lin, Cur(s)) /\ lin[Cur(s)].st = "pending"
      /\ Cur(r) \in Op /\ Undecided(lin, Cur(r)) /\ lin[Cur(r)].st = "pending"
      /\ Cur(s) # Cur(r)
  BY PendingUndecided DEF DequeueRefill, Offers, Cur
<1>2. OnePlace(l2, b2) /\ Typed(l2, b2)
  BY <1>1, ValueReceived DEF GoInv, CallsTypeOK, ExactlyOnce, Typed, DequeueRefill
<1>3. Undecided(l2, Cur(s))
  BY <1>1 DEF Undecided, GoInv, CallsTypeOK
<1>4. /\ lin' = [l2 EXCEPT ![Cur(s)] = Outcome("ok", i, Unset)]
      /\ buf' = [b2 EXCEPT ![c] = Append(b2[c], Cur(s))]
  <2>1. buf \in [Chans -> Seq(Op)] /\ lin \in [Op -> Outcomes(Op \cup {Unset})]
    BY DEF GoInv, CallsTypeOK
  <2>2. lin' = [l2 EXCEPT ![Cur(s)] = Outcome("ok", i, Unset)]
    BY <2>1, <1>1 DEF DequeueRefill
  <2>3. buf' = [b2 EXCEPT ![c] = Append(b2[c], Cur(s))]
    BY <2>1 DEF DequeueRefill
  <2> QED
    BY <2>2, <2>3
<1> HIDE DEF l2, b2
<1>5. OnePlace(lin', buf') /\ Typed(lin', buf')
  BY <1>1, <1>2, <1>3, <1>4, ValueBuffered
<1>6. CallsTypeOK'
  BY <1>5 DEF DequeueRefill, GoInv, CallsTypeOK, Typed
<1>7. Fresh'
  <2> DEFINE D == {Cur(s), Cur(r)}
  <2>1. /\ \A w \in Op \ D : lin'[w] = lin[w]
        /\ \A w \in D : lin[w].st = "pending" /\ lin'[w].st \notin {"none", "pending"}
        /\ D \in SUBSET Op
    BY <1>1 DEF DequeueRefill, GoInv, CallsTypeOK, Outcome
  <2> HIDE DEF D
  <2> QED
    BY <2>1, <1>6, DecidedStep DEF CallsTypeOK, DequeueRefill
<1> QED
  BY <1>5, <1>6, <1>7 DEF GoInv, ExactlyOnce

-----------------------------------------------------------------------------
LEMMA CasesAreNumbered ==
  ASSUME CallsTypeOK, NEW p \in Procs
  PROVE  DOMAIN call[p].cases \subseteq Int
<1>1. CASE call[p] = NoCall
  BY <1>1 DEF NoCall
<1>2. CASE call[p] # NoCall
  BY <1>2, ChanAssumption DEF CallsTypeOK, IsCall
<1> QED
  BY <1>1, <1>2

LEMMA GoInitInv == ASSUME Init PROVE GoInv
<1>1. CallsTypeOK /\ Fresh
  BY ChanAssumption
  DEF Init, CallsInit, CallsTypeOK, Fresh, Outcomes, Outcome, NoIndex, Op
<1>2. ExactlyOnce
  BY ChanAssumption
  DEF Init, CallsInit, ExactlyOnce, OnePlace, Accepted, InBuf, Received, Outcome
<1> QED
  BY <1>1, <1>2 DEF GoInv

LEMMA GoNextInv == ASSUME GoInv, [Next]_goVars PROVE GoInv'
<1>0. CallsTypeOK
  BY DEF GoInv
<1>1. CASE UNCHANGED goVars
  <2>1. /\ closed' = closed /\ buf' = buf /\ nops' = nops /\ call' = call /\ lin' = lin
    BY <1>1 DEF goVars
  <2>2. CallsTypeOK' /\ Fresh'
    BY <2>1 DEF GoInv, CallsTypeOK, Fresh
  <2>3. ExactlyOnce'
    BY <2>1 DEF GoInv, ExactlyOnce
  <2> QED
    BY <2>2, <2>3 DEF GoInv
<1>2. ASSUME NEW p \in Procs, Invoke(p) PROVE GoInv'
  BY <1>2, InvokeInv
<1>3. ASSUME NEW p \in Procs, GiveUp(p) PROVE GoInv'
  <2>1. /\ Pending(p) /\ TimeoutIndex \in Int
        /\ lin' = [lin EXCEPT ![Cur(p)] = Outcome("timeout", TimeoutIndex, Unset)]
        /\ closed' \in [Chans -> BOOLEAN] /\ buf' = buf /\ nops' = nops /\ call' = call
    BY <1>0, <1>3 DEF GiveUp, TimeoutIndex, CallsTypeOK
  <2> QED
    BY <2>1, EndWithoutValueInv
<1>4. ASSUME NEW p \in Procs, Decline(p) PROVE GoInv'
  <2>1. /\ Pending(p) /\ NoIndex \in Int
        /\ lin' = [lin EXCEPT ![Cur(p)] = Outcome("wouldblock", NoIndex, Unset)]
        /\ closed' \in [Chans -> BOOLEAN] /\ buf' = buf /\ nops' = nops /\ call' = call
    BY <1>0, <1>4 DEF Decline, NoIndex, CallsTypeOK
  <2> QED
    BY <2>1, EndWithoutValueInv
<1>5. ASSUME NEW p \in Procs, NEW i \in DOMAIN call[p].cases, NEW c \in Chans,
             Enqueue(p, i, c) \/ Dequeue(p, i, c) \/ Refuse(p, i, c) \/ Close(p, i, c)
      PROVE  GoInv'
  <2>1. i \in Int
    BY <1>0, CasesAreNumbered
  <2>2. CASE Enqueue(p, i, c)
    BY <2>1, <2>2, EnqueueInv
  <2>3. CASE Dequeue(p, i, c)
    BY <2>1, <2>3, DequeueInv
  <2>4. CASE Refuse(p, i, c)
    BY <2>1, <1>0, <2>4, EndWithoutValueInv DEF Refuse, Offers, CallsTypeOK
  <2>5. CASE Close(p, i, c)
    BY <2>1, <1>0, <2>5, EndWithoutValueInv DEF Close, Offers, CallsTypeOK
  <2> QED
    BY <1>5, <2>2, <2>3, <2>4, <2>5
<1>6. ASSUME NEW p \in Procs, NEW i \in DOMAIN call[p].cases, NEW c \in Chans,
             NEW q \in Procs, NEW j \in DOMAIN call[q].cases,
             Rendezvous(p, i, q, j, c) \/ DequeueRefill(p, i, q, j, c)
      PROVE  GoInv'
  <2>1. i \in Int /\ j \in Int
    BY <1>0, CasesAreNumbered
  <2> QED
    BY <2>1, <1>6, RendezvousInv, DequeueRefillInv
<1> QED
  BY <1>1, <1>2, <1>3, <1>4, <1>5, <1>6 DEF Next

(* README: "No value is ever delivered twice or lost": it is so for every  *)
(* number of threads, channels and calls, and every maxsize.               *)
THEOREM PromiseExactlyOnce == Spec => []ExactlyOnce
<1>1. Init => GoInv
  BY GoInitInv
<1>2. GoInv /\ [Next]_goVars => GoInv'
  BY GoNextInv
<1>3. GoInv => ExactlyOnce
  BY DEF GoInv
<1> QED
  BY <1>1, <1>2, <1>3, PTL DEF Spec
=============================================================================
